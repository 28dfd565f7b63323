------------------------ MODULE TrafficCheck_proofs ------------------------
(***************************************************************************)
(* Theorems about TrafficCheck, for any services, sites, filter and bounds *)
(***************************************************************************)
EXTENDS TrafficCheck, FiniteSetTheorems, WellFoundedInduction, TLAPS

USE ConstantsAssumption

-----------------------------------------------------------------------------
(* classify.py's rules *)

\* Only the control's lookup carries its name, so that the one port that is
\* learned is that lookup's.
LEMMA Kinds ==
  DOMAIN Traffic = Leaks \cup {"served", "health", "arp", "group", "control_tcp", "control_dns"}
BY DEF Traffic, Leaks

LEMMA NamedPackets ==
  ASSUME NEW k \in DOMAIN Traffic, NEW p \in Traffic[k], p.named
  PROVE  p.src = Local("q") \/ p.src = Resolver53
<1>1. CASE k = "control_dns"
  <2>1. p \in Query("q", TRUE) \cup Query("q", FALSE) BY <1>1 DEF Traffic
  <2>2. p.src = Local("q") \/ p.src = Resolver53
    <3>1. ASSUME NEW n \in BOOLEAN, p = Header("lo", "In", "IP", FALSE, FALSE, Local("q"), Resolver, n)
          PROVE  p.src = Local("q")
      BY <3>1 DEF Header
    <3>2. ASSUME NEW n \in BOOLEAN, p = Header("lo", "In", "IP", FALSE, FALSE, Resolver53, Local("q"), n)
          PROVE  p.src = Resolver53
      BY <3>2 DEF Header
    <3> QED BY <2>1, <3>1, <3>2 DEF Query
  <2> QED BY <2>2
<1>2. CASE k # "control_dns"
  <2> DEFINE Unnamed(q) == \E i, d, pr, t, sy, s, e : q = Header(i, d, pr, t, sy, s, e, FALSE)
  <2>1. ASSUME Unnamed(p) PROVE FALSE
    BY <2>1, p.named DEF Header
  <2>2. ASSUME k = "served" PROVE Unnamed(p)
    <3>1. p \in Traffic.served BY <2>2
    <3> QED BY <3>1 DEF Traffic, Tcp
  <2>3. ASSUME k = "health" PROVE Unnamed(p)
    <3>1. p \in Traffic.health BY <2>3
    <3> QED BY <3>1 DEF Traffic, Tcp
  <2>4. ASSUME k = "arp" PROVE Unnamed(p)
    <3>1. p \in Traffic.arp BY <2>4
    <3> QED BY <3>1 DEF Traffic, Frame
  <2>5. ASSUME k = "group" PROVE Unnamed(p)
    <3>1. p \in Traffic.group BY <2>5
    <3> QED BY <3>1 DEF Traffic, Packet
  <2>6. ASSUME k = "connect" PROVE Unnamed(p)
    <3>1. p \in Traffic.connect BY <2>6
    <3> QED BY <3>1 DEF Traffic, Tcp
  <2>7. ASSUME k = "to_svc" PROVE Unnamed(p)
    <3>1. p \in Traffic.to_svc BY <2>7
    <3> QED BY <3>1 DEF Traffic, Tcp
  <2>8. ASSUME k = "from_svc" PROVE Unnamed(p)
    <3>1. p \in Traffic.from_svc BY <2>8
    <3> QED BY <3>1 DEF Traffic, Tcp
  <2>9. ASSUME k = "udp" PROVE Unnamed(p)
    <3>1. p \in Traffic.udp BY <2>9
    <3> QED BY <3>1 DEF Traffic, Packet
  <2>10. ASSUME k = "lookup" PROVE Unnamed(p)
    <3>1. p \in Traffic.lookup BY <2>10
    <3> QED BY <3>1 DEF Traffic, Query
  <2>11. ASSUME k = "lookup_out" PROVE Unnamed(p)
    <3>1. p \in Traffic.lookup_out BY <2>11
    <3> QED BY <3>1 DEF Traffic, Packet
  <2>12. ASSUME k = "frame" PROVE Unnamed(p)
    <3>1. p \in Traffic.frame BY <2>12
    <3> QED BY <3>1 DEF Traffic, Frame
  <2>13. ASSUME k = "same_port" PROVE Unnamed(p)
    <3>1. p \in Traffic.same_port BY <2>13
    <3> QED BY <3>1 DEF Traffic, Query
  <2>14. ASSUME k = "control_tcp" PROVE Unnamed(p)
    <3>1. p \in Traffic.control_tcp BY <2>14
    <3> QED BY <3>1 DEF Traffic, Tcp
  <2> HIDE DEF Unnamed
  <2> QED BY <2>1, <2>2, <2>3, <2>4, <2>5, <2>6, <2>7, <2>8, <2>9, <2>10, <2>11, <2>12, <2>13, <2>14, <1>2, Kinds DEF Leaks
<1> QED BY <1>1, <1>2

LEMMA LearnedPort ==
  ASSUME NEW c, c \subseteq UNION {Traffic[k] : k \in DOMAIN Traffic}
  PROVE  Learned(c) \subseteq {Local("q")}
BY NamedPackets DEF Learned, Resolver53

\* Every leak but a lookup from the control's own port has a packet that no
\* rule excuses.
LEMMA LeakIsAViolation ==
  ASSUME NEW k \in Leaks \ {"same_port"}, NEW c, Learned(c) \subseteq {Local("q")}
  PROVE  \E p \in Traffic[k] : ~ Excused(c, p) /\ p # Garbled
<1> USE DEF Header, Tcp, Packet, Garbled, Excused, OnLo, IsReply
<1>1. CASE k = "connect"
  <2> DEFINE p == Tcp("eth0", "Out", <<"self", "x">>, Other("443"), TRUE)
  <2>1. p \in Traffic[k] BY <1>1 DEF Traffic
  <2> QED BY <2>1 DEF Other, Control
<1>2. CASE k = "to_svc"
  <2> DEFINE p == Tcp("eth0", "Out", <<"self", "x">>, Other("svc"), TRUE)
  <2>1. p \in Traffic[k] BY <1>2 DEF Traffic
  <2> QED BY <2>1 DEF Other, Control
<1>3. CASE k = "from_svc"
  <2> DEFINE p == Tcp("eth0", "Out", Serving, Other("443"), TRUE)
  <2>1. p \in Traffic[k] BY <1>3 DEF Traffic
  <2> QED BY <2>1 DEF Other, Control, Serving
<1>4. CASE k = "udp"
  <2> DEFINE p == Packet("eth0", "Out", Serving, Other("123"))
  <2>1. p \in Traffic[k] BY <1>4 DEF Traffic
  <2> QED BY <2>1 DEF Other, Control
<1>5. CASE k = "lookup"
  <2> DEFINE p == Header("lo", "In", "IP", FALSE, FALSE, Local("x"), Resolver, FALSE)
  <2>1. p \in Traffic[k] BY <1>5 DEF Traffic, Query
  <2>2. p.src = Local("x") /\ p.dst = Resolver /\ p.dst # Control /\ p.dst[1] # "multicast"
    BY DEF Local, Resolver, Control
  <2>3. {p.src, p.dst} \cap Learned(c) = {} BY <2>2 DEF Local, Resolver
  <2>4. p.iface = "lo" /\ p.proto = "IP" /\ ~ p.tcp /\ ~ p.named OBVIOUS
  <2>5. p # Garbled OBVIOUS
  <2> HIDE DEF p
  <2> QED BY <2>1, <2>2, <2>3, <2>4, <2>5
<1>6. CASE k = "lookup_out"
  <2> DEFINE p == Packet("eth0", "Out", <<"self", "x">>, Other("53"))
  <2>1. p \in Traffic[k] BY <1>6 DEF Traffic
  <2> QED BY <2>1 DEF Other, Control
<1>7. CASE k = "frame"
  <2>1. Frame("STP") \in Traffic[k] BY <1>7 DEF Traffic
  <2> QED BY <2>1 DEF Frame
<1> QED BY <1>1, <1>2, <1>3, <1>4, <1>5, <1>6, <1>7 DEF Leaks

\* What is no leak is excused, the control's lookup because its name is in
\* the capture.
LEMMA NoLeakIsExcused ==
  ASSUME NEW k \in DOMAIN Traffic \ Leaks, NEW p \in Traffic[k], NEW c,
         k = "control_dns" => Query("q", TRUE) \subseteq c
  PROVE  Excused(c, p)
<1> USE DEF Header, Tcp, Packet, Excused, OnLo, IsReply
<1>1. CASE k = "served"
  <2>1. p \in Traffic.served BY <1>1
  <2>2. ASSUME p = Tcp("eth0", "In", Client, Serving, TRUE) PROVE Excused(c, p)
    BY <2>2 DEF Serving
  <2>3. ASSUME p = Tcp("eth0", "Out", Serving, Client, FALSE) PROVE Excused(c, p)
    BY <2>3 DEF Serving
  <2> QED BY <2>1, <2>2, <2>3 DEF Traffic
<1>2. CASE k = "health"
  <2>1. p \in Traffic.health BY <1>2
  <2>2. ASSUME p = Tcp("lo", "In", Local("h"), Local("svc"), TRUE) PROVE Excused(c, p)
    BY <2>2 DEF Local
  <2>3. ASSUME p = Tcp("lo", "In", Local("svc"), Local("h"), FALSE) PROVE Excused(c, p)
    BY <2>3 DEF Local
  <2> QED BY <2>1, <2>2, <2>3 DEF Traffic
<1>3. CASE k = "arp"
  <2>1. p \in Traffic.arp BY <1>3
  <2>2. ASSUME p = Frame("ARP") PROVE Excused(c, p)
    BY <2>2 DEF Frame
  <2> QED BY <2>1, <2>2 DEF Traffic
<1>4. CASE k = "group"
  <2>1. p \in Traffic.group BY <1>4
  <2>2. ASSUME p = Packet("eth0", "Out", <<"self", "">>, Group) PROVE Excused(c, p)
    BY <2>2 DEF Group
  <2>3. ASSUME p = Packet("eth0", "M", <<"gateway", "">>, Group) PROVE Excused(c, p)
    BY <2>3 DEF Group
  <2> QED BY <2>1, <2>2, <2>3 DEF Traffic
<1>5. CASE k = "control_tcp"
  <2>1. p \in Traffic.control_tcp BY <1>5
  <2>2. ASSUME p = Tcp("eth0", "Out", <<"self", "y">>, Control, TRUE) PROVE Excused(c, p)
    BY <2>2 DEF Control
  <2> QED BY <2>1, <2>2 DEF Traffic
<1>6. CASE k = "control_dns"
  <2>1. Local("q") \in Learned(c)
    <3> DEFINE q == Header("lo", "In", "IP", FALSE, FALSE, Local("q"), Resolver, TRUE)
    <3>1. q \in c BY <1>6 DEF Query
    <3>2. q.named /\ q.src = Local("q") /\ q.src[2] # "53" BY DEF Local
    <3> HIDE DEF q
    <3> QED BY <3>1, <3>2 DEF Learned
  <2>2. p \in Query("q", TRUE) \cup Query("q", FALSE) BY <1>6 DEF Traffic
  <2>3. ASSUME NEW n \in BOOLEAN, p = Header("lo", "In", "IP", FALSE, FALSE, Local("q"), Resolver, n)
        PROVE  Excused(c, p)
    BY <2>1, <2>3
  <2>4. ASSUME NEW n \in BOOLEAN, p = Header("lo", "In", "IP", FALSE, FALSE, Resolver53, Local("q"), n)
        PROVE  Excused(c, p)
    BY <2>1, <2>4
  <2> HIDE DEF Header, Excused
  <2> QED BY <2>2, <2>3, <2>4 DEF Query
<1> HIDE DEF Header, Excused
<1> QED BY <1>1, <1>2, <1>3, <1>4, <1>5, <1>6, Kinds DEF Leaks

-----------------------------------------------------------------------------
(* The crawl's queue *)

\* A set of numbers that is not empty has a least one.
LEMMA LeastOf ==
  ASSUME NEW S \in SUBSET Nat, S # {}
  PROVE  \E n \in S : \A m \in S : n <= m
<1> DEFINE Below == OpToRel(<, Nat)
<1>1. \A y, z \in Nat : y < z => <<y, z>> \in Below BY DEF OpToRel
<1>2. IsWellFoundedOn(Below, Nat) BY NatLessThanWellFounded
<1> HIDE DEF Below
<1>3. PICK n \in S : \A m \in S : <<m, n>> \notin Below BY <1>2, WFMin
<1>4. ASSUME NEW m \in S PROVE n <= m
  <2>1. ~ (m < n) BY <1>1, <1>3
  <2> QED BY <2>1
<1> QED BY <1>4

\* q is s with some more at its end, each of them once.
Extends(s, q) ==
  /\ q \in Seq(Paths) /\ IsInjective(q)
  /\ Len(s) <= Len(q) /\ \A i \in 1 .. Len(s) : q[i] = s[i]

LEMMA AppendNew ==
  ASSUME NEW s \in Seq(Paths), IsInjective(s), NEW x \in Paths \ ToSet(s)
  PROVE  Extends(s, Append(s, x)) /\ ToSet(Append(s, x)) = ToSet(s) \cup {x}
<1> DEFINE q == Append(s, x)
<1>1. q \in Seq(Paths) /\ Len(q) = Len(s) + 1 /\ Len(s) \in Nat OBVIOUS
<1>2. DOMAIN q = 1 .. Len(s) + 1 /\ DOMAIN s = 1 .. Len(s) BY <1>1
<1>3. q[Len(s) + 1] = x /\ \A i \in 1 .. Len(s) : q[i] = s[i] OBVIOUS
<1> HIDE DEF q
<1>4. \A i \in DOMAIN s : s[i] # x BY DEF ToSet
<1>5. IsInjective(q)
  <2> SUFFICES ASSUME NEW i \in DOMAIN q, NEW j \in DOMAIN q, q[i] = q[j] PROVE i = j
    BY DEF IsInjective
  <2>1. CASE i \in 1 .. Len(s) /\ j \in 1 .. Len(s) BY <1>2, <1>3, <2>1 DEF IsInjective
  <2>2. CASE i \in 1 .. Len(s) /\ j = Len(s) + 1 BY <1>2, <1>3, <1>4, <2>2
  <2>3. CASE i = Len(s) + 1 /\ j \in 1 .. Len(s) BY <1>2, <1>3, <1>4, <2>3
  <2>4. CASE i = Len(s) + 1 /\ j = Len(s) + 1 BY <2>4
  <2> QED BY <1>1, <1>2, <2>1, <2>2, <2>3, <2>4
<1>6. ToSet(q) = ToSet(s) \cup {x}
  <2>1. ASSUME NEW y \in ToSet(q) PROVE y \in ToSet(s) \cup {x}
    <3>1. PICK i \in DOMAIN q : y = q[i] BY DEF ToSet
    <3>2. CASE i \in 1 .. Len(s) BY <1>2, <1>3, <3>1, <3>2 DEF ToSet
    <3>3. CASE i = Len(s) + 1 BY <1>3, <3>1, <3>3
    <3> QED BY <1>1, <1>2, <3>2, <3>3
  <2>2. ASSUME NEW y \in ToSet(s) PROVE y \in ToSet(q)
    <3>1. PICK i \in DOMAIN s : y = s[i] BY DEF ToSet
    <3>2. i \in DOMAIN q /\ q[i] = y BY <1>1, <1>2, <1>3, <3>1
    <3> QED BY <3>2 DEF ToSet
  <2>3. x \in ToSet(q)
    <3>1. Len(s) + 1 \in DOMAIN q BY <1>1, <1>2
    <3> QED BY <1>3, <3>1 DEF ToSet
  <2> QED BY <2>1, <2>2, <2>3
<1> QED BY <1>1, <1>3, <1>5, <1>6 DEF Extends, q

\* Queueing the references of an answer leaves the queue's order alone and
\* adds those that were not in it, each once.
LEMMA EnqueueResult ==
  ASSUME NEW paths \in Seq(Paths), IsInjective(paths), NEW refs \in Seq(Paths)
  PROVE  /\ Extends(paths, Enqueue(paths, refs))
         /\ ToSet(Enqueue(paths, refs)) = ToSet(paths) \cup ToSet(refs)
<1> DEFINE n == Len(refs)
           NextQueue(f, i) == IF i = 0 THEN paths
                          ELSE IF refs[i] \in ToSet(f[i - 1]) THEN f[i - 1]
                          ELSE Append(f[i - 1], refs[i])
           Run(m, f) == /\ f \in [0 .. m -> Seq(Paths)]
                        /\ \A i \in 0 .. m : f[i] = NextQueue(f, i)
<1>1. n \in Nat /\ \A i \in 1 .. n : refs[i] \in Paths OBVIOUS
<1>2. \A m \in 0 .. n : \E f : Run(m, f)
  <2> DEFINE Missing == {m \in 0 .. n : ~ \E f : Run(m, f)}
  <2>1. SUFFICES ASSUME Missing # {} PROVE FALSE OBVIOUS
  <2>2. Missing \in SUBSET Nat BY <1>1
  <2>3. PICK m \in Missing : \A k \in Missing : m <= k
    <3> HIDE DEF Missing
    <3> QED BY <2>1, <2>2, LeastOf
  <2>4. CASE m = 0
    <3>1. Run(0, [i \in 0 .. 0 |-> paths]) OBVIOUS
    <3> QED BY <2>4, <3>1
  <2>5. CASE m # 0
    <3>1. m \in 1 .. n /\ m - 1 \in 0 .. n /\ ~ (m <= m - 1) BY <1>1, <2>5
    <3>2. m - 1 \notin Missing BY <2>3, <3>1
    <3>3. PICK f : Run(m - 1, f) BY <3>1, <3>2
    <3> DEFINE g == [i \in 0 .. m |-> IF i = m THEN NextQueue(f, m) ELSE f[i]]
    <3>4. f[m - 1] \in Seq(Paths) BY <1>1, <3>1, <3>3
    <3>5. NextQueue(f, m) \in Seq(Paths)
      <4>1. refs[m] \in Paths BY <1>1, <3>1
      <4> QED BY <3>1, <3>4, <4>1
    <3>6. g \in [0 .. m -> Seq(Paths)]
      <4>1. \A i \in 0 .. m : i # m => i \in 0 .. m - 1 BY <3>1
      <4>2. \A i \in 0 .. m - 1 : f[i] \in Seq(Paths) BY <3>3
      <4> HIDE DEF NextQueue
      <4> QED BY <3>5, <4>1, <4>2
    <3>7. ASSUME NEW i \in 0 .. m PROVE g[i] = NextQueue(g, i)
      <4>1. CASE i = 0 BY <3>1, <3>3, <4>1
      <4>2. CASE i = m
        <5>1. g[m - 1] = f[m - 1] BY <3>1
        <5>2. g[m] = NextQueue(f, m) BY <3>1
        <5> HIDE DEF g
        <5> QED BY <3>1, <4>2, <5>1, <5>2
      <4>3. CASE i # 0 /\ i # m
        <5>1. i \in 0 .. m - 1 /\ i - 1 \in 0 .. m /\ i - 1 # m BY <3>1, <4>3
        <5>2. g[i] = f[i] /\ g[i - 1] = f[i - 1] BY <4>3, <5>1
        <5>3. f[i] = NextQueue(f, i) BY <3>3, <5>1
        <5> HIDE DEF g
        <5> QED BY <4>3, <5>2, <5>3
      <4> QED BY <4>1, <4>2, <4>3
    <3>8. Run(m, g) BY <3>6, <3>7
    <3> QED BY <3>8
  <2> QED BY <2>4, <2>5
<1>3. PICK f : Run(n, f)
  <2>1. n \in 0 .. n BY <1>1
  <2> HIDE DEF Run
  <2> QED BY <1>2, <2>1
<1> DEFINE queued[i \in 0 .. Len(refs)] ==
             IF i = 0 THEN paths
             ELSE IF refs[i] \in ToSet(queued[i - 1]) THEN queued[i - 1]
             ELSE Append(queued[i - 1], refs[i])
<1>4. Enqueue(paths, refs) = queued[n] BY DEF Enqueue
<1>5. queued = [i \in 0 .. Len(refs) |-> NextQueue(queued, i)]
  <2>1. f = [i \in 0 .. Len(refs) |-> NextQueue(f, i)] BY <1>3
  <2> QED BY <2>1, Zenon DEF queued
<1> HIDE DEF queued
<1>6. queued[0] = paths BY <1>1, <1>5
<1>7. \A i \in 1 .. n : queued[i] = IF refs[i] \in ToSet(queued[i - 1]) THEN queued[i - 1]
                                    ELSE Append(queued[i - 1], refs[i])
  <2> TAKE i \in 1 .. n
  <2>1. i \in 0 .. Len(refs) /\ i # 0 BY <1>1
  <2>2. queued[i] = NextQueue(queued, i)
    <3> HIDE DEF NextQueue
    <3> QED BY <1>5, <2>1
  <2> QED BY <2>1, <2>2
<1> DEFINE Right(i) == /\ Extends(paths, queued[i])
                       /\ ToSet(queued[i]) = ToSet(paths) \cup {refs[j] : j \in 1 .. i}
<1>8. \A i \in 0 .. n : Right(i)
  <2> DEFINE Wrong == {i \in 0 .. n : ~ Right(i)}
  <2>1. SUFFICES ASSUME Wrong # {} PROVE FALSE OBVIOUS
  <2>2. PICK m \in Wrong : \A k \in Wrong : m <= k
    <3>1. Wrong \in SUBSET Nat BY <1>1
    <3> HIDE DEF Wrong
    <3> QED BY <2>1, <3>1, LeastOf
  <2>3. Right(0) BY <1>6 DEF Extends
  <2>4. m \in 1 .. n BY <1>1, <2>2, <2>3
  <2>5. Right(m - 1)
    <3>1. m - 1 \in 0 .. n /\ ~ (m <= m - 1) BY <1>1, <2>4
    <3> HIDE DEF Right
    <3> QED BY <2>2, <3>1
  <2>6. {refs[j] : j \in 1 .. m} = {refs[j] : j \in 1 .. m - 1} \cup {refs[m]}
    <3>1. 1 .. m = (1 .. m - 1) \cup {m} BY <1>1, <2>4
    <3> QED BY <3>1
  <2> DEFINE s == queued[m - 1]
             x == refs[m]
  <2>7. s \in Seq(Paths) /\ IsInjective(s) /\ x \in Paths BY <1>1, <2>4, <2>5 DEF Extends
  <2>8. CASE x \in ToSet(s)
    <3>1. queued[m] = s BY <1>7, <2>4, <2>8
    <3> HIDE DEF queued
    <3> QED BY <2>2, <2>5, <2>6, <2>8, <3>1
  <2>9. CASE x \notin ToSet(s)
    <3>1. queued[m] = Append(s, x) BY <1>7, <2>4, <2>9
    <3>2. Extends(s, queued[m]) /\ ToSet(queued[m]) = ToSet(s) \cup {x}
      BY <2>7, <2>9, <3>1, AppendNew
    <3>3. Extends(paths, queued[m])
      <4>1. \A i \in 1 .. Len(paths) : i \in 1 .. Len(s) BY <2>5, <2>7 DEF Extends
      <4>2. Len(paths) \in Nat /\ Len(s) \in Nat /\ Len(queued[m]) \in Nat BY <2>7, <3>2 DEF Extends
      <4> QED BY <2>5, <3>2, <4>1, <4>2 DEF Extends
    <3>4. ToSet(queued[m]) = ToSet(paths) \cup {refs[j] : j \in 1 .. m} BY <2>5, <2>6, <3>2
    <3> QED BY <2>2, <3>3, <3>4
  <2> QED BY <2>8, <2>9
<1>9. Right(n)
  <2>1. n \in 0 .. n BY <1>1
  <2> HIDE DEF Right
  <2> QED BY <1>8, <2>1
<1>10. ToSet(refs) = {refs[j] : j \in 1 .. n} BY DEF ToSet
<1> QED BY <1>4, <1>9, <1>10

-----------------------------------------------------------------------------
(* The captures *)

CaptureTypes ==
  /\ sent \in [Services -> SUBSET DOMAIN Traffic]
  /\ caught \in [Services -> SUBSET (PacketsOf(DOMAIN Traffic) \cup {Garbled})]
  /\ readable \in [Services -> BOOLEAN]

\* Nothing is added to the capture of s, and nothing of it lost.
SameCapture(s) == sent'[s] = sent[s] /\ caught'[s] = caught[s] /\ readable'[s] = readable[s]

LEMMA PacketsOfMore ==
  ASSUME NEW A, NEW B
  PROVE  PacketsOf(A \cup B) = PacketsOf(A) \cup PacketsOf(B)
BY DEF PacketsOf

\* A capture that is lost holds nothing.
LEMMA LoseKeeps ==
  ASSUME CaptureTypes, NEW s \in Services, Lose(s)
  PROVE  /\ caught' \in [Services -> SUBSET (PacketsOf(DOMAIN Traffic) \cup {Garbled})]
         /\ readable' \in [Services -> BOOLEAN]
         /\ caught'[s] = {} /\ ~ readable'[s]
         /\ \A t \in Services \ {s} : caught'[t] = caught[t] /\ readable'[t] = readable[t]
BY DEF CaptureTypes, Lose

\* What passes through the namespace of s is in its capture, or lost, and in
\* no other one.
LEMMA PassesKeeps ==
  ASSUME CaptureTypes, CaptureInv, NEW s \in Services, NEW kinds \in SUBSET DOMAIN Traffic,
         Passes(s, kinds)
  PROVE  /\ CaptureTypes' /\ CaptureInv'
         /\ sent'[s] = sent[s] \cup kinds
         /\ ~ readable[s] => ~ readable'[s]
         /\ \A t \in Services \ {s} : SameCapture(t)
<1> DEFINE packets == PacketsOf(kinds) \ Filtered
           all == PacketsOf(DOMAIN Traffic)
<1>1. sent' = [sent EXCEPT ![s] = @ \cup kinds] BY DEF Passes
<1>2. /\ sent' \in [Services -> SUBSET DOMAIN Traffic]
      /\ sent'[s] = sent[s] \cup kinds
      /\ \A t \in Services \ {s} : sent'[t] = sent[t]
  BY <1>1 DEF CaptureTypes
<1>3. PacketsOf(sent'[s]) \ Filtered = (PacketsOf(sent[s]) \ Filtered) \cup packets
  BY <1>2, PacketsOfMore
<1>4. packets \subseteq all BY DEF PacketsOf
<1>5. CASE readable[s] /\ readable' = readable
           /\ \E line \in SUBSET {Garbled} : caught' = [caught EXCEPT ![s] = @ \cup packets \cup line]
  <2>1. PICK line \in SUBSET {Garbled} : caught' = [caught EXCEPT ![s] = @ \cup packets \cup line]
    BY <1>5
  <2>2. /\ caught' \in [Services -> SUBSET (all \cup {Garbled})]
        /\ caught'[s] = caught[s] \cup packets \cup line
        /\ \A t \in Services \ {s} : caught'[t] = caught[t]
    <3>1. caught \in [Services -> SUBSET (all \cup {Garbled})] BY DEF CaptureTypes
    <3> HIDE DEF packets, all
    <3> QED BY <1>4, <2>1, <3>1
  <2>3. CaptureInv'
    <3> DEFINE Whole(t) == /\ caught[t] \subseteq (PacketsOf(sent[t]) \ Filtered) \cup {Garbled}
                           /\ readable[t] => PacketsOf(sent[t]) \ Filtered \subseteq caught[t]
    <3>1. \A t \in Services : Whole(t) BY DEF CaptureInv
    <3>2. (Whole(s))'
      <4> HIDE DEF packets, all
      <4> QED BY <1>3, <1>5, <2>2, <3>1
    <3>3. ASSUME NEW t \in Services \ {s} PROVE (Whole(t))'
      BY <1>2, <1>5, <2>2, <3>1
    <3> QED BY <3>2, <3>3 DEF CaptureInv
  <2> QED BY <1>2, <1>5, <2>2, <2>3 DEF CaptureTypes, SameCapture
<1>6. CASE Lose(s)
  <2>1. CaptureInv'
    BY <1>2, <1>6, LoseKeeps DEF CaptureInv
  <2> QED BY <1>2, <1>6, <2>1, LoseKeeps DEF CaptureTypes, SameCapture
<1>7. CASE ~ readable[s] /\ caught' = caught /\ readable' = readable
  <2>1. CaptureInv'
    BY <1>2, <1>3, <1>7 DEF CaptureInv
  <2> QED BY <1>2, <1>7, <2>1 DEF CaptureTypes, SameCapture
<1>8. (IF "garble" \in Faults THEN {{}, {Garbled}} ELSE {{}}) \subseteq SUBSET {Garbled} OBVIOUS
<1> QED BY <1>5, <1>6, <1>7, <1>8 DEF Passes

-----------------------------------------------------------------------------
(* The steps of the script *)

LEMMA OwnTraffic ==
  /\ OfItsOwn \subseteq DOMAIN Traffic /\ Controls \subseteq DOMAIN Traffic
  /\ "served" \in DOMAIN Traffic /\ "served" \notin Controls /\ OfItsOwn \cap Controls = {}
BY Kinds DEF OfItsOwn, Controls, Leaks

\* Captures are added to while they run, and with the controls only when the
\* script plants them.
LEMMA CaptureStep ==
  ASSUME TypeOK, CaptureInv, ScanInv, Next
  PROVE  /\ CaptureTypes' /\ CaptureInv'
         /\ phase \in {"exercise", "page", "crawl"} =>
              \A s \in Services : sent'[s] \cap Controls = sent[s] \cap Controls
<1> DEFINE Goal == /\ CaptureTypes' /\ CaptureInv'
                   /\ phase \in {"exercise", "page", "crawl"} =>
                        \A s \in Services : sent'[s] \cap Controls = sent[s] \cap Controls
<1>1. CaptureTypes BY DEF TypeOK, CaptureTypes
<1>2. "api" \in Services OBVIOUS
<1>3. ASSUME NEW s \in Services, NEW kinds \in SUBSET DOMAIN Traffic, Passes(s, kinds),
             kinds \cap Controls = {} \/ phase \notin {"exercise", "page", "crawl"}
      PROVE  Goal
  <2>1. /\ CaptureTypes' /\ CaptureInv'
        /\ sent'[s] = sent[s] \cup kinds
        /\ \A t \in Services \ {s} : SameCapture(t)
    BY <1>1, <1>3, PassesKeeps
  <2>2. \A t \in Services \ {s} : sent'[t] = sent[t] BY <2>1 DEF SameCapture
  <2> QED BY <1>3, <2>1, <2>2
<1>4. ASSUME UNCHANGED <<sent, caught, readable>> PROVE Goal
  BY <1>1, <1>4 DEF CaptureTypes, CaptureInv
<1>5. ASSUME NEW s \in Services, Send(s) PROVE Goal
  <2>1. PICK k \in OfItsOwn : Passes(s, {k}) BY <1>5 DEF Send
  <2>2. {k} \in SUBSET DOMAIN Traffic /\ {k} \cap Controls = {} BY OwnTraffic
  <2> HIDE DEF Goal
  <2> QED BY <1>3, <2>1, <2>2
<1>6. ASSUME NEW s \in Services, Lose(s), sent' = sent PROVE Goal
  <2>1. /\ caught' \in [Services -> SUBSET (PacketsOf(DOMAIN Traffic) \cup {Garbled})]
        /\ readable' \in [Services -> BOOLEAN]
        /\ caught'[s] = {} /\ ~ readable'[s]
        /\ \A t \in Services \ {s} : caught'[t] = caught[t] /\ readable'[t] = readable[t]
    BY <1>1, <1>6, LoseKeeps
  <2>2. CaptureTypes' BY <1>1, <1>6, <2>1 DEF CaptureTypes
  <2>3. CaptureInv' BY <1>6, <2>1 DEF CaptureInv
  <2> QED BY <1>6, <2>2, <2>3
<1>7. ASSUME NEW s \in Services, PlantControls(s) PROVE Goal
  <2>1. PICK kinds \in {{"control_tcp"}, {"control_dns"}, {"control_tcp", "control_dns"}} : Passes(s, kinds)
    BY <1>7 DEF PlantControls
  <2>2. kinds \in SUBSET DOMAIN Traffic BY OwnTraffic DEF Controls
  <2>3. phase = "controls" BY <1>7 DEF PlantControls
  <2> HIDE DEF Goal
  <2> QED BY <1>3, <2>1, <2>2, <2>3
<1>8. ASSUME Exercise PROVE Goal
  <2>1. Passes("api", {"served"}) \/ UNCHANGED <<sent, caught, readable>> BY <1>8 DEF Exercise
  <2>2. {"served"} \in SUBSET DOMAIN Traffic /\ {"served"} \cap Controls = {} BY OwnTraffic
  <2> HIDE DEF Goal
  <2> QED BY <1>2, <1>3, <1>4, <2>1, <2>2
<1>9. ASSUME Fetch PROVE Goal
  <2>1. "web" \in Services BY <1>9 DEF Fetch, ScanInv
  <2>2. Passes("web", {"served"}) \/ UNCHANGED <<sent, caught, readable>> BY <1>9 DEF Fetch
  <2>3. {"served"} \in SUBSET DOMAIN Traffic /\ {"served"} \cap Controls = {} BY OwnTraffic
  <2> HIDE DEF Goal
  <2> QED BY <1>3, <1>4, <2>1, <2>2, <2>3
<1>10. ASSUME ScanPage \/ CrawlEnds \/ ControlsFail \/ ControlsArePlanted PROVE Goal
  <2>1. UNCHANGED <<sent, caught, readable>>
    BY <1>10 DEF ScanPage, CrawlEnds, ControlsFail, ControlsArePlanted
  <2> HIDE DEF Goal
  <2> QED BY <1>4, <2>1
<1>11. ASSUME NEW s \in Services, ObserverDies(s) \/ Judge(s) PROVE Goal
  <2>1. sent' = sent /\ (Lose(s) \/ UNCHANGED <<caught, readable>>)
    BY <1>11 DEF ObserverDies, Judge, StopCapture, CountDrops, Classify
  <2> HIDE DEF Goal
  <2> QED BY <1>4, <1>6, <2>1
<1> HIDE DEF Goal
<1>12. Goal BY <1>5, <1>7, <1>8, <1>9, <1>10, <1>11 DEF Next
<1> QED BY <1>12 DEF Goal

ObserverTypes ==
  /\ alive \in [Services -> BOOLEAN]
  /\ stage \in [Services -> {"running", "stopped", "counted"}]

\* Nothing happens to s that would have it judged otherwise.
SameJudgement(s) ==
  /\ stage'[s] = stage[s]
  /\ ~ readable[s] => ~ readable'[s]
  /\ stage[s] = "counted" => alive'[s] = alive[s] /\ caught'[s] = caught[s] /\ readable'[s] = readable[s]

\* Observers end and captures are taken down in order, that of the API before
\* that of the site.
LEMMA ObserverStep ==
  ASSUME TypeOK, CaptureInv, ObserverInv, ScanInv, Next
  PROVE  /\ ObserverTypes' /\ ObserverInv'
         /\ phase = "web" => SameJudgement("api")
<1> DEFINE Goal == /\ ObserverTypes' /\ ObserverInv'
                   /\ phase = "web" => SameJudgement("api")
           Early == {"exercise", "page", "crawl", "controls"}
<1>1. CaptureTypes /\ ObserverTypes BY DEF TypeOK, CaptureTypes, ObserverTypes
<1>2. "api" \in Services /\ Services \cap Early = {} OBVIOUS
<1>3. phase' \in Early => phase \in Early
  BY DEF Next, Send, ObserverDies, PlantControls, Exercise, ScanPage, Fetch, CrawlEnds, ControlsFail,
         ControlsArePlanted, Judge, StopCapture, CountDrops, Classify, GoesOn, Concludes, After, Continue, Exit
<1>4. ASSUME NEW s \in Services, NEW kinds \in SUBSET DOMAIN Traffic, Passes(s, kinds),
             UNCHANGED <<alive, stage>>, stage[s] = "running"
      PROVE  Goal
  <2>1. /\ ~ readable[s] => ~ readable'[s]
        /\ \A t \in Services \ {s} : SameCapture(t)
    BY <1>1, <1>4, PassesKeeps
  <2>2. ObserverTypes' BY <1>1, <1>4 DEF ObserverTypes
  <2>3. ObserverInv' BY <1>3, <1>4, <2>1 DEF ObserverInv, SameCapture
  <2>4. SameJudgement("api") BY <1>2, <1>4, <2>1 DEF SameJudgement, SameCapture
  <2> QED BY <2>2, <2>3, <2>4
<1>5. ASSUME UNCHANGED <<caught, readable, alive, stage>> PROVE Goal
  BY <1>1, <1>3, <1>5 DEF ObserverTypes, ObserverInv, SameJudgement
<1>6. ASSUME NEW s \in Services, ObserverDies(s) PROVE Goal
  <2>1. /\ caught'[s] = {} /\ ~ readable'[s]
        /\ \A t \in Services \ {s} : caught'[t] = caught[t] /\ readable'[t] = readable[t]
    BY <1>1, <1>6, LoseKeeps DEF ObserverDies
  <2>2. /\ alive' \in [Services -> BOOLEAN] /\ ~ alive'[s]
        /\ \A t \in Services \ {s} : alive'[t] = alive[t]
    BY <1>1, <1>6 DEF ObserverDies, ObserverTypes
  <2>3. stage' = stage /\ (stage[s] = "running" \/ phase = s) BY <1>6 DEF ObserverDies
  <2>4. ObserverTypes' BY <1>1, <2>2, <2>3 DEF ObserverTypes
  <2>5. ObserverInv' BY <1>3, <2>1, <2>2, <2>3 DEF ObserverInv
  <2>6. phase = "web" => SameJudgement("api") BY <1>2, <2>1, <2>2, <2>3 DEF SameJudgement
  <2> QED BY <2>4, <2>5, <2>6
<1>7. ASSUME NEW s \in Services, StopCapture(s) PROVE Goal
  <2>1. phase = s /\ stage[s] = "running" /\ alive' = alive /\ phase' \notin Early
    BY <1>2, <1>3, <1>7 DEF StopCapture
  <2>2. CASE stage' = [stage EXCEPT ![s] = "stopped"] /\ UNCHANGED <<caught, readable>>
    <3>1. /\ stage' \in [Services -> {"running", "stopped", "counted"}] /\ stage'[s] = "stopped"
          /\ \A t \in Services \ {s} : stage'[t] = stage[t]
      BY <1>1, <2>2 DEF ObserverTypes
    <3> QED BY <1>1, <1>2, <2>1, <2>2, <3>1 DEF ObserverTypes, ObserverInv, SameJudgement
  <2>3. CASE Lose(s) /\ stage' = stage
    <3>1. /\ caught'[s] = {} /\ ~ readable'[s]
          /\ \A t \in Services \ {s} : caught'[t] = caught[t] /\ readable'[t] = readable[t]
      BY <1>1, <2>3, LoseKeeps
    <3> QED BY <1>1, <1>2, <2>1, <2>3, <3>1 DEF ObserverTypes, ObserverInv, SameJudgement
  <2> QED BY <1>7, <2>2, <2>3 DEF StopCapture
<1>8. ASSUME NEW s \in Services, CountDrops(s) PROVE Goal
  <2>1. phase = s /\ UNCHANGED <<caught, alive, readable>> /\ phase' \notin Early
    BY <1>2, <1>3, <1>8 DEF CountDrops
  <2>2. CASE stage' = [stage EXCEPT ![s] = "counted"] /\ readable[s]
    <3>1. /\ stage' \in [Services -> {"running", "stopped", "counted"}] /\ stage'[s] = "counted"
          /\ \A t \in Services \ {s} : stage'[t] = stage[t]
      BY <1>1, <2>2 DEF ObserverTypes
    <3> QED BY <1>1, <1>2, <2>1, <2>2, <3>1 DEF ObserverTypes, ObserverInv, SameJudgement
  <2>3. CASE stage' = stage
    BY <1>5, <2>1, <2>3
  <2> QED BY <1>8, <2>2, <2>3 DEF CountDrops
<1>9. ASSUME NEW s \in Services, Send(s) \/ PlantControls(s) PROVE Goal
  <2>1. UNCHANGED <<alive, stage>> /\ stage[s] = "running"
    BY <1>9 DEF Send, PlantControls, observers, ObserverInv
  <2>2. \E kinds \in SUBSET DOMAIN Traffic : Passes(s, kinds)
    <3>1. CASE Send(s) BY <3>1, OwnTraffic DEF Send
    <3>2. CASE PlantControls(s) BY <3>2, OwnTraffic DEF PlantControls, Controls
    <3> QED BY <1>9, <3>1, <3>2
  <2> HIDE DEF Goal
  <2> QED BY <1>4, <2>1, <2>2
<1>10. ASSUME Exercise \/ Fetch PROVE Goal
  <2>1. UNCHANGED <<alive, stage>> /\ \A s \in Services : stage[s] = "running"
    BY <1>10 DEF Exercise, Fetch, observers, ObserverInv
  <2>2. UNCHANGED <<caught, readable>> \/ \E s \in Services : Passes(s, {"served"})
    BY <1>2, <1>10 DEF Exercise, Fetch, ScanInv
  <2>3. {"served"} \in SUBSET DOMAIN Traffic BY OwnTraffic
  <2> HIDE DEF Goal
  <2> QED BY <1>4, <1>5, <2>1, <2>2, <2>3
<1>11. ASSUME ScanPage \/ CrawlEnds \/ ControlsFail \/ ControlsArePlanted \/ \E s \in Services : Classify(s)
       PROVE  Goal
  <2>1. UNCHANGED <<caught, readable, alive, stage>>
    BY <1>11 DEF ScanPage, CrawlEnds, ControlsFail, ControlsArePlanted, Classify, observers
  <2> HIDE DEF Goal
  <2> QED BY <1>5, <2>1
<1> HIDE DEF Goal
<1>12. Goal BY <1>6, <1>7, <1>8, <1>9, <1>10, <1>11 DEF Next, Judge
<1> QED BY <1>12 DEF Goal

LEMMA RefsType ==
  ASSUME TypeOK, NEW p \in Paths
  PROVE  Refs(p) \in Seq(Paths)
<1>1. site[p] \in Reply BY DEF TypeOK
<1> QED BY <1>1 DEF Refs, Reply

\* The next path is fetched, and what it refers to is queued.
LEMMA FetchKeeps ==
  ASSUME TypeOK, CrawlInv, fetched < Len(queue), fetched < Limit, site' = site,
         fetched' = fetched + 1, queue' = Enqueue(queue, Refs(queue[fetched + 1]))
  PROVE  /\ queue' \in Seq(Paths) /\ IsInjective(queue') /\ fetched' \in 0 .. Limit
         /\ CrawlInv'
<1> DEFINE p == queue[fetched + 1]
<1>1. fetched \in Nat /\ Limit \in Nat /\ Len(queue) \in Nat /\ queue \in Seq(Paths) BY DEF TypeOK
<1>2. fetched + 1 \in 1 .. Len(queue) BY <1>1
<1>3. p \in Paths /\ p \in ToSet(queue) BY <1>1, <1>2 DEF ToSet
<1>4. Extends(queue, queue') /\ ToSet(queue') = ToSet(queue) \cup ToSet(Refs(p))
  <2>1. Refs(p) \in Seq(Paths) /\ IsInjective(queue) BY <1>3, RefsType DEF TypeOK
  <2> HIDE DEF p
  <2> QED BY <1>1, <2>1, EnqueueResult DEF p
<1>5. queue' \in Seq(Paths) /\ IsInjective(queue') /\ Len(queue) <= Len(queue')
  BY <1>4 DEF Extends
<1>6. fetched' \in 0 .. Limit /\ fetched' <= Len(queue')
  <2>1. Len(queue') \in Nat BY <1>5
  <2> QED BY <1>1, <1>5, <2>1
<1>7. Fetched' = Fetched \cup {p}
  <2>1. 1 .. fetched' = (1 .. fetched) \cup {fetched + 1} BY <1>1
  <2>2. \A i \in 1 .. fetched' : i \in 1 .. Len(queue) BY <1>1
  <2>3. \A i \in 1 .. fetched' : queue'[i] = queue[i] BY <1>4, <2>2 DEF Extends
  <2>4. Fetched' = {queue[i] : i \in 1 .. fetched'} BY <2>3 DEF Fetched
  <2> QED BY <2>1, <2>4 DEF Fetched
<1>8. \A q \in Paths : (Refs(q))' = Refs(q) BY DEF Refs
<1>9. Pulled' = Pulled
  BY DEF Pulled, Closed, Refs
<1>10. ToSet(Refs(p)) \subseteq Pulled
  <2>1. p \in Pulled BY <1>3 DEF CrawlInv
  <2>2. ToSet(Refs(p)) \subseteq Paths
    <3>1. Refs(p) \in Seq(Paths) BY <1>3, RefsType
    <3> QED BY <3>1 DEF ToSet
  <2> HIDE DEF p
  <2> QED BY <2>1, <2>2 DEF Pulled, Closed
<1>11. \A q \in Fetched' : ToSet((Refs(q))') \subseteq ToSet(queue')
  <2>1. \A q \in Fetched : q \in Paths
    <3>1. \A i \in 1 .. fetched : i \in 1 .. Len(queue) BY <1>1
    <3> QED BY <1>1, <3>1 DEF Fetched
  <2>2. \A q \in Fetched : ToSet(Refs(q)) \subseteq ToSet(queue) BY DEF CrawlInv
  <2> HIDE DEF p
  <2> QED BY <1>3, <1>4, <1>7, <1>8, <2>1, <2>2
<1>12. CrawlInv'
  <2>1. ToSet(Pages) \subseteq ToSet(queue') /\ ToSet(queue') \subseteq Pulled'
    <3> HIDE DEF p
    <3> QED BY <1>4, <1>9, <1>10 DEF CrawlInv
  <2> QED BY <1>6, <1>11, <2>1 DEF CrawlInv
<1> QED BY <1>5, <1>6, <1>12

\* Only the crawl moves the crawl.
LEMMA CrawlStep ==
  ASSUME TypeOK, CrawlInv, Next
  PROVE  /\ site' = site /\ page' = page
         /\ phase # "crawl" => UNCHANGED <<queue, fetched>>
         /\ phase = "crawl" /\ phase' # "crawl" => UNCHANGED <<queue, fetched>>
         /\ queue' \in Seq(Paths) /\ IsInjective(queue') /\ fetched' \in 0 .. Limit
         /\ CrawlInv'
<1>0. \A s : Judge(s) => UNCHANGED crawl BY DEF Judge, StopCapture, CountDrops, Classify
<1>1. CASE Fetch
  <2>1. /\ phase = "crawl" /\ fetched < Len(queue) /\ fetched < Limit
        /\ site' = site /\ page' = page
    BY <1>1 DEF Fetch
  <2>2. CASE phase' = phase /\ fetched' = fetched + 1
             /\ queue' = Enqueue(queue, Refs(queue[fetched + 1]))
    BY <2>1, <2>2, FetchKeeps
  <2>3. CASE UNCHANGED <<queue, fetched>>
    BY <2>1, <2>3 DEF TypeOK, CrawlInv, Fetched, Refs, Pulled, Closed
  <2> QED BY <1>1, <2>2, <2>3 DEF Fetch
<1>2. CASE UNCHANGED crawl
  BY <1>2 DEF crawl, TypeOK, CrawlInv, Fetched, Refs, Pulled, Closed
<1> QED BY <1>0, <1>1, <1>2 DEF Next, Send, ObserverDies, PlantControls, Exercise, ScanPage, CrawlEnds,
                               ControlsFail, ControlsArePlanted, crawl

\* Judging goes on with the same service, or comes to its conclusion.
LEMMA JudgeOrder ==
  ASSUME NEW s \in Services, Judge(s)
  PROVE  /\ phase = s /\ UNCHANGED crawl
         /\ GoesOn \/ \E found, missed \in BOOLEAN : Concludes(s, found, missed)
<1>1. CASE StopCapture(s)
  <2>1. GoesOn \/ Concludes(s, FALSE, TRUE) BY <1>1 DEF StopCapture
  <2> QED BY <1>1, <2>1 DEF StopCapture
<1>2. CASE CountDrops(s)
  <2>1. GoesOn \/ Concludes(s, FALSE, TRUE) BY <1>2 DEF CountDrops
  <2> QED BY <1>2, <2>1 DEF CountDrops
<1>3. CASE Classify(s)
  <2> DEFINE found == ~ alive[s] \/ Classified(caught[s]) = "fail"
             missed == alive[s] /\ Classified(caught[s]) = "blind"
  <2>1. Concludes(s, found, missed) BY <1>3 DEF Classify
  <2>2. Concludes(s, found, missed) => \E f, m \in BOOLEAN : Concludes(s, f, m)
    <3>1. found \in BOOLEAN /\ missed \in BOOLEAN OBVIOUS
    <3> HIDE DEF found, missed
    <3> QED BY <3>1
  <2> QED BY <1>3, <2>1, <2>2 DEF Classify
<1> QED BY <1>1, <1>2, <1>3 DEF Judge

\* The site follows the API; nothing follows the last capture.
LEMMA AfterIs ==
  ASSUME NEW s \in Services
  PROVE  \/ After(s) = "web" /\ s = "api" /\ Services = {"api", "web"}
         \/ After(s) = "done" /\ Services = {s}
         \/ After(s) = "done" /\ s = "web" /\ Services = {"api", "web"}
BY DEF After

LEMMA ScriptTypes ==
  ASSUME TypeOK, ScanInv, Next
  PROVE  /\ phase' \in {"exercise", "page", "crawl", "controls", "api", "web", "done"}
         /\ findings' \subseteq Services \cup {"page", "site"}
         /\ blinds' \subseteq Services
         /\ verdict' \in {"none", "pass", "fail", "blind"} /\ (verdict' # "none" <=> phase' = "done")
<1> DEFINE Goal == /\ phase' \in {"exercise", "page", "crawl", "controls", "api", "web", "done"}
                   /\ findings' \subseteq Services \cup {"page", "site"}
                   /\ blinds' \subseteq Services
                   /\ verdict' \in {"none", "pass", "fail", "blind"}
                   /\ verdict' # "none" <=> phase' = "done"
<1> USE DEF TypeOK
<1>1. CASE \E s \in Services : Send(s) \/ ObserverDies(s) \/ PlantControls(s)
  BY <1>1 DEF Send, ObserverDies, PlantControls
<1>2. CASE Exercise BY <1>2 DEF Exercise, Continue, Exit
<1>3. CASE ScanPage BY <1>3 DEF ScanPage, Continue, Exit
<1>4. CASE Fetch BY <1>4 DEF Fetch, Exit
<1>5. CASE CrawlEnds BY <1>5 DEF CrawlEnds, Continue, Exit
<1>6. CASE ControlsFail BY <1>6 DEF ControlsFail, Exit
<1>7. CASE ControlsArePlanted BY <1>7 DEF ControlsArePlanted
<1>8. ASSUME NEW s \in Services, phase = s, NEW found, NEW missed, Concludes(s, found, missed)
      PROVE  Goal
  <2>1. verdict' = IF After(s) = "done" THEN Verdict(findings', blinds') ELSE verdict BY <1>8 DEF Concludes
  <2>2. Verdict(findings', blinds') \in {"pass", "fail", "blind"} BY DEF Verdict
  <2>3. phase' = After(s) /\ After(s) \in {"web", "done"} BY <1>8, AfterIs DEF Concludes
  <2>4. findings' \subseteq Services \cup {"page", "site"} /\ blinds' \subseteq Services
    BY <1>8 DEF Concludes
  <2> QED BY <1>8, <2>1, <2>2, <2>3, <2>4
<1>9. CASE \E s \in Services : Judge(s)
  <2>1. GoesOn => Goal BY DEF GoesOn
  <2> HIDE DEF Goal
  <2>2. Goal BY <1>8, <1>9, <2>1, JudgeOrder
  <2> QED BY <2>2 DEF Goal
<1> QED BY <1>1, <1>2, <1>3, <1>4, <1>5, <1>6, <1>7, <1>9 DEF Next

LEMMA ControlsStep ==
  ASSUME TypeOK, CaptureInv, ScanInv, ControlsInv, Next
  PROVE  ControlsInv'
<1>1. ASSUME NEW s \in Services, Judge(s) PROVE phase' \notin {"exercise", "page", "crawl"}
  <2>1. phase = s /\ (phase' = phase \/ phase' = After(s)) BY <1>1, JudgeOrder DEF GoesOn, Concludes
  <2>2. s \in {"api", "web"} OBVIOUS
  <2> QED BY <2>1, <2>2, AfterIs
<1>2. phase' \in {"exercise", "page", "crawl"} => phase \in {"exercise", "page", "crawl"}
  BY <1>1
     DEF TypeOK, Next, Send, ObserverDies, PlantControls, Exercise, ScanPage, Fetch, CrawlEnds, ControlsFail,
         ControlsArePlanted, Continue, Exit
<1> QED BY <1>2, CaptureStep DEF ControlsInv

\* A conclusion is about no one else.
LEMMA ConcludesOne ==
  ASSUME NEW s, NEW found, NEW missed, Concludes(s, found, missed)
  PROVE  \A t : t # s => (t \in findings' <=> t \in findings) /\ (t \in blinds' <=> t \in blinds)
BY DEF Concludes

\* A service is judged by its capture as it stands.
LEMMA JudgeMakes ==
  ASSUME TypeOK, ObserverInv, NEW s \in Services, Judge(s), phase' # phase, Unjudged(s)
  PROVE  Judged(s)'
<1> USE DEF Unjudged, Judged, Finds, Misses, Orphaned
<1>1. CASE StopCapture(s)
  <2>1. Concludes(s, FALSE, TRUE) /\ Lose(s) /\ stage' = stage /\ stage[s] = "running"
    BY <1>1 DEF StopCapture, GoesOn
  <2>2. ~ readable'[s] BY <2>1 DEF Lose, TypeOK
  <2>3. s \notin findings' /\ s \in blinds' BY <2>1 DEF Concludes
  <2> QED BY <2>1, <2>2, <2>3
<1>2. CASE CountDrops(s)
  <2>1. Concludes(s, FALSE, TRUE) /\ ~ readable[s] /\ stage' = stage /\ stage[s] = "stopped" /\ readable' = readable
    BY <1>2 DEF CountDrops, GoesOn
  <2>2. s \notin findings' /\ s \in blinds' BY <2>1 DEF Concludes
  <2> QED BY <2>1, <2>2
<1>3. CASE Classify(s)
  <2>1. stage[s] = "counted" /\ UNCHANGED <<caught, alive, stage, readable>>
    BY <1>3 DEF Classify, observers
  <2>2. /\ s \in findings' <=> ~ alive[s] \/ Classified(caught[s]) = "fail"
        /\ s \in blinds' <=> alive[s] /\ Classified(caught[s]) = "blind"
    BY <1>3 DEF Classify, Concludes
  <2>3. alive[s] <=> readable[s] BY <2>1 DEF ObserverInv
  <2> QED BY <2>1, <2>2, <2>3
<1> QED BY <1>1, <1>2, <1>3 DEF Judge

LEMMA StaysJudged ==
  ASSUME NEW s, Judged(s), SameJudgement(s),
         s \in findings' <=> s \in findings, s \in blinds' <=> s \in blinds
  PROVE  Judged(s)'
<1>1. CASE stage[s] = "counted"
  BY <1>1 DEF Judged, Finds, Misses, Orphaned, SameJudgement
<1>2. CASE stage[s] # "counted"
  <2>1. ~ readable[s] /\ ~ readable'[s] /\ stage'[s] # "counted" BY <1>2 DEF Judged, SameJudgement
  <2> QED BY <1>2, <2>1 DEF Judged, Finds, Misses, Orphaned
<1> QED BY <1>1, <1>2

\* The scans are as they were found.
LEMMA ScannedStays ==
  ASSUME Scanned, UNCHANGED crawl, \A f \in {"page", "site"} : f \in findings' <=> f \in findings
  PROVE  Scanned'
BY DEF Scanned, crawl, Fetched

LEMMA ScanStep ==
  ASSUME TypeOK, CrawlInv, ScanInv, JudgeInv, Next
  PROVE  ScanInv'
<1>1. CASE \E s \in Services : Send(s) \/ ObserverDies(s) \/ PlantControls(s)
  <2>1. UNCHANGED <<phase, crawl, findings>> BY <1>1 DEF Send, ObserverDies, PlantControls
  <2> QED BY <2>1, ScannedStays DEF ScanInv, crawl
<1>2. CASE Exercise BY <1>2 DEF Exercise, Continue, Exit, ScanInv
<1>3. CASE ScanPage BY <1>3 DEF ScanPage, Continue, Exit, ScanInv, Scanned, crawl
<1>4. CASE Fetch BY <1>4 DEF Fetch, Exit, ScanInv
<1>5. CASE CrawlEnds
  <2>1. phase = "crawl" /\ UNCHANGED crawl /\ (fetched = Len(queue) \/ fetched = Limit)
        /\ "web" \in Services /\ ("page" \in findings <=> page) /\ "site" \notin findings
    BY <1>5 DEF CrawlEnds, ScanInv
  <2>2. CASE phase' = "done" BY <2>2 DEF ScanInv
  <2>3. CASE phase' = "controls"
             /\ findings' = IF \E p \in Fetched : site[p].remote THEN findings \cup {"site"} ELSE findings
    <3>1. Scanned' BY <2>1, <2>3 DEF Scanned, crawl, Fetched
    <3> QED BY <2>3, <3>1 DEF ScanInv
  <2> QED BY <1>5, <2>2, <2>3 DEF CrawlEnds, Continue, Exit
<1>6. CASE ControlsFail BY <1>6 DEF ControlsFail, Exit, ScanInv
<1>7. CASE ControlsArePlanted
  <2>1. phase = "controls" /\ phase' = "api" /\ UNCHANGED <<crawl, findings>> BY <1>7 DEF ControlsArePlanted
  <2> QED BY <2>1, ScannedStays DEF ScanInv
<1>8. ASSUME NEW s \in Services, Judge(s) PROVE ScanInv'
  <2>1. phase = s /\ UNCHANGED crawl BY <1>8, JudgeOrder
  <2>2. phase \in {"api", "web"} BY <2>1
  <2>3. \A f \in {"page", "site"} : f \in findings' <=> f \in findings
    <3>1. "page" \notin Services /\ "site" \notin Services OBVIOUS
    <3>2. GoesOn \/ \A t : t # s => (t \in findings' <=> t \in findings) BY <1>8, JudgeOrder, ConcludesOne
    <3> QED BY <3>1, <3>2 DEF GoesOn
  <2>4. Scanned' BY <2>1, <2>2, <2>3, ScannedStays DEF ScanInv
  <2>5. phase' = s \/ phase' = After(s) BY <1>8, <2>1, JudgeOrder DEF GoesOn, Concludes
  <2>6. phase' \in {"api", "web", "done"} /\ (phase' = "web" => "web" \in Services)
    BY <2>1, <2>2, <2>5, AfterIs
  <2> QED BY <2>4, <2>6 DEF ScanInv
<1> QED BY <1>1, <1>2, <1>3, <1>4, <1>5, <1>6, <1>7, <1>8 DEF Next

LEMMA JudgeStep ==
  ASSUME TypeOK, CaptureInv, ObserverInv, ScanInv, JudgeInv, Next
  PROVE  JudgeInv'
<1>1. phase = "web" => SameJudgement("api") BY ObserverStep
<1>2. "page" \notin Services /\ "site" \notin Services /\ "api" \in Services OBVIOUS
<1>3. CASE UNCHANGED <<phase, findings, blinds>>
  <2>1. phase = "web" => Judged("api")' BY <1>1, <1>3, StaysJudged DEF JudgeInv
  <2> QED BY <1>3, <2>1 DEF JudgeInv, Unjudged
<1>4. CASE phase \notin {"web", "done"} /\ phase' # "web" /\ blinds' = blinds
           /\ findings' \subseteq findings \cup {"page", "site"}
  BY <1>2, <1>4 DEF JudgeInv, Unjudged
<1>5. CASE phase' = "done" BY <1>5 DEF JudgeInv
<1>6. ASSUME NEW s \in Services, Judge(s) PROVE JudgeInv'
  <2>1. phase = s BY <1>6, JudgeOrder
  <2>2. CASE GoesOn BY <1>3, <2>2 DEF GoesOn
  <2>3. CASE \E found, missed \in BOOLEAN : Concludes(s, found, missed)
    <3>1. phase' = After(s) /\ \A t : t # s => (t \in findings' <=> t \in findings) /\ (t \in blinds' <=> t \in blinds)
      BY <2>3, ConcludesOne DEF Concludes
    <3>2. CASE After(s) = "done" BY <1>5, <3>1, <3>2
    <3>3. CASE After(s) = "web" /\ s = "api" /\ Services = {"api", "web"}
      <4>1. Unjudged("api") /\ Unjudged("web") BY <2>1, <3>3 DEF JudgeInv
      <4>2. Judged("api")' BY <1>6, <2>1, <3>1, <3>3, <4>1, JudgeMakes
      <4>3. Unjudged("web")' BY <3>1, <3>3, <4>1 DEF Unjudged
      <4> QED BY <3>1, <3>3, <4>2, <4>3 DEF JudgeInv
    <3> QED BY <3>2, <3>3, AfterIs
  <2> QED BY <1>6, <2>2, <2>3, JudgeOrder
<1>7. CASE \E s \in Services : Send(s) \/ ObserverDies(s) \/ PlantControls(s)
  BY <1>3, <1>7 DEF Send, ObserverDies, PlantControls
<1>8. CASE Exercise BY <1>4, <1>5, <1>8 DEF Exercise, Continue, Exit
<1>9. CASE ScanPage BY <1>4, <1>5, <1>9 DEF ScanPage, Continue, Exit
<1>10. CASE Fetch BY <1>3, <1>5, <1>10 DEF Fetch, Exit
<1>11. CASE CrawlEnds BY <1>4, <1>5, <1>11 DEF CrawlEnds, Continue, Exit
<1>12. CASE ControlsFail BY <1>5, <1>12 DEF ControlsFail, Exit
<1>13. CASE ControlsArePlanted BY <1>4, <1>13 DEF ControlsArePlanted
<1> QED BY <1>6, <1>7, <1>8, <1>9, <1>10, <1>11, <1>12, <1>13 DEF Next

\* The script ends before its controls, for want of one, or with a verdict
\* on all its captures.
LEMMA EndStep ==
  ASSUME TypeOK, CaptureInv, ObserverInv, ControlsInv, ScanInv, JudgeInv, Next
  PROVE  EndInv'
<1> SUFFICES ASSUME phase' = "done" PROVE EndInv'
  BY DEF EndInv
<1>1. "api" \in Services OBVIOUS
<1>2. ASSUME phase \in {"exercise", "page", "crawl"}, verdict' = "blind" PROVE EndInv'
  <2>1. sent'["api"] \cap Controls = {} BY <1>1, <1>2, CaptureStep DEF ControlsInv
  <2> QED BY <1>1, <1>2, <2>1 DEF EndInv
<1>3. CASE Exercise BY <1>2, <1>3 DEF Exercise, Continue, Exit
<1>4. CASE ScanPage BY <1>2, <1>4 DEF ScanPage, Continue, Exit
<1>5. CASE Fetch BY <1>2, <1>5 DEF Fetch, Exit
<1>6. CASE CrawlEnds BY <1>2, <1>6 DEF CrawlEnds, Continue, Exit
<1>7. CASE ControlsFail BY <1>7 DEF ControlsFail, Exit, EndInv
<1>8. ASSUME NEW s \in Services, Judge(s) PROVE EndInv'
  <2>1. phase = s /\ phase \in {"api", "web"} /\ UNCHANGED crawl BY <1>8, JudgeOrder
  <2>2. phase' # phase BY <2>1
  <2>3. PICK found, missed \in BOOLEAN : Concludes(s, found, missed) BY <1>8, <2>2, JudgeOrder DEF GoesOn
  <2>4. After(s) = "done" /\ \A t : t # s => (t \in findings' <=> t \in findings) /\ (t \in blinds' <=> t \in blinds)
    BY <2>3, ConcludesOne DEF Concludes
  <2>5. Unjudged(s) BY <2>1, <2>4, AfterIs DEF JudgeInv
  <2>6. Judged(s)' BY <1>8, <2>2, <2>5, JudgeMakes
  <2>7. \A t \in Services \ {s} : Judged(t)'
    <3>1. CASE Services = {s} BY <3>1
    <3>2. CASE s = "web" /\ Services = {"api", "web"}
      <4>1. Judged("api") /\ SameJudgement("api") BY <2>1, <3>2, ObserverStep DEF JudgeInv
      <4>2. Judged("api")' BY <2>4, <3>2, <4>1, StaysJudged
      <4> QED BY <3>2, <4>2
    <3> QED BY <2>4, <3>1, <3>2, AfterIs
  <2>8. Scanned'
    <3>1. "page" \notin Services /\ "site" \notin Services OBVIOUS
    <3>2. Scanned BY <2>1 DEF ScanInv
    <3> QED BY <2>1, <2>4, <3>1, <3>2, ScannedStays
  <2>9. verdict' = Verdict(findings', blinds') BY <2>3, <2>4 DEF Concludes
  <2>10. (verdict = Verdict(findings, blinds))' BY <2>9 DEF Verdict
  <2> QED BY <2>6, <2>7, <2>8, <2>10 DEF EndInv
<1>9. CASE \E s \in Services : Send(s) \/ ObserverDies(s) \/ PlantControls(s)
  BY <1>9 DEF Send, ObserverDies, PlantControls
<1>10. CASE ControlsArePlanted BY <1>10 DEF ControlsArePlanted
<1> QED BY <1>3, <1>4, <1>5, <1>6, <1>7, <1>8, <1>9, <1>10 DEF Next


-----------------------------------------------------------------------------
(* The invariant *)

LEMMA TrafficInit == Init => TrafficInv
<1> SUFFICES ASSUME Init PROVE TrafficInv
  OBVIOUS
<1> USE DEF Init
<1>1. Pages \in Seq(Paths) /\ IsInjective(Pages) BY DEF Pages, IsInjective, ToSet
<1>2. TypeOK BY <1>1 DEF TypeOK
<1>3. CaptureInv BY DEF CaptureInv, PacketsOf
<1>4. CrawlInv
  <2>1. ToSet(queue) \subseteq Pulled BY DEF Pulled, Closed
  <2>2. Fetched = {} BY DEF Fetched
  <2>3. fetched <= Len(queue) BY <1>1
  <2> QED BY <2>1, <2>2, <2>3 DEF CrawlInv
<1>5. ControlsInv /\ ObserverInv BY DEF ControlsInv, ObserverInv
<1>6. ScanInv /\ JudgeInv /\ EndInv BY DEF ScanInv, JudgeInv, Unjudged, EndInv
<1> QED BY <1>2, <1>3, <1>4, <1>5, <1>6 DEF TrafficInv

LEMMA TrafficStep == TrafficInv /\ [Next]_vars => TrafficInv'
<1> SUFFICES ASSUME TrafficInv, [Next]_vars PROVE TrafficInv'
  OBVIOUS
<1>1. TypeOK /\ CaptureInv /\ ObserverInv /\ CrawlInv /\ ControlsInv /\ ScanInv /\ JudgeInv /\ EndInv
  BY DEF TrafficInv
<1>2. CASE Next
  <2>1. CaptureTypes' /\ CaptureInv' /\ ObserverTypes' /\ ObserverInv'
    BY <1>1, <1>2, CaptureStep, ObserverStep
  <2>2. /\ site' = site /\ page' = page
        /\ queue' \in Seq(Paths) /\ IsInjective(queue') /\ fetched' \in 0 .. Limit
        /\ CrawlInv'
    BY <1>1, <1>2, CrawlStep
  <2>3. TypeOK' BY <1>1, <1>2, <2>1, <2>2, ScriptTypes DEF TypeOK, CaptureTypes, ObserverTypes
  <2>4. ControlsInv' /\ ScanInv' /\ JudgeInv' /\ EndInv'
    BY <1>1, <1>2, ControlsStep, ScanStep, JudgeStep, EndStep
  <2> QED BY <2>1, <2>2, <2>3, <2>4 DEF TrafficInv
<1>3. CASE UNCHANGED vars
  <2> USE <1>1, <1>3 DEF vars, crawl, observers
  <2>1. TypeOK' BY DEF TypeOK
  <2>2. CaptureInv' /\ ObserverInv' BY DEF CaptureInv, ObserverInv, observers
  <2>3. CrawlInv' BY DEF CrawlInv, Fetched, Refs, Pulled, Closed
  <2>4. ControlsInv' BY DEF ControlsInv
  <2>5. ScanInv' BY DEF ScanInv, Scanned, Fetched
  <2>6. JudgeInv' BY DEF JudgeInv, Judged, Unjudged, Finds, Misses, Orphaned
  <2>7. EndInv' BY DEF EndInv, Judged, Finds, Misses, Orphaned, Scanned, Fetched
  <2> QED BY <2>1, <2>2, <2>3, <2>4, <2>5, <2>6, <2>7 DEF TrafficInv
<1> QED BY <1>2, <1>3

\* The check's state is always well formed: the captures hold packets that
\* passed, the crawl queues a path once, and there is a verdict exactly when
\* the script has ended; with it the whole inductive invariant holds.
THEOREM TrafficInvariant == Spec => []TrafficInv
BY TrafficInit, TrafficStep, PTL DEF Spec

-----------------------------------------------------------------------------
(* The properties *)

\* Whatever is sent, dropped, unanswered or garbled, every variable keeps its
\* type, and the crawl queues no path twice, so that it ends on stylesheets
\* that import each other (no-third-party-check.sh:318-351).
THEOREM TypesHold == Spec => []TypeOK
<1>1. TrafficInv => TypeOK BY DEF TrafficInv
<1> QED BY <1>1, TrafficInvariant, PTL

LEMMA CaughtPackets ==
  ASSUME TrafficInv, NEW s \in Services
  PROVE  /\ sent[s] \subseteq DOMAIN Traffic
         /\ Learned(caught[s] \ {Garbled}) \subseteq {Local("q")}
<1>1. sent[s] \subseteq DOMAIN Traffic BY DEF TrafficInv, TypeOK
<1>2. caught[s] \ {Garbled} \subseteq PacketsOf(DOMAIN Traffic) BY DEF TrafficInv, TypeOK
<1> QED BY <1>1, <1>2, LearnedPort DEF PacketsOf

\* A capture that holds all of a leak's packets is found wanting.
LEMMA LeakIsFound ==
  ASSUME TrafficInv, NEW s \in Services, readable[s],
         NEW k \in Leaks \ {"same_port"}, Traffic[k] \subseteq caught[s]
  PROVE  Finds(s)
<1> DEFINE c == caught[s] \ {Garbled}
<1>1. PICK p \in Traffic[k] : ~ Excused(c, p) /\ p # Garbled
  BY CaughtPackets, LeakIsAViolation
<1>2. Violations(c) # {} BY <1>1 DEF Violations
<1>3. Classified(caught[s]) = "fail" BY <1>2 DEF Classified
<1> QED BY <1>3 DEF Finds

\* At a verdict of pass the captures lack nothing and show nothing wrong.
LEMMA PassIsClean ==
  ASSUME TrafficInv, verdict = "pass"
  PROVE  /\ Filtered = {} /\ Scanned /\ findings = {}
         /\ \A s \in Services : readable[s] /\ ~ Finds(s)
<1>1. phase = "done" BY DEF TrafficInv, TypeOK
<1>2. Verdict(findings, blinds) = "pass" /\ Scanned /\ \A s \in Services : Judged(s)
  BY <1>1 DEF TrafficInv, EndInv
<1>3. findings = {} /\ blinds = {} /\ Filtered = {} BY <1>2 DEF Verdict
<1>4. \A s \in Services : ~ Finds(s) /\ ~ Misses(s) BY <1>2, <1>3 DEF Judged
<1> QED BY <1>2, <1>3, <1>4 DEF Misses, Finds

\* A pass shows that neither service sent anything to anyone else, whatever
\* else went wrong, for any services, filter and amount of traffic, but for
\* a lookup from the port of the control's own (classify.py:26-33).
THEOREM PassShowsNothingSent == Spec => []PassMeansNothingSent
<1>1. ASSUME TrafficInv PROVE PassMeansNothingSent
  <2> SUFFICES ASSUME verdict = "pass", NEW s \in Services, NEW k \in sent[s] \cap Leaks, k # "same_port"
               PROVE  FALSE
    BY DEF PassMeansNothingSent
  <2>1. Filtered = {} /\ readable[s] /\ ~ Finds(s) BY <1>1, PassIsClean
  <2>2. PacketsOf(sent[s]) \subseteq caught[s] BY <1>1, <2>1 DEF TrafficInv, CaptureInv
  <2>3. Traffic[k] \subseteq caught[s] BY <2>2 DEF PacketsOf
  <2> QED BY <1>1, <2>1, <2>3, LeakIsFound
<1> QED BY <1>1, TrafficInvariant, PTL

\* A leak in a capture without gaps is always the verdict, even when another
\* capture shows nothing: what was seen outranks what was not
\* (no-third-party-check.sh:401-402, 431-442).
THEOREM SeenLeaksAreTheVerdict == Spec => []SeenLeaksFail
<1>1. ASSUME TrafficInv PROVE SeenLeaksFail
  <2> SUFFICES ASSUME phase = "done", \A s \in Services : sent[s] \cap Controls # {},
                      NEW s \in Services, NEW k \in Leaks \ {"same_port"},
                      readable[s], Traffic[k] \subseteq caught[s]
               PROVE  verdict = "fail"
    BY DEF SeenLeaksFail
  <2>1. Finds(s) BY <1>1, LeakIsFound
  <2>2. verdict = Verdict(findings, blinds) /\ Judged(s) BY <1>1 DEF TrafficInv, EndInv
  <2>3. findings # {} BY <2>1, <2>2 DEF Judged
  <2> QED BY <2>2, <2>3 DEF Verdict
<1> QED BY <1>1, TrafficInvariant, PTL

\* A filter that keeps out the one packet the control is known by would have
\* the control itself accused; without such a filter, services that keep to
\* their clients and a page and site that load from nowhere else are never
\* accused, whatever is lost or unanswered, unless an observer ends between its
\* drop count and the rules (classify.py:11-19, no-third-party-check.sh:416-424).
THEOREM InnocentIsCleared ==
  ASSUME Query("q", TRUE) \cap Filtered = {}
  PROVE  Spec => []InnocentIsNotAccused
<1>1. ASSUME TrafficInv PROVE InnocentIsNotAccused
  <2> SUFFICES ASSUME \A s \in Services : sent[s] \cap Leaks = {}, ~ page, \A p \in Paths : ~ site[p].remote,
                      \A s \in Services : ~ Orphaned(s), verdict = "fail"
               PROVE  FALSE
    BY DEF InnocentIsNotAccused, SentOrServed
  <2>1. phase = "done" BY <1>1 DEF TrafficInv, TypeOK
  <2>2. verdict = Verdict(findings, blinds) /\ Scanned /\ \A s \in Services : Judged(s)
    BY <1>1, <2>1 DEF TrafficInv, EndInv
  <2>3. findings # {} BY <2>2 DEF Verdict
  <2>4. "page" \notin findings BY <2>2 DEF Scanned
  <2>5. "site" \notin findings
    <3>1. Fetched \subseteq Paths
      <4>1. queue \in Seq(Paths) /\ fetched \in Nat /\ fetched <= Len(queue)
        BY <1>1 DEF TrafficInv, TypeOK, CrawlInv
      <4>2. \A i \in 1 .. fetched : i \in 1 .. Len(queue) BY <4>1
      <4> QED BY <4>1, <4>2 DEF Fetched
    <3> QED BY <2>2, <3>1 DEF Scanned
  <2>6. PICK s \in Services : s \in findings BY <1>1, <2>3, <2>4, <2>5 DEF TrafficInv, TypeOK
  <2> DEFINE c == caught[s] \ {Garbled}
  <2>7. readable[s] /\ Classified(caught[s]) = "fail" BY <2>2, <2>6 DEF Judged, Finds
  <2>8. PICK p \in c : ~ Excused(c, p)
    <3>1. Violations(c) # {}  BY <2>7 DEF Classified
    <3> QED BY <3>1 DEF Violations
  <2>9. PICK k \in sent[s] : p \in Traffic[k]
    BY <1>1 DEF TrafficInv, CaptureInv, PacketsOf
  <2>10. k \in DOMAIN Traffic \ Leaks BY <1>1, <2>9, CaughtPackets
  <2>11. ASSUME k = "control_dns" PROVE Query("q", TRUE) \subseteq c
    <3>1. PacketsOf(sent[s]) \ Filtered \subseteq caught[s] BY <1>1, <2>7 DEF TrafficInv, CaptureInv
    <3>2. Query("q", TRUE) \subseteq PacketsOf(sent[s])
      <4>1. Query("q", TRUE) \subseteq Traffic.control_dns BY DEF Traffic
      <4> QED BY <2>9, <2>11, <4>1 DEF PacketsOf
    <3>3. Garbled \notin Query("q", TRUE) BY DEF Query, Garbled, Packet, Header
    <3> QED BY <3>1, <3>2, <3>3
  <2>12. Excused(c, p) BY <2>9, <2>10, <2>11, NoLeakIsExcused
  <2> QED BY <2>8, <2>12
<1> QED BY <1>1, TrafficInvariant, PTL

\* When the crawl has ended within its limit, it has fetched all that the
\* pages pull in.
LEMMA CrawlIsWhole ==
  ASSUME TrafficInv, fetched = Len(queue) \/ fetched = Limit,
         IsFiniteSet(Pulled), Cardinality(Pulled) <= Limit
  PROVE  Pulled \subseteq Fetched
<1>1. /\ queue \in Seq(Paths) /\ IsInjective(queue) /\ fetched <= Len(queue)
      /\ ToSet(Pages) \subseteq ToSet(queue) /\ ToSet(queue) \subseteq Pulled
      /\ \A p \in Fetched : ToSet(Refs(p)) \subseteq ToSet(queue)
  BY DEF TrafficInv, TypeOK, CrawlInv
<1>2. Len(queue) \in Nat /\ DOMAIN queue = 1 .. Len(queue) BY <1>1
<1>3. queue \in Injection(1 .. Len(queue), Pulled)
  <2>1. \A i \in 1 .. Len(queue) : queue[i] \in Pulled BY <1>1, <1>2 DEF ToSet
  <2>2. queue \in [1 .. Len(queue) -> Pulled] BY <1>1, <1>2, <2>1
  <2> QED BY <1>1, <2>2 DEF Injection
<1>4. Len(queue) <= Cardinality(Pulled)
  <2>1. ASSUME NEW n \in Nat PROVE Cardinality(1 .. n) = n BY FS_Interval
  <2>2. Cardinality(1 .. Len(queue)) = Len(queue) BY <1>2, <2>1
  <2> QED BY <1>3, <2>2, FS_Injection
<1>5. fetched = Len(queue)
  <2>1. fetched \in Nat /\ fetched <= Limit /\ Limit \in Nat BY DEF TrafficInv, TypeOK
  <2>2. Cardinality(Pulled) \in Nat BY FS_CardinalityType
  <2>3. fetched <= Len(queue) /\ Len(queue) <= Limit
    <3>1. ASSUME NEW m \in Nat, NEW n \in Nat, n <= m, m <= Limit PROVE n <= Limit BY <3>1
    <3> QED BY <1>1, <1>2, <1>4, <2>2, <3>1
  <2>4. CASE fetched = Limit
    <3>1. ASSUME NEW m \in Nat, NEW n \in Nat, m <= n, n <= m PROVE m = n BY <3>1
    <3> QED BY <1>2, <2>1, <2>3, <2>4, <3>1
  <2> QED BY <2>4
<1>6. Fetched = ToSet(queue) BY <1>2, <1>5 DEF Fetched, ToSet
<1>7. ToSet(queue) \in SUBSET Paths BY <1>1 DEF Pulled
<1>8. Closed(Fetched) BY <1>1, <1>6 DEF Closed
<1> QED BY <1>6, <1>7, <1>8 DEF Pulled

\* A pass shows that the statistics page loads from nowhere else and that
\* nothing the site's pages pull in names another origin, whatever the site
\* is and however its stylesheets import each other, as long as there are no
\* more answers than the crawl fetches (no-third-party-check.sh:16-20).
THEOREM PassShowsCleanPages == Spec => []PassMeansPagesAreClean
<1>1. ASSUME TrafficInv PROVE PassMeansPagesAreClean
  <2> SUFFICES ASSUME verdict = "pass" PROVE PassMeansPagesAreClean
    BY DEF PassMeansPagesAreClean
  <2>1. Scanned /\ findings = {} BY <1>1, PassIsClean
  <2>2. ~ page BY <2>1 DEF Scanned
  <2>3. ASSUME "web" \in Services, IsFiniteSet(Pulled), Cardinality(Pulled) <= Limit,
               NEW p \in Pulled
        PROVE  ~ site[p].remote
    <3>1. p \in Fetched BY <1>1, <2>1, <2>3, CrawlIsWhole DEF Scanned
    <3> QED BY <2>1, <2>3, <3>1 DEF Scanned
  <2> QED BY <2>2, <2>3 DEF PassMeansPagesAreClean
<1> QED BY <1>1, TrafficInvariant, PTL
=============================================================================
