---------------------------- MODULE TrafficCheck ----------------------------
(***************************************************************************)
(* scripts/no-third-party-check.sh: the check that the running service     *)
(* sends nothing to anyone but its client.  An observer captures the       *)
(* packets of each service while the check exercises it, reads its         *)
(* statistics page, crawls the site and plants controls; then              *)
(* classify.py judges each capture, and the check says pass, fail or       *)
(* blind.                                                                  *)
(*                                                                         *)
(* What a verdict is worth is the question here: what the services send at *)
(* any moment of it, packets the kernel drops, observers that die, answers *)
(* that do not come, lines that do not parse.  A capture is a set of       *)
(* packets: classify.py goes over it twice, and no rule of it depends on   *)
(* their order.  Of the HTML and CSS that refs.py and loads.py read, only  *)
(* what they look for is left: references, and loads from elsewhere.       *)
(***************************************************************************)
EXTENDS Integers, Sequences, SequencesExt, FiniteSets

CONSTANTS
  Services,   \* the captured services: "api", and "web" unless --api-only
  Paths,      \* paths of the site
  Sites,      \* what the site may serve: Paths -> Reply
  Limit,      \* answers the crawl fetches at most
  Filtered,   \* packets that LINKLING_NO3P_CAPTURE_FILTER keeps out
  Faults,     \* what goes wrong: "drop", "observer", "call", "garble", "scanner"
  MaxTraffic  \* bound: how often a service sends something of its own accord

Pages == <<"/", "/privacy.html">>

\* An answer of the site: what it is, the same-origin paths refs.py finds in
\* it, and whether it names another origin
Reply == [kind : {"html", "css", "other"}, refs : Seq(Paths), remote : BOOLEAN]

ASSUME ConstantsAssumption ==
  /\ {"api"} \subseteq Services /\ Services \subseteq {"api", "web"}
  /\ ToSet(Pages) \subseteq Paths /\ Sites \subseteq [Paths -> Reply]
  /\ Limit \in Nat /\ MaxTraffic \in Nat

VARIABLES
  phase,      \* where the script is
  sent,       \* Services -> the kinds of traffic its namespace has seen
  caught,     \* Services -> the packets in its capture
  alive,      \* Services -> its observer, which captures and judges, runs
  stage,      \* Services -> how far its capture has been taken down
  readable,   \* Services -> its capture can still be read, and lacks nothing
  site,       \* what the site serves
  page,       \* the statistics page loads from elsewhere
  queue,      \* the paths the crawl has come upon, in order
  fetched,    \* how many of them it has fetched
  findings,   \* what was sent or served
  blinds,     \* what was not seen
  verdict     \* "none" while the check runs, then "pass", "fail" or "blind"

crawl     == <<site, page, queue, fetched>>
observers == <<alive, stage>>
vars      == <<phase, sent, caught, observers, readable, crawl, findings, blinds, verdict>>

-----------------------------------------------------------------------------
(* Packets *)

\* A packet as its header line shows it; named says that the control's
\* random name is among its bytes.
Header(iface, dir, proto, tcp, syn, src, dst, named) ==
  [iface |-> iface, dir |-> dir, proto |-> proto, tcp |-> tcp, syn |-> syn,
   src |-> src, dst |-> dst, named |-> named]

Packet(iface, dir, src, dst)   == Header(iface, dir, "IP", FALSE, FALSE, src, dst, FALSE)
Tcp(iface, dir, src, dst, syn) == Header(iface, dir, "IP", TRUE, syn, src, dst, FALSE)
Frame(proto)                   == Header("eth0", "Out", proto, FALSE, FALSE, <<"", "">>, <<"", "">>, FALSE)

\* Endpoints are an address and a port; "svc" is the service's own port, and
\* "p" the one that Docker's resolver has port 53 rewritten to.
Client  == <<"client", "c">>
Serving == <<"self", "svc">>
Local(port) == <<"loopback", port>>
Resolver    == <<"resolver", "p">>
Resolver53  == <<"resolver", "53">>
Other(port) == <<"elsewhere", port>>
Group   == <<"multicast", "">>
Control == <<"control", "9">>

\* A query from a local port through Docker's resolver, and its reply
Query(port, named) ==
  {Header("lo", "In", "IP", FALSE, FALSE, Local(port), Resolver, named),
   Header("lo", "In", "IP", FALSE, FALSE, Resolver53, Local(port), named)}

\* The kinds of traffic, and the packets of each
Traffic == [
  served     |-> {Tcp("eth0", "In", Client, Serving, TRUE), Tcp("eth0", "Out", Serving, Client, FALSE)},
  health     |-> {Tcp("lo", "In", Local("h"), Local("svc"), TRUE), Tcp("lo", "In", Local("svc"), Local("h"), FALSE)},
  arp        |-> {Frame("ARP")},
  group      |-> {Packet("eth0", "Out", <<"self", "">>, Group), Packet("eth0", "M", <<"gateway", "">>, Group)},
  connect    |-> {Tcp("eth0", "Out", <<"self", "x">>, Other("443"), TRUE), Tcp("eth0", "In", Other("443"), <<"self", "x">>, FALSE)},
  to_svc     |-> {Tcp("eth0", "Out", <<"self", "x">>, Other("svc"), TRUE)},
  from_svc   |-> {Tcp("eth0", "Out", Serving, Other("443"), TRUE), Tcp("eth0", "Out", Serving, Other("443"), FALSE)},
  udp        |-> {Packet("eth0", "Out", Serving, Other("123"))},
  lookup     |-> Query("x", FALSE),
  lookup_out |-> {Packet("eth0", "Out", <<"self", "x">>, Other("53"))},
  frame      |-> {Frame("STP")},
  same_port  |-> Query("q", FALSE),
  control_tcp |-> {Tcp("eth0", "Out", <<"self", "y">>, Control, TRUE)},
  control_dns |-> Query("q", TRUE) \cup Query("q", FALSE)]

\* The traffic that contacts someone other than the client.  The last of it
\* is a lookup from the very port that the control's lookup used.
Leaks == {"connect", "to_svc", "from_svc", "udp", "lookup", "lookup_out", "frame", "same_port"}
OfItsOwn == Leaks \cup {"health", "arp", "group"}

PacketsOf(kinds) == UNION {Traffic[k] : k \in kinds}

\* What the check plants itself
Controls == {"control_tcp", "control_dns"}

\* A line of the capture that does not parse
Garbled == Packet("", "", <<"", "">>, <<"", "">>)

Init ==
  /\ phase = "exercise"
  /\ sent = [s \in Services |-> {}]
  /\ caught = [s \in Services |-> {}]
  /\ alive = [s \in Services |-> TRUE]
  /\ stage = [s \in Services |-> "running"]
  /\ readable = [s \in Services |-> TRUE]
  /\ site \in Sites
  /\ page \in BOOLEAN
  /\ queue = Pages
  /\ fetched = 0
  /\ findings = {} /\ blinds = {}
  /\ verdict = "none"

-----------------------------------------------------------------------------
(* The captures *)

\* The kernel drops a packet, tcpdump does not stop or the observer ends: the
\* capture of s will never be read.
Lose(s) ==
  /\ readable' = [readable EXCEPT ![s] = FALSE]
  /\ caught' = [caught EXCEPT ![s] = {}]

\* Traffic of these kinds passes through the namespace of s: the observer
\* has it, unless the filter keeps it out or the kernel drops it.
Passes(s, kinds) ==
  LET packets == PacketsOf(kinds) \ Filtered
      garbled == IF "garble" \in Faults THEN {{}, {Garbled}} ELSE {{}}
  IN  /\ sent' = [sent EXCEPT ![s] = @ \cup kinds]
      /\ \/ /\ readable[s]
            /\ \E line \in garbled : caught' = [caught EXCEPT ![s] = @ \cup packets \cup line]
            /\ UNCHANGED readable
         \/ "drop" \in Faults /\ readable[s] /\ Lose(s)
         \/ ~ readable[s] /\ UNCHANGED <<caught, readable>>

Send(s) ==
  /\ phase # "done" /\ stage[s] = "running"
  /\ \E k \in OfItsOwn \ sent[s] :
       /\ Cardinality({e \in Services \X OfItsOwn : e[2] \in sent[e[1]]}) < MaxTraffic
       /\ Passes(s, {k})
  /\ UNCHANGED <<phase, observers, crawl, findings, blinds, verdict>>

\* An observer ends, at any moment until its capture has been judged.
ObserverDies(s) ==
  /\ "observer" \in Faults
  /\ phase # "done" /\ alive[s] /\ (stage[s] = "running" \/ phase = s)
  /\ alive' = [alive EXCEPT ![s] = FALSE]
  /\ Lose(s)
  /\ UNCHANGED <<phase, sent, stage, crawl, findings, blinds, verdict>>

-----------------------------------------------------------------------------
(* classify.py *)

\* Broken: the endpoints of the control's lookup are not learned.
Learned_None(c) == {}

\* The sources of the queries that carry the control's name
Learned(c) == {p.src : p \in {q \in c : q.named /\ q.src[2] # "53"}}

OnLo(p) == p.iface = "lo"

\* Broken: whatever leaves from the service's port is a reply.
IsReply_AnyFlags(p) == p.tcp /\ ~ OnLo(p) /\ p.src[2] = "svc"

IsReply(p) == p.tcp /\ ~ OnLo(p) /\ p.src[2] = "svc" /\ ~ p.syn

\* The rules, in the order in which each excuses a packet
Excused(c, p) ==
  \/ ~ OnLo(p) /\ p.dir # "Out"
  \/ p.proto = "ARP"
  \/ /\ p.proto \in {"IP", "IP6"}
     /\ \/ p.dst = Control
        \/ p.named
        \/ OnLo(p) /\ {p.src, p.dst} \cap Learned(c) # {}
        \/ p.tcp /\ OnLo(p) /\ "svc" \in {p.src[2], p.dst[2]}
        \/ IsReply(p)
        \/ p.dst[1] = "multicast"

Violations(c) == {p \in c : ~ Excused(c, p)}

\* The packets that count as one of the two controls, or as a reply
SawTcpControl(c) == \E p \in c : p.dir = "Out" /\ p.dst = Control
SawDnsControl(c) == \E p \in c : (OnLo(p) \/ p.dir = "Out") /\ p.named /\ p.dst # Control
SawReply(c)      == \E p \in c : p.dir = "Out" /\ IsReply(p)

\* main: a violation outranks everything that was not seen.
Classified(capture) ==
  LET c == capture \ {Garbled} IN
  CASE Violations(c) # {} -> "fail"
    [] Violations(c) = {} /\ Garbled \in capture -> "blind"
    [] OTHER -> IF SawTcpControl(c) /\ SawDnsControl(c) /\ SawReply(c) THEN "clean" ELSE "blind"

-----------------------------------------------------------------------------
(* The script *)

\* The script ends at once.
Exit(said) == phase' = "done" /\ verdict' = said /\ UNCHANGED <<findings, blinds>>

Continue(there) == phase' = there /\ UNCHANGED <<blinds, verdict>>

\* The calls of the API, at the port that its observer publishes; one that is
\* not answered as it should be ends it.
Exercise ==
  /\ phase = "exercise"
  /\ \/ alive["api"] /\ Continue("page") /\ Passes("api", {"served"}) /\ UNCHANGED findings
     \/ /\ "call" \in Faults \/ ~ alive["api"]
        /\ Exit("blind") /\ UNCHANGED <<sent, caught, readable>>
  /\ UNCHANGED <<observers, crawl>>

\* loads.py, run in the API's observer, on a page that the check plants, then
\* on the statistics page and its headers.
ScanPage ==
  /\ phase = "page"
  /\ \/ /\ alive["api"]
        /\ Continue(IF "web" \in Services THEN "crawl" ELSE "controls")
        /\ findings' = IF page THEN findings \cup {"page"} ELSE findings
     \/ ("scanner" \in Faults \/ ~ alive["api"]) /\ Exit("blind")
  /\ UNCHANGED <<sent, caught, observers, readable, crawl>>

\* What refs.py lists of an answer: nothing, unless it is a page or a sheet
Refs(p) == IF site[p].kind = "other" THEN <<>> ELSE site[p].refs

\* Broken: a path is queued each time it is come upon.
EnqueueAgain(paths, refs) == paths \o refs

\* Broken: of the stylesheets that an answer refers to, the first is queued.
EnqueueFirst(paths, refs) ==
  IF refs = <<>> \/ refs[1] \in ToSet(paths) THEN paths ELSE Append(paths, refs[1])

\* Each path that is not in the queue yet is put at its end.
Enqueue(paths, refs) ==
  LET queued[i \in 0 .. Len(refs)] ==
        IF i = 0 THEN paths
        ELSE IF refs[i] \in ToSet(queued[i - 1]) THEN queued[i - 1]
        ELSE Append(queued[i - 1], refs[i])
  IN  queued[Len(refs)]

\* Fetch the next path, and queue the stylesheets that refs.py, run in the
\* site's observer, finds in it.
Fetch ==
  /\ phase = "crawl"
  /\ fetched < Len(queue) /\ fetched < Limit
  /\ \/ /\ alive["web"]
        /\ fetched' = fetched + 1
        /\ queue' = Enqueue(queue, Refs(queue[fetched + 1]))
        /\ Passes("web", {"served"})
        /\ UNCHANGED <<phase, findings, blinds, verdict>>
     \/ /\ "call" \in Faults \/ ~ alive["web"]
        /\ Exit("blind")
        /\ UNCHANGED <<queue, fetched, sent, caught, readable>>
  /\ UNCHANGED <<observers, site, page>>

Fetched == {queue[i] : i \in 1 .. fetched}

\* Both pages and a stylesheet have to be among what was fetched, and
\* nothing fetched may name another origin.
CrawlEnds ==
  /\ phase = "crawl"
  /\ fetched = Len(queue) \/ fetched = Limit
  /\ IF /\ \A p \in ToSet(Pages) : p \in Fetched /\ site[p].kind = "html"
        /\ \E p \in Fetched : site[p].kind = "css"
     THEN /\ Continue("controls")
          /\ findings' = IF \E p \in Fetched : site[p].remote THEN findings \cup {"site"} ELSE findings
     ELSE Exit("blind")
  /\ UNCHANGED <<sent, caught, observers, readable, crawl>>

\* From inside each observer: a connection and a lookup, either of which may
\* come to nothing.
PlantControls(s) ==
  /\ phase = "controls" /\ alive[s]
  /\ sent[s] \cap Controls = {}
  /\ \E kinds \in {{"control_tcp"}, {"control_dns"}, {"control_tcp", "control_dns"}} : Passes(s, kinds)
  /\ UNCHANGED <<phase, observers, crawl, findings, blinds, verdict>>

ControlsFail ==
  /\ phase = "controls" /\ "observer" \in Faults
  /\ \E s \in Services : sent[s] \cap Controls = {}
  /\ Exit("blind")
  /\ UNCHANGED <<sent, caught, observers, readable, crawl>>

ControlsArePlanted ==
  /\ phase = "controls"
  /\ \A s \in Services : sent[s] \cap Controls # {}
  /\ phase' = "api"
  /\ UNCHANGED <<sent, caught, observers, readable, crawl, findings, blinds, verdict>>

\* Broken: what was not seen of one service ends the check.
Verdict_BlindFirst(f, b) == IF b # {} THEN "blind" ELSE IF f # {} THEN "fail" ELSE "pass"

\* What was seen outranks what was not; a filtered run is blind at best.
Verdict(f, b) ==
  CASE f # {} -> "fail"
    [] f = {} /\ b # {} -> "blind"
    [] OTHER -> IF Filtered = {} THEN "pass" ELSE "blind"

\* The API's capture is judged first; after the last one comes the verdict.
After(s) == IF s = "api" /\ "web" \in Services THEN "web" ELSE "done"

Concludes(s, found, missed) ==
  LET f == findings \cup (IF found THEN {s} ELSE {})
      b == blinds \cup (IF missed THEN {s} ELSE {})
  IN  /\ findings' = f /\ blinds' = b
      /\ phase' = After(s)
      /\ verdict' = IF After(s) = "done" THEN Verdict(f, b) ELSE verdict

GoesOn == UNCHANGED <<phase, findings, blinds, verdict>>

\* The calls that judge makes, each run in the observer of s.  tcpdump is
\* stopped, unless nobody answers or it would not stop.
StopCapture(s) ==
  /\ phase = s /\ stage[s] = "running"
  /\ \/ /\ alive[s]
        /\ stage' = [stage EXCEPT ![s] = "stopped"]
        /\ GoesOn /\ UNCHANGED <<caught, readable>>
     \/ /\ "observer" \in Faults
        /\ Concludes(s, FALSE, TRUE)
        /\ Lose(s) /\ UNCHANGED stage
  /\ UNCHANGED <<sent, alive, crawl>>

\* What the kernel dropped is read; an observer that has ended reports nothing.
CountDrops(s) ==
  /\ phase = s /\ stage[s] = "stopped"
  /\ IF readable[s]
     THEN stage' = [stage EXCEPT ![s] = "counted"] /\ GoesOn
     ELSE Concludes(s, FALSE, TRUE) /\ UNCHANGED stage
  /\ UNCHANGED <<sent, caught, alive, readable, crawl>>

\* The capture is printed and classify.py reads it.  If the observer has ended
\* since, docker exits 1 in its place, and 1 is a finding.
Classify(s) ==
  /\ phase = s /\ stage[s] = "counted"
  /\ Concludes(s, ~ alive[s] \/ Classified(caught[s]) = "fail",
                  alive[s] /\ Classified(caught[s]) = "blind")
  /\ UNCHANGED <<sent, caught, observers, readable, crawl>>

Judge(s) == StopCapture(s) \/ CountDrops(s) \/ Classify(s)

Next ==
  \/ \E s \in Services : Send(s) \/ ObserverDies(s) \/ PlantControls(s) \/ Judge(s)
  \/ Exercise \/ ScanPage \/ Fetch \/ CrawlEnds \/ ControlsFail \/ ControlsArePlanted

Spec == Init /\ [][Next]_vars

-----------------------------------------------------------------------------
(* Properties *)

\* Every variable keeps its type; the crawl queues a path once, so that it
\* ends on a site whose stylesheets import each other.
TypeOK ==
  /\ phase \in {"exercise", "page", "crawl", "controls", "api", "web", "done"}
  /\ sent \in [Services -> SUBSET DOMAIN Traffic]
  /\ caught \in [Services -> SUBSET (PacketsOf(DOMAIN Traffic) \cup {Garbled})]
  /\ alive \in [Services -> BOOLEAN]
  /\ stage \in [Services -> {"running", "stopped", "counted"}]
  /\ readable \in [Services -> BOOLEAN]
  /\ site \in Sites /\ page \in BOOLEAN
  /\ queue \in Seq(Paths) /\ IsInjective(queue)
  /\ fetched \in 0 .. Limit
  /\ findings \subseteq Services \cup {"page", "site"}
  /\ blinds \subseteq Services
  /\ verdict \in {"none", "pass", "fail", "blind"} /\ (verdict # "none" <=> phase = "done")

\* A pass shows that neither service sent anything to anyone else, whatever
\* was dropped, died or went unanswered.  The rules leave one way out: a
\* lookup on lo from the port of the control's own lookup
\* (no-third-party-check.sh:10-14, classify.py:26-33).
PassMeansNothingSent ==
  verdict = "pass" => \A s \in Services : sent[s] \cap Leaks \subseteq {"same_port"}

\* A leak that is in a capture without gaps is always the verdict, even if
\* another capture shows nothing (no-third-party-check.sh:401-402).
SeenLeaksFail ==
  LET judged == phase = "done" /\ \A s \in Services : sent[s] \cap Controls # {}
  IN  judged => \A s \in Services, k \in Leaks \ {"same_port"} :
        readable[s] /\ Traffic[k] \subseteq caught[s] => verdict = "fail"

\* Somebody sent, or something was served, what the check is there to find.
SentOrServed ==
  \/ \E s \in Services : sent[s] \cap Leaks # {}
  \/ page \/ \E p \in Paths : site[p].remote

\* An observer that ended between its drop count and the rules
Orphaned(s) == stage[s] = "counted" /\ ~ alive[s]

\* Services that keep to their clients, and a page and a site that load from
\* nowhere else, are not accused: not for packets the kernel dropped, for
\* lines garbled, answers cut short, controls that came to nothing, nor an
\* observer that ended, unless it did so between its drop count and the rules,
\* where docker's exit status is taken for the classifier's
\* (no-third-party-check.sh:76-77, 407-426, classify.py:11-19).
InnocentIsNotAccused ==
  verdict = "fail" => SentOrServed \/ \E s \in Services : Orphaned(s)

\* The paths in every set that holds the two pages and, with a path, all its
\* answer refers to: what a page pulls in, directly or through stylesheets
Closed(S) == ToSet(Pages) \subseteq S /\ \A p \in S : ToSet(Refs(p)) \subseteq S
Pulled == {p \in Paths : \A S \in SUBSET Paths : Closed(S) => p \in S}

\* A pass shows that the statistics page loads from nowhere else, and that
\* no page of the site names another origin, nor any stylesheet it pulls in
\* over any number of others, unless there are more of them than the crawl
\* fetches (no-third-party-check.sh:16-20).
PassMeansPagesAreClean ==
  verdict = "pass" =>
    /\ ~ page
    /\ "web" \in Services /\ IsFiniteSet(Pulled) /\ Cardinality(Pulled) <= Limit
       => \A p \in Pulled : ~ site[p].remote

-----------------------------------------------------------------------------
(* Why the properties hold: an inductive invariant *)

\* A capture that can be read holds all that passed and was not filtered;
\* none holds anything else but lines that do not parse.
CaptureInv ==
  \A s \in Services :
    LET packets == PacketsOf(sent[s]) \ Filtered
    IN  /\ caught[s] \subseteq packets \cup {Garbled}
        /\ readable[s] => packets \subseteq caught[s]

\* The crawl has come upon what it was given and what the answers it fetched
\* refer to, each once, and upon nothing else.
CrawlInv ==
  /\ ToSet(Pages) \subseteq ToSet(queue) /\ ToSet(queue) \subseteq Pulled
  /\ fetched <= Len(queue)
  /\ \A p \in Fetched : ToSet(Refs(p)) \subseteq ToSet(queue)

\* The controls come after everything that can end the script early but the
\* controls themselves.
ControlsInv == phase \in {"exercise", "page", "crawl"} => \A s \in Services : sent[s] \cap Controls = {}

\* What the scan and the crawl found, and that the crawl went as far as it goes
Scanned ==
  /\ "page" \in findings <=> page
  /\ "site" \in findings <=> "web" \in Services /\ \E p \in Fetched : site[p].remote
  /\ "web" \in Services => fetched = Len(queue) \/ fetched = Limit

ScanInv ==
  /\ phase \in {"exercise", "page"} => findings = {}
  /\ phase = "crawl" => ("page" \in findings <=> page) /\ "site" \notin findings
  /\ phase \in {"controls", "api", "web"} => Scanned
  /\ phase \in {"crawl", "web"} => "web" \in Services

\* No capture is stopped before the controls are planted.  An observer that
\* has ended has left nothing to read, and a capture that was counted lacks
\* nothing while its observer runs.
ObserverInv ==
  \A s \in Services :
    /\ phase \in {"exercise", "page", "crawl", "controls"} => stage[s] = "running"
    /\ ~ alive[s] => ~ readable[s]
    /\ stage[s] = "counted" => readable[s] \/ ~ alive[s]

\* What the judging of s comes to: a finding or a blind spot
Finds(s)  == Orphaned(s) \/ (readable[s] /\ Classified(caught[s]) = "fail")
Misses(s) == ~ Orphaned(s) /\ (~ readable[s] \/ Classified(caught[s]) = "blind")

\* What is said of a service is what its capture shows now: a capture that has
\* been judged was taken down whole or can never be read.
Judged(s) ==
  /\ stage[s] = "counted" \/ ~ readable[s]
  /\ s \in findings <=> Finds(s)
  /\ s \in blinds <=> Misses(s)
Unjudged(s) == s \notin findings /\ s \notin blinds

JudgeInv ==
  /\ phase \notin {"web", "done"} => \A s \in Services : Unjudged(s)
  /\ phase = "web" => Judged("api") /\ Unjudged("web")

\* The script ended early, before every service had its controls, or judged
\* them all.
EndInv ==
  phase = "done" =>
    \/ verdict = "blind" /\ \E s \in Services : sent[s] \cap Controls = {}
    \/ verdict = Verdict(findings, blinds) /\ Scanned /\ \A s \in Services : Judged(s)

TrafficInv == TypeOK /\ CaptureInv /\ ObserverInv /\ CrawlInv /\ ControlsInv /\ ScanInv /\ JudgeInv /\ EndInv
=============================================================================
