----------------------------- MODULE Admission ------------------------------
(***************************************************************************)
(* What the service makes of the text it is given: the team key in its     *)
(* environment and in Authorization headers, paths, link names in bodies   *)
(* and paths, and the expires of a create.  What is accepted is kept or    *)
(* compared as text from then on, so these checks decide which link a      *)
(* request is about, who may ask, and when a link ends.                    *)
(*                                                                         *)
(* A text is a sequence of characters; there is one character of each kind *)
(* that the code treats in a way of its own.  A word of a service route is *)
(* one character.  A timestamp has two fields, of two digits in base Base. *)
(* One request runs at a time: how several interleave is the subject of    *)
(* LinkService.                                                            *)
(***************************************************************************)
EXTENDS Integers, Sequences, SequencesExt, FiniteSets

CONSTANTS
  Settings,        \* values LINKLING_API_KEY may be given
  Requests,        \* what clients send
  MAX_NAME_LENGTH, \* names.MAX_NAME_LENGTH
  Base,            \* digits of a timestamp's fields
  MaxLinks,        \* bound: how many links are created
  MaxTime,         \* bound: the clock stops here
  Null             \* no value

\* The generator's names, two long here, are not too long, and the clock stays
\* within what a timestamp can say.
ASSUME ConstantsAssumption ==
  /\ MAX_NAME_LENGTH \in Nat \ {0, 1} /\ Base \in 2 .. 3
  /\ MaxLinks \in Nat /\ MaxTime \in 0 .. Base * Base * Base * Base - 1

VARIABLES
  api_key,     \* the team key of the running service, or Null
  links,       \* the rows of links: name, expires, and whether live
  now,         \* the clock
  asked,       \* the request that is being answered, or Null
  answer       \* its status, and the name of the link it is about

vars == <<api_key, links, now, asked, answer>>

-----------------------------------------------------------------------------
(* Characters *)

Small   == {"a", "k", "stats"}
Capital == {"A", "K"}
Digit   == {"0", "1", "2"}
Space   == {" ", "LF", "nbsp"}     \* what str.strip() removes
NonAscii == {"nbsp", "kelvin", "wide0", "wide1", "wide2"}
Control == {"LF"}                  \* not printable

\* These, the other signs and letters of a timestamp, and the words of routes
Characters ==
  Small \cup Capital \cup Digit \cup Space \cup NonAscii
    \cup {"-", ":", "T", "t", "Z", "z", "api", "links", "privacy.json"}

Text == Seq(Characters)

\* What Starlette makes of a request: its path split at the slashes, its
\* Authorization header, and what a create's body says of name and expires
ASSUME RequestsAssumption ==
  /\ Null \notin Text /\ Settings \subseteq Text
  /\ \A r \in Requests :
       /\ r.path \in Seq(Text) /\ r.path # <<>>
       /\ r.auth # Null =>
            r.auth.token \in Text \/ (r.auth.token = Null /\ r.auth.scheme = "basic")
       /\ r.method = "POST" => {r.name, r.expires} \subseteq Text \cup {Null}

\* str.lower(): the Kelvin sign's small letter is an ASCII k.
LowerOf(c) == CASE c = "A" -> "a" [] c \in {"K", "kelvin"} -> "k" [] OTHER -> c
Lower(raw) == [i \in DOMAIN raw |-> LowerOf(raw[i])]

IsAscii(raw) == Range(raw) \cap NonAscii = {}

\* str.strip()
Strip(raw) ==
  LET kept == {i \in DOMAIN raw : raw[i] \notin Space}
  IN  IF kept = {} THEN <<>>
      ELSE SubSeq(raw, CHOOSE i \in kept : \A j \in kept : i <= j,
                       CHOOSE i \in kept : \A j \in kept : i >= j)

-----------------------------------------------------------------------------
(* Names *)

\* Broken: folded whether it is ASCII or not.
FoldAll(raw) == Lower(raw)

fold(raw) == IF IsAscii(raw) THEN Lower(raw) ELSE raw

\* Broken: a "$", as ADR-0001 prints it, is content before a last newline.
DollarMatch(name) ==
  LET text == IF name # <<>> /\ Last(name) = "LF" THEN Front(name) ELSE name IN
  /\ text # <<>>
  /\ {Head(text), Last(text)} \subseteq Small \cup Digit
  /\ Range(text) \subseteq Small \cup Digit \cup {"-"}

\* Broken: a hyphen may come first.
HyphenMatch(name) ==
  /\ name # <<>>
  /\ Last(name) \in Small \cup Digit \cup {"-"}
  /\ Range(name) \subseteq Small \cup Digit \cup {"-"}

\* The grammar, matched against the whole of the name
FullMatch(name) ==
  /\ name # <<>>
  /\ {Head(name), Last(name)} \subseteq Small \cup Digit
  /\ Range(name) \subseteq Small \cup Digit \cup {"-"}

is_conforming(name) ==
  IsAscii(name) /\ Len(name) <= MAX_NAME_LENGTH /\ FullMatch(name)

\* What the generator can draw: six of 28 small letters and digits, here two
\* of two.
ALPHABET == {"k", "2"}
generate == {<<x, y>> : x \in ALPHABET, y \in ALPHABET}

normalise(raw) == IF is_conforming(fold(raw)) THEN fold(raw) ELSE Null

-----------------------------------------------------------------------------
(* The team key *)

\* Broken: emptiness is looked at before the whitespace is taken off.
load_config_EmptyFirst(setting) ==
  IF setting = <<>> \/ ~ IsAscii(Strip(setting)) \/ Range(Strip(setting)) \cap Control # {}
  THEN Null ELSE Strip(setting)

\* The key, or Null where the service does not start
load_config(setting) ==
  LET key == Strip(setting)
  IN  IF key = <<>> \/ ~ IsAscii(key) \/ Range(key) \cap Control # {} THEN Null ELSE key

\* Both sides are bytes; a character beyond ASCII is never a byte of the key.
_is_team_key(candidate) == candidate = api_key

\* What follows the first colon, which is the whole password
AfterColon(bytes) ==
  LET i == CHOOSE i \in DOMAIN bytes : bytes[i] = ":" /\ \A j \in 1 .. i - 1 : bytes[j] # ":"
  IN  SubSeq(bytes, i + 1, Len(bytes))

\* An Authorization header: its first word and what comes after the space.
\* The credentials of Basic are given decoded, or as Null if they are not
\* base64.
require_key(auth) ==
  auth # Null /\ auth.scheme = "bearer" /\ _is_team_key(Strip(auth.token))

require_basic_key(auth) ==
  /\ auth # Null /\ auth.scheme = "basic" /\ auth.token # Null
  /\ ":" \in Range(auth.token)
  /\ _is_team_key(AfterColon(auth.token))

-----------------------------------------------------------------------------
(* Timestamps *)

Instants == 0 .. Base * Base * Base * Base - 1
Fields   == 0 .. Base * Base - 1
Figure   == <<"0", "1", "2">>
Wide     == <<"wide0", "wide1", "wide2">>

Padded(v) == <<Figure[v \div Base + 1], Figure[(v % Base) + 1]>>

\* TIMESTAMP_FORMAT, and how strftime prints it
Format(date, x, time, y) == date \o <<x>> \o time \o <<y>>

strftime(t) == Format(Padded(t \div (Base * Base)), "T", Padded(t % (Base * Base)), "Z")

\* The ways to write a field that strptime reads: digits of any script, one
\* digit for a small value, a space for its zero.
FieldTexts(v) ==
  LET d == v \div Base + 1
      e == (v % Base) + 1
  IN  ({Figure[d], Wide[d]} \X {Figure[e], Wide[e]})
        \cup {text \in {<<Figure[e]>>, <<" ", Figure[e]>>} : v < Base}

\* Every text that strptime reads as t
Texts(t) ==
  {Format(date, x, time, y) : date \in FieldTexts(t \div (Base * Base)), x \in {"T", "t"},
                              time \in FieldTexts(t % (Base * Base)), y \in {"Z", "z"}}

AllTexts == UNION {Texts(t) : t \in Instants}
strptime == [raw \in AllTexts |-> CHOOSE t \in Instants : raw \in Texts(t)]

\* The order of the code points
Order == <<" ", "0", "1", "2", "T", "Z", "t", "z", "wide0", "wide1", "wide2">>
Code  == [c \in ToSet(Order) |-> CHOOSE i \in DOMAIN Order : Order[i] = c]

\* raw <= other, as Python and SQLite compare text
AtMost(raw, other) ==
  \/ IsPrefix(raw, other)
  \/ \E i \in DOMAIN raw \cap DOMAIN other :
       /\ Code[raw[i]] < Code[other[i]]
       /\ \A j \in 1 .. i - 1 : raw[j] = other[j]

\* Broken: what strptime reads is kept as it was written.
_validate_expires_Parsed(raw) ==
  raw # Null => raw \in AllTexts /\ ~ AtMost(raw, strftime(now))

_validate_expires(raw) ==
  raw # Null => /\ raw \in AllTexts
                /\ strftime(strptime[raw]) = raw
                /\ ~ AtMost(raw, strftime(now))

is_expired(expires) == expires # Null /\ AtMost(expires, strftime(now))

-----------------------------------------------------------------------------
(* Routes *)

AnyName == Null
Route(methods, path, handler) == [methods |-> methods, path |-> path, handler |-> handler]

\* In the order in which create_app declares them
Routes == <<
  Route({"POST"},        << <<"-">>, <<"api">>, <<"links">> >>,                     "create_link"),
  Route({"DELETE"},      << <<"-">>, <<"api">>, <<"links">>, AnyName >>,            "delete_link"),
  Route({"GET"},         << <<"-">>, <<"api">>, <<"links">>, AnyName, <<"stats">> >>, "link_stats"),
  Route({"GET"},         << <<"-">>, <<"stats">> >>,                                "stats_page"),
  Route({"GET", "HEAD"}, << <<"-">>, <<"privacy.json">> >>,                         "privacy_manifest"),
  Route({"GET", "HEAD"}, << AnyName >>,                                             "follow"),
  Route({"GET", "HEAD"}, << AnyName, <<>> >>,                                       "follow") >>

\* Starlette: a name is any text without a slash; a route's pattern ends in
\* a "$", which a last newline passes.
Matches(route, path) ==
  /\ Len(path) = Len(route.path)
  /\ \A i \in DOMAIN path :
       \/ route.path[i] = AnyName /\ path[i] # <<>>
       \/ route.path[i] # AnyName /\ path[i] = route.path[i]
       \/ i = Len(path) /\ route.path[i] # AnyName /\ path[i] = Append(route.path[i], "LF")

\* The handler of the first route that matches
Handler(r) ==
  LET there == {i \in DOMAIN Routes : Matches(Routes[i], r.path)}
      ready == {i \in there : r.method \in Routes[i].methods}
  IN  CASE ready # {} -> Routes[CHOOSE i \in ready : \A j \in ready : i <= j].handler
        [] ready = {} /\ there # {} -> "method_not_allowed"
        [] OTHER -> "not_found"

\* The segment that is the name in the path of a request about a link
NameOf(r) == IF r.path[1] = <<"-">> /\ Len(r.path) > 2 THEN r.path[4] ELSE r.path[1]

-----------------------------------------------------------------------------
(* The service *)

Answers(status, name) == answer' = [status |-> status, link |-> name]

Init ==
  /\ api_key = Null
  /\ links = {}
  /\ now = 0
  /\ asked = Null
  /\ answer = [status |-> 0, link |-> Null]

Start(setting) ==
  /\ api_key = Null
  /\ api_key' = load_config(setting)
  /\ UNCHANGED <<links, now, asked, answer>>

Row(name) == CHOOSE row \in links : row.name = name
Taken(name) == \E row \in links : row.name = name

\* The name a create asks for, or the last of those the generator draws
Candidates(raw) ==
  IF raw = Null THEN generate
  ELSE IF normalise(raw) = Null THEN {} ELSE {normalise(raw)}

\* A create carries a body; its name is Null where the service is to choose.
create_link(r) ==
  /\ \/ ~ require_key(r.auth) /\ Answers(401, Null) /\ UNCHANGED links
     \/ /\ require_key(r.auth)
        /\ ~ _validate_expires(r.expires) \/ (r.name # Null /\ normalise(r.name) = Null)
        /\ Answers(422, Null) /\ UNCHANGED links
     \/ /\ require_key(r.auth) /\ _validate_expires(r.expires)
        /\ \E name \in Candidates(r.name) :
             IF Taken(name)
             THEN Answers(IF r.name = Null THEN 503 ELSE 409, Null) /\ UNCHANGED links
             ELSE /\ Cardinality(links) < MaxLinks
                  /\ links' = links \cup {[name |-> name, expires |-> r.expires, live |-> TRUE]}
                  /\ Answers(201, name)

delete_link(r) ==
  LET name == normalise(NameOf(r)) IN
  /\ \/ ~ require_key(r.auth) /\ Answers(401, Null) /\ UNCHANGED links
     \/ /\ require_key(r.auth) /\ (name = Null \/ ~ Taken(name))
        /\ Answers(404, Null) /\ UNCHANGED links
     \/ /\ require_key(r.auth) /\ name # Null /\ Taken(name)
        /\ IF Row(name).live
           THEN /\ links' = (links \ {Row(name)}) \cup {[Row(name) EXCEPT !.live = FALSE]}
                /\ Answers(204, name)
           ELSE Answers(410, name) /\ UNCHANGED links

link_stats(r) ==
  LET name == normalise(NameOf(r)) IN
  /\ \/ ~ require_key(r.auth) /\ Answers(401, Null)
     \/ require_key(r.auth) /\ (name = Null \/ ~ Taken(name)) /\ Answers(404, Null)
     \/ require_key(r.auth) /\ name # Null /\ Taken(name)
          /\ Answers(IF Row(name).live THEN 200 ELSE 410, name)
  /\ UNCHANGED links

stats_page(r) ==
  /\ Answers(IF require_basic_key(r.auth) THEN 200 ELSE 401, Null)
  /\ UNCHANGED links

follow(r) ==
  LET name == normalise(NameOf(r)) IN
  /\ IF name # Null /\ Taken(name)
     THEN Answers(IF Row(name).live /\ ~ is_expired(Row(name).expires) THEN 302 ELSE 410, name)
     ELSE Answers(404, Null)
  /\ UNCHANGED links

\* The manifest, and the router's own answers
Constant(status) == Answers(status, Null) /\ UNCHANGED links

Ask(r) ==
  LET handler == Handler(r) IN
  /\ api_key # Null /\ asked = Null
  /\ \/ handler = "create_link" /\ create_link(r)
     \/ handler = "delete_link" /\ delete_link(r)
     \/ handler = "link_stats" /\ link_stats(r)
     \/ handler = "stats_page" /\ stats_page(r)
     \/ handler = "follow" /\ follow(r)
     \/ handler = "privacy_manifest" /\ Constant(200)
     \/ handler = "method_not_allowed" /\ Constant(405)
     \/ handler = "not_found" /\ Constant(404)
  /\ asked' = r
  /\ UNCHANGED <<api_key, now>>

\* The answer has been sent.
Reply ==
  /\ asked # Null
  /\ asked' = Null /\ answer' = [status |-> 0, link |-> Null]
  /\ UNCHANGED <<api_key, links, now>>

Tick ==
  /\ asked = Null
  /\ now < MaxTime
  /\ now' = now + 1
  /\ UNCHANGED <<api_key, links, asked, answer>>

Next ==
  \/ \E setting \in Settings : Start(setting)
  \/ \E r \in Requests : Ask(r)
  \/ Reply \/ Tick

Spec == Init /\ [][Next]_vars
-----------------------------------------------------------------------------
(* Properties *)

\* A name of 1 to MAX_NAME_LENGTH letters, digits and inner hyphens
IsName(text) ==
  /\ Len(text) \in 1 .. MAX_NAME_LENGTH
  /\ \A i \in DOMAIN text : text[i] \in Small \cup Digit \/ (text[i] = "-" /\ i \notin {1, Len(text)})

\* Every variable keeps its type: whatever a client calls its link, and
\* whatever the generator draws, the stored name is in ADR-0001's grammar and
\* one link has it, and its expiry is as strftime prints it.
TypeOK ==
  /\ api_key \in Text \cup {Null}
  /\ links \subseteq [name : Text, expires : {Null} \cup {strftime(t) : t \in Instants}, live : BOOLEAN]
  /\ \A row \in links : IsName(row.name) /\ \A other \in links : other.name = row.name => other = row
  /\ now \in 0 .. MaxTime
  /\ answer \in [status : {0, 200, 201, 204, 302, 401, 404, 405, 409, 410, 422, 503}, link : Text \cup {Null}]
  /\ answer.link = Null \/ Taken(answer.link)

\* The same letters, in small or capital
SameLetters(raw, name) ==
  /\ Len(raw) = Len(name)
  /\ \A i \in DOMAIN name : raw[i] = name[i] \/ <<raw[i], name[i]>> \in {<<"A", "a">>, <<"K", "k">>}

\* A request is about the link whose name has the letters that were written,
\* and about no other: in a path as in a body, in any case, and never by
\* way of a character that only folds into one (names.py:16-20; ADR-0001c).
OneLinkPerSpelling ==
  asked # Null /\ answer.status # 401 =>
    LET handler == Handler(asked) IN
    \A row \in links :
      /\ handler \in {"delete_link", "link_stats", "follow"}
           => (answer.link = row.name <=> SameLetters(NameOf(asked), row.name))
      /\ handler = "create_link" /\ answer.link = row.name
           => asked.name = Null \/ SameLetters(asked.name, row.name)

\* The root belongs to the links and what is under /-/ to the service: every
\* link is found at its name, with and without a slash, whatever the name,
\* and nothing under /-/ is ever redirected (app.py:3-6; ADR-0001b).
RootIsForLinks ==
  /\ \A row \in links : \A path \in {<<row.name>>, <<row.name, <<>> >>} :
       Handler([method |-> "GET", path |-> path]) = "follow"
  /\ asked # Null /\ Len(asked.path) > 1 /\ asked.path[1] = <<"-">> => answer.status # 302

\* The header carries the key: alone but for whitespace around it, or as
\* the password of any user.
Carries(auth, key) ==
  /\ auth # Null /\ key # <<>>
  /\ \/ /\ auth.scheme = "bearer"
        /\ \E i, j \in 0 .. Len(auth.token) :
             /\ SubSeq(auth.token, i + 1, j) = key
             /\ \A o \in (1 .. Len(auth.token)) \ (i + 1 .. j) : auth.token[o] \in Space
     \/ /\ auth.scheme = "basic" /\ auth.token # Null
        /\ \E i \in DOMAIN auth.token :
             /\ ":" \notin Range(SubSeq(auth.token, 1, i - 1))
             /\ SubSeq(auth.token, i, Len(auth.token)) = <<":">> \o key

\* Whatever the environment held, a service that started lets in every
\* header that carries its key in its route's scheme, also a key with a colon
\* or a space in it, and no other header, the empty one included
\* (config.py:5-8; app.py:379-381, 398-406).
OnlyTheKeyOpens ==
  asked # Null =>
    LET handler == Handler(asked) IN
    /\ handler \in {"create_link", "delete_link", "link_stats"} =>
         (answer.status # 401 <=> Carries(asked.auth, api_key) /\ asked.auth.scheme = "bearer")
    /\ handler = "stats_page" =>
         (answer.status # 401 <=> Carries(asked.auth, api_key) /\ asked.auth.scheme = "basic")

\* The comparison of texts by which a link ends is the order of time: a link
\* is expired from the very moment its creator meant (app.py:268-277,
\* links.py:152-155).
ExpiresInTimeOrder ==
  \A row \in links : row.expires # Null => (is_expired(row.expires) <=> strptime[row.expires] <= now)

-----------------------------------------------------------------------------
(* Why the properties hold: an inductive invariant *)

\* The key of a service that started has something in it, begins and ends
\* with no whitespace, and can be sent in a header; before, nothing is asked.
KeyInv ==
  /\ api_key = Null => asked = Null
  /\ api_key # Null =>
       /\ api_key # <<>> /\ {Head(api_key), Last(api_key)} \cap Space = {}
       /\ IsAscii(api_key) /\ Range(api_key) \cap Control = {}

AdmissionInv == TypeOK /\ KeyInv /\ OneLinkPerSpelling /\ RootIsForLinks /\ OnlyTheKeyOpens
=============================================================================
