---------------------------- MODULE MCAdmission -----------------------------
(* An instance of Admission for TLC: the texts that clients and deployers   *)
(* give, up to the lengths at which every check of theirs can go either way.*)
EXTENDS Admission

\* All texts of at most n of these characters
UpTo(n, chars) == UNION {[1 .. k -> chars] : k \in 0 .. n}

\* Environment values: keys with whitespace around and within them, colons,
\* characters that no header can carry, and nothing at all
EnvironmentValues ==
  UpTo(2, {"k", " ", ":", "LF", "wide0"}) \cup {<<"k", x, y>> : x \in {" ", ":", "LF"}, y \in {"k", ":"}}

Secrets == UpTo(3, {"k", " ", ":", "nbsp"})
BearerK == [scheme |-> "bearer", token |-> <<"k">>]
Credentials ==
  [scheme : {"bearer", "basic"}, token : Secrets]
    \cup [scheme : {"basic"}, token : {Null}] \cup [scheme : {"other"}, token : {<<"k">>}] \cup {Null}

Get(path, auth) == [method |-> "GET", path |-> path, auth |-> auth]
Post(name, expires, auth) == [method |-> "POST", path |-> << <<"-">>, <<"api">>, <<"links">> >>,
                              auth |-> auth, name |-> name, expires |-> expires]

Spelt == UpTo(2, {"a", "A", "kelvin", "2", "-", "LF"}) \cup {<<"a", "-", "a">>, <<"k">>, <<"K">>, <<"stats">>}
OfLink(name) == << <<"-">>, <<"api">>, <<"links">>, name >>

ByName ==
  {Get(<<name>>, Null) : name \in Spelt} \cup {Get(<<name, <<>> >>, Null) : name \in Spelt}
    \cup {Get(Append(OfLink(name), <<"stats">>), BearerK) : name \in Spelt}
    \cup {[method |-> "DELETE", path |-> OfLink(name), auth |-> BearerK] : name \in Spelt}
    \cup {Post(name, Null, BearerK) : name \in Spelt \cup {Null}}

ByExpiry == {Post(<<"a">>, text, BearerK) : text \in Texts(1) \cup Texts(6)}

ByKey == {Get(<< <<"-">>, <<"stats">> >>, auth) : auth \in Credentials}
           \cup {Post(<<"a">>, Null, auth) : auth \in Credentials}

ByRoute ==
  {[method |-> method, path |-> path, auth |-> Null] :
     method \in {"GET", "HEAD", "DELETE"},
     path \in {<< <<>> >>, << <<"-">>, <<"stats", "LF">> >>, << <<"-">>, <<"privacy.json">> >>,
               << <<"-">>, <<"a">> >>, << <<"a">>, <<"LF">> >>, << <<"a">> >>}}

AllRequests == ByName \cup ByExpiry \cup ByKey \cup ByRoute
=============================================================================
