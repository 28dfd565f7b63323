-------------------------- MODULE Admission_proofs --------------------------
(***************************************************************************)
(* Theorems about Admission, for any settings, any requests, and names of  *)
(* any length: what the conversions of text make of every text, and that   *)
(* the service keeps its rows and its answers by them.                     *)
(***************************************************************************)
EXTENDS Admission, FiniteSetTheorems, WellFoundedInduction, TLAPS

-----------------------------------------------------------------------------
(* Texts *)

\* A set of numbers that is not empty has a least one, and a greatest if it
\* has a bound.
LEMMA LeastOf ==
  ASSUME NEW S \in SUBSET Nat, S # {}
  PROVE  \E n \in S : \A m \in S : n <= m
<1> DEFINE Below == OpToRel(<, Nat)
<1>1. \A y, z \in Nat : y < z => <<y, z>> \in Below BY DEF OpToRel
<1>2. IsWellFoundedOn(Below, Nat) BY NatLessThanWellFounded
<1> HIDE DEF Below
<1>3. PICK n \in S : \A m \in S : <<m, n>> \notin Below BY <1>2, WFMin
<1>4. ASSUME NEW m \in S PROVE n <= m
  <2>1. ~ (m < n) BY <1>1, <1>3
  <2> QED BY <2>1
<1> QED BY <1>4

\* The greatest is as far from the bound as the least of what is left.
LEMMA GreatestOf ==
  ASSUME NEW bound \in Nat, NEW S \in SUBSET (0 .. bound), S # {}
  PROVE  \E n \in S : \A m \in S : m <= n
<1> DEFINE Gaps == {bound - n : n \in S}
<1>1. Gaps \in SUBSET Nat /\ Gaps # {}
  <2>1. \A n \in S : n \in 0 .. bound OBVIOUS
  <2>2. \A n \in 0 .. bound : bound - n \in Nat OBVIOUS
  <2> QED BY <2>1, <2>2
<1>2. PICK g \in Gaps : \A h \in Gaps : g <= h
  <2> HIDE DEF Gaps
  <2> QED BY <1>1, LeastOf
<1>3. PICK n \in S : g = bound - n BY <1>2
<1>4. ASSUME NEW m \in S PROVE m <= n
  <2>1. bound - m \in Gaps OBVIOUS
  <2>2. bound - n <= bound - m BY <1>2, <1>3, <2>1
  <2>3. m \in Int /\ n \in Int OBVIOUS
  <2> QED BY <2>2, <2>3
<1> QED BY <1>4

\* The texts that str.strip() leaves alone
Bare(text) == text # <<>> /\ {Head(text), Last(text)} \cap Space = {}

\* text is raw without what stands before i and after j, which is whitespace.
Cut(raw, text, i, j) ==
  /\ i \in 1 .. Len(raw) + 1 /\ j \in 0 .. Len(raw) /\ text = SubSeq(raw, i, j)
  /\ \A o \in (1 .. Len(raw)) \ (i .. j) : raw[o] \in Space

\* What is left of a text when whitespace is taken off
LEMMA StripResult ==
  ASSUME NEW raw \in Text
  PROVE  /\ Strip(raw) \in Text
         /\ Strip(raw) # <<>> => Bare(Strip(raw)) /\ \E i, j : Cut(raw, Strip(raw), i, j)
<1> DEFINE kept == {i \in DOMAIN raw : raw[i] \notin Space}
<1>1. raw \in Seq(Characters) /\ Len(raw) \in Nat /\ DOMAIN raw = 1 .. Len(raw) BY DEF Text
<1>2. CASE kept = {} BY <1>2 DEF Strip, Text
<1>3. CASE kept # {}
  <2>1. \E i \in kept : \A j \in kept : i <= j
    <3>1. kept \in SUBSET Nat BY <1>1
    <3> HIDE DEF kept
    <3> QED BY <1>3, <3>1, LeastOf
  <2>2. \E i \in kept : \A j \in kept : i >= j
    <3>1. kept \in SUBSET (0 .. Len(raw)) BY <1>1
    <3>2. \E i \in kept : \A j \in kept : j <= i
      <4> HIDE DEF kept
      <4> QED BY <1>1, <1>3, <3>1, GreatestOf
    <3> QED BY <1>1, <3>1, <3>2
  <2> DEFINE i == CHOOSE i \in kept : \A j \in kept : i <= j
             j == CHOOSE j \in kept : \A m \in kept : j >= m
  <2>3. i \in kept /\ \A m \in kept : i <= m BY <2>1
  <2>4. j \in kept /\ \A m \in kept : j >= m BY <2>2
  <2>5. Strip(raw) = SubSeq(raw, i, j) BY <1>3 DEF Strip
  <2> HIDE DEF i, j
  <2>6. i \in 1 .. Len(raw) /\ j \in 1 .. Len(raw) /\ i <= j BY <1>1, <2>3, <2>4
  <2>7. /\ SubSeq(raw, i, j) \in Seq(Characters) /\ Len(SubSeq(raw, i, j)) = j - i + 1
        /\ \A m \in 1 .. j - i + 1 : SubSeq(raw, i, j)[m] = raw[i + m - 1]
    BY <1>1, <2>6
  <2>8. Bare(Strip(raw))
    <3>1. raw[i] \notin Space /\ raw[j] \notin Space BY <2>3, <2>4
    <3> DEFINE s == SubSeq(raw, i, j)
    <3>2. Head(s) = s[1] /\ Last(s) = s[Len(s)]
      <4>1. s \in Seq(Characters) /\ Len(s) = j - i + 1 /\ Len(s) > 0 BY <1>1, <2>6, <2>7
      <4> HIDE DEF s
      <4> QED BY <4>1 DEF Last
    <3>3. s[1] = raw[i] /\ s[Len(s)] = raw[j]
      <4>1. 1 \in 1 .. j - i + 1 /\ j - i + 1 \in 1 .. j - i + 1 BY <1>1, <2>6
      <4>2. i + 1 - 1 = i /\ i + (j - i + 1) - 1 = j BY <1>1, <2>6
      <4> QED BY <2>7, <4>1, <4>2
    <3>4. s # <<>> BY <1>1, <2>6, <2>7
    <3> QED BY <2>5, <3>1, <3>2, <3>3, <3>4 DEF Bare
  <2>9. Cut(raw, Strip(raw), i, j)
    <3>1. ASSUME NEW o \in (1 .. Len(raw)) \ (i .. j) PROVE raw[o] \in Space
      <4>1. o \notin kept BY <1>1, <2>3, <2>4, <2>6
      <4> QED BY <1>1, <4>1
    <3> QED BY <1>1, <2>5, <2>6, <3>1 DEF Cut
  <2> QED BY <2>5, <2>7, <2>8, <2>9 DEF Text
<1> QED BY <1>2, <1>3

\* A bare text with whitespace around it is what is left of the whole.
LEMMA StripUnique ==
  ASSUME NEW raw \in Text, NEW text \in Text, Bare(text), NEW i, NEW j, Cut(raw, text, i, j)
  PROVE  Strip(raw) = text
<1> DEFINE kept == {m \in DOMAIN raw : raw[m] \notin Space}
<1>1. raw \in Seq(Characters) /\ Len(raw) \in Nat /\ DOMAIN raw = 1 .. Len(raw) BY DEF Text
<1>2. i \in 1 .. Len(raw) + 1 /\ j \in 0 .. Len(raw) /\ text = SubSeq(raw, i, j) BY DEF Cut
<1>3. i <= j
  <2>1. i > j => SubSeq(raw, i, j) = <<>> BY <1>1, <1>2
  <2> QED BY <1>1, <1>2, <2>1 DEF Bare
<1>4. raw[i] = Head(text) /\ raw[j] = Last(text)
  <2>1. Len(text) = j - i + 1 /\ \A m \in 1 .. j - i + 1 : text[m] = raw[i + m - 1]
    <3>1. i \in 1 .. Len(raw) /\ j \in 1 .. Len(raw) BY <1>1, <1>2, <1>3
    <3>2. /\ Len(SubSeq(raw, i, j)) = j - i + 1
          /\ \A m \in 1 .. j - i + 1 : SubSeq(raw, i, j)[m] = raw[i + m - 1]
      BY <1>1, <1>3, <3>1
    <3> QED BY <1>2, <3>2
  <2>2. 1 \in 1 .. j - i + 1 /\ j - i + 1 \in 1 .. j - i + 1 BY <1>1, <1>2, <1>3
  <2>3. i + 1 - 1 = i /\ i + (j - i + 1) - 1 = j BY <1>1, <1>2
  <2>4. Head(text) = text[1] /\ Last(text) = text[Len(text)] BY DEF Last
  <2> QED BY <2>1, <2>2, <2>3, <2>4
<1>5. i \in kept /\ j \in kept BY <1>1, <1>2, <1>3, <1>4 DEF Bare
<1>6. \A m \in kept : i <= m /\ m <= j BY <1>1, <1>2 DEF Cut
<1>7. i = CHOOSE n \in kept : \A m \in kept : n <= m
  <2>1. \A n \in kept : (\A m \in kept : n <= m) => n = i BY <1>1, <1>5, <1>6
  <2> HIDE DEF kept
  <2> QED BY <1>5, <1>6, <2>1
<1>8. j = CHOOSE n \in kept : \A m \in kept : n >= m
  <2>1. \A n \in kept : (\A m \in kept : n >= m) => n = j BY <1>1, <1>5, <1>6
  <2>2. \A m \in kept : j >= m BY <1>1, <1>5, <1>6
  <2> HIDE DEF kept
  <2> QED BY <1>5, <2>1, <2>2
<1>9. Strip(raw) = SubSeq(raw, i, j)
  <2>1. kept # {} BY <1>5
  <2>2. Strip(raw) = SubSeq(raw, CHOOSE n \in kept : \A m \in kept : n <= m,
                                 CHOOSE n \in kept : \A m \in kept : n >= m)
    BY <2>1 DEF Strip
  <2> HIDE DEF kept
  <2> QED BY <1>7, <1>8, <2>2
<1> QED BY <1>2, <1>9

-----------------------------------------------------------------------------
(* Names *)

\* The check of a name accepts the names, no more and no less.
LEMMA ConformingIsName ==
  ASSUME NEW name \in Text
  PROVE  is_conforming(name) <=> IsName(name)
<1> DEFINE Inner == Small \cup Digit \cup {"-"}
<1>1. name \in Seq(Characters) /\ Len(name) \in Nat /\ DOMAIN name = 1 .. Len(name) BY DEF Text
<1>2. Inner \cap NonAscii = {} BY DEF Small, Digit, NonAscii
<1>3. name # <<>> => Len(name) > 0 /\ Head(name) = name[1] /\ Last(name) = name[Len(name)]
  BY <1>1 DEF Last
<1>4. ASSUME is_conforming(name) PROVE IsName(name)
  <2>1. name # <<>> /\ Len(name) <= MAX_NAME_LENGTH /\ Range(name) \subseteq Inner
        /\ {Head(name), Last(name)} \subseteq Small \cup Digit
    BY <1>4 DEF is_conforming, FullMatch
  <2>2. \A i \in DOMAIN name : name[i] \in Inner BY <2>1 DEF Range
  <2>3. name[1] \in Small \cup Digit /\ name[Len(name)] \in Small \cup Digit BY <1>3, <2>1
  <2> QED BY <1>1, <1>3, <2>1, <2>2, <2>3 DEF IsName
<1>5. ASSUME IsName(name) PROVE is_conforming(name)
  <2>1. Len(name) \in 1 .. MAX_NAME_LENGTH BY <1>5 DEF IsName
  <2>2. \A i \in DOMAIN name : name[i] \in Inner BY <1>5 DEF IsName
  <2>3. Range(name) \subseteq Inner BY <2>2 DEF Range
  <2>4. name # <<>> BY <1>1, <2>1
  <2>5. name[1] \in Small \cup Digit /\ name[Len(name)] \in Small \cup Digit
    BY <1>1, <1>5, <2>1 DEF IsName
  <2>6. {Head(name), Last(name)} \subseteq Small \cup Digit BY <1>3, <2>4, <2>5
  <2>7. Len(name) <= MAX_NAME_LENGTH BY <2>1
  <2>8. IsAscii(name) BY <1>2, <2>3 DEF IsAscii
  <2> QED BY <2>3, <2>4, <2>6, <2>7, <2>8 DEF is_conforming, FullMatch
<1> QED BY <1>4, <1>5

\* str.lower() changes characters and keeps their number.
LEMMA LowerType ==
  ASSUME NEW raw \in Text
  PROVE  /\ Lower(raw) \in Text /\ Len(Lower(raw)) = Len(raw)
         /\ \A i \in 1 .. Len(raw) : Lower(raw)[i] = LowerOf(raw[i])
<1>1. raw \in Seq(Characters) /\ Len(raw) \in Nat /\ DOMAIN raw = 1 .. Len(raw) BY DEF Text
<1>2. ASSUME NEW i \in 1 .. Len(raw) PROVE LowerOf(raw[i]) \in Characters
  <2>1. raw[i] \in Characters BY <1>1
  <2>2. LowerOf(raw[i]) \in {"a", "k", raw[i]} BY DEF LowerOf
  <2>3. "a" \in Characters /\ "k" \in Characters BY DEF Characters, Small
  <2> QED BY <2>1, <2>2, <2>3
<1>3. Lower(raw) = [i \in 1 .. Len(raw) |-> LowerOf(raw[i])] BY <1>1 DEF Lower
<1> HIDE DEF Lower
<1>4. Lower(raw) \in [1 .. Len(raw) -> Characters] BY <1>2, <1>3
<1>5. Lower(raw) \in Seq(Characters) /\ Len(Lower(raw)) = Len(raw) BY <1>1, <1>4
<1> QED BY <1>3, <1>5 DEF Text

\* A folded text is a text.
LEMMA FoldType ==
  ASSUME NEW raw \in Text
  PROVE  fold(raw) \in Text
BY LowerType DEF fold

\* A request's text becomes a name of the same letters, or none.
LEMMA NormaliseResult ==
  ASSUME NEW raw \in Text, normalise(raw) # Null
  PROVE  normalise(raw) \in Text /\ IsName(normalise(raw)) /\ SameLetters(raw, normalise(raw))
<1> DEFINE name == normalise(raw)
<1>1. name = fold(raw) /\ is_conforming(name) BY DEF normalise
<1>2. name \in Text BY <1>1, FoldType
<1>3. IsName(name) BY <1>1, <1>2, ConformingIsName
<1>4. IsAscii(name) BY <1>1 DEF is_conforming
<1>5. IsAscii(raw) /\ name = Lower(raw) BY <1>1, <1>4 DEF fold
<1>6. SameLetters(raw, name)
  <2>1. Len(name) = Len(raw) /\ \A i \in 1 .. Len(raw) : name[i] = LowerOf(raw[i])
    BY <1>5, LowerType
  <2>2. DOMAIN raw = 1 .. Len(raw) /\ DOMAIN name = 1 .. Len(name) BY <1>2 DEF Text
  <2>3. \A i \in DOMAIN raw : raw[i] # "kelvin" BY <1>5 DEF IsAscii, NonAscii, Range
  <2>4. \A i \in DOMAIN name : raw[i] = name[i] \/ <<raw[i], name[i]>> \in {<<"A", "a">>, <<"K", "k">>}
    BY <2>1, <2>2, <2>3 DEF LowerOf
  <2> HIDE DEF name
  <2> QED BY <2>1, <2>4 DEF SameLetters
<1> QED BY <1>2, <1>3, <1>6

\* Every way to write a name in letters becomes that name.
LEMMA NormaliseOfName ==
  ASSUME NEW raw \in Text, NEW name \in Text, IsName(name), SameLetters(raw, name)
  PROVE  normalise(raw) = name
<1>1. DOMAIN raw = 1 .. Len(raw) /\ DOMAIN name = 1 .. Len(name) /\ Len(raw) = Len(name)
  BY DEF Text, SameLetters
<1>2. \A i \in DOMAIN name : name[i] \in Small \cup Digit \cup {"-"} BY DEF IsName
<1>3. \A i \in DOMAIN raw : raw[i] \notin NonAscii
  BY <1>1, <1>2 DEF SameLetters, NonAscii, Small, Digit
<1>4. IsAscii(raw) BY <1>3 DEF IsAscii, Range
<1>5. \A i \in DOMAIN raw : LowerOf(raw[i]) = name[i]
  BY <1>1, <1>2 DEF SameLetters, LowerOf, Small, Digit
<1>6. Lower(raw) = name
  <2>1. name = [i \in 1 .. Len(name) |-> name[i]] BY <1>1 DEF Text
  <2>2. Lower(raw) = [i \in 1 .. Len(name) |-> name[i]] BY <1>1, <1>5 DEF Lower
  <2> QED BY <2>1, <2>2
<1>7. is_conforming(name) BY ConformingIsName
<1> QED BY <1>4, <1>6, <1>7 DEF normalise, fold

\* What the generator draws is a name.
LEMMA GeneratedIsName ==
  ASSUME NEW name \in generate
  PROVE  name \in Text /\ IsName(name)
<1>1. PICK x \in ALPHABET, y \in ALPHABET : name = <<x, y>> BY DEF generate
<1>2. x \in Small \cup Digit /\ y \in Small \cup Digit /\ x \in Characters /\ y \in Characters
  <2>1. "k" \in Small \cup Digit /\ "2" \in Small \cup Digit BY DEF Small, Digit
  <2>2. "k" \in Characters /\ "2" \in Characters BY DEF Characters, Small, Digit
  <2>3. x \in {"k", "2"} /\ y \in {"k", "2"} BY <1>1 DEF ALPHABET
  <2> QED BY <2>1, <2>2, <2>3
<1>3. name \in Seq(Characters) /\ Len(name) = 2 /\ name[1] = x /\ name[2] = y BY <1>1, <1>2
<1> QED BY <1>2, <1>3, ConstantsAssumption DEF Text, IsName

-----------------------------------------------------------------------------
(* The team key *)

\* A service starts with a key that is bare text, whatever its environment
\* holds.
LEMMA KeyOfSetting ==
  ASSUME NEW setting \in Settings, load_config(setting) # Null
  PROVE  LET key == load_config(setting)
         IN  key \in Text /\ Bare(key) /\ IsAscii(key) /\ Range(key) \cap Control = {}
<1>1. setting \in Text BY RequestsAssumption
<1>2. Strip(setting) \in Text /\ (Strip(setting) # <<>> => Bare(Strip(setting)))
  BY <1>1, StripResult
<1> QED BY <1>2 DEF load_config

\* The shape of a header, as Starlette and the schemes give it
Header(auth) ==
  auth # Null => auth.token \in Text \/ (auth.token = Null /\ auth.scheme = "basic")

\* The key alone, but for whitespace around it, is what require_key accepts.
LEMMA BearerCarries ==
  ASSUME NEW auth, Header(auth), api_key \in Text, Bare(api_key)
  PROVE  require_key(auth) <=> Carries(auth, api_key) /\ auth.scheme = "bearer"
<1>1. ASSUME require_key(auth) PROVE Carries(auth, api_key) /\ auth.scheme = "bearer"
  <2>1. /\ auth # Null /\ auth.scheme = "bearer" /\ Strip(auth.token) = api_key
        /\ auth.token \in Text
    BY <1>1 DEF require_key, _is_team_key, Header
  <2>2. api_key # <<>> BY DEF Bare
  <2>3. PICK i, j : Cut(auth.token, api_key, i, j) BY <2>1, <2>2, StripResult
  <2>4. i - 1 \in 0 .. Len(auth.token) /\ j \in 0 .. Len(auth.token) /\ (i - 1) + 1 = i
    <3>1. Len(auth.token) \in Nat BY <2>1 DEF Text
    <3> QED BY <2>3, <3>1 DEF Cut
  <2>5. \E n, m \in 0 .. Len(auth.token) :
             /\ SubSeq(auth.token, n + 1, m) = api_key
             /\ \A o \in (1 .. Len(auth.token)) \ (n + 1 .. m) : auth.token[o] \in Space
    BY <2>3, <2>4 DEF Cut
  <2> QED BY <2>1, <2>2, <2>5 DEF Carries
<1>2. ASSUME Carries(auth, api_key), auth.scheme = "bearer" PROVE require_key(auth)
  <2>1. auth # Null /\ auth.token \in Text BY <1>2 DEF Carries, Header
  <2>2. PICK i \in 0 .. Len(auth.token), j \in 0 .. Len(auth.token) :
             /\ SubSeq(auth.token, i + 1, j) = api_key
             /\ \A o \in (1 .. Len(auth.token)) \ (i + 1 .. j) : auth.token[o] \in Space
    BY <1>2 DEF Carries
  <2>3. Cut(auth.token, api_key, i + 1, j)
    <3>1. Len(auth.token) \in Nat BY <2>1 DEF Text
    <3>2. i + 1 \in 1 .. Len(auth.token) + 1 BY <3>1
    <3> QED BY <2>2, <3>2 DEF Cut
  <2>4. Strip(auth.token) = api_key BY <2>1, <2>3, StripUnique
  <2> QED BY <1>2, <2>1, <2>4 DEF require_key, _is_team_key
<1> QED BY <1>1, <1>2

\* The place of the first colon is the one place with a colon and none before.
LEMMA FirstColon ==
  ASSUME NEW token \in Text, NEW i \in DOMAIN token,
         token[i] = ":", \A j \in 1 .. i - 1 : token[j] # ":"
  PROVE  AfterColon(token) = SubSeq(token, i + 1, Len(token))
<1>1. DOMAIN token = 1 .. Len(token) /\ Len(token) \in Nat BY DEF Text
<1>2. ASSUME NEW n \in DOMAIN token, token[n] = ":", \A j \in 1 .. n - 1 : token[j] # ":"
      PROVE  n = i
  <2>1. ~ (n < i) /\ ~ (i < n) BY <1>1, <1>2
  <2> QED BY <1>1, <2>1
<1>3. i = CHOOSE n \in DOMAIN token : token[n] = ":" /\ \A j \in 1 .. n - 1 : token[j] # ":"
  BY <1>2
<1> QED BY <1>3 DEF AfterColon

\* <<":">> and the key are what a text ends with from a colon on, if and only
\* if the key follows that colon.
LEMMA ColonAndKey ==
  ASSUME NEW token \in Text, NEW i \in DOMAIN token, api_key \in Text
  PROVE  SubSeq(token, i, Len(token)) = <<":">> \o api_key
           <=> token[i] = ":" /\ SubSeq(token, i + 1, Len(token)) = api_key
<1>1. /\ DOMAIN token = 1 .. Len(token) /\ Len(token) \in Nat /\ token \in Seq(Characters)
      /\ i \in 1 .. Len(token)
  BY DEF Text
<1> DEFINE s == SubSeq(token, i, Len(token))
           t == SubSeq(token, i + 1, Len(token))
           k == <<":">> \o api_key
<1>2. /\ s \in Seq(Characters) /\ Len(s) = Len(token) - i + 1
      /\ \A m \in 1 .. Len(token) - i + 1 : s[m] = token[i + m - 1]
  BY <1>1
<1>3. /\ t \in Seq(Characters) /\ Len(t) = Len(token) - i
      /\ \A m \in 1 .. Len(token) - i : t[m] = token[i + m]
  <2>1. CASE i = Len(token) BY <1>1, <2>1
  <2>2. CASE i + 1 <= Len(token)
    <3>1. i + 1 \in 1 .. Len(token) BY <1>1, <2>2
    <3>2. /\ t \in Seq(Characters) /\ Len(t) = Len(token) - (i + 1) + 1
          /\ \A m \in 1 .. Len(token) - (i + 1) + 1 : t[m] = token[i + 1 + m - 1]
      BY <1>1, <2>2, <3>1
    <3> QED BY <1>1, <3>2
  <2> QED BY <1>1, <2>1, <2>2
<1>4. /\ k \in Seq(Characters) /\ Len(k) = Len(api_key) + 1 /\ Len(api_key) \in Nat
      /\ k[1] = ":" /\ \A m \in 1 .. Len(api_key) : k[m + 1] = api_key[m]
  <2>1. <<":">> \in Seq(Characters) BY DEF Characters
  <2> QED BY <2>1 DEF Text
<1>5. api_key \in Seq(Characters) BY DEF Text
<1> HIDE DEF s, t, k
<1>6. ASSUME s = k PROVE token[i] = ":" /\ t = api_key
  <2>1. token[i] = ":"
    <3>1. 1 \in 1 .. Len(token) - i + 1 BY <1>1
    <3>2. s[1] = token[i + 1 - 1] /\ i + 1 - 1 = i BY <1>1, <1>2, <3>1
    <3> QED BY <1>4, <1>6, <3>2
  <2>2. Len(t) = Len(api_key) BY <1>1, <1>2, <1>3, <1>4, <1>6
  <2>3. ASSUME NEW m \in 1 .. Len(api_key) PROVE t[m] = api_key[m]
    <3>1. m + 1 \in 1 .. Len(token) - i + 1 /\ m \in 1 .. Len(token) - i BY <1>1, <1>3, <1>4, <2>2
    <3>2. s[m + 1] = token[i + (m + 1) - 1] /\ i + (m + 1) - 1 = i + m BY <1>1, <1>2, <3>1
    <3>3. t[m] = token[i + m] BY <1>3, <3>1
    <3> QED BY <1>4, <1>6, <3>2, <3>3
  <2>4. api_key = [m \in 1 .. Len(api_key) |-> api_key[m]] BY <1>5
  <2>5. t = [m \in 1 .. Len(t) |-> t[m]] BY <1>3
  <2> QED BY <2>1, <2>2, <2>3, <2>4, <2>5
<1>7. ASSUME token[i] = ":", t = api_key PROVE s = k
  <2>1. Len(s) = Len(k) BY <1>1, <1>2, <1>3, <1>4, <1>7
  <2>2. ASSUME NEW m \in 1 .. Len(s) PROVE s[m] = k[m]
    <3>1. s[m] = token[i + m - 1] BY <1>2
    <3>2. CASE m = 1 BY <1>1, <1>4, <1>7, <3>1, <3>2
    <3>3. CASE m # 1
      <4>1. m - 1 \in 1 .. Len(api_key) /\ (m - 1) + 1 = m /\ i + (m - 1) = i + m - 1
        BY <1>1, <1>2, <1>3, <1>7, <3>3
      <4>2. k[m] = api_key[m - 1] BY <1>4, <4>1
      <4>3. t[m - 1] = token[i + (m - 1)] BY <1>3, <1>7, <4>1
      <4> QED BY <1>7, <3>1, <4>1, <4>2, <4>3
    <3> QED BY <3>2, <3>3
  <2>3. s \in Seq(Characters) /\ k \in Seq(Characters) BY <1>2, <1>4
  <2> QED BY <2>1, <2>2, <2>3
<1> QED BY <1>6, <1>7 DEF s, t, k

\* What follows the first colon is the key: that is the header that
\* require_basic_key accepts, also when the key has a colon in it.
LEMMA BasicCarries ==
  ASSUME NEW auth, Header(auth), api_key \in Text, Bare(api_key)
  PROVE  require_basic_key(auth) <=> Carries(auth, api_key) /\ auth.scheme = "basic"
<1> DEFINE token == auth.token
<1>1. ASSUME require_basic_key(auth) PROVE Carries(auth, api_key) /\ auth.scheme = "basic"
  <2>1. /\ auth # Null /\ auth.scheme = "basic" /\ token # Null /\ token \in Text
        /\ ":" \in Range(token) /\ AfterColon(token) = api_key
    BY <1>1 DEF require_basic_key, _is_team_key, Header
  <2>2. DOMAIN token = 1 .. Len(token) /\ Len(token) \in Nat /\ token \in Seq(Characters)
    BY <2>1 DEF Text
  <2> HIDE DEF token
  <2>3. PICK i \in DOMAIN token : token[i] = ":" /\ \A j \in 1 .. i - 1 : token[j] # ":"
    <3> DEFINE S == {i \in DOMAIN token : token[i] = ":"}
    <3>1. S \in SUBSET Nat /\ S # {} BY <2>1, <2>2 DEF Range
    <3>2. PICK i \in S : \A j \in S : i <= j
      <4> HIDE DEF S
      <4> QED BY <3>1, LeastOf
    <3>3. ASSUME NEW j \in 1 .. i - 1 PROVE token[j] # ":"
      <4>1. j \in DOMAIN token /\ ~ (i <= j) BY <2>2, <3>2
      <4> QED BY <3>2, <4>1
    <3> QED BY <3>2, <3>3
  <2>4. SubSeq(token, i + 1, Len(token)) = api_key BY <2>1, <2>3, FirstColon
  <2>5. SubSeq(token, i, Len(token)) = <<":">> \o api_key BY <2>1, <2>3, <2>4, ColonAndKey
  <2>6. ":" \notin Range(SubSeq(token, 1, i - 1))
    <3> DEFINE before == SubSeq(token, 1, i - 1)
    <3>1. DOMAIN before \subseteq 1 .. i - 1 /\ \A m \in DOMAIN before : before[m] = token[m]
      BY <2>2
    <3> HIDE DEF before
    <3>2. ":" \notin Range(before) BY <2>3, <3>1 DEF Range
    <3> QED BY <3>2 DEF before
  <2>7. api_key # <<>> BY DEF Bare
  <2> QED BY <2>1, <2>5, <2>6, <2>7 DEF Carries, token
<1>2. ASSUME Carries(auth, api_key), auth.scheme = "basic" PROVE require_basic_key(auth)
  <2>1. auth # Null /\ token # Null /\ token \in Text BY <1>2 DEF Carries, Header
  <2>2. PICK i \in DOMAIN token :
             /\ ":" \notin Range(SubSeq(token, 1, i - 1))
             /\ SubSeq(token, i, Len(token)) = <<":">> \o api_key
    BY <1>2 DEF Carries
  <2>3. DOMAIN token = 1 .. Len(token) /\ Len(token) \in Nat /\ token \in Seq(Characters)
    BY <2>1 DEF Text
  <2> HIDE DEF token
  <2>4. token[i] = ":" /\ SubSeq(token, i + 1, Len(token)) = api_key BY <2>1, <2>2, ColonAndKey
  <2>5. ASSUME NEW j \in 1 .. i - 1 PROVE token[j] # ":"
    <3> DEFINE before == SubSeq(token, 1, i - 1)
    <3>1. j \in DOMAIN before /\ before[j] = token[j] BY <2>3
    <3> HIDE DEF before
    <3>2. token[j] \in Range(before) BY <3>1 DEF Range
    <3> QED BY <2>2, <3>2 DEF before
  <2>6. AfterColon(token) = api_key BY <2>1, <2>4, <2>5, FirstColon
  <2>7. ":" \in Range(token) BY <2>4 DEF Range
  <2> QED BY <1>2, <2>1, <2>6, <2>7 DEF require_basic_key, _is_team_key, token
<1> QED BY <1>1, <1>2

-----------------------------------------------------------------------------
(* Routes *)

Ready(r) == {i \in DOMAIN Routes : Matches(Routes[i], r.path) /\ r.method \in Routes[i].methods}

\* The routes by their place in the order in which they are declared
LEMMA RouteTable ==
  /\ DOMAIN Routes = 1 .. 7
  /\ \A i \in 1 .. 7 :
       /\ Routes[i].handler = "create_link" <=> i = 1
       /\ Routes[i].handler = "delete_link" <=> i = 2
       /\ Routes[i].handler = "link_stats" <=> i = 3
       /\ Routes[i].handler = "follow" <=> i \in {6, 7}
       /\ Routes[i].handler \notin {"method_not_allowed", "not_found"}
       /\ Len(Routes[i].path) = 1 <=> i = 6
       /\ Len(Routes[i].path) = 2 <=> i \in {4, 5, 7}
       /\ Len(Routes[i].path) = 4 <=> i = 2
       /\ Len(Routes[i].path) = 5 <=> i = 3
  /\ Routes[1].methods = {"POST"} /\ "GET" \in Routes[6].methods /\ "GET" \in Routes[7].methods
  /\ Routes[4].path[1] = <<"-">> /\ Routes[5].path[1] = <<"-">>
  /\ Routes[6].path[1] = Null /\ Routes[7].path[1] = Null /\ Routes[7].path[2] = <<>>
<1>1. DOMAIN Routes = 1 .. 7 BY DEF Routes
<1>2. /\ Routes[1].handler = "create_link" /\ Routes[2].handler = "delete_link"
      /\ Routes[3].handler = "link_stats" /\ Routes[4].handler = "stats_page"
      /\ Routes[5].handler = "privacy_manifest" /\ Routes[6].handler = "follow"
      /\ Routes[7].handler = "follow"
  BY DEF Routes, Route
<1>3. /\ Len(Routes[1].path) = 3 /\ Len(Routes[2].path) = 4 /\ Len(Routes[3].path) = 5
      /\ Len(Routes[4].path) = 2 /\ Len(Routes[5].path) = 2 /\ Len(Routes[6].path) = 1
      /\ Len(Routes[7].path) = 2
  BY DEF Routes, Route
<1>4. /\ Routes[1].methods = {"POST"} /\ "GET" \in Routes[6].methods /\ "GET" \in Routes[7].methods
      /\ Routes[4].path[1] = <<"-">> /\ Routes[5].path[1] = <<"-">>
      /\ Routes[6].path[1] = Null /\ Routes[7].path[1] = Null /\ Routes[7].path[2] = <<>>
  BY DEF Routes, Route, AnyName
<1>5. ASSUME NEW i \in 1 .. 7
      PROVE  /\ Routes[i].handler = "create_link" <=> i = 1
             /\ Routes[i].handler = "delete_link" <=> i = 2
             /\ Routes[i].handler = "link_stats" <=> i = 3
             /\ Routes[i].handler = "follow" <=> i \in {6, 7}
             /\ Routes[i].handler \notin {"method_not_allowed", "not_found"}
             /\ Len(Routes[i].path) = 1 <=> i = 6
             /\ Len(Routes[i].path) = 2 <=> i \in {4, 5, 7}
             /\ Len(Routes[i].path) = 4 <=> i = 2
             /\ Len(Routes[i].path) = 5 <=> i = 3
  <2>1. CASE i = 1 BY <1>2, <1>3, <2>1
  <2>2. CASE i = 2 BY <1>2, <1>3, <2>2
  <2>3. CASE i = 3 BY <1>2, <1>3, <2>3
  <2>4. CASE i = 4 BY <1>2, <1>3, <2>4
  <2>5. CASE i = 5 BY <1>2, <1>3, <2>5
  <2>6. CASE i = 6 BY <1>2, <1>3, <2>6
  <2>7. CASE i = 7 BY <1>2, <1>3, <2>7
  <2> QED BY <2>1, <2>2, <2>3, <2>4, <2>5, <2>6, <2>7
<1> QED BY <1>1, <1>4, <1>5

\* The handler is that of the first route that is ready for the request.
LEMMA HandlerIsFirst ==
  ASSUME NEW r, Handler(r) \notin {"method_not_allowed", "not_found"}
  PROVE  \E i \in Ready(r) : Handler(r) = Routes[i].handler /\ \A j \in Ready(r) : i <= j
<1>1. Ready(r) = {i \in {j \in DOMAIN Routes : Matches(Routes[j], r.path)} : r.method \in Routes[i].methods}
  BY DEF Ready
<1>2. Ready(r) # {} /\ Handler(r) = Routes[CHOOSE i \in Ready(r) : \A j \in Ready(r) : i <= j].handler
  BY <1>1 DEF Handler
<1>3. Ready(r) \in SUBSET Nat BY RouteTable DEF Ready
<1>4. \E i \in Ready(r) : \A j \in Ready(r) : i <= j BY <1>2, <1>3, LeastOf
<1> QED BY <1>2, <1>4

\* A create is a POST; a request about a link has a text in its place for
\* the name.
LEMMA HandlerOfName ==
  ASSUME NEW r, r.path \in Seq(Text), r.path # <<>>
  PROVE  /\ Handler(r) = "create_link" => r.method = "POST"
         /\ Handler(r) \in {"delete_link", "link_stats", "follow"} => NameOf(r) \in Text
         /\ Handler(r) = "follow" => NameOf(r) = r.path[1] \/ r.path[1] # <<"-">>
<1>1. SUFFICES ASSUME Handler(r) \in {"create_link", "delete_link", "link_stats", "follow"}
               PROVE  /\ Handler(r) = "create_link" => r.method = "POST"
                      /\ Handler(r) \in {"delete_link", "link_stats", "follow"} => NameOf(r) \in Text
                      /\ Handler(r) = "follow" => NameOf(r) = r.path[1] \/ r.path[1] # <<"-">>
  OBVIOUS
<1>2. PICK i \in Ready(r) : Handler(r) = Routes[i].handler BY <1>1, HandlerIsFirst
<1>3. i \in 1 .. 7 /\ r.method \in Routes[i].methods /\ Len(r.path) = Len(Routes[i].path)
  BY <1>2, RouteTable DEF Ready, Matches
<1>4. CASE i = 1 BY <1>2, <1>3, <1>4, RouteTable
<1>5. CASE i \in {2, 3}
  <2>1. Len(r.path) \in {4, 5} BY <1>3, <1>5, RouteTable
  <2>2. r.path[1] \in Text /\ r.path[4] \in Text BY <2>1
  <2> QED BY <1>2, <1>3, <1>5, <2>2, RouteTable DEF NameOf
<1>6. CASE i \in {6, 7}
  <2>1. Len(r.path) \in {1, 2} BY <1>3, <1>6, RouteTable
  <2>2. NameOf(r) = r.path[1]
    <3>1. CASE Len(r.path) = 1 BY <3>1 DEF NameOf
    <3>2. CASE Len(r.path) = 2 BY <3>2 DEF NameOf
    <3> QED BY <2>1, <3>1, <3>2
  <2>3. r.path[1] \in Text BY <2>1
  <2> QED BY <1>2, <1>3, <1>6, <2>2, <2>3, RouteTable
<1> QED BY <1>1, <1>2, <1>3, <1>4, <1>5, <1>6, RouteTable

\* Whatever the name, its path is found at the route that follows links.
LEMMA NameIsFollowed ==
  ASSUME NEW name \in Text, IsName(name), NEW path \in {<<name>>, <<name, <<>> >>}
  PROVE  Handler([method |-> "GET", path |-> path]) = "follow"
<1> DEFINE r == [method |-> "GET", path |-> path]
           n == Len(path) + 5
<1>1. r.path = path /\ r.method = "GET" OBVIOUS
<1>2. /\ DOMAIN path = 1 .. Len(path) /\ path[1] = name
      /\ Len(path) = 1 \/ (Len(path) = 2 /\ path[2] = <<>>)
  <2>1. CASE path = <<name>> BY <2>1
  <2>2. CASE path = <<name, <<>> >> BY <2>2
  <2> QED BY <2>1, <2>2
<1>3. name # <<>> /\ name # <<"-">>
  <2>1. Len(name) >= 1 BY DEF IsName, Text
  <2>2. name = <<"-">> => Len(name) = 1 /\ name[1] = "-" /\ 1 \in DOMAIN name OBVIOUS
  <2>3. "-" \notin Small \cup Digit BY DEF Small, Digit
  <2> QED BY <2>1, <2>2, <2>3 DEF IsName
<1>4. <<>> # Null
  <2>1. <<>> \in Text BY DEF Text
  <2> QED BY <2>1, RequestsAssumption
<1>5. n \in 1 .. 7 /\ n \in {6, 7} /\ Len(path) = Len(Routes[n].path)
  <2>1. CASE Len(path) = 1 BY <2>1, RouteTable
  <2>2. CASE Len(path) = 2 BY <2>2, RouteTable
  <2> QED BY <1>2, <2>1, <2>2
<1>6. n \in Ready(r)
  <2>1. ASSUME NEW i \in DOMAIN path
        PROVE  \/ Routes[n].path[i] = AnyName /\ path[i] # <<>>
               \/ Routes[n].path[i] # AnyName /\ path[i] = Routes[n].path[i]
    <3>1. CASE i = 1
      <4>1. Routes[n].path[1] = Null BY <1>5, RouteTable
      <4> QED BY <1>2, <1>3, <3>1, <4>1 DEF AnyName
    <3>2. CASE i # 1
      <4>1. Len(path) = 2 /\ i = 2 /\ path[2] = <<>> BY <1>2, <3>2
      <4> QED BY <1>4, <4>1, RouteTable DEF AnyName
    <3> QED BY <3>1, <3>2
  <2>2. Matches(Routes[n], path) BY <1>5, <2>1 DEF Matches
  <2> HIDE DEF n
  <2> QED BY <1>1, <1>5, <2>2, RouteTable DEF Ready
<1>7. ASSUME NEW i \in Ready(r) PROVE i = n
  <2>1. i \in 1 .. 7 /\ Matches(Routes[i], path) /\ Len(path) = Len(Routes[i].path)
    BY <1>1, RouteTable DEF Ready, Matches
  <2>2. CASE Len(path) = 1
    <3>1. Len(Routes[i].path) = 1 BY <2>1, <2>2
    <3> QED BY <2>1, <2>2, <3>1, RouteTable
  <2>3. CASE Len(path) = 2
    <3>1. i \in {4, 5, 7} BY <2>1, <2>3, RouteTable
    <3>2. ASSUME i \in {4, 5} PROVE FALSE
      <4>1. Routes[i].path[1] = <<"-">> BY <3>2, RouteTable
      <4>2. <<"-">> # Null
        <5>1. <<"-">> \in Text BY DEF Text, Characters
        <5> QED BY <5>1, RequestsAssumption
      <4>3. 1 \in DOMAIN path /\ 1 # Len(path) BY <1>2, <2>3
      <4>4. path[1] = <<"-">> BY <2>1, <4>1, <4>2, <4>3 DEF Matches, AnyName
      <4> QED BY <1>2, <1>3, <4>4
    <3> QED BY <2>3, <3>1, <3>2
  <2> QED BY <1>2, <2>2, <2>3
<1>8. Handler(r) = Routes[n].handler
  <2>1. n \in Nat BY <1>5
  <2>2. n = CHOOSE i \in Ready(r) : \A j \in Ready(r) : i <= j
    <3>1. \A j \in Ready(r) : n <= j BY <1>7, <2>1
    <3>2. \A i \in Ready(r) : (\A j \in Ready(r) : i <= j) => i = n BY <1>7
    <3> HIDE DEF n, r
    <3> QED BY <1>6, <3>1, <3>2
  <2>3. Ready(r) = {i \in {j \in DOMAIN Routes : Matches(Routes[j], r.path)} : r.method \in Routes[i].methods}
    BY DEF Ready
  <2> HIDE DEF n, r
  <2>4. Ready(r) # {} BY <1>6
  <2> QED BY <2>2, <2>3, <2>4 DEF Handler
<1>9. Routes[n].handler = "follow" BY <1>5, RouteTable
<1> QED BY <1>8, <1>9

-----------------------------------------------------------------------------
(* Digits *)

D1(t) == (t \div (Base * Base)) \div Base
D2(t) == (t \div (Base * Base)) % Base
D3(t) == (t % (Base * Base)) \div Base
D4(t) == (t % (Base * Base)) % Base

\* Division by each base
LEMMA HalfOf ==
  ASSUME NEW n \in 0 .. 3
  PROVE  n \div 2 \in 0 .. 1 /\ n % 2 \in 0 .. 1 /\ n = 2 * (n \div 2) + (n % 2)
OBVIOUS

\* The same in base three
LEMMA ThirdOf ==
  ASSUME NEW n \in 0 .. 8
  PROVE  n \div 3 \in 0 .. 2 /\ n % 3 \in 0 .. 2 /\ n = 3 * (n \div 3) + (n % 3)
OBVIOUS

\* A moment is what its four digits say.
LEMMA DigitsOf ==
  ASSUME NEW t \in Instants
  PROVE  /\ D1(t) \in 0 .. Base - 1 /\ D2(t) \in 0 .. Base - 1
         /\ D3(t) \in 0 .. Base - 1 /\ D4(t) \in 0 .. Base - 1
         /\ t = ((D1(t) * Base + D2(t)) * Base + D3(t)) * Base + D4(t)
<1> DEFINE q == t \div (Base * Base)
           r == t % (Base * Base)
<1>1. CASE Base = 2
  <2>1. t \in 0 .. 15 /\ Base * Base = 4 BY <1>1 DEF Instants
  <2>2. q \in 0 .. 3 /\ r \in 0 .. 3 /\ t = 4 * q + r BY <1>1, <2>1
  <2> HIDE DEF q, r
  <2>3. q \div 2 \in 0 .. 1 /\ q % 2 \in 0 .. 1 /\ q = 2 * (q \div 2) + (q % 2) BY <2>2, HalfOf
  <2>4. r \div 2 \in 0 .. 1 /\ r % 2 \in 0 .. 1 /\ r = 2 * (r \div 2) + (r % 2) BY <2>2, HalfOf
  <2>5. D1(t) = q \div 2 /\ D2(t) = q % 2 /\ D3(t) = r \div 2 /\ D4(t) = r % 2
    BY <1>1 DEF D1, D2, D3, D4, q, r
  <2> HIDE DEF D1, D2, D3, D4
  <2> QED BY <1>1, <2>2, <2>3, <2>4, <2>5
<1>2. CASE Base = 3
  <2>1. t \in 0 .. 80 /\ Base * Base = 9 BY <1>2 DEF Instants
  <2>2. q \in 0 .. 8 /\ r \in 0 .. 8 /\ t = 9 * q + r BY <1>2, <2>1
  <2> HIDE DEF q, r
  <2>3. q \div 3 \in 0 .. 2 /\ q % 3 \in 0 .. 2 /\ q = 3 * (q \div 3) + (q % 3) BY <2>2, ThirdOf
  <2>4. r \div 3 \in 0 .. 2 /\ r % 3 \in 0 .. 2 /\ r = 3 * (r \div 3) + (r % 3) BY <2>2, ThirdOf
  <2>5. D1(t) = q \div 3 /\ D2(t) = q % 3 /\ D3(t) = r \div 3 /\ D4(t) = r % 3
    BY <1>2 DEF D1, D2, D3, D4, q, r
  <2> HIDE DEF D1, D2, D3, D4
  <2>6. t = 27 * (q \div 3) + 9 * (q % 3) + 3 * (r \div 3) + (r % 3) BY <2>2, <2>3, <2>4
  <2>7. t = ((D1(t) * 3 + D2(t)) * 3 + D3(t)) * 3 + D4(t)
    BY <2>3, <2>4, <2>5, <2>6
  <2> QED BY <1>2, <2>3, <2>4, <2>5, <2>7
<1> QED BY <1>1, <1>2, ConstantsAssumption

\* The order of moments is that of their digits, the first that differs first.
LEMMA DigitOrder ==
  ASSUME NEW t \in Instants, NEW u \in Instants
  PROVE  t <= u <=> \/ D1(t) < D1(u)
                    \/ D1(t) = D1(u) /\ D2(t) < D2(u)
                    \/ D1(t) = D1(u) /\ D2(t) = D2(u) /\ D3(t) < D3(u)
                    \/ D1(t) = D1(u) /\ D2(t) = D2(u) /\ D3(t) = D3(u) /\ D4(t) <= D4(u)
<1>1. /\ D1(t) \in 0 .. Base - 1 /\ D2(t) \in 0 .. Base - 1
      /\ D3(t) \in 0 .. Base - 1 /\ D4(t) \in 0 .. Base - 1
      /\ t = ((D1(t) * Base + D2(t)) * Base + D3(t)) * Base + D4(t)
  BY DigitsOf
<1>2. /\ D1(u) \in 0 .. Base - 1 /\ D2(u) \in 0 .. Base - 1
      /\ D3(u) \in 0 .. Base - 1 /\ D4(u) \in 0 .. Base - 1
      /\ u = ((D1(u) * Base + D2(u)) * Base + D3(u)) * Base + D4(u)
  BY DigitsOf
<1> HIDE DEF D1, D2, D3, D4
<1>3. CASE Base = 2 BY <1>1, <1>2, <1>3
<1>4. CASE Base = 3
  <2>1. /\ D1(t) \in 0 .. 2 /\ D2(t) \in 0 .. 2 /\ D3(t) \in 0 .. 2 /\ D4(t) \in 0 .. 2
        /\ D1(u) \in 0 .. 2 /\ D2(u) \in 0 .. 2 /\ D3(u) \in 0 .. 2 /\ D4(u) \in 0 .. 2
    BY <1>1, <1>2, <1>4
  <2>2. t = 27 * D1(t) + 9 * D2(t) + 3 * D3(t) + D4(t) BY <1>1, <1>4, <2>1
  <2>3. u = 27 * D1(u) + 9 * D2(u) + 3 * D3(u) + D4(u) BY <1>2, <1>4, <2>1
  <2> QED BY <2>1, <2>2, <2>3
<1> QED BY <1>3, <1>4, ConstantsAssumption

-----------------------------------------------------------------------------
(* Timestamps *)

\* s is a and then b.
Joint(s, a, b) ==
  /\ s \in Seq(Characters) /\ Len(s) = Len(a) + Len(b)
  /\ \A i \in 1 .. Len(a) : s[i] = a[i]
  /\ \A i \in 1 .. Len(b) : s[Len(a) + i] = b[i]

\* What concatenation joins
LEMMA Concatenation ==
  ASSUME NEW a \in Seq(Characters), NEW b \in Seq(Characters)
  PROVE  Joint(a \o b, a, b)
<1>1. a \o b \in Seq(Characters) OBVIOUS
<1>2. Len(a \o b) = Len(a) + Len(b) OBVIOUS
<1>3. ASSUME NEW i \in 1 .. Len(a) PROVE (a \o b)[i] = a[i] OBVIOUS
<1>4. ASSUME NEW i \in 1 .. Len(b) PROVE (a \o b)[Len(a) + i] = b[i] OBVIOUS
<1> QED BY <1>1, <1>2, <1>3, <1>4 DEF Joint

\* s is f, x, g and y one after the other.
Splice(s, f, x, g, y) ==
  /\ s \in Seq(Characters) /\ Len(s) = Len(f) + Len(g) + 2
  /\ \A i \in 1 .. Len(f) : s[i] = f[i]
  /\ s[Len(f) + 1] = x
  /\ \A i \in 1 .. Len(g) : s[Len(f) + 1 + i] = g[i]
  /\ s[Len(f) + Len(g) + 2] = y

\* What stands where in the text of a timestamp
LEMMA Joined ==
  ASSUME NEW f \in Seq(Characters), NEW g \in Seq(Characters),
         NEW x \in Characters, NEW y \in Characters,
         NEW s, s = Format(f, x, g, y)
  PROVE  Splice(s, f, x, g, y)
<1> DEFINE a == f \o <<x>>
           b == a \o g
<1>1. s = b \o <<y>> BY DEF Format
<1>2. /\ a \in Seq(Characters) /\ Len(a) = Len(f) + 1
      /\ \A i \in 1 .. Len(f) : a[i] = f[i]
      /\ a[Len(f) + 1] = x
  OBVIOUS
<1> HIDE DEF a
<1>3. Joint(b, a, g) BY <1>2, Concatenation
<1>4. Joint(s, b, <<y>>)
  <2>1. b \in Seq(Characters) BY <1>3 DEF Joint
  <2> HIDE DEF b
  <2>2. <<y>> \in Seq(Characters) OBVIOUS
  <2> QED BY <1>1, <2>1, <2>2, Concatenation
<1> HIDE DEF b
<1>5. /\ b \in Seq(Characters) /\ Len(b) = Len(a) + Len(g)
      /\ \A i \in 1 .. Len(a) : b[i] = a[i]
      /\ \A i \in 1 .. Len(g) : b[Len(a) + i] = g[i]
  BY <1>3 DEF Joint
<1>6. /\ s \in Seq(Characters) /\ Len(s) = Len(b) + 1
       /\ \A i \in 1 .. Len(b) : s[i] = b[i]
       /\ s[Len(b) + 1] = y
  <2>1. Len(<<y>>) = 1 /\ <<y>>[1] = y /\ 1 \in 1 .. Len(<<y>>) OBVIOUS
  <2> QED BY <1>4, <2>1 DEF Joint
<1>7. Len(f) \in Nat /\ Len(g) \in Nat OBVIOUS
<1>8. Len(s) = Len(f) + Len(g) + 2 /\ s[Len(f) + Len(g) + 2] = y BY <1>2, <1>5, <1>6, <1>7
<1>9. ASSUME NEW i \in 1 .. Len(f) PROVE s[i] = f[i]
  <2>1. i \in 1 .. Len(a) /\ i \in 1 .. Len(b) BY <1>2, <1>5, <1>7
  <2> QED BY <1>2, <1>5, <1>6, <2>1
<1>10. s[Len(f) + 1] = x
  <2>1. Len(f) + 1 \in 1 .. Len(a) /\ Len(f) + 1 \in 1 .. Len(b) BY <1>2, <1>5, <1>7
  <2> QED BY <1>2, <1>5, <1>6, <2>1
<1>11. ASSUME NEW i \in 1 .. Len(g) PROVE s[Len(f) + 1 + i] = g[i]
  <2>1. Len(a) + i \in 1 .. Len(b) /\ Len(a) + i = Len(f) + 1 + i BY <1>2, <1>5, <1>7
  <2> QED BY <1>5, <1>6, <2>1
<1> QED BY <1>6, <1>8, <1>9, <1>10, <1>11 DEF Splice

\* How a moment is printed
LEMMA PrintedText ==
  ASSUME NEW t \in Instants
  PROVE  /\ strftime(t) \in Text /\ Len(strftime(t)) = 6
         /\ strftime(t)[1] = Figure[D1(t) + 1] /\ strftime(t)[2] = Figure[D2(t) + 1]
         /\ strftime(t)[3] = "T"
         /\ strftime(t)[4] = Figure[D3(t) + 1] /\ strftime(t)[5] = Figure[D4(t) + 1]
         /\ strftime(t)[6] = "Z"
<1> DEFINE f == <<Figure[D1(t) + 1], Figure[D2(t) + 1]>>
           g == <<Figure[D3(t) + 1], Figure[D4(t) + 1]>>
<1>1. strftime(t) = Format(f, "T", g, "Z") BY DEF strftime, Padded, D1, D2, D3, D4
<1>2. ASSUME NEW d \in 0 .. Base - 1 PROVE Figure[d + 1] \in Characters
  <2>1. d = 0 \/ d = 1 \/ d = 2 BY ConstantsAssumption
  <2>2. CASE d = 0 BY <2>2 DEF Figure, Characters, Digit
  <2>3. CASE d = 1 BY <2>3 DEF Figure, Characters, Digit
  <2>4. CASE d = 2 BY <2>4 DEF Figure, Characters, Digit
  <2> QED BY <2>1, <2>2, <2>3, <2>4
<1>3. /\ f \in Seq(Characters) /\ Len(f) = 2 /\ f[1] = Figure[D1(t) + 1] /\ f[2] = Figure[D2(t) + 1]
      /\ g \in Seq(Characters) /\ Len(g) = 2 /\ g[1] = Figure[D3(t) + 1] /\ g[2] = Figure[D4(t) + 1]
  BY <1>2, DigitsOf
<1>4. "T" \in Characters /\ "Z" \in Characters BY DEF Characters
<1> HIDE DEF f, g
<1>5. Splice(strftime(t), f, "T", g, "Z") BY <1>1, <1>3, <1>4, Joined
<1>6. /\ strftime(t) \in Text /\ Len(strftime(t)) = 6
      /\ strftime(t)[3] = "T" /\ strftime(t)[6] = "Z"
  BY <1>3, <1>5 DEF Splice, Text
<1>7. /\ strftime(t)[1] = f[1] /\ strftime(t)[2] = f[2] BY <1>3, <1>5 DEF Splice
<1>8. /\ strftime(t)[4] = g[1] /\ strftime(t)[5] = g[2]
  <2>1. \A i \in 1 .. 2 : strftime(t)[3 + i] = g[i] BY <1>3, <1>5 DEF Splice
  <2> QED BY <2>1
<1> QED BY <1>3, <1>6, <1>7, <1>8

\* The digits' code points are in their order.
LEMMA CodesOfFigures ==
  /\ Code["0"] = 2 /\ Code["1"] = 3 /\ Code["2"] = 4 /\ Code["T"] = 5 /\ Code["Z"] = 6
<1>1. DOMAIN Order = 1 .. 11 BY DEF Order
<1>2. ASSUME NEW i \in 1 .. 11, NEW c, c = Order[i], \A j \in 1 .. 11 : Order[j] = c => j = i
      PROVE  Code[c] = i
  <2>1. c \in ToSet(Order) BY <1>1, <1>2 DEF ToSet
  <2>2. Code[c] = CHOOSE j \in 1 .. 11 : Order[j] = c BY <1>1, <2>1 DEF Code
  <2> QED BY <1>2, <2>2
<1>3. Code["0"] = 2
  <2>1. "0" = Order[2] /\ \A j \in 1 .. 11 : Order[j] = "0" => j = 2 BY DEF Order
  <2> QED BY <2>1, <1>2
<1>4. Code["1"] = 3
  <2>1. "1" = Order[3] /\ \A j \in 1 .. 11 : Order[j] = "1" => j = 3 BY DEF Order
  <2> QED BY <2>1, <1>2
<1>5. Code["2"] = 4
  <2>1. "2" = Order[4] /\ \A j \in 1 .. 11 : Order[j] = "2" => j = 4 BY DEF Order
  <2> QED BY <2>1, <1>2
<1>6. Code["T"] = 5
  <2>1. "T" = Order[5] /\ \A j \in 1 .. 11 : Order[j] = "T" => j = 5 BY DEF Order
  <2> QED BY <2>1, <1>2
<1>7. Code["Z"] = 6
  <2>1. "Z" = Order[6] /\ \A j \in 1 .. 11 : Order[j] = "Z" => j = 6 BY DEF Order
  <2> QED BY <2>1, <1>2
<1> QED BY <1>3, <1>4, <1>5, <1>6, <1>7

\* A figure's code point is two more than its digit.
LEMMA CodeOfFigure ==
  ASSUME NEW d \in 0 .. Base - 1
  PROVE  Code[Figure[d + 1]] = d + 2
<1>1. d = 0 \/ d = 1 \/ d = 2 BY ConstantsAssumption
<1>2. CASE d = 0 BY <1>2, CodesOfFigures DEF Figure
<1>3. CASE d = 1 BY <1>3, CodesOfFigures DEF Figure
<1>4. CASE d = 2 BY <1>4, CodesOfFigures DEF Figure
<1> QED BY <1>1, <1>2, <1>3, <1>4

\* The order of printed timestamps is the order of time.
LEMMA PrintedInOrder ==
  ASSUME NEW t \in Instants, NEW u \in Instants
  PROVE  AtMost(strftime(t), strftime(u)) <=> t <= u
<1> DEFINE s == strftime(t)
           r == strftime(u)
           Less(i) == Code[s[i]] < Code[r[i]]
<1>1. /\ D1(t) \in 0 .. Base - 1 /\ D2(t) \in 0 .. Base - 1
      /\ D3(t) \in 0 .. Base - 1 /\ D4(t) \in 0 .. Base - 1
      /\ D1(u) \in 0 .. Base - 1 /\ D2(u) \in 0 .. Base - 1
      /\ D3(u) \in 0 .. Base - 1 /\ D4(u) \in 0 .. Base - 1
  BY DigitsOf
<1>2. /\ D1(t) \in Int /\ D2(t) \in Int /\ D3(t) \in Int /\ D4(t) \in Int
      /\ D1(u) \in Int /\ D2(u) \in Int /\ D3(u) \in Int /\ D4(u) \in Int
  <2> HIDE DEF D1, D2, D3, D4
  <2> QED BY <1>1
<1>3. /\ s \in Text /\ Len(s) = 6 /\ r \in Text /\ Len(r) = 6 BY PrintedText
<1>4. /\ Code[s[1]] = D1(t) + 2 /\ Code[s[2]] = D2(t) + 2
      /\ Code[s[4]] = D3(t) + 2 /\ Code[s[5]] = D4(t) + 2
      /\ s[3] = "T" /\ s[6] = "Z"
  BY <1>1, PrintedText, CodeOfFigure
<1>5. /\ Code[r[1]] = D1(u) + 2 /\ Code[r[2]] = D2(u) + 2
      /\ Code[r[4]] = D3(u) + 2 /\ Code[r[5]] = D4(u) + 2
      /\ r[3] = "T" /\ r[6] = "Z"
  BY <1>1, PrintedText, CodeOfFigure
<1>6. /\ (s[1] = r[1] <=> D1(t) = D1(u)) /\ (s[2] = r[2] <=> D2(t) = D2(u))
      /\ (s[4] = r[4] <=> D3(t) = D3(u)) /\ (s[5] = r[5] <=> D4(t) = D4(u))
  <2>1. /\ D1(t) = D1(u) => s[1] = r[1]
        /\ D2(t) = D2(u) => s[2] = r[2]
        /\ D3(t) = D3(u) => s[4] = r[4]
        /\ D4(t) = D4(u) => s[5] = r[5]
    BY PrintedText
  <2> HIDE DEF D1, D2, D3, D4, s, r
  <2>2. s[1] = r[1] => D1(t) = D1(u) BY <1>2, <1>4, <1>5
  <2>3. s[2] = r[2] => D2(t) = D2(u) BY <1>2, <1>4, <1>5
  <2>4. s[4] = r[4] => D3(t) = D3(u) BY <1>2, <1>4, <1>5
  <2>5. s[5] = r[5] => D4(t) = D4(u) BY <1>2, <1>4, <1>5
  <2> QED BY <2>1, <2>2, <2>3, <2>4, <2>5
<1>7. AtMost(s, r) <=> (IsPrefix(s, r) \/ \E i \in 1 .. 6 : Less(i) /\ \A j \in 1 .. i - 1 : s[j] = r[j])
  <2>1. DOMAIN s \cap DOMAIN r = 1 .. 6 BY <1>3 DEF Text
  <2> QED BY <2>1 DEF AtMost
<1> HIDE DEF D1, D2, D3, D4, s, r
<1>8. IsPrefix(s, r) <=> /\ s[1] = r[1] /\ s[2] = r[2] /\ s[3] = r[3]
                         /\ s[4] = r[4] /\ s[5] = r[5] /\ s[6] = r[6]
  <2>1. IsPrefix(s, r) <=> SubSeq(s, 1, 6) = SubSeq(r, 1, 6) BY <1>3 DEF IsPrefix
  <2>2. SubSeq(s, 1, 6) = [i \in 1 .. 6 |-> s[i]] BY <1>3 DEF Text
  <2>3. SubSeq(r, 1, 6) = [i \in 1 .. 6 |-> r[i]] BY <1>3 DEF Text
  <2>4. IsPrefix(s, r) <=> \A i \in 1 .. 6 : s[i] = r[i] BY <2>1, <2>2, <2>3
  <2> QED BY <2>4
<1>9. /\ (Less(1) <=> D1(t) < D1(u)) /\ (Less(2) <=> D2(t) < D2(u)) /\ ~ Less(3)
      /\ (Less(4) <=> D3(t) < D3(u)) /\ (Less(5) <=> D4(t) < D4(u)) /\ ~ Less(6)
  <2>1. /\ Less(1) <=> D1(t) < D1(u) BY <1>2, <1>4, <1>5
  <2>2. /\ Less(2) <=> D2(t) < D2(u) BY <1>2, <1>4, <1>5
  <2>3. /\ Less(4) <=> D3(t) < D3(u) BY <1>2, <1>4, <1>5
  <2>4. /\ Less(5) <=> D4(t) < D4(u) BY <1>2, <1>4, <1>5
  <2>5. ~ Less(3) /\ ~ Less(6) BY <1>4, <1>5, CodesOfFigures
  <2> QED BY <2>1, <2>2, <2>3, <2>4, <2>5
<1> HIDE DEF Less
<1>10. (\E i \in 1 .. 6 : Less(i) /\ \A j \in 1 .. i - 1 : s[j] = r[j])
        <=> \/ Less(1)
            \/ Less(2) /\ s[1] = r[1]
            \/ Less(4) /\ s[1] = r[1] /\ s[2] = r[2] /\ s[3] = r[3]
            \/ Less(5) /\ s[1] = r[1] /\ s[2] = r[2] /\ s[3] = r[3] /\ s[4] = r[4]
  <2>1. \A i \in 1 .. 6 : i = 1 \/ i = 2 \/ i = 3 \/ i = 4 \/ i = 5 \/ i = 6 OBVIOUS
  <2>2. \A j \in 1 .. 4 : j = 1 \/ j = 2 \/ j = 3 \/ j = 4 OBVIOUS
  <2> DEFINE Same(i) == \A j \in 1 .. i - 1 : s[j] = r[j]
  <2>3. Same(1) OBVIOUS
  <2>4. Same(2) <=> s[1] = r[1] OBVIOUS
  <2>5. Same(4) <=> s[1] = r[1] /\ s[2] = r[2] /\ s[3] = r[3] OBVIOUS
  <2>6. Same(5) <=> s[1] = r[1] /\ s[2] = r[2] /\ s[3] = r[3] /\ s[4] = r[4] OBVIOUS
  <2>7. (\E i \in 1 .. 6 : Less(i) /\ Same(i))
          <=> (Less(1) /\ Same(1)) \/ (Less(2) /\ Same(2)) \/ (Less(4) /\ Same(4)) \/ (Less(5) /\ Same(5))
    <3> HIDE DEF Same
    <3>1. ASSUME NEW i \in 1 .. 6, Less(i), Same(i)
          PROVE  (Less(1) /\ Same(1)) \/ (Less(2) /\ Same(2)) \/ (Less(4) /\ Same(4)) \/ (Less(5) /\ Same(5))
      <4>1. CASE i = 1 BY <3>1, <4>1, Zenon
      <4>2. CASE i = 2 BY <3>1, <4>2, Zenon
      <4>3. CASE i = 3 BY <3>1, <4>3, <1>9
      <4>4. CASE i = 4 BY <3>1, <4>4, Zenon
      <4>5. CASE i = 5 BY <3>1, <4>5, Zenon
      <4>6. CASE i = 6 BY <3>1, <4>6, <1>9
      <4> QED BY <2>1, <4>1, <4>2, <4>3, <4>4, <4>5, <4>6
    <3>2. 1 \in 1 .. 6 /\ 2 \in 1 .. 6 /\ 4 \in 1 .. 6 /\ 5 \in 1 .. 6 OBVIOUS
    <3> QED BY <3>1, <3>2, Zenon
  <2> HIDE DEF Same
  <2>8. QED BY <2>3, <2>4, <2>5, <2>6, <2>7 DEF Same
<1>11. t <= u <=> \/ D1(t) < D1(u)
                  \/ D1(t) = D1(u) /\ D2(t) < D2(u)
                  \/ D1(t) = D1(u) /\ D2(t) = D2(u) /\ D3(t) < D3(u)
                  \/ D1(t) = D1(u) /\ D2(t) = D2(u) /\ D3(t) = D3(u) /\ D4(t) <= D4(u)
  BY DigitOrder
<1>12. D4(t) <= D4(u) <=> (D4(t) < D4(u) \/ D4(t) = D4(u)) BY <1>1
<1>13. AtMost(s, r) <=> t <= u BY <1>4, <1>5, <1>6, <1>7, <1>8, <1>9, <1>10, <1>11, <1>12
<1> QED BY <1>13 DEF s, r

\* The figures and their wide forms
LEMMA FigureIs ==
  ASSUME NEW d \in 0 .. Base - 1
  PROVE  \/ d = 0 /\ Figure[d + 1] = "0" /\ Wide[d + 1] = "wide0"
         \/ d = 1 /\ Figure[d + 1] = "1" /\ Wide[d + 1] = "wide1"
         \/ d = 2 /\ Figure[d + 1] = "2" /\ Wide[d + 1] = "wide2"
<1>1. d = 0 \/ d = 1 \/ d = 2 BY ConstantsAssumption
<1>2. CASE d = 0 BY <1>2 DEF Figure, Wide
<1>3. CASE d = 1 BY <1>3 DEF Figure, Wide
<1>4. CASE d = 2 BY <1>4 DEF Figure, Wide
<1> QED BY <1>1, <1>2, <1>3, <1>4

\* The figures of different digits differ, whatever their script.
LEMMA FigureApart ==
  ASSUME NEW d \in 0 .. Base - 1, NEW e \in 0 .. Base - 1
  PROVE  /\ Figure[d + 1] \in {Figure[e + 1], Wide[e + 1], " "} => d = e
         /\ Figure[d + 1] \in Characters /\ Wide[d + 1] \in Characters
<1> DEFINE Shown(n, x, y) == \/ n = 0 /\ x = "0" /\ y = "wide0"
                             \/ n = 1 /\ x = "1" /\ y = "wide1"
                             \/ n = 2 /\ x = "2" /\ y = "wide2"
<1>1. Shown(d, Figure[d + 1], Wide[d + 1]) /\ Shown(e, Figure[e + 1], Wide[e + 1]) BY FigureIs
<1>2. ASSUME NEW n, NEW x, NEW y, Shown(n, x, y), NEW m, NEW u, NEW z, Shown(m, u, z)
      PROVE  /\ x \in {u, z, " "} => n = m
             /\ x \in Characters /\ y \in Characters
  <2>1. {"0", "1", "2", "wide0", "wide1", "wide2"} \subseteq Characters BY DEF Characters, Digit, NonAscii
  <2> QED BY <1>2, <2>1
<1> DEFINE x == Figure[d + 1]
           y == Wide[d + 1]
           u == Figure[e + 1]
           z == Wide[e + 1]
<1>3. Shown(d, x, y) /\ Shown(e, u, z) BY <1>1
<1> HIDE DEF Shown, x, y, u, z
<1>4. (x \in {u, z, " "} => d = e) /\ x \in Characters /\ y \in Characters BY <1>2, <1>3
<1> QED BY <1>4 DEF x, y, u, z

\* A field is one character or two; of two, each is a figure of its digit in
\* one script or the other, or the first is a space.
LEMMA FieldTextShape ==
  ASSUME NEW v \in Nat, v \div Base \in 0 .. Base - 1, v % Base \in 0 .. Base - 1, NEW f \in FieldTexts(v)
  PROVE  /\ f \in Seq(Characters) /\ Len(f) \in {1, 2}
         /\ Len(f) = 2 => /\ f[1] \in {Figure[(v \div Base) + 1], Wide[(v \div Base) + 1], " "}
                          /\ f[2] \in {Figure[(v % Base) + 1], Wide[(v % Base) + 1]}
<1> DEFINE d == (v \div Base) + 1
           e == (v % Base) + 1
<1>1. /\ Figure[d] \in Characters /\ Wide[d] \in Characters
      /\ Figure[e] \in Characters /\ Wide[e] \in Characters
  BY FigureApart
<1>2. " " \in Characters BY DEF Characters, Space
<1>3. \/ \E x \in {Figure[d], Wide[d]}, y \in {Figure[e], Wide[e]} : f = <<x, y>>
      \/ f = <<Figure[e]>>
      \/ f = <<" ", Figure[e]>>
  <2>1. f \in FieldTexts(v) OBVIOUS
  <2> DEFINE pairs == {Figure[d], Wide[d]} \X {Figure[e], Wide[e]}
             short == {text \in {<<Figure[e]>>, <<" ", Figure[e]>>} : v < Base}
  <2>2. FieldTexts(v) = pairs \cup short BY DEF FieldTexts
  <2> HIDE DEF d, e
  <2>3. f \in short => f \in {<<Figure[e]>>, <<" ", Figure[e]>>} BY Zenon
  <2>4. f \in pairs => \E x \in {Figure[d], Wide[d]}, y \in {Figure[e], Wide[e]} : f = <<x, y>> OBVIOUS
  <2> HIDE DEF pairs, short
  <2> QED BY <2>1, <2>2, <2>3, <2>4
<1> HIDE DEF d, e
<1>4. CASE \E x \in {Figure[d], Wide[d]}, y \in {Figure[e], Wide[e]} : f = <<x, y>>
  <2>1. PICK x \in {Figure[d], Wide[d]}, y \in {Figure[e], Wide[e]} : f = <<x, y>> BY <1>4
  <2>2. x \in Characters /\ y \in Characters BY <1>1
  <2>3. f \in Seq(Characters) /\ Len(f) = 2 /\ f[1] = x /\ f[2] = y BY <2>1, <2>2
  <2> QED BY <2>3 DEF d, e
<1>5. CASE f = <<Figure[e]>>
  <2>1. f \in Seq(Characters) /\ Len(f) = 1 BY <1>1, <1>5
  <2> QED BY <2>1
<1>6. CASE f = <<" ", Figure[e]>>
  <2>1. f \in Seq(Characters)
    <3>1. \A x \in Characters, y \in Characters : <<x, y>> \in Seq(Characters) OBVIOUS
    <3> QED BY <1>1, <1>2, <1>6, <3>1
  <2>2. Len(f) = 2 /\ f[1] = " " /\ f[2] = Figure[e] BY <1>6
  <2> QED BY <2>1, <2>2 DEF d, e
<1> QED BY <1>3, <1>4, <1>5, <1>6

\* A printed timestamp is read as one moment only, the one that was printed.
LEMMA ReadAsOne ==
  ASSUME NEW t \in Instants, NEW n \in Instants, strftime(t) \in Texts(n)
  PROVE  n = t
<1> DEFINE v == n \div (Base * Base)
           w == n % (Base * Base)
           s == strftime(t)
<1>1. PICK f \in FieldTexts(v), x \in {"T", "t"}, g \in FieldTexts(w), y \in {"Z", "z"} :
        s = Format(f, x, g, y)
  <2>1. s \in Texts(n) OBVIOUS
  <2> HIDE DEF s
  <2> QED BY <2>1 DEF Texts
<1>2. /\ D1(n) \in 0 .. Base - 1 /\ D2(n) \in 0 .. Base - 1
      /\ D3(n) \in 0 .. Base - 1 /\ D4(n) \in 0 .. Base - 1
      /\ n = ((D1(n) * Base + D2(n)) * Base + D3(n)) * Base + D4(n)
  BY DigitsOf
<1>3. /\ D1(t) \in 0 .. Base - 1 /\ D2(t) \in 0 .. Base - 1
      /\ D3(t) \in 0 .. Base - 1 /\ D4(t) \in 0 .. Base - 1
      /\ t = ((D1(t) * Base + D2(t)) * Base + D3(t)) * Base + D4(t)
  BY DigitsOf
<1>4. D1(n) = v \div Base /\ D2(n) = v % Base /\ D3(n) = w \div Base /\ D4(n) = w % Base
  BY DEF D1, D2, D3, D4
<1>5. v \in Nat /\ w \in Nat BY ConstantsAssumption DEF Instants
<1> HIDE DEF v, w, D1, D2, D3, D4
<1>6. /\ f \in Seq(Characters) /\ Len(f) \in {1, 2}
      /\ Len(f) = 2 => /\ f[1] \in {Figure[D1(n) + 1], Wide[D1(n) + 1], " "}
                       /\ f[2] \in {Figure[D2(n) + 1], Wide[D2(n) + 1]}
  BY <1>5, <1>2, <1>4, FieldTextShape
<1>7. /\ g \in Seq(Characters) /\ Len(g) \in {1, 2}
      /\ Len(g) = 2 => /\ g[1] \in {Figure[D3(n) + 1], Wide[D3(n) + 1], " "}
                       /\ g[2] \in {Figure[D4(n) + 1], Wide[D4(n) + 1]}
  BY <1>5, <1>2, <1>4, FieldTextShape
<1>8. Splice(s, f, x, g, y)
  <2>1. x \in Characters /\ y \in Characters BY DEF Characters
  <2> HIDE DEF s
  <2> QED BY <1>1, <1>6, <1>7, <2>1, Joined
<1>9. /\ Len(s) = 6
      /\ s[1] = Figure[D1(t) + 1] /\ s[2] = Figure[D2(t) + 1]
      /\ s[4] = Figure[D3(t) + 1] /\ s[5] = Figure[D4(t) + 1]
  BY PrintedText
<1> HIDE DEF s
<1>10. Len(f) = 2 /\ Len(g) = 2
  <2>1. Len(s) = Len(f) + Len(g) + 2 BY <1>8 DEF Splice
  <2>2. Len(f) \in {1, 2} /\ Len(g) \in {1, 2} /\ Len(s) = 6 BY <1>6, <1>7, <1>9
  <2>3. \A a \in {1, 2}, b \in {1, 2} : 6 = a + b + 2 => a = 2 /\ b = 2 OBVIOUS
  <2> QED BY <2>1, <2>2, <2>3
<1>11. s[1] = f[1] /\ s[2] = f[2] BY <1>8, <1>10 DEF Splice
<1>12. s[4] = g[1] /\ s[5] = g[2]
  <2>1. \A i \in 1 .. 2 : s[3 + i] = g[i] BY <1>8, <1>10 DEF Splice
  <2> QED BY <2>1
<1>13. /\ Figure[D1(t) + 1] \in {Figure[D1(n) + 1], Wide[D1(n) + 1], " "}
       /\ Figure[D2(t) + 1] \in {Figure[D2(n) + 1], Wide[D2(n) + 1], " "}
       /\ Figure[D3(t) + 1] \in {Figure[D3(n) + 1], Wide[D3(n) + 1], " "}
       /\ Figure[D4(t) + 1] \in {Figure[D4(n) + 1], Wide[D4(n) + 1], " "}
  BY <1>6, <1>7, <1>9, <1>10, <1>11, <1>12
<1>14. D1(t) = D1(n) /\ D2(t) = D2(n) /\ D3(t) = D3(n) /\ D4(t) = D4(n)
  <2>1. \A d \in 0 .. Base - 1, e \in 0 .. Base - 1 :
          Figure[d + 1] \in {Figure[e + 1], Wide[e + 1], " "} => d = e
    BY FigureApart
  <2> QED BY <1>2, <1>3, <1>13, <2>1
<1> QED BY <1>2, <1>3, <1>14

\* A moment that was printed is read back.
LEMMA ReadBack ==
  ASSUME NEW t \in Instants
  PROVE  strftime(t) \in AllTexts /\ strptime[strftime(t)] = t
<1>1. strftime(t) \in Texts(t)
  <2> DEFINE v == t \div (Base * Base)
             w == t % (Base * Base)
  <2>1. Padded(v) \in FieldTexts(v) BY DEF Padded, FieldTexts
  <2>2. Padded(w) \in FieldTexts(w) BY DEF Padded, FieldTexts
  <2>3. strftime(t) = Format(Padded(v), "T", Padded(w), "Z") BY DEF strftime
  <2> HIDE DEF strftime, Padded, FieldTexts
  <2> QED BY <2>1, <2>2, <2>3 DEF Texts
<1>2. strftime(t) \in AllTexts BY <1>1 DEF AllTexts
<1>3. \A n \in Instants : strftime(t) \in Texts(n) => n = t BY ReadAsOne
<1>4. strptime[strftime(t)] = CHOOSE n \in Instants : strftime(t) \in Texts(n) BY <1>2 DEF strptime
<1> QED BY <1>1, <1>2, <1>3, <1>4

\* What a create is allowed to ask for is a moment to come, as it is printed.
LEMMA AcceptedIsPrinted ==
  ASSUME NEW raw, raw # Null, _validate_expires(raw)
  PROVE  raw \in {strftime(t) : t \in Instants}
<1>1. raw \in AllTexts /\ strftime(strptime[raw]) = raw BY DEF _validate_expires
<1>2. PICK t \in Instants : raw \in Texts(t) BY <1>1 DEF AllTexts
<1>3. strptime[raw] = CHOOSE n \in Instants : raw \in Texts(n) BY <1>1 DEF strptime
<1>4. strptime[raw] \in Instants BY <1>2, <1>3
<1> QED BY <1>1, <1>4

-----------------------------------------------------------------------------
(* The service *)

\* What TypeOK says of the rows
Rows(rows) ==
  /\ rows \subseteq [name : Text, expires : {Null} \cup {strftime(t) : t \in Instants}, live : BOOLEAN]
  /\ \A row \in rows : IsName(row.name) /\ \A other \in rows : other.name = row.name => other = row

\* What TypeOK says of an answer
Answered(reply, rows) ==
  /\ reply \in [status : {0, 200, 201, 204, 302, 401, 404, 405, 409, 410, 422, 503}, link : Text \cup {Null}]
  /\ reply.link = Null \/ \E row \in rows : row.name = reply.link

\* What OneLinkPerSpelling, RootIsForLinks and OnlyTheKeyOpens say of an
\* answer to r
Spelling(r, reply, rows) ==
  reply.status # 401 =>
    \A row \in rows :
      /\ Handler(r) \in {"delete_link", "link_stats", "follow"}
           => (reply.link = row.name <=> SameLetters(NameOf(r), row.name))
      /\ Handler(r) = "create_link" /\ reply.link = row.name
           => r.name = Null \/ SameLetters(r.name, row.name)

Rooted(r, reply) ==
  Len(r.path) > 1 /\ r.path[1] = <<"-">> => reply.status # 302

Opens(r, reply) ==
  /\ Handler(r) \in {"create_link", "delete_link", "link_stats"} =>
       (reply.status # 401 <=> Carries(r.auth, api_key) /\ r.auth.scheme = "bearer")
  /\ Handler(r) = "stats_page" =>
       (reply.status # 401 <=> Carries(r.auth, api_key) /\ r.auth.scheme = "basic")

Right(r, reply, rows) == Answered(reply, rows) /\ Spelling(r, reply, rows) /\ Rooted(r, reply) /\ Opens(r, reply)

\* The service that is about to answer r
Serving(r) == Rows(links) /\ api_key \in Text /\ Bare(api_key) /\ r \in Requests

\* A spelling is looked up as the one name that has its letters.
LEMMA SpellsOne ==
  ASSUME NEW raw \in Text, NEW text \in Text, IsName(text)
  PROVE  normalise(raw) = text <=> SameLetters(raw, text)
<1>1. text # Null BY RequestsAssumption
<1>2. ASSUME normalise(raw) = text PROVE SameLetters(raw, text)
  BY <1>1, <1>2, NormaliseResult
<1>3. ASSUME SameLetters(raw, text) PROVE normalise(raw) = text
  BY <1>3, NormaliseOfName
<1> QED BY <1>2, <1>3

\* What a name that is taken leads to
LEMMA RowOfName ==
  ASSUME Rows(links), NEW name, Taken(name)
  PROVE  Row(name) \in links /\ Row(name).name = name /\ name \in Text
<1>1. \E row \in links : row.name = name BY DEF Taken
<1>2. Row(name) \in links /\ Row(name).name = name BY <1>1 DEF Row
<1> QED BY <1>2 DEF Rows

\* The parts of a request that its handler reads
LEMMA RequestParts ==
  ASSUME NEW r \in Requests
  PROVE  /\ Header(r.auth) /\ r.path \in Seq(Text) /\ r.path # <<>>
         /\ r.method = "POST" => r.name \in Text \cup {Null} /\ r.expires \in Text \cup {Null}
BY RequestsAssumption DEF Header

\* The two schemes let in those who carry the key.
LEMMA KeyOpens ==
  ASSUME NEW r, Serving(r)
  PROVE  /\ require_key(r.auth) <=> Carries(r.auth, api_key) /\ r.auth.scheme = "bearer"
         /\ require_basic_key(r.auth) <=> Carries(r.auth, api_key) /\ r.auth.scheme = "basic"
BY RequestParts, BearerCarries, BasicCarries DEF Serving

\* An answer about the link of a name, or about none where there is none, is
\* about the link that was spelt.
LEMMA RightName ==
  ASSUME NEW r, Serving(r), Handler(r) \in {"delete_link", "link_stats", "follow"},
         NEW rows, Rows(rows), NEW reply,
         \A text \in Text : (\E row \in rows : row.name = text) <=> Taken(text),
         LET name == normalise(NameOf(r))
         IN  \/ reply.status = 401
             \/ reply.link = Null /\ (name = Null \/ ~ Taken(name))
             \/ reply.link = name /\ name # Null /\ Taken(name)
  PROVE  Spelling(r, reply, rows)
<1> DEFINE name == normalise(NameOf(r))
<1>1. NameOf(r) \in Text BY RequestParts, HandlerOfName DEF Serving
<1>2. SUFFICES ASSUME reply.status # 401, NEW row \in rows
               PROVE  reply.link = row.name <=> SameLetters(NameOf(r), row.name)
  BY DEF Spelling
<1>3. row.name \in Text /\ IsName(row.name) /\ row.name # Null /\ Taken(row.name)
  BY RequestsAssumption DEF Rows
<1>4. name = row.name <=> SameLetters(NameOf(r), row.name) BY <1>1, <1>3, SpellsOne
<1>5. \/ reply.link = Null /\ (name = Null \/ ~ Taken(name))
      \/ reply.link = name /\ name # Null /\ Taken(name)
  BY <1>2
<1> HIDE DEF name
<1> QED BY <1>3, <1>4, <1>5

\* A create's answers, and the row it adds
LEMMA CreateIsRight ==
  ASSUME NEW r, Serving(r), Handler(r) = "create_link", create_link(r)
  PROVE  Rows(links') /\ Right(r, answer', links')
<1>1. /\ r.name \in Text \cup {Null} /\ r.expires \in Text \cup {Null}
      /\ require_key(r.auth) <=> Carries(r.auth, api_key) /\ r.auth.scheme = "bearer"
  BY RequestParts, HandlerOfName, KeyOpens DEF Serving
<1>2. Null \notin Text BY RequestsAssumption
<1>3. ASSUME NEW status \in {401, 422, 409, 503}, Answers(status, Null), UNCHANGED links,
             status = 401 <=> ~ require_key(r.auth)
      PROVE  Rows(links') /\ Right(r, answer', links')
  <2>1. Rows(links') BY <1>3 DEF Serving
  <2>2. answer'.status = status /\ answer'.link = Null BY <1>3 DEF Answers
  <2>3. Answered(answer', links') BY <1>3 DEF Answers, Answered
  <2>4. Spelling(r, answer', links') BY <1>2, <2>1, <2>2 DEF Spelling, Rows
  <2>5. Rooted(r, answer') /\ Opens(r, answer') BY <1>1, <1>3, <2>2 DEF Rooted, Opens
  <2> QED BY <2>1, <2>3, <2>4, <2>5 DEF Right
<1>4. CASE ~ require_key(r.auth) /\ Answers(401, Null) /\ UNCHANGED links BY <1>3, <1>4
<1>5. CASE require_key(r.auth) /\ Answers(422, Null) /\ UNCHANGED links BY <1>3, <1>5
<1>6. CASE /\ require_key(r.auth) /\ _validate_expires(r.expires)
           /\ \E name \in Candidates(r.name) :
                IF Taken(name)
                THEN Answers(IF r.name = Null THEN 503 ELSE 409, Null) /\ UNCHANGED links
                ELSE /\ Cardinality(links) < MaxLinks
                     /\ links' = links \cup {[name |-> name, expires |-> r.expires, live |-> TRUE]}
                     /\ Answers(201, name)
  <2>1. PICK name \in Candidates(r.name) :
               IF Taken(name)
               THEN Answers(IF r.name = Null THEN 503 ELSE 409, Null) /\ UNCHANGED links
               ELSE /\ Cardinality(links) < MaxLinks
                    /\ links' = links \cup {[name |-> name, expires |-> r.expires, live |-> TRUE]}
                    /\ Answers(201, name)
    BY <1>6
  <2>2. CASE Taken(name) BY <1>3, <1>6, <2>1, <2>2
  <2>3. CASE ~ Taken(name)
    <3> DEFINE new == [name |-> name, expires |-> r.expires, live |-> TRUE]
    <3>1. /\ name \in Text /\ IsName(name)
          /\ r.name = Null \/ SameLetters(r.name, name)
      <4>1. CASE r.name = Null BY <4>1, GeneratedIsName DEF Candidates
      <4>2. CASE r.name # Null
        <5>1. normalise(r.name) # Null /\ name = normalise(r.name) BY <4>2 DEF Candidates
        <5> QED BY <1>1, <4>2, <5>1, NormaliseResult
      <4> QED BY <4>1, <4>2
    <3>2. r.expires \in {Null} \cup {strftime(t) : t \in Instants}
      <4>1. r.expires # Null => r.expires \in {strftime(t) : t \in Instants} BY <1>6, AcceptedIsPrinted
      <4> QED BY <4>1
    <3>3. new.name = name /\ new \in [name : Text, expires : {Null} \cup {strftime(t) : t \in Instants}, live : BOOLEAN]
      BY <3>1, <3>2
    <3>4. links' = links \cup {new} /\ answer' = [status |-> 201, link |-> name]
      BY <2>1, <2>3 DEF Answers
    <3> HIDE DEF new
    <3>5. \A row \in links : row.name # name BY <2>3 DEF Taken
    <3>6. Rows(links') BY <3>1, <3>3, <3>4, <3>5 DEF Serving, Rows
    <3>7. Answered(answer', links') BY <3>1, <3>3, <3>4 DEF Answered
    <3>8. Spelling(r, answer', links') BY <3>1, <3>4 DEF Spelling
    <3>9. Rooted(r, answer') /\ Opens(r, answer') BY <1>1, <1>6, <3>4 DEF Rooted, Opens
    <3> QED BY <3>6, <3>7, <3>8, <3>9 DEF Right
  <2> QED BY <2>2, <2>3
<1> QED BY <1>4, <1>5, <1>6 DEF create_link

\* The service's own segment is no link's name.
LEMMA HyphenIsNoName == normalise(<<"-">>) = Null
<1> SUFFICES ASSUME normalise(<<"-">>) # Null PROVE FALSE OBVIOUS
<1> DEFINE name == normalise(<<"-">>)
<1>1. <<"-">> \in Text BY DEF Text, Characters
<1>2. name \in Text /\ IsName(name) /\ SameLetters(<<"-">>, name) BY <1>1, NormaliseResult
<1> HIDE DEF name
<1>3. Len(name) = 1 /\ 1 \in DOMAIN name BY <1>2 DEF SameLetters, Text
<1>4. "-" = name[1] \/ << "-", name[1] >> \in {<<"A", "a">>, <<"K", "k">>} BY <1>2, <1>3 DEF SameLetters
<1>5. name[1] = "-" BY <1>4
<1>6. "-" \notin Small \cup Digit BY DEF Small, Digit
<1> QED BY <1>2, <1>3, <1>5, <1>6 DEF IsName

\* The name of a path that is followed is its first segment.
LEMMA FollowedName ==
  ASSUME NEW r \in Requests, Handler(r) = "follow", r.path[1] = <<"-">>
  PROVE  NameOf(r) = <<"-">>
<1>1. r.path \in Seq(Text) /\ r.path # <<>> BY RequestParts
<1>2. NameOf(r) = r.path[1] \/ r.path[1] # <<"-">> BY <1>1, HandlerOfName
<1> QED BY <1>2

\* Reads leave the rows, and answer about the name they were asked for.
LEMMA ReadIsRight ==
  ASSUME NEW r, Serving(r), Handler(r) \in {"link_stats", "follow"}, UNCHANGED links,
         NEW status \in {200, 302, 401, 404, 410},
         status = 302 => Handler(r) = "follow" /\ normalise(NameOf(r)) # Null,
         Handler(r) = "link_stats" => (status # 401 <=> require_key(r.auth)),
         LET name == normalise(NameOf(r))
         IN  \/ Answers(status, Null) /\ (status = 401 \/ name = Null \/ ~ Taken(name))
             \/ Answers(status, name) /\ name # Null /\ Taken(name)
  PROVE  Rows(links') /\ Right(r, answer', links')
<1> DEFINE name == normalise(NameOf(r))
<1>1. Rows(links') BY DEF Serving
<1>2. answer'.status = status BY DEF Answers
<1>3. name # Null /\ Taken(name) => name \in Text BY RowOfName DEF Serving
<1>4. Answered(answer', links') BY <1>3 DEF Answers, Answered, Taken
<1>5. Spelling(r, answer', links')
  <2>1. \A text \in Text : (\E row \in links' : row.name = text) <=> Taken(text) BY DEF Taken
  <2>2. \/ answer'.status = 401
        \/ answer'.link = Null /\ (name = Null \/ ~ Taken(name))
        \/ answer'.link = name /\ name # Null /\ Taken(name)
    BY DEF Answers
  <2> QED BY <1>1, <2>1, <2>2, RightName
<1>6. Rooted(r, answer')
  <2> SUFFICES ASSUME r.path[1] = <<"-">>, status = 302 PROVE FALSE BY <1>2 DEF Rooted
  <2>1. NameOf(r) = <<"-">> BY FollowedName DEF Serving
  <2> QED BY <2>1, HyphenIsNoName
<1>7. Opens(r, answer')
  BY <1>2, KeyOpens DEF Opens
<1> QED BY <1>1, <1>4, <1>5, <1>6, <1>7 DEF Right

\* The counts of a link are such a read.
LEMMA StatsIsRight ==
  ASSUME NEW r, Serving(r), Handler(r) = "link_stats", link_stats(r)
  PROVE  Rows(links') /\ Right(r, answer', links')
<1> DEFINE name == normalise(NameOf(r))
<1>1. CASE ~ require_key(r.auth) /\ Answers(401, Null) BY <1>1, ReadIsRight DEF link_stats
<1>2. CASE require_key(r.auth) /\ (name = Null \/ ~ Taken(name)) /\ Answers(404, Null)
  BY <1>2, ReadIsRight DEF link_stats
<1>3. CASE /\ require_key(r.auth) /\ name # Null /\ Taken(name)
           /\ Answers(IF Row(name).live THEN 200 ELSE 410, name)
  <2>1. CASE Row(name).live BY <1>3, <2>1, ReadIsRight DEF link_stats
  <2>2. CASE ~ Row(name).live BY <1>3, <2>2, ReadIsRight DEF link_stats
  <2> QED BY <2>1, <2>2
<1> QED BY <1>1, <1>2, <1>3 DEF link_stats

\* A redirect is such a read.
LEMMA FollowIsRight ==
  ASSUME NEW r, Serving(r), Handler(r) = "follow", follow(r)
  PROVE  Rows(links') /\ Right(r, answer', links')
<1> DEFINE name == normalise(NameOf(r))
<1>1. CASE name # Null /\ Taken(name)
  <2>1. CASE Row(name).live /\ ~ is_expired(Row(name).expires) BY <1>1, <2>1, ReadIsRight DEF follow
  <2>2. CASE ~ (Row(name).live /\ ~ is_expired(Row(name).expires)) BY <1>1, <2>2, ReadIsRight DEF follow
  <2> QED BY <2>1, <2>2
<1>2. CASE ~ (name # Null /\ Taken(name)) BY <1>2, ReadIsRight DEF follow
<1> QED BY <1>1, <1>2

\* A delete leaves a row of the name, and answers about it.
LEMMA DeleteIsRight ==
  ASSUME NEW r, Serving(r), Handler(r) = "delete_link", delete_link(r)
  PROVE  Rows(links') /\ Right(r, answer', links')
<1> DEFINE name == normalise(NameOf(r))
           gone == [Row(name) EXCEPT !.live = FALSE]
<1>1. require_key(r.auth) <=> Carries(r.auth, api_key) /\ r.auth.scheme = "bearer" BY KeyOpens
<1>2. ASSUME NEW status \in {401, 404, 410, 204}, status = 401 <=> ~ require_key(r.auth),
             Rows(links'), \A text \in Text : (\E row \in links' : row.name = text) <=> Taken(text),
             \/ Answers(status, Null) /\ (status = 401 \/ name = Null \/ ~ Taken(name))
             \/ Answers(status, name) /\ name # Null /\ Taken(name)
      PROVE  Rows(links') /\ Right(r, answer', links')
  <2>1. answer'.status = status BY <1>2 DEF Answers
  <2>2. name # Null /\ Taken(name) => name \in Text BY RowOfName DEF Serving
  <2>3. Answered(answer', links') BY <1>2, <2>2 DEF Answers, Answered
  <2>4. Spelling(r, answer', links')
    <3>1. \/ answer'.status = 401
          \/ answer'.link = Null /\ (name = Null \/ ~ Taken(name))
          \/ answer'.link = name /\ name # Null /\ Taken(name)
      BY <1>2 DEF Answers
    <3> QED BY <1>2, <3>1, RightName
  <2>5. Rooted(r, answer') /\ Opens(r, answer') BY <1>1, <1>2, <2>1 DEF Rooted, Opens
  <2> QED BY <1>2, <2>3, <2>4, <2>5 DEF Right
<1>3. ASSUME UNCHANGED links
      PROVE  Rows(links') /\ \A text \in Text : (\E row \in links' : row.name = text) <=> Taken(text)
  BY <1>3 DEF Serving, Taken
<1>4. CASE ~ require_key(r.auth) /\ Answers(401, Null) /\ UNCHANGED links BY <1>2, <1>3, <1>4
<1>5. CASE /\ require_key(r.auth) /\ (name = Null \/ ~ Taken(name))
           /\ Answers(404, Null) /\ UNCHANGED links
  BY <1>2, <1>3, <1>5
<1>6. CASE /\ require_key(r.auth) /\ name # Null /\ Taken(name)
           /\ IF Row(name).live
              THEN /\ links' = (links \ {Row(name)}) \cup {gone}
                   /\ Answers(204, name)
              ELSE Answers(410, name) /\ UNCHANGED links
  <2>1. CASE ~ Row(name).live BY <1>2, <1>3, <1>6, <2>1
  <2>2. CASE Row(name).live
    <3>1. Row(name) \in links /\ Row(name).name = name /\ name \in Text BY <1>6, RowOfName DEF Serving
    <3> DEFINE row == Row(name)
    <3>2. /\ row \in [name : Text, expires : {Null} \cup {strftime(t) : t \in Instants}, live : BOOLEAN]
          /\ row \in links /\ row.name = name /\ IsName(name)
          /\ \A other \in links : other.name = name => other = row
      BY <3>1 DEF Serving, Rows
    <3>3. gone = [row EXCEPT !.live = FALSE] /\ links' = (links \ {row}) \cup {gone} /\ Answers(204, name)
      BY <1>6, <2>2
    <3> HIDE DEF row, gone
    <3>4. /\ gone \in [name : Text, expires : {Null} \cup {strftime(t) : t \in Instants}, live : BOOLEAN]
          /\ gone.name = name
      BY <3>2, <3>3
    <3>5. Rows(links') BY <3>2, <3>3, <3>4 DEF Serving, Rows
    <3>6. \A text \in Text : (\E other \in links' : other.name = text) <=> Taken(text)
      BY <3>2, <3>3, <3>4 DEF Taken
    <3> QED BY <1>2, <1>6, <3>3, <3>5, <3>6
  <2> QED BY <2>1, <2>2
<1> QED BY <1>4, <1>5, <1>6 DEF delete_link

\* The answers that are about no link and need no key of this scheme
LEMMA OtherIsRight ==
  ASSUME NEW r, Serving(r), UNCHANGED links,
         Handler(r) \notin {"create_link", "delete_link", "link_stats", "follow"},
         NEW status \in {200, 401, 404, 405}, Answers(status, Null),
         Handler(r) = "stats_page" => (status # 401 <=> require_basic_key(r.auth))
  PROVE  Rows(links') /\ Right(r, answer', links')
<1>1. Rows(links') BY DEF Serving
<1>2. answer'.status = status /\ answer'.link = Null BY DEF Answers
<1>3. Answered(answer', links') BY DEF Answers, Answered
<1>4. Spelling(r, answer', links') BY DEF Spelling
<1>5. Rooted(r, answer') /\ Opens(r, answer') BY <1>2, KeyOpens DEF Rooted, Opens
<1> QED BY <1>1, <1>3, <1>4, <1>5 DEF Right

\* Every answer is right.
LEMMA AskIsRight ==
  ASSUME AdmissionInv, NEW r \in Requests, Ask(r)
  PROVE  Rows(links') /\ Right(r, answer', links')
<1>1. Serving(r)
  <2>1. api_key # Null BY DEF Ask
  <2>2. Rows(links) BY DEF AdmissionInv, TypeOK, Rows
  <2>3. api_key \in Text /\ Bare(api_key) BY <2>1 DEF AdmissionInv, TypeOK, KeyInv, Bare
  <2> QED BY <2>2, <2>3 DEF Serving
<1>2. CASE Handler(r) = "create_link" /\ create_link(r) BY <1>1, <1>2, CreateIsRight
<1>3. CASE Handler(r) = "delete_link" /\ delete_link(r) BY <1>1, <1>3, DeleteIsRight
<1>4. CASE Handler(r) = "link_stats" /\ link_stats(r) BY <1>1, <1>4, StatsIsRight
<1>5. CASE Handler(r) = "stats_page" /\ stats_page(r)
  <2>1. CASE require_basic_key(r.auth) BY <1>1, <1>5, <2>1, OtherIsRight DEF stats_page
  <2>2. CASE ~ require_basic_key(r.auth) BY <1>1, <1>5, <2>2, OtherIsRight DEF stats_page
  <2> QED BY <2>1, <2>2
<1>6. CASE Handler(r) = "follow" /\ follow(r) BY <1>1, <1>6, FollowIsRight
<1>7. CASE Handler(r) = "privacy_manifest" /\ Constant(200) BY <1>1, <1>7, OtherIsRight DEF Constant
<1>8. CASE Handler(r) = "method_not_allowed" /\ Constant(405) BY <1>1, <1>8, OtherIsRight DEF Constant
<1>9. CASE Handler(r) = "not_found" /\ Constant(404) BY <1>1, <1>9, OtherIsRight DEF Constant
<1> QED BY <1>2, <1>3, <1>4, <1>5, <1>6, <1>7, <1>8, <1>9 DEF Ask

-----------------------------------------------------------------------------
(* The invariant *)

\* Where the rows are right, the root belongs to the links.
LEMMA RowsAreFollowed ==
  ASSUME NEW rows, Rows(rows)
  PROVE  \A row \in rows : \A path \in {<<row.name>>, <<row.name, <<>> >>} :
           Handler([method |-> "GET", path |-> path]) = "follow"
BY NameIsFollowed DEF Rows

\* The invariant holds at first, and each action keeps it.
LEMMA AdmissionInit == Init => AdmissionInv
<1> SUFFICES ASSUME Init PROVE AdmissionInv OBVIOUS
<1>1. TypeOK BY ConstantsAssumption DEF Init, TypeOK
<1>2. KeyInv BY DEF Init, KeyInv
<1>3. OneLinkPerSpelling /\ RootIsForLinks /\ OnlyTheKeyOpens
  BY DEF Init, OneLinkPerSpelling, RootIsForLinks, OnlyTheKeyOpens
<1> QED BY <1>1, <1>2, <1>3 DEF AdmissionInv

\* A service starts with a key that can be sent, and nothing has been asked.
LEMMA StartKeepsInv ==
  ASSUME AdmissionInv, NEW setting \in Settings, Start(setting)
  PROVE  AdmissionInv'
<1>1. asked = Null /\ asked' = Null BY DEF AdmissionInv, KeyInv, Start
<1>2. api_key' = Null \/ (/\ api_key' \in Text /\ api_key' # <<>>
                          /\ {Head(api_key'), Last(api_key')} \cap Space = {}
                          /\ IsAscii(api_key') /\ Range(api_key') \cap Control = {})
  BY KeyOfSetting DEF Start, Bare
<1>3. TypeOK' BY <1>2 DEF AdmissionInv, TypeOK, Start, Taken
<1>4. KeyInv' BY <1>1, <1>2 DEF KeyInv
<1>5. OneLinkPerSpelling' /\ OnlyTheKeyOpens' BY <1>1 DEF OneLinkPerSpelling, OnlyTheKeyOpens
<1>6. RootIsForLinks' BY <1>1 DEF AdmissionInv, RootIsForLinks, Start
<1> QED BY <1>3, <1>4, <1>5, <1>6 DEF AdmissionInv

\* What was asked and answered is all that an Ask changes besides the rows.
LEMMA AskKeepsInv ==
  ASSUME AdmissionInv, NEW r \in Requests, Ask(r)
  PROVE  AdmissionInv'
<1>1. Rows(links') /\ Right(r, answer', links') BY AskIsRight
<1>2. asked' = r /\ api_key # Null /\ api_key' = api_key /\ now' = now BY DEF Ask
<1>3. TypeOK' BY <1>1, <1>2 DEF AdmissionInv, TypeOK, Rows, Right, Answered, Taken
<1>4. KeyInv' BY <1>2 DEF AdmissionInv, KeyInv
<1>5. OneLinkPerSpelling' BY <1>1, <1>2 DEF OneLinkPerSpelling, Right, Spelling
<1>6. RootIsForLinks' BY <1>1, <1>2, RowsAreFollowed DEF RootIsForLinks, Right, Rooted
<1>7. OnlyTheKeyOpens' BY <1>1, <1>2 DEF OnlyTheKeyOpens, Right, Opens
<1> QED BY <1>3, <1>4, <1>5, <1>6, <1>7 DEF AdmissionInv

\* The last answer is forgotten.
LEMMA ReplyKeepsInv ==
  ASSUME AdmissionInv, Reply
  PROVE  AdmissionInv'
<1>1. TypeOK' BY DEF AdmissionInv, TypeOK, Reply, Taken
<1>2. KeyInv' BY DEF AdmissionInv, KeyInv, Reply
<1>3. OneLinkPerSpelling' /\ OnlyTheKeyOpens' BY DEF OneLinkPerSpelling, OnlyTheKeyOpens, Reply
<1>4. RootIsForLinks' BY DEF AdmissionInv, RootIsForLinks, Reply
<1> QED BY <1>1, <1>2, <1>3, <1>4 DEF AdmissionInv

\* Time passes while nothing is asked.
LEMMA TickKeepsInv ==
  ASSUME AdmissionInv, Tick
  PROVE  AdmissionInv'
<1>1. TypeOK' BY ConstantsAssumption DEF AdmissionInv, TypeOK, Tick, Taken
<1>2. KeyInv' BY DEF AdmissionInv, KeyInv, Tick
<1>3. OneLinkPerSpelling' /\ OnlyTheKeyOpens' BY DEF OneLinkPerSpelling, OnlyTheKeyOpens, Tick
<1>4. RootIsForLinks' BY DEF AdmissionInv, RootIsForLinks, Tick
<1> QED BY <1>1, <1>2, <1>3, <1>4 DEF AdmissionInv

\* A step in which nothing changes
LEMMA StutterKeepsInv ==
  ASSUME AdmissionInv, UNCHANGED vars
  PROVE  AdmissionInv'
<1>1. TypeOK' BY DEF AdmissionInv, TypeOK, vars, Taken
<1>2. KeyInv' BY DEF AdmissionInv, KeyInv, vars
<1>3. OneLinkPerSpelling' BY DEF AdmissionInv, OneLinkPerSpelling, vars
<1>4. OnlyTheKeyOpens' BY DEF AdmissionInv, OnlyTheKeyOpens, vars
<1>5. RootIsForLinks' BY DEF AdmissionInv, RootIsForLinks, vars
<1> QED BY <1>1, <1>2, <1>3, <1>4, <1>5 DEF AdmissionInv

\* The inductive invariant: however a service was started, it keeps names and
\* expiries in the one form that its own comparisons of text rely on, and every
\* answer is about the link, and to the holder of the key, that it should be.
THEOREM AdmissionInvariant == Spec => []AdmissionInv
<1>1. Init => AdmissionInv BY AdmissionInit
<1>2. AdmissionInv /\ [Next]_vars => AdmissionInv'
  <2> SUFFICES ASSUME AdmissionInv, [Next]_vars PROVE AdmissionInv' OBVIOUS
  <2>1. ASSUME NEW setting \in Settings, Start(setting) PROVE AdmissionInv' BY <2>1, StartKeepsInv
  <2>2. ASSUME NEW r \in Requests, Ask(r) PROVE AdmissionInv' BY <2>2, AskKeepsInv
  <2>3. CASE Reply BY <2>3, ReplyKeepsInv
  <2>4. CASE Tick BY <2>4, TickKeepsInv
  <2>5. CASE UNCHANGED vars BY <2>5, StutterKeepsInv
  <2> QED BY <2>1, <2>2, <2>3, <2>4, <2>5 DEF Next
<1> QED BY <1>1, <1>2, PTL DEF Spec

\* Every stored name is in ADR-0001's grammar and is one link's, and every
\* stored expiry is as strftime prints it, for any requests and any length of
\* names (names.py:43-56, app.py:234-276).
THEOREM TypesHold == Spec => []TypeOK
<1>1. AdmissionInv => TypeOK BY DEF AdmissionInv
<1> QED BY <1>1, AdmissionInvariant, PTL

\* Whatever text stands for a name, in a path or in a body, the request is
\* about the link with the same letters in any case, and about no other
\* (names.py:38-56, app.py:433-574).
THEOREM EachSpellingHasOneLink == Spec => []OneLinkPerSpelling
<1>1. AdmissionInv => OneLinkPerSpelling BY DEF AdmissionInv
<1> QED BY <1>1, AdmissionInvariant, PTL

\* The route table leads every name that a link may have to follow, also a
\* route's own word, and nothing under /-/ to a redirect (app.py:3-6).
THEOREM TheRootIsForLinks == Spec => []RootIsForLinks
<1>1. AdmissionInv => RootIsForLinks BY DEF AdmissionInv
<1> QED BY <1>1, AdmissionInvariant, PTL

\* Whatever text the environment gave for a key, and whatever text a header
\* holds, the guarded routes let in those that carry the key and no others
\* (config.py:5-8, app.py:379-381, 398-406).
THEOREM NoOtherKeyOpens == Spec => []OnlyTheKeyOpens
<1>1. AdmissionInv => OnlyTheKeyOpens BY DEF AdmissionInv
<1> QED BY <1>1, AdmissionInvariant, PTL

\* The comparison of texts by which links end is the order of time, whatever
\* the moments, since only what strftime prints is stored (app.py:268-277,
\* links.py:152-155).
THEOREM LinksEndInTimeOrder == Spec => []ExpiresInTimeOrder
<1>1. TypeOK => ExpiresInTimeOrder
  <2> SUFFICES ASSUME TypeOK, NEW row \in links, row.expires # Null
               PROVE  is_expired(row.expires) <=> strptime[row.expires] <= now
    BY DEF ExpiresInTimeOrder
  <2>1. PICK t \in Instants : row.expires = strftime(t) BY DEF TypeOK
  <2>2. now \in Instants BY ConstantsAssumption DEF TypeOK, Instants
  <2>3. is_expired(row.expires) <=> AtMost(strftime(t), strftime(now)) BY <2>1 DEF is_expired
  <2> QED BY <2>1, <2>2, <2>3, PrintedInOrder, ReadBack
<1> QED BY <1>1, TypesHold, PTL
=============================================================================
