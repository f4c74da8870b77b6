-------------------------- MODULE ProxyLink_proofs --------------------------
(* Theorems about ProxyLink, for any set of links.                         *)
EXTENDS ProxyLink, TLAPS, WellFoundedInduction, FiniteSetTheorems, SequenceTheorems

CheckSet == Errors \cup {"none"}
Passes(checks) == \A i \in DOMAIN checks : checks[i] = "none"

\* Min (FiniteSetsExt) is a member of a set of naturals that has one, and the
\* least: the intervals 1..x are ordered as the x are, and finite sets are well
\* founded.
LEMMA MinIsIn ==
  ASSUME NEW S, S \subseteq Nat, S # {}
  PROVE  Min(S) \in S /\ \A y \in S : Min(S) =< y
<1> DEFINE I == {1..x : x \in S}
           R == StrictSubsetOrdering(Nat)
<1>1. IsWellFoundedOn(R, FiniteSubsetsOf(Nat))
  BY FS_StrictSubsetOrderingWellFounded
<1>2. I \subseteq FiniteSubsetsOf(Nat)
  <2>1. SUFFICES ASSUME NEW x \in S PROVE 1..x \in FiniteSubsetsOf(Nat) OBVIOUS
  <2>2. x \in Int /\ 1 \in Int OBVIOUS
  <2>3. IsFiniteSet(1..x) BY ONLY <2>2, FS_Interval
  <2> QED BY <2>3 DEF FiniteSubsetsOf
<1>3. I # {} OBVIOUS
<1> HIDE DEF I, R
<1>4. PICK m \in I : \A n \in I : ~(<<n, m>> \in R)
  BY <1>1, <1>2, <1>3, WFMin
<1>5. PICK x \in S : m = 1..x BY DEF I
<1>6. \A y \in S : x =< y
  <2>1. SUFFICES ASSUME NEW y \in S, y < x PROVE FALSE OBVIOUS
  <2>2. 1..y \subseteq 1..x /\ x \in 1..x /\ x \notin 1..y BY <2>1
  <2>3. <<1..y, m>> \in R BY <2>2, <1>5 DEF R, StrictSubsetOrdering
  <2> QED BY <2>3, <1>4 DEF I
<1> QED BY <1>6 DEF Min

\* Every parameter the parser reads is a value.
LEMMA ParamIsValue ==
  ASSUME NEW query \in Seq(Pair), NEW name \in Names
  PROVE  query_pairs_map(query)[name] \in Value
<1>1. Empty \in Value BY DEF Empty, Value, NaN
<1>2. ASSUME Places(query, name) # {}
      PROVE  query[Min(Places(query, name))] \in Pair
  <2>1. Places(query, name) \subseteq Nat BY DEF Places
  <2>2. Min(Places(query, name)) \in DOMAIN query
    BY <1>2, <2>1, MinIsIn DEF Places
  <2> QED BY <2>2
<1> QED BY <1>1, <1>2 DEF query_pairs_map, Pair

\* A sequence of checks passes when its two parts do.
LEMMA PassesInParts ==
  ASSUME NEW s \in Seq(CheckSet), NEW t \in Seq(CheckSet)
  PROVE  /\ s \o t \in Seq(CheckSet)
         /\ Passes(s \o t) <=> Passes(s) /\ Passes(t)
<1>1. s \o t \in Seq(CheckSet) OBVIOUS
<1>2. ASSUME Passes(s \o t) PROVE Passes(s)
  BY <1>2 DEF Passes
<1>3. ASSUME Passes(s \o t) PROVE Passes(t)
  <2>1. SUFFICES ASSUME NEW i \in DOMAIN t PROVE t[i] = "none" BY DEF Passes
  <2>2. Len(s) + i \in DOMAIN (s \o t) /\ (s \o t)[Len(s) + i] = t[i] OBVIOUS
  <2> QED BY <1>3, <2>2 DEF Passes
<1>4. ASSUME Passes(s), Passes(t) PROVE Passes(s \o t)
  BY <1>4 DEF Passes
<1> QED BY <1>1, <1>2, <1>3, <1>4

-----------------------------------------------------------------------------
\* What the checks amount to: the conditions under which each part passes.
PortGood(v) ==
  v.len # 0 /\ v.len <= MAX_PORT_QUERY_BYTES /\ v.number \in 0..MAX_U16 /\ v.number # 0
SecretGood(v) == v.len # 0 /\ v.len <= MAX_MTSECRET_LEN /\ v.chars = "plain"
CredentialGood(v) == v.len <= MAX_SOCKS_CRED_LEN /\ v.chars = "plain"
ServerGood(v) == v.len # 0 /\ v.len <= MAX_SERVER_LEN /\ v.chars = "plain"
Accepted(l) ==
  LET p == query_pairs_map(l.query) IN
    /\ l.parses /\ classify(l) # "unsupported"
    /\ ServerGood(p["server"]) /\ PortGood(p["port"])
    /\ IF classify(l) = "Mtproto" THEN SecretGood(p["secret"])
       ELSE CredentialGood(p["user"]) /\ CredentialGood(p["pass"])

\* A check is what it was made of.
LEMMA CheckIs ==
  ASSUME NEW b \in BOOLEAN, NEW e \in Errors
  PROVE  Check(b, e) \in CheckSet /\ (Check(b, e) = "none" <=> ~b)
BY DEF Check, CheckSet, Errors

\* Two, three or four checks in a sequence pass when each of them does.
LEMMA PassesTwo ==
  ASSUME NEW a \in CheckSet, NEW b \in CheckSet
  PROVE  <<a, b>> \in Seq(CheckSet) /\ (Passes(<<a, b>>) <=> a = "none" /\ b = "none")
BY DEF Passes

\* The same for three.
LEMMA PassesThree ==
  ASSUME NEW a \in CheckSet, NEW b \in CheckSet, NEW c \in CheckSet
  PROVE  /\ <<a, b, c>> \in Seq(CheckSet)
         /\ Passes(<<a, b, c>>) <=> a = "none" /\ b = "none" /\ c = "none"
BY DEF Passes

\* The same for four.
LEMMA PassesFour ==
  ASSUME NEW a \in CheckSet, NEW b \in CheckSet, NEW c \in CheckSet, NEW d \in CheckSet
  PROVE  /\ <<a, b, c, d>> \in Seq(CheckSet)
         /\ Passes(<<a, b, c, d>>) <=> a = "none" /\ b = "none" /\ c = "none" /\ d = "none"
BY DEF Passes

\* The two checks every text undergoes.
LEMMA TextChecks ==
  ASSUME NEW v \in Value, NEW max \in Nat
  PROVE  /\ TooLong(v, max) \in CheckSet /\ (TooLong(v, max) = "none" <=> v.len <= max)
         /\ reject_control_chars(v) \in CheckSet
         /\ reject_control_chars(v) = "none" <=> v.chars = "plain"
BY DEF TooLong, reject_control_chars, Check, CheckSet, Errors, Value

\* The checks of one value are checks, and pass when the value is good.
LEMMA ValueChecks ==
  ASSUME NEW v \in Value
  PROVE  /\ PortChecks(v) \in Seq(CheckSet) /\ (Passes(PortChecks(v)) <=> PortGood(v))
         /\ SecretChecks(v) \in Seq(CheckSet) /\ (Passes(SecretChecks(v)) <=> SecretGood(v))
         /\ CredentialChecks(v) \in Seq(CheckSet)
         /\ Passes(CredentialChecks(v)) <=> CredentialGood(v)
<1>1. PortChecks(v) \in Seq(CheckSet) /\ (Passes(PortChecks(v)) <=> PortGood(v))
  <2> DEFINE a == Check(v.len = 0, "MissingPort")
             b == Check(v.len > MAX_PORT_QUERY_BYTES, "InvalidPort")
             c == Check(v.number \notin 0..MAX_U16, "InvalidPort")
             d == Check(v.number = 0, "InvalidPort")
  <2>1. a \in CheckSet /\ (a = "none" <=> v.len # 0) BY CheckIs DEF Errors
  <2>2. b \in CheckSet /\ (b = "none" <=> v.len <= MAX_PORT_QUERY_BYTES)
    BY DEF Check, CheckSet, Errors, Value, MAX_PORT_QUERY_BYTES
  <2>3. c \in CheckSet /\ (c = "none" <=> v.number \in 0..MAX_U16)
    BY DEF Check, CheckSet, Errors
  <2>4. d \in CheckSet /\ (d = "none" <=> v.number # 0) BY CheckIs DEF Errors
  <2>5. PortChecks(v) = <<a, b, c, d>> BY DEF PortChecks
  <2> HIDE DEF a, b, c, d
  <2> QED BY <2>1, <2>2, <2>3, <2>4, <2>5, PassesFour DEF PortGood
<1>2. SecretChecks(v) \in Seq(CheckSet) /\ (Passes(SecretChecks(v)) <=> SecretGood(v))
  <2> DEFINE a == Check(v.len = 0, "MissingMtprotoSecret")
             b == TooLong(v, MAX_MTSECRET_LEN)
             c == reject_control_chars(v)
  <2>1. a \in CheckSet /\ (a = "none" <=> v.len # 0) BY CheckIs DEF Errors
  <2>2. b \in CheckSet /\ (b = "none" <=> v.len <= MAX_MTSECRET_LEN)
    BY TextChecks DEF MAX_MTSECRET_LEN
  <2>3. c \in CheckSet /\ (c = "none" <=> v.chars = "plain") BY TextChecks
  <2>4. SecretChecks(v) = <<a, b, c>> BY DEF SecretChecks
  <2> HIDE DEF a, b, c
  <2> QED BY <2>1, <2>2, <2>3, <2>4, PassesThree DEF SecretGood
<1>3. CredentialChecks(v) \in Seq(CheckSet)
      /\ (Passes(CredentialChecks(v)) <=> CredentialGood(v))
  <2> DEFINE a == TooLong(v, MAX_SOCKS_CRED_LEN)
             b == reject_control_chars(v)
  <2>1. a \in CheckSet /\ (a = "none" <=> v.len <= MAX_SOCKS_CRED_LEN)
    BY TextChecks DEF MAX_SOCKS_CRED_LEN
  <2>2. b \in CheckSet /\ (b = "none" <=> v.chars = "plain") BY TextChecks
  <2>3. CredentialChecks(v) = <<a, b>> BY DEF CredentialChecks
  <2> HIDE DEF a, b
  <2> QED BY <2>1, <2>2, <2>3, PassesTwo DEF CredentialGood
<1> QED BY ONLY <1>1, <1>2, <1>3

\* The same for the two checks of the server that follow those of the port.
LEMMA ServerChecks ==
  ASSUME NEW v \in Value
  PROVE  LET C == << TooLong(v, MAX_SERVER_LEN), reject_control_chars(v) >>
         IN  /\ C \in Seq(CheckSet)
             /\ Passes(C) <=> v.len <= MAX_SERVER_LEN /\ v.chars = "plain"
<1> DEFINE a == TooLong(v, MAX_SERVER_LEN)
           b == reject_control_chars(v)
<1>1. a \in CheckSet /\ (a = "none" <=> v.len <= MAX_SERVER_LEN)
  BY TextChecks DEF MAX_SERVER_LEN
<1>2. b \in CheckSet /\ (b = "none" <=> v.chars = "plain") BY TextChecks
<1> HIDE DEF a, b
<1>3. <<a, b>> \in Seq(CheckSet)
      /\ (Passes(<<a, b>>) <=> v.len <= MAX_SERVER_LEN /\ v.chars = "plain")
  BY <1>1, <1>2, PassesTwo DEF Value, MAX_SERVER_LEN
<1> QED BY <1>3 DEF a, b

\* A link passes all checks exactly when it is good.
LEMMA ChecksMean ==
  ASSUME NEW l, IsLink(l)
  PROVE  Checks(l) \in Seq(CheckSet) /\ (Passes(Checks(l)) <=> Accepted(l))
<1> DEFINE p == query_pairs_map(l.query)
           kind == classify(l)
           A == << Check(~l.parses, "InvalidUrl"),
                   Check(kind = "unsupported", "UnsupportedFormat"),
                   Check(p["server"].len = 0, "MissingServer") >>
           B == PortChecks(p["port"])
           C == << TooLong(p["server"], MAX_SERVER_LEN), reject_control_chars(p["server"]) >>
           M == SecretChecks(p["secret"])
           U == CredentialChecks(p["user"])
           W == CredentialChecks(p["pass"])
           D == IF kind = "Mtproto" THEN M ELSE U \o W
<1>1. \A name \in Names : p[name] \in Value
  BY ParamIsValue DEF IsLink
<1>2. p["server"] \in Value /\ p["port"] \in Value /\ p["secret"] \in Value
      /\ p["user"] \in Value /\ p["pass"] \in Value
  BY <1>1 DEF Names
<1>3. Checks(l) = ((A \o B) \o C) \o D
  BY DEF Checks
<1> HIDE DEF p, kind
<1>4. A \in Seq(CheckSet)
      /\ (Passes(A) <=> l.parses /\ kind # "unsupported" /\ p["server"].len # 0)
  <2> DEFINE x == Check(~l.parses, "InvalidUrl")
             y == Check(kind = "unsupported", "UnsupportedFormat")
             z == Check(p["server"].len = 0, "MissingServer")
  <2>1. x \in CheckSet /\ (x = "none" <=> l.parses) BY CheckIs DEF Errors
  <2>2. y \in CheckSet /\ (y = "none" <=> kind # "unsupported") BY CheckIs DEF Errors
  <2>3. z \in CheckSet /\ (z = "none" <=> p["server"].len # 0) BY CheckIs DEF Errors
  <2>4. A = <<x, y, z>> OBVIOUS
  <2> HIDE DEF x, y, z
  <2> QED BY <2>1, <2>2, <2>3, <2>4, PassesThree
<1>5. C \in Seq(CheckSet)
      /\ (Passes(C) <=> p["server"].len <= MAX_SERVER_LEN /\ p["server"].chars = "plain")
  BY <1>2, ServerChecks
<1>6. B \in Seq(CheckSet) /\ (Passes(B) <=> PortGood(p["port"]))
  BY <1>2, ValueChecks
<1>7. M \in Seq(CheckSet) /\ (Passes(M) <=> SecretGood(p["secret"]))
  BY <1>2, ValueChecks
<1>8. U \in Seq(CheckSet) /\ (Passes(U) <=> CredentialGood(p["user"]))
  BY <1>2, ValueChecks
<1>9. W \in Seq(CheckSet) /\ (Passes(W) <=> CredentialGood(p["pass"]))
  BY <1>2, ValueChecks
<1> HIDE DEF A, B, C, M, U, W
<1>10. D \in Seq(CheckSet)
       /\ (Passes(D) <=> IF kind = "Mtproto" THEN Passes(M) ELSE Passes(U) /\ Passes(W))
  BY <1>7, <1>8, <1>9, PassesInParts
<1> HIDE DEF D
<1>11. A \o B \in Seq(CheckSet) /\ (Passes(A \o B) <=> Passes(A) /\ Passes(B))
  BY <1>4, <1>6, PassesInParts
<1>12. (A \o B) \o C \in Seq(CheckSet)
       /\ (Passes((A \o B) \o C) <=> Passes(A \o B) /\ Passes(C))
  BY <1>5, <1>11, PassesInParts
<1> DEFINE ABC == (A \o B) \o C
<1> HIDE DEF ABC
<1>13. Checks(l) = ABC \o D /\ ABC \in Seq(CheckSet)
       /\ (Passes(ABC) <=> Passes(A \o B) /\ Passes(C))
  BY <1>3, <1>12 DEF ABC
<1>14. Checks(l) \in Seq(CheckSet)
       /\ (Passes(Checks(l)) <=> Passes(ABC) /\ Passes(D))
  BY <1>10, <1>13, PassesInParts
<1>15. Passes(Checks(l)) <=> Passes(A) /\ Passes(B) /\ Passes(C) /\ Passes(D)
  BY <1>11, <1>14, <1>13
<1>16. Accepted(l) <=>
         /\ l.parses /\ kind # "unsupported"
         /\ ServerGood(p["server"]) /\ PortGood(p["port"])
         /\ IF kind = "Mtproto" THEN SecretGood(p["secret"])
            ELSE CredentialGood(p["user"]) /\ CredentialGood(p["pass"])
  BY DEF Accepted, p, kind
<1> QED BY <1>4, <1>5, <1>6, <1>7, <1>8, <1>9, <1>10, <1>14, <1>15, <1>16 DEF ServerGood

\* The result of the parser: a configuration for a good link, an error of the
\* enumeration for any other.
LEMMA ParseMeans ==
  ASSUME NEW l, IsLink(l)
  PROVE  \/ Accepted(l) /\ parse_proxy_link(l) = Ok(Config(l))
         \/ ~Accepted(l) /\ \E error \in Errors : parse_proxy_link(l) = Err(error)
<1>1. Checks(l) \in Seq(CheckSet) /\ (Passes(Checks(l)) <=> Accepted(l))
  BY ChecksMean
<1>2. Passes(Checks(l)) <=> Failing(l) = {} BY DEF Passes, Failing
<1>3. CASE Failing(l) = {}
  BY <1>1, <1>2, <1>3 DEF parse_proxy_link
<1>4. CASE Failing(l) # {}
  <2>1. Failing(l) \subseteq Nat BY <1>1 DEF Failing
  <2>2. Min(Failing(l)) \in DOMAIN Checks(l) BY <1>4, <2>1, MinIsIn DEF Failing
  <2>3. Checks(l)[Min(Failing(l))] \in CheckSet BY <1>1, <2>2
  <2>4. Checks(l)[Min(Failing(l))] # "none" BY <1>4, <2>1, MinIsIn DEF Failing
  <2>5. Checks(l)[Min(Failing(l))] \in Errors BY <2>3, <2>4 DEF CheckSet
  <2> QED BY <1>1, <1>2, <1>4, <2>5 DEF parse_proxy_link
<1> QED BY <1>3, <1>4

-----------------------------------------------------------------------------
\* Three values are all a link's kind can be.
LEMMA KindIs ==
  ASSUME NEW l PROVE classify(l) \in {"Mtproto", "Socks5", "unsupported"}
BY DEF classify

\* The limits are numbers: most proofs need no more of them.
LEMMA LimitsAreNatural ==
  /\ MAX_SERVER_LEN \in Nat /\ MAX_MTSECRET_LEN \in Nat /\ MAX_SOCKS_CRED_LEN \in Nat
  /\ MAX_PORT_QUERY_BYTES \in Nat /\ MAX_U16 \in Nat
BY DEF MAX_SERVER_LEN, MAX_MTSECRET_LEN, MAX_SOCKS_CRED_LEN, MAX_PORT_QUERY_BYTES, MAX_U16

\* A length that is checked with > is in a range.
LEMMA InRange ==
  ASSUME NEW n \in Nat, NEW max \in Nat
  PROVE  /\ n <= max => n \in 0..max
         /\ n # 0 /\ n <= max => n \in 1..max
         /\ n \in 0..max <=> n <= max
OBVIOUS

\* A good value is clean.
LEMMA GoodIsClean ==
  ASSUME NEW v \in Value
  PROVE  /\ SecretGood(v) => Clean(v, 1, MAX_MTSECRET_LEN)
         /\ CredentialGood(v) => Clean(v, 0, MAX_SOCKS_CRED_LEN)
         /\ ServerGood(v) => Clean(v, 1, MAX_SERVER_LEN)
<1>a. v.len \in Nat BY DEF Value
<1>1. SecretGood(v) => Clean(v, 1, MAX_MTSECRET_LEN)
  BY <1>a, LimitsAreNatural, InRange DEF SecretGood, Clean
<1>2. CredentialGood(v) => Clean(v, 0, MAX_SOCKS_CRED_LEN)
  BY <1>a, LimitsAreNatural, InRange DEF CredentialGood, Clean
<1>3. ServerGood(v) => Clean(v, 1, MAX_SERVER_LEN)
  BY <1>a, LimitsAreNatural, InRange DEF ServerGood, Clean
<1> QED BY ONLY <1>1, <1>2, <1>3

\* A u16 that is not zero.
LEMMA PortRange == \A n \in 0..MAX_U16 : n # 0 => n \in 1..MAX_U16
BY LimitsAreNatural, InRange

\* The configuration of a good link is usable.
LEMMA GoodConfig ==
  ASSUME NEW l, IsLink(l), Accepted(l)
  PROVE  LET c == Config(l) IN
           /\ c \in Configs
           /\ c.port \in 1..MAX_U16
           /\ Clean(c.server, 1, MAX_SERVER_LEN)
           /\ \/ /\ c.kind = "Mtproto"
                 /\ Clean(c.mtproto_secret, 1, MAX_MTSECRET_LEN)
                 /\ c.socks_username = Empty /\ c.socks_password = Empty
              \/ /\ c.kind = "Socks5"
                 /\ c.mtproto_secret = Empty
                 /\ Clean(c.socks_username, 0, MAX_SOCKS_CRED_LEN)
                 /\ Clean(c.socks_password, 0, MAX_SOCKS_CRED_LEN)
<1> DEFINE p == query_pairs_map(l.query)
           c == Config(l)
<1>1. p["server"] \in Value /\ p["port"] \in Value /\ p["secret"] \in Value
      /\ p["user"] \in Value /\ p["pass"] \in Value
  BY ParamIsValue DEF IsLink, Names
<1>2. Empty \in Value BY DEF Empty, Value, NaN
<1>3. /\ c.kind = classify(l) /\ c.server = p["server"] /\ c.port = p["port"].number
      /\ c = [kind |-> c.kind, server |-> c.server, port |-> c.port,
              mtproto_secret |-> c.mtproto_secret, socks_username |-> c.socks_username,
              socks_password |-> c.socks_password]
  BY DEF Config
<1>4. classify(l) = "Mtproto" =>
        /\ c.mtproto_secret = p["secret"]
        /\ c.socks_username = Empty /\ c.socks_password = Empty
  BY DEF Config
<1>5. classify(l) = "Socks5" =>
        /\ c.mtproto_secret = Empty
        /\ c.socks_username = p["user"] /\ c.socks_password = p["pass"]
  BY DEF Config
<1>6. /\ classify(l) # "unsupported"
      /\ ServerGood(p["server"]) /\ PortGood(p["port"])
      /\ classify(l) = "Mtproto" => SecretGood(p["secret"])
      /\ classify(l) = "Socks5" => CredentialGood(p["user"]) /\ CredentialGood(p["pass"])
  BY DEF Accepted
<1> HIDE DEF p, c
<1>7. c.port \in 0..MAX_U16 /\ c.port \in 1..MAX_U16
  <2>1. PortGood(p["port"]) BY <1>6
  <2>2. p["port"].number \in 0..MAX_U16 /\ p["port"].number # 0
    BY ONLY <2>1 DEF PortGood
  <2>3. c.port \in 0..MAX_U16 /\ c.port # 0 BY ONLY <1>3, <2>2
  <2> QED BY ONLY <2>3, PortRange
<1>8. Clean(c.server, 1, MAX_SERVER_LEN)
  BY <1>1, <1>3, <1>6, GoodIsClean
<1>9. CASE classify(l) = "Mtproto"
  <2>1. Clean(c.mtproto_secret, 1, MAX_MTSECRET_LEN)
    BY <1>1, <1>4, <1>6, <1>9, GoodIsClean
  <2>2. c \in Configs BY <1>1, <1>2, <1>3, <1>4, <1>7, <1>9 DEF Configs
  <2> QED BY <1>3, <1>4, <1>7, <1>8, <1>9, <2>1, <2>2 DEF c
<1>10. CASE classify(l) = "Socks5"
  <2>1. /\ Clean(c.socks_username, 0, MAX_SOCKS_CRED_LEN)
        /\ Clean(c.socks_password, 0, MAX_SOCKS_CRED_LEN)
    BY <1>1, <1>5, <1>6, <1>10, GoodIsClean
  <2>2. c \in Configs BY <1>1, <1>2, <1>3, <1>5, <1>7, <1>10 DEF Configs
  <2> QED BY <1>3, <1>5, <1>7, <1>8, <1>10, <2>1, <2>2 DEF c
<1> QED BY <1>6, <1>9, <1>10, KindIs

\* What the parser finds in a redacted link: everything as it was, except that a
\* credential that is there reads as the placeholder.
LEMMA RedactedParams ==
  ASSUME NEW l, IsLink(l)
  PROVE  LET r == redact_sensitive_query_in_link(l)
             p == query_pairs_map(l.query)
             q == query_pairs_map(r.query)
         IN  /\ IsLink(r) /\ r.parses = l.parses /\ r.userinfo = FALSE
             /\ classify(r) = classify(l)
             /\ \A n \in {"server", "port", "user"} : q[n] = p[n]
             /\ \A n \in {"secret", "pass"} :
                  q[n] = Redacted \/ (q[n] = Empty /\ p[n] = Empty)
<1> DEFINE r == redact_sensitive_query_in_link(l)
           p == query_pairs_map(l.query)
           q == query_pairs_map(r.query)
           Shown(x) == IF x.name \in Credentials THEN [x EXCEPT !.value = Redacted] ELSE x
<1>1. \A x \in Pair : Shown(x) \in Pair /\ Shown(x).name = x.name
                      /\ (x.name \in Credentials => Shown(x).value = Redacted)
                      /\ (x.name \notin Credentials => Shown(x) = x)
  BY DEF Pair, Value, Redacted, NaN
<1>2. r.query = [i \in DOMAIN l.query |-> Shown(l.query[i])]
      /\ r.userinfo = FALSE /\ r.parses = l.parses
      /\ r.scheme = l.scheme /\ r.host = l.host /\ r.path = l.path
  BY DEF redact_sensitive_query_in_link, IsLink
<1>3. l.query \in Seq(Pair) BY DEF IsLink
<1> HIDE DEF Shown
<1>4. r.query \in Seq(Pair) /\ DOMAIN r.query = DOMAIN l.query
      /\ \A i \in DOMAIN l.query : r.query[i] = Shown(l.query[i])
  <2> DEFINE s == [i \in 1..Len(l.query) |-> Shown(l.query[i])]
  <2>1. DOMAIN l.query = 1..Len(l.query) /\ Len(l.query) \in Nat BY <1>3
  <2>2. \A i \in 1..Len(l.query) : l.query[i] \in Pair BY <1>3
  <2>3. s \in [1..Len(l.query) -> Pair] BY <1>1, <2>2
  <2>4. s \in Seq(Pair) BY <2>1, <2>3, IsASeq
  <2>5. r.query = s BY <1>2, <2>1
  <2> QED BY <2>1, <2>4, <2>5
<1>5. IsLink(r) BY <1>2, <1>4 DEF IsLink, redact_sensitive_query_in_link
<1>6. classify(r) = classify(l) BY <1>2 DEF classify, Named
<1>7. \A i \in DOMAIN l.query : l.query[i] \in Pair BY <1>3
<1>8. \A n \in Names : Places(r.query, n) = Places(l.query, n)
  BY <1>1, <1>4, <1>7 DEF Places
<1>9. ASSUME NEW n \in Names, Places(l.query, n) # {}
      PROVE  LET i == Min(Places(l.query, n)) IN
               i \in DOMAIN l.query /\ l.query[i].name = n
  <2>1. Places(l.query, n) \subseteq Nat BY <1>3 DEF Places
  <2> QED BY <1>9, <2>1, MinIsIn DEF Places
<1>10. ASSUME NEW n \in Names, Places(l.query, n) # {}
       PROVE  q[n] = Shown(l.query[Min(Places(l.query, n))]).value
              /\ p[n] = l.query[Min(Places(l.query, n))].value
  BY <1>4, <1>8, <1>9, <1>10 DEF query_pairs_map
<1>11. ASSUME NEW n \in Names, Places(l.query, n) = {}
       PROVE  q[n] = Empty /\ p[n] = Empty
  BY <1>8, <1>11 DEF query_pairs_map
<1> HIDE DEF p, q
<1>12. ASSUME NEW n \in Names \ Credentials PROVE q[n] = p[n]
  BY <1>1, <1>7, <1>9, <1>10, <1>11
<1>13. ASSUME NEW n \in Names \cap Credentials
       PROVE  q[n] = Redacted \/ (q[n] = Empty /\ p[n] = Empty)
  BY <1>1, <1>7, <1>9, <1>10, <1>11
<1>14. {"server", "port", "user"} \subseteq Names \ Credentials
       /\ {"secret", "pass"} \subseteq Names \cap Credentials
  BY DEF Names, Credentials
<1>15. (\A n \in {"server", "port", "user"} : q[n] = p[n])
       /\ \A n \in {"secret", "pass"} : q[n] = Redacted \/ (q[n] = Empty /\ p[n] = Empty)
  BY <1>12, <1>13, <1>14
<1> QED BY <1>2, <1>5, <1>6, <1>15 DEF p, q

\* A redacted link passes whenever the link itself does.
LEMMA RedactedIsAccepted ==
  ASSUME NEW l, IsLink(l), Accepted(l)
  PROVE  Accepted(redact_sensitive_query_in_link(l))
<1> DEFINE r == redact_sensitive_query_in_link(l)
           p == query_pairs_map(l.query)
           q == query_pairs_map(r.query)
<1>1. /\ r.parses = l.parses /\ classify(r) = classify(l)
      /\ q["server"] = p["server"] /\ q["port"] = p["port"] /\ q["user"] = p["user"]
      /\ q["secret"] = Redacted \/ (q["secret"] = Empty /\ p["secret"] = Empty)
      /\ q["pass"] = Redacted \/ (q["pass"] = Empty /\ p["pass"] = Empty)
  BY RedactedParams
<1>2. SecretGood(Redacted) /\ CredentialGood(Redacted) /\ CredentialGood(Empty)
      /\ ~SecretGood(Empty)
  BY DEF SecretGood, CredentialGood, Redacted, Empty, MAX_MTSECRET_LEN,
         MAX_SOCKS_CRED_LEN
<1> HIDE DEF r, p, q
<1>3. Accepted(l) <=> /\ l.parses /\ classify(l) # "unsupported"
                      /\ ServerGood(p["server"]) /\ PortGood(p["port"])
                      /\ IF classify(l) = "Mtproto" THEN SecretGood(p["secret"])
                         ELSE CredentialGood(p["user"]) /\ CredentialGood(p["pass"])
  BY DEF Accepted, p
<1>4. Accepted(r) <=> /\ r.parses /\ classify(r) # "unsupported"
                      /\ ServerGood(q["server"]) /\ PortGood(q["port"])
                      /\ IF classify(r) = "Mtproto" THEN SecretGood(q["secret"])
                         ELSE CredentialGood(q["user"]) /\ CredentialGood(q["pass"])
  BY DEF Accepted, q
<1>5. Accepted(r) BY <1>1, <1>2, <1>3, <1>4
<1> QED BY <1>5 DEF r

-----------------------------------------------------------------------------
\* The two variables are functions of the link, once they are set.
LinkInv ==
  /\ IsLink(link)
  /\ result = Unparsed \/ result = parse_proxy_link(link)
  /\ shown = {} \/ (result.status = "ok" /\ shown = {redact_sensitive_query_in_link(link)})

\* LinkInv holds in every state.
LEMMA LinkInvariant == Spec => []LinkInv
<1>1. Init => LinkInv BY LinksAssumption DEF Init, LinkInv
<1>2. LinkInv /\ [Next]_vars => LinkInv'
  <2> SUFFICES ASSUME LinkInv, [Next]_vars PROVE LinkInv' OBVIOUS
  <2>1. CASE Parse BY <2>1 DEF Parse, LinkInv, Unparsed
  <2>2. CASE Show BY <2>2 DEF Show, LinkInv
  <2>3. CASE UNCHANGED vars BY <2>3 DEF vars, LinkInv
  <2> QED BY <2>1, <2>2, <2>3 DEF Next
<1> QED BY <1>1, <1>2, PTL DEF Spec

\* An accepted link is good, and its result the configuration it describes.
LEMMA OkMeans ==
  ASSUME LinkInv, result.status = "ok"
  PROVE  Accepted(link) /\ result = Ok(Config(link)) /\ result.config = Config(link)
<1>1. result = parse_proxy_link(link) BY DEF LinkInv, Unparsed
<1>2. Accepted(link) /\ result = Ok(Config(link))
  BY <1>1, ParseMeans DEF LinkInv, Err
<1> QED BY <1>2 DEF Ok

\* For every link: the result has its type, an accepted link gives a usable proxy,
\* and what is shown of it is the same proxy without its credentials (the whole of
\* parse_proxy_link and redact_sensitive_query_in_link).
THEOREM LinkCorrect == Spec => [](TypeOK /\ ConfigIsUsable /\ DisplayIsThisProxyRedacted)
<1>1. LinkInv => TypeOK
  <2> SUFFICES ASSUME LinkInv PROVE TypeOK OBVIOUS
  <2>1. IsLink(link) /\ (shown # {} => result.status = "ok") BY DEF LinkInv
  <2>2. CASE result = Unparsed BY <2>1, <2>2 DEF TypeOK
  <2>3. CASE result = parse_proxy_link(link)
    <3>1. CASE Accepted(link) /\ result = Ok(Config(link))
      <4>1. Config(link) \in Configs BY <2>1, <3>1, GoodConfig
      <4>2. result.status = "ok" /\ result.config = Config(link) BY <3>1 DEF Ok
      <4> QED BY <2>1, <3>1, <4>1, <4>2 DEF TypeOK
    <3>2. CASE \E error \in Errors : result = Err(error)
      BY <2>1, <3>2 DEF TypeOK
    <3> QED BY <2>1, <2>3, <3>1, <3>2, ParseMeans
  <2> QED BY <2>2, <2>3 DEF LinkInv
<1>2. LinkInv => ConfigIsUsable
  <2> SUFFICES ASSUME LinkInv, result.status = "ok" PROVE ConfigIsUsable
    BY DEF ConfigIsUsable
  <2> QED BY OkMeans, GoodConfig DEF ConfigIsUsable, LinkInv
<1>3. LinkInv => DisplayIsThisProxyRedacted
  <2> SUFFICES ASSUME LinkInv, shown # {} PROVE DisplayIsThisProxyRedacted
    BY DEF DisplayIsThisProxyRedacted
  <2> DEFINE r == redact_sensitive_query_in_link(link)
             c == Config(link)
             d == Config(r)
             p == query_pairs_map(link.query)
             q == query_pairs_map(r.query)
  <2>1. IsLink(link) /\ shown = {r} /\ result.status = "ok" BY DEF LinkInv
  <2>2. Accepted(link) /\ result.config = c BY <2>1, OkMeans
  <2>3. IsLink(r) /\ r.userinfo = FALSE /\ classify(r) = classify(link)
        /\ q["server"] = p["server"] /\ q["port"] = p["port"] /\ q["user"] = p["user"]
        /\ q["secret"] \in {Redacted, Empty} /\ q["pass"] \in {Redacted, Empty}
    BY <2>1, RedactedParams
  <2>4. Accepted(r) BY <2>1, <2>2, RedactedIsAccepted
  <2>5. parse_proxy_link(r) = Ok(d) BY <2>3, <2>4, ParseMeans
  <2>6. parse_proxy_link(r).status = "ok" /\ parse_proxy_link(r).config = d
    BY <2>5 DEF Ok
  <2>7. /\ d.kind = c.kind /\ d.server = c.server /\ d.port = c.port
        /\ d.socks_username = c.socks_username
        /\ d.mtproto_secret \in {Empty, Redacted} /\ d.socks_password \in {Empty, Redacted}
    BY <2>3 DEF Config
  <2> HIDE DEF r, c, d
  <2> QED BY <2>1, <2>2, <2>3, <2>6, <2>7 DEF DisplayIsThisProxyRedacted
<1> QED BY <1>1, <1>2, <1>3, LinkInvariant, PTL

\* The parts of LinkCorrect, one by one: every result is an error of the parser or a
\* configuration with a u16 port.
THEOREM ResultsAreTyped == Spec => []TypeOK
  BY LinkCorrect, PTL

\* What --verbose prints of an accepted link is the same proxy without its credentials.
THEOREM DisplayIsRedacted == Spec => []DisplayIsThisProxyRedacted
  BY LinkCorrect, PTL

-----------------------------------------------------------------------------
\* The parameter that is read is the one that stands first under its name.
LEMMA ParamIsFirst ==
  ASSUME NEW q \in Seq(Pair), NEW name \in Names
  PROVE  /\ \A i \in DOMAIN q :
              q[i].name = name /\ (\A j \in 1..i-1 : q[j].name # name) =>
                query_pairs_map(q)[name] = q[i].value
         /\ (\A i \in DOMAIN q : q[i].name # name) => query_pairs_map(q)[name] = Empty
         /\ (\E i \in DOMAIN q : q[i].name = name) =>
              \E i \in DOMAIN q : q[i].name = name /\ \A j \in 1..i-1 : q[j].name # name
<1> DEFINE S == Places(q, name)
           m == Min(S)
<1>1. /\ DOMAIN q = 1..Len(q) /\ Len(q) \in Nat
      /\ S = {i \in DOMAIN q : q[i].name = name} /\ S \subseteq Nat
  BY DEF Places
<1>2. query_pairs_map(q)[name] = IF S = {} THEN Empty ELSE q[m].value
  BY DEF query_pairs_map
<1>3. ASSUME S # {} PROVE m \in S /\ \A y \in S : m =< y
  BY <1>1, <1>3, MinIsIn
<1> HIDE DEF S, m
<1>4. ASSUME NEW i \in DOMAIN q, q[i].name = name, \A j \in 1..i-1 : q[j].name # name
      PROVE  query_pairs_map(q)[name] = q[i].value
  <2>1. i \in S /\ i \in Nat BY <1>1, <1>4
  <2>2. m \in S /\ m =< i /\ m \in Nat BY <1>1, <1>3, <2>1
  <2>3. m < i => m \in 1..i-1 BY <1>1, <2>1, <2>2
  <2>4. m = i BY <1>1, <1>4, <2>1, <2>2, <2>3
  <2> QED BY <1>2, <2>1, <2>4
<1>5. ASSUME \E i \in DOMAIN q : q[i].name = name
      PROVE  \E i \in DOMAIN q : q[i].name = name /\ \A j \in 1..i-1 : q[j].name # name
  <2>1. m \in S /\ \A y \in S : m =< y BY <1>1, <1>3, <1>5
  <2>2. m \in DOMAIN q /\ q[m].name = name BY <1>1, <2>1
  <2>3. ASSUME NEW j \in 1..m-1 PROVE q[j].name # name
    <3>1. j \in DOMAIN q /\ ~(m =< j) BY <1>1, <2>2
    <3> QED BY <1>1, <2>1, <3>1
  <2> QED BY <2>2, <2>3
<1>6. (\A i \in DOMAIN q : q[i].name # name) => query_pairs_map(q)[name] = Empty
  BY <1>1, <1>2
<1> QED BY <1>4, <1>5, <1>6

\* The same, for a given place.
LEMMA ParamAt ==
  ASSUME NEW q \in Seq(Pair), NEW name \in Names, NEW i \in DOMAIN q, q[i].name = name,
         \A j \in 1..i-1 : q[j].name # name
  PROVE  query_pairs_map(q)[name] = q[i].value
BY ParamIsFirst

\* Without one that is not the first under its name the parameters are the same.
LEMMA SameWithout ==
  ASSUME NEW q \in Seq(Pair), NEW n \in DOMAIN q,
         \E j \in 1..n-1 : q[j].name = q[n].name
  PROVE  Without(q, n) \in Seq(Pair) /\ query_pairs_map(Without(q, n)) = query_pairs_map(q)
<1> DEFINE t == Without(q, n)
<1>1. DOMAIN q = 1..Len(q) /\ Len(q) \in Nat /\ n \in Nat /\ n >= 1 /\ n <= Len(q)
      /\ \A i \in DOMAIN q : q[i] \in Pair
  OBVIOUS
<1>2. t = [i \in 1..Len(q)-1 |-> IF i < n THEN q[i] ELSE q[i + 1]]
  BY DEF Without
<1>3. /\ DOMAIN t = 1..Len(q)-1
      /\ \A i \in 1..Len(q)-1 : t[i] = IF i < n THEN q[i] ELSE q[i + 1]
  BY <1>2
<1>4. t \in Seq(Pair)
  <2>1. Len(q)-1 \in Nat BY <1>1
  <2>2. \A i \in 1..Len(q)-1 : i \in DOMAIN q /\ i + 1 \in DOMAIN q BY <1>1
  <2>3. t \in [1..Len(q)-1 -> Pair] BY <1>1, <1>2, <2>2
  <2> QED BY <2>1, <2>3, IsASeq
<1> HIDE DEF t
<1>5. ASSUME NEW name \in Names PROVE query_pairs_map(t)[name] = query_pairs_map(q)[name]
  <2>1. CASE \A i \in DOMAIN q : q[i].name # name
    <3>1. \A i \in DOMAIN t : t[i].name # name
      <4>1. SUFFICES ASSUME NEW i \in DOMAIN t PROVE t[i].name # name OBVIOUS
      <4>2. i \in DOMAIN q /\ i + 1 \in DOMAIN q BY <1>1, <1>3
      <4> QED BY <1>3, <2>1, <4>2
    <3> QED BY <1>4, <2>1, <3>1, ParamIsFirst
  <2>2. CASE \E i \in DOMAIN q : q[i].name = name
    <3>1. PICK i \in DOMAIN q : q[i].name = name /\ \A j \in 1..i-1 : q[j].name # name
      BY <2>2, ParamIsFirst
    <3>2. query_pairs_map(q)[name] = q[i].value BY <3>1, ParamIsFirst
    <3>3. i # n BY <3>1
    <3>4. CASE i < n
      <4>1. i \in DOMAIN t /\ t[i] = q[i] BY <1>1, <1>3, <3>4
      <4>2. \A j \in 1..i-1 : t[j] = q[j] BY <1>1, <1>3, <3>4
      <4>a. i \in DOMAIN t /\ t[i].name = name /\ \A j \in 1..i-1 : t[j].name # name
        BY <1>4, <3>1, <4>1, <4>2
      <4>b. query_pairs_map(t)[name] = t[i].value
        BY ONLY <1>4, <4>a, ParamAt, name \in Names
      <4> QED BY <3>2, <4>b, <4>1, <4>2
    <3>5. CASE n < i
      <4>1. i - 1 \in DOMAIN t /\ t[i - 1] = q[i]
        <5>1. i - 1 \in 1..Len(q)-1 /\ ~(i - 1 < n) /\ (i - 1) + 1 = i BY <1>1, <3>5
        <5> QED BY <1>3, <5>1
      <4>2. ASSUME NEW j \in 1..(i - 1)-1 PROVE t[j].name # name
        <5>1. j \in 1..Len(q)-1 /\ j \in 1..i-1 /\ j + 1 \in 1..i-1 BY <1>1
        <5>2. t[j] = q[j] \/ t[j] = q[j + 1] BY <1>3, <5>1
        <5> QED BY <3>1, <5>1, <5>2
      <4>3. t[i - 1].name = name BY <3>1, <4>1
      <4>4. query_pairs_map(t)[name] = t[i - 1].value
        BY ONLY <1>4, <4>1, <4>2, <4>3, ParamAt, name \in Names
      <4> QED BY <3>2, <4>1, <4>4
    <3> QED BY <1>1, <3>3, <3>4, <3>5
  <2> QED BY <2>1, <2>2
<1>6. query_pairs_map(t) = query_pairs_map(q)
  BY <1>5 DEF query_pairs_map
<1> QED BY <1>4, <1>6 DEF t

\* With two neighbours of different names exchanged too.
LEMMA SameExchanged ==
  ASSUME NEW q \in Seq(Pair), NEW n \in DOMAIN q, n + 1 \in DOMAIN q, q[n].name # q[n + 1].name
  PROVE  Exchanged(q, n) \in Seq(Pair) /\ query_pairs_map(Exchanged(q, n)) = query_pairs_map(q)
<1> DEFINE t == Exchanged(q, n)
<1>1. DOMAIN q = 1..Len(q) /\ Len(q) \in Nat /\ n \in Nat /\ n >= 1 /\ n + 1 <= Len(q)
      /\ \A i \in DOMAIN q : q[i] \in Pair
  OBVIOUS
<1>2. /\ t \in Seq(Pair) /\ DOMAIN t = DOMAIN q
      /\ t[n] = q[n + 1] /\ t[n + 1] = q[n]
      /\ \A i \in DOMAIN q : i # n /\ i # n + 1 => t[i] = q[i]
  BY <1>1 DEF Exchanged
<1> HIDE DEF t
<1>3. ASSUME NEW name \in Names PROVE query_pairs_map(t)[name] = query_pairs_map(q)[name]
  <2>1. CASE \A i \in DOMAIN q : q[i].name # name
    <3>1. \A i \in DOMAIN t : t[i].name # name
      BY <1>1, <1>2, <2>1
    <3> QED BY <1>2, <2>1, <3>1, ParamIsFirst
  <2>2. CASE \E i \in DOMAIN q : q[i].name = name
    <3>1. PICK i \in DOMAIN q : q[i].name = name /\ \A j \in 1..i-1 : q[j].name # name
      BY <2>2, ParamIsFirst
    <3>2. query_pairs_map(q)[name] = q[i].value BY <3>1, ParamIsFirst
    <3>3. CASE i < n
      <4>1. t[i] = q[i] /\ \A j \in 1..i-1 : t[j] = q[j] BY <1>1, <1>2, <3>3
      <4>a. i \in DOMAIN t /\ t[i].name = name /\ \A j \in 1..i-1 : t[j].name # name
        BY <1>2, <3>1, <4>1
      <4>b. query_pairs_map(t)[name] = t[i].value
        BY ONLY <1>2, <4>a, ParamAt, name \in Names
      <4> QED BY <3>2, <4>b, <4>1
    <3>4. CASE i = n
      <4>1. n + 1 \in DOMAIN t /\ t[n + 1] = q[i] BY <1>2, <3>4
      <4>2. ASSUME NEW j \in 1..(n + 1)-1 PROVE t[j].name # name
        <5>1. CASE j = n BY <1>2, <3>1, <3>4, <5>1
        <5>2. CASE j # n
          <6>1. j \in 1..i-1 /\ j \in DOMAIN q /\ j # n + 1 BY <1>1, <3>4, <5>2
          <6> QED BY <1>2, <3>1, <5>2, <6>1
        <5> QED BY <5>1, <5>2
      <4>3. t[n + 1].name = name BY <3>1, <4>1
      <4>4. query_pairs_map(t)[name] = t[n + 1].value
        BY ONLY <1>2, <4>1, <4>2, <4>3, ParamAt, name \in Names
      <4> QED BY <3>2, <4>1, <4>4
    <3>5. CASE i = n + 1
      <4>1. n \in DOMAIN t /\ t[n] = q[i] BY <1>2, <3>5
      <4>2. ASSUME NEW j \in 1..n-1 PROVE t[j].name # name
        <5>1. j \in 1..i-1 /\ j \in DOMAIN q /\ j # n /\ j # n + 1 BY <1>1, <3>5
        <5> QED BY <1>2, <3>1, <5>1
      <4>3. t[n].name = name BY <3>1, <4>1
      <4>4. query_pairs_map(t)[name] = t[n].value
        BY ONLY <1>2, <4>1, <4>2, <4>3, ParamAt, name \in Names
      <4> QED BY <3>2, <4>1, <4>4
    <3>6. CASE n + 1 < i
      <4>1. i \in DOMAIN t /\ t[i] = q[i] BY <1>1, <1>2, <3>6
      <4>2. ASSUME NEW j \in 1..i-1 PROVE t[j].name # name
        <5>1. j \in DOMAIN q /\ n \in 1..i-1 /\ n + 1 \in 1..i-1 BY <1>1, <3>6
        <5> QED BY <1>2, <3>1, <5>1
      <4>a. i \in DOMAIN t /\ t[i].name = name /\ \A j \in 1..i-1 : t[j].name # name
        BY <1>2, <3>1, <4>1, <4>2
      <4>b. query_pairs_map(t)[name] = t[i].value
        BY ONLY <1>2, <4>a, ParamAt, name \in Names
      <4> QED BY <3>2, <4>b, <4>1, <4>2
    <3> QED BY <1>1, <3>3, <3>4, <3>5, <3>6
  <2> QED BY <2>1, <2>2
<1>4. query_pairs_map(t) = query_pairs_map(q)
  BY <1>3 DEF query_pairs_map
<1> QED BY <1>2, <1>4 DEF t

\* The parameters are all that the parser reads of a query.
LEMMA SameParams ==
  ASSUME NEW l, IsLink(l), NEW q, query_pairs_map(q) = query_pairs_map(l.query)
  PROVE  parse_proxy_link([l EXCEPT !.query = q]) = parse_proxy_link(l)
<1> DEFINE m == [l EXCEPT !.query = q]
<1>1. /\ m.query = q /\ m.parses = l.parses /\ m.scheme = l.scheme
      /\ m.host = l.host /\ m.path = l.path
  BY DEF IsLink
<1> HIDE DEF m
<1>2. classify(m) = classify(l)
  BY <1>1 DEF classify, Named
<1>3. Checks(m) = Checks(l) /\ Config(m) = Config(l)
  BY <1>1, <1>2 DEF Checks, Config
<1>4. Failing(m) = Failing(l)
  BY <1>3 DEF Failing
<1> QED BY <1>3, <1>4 DEF parse_proxy_link, m

\* OnlyFirstCounts (query_pairs_map, proxy_link.rs:187-195): for every link, removing a
\* repeated parameter or exchanging two different neighbours changes nothing.
THEOREM FirstOccurrenceCounts == Spec => []OnlyFirstCounts
<1>1. LinkInv => OnlyFirstCounts
  <2>1. SUFFICES ASSUME LinkInv, result.status # "unparsed", NEW n \in DOMAIN link.query
                 PROVE  /\ ~FirstUnder(link.query[n].name, n) =>
                             parse_proxy_link([link EXCEPT !.query = Without(@, n)]) = result
                        /\ n + 1 \in DOMAIN link.query
                           /\ link.query[n].name # link.query[n + 1].name =>
                             parse_proxy_link([link EXCEPT !.query = Exchanged(@, n)]) = result
    BY DEF OnlyFirstCounts
  <2>2. IsLink(link) /\ result = parse_proxy_link(link)
    BY <2>1 DEF LinkInv, Unparsed
  <2>3. link.query \in Seq(Pair)
    BY <2>2 DEF IsLink
  <2>4. ASSUME ~FirstUnder(link.query[n].name, n)
        PROVE  parse_proxy_link([link EXCEPT !.query = Without(link.query, n)]) = result
    <3>1. \E j \in 1..n-1 : link.query[j].name = link.query[n].name
      BY <2>1, <2>4 DEF FirstUnder, Places
    <3>2. query_pairs_map(Without(link.query, n)) = query_pairs_map(link.query)
      BY <2>1, <2>3, <3>1, SameWithout
    <3> QED BY <2>2, <3>2, SameParams
  <2>5. ASSUME n + 1 \in DOMAIN link.query, link.query[n].name # link.query[n + 1].name
        PROVE  parse_proxy_link([link EXCEPT !.query = Exchanged(link.query, n)]) = result
    <3>1. query_pairs_map(Exchanged(link.query, n)) = query_pairs_map(link.query)
      BY <2>1, <2>3, <2>5, SameExchanged
    <3> QED BY <2>2, <3>1, SameParams
  <2>6. /\ [link EXCEPT !.query = Without(@, n)] = [link EXCEPT !.query = Without(link.query, n)]
        /\ [link EXCEPT !.query = Exchanged(@, n)]
             = [link EXCEPT !.query = Exchanged(link.query, n)]
    BY <2>2 DEF IsLink
  <2> QED BY <2>4, <2>5, <2>6
<1> QED BY <1>1, LinkInvariant, PTL

-----------------------------------------------------------------------------
\* The first check of a sequence that fails.
FailingIn(s) == {i \in DOMAIN s : s[i] # "none"}
FirstError(s) == s[Min(FailingIn(s))]

\* Where the first failing check stands decides the error.
LEMMA FirstErrorAt ==
  ASSUME NEW s \in Seq(CheckSet), NEW i \in DOMAIN s, s[i] # "none",
         \A j \in 1..i-1 : s[j] = "none"
  PROVE  ~Passes(s) /\ FirstError(s) = s[i]
<1> DEFINE S == FailingIn(s)
           m == Min(S)
<1>1. DOMAIN s = 1..Len(s) /\ Len(s) \in Nat /\ i \in Nat OBVIOUS
<1>2. S \subseteq Nat /\ i \in S /\ S # {} BY <1>1 DEF FailingIn
<1>3. m \in S /\ \A y \in S : m =< y BY <1>2, MinIsIn
<1>4. m \in DOMAIN s /\ s[m] # "none" BY <1>3 DEF FailingIn
<1> HIDE DEF S, m
<1>5. m =< i /\ m \in Nat BY <1>1, <1>2, <1>3, <1>4
<1>6. ~(m < i)
  <2>1. SUFFICES ASSUME m < i PROVE FALSE OBVIOUS
  <2>2. m \in 1..i-1 BY <1>1, <1>4, <2>1
  <2> QED BY <1>4, <2>2
<1>7. m = i BY <1>1, <1>5, <1>6
<1> QED BY <1>7 DEF Passes, FirstError, m, S

\* And there is such a place when the checks do not pass.
LEMMA FirstErrorIs ==
  ASSUME NEW s \in Seq(CheckSet), ~Passes(s)
  PROVE  \E i \in DOMAIN s : /\ s[i] # "none" /\ \A j \in 1..i-1 : s[j] = "none"
                             /\ FirstError(s) = s[i]
<1> DEFINE S == FailingIn(s)
           m == Min(S)
<1>1. DOMAIN s = 1..Len(s) /\ Len(s) \in Nat OBVIOUS
<1>2. S \subseteq Nat /\ S # {} BY <1>1 DEF FailingIn, Passes
<1>3. m \in S /\ \A y \in S : m =< y BY <1>2, MinIsIn
<1>4. m \in DOMAIN s /\ s[m] # "none" BY <1>3 DEF FailingIn
<1>5. FirstError(s) = s[m] BY DEF FirstError
<1>6. \A j \in DOMAIN s : s[j] # "none" => m =< j BY <1>3 DEF FailingIn
<1> HIDE DEF S, m
<1>7. ASSUME NEW j \in 1..m-1 PROVE s[j] = "none"
  <2>1. j \in DOMAIN s /\ ~(m =< j) BY <1>1, <1>4
  <2> QED BY <1>6, <2>1
<1> QED BY <1>4, <1>5, <1>7

\* In two parts the first error is that of the first part, unless this one passes.
LEMMA FirstErrorInParts ==
  ASSUME NEW s \in Seq(CheckSet), NEW t \in Seq(CheckSet)
  PROVE  /\ ~Passes(s) => FirstError(s \o t) = FirstError(s)
         /\ Passes(s) /\ ~Passes(t) => FirstError(s \o t) = FirstError(t)
<1>1. /\ s \o t \in Seq(CheckSet) /\ Len(s \o t) = Len(s) + Len(t)
      /\ Len(s) \in Nat /\ Len(t) \in Nat
      /\ DOMAIN s = 1..Len(s) /\ DOMAIN t = 1..Len(t)
      /\ DOMAIN (s \o t) = 1..(Len(s) + Len(t))
      /\ \A i \in 1..Len(s) : (s \o t)[i] = s[i]
      /\ \A i \in 1..Len(t) : (s \o t)[Len(s) + i] = t[i]
  OBVIOUS
<1> DEFINE u == s \o t
<1> HIDE DEF u
<1>2. /\ u \in Seq(CheckSet) /\ DOMAIN u = 1..(Len(s) + Len(t))
      /\ \A i \in 1..Len(s) : u[i] = s[i]
      /\ \A i \in 1..Len(t) : u[Len(s) + i] = t[i]
  BY <1>1 DEF u
<1>3. ASSUME ~Passes(s) PROVE FirstError(u) = FirstError(s)
  <2>1. PICK i \in DOMAIN s : /\ s[i] # "none" /\ \A j \in 1..i-1 : s[j] = "none"
                              /\ FirstError(s) = s[i]
    BY <1>3, FirstErrorIs
  <2>2. i \in DOMAIN u /\ u[i] = s[i] BY <1>1, <1>2
  <2>3. ASSUME NEW j \in 1..i-1 PROVE u[j] = "none"
    <3>1. j \in 1..Len(s) BY <1>1
    <3> QED BY <1>2, <2>1, <3>1
  <2> QED BY <1>2, <2>1, <2>2, <2>3, FirstErrorAt
<1>4. ASSUME Passes(s), ~Passes(t) PROVE FirstError(u) = FirstError(t)
  <2>1. PICK i \in DOMAIN t : /\ t[i] # "none" /\ \A j \in 1..i-1 : t[j] = "none"
                              /\ FirstError(t) = t[i]
    BY <1>4, FirstErrorIs
  <2> DEFINE k == Len(s) + i
  <2>2. k \in DOMAIN u /\ u[k] = t[i] BY <1>1, <1>2
  <2>3. ASSUME NEW j \in 1..k-1 PROVE u[j] = "none"
    <3>1. CASE j \in 1..Len(s)
      BY <1>1, <1>2, <1>4, <3>1 DEF Passes
    <3>2. CASE j \notin 1..Len(s)
      <4>1. j - Len(s) \in 1..i-1 /\ j - Len(s) \in 1..Len(t) /\ j = Len(s) + (j - Len(s))
        BY <1>1, <3>2
      <4>2. u[Len(s) + (j - Len(s))] = t[j - Len(s)] BY <1>2, <4>1
      <4> QED BY <2>1, <4>1, <4>2
    <3> QED BY <3>1, <3>2
  <2>4. u[k] # "none" BY <2>1, <2>2
  <2> HIDE DEF k
  <2>5. FirstError(u) = u[k] BY ONLY <1>2, <2>2, <2>3, <2>4, FirstErrorAt
  <2> QED BY <2>1, <2>2, <2>5
<1> QED BY <1>3, <1>4 DEF u

-----------------------------------------------------------------------------
\* What the two checks of a text find wrong with it.
TooBad(v, max) == v.len > max \/ v.chars = "control"

\* The error of a failing part, and what it says of the value that was checked.
LEMMA PairError ==
  ASSUME NEW v \in Value, NEW max \in Nat,
         NEW s, s = <<TooLong(v, max), reject_control_chars(v)>>, s \in Seq(CheckSet), ~Passes(s)
  PROVE  FirstError(s) = "InvalidUrl" /\ TooBad(v, max)
<1>1. PICK i \in DOMAIN s : s[i] # "none" /\ FirstError(s) = s[i] BY FirstErrorIs
<1>2. i = 1 \/ i = 2 BY <1>1
<1>3. s[1] = TooLong(v, max) /\ s[2] = reject_control_chars(v) OBVIOUS
<1> QED BY <1>1, <1>2, <1>3 DEF TooLong, reject_control_chars, Check, TooBad

\* The same for a secret, which must also be there.
LEMMA SecretError ==
  ASSUME NEW v \in Value, ~Passes(SecretChecks(v))
  PROVE  LET e == FirstError(SecretChecks(v)) IN
           \/ e = "MissingMtprotoSecret" /\ v.len = 0
           \/ e = "InvalidUrl" /\ TooBad(v, MAX_MTSECRET_LEN)
<1> DEFINE s == SecretChecks(v)
<1>1. s \in Seq(CheckSet) BY ValueChecks
<1>2. s = <<Check(v.len = 0, "MissingMtprotoSecret"), TooLong(v, MAX_MTSECRET_LEN),
            reject_control_chars(v)>>
  BY DEF SecretChecks
<1>3. /\ DOMAIN s = 1..3 /\ s[1] = Check(v.len = 0, "MissingMtprotoSecret")
      /\ s[2] = TooLong(v, MAX_MTSECRET_LEN) /\ s[3] = reject_control_chars(v)
  BY <1>2
<1> HIDE DEF s
<1>4. PICK i \in DOMAIN s : s[i] # "none" /\ FirstError(s) = s[i] BY <1>1, FirstErrorIs DEF s
<1>5. i = 1 \/ i = 2 \/ i = 3 BY <1>3
<1>6. \/ FirstError(s) = "MissingMtprotoSecret" /\ v.len = 0
      \/ FirstError(s) = "InvalidUrl" /\ TooBad(v, MAX_MTSECRET_LEN)
  BY <1>3, <1>4, <1>5 DEF TooLong, reject_control_chars, Check, TooBad
<1> QED BY <1>6 DEF s

\* Numbers beyond the two bounds a port is checked against.
LEMMA BeyondPorts ==
  ASSUME NEW v \in Value
  PROVE  /\ v.number \notin 0..MAX_U16 => v.number < 1 \/ v.number > 65535
         /\ v.number = 0 => v.number < 1 \/ v.number > 65535
         /\ v.len > MAX_PORT_QUERY_BYTES => v.len > 16
<1>1. v.number \in Int BY DEF Value, NaN
<1>2. MAX_U16 \in Nat BY DEF MAX_U16
<1>3. v.number \notin 0..MAX_U16 => v.number < 0 \/ v.number > MAX_U16
  BY ONLY <1>1, <1>2
<1>4. v.number < 0 => v.number < 1
  BY ONLY <1>1
<1>5. v.number > MAX_U16 => v.number > 65535
  BY ONLY <1>1 DEF MAX_U16
<1>6. v.len > MAX_PORT_QUERY_BYTES => v.len > 16
  BY DEF MAX_PORT_QUERY_BYTES
<1>7. v.number = 0 => v.number < 1
  BY ONLY <1>1
<1> QED BY <1>3, <1>4, <1>5, <1>6, <1>7

\* What makes a port that is there unusable.
BadPort(v) == v.len > 16 \/ v.number < 1 \/ v.number > 65535

\* The error of a port that is not good, and what is wrong with it.
LEMMA PortError ==
  ASSUME NEW v \in Value, ~Passes(PortChecks(v))
  PROVE  \/ FirstError(PortChecks(v)) = "MissingPort" /\ v.len = 0
         \/ FirstError(PortChecks(v)) = "InvalidPort" /\ v.len # 0 /\ BadPort(v)
<1> DEFINE s == PortChecks(v)
           a == Check(v.len = 0, "MissingPort")
           b == Check(v.len > MAX_PORT_QUERY_BYTES, "InvalidPort")
           c == Check(v.number \notin 0..MAX_U16, "InvalidPort")
           d == Check(v.number = 0, "InvalidPort")
<1>1. s \in Seq(CheckSet) /\ ~Passes(s) BY ValueChecks
<1>2. s = <<a, b, c, d>> BY DEF PortChecks
<1>3. a # "none" => a = "MissingPort" /\ v.len = 0 BY DEF Check
<1>4. a = "none" => v.len # 0 BY DEF Check
<1>5. b # "none" => b = "InvalidPort" /\ v.len > MAX_PORT_QUERY_BYTES BY DEF Check
<1>6. c # "none" => c = "InvalidPort" /\ v.number \notin 0..MAX_U16 BY DEF Check
<1>7. d # "none" => d = "InvalidPort" /\ v.number = 0 BY DEF Check
<1>8. /\ b # "none" => b = "InvalidPort" /\ BadPort(v)
      /\ c # "none" => c = "InvalidPort" /\ BadPort(v)
      /\ d # "none" => d = "InvalidPort" /\ BadPort(v)
  <2> HIDE DEF a, b, c, d
  <2> QED BY <1>5, <1>6, <1>7, BeyondPorts DEF BadPort
<1> HIDE DEF s, a, b, c, d
<1>9. DOMAIN s = 1..4 /\ s[1] = a /\ s[2] = b /\ s[3] = c /\ s[4] = d
  BY ONLY <1>2
<1>10. PICK i \in DOMAIN s : /\ s[i] # "none" /\ \A j \in 1..i-1 : s[j] = "none"
                             /\ FirstError(s) = s[i]
  BY ONLY <1>1, FirstErrorIs
<1>11. CASE i = 1
  <2>1. FirstError(s) = "MissingPort" /\ v.len = 0
    BY ONLY <1>3, <1>9, <1>10, <1>11
  <2> QED BY <2>1 DEF s
<1>12. CASE i # 1
  <2>1. i \in {2, 3, 4} /\ 1 \in 1..i-1 BY ONLY <1>9, <1>10, <1>12
  <2>2. v.len # 0 BY ONLY <1>4, <1>9, <1>10, <2>1
  <2>3. FirstError(s) = "InvalidPort" /\ BadPort(v)
    BY ONLY <1>8, <1>9, <1>10, <2>1
  <2> QED BY <2>2, <2>3 DEF s
<1> QED BY <1>11, <1>12

\* What a rejected link has wrong with it.
Cause(l, e) ==
  LET p == query_pairs_map(l.query) IN
    \/ e = "InvalidUrl" /\ ~l.parses
    \/ e = "UnsupportedFormat" /\ classify(l) = "unsupported"
    \/ e = "MissingServer" /\ p["server"].len = 0
    \/ e = "MissingPort" /\ p["port"].len = 0
    \/ /\ e = "InvalidPort" /\ p["port"].len # 0
       /\ BadPort(p["port"])
    \/ e = "InvalidUrl" /\ TooBad(p["server"], MAX_SERVER_LEN)
    \/ e = "MissingMtprotoSecret" /\ classify(l) = "Mtproto" /\ p["secret"].len = 0
    \/ e = "InvalidUrl" /\ classify(l) = "Mtproto" /\ TooBad(p["secret"], MAX_MTSECRET_LEN)
    \/ /\ e = "InvalidUrl" /\ classify(l) # "Mtproto"
       /\ (TooBad(p["user"], MAX_SOCKS_CRED_LEN) \/ TooBad(p["pass"], MAX_SOCKS_CRED_LEN))

\* The error of the first failing check has a cause.
LEMMA RejectionMeans ==
  ASSUME NEW l, IsLink(l), ~Accepted(l)
  PROVE  \E e : parse_proxy_link(l) = Err(e) /\ Cause(l, e)
<1> DEFINE p == query_pairs_map(l.query)
           kind == classify(l)
           A == << Check(~l.parses, "InvalidUrl"),
                   Check(kind = "unsupported", "UnsupportedFormat"),
                   Check(p["server"].len = 0, "MissingServer") >>
           B == PortChecks(p["port"])
           C == << TooLong(p["server"], MAX_SERVER_LEN), reject_control_chars(p["server"]) >>
           M == SecretChecks(p["secret"])
           U == CredentialChecks(p["user"])
           W == CredentialChecks(p["pass"])
           D == IF kind = "Mtproto" THEN M ELSE U \o W
<1>1. p["server"] \in Value /\ p["port"] \in Value /\ p["secret"] \in Value
      /\ p["user"] \in Value /\ p["pass"] \in Value
  BY ParamIsValue DEF IsLink, Names
<1>2. Checks(l) = ((A \o B) \o C) \o D BY DEF Checks
<1>3. Checks(l) \in Seq(CheckSet) /\ ~Passes(Checks(l)) BY ChecksMean
<1>4. parse_proxy_link(l) = Err(FirstError(Checks(l)))
  BY <1>3 DEF parse_proxy_link, Failing, FirstError, FailingIn, Passes
<1> HIDE DEF p, kind
<1>5. A \in Seq(CheckSet)
      /\ (~Passes(A) => LET e == FirstError(A) IN
            \/ e = "InvalidUrl" /\ ~l.parses
            \/ e = "UnsupportedFormat" /\ kind = "unsupported"
            \/ e = "MissingServer" /\ p["server"].len = 0)
  <2> DEFINE x == Check(~l.parses, "InvalidUrl")
             y == Check(kind = "unsupported", "UnsupportedFormat")
             z == Check(p["server"].len = 0, "MissingServer")
  <2>1. x \in CheckSet /\ (x # "none" => x = "InvalidUrl" /\ ~l.parses) BY CheckIs DEF Errors, Check
  <2>2. y \in CheckSet /\ (y # "none" => y = "UnsupportedFormat" /\ kind = "unsupported")
    BY CheckIs DEF Errors, Check
  <2>3. z \in CheckSet /\ (z # "none" => z = "MissingServer" /\ p["server"].len = 0)
    BY CheckIs DEF Errors, Check
  <2>4. A = <<x, y, z>> OBVIOUS
  <2> HIDE DEF x, y, z, A
  <2>5. A \in Seq(CheckSet) /\ DOMAIN A = 1..3 /\ A[1] = x /\ A[2] = y /\ A[3] = z
    BY <2>1, <2>2, <2>3, <2>4
  <2>6. ASSUME ~Passes(A)
        PROVE  LET e == FirstError(A) IN
            \/ e = "InvalidUrl" /\ ~l.parses
            \/ e = "UnsupportedFormat" /\ kind = "unsupported"
            \/ e = "MissingServer" /\ p["server"].len = 0
    <3>1. PICK i \in DOMAIN A : A[i] # "none" /\ FirstError(A) = A[i] BY <2>5, <2>6, FirstErrorIs
    <3>2. i = 1 \/ i = 2 \/ i = 3 BY <2>5
    <3> QED BY <2>1, <2>2, <2>3, <2>5, <3>1, <3>2
  <2> QED BY <2>5, <2>6
<1>6. B \in Seq(CheckSet)
      /\ (~Passes(B) =>
            \/ FirstError(B) = "MissingPort" /\ p["port"].len = 0
            \/ FirstError(B) = "InvalidPort" /\ p["port"].len # 0
               /\ BadPort(p["port"]))
  BY <1>1, ValueChecks, PortError
<1>7. C \in Seq(CheckSet)
      /\ (~Passes(C) => FirstError(C) = "InvalidUrl" /\ TooBad(p["server"], MAX_SERVER_LEN))
  BY <1>1, ServerChecks, PairError, LimitsAreNatural
<1>8. M \in Seq(CheckSet)
      /\ (~Passes(M) =>
            \/ FirstError(M) = "MissingMtprotoSecret" /\ p["secret"].len = 0
            \/ FirstError(M) = "InvalidUrl" /\ TooBad(p["secret"], MAX_MTSECRET_LEN))
  BY <1>1, ValueChecks, SecretError
<1>9. U \in Seq(CheckSet)
      /\ (~Passes(U) => FirstError(U) = "InvalidUrl" /\ TooBad(p["user"], MAX_SOCKS_CRED_LEN))
  BY <1>1, ValueChecks, PairError, LimitsAreNatural DEF CredentialChecks
<1>10. W \in Seq(CheckSet)
       /\ (~Passes(W) => FirstError(W) = "InvalidUrl" /\ TooBad(p["pass"], MAX_SOCKS_CRED_LEN))
  BY <1>1, ValueChecks, PairError, LimitsAreNatural DEF CredentialChecks
<1> HIDE DEF A, B, C, M, U, W
<1>11. /\ U \o W \in Seq(CheckSet)
       /\ ~Passes(U \o W) => /\ FirstError(U \o W) = "InvalidUrl"
                             /\ \/ TooBad(p["user"], MAX_SOCKS_CRED_LEN)
                                \/ TooBad(p["pass"], MAX_SOCKS_CRED_LEN)
  <2>1. U \o W \in Seq(CheckSet) /\ (Passes(U \o W) <=> Passes(U) /\ Passes(W))
    BY <1>9, <1>10, PassesInParts
  <2>2. /\ ~Passes(U) => FirstError(U \o W) = FirstError(U)
        /\ Passes(U) /\ ~Passes(W) => FirstError(U \o W) = FirstError(W)
    BY <1>9, <1>10, FirstErrorInParts
  <2> QED BY <1>9, <1>10, <2>1, <2>2
<1>12. /\ D \in Seq(CheckSet)
       /\ ~Passes(D) => IF kind = "Mtproto" THEN ~Passes(M) /\ FirstError(D) = FirstError(M)
                        ELSE ~Passes(U \o W) /\ FirstError(D) = FirstError(U \o W)
  BY <1>8, <1>11
<1> HIDE DEF D
<1>13. /\ A \o B \in Seq(CheckSet) /\ (Passes(A \o B) <=> Passes(A) /\ Passes(B))
       /\ ~Passes(A) => FirstError(A \o B) = FirstError(A)
       /\ Passes(A) /\ ~Passes(B) => FirstError(A \o B) = FirstError(B)
  BY <1>5, <1>6, PassesInParts, FirstErrorInParts
<1> DEFINE AB == A \o B
           ABC == AB \o C
<1> HIDE DEF AB
<1>14. /\ AB \in Seq(CheckSet) /\ (Passes(AB) <=> Passes(A) /\ Passes(B))
       /\ ~Passes(A) => FirstError(AB) = FirstError(A)
       /\ Passes(A) /\ ~Passes(B) => FirstError(AB) = FirstError(B)
  BY <1>13 DEF AB
<1>15. /\ ABC \in Seq(CheckSet) /\ (Passes(ABC) <=> Passes(AB) /\ Passes(C))
       /\ ~Passes(AB) => FirstError(ABC) = FirstError(AB)
       /\ Passes(AB) /\ ~Passes(C) => FirstError(ABC) = FirstError(C)
  BY <1>7, <1>14, PassesInParts, FirstErrorInParts
<1> HIDE DEF ABC
<1>16. Checks(l) = ABC \o D BY <1>2 DEF ABC, AB
<1>17. /\ Passes(Checks(l)) <=> Passes(ABC) /\ Passes(D)
       /\ ~Passes(ABC) => FirstError(Checks(l)) = FirstError(ABC)
       /\ Passes(ABC) /\ ~Passes(D) => FirstError(Checks(l)) = FirstError(D)
  BY <1>12, <1>15, <1>16, PassesInParts, FirstErrorInParts
<1> DEFINE e == FirstError(Checks(l))
<1>18. \/ ~Passes(A) /\ e = FirstError(A)
       \/ ~Passes(B) /\ e = FirstError(B)
       \/ ~Passes(C) /\ e = FirstError(C)
       \/ ~Passes(D) /\ e = FirstError(D)
  BY <1>3, <1>14, <1>15, <1>17
<1> HIDE DEF e
<1>19. Cause(l, e)
  <2>1. CASE ~Passes(A) /\ e = FirstError(A) BY <1>5, <2>1 DEF Cause, p, kind
  <2>2. CASE ~Passes(B) /\ e = FirstError(B) BY <1>6, <2>2 DEF Cause, p, kind
  <2>3. CASE ~Passes(C) /\ e = FirstError(C) BY <1>7, <2>3 DEF Cause, p, kind
  <2>4. CASE ~Passes(D) /\ e = FirstError(D)
    <3>1. CASE kind = "Mtproto" BY <1>8, <1>12, <2>4, <3>1 DEF Cause, p, kind
    <3>2. CASE kind # "Mtproto" BY <1>11, <1>12, <2>4, <3>2 DEF Cause, p, kind
    <3> QED BY <3>1, <3>2
  <2> QED BY <1>18, <2>1, <2>2, <2>3, <2>4
<1> QED BY <1>4, <1>19 DEF e

-----------------------------------------------------------------------------
\* An empty parameter is missing, or empty where it stands first under its name.
LEMMA LacksIs ==
  ASSUME IsLink(link), NEW name \in Names, query_pairs_map(link.query)[name].len = 0
  PROVE  Lacks(name)
<1>1. link.query \in Seq(Pair) BY DEF IsLink
<1>2. SUFFICES ASSUME NEW i \in DOMAIN link.query, FirstUnder(name, i)
               PROVE  link.query[i].value.len = 0
  BY DEF Lacks
<1>3. link.query[i].name = name /\ \A j \in 1..i-1 : link.query[j].name # name
  BY <1>2 DEF FirstUnder, Places
<1>4. query_pairs_map(link.query)[name] = link.query[i].value
  BY ONLY <1>1, <1>2, <1>3, ParamAt, name \in Names
<1> QED BY <1>4

\* A parameter that is not as an empty one stands somewhere first under its name.
LEMMA StandsFirst ==
  ASSUME IsLink(link), NEW name \in Names, query_pairs_map(link.query)[name] # Empty
  PROVE  \E i \in DOMAIN link.query : /\ FirstUnder(name, i)
           /\ link.query[i].value = query_pairs_map(link.query)[name]
<1>1. link.query \in Seq(Pair) BY DEF IsLink
<1>2. \E i \in DOMAIN link.query : link.query[i].name = name
  BY <1>1, ParamIsFirst
<1>3. PICK i \in DOMAIN link.query :
        link.query[i].name = name /\ \A j \in 1..i-1 : link.query[j].name # name
  BY <1>1, <1>2, ParamIsFirst
<1>4. query_pairs_map(link.query)[name] = link.query[i].value
  BY ONLY <1>1, <1>3, ParamAt, name \in Names
<1>5. FirstUnder(name, i) BY <1>3 DEF FirstUnder, Places
<1> QED BY <1>4, <1>5

\* A text beyond its bounds stands first under its name.
LEMMA DirtyIs ==
  ASSUME IsLink(link), NEW name \in Names, NEW max \in Nat,
         TooBad(query_pairs_map(link.query)[name], max)
  PROVE  Dirty(name, max)
<1>1. query_pairs_map(link.query)[name] # Empty
  <2>1. Empty.len = 0 /\ Empty.chars = "plain" BY DEF Empty
  <2>2. ~(0 > max) OBVIOUS
  <2> QED BY <2>1, <2>2 DEF TooBad
<1>2. PICK i \in DOMAIN link.query : /\ FirstUnder(name, i)
        /\ link.query[i].value = query_pairs_map(link.query)[name]
  BY <1>1, StandsFirst
<1>3. link.query[i].value.len > max \/ link.query[i].value.chars = "control"
  BY <1>2 DEF TooBad
<1> QED BY <1>2, <1>3 DEF Dirty, Has

-----------------------------------------------------------------------------
\* The kind of a link by the words it bears.
LEMMA KindMeans ==
  ASSUME NEW l
  PROVE  /\ classify(l) = "Mtproto" <=> Named(l, "proxy")
         /\ classify(l) = "unsupported" => ~Named(l, "proxy") /\ ~Named(l, "socks")
<1>1. CASE Named(l, "proxy") BY <1>1 DEF classify
<1>2. CASE ~Named(l, "proxy") /\ Named(l, "socks") BY <1>2 DEF classify
<1>3. CASE ~Named(l, "proxy") /\ ~Named(l, "socks") BY <1>3 DEF classify
<1> QED BY <1>1, <1>2, <1>3

\* RejectionHasCause (parse_proxy_link, proxy_link.rs:86-154): for every link, the error
\* it is rejected with is about something that is wrong with it.
THEOREM RejectionsHaveCause == Spec => []RejectionHasCause
<1>1. LinkInv => RejectionHasCause
  <2> SUFFICES ASSUME LinkInv, result.status = "error" PROVE RejectionHasCause
    BY DEF RejectionHasCause
  <2> DEFINE p == query_pairs_map(link.query)
  <2>1. IsLink(link) /\ result = parse_proxy_link(link)
    BY DEF LinkInv, Unparsed
  <2>2. ~Accepted(link)
    BY <2>1, ParseMeans DEF Ok
  <2>3. PICK e : parse_proxy_link(link) = Err(e) /\ Cause(link, e)
    BY <2>1, <2>2, RejectionMeans
  <2>4. result.error = e
    BY <2>1, <2>3 DEF Err
  <2>5. /\ "server" \in Names /\ "port" \in Names /\ "secret" \in Names
        /\ "user" \in Names /\ "pass" \in Names
    BY DEF Names
  <2>6. /\ classify(link) = "Mtproto" <=> Named(link, "proxy")
        /\ classify(link) = "unsupported" => ~Named(link, "proxy") /\ ~Named(link, "socks")
    BY KindMeans
  <2>7. e = "InvalidUrl" /\ ~link.parses => RejectionHasCause
    BY <2>4 DEF RejectionHasCause, Grounds
  <2>15. e = "UnsupportedFormat" /\ classify(link) = "unsupported" => RejectionHasCause
    <3>1. classify(link) = "unsupported" => \A word \in {"proxy", "socks"} : ~Named(link, word)
      BY <2>6
    <3> QED BY <2>4, <3>1 DEF RejectionHasCause, Grounds
  <2>8. e = "MissingServer" /\ p["server"].len = 0 => RejectionHasCause
    BY <2>1, <2>4, <2>5, LacksIs DEF RejectionHasCause, Grounds
  <2>9. e = "MissingPort" /\ p["port"].len = 0 => RejectionHasCause
    BY <2>1, <2>4, <2>5, LacksIs DEF RejectionHasCause, Grounds
  <2>10. ASSUME e = "InvalidPort", p["port"].len # 0, BadPort(p["port"])
         PROVE  RejectionHasCause
    <3>1. p["port"] # Empty BY <2>10 DEF Empty
    <3>2. PICK i \in DOMAIN link.query :
            FirstUnder("port", i) /\ link.query[i].value = p["port"]
      BY <2>1, <2>5, <3>1, StandsFirst
    <3>3. BadPort(link.query[i].value) BY <2>10, <3>2
    <3>4. Has("port", LAMBDA v : v.len > 16 \/ v.number < 1 \/ v.number > 65535)
      BY <3>2, <3>3 DEF Has, BadPort
    <3> QED BY <2>4, <2>10, <3>4 DEF RejectionHasCause, Grounds
  <2>11. e = "InvalidUrl" /\ TooBad(p["server"], MAX_SERVER_LEN) => RejectionHasCause
    <3>1. TooBad(p["server"], MAX_SERVER_LEN) => Dirty("server", 512)
      BY <2>1, <2>5, DirtyIs DEF MAX_SERVER_LEN
    <3> QED BY <2>4, <3>1 DEF RejectionHasCause, Grounds
  <2>12. e = "MissingMtprotoSecret" /\ classify(link) = "Mtproto" /\ p["secret"].len = 0
           => RejectionHasCause
    BY <2>1, <2>4, <2>5, <2>6, LacksIs DEF RejectionHasCause, Grounds
  <2>13. e = "InvalidUrl" /\ classify(link) = "Mtproto"
           /\ TooBad(p["secret"], MAX_MTSECRET_LEN) => RejectionHasCause
    <3>1. TooBad(p["secret"], MAX_MTSECRET_LEN) => Dirty("secret", 8192)
      BY <2>1, <2>5, DirtyIs DEF MAX_MTSECRET_LEN
    <3> QED BY <2>4, <2>6, <3>1 DEF RejectionHasCause, Grounds
  <2>14. e = "InvalidUrl" /\ classify(link) # "Mtproto"
           /\ (TooBad(p["user"], MAX_SOCKS_CRED_LEN) \/ TooBad(p["pass"], MAX_SOCKS_CRED_LEN))
           => RejectionHasCause
    <3>1. /\ TooBad(p["user"], MAX_SOCKS_CRED_LEN) => Dirty("user", 2048)
          /\ TooBad(p["pass"], MAX_SOCKS_CRED_LEN) => Dirty("pass", 2048)
      BY <2>1, <2>5, DirtyIs DEF MAX_SOCKS_CRED_LEN
    <3> QED BY <2>4, <2>6, <3>1 DEF RejectionHasCause, Grounds
  <2> HIDE DEF p
  <2> QED BY <2>3, <2>7, <2>8, <2>9, <2>10, <2>11, <2>12, <2>13, <2>14, <2>15
         DEF Cause, p
<1> QED BY <1>1, LinkInvariant, PTL
=============================================================================
