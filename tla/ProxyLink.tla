----------------------------- MODULE ProxyLink -----------------------------
(***************************************************************************)
(* parse_proxy_link and redact_sensitive_query_in_link                     *)
(* (src/proxy_link.rs): a link is turned into the proxy TDLib is to use,   *)
(* and into the text that --verbose shows of it.                           *)
(*                                                                         *)
(* Url::parse is external: a link is what it splits into.  Of a value only *)
(* its length, its control characters and what str::parse::<u16> makes of  *)
(* it matter.  The scheme and, for the two names, the host are compared    *)
(* without regard to case; they stand here in lower case.                  *)
(***************************************************************************)
EXTENDS Integers, Sequences, FiniteSetsExt

CONSTANT Links    \* the links a user may give

MAX_SERVER_LEN == 512
MAX_MTSECRET_LEN == 8192
MAX_SOCKS_CRED_LEN == 2048
MAX_PORT_QUERY_BYTES == 16
MAX_U16 == 65535

Names == {"server", "port", "secret", "user", "pass", "password", "token"}
NaN == -1    \* not an unsigned number, or one beyond every width
Value == [len : Nat, chars : {"plain", "control"}, number : Nat \cup {NaN}]
Pair == [name : Names, capital : BOOLEAN, value : Value]

\* A parameter that is missing is to every reader what an empty one is.
Empty == [len |-> 0, chars |-> "plain", number |-> NaN]
Redacted == [len |-> 10, chars |-> "plain", number |-> NaN]

IsLink(link) ==
  link \in [parses : BOOLEAN, userinfo : BOOLEAN,
            scheme : STRING, host : STRING, path : STRING, query : Seq(Pair)]
ASSUME LinksAssumption == \A link \in Links : IsLink(link)

-----------------------------------------------------------------------------
(* The kind of the proxy, and the parameters.                              *)

Named(link, word) ==
  \/ link.scheme = "tg" /\ word \in {link.host, link.path}
  \/ /\ link.scheme \in {"http", "https"}
     /\ link.host \in {"t.me", "telegram.me"}
     /\ link.path = word

classify(link) ==
  IF Named(link, "proxy") THEN "Mtproto"
  ELSE IF Named(link, "socks") THEN "Socks5" ELSE "unsupported"

Places(query, name) == {i \in DOMAIN query : query[i].name = name}

\* Mistaken form: the last occurrence wins.
last_wins(query) ==
  [name \in Names |-> IF Places(query, name) = {} THEN Empty
                      ELSE query[Max(Places(query, name))].value]

query_pairs_map(query) ==
  [name \in Names |-> IF Places(query, name) = {} THEN Empty
                      ELSE query[Min(Places(query, name))].value]

-----------------------------------------------------------------------------
(* The parser: the first check that fails gives the error.                 *)

Check(fails, error) == IF fails THEN error ELSE "none"
\* Mistaken form: the limit itself is too long.
too_long_at_limit(value, max) == Check(value.len >= max, "InvalidUrl")
TooLong(value, max) == Check(value.len > max, "InvalidUrl")
reject_control_chars(value) == Check(value.chars = "control", "InvalidUrl")

\* Mistaken forms: zero is a port; the port is parsed as a wider number.
port_may_be_zero(value) ==
  << Check(value.len = 0, "MissingPort"),
     Check(value.len > MAX_PORT_QUERY_BYTES, "InvalidPort"),
     Check(value.number \notin 0..MAX_U16, "InvalidPort") >>
port_is_u32(value) ==
  << Check(value.len = 0, "MissingPort"),
     Check(value.len > MAX_PORT_QUERY_BYTES, "InvalidPort"),
     Check(value.number = NaN, "InvalidPort"),
     Check(value.number = 0, "InvalidPort") >>

PortChecks(value) ==
  << Check(value.len = 0, "MissingPort"),
     Check(value.len > MAX_PORT_QUERY_BYTES, "InvalidPort"),
     Check(value.number \notin 0..MAX_U16, "InvalidPort"),
     Check(value.number = 0, "InvalidPort") >>

SecretChecks(value) ==
  << Check(value.len = 0, "MissingMtprotoSecret"),
     TooLong(value, MAX_MTSECRET_LEN), reject_control_chars(value) >>

CredentialChecks(value) ==
  << TooLong(value, MAX_SOCKS_CRED_LEN), reject_control_chars(value) >>

Checks(link) ==
  LET kind == classify(link)
      pairs == query_pairs_map(link.query)
  IN  << Check(~link.parses, "InvalidUrl"),
         Check(kind = "unsupported", "UnsupportedFormat"),
         Check(pairs["server"].len = 0, "MissingServer") >>
      \o PortChecks(pairs["port"])
      \o << TooLong(pairs["server"], MAX_SERVER_LEN),
            reject_control_chars(pairs["server"]) >>
      \o IF kind = "Mtproto" THEN SecretChecks(pairs["secret"])
         ELSE CredentialChecks(pairs["user"]) \o CredentialChecks(pairs["pass"])

Failing(link) == {i \in DOMAIN Checks(link) : Checks(link)[i] # "none"}

Config(link) ==
  LET pairs == query_pairs_map(link.query)
      OnlyFor(kind, name) == IF classify(link) = kind THEN pairs[name] ELSE Empty
  IN  [kind |-> classify(link), server |-> pairs["server"],
       port |-> pairs["port"].number,
       mtproto_secret |-> OnlyFor("Mtproto", "secret"),
       socks_username |-> OnlyFor("Socks5", "user"),
       socks_password |-> OnlyFor("Socks5", "pass")]

Unparsed == [status |-> "unparsed"]
Err(error) == [status |-> "error", error |-> error]
Ok(config) == [status |-> "ok", config |-> config]

parse_proxy_link(link) ==
  IF Failing(link) = {} THEN Ok(Config(link))
  ELSE Err(Checks(link)[Min(Failing(link))])

Credentials == {"secret", "pass", "password", "token"}

\* Mistaken form: a key written with capitals is not recognised.
redact_exact_case(link) ==
  [link EXCEPT
     !.userinfo = FALSE,
     !.query = [i \in DOMAIN link.query |->
                  IF /\ link.query[i].name \in Credentials
                     /\ ~link.query[i].capital
                  THEN [link.query[i] EXCEPT !.value = Redacted]
                  ELSE link.query[i]]]

redact_sensitive_query_in_link(link) ==
  [link EXCEPT
     !.userinfo = FALSE,
     !.query = [i \in DOMAIN link.query |->
                  IF link.query[i].name \in Credentials
                  THEN [link.query[i] EXCEPT !.value = Redacted]
                  ELSE link.query[i]]]

-----------------------------------------------------------------------------
VARIABLES
  link,      \* the link given
  result,    \* what parse_proxy_link made of it
  shown      \* the link as --verbose prints it
vars == <<link, result, shown>>

Init == link \in Links /\ result = Unparsed /\ shown = {}

Parse ==
  /\ result.status = "unparsed"
  /\ result' = parse_proxy_link(link)
  /\ UNCHANGED <<link, shown>>

\* Only a link that was accepted is printed (render needs its ProxyConfig).
Show ==
  /\ result.status = "ok" /\ shown = {}
  /\ shown' = {redact_sensitive_query_in_link(link)}
  /\ UNCHANGED <<link, result>>

Next == Parse \/ Show
Spec == Init /\ [][Next]_vars

-----------------------------------------------------------------------------
Errors == {"InvalidUrl", "UnsupportedFormat", "MissingServer", "MissingPort",
           "InvalidPort", "MissingMtprotoSecret"}

Configs == [kind : {"Mtproto", "Socks5"}, server : Value, port : 0..MAX_U16,
            mtproto_secret : Value, socks_username : Value, socks_password : Value]

\* A result is an error of the parser or a configuration with a u16 port, and only
\* an accepted link is shown (ProxyConfig and ParseError, proxy_link.rs:31-68).
TypeOK ==
  /\ IsLink(link)
  /\ \/ result = Unparsed
     \/ \E error \in Errors : result = Err(error)
     \/ result.status = "ok" /\ result = Ok(result.config) /\ result.config \in Configs
  /\ shown # {} => result.status = "ok"

\* An accepted link gives a proxy TDLib can be asked for: a port that fits its
\* type and is not zero, a server and (for MTProto only) a secret that are there,
\* and no text beyond its limit or with control characters; what belongs to the
\* other kind of proxy is absent (proxy_link.rs:86-154).
Clean(value, min, max) == value.len \in min..max /\ value.chars = "plain"
ConfigIsUsable ==
  result.status = "ok" =>
    LET c == result.config IN
      /\ c.port \in 1..MAX_U16
      /\ Clean(c.server, 1, MAX_SERVER_LEN)
      /\ \/ /\ c.kind = "Mtproto"
            /\ Clean(c.mtproto_secret, 1, MAX_MTSECRET_LEN)
            /\ c.socks_username = Empty /\ c.socks_password = Empty
         \/ /\ c.kind = "Socks5"
            /\ c.mtproto_secret = Empty
            /\ Clean(c.socks_username, 0, MAX_SOCKS_CRED_LEN)
            /\ Clean(c.socks_password, 0, MAX_SOCKS_CRED_LEN)

\* A link is rejected only for something that is wrong with it: the parameter the
\* error blames is missing, empty, or (where it stands first under its name)
\* out of bounds; the parameters of the other kind are never a reason.
FirstUnder(name, i) ==
  i \in Places(link.query, name) /\ \A j \in 1..i-1 : link.query[j].name # name
Lacks(name) ==
  \A i \in DOMAIN link.query : FirstUnder(name, i) => link.query[i].value.len = 0
Has(name, Bad(_)) ==
  \E i \in DOMAIN link.query : FirstUnder(name, i) /\ Bad(link.query[i].value)
Dirty(name, max) == Has(name, LAMBDA v : v.len > max \/ v.chars = "control")
Grounds(error) ==
  CASE error = "UnsupportedFormat" ->
         \A word \in {"proxy", "socks"} : ~Named(link, word)
    [] error = "MissingServer" -> Lacks("server")
    [] error = "MissingPort" -> Lacks("port")
    [] error = "InvalidPort" ->
         Has("port", LAMBDA v : v.len > 16 \/ v.number < 1 \/ v.number > 65535)
    [] error = "MissingMtprotoSecret" ->
         Named(link, "proxy") /\ Lacks("secret")
    [] error = "InvalidUrl" ->
         \/ ~link.parses
         \/ Dirty("server", 512)
         \/ Named(link, "proxy") /\ Dirty("secret", 8192)
         \/ ~Named(link, "proxy") /\ (Dirty("user", 2048) \/ Dirty("pass", 2048))
RejectionHasCause == result.status = "error" => Grounds(result.error)

\* The first occurrence wins, and nothing else of the order matters: without a
\* repeated parameter, or with two different neighbours exchanged, the link
\* means the same (proxy_link.rs:187-195).
Without(s, n) == [i \in 1..Len(s)-1 |-> IF i < n THEN s[i] ELSE s[i + 1]]
Exchanged(s, n) == [s EXCEPT ![n] = s[n + 1], ![n + 1] = s[n]]
OnlyFirstCounts ==
  result.status # "unparsed" =>
    \A n \in DOMAIN link.query :
      /\ ~FirstUnder(link.query[n].name, n)
           => parse_proxy_link([link EXCEPT !.query = Without(@, n)]) = result
      /\ n + 1 \in DOMAIN link.query /\ link.query[n].name # link.query[n + 1].name
           => parse_proxy_link([link EXCEPT !.query = Exchanged(@, n)]) = result

\* What --verbose shows is this proxy without its credentials: the shown link
\* parses to the same kind, server, port and user, and where the parser would find
\* a secret or a password in it, it finds the placeholder (proxy_link.rs:197-224,
\* README.md:27).
DisplayIsThisProxyRedacted ==
  \A display \in shown :
    LET c == result.config
        d == parse_proxy_link(display).config
    IN  /\ parse_proxy_link(display).status = "ok"
        /\ <<d.kind, d.server, d.port, d.socks_username>>
             = <<c.kind, c.server, c.port, c.socks_username>>
        /\ d.mtproto_secret \in {Empty, Redacted}
        /\ d.socks_password \in {Empty, Redacted}
        /\ ~display.userinfo

=============================================================================
