---------------------------- MODULE MCProxyLink ----------------------------
(* Links for TLC: every way a link may name its kind, with one good query;   *)
(* and, for each kind, every combination of parameters at their bounds, with *)
(* one of them repeated in front or at the end.                              *)
EXTENDS ProxyLink

Text(n) == [len |-> n, chars |-> "plain", number |-> NaN]
Dirt(n) == [len |-> n, chars |-> "control", number |-> NaN]
Digits(n, k) == [len |-> n, chars |-> "plain", number |-> k]
Param(name, value) == [name |-> name, capital |-> FALSE, value |-> value]

\* "0", "1", "65535", "65536", sixteen and seventeen digits ending in 443, a word.
Ports == {Empty, Digits(1, 0), Digits(1, 1), Digits(5, 65535), Digits(5, 65536),
          Digits(16, 443), Digits(17, 443), Text(4)}
Bounded(max) == {Empty, Text(max), Text(max + 1), Dirt(8)}

Good == <<Param("server", Text(7)), Param("port", Digits(3, 443)),
          Param("secret", Text(32)), Param("user", Text(5)), Param("pass", Text(6))>>

Mtproto == {<<Param("server", s), Param("port", p), Param("secret", c)>> :
              s \in Bounded(512), p \in Ports, c \in Bounded(8192)}
Socks5 == {<<Param("server", s), Param("port", p), Param("user", u), Param("pass", c)>> :
              s \in {Text(512), Text(513)}, p \in {Digits(5, 65535), Text(4)},
              u \in Bounded(2048), c \in Bounded(2048)}
Repeats == {[name |-> Good[i].name, capital |-> c, value |-> Text(9)] :
              i \in DOMAIN Good, c \in BOOLEAN}
           \cup {[name |-> "token", capital |-> TRUE, value |-> Text(9)]}

Swap(q) == [q EXCEPT ![1] = q[2], ![2] = q[1]]
Queries(qs) == qs \cup UNION {{q \o <<r>>, <<r>> \o q, Swap(q)} : q \in qs, r \in Repeats}

Link(s, h, p, q) == [parses |-> TRUE, userinfo |-> TRUE,
                     scheme |-> s, host |-> h, path |-> p, query |-> q]

MCLinks ==
  {Link(s, h, p, Good) : s \in {"tg", "http", "https", "ftp"},
                         h \in {"", "proxy", "socks", "t.me", "telegram.me", "elsewhere"},
                         p \in {"", "proxy", "socks", "other"}}
  \cup {[Link("tg", "proxy", "", Good) EXCEPT !.parses = FALSE]}
  \cup {Link("tg", "proxy", "", q) : q \in Queries(Mtproto)}
  \cup {Link("https", "t.me", "socks", q) : q \in Queries(Socks5)}
=============================================================================
