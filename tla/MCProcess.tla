------------------------------- MODULE MCProcess -------------------------------
(* Instances of Process for TLC. *)
EXTENDS Process, MCConfiguration

Source(url, ttl, token, key) ==
  [listen |-> Absent, base_url |-> url, ttl |-> ttl, token |-> token, key |-> key]
File(url, ttl) == Source(url, ttl, Absent, Absent)

\* One environment per kind of mistake: none, a URL that is refused at once, a
\* TTL that does not fit, a short token; and files that are not there or do not
\* parse, beside an environment that gives everything.
Environments ==
  {<<Absent, named, Source(url, ttl, token, GoodKey)>> :
     named \in {Absent, Missing, Garbled}, url \in {"https", "ftp"}, ttl \in {2, 3},
     token \in {31, 32}}
  \cup {<<Garbled, named, Source("https", 2, 32, GoodKey)>> :
          named \in {Absent, Missing, File("https", 2)}}

\* Every source gives the URL, or the TTL, rightly, wrongly or not at all.
Merges ==
  LET Urls == {Absent, "https", "ftp"}
      Ttls == {Absent, 0, 2}
  IN  {<<File(a, Absent), File(b, Absent), Source(c, Absent, 32, GoodKey)>> :
         a \in Urls, b \in Urls, c \in Urls}
      \cup {<<File("http", a), File(Absent, b), Source(Absent, c, 32, GoodKey)>> :
              a \in Ttls, b \in Ttls, c \in Ttls}

Launches == Environments \cup Merges
=============================================================================
