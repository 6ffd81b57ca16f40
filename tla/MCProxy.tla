------------------------------- MODULE MCProxy -------------------------------
EXTENDS Proxy

\* Connections are interchangeable when each of them may, or none may, hang up.
Symmetry == Permutations(Conns)

MCBlocked == {<<"blocked">>}

MCSymbols ==
    {"0", "1", "2", "3", "4", "5", "6", "7", "8", "9", ":", "/", "SP", "GET", "POST",
     "http", "h", "a", "a?from=http", "blocked"}

Header(name, value) == <<<<name, "given">>, value>>
MaxAge(n, directives) == Header("cache-control", [directives |-> directives, maxAge |-> n])
Line(method, url) == [method |-> method, url |-> url]
HostLine(value) == <<Header("host", value)>>

\* GETs of one path from two ports of one host, named in the URL and in the Host header,
\* there with a port beyond 16 bits; one whose path starts with a digit, with the key of the
\* first; a POST with another URL in its query, which goes to that URL's host, a body and
\* unwelcome headers; a blocked host named in the Host header; no request; no host.
MCRequests ==
    {[first |-> Line("GET", <<"/", "/", "h", "/", "a">>), lines |-> <<>>, body |-> 0],
     [first |-> Line("GET", <<"/", "a">>), body |-> 0,
      lines |-> <<NoColon>> \o HostLine(<<"h", ":", "6", "5", "5", "4", "4">>)],
     [first |-> Line("GET", <<"0", "/", "a">>), lines |-> HostLine(<<"h", ":", "8">>), body |-> 0],
     [first |-> Line("POST", <<"/", "a?from=http", ":", "/", "/", "h">>), body |-> 1,
      lines |-> HostLine(<<"blocked">>)
                \o <<Header("connection", "keep-alive"), Header("content-length", 1)>>],
     [first |-> Line("POST", <<"/", "a">>), lines |-> HostLine(<<"blocked">>), body |-> 0],
     [first |-> NoLine, lines |-> <<>>, body |-> 0],
     [first |-> Line("GET", <<"http", ":", "/", "/", ":", "8", "/", "a">>), lines |-> <<>>, body |-> 0]}

\* Kept for one and two units, the second one cut short and with a directive that is
\* not in lower case; not to be kept; not a 200.
MCReplies ==
    {[first |-> 200, lines |-> <<MaxAge(1, {})>>, body |-> 1],
     [first |-> 200, lines |-> <<MaxAge(2, {"No-Store"}), Header("content-length", 2)>>, body |-> 1],
     [first |-> 200, lines |-> <<MaxAge(2, {"no-store"})>>, body |-> 1],
     [first |-> 404, lines |-> <<MaxAge(2, {})>>, body |-> 1]}
===============================================================================
