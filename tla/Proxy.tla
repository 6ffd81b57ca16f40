-------------------------------- MODULE Proxy --------------------------------
(***************************************************************************)
(* The forward proxy of http-proxy/proxy.cc.  Connections are accepted by  *)
(* the main thread and served by the threads of a pool; the threads share  *)
(* the cache, under its mutex, and the blocklist, which is loaded before   *)
(* they start.  Clients, origins and the clock are modelled from how the   *)
(* proxy uses them: a client sends one of Requests, an origin that can be  *)
(* reached answers with one of Replies or closes early.                    *)
(***************************************************************************)
EXTENDS HTTPMessage, FiniteSets

CONSTANTS Conns,     \* the connections that arrive
          Requests,  \* the streams clients send
          Replies,   \* the streams origins send
          Blocked,   \* the hosts the blocklist matches
          Droppers,  \* the connections whose client or origin may hang up
          Threads,   \* size of the pool
          MaxTime,   \* bound of the clock
          Symbols,   \* what texts are made of
          None

ASSUME ProxyAssumption ==
    /\ IsFiniteSet(Conns) /\ Droppers \subseteq Conns
    /\ Threads \in Nat \ {0} /\ MaxTime \in Nat

VARIABLES
    pc,       \* pc[c]: next step of serviceConnection for c
    req,      \* req[c]: the request, as parsed and then rewritten
    resp,     \* resp[c]: the response to be written to the client
    via,      \* via[c]: where it comes from
    cache,    \* cache[key]: the stored response and when it expires, or None
    now,      \* the steady clock
    killed,   \* SIGPIPE has ended the proxy
    (* History, for the properties only: *)
    contacted,  \* the hosts the proxy has connected to
    looked,     \* looked[c]: when c found its response in the cache
    stored      \* all stores: key, response, time

connVars == <<pc, req, resp, via>>
history == <<contacted, looked, stored>>
vars == <<connVars, cache, now, killed, history>>

\* What an origin answers for.
Resource(r) == [method |-> r.method, host |-> r.host, port |-> r.port, path |-> r.path]

\* Mutant: the key leaves the port out.
cacheKeyOfHost(r) == <<r.method, "SP">> \o r.host \o <<":">> \o r.path

\* One text, with nothing between the port and the path; "SP" is a blank.
cacheKey(r) == <<r.method, "SP">> \o r.host \o <<":">> \o to_string(r.port) \o r.path
Parsed == {parseRequest(s) : s \in {s \in Requests : s.first # NoLine}}
Keys == {cacheKey(r) : r \in Parsed}

\* cacheTTL: 0 unless the response may be kept.  A Cache-Control value is the set of
\* the other directives in it, spelled as they are, and its max-age (0 if absent or
\* not positive).  The three are looked for in lower case only.
NoCacheControl == [directives |-> {}, maxAge |-> 0]
cacheTTL(r, p) ==
    LET cc == get(p.headers, "cache-control", NoCacheControl)
    IN  IF r.method = "GET" /\ p.code = 200
           /\ cc.directives \cap {"no-store", "no-cache", "private"} = {}
        THEN cc.maxAge
        ELSE 0

\* The request as it is forwarded for the client of c.
Rewritten(c, r) ==
    LET kept == remove(remove(r.headers, "connection"), "proxy-connection")
    IN  [r EXCEPT !.headers =
            add(add(kept, "connection", "close"), "x-forwarded-for", c)]

blocks(host) == host \in Blocked

ConnPC == {"idle", "queued", "parse", "check", "lookup", "connect", "send",
           "ingest", "store", "reply", "closed"}

\* The connections a thread of the pool is busy with.
InService == {c \in Conns : pc[c] \notin {"idle", "queued", "closed"}}

Answers == [code : {403, 502}, headers : {<<>>}, body : {0}]

\* What req[c] may be.
Known(c) == Parsed \cup {Rewritten(c, r) : r \in Parsed} \cup {None}

\* What is ingested, marked with the resource it is of.
Of(resource, p) ==
    [of |-> resource, code |-> p.code, headers |-> p.headers, body |-> p.body]
Responses == {Of(Resource(r), ingestFrom(s)) : r \in Parsed, s \in Replies}

\* A max-age is a natural number; None is no entry of the cache and no source.
ASSUME ValuesAssumption ==
    /\ \A r \in Parsed, p \in Responses : cacheTTL(r, p) \in Nat
    /\ None \notin [serialized : Responses, expires : Nat] \cup {"cache", "origin"}

\* Texts are sequences of symbols, the URL of a request line is not empty, and a port
\* is the value of an unsigned short.
ASSUME TextAssumption ==
    /\ {":", "/", "SP"} \subseteq Symbols /\ Digits \in Seq(Symbols)
    /\ \A s \in Requests : s.first # NoLine =>
          /\ s.first.method \in Symbols /\ s.first.url \in Seq(Symbols) \ {<<>>}
          /\ get(parseHeaders(s.lines), "host", <<>>) \in Seq(Symbols)
    /\ \A r \in Parsed : r.port \in Nat /\ r.port < 65536

TypeOK ==
    /\ pc \in [Conns -> ConnPC]
    /\ req \in [Conns -> UNION {Known(c) : c \in Conns}]
    /\ \A c \in Conns : req[c] \in Known(c)
    /\ resp \in [Conns -> Answers \cup Responses \cup {None}]
    /\ via \in [Conns -> {"proxy", "cache", "origin", None}]
    /\ cache \in [Keys -> [serialized : Responses, expires : Nat] \cup {None}]
    /\ now \in 0 .. MaxTime
    /\ killed \in BOOLEAN
    /\ Cardinality(InService) =< Threads

Init ==
    /\ pc = [c \in Conns |-> "idle"]
    /\ req = [c \in Conns |-> None]
    /\ resp = [c \in Conns |-> None]
    /\ via = [c \in Conns |-> None]
    /\ cache = [k \in Keys |-> None]
    /\ now = 0
    /\ killed = FALSE
    /\ contacted = {}
    /\ looked = [c \in Conns |-> 0]
    /\ stored = {}

-------------------------------------------------------------------------------
Goto(c, from, to) ==
    /\ ~killed
    /\ pc[c] = from
    /\ pc' = [pc EXCEPT ![c] = to]

\* main: accept and schedule; a thread of the pool takes the thunk up.
Accept(c) ==
    /\ Goto(c, "idle", "queued")
    /\ UNCHANGED <<req, resp, via, cache, now, killed, history>>

Start(c) ==
    /\ Goto(c, "queued", "parse")
    /\ Cardinality(InService) < Threads
    /\ UNCHANGED <<req, resp, via, cache, now, killed, history>>

\* A request that does not parse, or names no host, is closed without an answer.
Parse(c, s) ==
    LET bad == s.first = NoLine \/ parseRequest(s).host = <<>>
    IN  /\ Goto(c, "parse", IF bad THEN "closed" ELSE "check")
        /\ req' = [req EXCEPT ![c] = IF bad THEN @ ELSE parseRequest(s)]
        /\ UNCHANGED <<resp, via, cache, now, killed, history>>

sendSimple(c, code) ==
    /\ resp' = [resp EXCEPT ![c] = [code |-> code, headers |-> <<>>, body |-> 0]]
    /\ via' = [via EXCEPT ![c] = "proxy"]

\* Mutant: the list is applied to GET requests only.
CheckGets(c) ==
    /\ pc[c] = "check"
    /\ \/ /\ blocks(req[c].host) /\ req[c].method = "GET"
          /\ Goto(c, "check", "reply")
          /\ sendSimple(c, 403)
       \/ /\ ~(blocks(req[c].host) /\ req[c].method = "GET")
          /\ Goto(c, "check", "lookup")
          /\ UNCHANGED <<resp, via>>
    /\ UNCHANGED <<req, cache, now, killed, history>>

Check(c) ==
    /\ pc[c] = "check"
    /\ \/ /\ blocks(req[c].host)
          /\ Goto(c, "check", "reply")
          /\ sendSimple(c, 403)
       \/ /\ ~blocks(req[c].host)
          /\ Goto(c, "check", "lookup")
          /\ UNCHANGED <<resp, via>>
    /\ UNCHANGED <<req, cache, now, killed, history>>

-------------------------------------------------------------------------------
(* HTTPCache; the mutex makes each of lookup and store one step            *)

Fresh(key) == cache[key] # None /\ now < cache[key].expires

\* Mutant: a response is served in the instant it expires and after.
LookupAnyAge(c) ==
    LET key == cacheKey(req[c])
        hit == req[c].method = "GET" /\ cache[key] # None
    IN  /\ Goto(c, "lookup", IF hit THEN "reply" ELSE "connect")
        /\ resp' = [resp EXCEPT ![c] = IF hit THEN cache[key].serialized ELSE @]
        /\ via' = [via EXCEPT ![c] = IF hit THEN "cache" ELSE @]
        /\ looked' = [looked EXCEPT ![c] = IF hit THEN now ELSE @]
        /\ req' = [req EXCEPT ![c] = IF hit THEN @ ELSE Rewritten(c, @)]
        /\ UNCHANGED <<cache, now, killed, contacted, stored>>

\* Mutant: an expired entry empties the cache.
LookupClears(c) ==
    LET key == cacheKey(req[c])
        hit == req[c].method = "GET" /\ Fresh(key)
    IN  /\ Goto(c, "lookup", IF hit THEN "reply" ELSE "connect")
        /\ resp' = [resp EXCEPT ![c] = IF hit THEN cache[key].serialized ELSE @]
        /\ via' = [via EXCEPT ![c] = IF hit THEN "cache" ELSE @]
        /\ cache' = IF hit THEN cache ELSE [k \in Keys |-> None]
        /\ looked' = [looked EXCEPT ![c] = IF hit THEN now ELSE @]
        /\ req' = [req EXCEPT ![c] = IF hit THEN @ ELSE Rewritten(c, @)]
        /\ UNCHANGED <<now, killed, contacted, stored>>

\* Only a GET looks; it drops an entry it finds expired.  On a miss the request is
\* rewritten for the origin.
Lookup(c) ==
    LET key == cacheKey(req[c])
        hit == req[c].method = "GET" /\ Fresh(key)
    IN  /\ Goto(c, "lookup", IF hit THEN "reply" ELSE "connect")
        /\ resp' = [resp EXCEPT ![c] = IF hit THEN cache[key].serialized ELSE @]
        /\ via' = [via EXCEPT ![c] = IF hit THEN "cache" ELSE @]
        /\ cache' = [cache EXCEPT ![key] =
                        IF req[c].method = "GET" /\ ~Fresh(key) THEN None ELSE @]
        /\ looked' = [looked EXCEPT ![c] = IF hit THEN now ELSE @]
        /\ req' = [req EXCEPT ![c] = IF hit THEN @ ELSE Rewritten(c, @)]
        /\ UNCHANGED <<now, killed, contacted, stored>>

store(key, serialized, ttl) ==
    [cache EXCEPT ![key] = [serialized |-> serialized, expires |-> now + ttl]]

\* The time to live counts from the store, not from the answer.
Store(c) ==
    LET key == cacheKey(req[c])
        ttl == cacheTTL(req[c], resp[c])
    IN  /\ Goto(c, "store", "reply")
        /\ cache' = IF ttl > 0 THEN store(key, resp[c], ttl) ELSE cache
        /\ stored' = stored \cup
              (IF ttl > 0 THEN {[key |-> key, resp |-> resp[c], at |-> now]} ELSE {})
        /\ UNCHANGED <<req, resp, via, now, killed, contacted, looked>>

-------------------------------------------------------------------------------
(* The origin and the client                                               *)

Connect(c) ==
    /\ Goto(c, "connect", "send")
    /\ contacted' = contacted \cup {req[c].host}
    /\ UNCHANGED <<req, resp, via, cache, now, killed, looked, stored>>

ConnectFails(c) ==
    /\ Goto(c, "connect", "reply")
    /\ sendSimple(c, 502)
    /\ UNCHANGED <<req, cache, now, killed, history>>

Send(c) ==
    /\ Goto(c, "send", "ingest")
    /\ UNCHANGED <<req, resp, via, cache, now, killed, history>>

\* The origin has gone: write returns an error ...
SendFails(c) ==
    /\ c \in Droppers
    /\ Goto(c, "send", "reply")
    /\ sendSimple(c, 502)
    /\ UNCHANGED <<req, cache, now, killed, history>>

Ingest(c, s) ==
    /\ Goto(c, "ingest", "store")
    /\ resp' = [resp EXCEPT ![c] = Of(Resource(req[c]), ingestFrom(s))]
    /\ via' = [via EXCEPT ![c] = "origin"]
    /\ UNCHANGED <<req, cache, now, killed, history>>

\* writeAll to the client, whether it succeeds or not, and close.
Reply(c) ==
    /\ Goto(c, "reply", "closed")
    /\ UNCHANGED <<req, resp, via, cache, now, killed, history>>

\* ... or, the peer having closed before, it raises SIGPIPE, which the proxy
\* neither ignores nor handles.
BrokenPipe(c) ==
    /\ c \in Droppers
    /\ ~killed
    /\ pc[c] \in {"send", "reply"}
    /\ killed' = TRUE
    /\ UNCHANGED <<connVars, cache, now, history>>

Tick ==
    /\ ~killed
    /\ now < MaxTime
    /\ now' = now + 1
    /\ UNCHANGED <<connVars, cache, killed, history>>

-------------------------------------------------------------------------------
Serve(c) ==
    \/ Start(c) \/ Check(c) \/ Lookup(c) \/ Store(c) \/ Reply(c)
    \/ Connect(c) \/ ConnectFails(c) \/ Send(c) \/ SendFails(c)
    \/ \E s \in Requests : Parse(c, s)
    \/ \E s \in Replies : Ingest(c, s)

Over == (killed \/ \A c \in Conns : pc[c] = "closed") /\ UNCHANGED vars

Next ==
    \/ Tick \/ Over
    \/ \E c \in Conns : Accept(c) \/ Serve(c) \/ BrokenPipe(c)

Spec == Init /\ [][Next]_vars

-------------------------------------------------------------------------------
(* Properties                                                              *)

TTL(s) == cacheTTL([method |-> s.key[1]], s.resp)
Latest(key) ==
    {s \in stored : s.key = key /\ \A t \in stored : t.key = key => t.at =< s.at}

\* A path that cannot be taken for the end of a port; one that starts with a slash is.
Plain(path) == ~IsDigit(path[1])

\* "Forwards any method to the origin named in the (absolute- or origin-form) request
\* URL and relays the response back to the client" (README.md of http-proxy/): whatever
\* threads stored and looked up in between, a client is given a response to its own
\* method, host, port and path.  But one from the cache may be to another request when
\* the path of either starts with a digit, even if the client's own does not: cacheKey
\* (proxy.cc:145) does not tell where the port ends.
NoCrossTalk ==
    /\ TypeOK
    /\ \A c \in Conns : via[c] \in {"cache", "origin"} =>
          \/ resp[c].of = Resource(req[c])
          \/ via[c] = "cache" /\ ~(Plain(req[c].path) /\ Plain(resp[c].of.path))

Restricting == {"no-store", "no-cache", "private"}

\* A response from the cache was stored earlier, by any thread, and its max-age
\* had not passed when the client's thread looked (proxy.cc:105); it was a 200 to a
\* GET and allowed to be kept, "respecting no-store/no-cache/private" (README.md of
\* http-proxy/), as far as its first Cache-Control header says so in lower case.
HitIsFresh ==
    \A c \in Conns : via[c] = "cache" =>
        \E s \in stored :
            LET headers == s.resp.headers
                Named(i) == lower(headers[i][1]) = "cache-control"
            IN  /\ s.key = cacheKey(req[c]) /\ s.resp = resp[c]
                /\ s.at =< looked[c] /\ looked[c] < s.at + TTL(s)
                /\ s.key[1] = "GET" /\ s.resp.code = 200
                /\ \A i \in 1 .. Len(headers) :
                      Named(i) /\ (\A j \in 1 .. i - 1 : ~Named(j)) =>
                          headers[i][2].directives \cap Restricting = {}

\* "a fresh hit is served without contacting the origin" (README.md of
\* http-proxy/): a GET goes on to the origin only if nothing was stored for it,
\* or what was stored last has expired; erasing an entry loses no other.
MissOnlyIfExpired ==
    [][\A c \in Conns :
          pc[c] = "lookup" /\ pc'[c] = "connect" /\ req[c].method = "GET" =>
              \/ Latest(cacheKey(req[c])) = {}
              \/ \E s \in Latest(cacheKey(req[c])) : s.at + TTL(s) =< now]_vars

\* A blocked host is never connected to, however it is named in the request, and
\* its clients get 403 (README.md of http-proxy/).
BlockedIsNeverReached ==
    /\ contacted \cap Blocked = {}
    /\ \A c \in Conns :
          req[c] # None /\ req[c].host \in Blocked /\ pc[c] = "closed" => resp[c].code = 403
===============================================================================
