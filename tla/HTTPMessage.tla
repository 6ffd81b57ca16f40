----------------------------- MODULE HTTPMessage -----------------------------
(***************************************************************************)
(* The HTTP message model of http-proxy/http.cc (news-aggregator has a     *)
(* copy): header lists, and what a reader makes of the bytes a peer sends  *)
(* before it closes the connection.  A header is <<name, value>>; a name   *)
(* is <<its lower-case form, a spelling>>.  A stream is what arrives: its  *)
(* first line, its header lines, and the length of the body.  URLs and the *)
(* values of Host headers are sequences of symbols: each of ":", "/" and   *)
(* the digits is one, and so is a stretch of any other characters.         *)
(***************************************************************************)
EXTENDS Naturals, Sequences, SequencesExt

CONSTANTS NoLine,    \* a first line that never comes, is empty or malformed
          NoColon    \* a header line without a colon

lower(name) == name[1]

add(headers, name, value) == Append(headers, <<<<name, "own">>, value>>)

remove(headers, name) == SelectSeq(headers, LAMBDA h : lower(h[1]) # name)

has(headers, name) == \E i \in DOMAIN headers : lower(headers[i][1]) = name

\* The value of the first header of that name.
get(headers, name, absent) ==
    LET i == SelectInSeq(headers, LAMBDA h : lower(h[1]) = name)
    IN  IF i = 0 THEN absent ELSE headers[i][2]

\* HTTPHeader::parse, up to the blank line or the end of the stream.
parseHeaders(lines) == SelectSeq(lines, LAMBDA line : line # NoColon)

\* The bodies SockReader gives: at most n units, fewer at end of file, or all.
readExactly(n, sent) == IF n < sent THEN n ELSE sent
readUntilEOF(sent) == sent

-------------------------------------------------------------------------------
(* Requests                                                                *)

Digits == <<"0", "1", "2", "3", "4", "5", "6", "7", "8", "9">>
IsDigit(x) == \E n \in 1 .. 10 : x = Digits[n]

\* std::atoi: the digits a text starts with, 0 if there are none; texts here start
\* with neither blanks nor a sign.
atoi(text) ==
    LET stop == SelectInSeq(text, LAMBDA x : ~IsDigit(x))
        digits == IF stop = 0 THEN text ELSE SubSeq(text, 1, stop - 1)
    IN  FoldLeft(LAMBDA n, d : 10 * n + (CHOOSE v \in 0 .. 9 : Digits[v + 1] = d), 0, digits)

\* std::to_string of an unsigned short.
Tens == <<1, 10, 100, 1000, 10000, 100000>>
to_string(n) ==
    LET size == CHOOSE k \in 1 .. 5 : n < Tens[k + 1] /\ (k = 1 \/ Tens[k] =< n)
    IN  [i \in 1 .. size |-> Digits[((n \div Tens[size + 1 - i]) % 10) + 1]]

\* std::string::find of one symbol; 0 if it is not there.
find(text, x) == SelectInSeq(text, LAMBDA y : y = x)

\* static_cast<unsigned short>.
ushort(n) == n % 65536

\* "host" or "host:port", in a URL or a Host header.
hostAndPort(text) ==
    LET colon == find(text, ":")
    IN  IF colon = 0
        THEN [host |-> text, port |-> 80]
        ELSE [host |-> SubSeq(text, 1, colon - 1),
              port |-> ushort(atoi(SubSeq(text, colon + 1, Len(text))))]

\* What follows "://" or a leading "//".
absoluteForm(rest) ==
    LET slash == find(rest, "/")
        authority == hostAndPort(IF slash = 0 THEN rest ELSE SubSeq(rest, 1, slash - 1))
    IN  [host |-> authority.host, port |-> authority.port,
         path |-> IF slash = 0 THEN <<"/">> ELSE SubSeq(rest, slash, Len(rest))]

\* The first "://" counts, wherever it is; a URL without one, and without a leading
\* "//", is its own path.
parseURL(url) ==
    LET schemes == {i \in 1 .. Len(url) - 2 : SubSeq(url, i, i + 2) = <<":", "/", "/">>}
    IN  IF schemes # {} THEN absoluteForm(SubSeq(url, Min(schemes) + 3, Len(url)))
        ELSE IF SubSeq(url, 1, 2) = <<"/", "/">> THEN absoluteForm(SubSeq(url, 3, Len(url)))
        ELSE [host |-> <<>>, port |-> 80, path |-> url]

\* HTTPRequest::parse: the host and its port are the URL's, or the Host header's when
\* the URL has no host; without a Content-Length the body is not read.
parseRequest(stream) ==
    LET headers == parseHeaders(stream.lines)
        target == parseURL(stream.first.url)
        origin == IF target.host = <<>> /\ has(headers, "host")
                  THEN hostAndPort(get(headers, "host", <<>>))
                  ELSE target
    IN  [method |-> stream.first.method,
         url |-> stream.first.url,
         host |-> origin.host,
         port |-> origin.port,
         path |-> target.path,
         headers |-> headers,
         body |-> readExactly(get(headers, "content-length", 0), stream.body)]

-------------------------------------------------------------------------------
\* HTTPResponse::ingestFrom; a response without a status line has code 0.
ingestFrom(stream) ==
    LET headers == parseHeaders(stream.lines)
    IN  [code |-> IF stream.first = NoLine THEN 0 ELSE stream.first,
         headers |-> headers,
         body |-> IF has(headers, "content-length")
                  THEN readExactly(get(headers, "content-length", 0), stream.body)
                  ELSE readUntilEOF(stream.body)]
===============================================================================
