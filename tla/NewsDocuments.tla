---------------------------- MODULE NewsDocuments ----------------------------
(***************************************************************************)
(* What the news aggregator makes of URLs, answers and documents: fetch.cc *)
(* and xml-utils.cc, with this directory's copy of http.cc (HTTPMessage).  *)
(* A URL or the text of a link is a record: its scheme, or "none" if there *)
(* is no "://"; its host; its port as written, 0 for none; whether a text  *)
(* without a scheme starts with a slash; and the parts of its path between *)
(* slashes, <<>> when no slash follows the host.  The empty text is a      *)
(* relative path of one empty part.                                        *)
(*                                                                         *)
(* A document is the sequence of its nodes as libxml2 visits them, parents *)
(* first; a node has its place in the tree, the numbers of the children    *)
(* that lead to it.  The parsers recover what they can, so the first nodes *)
(* of a document are a document, too.  Bodies are counted in nodes.        *)
(***************************************************************************)
EXTENDS HTTPMessage

CONSTANTS MinToken, MaxToken,  \* sizes of the words that are kept, 2 and 32 in the code
          NoHost,              \* the empty host name
          NoConnection,        \* the host is unknown or refuses
          None

Text(rooted, path) ==
    [scheme |-> "none", host |-> NoHost, port |-> 0, rooted |-> rooted, path |-> path]
EmptyText == Text(FALSE, <<"">>)

-------------------------------------------------------------------------------
(* fetch.cc                                                                *)

parseHttpURL(url) ==
    [host |-> url.host,
     port |-> IF url.port = 0 THEN 80 ELSE url.port,
     path |-> IF url.path = <<>> THEN <<"">> ELSE url.path]

server(u) == <<u.host, u.port>>

\* How much of a body the peer's answer gives, or None.  Only the code is looked at:
\* a connection that is closed early leaves a shorter body.
fetchURL(url, answer) ==
    LET resp == ingestFrom(answer)
    IN  IF \/ url.scheme \notin {"http", "none"}
           \/ parseHttpURL(url).host = NoHost
           \/ answer = NoConnection
        THEN None
        ELSE IF resp.code # 200 THEN None ELSE resp.body

-------------------------------------------------------------------------------
(* xml-utils.cc                                                            *)

Below(doc, i, j) == IsStrictPrefix(doc[i].at, doc[j].at)
Children(doc, i) ==
    {j \in DOMAIN doc : Below(doc, i, j) /\ Len(doc[j].at) = Len(doc[i].at) + 1}

\* The first child of that name, 0 if there is none.
childNamed(doc, i, name) ==
    LET c == {j \in Children(doc, i) : doc[j].name = name}
    IN  IF c = {} THEN 0 ELSE CHOOSE j \in c : \A k \in c : j =< k

\* The server is always written with its port.
resolve(base, link) ==
    LET b == parseHttpURL(base)
    IN  IF link.scheme # "none" THEN link
        ELSE [scheme |-> "http", host |-> b.host, port |-> b.port, rooted |-> TRUE,
              path |-> IF link.rooted THEN link.path ELSE Front(b.path) \o link.path]

\* The text of a link, or its href when it has no text (Atom).
linkText(node) == IF node.text # EmptyText THEN node.text ELSE node.href

\* collectItems from the root: items and entries with a link, wherever they are.
parseRSSItems(doc, baseURL) ==
    LET Item(i) ==
            LET t == childNamed(doc, i, "title")
                l == childNamed(doc, i, "link")
            IN  IF doc[i].name \in {"item", "entry"} /\ l # 0
                THEN <<[title |-> IF t = 0 THEN 0 ELSE doc[t].text,
                        link |-> resolve(baseURL, linkText(doc[l]))]>>
                ELSE <<>>
    IN  FlattenSeq([i \in DOMAIN doc |-> Item(i)])

tolower(word) == [i \in DOMAIN word |-> IF word[i] = "A" THEN "a" ELSE word[i]]

\* collectVisibleText, split at what is no letter or digit.  A text node is the
\* sequence of its words, and a space is put between two text nodes.
visibleWords(doc) ==
    LET Hidden(i) == \E s \in DOMAIN doc :
                        doc[s].name \in {"script", "style"} /\ Below(doc, s, i)
        Words(i) == IF doc[i].name = "text" /\ ~Hidden(i) THEN doc[i].text ELSE <<>>
    IN  FlattenSeq([i \in DOMAIN doc |-> Words(i)])

tokenizeHTML(doc) ==
    LET words == SelectSeq(visibleWords(doc), LAMBDA w : Len(w) \in MinToken .. MaxToken)
    IN  [i \in DOMAIN words |-> tolower(words[i])]

\* normalize of aggregate.cc: the words typed without a space between them become one.
normalize(words) == tolower(FlattenSeq(words))
===============================================================================
