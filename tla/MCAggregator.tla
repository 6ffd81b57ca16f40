----------------------------- MODULE MCAggregator -----------------------------
EXTENDS Aggregator

Page_(path) == [host |-> "h", port |-> 80, path |-> path]
Absolute(port, path) ==
    [scheme |-> "http", host |-> "h", port |-> port, rooted |-> TRUE, path |-> path]
Node(at, name, text) == [at |-> at, name |-> name, text |-> text, href |-> EmptyText]
Link(at, text) == Node(at, "link", text)
File(doc, meant, shows) ==
    [doc |-> doc, lines |-> <<<<<<"content-length", "Content-Length">>, Len(doc)>>>>,
     meant |-> meant, shows |-> shows]

aa == <<"a", "a">>
bb == <<"b", "b">>

List == Page_(<<"list">>)
P == Page_(<<"n", "p">>)
Q == Page_(<<"n", "q">>)
FeedA == Page_(<<"n", "a">>)
FeedB == Page_(<<"n", "b">>)

\* The list has a link from the root and a relative one.  Both feeds list both pages:
\* Q in an item by the text of its link and in an entry by its href, P with no port
\* and by a relative link, which is resolved to another spelling of the URL.  The
\* second item of B has no link.
MCSite ==
    List :> File(
        <<Node(<<>>, "rss", 0), Node(<<1>>, "item", 0),
          Link(<<1, 1>>, Text(TRUE, <<"n", "a">>)),
          Node(<<2>>, "item", 0), Link(<<2, 1>>, Text(FALSE, <<"n", "b">>))>>,
        {FeedA, FeedB}, <<>>) @@
    FeedA :> File(
        <<Node(<<>>, "rss", 0), Node(<<1>>, "channel", 0), Node(<<1, 1>>, "item", 0),
          Node(<<1, 1, 1>>, "title", 2), Link(<<1, 1, 2>>, Absolute(0, <<"n", "p">>)),
          Node(<<1, 2>>, "item", 0), Link(<<1, 2, 1>>, Text(FALSE, <<"q">>)),
          Node(<<1, 2, 2>>, "title", 1)>>,
        {P, Q}, <<>>) @@
    FeedB :> File(
        <<Node(<<>>, "feed", 0), Node(<<1>>, "entry", 0), Node(<<1, 1>>, "title", 3),
          [Link(<<1, 2>>, EmptyText) EXCEPT !.href = Text(FALSE, <<"q">>)],
          Node(<<2>>, "item", 0), Node(<<2, 1>>, "title", 4),
          Node(<<3>>, "item", 0), Link(<<3, 1>>, Text(FALSE, <<"p">>))>>,
        {P, Q}, <<>>) @@
    P :> File(
        <<Node(<<>>, "html", 0), Node(<<1>>, "script", 0), Node(<<1, 1>>, "text", <<aa>>),
          Node(<<2>>, "text", <<<<"A", "a">>, <<"b">>, bb, aa, aa>>)>>,
        {}, aa :> 3 @@ bb :> 1) @@
    Q :> File(
        <<Node(<<>>, "html", 0), Node(<<1>>, "text", <<aa>>), Node(<<2>>, "p", 0),
          Node(<<2, 1>>, "text", <<aa, <<"a", "a", "b", "b">>>>)>>,
        {}, aa :> 2)

MCListURL == Absolute(0, <<"list">>)
MCUnsteady == {List, FeedB, Q}

\* Typed: a word, in capitals, words joined by a hyphen, and one that is too short.
MCTyped == {<<aa>>, <<<<"A", "A">>>>, <<bb>>, <<<<"a">>, <<"a">>>>, <<<<"b">>>>}
===============================================================================
