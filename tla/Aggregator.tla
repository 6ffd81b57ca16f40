----------------------------- MODULE Aggregator -----------------------------
(***************************************************************************)
(* The news aggregator (news-aggregator/aggregate.cc): main downloads a    *)
(* list of feeds; the threads of one pool download the feeds and schedule  *)
(* their articles on a second pool, whose threads skip what another has    *)
(* begun, download under a semaphore for each server and fold the words    *)
(* into the shared index.  Both pools are instances of TaskPool, which     *)
(* ThreadPool implements (this directory has a copy of it).  Each critical *)
(* section is a step.  URLs, answers and documents: module NewsDocuments.  *)
(***************************************************************************)
EXTENDS NewsDocuments, FiniteSets

CONSTANTS
    ListURL,         \* the argument of the program
    Site,            \* Site[u]: the document at the parsed URL u and its headers; and what
                     \* its author meant: the pages its items link to, and how often
                     \* each word is shown to a reader
    Unsteady,        \* the parsed URLs whose server may refuse, fail or hang up
    Typed,           \* the words that may be typed, each as normalize takes it
    kMaxConnectionsPerServer,
    FeedThreads, ArticleThreads,   \* of the pools: sets of numbers
    MaxShown         \* how many hits a query prints

ASSUME AggregatorAssumption ==
    /\ kMaxConnectionsPerServer \in Nat \ {0} /\ MaxShown \in Nat \ {0}
    /\ FeedThreads \subseteq Nat /\ ArticleThreads \subseteq Nat
    /\ FeedThreads \cap ArticleThreads = {}
    /\ IsFiniteSet(FeedThreads) /\ IsFiniteSet(ArticleThreads)
    /\ Unsteady \subseteq DOMAIN Site

\* A task of the first pool is the number of a feed in the list; one of the second
\* is the number of an item in a feed.
Document(url) == Site[parseHttpURL(url)].doc
FeedTasks == DOMAIN parseRSSItems(Document(ListURL), ListURL)
ItemNumbers == UNION {DOMAIN parseRSSItems(Site[u].doc, ListURL) : u \in DOMAIN Site}
ArticleTasks == FeedTasks \X ItemNumbers
ASSUME NoneAssumption == None \notin FeedTasks \cup ArticleTasks
Tokens == UNION {Range(tokenizeHTML(Site[u].doc)) : u \in DOMAIN Site}

VARIABLES
    mpc,           \* next step of main
    feeds,         \* the items of the list
    items,         \* items[f]: the items of feed f
    call,          \* call[w]: how far thread w is in processFeed or processArticle
    fstatus, fslot, fwaiting, fopen,    \* feedPool
    astatus, aslot, awaiting, aopen,    \* articlePool
    seenURLs, serverLimits, articles, invertedIndex,
    answer,        \* the last answer of runQueries
    fetched        \* history: the article tasks that went to download

feedPool == <<fstatus, fslot, fwaiting, fopen>>
articlePool == <<astatus, aslot, awaiting, aopen>>
shared == <<seenURLs, serverLimits, articles, invertedIndex>>
vars == <<mpc, feeds, items, call, feedPool, articlePool, shared, answer, fetched>>

FP == INSTANCE TaskPool WITH
        Tasks <- FeedTasks, Clients <- {"main"}, Workers <- FeedThreads, NoTask <- None,
        status <- fstatus, slot <- fslot, waiting <- fwaiting, open <- fopen
AP == INSTANCE TaskPool WITH
        Tasks <- ArticleTasks, Clients <- {"main"}, Workers <- ArticleThreads,
        NoTask <- None,
        status <- astatus, slot <- aslot, waiting <- awaiting, open <- aopen

At(at, next, words) == [at |-> at, next |-> next, words |-> words]
Idle == At("idle", 0, <<>>)

Init ==
    /\ mpc = "list"
    /\ feeds = <<>>
    /\ items = [f \in FeedTasks |-> <<>>]
    /\ call = [w \in FeedThreads \cup ArticleThreads |-> Idle]
    /\ FP!Init /\ AP!Init
    /\ seenURLs = {}
    /\ serverLimits = <<>>
    /\ articles = <<>>
    /\ invertedIndex = [w \in Tokens |-> {}]
    /\ answer = None
    /\ fetched = {}

Goes(w, from, to) == call[w].at = from /\ call' = [call EXCEPT ![w].at = to]

\* The dispatcher gives a task to the first worker that is available.
FirstFree(slot, w) == slot[w] = None /\ \A v \in DOMAIN slot : slot[v] = None => w =< v

-------------------------------------------------------------------------------
(* Downloads                                                               *)

\* The permits of a server's semaphore, which the first task to ask creates.
serverSemaphore(s) ==
    IF s \in DOMAIN serverLimits THEN serverLimits[s] ELSE kMaxConnectionsPerServer

\* serverSemaphore and sem.wait().
TakePermit(url) ==
    LET s == server(parseHttpURL(url))
    IN  /\ serverSemaphore(s) > 0
        /\ serverLimits' = [x \in DOMAIN serverLimits \cup {s} |->
                              IF x = s THEN serverSemaphore(s) - 1 ELSE serverLimits[x]]

\* sem.signal(), whether the download succeeded or not.
ReturnPermit(url) ==
    serverLimits' = [serverLimits EXCEPT ![server(parseHttpURL(url))] = @ + 1]

\* The server of page u sends n nodes of it.
Sending(u, n) == [first |-> 200, lines |-> Site[u].lines, body |-> n]

\* What may come back: the document, or "not found"; an unsteady server may refuse,
\* close before it answers, or close before it has sent everything.
Answers(url) ==
    LET u == parseHttpURL(url)
    IN  IF u \notin DOMAIN Site THEN {[first |-> 404, lines |-> <<>>, body |-> 0]}
        ELSE {Sending(u, Len(Site[u].doc))} \cup
             IF u \notin Unsteady THEN {}
             ELSE {NoConnection, [first |-> NoLine, lines |-> <<>>, body |-> 0]}
                  \cup {Sending(u, n) : n \in 0 .. Len(Site[u].doc) - 1}

\* The documents a download may give, None if it fails.
Downloads(url) ==
    {IF n = None THEN None ELSE SubSeq(Document(url), 1, n) :
        n \in {fetchURL(url, a) : a \in Answers(url)}}

-------------------------------------------------------------------------------
(* processFeed                                                             *)

FeedOf(w) == fslot[w]

FeedStart(w, f) ==
    /\ FirstFree(fslot, w)
    /\ FP!Start(w, f)
    /\ Goes(w, "idle", "limit")
    /\ UNCHANGED <<mpc, feeds, items, articlePool, shared, answer, fetched>>

FeedLimit(w) ==
    /\ Goes(w, "limit", "fetch")
    /\ TakePermit(feeds[FeedOf(w)].link)
    /\ UNCHANGED <<mpc, feeds, items, feedPool, articlePool, seenURLs, articles,
                   invertedIndex, answer, fetched>>

\* fetchURL, signal and parseRSSItems.
FeedFetch(w) ==
    LET f == FeedOf(w)
        url == feeds[f].link
    IN  /\ call[w].at = "fetch"
        /\ \E xml \in Downloads(url) :
              IF xml = None
              THEN Goes(w, "fetch", "return") /\ UNCHANGED items
              ELSE /\ call' = [call EXCEPT ![w] = At("items", 1, <<>>)]
                   /\ items' = [items EXCEPT ![f] = parseRSSItems(xml, url)]
        /\ ReturnPermit(url)
        /\ UNCHANGED <<mpc, feeds, feedPool, articlePool, seenURLs, articles,
                       invertedIndex, answer, fetched>>

FeedSchedule(w) ==
    LET f == FeedOf(w)
    IN  /\ call[w].at = "items"
        /\ call[w].next \in DOMAIN items[f]
        /\ AP!Schedule(<<f, call[w].next>>)
        /\ call' = [call EXCEPT ![w].next = @ + 1]
        /\ UNCHANGED <<mpc, feeds, items, feedPool, shared, answer, fetched>>

FeedReturn(w) ==
    /\ \/ call[w].at = "return"
       \/ call[w].at = "items" /\ call[w].next \notin DOMAIN items[FeedOf(w)]
    /\ FP!Finish(w)
    /\ call' = [call EXCEPT ![w] = Idle]
    /\ UNCHANGED <<mpc, feeds, items, articlePool, shared, answer, fetched>>

-------------------------------------------------------------------------------
(* processArticle                                                          *)

ItemOfTask(t) == items[t[1]][t[2]]
ItemOf(w) == ItemOfTask(aslot[w])

TaskStart(w, t) ==
    /\ FirstFree(aslot, w)
    /\ AP!Start(w, t)
    /\ Goes(w, "idle", "seen")
    /\ UNCHANGED <<mpc, feeds, items, feedPool, shared, answer, fetched>>

\* Mutant: the link is looked up here and recorded once it has been downloaded.
TaskSeenLater(w) ==
    LET link == ItemOf(w).link
    IN  /\ Goes(w, "seen", IF link \in {articles[i].url : i \in DOMAIN articles}
                           THEN "return" ELSE "limit")
        /\ UNCHANGED <<mpc, feeds, items, feedPool, articlePool, shared, answer, fetched>>

TaskSeen(w) ==
    LET link == ItemOf(w).link
    IN  /\ Goes(w, "seen", IF link \in seenURLs THEN "return" ELSE "limit")
        /\ seenURLs' = seenURLs \cup {link}
        /\ UNCHANGED <<mpc, feeds, items, feedPool, articlePool, serverLimits, articles,
                       invertedIndex, answer, fetched>>

TaskLimit(w) ==
    /\ Goes(w, "limit", "fetch")
    /\ TakePermit(ItemOf(w).link)
    /\ fetched' = fetched \cup {aslot[w]}
    /\ UNCHANGED <<mpc, feeds, items, feedPool, articlePool, seenURLs, articles,
                   invertedIndex, answer>>

\* Mutant: a failed download returns before the signal.
TaskFetchKeepsPermit(w) ==
    /\ call[w].at = "fetch"
    /\ \E html \in Downloads(ItemOf(w).link) :
          IF html = None \/ tokenizeHTML(html) = <<>>
          THEN Goes(w, "fetch", "return") /\ UNCHANGED serverLimits
          ELSE /\ call' = [call EXCEPT ![w] = At("append", 0, tokenizeHTML(html))]
               /\ ReturnPermit(ItemOf(w).link)
    /\ UNCHANGED <<mpc, feeds, items, feedPool, articlePool, seenURLs, articles,
                   invertedIndex, answer, fetched>>

\* Mutant: a failed download is tried again.
TaskFetchRetries(w) ==
    /\ call[w].at = "fetch"
    /\ \E html \in Downloads(ItemOf(w).link) :
          IF html = None \/ tokenizeHTML(html) = <<>>
          THEN Goes(w, "fetch", "limit")
          ELSE call' = [call EXCEPT ![w] = At("append", 0, tokenizeHTML(html))]
    /\ ReturnPermit(ItemOf(w).link)
    /\ UNCHANGED <<mpc, feeds, items, feedPool, articlePool, seenURLs, articles,
                   invertedIndex, answer, fetched>>

\* fetchURL, signal, tokenizeHTML: an article without tokens is dropped.
TaskFetch(w) ==
    /\ call[w].at = "fetch"
    /\ \E html \in Downloads(ItemOf(w).link) :
          IF html = None \/ tokenizeHTML(html) = <<>>
          THEN Goes(w, "fetch", "return")
          ELSE call' = [call EXCEPT ![w] = At("append", 0, tokenizeHTML(html))]
    /\ ReturnPermit(ItemOf(w).link)
    /\ UNCHANGED <<mpc, feeds, items, feedPool, articlePool, seenURLs, articles,
                   invertedIndex, answer, fetched>>

TaskAppend(w) ==
    /\ call[w].at = "append"
    /\ call' = [call EXCEPT ![w] = At("index", Len(articles) + 1, call[w].words)]
    /\ articles' = Append(articles, [title |-> ItemOf(w).title, url |-> ItemOf(w).link])
    /\ UNCHANGED <<mpc, feeds, items, feedPool, articlePool, seenURLs, serverLimits,
                   invertedIndex, answer, fetched>>

Count(words, w) == Cardinality({i \in DOMAIN words : words[i] = w})
WithCounts(index, idx, words) ==
    [w \in Tokens |-> IF Count(words, w) = 0 THEN index[w]
                      ELSE index[w] \cup {<<idx, Count(words, w)>>}]

\* Mutant: the article is taken for the last one, but another may have been added.
TaskIndexLast(w) ==
    /\ Goes(w, "index", "return")
    /\ invertedIndex' = WithCounts(invertedIndex, Len(articles), call[w].words)
    /\ UNCHANGED <<mpc, feeds, items, feedPool, articlePool, seenURLs, serverLimits,
                   articles, answer, fetched>>

TaskIndex(w) ==
    /\ Goes(w, "index", "return")
    /\ invertedIndex' = WithCounts(invertedIndex, call[w].next, call[w].words)
    /\ UNCHANGED <<mpc, feeds, items, feedPool, articlePool, seenURLs, serverLimits,
                   articles, answer, fetched>>

TaskReturn(w) ==
    /\ call[w].at = "return"
    /\ AP!Finish(w)
    /\ call' = [call EXCEPT ![w] = Idle]
    /\ UNCHANGED <<mpc, feeds, items, feedPool, shared, answer, fetched>>

-------------------------------------------------------------------------------
(* main and runQueries                                                     *)

\* The list is downloaded, or main returns.
MainList ==
    /\ mpc = "list"
    /\ \E xml \in Downloads(ListURL) :
          IF xml = None
          THEN mpc' = "failed" /\ UNCHANGED feeds
          ELSE mpc' = "schedule" /\ feeds' = parseRSSItems(xml, ListURL)
    /\ UNCHANGED <<items, call, feedPool, articlePool, shared, answer, fetched>>

MainSchedule ==
    /\ mpc = "schedule"
    /\ \E f \in DOMAIN feeds :
          /\ \A g \in DOMAIN feeds : g < f <=> fstatus[g] # "new"
          /\ FP!Schedule(f)
    /\ UNCHANGED <<mpc, feeds, items, call, articlePool, shared, answer, fetched>>

\* feedPool.wait() ...
MainFeedWait ==
    /\ mpc = "schedule"
    /\ \A f \in DOMAIN feeds : fstatus[f] # "new"
    /\ FP!CallWait("main")
    /\ mpc' = "feedWait"
    /\ UNCHANGED <<feeds, items, call, articlePool, shared, answer, fetched>>

\* ... and then articlePool.wait().
MainArticleWait ==
    /\ mpc = "feedWait"
    /\ FP!ReturnFromWait("main")
    /\ AP!CallWait("main")
    /\ mpc' = "articleWait"
    /\ UNCHANGED <<feeds, items, call, shared, answer, fetched>>

MainWaited ==
    /\ mpc = "articleWait"
    /\ AP!ReturnFromWait("main")
    /\ mpc' = "close"
    /\ UNCHANGED <<feeds, items, call, feedPool, shared, answer, fetched>>

\* The destructors of both pools.
MainClose ==
    /\ mpc = "close"
    /\ AP!Close /\ FP!Close
    /\ mpc' = "queries"
    /\ UNCHANGED <<feeds, items, call, shared, answer, fetched>>

\* Mutant: the hits are sorted the other way.
BeforeRare(h, g) ==
    IF h[2] # g[2] THEN h[2] < g[2] ELSE articles[h[1]].title < articles[g[1]].title

\* The order of hits <<article, count>>.
Before(h, g) ==
    IF h[2] # g[2] THEN h[2] > g[2] ELSE articles[h[1]].title < articles[g[1]].title

\* std::sort leaves hits it cannot tell apart in any order.  A word that is not in
\* the index, or has nothing left in it, has no hits.
Query(word) ==
    LET q == normalize(word)
        found == IF q \in Tokens THEN invertedIndex[q] ELSE {}
    IN  /\ mpc = "queries"
        /\ \E hits \in SetToSeqs(found) :
              /\ \A i, j \in DOMAIN hits : i < j => ~Before(hits[j], hits[i])
              /\ answer' = [word |-> word, found |-> Len(hits),
                            shown |-> SubSeq(hits, 1, Min({Len(hits), MaxShown}))]
        /\ UNCHANGED <<mpc, feeds, items, call, feedPool, articlePool, shared, fetched>>

Failed == mpc = "failed" /\ UNCHANGED vars

MainStep ==
    \/ MainList \/ MainSchedule \/ MainFeedWait \/ MainArticleWait \/ MainWaited
    \/ MainClose
FeedThread(w) == FeedLimit(w) \/ FeedFetch(w) \/ FeedSchedule(w) \/ FeedReturn(w)
ArticleThread(w) ==
    \/ TaskSeen(w) \/ TaskLimit(w) \/ TaskFetch(w) \/ TaskAppend(w) \/ TaskIndex(w)
    \/ TaskReturn(w)
Dispatch ==
    \/ \E w \in FeedThreads, f \in FeedTasks : FeedStart(w, f)
    \/ \E w \in ArticleThreads, t \in ArticleTasks : TaskStart(w, t)

Progress ==
    \/ MainStep \/ Dispatch
    \/ \E w \in FeedThreads : FeedThread(w)
    \/ \E w \in ArticleThreads : ArticleThread(w)

Next == Progress \/ Failed \/ \E word \in Typed : Query(word)

Spec == Init /\ [][Next]_vars

\* Some thread of those that can go on does; servers answer or close the connection.
\* Which one it is does not matter: no task goes back, so none is overtaken for ever.
FairSpec == Spec /\ WF_vars(Progress)

-------------------------------------------------------------------------------
(* Properties                                                              *)

LinkOf(w) == IF w \in FeedThreads THEN feeds[fslot[w]].link ELSE ItemOf(w).link
Fetching(s) ==
    {w \in DOMAIN call : call[w].at = "fetch" /\ server(parseHttpURL(LinkOf(w))) = s}

TypeOK ==
    /\ mpc \in {"list", "failed", "schedule", "feedWait", "articleWait", "close", "queries"}
    /\ FP!TypeOK /\ AP!TypeOK
    /\ \A w \in DOMAIN call :
          call[w].at \in {"idle", "seen", "limit", "fetch", "items", "append", "index", "return"}
    /\ \A s \in DOMAIN serverLimits : serverLimits[s] \in 0 .. kMaxConnectionsPerServer
    /\ DOMAIN invertedIndex = Tokens
    /\ fetched \subseteq ArticleTasks

\* "caps simultaneous connections" (README.md of news-aggregator/): no server has
\* more downloads under way than its limit, those of feeds and articles together;
\* and every permit is with a download or with the semaphore: one that fails gives
\* its own back, or the limit of the server would shrink for the rest of the run.
ThrottleHolds ==
    /\ TypeOK
    /\ \A s \in DOMAIN serverLimits :
          serverLimits[s] + Cardinality(Fetching(s)) = kMaxConnectionsPerServer

\* "a URL shared by two feeds is fetched once" (README.md of news-aggregator/), though
\* their tasks run side by side.  URLs are compared as they are written.
FetchedOnce ==
    \A t, u \in fetched : ItemOfTask(t).link = ItemOfTask(u).link => t = u

Steady(u) == u \in DOMAIN Site \ Unsteady
Page(i) == parseHttpURL(articles[i].url)
Shows(u, w) == IF w \in DOMAIN Site[u].shows THEN Site[u].shows[w] ELSE 0

\* What there is in the first n nodes of page u.
Cut(u, n) == SubSeq(Site[u].doc, 1, n)
LinksIn(u, n) == {item.link : item \in Range(parseRSSItems(Cut(u, n), u))}
Reachable(link) == link.scheme \in {"http", "none"} /\ parseHttpURL(link).host # NoHost

\* The pages say what their authors mean: links are written for http and lead to the
\* pages meant, the words are those shown, and the length in the header does not cut a
\* page short.  A part of a page has no more than the whole of it.
ASSUME SiteAssumption ==
    /\ None \notin Nat /\ NoLine # 200
    /\ \A u \in DOMAIN Site :
          /\ parseHttpURL(u) = u /\ u.host # NoHost
          /\ Len(Site[u].doc) \in Nat /\ Cut(u, Len(Site[u].doc)) = Site[u].doc
          /\ \A n \in 0 .. Len(Site[u].doc) :
                /\ Cut(u, n) # None /\ Sending(u, n) # NoConnection
                /\ ingestFrom(Sending(u, n)).body \in 0 .. n
                /\ \E k \in 0 .. n :
                      /\ DOMAIN parseRSSItems(Cut(u, n), u) = 1 .. k
                      /\ 1 .. k \subseteq DOMAIN parseRSSItems(Site[u].doc, ListURL)
                /\ \A link \in LinksIn(u, n) :
                      Reachable(link) /\ parseHttpURL(link) \in Site[u].meant
                /\ \A w \in Tokens : Count(tokenizeHTML(Cut(u, n)), w) \in 0 .. Shows(u, w)
          /\ ingestFrom(Sending(u, Len(Site[u].doc))).body = Len(Site[u].doc)
          /\ Site[u].meant = {parseHttpURL(link) : link \in LinksIn(u, Len(Site[u].doc))}
          /\ \A w \in Tokens : Count(tokenizeHTML(Site[u].doc), w) = Shows(u, w)
          /\ DOMAIN Site[u].shows \subseteq Tokens
          /\ Site[u].shows # <<>> => tokenizeHTML(Site[u].doc) # <<>>

\* When queries begin, whatever the order of the tasks and whichever downloads have
\* failed or were cut short: an article whose feed and page could be downloaded is in
\* the table; nothing else is, and nothing twice; the index has the words a reader of
\* the page sees, with their exact counts, under the article's own number.  A page
\* that was cut short counts for no more than it shows.
IndexIsExact ==
    mpc = "queries" =>
        /\ \A f \in DOMAIN feeds :
              LET u == parseHttpURL(feeds[f].link)
              IN  Steady(u) => \A p \in Site[u].meant :
                     Steady(p) /\ Site[p].shows # <<>> => \E i \in DOMAIN articles : Page(i) = p
        /\ \A i \in DOMAIN articles : \E u \in DOMAIN Site : Page(i) \in Site[u].meant
        /\ \A i, j \in DOMAIN articles : articles[i].url = articles[j].url => i = j
        /\ \A w \in Tokens : \A i \in DOMAIN articles :
              LET counts == {h[2] : h \in {g \in invertedIndex[w] : g[1] = i}}
              IN  IF Steady(Page(i))
                  THEN counts = {Shows(Page(i), w)} \ {0}
                  ELSE \A n \in counts : n =< Shows(Page(i), w)

\* A word typed as it stands in an article finds it: every article that shows the
\* word is printed, unless as many as are printed show it at least as often.  What is
\* counted for an article is never more than its page shows.
AnswersAreRanked ==
    answer # None /\ Len(answer.word) = 1 =>
        LET w == tolower(answer.word[1])
            printed == {h[1] : h \in Range(answer.shown)}
        IN  /\ \A i \in DOMAIN articles \ printed :
                  Steady(Page(i)) /\ Shows(Page(i), w) > 0 =>
                      /\ Len(answer.shown) = MaxShown
                      /\ \A h \in Range(answer.shown) : h[2] >= Shows(Page(i), w)
            /\ \A h \in Range(answer.shown) : h[2] =< Shows(Page(h[1]), w)
            /\ answer.found >= Len(answer.shown)

\* The aggregator gets to its queries: no task waits for ever for a permit or a
\* thread, both wait() calls and both destructors return.
QueriesAreReached == <>(mpc \in {"queries", "failed"})
===============================================================================
