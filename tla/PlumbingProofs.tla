--------------------------- MODULE PlumbingProofs ---------------------------
(***************************************************************************)
(* Proofs about Plumbing, for every amount of input, every expansion,      *)
(* every capacity of a pipe and whichever programs give up.  The lists of  *)
(* calls keep, as they get shorter, what their order promises: "closed     *)
(* before", "followed by a close".  Such promises (Tidy for a child,       *)
(* Orderly for a thread of the parent) are stated of positions, so that    *)
(* they hold of every suffix; the invariants relate the tables of          *)
(* descriptors and the data to what the lists still promise.               *)
(***************************************************************************)
EXTENDS Plumbing, TLAPS

-------------------------------------------------------------------------------
(* Calls and lists of calls                                                *)

Std == {StdIn, StdOut}
Pipes == Children \X {"supply", "ingest", "next"}
Ends == {R(o) : o \in Objects} \cup {W(o) : o \in Objects}

ChildCalls ==
    {<<"exec">>, <<"program">>} \cup ({"close", "open"} \X Ends) \cup ({"dup2"} \X Ends \X Std)
WriterCalls == ({"close"} \X Ends) \cup ({"write"} \X Ends \X (Nat \ {0}))
ParentCalls ==
    WriterCalls \cup ({"read"} \X Ends) \cup ({"pipe", "pipe2"} \X Pipes)
    \cup ({"fork"} \X Children \X Seq(ChildCalls)) \cup ({"waitpid"} \X Children)
    \cup ({"thread"} \X Writers \X Seq(WriterCalls)) \cup ({"join"} \X Writers)

Has(s, call) == \E i \in 1 .. Len(s) : s[i] = call
Closes(s, d) == Has(s, <<"close", d>>)

-------------------------------------------------------------------------------
(* The wiring: where the program of child c reads and writes               *)

Kids == {Stage[i] : i \in 1 .. run.stages}
Filters == run.main \in {"subprocess", "mr"}
NextOf(c) == IF c = "c1" THEN "c2" ELSE "c3"
PrevOf(c) == IF c = "c3" THEN "c2" ELSE "c1"
First(c) == c = "c1"
Last(c) == c = Stage[run.stages]
Source(c) ==
    IF Filters THEN Supply(c)
    ELSE IF First(c) THEN <<IF run.input THEN "file" ELSE "std", "in">>
    ELSE ToNext(PrevOf(c))
Sink(c) ==
    IF Filters THEN Ingest(c)
    ELSE IF Last(c) THEN <<IF run.output THEN "file" ELSE "std", "out">>
    ELSE ToNext(c)

\* The child that thread x works for, and the other way round.
Of(x) == IF x \in {"t1", "w1"} THEN "c1" ELSE "c2"
ThreadOf(c) == IF c = "c1" THEN "t1" ELSE "t2"
WriterOf(c) == IF c = "c1" THEN "w1" ELSE "w2"

-------------------------------------------------------------------------------
(* What the order of a list promises                                       *)

\* A child duplicates what it needs before it closes it, closes what it opens, and
\* comes to exec.
Tidy(c, s) ==
    /\ s # <<>> => s[Len(s)] \in {<<"exec">>, <<"program">>}
    /\ \A i \in 1 .. Len(s) : s[i][1] \in {"exec", "program"} => i = Len(s)
    /\ \A i \in 1 .. Len(s) : s[i][1] = "open" =>
          /\ ObjectOf(s[i][2]) \in Files /\ s[i][2] \notin Std
          /\ \E j \in 1 .. Len(s) : j > i /\ s[j] = <<"close", s[i][2]>>
    /\ \A i \in 1 .. Len(s) : s[i][1] = "close" => s[i][2] \notin Std
    /\ \A i \in 1 .. Len(s) : s[i][1] = "dup2" =>
          /\ s[i] \in {<<"dup2", R(Source(c)), StdIn>>, <<"dup2", W(Sink(c)), StdOut>>}
          /\ s[i][2] \notin Std
          /\ \A j \in 1 .. Len(s) : s[j] = <<"close", s[i][2]>> => j > i

\* The child's list connects its standard input and output.
Wired(c, s) ==
    /\ R(Source(c)) = StdIn \/ Has(s, <<"dup2", R(Source(c)), StdIn>>)
    /\ W(Sink(c)) = StdOut \/ Has(s, <<"dup2", W(Sink(c)), StdOut>>)

\* The list of a thread: what its forks hand on ...
ForksTidy(s) ==
    \A i \in 1 .. Len(s) : s[i][1] = "fork" =>
        /\ s[i][2] \in Kids
        /\ s[i][3] # <<>> /\ s[i][3][Len(s[i][3])] = <<"exec">>
        /\ Tidy(s[i][2], s[i][3]) /\ Wired(s[i][2], s[i][3])

\* ... a pipe that is open at a fork is closed by the child ...
ForksClose(s) ==
    \A k, i \in 1 .. Len(s) : k < i /\ s[k][1] = "pipe" /\ s[i][1] = "fork" =>
        \A d \in {R(s[k][2]), W(s[k][2])} :
            \/ Closes(s[i][3], d)
            \/ \E j \in 1 .. Len(s) : k < j /\ j < i /\ s[j] = <<"close", d>>

\* ... what the child duplicates is not closed before the fork ...
ForksKeep(s) ==
    \A i, j \in 1 .. Len(s) : s[i][1] = "fork" /\ s[j][1] = "close" /\ j < i =>
        \A m \in 1 .. Len(s[i][3]) : s[i][3][m][1] = "dup2" => s[i][3][m][2] # s[j][2]

\* ... and both ends of every pipe are closed, by the thread or by one it starts.
ClosesAfter(s) ==
    /\ \A i \in 1 .. Len(s) : s[i][1] = "close" => s[i][2] \notin Std
    /\ \A i \in 1 .. Len(s) : s[i][1] \in {"pipe", "pipe2"} =>
          \A d \in {R(s[i][2]), W(s[i][2])} :
              \E j \in 1 .. Len(s) : j > i /\
                  \/ s[j] = <<"close", d>>
                  \/ s[j][1] = "thread" /\ Closes(s[j][3], d)

\* Each child is forked once, the next one after it, and waited for after that.
ForksOnce(s) ==
    /\ \A i, j \in 1 .. Len(s) : s[i][1] = "fork" /\ s[j][1] = "fork" /\ s[i][2] = s[j][2] => i = j
    /\ \A i, j \in 1 .. Len(s) : s[i][1] = "fork" /\ s[j][1] = "waitpid" /\ s[i][2] = s[j][2] => i < j
    /\ \A i \in 1 .. Len(s) : s[i][1] = "waitpid" => s[i][2] \in Kids
    /\ ~Filters => \A i \in 1 .. Len(s) : s[i][1] = "fork" /\ ~Last(s[i][2]) =>
          \E j \in 1 .. Len(s) : j > i /\ s[j][1] = "fork" /\ s[j][2] = NextOf(s[i][2])

\* A pipeline only connects others.
Connects(s) ==
    \A i \in 1 .. Len(s) : s[i][1] \notin {"write", "read", "thread", "join", "pipe2"}

\* A filter's thread touches only what belongs to its own child; it forks after
\* it has made the pipe, writes or has written once, before the pipe is closed, and
\* reads after the fork.
WriterText(c) == <<<<"write", W(Supply(c)), Input>>, <<"close", W(Supply(c))>>>>
Serves(c, s) ==
    /\ run.main = "mr" => \A i \in 1 .. Len(s) : s[i][1] # "pipe" /\ s[i] # <<"close", W(Supply(c))>>
    /\ \A i \in 1 .. Len(s) :
          /\ s[i][1] \in {"fork", "waitpid"} => s[i][2] = c
          /\ s[i][1] \in {"pipe", "pipe2"} => s[i][2] \in {Supply(c), Ingest(c)}
          /\ s[i][1] = "close" => s[i][2][1] = c
          /\ s[i][1] = "read" => s[i][2] = R(Ingest(c))
          /\ s[i][1] = "write" => s[i][2] = W(Supply(c))
          /\ s[i][1] = "thread" => s[i][2] = WriterOf(c) /\ s[i][3] = WriterText(c)
          /\ s[i][1] \in {"thread", "join"} => run.main = "mr"
    /\ \A i \in 1 .. Len(s) : s[i][1] \in {"pipe", "pipe2"} =>
          \E j \in 1 .. Len(s) : j > i /\ s[j][1] = "fork"
    /\ \A i, j \in 1 .. Len(s) : s[i][1] = "fork" /\ s[j][1] = "read" => i < j
    /\ \A i, j \in 1 .. Len(s) :
          s[i][1] \in {"write", "thread"} /\ s[j][1] \in {"write", "thread"} => i = j
    /\ \A i, j \in 1 .. Len(s) :
          s[i][1] \in {"write", "thread"} /\ s[j] = <<"close", W(Supply(c))>> =>
              s[i][1] = "write" /\ i < j
    /\ \A i, j \in 1 .. Len(s) :
          s[i][1] \in {"write", "thread"} /\ s[j][1] \in {"pipe", "pipe2"} => j < i

Orderly(x, s) ==
    /\ ForksTidy(s) /\ ForksClose(s) /\ ForksKeep(s) /\ ClosesAfter(s) /\ ForksOnce(s)
    /\ IF Filters THEN Serves(Of(x), s) ELSE Connects(s)
    /\ x = "t2" /\ run.main # "mr" => s = <<>>

-------------------------------------------------------------------------------
(* The inductive invariant                                                 *)

Types ==
    /\ run \in Runs
    /\ code \in [Threads \cup Writers \cup Children -> Seq(ParentCalls \cup ChildCalls)]
    /\ \A x \in Threads : code[x] \in Seq(ParentCalls)
    /\ \A c \in Children : code[c] \in Seq(ChildCalls)
    /\ DOMAIN fds = Processes
    /\ cloexec \subseteq Pipes
    /\ content \in [Objects -> Nat]
    /\ owed \in [Children -> Nat] /\ took \in [Children -> Nat]
    /\ got \in [Threads -> Nat]
    /\ died \in BOOLEAN /\ gaveUp \in BOOLEAN
    /\ quit \subseteq Children /\ reaped \subseteq Kids
    /\ \A o \in Objects \ Files : content[o] =< Capacity

\* The lists.
Text ==
    /\ \A x \in Threads : Orderly(x, code[x])
    /\ \A w \in Writers :
          \/ code[w] = <<>>
          \/ /\ run.main = "mr"
             /\ \/ code[w] = <<<<"close", W(Supply(Of(w)))>>>>
                \/ \E n \in 1 .. Input :
                      code[w] = <<<<"write", W(Supply(Of(w))), n>>, <<"close", W(Supply(Of(w)))>>>>

\* A list forks child c, sends something to a child, makes its supply, reads.
Forks(s, c) == \E i \in 1 .. Len(s) : s[i][1] = "fork" /\ s[i][2] = c
Sends(s) == \E i \in 1 .. Len(s) : s[i][1] \in {"write", "thread"}
Makes(s, c) == \E i \in 1 .. Len(s) : s[i] \in {<<"pipe", Supply(c)>>, <<"pipe2", Supply(c)>>}
Reads(s) == \E i \in 1 .. Len(s) : s[i][1] = "read"
Forking(c) == \E x \in Threads : Forks(code[x], c)

\* The list s and the table f of a child that runs fit.
Fitted(c, s, f, C) ==
    /\ Tidy(c, s)
    /\ Std \subseteq DOMAIN f /\ DOMAIN f \subseteq Ends
    /\ \A d \in DOMAIN f \ Std :
          /\ f[d] = d
          /\ Closes(s, d) \/ (ObjectOf(d) \in C /\ Has(s, <<"exec">>))
    /\ \A i \in 1 .. Len(s) : s[i][1] = "dup2" =>
          \/ s[i][2] \in DOMAIN f
          \/ \E j \in 1 .. Len(s) : j < i /\ s[j] = <<"open", s[i][2]>>
    /\ f[StdIn] = R(Source(c)) \/ Has(s, <<"dup2", R(Source(c)), StdIn>>)
    /\ f[StdOut] = W(Sink(c)) \/ Has(s, <<"dup2", W(Sink(c)), StdOut>>)
    /\ f[StdIn] \in Ends /\ f[StdOut] \in Ends

\* A child, from its fork to its end.
Childhood ==
    \A c \in Children :
        /\ code[c] # <<>> => c \in Kids /\ ~Forking(c) /\ Fitted(c, code[c], fds[c], cloexec)
        /\ code[c] = <<>> => fds[c] = NoTable

\* The parent's table, of descriptors D: what a fork that is still to come in the list
\* s would hand on is closed there or before, or on exec; what that child needs is
\* there or still to be made; everything will be closed.
Handed(s, i, d, C) ==
    \/ ObjectOf(d) \in C
    \/ Closes(s[i][3], d)
    \/ \E j \in 1 .. Len(s) : j < i /\ s[j] = <<"close", d>>
Needed(s, i, d, m, D) ==
    \/ d \in D
    \/ \E j \in 1 .. Len(s[i][3]) : j < m /\ s[i][3][j] = <<"open", d>>
    \/ \E j \in 1 .. Len(s) :
          j < i /\ s[j][1] \in {"pipe", "pipe2"} /\ d \in {R(s[j][2]), W(s[j][2])}
Fed(s, D, C) ==
    \A i \in 1 .. Len(s) : s[i][1] = "fork" =>
        /\ \A d \in D \ Std : Handed(s, i, d, C)
        /\ \A m \in 1 .. Len(s[i][3]) : s[i][3][m][1] = "dup2" => Needed(s, i, s[i][3][m][2], m, D)
ClosesSoon(s, d) ==
    \/ Closes(s, d)
    \/ \E i \in 1 .. Len(s) : s[i][1] = "thread" /\ Closes(s[i][3], d)
WillClose(d) == \E x \in Threads \cup Writers : ClosesSoon(code[x], d)
Parenthood ==
    /\ died => fds[Parent] = NoTable
    /\ ~died =>
          /\ Std \subseteq DOMAIN fds[Parent] /\ DOMAIN fds[Parent] \subseteq Ends
          /\ \A d \in DOMAIN fds[Parent] : fds[Parent][d] = d
          /\ \A x \in Threads : Fed(code[x], DOMAIN fds[Parent], cloexec)
          /\ ~gaveUp => \A d \in DOMAIN fds[Parent] \ Std : WillClose(d)

Waiting ==
    /\ \A c \in reaped : code[c] = <<>> /\ ~Forking(c)
    /\ ~gaveUp => \A c \in Kids \ reaped : \E x \in Threads : Has(code[x], <<"waitpid", c>>)

\* What is written to child c: not yet, or by the thread, or by its writer.
Writes(s, c, n) ==
    \/ Has(s, <<"write", W(Supply(c)), n>>)
    \/ n = Input /\ \E i \in 1 .. Len(s) : s[i][1] = "thread"
PendingWrite(c, n) ==
    \/ Writes(code[ThreadOf(c)], c, n)
    \/ Has(code[WriterOf(c)], <<"write", W(Supply(c)), n>>)

\* The write end of the supply is open until everything is written.
Supplying ==
    Filters /\ ~died => \A c \in Kids :
        /\ Sends(code[ThreadOf(c)]) => code[WriterOf(c)] = <<>>
        /\ (\E n \in Nat : PendingWrite(c, n)) =>
              W(Supply(c)) \in DOMAIN fds[Parent] \/ Makes(code[ThreadOf(c)], c)

Done(c) == code[c] = <<>> /\ ~Forking(c)
Good == ~died /\ ~gaveUp /\ quit = {}

\* The data: what was given, taken, owed and sent on adds up.
FilterFlow(c) ==
    /\ \A n \in Nat : PendingWrite(c, n) => content[Supply(c)] + took[c] + n = Input
    /\ (\A n \in Nat : ~PendingWrite(c, n)) => content[Supply(c)] + took[c] = Input
    /\ took[c] * Expansion = owed[c] + content[Ingest(c)] + got[ThreadOf(c)]
    /\ Done(c) => /\ owed[c] = 0 /\ content[Supply(c)] = 0
                  /\ \A n \in Nat : ~PendingWrite(c, n)
    /\ ~Reads(code[ThreadOf(c)]) => Done(c) /\ content[Ingest(c)] = 0
StageFlow(c) ==
    /\ First(c) => content[Source(c)] + took[c] = Input
    /\ took[c] * Expansion =
          owed[c] + content[Sink(c)] + (IF Last(c) THEN 0 ELSE took[NextOf(c)])
    /\ Done(c) => /\ owed[c] = 0 /\ content[Source(c)] = 0
                  /\ ~First(c) => Done(PrevOf(c))
Unused ==
    /\ content[<<IF run.input THEN "std" ELSE "file", "in">>] = Input
    /\ content[<<IF run.output THEN "std" ELSE "file", "out">>] = 0
Flow ==
    Good => /\ \A c \in Kids : IF Filters THEN FilterFlow(c) ELSE StageFlow(c)
            /\ ~Filters => Unused

PInv == Types /\ Text /\ Childhood /\ Parenthood /\ Waiting /\ Supplying /\ Flow

-------------------------------------------------------------------------------
(* Promises hold of what is left                                           *)

\* t is s without its first element; t is s with another count in its first write.
Rest(s, t) ==
    /\ Len(s) \in Nat /\ Len(t) \in Nat /\ Len(s) = Len(t) + 1
    /\ \A i \in 1 .. Len(t) : t[i] = s[i + 1]
Recount(s, t) ==
    /\ Len(s) \in Nat /\ Len(s) >= 1 /\ Len(t) = Len(s)
    /\ \A i \in 1 .. Len(t) : i > 1 => t[i] = s[i]
    /\ s[1][1] = "write" /\ t[1][1] = "write" /\ t[1][2] = s[1][2]

\* Tail leaves the rest.
LEMMA TailIsRest ==
    ASSUME NEW S, NEW s \in Seq(S), s # <<>>
    PROVE  Rest(s, Tail(s)) /\ Tail(s) \in Seq(S) /\ Head(s) = s[1] /\ s[1] \in S
BY DEF Rest

\* A call of s is the first or in the rest, and the other way round.
LEMMA RestHas ==
    ASSUME NEW s, NEW t, Rest(s, t), NEW call
    PROVE  /\ Has(t, call) => Has(s, call)
           /\ Has(s, call) => s[1] = call \/ Has(t, call)
           /\ s[1] = call => Has(s, call)
<1>1. \A i \in 1 .. Len(t) : i + 1 \in 1 .. Len(s) /\ t[i] = s[i + 1]
  BY DEF Rest
<1>2. \A i \in 1 .. Len(s) : i = 1 \/ (i - 1 \in 1 .. Len(t) /\ t[i - 1] = s[i])
  BY DEF Rest
<1>3. 1 \in 1 .. Len(s)
  BY DEF Rest
<1> QED BY <1>1, <1>2, <1>3 DEF Has

\* The children's lists.
LEMMA TidyRest ==
    ASSUME NEW c, NEW s, NEW t, Rest(s, t), Tidy(c, s)
    PROVE  Tidy(c, t)
<1>0. Len(s) \in Nat /\ Len(t) \in Nat /\ Len(s) = Len(t) + 1
  BY DEF Rest
<1>1. \A i \in 1 .. Len(t) : i + 1 \in 1 .. Len(s) /\ t[i] = s[i + 1]
  BY DEF Rest
<1>2. \A i \in 1 .. Len(s) : i = 1 \/ (i - 1 \in 1 .. Len(t) /\ t[i - 1] = s[i])
  BY DEF Rest
<1>3. t # <<>> => t[Len(t)] \in {<<"exec">>, <<"program">>}
  BY <1>0, <1>1 DEF Tidy
<1>4. \A i \in 1 .. Len(t) : t[i][1] \in {"exec", "program"} => i = Len(t)
  BY <1>0, <1>1 DEF Tidy
<1>5. \A i \in 1 .. Len(t) : t[i][1] = "open" =>
          /\ ObjectOf(t[i][2]) \in Files /\ t[i][2] \notin Std
          /\ \E j \in 1 .. Len(t) : j > i /\ t[j] = <<"close", t[i][2]>>
  <2> SUFFICES ASSUME NEW i \in 1 .. Len(t), t[i][1] = "open"
               PROVE  /\ ObjectOf(t[i][2]) \in Files /\ t[i][2] \notin Std
                      /\ \E j \in 1 .. Len(t) : j > i /\ t[j] = <<"close", t[i][2]>>
    OBVIOUS
  <2>1. ObjectOf(t[i][2]) \in Files /\ t[i][2] \notin Std
    BY <1>1 DEF Tidy
  <2>a. \A k \in 1 .. Len(s) : s[k][1] = "open" =>
            \E j \in 1 .. Len(s) : j > k /\ s[j] = <<"close", s[k][2]>>
    BY DEF Tidy
  <2>b. i + 1 \in 1 .. Len(s) /\ t[i] = s[i + 1]
    BY <1>1
  <2>2. PICK j \in 1 .. Len(s) : j > i + 1 /\ s[j] = <<"close", t[i][2]>>
    BY <2>a, <2>b
  <2>3. j - 1 \in 1 .. Len(t) /\ j - 1 > i /\ t[j - 1] = <<"close", t[i][2]>>
    BY <1>0, <1>2, <2>2
  <2> QED BY <2>1, <2>3
<1>6. \A i \in 1 .. Len(t) : t[i][1] = "close" => t[i][2] \notin Std
  BY <1>1 DEF Tidy
<1>7. \A i \in 1 .. Len(t) : t[i][1] = "dup2" =>
          /\ t[i] \in {<<"dup2", R(Source(c)), StdIn>>, <<"dup2", W(Sink(c)), StdOut>>}
          /\ t[i][2] \notin Std
          /\ \A j \in 1 .. Len(t) : t[j] = <<"close", t[i][2]>> => j > i
  <2>1. \A k \in 1 .. Len(s) : s[k][1] = "dup2" =>
          /\ s[k] \in {<<"dup2", R(Source(c)), StdIn>>, <<"dup2", W(Sink(c)), StdOut>>}
          /\ s[k][2] \notin Std
          /\ \A j \in 1 .. Len(s) : s[j] = <<"close", s[k][2]>> => j > k
    BY DEF Tidy
  <2> SUFFICES ASSUME NEW i \in 1 .. Len(t), t[i][1] = "dup2"
               PROVE  /\ t[i] \in {<<"dup2", R(Source(c)), StdIn>>, <<"dup2", W(Sink(c)), StdOut>>}
                      /\ t[i][2] \notin Std
                      /\ \A j \in 1 .. Len(t) : t[j] = <<"close", t[i][2]>> => j > i
    OBVIOUS
  <2>2. i + 1 \in 1 .. Len(s) /\ t[i] = s[i + 1]
    BY <1>1
  <2>3. \A j \in 1 .. Len(s) : s[j] = <<"close", t[i][2]>> => j > i + 1
    BY <2>1, <2>2
  <2>4. \A j \in 1 .. Len(t) : t[j] = <<"close", t[i][2]>> => j > i
    BY <1>0, <1>1, <2>3
  <2> QED BY <2>1, <2>2, <2>4
<1> QED BY <1>3, <1>4, <1>5, <1>6, <1>7 DEF Tidy

\* The threads' lists.
LEMMA OrderlyRest ==
    ASSUME NEW x, NEW s, NEW t, Rest(s, t), Orderly(x, s)
    PROVE  Orderly(x, t)
<1>0. Len(s) \in Nat /\ Len(t) \in Nat /\ Len(s) = Len(t) + 1 /\ s # <<>>
  BY DEF Rest
<1>1. \A i \in 1 .. Len(t) : i + 1 \in 1 .. Len(s) /\ t[i] = s[i + 1]
  BY DEF Rest
<1>2. \A i \in 1 .. Len(s) : i = 1 \/ (i - 1 \in 1 .. Len(t) /\ t[i - 1] = s[i])
  BY DEF Rest
<1>3. ForksTidy(t)
  BY <1>1 DEF Orderly, ForksTidy
<1>4. ForksClose(t)
  <2> SUFFICES ASSUME NEW k \in 1 .. Len(t), NEW i \in 1 .. Len(t), k < i, t[k][1] = "pipe",
                      t[i][1] = "fork", NEW d \in {R(t[k][2]), W(t[k][2])},
                      ~Closes(t[i][3], d)
               PROVE  \E j \in 1 .. Len(t) : k < j /\ j < i /\ t[j] = <<"close", d>>
    BY DEF ForksClose
  <2>a. \A m, n \in 1 .. Len(s) : m < n /\ s[m][1] = "pipe" /\ s[n][1] = "fork" =>
            \A e \in {R(s[m][2]), W(s[m][2])} :
                \/ Closes(s[n][3], e)
                \/ \E j \in 1 .. Len(s) : m < j /\ j < n /\ s[j] = <<"close", e>>
    BY DEF Orderly, ForksClose
  <2>b. k + 1 \in 1 .. Len(s) /\ t[k] = s[k + 1] /\ i + 1 \in 1 .. Len(s) /\ t[i] = s[i + 1] /\ k + 1 < i + 1
    BY <1>1
  <2>1. PICK j \in 1 .. Len(s) : k + 1 < j /\ j < i + 1 /\ s[j] = <<"close", d>>
    <3>1. /\ s[k + 1][1] = "pipe" /\ s[i + 1][1] = "fork"
          /\ d \in {R(s[k + 1][2]), W(s[k + 1][2])} /\ ~Closes(s[i + 1][3], d)
      BY <2>b
    <3> QED BY <2>a, <2>b, <3>1
  <2>2. j - 1 \in 1 .. Len(t) /\ k < j - 1 /\ j - 1 < i /\ t[j - 1] = <<"close", d>>
    BY <1>0, <1>2, <2>1
  <2> QED BY <2>2
<1>5. ForksKeep(t)
  <2> SUFFICES ASSUME NEW i \in 1 .. Len(t), NEW j \in 1 .. Len(t), t[i][1] = "fork",
                      t[j][1] = "close", j < i, NEW m \in 1 .. Len(t[i][3]), t[i][3][m][1] = "dup2"
               PROVE  t[i][3][m][2] # t[j][2]
    BY DEF ForksKeep
  <2>a. \A k, n \in 1 .. Len(s) : s[k][1] = "fork" /\ s[n][1] = "close" /\ n < k =>
            \A l \in 1 .. Len(s[k][3]) : s[k][3][l][1] = "dup2" => s[k][3][l][2] # s[n][2]
    BY DEF Orderly, ForksKeep
  <2>b. i + 1 \in 1 .. Len(s) /\ t[i] = s[i + 1] /\ j + 1 \in 1 .. Len(s) /\ t[j] = s[j + 1] /\ j + 1 < i + 1
    BY <1>1
  <2>c. s[i + 1][1] = "fork" /\ s[j + 1][1] = "close" /\ m \in 1 .. Len(s[i + 1][3]) /\ s[i + 1][3][m][1] = "dup2"
    BY <2>b
  <2>d. s[i + 1][3][m][2] # s[j + 1][2]
    BY <2>a, <2>b, <2>c
  <2> QED BY <2>b, <2>d
<1>6. ClosesAfter(t)
  <2>1. \A i \in 1 .. Len(t) : t[i][1] = "close" => t[i][2] \notin Std
    BY <1>1 DEF Orderly, ClosesAfter
  <2>2. ASSUME NEW i \in 1 .. Len(t), t[i][1] \in {"pipe", "pipe2"},
               NEW d \in {R(t[i][2]), W(t[i][2])}
        PROVE  \E j \in 1 .. Len(t) : j > i /\
                  \/ t[j] = <<"close", d>>
                  \/ t[j][1] = "thread" /\ Closes(t[j][3], d)
    <3>1. PICK j \in 1 .. Len(s) : j > i + 1 /\
                  \/ s[j] = <<"close", d>>
                  \/ s[j][1] = "thread" /\ Closes(s[j][3], d)
      <4>1. \A k \in 1 .. Len(s) : s[k][1] \in {"pipe", "pipe2"} =>
                \A e \in {R(s[k][2]), W(s[k][2])} :
                    \E j \in 1 .. Len(s) : j > k /\
                        \/ s[j] = <<"close", e>>
                        \/ s[j][1] = "thread" /\ Closes(s[j][3], e)
        BY DEF Orderly, ClosesAfter
      <4>2. i + 1 \in 1 .. Len(s) /\ t[i] = s[i + 1]
        BY <1>1
      <4> QED BY <2>2, <4>1, <4>2
    <3>2. j - 1 \in 1 .. Len(t) /\ j - 1 > i /\ t[j - 1] = s[j]
      BY <1>0, <1>2, <3>1
    <3> QED BY <3>1, <3>2
  <2> QED BY <2>1, <2>2 DEF ClosesAfter
<1>7. ForksOnce(t)
  <2>1. /\ \A i, j \in 1 .. Len(t) : t[i][1] = "fork" /\ t[j][1] = "fork" /\ t[i][2] = t[j][2] => i = j
        /\ \A i, j \in 1 .. Len(t) : t[i][1] = "fork" /\ t[j][1] = "waitpid" /\ t[i][2] = t[j][2] => i < j
        /\ \A i \in 1 .. Len(t) : t[i][1] = "waitpid" => t[i][2] \in Kids
    <3>1. /\ \A i, j \in 1 .. Len(s) : s[i][1] = "fork" /\ s[j][1] = "fork" /\ s[i][2] = s[j][2] => i = j
          /\ \A i, j \in 1 .. Len(s) : s[i][1] = "fork" /\ s[j][1] = "waitpid" /\ s[i][2] = s[j][2] => i < j
          /\ \A i \in 1 .. Len(s) : s[i][1] = "waitpid" => s[i][2] \in Kids
      BY DEF Orderly, ForksOnce
    <3>2. ASSUME NEW i \in 1 .. Len(t), NEW j \in 1 .. Len(t)
          PROVE  /\ t[i][1] = "fork" /\ t[j][1] = "fork" /\ t[i][2] = t[j][2] => i = j
                 /\ t[i][1] = "fork" /\ t[j][1] = "waitpid" /\ t[i][2] = t[j][2] => i < j
                 /\ t[i][1] = "waitpid" => t[i][2] \in Kids
      <4>1. i + 1 \in 1 .. Len(s) /\ t[i] = s[i + 1] /\ j + 1 \in 1 .. Len(s) /\ t[j] = s[j + 1]
        BY <1>1
      <4>2. (i + 1 = j + 1 => i = j) /\ (i + 1 < j + 1 => i < j)
        OBVIOUS
      <4> QED BY <3>1, <4>1, <4>2
    <3> QED BY <3>2
  <2>2. ASSUME ~Filters, NEW i \in 1 .. Len(t), t[i][1] = "fork", ~Last(t[i][2])
        PROVE  \E j \in 1 .. Len(t) : j > i /\ t[j][1] = "fork" /\ t[j][2] = NextOf(t[i][2])
    <3>1. PICK j \in 1 .. Len(s) : j > i + 1 /\ s[j][1] = "fork" /\ s[j][2] = NextOf(t[i][2])
      <4>1. \A k \in 1 .. Len(s) : s[k][1] = "fork" /\ ~Last(s[k][2]) =>
                \E j \in 1 .. Len(s) : j > k /\ s[j][1] = "fork" /\ s[j][2] = NextOf(s[k][2])
        BY <2>2 DEF Orderly, ForksOnce
      <4>2. i + 1 \in 1 .. Len(s) /\ t[i] = s[i + 1]
        BY <1>1
      <4> QED BY <2>2, <4>1, <4>2
    <3>2. j - 1 \in 1 .. Len(t) /\ j - 1 > i /\ t[j - 1] = s[j]
      BY <1>0, <1>2, <3>1
    <3> QED BY <3>1, <3>2
  <2> QED BY <2>1, <2>2 DEF ForksOnce
<1>8. ASSUME Filters, NEW c, Serves(c, s) PROVE Serves(c, t)
  <2>1. ASSUME NEW i \in 1 .. Len(t), t[i][1] \in {"pipe", "pipe2"}
        PROVE  \E j \in 1 .. Len(t) : j > i /\ t[j][1] = "fork"
    <3>1. PICK j \in 1 .. Len(s) : j > i + 1 /\ s[j][1] = "fork"
      BY <1>1, <1>8, <2>1 DEF Serves
    <3>2. j - 1 \in 1 .. Len(t) /\ j - 1 > i /\ t[j - 1] = s[j]
      BY <1>0, <1>2, <3>1
    <3> QED BY <3>1, <3>2
  <2>2. \A i \in 1 .. Len(t) :
          /\ t[i][1] \in {"fork", "waitpid"} => t[i][2] = c
          /\ t[i][1] \in {"pipe", "pipe2"} => t[i][2] \in {Supply(c), Ingest(c)}
          /\ t[i][1] = "close" => t[i][2][1] = c
          /\ t[i][1] = "read" => t[i][2] = R(Ingest(c))
          /\ t[i][1] = "write" => t[i][2] = W(Supply(c))
          /\ t[i][1] = "thread" => t[i][2] = WriterOf(c) /\ t[i][3] = WriterText(c)
          /\ t[i][1] \in {"thread", "join"} => run.main = "mr"
    BY <1>1, <1>8 DEF Serves
  <2>3. run.main = "mr" => \A i \in 1 .. Len(t) : t[i][1] # "pipe" /\ t[i] # <<"close", W(Supply(c))>>
    BY <1>1, <1>8 DEF Serves
  <2>4. /\ \A i, j \in 1 .. Len(t) : t[i][1] = "fork" /\ t[j][1] = "read" => i < j
        /\ \A i, j \in 1 .. Len(t) :
              t[i][1] \in {"write", "thread"} /\ t[j][1] \in {"write", "thread"} => i = j
        /\ \A i, j \in 1 .. Len(t) :
              t[i][1] \in {"write", "thread"} /\ t[j] = <<"close", W(Supply(c))>> =>
                  t[i][1] = "write" /\ i < j
        /\ \A i, j \in 1 .. Len(t) :
              t[i][1] \in {"write", "thread"} /\ t[j][1] \in {"pipe", "pipe2"} => j < i
    <3>1. /\ \A i, j \in 1 .. Len(s) : s[i][1] = "fork" /\ s[j][1] = "read" => i < j
          /\ \A i, j \in 1 .. Len(s) :
                s[i][1] \in {"write", "thread"} /\ s[j][1] \in {"write", "thread"} => i = j
          /\ \A i, j \in 1 .. Len(s) :
                s[i][1] \in {"write", "thread"} /\ s[j] = <<"close", W(Supply(c))>> =>
                    s[i][1] = "write" /\ i < j
          /\ \A i, j \in 1 .. Len(s) :
                s[i][1] \in {"write", "thread"} /\ s[j][1] \in {"pipe", "pipe2"} => j < i
      BY <1>8 DEF Serves
    <3>2. ASSUME NEW i \in 1 .. Len(t), NEW j \in 1 .. Len(t)
          PROVE  /\ t[i][1] = "fork" /\ t[j][1] = "read" => i < j
                 /\ t[i][1] \in {"write", "thread"} /\ t[j][1] \in {"write", "thread"} => i = j
                 /\ t[i][1] \in {"write", "thread"} /\ t[j] = <<"close", W(Supply(c))>> =>
                        t[i][1] = "write" /\ i < j
                 /\ t[i][1] \in {"write", "thread"} /\ t[j][1] \in {"pipe", "pipe2"} => j < i
      <4>1. i + 1 \in 1 .. Len(s) /\ t[i] = s[i + 1] /\ j + 1 \in 1 .. Len(s) /\ t[j] = s[j + 1]
        BY <1>1
      <4>2. (i + 1 = j + 1 => i = j) /\ (i + 1 < j + 1 => i < j) /\ (j + 1 < i + 1 => j < i)
        OBVIOUS
      <4> QED BY <3>1, <4>1, <4>2
    <3> QED BY <3>2
  <2> QED BY <2>1, <2>2, <2>3, <2>4 DEF Serves
<1>9. ~Filters => Connects(t)
  BY <1>1 DEF Orderly, Connects
<1>10. x = "t2" /\ run.main # "mr" => t = <<>>
  BY <1>0 DEF Orderly
<1> QED BY <1>3, <1>4, <1>5, <1>6, <1>7, <1>8, <1>9, <1>10 DEF Orderly

\* A write that goes on changes its count only.
LEMMA OrderlyRecount ==
    ASSUME NEW x, NEW s, NEW t, Recount(s, t), Orderly(x, s)
    PROVE  Orderly(x, t)
<1>0. Len(s) \in Nat /\ Len(t) = Len(s) /\ s # <<>>
  BY DEF Recount
<1>1. \A i \in 1 .. Len(s) :
         /\ t[i][1] = s[i][1] /\ t[i][2] = s[i][2]
         /\ s[i][1] # "write" => t[i] = s[i]
         /\ \A d : t[i] = <<"close", d>> <=> s[i] = <<"close", d>>
  BY DEF Recount
<1>3. ForksTidy(t)
  BY <1>0, <1>1 DEF Orderly, ForksTidy
<1>4. ForksClose(t)
  <2> SUFFICES ASSUME NEW k \in 1 .. Len(t), NEW i \in 1 .. Len(t), k < i, t[k][1] = "pipe",
                      t[i][1] = "fork", NEW d \in {R(t[k][2]), W(t[k][2])},
                      ~Closes(t[i][3], d)
               PROVE  \E j \in 1 .. Len(t) : k < j /\ j < i /\ t[j] = <<"close", d>>
    BY DEF ForksClose
  <2>1. s[k][1] = "pipe" /\ s[i][1] = "fork" /\ d \in {R(s[k][2]), W(s[k][2])} /\ ~Closes(s[i][3], d)
    BY <1>0, <1>1
  <2>2. PICK j \in 1 .. Len(s) : k < j /\ j < i /\ s[j] = <<"close", d>>
    BY <1>0, <2>1 DEF Orderly, ForksClose
  <2> QED BY <1>0, <1>1, <2>2
<1>5. ForksKeep(t)
  <2> SUFFICES ASSUME NEW i \in 1 .. Len(t), NEW j \in 1 .. Len(t), t[i][1] = "fork",
                      t[j][1] = "close", j < i, NEW m \in 1 .. Len(t[i][3]), t[i][3][m][1] = "dup2"
               PROVE  t[i][3][m][2] # t[j][2]
    BY DEF ForksKeep
  <2>a. \A k, n \in 1 .. Len(s) : s[k][1] = "fork" /\ s[n][1] = "close" /\ n < k =>
            \A l \in 1 .. Len(s[k][3]) : s[k][3][l][1] = "dup2" => s[k][3][l][2] # s[n][2]
    BY DEF Orderly, ForksKeep
  <2>b. i \in 1 .. Len(s) /\ t[i] = s[i] /\ j \in 1 .. Len(s) /\ t[j][1] = s[j][1] /\ t[j][2] = s[j][2]
    BY <1>0, <1>1
  <2>c. s[i][1] = "fork" /\ s[j][1] = "close" /\ m \in 1 .. Len(s[i][3]) /\ s[i][3][m][1] = "dup2"
    BY <2>b
  <2>d. s[i][3][m][2] # s[j][2]
    BY <2>a, <2>b, <2>c
  <2> QED BY <2>b, <2>d
<1>6. ClosesAfter(t)
  <2>1. \A i \in 1 .. Len(s) : t[i][1] = "close" => t[i][2] \notin Std
    BY <1>1 DEF Orderly, ClosesAfter
  <2>2. ASSUME NEW i \in 1 .. Len(s), t[i][1] \in {"pipe", "pipe2"},
               NEW d \in {R(t[i][2]), W(t[i][2])}
        PROVE  \E j \in 1 .. Len(s) : j > i /\
                  \/ t[j] = <<"close", d>>
                  \/ t[j][1] = "thread" /\ Closes(t[j][3], d)
    <3>1. s[i][1] \in {"pipe", "pipe2"} /\ d \in {R(s[i][2]), W(s[i][2])}
      BY <1>1, <2>2
    <3>2. PICK j \in 1 .. Len(s) : j > i /\
                  \/ s[j] = <<"close", d>>
                  \/ s[j][1] = "thread" /\ Closes(s[j][3], d)
      BY <3>1 DEF Orderly, ClosesAfter
    <3>3. (s[j] = <<"close", d>> => t[j] = <<"close", d>>) /\ (s[j][1] = "thread" => t[j] = s[j])
      BY <1>1
    <3> QED BY <3>2, <3>3
  <2> QED BY <1>0, <2>1, <2>2 DEF ClosesAfter
<1>7. ForksOnce(t)
  BY <1>0, <1>1, SMTT(30) DEF Orderly, ForksOnce
<1>8. Filters => Serves(Of(x), t)
  BY <1>0, <1>1, SMTT(30) DEF Orderly, Serves
<1>9. ~Filters => Connects(t)
  BY <1>0, <1>1 DEF Orderly, Connects
<1>10. x = "t2" /\ run.main # "mr" => t = <<>>
  BY <1>0 DEF Orderly
<1> QED BY <1>3, <1>4, <1>5, <1>6, <1>7, <1>8, <1>9, <1>10 DEF Orderly

-------------------------------------------------------------------------------
(* Concatenations, spelled out                                             *)

LEMMA Spell ==
    ASSUME NEW T, NEW s \in Seq(T), NEW t \in Seq(T), NEW v \in Seq(T),
           Len(v) = Len(s) + Len(t),
           \A i \in 1 .. Len(s) : v[i] = s[i],
           \A i \in 1 .. Len(t) : v[Len(s) + i] = t[i]
    PROVE  s \o t = v
<1>1. /\ s \o t \in Seq(T) /\ Len(s \o t) = Len(s) + Len(t)
      /\ \A i \in 1 .. Len(s) + Len(t) : (s \o t)[i] = IF i <= Len(s) THEN s[i] ELSE t[i - Len(s)]
  OBVIOUS
<1>2. \A i \in 1 .. Len(v) : (s \o t)[i] = v[i]
  <2> SUFFICES ASSUME NEW i \in 1 .. Len(v) PROVE (s \o t)[i] = v[i]
    OBVIOUS
  <2>1. CASE i <= Len(s)
    BY <1>1, <2>1
  <2>2. CASE ~(i <= Len(s))
    <3>1. i - Len(s) \in 1 .. Len(t) /\ Len(s) + (i - Len(s)) = i
      BY <2>2
    <3> QED BY <1>1, <2>2, <3>1
  <2> QED BY <2>1, <2>2
<1> QED BY <1>1, <1>2

LEMMA Nothing ==
    ASSUME NEW T, NEW s \in Seq(T)
    PROVE  s \o <<>> = s /\ <<>> \o s = s
OBVIOUS

LEMMA Spell1_1 ==
    ASSUME NEW a1, NEW b1
    PROVE  <<a1>> \o <<b1>> =
               <<a1, b1>>
<1> DEFINE T == {a1, b1}
           s == <<a1>>
           t == <<b1>>
           u == <<a1, b1>>
<1>1. /\ s \in Seq(T) /\ t \in Seq(T) /\ u \in Seq(T) /\ Len(s) = 1 /\ Len(t) = 1 /\ Len(u) = 2
      /\ \A i \in 1 .. 1 : u[i] = s[i]
      /\ \A i \in 1 .. 1 : u[1 + i] = t[i]
  OBVIOUS
<1>2. s \o t = u
  <2> HIDE DEF s, t, u, T
  <2>1. /\ Len(u) = Len(s) + Len(t) /\ \A i \in 1 .. Len(s) : u[i] = s[i]
        /\ \A i \in 1 .. Len(t) : u[Len(s) + i] = t[i]
    BY <1>1
  <2> QED BY <1>1, <2>1, Spell
<1> QED BY <1>2

LEMMA Spell2_1 ==
    ASSUME NEW a1, NEW a2, NEW b1
    PROVE  <<a1, a2>> \o <<b1>> =
               <<a1, a2, b1>>
<1> DEFINE T == {a1, a2, b1}
           s == <<a1, a2>>
           t == <<b1>>
           u == <<a1, a2, b1>>
<1>1. /\ s \in Seq(T) /\ t \in Seq(T) /\ u \in Seq(T) /\ Len(s) = 2 /\ Len(t) = 1 /\ Len(u) = 3
      /\ \A i \in 1 .. 2 : u[i] = s[i]
      /\ \A i \in 1 .. 1 : u[2 + i] = t[i]
  OBVIOUS
<1>2. s \o t = u
  <2> HIDE DEF s, t, u, T
  <2>1. /\ Len(u) = Len(s) + Len(t) /\ \A i \in 1 .. Len(s) : u[i] = s[i]
        /\ \A i \in 1 .. Len(t) : u[Len(s) + i] = t[i]
    BY <1>1
  <2> QED BY <1>1, <2>1, Spell
<1> QED BY <1>2

LEMMA Spell3_1 ==
    ASSUME NEW a1, NEW a2, NEW a3, NEW b1
    PROVE  <<a1, a2, a3>> \o <<b1>> =
               <<a1, a2, a3, b1>>
<1> DEFINE T == {a1, a2, a3, b1}
           s == <<a1, a2, a3>>
           t == <<b1>>
           u == <<a1, a2, a3, b1>>
<1>1. /\ s \in Seq(T) /\ t \in Seq(T) /\ u \in Seq(T) /\ Len(s) = 3 /\ Len(t) = 1 /\ Len(u) = 4
      /\ \A i \in 1 .. 3 : u[i] = s[i]
      /\ \A i \in 1 .. 1 : u[3 + i] = t[i]
  OBVIOUS
<1>2. s \o t = u
  <2> HIDE DEF s, t, u, T
  <2>1. /\ Len(u) = Len(s) + Len(t) /\ \A i \in 1 .. Len(s) : u[i] = s[i]
        /\ \A i \in 1 .. Len(t) : u[Len(s) + i] = t[i]
    BY <1>1
  <2> QED BY <1>1, <2>1, Spell
<1> QED BY <1>2

LEMMA Spell5_1 ==
    ASSUME NEW a1, NEW a2, NEW a3, NEW a4, NEW a5, NEW b1
    PROVE  <<a1, a2, a3, a4, a5>> \o <<b1>> =
               <<a1, a2, a3, a4, a5, b1>>
<1> DEFINE T == {a1, a2, a3, a4, a5, b1}
           s == <<a1, a2, a3, a4, a5>>
           t == <<b1>>
           u == <<a1, a2, a3, a4, a5, b1>>
<1>1. /\ s \in Seq(T) /\ t \in Seq(T) /\ u \in Seq(T) /\ Len(s) = 5 /\ Len(t) = 1 /\ Len(u) = 6
      /\ \A i \in 1 .. 5 : u[i] = s[i]
      /\ \A i \in 1 .. 1 : u[5 + i] = t[i]
  OBVIOUS
<1>2. s \o t = u
  <2> HIDE DEF s, t, u, T
  <2>1. /\ Len(u) = Len(s) + Len(t) /\ \A i \in 1 .. Len(s) : u[i] = s[i]
        /\ \A i \in 1 .. Len(t) : u[Len(s) + i] = t[i]
    BY <1>1
  <2> QED BY <1>1, <2>1, Spell
<1> QED BY <1>2

LEMMA Spell6_1 ==
    ASSUME NEW a1, NEW a2, NEW a3, NEW a4, NEW a5, NEW a6, NEW b1
    PROVE  <<a1, a2, a3, a4, a5, a6>> \o <<b1>> =
               <<a1, a2, a3, a4, a5, a6, b1>>
<1> DEFINE T == {a1, a2, a3, a4, a5, a6, b1}
           s == <<a1, a2, a3, a4, a5, a6>>
           t == <<b1>>
           u == <<a1, a2, a3, a4, a5, a6, b1>>
<1>1. /\ s \in Seq(T) /\ t \in Seq(T) /\ u \in Seq(T) /\ Len(s) = 6 /\ Len(t) = 1 /\ Len(u) = 7
      /\ \A i \in 1 .. 6 : u[i] = s[i]
      /\ \A i \in 1 .. 1 : u[6 + i] = t[i]
  OBVIOUS
<1>2. s \o t = u
  <2> HIDE DEF s, t, u, T
  <2>1. /\ Len(u) = Len(s) + Len(t) /\ \A i \in 1 .. Len(s) : u[i] = s[i]
        /\ \A i \in 1 .. Len(t) : u[Len(s) + i] = t[i]
    BY <1>1
  <2> QED BY <1>1, <2>1, Spell
<1> QED BY <1>2

LEMMA Spell9_1 ==
    ASSUME NEW a1, NEW a2, NEW a3, NEW a4, NEW a5, NEW a6, NEW a7, NEW a8,
           NEW a9, NEW b1
    PROVE  <<a1, a2, a3, a4, a5, a6, a7, a8, a9>> \o <<b1>> =
               <<a1, a2, a3, a4, a5, a6, a7, a8, a9, b1>>
<1> DEFINE T == {a1, a2, a3, a4, a5, a6, a7, a8, a9, b1}
           s == <<a1, a2, a3, a4, a5, a6, a7, a8, a9>>
           t == <<b1>>
           u == <<a1, a2, a3, a4, a5, a6, a7, a8, a9, b1>>
<1>1. /\ s \in Seq(T) /\ t \in Seq(T) /\ u \in Seq(T) /\ Len(s) = 9 /\ Len(t) = 1 /\ Len(u) = 10
      /\ \A i \in 1 .. 9 : u[i] = s[i]
      /\ \A i \in 1 .. 1 : u[9 + i] = t[i]
  OBVIOUS
<1>2. s \o t = u
  <2> HIDE DEF s, t, u, T
  <2>1. /\ Len(u) = Len(s) + Len(t) /\ \A i \in 1 .. Len(s) : u[i] = s[i]
        /\ \A i \in 1 .. Len(t) : u[Len(s) + i] = t[i]
    BY <1>1
  <2> QED BY <1>1, <2>1, Spell
<1> QED BY <1>2

LEMMA Spell3_2 ==
    ASSUME NEW a1, NEW a2, NEW a3, NEW b1, NEW b2
    PROVE  <<a1, a2, a3>> \o <<b1, b2>> =
               <<a1, a2, a3, b1, b2>>
<1> DEFINE T == {a1, a2, a3, b1, b2}
           s == <<a1, a2, a3>>
           t == <<b1, b2>>
           u == <<a1, a2, a3, b1, b2>>
<1>1. /\ s \in Seq(T) /\ t \in Seq(T) /\ u \in Seq(T) /\ Len(s) = 3 /\ Len(t) = 2 /\ Len(u) = 5
      /\ \A i \in 1 .. 3 : u[i] = s[i]
      /\ \A i \in 1 .. 2 : u[3 + i] = t[i]
  OBVIOUS
<1>2. s \o t = u
  <2> HIDE DEF s, t, u, T
  <2>1. /\ Len(u) = Len(s) + Len(t) /\ \A i \in 1 .. Len(s) : u[i] = s[i]
        /\ \A i \in 1 .. Len(t) : u[Len(s) + i] = t[i]
    BY <1>1
  <2> QED BY <1>1, <2>1, Spell
<1> QED BY <1>2

LEMMA Spell5_2 ==
    ASSUME NEW a1, NEW a2, NEW a3, NEW a4, NEW a5, NEW b1, NEW b2
    PROVE  <<a1, a2, a3, a4, a5>> \o <<b1, b2>> =
               <<a1, a2, a3, a4, a5, b1, b2>>
<1> DEFINE T == {a1, a2, a3, a4, a5, b1, b2}
           s == <<a1, a2, a3, a4, a5>>
           t == <<b1, b2>>
           u == <<a1, a2, a3, a4, a5, b1, b2>>
<1>1. /\ s \in Seq(T) /\ t \in Seq(T) /\ u \in Seq(T) /\ Len(s) = 5 /\ Len(t) = 2 /\ Len(u) = 7
      /\ \A i \in 1 .. 5 : u[i] = s[i]
      /\ \A i \in 1 .. 2 : u[5 + i] = t[i]
  OBVIOUS
<1>2. s \o t = u
  <2> HIDE DEF s, t, u, T
  <2>1. /\ Len(u) = Len(s) + Len(t) /\ \A i \in 1 .. Len(s) : u[i] = s[i]
        /\ \A i \in 1 .. Len(t) : u[Len(s) + i] = t[i]
    BY <1>1
  <2> QED BY <1>1, <2>1, Spell
<1> QED BY <1>2

LEMMA Spell6_2 ==
    ASSUME NEW a1, NEW a2, NEW a3, NEW a4, NEW a5, NEW a6, NEW b1, NEW b2
    PROVE  <<a1, a2, a3, a4, a5, a6>> \o <<b1, b2>> =
               <<a1, a2, a3, a4, a5, a6, b1, b2>>
<1> DEFINE T == {a1, a2, a3, a4, a5, a6, b1, b2}
           s == <<a1, a2, a3, a4, a5, a6>>
           t == <<b1, b2>>
           u == <<a1, a2, a3, a4, a5, a6, b1, b2>>
<1>1. /\ s \in Seq(T) /\ t \in Seq(T) /\ u \in Seq(T) /\ Len(s) = 6 /\ Len(t) = 2 /\ Len(u) = 8
      /\ \A i \in 1 .. 6 : u[i] = s[i]
      /\ \A i \in 1 .. 2 : u[6 + i] = t[i]
  OBVIOUS
<1>2. s \o t = u
  <2> HIDE DEF s, t, u, T
  <2>1. /\ Len(u) = Len(s) + Len(t) /\ \A i \in 1 .. Len(s) : u[i] = s[i]
        /\ \A i \in 1 .. Len(t) : u[Len(s) + i] = t[i]
    BY <1>1
  <2> QED BY <1>1, <2>1, Spell
<1> QED BY <1>2

LEMMA Spell7_2 ==
    ASSUME NEW a1, NEW a2, NEW a3, NEW a4, NEW a5, NEW a6, NEW a7, NEW b1,
           NEW b2
    PROVE  <<a1, a2, a3, a4, a5, a6, a7>> \o <<b1, b2>> =
               <<a1, a2, a3, a4, a5, a6, a7, b1, b2>>
<1> DEFINE T == {a1, a2, a3, a4, a5, a6, a7, b1, b2}
           s == <<a1, a2, a3, a4, a5, a6, a7>>
           t == <<b1, b2>>
           u == <<a1, a2, a3, a4, a5, a6, a7, b1, b2>>
<1>1. /\ s \in Seq(T) /\ t \in Seq(T) /\ u \in Seq(T) /\ Len(s) = 7 /\ Len(t) = 2 /\ Len(u) = 9
      /\ \A i \in 1 .. 7 : u[i] = s[i]
      /\ \A i \in 1 .. 2 : u[7 + i] = t[i]
  OBVIOUS
<1>2. s \o t = u
  <2> HIDE DEF s, t, u, T
  <2>1. /\ Len(u) = Len(s) + Len(t) /\ \A i \in 1 .. Len(s) : u[i] = s[i]
        /\ \A i \in 1 .. Len(t) : u[Len(s) + i] = t[i]
    BY <1>1
  <2> QED BY <1>1, <2>1, Spell
<1> QED BY <1>2

LEMMA Spell2_3 ==
    ASSUME NEW a1, NEW a2, NEW b1, NEW b2, NEW b3
    PROVE  <<a1, a2>> \o <<b1, b2, b3>> =
               <<a1, a2, b1, b2, b3>>
<1> DEFINE T == {a1, a2, b1, b2, b3}
           s == <<a1, a2>>
           t == <<b1, b2, b3>>
           u == <<a1, a2, b1, b2, b3>>
<1>1. /\ s \in Seq(T) /\ t \in Seq(T) /\ u \in Seq(T) /\ Len(s) = 2 /\ Len(t) = 3 /\ Len(u) = 5
      /\ \A i \in 1 .. 2 : u[i] = s[i]
      /\ \A i \in 1 .. 3 : u[2 + i] = t[i]
  OBVIOUS
<1>2. s \o t = u
  <2> HIDE DEF s, t, u, T
  <2>1. /\ Len(u) = Len(s) + Len(t) /\ \A i \in 1 .. Len(s) : u[i] = s[i]
        /\ \A i \in 1 .. Len(t) : u[Len(s) + i] = t[i]
    BY <1>1
  <2> QED BY <1>1, <2>1, Spell
<1> QED BY <1>2

LEMMA Spell3_3 ==
    ASSUME NEW a1, NEW a2, NEW a3, NEW b1, NEW b2, NEW b3
    PROVE  <<a1, a2, a3>> \o <<b1, b2, b3>> =
               <<a1, a2, a3, b1, b2, b3>>
<1> DEFINE T == {a1, a2, a3, b1, b2, b3}
           s == <<a1, a2, a3>>
           t == <<b1, b2, b3>>
           u == <<a1, a2, a3, b1, b2, b3>>
<1>1. /\ s \in Seq(T) /\ t \in Seq(T) /\ u \in Seq(T) /\ Len(s) = 3 /\ Len(t) = 3 /\ Len(u) = 6
      /\ \A i \in 1 .. 3 : u[i] = s[i]
      /\ \A i \in 1 .. 3 : u[3 + i] = t[i]
  OBVIOUS
<1>2. s \o t = u
  <2> HIDE DEF s, t, u, T
  <2>1. /\ Len(u) = Len(s) + Len(t) /\ \A i \in 1 .. Len(s) : u[i] = s[i]
        /\ \A i \in 1 .. Len(t) : u[Len(s) + i] = t[i]
    BY <1>1
  <2> QED BY <1>1, <2>1, Spell
<1> QED BY <1>2

LEMMA Spell10_3 ==
    ASSUME NEW a1, NEW a2, NEW a3, NEW a4, NEW a5, NEW a6, NEW a7, NEW a8,
           NEW a9, NEW a10, NEW b1, NEW b2, NEW b3
    PROVE  <<a1, a2, a3, a4, a5, a6, a7, a8, a9, a10>> \o <<b1, b2, b3>> =
               <<a1, a2, a3, a4, a5, a6, a7, a8, a9, a10, b1, b2, b3>>
<1> DEFINE T == {a1, a2, a3, a4, a5, a6, a7, a8, a9, a10, b1, b2, b3}
           s == <<a1, a2, a3, a4, a5, a6, a7, a8, a9, a10>>
           t == <<b1, b2, b3>>
           u == <<a1, a2, a3, a4, a5, a6, a7, a8, a9, a10, b1, b2, b3>>
<1>1. /\ s \in Seq(T) /\ t \in Seq(T) /\ u \in Seq(T) /\ Len(s) = 10 /\ Len(t) = 3 /\ Len(u) = 13
      /\ \A i \in 1 .. 10 : u[i] = s[i]
      /\ \A i \in 1 .. 3 : u[10 + i] = t[i]
  OBVIOUS
<1>2. s \o t = u
  <2> HIDE DEF s, t, u, T
  <2>1. /\ Len(u) = Len(s) + Len(t) /\ \A i \in 1 .. Len(s) : u[i] = s[i]
        /\ \A i \in 1 .. Len(t) : u[Len(s) + i] = t[i]
    BY <1>1
  <2> QED BY <1>1, <2>1, Spell
<1> QED BY <1>2

LEMMA Spell3_4 ==
    ASSUME NEW a1, NEW a2, NEW a3, NEW b1, NEW b2, NEW b3, NEW b4
    PROVE  <<a1, a2, a3>> \o <<b1, b2, b3, b4>> =
               <<a1, a2, a3, b1, b2, b3, b4>>
<1> DEFINE T == {a1, a2, a3, b1, b2, b3, b4}
           s == <<a1, a2, a3>>
           t == <<b1, b2, b3, b4>>
           u == <<a1, a2, a3, b1, b2, b3, b4>>
<1>1. /\ s \in Seq(T) /\ t \in Seq(T) /\ u \in Seq(T) /\ Len(s) = 3 /\ Len(t) = 4 /\ Len(u) = 7
      /\ \A i \in 1 .. 3 : u[i] = s[i]
      /\ \A i \in 1 .. 4 : u[3 + i] = t[i]
  OBVIOUS
<1>2. s \o t = u
  <2> HIDE DEF s, t, u, T
  <2>1. /\ Len(u) = Len(s) + Len(t) /\ \A i \in 1 .. Len(s) : u[i] = s[i]
        /\ \A i \in 1 .. Len(t) : u[Len(s) + i] = t[i]
    BY <1>1
  <2> QED BY <1>1, <2>1, Spell
<1> QED BY <1>2

LEMMA Spell5_5 ==
    ASSUME NEW a1, NEW a2, NEW a3, NEW a4, NEW a5, NEW b1, NEW b2, NEW b3,
           NEW b4, NEW b5
    PROVE  <<a1, a2, a3, a4, a5>> \o <<b1, b2, b3, b4, b5>> =
               <<a1, a2, a3, a4, a5, b1, b2, b3, b4, b5>>
<1> DEFINE T == {a1, a2, a3, a4, a5, b1, b2, b3, b4, b5}
           s == <<a1, a2, a3, a4, a5>>
           t == <<b1, b2, b3, b4, b5>>
           u == <<a1, a2, a3, a4, a5, b1, b2, b3, b4, b5>>
<1>1. /\ s \in Seq(T) /\ t \in Seq(T) /\ u \in Seq(T) /\ Len(s) = 5 /\ Len(t) = 5 /\ Len(u) = 10
      /\ \A i \in 1 .. 5 : u[i] = s[i]
      /\ \A i \in 1 .. 5 : u[5 + i] = t[i]
  OBVIOUS
<1>2. s \o t = u
  <2> HIDE DEF s, t, u, T
  <2>1. /\ Len(u) = Len(s) + Len(t) /\ \A i \in 1 .. Len(s) : u[i] = s[i]
        /\ \A i \in 1 .. Len(t) : u[Len(s) + i] = t[i]
    BY <1>1
  <2> QED BY <1>1, <2>1, Spell
<1> QED BY <1>2

-------------------------------------------------------------------------------
(* The lists of the children                                               *)

\* Ends and what they are ends of.
LEMMA EndsOf ==
    ASSUME NEW o \in Objects
    PROVE  /\ R(o) \in Ends /\ W(o) \in Ends /\ ObjectOf(R(o)) = o /\ ObjectOf(W(o)) = o
           /\ R(o)[1] = o[1] /\ W(o)[1] = o[1]
           /\ \A p \in Objects : /\ R(o) # W(p)
                                 /\ R(o) = R(p) => o = p
                                 /\ W(o) = W(p) => o = p
BY DEF Ends, Objects, Files, R, W, ObjectOf

LEMMA PipesAreObjects ==
    /\ Pipes \subseteq Objects /\ Pipes \cap Files = {} /\ Objects = Files \cup Pipes
    /\ Files \subseteq Objects
    /\ \A o \in Pipes : R(o) \notin Std /\ W(o) \notin Std
    /\ \A c \in Children : Supply(c) \in Pipes /\ Ingest(c) \in Pipes /\ ToNext(c) \in Pipes
    /\ \A c, d \in Children :
          /\ Supply(c) # Ingest(d) /\ Supply(c) # ToNext(d) /\ Ingest(c) # ToNext(d)
          /\ Supply(c) = Supply(d) => c = d
          /\ Ingest(c) = Ingest(d) => c = d
          /\ ToNext(c) = ToNext(d) => c = d
          /\ Supply(c)[1] = c /\ Ingest(c)[1] = c
    /\ Std \subseteq Ends
    /\ StdIn = R(<<"std", "in">>) /\ StdOut = W(<<"std", "out">>)
<1>1. /\ Pipes \subseteq Objects /\ Pipes \cap Files = {} /\ Objects = Files \cup Pipes
      /\ Files \subseteq Objects
  BY DEF Pipes, Objects, Files, Children
<1>2. \A o \in Pipes : R(o) \notin Std /\ W(o) \notin Std
  BY DEF Pipes, R, W, Std, StdIn, StdOut
<1>3. \A c \in Children : Supply(c) \in Pipes /\ Ingest(c) \in Pipes /\ ToNext(c) \in Pipes
  BY DEF Pipes, Supply, Ingest, ToNext
<1>4. \A c, d \in Children :
          /\ Supply(c) # Ingest(d) /\ Supply(c) # ToNext(d) /\ Ingest(c) # ToNext(d)
          /\ Supply(c) = Supply(d) => c = d
          /\ Ingest(c) = Ingest(d) => c = d
          /\ ToNext(c) = ToNext(d) => c = d
          /\ Supply(c)[1] = c /\ Ingest(c)[1] = c
  BY DEF Supply, Ingest, ToNext
<1>5. StdIn = R(<<"std", "in">>) /\ StdOut = W(<<"std", "out">>)
  BY DEF R, W, StdIn, StdOut
<1>6. Std \subseteq Ends
  <2>1. <<"std", "in">> \in Objects /\ <<"std", "out">> \in Objects
    BY DEF Objects, Files
  <2> QED BY <1>5, <2>1 DEF Std, Ends
<1> QED BY <1>1, <1>2, <1>3, <1>4, <1>5, <1>6

LEMMA Redirected ==
    /\ R(<<"file", "in">>) \notin Std /\ W(<<"file", "out">>) \notin Std
    /\ {<<"file", "in">>, <<"file", "out">>, <<"std", "in">>, <<"std", "out">>} = Files
BY DEF R, W, Std, StdIn, StdOut, Files

\* Lists of this form are tidy.
TidyAndWired(c, s) == Tidy(c, s) /\ Wired(c, s) /\ s # <<>> /\ s[Len(s)] = <<"exec">>

LEMMA TidyAB ==
    ASSUME NEW c, NEW s, NEW e \in Ends, NEW i \in Ends, NEW o \in Ends, e \notin
           Std, i \notin Std, o \notin Std, R(Source(c)) = i, W(Sink(c)) = o, e # i,
           e # o, i # o,
           s = <<<<"dup2", i, StdIn>>, <<"close", i>>, <<"dup2", o, StdOut>>,
                 <<"close", e>>, <<"close", o>>, <<"exec">>>>
    PROVE  TidyAndWired(c, s) /\ s \in Seq(ChildCalls)
<1>1. Tidy(c, s)
  BY DEF Tidy
<1>2. Wired(c, s)
  BY DEF Wired, Has
<1>3. s \in Seq(ChildCalls)
  BY DEF ChildCalls, Std
<1> QED BY <1>1, <1>2, <1>3 DEF TidyAndWired

LEMMA TidyAD ==
    ASSUME NEW c, NEW s, NEW i \in Ends, NEW o \in Ends, i \notin Std, o \notin Std,
           R(Source(c)) = i, W(Sink(c)) = o, i # o, ObjectOf(o) \in Files,
           s = <<<<"dup2", i, StdIn>>, <<"close", i>>, <<"open", o>>, <<"dup2", o,
                 StdOut>>, <<"close", o>>, <<"exec">>>>
    PROVE  TidyAndWired(c, s) /\ s \in Seq(ChildCalls)
<1>1. Tidy(c, s)
  <2>0. Len(s) = 6 /\ s # <<>>
    OBVIOUS
  <2>1. \A k \in 1 .. Len(s) : s[k][1] = "open" =>
          /\ ObjectOf(s[k][2]) \in Files /\ s[k][2] \notin Std
          /\ \E j \in 1 .. Len(s) : j > k /\ s[j] = <<"close", s[k][2]>>
    <3> SUFFICES ASSUME NEW k \in 1 .. Len(s), s[k][1] = "open"
                 PROVE  /\ ObjectOf(s[k][2]) \in Files /\ s[k][2] \notin Std
                        /\ \E j \in 1 .. Len(s) : j > k /\ s[j] = <<"close", s[k][2]>>
      OBVIOUS
    <3>1. k = 3
      BY <2>0
    <3>2. /\ k = 3 => s[k][2] = o /\ s[5] = <<"close", o>> /\ 5 \in 1 .. Len(s) /\ 5 > k
      BY <2>0
    <3> QED BY <3>1, <3>2
  <2>2. /\ s[Len(s)] \in {<<"exec">>, <<"program">>}
        /\ \A k \in 1 .. Len(s) : s[k][1] \in {"exec", "program"} => k = Len(s)
        /\ \A k \in 1 .. Len(s) : s[k][1] = "close" => s[k][2] \notin Std
    BY <2>0
  <2>3. \A k \in 1 .. Len(s) : s[k][1] = "dup2" =>
          /\ s[k] \in {<<"dup2", R(Source(c)), StdIn>>, <<"dup2", W(Sink(c)), StdOut>>}
          /\ s[k][2] \notin Std
          /\ \A j \in 1 .. Len(s) : s[j] = <<"close", s[k][2]>> => j > k
    BY <2>0
  <2> QED BY <2>1, <2>2, <2>3 DEF Tidy
<1>2. Wired(c, s)
  BY DEF Wired, Has
<1>3. s \in Seq(ChildCalls)
  BY DEF ChildCalls, Std
<1> QED BY <1>1, <1>2, <1>3 DEF TidyAndWired

LEMMA TidyA ==
    ASSUME NEW c, NEW s, NEW i \in Ends, i \notin Std, R(Source(c)) = i, W(Sink(c))
           = StdOut,
           s = <<<<"dup2", i, StdIn>>, <<"close", i>>, <<"exec">>>>
    PROVE  TidyAndWired(c, s) /\ s \in Seq(ChildCalls)
<1>1. Tidy(c, s)
  BY DEF Tidy
<1>2. Wired(c, s)
  BY DEF Wired, Has
<1>3. s \in Seq(ChildCalls)
  BY DEF ChildCalls, Std
<1> QED BY <1>1, <1>2, <1>3 DEF TidyAndWired

LEMMA TidyCB ==
    ASSUME NEW c, NEW s, NEW e \in Ends, NEW i \in Ends, NEW o \in Ends, e \notin
           Std, i \notin Std, o \notin Std, R(Source(c)) = i, W(Sink(c)) = o, e # i,
           e # o, i # o, ObjectOf(i) \in Files,
           s = <<<<"dup2", o, StdOut>>, <<"close", e>>, <<"close", o>>, <<"open",
                 i>>, <<"dup2", i, StdIn>>, <<"close", i>>, <<"exec">>>>
    PROVE  TidyAndWired(c, s) /\ s \in Seq(ChildCalls)
<1>1. Tidy(c, s)
  <2>0. Len(s) = 7 /\ s # <<>>
    OBVIOUS
  <2>1. \A k \in 1 .. Len(s) : s[k][1] = "open" =>
          /\ ObjectOf(s[k][2]) \in Files /\ s[k][2] \notin Std
          /\ \E j \in 1 .. Len(s) : j > k /\ s[j] = <<"close", s[k][2]>>
    <3> SUFFICES ASSUME NEW k \in 1 .. Len(s), s[k][1] = "open"
                 PROVE  /\ ObjectOf(s[k][2]) \in Files /\ s[k][2] \notin Std
                        /\ \E j \in 1 .. Len(s) : j > k /\ s[j] = <<"close", s[k][2]>>
      OBVIOUS
    <3>1. k = 4
      BY <2>0
    <3>2. /\ k = 4 => s[k][2] = i /\ s[6] = <<"close", i>> /\ 6 \in 1 .. Len(s) /\ 6 > k
      BY <2>0
    <3> QED BY <3>1, <3>2
  <2>2. /\ s[Len(s)] \in {<<"exec">>, <<"program">>}
        /\ \A k \in 1 .. Len(s) : s[k][1] \in {"exec", "program"} => k = Len(s)
        /\ \A k \in 1 .. Len(s) : s[k][1] = "close" => s[k][2] \notin Std
    BY <2>0
  <2>3. \A k \in 1 .. Len(s) : s[k][1] = "dup2" =>
          /\ s[k] \in {<<"dup2", R(Source(c)), StdIn>>, <<"dup2", W(Sink(c)), StdOut>>}
          /\ s[k][2] \notin Std
          /\ \A j \in 1 .. Len(s) : s[j] = <<"close", s[k][2]>> => j > k
    BY <2>0
  <2> QED BY <2>1, <2>2, <2>3 DEF Tidy
<1>2. Wired(c, s)
  BY DEF Wired, Has
<1>3. s \in Seq(ChildCalls)
  BY DEF ChildCalls, Std
<1> QED BY <1>1, <1>2, <1>3 DEF TidyAndWired

LEMMA TidyCD ==
    ASSUME NEW c, NEW s, NEW i \in Ends, NEW o \in Ends, i \notin Std, o \notin Std,
           R(Source(c)) = i, W(Sink(c)) = o, i # o, ObjectOf(i) \in Files,
           ObjectOf(o) \in Files,
           s = <<<<"open", i>>, <<"dup2", i, StdIn>>, <<"close", i>>, <<"open", o>>,
                 <<"dup2", o, StdOut>>, <<"close", o>>, <<"exec">>>>
    PROVE  TidyAndWired(c, s) /\ s \in Seq(ChildCalls)
<1>1. Tidy(c, s)
  <2>0. Len(s) = 7 /\ s # <<>>
    OBVIOUS
  <2>1. \A k \in 1 .. Len(s) : s[k][1] = "open" =>
          /\ ObjectOf(s[k][2]) \in Files /\ s[k][2] \notin Std
          /\ \E j \in 1 .. Len(s) : j > k /\ s[j] = <<"close", s[k][2]>>
    <3> SUFFICES ASSUME NEW k \in 1 .. Len(s), s[k][1] = "open"
                 PROVE  /\ ObjectOf(s[k][2]) \in Files /\ s[k][2] \notin Std
                        /\ \E j \in 1 .. Len(s) : j > k /\ s[j] = <<"close", s[k][2]>>
      OBVIOUS
    <3>1. k = 1 \/ k = 4
      BY <2>0
    <3>2. /\ k = 1 => s[k][2] = i /\ s[3] = <<"close", i>> /\ 3 \in 1 .. Len(s) /\ 3 > k
          /\ k = 4 => s[k][2] = o /\ s[6] = <<"close", o>> /\ 6 \in 1 .. Len(s) /\ 6 > k
      BY <2>0
    <3> QED BY <3>1, <3>2
  <2>2. /\ s[Len(s)] \in {<<"exec">>, <<"program">>}
        /\ \A k \in 1 .. Len(s) : s[k][1] \in {"exec", "program"} => k = Len(s)
        /\ \A k \in 1 .. Len(s) : s[k][1] = "close" => s[k][2] \notin Std
    BY <2>0
  <2>3. \A k \in 1 .. Len(s) : s[k][1] = "dup2" =>
          /\ s[k] \in {<<"dup2", R(Source(c)), StdIn>>, <<"dup2", W(Sink(c)), StdOut>>}
          /\ s[k][2] \notin Std
          /\ \A j \in 1 .. Len(s) : s[j] = <<"close", s[k][2]>> => j > k
    BY <2>0
  <2> QED BY <2>1, <2>2, <2>3 DEF Tidy
<1>2. Wired(c, s)
  BY SMTT(30) DEF Wired, Has
<1>3. s \in Seq(ChildCalls)
  BY DEF ChildCalls, Std
<1> QED BY <1>1, <1>2, <1>3 DEF TidyAndWired

LEMMA TidyC ==
    ASSUME NEW c, NEW s, NEW i \in Ends, i \notin Std, R(Source(c)) = i, W(Sink(c))
           = StdOut, ObjectOf(i) \in Files,
           s = <<<<"open", i>>, <<"dup2", i, StdIn>>, <<"close", i>>, <<"exec">>>>
    PROVE  TidyAndWired(c, s) /\ s \in Seq(ChildCalls)
<1>1. Tidy(c, s)
  BY DEF Tidy
<1>2. Wired(c, s)
  BY DEF Wired, Has
<1>3. s \in Seq(ChildCalls)
  BY DEF ChildCalls, Std
<1> QED BY <1>1, <1>2, <1>3 DEF TidyAndWired

LEMMA TidyB ==
    ASSUME NEW c, NEW s, NEW e \in Ends, NEW o \in Ends, e \notin Std, o \notin Std,
           R(Source(c)) = StdIn, W(Sink(c)) = o, e # o,
           s = <<<<"dup2", o, StdOut>>, <<"close", e>>, <<"close", o>>, <<"exec">>>>
    PROVE  TidyAndWired(c, s) /\ s \in Seq(ChildCalls)
<1>1. Tidy(c, s)
  BY DEF Tidy
<1>2. Wired(c, s)
  BY DEF Wired, Has
<1>3. s \in Seq(ChildCalls)
  BY DEF ChildCalls, Std
<1> QED BY <1>1, <1>2, <1>3 DEF TidyAndWired

LEMMA TidyD ==
    ASSUME NEW c, NEW s, NEW o \in Ends, o \notin Std, R(Source(c)) = StdIn,
           W(Sink(c)) = o, ObjectOf(o) \in Files,
           s = <<<<"open", o>>, <<"dup2", o, StdOut>>, <<"close", o>>, <<"exec">>>>
    PROVE  TidyAndWired(c, s) /\ s \in Seq(ChildCalls)
<1>1. Tidy(c, s)
  BY DEF Tidy
<1>2. Wired(c, s)
  BY DEF Wired, Has
<1>3. s \in Seq(ChildCalls)
  BY DEF ChildCalls, Std
<1> QED BY <1>1, <1>2, <1>3 DEF TidyAndWired

LEMMA TidyE ==
    ASSUME NEW c, NEW s, R(Source(c)) = StdIn, W(Sink(c)) = StdOut,
           s = <<<<"exec">>>>
    PROVE  TidyAndWired(c, s) /\ s \in Seq(ChildCalls)
<1>1. Tidy(c, s)
  BY DEF Tidy
<1>2. Wired(c, s)
  BY DEF Wired, Has
<1>3. s \in Seq(ChildCalls)
  BY DEF ChildCalls, Std
<1> QED BY <1>1, <1>2, <1>3 DEF TidyAndWired

LEMMA TidySub ==
    ASSUME NEW c, NEW s, NEW e \in Ends, NEW f \in Ends, NEW i \in Ends, NEW o \in
           Ends, e \notin Std, f \notin Std, i \notin Std, o \notin Std,
           R(Source(c)) = i, W(Sink(c)) = o, e # f, e # i, e # o, f # i, f # o, i #
           o,
           s = <<<<"dup2", i, StdIn>>, <<"close", i>>, <<"close", e>>, <<"dup2", o,
                 StdOut>>, <<"close", f>>, <<"close", o>>, <<"exec">>>>
    PROVE  TidyAndWired(c, s) /\ s \in Seq(ChildCalls)
<1>1. Tidy(c, s)
  BY DEF Tidy
<1>2. Wired(c, s)
  BY DEF Wired, Has
<1>3. s \in Seq(ChildCalls)
  BY DEF ChildCalls, Std
<1> QED BY <1>1, <1>2, <1>3 DEF TidyAndWired

LEMMA TidyA2 ==
    ASSUME NEW c, NEW s, NEW e \in Ends, NEW i \in Ends, e \notin Std, i \notin Std,
           R(Source(c)) = i, W(Sink(c)) = StdOut, e # i,
           s = <<<<"dup2", i, StdIn>>, <<"close", i>>, <<"close", e>>, <<"exec">>>>
    PROVE  TidyAndWired(c, s) /\ s \in Seq(ChildCalls)
<1>1. Tidy(c, s)
  BY DEF Tidy
<1>2. Wired(c, s)
  BY DEF Wired, Has
<1>3. s \in Seq(ChildCalls)
  BY DEF ChildCalls, Std
<1> QED BY <1>1, <1>2, <1>3 DEF TidyAndWired

\* The programs.
LEMMA RunKinds ==
    ASSUME run \in Runs
    PROVE  /\ run.main \in {"subprocess", "pipeline", "mr", "stsh"}
           /\ run.stages \in 1 .. 3
           /\ run.input \in BOOLEAN /\ run.output \in BOOLEAN
           /\ run.main = "subprocess" => run.stages = 1
           /\ run.main \in {"pipeline", "mr"} => run.stages = 2
           /\ run.main # "stsh" => run.input = FALSE /\ run.output = FALSE
<1>1. CASE run \in Commands
  BY <1>1, SizesAssumption DEF Commands
<1>2. CASE run \notin Commands
  <2>1. PICK m \in Mains \ {"stsh"} :
            run = [main |-> m, stages |-> IF m = "subprocess" THEN 1 ELSE 2,
                   input |-> FALSE, output |-> FALSE]
    BY <1>2 DEF Runs
  <2> QED BY <2>1, MainsAssumption
<1> QED BY <1>1, <1>2

LEMMA Stages ==
    /\ Stage[1] = "c1" /\ Stage[2] = "c2" /\ Stage[3] = "c3"
    /\ \A i \in 1 .. 3 : Stage[i] \in Children
    /\ \A i, j \in 1 .. 3 : Stage[i] = Stage[j] => i = j
BY DEF Stage, Children

\* subprocess(), in both of its versions.
LEMMA SubprocessText ==
    ASSUME Filters, NEW c \in Children
    PROVE  LET s == SubprocessChild(c)
           IN  /\ TidyAndWired(c, s) /\ s \in Seq(ChildCalls)
               /\ \A d \in {R(Supply(c)), W(Supply(c)), R(Ingest(c)), W(Ingest(c))} : Closes(s, d)
<1>1. PICK i, e, f, o : i = R(Supply(c)) /\ e = W(Supply(c)) /\ f = R(Ingest(c)) /\ o = W(Ingest(c))
  OBVIOUS
<1>2. i \in Ends /\ e \in Ends /\ f \in Ends /\ o \in Ends
      /\ i \notin Std /\ e \notin Std /\ f \notin Std /\ o \notin Std
  BY <1>1, EndsOf, PipesAreObjects
<1>3. i # e /\ i # f /\ i # o /\ e # f /\ e # o /\ f # o
  BY <1>1, EndsOf, PipesAreObjects
<1>4. R(Source(c)) = i /\ W(Sink(c)) = o
  BY <1>1 DEF Source, Sink
<1>5. PICK s : s = SubprocessChild(c)
  OBVIOUS
<1>6. s = <<<<"dup2", i, StdIn>>, <<"close", i>>, <<"close", e>>, <<"dup2", o, StdOut>>,
            <<"close", f>>, <<"close", o>>, <<"exec">>>>
  BY <1>1, <1>5 DEF SubprocessChild
<1>7. TidyAndWired(c, s) /\ s \in Seq(ChildCalls)
  BY <1>2, <1>3, <1>4, <1>6, TidySub
<1>8. Closes(s, i) /\ Closes(s, e) /\ Closes(s, f) /\ Closes(s, o)
  <2>1. Len(s) = 7 /\ s[2] = <<"close", i>> /\ s[3] = <<"close", e>> /\ s[5] = <<"close", f>>
        /\ s[6] = <<"close", o>>
    BY <1>6
  <2> QED BY <2>1 DEF Closes, Has
<1> QED BY <1>1, <1>5, <1>7, <1>8

\* pipeline().
FirstChild(c) ==
    <<<<"dup2", W(ToNext(c)), StdOut>>, <<"close", R(ToNext(c))>>, <<"close", W(ToNext(c))>>, <<"exec">>>>
SecondChild(c) ==
    <<<<"dup2", R(ToNext(c)), StdIn>>, <<"close", R(ToNext(c))>>, <<"close", W(ToNext(c))>>, <<"exec">>>>

LEMMA PipelineText ==
    ASSUME run \in Runs, run.main = "pipeline"
    PROVE  /\ TidyAndWired("c1", FirstChild("c1")) /\ FirstChild("c1") \in Seq(ChildCalls)
           /\ TidyAndWired("c2", SecondChild("c1")) /\ SecondChild("c1") \in Seq(ChildCalls)
           /\ \A d \in {R(ToNext("c1")), W(ToNext("c1"))} :
                 Closes(FirstChild("c1"), d) /\ Closes(SecondChild("c1"), d)
<1>1. PICK r, w : r = R(ToNext("c1")) /\ w = W(ToNext("c1"))
  OBVIOUS
<1>2. "c1" \in Children /\ "c2" \in Children
  BY DEF Children
<1>3. r \in Ends /\ w \in Ends /\ r \notin Std /\ w \notin Std /\ r # w
  BY <1>1, <1>2, EndsOf, PipesAreObjects
<1>4. run.stages = 2 /\ run.input = FALSE /\ run.output = FALSE
  BY RunKinds
<1>5. R(Source("c1")) = StdIn /\ W(Sink("c1")) = w /\ R(Source("c2")) = r /\ W(Sink("c2")) = StdOut
  BY <1>1, <1>4, Stages, PipesAreObjects DEF Source, Sink, Filters, First, Last, PrevOf
<1>6. PICK s, t : s = FirstChild("c1") /\ t = SecondChild("c1")
  OBVIOUS
<1>7. /\ s = <<<<"dup2", w, StdOut>>, <<"close", r>>, <<"close", w>>, <<"exec">>>>
      /\ t = <<<<"dup2", r, StdIn>>, <<"close", r>>, <<"close", w>>, <<"exec">>>>
  BY <1>1, <1>6 DEF FirstChild, SecondChild
<1>8. TidyAndWired("c1", s) /\ s \in Seq(ChildCalls)
  BY <1>3, <1>5, <1>7, TidyB
<1>9. TidyAndWired("c2", t) /\ t \in Seq(ChildCalls)
  BY <1>3, <1>5, <1>7, TidyA2
<1>10. Closes(s, r) /\ Closes(s, w) /\ Closes(t, r) /\ Closes(t, w)
  <2>1. Len(s) = 4 /\ s[2] = <<"close", r>> /\ s[3] = <<"close", w>>
    BY <1>7
  <2>2. Len(t) = 4 /\ t[2] = <<"close", r>> /\ t[3] = <<"close", w>>
    BY <1>7
  <2> QED BY <2>1, <2>2 DEF Closes, Has
<1> QED BY <1>1, <1>6, <1>8, <1>9, <1>10

\* runPipeline(): a stage closes the pipe before it and the one after it.
LEMMA StageText ==
    ASSUME run \in Runs, run.main = "stsh", NEW i \in 1 .. run.stages
    PROVE  LET s == StageChild(run, i)
           IN  /\ TidyAndWired(Stage[i], s) /\ s \in Seq(ChildCalls)
               /\ \A m \in 1 .. Len(s) : s[m][1] = "dup2" =>
                     \/ i > 1 /\ s[m][2] = R(ToNext(Stage[i - 1]))
                     \/ i < run.stages /\ s[m][2] = W(ToNext(Stage[i]))
                     \/ \E j \in 1 .. Len(s) : j < m /\ s[j] = <<"open", s[m][2]>>
               /\ i > 1 => Closes(s, R(ToNext(Stage[i - 1])))
               /\ i < run.stages => Closes(s, R(ToNext(Stage[i]))) /\ Closes(s, W(ToNext(Stage[i])))
<1> DEFINE pr == R(ToNext(Stage[i - 1]))
           nr == R(ToNext(Stage[i]))
           nw == W(ToNext(Stage[i]))
           fr == R(<<"file", "in">>)
           fw == W(<<"file", "out">>)
           dp == <<"dup2", pr, StdIn>>
           cp == <<"close", pr>>
           dn == <<"dup2", nw, StdOut>>
           cnr == <<"close", nr>>
           cnw == <<"close", nw>>
           ofr == <<"open", fr>>
           dfr == <<"dup2", fr, StdIn>>
           cfr == <<"close", fr>>
           ofw == <<"open", fw>>
           dfw == <<"dup2", fw, StdOut>>
           cfw == <<"close", fw>>
           ex == <<"exec">>
           a == If(i > 1, <<dp, cp>>)
           b == If(i < run.stages, <<dn, cnr, cnw>>)
           cc == If(i = 1 /\ run.input, <<ofr, dfr, cfr>>)
           d == If(i = run.stages /\ run.output,
                   <<ofw, dfw, cfw>>)
           e == <<ex>>
<1>0. run.stages \in 1 .. 3 /\ i \in 1 .. 3 /\ run.input \in BOOLEAN /\ run.output \in BOOLEAN /\ ~Filters
  BY RunKinds DEF Filters
<1>1. Stage[i] \in Children /\ (i > 1 => Stage[i - 1] \in Children)
  BY <1>0, Stages
<1>2. /\ nr \in Ends /\ nw \in Ends /\ nr \notin Std /\ nw \notin Std /\ nr # nw
      /\ i > 1 => /\ pr \in Ends /\ pr \notin Std
                  /\ pr # nr /\ pr # nw
  <2>1. i > 1 => Stage[i - 1] # Stage[i]
    BY <1>0, Stages
  <2> QED BY <1>0, <1>1, <2>1, EndsOf, PipesAreObjects
<1>3. /\ fr \in Ends /\ fw \in Ends /\ fr \notin Std /\ fw \notin Std /\ fr # fw
      /\ ObjectOf(fr) \in Files /\ ObjectOf(fw) \in Files
      /\ fr # nr /\ fr # nw /\ fw # nr /\ fw # nw
      /\ i > 1 => fr # pr /\ fw # pr
  <2>1. <<"file", "in">> \in Objects /\ <<"file", "out">> \in Objects
        /\ <<"file", "in">> \in Files /\ <<"file", "out">> \in Files
    BY Redirected, PipesAreObjects
  <2>2. ToNext(Stage[i]) \in Objects /\ ToNext(Stage[i]) \notin Files
    BY <1>1, PipesAreObjects
  <2>3. i > 1 => ToNext(Stage[i - 1]) \in Objects /\ ToNext(Stage[i - 1]) \notin Files
    BY <1>1, PipesAreObjects
  <2> QED BY <2>1, <2>2, <2>3, EndsOf, Redirected
<1>4. /\ i > 1 => R(Source(Stage[i])) = pr
      /\ i = 1 /\ run.input => R(Source(Stage[i])) = fr
      /\ i = 1 /\ ~run.input => R(Source(Stage[i])) = StdIn
  BY <1>0, Stages, PipesAreObjects DEF Source, First, PrevOf
<1>5. /\ i < run.stages => W(Sink(Stage[i])) = nw
      /\ i = run.stages /\ run.output => W(Sink(Stage[i])) = fw
      /\ i = run.stages /\ ~run.output => W(Sink(Stage[i])) = StdOut
  BY <1>0, Stages, PipesAreObjects DEF Sink, Last
<1>6. StageChild(run, i) = a \o b \o cc \o d \o e
  BY DEF StageChild
<1>7. /\ a = IF i > 1 THEN <<dp, cp>> ELSE <<>>
      /\ b = IF i < run.stages THEN <<dn, cnr, cnw>>
             ELSE <<>>
      /\ cc = IF i = 1 /\ run.input THEN <<ofr, dfr, cfr>>
              ELSE <<>>
      /\ d = IF i = run.stages /\ run.output
             THEN <<ofw, dfw, cfw>> ELSE <<>>
      /\ e = <<ex>>
  BY DEF If
<1>8. /\ ex \in ChildCalls
      /\ dn \in ChildCalls /\ cnr \in ChildCalls
      /\ cnw \in ChildCalls
      /\ ofr \in ChildCalls /\ dfr \in ChildCalls
      /\ cfr \in ChildCalls
      /\ ofw \in ChildCalls /\ dfw \in ChildCalls
      /\ cfw \in ChildCalls
      /\ i > 1 => dp \in ChildCalls /\ cp \in ChildCalls
  BY <1>2, <1>3 DEF ChildCalls, Std
<1>9. PICK s : s = StageChild(run, i)
  OBVIOUS
<1> DEFINE Given(m) ==
               \/ i > 1 /\ s[m][2] = pr
               \/ i < run.stages /\ s[m][2] = nw
               \/ \E j \in 1 .. Len(s) : j < m /\ s[j] = <<"open", s[m][2]>>
<1> HIDE DEF a, b, cc, d, e, pr, nr, nw, fr, fw,
             dp, cp, dn, cnr, cnw, ofr, dfr, cfr, ofw, dfw, cfw, ex
<1> SUFFICES /\ TidyAndWired(Stage[i], s) /\ s \in Seq(ChildCalls)
             /\ \A m \in 1 .. Len(s) : s[m][1] = "dup2" => Given(m)
             /\ i > 1 => Closes(s, pr)
             /\ i < run.stages => Closes(s, nr) /\ Closes(s, nw)
  BY <1>9 DEF pr, nr, nw
<1> HIDE DEF Given
<1>10. e \in Seq(ChildCalls) /\ e = <<ex>> /\ s = a \o b \o cc \o d \o e
  <2>1. e = <<ex>>
    BY DEF e
  <2>2. ex \in ChildCalls
    BY <1>8
  <2> QED BY <2>1, <2>2, <1>6, <1>9
<1>11. CASE i > 1 /\ i < run.stages
  <2>1. s = <<dp, cp, dn, cnr,
              cnw, ex>>
    <3>1. a = <<dp, cp>> /\ cc = <<>> /\ d = <<>>
          /\ b = <<dn, cnr, cnw>>
      BY <1>0, <1>7, <1>11
    <3>2. a \o b = <<dp, cp, dn, cnr,
                     cnw>>
      BY <3>1, <1>8, <1>11, Spell2_3
    <3>3. a \o b \in Seq(ChildCalls)
      BY <3>2, <1>8, <1>11
    <3>4. a \o b \o cc \o d = a \o b
      BY <3>1, <3>3, Nothing
    <3>8. s = <<dp, cp, dn, cnr, cnw>> \o <<ex>>
      BY <3>2, <3>4, <1>10
    <3> QED BY <3>8, <1>8, <1>11, Spell5_1
  <2>2. TidyAndWired(Stage[i], s) /\ s \in Seq(ChildCalls)
    BY <1>2, <1>4, <1>5, <1>11, <2>1, TidyAB DEF dp, cp, dn, cnr, cnw, ofr, dfr, cfr, ofw, dfw, cfw, ex
  <2>3. Closes(s, pr) /\ Closes(s, nr) /\ Closes(s, nw)
    <3>1. Len(s) = 6 /\ s[2] = cp /\ s[4] = cnr /\ s[5] = cnw
      BY <2>1
    <3> QED BY <3>1 DEF Closes, Has, cp, cnr, cnw
  <2>4. \A m \in 1 .. Len(s) : s[m][1] = "dup2" => Given(m)
    <3> SUFFICES ASSUME NEW m \in 1 .. Len(s), s[m][1] = "dup2" PROVE Given(m)
      OBVIOUS
    <3>1. m = 1 \/ m = 3
      BY <2>1 DEF dp, cp, dn, cnr, cnw, ofr, dfr, cfr, ofw, dfw, cfw, ex
    <3>2. m = 1 => Given(m)
      BY <1>11, <2>1 DEF dp, dn, Given
    <3>3. m = 3 => Given(m)
      BY <1>11, <2>1 DEF dp, dn, Given
    <3> QED BY <3>1, <3>2, <3>3
  <2> QED BY <2>4, <2>2, <2>3, <1>0
<1>12. CASE i > 1 /\ i = run.stages /\ run.output
  <2>1. s = <<dp, cp, ofw, dfw,
              cfw, ex>>
    <3>1. a = <<dp, cp>> /\ cc = <<>> /\ b = <<>>
          /\ d = <<ofw, dfw, cfw>>
      BY <1>0, <1>7, <1>12
    <3>2. a \in Seq(ChildCalls)
      BY <3>1, <1>8, <1>12
    <3>3. a \o b \o cc = a
      BY <3>1, <3>2, Nothing
    <3>4. a \o d = <<dp, cp, ofw, dfw,
                     cfw>>
      BY <3>1, <1>8, <1>12, Spell2_3
    <3>8. s = <<dp, cp, ofw, dfw, cfw>> \o <<ex>>
      BY <3>3, <3>4, <1>10
    <3> QED BY <3>8, <1>8, <1>12, Spell5_1
  <2>2. TidyAndWired(Stage[i], s) /\ s \in Seq(ChildCalls)
    BY <1>2, <1>3, <1>4, <1>5, <1>12, <2>1, TidyAD DEF dp, cp, dn, cnr, cnw, ofr, dfr, cfr, ofw, dfw, cfw, ex
  <2>3. Closes(s, pr)
    <3>1. Len(s) = 6 /\ s[2] = cp
      BY <2>1
    <3> QED BY <3>1 DEF Closes, Has, cp, cnr, cnw
  <2>4. \A m \in 1 .. Len(s) : s[m][1] = "dup2" => Given(m)
    <3> SUFFICES ASSUME NEW m \in 1 .. Len(s), s[m][1] = "dup2" PROVE Given(m)
      OBVIOUS
    <3>1. m = 1 \/ m = 4
      BY <2>1 DEF dp, cp, dn, cnr, cnw, ofr, dfr, cfr, ofw, dfw, cfw, ex
    <3>2. m = 1 => Given(m)
      BY <1>12, <2>1 DEF dp, dn, Given
    <3>3. m = 4 => Given(m)
      <4>1. Len(s) >= 4 /\ s[3] = ofw /\ s[4] = dfw
        BY <2>1
      <4> QED BY <4>1 DEF ofw, dfw, Given
    <3> QED BY <3>1, <3>2, <3>3
  <2> QED BY <2>4, <1>0, <1>12, <2>2, <2>3, <1>0
<1>13. CASE i > 1 /\ i = run.stages /\ ~run.output
  <2>1. s = <<dp, cp, ex>>
    <3>1. a = <<dp, cp>> /\ cc = <<>> /\ b = <<>> /\ d = <<>>
      BY <1>0, <1>7, <1>13
    <3>2. a \in Seq(ChildCalls)
      BY <3>1, <1>8, <1>13
    <3>3. a \o b \o cc \o d = a
      BY <3>1, <3>2, Nothing
    <3> QED BY <3>1, <3>3, <1>6, <1>7, <1>8, <1>9, <1>13, Spell2_1
  <2>2. TidyAndWired(Stage[i], s) /\ s \in Seq(ChildCalls)
    BY <1>2, <1>4, <1>5, <1>13, <2>1, TidyA DEF dp, cp, dn, cnr, cnw, ofr, dfr, cfr, ofw, dfw, cfw, ex
  <2>3. Closes(s, pr)
    <3>1. Len(s) = 3 /\ s[2] = cp
      BY <2>1
    <3> QED BY <3>1 DEF Closes, Has, cp, cnr, cnw
  <2>4. \A m \in 1 .. Len(s) : s[m][1] = "dup2" => Given(m)
    <3> SUFFICES ASSUME NEW m \in 1 .. Len(s), s[m][1] = "dup2" PROVE Given(m)
      OBVIOUS
    <3>1. m = 1
      BY <2>1 DEF dp, cp, dn, cnr, cnw, ofr, dfr, cfr, ofw, dfw, cfw, ex
    <3>2. m = 1 => Given(m)
      BY <1>13, <2>1 DEF dp, dn, Given
    <3> QED BY <3>1, <3>2
  <2> QED BY <2>4, <1>0, <1>13, <2>2, <2>3, <1>0
<1>14. CASE i = 1 /\ run.input /\ i < run.stages
  <2>1. s = <<dn, cnr, cnw, ofr,
              dfr, cfr, ex>>
    <3>1. b = <<dn, cnr, cnw>> /\ a = <<>> /\ d = <<>>
          /\ cc = <<ofr, dfr, cfr>>
      BY <1>0, <1>7, <1>14
    <3>2. b \in Seq(ChildCalls)
      BY <3>1, <1>8
    <3>3. a \o b = b
      BY <3>1, <3>2, Nothing
    <3>4. b \o cc = <<dn, cnr, cnw, ofr,
                      dfr, cfr>>
      BY <3>1, <1>8, Spell3_3
    <3>5. b \o cc \in Seq(ChildCalls)
      BY <3>4, <1>8
    <3>6. (b \o cc) \o d = b \o cc
      BY <3>1, <3>5, Nothing
    <3>8. s = <<dn, cnr, cnw, ofr, dfr, cfr>> \o <<ex>>
      BY <3>3, <3>4, <3>6, <1>10
    <3> QED BY <3>8, <1>8, Spell6_1
  <2>2. TidyAndWired(Stage[i], s) /\ s \in Seq(ChildCalls)
    BY <1>2, <1>3, <1>4, <1>5, <1>14, <2>1, TidyCB DEF dp, cp, dn, cnr, cnw, ofr, dfr, cfr, ofw, dfw, cfw, ex
  <2>3. Closes(s, nr) /\ Closes(s, nw)
    <3>1. Len(s) = 7 /\ s[2] = cnr /\ s[3] = cnw
      BY <2>1
    <3> QED BY <3>1 DEF Closes, Has, cp, cnr, cnw
  <2>4. \A m \in 1 .. Len(s) : s[m][1] = "dup2" => Given(m)
    <3> SUFFICES ASSUME NEW m \in 1 .. Len(s), s[m][1] = "dup2" PROVE Given(m)
      OBVIOUS
    <3>1. m = 1 \/ m = 5
      BY <2>1 DEF dp, cp, dn, cnr, cnw, ofr, dfr, cfr, ofw, dfw, cfw, ex
    <3>2. m = 1 => Given(m)
      BY <1>14, <2>1 DEF dp, dn, Given
    <3>3. m = 5 => Given(m)
      <4>1. Len(s) >= 5 /\ s[4] = ofr /\ s[5] = dfr
        BY <2>1
      <4> QED BY <4>1 DEF ofr, dfr, Given
    <3> QED BY <3>1, <3>2, <3>3
  <2> QED BY <2>4, <1>14, <2>2, <2>3, <1>0
<1>15. CASE i = 1 /\ ~run.input /\ i < run.stages
  <2>1. s = <<dn, cnr, cnw, ex>>
    <3>1. b = <<dn, cnr, cnw>> /\ a = <<>> /\ d = <<>>
          /\ cc = <<>>
      BY <1>0, <1>7, <1>15
    <3>2. b \in Seq(ChildCalls)
      BY <3>1, <1>8
    <3>3. a \o b \o cc \o d = b
      BY <3>1, <3>2, Nothing
    <3>8. s = <<dn, cnr, cnw>> \o <<ex>>
      BY <3>1, <3>3, <1>10
    <3> QED BY <3>8, <1>8, Spell3_1
  <2>2. TidyAndWired(Stage[i], s) /\ s \in Seq(ChildCalls)
    BY <1>2, <1>4, <1>5, <1>15, <2>1, TidyB DEF dp, cp, dn, cnr, cnw, ofr, dfr, cfr, ofw, dfw, cfw, ex
  <2>3. Closes(s, nr) /\ Closes(s, nw)
    <3>1. Len(s) = 4 /\ s[2] = cnr /\ s[3] = cnw
      BY <2>1
    <3> QED BY <3>1 DEF Closes, Has, cp, cnr, cnw
  <2>4. \A m \in 1 .. Len(s) : s[m][1] = "dup2" => Given(m)
    <3> SUFFICES ASSUME NEW m \in 1 .. Len(s), s[m][1] = "dup2" PROVE Given(m)
      OBVIOUS
    <3>1. m = 1
      BY <2>1 DEF dp, cp, dn, cnr, cnw, ofr, dfr, cfr, ofw, dfw, cfw, ex
    <3>2. m = 1 => Given(m)
      BY <1>15, <2>1 DEF dp, dn, Given
    <3> QED BY <3>1, <3>2
  <2> QED BY <2>4, <1>15, <2>2, <2>3, <1>0
<1>16. CASE i = 1 /\ i = run.stages
  <2>1. a = <<>> /\ b = <<>> /\ a \o b = <<>>
    <3>1. <<>> \in Seq(ChildCalls)
      OBVIOUS
    <3> QED BY <3>1, <1>0, <1>7, <1>16, Nothing
  <2>2. CASE run.input /\ run.output
    <3>1. /\ cc = <<ofr, dfr, cfr>>
          /\ d = <<ofw, dfw, cfw>>
      BY <1>0, <1>7, <1>16, <2>2
    <3>2. <<>> \o cc = cc
      BY <3>1, <1>8, Nothing
    <3>3. cc \o d = <<ofr, dfr, cfr,
                      ofw, dfw, cfw>>
      BY <3>1, <1>8, Spell3_3
    <3>4. s = <<ofr, dfr, cfr,
                ofw, dfw, cfw, ex>>
      <4>1. s = <<ofr, dfr, cfr, ofw, dfw, cfw>> \o <<ex>>
        BY <2>1, <3>2, <3>3, <1>10
      <4> QED BY <4>1, <1>8, Spell6_1
    <3>5. TidyAndWired(Stage[i], s) /\ s \in Seq(ChildCalls)
      BY <1>2, <1>3, <1>4, <1>5, <1>16, <2>2, <3>4, TidyCD DEF dp, cp, dn, cnr, cnw, ofr, dfr, cfr, ofw, dfw, cfw, ex
    <3>6. \A m \in 1 .. Len(s) : s[m][1] = "dup2" => Given(m)
      <4> SUFFICES ASSUME NEW m \in 1 .. Len(s), s[m][1] = "dup2" PROVE Given(m)
        OBVIOUS
      <4>1. m = 2 \/ m = 5
        BY <3>4 DEF dp, cp, dn, cnr, cnw, ofr, dfr, cfr, ofw, dfw, cfw, ex
      <4>2. m = 2 => Given(m)
        <5>1. Len(s) >= 2 /\ s[1] = ofr /\ s[2] = dfr
          BY <3>4
        <5> QED BY <5>1 DEF ofr, dfr, Given
      <4>3. m = 5 => Given(m)
        <5>1. Len(s) >= 5 /\ s[4] = ofw /\ s[5] = dfw
          BY <3>4
        <5> QED BY <5>1 DEF ofw, dfw, Given
      <4> QED BY <4>1, <4>2, <4>3
    <3> QED BY <1>0, <1>16, <3>5, <3>6
  <2>3. CASE run.input /\ ~run.output
    <3>1. cc = <<ofr, dfr, cfr>> /\ d = <<>>
      BY <1>0, <1>7, <1>16, <2>3
    <3>2. cc \in Seq(ChildCalls)
      BY <3>1, <1>8
    <3>3. <<>> \o cc = cc /\ cc \o d = cc
      BY <3>1, <3>2, Nothing
    <3>4. s = <<ofr, dfr, cfr, ex>>
      <4>1. s = <<ofr, dfr, cfr>> \o <<ex>>
        BY <2>1, <3>1, <3>3, <1>10
      <4> QED BY <4>1, <1>8, Spell3_1
    <3>5. TidyAndWired(Stage[i], s) /\ s \in Seq(ChildCalls)
      BY <1>2, <1>3, <1>4, <1>5, <1>16, <2>3, <3>4, TidyC DEF dp, cp, dn, cnr, cnw, ofr, dfr, cfr, ofw, dfw, cfw, ex
    <3>6. \A m \in 1 .. Len(s) : s[m][1] = "dup2" => Given(m)
      <4> SUFFICES ASSUME NEW m \in 1 .. Len(s), s[m][1] = "dup2" PROVE Given(m)
        OBVIOUS
      <4>1. m = 2
        BY <3>4 DEF dp, cp, dn, cnr, cnw, ofr, dfr, cfr, ofw, dfw, cfw, ex
      <4>2. m = 2 => Given(m)
        <5>1. Len(s) >= 2 /\ s[1] = ofr /\ s[2] = dfr
          BY <3>4
        <5> QED BY <5>1 DEF ofr, dfr, Given
      <4> QED BY <4>1, <4>2
    <3> QED BY <1>0, <1>16, <3>5, <3>6
  <2>4. CASE ~run.input /\ run.output
    <3>1. d = <<ofw, dfw, cfw>> /\ cc = <<>>
      BY <1>0, <1>7, <1>16, <2>4
    <3>2. d \in Seq(ChildCalls)
      BY <3>1, <1>8
    <3>3. cc \o d = d /\ <<>> \o cc = <<>>
      <4>1. cc \in Seq(ChildCalls)
        BY <3>1
      <4> QED BY <3>1, <3>2, <4>1, Nothing
    <3>4. s = <<ofw, dfw, cfw, ex>>
      <4>1. s = <<ofw, dfw, cfw>> \o <<ex>>
        BY <2>1, <3>1, <3>3, <1>10
      <4> QED BY <4>1, <1>8, Spell3_1
    <3>5. TidyAndWired(Stage[i], s) /\ s \in Seq(ChildCalls)
      BY <1>2, <1>3, <1>4, <1>5, <1>16, <2>4, <3>4, TidyD DEF dp, cp, dn, cnr, cnw, ofr, dfr, cfr, ofw, dfw, cfw, ex
    <3>6. \A m \in 1 .. Len(s) : s[m][1] = "dup2" => Given(m)
      <4> SUFFICES ASSUME NEW m \in 1 .. Len(s), s[m][1] = "dup2" PROVE Given(m)
        OBVIOUS
      <4>1. m = 2
        BY <3>4 DEF dp, cp, dn, cnr, cnw, ofr, dfr, cfr, ofw, dfw, cfw, ex
      <4>2. m = 2 => Given(m)
        <5>1. Len(s) >= 2 /\ s[1] = ofw /\ s[2] = dfw
          BY <3>4
        <5> QED BY <5>1 DEF ofw, dfw, Given
      <4> QED BY <4>1, <4>2
    <3> QED BY <1>0, <1>16, <3>5, <3>6
  <2>5. CASE ~run.input /\ ~run.output
    <3>1. d = <<>> /\ cc = <<>>
      BY <1>0, <1>7, <1>16, <2>5
    <3>2. s = <<ex>>
      <4>1. <<>> \in Seq(ChildCalls)
        OBVIOUS
      <4>2. <<>> \o <<>> = <<>>
        BY <4>1, Nothing
      <4> QED BY <2>1, <3>1, <4>2, <1>6, <1>7, <1>9, <1>10, Nothing
    <3>3. TidyAndWired(Stage[i], s) /\ s \in Seq(ChildCalls)
      BY <1>4, <1>5, <1>16, <2>5, <3>2, TidyE DEF dp, cp, dn, cnr, cnw, ofr, dfr, cfr, ofw, dfw, cfw, ex
    <3>4. \A m \in 1 .. Len(s) : s[m][1] # "dup2"
      BY <3>2 DEF ex
    <3> QED BY <1>9, <1>16, <3>3, <3>4
  <2> QED BY <1>0, <2>2, <2>3, <2>4, <2>5
<1> QED BY <1>0, <1>11, <1>12, <1>13, <1>14, <1>15, <1>16

-------------------------------------------------------------------------------
(* The lists of the parent                                                 *)

\* What stage i duplicates.
LEMMA StageDuplicates ==
    ASSUME run \in Runs, run.main = "stsh", NEW i \in 1 .. run.stages, NEW s, s = StageChild(run, i),
           NEW m \in 1 .. Len(s), s[m][1] = "dup2"
    PROVE  \/ i > 1 /\ s[m][2] = R(ToNext(Stage[i - 1]))
           \/ i < run.stages /\ s[m][2] = W(ToNext(Stage[i]))
           \/ \E j \in 1 .. Len(s) : j < m /\ s[j] = <<"open", s[m][2]>>
BY StageText

\* What is true of a whole list: what a child duplicates was made or is opened first,
\* the children are forked and waited for, and a filter's input is written and its
\* output read.
Provided(s) ==
    \A i \in 1 .. Len(s) : s[i][1] = "fork" =>
        \A m \in 1 .. Len(s[i][3]) : s[i][3][m][1] = "dup2" =>
            \/ \E j \in 1 .. Len(s[i][3]) : j < m /\ s[i][3][j] = <<"open", s[i][3][m][2]>>
            \/ \E j \in 1 .. Len(s) : /\ j < i /\ s[j][1] \in {"pipe", "pipe2"}
                                      /\ s[i][3][m][2] \in {R(s[j][2]), W(s[j][2])}
Starts(c, s) ==
    /\ \E i \in 1 .. Len(s) : s[i][1] = "fork" /\ s[i][2] = c
    /\ Has(s, <<"waitpid", c>>)
Supplies(c, s) ==
    /\ \E i \in 1 .. Len(s) : s[i][1] = "read"
    /\ \E i \in 1 .. Len(s) : s[i] = <<"write", W(Supply(c)), Input>> \/ s[i][1] = "thread"
    /\ \A i \in 1 .. Len(s) : s[i][1] = "write" => s[i][3] = Input
    /\ \E i \in 1 .. Len(s) : s[i] \in {<<"pipe", Supply(c)>>, <<"pipe2", Supply(c)>>}

\* What a tidy child duplicates.
LEMMA Duplicates ==
    ASSUME NEW c, NEW s, TidyAndWired(c, s)
    PROVE  \A m \in 1 .. Len(s) : s[m][1] = "dup2" => s[m][2] \in {R(Source(c)), W(Sink(c))} \ Std
BY DEF TidyAndWired, Tidy

\* subprocess() in subprocess-test.cc.
LEMMA SubprocessTestText ==
    ASSUME run \in Runs, run.main = "subprocess"
    PROVE  /\ Orderly("t1", subprocessTest("c1")) /\ subprocessTest("c1") \in Seq(ParentCalls)
           /\ Provided(subprocessTest("c1")) /\ Starts("c1", subprocessTest("c1"))
           /\ Supplies("c1", subprocessTest("c1"))
<1> DEFINE c == "c1"
<1>1. PICK sp, ip, sr, sw, ir, iw, x, s :
          /\ sp = Supply(c) /\ ip = Ingest(c)
          /\ sr = R(sp) /\ sw = W(sp) /\ ir = R(ip) /\ iw = W(ip)
          /\ x = SubprocessChild(c) /\ s = subprocessTest(c)
  OBVIOUS
<1>2. Filters /\ c \in Children /\ c \in Kids /\ run.stages = 1 /\ Of("t1") = c
  BY RunKinds, Stages DEF Filters, Children, Kids, Of
<1>3. /\ sp \in Pipes /\ ip \in Pipes /\ sp # ip
      /\ sr \in Ends /\ sw \in Ends /\ ir \in Ends /\ iw \in Ends
      /\ sr \notin Std /\ sw \notin Std /\ ir \notin Std /\ iw \notin Std
      /\ sr # sw /\ sr # ir /\ sr # iw /\ sw # ir /\ sw # iw /\ ir # iw
      /\ sr[1] = c /\ sw[1] = c /\ ir[1] = c /\ iw[1] = c
  BY <1>1, <1>2, EndsOf, PipesAreObjects
<1>4. /\ TidyAndWired(c, x) /\ x \in Seq(ChildCalls)
      /\ Closes(x, sr) /\ Closes(x, sw) /\ Closes(x, ir) /\ Closes(x, iw)
  BY <1>1, <1>2, SubprocessText
<1>5. s = <<<<"pipe", sp>>, <<"pipe", ip>>, <<"fork", c, x>>, <<"close", sr>>, <<"close", iw>>,
            <<"write", sw, Input>>, <<"close", sw>>, <<"read", ir>>, <<"close", ir>>, <<"waitpid", c>>>>
  BY <1>1, Spell5_5 DEF subprocessTest, subprocess
<1>6. s \in Seq(ParentCalls)
  BY <1>2, <1>3, <1>4, <1>5, SizesAssumption DEF ParentCalls, WriterCalls
<1>7. /\ Len(s) = 10 /\ s[1] = <<"pipe", sp>> /\ s[2] = <<"pipe", ip>> /\ s[3] = <<"fork", c, x>>
      /\ s[4] = <<"close", sr>> /\ s[5] = <<"close", iw>> /\ s[7] = <<"close", sw>>
      /\ s[9] = <<"close", ir>>
  BY <1>5
<1>a. \A i \in 1 .. Len(s) :
          /\ s[i][1] = "pipe" \/ s[i][1] = "pipe2" => i = 1 \/ i = 2
          /\ s[i][1] = "fork" => i = 3
          /\ s[i][1] = "write" \/ s[i][1] = "thread" => i = 6 /\ s[i][1] = "write"
          /\ s[i] = <<"close", sw>> => i = 7
          /\ s[i][1] = "read" => i = 8
  BY <1>3, <1>5
<1>8. ForksTidy(s)
  <2>1. s[3][1] = "fork" /\ s[3][2] = c /\ s[3][3] = x
    BY <1>7
  <2>2. \A i \in 1 .. Len(s) : s[i][1] = "fork" => s[i][2] = c /\ s[i][3] = x
    BY <1>a, <2>1
  <2>3. c \in Kids /\ x # <<>> /\ x[Len(x)] = <<"exec">> /\ Tidy(c, x) /\ Wired(c, x)
    BY <1>2, <1>4 DEF TidyAndWired
  <2> QED BY <2>2, <2>3 DEF ForksTidy
<1>9. ForksClose(s)
  <2> SUFFICES ASSUME NEW k \in 1 .. Len(s), NEW i \in 1 .. Len(s), s[k][1] = "pipe", s[i][1] = "fork",
                      NEW d \in {R(s[k][2]), W(s[k][2])}
               PROVE  Closes(s[i][3], d)
    BY DEF ForksClose
  <2>1. i = 3 /\ (k = 1 \/ k = 2)
    BY <1>7, <1>a
  <2>2. s[i][3] = x /\ d \in {sr, sw, ir, iw}
    BY <1>1, <1>7, <2>1
  <2> QED BY <1>4, <2>2
<1>10. ForksKeep(s)
  BY <1>5 DEF ForksKeep
<1>11. ClosesAfter(s)
  <2>1. \A i \in 1 .. Len(s) : s[i][1] = "close" => s[i][2] \notin Std
    BY <1>3, <1>5
  <2>2. ASSUME NEW i \in 1 .. Len(s), s[i][1] \in {"pipe", "pipe2"},
               NEW d \in {R(s[i][2]), W(s[i][2])}
        PROVE  \E j \in 1 .. Len(s) : j > i /\ s[j] = <<"close", d>>
    <3>1. (i = 1 \/ i = 2) /\ d \in {sr, sw, ir, iw}
      BY <1>1, <1>7, <1>a, <2>2
    <3> QED BY <1>7, <3>1
  <2> QED BY <2>1, <2>2 DEF ClosesAfter
<1>12. ForksOnce(s)
  BY <1>2, <1>5 DEF ForksOnce
<1>13. Serves(c, s)
  <2>1. \A i \in 1 .. Len(s) :
          /\ s[i][1] \in {"fork", "waitpid"} => s[i][2] = c
          /\ s[i][1] \in {"pipe", "pipe2"} => s[i][2] \in {sp, ip}
          /\ s[i][1] = "close" => s[i][2][1] = c
          /\ s[i][1] = "read" => s[i][2] = ir
          /\ s[i][1] = "write" => s[i][2] = sw
          /\ s[i][1] # "thread" /\ s[i][1] # "join"
    BY <1>3, <1>5
  <2>2. /\ \A i \in 1 .. Len(s) : s[i][1] \in {"pipe", "pipe2"} =>
             3 \in 1 .. Len(s) /\ 3 > i /\ s[3][1] = "fork"
        /\ \A i, j \in 1 .. Len(s) : s[i][1] = "fork" /\ s[j][1] = "read" => i < j
        /\ \A i, j \in 1 .. Len(s) :
             s[i][1] \in {"write", "thread"} /\ s[j][1] \in {"write", "thread"} => i = j
        /\ \A i, j \in 1 .. Len(s) :
             s[i][1] \in {"write", "thread"} /\ s[j] = <<"close", sw>> => s[i][1] = "write" /\ i < j
        /\ \A i, j \in 1 .. Len(s) :
             s[i][1] \in {"write", "thread"} /\ s[j][1] \in {"pipe", "pipe2"} => j < i
    BY <1>7, <1>a
  <2> QED BY <1>1, <2>1, <2>2 DEF Serves
<1>14. Provided(s)
  <2> SUFFICES ASSUME NEW i \in 1 .. Len(s), s[i][1] = "fork",
                      NEW m \in 1 .. Len(s[i][3]), s[i][3][m][1] = "dup2"
               PROVE  \/ \E j \in 1 .. Len(s[i][3]) : j < m /\ s[i][3][j] = <<"open", s[i][3][m][2]>>
                      \/ \E j \in 1 .. Len(s) : /\ j < i /\ s[j][1] \in {"pipe", "pipe2"}
                                                /\ s[i][3][m][2] \in {R(s[j][2]), W(s[j][2])}
    BY DEF Provided
  <2>1. i = 3 /\ s[i][3] = x
    BY <1>7, <1>a
  <2>2. x[m][2] \in {sr, iw}
    <3>1. Source(c) = sp /\ Sink(c) = ip
      BY <1>1, <1>2 DEF Source, Sink
    <3> QED BY <1>1, <1>4, <2>1, <3>1, Duplicates
  <2>3. s[1][1] = "pipe" /\ s[1][2] = sp /\ s[2][1] = "pipe" /\ s[2][2] = ip
    BY <1>7
  <2>4. x[m][2] = sr => 1 \in 1 .. Len(s) /\ 1 < i /\ x[m][2] \in {R(s[1][2]), W(s[1][2])}
    BY <1>1, <1>7, <2>1, <2>3
  <2>5. x[m][2] = iw => 2 \in 1 .. Len(s) /\ 2 < i /\ x[m][2] \in {R(s[2][2]), W(s[2][2])}
    BY <1>1, <1>7, <2>1, <2>3
  <2> QED BY <2>1, <2>2, <2>3, <2>4, <2>5
<1>15. Starts(c, s) /\ Supplies(c, s)
  <2>1. s[6] = <<"write", sw, Input>> /\ s[8] = <<"read", ir>> /\ s[10] = <<"waitpid", c>>
    BY <1>5
  <2>2. \A i \in 1 .. Len(s) : s[i][1] = "write" => s[i][3] = Input
    BY <1>a, <2>1
  <2>3. Starts(c, s)
    BY <1>7, <2>1 DEF Starts, Has
  <2>4. /\ 8 \in 1 .. Len(s) /\ s[8][1] = "read"
        /\ 6 \in 1 .. Len(s) /\ s[6] = <<"write", W(Supply(c)), Input>>
        /\ 1 \in 1 .. Len(s) /\ s[1] = <<"pipe", Supply(c)>>
    BY <1>1, <1>7, <2>1
  <2> QED BY <2>2, <2>3, <2>4 DEF Supplies
<1> QED BY <1>1, <1>2, <1>6, <1>8, <1>9, <1>10, <1>11, <1>12, <1>13, <1>14, <1>15 DEF Orderly

\* runFilter() in mr.cc: each of the two threads.
LEMMA RunFilterText ==
    ASSUME run \in Runs, run.main = "mr",
           NEW t, NEW w, NEW c, <<t, w, c>> \in {<<"t1", "w1", "c1">>, <<"t2", "w2", "c2">>}
    PROVE  /\ Orderly(t, runFilter(w, c)) /\ runFilter(w, c) \in Seq(ParentCalls)
           /\ Provided(runFilter(w, c)) /\ Starts(c, runFilter(w, c)) /\ Supplies(c, runFilter(w, c))
<1>1. PICK sp, ip, sr, sw, ir, iw, x, wt, s :
          /\ sp = Supply(c) /\ ip = Ingest(c)
          /\ sr = R(sp) /\ sw = W(sp) /\ ir = R(ip) /\ iw = W(ip)
          /\ x = SubprocessChild(c) /\ wt = WriterText(c) /\ s = runFilter(w, c)
  OBVIOUS
<1>2. /\ Filters /\ c \in Children /\ c \in Kids /\ run.stages = 2 /\ Of(t) = c
      /\ w \in Writers /\ w = WriterOf(c)
  BY RunKinds, Stages DEF Filters, Children, Kids, Of, Writers, WriterOf
<1>3. /\ sp \in Pipes /\ ip \in Pipes /\ sp # ip
      /\ sr \in Ends /\ sw \in Ends /\ ir \in Ends /\ iw \in Ends
      /\ sr \notin Std /\ sw \notin Std /\ ir \notin Std /\ iw \notin Std
      /\ sr # sw /\ sr # ir /\ sr # iw /\ sw # ir /\ sw # iw /\ ir # iw
      /\ sr[1] = c /\ sw[1] = c /\ ir[1] = c /\ iw[1] = c
  BY <1>1, <1>2, EndsOf, PipesAreObjects
<1>4. /\ TidyAndWired(c, x) /\ x \in Seq(ChildCalls)
      /\ Closes(x, sr) /\ Closes(x, sw) /\ Closes(x, ir) /\ Closes(x, iw)
  BY <1>1, <1>2, SubprocessText
<1>b. wt = <<<<"write", sw, Input>>, <<"close", sw>>>>
  BY <1>1 DEF WriterText
<1>c. Closes(wt, sw) /\ wt \in Seq(WriterCalls)
  <2>1. Len(wt) = 2 /\ wt[2] = <<"close", sw>>
    BY <1>b
  <2>2. wt \in Seq(WriterCalls)
    BY <1>3, <1>b, SizesAssumption DEF WriterCalls
  <2> QED BY <2>1, <2>2 DEF Closes, Has
<1>5. s = <<<<"pipe2", sp>>, <<"pipe2", ip>>, <<"fork", c, x>>, <<"close", sr>>, <<"close", iw>>,
            <<"thread", w, wt>>, <<"read", ir>>, <<"close", ir>>, <<"join", w>>, <<"waitpid", c>>>>
  BY <1>1, <1>b, Spell5_5 DEF runFilter, subprocessCloexec
<1>6. s \in Seq(ParentCalls)
  BY <1>2, <1>3, <1>4, <1>5, <1>c, SizesAssumption DEF ParentCalls, WriterCalls
<1>7. /\ Len(s) = 10 /\ s[1] = <<"pipe2", sp>> /\ s[2] = <<"pipe2", ip>> /\ s[3] = <<"fork", c, x>>
      /\ s[4] = <<"close", sr>> /\ s[5] = <<"close", iw>> /\ s[6] = <<"thread", w, wt>>
      /\ s[8] = <<"close", ir>>
  BY <1>5
<1>a. \A i \in 1 .. Len(s) :
          /\ s[i][1] # "pipe"
          /\ s[i][1] = "pipe2" => i = 1 \/ i = 2
          /\ s[i][1] = "fork" => i = 3
          /\ s[i][1] = "write" \/ s[i][1] = "thread" => i = 6 /\ s[i][1] = "thread"
          /\ s[i] # <<"close", sw>>
          /\ s[i][1] = "read" => i = 7
  BY <1>3, <1>5
<1>8. ForksTidy(s)
  <2> SUFFICES ASSUME NEW i \in 1 .. Len(s), s[i][1] = "fork"
               PROVE  s[i][2] \in Kids /\ TidyAndWired(s[i][2], s[i][3])
    BY DEF ForksTidy, TidyAndWired
  <2>1. s[i][2] = c /\ s[i][3] = x
    BY <1>7, <1>a
  <2> QED BY <1>2, <1>4, <2>1
<1>9. ForksClose(s)
  BY <1>a DEF ForksClose
<1>10. ForksKeep(s)
  BY <1>5 DEF ForksKeep
<1>11. ClosesAfter(s)
  <2>1. \A i \in 1 .. Len(s) : s[i][1] = "close" => s[i][2] \notin Std
    BY <1>3, <1>5
  <2>2. ASSUME NEW i \in 1 .. Len(s), s[i][1] \in {"pipe", "pipe2"},
               NEW d \in {R(s[i][2]), W(s[i][2])}
        PROVE  \E j \in 1 .. Len(s) : j > i /\ (s[j] = <<"close", d>> \/ (s[j][1] = "thread" /\ Closes(s[j][3], d)))
    <3>1. (i = 1 \/ i = 2) /\ d \in {sr, sw, ir, iw}
      BY <1>1, <1>7, <1>a, <2>2
    <3>2. s[6][1] = "thread" /\ s[6][3] = wt
      BY <1>7
    <3>3. CASE d = sw
      BY <1>7, <1>c, <3>1, <3>2, <3>3
    <3>4. CASE d # sw
      <4>1. PICK j \in 4 .. 8 : s[j] = <<"close", d>>
        BY <1>7, <3>1, <3>4
      <4>2. j \in 1 .. Len(s) /\ j > i
        BY <1>7, <3>1
      <4> QED BY <4>1, <4>2
    <3> QED BY <3>3, <3>4
  <2> QED BY <2>1, <2>2 DEF ClosesAfter
<1>12. ForksOnce(s)
  BY <1>2, <1>5 DEF ForksOnce
<1>13. Serves(c, s)
  <2>1. \A i \in 1 .. Len(s) :
          /\ s[i][1] \in {"fork", "waitpid"} => s[i][2] = c
          /\ s[i][1] \in {"pipe", "pipe2"} => s[i][2] \in {sp, ip}
          /\ s[i][1] = "close" => s[i][2][1] = c
          /\ s[i][1] = "read" => s[i][2] = ir
          /\ s[i][1] # "write"
          /\ s[i][1] = "thread" => s[i][2] = w /\ s[i][3] = wt
    BY <1>3, <1>5
  <2>2. /\ \A i \in 1 .. Len(s) : s[i][1] \in {"pipe", "pipe2"} =>
             3 \in 1 .. Len(s) /\ 3 > i /\ s[3][1] = "fork"
        /\ \A i, j \in 1 .. Len(s) : s[i][1] = "fork" /\ s[j][1] = "read" => i < j
        /\ \A i, j \in 1 .. Len(s) :
             s[i][1] \in {"write", "thread"} /\ s[j][1] \in {"write", "thread"} => i = j
        /\ \A j \in 1 .. Len(s) : s[j] # <<"close", sw>>
        /\ \A i, j \in 1 .. Len(s) :
             s[i][1] \in {"write", "thread"} /\ s[j][1] \in {"pipe", "pipe2"} => j < i
    BY <1>7, <1>a
  <2>3. run.main = "mr" => \A i \in 1 .. Len(s) : s[i][1] # "pipe" /\ s[i] # <<"close", sw>>
    BY <1>a
  <2> QED BY <1>1, <1>2, <2>1, <2>2, <2>3 DEF Serves
<1>14. Provided(s)
  <2> SUFFICES ASSUME NEW i \in 1 .. Len(s), s[i][1] = "fork",
                      NEW m \in 1 .. Len(s[i][3]), s[i][3][m][1] = "dup2"
               PROVE  \/ \E j \in 1 .. Len(s[i][3]) : j < m /\ s[i][3][j] = <<"open", s[i][3][m][2]>>
                      \/ \E j \in 1 .. Len(s) : /\ j < i /\ s[j][1] \in {"pipe", "pipe2"}
                                                /\ s[i][3][m][2] \in {R(s[j][2]), W(s[j][2])}
    BY DEF Provided
  <2>1. i = 3 /\ s[i][3] = x
    BY <1>7, <1>a
  <2>2. x[m][2] \in {sr, iw}
    <3>1. Source(c) = sp /\ Sink(c) = ip
      BY <1>1, <1>2 DEF Source, Sink
    <3> QED BY <1>1, <1>4, <2>1, <3>1, Duplicates
  <2>3. s[1][1] = "pipe2" /\ s[1][2] = sp /\ s[2][1] = "pipe2" /\ s[2][2] = ip
    BY <1>7
  <2>4. x[m][2] = sr => 1 \in 1 .. Len(s) /\ 1 < i /\ x[m][2] \in {R(s[1][2]), W(s[1][2])}
    BY <1>1, <1>7, <2>1, <2>3
  <2>5. x[m][2] = iw => 2 \in 1 .. Len(s) /\ 2 < i /\ x[m][2] \in {R(s[2][2]), W(s[2][2])}
    BY <1>1, <1>7, <2>1, <2>3
  <2> QED BY <2>1, <2>2, <2>3, <2>4, <2>5
<1>15. Starts(c, s) /\ Supplies(c, s)
  <2>1. s[7] = <<"read", ir>> /\ s[10] = <<"waitpid", c>>
    BY <1>5
  <2>2. \A i \in 1 .. Len(s) : s[i][1] # "write"
    BY <1>a
  <2>3. Starts(c, s)
    BY <1>7, <2>1 DEF Starts, Has
  <2>4. /\ 7 \in 1 .. Len(s) /\ s[7][1] = "read"
        /\ 6 \in 1 .. Len(s) /\ s[6][1] = "thread"
        /\ 1 \in 1 .. Len(s) /\ s[1] = <<"pipe2", Supply(c)>>
    BY <1>1, <1>7, <2>1
  <2> QED BY <2>2, <2>3, <2>4 DEF Supplies
<1> QED BY <1>1, <1>2, <1>6, <1>8, <1>9, <1>10, <1>11, <1>12, <1>13, <1>14, <1>15 DEF Orderly

\* pipeline() in pipeline-test.cc.
LEMMA PipelineTestText ==
    ASSUME run \in Runs, run.main = "pipeline"
    PROVE  /\ Orderly("t1", pipelineTest("c1", "c2")) /\ pipelineTest("c1", "c2") \in Seq(ParentCalls)
           /\ Provided(pipelineTest("c1", "c2"))
           /\ Starts("c1", pipelineTest("c1", "c2")) /\ Starts("c2", pipelineTest("c1", "c2"))
<1>1. PICK p, r, w, x, y, s :
          /\ p = ToNext("c1") /\ r = R(p) /\ w = W(p)
          /\ x = FirstChild("c1") /\ y = SecondChild("c1") /\ s = pipelineTest("c1", "c2")
  OBVIOUS
<1>2. /\ ~Filters /\ run.stages = 2 /\ "c1" \in Children /\ "c2" \in Children
      /\ "c1" \in Kids /\ "c2" \in Kids /\ Last("c2") /\ NextOf("c1") = "c2"
  BY RunKinds, Stages DEF Filters, Children, Kids, Last, NextOf
<1>3. p \in Pipes /\ r \in Ends /\ w \in Ends /\ r \notin Std /\ w \notin Std /\ r # w
  BY <1>1, <1>2, EndsOf, PipesAreObjects
<1>4. /\ TidyAndWired("c1", x) /\ x \in Seq(ChildCalls) /\ Closes(x, r) /\ Closes(x, w)
      /\ TidyAndWired("c2", y) /\ y \in Seq(ChildCalls) /\ Closes(y, r) /\ Closes(y, w)
  BY <1>1, PipelineText
<1>5. s = <<<<"pipe", p>>, <<"fork", "c1", x>>, <<"fork", "c2", y>>, <<"close", r>>, <<"close", w>>,
            <<"waitpid", "c1">>, <<"waitpid", "c2">>>>
  BY <1>1, Spell5_2 DEF pipelineTest, pipeline, FirstChild, SecondChild
<1>6. s \in Seq(ParentCalls)
  BY <1>2, <1>3, <1>4, <1>5 DEF ParentCalls, WriterCalls
<1>7. /\ Len(s) = 7 /\ s[1] = <<"pipe", p>> /\ s[2] = <<"fork", "c1", x>> /\ s[3] = <<"fork", "c2", y>>
      /\ s[4] = <<"close", r>> /\ s[5] = <<"close", w>>
  BY <1>5
<1>a. \A i \in 1 .. Len(s) :
          /\ s[i][1] = "pipe" \/ s[i][1] = "pipe2" => i = 1
          /\ s[i][1] = "fork" => i = 2 \/ i = 3
  BY <1>5
<1>8. ForksTidy(s)
  <2> SUFFICES ASSUME NEW i \in 1 .. Len(s), s[i][1] = "fork"
               PROVE  s[i][2] \in Kids /\ TidyAndWired(s[i][2], s[i][3])
    BY DEF ForksTidy, TidyAndWired
  <2>1. (s[i][2] = "c1" /\ s[i][3] = x) \/ (s[i][2] = "c2" /\ s[i][3] = y)
    BY <1>7, <1>a
  <2> QED BY <1>2, <1>4, <2>1
<1>9. ForksClose(s)
  <2> SUFFICES ASSUME NEW k \in 1 .. Len(s), NEW i \in 1 .. Len(s), s[k][1] = "pipe", s[i][1] = "fork",
                      NEW d \in {R(s[k][2]), W(s[k][2])}
               PROVE  Closes(s[i][3], d)
    BY DEF ForksClose
  <2>1. (i = 2 \/ i = 3) /\ k = 1
    BY <1>a
  <2>2. s[i][3] \in {x, y} /\ d \in {r, w}
    BY <1>1, <1>7, <2>1
  <2> QED BY <1>4, <2>2
<1>10. ForksKeep(s)
  BY <1>5 DEF ForksKeep
<1>11. ClosesAfter(s)
  <2>1. \A i \in 1 .. Len(s) : s[i][1] = "close" => s[i][2] \notin Std
    BY <1>3, <1>5
  <2>2. ASSUME NEW i \in 1 .. Len(s), s[i][1] \in {"pipe", "pipe2"},
               NEW d \in {R(s[i][2]), W(s[i][2])}
        PROVE  \E j \in 1 .. Len(s) : j > i /\ s[j] = <<"close", d>>
    <3>1. i = 1 /\ d \in {r, w}
      BY <1>1, <1>7, <1>a, <2>2
    <3> QED BY <1>7, <3>1
  <2> QED BY <2>1, <2>2 DEF ClosesAfter
<1>12. ForksOnce(s)
  <2>1. /\ \A i, j \in 1 .. Len(s) : s[i][1] = "fork" /\ s[j][1] = "fork" /\ s[i][2] = s[j][2] => i = j
        /\ \A i, j \in 1 .. Len(s) : s[i][1] = "fork" /\ s[j][1] = "waitpid" /\ s[i][2] = s[j][2] => i < j
        /\ \A i \in 1 .. Len(s) : s[i][1] = "waitpid" => s[i][2] \in Kids
    BY <1>2, <1>5
  <2>2. ASSUME NEW i \in 1 .. Len(s), s[i][1] = "fork", ~Last(s[i][2])
        PROVE  3 \in 1 .. Len(s) /\ 3 > i /\ s[3][1] = "fork" /\ s[3][2] = NextOf(s[i][2])
    BY <1>2, <1>7, <1>a, <2>2
  <2> QED BY <2>1, <2>2 DEF ForksOnce
<1>13. Connects(s)
  BY <1>5 DEF Connects
<1>14. Provided(s)
  <2> SUFFICES ASSUME NEW i \in 1 .. Len(s), s[i][1] = "fork",
                      NEW m \in 1 .. Len(s[i][3]), s[i][3][m][1] = "dup2"
               PROVE  \/ \E j \in 1 .. Len(s[i][3]) : j < m /\ s[i][3][j] = <<"open", s[i][3][m][2]>>
                      \/ \E j \in 1 .. Len(s) : /\ j < i /\ s[j][1] \in {"pipe", "pipe2"}
                                                /\ s[i][3][m][2] \in {R(s[j][2]), W(s[j][2])}
    BY DEF Provided
  <2>1. i > 1 /\ (s[i][3] = x \/ s[i][3] = y)
    BY <1>7, <1>a
  <2>2. s[i][3][m][2] \in {r, w}
    <3>1. R(Source("c1")) = StdIn /\ Sink("c1") = p /\ Source("c2") = p /\ W(Sink("c2")) = StdOut
      BY <1>1, <1>2, RunKinds, Stages, PipesAreObjects DEF Source, Sink, First, Last, PrevOf
    <3> QED BY <1>1, <1>4, <2>1, <3>1, Duplicates DEF Std
  <2>3. 1 \in 1 .. Len(s) /\ s[1][1] = "pipe" /\ s[i][3][m][2] \in {R(s[1][2]), W(s[1][2])}
    BY <1>1, <1>7, <2>2
  <2> QED BY <2>1, <2>3
<1>15. Starts("c1", s) /\ Starts("c2", s)
  <2>1. s[6] = <<"waitpid", "c1">> /\ s[7] = <<"waitpid", "c2">>
    BY <1>5
  <2> QED BY <1>7, <2>1 DEF Starts, Has
<1> QED BY <1>1, <1>2, <1>6, <1>8, <1>9, <1>10, <1>11, <1>12, <1>13, <1>14, <1>15 DEF Orderly

\* runPipeline() in stsh.cc: the calls of the shell for one, two and three stages.
PipeCall(i) == <<"pipe", ToNext(Stage[i])>>
ForkCall(i) == <<"fork", Stage[i], StageChild(run, i)>>
CloseRead(i) == <<"close", R(ToNext(Stage[i]))>>
CloseWrite(i) == <<"close", W(ToNext(Stage[i]))>>
WaitCall(i) == <<"waitpid", Stage[i]>>

LEMMA RunPipelineCalls ==
    ASSUME run \in Runs, run.main = "stsh"
    PROVE  /\ run.stages = 1 => runPipeline(run) = <<ForkCall(1), WaitCall(1)>>
           /\ run.stages = 2 => runPipeline(run) =
                 <<PipeCall(1), ForkCall(1), CloseWrite(1), ForkCall(2), CloseRead(1), CloseRead(1),
                   WaitCall(1), WaitCall(2)>>
           /\ run.stages = 3 => runPipeline(run) =
                 <<PipeCall(1), ForkCall(1), CloseWrite(1), PipeCall(2), ForkCall(2), CloseRead(1),
                   CloseWrite(2), ForkCall(3), CloseRead(2), CloseRead(2),
                   WaitCall(1), WaitCall(2), WaitCall(3)>>
<1> DEFINE n == run.stages
           L(i) == If(i < n, <<PipeCall(i)>>) \o <<ForkCall(i)>> \o
                   If(i > 1, <<CloseRead(i - 1)>>) \o If(i < n, <<CloseWrite(i)>>)
           ws == [i \in 1 .. n |-> WaitCall(i)]
           T == {PipeCall(1), PipeCall(2), ForkCall(1), ForkCall(2), ForkCall(3), CloseRead(1),
                 CloseRead(2), CloseWrite(1), CloseWrite(2)}
           s == runPipeline(run)
<1>1. s = L(1) \o If(n > 1, L(2)) \o If(n > 2, L(3)) \o If(n > 1, <<CloseRead(n - 1)>>) \o ws
  BY DEF runPipeline, PipeCall, ForkCall, CloseRead, CloseWrite, WaitCall
<1>2. n \in 1 .. 3
  BY RunKinds
<1>3. /\ n = 1 => ws = <<WaitCall(1)>>
      /\ n = 2 => ws = <<WaitCall(1), WaitCall(2)>>
      /\ n = 3 => ws = <<WaitCall(1), WaitCall(2), WaitCall(3)>>
  OBVIOUS
<1>4. /\ PipeCall(1) \in T /\ PipeCall(2) \in T /\ ForkCall(1) \in T /\ ForkCall(2) \in T
      /\ ForkCall(3) \in T /\ CloseRead(1) \in T /\ CloseRead(2) \in T /\ CloseWrite(1) \in T
      /\ CloseWrite(2) \in T
  OBVIOUS
<1>5. L(1) = If(1 < n, <<PipeCall(1)>>) \o <<ForkCall(1)>> \o <<>> \o If(1 < n, <<CloseWrite(1)>>)
  BY DEF If
<1>6. L(2) = If(2 < n, <<PipeCall(2)>>) \o <<ForkCall(2)>> \o <<CloseRead(1)>> \o If(2 < n, <<CloseWrite(2)>>)
  BY DEF If
<1>7. L(3) = If(3 < n, <<PipeCall(3)>>) \o <<ForkCall(3)>> \o <<CloseRead(2)>> \o If(3 < n, <<CloseWrite(3)>>)
  BY DEF If
<1> HIDE DEF L, ws, T, s, n
<1>8. CASE n = 1
  <2>1. L(1) = <<>> \o <<ForkCall(1)>> \o <<>> \o <<>>
    BY <1>5, <1>8 DEF If
  <2>2. <<ForkCall(1)>> \in Seq(T)
    BY <1>4
  <2>3. L(1) = <<ForkCall(1)>>
    BY <2>1, <2>2, Nothing
  <2>4. s = L(1) \o <<>> \o <<>> \o <<>> \o ws
    BY <1>1, <1>8 DEF If
  <2>5. s = <<ForkCall(1)>> \o <<WaitCall(1)>>
    BY <1>3, <1>8, <2>2, <2>3, <2>4, Nothing
  <2> QED BY <1>8, <2>5, Spell1_1 DEF s, n
<1>9. n > 1 => L(1) = <<PipeCall(1), ForkCall(1), CloseWrite(1)>>
  <2> HAVE n > 1
  <2>1. L(1) = <<PipeCall(1)>> \o <<ForkCall(1)>> \o <<>> \o <<CloseWrite(1)>>
    BY <1>5 DEF If
  <2>2. <<PipeCall(1)>> \o <<ForkCall(1)>> = <<PipeCall(1), ForkCall(1)>>
    BY Spell1_1
  <2>3. <<PipeCall(1), ForkCall(1)>> \in Seq(T)
    BY <1>4
  <2>4. L(1) = <<PipeCall(1), ForkCall(1)>> \o <<CloseWrite(1)>>
    BY <2>1, <2>2, <2>3, Nothing
  <2> QED BY <2>4, Spell2_1
<1>10. CASE n = 2
  <2>1. L(2) = <<>> \o <<ForkCall(2)>> \o <<CloseRead(1)>> \o <<>>
    BY <1>6, <1>10 DEF If
  <2>2. <<ForkCall(2)>> \in Seq(T) /\ <<ForkCall(2), CloseRead(1)>> \in Seq(T)
    BY <1>4
  <2>3. <<ForkCall(2)>> \o <<CloseRead(1)>> = <<ForkCall(2), CloseRead(1)>>
    BY Spell1_1
  <2>4. L(2) = <<ForkCall(2), CloseRead(1)>>
    BY <2>1, <2>2, <2>3, Nothing
  <2>5. s = L(1) \o L(2) \o <<>> \o <<CloseRead(1)>> \o ws
    BY <1>1, <1>10 DEF If
  <2>6. L(1) \o L(2) = <<PipeCall(1), ForkCall(1), CloseWrite(1), ForkCall(2), CloseRead(1)>>
    <3>1. L(1) = <<PipeCall(1), ForkCall(1), CloseWrite(1)>>
      BY <1>9, <1>10
    <3>2. <<PipeCall(1), ForkCall(1), CloseWrite(1)>> \o <<ForkCall(2), CloseRead(1)>> =
          <<PipeCall(1), ForkCall(1), CloseWrite(1), ForkCall(2), CloseRead(1)>>
      BY Spell3_2
    <3> QED BY <2>4, <3>1, <3>2
  <2>7. <<PipeCall(1), ForkCall(1), CloseWrite(1), ForkCall(2), CloseRead(1)>> \in Seq(T)
    BY <1>4
  <2>8. s = <<PipeCall(1), ForkCall(1), CloseWrite(1), ForkCall(2), CloseRead(1)>> \o <<CloseRead(1)>> \o ws
    BY <2>5, <2>6, <2>7, Nothing
  <2>9. s = <<PipeCall(1), ForkCall(1), CloseWrite(1), ForkCall(2), CloseRead(1), CloseRead(1)>> \o
            <<WaitCall(1), WaitCall(2)>>
    BY <1>3, <1>10, <2>8, Spell5_1
  <2>10. s = <<PipeCall(1), ForkCall(1), CloseWrite(1), ForkCall(2), CloseRead(1), CloseRead(1),
               WaitCall(1), WaitCall(2)>>
    BY <2>9, Spell6_2
  <2> QED BY <1>10, <2>10 DEF s, n
<1>11. CASE n = 3
  <2>1. L(2) = <<PipeCall(2)>> \o <<ForkCall(2)>> \o <<CloseRead(1)>> \o <<CloseWrite(2)>>
    <3>1. 2 < n
      BY <1>11
    <3>2. If(2 < n, <<PipeCall(2)>>) = <<PipeCall(2)>> /\ If(2 < n, <<CloseWrite(2)>>) = <<CloseWrite(2)>>
      BY <3>1 DEF If
    <3> QED BY <1>6, <3>2
  <2>2. L(2) = <<PipeCall(2), ForkCall(2), CloseRead(1), CloseWrite(2)>>
    <3>1. L(2) = <<PipeCall(2), ForkCall(2)>> \o <<CloseRead(1)>> \o <<CloseWrite(2)>>
      BY <2>1, Spell1_1
    <3>2. L(2) = <<PipeCall(2), ForkCall(2), CloseRead(1)>> \o <<CloseWrite(2)>>
      BY <3>1, Spell2_1
    <3> QED BY <3>2, Spell3_1
  <2>3. L(3) = <<>> \o <<ForkCall(3)>> \o <<CloseRead(2)>> \o <<>>
    BY <1>7, <1>11 DEF If
  <2>4. <<ForkCall(3)>> \in Seq(T) /\ <<ForkCall(3), CloseRead(2)>> \in Seq(T)
    BY <1>4
  <2>5. <<ForkCall(3)>> \o <<CloseRead(2)>> = <<ForkCall(3), CloseRead(2)>>
    BY Spell1_1
  <2>6. L(3) = <<ForkCall(3), CloseRead(2)>>
    BY <2>3, <2>4, <2>5, Nothing
  <2>7. s = L(1) \o L(2) \o L(3) \o <<CloseRead(2)>> \o ws
    BY <1>1, <1>11 DEF If
  <2>8. L(1) \o L(2) = <<PipeCall(1), ForkCall(1), CloseWrite(1), PipeCall(2), ForkCall(2), CloseRead(1),
                        CloseWrite(2)>>
    <3>1. L(1) = <<PipeCall(1), ForkCall(1), CloseWrite(1)>>
      BY <1>9, <1>11
    <3>2. <<PipeCall(1), ForkCall(1), CloseWrite(1)>> \o
              <<PipeCall(2), ForkCall(2), CloseRead(1), CloseWrite(2)>> =
          <<PipeCall(1), ForkCall(1), CloseWrite(1), PipeCall(2), ForkCall(2), CloseRead(1), CloseWrite(2)>>
      BY Spell3_4
    <3> QED BY <2>2, <3>1, <3>2
  <2>9. s = <<PipeCall(1), ForkCall(1), CloseWrite(1), PipeCall(2), ForkCall(2), CloseRead(1),
              CloseWrite(2), ForkCall(3), CloseRead(2)>> \o <<CloseRead(2)>> \o ws
    <3>1. L(1) \o L(2) \o L(3) = <<PipeCall(1), ForkCall(1), CloseWrite(1), PipeCall(2), ForkCall(2),
                                      CloseRead(1), CloseWrite(2)>> \o <<ForkCall(3), CloseRead(2)>>
      BY <2>6, <2>8
    <3>2. L(1) \o L(2) \o L(3) = <<PipeCall(1), ForkCall(1), CloseWrite(1), PipeCall(2), ForkCall(2),
                                      CloseRead(1), CloseWrite(2), ForkCall(3), CloseRead(2)>>
      <4>1. <<PipeCall(1), ForkCall(1), CloseWrite(1), PipeCall(2), ForkCall(2), CloseRead(1),
              CloseWrite(2)>> \o <<ForkCall(3), CloseRead(2)>> =
            <<PipeCall(1), ForkCall(1), CloseWrite(1), PipeCall(2), ForkCall(2), CloseRead(1),
              CloseWrite(2), ForkCall(3), CloseRead(2)>>
        BY Spell7_2
      <4> QED BY <3>1, <4>1
    <3> QED BY <2>7, <3>2
  <2>10. s = <<PipeCall(1), ForkCall(1), CloseWrite(1), PipeCall(2), ForkCall(2), CloseRead(1),
               CloseWrite(2), ForkCall(3), CloseRead(2), CloseRead(2)>> \o
             <<WaitCall(1), WaitCall(2), WaitCall(3)>>
    <3>1. <<PipeCall(1), ForkCall(1), CloseWrite(1), PipeCall(2), ForkCall(2), CloseRead(1),
            CloseWrite(2), ForkCall(3), CloseRead(2)>> \o <<CloseRead(2)>> =
          <<PipeCall(1), ForkCall(1), CloseWrite(1), PipeCall(2), ForkCall(2), CloseRead(1),
            CloseWrite(2), ForkCall(3), CloseRead(2), CloseRead(2)>>
      BY Spell9_1
    <3>2. ws = <<WaitCall(1), WaitCall(2), WaitCall(3)>>
      BY <1>3, <1>11
    <3> QED BY <2>9, <3>1, <3>2
  <2>11. s = <<PipeCall(1), ForkCall(1), CloseWrite(1), PipeCall(2), ForkCall(2), CloseRead(1),
               CloseWrite(2), ForkCall(3), CloseRead(2), CloseRead(2),
               WaitCall(1), WaitCall(2), WaitCall(3)>>
    BY <2>10, Spell10_3
  <2> QED BY <1>11, <2>11 DEF s, n
<1> QED BY <1>2, <1>8, <1>10, <1>11 DEF n

LEMMA OneStageText ==
    ASSUME run \in Runs, run.main = "stsh", run.stages = 1
    PROVE  /\ Orderly("t1", runPipeline(run)) /\ runPipeline(run) \in Seq(ParentCalls)
           /\ Provided(runPipeline(run)) /\ \A c \in Kids : Starts(c, runPipeline(run))
<1>1. PICK x, s : x = StageChild(run, 1) /\ s = runPipeline(run)
  OBVIOUS
<1>2. ~Filters /\ "c1" \in Children /\ "c1" \in Kids /\ Last("c1")
  BY Stages DEF Filters, Children, Kids, Last
<1>3. TidyAndWired("c1", x) /\ x \in Seq(ChildCalls)
  BY <1>1, StageText, Stages
<1>b. \A m \in 1 .. Len(x) : x[m][1] = "dup2" =>
          \E j \in 1 .. Len(x) : j < m /\ x[j] = <<"open", x[m][2]>>
  <2>1. 1 \in 1 .. run.stages /\ ~(1 > 1) /\ ~(1 < run.stages)
    OBVIOUS
  <2> QED BY <1>1, <2>1, StageDuplicates
<1>4. s = <<<<"fork", "c1", x>>, <<"waitpid", "c1">>>>
  BY <1>1, RunPipelineCalls, Stages DEF ForkCall, WaitCall
<1>5. s \in Seq(ParentCalls)
  BY <1>2, <1>3, <1>4 DEF ParentCalls
<1>6. Len(s) = 2 /\ s[1] = <<"fork", "c1", x>> /\ s[2] = <<"waitpid", "c1">>
  BY <1>4
<1>7. \A i \in 1 .. Len(s) : i = 1 \/ i = 2
  BY <1>6
<1>8. ForksTidy(s)
  <2> SUFFICES ASSUME NEW i \in 1 .. Len(s), s[i][1] = "fork"
               PROVE  s[i][2] \in Kids /\ TidyAndWired(s[i][2], s[i][3])
    BY DEF ForksTidy, TidyAndWired
  <2>1. s[i][2] = "c1" /\ s[i][3] = x
    BY <1>6, <1>7
  <2> QED BY <1>2, <1>3, <2>1
<1>9. ForksClose(s) /\ ForksKeep(s) /\ ClosesAfter(s)
  BY <1>6, <1>7 DEF ForksClose, ForksKeep, ClosesAfter
<1>10. ForksOnce(s) /\ Connects(s)
  BY <1>2, <1>6, <1>7 DEF ForksOnce, Connects
<1>11. Provided(s)
  <2>1. \A i \in 1 .. Len(s) : s[i][1] = "fork" => s[i][3] = x
    BY <1>6, <1>7
  <2> QED BY <1>b, <2>1, ZenonT(60) DEF Provided
<1>12. \A c \in Kids : Starts(c, s)
  <2>1. \A c \in Kids : c = "c1"
    BY Stages DEF Kids
  <2> QED BY <1>6, <2>1 DEF Starts, Has
<1> QED BY <1>1, <1>2, <1>5, <1>8, <1>9, <1>10, <1>11, <1>12 DEF Orderly

LEMMA TwoStageText ==
    ASSUME run \in Runs, run.main = "stsh", run.stages = 2
    PROVE  /\ Orderly("t1", runPipeline(run)) /\ runPipeline(run) \in Seq(ParentCalls)
           /\ Provided(runPipeline(run)) /\ \A c \in Kids : Starts(c, runPipeline(run))
<1>1. PICK p, r, w, x, y, s :
          /\ p = ToNext("c1") /\ r = R(p) /\ w = W(p)
          /\ x = StageChild(run, 1) /\ y = StageChild(run, 2) /\ s = runPipeline(run)
  OBVIOUS
<1>2. /\ ~Filters /\ "c1" \in Children /\ "c2" \in Children
      /\ "c1" \in Kids /\ "c2" \in Kids /\ Last("c2") /\ NextOf("c1") = "c2"
  BY Stages DEF Filters, Children, Kids, Last, NextOf
<1>3. p \in Pipes /\ r \in Ends /\ w \in Ends /\ r \notin Std /\ w \notin Std /\ r # w
  BY <1>1, <1>2, EndsOf, PipesAreObjects
<1>4. /\ TidyAndWired("c1", x) /\ x \in Seq(ChildCalls) /\ Closes(x, r) /\ Closes(x, w)
      /\ TidyAndWired("c2", y) /\ y \in Seq(ChildCalls) /\ Closes(y, r)
  BY <1>1, StageText, Stages
<1>b. /\ \A m \in 1 .. Len(x) : x[m][1] = "dup2" =>
            x[m][2] = w \/ \E j \in 1 .. Len(x) : j < m /\ x[j] = <<"open", x[m][2]>>
      /\ \A m \in 1 .. Len(y) : y[m][1] = "dup2" =>
            y[m][2] = r \/ \E j \in 1 .. Len(y) : j < m /\ y[j] = <<"open", y[m][2]>>
  <2>1. 1 \in 1 .. run.stages /\ 2 \in 1 .. run.stages /\ ~(1 > 1) /\ ~(2 < run.stages) /\ 2 - 1 = 1
    OBVIOUS
  <2>2. \A m \in 1 .. Len(x) : x[m][1] = "dup2" =>
            x[m][2] = w \/ \E j \in 1 .. Len(x) : j < m /\ x[j] = <<"open", x[m][2]>>
    <3> SUFFICES ASSUME NEW m \in 1 .. Len(x), x[m][1] = "dup2"
                 PROVE  x[m][2] = w \/ \E j \in 1 .. Len(x) : j < m /\ x[j] = <<"open", x[m][2]>>
      OBVIOUS
    <3>1. \/ 1 > 1 /\ x[m][2] = R(ToNext(Stage[1 - 1]))
          \/ 1 < run.stages /\ x[m][2] = W(ToNext(Stage[1]))
          \/ \E j \in 1 .. Len(x) : j < m /\ x[j] = <<"open", x[m][2]>>
      BY <1>1, <2>1, StageDuplicates
    <3> QED BY <1>1, <2>1, <3>1, Stages
  <2>3. \A m \in 1 .. Len(y) : y[m][1] = "dup2" =>
            y[m][2] = r \/ \E j \in 1 .. Len(y) : j < m /\ y[j] = <<"open", y[m][2]>>
    <3> SUFFICES ASSUME NEW m \in 1 .. Len(y), y[m][1] = "dup2"
                 PROVE  y[m][2] = r \/ \E j \in 1 .. Len(y) : j < m /\ y[j] = <<"open", y[m][2]>>
      OBVIOUS
    <3>1. \/ 2 > 1 /\ y[m][2] = R(ToNext(Stage[2 - 1]))
          \/ 2 < run.stages /\ y[m][2] = W(ToNext(Stage[2]))
          \/ \E j \in 1 .. Len(y) : j < m /\ y[j] = <<"open", y[m][2]>>
      BY <1>1, <2>1, StageDuplicates, ZenonT(60)
    <3> QED BY <1>1, <2>1, <3>1, Stages
  <2> QED BY <2>2, <2>3
<1>5. s = <<<<"pipe", p>>, <<"fork", "c1", x>>, <<"close", w>>, <<"fork", "c2", y>>, <<"close", r>>,
            <<"close", r>>, <<"waitpid", "c1">>, <<"waitpid", "c2">>>>
  BY <1>1, RunPipelineCalls, Stages DEF PipeCall, ForkCall, CloseRead, CloseWrite, WaitCall
<1>6. s \in Seq(ParentCalls)
  BY <1>2, <1>3, <1>4, <1>5 DEF ParentCalls, WriterCalls
<1>7. /\ Len(s) = 8 /\ s[1] = <<"pipe", p>> /\ s[2] = <<"fork", "c1", x>> /\ s[3] = <<"close", w>>
      /\ s[4] = <<"fork", "c2", y>> /\ s[5] = <<"close", r>>
  BY <1>5
<1>a. \A i \in 1 .. Len(s) :
          /\ s[i][1] = "pipe" \/ s[i][1] = "pipe2" => i = 1
          /\ s[i][1] = "fork" => i = 2 \/ i = 4
          /\ s[i][1] = "close" => i > 2 /\ (i < 4 => i = 3)
  BY <1>5
<1>8. ForksTidy(s)
  <2> SUFFICES ASSUME NEW i \in 1 .. Len(s), s[i][1] = "fork"
               PROVE  s[i][2] \in Kids /\ TidyAndWired(s[i][2], s[i][3])
    BY DEF ForksTidy, TidyAndWired
  <2>1. (s[i][2] = "c1" /\ s[i][3] = x) \/ (s[i][2] = "c2" /\ s[i][3] = y)
    BY <1>7, <1>a
  <2> QED BY <1>2, <1>4, <2>1
<1>9. ForksClose(s)
  <2> SUFFICES ASSUME NEW k \in 1 .. Len(s), NEW i \in 1 .. Len(s), s[k][1] = "pipe", s[i][1] = "fork",
                      NEW d \in {R(s[k][2]), W(s[k][2])}
               PROVE  \/ Closes(s[i][3], d)
                      \/ \E j \in 1 .. Len(s) : k < j /\ j < i /\ s[j] = <<"close", d>>
    BY DEF ForksClose
  <2>1. (i = 2 \/ i = 4) /\ k = 1
    BY <1>a
  <2>2. s[2][3] = x /\ s[4][3] = y /\ d \in {r, w}
    BY <1>1, <1>7, <2>1
  <2>3. CASE i = 2 \/ d = r
    BY <1>4, <2>1, <2>2, <2>3
  <2>4. CASE i = 4 /\ d = w
    BY <1>7, <2>1, <2>4
  <2> QED BY <2>1, <2>2, <2>3, <2>4
<1>10. ForksKeep(s)
  <2> SUFFICES ASSUME NEW i \in 1 .. Len(s), NEW j \in 1 .. Len(s), s[i][1] = "fork", s[j][1] = "close",
                      j < i, NEW m \in 1 .. Len(s[i][3]), s[i][3][m][1] = "dup2"
               PROVE  s[i][3][m][2] # s[j][2]
    BY DEF ForksKeep
  <2>1. i = 4 /\ j = 3
    BY <1>a
  <2>2. s[i][3] = y /\ s[j][2] = w
    BY <1>7, <2>1
  <2>3. y[m][2] \in {R(Source("c2")), W(Sink("c2"))}
    BY <1>4, <2>2, Duplicates
  <2>4. R(Source("c2")) # w /\ W(Sink("c2")) # w
    BY <1>1, <1>2, EndsOf, PipesAreObjects, Redirected DEF Source, Sink, First, PrevOf
  <2> QED BY <2>2, <2>3, <2>4
<1>11. ClosesAfter(s)
  <2>1. \A i \in 1 .. Len(s) : s[i][1] = "close" => s[i][2] \notin Std
    BY <1>3, <1>5
  <2>2. ASSUME NEW i \in 1 .. Len(s), s[i][1] \in {"pipe", "pipe2"},
               NEW d \in {R(s[i][2]), W(s[i][2])}
        PROVE  \E j \in 1 .. Len(s) : j > i /\ s[j] = <<"close", d>>
    <3>1. i = 1 /\ d \in {r, w}
      BY <1>1, <1>7, <1>a, <2>2
    <3> QED BY <1>7, <3>1
  <2> QED BY <2>1, <2>2 DEF ClosesAfter
<1>12. ForksOnce(s)
  <2>1. /\ \A i, j \in 1 .. Len(s) : s[i][1] = "fork" /\ s[j][1] = "fork" /\ s[i][2] = s[j][2] => i = j
        /\ \A i, j \in 1 .. Len(s) : s[i][1] = "fork" /\ s[j][1] = "waitpid" /\ s[i][2] = s[j][2] => i < j
        /\ \A i \in 1 .. Len(s) : s[i][1] = "waitpid" => s[i][2] \in Kids
    BY <1>2, <1>5
  <2>2. ASSUME NEW i \in 1 .. Len(s), s[i][1] = "fork", ~Last(s[i][2])
        PROVE  4 \in 1 .. Len(s) /\ 4 > i /\ s[4][1] = "fork" /\ s[4][2] = NextOf(s[i][2])
    BY <1>2, <1>7, <1>a, <2>2
  <2> QED BY <2>1, <2>2 DEF ForksOnce
<1>13. Connects(s)
  BY <1>5 DEF Connects
<1>14. Provided(s)
  <2> SUFFICES ASSUME NEW i \in 1 .. Len(s), s[i][1] = "fork",
                      NEW m \in 1 .. Len(s[i][3]), s[i][3][m][1] = "dup2"
               PROVE  \/ \E j \in 1 .. Len(s[i][3]) : j < m /\ s[i][3][j] = <<"open", s[i][3][m][2]>>
                      \/ \E j \in 1 .. Len(s) : /\ j < i /\ s[j][1] \in {"pipe", "pipe2"}
                                                /\ s[i][3][m][2] \in {R(s[j][2]), W(s[j][2])}
    BY DEF Provided
  <2>1. i > 1 /\ (s[i][3] = x \/ s[i][3] = y)
    BY <1>7, <1>a
  <2>2. CASE s[i][3][m][2] \in {r, w}
    <3>1. 1 \in 1 .. Len(s) /\ s[1][1] = "pipe" /\ s[i][3][m][2] \in {R(s[1][2]), W(s[1][2])}
      BY <1>1, <1>7, <2>2
    <3> QED BY <2>1, <3>1
  <2>3. CASE s[i][3][m][2] \notin {r, w}
    BY <1>b, <2>1, <2>3
  <2> QED BY <2>2, <2>3
<1>15. \A c \in Kids : Starts(c, s)
  <2>1. \A c \in Kids : c = "c1" \/ c = "c2"
    BY Stages DEF Kids
  <2>2. s[7] = <<"waitpid", "c1">> /\ s[8] = <<"waitpid", "c2">>
    BY <1>5
  <2> QED BY <1>7, <2>1, <2>2 DEF Starts, Has
<1> QED BY <1>1, <1>2, <1>6, <1>8, <1>9, <1>10, <1>11, <1>12, <1>13, <1>14, <1>15 DEF Orderly

LEMMA ThreeStageText ==
    ASSUME run \in Runs, run.main = "stsh", run.stages = 3
    PROVE  /\ Orderly("t1", runPipeline(run)) /\ runPipeline(run) \in Seq(ParentCalls)
           /\ Provided(runPipeline(run)) /\ \A c \in Kids : Starts(c, runPipeline(run))
<1>1. PICK p, q, pr, pw, qr, qw, x, y, z, s :
          /\ p = ToNext("c1") /\ pr = R(p) /\ pw = W(p)
          /\ q = ToNext("c2") /\ qr = R(q) /\ qw = W(q)
          /\ x = StageChild(run, 1) /\ y = StageChild(run, 2) /\ z = StageChild(run, 3)
          /\ s = runPipeline(run)
  OBVIOUS
<1>2. /\ ~Filters /\ "c1" \in Children /\ "c2" \in Children /\ "c3" \in Children
      /\ "c1" \in Kids /\ "c2" \in Kids /\ "c3" \in Kids /\ Last("c3")
      /\ NextOf("c1") = "c2" /\ NextOf("c2") = "c3"
  BY Stages DEF Filters, Children, Kids, Last, NextOf
<1>3. /\ p \in Pipes /\ q \in Pipes /\ pr \in Ends /\ pw \in Ends /\ qr \in Ends /\ qw \in Ends
      /\ pr \notin Std /\ pw \notin Std /\ qr \notin Std /\ qw \notin Std
      /\ pr # pw /\ pr # qr /\ pr # qw /\ pw # qr /\ pw # qw /\ qr # qw
  BY <1>1, <1>2, EndsOf, PipesAreObjects
<1>4. /\ TidyAndWired("c1", x) /\ x \in Seq(ChildCalls) /\ Closes(x, pr) /\ Closes(x, pw)
      /\ TidyAndWired("c2", y) /\ y \in Seq(ChildCalls) /\ Closes(y, pr) /\ Closes(y, qr) /\ Closes(y, qw)
      /\ TidyAndWired("c3", z) /\ z \in Seq(ChildCalls) /\ Closes(z, qr)
  BY <1>1, StageText, Stages
<1>b. /\ \A m \in 1 .. Len(x) : x[m][1] = "dup2" =>
            x[m][2] = pw \/ \E j \in 1 .. Len(x) : j < m /\ x[j] = <<"open", x[m][2]>>
      /\ \A m \in 1 .. Len(y) : y[m][1] = "dup2" =>
            \/ y[m][2] = pr \/ y[m][2] = qw
            \/ \E j \in 1 .. Len(y) : j < m /\ y[j] = <<"open", y[m][2]>>
      /\ \A m \in 1 .. Len(z) : z[m][1] = "dup2" =>
            z[m][2] = qr \/ \E j \in 1 .. Len(z) : j < m /\ z[j] = <<"open", z[m][2]>>
  <2>1. /\ 1 \in 1 .. run.stages /\ 2 \in 1 .. run.stages /\ 3 \in 1 .. run.stages
        /\ ~(1 > 1) /\ ~(3 < run.stages) /\ 2 - 1 = 1 /\ 3 - 1 = 2
    OBVIOUS
  <2>2. \A m \in 1 .. Len(x) : x[m][1] = "dup2" =>
            x[m][2] = pw \/ \E j \in 1 .. Len(x) : j < m /\ x[j] = <<"open", x[m][2]>>
    <3> SUFFICES ASSUME NEW m \in 1 .. Len(x), x[m][1] = "dup2"
                 PROVE  x[m][2] = pw \/ \E j \in 1 .. Len(x) : j < m /\ x[j] = <<"open", x[m][2]>>
      OBVIOUS
    <3>1. \/ 1 > 1 /\ x[m][2] = R(ToNext(Stage[1 - 1]))
          \/ 1 < run.stages /\ x[m][2] = W(ToNext(Stage[1]))
          \/ \E j \in 1 .. Len(x) : j < m /\ x[j] = <<"open", x[m][2]>>
      BY <1>1, <2>1, StageDuplicates, ZenonT(60)
    <3> QED BY <1>1, <2>1, <3>1, Stages
  <2>3. \A m \in 1 .. Len(y) : y[m][1] = "dup2" =>
            \/ y[m][2] = pr \/ y[m][2] = qw
            \/ \E j \in 1 .. Len(y) : j < m /\ y[j] = <<"open", y[m][2]>>
    <3> SUFFICES ASSUME NEW m \in 1 .. Len(y), y[m][1] = "dup2"
                 PROVE  \/ y[m][2] = pr \/ y[m][2] = qw
                      \/ \E j \in 1 .. Len(y) : j < m /\ y[j] = <<"open", y[m][2]>>
      OBVIOUS
    <3>1. \/ 2 > 1 /\ y[m][2] = R(ToNext(Stage[2 - 1]))
          \/ 2 < run.stages /\ y[m][2] = W(ToNext(Stage[2]))
          \/ \E j \in 1 .. Len(y) : j < m /\ y[j] = <<"open", y[m][2]>>
      <4>1. y = StageChild(run, 2)
        BY <1>1
      <4>2. 2 \in 1 .. run.stages
        BY <2>1
      <4> QED BY <4>1, <4>2, StageDuplicates
    <3> QED BY <1>1, <2>1, <3>1, Stages
  <2>4. \A m \in 1 .. Len(z) : z[m][1] = "dup2" =>
            z[m][2] = qr \/ \E j \in 1 .. Len(z) : j < m /\ z[j] = <<"open", z[m][2]>>
    <3> SUFFICES ASSUME NEW m \in 1 .. Len(z), z[m][1] = "dup2"
                 PROVE  z[m][2] = qr \/ \E j \in 1 .. Len(z) : j < m /\ z[j] = <<"open", z[m][2]>>
      OBVIOUS
    <3>1. \/ 3 > 1 /\ z[m][2] = R(ToNext(Stage[3 - 1]))
          \/ 3 < run.stages /\ z[m][2] = W(ToNext(Stage[3]))
          \/ \E j \in 1 .. Len(z) : j < m /\ z[j] = <<"open", z[m][2]>>
      <4>1. z = StageChild(run, 3)
        BY <1>1
      <4>2. 3 \in 1 .. run.stages
        BY <2>1
      <4> QED BY <4>1, <4>2, StageDuplicates
    <3> QED BY <1>1, <2>1, <3>1, Stages
  <2> QED BY <2>2, <2>3, <2>4
<1>5. s = <<<<"pipe", p>>, <<"fork", "c1", x>>, <<"close", pw>>, <<"pipe", q>>, <<"fork", "c2", y>>,
            <<"close", pr>>, <<"close", qw>>, <<"fork", "c3", z>>, <<"close", qr>>, <<"close", qr>>,
            <<"waitpid", "c1">>, <<"waitpid", "c2">>, <<"waitpid", "c3">>>>
  BY <1>1, RunPipelineCalls, Stages DEF PipeCall, ForkCall, CloseRead, CloseWrite, WaitCall
<1>6. s \in Seq(ParentCalls)
  BY <1>2, <1>3, <1>4, <1>5 DEF ParentCalls, WriterCalls
<1>7. /\ Len(s) = 13 /\ s[1] = <<"pipe", p>> /\ s[2] = <<"fork", "c1", x>> /\ s[3] = <<"close", pw>>
      /\ s[4] = <<"pipe", q>> /\ s[5] = <<"fork", "c2", y>> /\ s[6] = <<"close", pr>>
      /\ s[7] = <<"close", qw>> /\ s[8] = <<"fork", "c3", z>> /\ s[9] = <<"close", qr>>
      /\ s[10] = <<"close", qr>>
  BY <1>5
<1>a. \A i \in 1 .. Len(s) :
          /\ s[i][1] = "pipe" \/ s[i][1] = "pipe2" => i = 1 \/ i = 4
          /\ s[i][1] = "fork" => i = 2 \/ i = 5 \/ i = 8
          /\ s[i][1] = "close" => i = 3 \/ i = 6 \/ i = 7 \/ i = 9 \/ i = 10
  BY <1>5
<1>8. ForksTidy(s)
  <2> SUFFICES ASSUME NEW i \in 1 .. Len(s), s[i][1] = "fork"
               PROVE  s[i][2] \in Kids /\ TidyAndWired(s[i][2], s[i][3])
    BY DEF ForksTidy, TidyAndWired
  <2>1. \/ s[i][2] = "c1" /\ s[i][3] = x
        \/ s[i][2] = "c2" /\ s[i][3] = y
        \/ s[i][2] = "c3" /\ s[i][3] = z
    BY <1>7, <1>a
  <2> QED BY <1>2, <1>4, <2>1
<1>9. ForksClose(s)
  <2> SUFFICES ASSUME NEW k \in 1 .. Len(s), NEW i \in 1 .. Len(s), k < i, s[k][1] = "pipe",
                      s[i][1] = "fork", NEW d \in {R(s[k][2]), W(s[k][2])}
               PROVE  \/ Closes(s[i][3], d)
                      \/ \E j \in 1 .. Len(s) : k < j /\ j < i /\ s[j] = <<"close", d>>
    BY DEF ForksClose
  <2>1. \/ k = 1 /\ d \in {pr, pw}
        \/ k = 4 /\ d \in {qr, qw}
    BY <1>1, <1>7, <1>a
  <2>2. \/ i = 2 /\ s[i][3] = x
        \/ i = 5 /\ s[i][3] = y
        \/ i = 8 /\ s[i][3] = z
    BY <1>7, <1>a
  <2>3. CASE i = 2
    BY <1>4, <2>1, <2>2, <2>3
  <2>4. CASE i = 5
    <3>1. d = pw => 3 \in 1 .. Len(s) /\ k < 3 /\ 3 < i /\ s[3] = <<"close", d>>
      BY <1>3, <1>7, <2>1, <2>4
    <3> QED BY <1>4, <2>1, <2>2, <2>4, <3>1, SMTT(30)
  <2>5. CASE i = 8
    <3>1. d = pw => 3 \in 1 .. Len(s) /\ k < 3 /\ 3 < i /\ s[3] = <<"close", d>>
      BY <1>3, <1>7, <2>1, <2>5
    <3>2. d = pr => 6 \in 1 .. Len(s) /\ k < 6 /\ 6 < i /\ s[6] = <<"close", d>>
      BY <1>3, <1>7, <2>1, <2>5
    <3>3. d = qw => 7 \in 1 .. Len(s) /\ k < 7 /\ 7 < i /\ s[7] = <<"close", d>>
      BY <1>3, <1>7, <2>1, <2>5
    <3> QED BY <1>4, <2>1, <2>2, <2>5, <3>1, <3>2, <3>3
  <2> QED BY <2>2, <2>3, <2>4, <2>5
<1>10. ForksKeep(s)
  <2> SUFFICES ASSUME NEW i \in 1 .. Len(s), NEW j \in 1 .. Len(s), s[i][1] = "fork", s[j][1] = "close",
                      j < i, NEW m \in 1 .. Len(s[i][3]), s[i][3][m][1] = "dup2"
               PROVE  s[i][3][m][2] # s[j][2]
    BY DEF ForksKeep
  <2>1. \/ i = 5 /\ s[j][2] = pw /\ s[i][3] = y
        \/ i = 8 /\ s[j][2] \in {pw, pr, qw} /\ s[i][3] = z
    BY <1>7, <1>a, SMTT(30)
  <2>2. CASE i = 5
    <3>0. s[i][3] = y
      BY <2>1, <2>2
    <3>1. s[i][3][m][2] \in {R(Source("c2")), W(Sink("c2"))}
      BY <1>4, <3>0, Duplicates
    <3>2. Source("c2") = p /\ Sink("c2") = q
      BY <1>1, <1>2, Stages DEF Source, Sink, First, Last, PrevOf
    <3> QED BY <1>1, <1>3, <2>1, <2>2, <3>1, <3>2
  <2>3. CASE i = 8
    <3>1. s[i][3][m][2] \in {R(Source("c3")), W(Sink("c3"))}
      BY <1>4, <2>1, <2>3, Duplicates, SMTT(30)
    <3>2. Source("c3") = q /\ Sink("c3") \in Files
      BY <1>1, <1>2, Redirected DEF Source, Sink, First, PrevOf
    <3>3. W(Sink("c3")) # pw /\ W(Sink("c3")) # pr /\ W(Sink("c3")) # qw
      BY <1>1, <1>3, <3>2, EndsOf, PipesAreObjects
    <3> QED BY <1>1, <1>3, <2>1, <2>3, <3>1, <3>2, <3>3
  <2> QED BY <2>1, <2>2, <2>3
<1>11. ClosesAfter(s)
  <2>1. \A i \in 1 .. Len(s) : s[i][1] = "close" => s[i][2] \notin Std
    BY <1>3, <1>7, <1>a
  <2>2. ASSUME NEW i \in 1 .. Len(s), s[i][1] \in {"pipe", "pipe2"},
               NEW d \in {R(s[i][2]), W(s[i][2])}
        PROVE  \E j \in 1 .. Len(s) : j > i /\ s[j] = <<"close", d>>
    <3>1. \/ i = 1 /\ d \in {pr, pw}
          \/ i = 4 /\ d \in {qr, qw}
      BY <1>1, <1>7, <1>a, <2>2
    <3> QED BY <1>7, <3>1
  <2> QED BY <2>1, <2>2 DEF ClosesAfter
<1>12. ForksOnce(s)
  <2>1. /\ \A i, j \in 1 .. Len(s) : s[i][1] = "fork" /\ s[j][1] = "fork" /\ s[i][2] = s[j][2] => i = j
        /\ \A i, j \in 1 .. Len(s) : s[i][1] = "fork" /\ s[j][1] = "waitpid" /\ s[i][2] = s[j][2] => i < j
        /\ \A i \in 1 .. Len(s) : s[i][1] = "waitpid" => s[i][2] \in Kids
    <3>1. \A i \in 1 .. Len(s) : s[i][1] = "waitpid" => i > 10 /\ s[i][2] \in {"c1", "c2", "c3"}
      BY <1>5
    <3> QED BY <1>2, <1>7, <1>a, <3>1
  <2>2. ASSUME NEW i \in 1 .. Len(s), s[i][1] = "fork", ~Last(s[i][2])
        PROVE  \E j \in 1 .. Len(s) : j > i /\ s[j][1] = "fork" /\ s[j][2] = NextOf(s[i][2])
    <3>1. i = 2 => 5 \in 1 .. Len(s) /\ 5 > i /\ s[5][1] = "fork" /\ s[5][2] = NextOf(s[i][2])
      BY <1>2, <1>7
    <3>2. i = 5 => 8 \in 1 .. Len(s) /\ 8 > i /\ s[8][1] = "fork" /\ s[8][2] = NextOf(s[i][2])
      BY <1>2, <1>7
    <3>3. i = 2 \/ i = 5
      BY <1>2, <1>7, <1>a, <2>2
    <3> QED BY <3>1, <3>2, <3>3
  <2> QED BY <2>1, <2>2 DEF ForksOnce
<1>13. Connects(s)
  BY <1>5 DEF Connects
<1>14. Provided(s)
  <2> SUFFICES ASSUME NEW i \in 1 .. Len(s), s[i][1] = "fork",
                      NEW m \in 1 .. Len(s[i][3]), s[i][3][m][1] = "dup2"
               PROVE  \/ \E j \in 1 .. Len(s[i][3]) : j < m /\ s[i][3][j] = <<"open", s[i][3][m][2]>>
                      \/ \E j \in 1 .. Len(s) : /\ j < i /\ s[j][1] \in {"pipe", "pipe2"}
                                                /\ s[i][3][m][2] \in {R(s[j][2]), W(s[j][2])}
    BY DEF Provided
  <2>1. \/ i = 2 /\ s[i][3] = x
        \/ i = 5 /\ s[i][3] = y
        \/ i = 8 /\ s[i][3] = z
    BY <1>7, <1>a
  <2>2. CASE s[i][3][m][2] \in {pr, pw}
    <3>1. 1 \in 1 .. Len(s) /\ s[1][1] = "pipe" /\ s[i][3][m][2] \in {R(s[1][2]), W(s[1][2])}
      BY <1>1, <1>7, <2>2
    <3> QED BY <2>1, <3>1
  <2>3. CASE s[i][3][m][2] \in {qr, qw} /\ i # 2
    <3>1. 4 \in 1 .. Len(s) /\ s[4][1] = "pipe" /\ s[i][3][m][2] \in {R(s[4][2]), W(s[4][2])}
      BY <1>1, <1>7, <2>3
    <3> QED BY <2>1, <2>3, <3>1
  <2>4. CASE s[i][3][m][2] \notin {pr, pw} /\ (i = 2 \/ s[i][3][m][2] \notin {qr, qw})
    <3>1. s[i][3] = x => \E j \in 1 .. Len(x) : j < m /\ x[j] = <<"open", x[m][2]>>
      BY <1>b, <2>4
    <3>2. s[i][3] = y /\ i # 2 => \E j \in 1 .. Len(y) : j < m /\ y[j] = <<"open", y[m][2]>>
      BY <1>b, <2>4
    <3>3. s[i][3] = z /\ i # 2 => \E j \in 1 .. Len(z) : j < m /\ z[j] = <<"open", z[m][2]>>
      BY <1>b, <2>4
    <3>4. \E j \in 1 .. Len(s[i][3]) : j < m /\ s[i][3][j] = <<"open", s[i][3][m][2]>>
      <4>1. CASE s[i][3] = x
        BY <3>1, <4>1
      <4>2. CASE s[i][3] = y /\ i # 2
        BY <3>2, <4>2
      <4>3. CASE s[i][3] = z /\ i # 2
        BY <3>3, <4>3
      <4> QED BY <2>1, <4>1, <4>2, <4>3
    <3> QED BY <3>4
  <2> QED BY <2>2, <2>3, <2>4
<1>15. \A c \in Kids : Starts(c, s)
  <2>1. \A c \in Kids : c = "c1" \/ c = "c2" \/ c = "c3"
    BY Stages DEF Kids
  <2>2. s[11] = <<"waitpid", "c1">> /\ s[12] = <<"waitpid", "c2">> /\ s[13] = <<"waitpid", "c3">>
    BY <1>5
  <2>3. Starts("c1", s)
    BY <1>7, <2>2 DEF Starts, Has
  <2>4. Starts("c2", s)
    BY <1>7, <2>2 DEF Starts, Has
  <2>5. Starts("c3", s)
    BY <1>7, <2>2 DEF Starts, Has
  <2> QED BY <2>1, <2>3, <2>4, <2>5
<1> QED BY <1>1, <1>2, <1>6, <1>8, <1>9, <1>10, <1>11, <1>12, <1>13, <1>14, <1>15 DEF Orderly

\* Every thread begins with an orderly list, and between them they start every child.
Starter(c) == IF Filters THEN ThreadOf(c) ELSE "t1"

LEMMA ThreadText ==
    ASSUME run \in Runs, NEW x \in Threads
    PROVE  /\ Orderly(x, ThreadCode(x)) /\ ThreadCode(x) \in Seq(ParentCalls)
           /\ Provided(ThreadCode(x))
           /\ \A c \in Kids : x = Starter(c) =>
                 Starts(c, ThreadCode(x)) /\ (Filters => Supplies(c, ThreadCode(x)))
<1>1. CASE run.main = "mr"
  <2>1. ThreadCode("t1") = runFilter("w1", "c1") /\ ThreadCode("t2") = runFilter("w2", "c2")
    BY <1>1 DEF ThreadCode
  <2>2. \A c \in Kids : x = Starter(c) => (x = "t1" /\ c = "c1") \/ (x = "t2" /\ c = "c2")
    BY <1>1, RunKinds, Stages DEF Starter, Kids, ThreadOf, Filters
  <2>3. CASE x = "t1"
    BY <1>1, <2>1, <2>2, <2>3, RunFilterText
  <2>4. CASE x = "t2"
    BY <1>1, <2>1, <2>2, <2>4, RunFilterText
  <2> QED BY <2>3, <2>4 DEF Threads
<1>2. CASE run.main # "mr" /\ x # "t1"
  <2>1. ThreadCode(x) = <<>> /\ x = "t2"
    BY <1>2 DEF ThreadCode, Threads
  <2>2. /\ ForksTidy(<<>>) /\ ForksClose(<<>>) /\ ForksKeep(<<>>) /\ ClosesAfter(<<>>)
        /\ ForksOnce(<<>>) /\ Connects(<<>>) /\ Serves(Of(x), <<>>) /\ Provided(<<>>)
    BY DEF ForksTidy, ForksClose, ForksKeep, ClosesAfter, ForksOnce, Connects, Serves, Provided
  <2>3. \A c \in Kids : x # Starter(c)
    BY <1>2, <2>1, RunKinds, Stages DEF Starter, Kids, Filters, ThreadOf
  <2> QED BY <2>1, <2>2, <2>3 DEF Orderly
<1>3. CASE run.main # "mr" /\ x = "t1"
  <2>1. CASE run.main = "subprocess"
    <3>1. \A c \in Kids : c = "c1"
      BY <2>1, RunKinds, Stages DEF Kids
    <3> QED BY <1>3, <2>1, <3>1, SubprocessTestText DEF ThreadCode
  <2>2. CASE run.main = "pipeline"
    <3>1. \A c \in Kids : c = "c1" \/ c = "c2"
      BY <2>2, RunKinds, Stages DEF Kids
    <3> QED BY <1>3, <2>2, <3>1, PipelineTestText DEF ThreadCode, Filters
  <2>3. CASE run.main = "stsh"
    <3>1. ThreadCode(x) = runPipeline(run)
      BY <1>3, <2>3 DEF ThreadCode
    <3>2. run.stages = 1 \/ run.stages = 2 \/ run.stages = 3
      BY RunKinds
    <3>3. /\ Orderly("t1", runPipeline(run)) /\ runPipeline(run) \in Seq(ParentCalls)
          /\ Provided(runPipeline(run)) /\ \A c \in Kids : Starts(c, runPipeline(run))
      BY <2>3, <3>2, OneStageText, TwoStageText, ThreeStageText
    <3> QED BY <1>3, <2>3, <3>1, <3>3 DEF Filters
  <2> QED BY <1>3, <2>1, <2>2, <2>3, RunKinds
<1> QED BY <1>1, <1>2, <1>3

\* The children of the program that runs.
LEMMA KidsAre ==
    ASSUME run \in Runs
    PROVE  /\ Kids \subseteq Children /\ "c1" \in Kids
           /\ Filters => Kids \subseteq {"c1", "c2"}
           /\ run.main = "subprocess" => Kids = {"c1"}
           /\ Stage[run.stages] \in Kids
           /\ \A c \in Kids : Last(c) \/ (NextOf(c) \in Kids /\ PrevOf(NextOf(c)) = c /\ NextOf(c) # "c1")
           /\ \A c \in Kids : c = "c1" \/ (PrevOf(c) \in Kids /\ NextOf(PrevOf(c)) = c /\ ~Last(PrevOf(c)))
<1>1. /\ run.stages = 1 => Kids = {"c1"} /\ Stage[run.stages] = "c1"
      /\ run.stages = 2 => Kids = {"c1", "c2"} /\ Stage[run.stages] = "c2"
      /\ run.stages = 3 => Kids = {"c1", "c2", "c3"} /\ Stage[run.stages] = "c3"
  <2>1. run.stages = 1 => Kids = {"c1"} /\ Stage[run.stages] = "c1"
    BY Stages DEF Kids
  <2>2. run.stages = 2 => Kids = {"c1", "c2"} /\ Stage[run.stages] = "c2"
    <3>1. 1 .. 2 = {1, 2}
      OBVIOUS
    <3> QED BY <3>1, Stages DEF Kids
  <2>3. run.stages = 3 => Kids = {"c1", "c2", "c3"} /\ Stage[run.stages] = "c3"
    <3>1. 1 .. 3 = {1, 2, 3}
      OBVIOUS
    <3> QED BY <3>1, Stages DEF Kids
  <2> QED BY <2>1, <2>2, <2>3
<1>2. run.stages = 1 \/ run.stages = 2 \/ run.stages = 3
  BY RunKinds
<1> QED BY <1>1, <1>2, RunKinds DEF Filters, Last, NextOf, PrevOf, Children

-------------------------------------------------------------------------------
(* The invariant holds at first                                            *)

LEMMA InitInv ==
    ASSUME Init
    PROVE  PInv
<1>0. run \in Runs
  BY DEF Init
<1>1. /\ \A x \in Threads : code[x] = ThreadCode(x)
      /\ \A w \in Writers : code[w] = <<>>
      /\ \A c \in Children : code[c] = <<>>
      /\ \A x \in Threads : code[x] \in Seq(ParentCalls)
      /\ code \in [Threads \cup Writers \cup Children -> Seq(ParentCalls \cup ChildCalls)]
  <2>1. /\ \A x \in Threads : code[x] = ThreadCode(x)
        /\ \A w \in Writers : code[w] = <<>>
        /\ \A c \in Children : code[c] = <<>>
    BY DEF Init, Threads, Writers, Children
  <2>2. \A x \in Threads : ThreadCode(x) \in Seq(ParentCalls)
    BY <1>0, ThreadText
  <2>3. \A x \in Threads : ThreadCode(x) \in Seq(ParentCalls \cup ChildCalls)
    BY <2>2
  <2>4. code \in [Threads \cup Writers \cup Children -> Seq(ParentCalls \cup ChildCalls)]
    BY <2>3 DEF Init
  <2> QED BY <2>1, <2>2, <2>4
<1>2. Types
  <2>1. content \in [Objects -> Nat] /\ \A o \in Objects \ Files : content[o] =< Capacity
    BY SizesAssumption DEF Init
  <2>2. \A c \in Children : code[c] \in Seq(ChildCalls)
    BY <1>1
  <2> QED BY <1>0, <1>1, <2>1, <2>2 DEF Init, Types
<1>3. Text
  BY <1>0, <1>1, ThreadText DEF Text
<1>4. Childhood
  <2>1. \A c \in Children : fds[c] = NoTable
    BY DEF Init, Children, Processes, Parent
  <2> QED BY <1>1, <2>1 DEF Childhood
<1>5. fds[Parent] = [d \in Std |-> d]
  BY DEF Init, Processes, Std
<1>6. Parenthood
  <2>1. DOMAIN fds[Parent] = Std /\ \A d \in Std : fds[Parent][d] = d
    BY <1>5
  <2>2. DOMAIN fds[Parent] \subseteq Ends
    BY <2>1, PipesAreObjects
  <2>3. ASSUME NEW x \in Threads PROVE Fed(code[x], DOMAIN fds[Parent], cloexec)
    <3>1. Provided(code[x])
      BY <1>0, <1>1, ThreadText
    <3> QED BY <2>1, <3>1 DEF Provided, Fed, Needed
  <2>4. ~died
    BY DEF Init
  <2> QED BY <2>1, <2>2, <2>3, <2>4 DEF Parenthood
<1>7. \A c \in Kids : /\ Starter(c) \in Threads /\ Starts(c, code[Starter(c)])
                      /\ Filters => ThreadOf(c) \in Threads /\ Supplies(c, code[ThreadOf(c)])
  <2>1. \A c \in Kids : Starter(c) \in Threads /\ (Filters => Starter(c) = ThreadOf(c))
    BY DEF Starter, ThreadOf, Threads
  <2> QED BY <1>0, <1>1, <2>1, ThreadText
<1>8. \A c \in Kids : Forking(c)
  BY <1>7 DEF Starts, Forking, Forks
<1>9. Waiting
  <2>1. reaped = {}
    BY DEF Init
  <2> QED BY <1>7, <2>1 DEF Waiting, Starts
<1>10. \A c \in Kids : WriterOf(c) \in Writers /\ code[WriterOf(c)] = <<>>
  BY <1>1 DEF WriterOf, Writers
<1>11. Supplying
  <2>1. ASSUME Filters, NEW c \in Kids
        PROVE  Makes(code[ThreadOf(c)], c)
    BY <1>7, <2>1 DEF Supplies, Makes
  <2> QED BY <1>10, <2>1 DEF Supplying
<1>12. Flow
  <2>0. /\ \A o \in Objects : content[o] = IF o \in Files /\ o[2] = "in" THEN Input ELSE 0
        /\ \A c \in Children : owed[c] = 0 /\ took[c] = 0
        /\ \A t \in Threads : got[t] = 0
    BY DEF Init
  <2>1. ASSUME Filters, NEW c \in Kids PROVE FilterFlow(c)
    <3>1. c \in Children /\ ThreadOf(c) \in Threads /\ Supply(c) \in Objects /\ Ingest(c) \in Objects
          /\ Supply(c) \notin Files /\ Ingest(c) \notin Files
      BY <1>0, <1>7, <2>1, KidsAre, PipesAreObjects
    <3>2. content[Supply(c)] = 0 /\ content[Ingest(c)] = 0 /\ owed[c] = 0 /\ took[c] = 0 /\ got[ThreadOf(c)] = 0
      BY <2>0, <3>1
    <3>3. \A n \in Nat : PendingWrite(c, n) => n = Input
      <4> SUFFICES ASSUME NEW n \in Nat, Has(code[ThreadOf(c)], <<"write", W(Supply(c)), n>>)
                   PROVE  n = Input
        BY <1>10 DEF PendingWrite, Writes, Has
      <4>1. PICK i \in 1 .. Len(code[ThreadOf(c)]) : code[ThreadOf(c)][i] = <<"write", W(Supply(c)), n>>
        BY DEF Has
      <4> QED BY <1>7, <2>1, <4>1 DEF Supplies
    <3>4. PendingWrite(c, Input)
      BY <1>7, <2>1 DEF Supplies, PendingWrite, Writes, Has
    <3>5. ~Done(c)
      BY <1>8 DEF Done
    <3>6. Reads(code[ThreadOf(c)])
      BY <1>7, <2>1 DEF Supplies, Reads
    <3>7. Input \in Nat
      BY SizesAssumption
    <3>8. 0 * Expansion = 0
      BY SizesAssumption
    <3> QED BY <3>2, <3>3, <3>4, <3>5, <3>6, <3>7, <3>8 DEF FilterFlow
  <2>2. ASSUME ~Filters, NEW c \in Kids PROVE StageFlow(c)
    <3>1. c \in Children /\ Sink(c) \in Objects /\ (Last(c) \/ NextOf(c) \in Children)
      BY <1>0, <2>2, KidsAre, PipesAreObjects, Redirected DEF Sink
    <3>2. content[Sink(c)] = 0
      <4>1. Sink(c) \notin Files \/ Sink(c)[2] = "out"
        BY <2>2, <3>1, PipesAreObjects DEF Sink
      <4> QED BY <2>0, <3>1, <4>1
    <3>3. First(c) => content[Source(c)] = Input
      <4>1. First(c) => Source(c) \in Files /\ Source(c)[2] = "in"
        BY <2>2, Redirected DEF Source
      <4> QED BY <2>0, <4>1, PipesAreObjects
    <3>4. ~Done(c)
      BY <1>8 DEF Done
    <3>5. 0 * Expansion = 0 /\ Input + 0 = Input
      BY SizesAssumption
    <3> QED BY <2>0, <3>1, <3>2, <3>3, <3>4, <3>5 DEF StageFlow
  <2>3. Unused
    BY <2>0, Redirected, PipesAreObjects DEF Unused
  <2> QED BY <2>1, <2>2, <2>3 DEF Flow
<1> QED BY <1>2, <1>3, <1>4, <1>6, <1>9, <1>11, <1>12 DEF PInv

-------------------------------------------------------------------------------
(* What a step leaves alone, and what calls look like                      *)

\* The program that runs never changes, nor does what depends on it alone.
LEMMA Steady ==
    ASSUME run' = run
    PROVE  /\ Kids' = Kids /\ Filters' = Filters /\ Runs' = Runs
           /\ \A c : Source(c)' = Source(c) /\ Sink(c)' = Sink(c) /\ (Last(c)' <=> Last(c))
           /\ \A c, s : Tidy(c, s)' <=> Tidy(c, s)
           /\ \A x, s : Orderly(x, s)' <=> Orderly(x, s)
           /\ \A c, s, f, C : Fitted(c, s, f, C)' <=> Fitted(c, s, f, C)
<1>1. Kids' = Kids /\ Filters' = Filters /\ Runs' = Runs
  BY DEF Kids, Filters, Runs, Commands
<1>2. \A c : Source(c)' = Source(c) /\ Sink(c)' = Sink(c) /\ (Last(c)' <=> Last(c))
  BY <1>1 DEF Source, Sink, Last
<1>3. \A c, s : Tidy(c, s)' <=> Tidy(c, s)
  BY <1>2, ZenonT(60) DEF Tidy
<1>4. \A c, s : Wired(c, s)' <=> Wired(c, s)
  BY <1>2 DEF Wired
<1>5. \A s : ForksTidy(s)' <=> ForksTidy(s)
  BY <1>1, <1>3, <1>4 DEF ForksTidy
<1>6. \A s : ForksOnce(s)' <=> ForksOnce(s)
  BY <1>1, <1>2 DEF ForksOnce
<1>7. \A c, s : Serves(c, s)' <=> Serves(c, s)
  BY DEF Serves
<1>8. \A x, s : Orderly(x, s)' <=> Orderly(x, s)
  BY <1>1, <1>5, <1>6, <1>7 DEF Orderly
<1>9. \A c, s, f, C : Fitted(c, s, f, C)' <=> Fitted(c, s, f, C)
  <2> SUFFICES ASSUME NEW c, NEW s, NEW f, NEW C PROVE Fitted(c, s, f, C)' <=> Fitted(c, s, f, C)
    OBVIOUS
  <2>1. (Tidy(c, s)' <=> Tidy(c, s)) /\ Source(c)' = Source(c) /\ Sink(c)' = Sink(c)
    BY <1>2, <1>3
  <2> QED BY <2>1 DEF Fitted
<1> QED BY <1>1, <1>2, <1>3, <1>8, <1>9

LEMMA ParentShapes ==
    ASSUME NEW k \in ParentCalls
    PROVE  /\ k[1] \in {"close", "write", "read", "pipe", "pipe2", "fork", "waitpid", "thread", "join"}
           /\ k[1] = "close" => k = <<"close", k[2]>> /\ k[2] \in Ends
           /\ k[1] = "write" => k = <<"write", k[2], k[3]>> /\ k[2] \in Ends /\ k[3] \in Nat \ {0}
           /\ k[1] = "read" => k = <<"read", k[2]>>
           /\ k[1] \in {"pipe", "pipe2"} => k[2] \in Pipes
           /\ k[1] = "pipe" => k = <<"pipe", k[2]>>
           /\ k[1] = "pipe2" => k = <<"pipe2", k[2]>>
           /\ k[1] = "fork" => k[2] \in Children /\ k[3] \in Seq(ChildCalls)
           /\ k[1] = "waitpid" => k = <<"waitpid", k[2]>>
           /\ k[1] = "thread" => k[2] \in Writers /\ k[3] \in Seq(WriterCalls)
<1>1. CASE k \in WriterCalls
  BY <1>1 DEF WriterCalls
<1>2. CASE k \in ({"read"} \X Ends) \cup ({"pipe", "pipe2"} \X Pipes) \cup ({"waitpid"} \X Children)
              \cup ({"join"} \X Writers)
  BY <1>2
<1>3. CASE k \in {"fork"} \X Children \X Seq(ChildCalls)
  BY <1>3
<1>4. CASE k \in {"thread"} \X Writers \X Seq(WriterCalls)
  BY <1>4
<1> QED BY <1>1, <1>2, <1>3, <1>4 DEF ParentCalls

LEMMA ChildShapes ==
    ASSUME NEW k \in ChildCalls
    PROVE  /\ k[1] \in {"exec", "program", "close", "open", "dup2"}
           /\ k[1] = "exec" => k = <<"exec">>
           /\ k[1] = "program" => k = <<"program">>
           /\ k[1] = "close" => k = <<"close", k[2]>> /\ k[2] \in Ends
           /\ k[1] = "open" => k = <<"open", k[2]>> /\ k[2] \in Ends
           /\ k[1] = "dup2" => k = <<"dup2", k[2], k[3]>> /\ k[2] \in Ends /\ k[3] \in Std
BY DEF ChildCalls

\* Lists of one call.
LEMMA Single ==
    ASSUME NEW a
    PROVE  Len(<<a>>) = 1 /\ <<a>>[1] = a /\ <<a>> # <<>> /\ Head(<<a>>) = a /\ Tail(<<a>>) = <<>>
OBVIOUS

\* What is left of a thread's list.
LEMMA Left ==
    ASSUME Types, Text, NEW x \in Threads, code[x] # <<>>
    PROVE  /\ Rest(code[x], Tail(code[x])) /\ Tail(code[x]) \in Seq(ParentCalls)
           /\ Tail(code[x]) \in Seq(ParentCalls \cup ChildCalls)
           /\ Orderly(x, code[x]) /\ Orderly(x, Tail(code[x]))
           /\ Head(code[x]) = code[x][1] /\ code[x][1] \in ParentCalls
           /\ 1 \in 1 .. Len(code[x])
<1>1. code[x] \in Seq(ParentCalls)
  BY DEF Types
<1>2. /\ Rest(code[x], Tail(code[x])) /\ Tail(code[x]) \in Seq(ParentCalls)
      /\ Head(code[x]) = code[x][1] /\ code[x][1] \in ParentCalls
  BY <1>1, TailIsRest
<1>3. Tail(code[x]) \in Seq(ParentCalls \cup ChildCalls)
  BY <1>2
<1>4. Orderly(x, code[x])
  BY DEF Text
<1>5. Orderly(x, Tail(code[x]))
  BY <1>2, <1>4, OrderlyRest
<1>6. 1 \in 1 .. Len(code[x])
  BY <1>2 DEF Rest
<1> QED BY <1>2, <1>3, <1>4, <1>5, <1>6

\* What a list does, and what is left of it.
LEMMA KindsRest ==
    ASSUME NEW s, NEW t, Rest(s, t)
    PROVE  /\ \A c : Forks(t, c) => Forks(s, c)
           /\ \A c : Forks(s, c) => Forks(t, c) \/ (s[1][1] = "fork" /\ s[1][2] = c)
           /\ Sends(t) => Sends(s)
           /\ \A c : Makes(s, c) => Makes(t, c) \/ s[1] \in {<<"pipe", Supply(c)>>, <<"pipe2", Supply(c)>>}
           /\ Reads(t) => Reads(s)
           /\ Reads(s) => Reads(t) \/ s[1][1] = "read"
           /\ \A c, n : Writes(t, c, n) => Writes(s, c, n)
           /\ \A c, n : Writes(s, c, n) => \/ Writes(t, c, n) \/ s[1] = <<"write", W(Supply(c)), n>>
                                           \/ n = Input /\ s[1][1] = "thread"
           /\ \A d : ClosesSoon(s, d) => \/ ClosesSoon(t, d) \/ s[1] = <<"close", d>>
                                         \/ s[1][1] = "thread" /\ Closes(s[1][3], d)
<1>1. \A i \in 1 .. Len(t) : i + 1 \in 1 .. Len(s) /\ t[i] = s[i + 1]
  BY DEF Rest
<1>2. \A i \in 1 .. Len(s) : i = 1 \/ (i - 1 \in 1 .. Len(t) /\ t[i - 1] = s[i])
  BY DEF Rest
<1>3. \A c : Forks(t, c) => Forks(s, c)
  BY <1>1 DEF Forks
<1>4. \A c : Forks(s, c) => Forks(t, c) \/ (s[1][1] = "fork" /\ s[1][2] = c)
  BY <1>2 DEF Forks
<1>5. Sends(t) => Sends(s)
  BY <1>1 DEF Sends
<1>6. \A c : Makes(s, c) => Makes(t, c) \/ s[1] \in {<<"pipe", Supply(c)>>, <<"pipe2", Supply(c)>>}
  BY <1>2 DEF Makes
<1>7. (Reads(t) => Reads(s)) /\ (Reads(s) => Reads(t) \/ s[1][1] = "read")
  BY <1>1, <1>2, ZenonT(60) DEF Reads
<1>8. \A call : Has(t, call) => Has(s, call)
  BY RestHas
<1>9. \A call : Has(s, call) => s[1] = call \/ Has(t, call)
  BY RestHas
<1>10. /\ (\E i \in 1 .. Len(t) : t[i][1] = "thread") => (\E i \in 1 .. Len(s) : s[i][1] = "thread")
       /\ (\E i \in 1 .. Len(s) : s[i][1] = "thread") =>
             s[1][1] = "thread" \/ \E i \in 1 .. Len(t) : t[i][1] = "thread"
  BY <1>1, <1>2, ZenonT(60)
<1>11. \A c, n : Writes(t, c, n) => Writes(s, c, n)
  BY <1>8, <1>10 DEF Writes
<1>12. \A c, n : Writes(s, c, n) => \/ Writes(t, c, n) \/ s[1] = <<"write", W(Supply(c)), n>>
                                    \/ n = Input /\ s[1][1] = "thread"
  BY <1>9, <1>10 DEF Writes
<1>13. ASSUME NEW d, ClosesSoon(s, d)
       PROVE  \/ ClosesSoon(t, d) \/ s[1] = <<"close", d>>
              \/ s[1][1] = "thread" /\ Closes(s[1][3], d)
  <2>1. CASE Closes(s, d)
    BY <1>9, <2>1 DEF Closes, ClosesSoon
  <2>2. CASE \E i \in 1 .. Len(s) : s[i][1] = "thread" /\ Closes(s[i][3], d)
    BY <1>2, <2>2 DEF ClosesSoon
  <2> QED BY <1>13, <2>1, <2>2 DEF ClosesSoon
<1> QED BY <1>3, <1>4, <1>5, <1>6, <1>7, <1>11, <1>12, <1>13

LEMMA KindsRecount ==
    ASSUME NEW s, NEW t, Recount(s, t)
    PROVE  /\ \A c : Forks(t, c) <=> Forks(s, c)
           /\ Sends(t) => Sends(s)
           /\ \A c : Makes(s, c) => Makes(t, c)
           /\ Reads(t) <=> Reads(s)
           /\ \A d : ClosesSoon(s, d) => ClosesSoon(t, d)
           /\ \A c : Has(s, <<"waitpid", c>>) => Has(t, <<"waitpid", c>>)
<1>0. Len(s) \in Nat /\ Len(t) = Len(s) /\ s # <<>>
  BY DEF Recount
<1>1. \A i \in 1 .. Len(s) :
         /\ t[i][1] = s[i][1] /\ t[i][2] = s[i][2]
         /\ s[i][1] # "write" => t[i] = s[i]
  BY DEF Recount
<1>2. \A c : Forks(t, c) <=> Forks(s, c)
  BY <1>0, <1>1 DEF Forks
<1>3. (Sends(t) => Sends(s)) /\ (Reads(t) <=> Reads(s))
  BY <1>0, <1>1 DEF Sends, Reads
<1>4. \A c : Makes(s, c) => Makes(t, c)
  BY <1>0, <1>1 DEF Makes
<1>5. \A d : Closes(s, d) => Closes(t, d)
  BY <1>0, <1>1 DEF Closes, Has
<1>6. \A d : ClosesSoon(s, d) => ClosesSoon(t, d)
  BY <1>0, <1>1, <1>5 DEF ClosesSoon
<1>7. \A c : Has(s, <<"waitpid", c>>) => Has(t, <<"waitpid", c>>)
  BY <1>0, <1>1 DEF Has
<1> QED BY <1>2, <1>3, <1>4, <1>6, <1>7

\* Forks that are still to come are fed as before, while the list gets shorter ...
LEMMA FedRest ==
    ASSUME NEW s, NEW t, NEW D, NEW E, NEW C, NEW B, Rest(s, t), Fed(s, D, C), C \subseteq B,
           \* ... the table grows, with what the child or a call before the fork closes ...
           \A d \in E \ Std : d \in D \/ \A i \in 1 .. Len(s) : s[i][1] = "fork" => Handed(s, i, d, B),
           \* ... and what a fork needs is not closed, ...
           \A d \in D \ E : \A i \in 1 .. Len(s) : s[i][1] = "fork" =>
               \A m \in 1 .. Len(s[i][3]) : s[i][3][m][1] = "dup2" => s[i][3][m][2] # d,
           \* ... whether the first call makes a pipe or closes an end of one.
           s[1][1] \in {"pipe", "pipe2"} => R(s[1][2]) \in E /\ W(s[1][2]) \in E,
           s[1][1] = "close" => s[1][2] \notin E
    PROVE  Fed(t, E, B)
<1>0. Len(s) \in Nat /\ Len(t) \in Nat /\ Len(s) = Len(t) + 1
  BY DEF Rest
<1>1. \A i \in 1 .. Len(t) : i + 1 \in 1 .. Len(s) /\ t[i] = s[i + 1]
  BY DEF Rest
<1>2. \A i \in 1 .. Len(s) : i = 1 \/ (i - 1 \in 1 .. Len(t) /\ t[i - 1] = s[i])
  BY DEF Rest
<1> SUFFICES ASSUME NEW i \in 1 .. Len(t), t[i][1] = "fork"
             PROVE  /\ \A d \in E \ Std : Handed(t, i, d, B)
                    /\ \A m \in 1 .. Len(t[i][3]) : t[i][3][m][1] = "dup2" => Needed(t, i, t[i][3][m][2], m, E)
  BY DEF Fed
<1>3. i + 1 \in 1 .. Len(s) /\ t[i] = s[i + 1] /\ s[i + 1][1] = "fork"
  BY <1>1
<1>4. ASSUME NEW d \in E \ Std PROVE Handed(t, i, d, B)
  <2>1. Handed(s, i + 1, d, B)
    <3>1. CASE d \in D
      <4>1. Handed(s, i + 1, d, C)
        BY <1>3, <3>1 DEF Fed
      <4> QED BY <4>1 DEF Handed
    <3>2. CASE d \notin D
      BY <1>3, <3>2
    <3> QED BY <3>1, <3>2
  <2>2. CASE ObjectOf(d) \in B \/ Closes(s[i + 1][3], d)
    BY <1>3, <2>2 DEF Handed
  <2>3. CASE \E j \in 1 .. Len(s) : j < i + 1 /\ s[j] = <<"close", d>>
    <3>1. PICK j \in 1 .. Len(s) : j < i + 1 /\ s[j] = <<"close", d>>
      BY <2>3
    <3>2. j # 1
      BY <3>1
    <3>3. j - 1 \in 1 .. Len(t) /\ j - 1 < i /\ t[j - 1] = <<"close", d>>
      BY <1>0, <1>2, <3>1, <3>2
    <3> QED BY <3>3 DEF Handed
  <2> QED BY <2>1, <2>2, <2>3 DEF Handed
<1>5. ASSUME NEW m \in 1 .. Len(t[i][3]), t[i][3][m][1] = "dup2"
      PROVE  Needed(t, i, t[i][3][m][2], m, E)
  <2>1. PICK d : d = t[i][3][m][2]
    OBVIOUS
  <2>2. Needed(s, i + 1, d, m, D)
    BY <1>3, <1>5, <2>1 DEF Fed
  <2>3. CASE d \in D
    BY <1>3, <1>5, <2>1, <2>3 DEF Needed
  <2>4. CASE \E j \in 1 .. Len(s[i + 1][3]) : j < m /\ s[i + 1][3][j] = <<"open", d>>
    BY <1>3, <2>1, <2>4 DEF Needed
  <2>5. CASE \E j \in 1 .. Len(s) :
                j < i + 1 /\ s[j][1] \in {"pipe", "pipe2"} /\ d \in {R(s[j][2]), W(s[j][2])}
    <3>1. PICK j \in 1 .. Len(s) :
                j < i + 1 /\ s[j][1] \in {"pipe", "pipe2"} /\ d \in {R(s[j][2]), W(s[j][2])}
      BY <2>5
    <3>2. CASE j = 1
      BY <2>1, <3>1, <3>2 DEF Needed
    <3>3. CASE j # 1
      <4>1. j - 1 \in 1 .. Len(t) /\ j - 1 < i /\ t[j - 1] = s[j]
        BY <1>0, <1>2, <3>1, <3>3
      <4> QED BY <2>1, <3>1, <4>1 DEF Needed
    <3> QED BY <3>2, <3>3
  <2> QED BY <2>2, <2>3, <2>4, <2>5 DEF Needed
<1> QED BY <1>4, <1>5

LEMMA FedRecount ==
    ASSUME NEW s, NEW t, NEW D, NEW C, Recount(s, t), Fed(s, D, C)
    PROVE  Fed(t, D, C)
<1>0. Len(s) \in Nat /\ Len(t) = Len(s) /\ s # <<>>
  BY DEF Recount
<1>1. \A i \in 1 .. Len(s) :
         /\ t[i][1] = s[i][1] /\ t[i][2] = s[i][2]
         /\ s[i][1] # "write" => t[i] = s[i]
  BY DEF Recount
<1> SUFFICES ASSUME NEW i \in 1 .. Len(s), s[i][1] = "fork"
             PROVE  /\ \A d \in D \ Std : Handed(t, i, d, C)
                    /\ \A m \in 1 .. Len(s[i][3]) : s[i][3][m][1] = "dup2" => Needed(t, i, s[i][3][m][2], m, D)
  BY <1>0, <1>1 DEF Fed
<1>2. \A d \in D \ Std : Handed(t, i, d, C)
  <2>1. \A d \in D \ Std : Handed(s, i, d, C)
    BY DEF Fed
  <2>2. \A d : \A j \in 1 .. Len(s) : s[j] = <<"close", d>> => t[j] = <<"close", d>>
    BY <1>1
  <2>3. t[i] = s[i]
    BY <1>1
  <2> QED BY <1>0, <2>1, <2>2, <2>3 DEF Handed
<1>3. ASSUME NEW m \in 1 .. Len(s[i][3]), s[i][3][m][1] = "dup2" PROVE Needed(t, i, s[i][3][m][2], m, D)
  <2>1. Needed(s, i, s[i][3][m][2], m, D)
    BY <1>3 DEF Fed
  <2> QED BY <1>0, <1>1, <2>1 DEF Needed
<1> QED BY <1>2, <1>3

-------------------------------------------------------------------------------
(* The parent's threads                                                    *)

LEMMA Partners ==
    /\ \A x \in Threads : Of(x) \in {"c1", "c2"} /\ ThreadOf(Of(x)) = x
    /\ \A w \in Writers : Of(w) \in {"c1", "c2"} /\ WriterOf(Of(w)) = w
    /\ \A c : ThreadOf(c) \in Threads /\ WriterOf(c) \in Writers
    /\ \A c \in {"c1", "c2"} : c \in Children /\ Of(ThreadOf(c)) = c /\ Of(WriterOf(c)) = c
    /\ Threads \cap Writers = {} /\ Threads \cap Children = {} /\ Writers \cap Children = {}
    /\ Parent \notin Children
    /\ \A x \in Threads \cup Writers : ProcessOf(x) = Parent
    /\ \A c \in Children : ProcessOf(c) = c
BY DEF Threads, Writers, Children, Of, ThreadOf, WriterOf, Parent, ProcessOf

\* Only map-reduce has two threads that start children, and each has its own.
LEMMA Apart ==
    ASSUME Text, NEW x \in Threads, NEW y \in Threads, x # y, code[x] # <<>>, code[y] # <<>>
    PROVE  /\ run.main = "mr" /\ Filters /\ Of(x) # Of(y)
           /\ Serves(Of(x), code[x]) /\ Serves(Of(y), code[y])
<1>1. Orderly(x, code[x]) /\ Orderly(y, code[y])
  BY DEF Text
<1>2. run.main = "mr" /\ Of(x) # Of(y)
  BY <1>1 DEF Threads, Orderly, Of
<1>3. Filters
  BY <1>2 DEF Filters
<1> QED BY <1>1, <1>2, <1>3 DEF Orderly

\* The list of thread x gets shorter.
LEMMA Moved ==
    ASSUME NEW x \in Threads, Rest(code[x], code'[x]), \A y \in Threads : y # x => code'[y] = code[y]
    PROVE  /\ \A c : Forking(c)' => Forking(c)
           /\ \A c : Forking(c) => Forking(c)' \/ (code[x][1][1] = "fork" /\ code[x][1][2] = c)
           /\ \A c : (\E y \in Threads : Has(code[y], <<"waitpid", c>>)) =>
                 \/ code[x][1] = <<"waitpid", c>>
                 \/ \E y \in Threads : Has(code'[y], <<"waitpid", c>>)
<1>1. \A c : Forks(code'[x], c) => Forks(code[x], c)
  BY KindsRest
<1>2. \A c : Forks(code[x], c) => Forks(code'[x], c) \/ (code[x][1][1] = "fork" /\ code[x][1][2] = c)
  BY KindsRest
<1>3. \A c : Has(code[x], <<"waitpid", c>>) => code[x][1] = <<"waitpid", c>> \/ Has(code'[x], <<"waitpid", c>>)
  BY RestHas
<1>4. \A c : Forking(c)' <=> \E y \in Threads : Forks(code'[y], c)
  BY DEF Forking, Forks
<1> QED BY <1>1, <1>2, <1>3, <1>4 DEF Forking

\* The parent's table does not change.
LEMMA ParenthoodKept ==
    ASSUME Parenthood, UNCHANGED <<cloexec, died, gaveUp>>, fds'[Parent] = fds[Parent],
           \A y \in Threads :
               \/ code'[y] = code[y]
               \/ Rest(code[y], code'[y]) /\ code[y][1][1] \notin {"close", "pipe", "pipe2"}
               \/ Recount(code[y], code'[y])
               \/ code'[y] = <<>>,
           ~gaveUp => \A d : WillClose(d) => WillClose(d)'
    PROVE  Parenthood'
<1>1. ASSUME ~died, NEW y \in Threads PROVE Fed(code'[y], DOMAIN fds[Parent], cloexec)
  <2>1. Fed(code[y], DOMAIN fds[Parent], cloexec)
    BY <1>1 DEF Parenthood
  <2>2. CASE Rest(code[y], code'[y]) /\ code[y][1][1] \notin {"close", "pipe", "pipe2"}
    BY <2>1, <2>2, FedRest
  <2>3. CASE Recount(code[y], code'[y])
    BY <2>1, <2>3, FedRecount
  <2>4. CASE code'[y] = <<>>
    BY <2>4 DEF Fed
  <2> QED BY <2>1, <2>2, <2>3, <2>4
<1> QED BY <1>1 DEF Parenthood

\* The list of thread x gets shorter by a call that writes nothing.
LEMMA MovedSupply ==
    ASSUME NEW x \in Threads, Rest(code[x], code'[x]), code[x][1][1] \notin {"write", "thread"},
           \A y \in Threads \cup Writers : y # x => code'[y] = code[y]
    PROVE  /\ \A c, n : PendingWrite(c, n)' <=> PendingWrite(c, n)
           /\ \A c : Sends(code'[ThreadOf(c)]) => Sends(code[ThreadOf(c)])
           /\ \A c : code'[WriterOf(c)] = code[WriterOf(c)]
           /\ \A c : Makes(code[ThreadOf(c)], c) =>
                 \/ Makes(code'[ThreadOf(c)], c)
                 \/ code[x][1] \in {<<"pipe", Supply(c)>>, <<"pipe2", Supply(c)>>}
           /\ \A c : code[x][1][1] # "read" => (Reads(code'[ThreadOf(c)]) <=> Reads(code[ThreadOf(c)]))
           /\ \A d : WillClose(d) => WillClose(d)' \/ code[x][1] = <<"close", d>>
<1>1. \A c : ThreadOf(c) \in Threads /\ WriterOf(c) \in Writers /\ WriterOf(c) # x
  BY Partners
<1>2. \A c : code'[WriterOf(c)] = code[WriterOf(c)]
  BY <1>1
<1>3. \A c : ThreadOf(c) = x \/ code'[ThreadOf(c)] = code[ThreadOf(c)]
  BY <1>1
<1>4. /\ \A c, n : Writes(code'[x], c, n) <=> Writes(code[x], c, n)
      /\ Sends(code'[x]) => Sends(code[x])
      /\ \A c : Makes(code[x], c) =>
            Makes(code'[x], c) \/ code[x][1] \in {<<"pipe", Supply(c)>>, <<"pipe2", Supply(c)>>}
      /\ code[x][1][1] # "read" => (Reads(code'[x]) <=> Reads(code[x]))
      /\ \A d : ClosesSoon(code[x], d) => ClosesSoon(code'[x], d) \/ code[x][1] = <<"close", d>>
  <2>1. \A c, n : code[x][1] # <<"write", W(Supply(c)), n>>
    OBVIOUS
  <2> QED BY <2>1, KindsRest
<1>5. \A c, n : PendingWrite(c, n)' <=>
            Writes(code'[ThreadOf(c)], c, n) \/ Has(code'[WriterOf(c)], <<"write", W(Supply(c)), n>>)
  BY DEF PendingWrite
<1>6. \A d : WillClose(d)' <=> \E y \in Threads \cup Writers : ClosesSoon(code'[y], d)
  BY DEF WillClose
<1>7. \A c, n : PendingWrite(c, n)' <=> PendingWrite(c, n)
  BY <1>2, <1>3, <1>4, <1>5 DEF PendingWrite
<1>8. \A d : WillClose(d) => WillClose(d)' \/ code[x][1] = <<"close", d>>
  BY <1>4, <1>6 DEF WillClose
<1> QED BY <1>2, <1>3, <1>4, <1>7, <1>8

-------------------------------------------------------------------------------
(* What is left of the invariant to show for a step                        *)

LEMMA FittedMore ==
    ASSUME NEW c, NEW s, NEW f, NEW C, NEW B, Fitted(c, s, f, C), C \subseteq B
    PROVE  Fitted(c, s, f, B)
BY DEF Fitted

\* Only the children in Z change.
LEMMA ChildhoodStep ==
    ASSUME Childhood, run' = run, cloexec \subseteq cloexec', NEW Z,
           \A c \in Children : Forking(c)' => Forking(c),
           \A c \in Children : c \notin Z => code'[c] = code[c] /\ fds'[c] = fds[c],
           \A c \in Children : c \in Z =>
               /\ code'[c] # <<>> => c \in Kids /\ ~Forking(c)' /\ Fitted(c, code'[c], fds'[c], cloexec')
               /\ code'[c] = <<>> => fds'[c] = NoTable
    PROVE  Childhood'
<1> SUFFICES ASSUME NEW c \in Children
             PROVE  /\ code'[c] # <<>> => c \in Kids /\ ~Forking(c)' /\ Fitted(c, code'[c], fds'[c], cloexec')
                    /\ code'[c] = <<>> => fds'[c] = NoTable
  BY Steady DEF Childhood
<1>1. CASE c \in Z
  BY <1>1
<1>2. CASE c \notin Z
  <2>1. code[c] # <<>> => c \in Kids /\ ~Forking(c) /\ Fitted(c, code[c], fds[c], cloexec')
    BY FittedMore DEF Childhood
  <2> QED BY <1>2, <2>1 DEF Childhood
<1> QED BY <1>1, <1>2

LEMMA ChildhoodSame ==
    ASSUME Childhood, run' = run, cloexec \subseteq cloexec',
           \A c \in Children : Forking(c)' => Forking(c),
           \A c \in Children : code'[c] = code[c] /\ fds'[c] = fds[c]
    PROVE  Childhood'
<1>1. PICK Z : Z = {}
  OBVIOUS
<1> QED BY <1>1, ChildhoodStep

LEMMA WaitingStep ==
    ASSUME Waiting, run' = run, UNCHANGED <<reaped, gaveUp>>,
           \A c \in reaped : code'[c] = <<>> /\ (Forking(c)' => Forking(c)),
           ~gaveUp => \A c \in Kids :
               (\E y \in Threads : Has(code[y], <<"waitpid", c>>)) =>
                   \E y \in Threads : Has(code'[y], <<"waitpid", c>>)
    PROVE  Waiting'
BY Steady DEF Waiting

LEMMA SupplyingStep ==
    ASSUME Supplying, run' = run, died' = died,
           Filters /\ ~died => \A c \in Kids :
               /\ Sends(code'[ThreadOf(c)]) => Sends(code[ThreadOf(c)]) /\ code'[WriterOf(c)] = code[WriterOf(c)]
               /\ \A n \in Nat : PendingWrite(c, n)' => \E m \in Nat : PendingWrite(c, m)
               /\ (\E n \in Nat : PendingWrite(c, n)') =>
                     /\ W(Supply(c)) \in DOMAIN fds[Parent] => W(Supply(c)) \in DOMAIN fds'[Parent]
                     /\ Makes(code[ThreadOf(c)], c) =>
                           Makes(code'[ThreadOf(c)], c) \/ W(Supply(c)) \in DOMAIN fds'[Parent]
    PROVE  Supplying'
BY Steady DEF Supplying

\* No data moves.
LEMMA FlowStep ==
    ASSUME Flow, Good' => Good, run' = run, UNCHANGED <<content, owed, took, got>>,
           Good /\ Good' => \A c \in Kids :
               /\ Done(c)' <=> Done(c)
               /\ Filters =>
                     /\ \A n \in Nat : PendingWrite(c, n)' <=> PendingWrite(c, n)
                     /\ Reads(code[ThreadOf(c)]) =>
                           Reads(code'[ThreadOf(c)]) \/ (Done(c) /\ content[Ingest(c)] = 0),
           run \in Runs
    PROVE  Flow'
<1> SUFFICES ASSUME Good'
             PROVE  /\ \A c \in Kids : IF Filters THEN FilterFlow(c)' ELSE StageFlow(c)'
                    /\ ~Filters => Unused'
  BY Steady DEF Flow
<1>1. ~Filters => Unused'
  BY DEF Flow, Unused
<1>2. ASSUME Filters, NEW c \in Kids PROVE FilterFlow(c)'
  <2>1. FilterFlow(c)
    BY <1>2 DEF Flow
  <2>2. /\ Done(c)' <=> Done(c)
        /\ \A n \in Nat : PendingWrite(c, n)' <=> PendingWrite(c, n)
        /\ Reads(code[ThreadOf(c)]) => Reads(code'[ThreadOf(c)]) \/ (Done(c) /\ content[Ingest(c)] = 0)
    BY <1>2
  <2> QED BY <2>1, <2>2 DEF FilterFlow
<1>3. ASSUME ~Filters, NEW c \in Kids PROVE StageFlow(c)'
  <2>1. StageFlow(c)
    BY <1>3 DEF Flow
  <2>2. (Done(c)' <=> Done(c)) /\ (~First(c) => (Done(PrevOf(c))' <=> Done(PrevOf(c))))
    BY KidsAre DEF First
  <2> QED BY <2>1, <2>2, Steady DEF StageFlow
<1> QED BY <1>1, <1>2, <1>3

WriterList(w, s) ==
    \/ s = <<>>
    \/ /\ run.main = "mr"
       /\ \/ s = <<<<"close", W(Supply(Of(w)))>>>>
          \/ \E n \in 1 .. Input : s = <<<<"write", W(Supply(Of(w))), n>>, <<"close", W(Supply(Of(w)))>>>>

LEMMA TextStep ==
    ASSUME Text, run' = run,
           \A y \in Threads : code'[y] = code[y] \/ Orderly(y, code'[y]),
           \A w \in Writers : code'[w] = code[w] \/ WriterList(w, code'[w])
    PROVE  Text'
<1>1. \A y \in Threads : Orderly(y, code[y])'
  BY Steady DEF Text
<1>2. \A w \in Writers : WriterList(w, code'[w])
  BY DEF Text, WriterList
<1>3. \A w \in Writers :
          \/ code'[w] = <<>>
          \/ /\ run'.main = "mr"
             /\ \/ code'[w] = <<<<"close", W(Supply(Of(w)))>>>>
                \/ \E n \in 1 .. Input :
                      code'[w] = <<<<"write", W(Supply(Of(w))), n>>, <<"close", W(Supply(Of(w)))>>>>
  BY <1>2 DEF WriterList
<1> QED BY <1>1, <1>3 DEF Text

-------------------------------------------------------------------------------
(* Steps of the parent                                                     *)

LEMMA PipeInv ==
    ASSUME PInv, NEW x \in Threads, Pipe(x)
    PROVE  PInv'
<1> USE DEF PInv
<1>1. /\ code[x] # <<>> /\ ~died /\ run' = run
      /\ UNCHANGED <<content, owed, took, got, died, gaveUp, quit, reaped>>
  BY Partners DEF Pipe, At
<1>2. PICK s, t, p : s = code[x] /\ t = Tail(code[x]) /\ p = code[x][1][2]
  OBVIOUS
<1>3. /\ Rest(s, t) /\ t \in Seq(ParentCalls) /\ t \in Seq(ParentCalls \cup ChildCalls)
      /\ Orderly(x, s) /\ Orderly(x, t) /\ Head(s) = s[1] /\ s[1] \in ParentCalls /\ 1 \in 1 .. Len(s)
  BY <1>1, <1>2, Left
<1>4. /\ s[1] = <<"pipe", p>> \/ s[1] = <<"pipe2", p>>
      /\ p \in Pipes /\ s[1][1] \in {"pipe", "pipe2"} /\ s[1][2] = p
  BY <1>1, <1>2, <1>3, ParentShapes DEF Pipe, At
<1>5. /\ code' = [code EXCEPT ![x] = t]
      /\ fds' = [fds EXCEPT ![Parent] = With(With(fds[Parent], R(p), R(p)), W(p), W(p))]
      /\ cloexec' = cloexec \cup (IF s[1][1] = "pipe2" THEN {p} ELSE {})
  BY <1>1, <1>2, <1>3, Partners DEF Pipe, At, Call, Continue
<1>6. /\ code' \in [Threads \cup Writers \cup Children -> Seq(ParentCalls \cup ChildCalls)]
      /\ \A y \in Threads : code'[y] \in Seq(ParentCalls)
      /\ \A c \in Children : code'[c] \in Seq(ChildCalls)
      /\ code'[x] = t /\ \A y \in Threads \cup Writers \cup Children : y # x => code'[y] = code[y]
  <2>1. x \in Threads \cup Writers \cup Children /\ x \notin Children
    BY Partners
  <2> QED BY <1>3, <1>5, <2>1 DEF Types
<1>7. DOMAIN fds = Processes /\ Parent \in Processes
  BY DEF Types, Processes
<1>8. /\ DOMAIN fds' = Processes
      /\ DOMAIN fds'[Parent] = DOMAIN fds[Parent] \cup {R(p), W(p)}
      /\ \A d \in DOMAIN fds'[Parent] : fds'[Parent][d] = d
      /\ \A c \in Children : fds'[c] = fds[c]
  <2>1. PICK f : f = With(fds[Parent], R(p), R(p))
    OBVIOUS
  <2>2. DOMAIN f = DOMAIN fds[Parent] \cup {R(p)} /\ \A d \in DOMAIN f : f[d] = d
    <3>1. \A d \in DOMAIN fds[Parent] : fds[Parent][d] = d
      BY <1>1 DEF Parenthood
    <3>2. /\ DOMAIN f = DOMAIN fds[Parent] \cup {R(p)} /\ f[R(p)] = R(p)
          /\ \A a \in DOMAIN fds[Parent] : a # R(p) => f[a] = fds[Parent][a]
      BY <2>1 DEF With
    <3> QED BY <3>1, <3>2
  <2>3. fds'[Parent] = With(f, W(p), W(p)) /\ DOMAIN fds' = Processes
    BY <1>5, <1>7, <2>1
  <2>4. \A c \in Children : fds'[c] = fds[c]
    BY <1>5, Partners
  <2>5. /\ DOMAIN fds'[Parent] = DOMAIN f \cup {W(p)} /\ fds'[Parent][W(p)] = W(p)
        /\ \A a \in DOMAIN f : a # W(p) => fds'[Parent][a] = f[a]
    BY <2>3 DEF With
  <2> QED BY <2>2, <2>3, <2>4, <2>5
<1>9. Types'
  <2>1. cloexec' \subseteq Pipes
    BY <1>4, <1>5 DEF Types
  <2> QED BY <1>1, <1>6, <1>8, <2>1, Steady DEF Types
<1>10. Text'
  BY <1>1, <1>3, <1>6, Partners, TextStep
<1>11. \A c : Forking(c)' <=> Forking(c)
  BY <1>2, <1>3, <1>4, <1>6, Moved
<1>12. Childhood'
  <2>1. \A c \in Children : code'[c] = code[c] /\ fds'[c] = fds[c]
    BY <1>6, <1>8, Partners
  <2>2. cloexec \subseteq cloexec'
    BY <1>5
  <2> QED BY <1>1, <1>11, <2>1, <2>2, ChildhoodSame
<1>13. /\ R(p) \in Ends /\ W(p) \in Ends /\ R(p) \notin Std /\ W(p) \notin Std
       /\ ObjectOf(R(p)) = p /\ ObjectOf(W(p)) = p
  BY <1>4, EndsOf, PipesAreObjects
<1>14. /\ \A c, n : PendingWrite(c, n)' <=> PendingWrite(c, n)
       /\ \A c : Sends(code'[ThreadOf(c)]) => Sends(code[ThreadOf(c)])
       /\ \A c : code'[WriterOf(c)] = code[WriterOf(c)]
       /\ \A c : Makes(code[ThreadOf(c)], c) =>
             Makes(code'[ThreadOf(c)], c) \/ code[x][1] \in {<<"pipe", Supply(c)>>, <<"pipe2", Supply(c)>>}
       /\ \A c : Reads(code'[ThreadOf(c)]) <=> Reads(code[ThreadOf(c)])
       /\ \A d : WillClose(d) => WillClose(d)'
  <2>1. s[1][1] \notin {"write", "thread", "read"} /\ \A d : s[1] # <<"close", d>>
    BY <1>4
  <2>2. \A y \in Threads \cup Writers : y # x => code'[y] = code[y]
    BY <1>6
  <2> QED BY <1>2, <1>3, <1>6, <2>1, <2>2, MovedSupply
<1>15. Parenthood'
  <2>1. ASSUME NEW y \in Threads PROVE Fed(code'[y], DOMAIN fds'[Parent], cloexec')
    <3>1. Fed(code[y], DOMAIN fds[Parent], cloexec)
      BY <1>1 DEF Parenthood
    <3>2. CASE y = x
      <4>1. ASSUME NEW d \in {R(p), W(p)}, NEW i \in 1 .. Len(s), s[i][1] = "fork"
            PROVE  Handed(s, i, d, cloexec')
        <5>1. CASE s[1][1] = "pipe2"
          BY <1>5, <1>13, <5>1 DEF Handed
        <5>2. CASE s[1][1] = "pipe"
          <6>1. i > 1
            BY <1>4, <4>1
          <6>2. \/ Closes(s[i][3], d)
                \/ \E j \in 1 .. Len(s) : 1 < j /\ j < i /\ s[j] = <<"close", d>>
            BY <1>3, <1>4, <4>1, <5>2, <6>1 DEF Orderly, ForksClose
          <6> QED BY <6>2 DEF Handed
        <5> QED BY <1>4, <5>1, <5>2
      <4>2. cloexec \subseteq cloexec'
        BY <1>5
      <4>3. PICK D, E : D = DOMAIN fds[Parent] /\ E = DOMAIN fds'[Parent]
        OBVIOUS
      <4>4. \A d \in E \ Std : d \in D \/ \A i \in 1 .. Len(s) : s[i][1] = "fork" => Handed(s, i, d, cloexec')
        BY <1>8, <4>1, <4>3
      <4>5. R(s[1][2]) \in E /\ W(s[1][2]) \in E /\ s[1][1] # "close" /\ \A d \in D : d \in E
        BY <1>4, <1>8, <4>3
      <4>6. Fed(s, D, cloexec)
        BY <1>2, <3>1, <3>2, <4>3
      <4>7. Fed(t, E, cloexec')
        BY <1>3, <4>2, <4>4, <4>5, <4>6, FedRest
      <4> QED BY <1>6, <3>2, <4>3, <4>7
    <3>3. CASE y # x
      <4>1. CASE code[y] = <<>>
        BY <1>6, <3>3, <4>1 DEF Fed
      <4>2. CASE code[y] # <<>>
        <5>1. run.main = "mr" /\ Serves(Of(x), s)
          BY <1>1, <1>2, <3>3, <4>2, Apart
        <5>2. s[1][1] = "pipe2"
          BY <1>3, <1>4, <5>1 DEF Serves
        <5>3. ASSUME NEW d \in DOMAIN fds'[Parent] \ Std, NEW i \in 1 .. Len(code[y]), code[y][i][1] = "fork"
              PROVE  Handed(code[y], i, d, cloexec')
          <6>1. CASE d \in DOMAIN fds[Parent]
            <7>1. Handed(code[y], i, d, cloexec)
              BY <3>1, <5>3, <6>1 DEF Fed
            <7> QED BY <1>5, <7>1 DEF Handed
          <6>2. CASE d \notin DOMAIN fds[Parent]
            BY <1>5, <1>8, <1>13, <5>2, <6>2 DEF Handed
          <6> QED BY <6>1, <6>2
        <5>4. \A i \in 1 .. Len(code[y]) : \A d, m :
                  Needed(code[y], i, d, m, DOMAIN fds[Parent]) => Needed(code[y], i, d, m, DOMAIN fds'[Parent])
          BY <1>8 DEF Needed
        <5> QED BY <1>6, <3>1, <3>3, <5>3, <5>4 DEF Fed
      <4> QED BY <4>1, <4>2
    <3> QED BY <3>2, <3>3
  <2>2. ASSUME ~gaveUp, NEW d \in DOMAIN fds'[Parent] \ Std PROVE WillClose(d)'
    <3>1. CASE d \in DOMAIN fds[Parent]
      BY <1>1, <1>14, <2>2, <3>1 DEF Parenthood
    <3>2. CASE d \notin DOMAIN fds[Parent]
      <4>1. d \in {R(s[1][2]), W(s[1][2])}
        BY <1>4, <1>8, <3>2
      <4>2. PICK j \in 1 .. Len(s) : j > 1 /\ (s[j] = <<"close", d>> \/ (s[j][1] = "thread" /\ Closes(s[j][3], d)))
        BY <1>3, <1>4, <4>1 DEF Orderly, ClosesAfter
      <4>3. j - 1 \in 1 .. Len(t) /\ t[j - 1] = s[j]
        BY <1>3, <4>2 DEF Rest
      <4>4. ClosesSoon(t, d)
        BY <4>2, <4>3 DEF ClosesSoon, Closes, Has
      <4> QED BY <1>6, <4>4 DEF WillClose
    <3> QED BY <3>1, <3>2
  <2>3. Std \subseteq DOMAIN fds'[Parent] /\ DOMAIN fds'[Parent] \subseteq Ends
    BY <1>1, <1>8, <1>13 DEF Parenthood
  <2> QED BY <1>1, <1>8, <2>1, <2>2, <2>3 DEF Parenthood
<1>16. Waiting'
  <2>1. \A c \in reaped : c \in Children
    BY KidsAre DEF Types
  <2>2. \A c \in reaped : code'[c] = <<>>
    <3>1. \A c \in Children : code'[c] = code[c]
      BY <1>6, Partners
    <3> QED BY <2>1, <3>1 DEF Waiting
  <2>3. \A c : s[1] # <<"waitpid", c>>
    BY <1>4
  <2>4. \A c : (\E y \in Threads : Has(code[y], <<"waitpid", c>>)) =>
                  \E y \in Threads : Has(code'[y], <<"waitpid", c>>)
    BY <1>2, <1>3, <1>6, <2>3, Moved
  <2> QED BY <1>1, <1>11, <2>2, <2>4, WaitingStep
<1>17. Supplying'
  <2>1. \A c \in Kids : Supply(c) \in Objects
    BY KidsAre, PipesAreObjects DEF Types
  <2>2. \A c \in Kids : s[1] \in {<<"pipe", Supply(c)>>, <<"pipe2", Supply(c)>>} => p = Supply(c)
    BY <1>4
  <2>3. \A c \in Kids : s[1] \in {<<"pipe", Supply(c)>>, <<"pipe2", Supply(c)>>} =>
            W(Supply(c)) \in DOMAIN fds'[Parent]
    BY <1>8, <2>2
  <2> QED BY <1>1, <1>2, <1>8, <1>14, <2>3, SupplyingStep
<1>18. Flow'
  <2>1. \A c \in Kids : Done(c)' <=> Done(c)
    <3>1. \A c \in Kids : code'[c] = code[c]
      BY <1>6, KidsAre, Partners DEF Types
    <3> QED BY <1>11, <3>1 DEF Done
  <2>2. Good' => Good
    BY <1>1 DEF Good
  <2>3. run \in Runs
    BY DEF Types
  <2> QED BY <1>1, <1>14, <2>1, <2>2, <2>3, FlowStep
<1> QED BY <1>9, <1>10, <1>12, <1>15, <1>16, <1>17, <1>18

\* Thread x goes on with what follows its call.
LEMMA Advance ==
    ASSUME Types, Text, NEW x \in Threads, code[x] # <<>>, run' = run,
           code' = [code EXCEPT ![x] = Tail(code[x])]
    PROVE  /\ code' \in [Threads \cup Writers \cup Children -> Seq(ParentCalls \cup ChildCalls)]
           /\ \A y \in Threads : code'[y] \in Seq(ParentCalls)
           /\ \A c \in Children : code'[c] \in Seq(ChildCalls) /\ code'[c] = code[c]
           /\ \A y \in Threads \cup Writers : y # x => code'[y] = code[y]
           /\ code'[x] = Tail(code[x]) /\ Rest(code[x], code'[x]) /\ Orderly(x, code[x])
           /\ Text'
<1>1. /\ Rest(code[x], Tail(code[x])) /\ Tail(code[x]) \in Seq(ParentCalls)
      /\ Tail(code[x]) \in Seq(ParentCalls \cup ChildCalls)
      /\ Orderly(x, code[x]) /\ Orderly(x, Tail(code[x]))
  BY Left
<1>2. x \in Threads \cup Writers \cup Children /\ x \notin Children
  BY Partners
<1>3. /\ code' \in [Threads \cup Writers \cup Children -> Seq(ParentCalls \cup ChildCalls)]
      /\ \A y \in Threads : code'[y] \in Seq(ParentCalls)
      /\ \A c \in Children : code'[c] \in Seq(ChildCalls) /\ code'[c] = code[c]
      /\ \A y \in Threads \cup Writers : y # x => code'[y] = code[y]
      /\ code'[x] = Tail(code[x])
  BY <1>1, <1>2 DEF Types
<1>4. Text'
  BY <1>1, <1>3, Partners, TextStep
<1> QED BY <1>1, <1>3, <1>4

\* It does not wait for a child.
LEMMA AdvanceWaiting ==
    ASSUME PInv, NEW x \in Threads, Rest(code[x], code'[x]), code[x][1][1] # "waitpid",
           \A y \in Threads : y # x => code'[y] = code[y],
           \A c \in reaped : code'[c] = code[c],
           run' = run, UNCHANGED <<reaped, gaveUp>>
    PROVE  Waiting'
<1>1. \A c : code[x][1] # <<"waitpid", c>>
  OBVIOUS
<1>2. \A c : (\E y \in Threads : Has(code[y], <<"waitpid", c>>)) =>
                  \E y \in Threads : Has(code'[y], <<"waitpid", c>>)
  BY <1>1, Moved
<1>3. \A c \in reaped : code'[c] = <<>> /\ (Forking(c)' => Forking(c))
  BY Moved DEF Waiting, PInv
<1>4. Waiting
  BY DEF PInv
<1> QED BY <1>2, <1>3, <1>4, WaitingStep

\* A fork is fed from what is left of the table.
LEMMA FedLess ==
    ASSUME NEW s, NEW D, NEW E, NEW C, NEW d, Fed(s, D, C), E = D \ {d},
           \A i \in 1 .. Len(s) : s[i][1] = "fork" =>
               \A m \in 1 .. Len(s[i][3]) : s[i][3][m][1] = "dup2" => s[i][3][m][2] # d
    PROVE  Fed(s, E, C)
<1>1. ASSUME NEW i \in 1 .. Len(s), s[i][1] = "fork", NEW m \in 1 .. Len(s[i][3]), s[i][3][m][1] = "dup2"
      PROVE  Needed(s, i, s[i][3][m][2], m, E)
  <2>1. Needed(s, i, s[i][3][m][2], m, D) /\ s[i][3][m][2] # d
    BY <1>1 DEF Fed
  <2> QED BY <2>1 DEF Needed
<1>2. ASSUME NEW i \in 1 .. Len(s), s[i][1] = "fork", NEW e \in E \ Std PROVE Handed(s, i, e, C)
  BY <1>2 DEF Fed
<1> QED BY <1>1, <1>2 DEF Fed

\* What a filter's thread hands to its child belongs to that child.
LEMMA OwnEnds ==
    ASSUME NEW x \in Threads, NEW s, Filters, Orderly(x, s), run \in Runs,
           NEW i \in 1 .. Len(s), s[i][1] = "fork",
           NEW m \in 1 .. Len(s[i][3]), s[i][3][m][1] = "dup2"
    PROVE  s[i][3][m][2] \in {R(Supply(Of(x))), W(Ingest(Of(x)))}
<1>1. s[i][2] = Of(x)
  BY DEF Orderly, Serves
<1>2. Tidy(s[i][2], s[i][3])
  BY DEF Orderly, ForksTidy
<1>3. s[i][3][m] \in {<<"dup2", R(Source(Of(x))), StdIn>>, <<"dup2", W(Sink(Of(x))), StdOut>>}
  BY <1>1, <1>2 DEF Tidy
<1> QED BY <1>3 DEF Source, Sink

\* Thread x is of a child of the program.
LEMMA OwnChild ==
    ASSUME Types, Text, NEW x \in Threads, code[x] # <<>>, Filters
    PROVE  Of(x) \in Kids /\ ThreadOf(Of(x)) = x /\ WriterOf(Of(x)) \in Writers /\ Serves(Of(x), code[x])
<1>1. Orderly(x, code[x])
  BY DEF Text
<1>2. run \in Runs
  BY DEF Types
<1>3. CASE run.main = "mr"
  <2>1. run.stages = 2 /\ Stage[1] = "c1" /\ Stage[2] = "c2"
    BY <1>2, <1>3, RunKinds, Stages
  <2> QED BY <1>1, <2>1, Partners DEF Orderly, Kids
<1>4. CASE run.main # "mr"
  <2>1. x # "t2"
    BY <1>1, <1>4 DEF Orderly
  <2>2. Of(x) = "c1"
    BY <2>1 DEF Of, Threads
  <2> QED BY <1>1, <1>2, <2>2, KidsAre, Partners DEF Orderly
<1> QED BY <1>3, <1>4

\* One descriptor of a table is closed.
LEMMA TableClose ==
    ASSUME DOMAIN fds = Processes, NEW q \in Processes, NEW d,
           fds' = [fds EXCEPT ![q] = Without(fds[q], {d})]
    PROVE  /\ DOMAIN fds' = Processes
           /\ DOMAIN fds'[q] = DOMAIN fds[q] \ {d}
           /\ \A e \in DOMAIN fds'[q] : fds'[q][e] = fds[q][e]
           /\ \A c \in Processes : c # q => fds'[c] = fds[c]
<1>1. fds'[q] = Without(fds[q], {d})
  OBVIOUS
<1> QED BY <1>1 DEF Without

LEMMA CloseInv ==
    ASSUME PInv, NEW x \in Threads, Descriptor(x)
    PROVE  PInv'
<1>0. Types /\ Text /\ Childhood /\ Parenthood /\ Waiting /\ Supplying /\ Flow
  BY DEF PInv
<1>1. /\ code[x] # <<>> /\ ~died /\ run' = run /\ x \in Threads \cup Writers
      /\ UNCHANGED <<cloexec, content, owed, took, got, died, gaveUp, quit, reaped>>
  BY Partners DEF Descriptor, At
<1>2. PICK s, d : s = code[x] /\ d = code[x][1][2]
  OBVIOUS
<1>3. Orderly(x, s) /\ Head(s) = s[1] /\ s[1] \in ParentCalls /\ 1 \in 1 .. Len(s)
  BY <1>0, <1>1, <1>2, Left
<1>4. s[1] = <<"close", d>> /\ s[1][1] = "close" /\ s[1][2] = d
  <2>1. s[1][1] \in {"dup2", "close", "open"}
    BY <1>2, <1>3 DEF Descriptor, At
  <2> QED BY <1>2, <1>3, <2>1, ParentShapes
<1>5. /\ code' = [code EXCEPT ![x] = Tail(code[x])]
      /\ fds' = [fds EXCEPT ![Parent] = Without(fds[Parent], {d})]
  BY <1>1, <1>2, <1>3, <1>4, Partners DEF Descriptor, Call, Continue
<1>6. /\ code' \in [Threads \cup Writers \cup Children -> Seq(ParentCalls \cup ChildCalls)]
      /\ \A y \in Threads : code'[y] \in Seq(ParentCalls)
      /\ \A c \in Children : code'[c] \in Seq(ChildCalls) /\ code'[c] = code[c]
      /\ \A y \in Threads \cup Writers : y # x => code'[y] = code[y]
      /\ Rest(s, code'[x]) /\ Text'
  BY <1>0, <1>1, <1>2, <1>5, Advance
<1>7. /\ DOMAIN fds' = Processes
      /\ DOMAIN fds'[Parent] = DOMAIN fds[Parent] \ {d}
      /\ \A e \in DOMAIN fds'[Parent] : fds'[Parent][e] = fds[Parent][e]
      /\ \A c \in Children : fds'[c] = fds[c]
  <2>1. DOMAIN fds = Processes /\ Parent \in Processes /\ \A c \in Children : c \in Processes /\ c # Parent
    BY <1>0, Partners DEF Types, Processes
  <2> QED BY <1>5, <2>1, TableClose
<1>8. run \in Runs /\ Kids \subseteq Children
  BY <1>0, KidsAre DEF Types
<1>9. Types'
  BY <1>0, <1>1, <1>6, <1>7, Steady DEF Types
<1>10. \A c : Forking(c)' <=> Forking(c)
  <2>1. s[1][1] # "fork"
    BY <1>4
  <2> QED BY <1>2, <1>6, <2>1, Moved
<1>11. Childhood'
  <2>1. \A c \in Children : code'[c] = code[c] /\ fds'[c] = fds[c]
    BY <1>6, <1>7
  <2>2. cloexec \subseteq cloexec'
    BY <1>1
  <2> QED BY <1>0, <1>1, <1>10, <2>1, <2>2, ChildhoodSame
<1>12. /\ \A c, n : PendingWrite(c, n)' <=> PendingWrite(c, n)
       /\ \A c : Sends(code'[ThreadOf(c)]) => Sends(code[ThreadOf(c)])
       /\ \A c : code'[WriterOf(c)] = code[WriterOf(c)]
       /\ \A c : Makes(code[ThreadOf(c)], c) => Makes(code'[ThreadOf(c)], c)
       /\ \A c : Reads(code'[ThreadOf(c)]) <=> Reads(code[ThreadOf(c)])
       /\ \A e : WillClose(e) => WillClose(e)' \/ s[1] = <<"close", e>>
  <2>1. s[1][1] \notin {"write", "thread", "read"} /\ \A c : s[1] \notin {<<"pipe", Supply(c)>>, <<"pipe2", Supply(c)>>}
    BY <1>4
  <2> QED BY <1>2, <1>6, <2>1, MovedSupply
<1>13. d \notin Std
  BY <1>3, <1>4 DEF Orderly, ClosesAfter
<1>14. ASSUME NEW y \in Threads PROVE Fed(code'[y], DOMAIN fds'[Parent], cloexec)
  <2>1. PICK D, E : D = DOMAIN fds[Parent] /\ E = DOMAIN fds'[Parent]
    OBVIOUS
  <2>2. Fed(code[y], D, cloexec) /\ E = D \ {d}
    BY <1>0, <1>1, <1>7, <2>1 DEF Parenthood
  <2>3. CASE y = x
    <3>1. \A i \in 1 .. Len(s) : s[i][1] = "fork" => 1 < i
      BY <1>4
    <3>2. \A i \in 1 .. Len(s) : s[i][1] = "fork" =>
              \A m \in 1 .. Len(s[i][3]) : s[i][3][m][1] = "dup2" => s[i][3][m][2] # d
      BY <1>3, <1>4, <3>1 DEF Orderly, ForksKeep
    <3>3. \A e \in D \ E : e = d
      BY <2>2
    <3>4. Fed(s, D, cloexec) /\ s[1][2] \notin E /\ \A e \in E : e \in D
      BY <1>2, <1>4, <2>2, <2>3
    <3>5. s[1][1] \notin {"pipe", "pipe2"}
      BY <1>4
    <3>6. PICK t : t = code'[x]
      OBVIOUS
    <3>7. Fed(t, E, cloexec)
      BY <1>6, <3>2, <3>3, <3>4, <3>5, <3>6, FedRest
    <3> QED BY <2>1, <2>3, <3>6, <3>7
  <2>4. CASE y # x
    <3>1. CASE code[y] = <<>>
      BY <1>6, <2>4, <3>1 DEF Fed
    <3>2. CASE code[y] # <<>>
      <4>1. Filters /\ Of(x) # Of(y) /\ Serves(Of(x), s) /\ Of(x) \in Children /\ Of(y) \in Children
        BY <1>0, <1>1, <1>2, <2>4, <3>2, Apart, Partners
      <4>2. d[1] = Of(x)
        BY <1>3, <1>4, <4>1 DEF Serves
      <4>3. d \notin {R(Supply(Of(y))), W(Ingest(Of(y)))}
        BY <4>1, <4>2, EndsOf, PipesAreObjects
      <4>4. Orderly(y, code[y])
        BY <1>0 DEF Text
      <4>5. \A i \in 1 .. Len(code[y]) : code[y][i][1] = "fork" =>
              \A m \in 1 .. Len(code[y][i][3]) : code[y][i][3][m][1] = "dup2" => code[y][i][3][m][2] # d
        BY <1>8, <4>1, <4>3, <4>4, OwnEnds
      <4>6. Fed(code[y], E, cloexec)
        BY <2>2, <4>5, FedLess
      <4> QED BY <1>6, <2>1, <2>4, <4>6
    <3> QED BY <3>1, <3>2
  <2> QED BY <2>3, <2>4
<1>15. Parenthood'
  <2>1. ASSUME ~gaveUp, NEW e \in DOMAIN fds'[Parent] \ Std PROVE WillClose(e)'
    <3>1. WillClose(e) /\ e # d
      BY <1>0, <1>1, <1>7, <2>1 DEF Parenthood
    <3>2. s[1] # <<"close", e>>
      BY <1>4, <3>1
    <3> QED BY <1>12, <3>1, <3>2
  <2>2. Std \subseteq DOMAIN fds'[Parent] /\ DOMAIN fds'[Parent] \subseteq Ends
    BY <1>0, <1>1, <1>7, <1>13 DEF Parenthood
  <2>3. \A e \in DOMAIN fds'[Parent] : fds'[Parent][e] = e
    BY <1>0, <1>1, <1>7 DEF Parenthood
  <2> QED BY <1>1, <1>14, <2>1, <2>2, <2>3 DEF Parenthood
<1>16. Waiting'
  <2>1. s[1][1] # "waitpid"
    BY <1>4
  <2>2. \A c \in reaped : code'[c] = code[c]
    BY <1>0, <1>6, <1>8 DEF Types
  <2> QED BY <1>1, <1>2, <1>6, <2>1, <2>2, AdvanceWaiting
<1>17. Supplying'
  <2>1. ASSUME Filters, NEW c \in Kids, NEW n \in Nat, PendingWrite(c, n) PROVE W(Supply(c)) # d
    <3>1. SUFFICES ASSUME W(Supply(c)) = d PROVE FALSE
      OBVIOUS
    <3>2. Serves(Of(x), s) /\ Of(x) \in Children
      BY <1>0, <1>1, <1>2, <2>1, OwnChild, Partners
    <3>3. d[1] = Of(x)
      BY <1>3, <1>4, <3>2 DEF Serves
    <3>4. c = Of(x)
      BY <1>8, <3>1, <3>3, EndsOf, PipesAreObjects
    <3>5. ~(run.main = "mr")
      BY <1>3, <1>4, <3>1, <3>2, <3>4 DEF Serves
    <3>6. code[WriterOf(c)] = <<>>
      BY <1>0, <3>5, Partners DEF Text
    <3>7. \A i \in 1 .. Len(s) : s[i][1] \notin {"write", "thread"}
      BY <1>3, <1>4, <3>1, <3>2, <3>4 DEF Serves
    <3>8. ~Writes(s, c, n)
      BY <3>7 DEF Writes, Has
    <3>9. ~Has(code[WriterOf(c)], <<"write", W(Supply(c)), n>>)
      BY <3>6 DEF Has
    <3> QED BY <1>2, <2>1, <3>4, <3>8, <3>9, Partners DEF PendingWrite
  <2> QED BY <1>0, <1>1, <1>7, <1>12, <2>1, SupplyingStep
<1>18. Flow'
  <2>1. \A c \in Kids : Done(c)' <=> Done(c)
    BY <1>6, <1>8, <1>10 DEF Done
  <2>2. Good' => Good
    BY <1>1 DEF Good
  <2> QED BY <1>0, <1>1, <1>8, <1>12, <2>1, <2>2, FlowStep
<1> QED BY <1>9, <1>6, <1>11, <1>15, <1>16, <1>17, <1>18 DEF PInv

\* The lists of the writer threads change, one of them by w.
LEMMA WriterTypes ==
    ASSUME Types, NEW w \in Writers, NEW t \in Seq(WriterCalls), code' = [code EXCEPT ![w] = t]
    PROVE  /\ code' \in [Threads \cup Writers \cup Children -> Seq(ParentCalls \cup ChildCalls)]
           /\ \A y \in Threads : code'[y] \in Seq(ParentCalls) /\ code'[y] = code[y]
           /\ \A c \in Children : code'[c] \in Seq(ChildCalls) /\ code'[c] = code[c]
           /\ \A v \in Writers : v # w => code'[v] = code[v]
           /\ code'[w] = t
<1>1. t \in Seq(ParentCalls \cup ChildCalls)
  BY DEF ParentCalls
<1>2. w \in Threads \cup Writers \cup Children /\ w \notin Threads /\ w \notin Children
  BY Partners
<1> QED BY <1>1, <1>2 DEF Types

\* A writer's list, and the child it is for.
LEMMA OwnWriter ==
    ASSUME Types, Text, NEW w \in Writers, code[w] # <<>>
    PROVE  /\ run.main = "mr" /\ Filters /\ Of(w) \in Kids /\ WriterOf(Of(w)) = w
           /\ ThreadOf(Of(w)) \in Threads /\ Of(w) \in Children
           /\ \/ code[w] = <<<<"close", W(Supply(Of(w)))>>>>
              \/ \E n \in 1 .. Input :
                    code[w] = <<<<"write", W(Supply(Of(w))), n>>, <<"close", W(Supply(Of(w)))>>>>
<1>1. /\ run.main = "mr"
      /\ \/ code[w] = <<<<"close", W(Supply(Of(w)))>>>>
         \/ \E n \in 1 .. Input :
               code[w] = <<<<"write", W(Supply(Of(w))), n>>, <<"close", W(Supply(Of(w)))>>>>
  BY DEF Text
<1>2. run.stages = 2 /\ Stage[1] = "c1" /\ Stage[2] = "c2"
  BY <1>1, RunKinds, Stages DEF Types
<1>3. Of(w) \in Kids
  BY <1>2, Partners DEF Kids
<1> QED BY <1>1, <1>3, Partners DEF Filters

LEMMA WriterCloseInv ==
    ASSUME PInv, NEW w \in Writers, Descriptor(w)
    PROVE  PInv'
<1>0. Types /\ Text /\ Childhood /\ Parenthood /\ Waiting /\ Supplying /\ Flow
  BY DEF PInv
<1>1. /\ code[w] # <<>> /\ ~died /\ run' = run /\ w \in Threads \cup Writers
      /\ UNCHANGED <<cloexec, content, owed, took, got, died, gaveUp, quit, reaped>>
  BY Partners DEF Descriptor, At
<1>2. PICK c, d : c = Of(w) /\ d = W(Supply(c))
  OBVIOUS
<1>3. /\ run.main = "mr" /\ Filters /\ c \in Kids /\ WriterOf(c) = w
      /\ ThreadOf(c) \in Threads /\ c \in Children
  BY <1>0, <1>1, <1>2, OwnWriter
<1>4. code[w] = <<<<"close", d>>>>
  <2>1. Head(code[w])[1] \in {"dup2", "close", "open"}
    BY DEF Descriptor, At
  <2>2. ASSUME NEW n, code[w] = <<<<"write", d, n>>, <<"close", d>>>> PROVE FALSE
    BY <2>1, <2>2
  <2> QED BY <1>0, <1>1, <1>2, <2>2, OwnWriter
<1>5. /\ Len(code[w]) = 1 /\ code[w][1] = <<"close", d>> /\ Head(code[w]) = <<"close", d>> /\ Tail(code[w]) = <<>>
  BY <1>4, Single
<1>6. /\ code' = [code EXCEPT ![w] = <<>>]
      /\ fds' = [fds EXCEPT ![Parent] = Without(fds[Parent], {d})]
  <2>1. code' = [code EXCEPT ![w] = Tail(code[w])]
    BY DEF Descriptor, Continue
  <2>2. ProcessOf(w) = Parent /\ Call(w) = <<"close", d>>
    BY <1>1, <1>5, Partners DEF Call
  <2>3. Call(w)[1] = "close" /\ Call(w)[2] = d
    BY <2>2
  <2> QED BY <1>5, <2>1, <2>2, <2>3 DEF Descriptor
<1>7. /\ code' \in [Threads \cup Writers \cup Children -> Seq(ParentCalls \cup ChildCalls)]
      /\ \A y \in Threads : code'[y] \in Seq(ParentCalls) /\ code'[y] = code[y]
      /\ \A e \in Children : code'[e] \in Seq(ChildCalls) /\ code'[e] = code[e]
      /\ \A v \in Writers : v # w => code'[v] = code[v]
      /\ code'[w] = <<>>
  <2>1. <<>> \in Seq(WriterCalls)
    OBVIOUS
  <2> QED BY <1>0, <1>6, <2>1, WriterTypes
<1>8. /\ DOMAIN fds' = Processes
      /\ DOMAIN fds'[Parent] = DOMAIN fds[Parent] \ {d}
      /\ \A e \in DOMAIN fds'[Parent] : fds'[Parent][e] = fds[Parent][e]
      /\ \A e \in Children : fds'[e] = fds[e]
  <2>1. DOMAIN fds = Processes /\ Parent \in Processes /\ \A e \in Children : e \in Processes /\ e # Parent
    BY <1>0, Partners DEF Types, Processes
  <2> QED BY <1>6, <2>1, TableClose
<1>9. run \in Runs /\ Kids \subseteq Children
  BY <1>0, KidsAre DEF Types
<1>10. Types'
  BY <1>0, <1>1, <1>7, <1>8, Steady DEF Types
<1>11. Text'
  BY <1>0, <1>1, <1>7, TextStep DEF WriterList
<1>12. \A e : Forking(e)' <=> Forking(e)
  BY <1>7 DEF Forking
<1>13. Childhood'
  <2>1. \A e \in Children : code'[e] = code[e] /\ fds'[e] = fds[e]
    BY <1>7, <1>8
  <2>2. cloexec \subseteq cloexec'
    BY <1>1
  <2> QED BY <1>0, <1>1, <1>12, <2>1, <2>2, ChildhoodSame
<1>14. d \notin Std
  BY <1>2, <1>3, PipesAreObjects
<1>15. ASSUME NEW y \in Threads PROVE Fed(code'[y], DOMAIN fds'[Parent], cloexec)
  <2>1. PICK D, E : D = DOMAIN fds[Parent] /\ E = DOMAIN fds'[Parent]
    OBVIOUS
  <2>2. Fed(code[y], D, cloexec) /\ E = D \ {d}
    BY <1>0, <1>1, <1>8, <2>1 DEF Parenthood
  <2>3. Orderly(y, code[y]) /\ Of(y) \in Children
    BY <1>0, Partners DEF Text
  <2>4. d \notin {R(Supply(Of(y))), W(Ingest(Of(y)))}
    BY <1>2, <1>3, <2>3, EndsOf, PipesAreObjects
  <2>5. \A i \in 1 .. Len(code[y]) : code[y][i][1] = "fork" =>
           \A m \in 1 .. Len(code[y][i][3]) : code[y][i][3][m][1] = "dup2" => code[y][i][3][m][2] # d
    BY <1>3, <1>9, <2>3, <2>4, OwnEnds
  <2>6. Fed(code[y], E, cloexec)
    BY <2>2, <2>5, FedLess
  <2> QED BY <1>7, <2>1, <2>6
<1>16. Parenthood'
  <2>1. ASSUME ~gaveUp, NEW e \in DOMAIN fds'[Parent] \ Std PROVE WillClose(e)'
    <3>1. WillClose(e) /\ e # d
      BY <1>0, <1>1, <1>8, <2>1 DEF Parenthood
    <3>2. PICK y \in Threads \cup Writers : ClosesSoon(code[y], e)
      BY <3>1 DEF WillClose
    <3>3. ~ClosesSoon(code[w], e)
      BY <1>5, <3>1 DEF ClosesSoon, Closes, Has
    <3>4. code'[y] = code[y]
      BY <1>7, <3>2, <3>3
    <3>5. ClosesSoon(code'[y], e)
      BY <3>2, <3>4
    <3> QED BY <3>5 DEF WillClose
  <2>2. Std \subseteq DOMAIN fds'[Parent] /\ DOMAIN fds'[Parent] \subseteq Ends
    BY <1>0, <1>1, <1>8, <1>14 DEF Parenthood
  <2>3. \A e \in DOMAIN fds'[Parent] : fds'[Parent][e] = e
    BY <1>0, <1>1, <1>8 DEF Parenthood
  <2> QED BY <1>1, <1>15, <2>1, <2>2, <2>3 DEF Parenthood
<1>17. Waiting'
  <2>1. \A e \in reaped : code'[e] = <<>> /\ (Forking(e)' => Forking(e))
    BY <1>0, <1>7, <1>9, <1>12 DEF Waiting, Types
  <2> QED BY <1>0, <1>1, <1>7, <2>1, WaitingStep
<1>18. \A e \in Kids, n \in Nat : PendingWrite(e, n)' <=> PendingWrite(e, n)
  <2> SUFFICES ASSUME NEW e \in Kids, NEW n \in Nat PROVE PendingWrite(e, n)' <=> PendingWrite(e, n)
    OBVIOUS
  <2>1. PendingWrite(e, n)' <=>
            Writes(code'[ThreadOf(e)], e, n) \/ Has(code'[WriterOf(e)], <<"write", W(Supply(e)), n>>)
    BY DEF PendingWrite
  <2>2. code'[ThreadOf(e)] = code[ThreadOf(e)]
    BY <1>7, Partners
  <2>3. Has(code'[WriterOf(e)], <<"write", W(Supply(e)), n>>) <=> Has(code[WriterOf(e)], <<"write", W(Supply(e)), n>>)
    <3>1. CASE WriterOf(e) = w
      <4>1. ~Has(code[w], <<"write", W(Supply(e)), n>>)
        BY <1>5 DEF Has
      <4>2. ~Has(<<>>, <<"write", W(Supply(e)), n>>)
        BY DEF Has
      <4> QED BY <1>7, <3>1, <4>1, <4>2
    <3>2. CASE WriterOf(e) # w
      BY <1>7, <3>2, Partners
    <3> QED BY <3>1, <3>2
  <2> QED BY <2>1, <2>2, <2>3 DEF PendingWrite
<1>19. Supplying'
  <2>1. ASSUME NEW e \in Kids, WriterOf(e) = w
        PROVE  ~Sends(code[ThreadOf(e)]) /\ \A n \in Nat : ~PendingWrite(e, n)
    <3>1. ~Sends(code[ThreadOf(e)])
      BY <1>0, <1>1, <1>3, <2>1 DEF Supplying
    <3>2. \A n \in Nat : ~Writes(code[ThreadOf(e)], e, n)
      BY <3>1 DEF Sends, Writes, Has
    <3>3. \A n \in Nat : ~Has(code[w], <<"write", W(Supply(e)), n>>)
      BY <1>5 DEF Has
    <3> QED BY <2>1, <3>1, <3>2, <3>3 DEF PendingWrite
  <2>2. ASSUME NEW e \in Kids, WriterOf(e) # w PROVE W(Supply(e)) # d
    <3>1. e # c
      BY <1>3, <2>2
    <3> QED BY <1>2, <1>3, <1>9, <3>1, EndsOf, PipesAreObjects
  <2>3. \A e \in Kids : code'[ThreadOf(e)] = code[ThreadOf(e)] /\ WriterOf(e) \in Writers
    BY <1>7, Partners
  <2>4. ASSUME NEW e \in Kids
        PROVE  /\ Sends(code'[ThreadOf(e)]) => Sends(code[ThreadOf(e)]) /\ code'[WriterOf(e)] = code[WriterOf(e)]
               /\ \A n \in Nat : PendingWrite(e, n)' => \E m \in Nat : PendingWrite(e, m)
               /\ (\E n \in Nat : PendingWrite(e, n)') =>
                     /\ W(Supply(e)) \in DOMAIN fds[Parent] => W(Supply(e)) \in DOMAIN fds'[Parent]
                     /\ Makes(code[ThreadOf(e)], e) =>
                           Makes(code'[ThreadOf(e)], e) \/ W(Supply(e)) \in DOMAIN fds'[Parent]
    <3>1. CASE WriterOf(e) = w
      BY <1>18, <2>1, <2>3, <3>1
    <3>2. CASE WriterOf(e) # w
      BY <1>7, <1>8, <1>18, <2>2, <2>3, <3>2
    <3> QED BY <3>1, <3>2
  <2> QED BY <1>0, <1>1, <2>4, SupplyingStep
<1>20. Flow'
  <2>1. \A e \in Kids : Done(e)' <=> Done(e)
    BY <1>7, <1>9, <1>12 DEF Done
  <2>2. Good' => Good
    BY <1>1 DEF Good
  <2>3. \A e : code'[ThreadOf(e)] = code[ThreadOf(e)]
    BY <1>7, Partners
  <2> QED BY <1>0, <1>1, <1>9, <1>18, <2>1, <2>2, <2>3, FlowStep
<1> QED BY <1>10, <1>11, <1>13, <1>16, <1>17, <1>19, <1>20 DEF PInv

LEMMA SeqMore ==
    ASSUME NEW t \in Seq(ParentCalls)
    PROVE  t \in Seq(ParentCalls \cup ChildCalls)
OBVIOUS

\* What is left of a list that begins with a write, after one unit.
LEMMA WriteList ==
    ASSUME NEW s \in Seq(ParentCalls), s # <<>>, s[1][1] = "write",
           NEW a \in ParentCalls, a[1] = "write", a[2] = s[1][2], NEW t, t = <<a>> \o Tail(s)
    PROVE  Recount(s, t) /\ t \in Seq(ParentCalls) /\ t[1] = a
<1>2. PICK u : u = Tail(s)
  OBVIOUS
<1>3. Rest(s, u) /\ u \in Seq(ParentCalls)
  BY <1>2, TailIsRest
<1>4. t = <<a>> \o u
  BY <1>2
<1>5. <<a>> \in Seq(ParentCalls) /\ Len(<<a>>) = 1 /\ <<a>>[1] = a
  BY Single
<1>6. t \in Seq(ParentCalls) /\ Len(t) = 1 + Len(u) /\ t[1] = a /\ \A i \in 1 .. Len(u) : t[1 + i] = u[i]
  BY <1>3, <1>4, <1>5
<1>7. /\ Len(s) \in Nat /\ Len(u) \in Nat /\ Len(s) = Len(u) + 1
      /\ \A i \in 1 .. Len(u) : u[i] = s[i + 1]
  BY <1>3 DEF Rest
<1>8. Len(t) = Len(s) /\ Len(s) >= 1
  BY <1>6, <1>7
<1>9. ASSUME NEW i \in 1 .. Len(t), i > 1 PROVE t[i] = s[i]
  <2>1. PICK k : k = i - 1
    OBVIOUS
  <2>2. k \in 1 .. Len(u) /\ i = 1 + k
    BY <1>6, <1>7, <1>9, <2>1
  <2> QED BY <1>6, <1>7, <2>2
<1>10. s[1][1] = "write" /\ t[1][1] = "write" /\ t[1][2] = s[1][2]
  BY <1>6
<1> QED BY <1>6, <1>7, <1>8, <1>9, <1>10 DEF Recount

\* One unit goes into the supply of child c; n units were still to be written.
LEMMA UnitFlow ==
    ASSUME PInv, NEW c \in Kids, Filters, NEW n \in Nat \ {0}, PendingWrite(c, n),
           content' = [content EXCEPT ![Supply(c)] = content[Supply(c)] + 1],
           run' = run, UNCHANGED <<owed, took, got, died, gaveUp, quit>>,
           \A m \in Nat : PendingWrite(c, m)' <=> (n > 1 /\ m = n - 1),
           \A e \in Kids : e # c => \A m \in Nat : PendingWrite(e, m)' <=> PendingWrite(e, m),
           \A e \in Kids : Done(e)' <=> Done(e),
           \A e \in Kids : Reads(code'[ThreadOf(e)]) <=> Reads(code[ThreadOf(e)])
    PROVE  Flow'
<1>0. Types /\ Flow /\ run \in Runs /\ Kids \subseteq Children /\ Kids' = Kids /\ Filters'
  BY KidsAre, Steady DEF PInv, Types
<1>1. SUFFICES ASSUME Good', NEW e \in Kids PROVE FilterFlow(e)'
  BY <1>0 DEF Flow
<1>2. Good
  BY <1>1 DEF Good
<1>3. FilterFlow(e) /\ FilterFlow(c)
  BY <1>0, <1>2 DEF Flow
<1>4. /\ content \in [Objects -> Nat] /\ took[c] \in Nat
      /\ \A b \in Children : Supply(b) \in Objects /\ Ingest(b) \in Objects
      /\ \A a, b \in Children : Supply(a) # Ingest(b) /\ (Supply(a) = Supply(b) => a = b)
  BY <1>0, PipesAreObjects DEF Types
<1>5. content'[Ingest(e)] = content[Ingest(e)]
  BY <1>0, <1>4
<1>6. ~Done(c)
  BY <1>3 DEF FilterFlow
<1>7. CASE e # c
  <2>1. content'[Supply(e)] = content[Supply(e)]
    BY <1>0, <1>4, <1>7
  <2> QED BY <1>3, <1>5, <1>7, <2>1 DEF FilterFlow
<1>8. CASE e = c
  <2>1. content'[Supply(c)] = content[Supply(c)] + 1 /\ content[Supply(c)] \in Nat
    BY <1>0, <1>4
  <2>2. content[Supply(c)] + took[c] + n = Input
    BY <1>3 DEF FilterFlow
  <2>3. \A m \in Nat : PendingWrite(c, m)' => content'[Supply(c)] + took[c] + m = Input
    BY <1>4, <2>1, <2>2
  <2>4. (\A m \in Nat : ~PendingWrite(c, m)') => content'[Supply(c)] + took[c] = Input
    <3>1. CASE n > 1
      <4>1. n - 1 \in Nat
        BY <3>1
      <4> QED BY <3>1, <4>1
    <3>2. CASE n = 1
      BY <1>4, <2>1, <2>2, <3>2
    <3> QED BY <3>1, <3>2
  <2>5. took[c] * Expansion = owed[c] + content'[Ingest(c)] + got[ThreadOf(c)]
    BY <1>3, <1>5, <1>8 DEF FilterFlow
  <2>6. ~Reads(code[ThreadOf(c)]) => Done(c) /\ content'[Ingest(c)] = 0
    BY <1>3, <1>5, <1>8 DEF FilterFlow
  <2> QED BY <1>6, <1>8, <2>3, <2>4, <2>5, <2>6 DEF FilterFlow
<1> QED BY <1>7, <1>8

\* The table of what pipes hold, when one of them gets a unit or gives one.
LEMMA ContentTypes ==
    ASSUME Types, NEW o \in Objects, NEW k \in Nat, o \notin Files => k =< Capacity,
           content' = [content EXCEPT ![o] = k]
    PROVE  content' \in [Objects -> Nat] /\ \A p \in Objects \ Files : content'[p] =< Capacity
BY DEF Types

LEMMA WriteInv ==
    ASSUME PInv, NEW x \in Threads, Write(x)
    PROVE  PInv'
<1>0. Types /\ Text /\ Childhood /\ Parenthood /\ Waiting /\ Supplying /\ Flow
  BY DEF PInv
<1>1. /\ code[x] # <<>> /\ ~died /\ run' = run /\ x \in Threads \cup Writers /\ x \notin Children
      /\ UNCHANGED <<fds, cloexec, owed, took, got, died, gaveUp, quit, reaped>>
  BY Partners DEF Write, At
<1>2. PICK s, t, d, n, c : s = code[x] /\ t = code'[x] /\ d = code[x][1][2] /\ n = code[x][1][3] /\ c = Of(x)
  OBVIOUS
<1>3. Orderly(x, s) /\ Head(s) = s[1] /\ s[1] \in ParentCalls /\ 1 \in 1 .. Len(s) /\ s \in Seq(ParentCalls)
  BY <1>0, <1>1, <1>2, Left DEF Types
<1>4. /\ s[1] = <<"write", d, n>> /\ s[1][1] = "write" /\ s[1][2] = d
      /\ n \in Nat \ {0} /\ d \in Ends
  <2>1. s[1][1] = "write"
    BY <1>2, <1>3 DEF Write, At
  <2> QED BY <1>2, <1>3, <2>1, ParentShapes
<1>5. Filters
  BY <1>3, <1>4 DEF Orderly, Connects
<1>6. c \in Kids /\ ThreadOf(c) = x /\ WriterOf(c) \in Writers /\ Serves(c, s)
  BY <1>0, <1>1, <1>2, <1>5, OwnChild
<1>7. run \in Runs /\ Kids \subseteq Children
  BY <1>0, KidsAre DEF Types
<1>8. c \in Children /\ d = W(Supply(c)) /\ ObjectOf(d) = Supply(c) /\ Supply(c) \in Objects /\ Supply(c) \notin Files
  <2>1. d = W(Supply(c))
    BY <1>3, <1>4, <1>6 DEF Serves
  <2> QED BY <1>6, <1>7, <2>1, EndsOf, PipesAreObjects
<1>9. \A i \in 1 .. Len(s) : i > 1 => s[i][1] \notin {"write", "thread"}
  BY <1>3, <1>4, <1>6 DEF Serves
<1>10. /\ content[Supply(c)] < Capacity
       /\ content' = [content EXCEPT ![Supply(c)] = content[Supply(c)] + 1]
       /\ code' = [code EXCEPT ![x] = IF n = 1 THEN Tail(code[x]) ELSE <<<<"write", d, n - 1>>>> \o Tail(code[x])]
  <2>1. Call(x)[2] = d /\ Call(x)[3] = n
    BY <1>2, <1>3 DEF Call
  <2> QED BY <1>8, <2>1 DEF Write
<1>11. /\ t \in Seq(ParentCalls) /\ Orderly(x, t)
       /\ n = 1 => Rest(s, t)
       /\ n > 1 => Recount(s, t) /\ t[1] = <<"write", d, n - 1>>
       /\ t = IF n = 1 THEN Tail(code[x]) ELSE <<<<"write", d, n - 1>>>> \o Tail(code[x])
  <2>0. t = IF n = 1 THEN Tail(code[x]) ELSE <<<<"write", d, n - 1>>>> \o Tail(code[x])
    BY <1>0, <1>1, <1>2, <1>10 DEF Types
  <2>1. CASE n = 1
    BY <1>0, <1>1, <1>2, <2>0, <2>1, Left
  <2>2. CASE n # 1
    <3>1. <<"write", d, n - 1>> \in ParentCalls
      <4>1. n - 1 \in Nat \ {0}
        BY <1>4, <2>2
      <4> QED BY <1>4, <4>1 DEF ParentCalls, WriterCalls
    <3>2. PICK a : a = <<"write", d, n - 1>>
      OBVIOUS
    <3>5. t = <<a>> \o Tail(s) /\ s # <<>> /\ a \in ParentCalls
      BY <1>1, <1>2, <2>0, <2>2, <3>1, <3>2
    <3>6. a[1] = "write" /\ a[2] = s[1][2]
      BY <1>4, <3>2
    <3>7. Recount(s, t) /\ t \in Seq(ParentCalls) /\ t[1] = a
      BY <1>3, <1>4, <3>5, <3>6, WriteList
    <3>3. Recount(s, t) /\ t \in Seq(ParentCalls) /\ t[1] = <<"write", d, n - 1>>
      BY <3>2, <3>7
    <3>4. Orderly(x, t)
      BY <1>3, <3>3, OrderlyRecount
    <3> QED BY <2>0, <2>2, <3>3, <3>4
  <2> QED BY <2>1, <2>2
<1>12. /\ code' \in [Threads \cup Writers \cup Children -> Seq(ParentCalls \cup ChildCalls)]
       /\ \A y \in Threads : code'[y] \in Seq(ParentCalls)
       /\ \A e \in Children : code'[e] \in Seq(ChildCalls) /\ code'[e] = code[e]
       /\ \A y \in Threads \cup Writers : y # x => code'[y] = code[y]
       /\ code'[x] = t
  <2>1. t \in Seq(ParentCalls \cup ChildCalls)
    BY <1>11, SeqMore
  <2>2. code' = [code EXCEPT ![x] = t]
    BY <1>10, <1>11
  <2> QED BY <1>0, <1>1, <1>11, <2>1, <2>2 DEF Types
<1>13. Types'
  <2>1. content[Supply(c)] \in Nat /\ content[Supply(c)] + 1 \in Nat /\ content[Supply(c)] + 1 =< Capacity
    BY <1>0, <1>8, <1>10, SizesAssumption DEF Types
  <2>2. content' \in [Objects -> Nat] /\ \A p \in Objects \ Files : content'[p] =< Capacity
    BY <1>0, <1>8, <1>10, <2>1, ContentTypes
  <2> QED BY <1>0, <1>1, <1>12, <2>2, Steady DEF Types
<1>14. Text'
  BY <1>0, <1>1, <1>11, <1>12, Partners, TextStep
<1>16. /\ \A e : Forks(t, e) <=> Forks(s, e)
       /\ Reads(t) <=> Reads(s)
       /\ \A e : Makes(s, e) => Makes(t, e)
       /\ \A e : Has(s, <<"waitpid", e>>) => Has(t, <<"waitpid", e>>)
       /\ \A e : ClosesSoon(s, e) => ClosesSoon(t, e)
  <2>0. \A e : /\ s[1] # <<"waitpid", e>> /\ s[1] # <<"close", e>>
               /\ s[1] \notin {<<"pipe", Supply(e)>>, <<"pipe2", Supply(e)>>}
    BY <1>4
  <2>1. CASE n = 1
    <3>1. Rest(s, t)
      BY <1>11, <2>1
    <3> QED BY <1>4, <2>0, <3>1, KindsRest, RestHas
  <2>2. CASE n > 1
    BY <1>11, <2>2, KindsRecount
  <2> QED BY <1>4, <2>1, <2>2
<1>17. \A m \in Nat : Writes(t, c, m) <=> (n > 1 /\ m = n - 1)
  <2> SUFFICES ASSUME NEW m \in Nat PROVE Writes(t, c, m) <=> (n > 1 /\ m = n - 1)
    OBVIOUS
  <2>1. CASE n = 1
    <3>1. \A i \in 1 .. Len(t) : i + 1 \in 1 .. Len(s) /\ i + 1 > 1 /\ t[i] = s[i + 1]
      <4>1. Rest(s, t)
        BY <1>11, <2>1
      <4> QED BY <4>1 DEF Rest
    <3>2. \A i \in 1 .. Len(t) : t[i][1] \notin {"write", "thread"}
      BY <1>9, <3>1
    <3> QED BY <2>1, <3>2 DEF Writes, Has
  <2>2. CASE n > 1
    <3>1. Len(t) = Len(s) /\ 1 \in 1 .. Len(t) /\ \A i \in 1 .. Len(t) : i # 1 => t[i] = s[i] /\ i > 1
      BY <1>3, <1>11, <2>2 DEF Recount
    <3>2. \A i \in 1 .. Len(t) : i # 1 => t[i][1] \notin {"write", "thread"}
      BY <1>9, <3>1
    <3>3. t[1] = <<"write", W(Supply(c)), n - 1>> /\ t[1][1] = "write"
      BY <1>8, <1>11, <2>2
    <3>4. Has(t, <<"write", W(Supply(c)), m>>) <=> m = n - 1
      <4>1. m = n - 1 => Has(t, <<"write", W(Supply(c)), m>>)
        BY <3>1, <3>3 DEF Has
      <4>2. ASSUME NEW i \in 1 .. Len(t), t[i] = <<"write", W(Supply(c)), m>> PROVE m = n - 1
        <5>1. i = 1
          BY <3>2, <4>2
        <5> QED BY <3>3, <4>2, <5>1
      <4> QED BY <4>1, <4>2 DEF Has
    <3>5. ~(\E i \in 1 .. Len(t) : t[i][1] = "thread")
      BY <3>2, <3>3
    <3> QED BY <2>2, <3>4, <3>5 DEF Writes
  <2> QED BY <1>4, <2>1, <2>2
<1>18. PendingWrite(c, n) /\ Sends(s) /\ code[WriterOf(c)] = <<>>
  <2>1. Has(s, <<"write", W(Supply(c)), n>>) /\ Sends(s)
    BY <1>3, <1>4, <1>8 DEF Has, Sends
  <2> QED BY <1>0, <1>1, <1>2, <1>5, <1>6, <2>1 DEF PendingWrite, Writes, Supplying
<1>19. \A e, m : PendingWrite(e, m)' <=>
            Writes(code'[ThreadOf(e)], e, m) \/ Has(code'[WriterOf(e)], <<"write", W(Supply(e)), m>>)
  BY DEF PendingWrite
<1>20. \A e : WriterOf(e) \in Writers /\ ThreadOf(e) \in Threads /\ code'[WriterOf(e)] = code[WriterOf(e)]
  <2>1. \A e : WriterOf(e) \in Writers /\ ThreadOf(e) \in Threads
    BY Partners
  <2>2. \A w \in Writers : w # x
    BY Partners
  <2> QED BY <1>12, <2>1, <2>2
<1>21. \A m \in Nat : PendingWrite(c, m)' <=> (n > 1 /\ m = n - 1)
  <2>1. \A m : ~Has(code'[WriterOf(c)], <<"write", W(Supply(c)), m>>)
    BY <1>18, <1>20 DEF Has
  <2> QED BY <1>6, <1>12, <1>17, <1>19, <2>1
<1>22. \A e \in Kids : e # c => ThreadOf(e) # x /\ code'[ThreadOf(e)] = code[ThreadOf(e)]
  <2>1. \A e \in Kids : e # c => ThreadOf(e) # x
    BY <1>5, <1>6, <1>7, KidsAre, Partners
  <2> QED BY <1>12, <1>20, <2>1
<1>23. \A e \in Kids : e # c => \A m \in Nat : PendingWrite(e, m)' <=> PendingWrite(e, m)
  BY <1>19, <1>20, <1>22 DEF PendingWrite
<1>24. \A e : Forking(e)' <=> Forking(e)
  <2>1. \A e, y : y \in Threads => (Forks(code'[y], e) <=> Forks(code[y], e))
    BY <1>2, <1>12, <1>16
  <2>2. \A e : Forking(e)' <=> \E y \in Threads : Forks(code'[y], e)
    BY DEF Forking
  <2> QED BY <2>1, <2>2 DEF Forking
<1>25. Childhood'
  <2>1. \A e \in Children : code'[e] = code[e] /\ fds'[e] = fds[e]
    BY <1>1, <1>12
  <2>2. cloexec \subseteq cloexec'
    BY <1>1
  <2> QED BY <1>0, <1>1, <1>24, <2>1, <2>2, ChildhoodSame
<1>26. \A e : WillClose(e) => WillClose(e)'
  <2>1. \A e, y : y \in Threads \cup Writers => (ClosesSoon(code[y], e) => ClosesSoon(code'[y], e))
    BY <1>2, <1>12, <1>16
  <2>2. \A e : WillClose(e)' <=> \E y \in Threads \cup Writers : ClosesSoon(code'[y], e)
    BY DEF WillClose
  <2> QED BY <2>1, <2>2 DEF WillClose
<1>27. Parenthood'
  <2>1. \A y \in Threads :
               \/ code'[y] = code[y]
               \/ Rest(code[y], code'[y]) /\ code[y][1][1] \notin {"close", "pipe", "pipe2"}
               \/ Recount(code[y], code'[y])
    <3>1. n = 1 \/ n > 1
      BY <1>4
    <3>2. (Rest(s, t) /\ s[1][1] \notin {"close", "pipe", "pipe2"}) \/ Recount(s, t)
      BY <1>4, <1>11, <3>1
    <3> QED BY <1>2, <1>12, <3>2
  <2> QED BY <1>0, <1>1, <1>26, <2>1, ParenthoodKept
<1>28. Waiting'
  <2>1. \A e \in reaped : code'[e] = <<>> /\ (Forking(e)' => Forking(e))
    BY <1>0, <1>7, <1>12, <1>24 DEF Waiting, Types
  <2>2. \A e, y : y \in Threads /\ Has(code[y], <<"waitpid", e>>) => Has(code'[y], <<"waitpid", e>>)
    BY <1>2, <1>12, <1>16
  <2> QED BY <1>0, <1>1, <2>1, <2>2, WaitingStep
<1>29. Supplying'
  <2>1. \A e \in Kids : Makes(code[ThreadOf(e)], e) => Makes(code'[ThreadOf(e)], e)
    BY <1>2, <1>6, <1>12, <1>16, <1>22
  <2>2. \A e \in Kids : Sends(code'[ThreadOf(e)]) => Sends(code[ThreadOf(e)])
    BY <1>2, <1>6, <1>18, <1>22
  <2>3. \A e \in Kids : \A m \in Nat : PendingWrite(e, m)' => \E k \in Nat : PendingWrite(e, k)
    BY <1>4, <1>18, <1>23
  <2> QED BY <1>0, <1>1, <1>20, <2>1, <2>2, <2>3, SupplyingStep
<1>30. Flow'
  <2>1. \A e \in Kids : Done(e)' <=> Done(e)
    BY <1>7, <1>12, <1>24 DEF Done
  <2>2. \A e \in Kids : Reads(code'[ThreadOf(e)]) <=> Reads(code[ThreadOf(e)])
    BY <1>2, <1>6, <1>12, <1>16, <1>22
  <2> QED BY <1>1, <1>4, <1>5, <1>6, <1>10, <1>18, <1>21, <1>23, <2>1, <2>2, UnitFlow
<1> QED BY <1>13, <1>14, <1>25, <1>27, <1>28, <1>29, <1>30 DEF PInv

LEMMA WriterWriteInv ==
    ASSUME PInv, NEW w \in Writers, Write(w)
    PROVE  PInv'
<1>0. Types /\ Text /\ Childhood /\ Parenthood /\ Waiting /\ Supplying /\ Flow
  BY DEF PInv
<1>1. /\ code[w] # <<>> /\ ~died /\ run' = run
      /\ UNCHANGED <<fds, cloexec, owed, took, got, died, gaveUp, quit, reaped>>
  BY Partners DEF Write, At
<1>2. PICK c, d : c = Of(w) /\ d = W(Supply(c))
  OBVIOUS
<1>3. /\ run.main = "mr" /\ Filters /\ c \in Kids /\ WriterOf(c) = w
      /\ ThreadOf(c) \in Threads /\ c \in Children
  BY <1>0, <1>1, <1>2, OwnWriter
<1>4. PICK n \in 1 .. Input : code[w] = <<<<"write", d, n>>, <<"close", d>>>>
  <2>1. Head(code[w])[1] = "write"
    BY DEF Write, At
  <2>2. ASSUME code[w] = <<<<"close", d>>>> PROVE FALSE
    BY <2>1, <2>2
  <2> QED BY <1>0, <1>1, <1>2, <2>2, OwnWriter
<1>5. /\ Len(code[w]) = 2 /\ code[w][1] = <<"write", d, n>> /\ code[w][2] = <<"close", d>>
      /\ Head(code[w]) = <<"write", d, n>> /\ Tail(code[w]) = <<<<"close", d>>>>
  BY <1>4
<1>6. d \in Ends /\ ObjectOf(d) = Supply(c) /\ Supply(c) \in Objects /\ Supply(c) \notin Files
  BY <1>2, <1>3, EndsOf, PipesAreObjects
<1>7. n \in Nat \ {0} /\ (n > 1 => n - 1 \in 1 .. Input)
  BY SizesAssumption
<1>8. PICK t : t = IF n = 1 THEN <<<<"close", d>>>> ELSE <<<<"write", d, n - 1>>, <<"close", d>>>>
  OBVIOUS
<1>9. /\ content[Supply(c)] < Capacity
      /\ content' = [content EXCEPT ![Supply(c)] = content[Supply(c)] + 1]
      /\ code' = [code EXCEPT ![w] = t]
  <2>1. Call(w) = <<"write", d, n>>
    BY <1>5 DEF Call
  <2>2. Call(w)[2] = d /\ Call(w)[3] = n
    BY <2>1
  <2>3. code' = [code EXCEPT ![w] = IF n = 1 THEN Tail(code[w]) ELSE <<<<"write", d, n - 1>>>> \o Tail(code[w])]
    BY <2>2 DEF Write
  <2>4. <<<<"write", d, n - 1>>>> \o <<<<"close", d>>>> = <<<<"write", d, n - 1>>, <<"close", d>>>>
    BY Spell1_1
  <2>5. code' = [code EXCEPT ![w] = t]
    BY <1>5, <1>8, <2>3, <2>4
  <2> QED BY <1>6, <2>2, <2>5 DEF Write
<1>10. t \in Seq(WriterCalls)
  <2>1. <<"close", d>> \in WriterCalls
    BY <1>6 DEF WriterCalls
  <2>2. CASE n = 1
    BY <1>8, <2>1, <2>2
  <2>3. CASE n # 1
    <3>1. n - 1 \in Nat \ {0}
      BY <1>7, <2>3
    <3>2. <<"write", d, n - 1>> \in WriterCalls
      BY <1>6, <3>1 DEF WriterCalls
    <3> QED BY <1>8, <2>1, <2>3, <3>2
  <2> QED BY <2>2, <2>3
<1>11. /\ code' \in [Threads \cup Writers \cup Children -> Seq(ParentCalls \cup ChildCalls)]
       /\ \A y \in Threads : code'[y] \in Seq(ParentCalls) /\ code'[y] = code[y]
       /\ \A e \in Children : code'[e] \in Seq(ChildCalls) /\ code'[e] = code[e]
       /\ \A v \in Writers : v # w => code'[v] = code[v]
       /\ code'[w] = t
  BY <1>0, <1>9, <1>10, WriterTypes
<1>12. run \in Runs /\ Kids \subseteq Children
  BY <1>0, KidsAre DEF Types
<1>13. Types'
  <2>1. content[Supply(c)] \in Nat /\ content[Supply(c)] + 1 \in Nat /\ content[Supply(c)] + 1 =< Capacity
    BY <1>0, <1>6, <1>9, SizesAssumption DEF Types
  <2>2. content' \in [Objects -> Nat] /\ \A p \in Objects \ Files : content'[p] =< Capacity
    BY <1>0, <1>6, <1>9, <2>1, ContentTypes
  <2> QED BY <1>0, <1>1, <1>11, <2>2, Steady DEF Types
<1>14. Text'
  <2>1. WriterList(w, t)
    BY <1>2, <1>3, <1>7, <1>8 DEF WriterList
  <2> QED BY <1>0, <1>1, <1>11, <2>1, TextStep
<1>15. \A e : Forking(e)' <=> Forking(e)
  BY <1>11 DEF Forking
<1>16. Childhood'
  <2>1. \A e \in Children : code'[e] = code[e] /\ fds'[e] = fds[e]
    BY <1>1, <1>11
  <2>2. cloexec \subseteq cloexec'
    BY <1>1
  <2> QED BY <1>0, <1>1, <1>15, <2>1, <2>2, ChildhoodSame
<1>17. \A e : WillClose(e) => WillClose(e)'
  <2>1. \A e : ClosesSoon(code[w], e) => e = d
    <3>1. \A i \in 1 .. 2 : code[w][i][1] # "thread" /\ \A e : code[w][i] = <<"close", e>> => e = d
      BY <1>5
    <3> QED BY <1>5, <3>1 DEF ClosesSoon, Closes, Has
  <2>2. ClosesSoon(t, d)
    <3>1. t[Len(t)] = <<"close", d>> /\ Len(t) \in 1 .. Len(t)
      BY <1>8
    <3> QED BY <3>1 DEF ClosesSoon, Closes, Has
  <2>3. \A e, y : y \in Threads \cup Writers => (ClosesSoon(code[y], e) => ClosesSoon(code'[y], e))
    BY <1>11, <2>1, <2>2
  <2>4. \A e : WillClose(e)' <=> \E y \in Threads \cup Writers : ClosesSoon(code'[y], e)
    BY DEF WillClose
  <2> QED BY <2>3, <2>4 DEF WillClose
<1>18. Parenthood'
  BY <1>0, <1>1, <1>11, <1>17, ParenthoodKept
<1>19. Waiting'
  <2>1. \A e \in reaped : code'[e] = <<>> /\ (Forking(e)' => Forking(e))
    BY <1>0, <1>11, <1>12, <1>15 DEF Waiting, Types
  <2> QED BY <1>0, <1>1, <1>11, <2>1, WaitingStep
<1>20. ~Sends(code[ThreadOf(c)])
  BY <1>0, <1>1, <1>3 DEF Supplying
<1>21. PendingWrite(c, n)
  BY <1>2, <1>3, <1>5 DEF PendingWrite, Has
<1>22. \A e, m : PendingWrite(e, m)' <=>
            Writes(code'[ThreadOf(e)], e, m) \/ Has(code'[WriterOf(e)], <<"write", W(Supply(e)), m>>)
  BY DEF PendingWrite
<1>23. \A e : code'[ThreadOf(e)] = code[ThreadOf(e)]
  BY <1>11, Partners
<1>24. \A m \in Nat : PendingWrite(c, m)' <=> (n > 1 /\ m = n - 1)
  <2>1. \A m : ~Writes(code[ThreadOf(c)], c, m)
    BY <1>20 DEF Writes, Sends, Has
  <2>2. \A m \in Nat : Has(t, <<"write", d, m>>) <=> (n > 1 /\ m = n - 1)
    <3>1. CASE n = 1
      BY <1>8, <3>1 DEF Has
    <3>2. CASE n > 1
      <4>1. Len(t) = 2 /\ t[1] = <<"write", d, n - 1>> /\ t[2] = <<"close", d>>
        BY <1>8, <3>2
      <4>2. \A i \in 1 .. Len(t) : i = 1 \/ i = 2
        BY <4>1
      <4>3. 1 \in 1 .. Len(t)
        BY <4>1
      <4> QED BY <3>2, <4>1, <4>2, <4>3 DEF Has
    <3> QED BY <1>7, <3>1, <3>2
  <2> QED BY <1>2, <1>3, <1>11, <1>22, <1>23, <2>1, <2>2
<1>25. \A e \in Kids : e # c => \A m \in Nat : PendingWrite(e, m)' <=> PendingWrite(e, m)
  <2>1. \A e \in Kids : e # c => WriterOf(e) # w /\ WriterOf(e) \in Writers
    BY <1>3, <1>12, KidsAre, Partners
  <2> QED BY <1>11, <1>22, <1>23, <2>1 DEF PendingWrite
<1>26. Supplying'
  <2>1. \A e \in Kids : Sends(code[ThreadOf(e)]) => code'[WriterOf(e)] = code[WriterOf(e)]
    <3>1. \A e \in Kids : e # c => WriterOf(e) # w /\ WriterOf(e) \in Writers
      BY <1>3, <1>12, KidsAre, Partners
    <3> QED BY <1>11, <1>20, <3>1
  <2>2. \A e \in Kids : \A m \in Nat : PendingWrite(e, m)' => \E k \in Nat : PendingWrite(e, k)
    BY <1>7, <1>21, <1>25
  <2> QED BY <1>0, <1>1, <1>23, <2>1, <2>2, SupplyingStep
<1>27. Flow'
  <2>1. \A e \in Kids : Done(e)' <=> Done(e)
    BY <1>11, <1>12, <1>15 DEF Done
  <2> QED BY <1>1, <1>3, <1>7, <1>9, <1>21, <1>23, <1>24, <1>25, <2>1, UnitFlow
<1> QED BY <1>13, <1>14, <1>16, <1>18, <1>19, <1>26, <1>27 DEF PInv

\* A child that runs keeps its output open.
LEMMA Holds ==
    ASSUME Childhood, NEW c \in Children, code[c] # <<>>
    PROVE  Sink(c) \in Pipes => Open(W(Sink(c)))
<1>1. SUFFICES ASSUME Sink(c) \in Pipes PROVE Open(W(Sink(c)))
  OBVIOUS
<1>2. PICK s, f, o : s = code[c] /\ f = fds[c] /\ o = W(Sink(c))
  OBVIOUS
<1>3. Fitted(c, s, f, cloexec)
  BY <1>2 DEF Childhood
<1>4. c \in Processes
  BY DEF Processes
<1>5. CASE f[StdOut] = o
  <2>1. StdOut \in DOMAIN f
    BY <1>3 DEF Fitted, Std
  <2> QED BY <1>2, <1>4, <1>5, <2>1 DEF Open
<1>6. CASE Has(s, <<"dup2", o, StdOut>>)
  <2>1. PICK i \in 1 .. Len(s) : s[i] = <<"dup2", o, StdOut>>
    BY <1>6 DEF Has
  <2>2. s[i][1] = "dup2" /\ s[i][2] = o
    BY <2>1
  <2>3. Tidy(c, s)
    BY <1>3 DEF Fitted
  <2>4. o \notin Std
    BY <2>2, <2>3 DEF Tidy
  <2>5. ASSUME NEW j \in 1 .. Len(s), s[j] = <<"open", o>> PROVE FALSE
    <3>1. s[j][1] = "open" /\ s[j][2] = o
      BY <2>5
    <3>2. ObjectOf(o) \in Files
      BY <2>3, <3>1 DEF Tidy
    <3> QED BY <1>1, <1>2, <3>2, EndsOf, PipesAreObjects
  <2>6. o \in DOMAIN f
    BY <1>3, <2>2, <2>5 DEF Fitted
  <2>7. f[o] = o
    BY <1>3, <2>4, <2>6 DEF Fitted
  <2> QED BY <1>2, <1>4, <2>6, <2>7 DEF Open
<1> QED BY <1>2, <1>3, <1>5, <1>6 DEF Fitted

\* A thread that does not fork c, and no other thread does.
LEMMA NotForking ==
    ASSUME Text, NEW x \in Threads, code[x] # <<>>, NEW c, ~Forks(code[x], c), Filters => c = Of(x)
    PROVE  ~Forking(c)
<1>1. SUFFICES ASSUME NEW y \in Threads, Forks(code[y], c) PROVE FALSE
  BY DEF Forking
<1>2. PICK i \in 1 .. Len(code[y]) : code[y][i][1] = "fork" /\ code[y][i][2] = c
  BY <1>1 DEF Forks
<1>3. y # x
  BY <1>1
<1>4. code[y] # <<>>
  BY <1>2
<1>5. Filters /\ Of(x) # Of(y) /\ Serves(Of(y), code[y])
  BY <1>3, <1>4, Apart
<1>6. c = Of(y)
  BY <1>2, <1>5 DEF Serves
<1> QED BY <1>5, <1>6

\* Thread x goes on; its call changes neither tables nor lists.
LEMMA QuietAdvance ==
    ASSUME PInv, NEW x \in Threads, code[x] # <<>>, ~died,
           code[x][1][1] \in {"read", "join", "waitpid"},
           code' = [code EXCEPT ![x] = Tail(code[x])],
           run' = run, UNCHANGED <<fds, cloexec, died, gaveUp>>
    PROVE  /\ code' \in [Threads \cup Writers \cup Children -> Seq(ParentCalls \cup ChildCalls)]
           /\ \A y \in Threads : code'[y] \in Seq(ParentCalls)
           /\ \A c \in Children : code'[c] \in Seq(ChildCalls) /\ code'[c] = code[c]
           /\ \A y \in Threads \cup Writers : y # x => code'[y] = code[y]
           /\ Rest(code[x], code'[x])
           /\ \A c : Forking(c)' <=> Forking(c)
           /\ \A c, n : PendingWrite(c, n)' <=> PendingWrite(c, n)
           /\ \A c : code[x][1][1] # "read" => (Reads(code'[ThreadOf(c)]) <=> Reads(code[ThreadOf(c)]))
           /\ Text' /\ Childhood' /\ Parenthood' /\ Supplying'
<1>0. Types /\ Text /\ Childhood /\ Parenthood /\ Supplying
  BY DEF PInv
<1>1. PICK k : k = code[x][1][1]
  OBVIOUS
<1>2. \A d, c : /\ code[x][1] # <<"close", d>>
                /\ code[x][1] \notin {<<"pipe", Supply(c)>>, <<"pipe2", Supply(c)>>}
  OBVIOUS
<1>3. /\ code' \in [Threads \cup Writers \cup Children -> Seq(ParentCalls \cup ChildCalls)]
      /\ \A y \in Threads : code'[y] \in Seq(ParentCalls)
      /\ \A c \in Children : code'[c] \in Seq(ChildCalls) /\ code'[c] = code[c]
      /\ \A y \in Threads \cup Writers : y # x => code'[y] = code[y]
      /\ Rest(code[x], code'[x]) /\ Text'
  BY <1>0, Advance
<1>4. \A c : Forking(c)' <=> Forking(c)
  BY <1>3, Moved
<1>5. Childhood'
  <2>1. \A c \in Children : code'[c] = code[c] /\ fds'[c] = fds[c]
    BY <1>3
  <2>2. cloexec \subseteq cloexec'
    OBVIOUS
  <2> QED BY <1>0, <1>4, <2>1, <2>2, ChildhoodSame
<1>6. /\ \A c, n : PendingWrite(c, n)' <=> PendingWrite(c, n)
      /\ \A c : Sends(code'[ThreadOf(c)]) => Sends(code[ThreadOf(c)])
      /\ \A c : code'[WriterOf(c)] = code[WriterOf(c)]
      /\ \A c : Makes(code[ThreadOf(c)], c) => Makes(code'[ThreadOf(c)], c)
      /\ \A c : code[x][1][1] # "read" => (Reads(code'[ThreadOf(c)]) <=> Reads(code[ThreadOf(c)]))
      /\ \A d : WillClose(d) => WillClose(d)'
  BY <1>2, <1>3, MovedSupply
<1>7. Parenthood'
  <2>1. \A y \in Threads :
            \/ code'[y] = code[y]
            \/ Rest(code[y], code'[y]) /\ code[y][1][1] \notin {"close", "pipe", "pipe2"}
    BY <1>3
  <2> QED BY <1>0, <1>6, <2>1, ParenthoodKept
<1>8. Supplying'
  BY <1>0, <1>6, SupplyingStep
<1> QED BY <1>3, <1>4, <1>5, <1>6, <1>7, <1>8

LEMMA WaitpidInv ==
    ASSUME PInv, NEW x \in Threads, Waitpid(x)
    PROVE  PInv'
<1>0. Types /\ Text /\ Waiting /\ Flow
  BY DEF PInv
<1>1. /\ code[x] # <<>> /\ ~died /\ run' = run
      /\ UNCHANGED <<fds, cloexec, content, owed, took, got, died, gaveUp, quit>>
  BY Partners DEF Waitpid, At
<1>2. PICK s, c : s = code[x] /\ c = code[x][1][2]
  OBVIOUS
<1>3. Orderly(x, s) /\ Head(s) = s[1] /\ s[1] \in ParentCalls /\ 1 \in 1 .. Len(s)
  BY <1>0, <1>1, <1>2, Left
<1>4. s[1] = <<"waitpid", c>> /\ s[1][1] = "waitpid" /\ s[1][2] = c
  <2>1. s[1][1] = "waitpid"
    BY <1>2, <1>3 DEF Waitpid, At
  <2> QED BY <1>2, <1>3, <2>1, ParentShapes
<1>5. /\ code' = [code EXCEPT ![x] = Tail(code[x])] /\ code[c] = <<>> /\ reaped' = reaped \cup {c}
  <2>1. Call(x)[2] = c
    BY <1>2, <1>3 DEF Call
  <2> QED BY <2>1 DEF Waitpid, Continue, Exited
<1>6. /\ code' \in [Threads \cup Writers \cup Children -> Seq(ParentCalls \cup ChildCalls)]
      /\ \A y \in Threads : code'[y] \in Seq(ParentCalls)
      /\ \A e \in Children : code'[e] \in Seq(ChildCalls) /\ code'[e] = code[e]
      /\ \A y \in Threads \cup Writers : y # x => code'[y] = code[y]
      /\ Rest(code[x], code'[x])
      /\ \A e : Forking(e)' <=> Forking(e)
      /\ \A e, n : PendingWrite(e, n)' <=> PendingWrite(e, n)
      /\ \A e : Reads(code'[ThreadOf(e)]) <=> Reads(code[ThreadOf(e)])
      /\ Text' /\ Childhood' /\ Parenthood' /\ Supplying'
  <2>1. code[x][1][1] \in {"read", "join", "waitpid"} /\ code[x][1][1] # "read"
    BY <1>2, <1>4
  <2> QED BY <1>1, <1>5, <2>1, QuietAdvance
<1>7. run \in Runs /\ Kids \subseteq Children
  BY <1>0, KidsAre DEF Types
<1>8. c \in Kids
  BY <1>3, <1>4 DEF Orderly, ForksOnce
<1>9. Types'
  BY <1>0, <1>1, <1>5, <1>6, <1>8, Steady DEF Types
<1>10. ~Forking(c)
  <2>1. ~Forks(s, c)
    BY <1>3, <1>4 DEF Orderly, ForksOnce, Forks
  <2>2. Filters => c = Of(x)
    BY <1>3, <1>4 DEF Orderly, Serves
  <2> QED BY <1>0, <1>1, <1>2, <2>1, <2>2, NotForking
<1>11. Waiting'
  <2>1. \A e \in reaped' : code'[e] = <<>> /\ ~Forking(e)'
    <3>1. \A e \in reaped' : e \in Children /\ code[e] = <<>> /\ ~Forking(e)
      BY <1>0, <1>5, <1>7, <1>8, <1>10 DEF Waiting, Types
    <3> QED BY <1>6, <3>1
  <2>2. ASSUME ~gaveUp, NEW e \in Kids \ reaped' PROVE \E y \in Threads : Has(code'[y], <<"waitpid", e>>)
    <3>1. \E y \in Threads : Has(code[y], <<"waitpid", e>>)
      BY <1>0, <1>5, <2>2 DEF Waiting
    <3>2. code[x][1] # <<"waitpid", e>>
      BY <1>2, <1>4, <1>5, <2>2
    <3>3. \A y \in Threads : y # x => code'[y] = code[y]
      BY <1>6
    <3> QED BY <1>6, <3>1, <3>2, <3>3, Moved
  <2> QED BY <1>1, <2>1, <2>2, Steady DEF Waiting
<1>12. Flow'
  <2>1. \A e \in Kids : Done(e)' <=> Done(e)
    BY <1>6, <1>7 DEF Done
  <2>2. Good' => Good
    BY <1>1 DEF Good
  <2> QED BY <1>0, <1>1, <1>6, <1>7, <2>1, <2>2, FlowStep
<1> QED BY <1>6, <1>9, <1>11, <1>12 DEF PInv

LEMMA ReadInv ==
    ASSUME PInv, NEW x \in Threads, Read(x)
    PROVE  PInv'
<1>0. Types /\ Text /\ Childhood /\ Parenthood /\ Waiting /\ Supplying /\ Flow
  BY DEF PInv
<1>1. /\ code[x] # <<>> /\ ~died /\ run' = run
      /\ UNCHANGED <<fds, cloexec, owed, took, died, gaveUp, quit, reaped>>
  BY Partners DEF Read, At
<1>2. PICK s, c : s = code[x] /\ c = Of(x)
  OBVIOUS
<1>3. Orderly(x, s) /\ Head(s) = s[1] /\ s[1] \in ParentCalls /\ 1 \in 1 .. Len(s)
  BY <1>0, <1>1, <1>2, Left
<1>4. s[1][1] = "read"
  BY <1>2, <1>3 DEF Read, At
<1>5. Filters
  BY <1>3, <1>4 DEF Orderly, Connects
<1>6. c \in Kids /\ ThreadOf(c) = x /\ WriterOf(c) \in Writers /\ Serves(c, s)
  BY <1>0, <1>1, <1>2, <1>5, OwnChild
<1>7. run \in Runs /\ Kids \subseteq Children /\ \A e \in Kids : e # c => ThreadOf(e) # x
  <2>1. run \in Runs
    BY <1>0 DEF Types
  <2>2. Kids \subseteq Children /\ Kids \subseteq {"c1", "c2"}
    BY <1>5, <2>1, KidsAre
  <2>3. \A e \in Kids : e = Of(ThreadOf(e))
    BY <2>2, Partners
  <2> QED BY <1>2, <2>1, <2>2, <2>3
<1>8. c \in Children /\ Ingest(c) \in Objects /\ Ingest(c) \in Pipes /\ Ingest(c) \notin Files
      /\ ObjectOf(Call(x)[2]) = Ingest(c)
  <2>1. Call(x)[2] = R(Ingest(c))
    BY <1>2, <1>3, <1>4, <1>6 DEF Serves, Call
  <2> QED BY <1>6, <1>7, <2>1, EndsOf, PipesAreObjects
<1>9. Reads(s)
  BY <1>3, <1>4 DEF Reads
<1>10. CASE /\ content[Ingest(c)] > 0
            /\ content' = [content EXCEPT ![Ingest(c)] = content[Ingest(c)] - 1]
            /\ got' = [got EXCEPT ![x] = got[x] + 1]
            /\ UNCHANGED code
  <2>1. Types'
    <3>1. content[Ingest(c)] \in Nat /\ content[Ingest(c)] - 1 \in Nat /\ content[Ingest(c)] - 1 =< Capacity
      BY <1>0, <1>8, <1>10, SizesAssumption DEF Types
    <3>2. content' \in [Objects -> Nat] /\ \A p \in Objects \ Files : content'[p] =< Capacity
      BY <1>0, <1>8, <1>10, <3>1, ContentTypes
    <3>3. got' \in [Threads -> Nat]
      BY <1>0, <1>10 DEF Types
    <3> QED BY <1>0, <1>1, <1>10, <3>2, <3>3, Steady DEF Types
  <2>2. Text'
    BY <1>0, <1>1, <1>10, TextStep
  <2>3. \A e : Forking(e)' <=> Forking(e)
    BY <1>10 DEF Forking
  <2>4. Childhood'
    <3>1. \A e \in Children : code'[e] = code[e] /\ fds'[e] = fds[e]
      BY <1>1, <1>10
    <3>2. cloexec \subseteq cloexec'
      BY <1>1
    <3> QED BY <1>0, <1>1, <2>3, <3>1, <3>2, ChildhoodSame
  <2>5. Parenthood' /\ Waiting' /\ Supplying'
    <3>1. \A d : WillClose(d)' <=> WillClose(d)
      BY <1>10 DEF WillClose
    <3>2. \A e, n : PendingWrite(e, n)' <=> PendingWrite(e, n)
      BY <1>10 DEF PendingWrite
    <3>3. Parenthood'
      BY <1>0, <1>1, <1>10, <3>1, ParenthoodKept
    <3>4. Waiting'
      BY <1>0, <1>1, <1>10, <2>3, Steady DEF Waiting
    <3>5. Supplying'
      BY <1>0, <1>1, <1>10, <3>2, Steady DEF Supplying
    <3> QED BY <3>3, <3>4, <3>5
  <2>6. Flow'
    <3>1. SUFFICES ASSUME Good', NEW e \in Kids PROVE FilterFlow(e)'
      BY <1>1, <1>5, Steady DEF Flow
    <3>2. Good
      BY <1>1, <3>1 DEF Good
    <3>3. FilterFlow(e)
      BY <1>0, <1>5, <3>2 DEF Flow
    <3>4. /\ \A n : PendingWrite(e, n)' <=> PendingWrite(e, n)
          /\ Done(e)' <=> Done(e)
      BY <1>10, <2>3 DEF PendingWrite, Done
    <3>5. content'[Supply(e)] = content[Supply(e)] /\ e \in Children
      BY <1>0, <1>7, <1>8, <1>10, PipesAreObjects DEF Types
    <3>6. CASE e # c
      <4>1. content'[Ingest(e)] = content[Ingest(e)]
        BY <1>0, <1>7, <1>8, <1>10, <3>6, PipesAreObjects DEF Types
      <4>2. got'[ThreadOf(e)] = got[ThreadOf(e)]
        BY <1>0, <1>7, <1>10, <3>6, Partners DEF Types
      <4> QED BY <1>1, <1>10, <3>3, <3>4, <3>5, <4>1, <4>2 DEF FilterFlow
    <3>7. CASE e = c
      <4>1. content'[Ingest(c)] = content[Ingest(c)] - 1 /\ content[Ingest(c)] \in Nat
        BY <1>0, <1>8, <1>10 DEF Types
      <4>2. got'[x] = got[x] + 1 /\ got[x] \in Nat
        BY <1>0, <1>10 DEF Types
      <4>3. owed[c] \in Nat
        BY <1>0, <1>8 DEF Types
      <4>4. took[c] * Expansion = owed[c] + content[Ingest(c)] + got[x]
        BY <1>6, <3>3, <3>7 DEF FilterFlow
      <4>5. took[c] * Expansion = owed[c] + content'[Ingest(c)] + got'[x]
        BY <4>1, <4>2, <4>3, <4>4
      <4>6. Reads(code'[ThreadOf(c)])
        BY <1>2, <1>6, <1>9, <1>10
      <4> QED BY <1>1, <1>6, <3>3, <3>4, <3>5, <3>7, <4>5, <4>6 DEF FilterFlow
    <3> QED BY <3>6, <3>7
  <2> QED BY <2>1, <2>2, <2>4, <2>5, <2>6 DEF PInv
<1>11. CASE AtEnd(Ingest(c)) /\ Continue(x) /\ UNCHANGED <<content, got>>
  <2>1. code' = [code EXCEPT ![x] = Tail(code[x])]
    BY <1>11 DEF Continue
  <2>2. content[Ingest(c)] = 0 /\ ~Open(W(Ingest(c)))
    BY <1>8, <1>11 DEF AtEnd
  <2>3. Done(c)
    <3>1. ~Forks(s, c)
      BY <1>3, <1>4, <1>6 DEF Serves, Forks
    <3>2. ~Forking(c)
      BY <1>0, <1>1, <1>2, <3>1, NotForking
    <3>3. Sink(c) = Ingest(c)
      BY <1>5 DEF Sink
    <3>4. code[c] = <<>>
      BY <1>0, <1>8, <2>2, <3>3, Holds
    <3> QED BY <3>2, <3>4 DEF Done
  <2>4. /\ code' \in [Threads \cup Writers \cup Children -> Seq(ParentCalls \cup ChildCalls)]
        /\ \A y \in Threads : code'[y] \in Seq(ParentCalls)
        /\ \A e \in Children : code'[e] \in Seq(ChildCalls) /\ code'[e] = code[e]
        /\ \A y \in Threads \cup Writers : y # x => code'[y] = code[y]
        /\ Rest(code[x], code'[x])
        /\ \A e : Forking(e)' <=> Forking(e)
        /\ \A e, n : PendingWrite(e, n)' <=> PendingWrite(e, n)
        /\ Text' /\ Childhood' /\ Parenthood' /\ Supplying'
    <3>1. code[x][1][1] \in {"read", "join", "waitpid"}
      BY <1>2, <1>4
    <3> QED BY <1>1, <2>1, <3>1, QuietAdvance
  <2>5. Types'
    BY <1>0, <1>1, <1>11, <2>4, Steady DEF Types
  <2>6. Waiting'
    <3>1. code[x][1][1] # "waitpid" /\ \A e \in reaped : code'[e] = code[e]
      BY <1>0, <1>2, <1>4, <1>7, <2>4 DEF Types
    <3>2. \A y \in Threads : y # x => code'[y] = code[y]
      BY <2>4
    <3> QED BY <1>1, <2>4, <3>1, <3>2, AdvanceWaiting
  <2>7. Flow'
    <3>1. \A e \in Kids : Done(e)' <=> Done(e)
      BY <1>7, <2>4 DEF Done
    <3>2. Good' => Good
      BY <1>1 DEF Good
    <3>3. \A e \in Kids : Reads(code[ThreadOf(e)]) =>
              Reads(code'[ThreadOf(e)]) \/ (Done(e) /\ content[Ingest(e)] = 0)
      <4>1. \A e \in Kids : e # c => code'[ThreadOf(e)] = code[ThreadOf(e)]
        BY <1>7, <2>4, Partners
      <4> QED BY <2>2, <2>3, <4>1
    <3> QED BY <1>0, <1>1, <1>7, <1>11, <2>4, <3>1, <3>2, <3>3, FlowStep
  <2> QED BY <2>4, <2>5, <2>6, <2>7 DEF PInv
<1>12. \/ /\ content[Ingest(c)] > 0
          /\ content' = [content EXCEPT ![Ingest(c)] = content[Ingest(c)] - 1]
          /\ got' = [got EXCEPT ![x] = got[x] + 1]
          /\ UNCHANGED code
       \/ AtEnd(Ingest(c)) /\ Continue(x) /\ UNCHANGED <<content, got>>
  BY <1>8 DEF Read
<1> QED BY <1>10, <1>11, <1>12

\* The writer of child c is started.
LEMMA ThreadInv ==
    ASSUME PInv, NEW x \in Threads, WriterThread(x), At(x, "thread"),
           code' = [code EXCEPT ![x] = Tail(@), ![Call(x)[2]] = Call(x)[3]]
    PROVE  PInv'
<1>0. Types /\ Text /\ Childhood /\ Parenthood /\ Waiting /\ Supplying /\ Flow
  BY DEF PInv
<1>1. /\ code[x] # <<>> /\ ~died /\ run' = run
      /\ UNCHANGED <<fds, cloexec, content, owed, took, got, died, gaveUp, quit, reaped>>
  BY Partners DEF WriterThread, At
<1>2. PICK s, t, c, w : s = code[x] /\ t = Tail(code[x]) /\ c = Of(x) /\ w = WriterOf(c)
  OBVIOUS
<1>3. /\ Orderly(x, s) /\ Head(s) = s[1] /\ s[1] \in ParentCalls /\ 1 \in 1 .. Len(s)
      /\ Rest(s, t) /\ Orderly(x, t) /\ t \in Seq(ParentCalls) /\ t \in Seq(ParentCalls \cup ChildCalls)
  BY <1>0, <1>1, <1>2, Left
<1>4. s[1][1] = "thread"
  BY <1>2, <1>3 DEF At
<1>5. Filters
  BY <1>3, <1>4 DEF Orderly, Connects
<1>6. c \in Kids /\ ThreadOf(c) = x /\ w \in Writers /\ Serves(c, s)
  BY <1>0, <1>1, <1>2, <1>5, OwnChild
<1>7. /\ run \in Runs /\ Kids \subseteq Children
      /\ \A e \in Kids : e # c => ThreadOf(e) # x /\ WriterOf(e) # w
  <2>1. run \in Runs
    BY <1>0 DEF Types
  <2>2. Kids \subseteq Children /\ Kids \subseteq {"c1", "c2"}
    BY <1>5, <2>1, KidsAre
  <2>3. \A e \in Kids : e = Of(ThreadOf(e)) /\ e = Of(WriterOf(e))
    BY <2>2, Partners
  <2>4. c = Of(w)
    BY <1>2, <1>6, <2>3
  <2> QED BY <1>2, <2>1, <2>2, <2>3, <2>4
<1>8. /\ s[1][2] = w /\ s[1][3] = WriterText(c) /\ run.main = "mr"
  BY <1>2, <1>3, <1>4, <1>6 DEF Serves
<1>9. \A i \in 1 .. Len(s) : i > 1 => s[i][1] \notin {"write", "thread"}
  BY <1>3, <1>4, <1>6 DEF Serves
<1>10. Sends(s) /\ code[w] = <<>>
  <2>1. Sends(s)
    BY <1>3, <1>4 DEF Sends
  <2> QED BY <1>0, <1>1, <1>2, <1>5, <1>6, <2>1 DEF Supplying
<1>11. /\ Len(WriterText(c)) = 2 /\ WriterText(c)[1] = <<"write", W(Supply(c)), Input>>
       /\ WriterText(c)[2] = <<"close", W(Supply(c))>> /\ WriterText(c) # <<>>
  BY DEF WriterText
<1>12. /\ WriterText(c) \in Seq(ParentCalls \cup ChildCalls)
  <2>1. W(Supply(c)) \in Ends
    BY <1>6, <1>7, EndsOf, PipesAreObjects
  <2>2. <<"write", W(Supply(c)), Input>> \in ParentCalls /\ <<"close", W(Supply(c))>> \in ParentCalls
    BY <2>1, SizesAssumption DEF ParentCalls, WriterCalls
  <2> QED BY <2>2 DEF WriterText
<1>13. code' = [code EXCEPT ![x] = t, ![w] = WriterText(c)]
  <2>1. Call(x)[2] = w /\ Call(x)[3] = WriterText(c)
    BY <1>2, <1>3, <1>8 DEF Call
  <2> QED BY <1>2, <2>1
<1>14. /\ code' \in [Threads \cup Writers \cup Children -> Seq(ParentCalls \cup ChildCalls)]
       /\ \A y \in Threads : code'[y] \in Seq(ParentCalls)
       /\ \A e \in Children : code'[e] \in Seq(ChildCalls) /\ code'[e] = code[e]
       /\ \A y \in Threads \cup Writers : y # x /\ y # w => code'[y] = code[y]
       /\ code'[x] = t /\ code'[w] = WriterText(c)
  <2>1. /\ x \in Threads \cup Writers \cup Children /\ w \in Threads \cup Writers \cup Children
        /\ x # w /\ x \notin Children /\ w \notin Children /\ w \notin Threads
    BY <1>6, Partners
  <2>2. /\ code \in [Threads \cup Writers \cup Children -> Seq(ParentCalls \cup ChildCalls)]
        /\ \A y \in Threads : code[y] \in Seq(ParentCalls)
        /\ \A e \in Children : code[e] \in Seq(ChildCalls)
    BY <1>0 DEF Types
  <2>3. code' \in [Threads \cup Writers \cup Children -> Seq(ParentCalls \cup ChildCalls)]
    BY <1>3, <1>12, <1>13, <2>2
  <2>4. /\ \A y \in Threads \cup Writers \cup Children : y # x /\ y # w => code'[y] = code[y]
        /\ code'[x] = t /\ code'[w] = WriterText(c)
    BY <1>13, <2>1, <2>2
  <2>5. \A e \in Children : e # x /\ e # w
    BY <2>1
  <2>6. \A y \in Threads : y # w
    BY <2>1
  <2> QED BY <1>3, <2>2, <2>3, <2>4, <2>5, <2>6
<1>15. Types'
  BY <1>0, <1>1, <1>14, Steady DEF Types
<1>16. Text'
  <2>1. WriterList(w, WriterText(c))
    <3>1. Of(w) = c /\ Input \in 1 .. Input
      BY <1>2, <1>5, <1>6, <1>7, KidsAre, Partners, SizesAssumption
    <3> QED BY <1>8, <3>1 DEF WriterList, WriterText
  <2>2. \A y \in Threads : code'[y] = code[y] \/ Orderly(y, code'[y])
    <3>1. \A y \in Threads : y # w
      BY <1>6, Partners
    <3> QED BY <1>3, <1>14, <3>1
  <2>3. \A v \in Writers : code'[v] = code[v] \/ WriterList(v, code'[v])
    <3>1. \A v \in Writers : v # x
      BY Partners
    <3> QED BY <1>14, <2>1, <3>1
  <2> QED BY <1>0, <1>1, <2>2, <2>3, TextStep
<1>17. \A y \in Threads : y # x => code'[y] = code[y]
  <2>1. \A y \in Threads : y # w
    BY <1>6, Partners
  <2> QED BY <1>14, <2>1
<1>18. \A e : Forking(e)' <=> Forking(e)
  <2>1. Rest(code[x], code'[x]) /\ code[x][1][1] # "fork"
    BY <1>2, <1>3, <1>4, <1>14
  <2> QED BY <1>17, <2>1, Moved
<1>19. Childhood'
  <2>1. \A e \in Children : code'[e] = code[e] /\ fds'[e] = fds[e]
    BY <1>1, <1>14
  <2>2. cloexec \subseteq cloexec'
    BY <1>1
  <2> QED BY <1>0, <1>1, <1>18, <2>1, <2>2, ChildhoodSame
<1>20. \A d : WillClose(d) => WillClose(d)'
  <2>1. \A d : WillClose(d)' <=> \E y \in Threads \cup Writers : ClosesSoon(code'[y], d)
    BY DEF WillClose
  <2>2. ASSUME NEW d, ClosesSoon(s, d) PROVE ClosesSoon(t, d) \/ ClosesSoon(WriterText(c), d)
    <3>1. s[1] # <<"close", d>>
      BY <1>4
    <3>2. ClosesSoon(t, d) \/ Closes(s[1][3], d)
      BY <1>3, <2>2, <3>1, KindsRest
    <3>3. Closes(WriterText(c), d) => ClosesSoon(WriterText(c), d)
      BY DEF ClosesSoon
    <3> QED BY <1>8, <3>2, <3>3
  <2>3. \A d : ~ClosesSoon(code[w], d)
    BY <1>10 DEF ClosesSoon, Closes, Has
  <2>4. ASSUME NEW d, NEW y \in Threads \cup Writers, ClosesSoon(code[y], d)
        PROVE  \E z \in Threads \cup Writers : ClosesSoon(code'[z], d)
    <3>1. CASE y = x
      BY <1>2, <1>6, <1>14, <2>2, <2>4, <3>1, ZenonT(60)
    <3>2. CASE y # x
      BY <1>14, <2>3, <2>4, <3>2
    <3> QED BY <3>1, <3>2
  <2> QED BY <2>1, <2>4 DEF WillClose
<1>21. Parenthood'
  <2>1. \A y \in Threads :
            \/ code'[y] = code[y]
            \/ Rest(code[y], code'[y]) /\ code[y][1][1] \notin {"close", "pipe", "pipe2"}
    BY <1>2, <1>3, <1>4, <1>14, <1>17
  <2> QED BY <1>0, <1>1, <1>20, <2>1, ParenthoodKept
<1>22. Waiting'
  <2>1. code[x][1][1] # "waitpid" /\ Rest(code[x], code'[x])
    BY <1>2, <1>3, <1>4, <1>14
  <2>2. \A e \in reaped : code'[e] = code[e]
    BY <1>0, <1>7, <1>14 DEF Types
  <2> QED BY <1>1, <1>17, <2>1, <2>2, AdvanceWaiting
<1>23. ~Sends(t) /\ \A n : ~Writes(t, c, n)
  <2>1. \A i \in 1 .. Len(t) : i + 1 \in 1 .. Len(s) /\ i + 1 > 1 /\ t[i] = s[i + 1]
    BY <1>3 DEF Rest
  <2>2. \A i \in 1 .. Len(t) : t[i][1] \notin {"write", "thread"}
    BY <1>9, <2>1
  <2> QED BY <2>2 DEF Sends, Writes, Has
<1>24. \A e \in Kids : e # c => code'[ThreadOf(e)] = code[ThreadOf(e)] /\ code'[WriterOf(e)] = code[WriterOf(e)]
  <2>1. \A e : ThreadOf(e) \in Threads /\ WriterOf(e) \in Writers /\ WriterOf(e) # x
    BY Partners
  <2> QED BY <1>7, <1>14, <1>17, <2>1
<1>25. \A e \in Kids, n \in Nat : PendingWrite(e, n)' <=> PendingWrite(e, n)
  <2> SUFFICES ASSUME NEW e \in Kids, NEW n \in Nat PROVE PendingWrite(e, n)' <=> PendingWrite(e, n)
    OBVIOUS
  <2>1. PendingWrite(e, n)' <=>
            Writes(code'[ThreadOf(e)], e, n) \/ Has(code'[WriterOf(e)], <<"write", W(Supply(e)), n>>)
    BY DEF PendingWrite
  <2>2. CASE e # c
    BY <1>24, <2>1, <2>2 DEF PendingWrite
  <2>3. CASE e = c
    <3>1. PendingWrite(e, n)' <=> n = Input
      <4>1. Has(WriterText(c), <<"write", W(Supply(c)), n>>) <=> n = Input
        <5>1. \A i \in 1 .. 2 : i = 1 \/ i = 2
          OBVIOUS
        <5>2. 1 \in 1 .. 2
          OBVIOUS
        <5> QED BY <1>11, <5>1, <5>2 DEF Has
      <4>2. code'[ThreadOf(c)] = t /\ code'[WriterOf(c)] = WriterText(c)
        BY <1>2, <1>6, <1>14
      <4>3. ~Writes(t, c, n)
        BY <1>23
      <4> QED BY <2>1, <2>3, <4>1, <4>2, <4>3
    <3>2. PendingWrite(e, n) <=> n = Input
      <4>1. ~Has(code[w], <<"write", W(Supply(c)), n>>)
        BY <1>10 DEF Has
      <4>2. ~Has(s, <<"write", W(Supply(c)), n>>)
        <5>1. ASSUME NEW i \in 1 .. Len(s), s[i] = <<"write", W(Supply(c)), n>> PROVE FALSE
          <6>1. i = 1 \/ i > 1
            BY <1>3
          <6> QED BY <1>4, <1>9, <5>1, <6>1
        <5> QED BY <5>1 DEF Has
      <4>3. Writes(s, c, n) <=> n = Input
        BY <1>3, <1>4, <4>2 DEF Writes
      <4> QED BY <1>2, <1>6, <2>3, <4>1, <4>3 DEF PendingWrite
    <3> QED BY <3>1, <3>2
  <2> QED BY <2>2, <2>3
<1>26. Supplying'
  <2>1. \A e \in Kids : Sends(code'[ThreadOf(e)]) =>
            Sends(code[ThreadOf(e)]) /\ code'[WriterOf(e)] = code[WriterOf(e)]
    BY <1>6, <1>14, <1>23, <1>24
  <2>2. \A e \in Kids : Makes(code[ThreadOf(e)], e) => Makes(code'[ThreadOf(e)], e)
    <3>1. \A e : s[1] \notin {<<"pipe", Supply(e)>>, <<"pipe2", Supply(e)>>}
      BY <1>4
    <3>2. \A e : Makes(s, e) => Makes(t, e)
      BY <1>3, <3>1, KindsRest
    <3> QED BY <1>2, <1>6, <1>14, <1>24, <3>2
  <2> QED BY <1>0, <1>1, <1>25, <2>1, <2>2, SupplyingStep
<1>27. Flow'
  <2>1. \A e \in Kids : Done(e)' <=> Done(e)
    BY <1>7, <1>14, <1>18 DEF Done
  <2>2. Good' => Good
    BY <1>1 DEF Good
  <2>3. \A e \in Kids : Reads(code[ThreadOf(e)]) => Reads(code'[ThreadOf(e)])
    <3>1. Reads(s) => Reads(t)
      BY <1>3, <1>4, KindsRest
    <3> QED BY <1>2, <1>6, <1>14, <1>24, <3>1
  <2> QED BY <1>0, <1>1, <1>7, <1>25, <2>1, <2>2, <2>3, FlowStep
<1> QED BY <1>15, <1>16, <1>19, <1>21, <1>22, <1>26, <1>27 DEF PInv

LEMMA JoinInv ==
    ASSUME PInv, NEW x \in Threads, WriterThread(x), At(x, "join"), Continue(x)
    PROVE  PInv'
<1>0. Types /\ Text /\ Waiting /\ Flow /\ run \in Runs /\ Kids \subseteq Children
  BY KidsAre DEF PInv, Types
<1>1. /\ code[x] # <<>> /\ ~died /\ run' = run /\ code' = [code EXCEPT ![x] = Tail(code[x])]
      /\ UNCHANGED <<fds, cloexec, content, owed, took, got, died, gaveUp, quit, reaped>>
  BY Partners DEF WriterThread, At, Continue
<1>2. code[x][1][1] = "join"
  BY <1>0, <1>1, Left DEF At
<1>3. /\ code' \in [Threads \cup Writers \cup Children -> Seq(ParentCalls \cup ChildCalls)]
      /\ \A y \in Threads : code'[y] \in Seq(ParentCalls)
      /\ \A e \in Children : code'[e] \in Seq(ChildCalls) /\ code'[e] = code[e]
      /\ \A y \in Threads \cup Writers : y # x => code'[y] = code[y]
      /\ Rest(code[x], code'[x])
      /\ \A e : Forking(e)' <=> Forking(e)
      /\ \A e, n : PendingWrite(e, n)' <=> PendingWrite(e, n)
      /\ \A e : Reads(code'[ThreadOf(e)]) <=> Reads(code[ThreadOf(e)])
      /\ Text' /\ Childhood' /\ Parenthood' /\ Supplying'
  <2>1. code[x][1][1] \in {"read", "join", "waitpid"} /\ code[x][1][1] # "read"
    BY <1>2
  <2> QED BY <1>1, <2>1, QuietAdvance
<1>4. Types'
  BY <1>0, <1>1, <1>3, Steady DEF Types
<1>5. Waiting'
  <2>1. code[x][1][1] # "waitpid" /\ \A e \in reaped : code'[e] = code[e]
    BY <1>0, <1>2, <1>3 DEF Types
  <2>2. \A y \in Threads : y # x => code'[y] = code[y]
    BY <1>3
  <2> QED BY <1>1, <1>3, <2>1, <2>2, AdvanceWaiting
<1>6. Flow'
  <2>1. \A e \in Kids : Done(e)' <=> Done(e)
    BY <1>0, <1>3 DEF Done
  <2>2. Good' => Good
    BY <1>1 DEF Good
  <2> QED BY <1>0, <1>1, <1>3, <2>1, <2>2, FlowStep
<1> QED BY <1>3, <1>4, <1>5, <1>6 DEF PInv

\* The parent dies.
LEMMA DiesInv ==
    ASSUME PInv, died' = TRUE, fds' = [fds EXCEPT ![Parent] = NoTable],
           run' = run, UNCHANGED <<code, cloexec, content, owed, took, got, gaveUp, quit, reaped>>
    PROVE  PInv'
<1>0. Types /\ Text /\ Childhood /\ Waiting
  BY DEF PInv
<1>1. DOMAIN fds' = Processes /\ fds'[Parent] = NoTable /\ \A c \in Children : fds'[c] = fds[c]
  BY <1>0, Partners DEF Types, Processes
<1>2. Types'
  BY <1>0, <1>1, Steady DEF Types
<1>3. Text'
  BY <1>0, TextStep
<1>4. \A e : Forking(e)' <=> Forking(e)
  BY DEF Forking
<1>5. Childhood'
  <2>1. \A c \in Children : code'[c] = code[c] /\ fds'[c] = fds[c]
    BY <1>1
  <2>2. cloexec \subseteq cloexec'
    OBVIOUS
  <2> QED BY <1>0, <1>4, <2>1, <2>2, ChildhoodSame
<1>6. Parenthood'
  BY <1>1 DEF Parenthood
<1>7. Waiting'
  BY <1>0, <1>4, Steady DEF Waiting
<1>8. Supplying'
  BY DEF Supplying
<1>9. Flow'
  BY DEF Flow, Good
<1> QED BY <1>2, <1>3, <1>5, <1>6, <1>7, <1>8, <1>9 DEF PInv

\* The shell gives up.
LEMMA GivesUpInv ==
    ASSUME PInv, NEW x \in Threads, run.main = "stsh", ~died, gaveUp' = TRUE,
           code' = [code EXCEPT ![x] = <<>>],
           run' = run, UNCHANGED <<fds, cloexec, content, owed, took, got, died, quit, reaped>>
    PROVE  PInv'
<1>0. Types /\ Text /\ Childhood /\ Parenthood /\ Waiting /\ Kids \subseteq Children
  BY KidsAre DEF PInv, Types
<1>1. /\ code' \in [Threads \cup Writers \cup Children -> Seq(ParentCalls \cup ChildCalls)]
      /\ \A y \in Threads : code'[y] \in Seq(ParentCalls)
      /\ \A c \in Children : code'[c] \in Seq(ChildCalls) /\ code'[c] = code[c]
      /\ \A y \in Threads \cup Writers : y # x => code'[y] = code[y]
      /\ code'[x] = <<>>
  <2>1. x \in Threads \cup Writers \cup Children /\ x \notin Children
    BY Partners
  <2> QED BY <1>0, <2>1 DEF Types
<1>2. Types'
  BY <1>0, <1>1, Steady DEF Types
<1>3. Text'
  <2>1. /\ ForksTidy(<<>>) /\ ForksClose(<<>>) /\ ForksKeep(<<>>) /\ ClosesAfter(<<>>)
        /\ ForksOnce(<<>>) /\ Connects(<<>>)
    BY DEF ForksTidy, ForksClose, ForksKeep, ClosesAfter, ForksOnce, Connects
  <2>2. Orderly(x, <<>>)
    BY <2>1 DEF Orderly, Filters
  <2>3. \A w \in Writers : w # x
    BY Partners
  <2> QED BY <1>0, <1>1, <2>2, <2>3, TextStep
<1>4. \A e : Forking(e)' => Forking(e)
  <2>1. \A e : ~Forks(<<>>, e)
    BY DEF Forks
  <2>2. \A e : Forking(e)' <=> \E y \in Threads : Forks(code'[y], e)
    BY DEF Forking
  <2> QED BY <1>1, <2>1, <2>2 DEF Forking
<1>5. Childhood'
  <2>1. \A c \in Children : code'[c] = code[c] /\ fds'[c] = fds[c]
    BY <1>1
  <2>2. cloexec \subseteq cloexec'
    OBVIOUS
  <2> QED BY <1>0, <1>4, <2>1, <2>2, ChildhoodSame
<1>6. Parenthood'
  <2>1. \A y \in Threads : Fed(code'[y], DOMAIN fds[Parent], cloexec)
    <3>1. Fed(<<>>, DOMAIN fds[Parent], cloexec)
      BY DEF Fed
    <3> QED BY <1>0, <1>1, <3>1 DEF Parenthood
  <2> QED BY <1>0, <2>1 DEF Parenthood
<1>7. Waiting'
  <2>1. \A c \in reaped : code'[c] = <<>> /\ ~Forking(c)'
    BY <1>0, <1>1, <1>4 DEF Waiting, Types
  <2> QED BY <2>1 DEF Waiting
<1>8. Supplying'
  BY DEF Supplying, Filters
<1>9. Flow'
  BY DEF Flow, Good
<1> QED BY <1>2, <1>3, <1>5, <1>6, <1>7, <1>8, <1>9 DEF PInv

LEMMA ForkInv ==
    ASSUME PInv, NEW x \in Threads, Fork(x)
    PROVE  PInv'
<1>0. Types /\ Text /\ Childhood /\ Parenthood /\ Waiting /\ Supplying /\ Flow
  BY DEF PInv
<1>1. /\ code[x] # <<>> /\ ~died /\ run' = run
      /\ UNCHANGED <<cloexec, content, owed, took, got, died, gaveUp, quit, reaped>>
  BY Partners DEF Fork, At
<1>2. PICK s, t, c, z : s = code[x] /\ t = Tail(code[x]) /\ c = code[x][1][2] /\ z = code[x][1][3]
  OBVIOUS
<1>3. /\ Orderly(x, s) /\ Head(s) = s[1] /\ s[1] \in ParentCalls /\ 1 \in 1 .. Len(s)
      /\ Rest(s, t) /\ Orderly(x, t) /\ t \in Seq(ParentCalls) /\ t \in Seq(ParentCalls \cup ChildCalls)
  BY <1>0, <1>1, <1>2, Left
<1>4. s[1][1] = "fork" /\ s[1][2] = c /\ s[1][3] = z
  BY <1>2, <1>3 DEF Fork, At
<1>5. c \in Children /\ z \in Seq(ChildCalls)
  BY <1>3, <1>4, ParentShapes
<1>6. c \in Kids /\ z # <<>> /\ z[Len(z)] = <<"exec">> /\ Tidy(c, z) /\ Wired(c, z)
  BY <1>3, <1>4 DEF Orderly, ForksTidy
<1>7. Forking(c)
  <2>1. Forks(s, c)
    BY <1>3, <1>4 DEF Forks
  <2> QED BY <1>2, <2>1 DEF Forking
<1>8. code[c] = <<>> /\ c \notin reaped
  BY <1>0, <1>5, <1>7 DEF Childhood, Waiting
<1>9. run \in Runs /\ Kids \subseteq Children
  BY <1>0, KidsAre DEF Types
<1>10. code' = [code EXCEPT ![x] = t, ![c] = z] /\ fds' = [fds EXCEPT ![c] = fds[Parent]]
  <2>1. Call(x)[2] = c /\ Call(x)[3] = z /\ ProcessOf(x) = Parent
    BY <1>2, <1>3, <1>4, Partners DEF Call
  <2> QED BY <1>2, <2>1 DEF Fork
<1>11. /\ code' \in [Threads \cup Writers \cup Children -> Seq(ParentCalls \cup ChildCalls)]
       /\ \A y \in Threads : code'[y] \in Seq(ParentCalls)
       /\ \A e \in Children : code'[e] \in Seq(ChildCalls)
       /\ \A e \in Children : e # c => code'[e] = code[e]
       /\ \A y \in Threads \cup Writers : y # x => code'[y] = code[y]
       /\ code'[x] = t /\ code'[c] = z
  <2>1. /\ x \in Threads \cup Writers \cup Children /\ c \in Threads \cup Writers \cup Children
        /\ x # c /\ x \notin Children /\ c \notin Threads /\ c \notin Writers
    BY <1>5, Partners
  <2>2. /\ code \in [Threads \cup Writers \cup Children -> Seq(ParentCalls \cup ChildCalls)]
        /\ \A y \in Threads : code[y] \in Seq(ParentCalls)
        /\ \A e \in Children : code[e] \in Seq(ChildCalls)
    BY <1>0 DEF Types
  <2>3. z \in Seq(ParentCalls \cup ChildCalls)
    BY <1>5
  <2>4. code' \in [Threads \cup Writers \cup Children -> Seq(ParentCalls \cup ChildCalls)]
    BY <1>3, <1>10, <2>2, <2>3
  <2>5. /\ \A y \in Threads \cup Writers \cup Children : y # x /\ y # c => code'[y] = code[y]
        /\ code'[x] = t /\ code'[c] = z
    BY <1>10, <2>1, <2>2
  <2>6. \A e \in Children : e # x
    BY <2>1
  <2>7. \A y \in Threads \cup Writers : y # c
    BY <2>1
  <2> QED BY <1>3, <1>5, <2>2, <2>4, <2>5, <2>6, <2>7
<1>12. /\ DOMAIN fds' = Processes /\ fds'[c] = fds[Parent] /\ fds'[Parent] = fds[Parent]
       /\ \A e \in Children : e # c => fds'[e] = fds[e]
  <2>1. c # Parent /\ c \in Processes
    BY <1>5, Partners DEF Processes
  <2> QED BY <1>0, <1>10, <2>1 DEF Types
<1>13. Types'
  BY <1>0, <1>1, <1>11, <1>12, Steady DEF Types
<1>14. Text'
  <2>1. \A w \in Writers : w # x
    BY Partners
  <2> QED BY <1>0, <1>1, <1>3, <1>11, <2>1, TextStep
<1>15. Rest(code[x], code'[x]) /\ \A y \in Threads : y # x => code'[y] = code[y]
  BY <1>2, <1>3, <1>11
<1>16. \A e : (Forking(e)' => Forking(e)) /\ (e # c => (Forking(e)' <=> Forking(e)))
  BY <1>2, <1>4, <1>15, Moved
<1>17. ~Forking(c)'
  <2>1. ~Forks(t, c)
    <3>1. ASSUME NEW i \in 1 .. Len(t), t[i][1] = "fork", t[i][2] = c PROVE FALSE
      <4>1. i + 1 \in 1 .. Len(s) /\ t[i] = s[i + 1]
        BY <1>3 DEF Rest
      <4>2. \A k, j \in 1 .. Len(s) : s[k][1] = "fork" /\ s[j][1] = "fork" /\ s[k][2] = s[j][2] => k = j
        BY <1>3 DEF Orderly, ForksOnce
      <4>3. i + 1 = 1
        BY <1>3, <1>4, <3>1, <4>1, <4>2
      <4> QED BY <4>3
    <3> QED BY <3>1 DEF Forks
  <2>2. ASSUME NEW y \in Threads, y # x, Forks(code[y], c) PROVE FALSE
    <3>1. PICK i \in 1 .. Len(code[y]) : code[y][i][1] = "fork" /\ code[y][i][2] = c
      BY <2>2 DEF Forks
    <3>2. code[y] # <<>>
      BY <3>1
    <3>3. Of(x) # Of(y) /\ Serves(Of(y), code[y]) /\ Serves(Of(x), s)
      BY <1>0, <1>1, <1>2, <2>2, <3>2, Apart
    <3>4. c = Of(y) /\ c = Of(x)
      BY <1>3, <1>4, <3>1, <3>3 DEF Serves
    <3> QED BY <3>3, <3>4
  <2>3. Forking(c)' <=> \E y \in Threads : Forks(code'[y], c)
    BY DEF Forking
  <2> QED BY <1>11, <1>15, <2>1, <2>2, <2>3
<1>18. Fitted(c, z, fds[Parent], cloexec)
  <2>1. PICK f, D : f = fds[Parent] /\ D = DOMAIN f
    OBVIOUS
  <2>2. Std \subseteq D /\ D \subseteq Ends /\ \A d \in D : f[d] = d
    BY <1>0, <1>1, <2>1 DEF Parenthood
  <2>3. Fed(s, D, cloexec)
    BY <1>0, <1>1, <1>2, <2>1 DEF Parenthood
  <2>4. ASSUME NEW d \in D \ Std PROVE Closes(z, d) \/ (ObjectOf(d) \in cloexec /\ Has(z, <<"exec">>))
    <3>1. Handed(s, 1, d, cloexec)
      BY <1>3, <1>4, <2>3 DEF Fed
    <3>2. Has(z, <<"exec">>)
      <4>1. Len(z) \in 1 .. Len(z)
        BY <1>5, <1>6
      <4> QED BY <1>6, <4>1 DEF Has
    <3>3. ~(\E j \in 1 .. Len(s) : j < 1 /\ s[j] = <<"close", d>>)
      OBVIOUS
    <3> QED BY <1>4, <3>1, <3>2, <3>3 DEF Handed
  <2>5. ASSUME NEW m \in 1 .. Len(z), z[m][1] = "dup2"
        PROVE  z[m][2] \in D \/ \E j \in 1 .. Len(z) : j < m /\ z[j] = <<"open", z[m][2]>>
    <3>1. Needed(s, 1, z[m][2], m, D)
      BY <1>3, <1>4, <2>3, <2>5 DEF Fed
    <3>2. ~(\E j \in 1 .. Len(s) : j < 1 /\ s[j][1] \in {"pipe", "pipe2"} /\ z[m][2] \in {R(s[j][2]), W(s[j][2])})
      OBVIOUS
    <3> QED BY <1>4, <3>1, <3>2 DEF Needed
  <2>6. f[StdIn] = StdIn /\ f[StdOut] = StdOut /\ StdIn \in Ends /\ StdOut \in Ends
    BY <2>2 DEF Std
  <2>7. /\ f[StdIn] = R(Source(c)) \/ Has(z, <<"dup2", R(Source(c)), StdIn>>)
        /\ f[StdOut] = W(Sink(c)) \/ Has(z, <<"dup2", W(Sink(c)), StdOut>>)
    BY <1>6, <2>6 DEF Wired
  <2> QED BY <1>6, <2>1, <2>2, <2>4, <2>5, <2>6, <2>7 DEF Fitted
<1>19. Childhood'
  <2>1. PICK Z : Z = {c}
    OBVIOUS
  <2>2. \A e \in Children : e \notin Z => code'[e] = code[e] /\ fds'[e] = fds[e]
    BY <1>11, <1>12, <2>1
  <2>3. \A e \in Children : e \in Z =>
            /\ code'[e] # <<>> => e \in Kids /\ ~Forking(e)' /\ Fitted(e, code'[e], fds'[e], cloexec')
            /\ code'[e] = <<>> => fds'[e] = NoTable
    BY <1>1, <1>6, <1>11, <1>12, <1>17, <1>18, <2>1
  <2>4. cloexec \subseteq cloexec'
    BY <1>1
  <2> QED BY <1>0, <1>1, <1>16, <2>2, <2>3, <2>4, ChildhoodStep
<1>20. /\ \A e, n : PendingWrite(e, n)' <=> PendingWrite(e, n)
       /\ \A e : Sends(code'[ThreadOf(e)]) => Sends(code[ThreadOf(e)])
       /\ \A e : code'[WriterOf(e)] = code[WriterOf(e)]
       /\ \A e : Makes(code[ThreadOf(e)], e) => Makes(code'[ThreadOf(e)], e)
       /\ \A e : Reads(code'[ThreadOf(e)]) <=> Reads(code[ThreadOf(e)])
       /\ \A d : WillClose(d) => WillClose(d)'
  <2>1. /\ code[x][1][1] \notin {"write", "thread", "read"}
        /\ \A e : code[x][1] \notin {<<"pipe", Supply(e)>>, <<"pipe2", Supply(e)>>} /\ code[x][1] # <<"close", e>>
    BY <1>2, <1>4
  <2>2. \A y \in Threads \cup Writers : y # x => code'[y] = code[y]
    BY <1>11
  <2> QED BY <1>15, <2>1, <2>2, MovedSupply
<1>21. Parenthood'
  <2>1. \A y \in Threads :
            \/ code'[y] = code[y]
            \/ Rest(code[y], code'[y]) /\ code[y][1][1] \notin {"close", "pipe", "pipe2"}
    BY <1>2, <1>4, <1>15
  <2> QED BY <1>0, <1>1, <1>12, <1>20, <2>1, ParenthoodKept
<1>22. Waiting'
  <2>1. \A e \in reaped : code'[e] = code[e]
    BY <1>0, <1>8, <1>9, <1>11 DEF Types
  <2>2. code[x][1][1] # "waitpid"
    BY <1>2, <1>4
  <2> QED BY <1>1, <1>15, <2>1, <2>2, AdvanceWaiting
<1>23. Supplying'
  BY <1>0, <1>1, <1>12, <1>20, SupplyingStep
<1>24. Flow'
  <2>1. ~Done(c) /\ ~Done(c)'
    BY <1>6, <1>7, <1>11 DEF Done
  <2>2. \A e \in Kids : Done(e)' <=> Done(e)
    <3>1. \A e \in Kids : e # c => (Done(e)' <=> Done(e))
      BY <1>9, <1>11, <1>16 DEF Done
    <3> QED BY <2>1, <3>1
  <2>3. Good' => Good
    BY <1>1 DEF Good
  <2> QED BY <1>0, <1>1, <1>9, <1>20, <2>2, <2>3, FlowStep
<1> QED BY <1>13, <1>14, <1>19, <1>21, <1>22, <1>23, <1>24 DEF PInv

-------------------------------------------------------------------------------
(* Steps of the children                                                   *)

\* The list and the table of child c become t and f.
LEMMA ChildFrame ==
    ASSUME PInv, NEW c \in Children, code[c] # <<>>, NEW t \in Seq(ChildCalls), NEW f,
           code' = [code EXCEPT ![c] = t], fds' = [fds EXCEPT ![c] = f],
           run' = run, UNCHANGED <<cloexec, died, gaveUp, reaped>>,
           t # <<>> => Fitted(c, t, f, cloexec), t = <<>> => f = NoTable
    PROVE  /\ code' \in [Threads \cup Writers \cup Children -> Seq(ParentCalls \cup ChildCalls)]
           /\ \A y \in Threads : code'[y] \in Seq(ParentCalls)
           /\ \A y \in Threads \cup Writers : code'[y] = code[y]
           /\ \A e \in Children : code'[e] \in Seq(ChildCalls)
           /\ \A e \in Children : e # c => code'[e] = code[e]
           /\ code'[c] = t /\ DOMAIN fds' = Processes
           /\ \A e : Forking(e)' <=> Forking(e)
           /\ \A e, n : PendingWrite(e, n)' <=> PendingWrite(e, n)
           /\ \A e : code'[ThreadOf(e)] = code[ThreadOf(e)]
           /\ Text' /\ Childhood' /\ Parenthood' /\ Waiting' /\ Supplying'
<1>0. Types /\ Text /\ Childhood /\ Parenthood /\ Waiting /\ Supplying /\ run \in Runs /\ Kids \subseteq Children
  BY KidsAre DEF PInv, Types
<1>1. /\ code' \in [Threads \cup Writers \cup Children -> Seq(ParentCalls \cup ChildCalls)]
      /\ \A y \in Threads : code'[y] \in Seq(ParentCalls)
      /\ \A y \in Threads \cup Writers : code'[y] = code[y]
      /\ \A e \in Children : code'[e] \in Seq(ChildCalls)
      /\ \A e \in Children : e # c => code'[e] = code[e]
      /\ code'[c] = t
  <2>1. c \in Threads \cup Writers \cup Children /\ c \notin Threads /\ c \notin Writers
    BY Partners
  <2>2. t \in Seq(ParentCalls \cup ChildCalls)
    OBVIOUS
  <2> QED BY <1>0, <2>1, <2>2 DEF Types
<1>2. /\ DOMAIN fds' = Processes /\ fds'[c] = f /\ fds'[Parent] = fds[Parent]
      /\ \A e \in Children : e # c => fds'[e] = fds[e]
  <2>1. c # Parent /\ c \in Processes
    BY Partners DEF Processes
  <2> QED BY <1>0, <2>1 DEF Types
<1>3. Text'
  BY <1>0, <1>1, TextStep
<1>4. \A e : Forking(e)' <=> Forking(e)
  BY <1>1 DEF Forking
<1>5. \A e : code'[ThreadOf(e)] = code[ThreadOf(e)] /\ code'[WriterOf(e)] = code[WriterOf(e)]
  BY <1>1, Partners
<1>6. \A e, n : PendingWrite(e, n)' <=> PendingWrite(e, n)
  <2>1. \A e, n : PendingWrite(e, n)' <=>
            Writes(code'[ThreadOf(e)], e, n) \/ Has(code'[WriterOf(e)], <<"write", W(Supply(e)), n>>)
    BY DEF PendingWrite
  <2> QED BY <1>5, <2>1 DEF PendingWrite
<1>7. Childhood'
  <2>1. PICK Z : Z = {c}
    OBVIOUS
  <2>2. \A e \in Children : e \notin Z => code'[e] = code[e] /\ fds'[e] = fds[e]
    BY <1>1, <1>2, <2>1
  <2>3. c \in Kids /\ ~Forking(c)
    BY <1>0 DEF Childhood
  <2>4. \A e \in Children : e \in Z =>
            /\ code'[e] # <<>> => e \in Kids /\ ~Forking(e)' /\ Fitted(e, code'[e], fds'[e], cloexec')
            /\ code'[e] = <<>> => fds'[e] = NoTable
    BY <1>1, <1>2, <1>4, <2>1, <2>3
  <2>5. cloexec \subseteq cloexec'
    OBVIOUS
  <2> QED BY <1>0, <1>4, <2>2, <2>4, <2>5, ChildhoodStep
<1>8. Parenthood'
  <2>1. \A d : WillClose(d)' <=> \E y \in Threads \cup Writers : ClosesSoon(code'[y], d)
    BY DEF WillClose
  <2>2. \A d : WillClose(d) => WillClose(d)'
    BY <1>1, <2>1 DEF WillClose
  <2>3. \A y \in Threads : code'[y] = code[y]
    BY <1>1
  <2> QED BY <1>0, <1>2, <2>2, <2>3, ParenthoodKept
<1>9. Waiting'
  <2>1. c \notin reaped
    BY <1>0 DEF Waiting
  <2>2. \A e \in reaped : code'[e] = <<>> /\ (Forking(e)' => Forking(e))
    BY <1>0, <1>1, <1>4, <2>1 DEF Waiting, Types
  <2> QED BY <1>0, <1>1, <2>2, WaitingStep
<1>10. Supplying'
  BY <1>0, <1>2, <1>5, <1>6, SupplyingStep
<1> QED BY <1>1, <1>2, <1>3, <1>4, <1>5, <1>6, <1>7, <1>8, <1>9, <1>10

\* The child that goes on has still something to do.
LEMMA ChildLeft ==
    ASSUME Types, Childhood, NEW c \in Children, code[c] # <<>>,
           code[c][1][1] \in {"dup2", "close", "open"}
    PROVE  /\ Rest(code[c], Tail(code[c])) /\ Tail(code[c]) \in Seq(ChildCalls) /\ Tail(code[c]) # <<>>
           /\ Head(code[c]) = code[c][1] /\ code[c][1] \in ChildCalls /\ 1 \in 1 .. Len(code[c])
           /\ Fitted(c, code[c], fds[c], cloexec)
<1>1. code[c] \in Seq(ChildCalls)
  BY DEF Types
<1>2. /\ Rest(code[c], Tail(code[c])) /\ Tail(code[c]) \in Seq(ChildCalls)
      /\ Head(code[c]) = code[c][1] /\ code[c][1] \in ChildCalls
  BY <1>1, TailIsRest
<1>3. Fitted(c, code[c], fds[c], cloexec)
  BY DEF Childhood
<1>4. Tidy(c, code[c])
  BY <1>3 DEF Fitted
<1>5. code[c][Len(code[c])] \in {<<"exec">>, <<"program">>}
  BY <1>4 DEF Tidy
<1>6. code[c][Len(code[c])][1] \notin {"dup2", "close", "open"}
  BY <1>5
<1>7. Len(code[c]) # 1
  BY <1>6
<1>8. 1 \in 1 .. Len(code[c])
  BY <1>1
<1>9. Tail(code[c]) # <<>>
  <2>1. PICK s, t : s = code[c] /\ t = Tail(code[c])
    OBVIOUS
  <2>2. Len(s) \in Nat /\ Len(t) \in Nat /\ Len(s) = Len(t) + 1 /\ Len(s) # 1
    BY <1>2, <1>7, <2>1 DEF Rest
  <2>3. Len(t) # 0
    BY <2>2
  <2>4. t # <<>>
    BY <2>3
  <2> QED BY <2>1, <2>4
<1> QED BY <1>2, <1>3, <1>8, <1>9

\* A child closes a descriptor ...
LEMMA FittedClose ==
    ASSUME NEW c, NEW s, NEW t, NEW f, NEW g, NEW C, NEW d, Fitted(c, s, f, C), Rest(s, t),
           s[1] = <<"close", d>>, DOMAIN g = DOMAIN f \ {d}, \A e \in DOMAIN g : g[e] = f[e]
    PROVE  Fitted(c, t, g, C)
<1>0. /\ \A i \in 1 .. Len(t) : i + 1 \in 1 .. Len(s) /\ t[i] = s[i + 1]
      /\ \A i \in 1 .. Len(s) : i = 1 \/ (i - 1 \in 1 .. Len(t) /\ t[i - 1] = s[i])
      /\ 1 \in 1 .. Len(s)
  BY DEF Rest
<1>1. Tidy(c, s)
  BY DEF Fitted
<1>2. Tidy(c, t)
  BY <1>1, TidyRest
<1>3. d \notin Std
  <2>1. s[1][1] = "close" /\ s[1][2] = d
    OBVIOUS
  <2> QED BY <1>0, <1>1, <2>1 DEF Tidy
<1>4. \A call : Has(s, call) => s[1] = call \/ Has(t, call)
  BY RestHas
<1>5. Std \subseteq DOMAIN g /\ DOMAIN g \subseteq Ends /\ StdIn \in DOMAIN g /\ StdOut \in DOMAIN g
  BY <1>3 DEF Fitted, Std
<1>6. ASSUME NEW e \in DOMAIN g \ Std
      PROVE  g[e] = e /\ (Closes(t, e) \/ (ObjectOf(e) \in C /\ Has(t, <<"exec">>)))
  <2>1. e \in DOMAIN f \ Std /\ e # d
    BY <1>6
  <2>2. f[e] = e /\ (Closes(s, e) \/ (ObjectOf(e) \in C /\ Has(s, <<"exec">>)))
    BY <2>1 DEF Fitted
  <2>3. s[1] # <<"close", e>> /\ s[1] # <<"exec">>
    BY <2>1
  <2> QED BY <1>4, <1>6, <2>2, <2>3 DEF Closes
<1>7. ASSUME NEW i \in 1 .. Len(t), t[i][1] = "dup2"
      PROVE  \/ t[i][2] \in DOMAIN g
             \/ \E j \in 1 .. Len(t) : j < i /\ t[j] = <<"open", t[i][2]>>
  <2>1. PICK k, e : k = i + 1 /\ e = t[i][2]
    OBVIOUS
  <2>2. k \in 1 .. Len(s) /\ s[k][1] = "dup2" /\ s[k][2] = e /\ k > 1
    BY <1>0, <1>7, <2>1
  <2>3. \A j \in 1 .. Len(s) : s[j] = <<"close", e>> => j > k
    BY <1>1, <2>2 DEF Tidy
  <2>4. e # d
    BY <1>0, <2>2, <2>3
  <2>5. e \in DOMAIN f \/ \E j \in 1 .. Len(s) : j < k /\ s[j] = <<"open", e>>
    BY <2>2 DEF Fitted
  <2>6. ASSUME NEW j \in 1 .. Len(s), j < k, s[j] = <<"open", e>>
        PROVE  \E m \in 1 .. Len(t) : m < i /\ t[m] = <<"open", e>>
    <3>1. j # 1
      BY <2>6
    <3>2. j - 1 \in 1 .. Len(t) /\ t[j - 1] = s[j] /\ j - 1 < i
      BY <1>0, <2>1, <2>6, <3>1
    <3> QED BY <2>6, <3>2
  <2> QED BY <2>1, <2>4, <2>5, <2>6
<1>8. /\ g[StdIn] = R(Source(c)) \/ Has(t, <<"dup2", R(Source(c)), StdIn>>)
      /\ g[StdOut] = W(Sink(c)) \/ Has(t, <<"dup2", W(Sink(c)), StdOut>>)
      /\ g[StdIn] \in Ends /\ g[StdOut] \in Ends
  <2>1. s[1] # <<"dup2", R(Source(c)), StdIn>> /\ s[1] # <<"dup2", W(Sink(c)), StdOut>>
    OBVIOUS
  <2>2. g[StdIn] = f[StdIn] /\ g[StdOut] = f[StdOut]
    BY <1>5
  <2> QED BY <1>4, <2>1, <2>2 DEF Fitted
<1> QED BY <1>2, <1>5, <1>6, <1>7, <1>8 DEF Fitted

\* ... opens a file ...
LEMMA FittedOpen ==
    ASSUME NEW c, NEW s, NEW t, NEW f, NEW g, NEW C, NEW d \in Ends, Fitted(c, s, f, C), Rest(s, t),
           s[1] = <<"open", d>>, DOMAIN g = DOMAIN f \cup {d}, g[d] = d,
           \A e \in DOMAIN f : e # d => g[e] = f[e]
    PROVE  Fitted(c, t, g, C)
<1>0. /\ \A i \in 1 .. Len(t) : i + 1 \in 1 .. Len(s) /\ t[i] = s[i + 1]
      /\ \A i \in 1 .. Len(s) : i = 1 \/ (i - 1 \in 1 .. Len(t) /\ t[i - 1] = s[i])
      /\ 1 \in 1 .. Len(s)
  BY DEF Rest
<1>1. Tidy(c, s)
  BY DEF Fitted
<1>2. Tidy(c, t)
  BY <1>1, TidyRest
<1>4. \A call : Has(s, call) => s[1] = call \/ Has(t, call)
  BY RestHas
<1>3. d \notin Std /\ Closes(t, d)
  <2>1. s[1][1] = "open" /\ s[1][2] = d
    OBVIOUS
  <2>2. d \notin Std /\ \E j \in 1 .. Len(s) : j > 1 /\ s[j] = <<"close", d>>
    BY <1>0, <1>1, <2>1 DEF Tidy
  <2>3. Has(s, <<"close", d>>) /\ s[1] # <<"close", d>>
    BY <2>2 DEF Has
  <2> QED BY <1>4, <2>2, <2>3 DEF Closes
<1>5. Std \subseteq DOMAIN g /\ DOMAIN g \subseteq Ends /\ StdIn \in DOMAIN f /\ StdOut \in DOMAIN f
  BY DEF Fitted, Std
<1>6. ASSUME NEW e \in DOMAIN g \ Std
      PROVE  g[e] = e /\ (Closes(t, e) \/ (ObjectOf(e) \in C /\ Has(t, <<"exec">>)))
  <2>1. CASE e = d
    BY <1>3, <2>1
  <2>2. CASE e # d
    <3>1. e \in DOMAIN f \ Std
      BY <1>6, <2>2
    <3>2. f[e] = e /\ (Closes(s, e) \/ (ObjectOf(e) \in C /\ Has(s, <<"exec">>)))
      BY <3>1 DEF Fitted
    <3>3. s[1] # <<"close", e>> /\ s[1] # <<"exec">>
      OBVIOUS
    <3> QED BY <1>4, <2>2, <3>1, <3>2, <3>3 DEF Closes
  <2> QED BY <2>1, <2>2
<1>7. ASSUME NEW i \in 1 .. Len(t), t[i][1] = "dup2"
      PROVE  \/ t[i][2] \in DOMAIN g
             \/ \E j \in 1 .. Len(t) : j < i /\ t[j] = <<"open", t[i][2]>>
  <2>1. PICK k, e : k = i + 1 /\ e = t[i][2]
    OBVIOUS
  <2>2. k \in 1 .. Len(s) /\ s[k][1] = "dup2" /\ s[k][2] = e /\ k > 1
    BY <1>0, <1>7, <2>1
  <2>5. e \in DOMAIN f \/ \E j \in 1 .. Len(s) : j < k /\ s[j] = <<"open", e>>
    BY <2>2 DEF Fitted
  <2>6. ASSUME NEW j \in 1 .. Len(s), j < k, s[j] = <<"open", e>>
        PROVE  e \in DOMAIN g \/ \E m \in 1 .. Len(t) : m < i /\ t[m] = <<"open", e>>
    <3>1. CASE j = 1
      BY <2>6, <3>1
    <3>2. CASE j # 1
      <4>1. j - 1 \in 1 .. Len(t) /\ t[j - 1] = s[j] /\ j - 1 < i
        BY <1>0, <2>1, <2>6, <3>2
      <4> QED BY <2>6, <4>1
    <3> QED BY <3>1, <3>2
  <2> QED BY <2>1, <2>5, <2>6
<1>8. /\ g[StdIn] = R(Source(c)) \/ Has(t, <<"dup2", R(Source(c)), StdIn>>)
      /\ g[StdOut] = W(Sink(c)) \/ Has(t, <<"dup2", W(Sink(c)), StdOut>>)
      /\ g[StdIn] \in Ends /\ g[StdOut] \in Ends
  <2>1. s[1] # <<"dup2", R(Source(c)), StdIn>> /\ s[1] # <<"dup2", W(Sink(c)), StdOut>>
    OBVIOUS
  <2>2. g[StdIn] = f[StdIn] /\ g[StdOut] = f[StdOut]
    BY <1>3, <1>5 DEF Std
  <2> QED BY <1>4, <2>1, <2>2 DEF Fitted
<1> QED BY <1>2, <1>5, <1>6, <1>7, <1>8 DEF Fitted

\* ... and makes one its standard input or output.
LEMMA FittedDup ==
    ASSUME NEW c, NEW s, NEW t, NEW f, NEW g, NEW C, NEW d \in Ends, NEW q \in Std,
           Fitted(c, s, f, C), Rest(s, t), s[1] = <<"dup2", d, q>>,
           DOMAIN g = DOMAIN f \cup {q}, g[q] = f[d], \A e \in DOMAIN f : e # q => g[e] = f[e]
    PROVE  Fitted(c, t, g, C)
<1>0. /\ \A i \in 1 .. Len(t) : i + 1 \in 1 .. Len(s) /\ t[i] = s[i + 1]
      /\ \A i \in 1 .. Len(s) : i = 1 \/ (i - 1 \in 1 .. Len(t) /\ t[i - 1] = s[i])
      /\ 1 \in 1 .. Len(s)
  BY DEF Rest
<1>1. Tidy(c, s)
  BY DEF Fitted
<1>2. Tidy(c, t)
  BY <1>1, TidyRest
<1>4. \A call : Has(s, call) => s[1] = call \/ Has(t, call)
  BY RestHas
<1>a. s[1][1] = "dup2" /\ s[1][2] = d
  OBVIOUS
<1>b. d \notin Std /\ s[1] \in {<<"dup2", R(Source(c)), StdIn>>, <<"dup2", W(Sink(c)), StdOut>>}
  BY <1>0, <1>1, <1>a DEF Tidy
<1>c. d \in DOMAIN f
  <2>1. d \in DOMAIN f \/ \E j \in 1 .. Len(s) : j < 1 /\ s[j] = <<"open", d>>
    BY <1>0, <1>a DEF Fitted
  <2> QED BY <2>1
<1>d. f[d] = d
  BY <1>b, <1>c DEF Fitted
<1>5. /\ Std \subseteq DOMAIN f /\ DOMAIN g = DOMAIN f /\ DOMAIN g \subseteq Ends
      /\ StdIn \in DOMAIN f /\ StdOut \in DOMAIN f /\ StdIn # StdOut
  BY DEF Fitted, Std, StdIn, StdOut
<1>6. ASSUME NEW e \in DOMAIN g \ Std
      PROVE  g[e] = e /\ (Closes(t, e) \/ (ObjectOf(e) \in C /\ Has(t, <<"exec">>)))
  <2>1. e \in DOMAIN f \ Std /\ e # q
    BY <1>5, <1>6
  <2>2. f[e] = e /\ (Closes(s, e) \/ (ObjectOf(e) \in C /\ Has(s, <<"exec">>)))
    BY <2>1 DEF Fitted
  <2>3. s[1] # <<"close", e>> /\ s[1] # <<"exec">>
    OBVIOUS
  <2> QED BY <1>4, <2>1, <2>2, <2>3 DEF Closes
<1>7. ASSUME NEW i \in 1 .. Len(t), t[i][1] = "dup2"
      PROVE  \/ t[i][2] \in DOMAIN g
             \/ \E j \in 1 .. Len(t) : j < i /\ t[j] = <<"open", t[i][2]>>
  <2>1. PICK k, e : k = i + 1 /\ e = t[i][2]
    OBVIOUS
  <2>2. k \in 1 .. Len(s) /\ s[k][1] = "dup2" /\ s[k][2] = e /\ k > 1
    BY <1>0, <1>7, <2>1
  <2>5. e \in DOMAIN f \/ \E j \in 1 .. Len(s) : j < k /\ s[j] = <<"open", e>>
    BY <2>2 DEF Fitted
  <2>6. ASSUME NEW j \in 1 .. Len(s), j < k, s[j] = <<"open", e>>
        PROVE  \E m \in 1 .. Len(t) : m < i /\ t[m] = <<"open", e>>
    <3>1. j # 1
      BY <2>6
    <3>2. j - 1 \in 1 .. Len(t) /\ t[j - 1] = s[j] /\ j - 1 < i
      BY <1>0, <2>1, <2>6, <3>1
    <3> QED BY <2>6, <3>2
  <2> QED BY <1>5, <2>1, <2>5, <2>6
<1>8. /\ g[StdIn] = R(Source(c)) \/ Has(t, <<"dup2", R(Source(c)), StdIn>>)
      /\ g[StdOut] = W(Sink(c)) \/ Has(t, <<"dup2", W(Sink(c)), StdOut>>)
      /\ g[StdIn] \in Ends /\ g[StdOut] \in Ends
  <2>0. /\ f[StdIn] = R(Source(c)) \/ Has(s, <<"dup2", R(Source(c)), StdIn>>)
        /\ f[StdOut] = W(Sink(c)) \/ Has(s, <<"dup2", W(Sink(c)), StdOut>>)
        /\ f[StdIn] \in Ends /\ f[StdOut] \in Ends
    BY DEF Fitted
  <2>1. CASE s[1] = <<"dup2", R(Source(c)), StdIn>>
    <3>1. q = StdIn /\ d = R(Source(c)) /\ s[1] # <<"dup2", W(Sink(c)), StdOut>>
      BY <1>5, <2>1
    <3>2. g[StdIn] = d /\ g[StdOut] = f[StdOut]
      BY <1>d, <1>5, <3>1
    <3> QED BY <1>4, <2>0, <3>1, <3>2
  <2>2. CASE s[1] = <<"dup2", W(Sink(c)), StdOut>>
    <3>1. q = StdOut /\ d = W(Sink(c)) /\ s[1] # <<"dup2", R(Source(c)), StdIn>>
      BY <1>5, <2>2
    <3>2. g[StdOut] = d /\ g[StdIn] = f[StdIn]
      BY <1>d, <1>5, <3>1
    <3> QED BY <1>4, <2>0, <3>1, <3>2
  <2> QED BY <1>b, <2>1, <2>2
<1> QED BY <1>2, <1>5, <1>6, <1>7, <1>8 DEF Fitted

LEMMA ChildDescriptorInv ==
    ASSUME PInv, NEW c \in Children, Descriptor(c)
    PROVE  PInv'
<1>0. Types /\ Childhood /\ Flow /\ run \in Runs /\ Kids \subseteq Children
  BY KidsAre DEF PInv, Types
<1>1. /\ code[c] # <<>> /\ run' = run /\ Head(code[c])[1] \in {"dup2", "close", "open"}
      /\ UNCHANGED <<cloexec, content, owed, took, got, died, gaveUp, quit, reaped>>
  BY DEF Descriptor, At
<1>2. PICK s, t, f, d : s = code[c] /\ t = Tail(code[c]) /\ f = fds[c] /\ d = code[c][1][2]
  OBVIOUS
<1>3. code[c][1][1] \in {"dup2", "close", "open"}
  <2>1. code[c] \in Seq(ChildCalls)
    BY <1>0 DEF Types
  <2> QED BY <1>1, <2>1
<1>4. /\ Rest(s, t) /\ t \in Seq(ChildCalls) /\ t # <<>> /\ Head(s) = s[1] /\ s[1] \in ChildCalls
      /\ Fitted(c, s, f, cloexec)
  BY <1>0, <1>1, <1>2, <1>3, ChildLeft
<1>5. /\ s[1][1] = "close" => s[1] = <<"close", d>> /\ d \in Ends
      /\ s[1][1] = "open" => s[1] = <<"open", d>> /\ d \in Ends
      /\ s[1][1] = "dup2" => s[1] = <<"dup2", d, s[1][3]>> /\ d \in Ends /\ s[1][3] \in Std
  BY <1>2, <1>4, ChildShapes
<1>6. code' = [code EXCEPT ![c] = t]
  BY <1>2 DEF Descriptor, Continue
<1>7. PICK g : /\ fds' = [fds EXCEPT ![c] = g]
               /\ s[1][1] = "dup2" => g = With(f, s[1][3], f[d])
               /\ s[1][1] = "close" => g = Without(f, {d})
               /\ s[1][1] = "open" => g = With(f, d, d)
  <2>1. ProcessOf(c) = c /\ Call(c) = s[1] /\ Call(c)[2] = d /\ Call(c)[1] = s[1][1] /\ Call(c)[3] = s[1][3]
    BY <1>2, <1>4, Partners DEF Call
  <2>2. fds' = [fds EXCEPT ![c] =
              CASE s[1][1] = "dup2" -> With(f, s[1][3], f[d])
                [] s[1][1] = "close" -> Without(f, {d})
                [] s[1][1] = "open" -> With(f, d, d)]
    BY <1>2, <2>1 DEF Descriptor
  <2>3. CASE s[1][1] = "dup2"
    BY <2>2, <2>3
  <2>4. CASE s[1][1] = "close"
    BY <2>2, <2>4
  <2>5. CASE s[1][1] = "open"
    BY <2>2, <2>5
  <2> QED BY <1>2, <1>3, <2>3, <2>4, <2>5
<1>8. Fitted(c, t, g, cloexec)
  <2>1. CASE s[1][1] = "close"
    <3>1. DOMAIN g = DOMAIN f \ {d} /\ \A e \in DOMAIN g : g[e] = f[e]
      BY <1>7, <2>1 DEF Without
    <3> QED BY <1>4, <1>5, <2>1, <3>1, FittedClose
  <2>2. CASE s[1][1] = "open"
    <3>1. DOMAIN g = DOMAIN f \cup {d} /\ g[d] = d /\ \A e \in DOMAIN f : e # d => g[e] = f[e]
      BY <1>7, <2>2 DEF With
    <3> QED BY <1>4, <1>5, <2>2, <3>1, FittedOpen
  <2>3. CASE s[1][1] = "dup2"
    <3>1. PICK q : q = s[1][3]
      OBVIOUS
    <3>2. s[1] = <<"dup2", d, q>> /\ d \in Ends /\ q \in Std
      BY <1>5, <2>3, <3>1
    <3>3. DOMAIN g = DOMAIN f \cup {q} /\ g[q] = f[d] /\ \A e \in DOMAIN f : e # q => g[e] = f[e]
      BY <1>7, <2>3, <3>1 DEF With
    <3> QED BY <1>4, <3>2, <3>3, FittedDup
  <2> QED BY <1>2, <1>3, <2>1, <2>2, <2>3
<1>9. /\ code' \in [Threads \cup Writers \cup Children -> Seq(ParentCalls \cup ChildCalls)]
      /\ \A y \in Threads : code'[y] \in Seq(ParentCalls)
      /\ \A e \in Children : code'[e] \in Seq(ChildCalls)
      /\ \A e \in Children : e # c => code'[e] = code[e]
      /\ code'[c] = t /\ DOMAIN fds' = Processes
      /\ \A e : Forking(e)' <=> Forking(e)
      /\ \A e, n : PendingWrite(e, n)' <=> PendingWrite(e, n)
      /\ \A e : code'[ThreadOf(e)] = code[ThreadOf(e)]
      /\ Text' /\ Childhood' /\ Parenthood' /\ Waiting' /\ Supplying'
  BY <1>1, <1>4, <1>6, <1>7, <1>8, ChildFrame
<1>10. Types'
  BY <1>0, <1>1, <1>9, Steady DEF Types
<1>11. Flow'
  <2>1. \A e \in Kids : Done(e)' <=> Done(e)
    BY <1>0, <1>1, <1>4, <1>9 DEF Done
  <2>2. Good' => Good
    BY <1>1 DEF Good
  <2> QED BY <1>0, <1>1, <1>9, <2>1, <2>2, FlowStep
<1> QED BY <1>9, <1>10, <1>11 DEF PInv

\* A list that begins with exec or with the program has nothing else.
LEMMA Alone ==
    ASSUME Types, Childhood, NEW c \in Children, code[c] # <<>>, NEW call,
           call \in {<<"exec">>, <<"program">>}, Head(code[c])[1] = call[1]
    PROVE  Len(code[c]) = 1 /\ code[c][1] = call /\ Fitted(c, code[c], fds[c], cloexec) /\ Tidy(c, code[c])
<1>1. code[c] \in Seq(ChildCalls)
  BY DEF Types
<1>2. Head(code[c]) = code[c][1] /\ code[c][1] \in ChildCalls /\ 1 \in 1 .. Len(code[c])
  BY <1>1
<1>3. Fitted(c, code[c], fds[c], cloexec)
  BY DEF Childhood
<1>4. Tidy(c, code[c])
  BY <1>3 DEF Fitted
<1>5. code[c][1][1] = call[1] /\ call[1] \in {"exec", "program"}
  BY <1>2
<1>6. code[c][1] = call
  BY <1>2, <1>5, ChildShapes
<1>7. 1 = Len(code[c])
  BY <1>2, <1>4, <1>5 DEF Tidy
<1> QED BY <1>3, <1>4, <1>6, <1>7

LEMMA ExecInv ==
    ASSUME PInv, NEW c \in Children, Exec(c)
    PROVE  PInv'
<1>0. Types /\ Childhood /\ Flow /\ run \in Runs /\ Kids \subseteq Children
  BY KidsAre DEF PInv, Types
<1>1. /\ code[c] # <<>> /\ run' = run /\ Head(code[c])[1] = "exec"
      /\ UNCHANGED <<cloexec, content, owed, took, got, died, gaveUp, quit, reaped>>
  BY DEF Exec, At
<1>2. PICK s, t, f, g : /\ s = code[c] /\ t = <<<<"program">>>> /\ f = fds[c]
                        /\ g = Without(f, {d \in DOMAIN f : ObjectOf(d) \in cloexec})
  OBVIOUS
<1>3. Len(s) = 1 /\ s[1] = <<"exec">> /\ Fitted(c, s, f, cloexec)
  <2>1. PICK k : k = <<"exec">>
    OBVIOUS
  <2>2. k[1] = "exec"
    BY <2>1
  <2> QED BY <1>0, <1>1, <1>2, <2>1, <2>2, Alone
<1>4. \A call : Has(s, call) => call = <<"exec">>
  BY <1>3 DEF Has
<1>5. code' = [code EXCEPT ![c] = t] /\ fds' = [fds EXCEPT ![c] = g]
  BY <1>2 DEF Exec
<1>6. Len(t) = 1 /\ t[1] = <<"program">> /\ t # <<>> /\ t \in Seq(ChildCalls)
  <2>1. <<"program">> \in ChildCalls
    BY DEF ChildCalls
  <2> QED BY <1>2, <2>1, Single
<1>7. DOMAIN g = {d \in DOMAIN f : ObjectOf(d) \notin cloexec} /\ \A d \in DOMAIN g : g[d] = f[d]
  BY <1>2 DEF Without
<1>8. Fitted(c, t, g, cloexec)
  <2>1. Tidy(c, t)
    BY <1>6 DEF Tidy
  <2>2. \A d \in DOMAIN f \ Std : ObjectOf(d) \in cloexec
    <3>1. \A d \in DOMAIN f \ Std : Closes(s, d) \/ ObjectOf(d) \in cloexec
      BY <1>3 DEF Fitted
    <3>2. \A d : ~Closes(s, d)
      BY <1>4 DEF Closes
    <3> QED BY <3>1, <3>2
  <2>3. \A d \in Std : ObjectOf(d) \notin cloexec
    <3>1. ObjectOf(StdIn) = <<"std", "in">> /\ ObjectOf(StdOut) = <<"std", "out">>
      BY DEF ObjectOf, StdIn, StdOut
    <3>2. <<"std", "in">> \in Files /\ <<"std", "out">> \in Files
      BY DEF Files
    <3> QED BY <1>0, <3>1, <3>2, PipesAreObjects DEF Types, Std
  <2>4. Std \subseteq DOMAIN f /\ DOMAIN f \subseteq Ends
    BY <1>3 DEF Fitted
  <2>5. DOMAIN g = Std /\ DOMAIN g \subseteq Ends
    BY <1>7, <2>2, <2>3, <2>4
  <2>6. /\ f[StdIn] = R(Source(c)) /\ f[StdOut] = W(Sink(c)) /\ f[StdIn] \in Ends /\ f[StdOut] \in Ends
    BY <1>3, <1>4 DEF Fitted
  <2>7. g[StdIn] = f[StdIn] /\ g[StdOut] = f[StdOut]
    BY <1>7, <2>5 DEF Std
  <2>8. \A i \in 1 .. Len(t) : t[i][1] # "dup2"
    BY <1>6
  <2> QED BY <2>1, <2>5, <2>6, <2>7, <2>8 DEF Fitted
<1>9. /\ code' \in [Threads \cup Writers \cup Children -> Seq(ParentCalls \cup ChildCalls)]
      /\ \A y \in Threads : code'[y] \in Seq(ParentCalls)
      /\ \A e \in Children : code'[e] \in Seq(ChildCalls)
      /\ \A e \in Children : e # c => code'[e] = code[e]
      /\ code'[c] = t /\ DOMAIN fds' = Processes
      /\ \A e : Forking(e)' <=> Forking(e)
      /\ \A e, n : PendingWrite(e, n)' <=> PendingWrite(e, n)
      /\ \A e : code'[ThreadOf(e)] = code[ThreadOf(e)]
      /\ Text' /\ Childhood' /\ Parenthood' /\ Waiting' /\ Supplying'
  BY <1>1, <1>5, <1>6, <1>8, ChildFrame
<1>10. Types'
  BY <1>0, <1>1, <1>9, Steady DEF Types
<1>11. Flow'
  <2>1. \A e \in Kids : Done(e)' <=> Done(e)
    BY <1>0, <1>1, <1>6, <1>9 DEF Done
  <2>2. Good' => Good
    BY <1>1 DEF Good
  <2> QED BY <1>0, <1>1, <1>9, <2>1, <2>2, FlowStep
<1> QED BY <1>9, <1>10, <1>11 DEF PInv

\* What the children of a pipeline read and write.
LEMMA Wiring ==
    ASSUME run \in Runs
    PROVE  /\ \A c \in Kids : Source(c) \in Objects /\ Sink(c) \in Objects /\ Source(c) # Sink(c)
           /\ \A c, e \in Kids : (Source(c) = Source(e) => c = e) /\ (Sink(c) = Sink(e) => c = e)
           /\ ~Filters => \A c \in Kids :
                 /\ Last(c) \/ (NextOf(c) \in Kids /\ Source(NextOf(c)) = Sink(c) /\ Sink(c) \in Pipes /\ NextOf(c) # c)
                 /\ Last(c) => \A e \in Kids : Source(e) # Sink(c)
                 /\ \A e \in Kids : Source(e) = Sink(c) => ~Last(c) /\ e = NextOf(c) /\ ~First(e) /\ PrevOf(e) = c
                 /\ ~First(c) => Source(c) \in Pipes /\ PrevOf(c) \in Kids /\ Sink(PrevOf(c)) = Source(c)
                                   /\ ~Last(PrevOf(c)) /\ NextOf(PrevOf(c)) = c
                 /\ {Source(c), Sink(c)} \cap {<<IF run.input THEN "std" ELSE "file", "in">>,
                                               <<IF run.output THEN "std" ELSE "file", "out">>} = {}
           /\ Filters => \A c \in Kids : Source(c) = Supply(c) /\ Sink(c) = Ingest(c)
<1>1. /\ run.input \in BOOLEAN /\ run.output \in BOOLEAN /\ run.stages \in 1 .. 3
      /\ Kids \subseteq Children
  BY RunKinds, KidsAre
<1>2. CASE Filters
  <2>1. \A c : Source(c) = Supply(c) /\ Sink(c) = Ingest(c)
    BY <1>2 DEF Source, Sink
  <2> QED BY <1>1, <1>2, <2>1, PipesAreObjects
<1>3. CASE ~Filters
  <2>1. \A c \in Children : /\ Source(c) = IF c = "c1" THEN <<IF run.input THEN "file" ELSE "std", "in">>
                                           ELSE ToNext(PrevOf(c))
                            /\ Sink(c) = IF Last(c) THEN <<IF run.output THEN "file" ELSE "std", "out">>
                                         ELSE ToNext(c)
    BY <1>3 DEF Source, Sink, First
  <2>2. \A c \in Children : ToNext(c) = <<c, "next">> /\ ToNext(c) \in Pipes /\ ToNext(c) \in Objects
    BY PipesAreObjects DEF ToNext
  <2>3. /\ <<"file", "in">> \in Objects /\ <<"std", "in">> \in Objects
        /\ <<"file", "out">> \in Objects /\ <<"std", "out">> \in Objects
    BY DEF Objects, Files
  <2>4. \A c \in Kids : Last(c) \/ (NextOf(c) \in Kids /\ PrevOf(NextOf(c)) = c /\ NextOf(c) # "c1")
    BY KidsAre
  <2>5. \A c \in Kids : c = "c1" \/ (PrevOf(c) \in Kids /\ NextOf(PrevOf(c)) = c /\ ~Last(PrevOf(c)))
    BY KidsAre
  <2>6. \A c, e : Last(c) /\ Last(e) => c = e
    BY DEF Last
  <2>7. PICK i, o : /\ i = <<IF run.input THEN "file" ELSE "std", "in">>
                    /\ o = <<IF run.output THEN "file" ELSE "std", "out">>
    OBVIOUS
  <2>8. /\ i \in Objects /\ o \in Objects /\ i # o
        /\ \A c \in Children : i # ToNext(c) /\ o # ToNext(c)
    BY <1>1, <2>2, <2>3, <2>7
  <2>9. \A c \in Children : /\ Source(c) = IF c = "c1" THEN i ELSE ToNext(PrevOf(c))
                            /\ Sink(c) = IF Last(c) THEN o ELSE ToNext(c)
    BY <2>1, <2>7
  <2>10. \A c, e \in Children : ToNext(c) = ToNext(e) => c = e
    BY PipesAreObjects
  <2>11. \A c \in Kids : c = "c1" \/ (PrevOf(c) \in Children /\ PrevOf(c) # c)
    BY <1>1 DEF PrevOf, Children
  <2>12. \A c \in Kids : Source(c) \in Objects /\ Sink(c) \in Objects /\ Source(c) # Sink(c)
    BY <1>1, <2>2, <2>8, <2>9, <2>10, <2>11
  <2>13. \A c, e \in Kids : (Source(c) = Source(e) => c = e) /\ (Sink(c) = Sink(e) => c = e)
    <3>1. ASSUME NEW c \in Kids, NEW e \in Kids, Sink(c) = Sink(e) PROVE c = e
      BY <1>1, <2>6, <2>8, <2>9, <2>10, <3>1
    <3>2. ASSUME NEW c \in Kids, NEW e \in Kids, Source(c) = Source(e) PROVE c = e
      BY <1>1, <2>5, <2>8, <2>9, <2>10, <3>2
    <3> QED BY <3>1, <3>2
  <2>14. ASSUME NEW c \in Kids
         PROVE  Last(c) \/ (NextOf(c) \in Kids /\ Source(NextOf(c)) = Sink(c) /\ Sink(c) \in Pipes /\ NextOf(c) # c)
    <3>1. NextOf(c) # c \/ Last(c)
      BY <1>1, <2>4, <2>11
    <3> QED BY <1>1, <2>2, <2>4, <2>9, <3>1
  <2>15. ASSUME NEW c \in Kids, NEW e \in Kids, Source(e) = Sink(c)
         PROVE  ~Last(c) /\ e = NextOf(c) /\ ~First(e) /\ PrevOf(e) = c
    <3>1. c \in Children /\ e \in Children
      BY <1>1
    <3>2. e # "c1"
      BY <2>8, <2>9, <2>15, <3>1
    <3>3. PrevOf(e) \in Kids /\ NextOf(PrevOf(e)) = e /\ ~Last(PrevOf(e))
      BY <2>5, <3>2
    <3>4. ToNext(PrevOf(e)) = Sink(c)
      BY <2>9, <2>15, <3>1, <3>2
    <3>5. ~Last(c)
      BY <1>1, <2>8, <2>9, <3>1, <3>3, <3>4
    <3>6. PrevOf(e) = c
      BY <1>1, <2>9, <2>10, <3>1, <3>3, <3>4, <3>5
    <3> QED BY <3>2, <3>3, <3>5, <3>6 DEF First
  <2>16. ASSUME NEW c \in Kids, ~First(c)
         PROVE  Source(c) \in Pipes /\ PrevOf(c) \in Kids /\ Sink(PrevOf(c)) = Source(c)
                /\ ~Last(PrevOf(c)) /\ NextOf(PrevOf(c)) = c
    BY <1>1, <2>2, <2>5, <2>9, <2>16 DEF First
  <2>17. ASSUME NEW c \in Kids
         PROVE  {Source(c), Sink(c)} \cap {<<IF run.input THEN "std" ELSE "file", "in">>,
                                           <<IF run.output THEN "std" ELSE "file", "out">>} = {}
    <3>1. PICK k, l : k = <<IF run.input THEN "std" ELSE "file", "in">> /\ l = <<IF run.output THEN "std" ELSE "file", "out">>
      OBVIOUS
    <3>2. k # i /\ k # o /\ l # i /\ l # o /\ \A e \in Children : k # ToNext(e) /\ l # ToNext(e)
      BY <1>1, <2>2, <2>7, <3>1
    <3>3. Source(c) \notin {k, l} /\ Sink(c) \notin {k, l}
      BY <1>1, <2>9, <2>11, <3>2
    <3> QED BY <3>1, <3>3
  <2> QED BY <1>3, <2>12, <2>13, <2>14, <2>15, <2>16, <2>17
<1> QED BY <1>2, <1>3

\* A program that runs has its input and output and nothing else.
LEMMA Programs ==
    ASSUME PInv, NEW c \in Children, At(c, "program")
    PROVE  /\ code[c] # <<>> /\ c \in Kids /\ ~Forking(c) /\ ~Done(c)
           /\ DOMAIN fds[c] = Std /\ In(c) = Source(c) /\ Out(c) = Sink(c)
<1>0. Types /\ Childhood /\ run \in Runs
  BY DEF PInv, Types
<1>1. code[c] # <<>> /\ Head(code[c])[1] = "program"
  BY DEF At
<1>2. c \in Kids /\ ~Forking(c)
  BY <1>0, <1>1 DEF Childhood
<1>3. PICK s, f, k : s = code[c] /\ f = fds[c] /\ k = <<"program">>
  OBVIOUS
<1>4. k[1] = "program"
  BY <1>3
<1>5. Len(s) = 1 /\ s[1] = k /\ Fitted(c, s, f, cloexec)
  BY <1>0, <1>1, <1>3, <1>4, Alone
<1>6. \A call : Has(s, call) => call = k
  BY <1>5 DEF Has
<1>7. DOMAIN f = Std
  <2>1. \A d \in DOMAIN f \ Std : Closes(s, d) \/ Has(s, <<"exec">>)
    BY <1>5 DEF Fitted
  <2>2. \A d : ~Closes(s, d)
    BY <1>3, <1>6 DEF Closes
  <2>3. ~Has(s, <<"exec">>)
    BY <1>3, <1>6
  <2> QED BY <1>5, <2>1, <2>2, <2>3 DEF Fitted
<1>8. f[StdIn] = R(Source(c)) /\ f[StdOut] = W(Sink(c))
  <2>1. ~Has(s, <<"dup2", R(Source(c)), StdIn>>) /\ ~Has(s, <<"dup2", W(Sink(c)), StdOut>>)
    BY <1>3, <1>6
  <2> QED BY <1>5, <2>1 DEF Fitted
<1>9. Source(c) \in Objects /\ Sink(c) \in Objects
  BY <1>0, <1>2, Wiring
<1>10. In(c) = Source(c) /\ Out(c) = Sink(c)
  BY <1>3, <1>8, <1>9, EndsOf DEF In, Out
<1> QED BY <1>1, <1>2, <1>3, <1>7, <1>10 DEF Done

\* Only data moves.
LEMMA DataFrame ==
    ASSUME PInv, run' = run, UNCHANGED <<code, fds, cloexec, died, gaveUp, reaped>>
    PROVE  /\ Text' /\ Childhood' /\ Parenthood' /\ Waiting' /\ Supplying'
           /\ \A e : Done(e)' <=> Done(e)
           /\ \A e, n : PendingWrite(e, n)' <=> PendingWrite(e, n)
<1>0. Types /\ Text /\ Childhood /\ Parenthood /\ Waiting /\ Supplying
  BY DEF PInv
<1>1. Text'
  BY <1>0, TextStep
<1>2. \A e : Forking(e)' <=> Forking(e)
  BY DEF Forking
<1>3. Childhood'
  <2>1. \A e \in Children : code'[e] = code[e] /\ fds'[e] = fds[e]
    OBVIOUS
  <2>2. cloexec \subseteq cloexec'
    OBVIOUS
  <2> QED BY <1>0, <1>2, <2>1, <2>2, ChildhoodSame
<1>4. \A d : WillClose(d)' <=> WillClose(d)
  BY DEF WillClose
<1>5. \A e, n : PendingWrite(e, n)' <=> PendingWrite(e, n)
  BY DEF PendingWrite
<1>6. Parenthood'
  BY <1>0, <1>4, ParenthoodKept
<1>7. Waiting'
  BY <1>0, <1>2, Steady DEF Waiting
<1>8. Supplying'
  BY <1>0, <1>5, Steady DEF Supplying
<1>9. \A e : Done(e)' <=> Done(e)
  BY <1>2 DEF Done
<1> QED BY <1>1, <1>3, <1>5, <1>6, <1>7, <1>8, <1>9

LEMMA ProgramReadInv ==
    ASSUME PInv, NEW c \in Children, ProgramRead(c)
    PROVE  PInv'
<1>0. Types /\ Flow /\ run \in Runs /\ Kids \subseteq Children
  BY KidsAre DEF PInv, Types
<1>1. c \in Kids /\ ~Done(c) /\ In(c) = Source(c)
  BY Programs DEF ProgramRead
<1>2. PICK o : o = Source(c)
  OBVIOUS
<1>3. /\ content[o] > 0 /\ content' = [content EXCEPT ![o] = content[o] - 1]
      /\ owed' = [owed EXCEPT ![c] = owed[c] + Expansion]
      /\ took' = [took EXCEPT ![c] = took[c] + 1]
      /\ run' = run /\ UNCHANGED <<code, fds, cloexec, got, died, gaveUp, quit, reaped>>
  BY <1>1, <1>2 DEF ProgramRead
<1>4. /\ o \in Objects /\ content \in [Objects -> Nat] /\ content[o] \in Nat /\ content[o] - 1 \in Nat
      /\ owed \in [Children -> Nat] /\ took \in [Children -> Nat] /\ got \in [Threads -> Nat]
      /\ owed[c] \in Nat /\ took[c] \in Nat /\ Expansion \in Nat
  BY <1>0, <1>1, <1>2, <1>3, SizesAssumption, Wiring DEF Types
<1>5. /\ content'[o] = content[o] - 1 /\ \A p \in Objects : p # o => content'[p] = content[p]
      /\ owed'[c] = owed[c] + Expansion /\ \A e \in Children : e # c => owed'[e] = owed[e]
      /\ took'[c] = took[c] + 1 /\ \A e \in Children : e # c => took'[e] = took[e]
  BY <1>3, <1>4
<1>6. Types'
  <2>1. o \notin Files => content[o] - 1 =< Capacity
    BY <1>0, <1>4, SizesAssumption DEF Types
  <2>2. content' \in [Objects -> Nat] /\ \A p \in Objects \ Files : content'[p] =< Capacity
    BY <1>0, <1>3, <1>4, <2>1, ContentTypes
  <2>3. owed' \in [Children -> Nat] /\ took' \in [Children -> Nat]
    BY <1>3, <1>4
  <2> QED BY <1>0, <1>3, <2>2, <2>3, Steady DEF Types
<1>7. /\ Text' /\ Childhood' /\ Parenthood' /\ Waiting' /\ Supplying'
      /\ \A e : Done(e)' <=> Done(e)
      /\ \A e, n : PendingWrite(e, n)' <=> PendingWrite(e, n)
  BY <1>3, DataFrame
<1>8. took'[c] * Expansion = took[c] * Expansion + Expansion
  BY <1>4, <1>5
<1>9. ASSUME Good', Filters, NEW e \in Kids PROVE FilterFlow(e)'
  <2>1. FilterFlow(e)
    BY <1>0, <1>3, <1>9 DEF Flow, Good
  <2>2. e \in Children /\ Supply(e) \in Objects /\ Ingest(e) \in Objects /\ o = Supply(c) /\ Ingest(e) # o
    BY <1>0, <1>1, <1>2, <1>9, PipesAreObjects, Wiring
  <2>3. content'[Ingest(e)] = content[Ingest(e)] /\ content[Ingest(e)] \in Nat /\ got[ThreadOf(e)] \in Nat
    BY <1>4, <1>5, <2>2, Partners
  <2>4. CASE e = c
    <3>1. \A n \in Nat : PendingWrite(e, n)' => content'[Supply(e)] + took'[e] + n = Input
      <4>1. \A n \in Nat : PendingWrite(e, n) => content[o] + took[c] + n = Input
        BY <2>1, <2>2, <2>4 DEF FilterFlow
      <4> QED BY <1>4, <1>5, <1>7, <2>2, <2>4, <4>1
    <3>2. (\A n \in Nat : ~PendingWrite(e, n)') => content'[Supply(e)] + took'[e] = Input
      <4>1. (\A n \in Nat : ~PendingWrite(e, n)) => content[o] + took[c] = Input
        BY <2>1, <2>2, <2>4 DEF FilterFlow
      <4> QED BY <1>4, <1>5, <1>7, <2>2, <2>4, <4>1
    <3>3. took'[e] * Expansion = owed'[e] + content'[Ingest(e)] + got[ThreadOf(e)]
      <4>1. took[c] * Expansion = owed[c] + content[Ingest(c)] + got[ThreadOf(c)]
        BY <2>1, <2>4 DEF FilterFlow
      <4> QED BY <1>4, <1>5, <1>8, <2>3, <2>4, <4>1
    <3>4. Reads(code[ThreadOf(e)])
      BY <1>1, <2>1, <2>4 DEF FilterFlow
    <3> QED BY <1>1, <1>3, <1>7, <2>4, <3>1, <3>2, <3>3, <3>4 DEF FilterFlow
  <2>5. CASE e # c
    <3>1. content'[Supply(e)] = content[Supply(e)] /\ owed'[e] = owed[e] /\ took'[e] = took[e]
      BY <1>0, <1>1, <1>5, <2>2, <2>5, PipesAreObjects
    <3> QED BY <1>3, <1>7, <2>1, <2>3, <3>1 DEF FilterFlow
  <2> QED BY <2>4, <2>5
<1>10. ASSUME Good', ~Filters, NEW e \in Kids PROVE StageFlow(e)'
  <2>1. StageFlow(e)
    BY <1>0, <1>3, <1>10 DEF Flow, Good
  <2>2. e \in Children /\ Source(e) \in Objects /\ Sink(e) \in Objects /\ (Source(e) = o => e = c)
    BY <1>0, <1>1, <1>2, Wiring
  <2>3. First(e) => content'[Source(e)] + took'[e] = Input
    <3>1. First(e) => content[Source(e)] + took[e] = Input
      BY <2>1 DEF StageFlow
    <3>2. CASE e = c
      BY <1>2, <1>4, <1>5, <3>1, <3>2
    <3>3. CASE e # c
      BY <1>5, <2>2, <3>1, <3>3
    <3> QED BY <3>2, <3>3
  <2>4. PICK k, l, m, n : /\ k = took[e] * Expansion /\ l = owed[e] /\ m = content[Sink(e)]
                          /\ n = IF Last(e) THEN 0 ELSE took[NextOf(e)]
    OBVIOUS
  <2>5. k = l + m + n
    BY <2>1, <2>4 DEF StageFlow
  <2>6. ~Last(e) => NextOf(e) \in Children /\ Source(NextOf(e)) = Sink(e) /\ NextOf(e) # e /\ NextOf(e) \in Kids
    BY <1>0, <1>10, Wiring
  <2>7. l \in Nat /\ m \in Nat /\ n \in Nat
    BY <1>4, <2>2, <2>4, <2>6
  <2>8. took'[e] * Expansion = owed'[e] + content'[Sink(e)] + (IF Last(e) THEN 0 ELSE took'[NextOf(e)])
    <3>1. CASE e = c
      <4>1. Sink(e) # o /\ content'[Sink(e)] = m
        BY <1>0, <1>2, <1>5, <2>2, <2>4, <3>1, Wiring
      <4>2. (IF Last(e) THEN 0 ELSE took'[NextOf(e)]) = n
        BY <1>5, <2>4, <2>6, <3>1
      <4>3. took'[e] * Expansion = k + Expansion /\ owed'[e] = l + Expansion
        BY <1>5, <1>8, <2>4, <3>1
      <4> QED BY <1>4, <2>5, <2>7, <4>1, <4>2, <4>3
    <3>2. CASE e # c
      <4>1. took'[e] * Expansion = k /\ owed'[e] = l
        BY <1>5, <2>2, <2>4, <3>2
      <4>2. CASE Sink(e) = o
        <5>1. ~Last(e) /\ c = NextOf(e)
          BY <1>0, <1>1, <1>2, <1>10, <4>2, Wiring
        <5>2. content'[Sink(e)] = m - 1 /\ took'[NextOf(e)] = n + 1 /\ ~Last(e)
          BY <1>5, <2>4, <4>2, <5>1
        <5>3. m > 0
          BY <1>3, <2>4, <4>2
        <5> QED BY <2>5, <2>7, <4>1, <5>2, <5>3
      <4>3. CASE Sink(e) # o
        <5>1. content'[Sink(e)] = m
          BY <1>5, <2>2, <2>4, <4>3
        <5>2. ~Last(e) => NextOf(e) # c
          BY <1>2, <2>6, <4>3
        <5>3. (IF Last(e) THEN 0 ELSE took'[NextOf(e)]) = n
          BY <1>5, <2>4, <2>6, <5>2
        <5> QED BY <2>5, <4>1, <5>1, <5>3
      <4> QED BY <4>2, <4>3
    <3> QED BY <3>1, <3>2
  <2>9. Done(e) => /\ owed'[e] = 0 /\ content'[Source(e)] = 0
                   /\ ~First(e) => Done(PrevOf(e))
    <3>1. Done(e) => e # c
      BY <1>1
    <3> QED BY <1>5, <2>1, <2>2, <3>1 DEF StageFlow
  <2> QED BY <1>3, <1>7, <2>3, <2>8, <2>9, Steady DEF StageFlow
<1>11. ASSUME Good', ~Filters PROVE Unused'
  <2>1. PICK k, l : k = <<IF run.input THEN "std" ELSE "file", "in">> /\ l = <<IF run.output THEN "std" ELSE "file", "out">>
    OBVIOUS
  <2>2. content[k] = Input /\ content[l] = 0
    BY <1>0, <1>3, <1>11, <2>1 DEF Flow, Good, Unused
  <2>3. {Source(c), Sink(c)} \cap {k, l} = {}
    BY <1>0, <1>1, <1>11, <2>1, Wiring
  <2>4. k # o /\ l # o /\ k \in Objects /\ l \in Objects
    BY <1>2, <2>1, <2>3 DEF Objects, Files
  <2> QED BY <1>3, <1>5, <2>1, <2>2, <2>4 DEF Unused
<1>12. Flow'
  BY <1>3, <1>9, <1>10, <1>11, Steady DEF Flow
<1> QED BY <1>6, <1>7, <1>12 DEF PInv

LEMMA ProgramWriteInv ==
    ASSUME PInv, NEW c \in Children, ProgramWrite(c)
    PROVE  PInv'
<1>0. Types /\ Flow /\ run \in Runs /\ Kids \subseteq Children
  BY KidsAre DEF PInv, Types
<1>1. c \in Kids /\ ~Done(c) /\ Out(c) = Sink(c)
  BY Programs DEF ProgramWrite
<1>2. PICK o : o = Sink(c)
  OBVIOUS
<1>3. /\ content' = [content EXCEPT ![o] = content[o] + 1] /\ (o \in Files \/ content[o] < Capacity)
      /\ owed[c] > 0 /\ owed' = [owed EXCEPT ![c] = owed[c] - 1]
      /\ run' = run /\ UNCHANGED <<code, fds, cloexec, took, got, died, gaveUp, quit, reaped>>
  BY <1>1, <1>2 DEF ProgramWrite
<1>4. /\ o \in Objects /\ content \in [Objects -> Nat] /\ content[o] \in Nat /\ content[o] + 1 \in Nat
      /\ owed \in [Children -> Nat] /\ took \in [Children -> Nat] /\ got \in [Threads -> Nat]
      /\ owed[c] \in Nat /\ owed[c] - 1 \in Nat /\ took[c] \in Nat
  BY <1>0, <1>1, <1>2, <1>3, Wiring DEF Types
<1>5. /\ content'[o] = content[o] + 1 /\ \A p \in Objects : p # o => content'[p] = content[p]
      /\ owed'[c] = owed[c] - 1 /\ \A e \in Children : e # c => owed'[e] = owed[e]
  BY <1>3, <1>4
<1>6. Types'
  <2>1. o \notin Files => content[o] + 1 =< Capacity
    BY <1>3, <1>4, SizesAssumption
  <2>2. content' \in [Objects -> Nat] /\ \A p \in Objects \ Files : content'[p] =< Capacity
    BY <1>0, <1>3, <1>4, <2>1, ContentTypes
  <2>3. owed' \in [Children -> Nat]
    BY <1>3, <1>4
  <2> QED BY <1>0, <1>3, <2>2, <2>3, Steady DEF Types
<1>7. /\ Text' /\ Childhood' /\ Parenthood' /\ Waiting' /\ Supplying'
      /\ \A e : Done(e)' <=> Done(e)
      /\ \A e, n : PendingWrite(e, n)' <=> PendingWrite(e, n)
  BY <1>3, DataFrame
<1>9. ASSUME Good', Filters, NEW e \in Kids PROVE FilterFlow(e)'
  <2>1. FilterFlow(e)
    BY <1>0, <1>3, <1>9 DEF Flow, Good
  <2>2. e \in Children /\ Supply(e) \in Objects /\ Ingest(e) \in Objects /\ o = Ingest(c) /\ Supply(e) # o
    BY <1>0, <1>1, <1>2, <1>9, PipesAreObjects, Wiring
  <2>3. content'[Supply(e)] = content[Supply(e)] /\ content[Ingest(e)] \in Nat /\ got[ThreadOf(e)] \in Nat
    BY <1>4, <1>5, <2>2, Partners
  <2>4. CASE e = c
    <3>3. took[e] * Expansion = owed'[e] + content'[Ingest(e)] + got[ThreadOf(e)]
      <4>1. took[c] * Expansion = owed[c] + content[Ingest(c)] + got[ThreadOf(c)]
        BY <2>1, <2>4 DEF FilterFlow
      <4> QED BY <1>4, <1>5, <2>2, <2>3, <2>4, <4>1
    <3>4. Reads(code[ThreadOf(e)])
      BY <1>1, <2>1, <2>4 DEF FilterFlow
    <3> QED BY <1>1, <1>3, <1>7, <2>1, <2>3, <2>4, <3>3, <3>4 DEF FilterFlow
  <2>5. CASE e # c
    <3>1. content'[Ingest(e)] = content[Ingest(e)] /\ owed'[e] = owed[e]
      BY <1>0, <1>1, <1>5, <2>2, <2>5, PipesAreObjects
    <3> QED BY <1>3, <1>7, <2>1, <2>3, <3>1 DEF FilterFlow
  <2> QED BY <2>4, <2>5
<1>10. ASSUME Good', ~Filters, NEW e \in Kids PROVE StageFlow(e)'
  <2>1. StageFlow(e)
    BY <1>0, <1>3, <1>10 DEF Flow, Good
  <2>2. e \in Children /\ Source(e) \in Objects /\ Sink(e) \in Objects /\ (Sink(e) = o => e = c)
    BY <1>0, <1>1, <1>2, Wiring
  <2>3. First(e) => content'[Source(e)] + took[e] = Input
    <3>1. First(e) => Source(e) # o
      BY <1>0, <1>1, <1>2, <1>10, Wiring
    <3> QED BY <1>5, <2>1, <2>2, <3>1 DEF StageFlow
  <2>4. PICK k, l, m, n : /\ k = took[e] * Expansion /\ l = owed[e] /\ m = content[Sink(e)]
                          /\ n = IF Last(e) THEN 0 ELSE took[NextOf(e)]
    OBVIOUS
  <2>5. k = l + m + n
    BY <2>1, <2>4 DEF StageFlow
  <2>6. ~Last(e) => NextOf(e) \in Children
    BY <1>0, <1>10, Wiring
  <2>7. l \in Nat /\ m \in Nat /\ n \in Nat
    BY <1>4, <2>2, <2>4, <2>6
  <2>8. k = owed'[e] + content'[Sink(e)] + n
    <3>1. CASE e = c
      <4>1. content'[Sink(e)] = m + 1 /\ owed'[e] = l - 1
        BY <1>2, <1>5, <2>4, <3>1
      <4> QED BY <2>5, <2>7, <4>1
    <3>2. CASE e # c
      BY <1>5, <2>2, <2>4, <2>5, <3>2
    <3> QED BY <3>1, <3>2
  <2>9. Done(e) => /\ owed'[e] = 0 /\ content'[Source(e)] = 0
                   /\ ~First(e) => Done(PrevOf(e))
    <3>1. Done(e) => e # c
      BY <1>1
    <3>2. Done(e) => Source(e) # o
      <4>1. Source(e) = o => ~First(e) /\ PrevOf(e) = c
        BY <1>0, <1>1, <1>2, <1>10, Wiring
      <4>2. Done(e) /\ ~First(e) => Done(PrevOf(e))
        BY <2>1 DEF StageFlow
      <4> QED BY <1>1, <4>1, <4>2
    <3> QED BY <1>5, <2>1, <2>2, <3>1, <3>2 DEF StageFlow
  <2> QED BY <1>3, <1>7, <2>3, <2>4, <2>8, <2>9, Steady DEF StageFlow
<1>11. ASSUME Good', ~Filters PROVE Unused'
  <2>1. PICK k, l : k = <<IF run.input THEN "std" ELSE "file", "in">> /\ l = <<IF run.output THEN "std" ELSE "file", "out">>
    OBVIOUS
  <2>2. content[k] = Input /\ content[l] = 0
    BY <1>0, <1>3, <1>11, <2>1 DEF Flow, Good, Unused
  <2>3. {Source(c), Sink(c)} \cap {k, l} = {}
    BY <1>0, <1>1, <1>11, <2>1, Wiring
  <2>4. k # o /\ l # o /\ k \in Objects /\ l \in Objects
    BY <1>2, <2>1, <2>3 DEF Objects, Files
  <2> QED BY <1>3, <1>5, <2>1, <2>2, <2>4 DEF Unused
<1>12. Flow'
  BY <1>3, <1>9, <1>10, <1>11, Steady DEF Flow
<1> QED BY <1>6, <1>7, <1>12 DEF PInv

\* A child ends.
LEMMA ExitFrame ==
    ASSUME PInv, NEW c \in Children, code[c] # <<>>, Exit(c), quit' \subseteq Children
    PROVE  /\ Types' /\ Text' /\ Childhood' /\ Parenthood' /\ Waiting' /\ Supplying'
           /\ \A e : Forking(e)' <=> Forking(e)
           /\ \A e, n : PendingWrite(e, n)' <=> PendingWrite(e, n)
           /\ \A e : code'[ThreadOf(e)] = code[ThreadOf(e)]
           /\ code'[c] = <<>> /\ \A e \in Children : e # c => code'[e] = code[e]
           /\ run' = run /\ UNCHANGED <<content, owed, took, got, died, gaveUp>>
<1>0. Types
  BY DEF PInv
<1>1. /\ run' = run /\ UNCHANGED <<cloexec, content, owed, took, got, died, gaveUp, reaped>>
      /\ code' = [code EXCEPT ![c] = <<>>] /\ fds' = [fds EXCEPT ![c] = NoTable]
  BY DEF Exit
<1>2. PICK t, f : t = <<>> /\ f = NoTable
  OBVIOUS
<1>3. t \in Seq(ChildCalls) /\ ~(t # <<>>) /\ code' = [code EXCEPT ![c] = t] /\ fds' = [fds EXCEPT ![c] = f]
  BY <1>1, <1>2
<1>4. /\ code' \in [Threads \cup Writers \cup Children -> Seq(ParentCalls \cup ChildCalls)]
      /\ \A y \in Threads : code'[y] \in Seq(ParentCalls)
      /\ \A e \in Children : code'[e] \in Seq(ChildCalls)
      /\ \A e \in Children : e # c => code'[e] = code[e]
      /\ code'[c] = t /\ DOMAIN fds' = Processes
      /\ \A e : Forking(e)' <=> Forking(e)
      /\ \A e, n : PendingWrite(e, n)' <=> PendingWrite(e, n)
      /\ \A e : code'[ThreadOf(e)] = code[ThreadOf(e)]
      /\ Text' /\ Childhood' /\ Parenthood' /\ Waiting' /\ Supplying'
  BY <1>1, <1>2, <1>3, ChildFrame
<1>5. Types'
  BY <1>0, <1>1, <1>4, Steady DEF Types
<1> QED BY <1>1, <1>2, <1>4, <1>5

LEMMA ProgramQuitInv ==
    ASSUME PInv, NEW c \in Children, code[c] # <<>>, Exit(c), quit' = quit \cup {c}
    PROVE  PInv'
<1>1. quit' \subseteq Children
  BY DEF PInv, Types
<1>2. Types' /\ Text' /\ Childhood' /\ Parenthood' /\ Waiting' /\ Supplying'
  BY <1>1, ExitFrame
<1>3. Flow'
  BY DEF Flow, Good
<1> QED BY <1>2, <1>3 DEF PInv

\* It has read to end of file: everybody before it has ended, and nothing is still to be
\* written to it.
LEMMA EndOfFile ==
    ASSUME PInv, NEW c \in Children, At(c, "program"), AtEnd(Source(c)), ~died
    PROVE  /\ content[Source(c)] = 0
           /\ Filters => \A n \in Nat : ~PendingWrite(c, n)
           /\ ~Filters /\ ~First(c) => Done(PrevOf(c))
<1>0. /\ Types /\ Text /\ Childhood /\ Parenthood /\ Supplying /\ run \in Runs /\ Kids \subseteq Children
      /\ \A x \in Threads : Orderly(x, code[x])
  BY KidsAre DEF PInv, Types, Text
<1>1. c \in Kids /\ ~Forking(c)
  BY Programs
<1>2. ASSUME Filters, NEW n \in Nat, PendingWrite(c, n) PROVE FALSE
  <2>1. Source(c) = Supply(c) /\ Supply(c) \notin Files
    BY <1>0, <1>1, <1>2, PipesAreObjects, Wiring
  <2>2. ~Open(W(Supply(c)))
    BY <2>1 DEF AtEnd
  <2>3. W(Supply(c)) \notin DOMAIN fds[Parent]
    <3>1. \A d \in DOMAIN fds[Parent] : fds[Parent][d] = d
      BY <1>0 DEF Parenthood
    <3> QED BY <2>2, <3>1 DEF Open, Processes
  <2>4. PICK x, s : x = ThreadOf(c) /\ s = code[x]
    OBVIOUS
  <2>5. x \in Threads /\ Of(x) = c
    BY <1>0, <1>1, <1>2, <2>4, KidsAre, Partners
  <2>6. Makes(s, c)
    BY <1>0, <1>1, <1>2, <2>3, <2>4 DEF Supplying
  <2>7. PICK i \in 1 .. Len(s) : s[i] \in {<<"pipe", Supply(c)>>, <<"pipe2", Supply(c)>>}
    BY <2>6 DEF Makes
  <2>8. s[i][1] \in {"pipe", "pipe2"}
    BY <2>7
  <2>9. Serves(c, s)
    BY <1>0, <1>2, <2>4, <2>5 DEF Orderly
  <2>10. PICK j \in 1 .. Len(s) : s[j][1] = "fork"
    BY <2>8, <2>9 DEF Serves
  <2>11. s[j][2] = c
    BY <2>9, <2>10 DEF Serves
  <2>12. Forks(s, c)
    BY <2>10, <2>11 DEF Forks
  <2> QED BY <1>1, <2>4, <2>5, <2>12 DEF Forking
<1>3. ASSUME ~Filters, ~First(c) PROVE Done(PrevOf(c))
  <2>1. PICK p : p = PrevOf(c)
    OBVIOUS
  <2>2. p \in Kids /\ p \in Children /\ Sink(p) = Source(c) /\ Source(c) \in Pipes /\ ~Last(p) /\ NextOf(p) = c
    BY <1>0, <1>1, <1>3, <2>1, Wiring
  <2>3. ~Open(W(Source(c)))
    BY <2>2, PipesAreObjects DEF AtEnd
  <2>4. code[p] = <<>>
    BY <1>0, <2>2, <2>3, Holds
  <2>5. ASSUME NEW x \in Threads, Forks(code[x], p) PROVE FALSE
    <3>1. PICK s : s = code[x]
      OBVIOUS
    <3>2. PICK i \in 1 .. Len(s) : s[i][1] = "fork" /\ s[i][2] = p
      BY <2>5, <3>1 DEF Forks
    <3>3. ForksOnce(s)
      BY <1>0, <3>1 DEF Orderly
    <3>4. PICK j \in 1 .. Len(s) : j > i /\ s[j][1] = "fork" /\ s[j][2] = NextOf(s[i][2])
      BY <1>3, <2>2, <3>2, <3>3 DEF ForksOnce
    <3>5. Forks(s, c)
      BY <2>2, <3>2, <3>4 DEF Forks
    <3> QED BY <1>1, <3>1, <3>5 DEF Forking
  <2> QED BY <2>1, <2>4, <2>5 DEF Done, Forking
<1> QED BY <1>2, <1>3 DEF AtEnd

LEMMA ProgramExitInv ==
    ASSUME PInv, NEW c \in Children, ProgramExit(c)
    PROVE  PInv'
<1>0. Types /\ Flow /\ run \in Runs /\ Kids \subseteq Children
  BY KidsAre DEF PInv, Types
<1>1. At(c, "program") /\ Exit(c)
  BY DEF ProgramExit
<1>2. code[c] # <<>> /\ c \in Kids /\ ~Done(c) /\ ~Forking(c) /\ In(c) = Source(c)
  BY <1>1, Programs
<1>3. CASE quit' = quit \cup {c}
  BY <1>1, <1>2, <1>3, ProgramQuitInv
<1>4. CASE owed[c] = 0 /\ AtEnd(Source(c)) /\ UNCHANGED quit
  <2>1. /\ Types' /\ Text' /\ Childhood' /\ Parenthood' /\ Waiting' /\ Supplying'
        /\ \A e : Forking(e)' <=> Forking(e)
        /\ \A e, n : PendingWrite(e, n)' <=> PendingWrite(e, n)
        /\ \A e : code'[ThreadOf(e)] = code[ThreadOf(e)]
        /\ code'[c] = <<>> /\ \A e \in Children : e # c => code'[e] = code[e]
        /\ run' = run /\ UNCHANGED <<content, owed, took, got, died, gaveUp>>
    <3>1. quit' \subseteq Children
      BY <1>0, <1>4 DEF Types
    <3> QED BY <1>1, <1>2, <3>1, ExitFrame
  <2>2. Done(c)' /\ \A e \in Children : e # c => (Done(e)' <=> Done(e))
    BY <1>2, <2>1 DEF Done
  <2>3. SUFFICES ASSUME Good' PROVE Flow'
    BY <2>1 DEF Flow, PInv
  <2>4. Good /\ ~died
    BY <1>4, <2>1, <2>3 DEF Good
  <2>5. /\ content[Source(c)] = 0
        /\ Filters => \A n \in Nat : ~PendingWrite(c, n)
        /\ ~Filters /\ ~First(c) => Done(PrevOf(c))
    BY <1>1, <1>4, <2>4, EndOfFile
  <2>6. ASSUME Filters, NEW e \in Kids PROVE FilterFlow(e)'
    <3>1. FilterFlow(e)
      BY <1>0, <2>4, <2>6 DEF Flow
    <3>2. CASE e # c
      <4>1. Done(e)' <=> Done(e)
        BY <1>0, <2>2, <3>2
      <4> QED BY <2>1, <3>1, <4>1 DEF FilterFlow
    <3>3. CASE e = c
      <4>1. Source(c) = Supply(c)
        BY <1>0, <1>2, <2>6, Wiring
      <4>2. Reads(code[ThreadOf(e)])
        BY <1>2, <3>1, <3>3 DEF FilterFlow
      <4> QED BY <1>4, <2>1, <2>5, <2>6, <3>1, <3>3, <4>1, <4>2 DEF FilterFlow
    <3> QED BY <3>2, <3>3
  <2>7. ASSUME ~Filters, NEW e \in Kids PROVE StageFlow(e)'
    <3>1. StageFlow(e)
      BY <1>0, <2>4, <2>7 DEF Flow
    <3>2. First(e) => content'[Source(e)] + took'[e] = Input
      BY <2>1, <3>1 DEF StageFlow
    <3>3. took'[e] * Expansion =
              owed'[e] + content'[Sink(e)] + (IF Last(e) THEN 0 ELSE took'[NextOf(e)])
      BY <2>1, <3>1 DEF StageFlow
    <3>4. Done(e)' => /\ owed'[e] = 0 /\ content'[Source(e)] = 0
                      /\ ~First(e) => Done(PrevOf(e))
      <4>1. CASE e = c
        BY <1>4, <2>1, <2>5, <2>7, <4>1
      <4>2. CASE e # c
        <5>1. Done(e)' <=> Done(e)
          BY <1>0, <2>2, <4>2
        <5> QED BY <2>1, <3>1, <5>1 DEF StageFlow
      <4> QED BY <4>1, <4>2
    <3>5. ~First(e) /\ Done(PrevOf(e)) => Done(PrevOf(e))'
      <4>1. ~First(e) => PrevOf(e) \in Children
        BY <1>0, <2>7, Wiring
      <4> QED BY <1>2, <2>2, <4>1
    <3> QED BY <2>1, <3>2, <3>3, <3>4, <3>5, Steady DEF StageFlow
  <2>8. ~Filters => Unused'
    BY <1>0, <2>1, <2>4 DEF Flow, Unused
  <2>9. Flow'
    BY <2>1, <2>6, <2>7, <2>8, Steady DEF Flow
  <2> QED BY <2>9
<1> QED BY <1>2, <1>3, <1>4 DEF ProgramExit

-------------------------------------------------------------------------------
(* The invariant                                                           *)

\* A step of a thread.
LEMMA ThreadStepInv ==
    ASSUME PInv, NEW x \in Threads, ParentStep(x) \/ CallFails(x)
    PROVE  PInv'
<1>1. CASE Pipe(x)
  BY <1>1, PipeInv
<1>2. CASE Fork(x)
  BY <1>2, ForkInv
<1>3. CASE Descriptor(x)
  BY <1>3, CloseInv
<1>4. CASE Write(x)
  BY <1>4, WriteInv
<1>5. CASE WriteBroken(x)
  BY <1>5, DiesInv DEF WriteBroken
<1>6. CASE Read(x)
  BY <1>6, ReadInv
<1>7. CASE Waitpid(x)
  BY <1>7, WaitpidInv
<1>8. CASE WriterThread(x)
  <2>1. \/ At(x, "thread") /\ code' = [code EXCEPT ![x] = Tail(@), ![Call(x)[2]] = Call(x)[3]]
        \/ At(x, "join") /\ Continue(x)
    BY <1>8 DEF WriterThread
  <2> QED BY <1>8, <2>1, ThreadInv, JoinInv
<1>9. CASE CallFails(x)
  <2>1. run' = run /\ UNCHANGED <<cloexec, content, owed, took, got, quit, reaped>>
    BY <1>9 DEF CallFails
  <2>2. CASE run.main = "stsh"
    <3>1. gaveUp' = TRUE /\ code' = [code EXCEPT ![x] = <<>>] /\ UNCHANGED <<fds, died>>
      BY <1>9, <2>2 DEF CallFails
    <3>2. ~died
      BY <1>9, Partners DEF CallFails, At
    <3> QED BY <2>1, <2>2, <3>1, <3>2, GivesUpInv
  <2>3. CASE run.main # "stsh"
    <3>1. died' = TRUE /\ fds' = [fds EXCEPT ![Parent] = NoTable] /\ UNCHANGED <<code, gaveUp>>
      BY <1>9, <2>3 DEF CallFails
    <3> QED BY <2>1, <3>1, DiesInv
  <2> QED BY <2>2, <2>3
<1> QED BY <1>1, <1>2, <1>3, <1>4, <1>5, <1>6, <1>7, <1>8, <1>9 DEF ParentStep

\* A step of a writer, which only writes and closes.
LEMMA WriterStepInv ==
    ASSUME PInv, NEW w \in Writers, ParentStep(w) \/ CallFails(w)
    PROVE  PInv'
<1>1. CASE Descriptor(w)
  BY <1>1, WriterCloseInv
<1>2. CASE Write(w)
  BY <1>2, WriterWriteInv
<1>3. CASE WriteBroken(w)
  BY <1>3, DiesInv DEF WriteBroken
<1>4. ASSUME code[w] # <<>> PROVE Head(code[w])[1] \in {"close", "write"}
  <2>1. \/ code[w] = <<<<"close", W(Supply(Of(w)))>>>>
        \/ \E n \in 1 .. Input :
              code[w] = <<<<"write", W(Supply(Of(w))), n>>, <<"close", W(Supply(Of(w)))>>>>
    BY <1>4, OwnWriter DEF PInv
  <2> QED BY <2>1
<1>5. ~(Pipe(w) \/ Fork(w) \/ Read(w) \/ Waitpid(w) \/ WriterThread(w) \/ CallFails(w))
  <2>1. ~At(w, "pipe") /\ ~At(w, "pipe2") /\ ~At(w, "fork") /\ ~At(w, "read")
        /\ ~At(w, "waitpid") /\ ~At(w, "thread") /\ ~At(w, "join")
    BY <1>4 DEF At
  <2> QED BY <2>1 DEF Pipe, Fork, Read, Waitpid, WriterThread, CallFails
<1> QED BY <1>1, <1>2, <1>3, <1>5 DEF ParentStep

\* A step that changes nothing.
LEMMA StutterInv ==
    ASSUME PInv, UNCHANGED vars
    PROVE  PInv'
<1>1. run' = run /\ UNCHANGED <<code, fds, cloexec, content, owed, took, got, died, gaveUp, quit, reaped>>
  BY DEF vars
<1>2. Types /\ Flow
  BY DEF PInv
<1>3. /\ Text' /\ Childhood' /\ Parenthood' /\ Waiting' /\ Supplying'
      /\ \A e : Done(e)' <=> Done(e)
      /\ \A e, n : PendingWrite(e, n)' <=> PendingWrite(e, n)
  BY <1>1, DataFrame
<1>4. Types'
  BY <1>1, <1>2, Steady DEF Types
<1>5. Flow'
  <2>1. Good' <=> Good
    BY <1>1 DEF Good
  <2>2. run \in Runs
    BY <1>2 DEF Types
  <2>3. \A c : code'[ThreadOf(c)] = code[ThreadOf(c)]
    BY <1>1
  <2> QED BY <1>1, <1>2, <1>3, <2>1, <2>2, <2>3, FlowStep
<1> QED BY <1>3, <1>4, <1>5 DEF PInv

\* Every step keeps the invariant.
LEMMA NextInv ==
    ASSUME PInv, [Next]_vars
    PROVE  PInv'
<1>1. CASE UNCHANGED vars
  BY <1>1, StutterInv
<1>2. CASE Over
  BY <1>2, StutterInv DEF Over
<1>3. ASSUME NEW x \in Threads \cup Writers, ParentStep(x) \/ CallFails(x) PROVE PInv'
  BY <1>3, ThreadStepInv, WriterStepInv
<1>4. ASSUME NEW c \in Children, ChildStep(c) PROVE PInv'
  BY <1>4, ChildDescriptorInv, ExecInv, ProgramReadInv, ProgramWriteInv, ProgramExitInv DEF ChildStep
<1>5. ASSUME NEW c \in Children, ProgramQuit(c) PROVE PInv'
  <2>1. code[c] # <<>> /\ Exit(c) /\ quit' = quit \cup {c}
    BY <1>5 DEF ProgramQuit, At
  <2> QED BY <2>1, ProgramQuitInv
<1> QED BY <1>1, <1>2, <1>3, <1>4, <1>5 DEF Next

\* The invariant holds of every run.
THEOREM PlumbingInvariant == Spec => []PInv
<1>1. Init => PInv
  BY InitInv
<1>2. PInv /\ [Next]_vars => PInv'
  BY NextInv
<1> QED BY <1>1, <1>2, PTL DEF Spec

-------------------------------------------------------------------------------
(* What it says of a parent that has returned                              *)

\* Every thread is through, so nothing is left to close, to read or to wait for.
LEMMA WhenReturned ==
    ASSUME PInv, Returned, ~gaveUp
    PROVE  /\ DOMAIN fds[Parent] = Std /\ reaped = Kids
           /\ \A c \in Kids : Done(c)
           /\ \A c : ~Reads(code[ThreadOf(c)])
           /\ \A c, n : ~PendingWrite(c, n)
<1>0. Types /\ Parenthood /\ Waiting /\ ~died
  BY DEF PInv, Returned
<1>1. \A x \in Threads \cup Writers : code[x] = <<>>
  BY DEF Returned
<1>2. /\ \A call : ~Has(<<>>, call)
      /\ \A d : ~ClosesSoon(<<>>, d)
      /\ ~Reads(<<>>) /\ \A c, n : ~Writes(<<>>, c, n)
  BY DEF Has, ClosesSoon, Closes, Reads, Writes
<1>3. \A d : ~WillClose(d)
  BY <1>1, <1>2 DEF WillClose
<1>4. DOMAIN fds[Parent] = Std
  BY <1>0, <1>3 DEF Parenthood
<1>5. reaped = Kids
  <2>1. reaped \subseteq Kids
    BY <1>0 DEF Types
  <2>2. \A c \in Kids \ reaped : FALSE
    BY <1>0, <1>1, <1>2 DEF Waiting
  <2> QED BY <2>1, <2>2
<1>6. \A c \in Kids : Done(c)
  BY <1>0, <1>5 DEF Waiting, Done
<1>7. \A c : code[ThreadOf(c)] = <<>> /\ code[WriterOf(c)] = <<>>
  BY <1>1, Partners
<1> QED BY <1>2, <1>4, <1>5, <1>6, <1>7 DEF PendingWrite

\* The ends in the tables belong to pipes and files.
LEMMA TablesAreTyped ==
    ASSUME PInv
    PROVE  TypeOK
<1>0. Types /\ Childhood /\ Parenthood
  BY DEF PInv
<1>1. \A e \in Ends : ObjectOf(e) \in Objects
  <2> SUFFICES ASSUME NEW e \in Ends PROVE ObjectOf(e) \in Objects
    OBVIOUS
  <2>1. PICK o \in Objects : e = R(o) \/ e = W(o)
    BY DEF Ends
  <2> QED BY <2>1, EndsOf
<1>2. DOMAIN NoTable = {}
  BY DEF NoTable
<1>3. ASSUME NEW p \in Processes, NEW d \in DOMAIN fds[p]
      PROVE  ObjectOf(fds[p][d]) \in Objects
  <2>1. CASE p = Parent
    <3>1. ~died
      BY <1>0, <1>2, <1>3, <2>1 DEF Parenthood
    <3>2. fds[Parent][d] = d /\ d \in Ends
      BY <1>0, <1>3, <2>1, <3>1 DEF Parenthood
    <3> QED BY <1>1, <2>1, <3>2
  <2>2. CASE p \in Children
    <3>1. code[p] # <<>>
      BY <1>0, <1>2, <1>3, <2>2 DEF Childhood
    <3>2. Fitted(p, code[p], fds[p], cloexec)
      BY <1>0, <2>2, <3>1 DEF Childhood
    <3>3. fds[p][d] \in Ends
      BY <1>3, <3>2 DEF Fitted, Std
    <3> QED BY <1>1, <3>3
  <2> QED BY <2>1, <2>2 DEF Processes
<1>4. cloexec \subseteq Objects \ Files
  BY <1>0, PipesAreObjects DEF Types
<1>5. reaped \subseteq Children
  BY <1>0, KidsAre DEF Types
<1>6. run \in Runs /\ content \in [Objects -> Nat] /\ quit \subseteq Children
      /\ \A o \in Objects \ Files : content[o] =< Capacity
  BY <1>0 DEF Types
<1> QED BY <1>3, <1>4, <1>5, <1>6 DEF TypeOK

LEMMA OwnedInv ==
    ASSUME PInv
    PROVE  DescriptorsAreOwned
<1>1. TypeOK
  BY TablesAreTyped
<1>2. ASSUME NEW c \in Children, At(c, "program")
      PROVE  DOMAIN fds[c] = {StdIn, StdOut}
  BY <1>2, Programs DEF Std
<1>3. ASSUME Returned, ~gaveUp
      PROVE  /\ DOMAIN fds[Parent] = {StdIn, StdOut}
             /\ reaped = {Stage[i] : i \in 1 .. run.stages}
  <2>1. DOMAIN fds[Parent] = Std /\ reaped = Kids
    BY <1>3, WhenReturned
  <2> QED BY <2>1 DEF Std, Kids
<1> QED BY <1>1, <1>2, <1>3 DEF DescriptorsAreOwned

\* For every amount of input, every expansion and every capacity of a pipe, and
\* whatever the order in which threads and children take their turns, whichever
\* programs give up and whichever call fails: a program that has been started has its
\* standard input and output open and nothing else (both versions of subprocess(),
\* pipeline() and runPipeline()), and a parent that has returned has closed every end
\* of every pipe and has waited for every child.
THEOREM DescriptorsTheorem == Spec => []DescriptorsAreOwned
<1>1. PInv => DescriptorsAreOwned
  BY OwnedInv
<1> QED BY <1>1, PlumbingInvariant, PTL

-------------------------------------------------------------------------------
(* What comes out                                                          *)

\* Made is what its recursive definition says.
LEMMA MadeIs ==
    /\ Made[0] = Input /\ Made[1] = Input * Expansion
    /\ Made[2] = Made[1] * Expansion /\ Made[3] = Made[2] * Expansion
<1> DEFINE v1 == Input * Expansion
           v2 == v1 * Expansion
           v3 == v2 * Expansion
           f == [n \in 0 .. 3 |-> IF n = 0 THEN Input ELSE IF n = 1 THEN v1 ELSE IF n = 2 THEN v2 ELSE v3]
           Eqn(g) == g = [n \in 0 .. 3 |-> IF n = 0 THEN Input ELSE g[n - 1] * Expansion]
<1>1. Eqn(f)
  <2> HIDE DEF v1, v2, v3
  <2>1. \A n \in 0 .. 3 : f[n] = IF n = 0 THEN Input ELSE f[n - 1] * Expansion
    <3>1. f[0] = Input /\ f[1] = v1 /\ f[2] = v2 /\ f[3] = v3
      OBVIOUS
    <3>2. f[1] = f[0] * Expansion /\ f[2] = f[1] * Expansion /\ f[3] = f[2] * Expansion
      BY <3>1 DEF v1, v2, v3
    <3> HIDE DEF f
    <3>3. \A n \in 0 .. 3 : n = 0 \/ n = 1 \/ n = 2 \/ n = 3
      OBVIOUS
    <3> QED BY <3>1, <3>2, <3>3
  <2> QED BY <2>1
<1>2. Made = CHOOSE g : Eqn(g)
  BY DEF Made
<1>3. Eqn(Made)
  <2> HIDE DEF f, Eqn
  <2> QED BY <1>1, <1>2
<1>4. Made = [n \in 0 .. 3 |-> IF n = 0 THEN Input ELSE Made[n - 1] * Expansion]
  BY <1>3
<1>5. \A n \in 0 .. 3 : Made[n] = IF n = 0 THEN Input ELSE Made[n - 1] * Expansion
  BY <1>4
<1> HIDE DEF f, Eqn, v1, v2, v3
<1>6. Made[0] = Input
  BY <1>5
<1>7. Made[1] = Made[0] * Expansion
  BY <1>5
<1>8. Made[2] = Made[1] * Expansion
  BY <1>5
<1>9. Made[3] = Made[2] * Expansion
  BY <1>5
<1> QED BY <1>6, <1>7, <1>8, <1>9

\* A filter that is through has turned all of the input into what its thread read.
LEMMA FilterOutput ==
    ASSUME PInv, Returned, ~gaveUp, quit = {}, Filters, NEW c \in Kids
    PROVE  got[ThreadOf(c)] = Made[1]
<1>0. Types /\ c \in Children
  BY KidsAre DEF PInv, Types
<1>1. /\ Done(c) /\ ~Reads(code[ThreadOf(c)])
      /\ \A n : ~PendingWrite(c, n)
  BY WhenReturned
<1>2. FilterFlow(c)
  BY DEF PInv, Flow, Good, Returned
<1>3. /\ content[Supply(c)] + took[c] = Input /\ content[Supply(c)] = 0
      /\ owed[c] = 0 /\ content[Ingest(c)] = 0
      /\ took[c] * Expansion = owed[c] + content[Ingest(c)] + got[ThreadOf(c)]
  BY <1>1, <1>2 DEF FilterFlow
<1>4. took[c] \in Nat /\ got[ThreadOf(c)] \in Nat
  BY <1>0, Partners DEF Types
<1>5. took[c] = Input
  BY <1>3, <1>4, SizesAssumption
<1>6. got[ThreadOf(c)] = took[c] * Expansion
  BY <1>3, <1>4
<1> QED BY <1>5, <1>6, MadeIs

\* A stage that is through has sent on what it made of what it took.
LEMMA StageOutput ==
    ASSUME PInv, Returned, ~gaveUp, quit = {}, ~Filters, NEW c \in Kids
    PROVE  /\ First(c) => took[c] = Input
           /\ ~Last(c) => took[NextOf(c)] = took[c] * Expansion
           /\ Last(c) => content[Sink(c)] = took[c] * Expansion
           /\ content[Source(c)] = 0
<1>0. Types /\ c \in Children /\ run \in Runs
  BY KidsAre DEF PInv, Types
<1>1. \A e \in Kids : Done(e) /\ StageFlow(e)
  BY WhenReturned DEF PInv, Flow, Good, Returned
<1>2. \A e \in Kids : owed[e] = 0 /\ content[Source(e)] = 0
  BY <1>1 DEF StageFlow
<1>3. took[c] \in Nat /\ Sink(c) \in Objects /\ content[Sink(c)] \in Nat
  BY <1>0, Wiring DEF Types
<1>4. First(c) => took[c] = Input
  <2>1. First(c) => content[Source(c)] + took[c] = Input
    BY <1>1 DEF StageFlow
  <2> QED BY <1>2, <1>3, <2>1
<1>5. took[c] * Expansion =
          owed[c] + content[Sink(c)] + (IF Last(c) THEN 0 ELSE took[NextOf(c)])
  BY <1>1 DEF StageFlow
<1>6. ASSUME ~Last(c) PROVE took[NextOf(c)] = took[c] * Expansion
  <2>1. NextOf(c) \in Kids /\ Source(NextOf(c)) = Sink(c)
    BY <1>0, <1>6, Wiring
  <2>2. content[Sink(c)] = 0 /\ took[NextOf(c)] \in Nat
    BY <1>0, <1>2, <2>1, KidsAre DEF Types
  <2>3. took[c] * Expansion = 0 + 0 + took[NextOf(c)]
    BY <1>2, <1>5, <1>6, <2>2
  <2> QED BY <2>2, <2>3
<1>7. ASSUME Last(c) PROVE content[Sink(c)] = took[c] * Expansion
  <2>1. took[c] * Expansion = 0 + content[Sink(c)] + 0
    BY <1>2, <1>5, <1>7
  <2> QED BY <1>3, <2>1
<1> QED BY <1>2, <1>4, <1>6, <1>7

\* The stages in a row.
LEMMA RowOutput ==
    ASSUME PInv, Returned, ~gaveUp, quit = {}, ~Filters
    PROVE  content[Sink(Stage[run.stages])] = Made[run.stages]
<1>0. run \in Runs
  BY DEF PInv, Types
<1>1. /\ "c1" \in Kids /\ First("c1") /\ NextOf("c1") = "c2" /\ NextOf("c2") = "c3"
      /\ \A c \in Kids : Last(c) \/ NextOf(c) \in Kids
      /\ \A c : Last(c) <=> c = Stage[run.stages]
  BY <1>0, KidsAre DEF First, NextOf, Last
<1>2. took["c1"] = Input
  BY <1>1, StageOutput
<1>3. Stage[1] = "c1" /\ Stage[2] = "c2" /\ Stage[3] = "c3"
  BY Stages
<1>4. CASE run.stages = 1
  <2>1. Last("c1") /\ Stage[run.stages] = "c1"
    BY <1>1, <1>3, <1>4
  <2>2. content[Sink("c1")] = took["c1"] * Expansion
    BY <1>1, <2>1, StageOutput
  <2> QED BY <1>2, <1>4, <2>1, <2>2, MadeIs
<1>5. CASE run.stages = 2
  <2>1. Last("c2") /\ ~Last("c1") /\ Stage[run.stages] = "c2" /\ "c2" \in Kids
    BY <1>1, <1>3, <1>5
  <2>2. took["c2"] = took["c1"] * Expansion
    BY <1>1, <2>1, StageOutput
  <2>3. content[Sink("c2")] = took["c2"] * Expansion
    BY <2>1, StageOutput
  <2> QED BY <1>2, <1>5, <2>1, <2>2, <2>3, MadeIs
<1>6. CASE run.stages = 3
  <2>1. Last("c3") /\ ~Last("c1") /\ ~Last("c2") /\ Stage[run.stages] = "c3"
        /\ "c2" \in Kids /\ "c3" \in Kids
    BY <1>1, <1>3, <1>6
  <2>2. took["c2"] = took["c1"] * Expansion
    BY <1>1, <2>1, StageOutput
  <2>3. took["c3"] = took["c2"] * Expansion
    BY <1>1, <2>1, StageOutput
  <2>4. content[Sink("c3")] = took["c3"] * Expansion
    BY <2>1, StageOutput
  <2> QED BY <1>2, <1>6, <2>1, <2>2, <2>3, <2>4, MadeIs
<1> QED BY <1>0, <1>4, <1>5, <1>6, RunKinds

LEMMA CompleteInv ==
    ASSUME PInv
    PROVE  OutputIsComplete
<1> SUFFICES ASSUME Returned, ~gaveUp, quit = {}
             PROVE  CASE run.main = "mr" -> \A t \in Threads : got[t] = Made[1]
                      [] run.main = "subprocess" -> got["t1"] = Made[1]
                      [] OTHER ->
                            /\ content[<<"std", "out">>] = IF run.output THEN 0 ELSE Made[run.stages]
                            /\ content[<<"file", "out">>] = IF run.output THEN Made[run.stages] ELSE 0
                            /\ content[<<"file", "in">>] = IF run.input THEN 0 ELSE Input
  BY DEF OutputIsComplete
<1>0. run \in Runs
  BY DEF PInv, Types
<1>1. CASE run.main = "mr"
  <2>1. Filters /\ run.stages = 2
    BY <1>0, <1>1, RunKinds DEF Filters
  <2>2. "c1" \in Kids /\ "c2" \in Kids
    BY <2>1, Stages DEF Kids
  <2>3. got[ThreadOf("c1")] = Made[1] /\ got[ThreadOf("c2")] = Made[1]
    BY <2>1, <2>2, FilterOutput
  <2>4. \A t \in Threads : got[t] = Made[1]
    BY <2>3 DEF ThreadOf, Threads
  <2> QED BY <1>1, <2>4
<1>2. CASE run.main = "subprocess"
  <2>1. Filters /\ "c1" \in Kids
    BY <1>0, <1>2, KidsAre DEF Filters
  <2>2. got[ThreadOf("c1")] = Made[1]
    BY <2>1, FilterOutput
  <2> QED BY <1>2, <2>2 DEF ThreadOf
<1>3. CASE run.main \notin {"mr", "subprocess"}
  <2>1. ~Filters /\ "c1" \in Kids /\ First("c1") /\ Stage[run.stages] \in Kids
    BY <1>0, <1>3, KidsAre DEF Filters, First
  <2>2. Unused
    BY <2>1 DEF PInv, Flow, Good, Returned
  <2>3. content[Sink(Stage[run.stages])] = Made[run.stages]
    BY <2>1, RowOutput
  <2>4. Sink(Stage[run.stages]) = <<IF run.output THEN "file" ELSE "std", "out">>
    BY <2>1 DEF Sink, Last
  <2>5. content[Source("c1")] = 0 /\ Source("c1") = <<IF run.input THEN "file" ELSE "std", "in">>
    BY <2>1, StageOutput DEF Source, First
  <2>6. content[<<"std", "out">>] = IF run.output THEN 0 ELSE Made[run.stages]
    BY <2>2, <2>3, <2>4 DEF Unused
  <2>7. content[<<"file", "out">>] = IF run.output THEN Made[run.stages] ELSE 0
    BY <2>2, <2>3, <2>4 DEF Unused
  <2>8. content[<<"file", "in">>] = IF run.input THEN 0 ELSE Input
    BY <2>2, <2>5 DEF Unused
  <2> QED BY <1>3, <2>6, <2>7, <2>8
<1> QED BY <1>1, <1>2, <1>3

\* For every amount of input, every expansion and every capacity of a pipe, and
\* whatever the order in which threads and children take their turns: when the parent
\* has returned and no program gave up, what runFilter() and subprocess-test read is
\* the whole output of the whole input, and what a pipeline made of the whole input is
\* where runPipeline() directed its last stage, and nothing is anywhere else.
THEOREM OutputTheorem == Spec => []OutputIsComplete
<1>1. PInv => OutputIsComplete
  BY CompleteInv
<1> QED BY <1>1, PlumbingInvariant, PTL
===============================================================================
