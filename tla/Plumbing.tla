------------------------------- MODULE Plumbing -------------------------------
(***************************************************************************)
(* How the programs of the repository start others and connect them with   *)
(* pipes: subprocess() and pipeline() of multiprocessing/ with their test  *)
(* programs, subprocess() and runFilter() of mapreduce/, where two threads *)
(* of the engine do so at once, and runPipeline() of the shell with its    *)
(* redirections.  Each function is given as the sequence of system calls   *)
(* it makes; each kind of call is an action.  A child has a copy of every  *)
(* descriptor that was open when it was forked until it closes it or       *)
(* execs, so end of file comes only if all of them tidy up.  Data is       *)
(* counted in units.  The kernel and the programs that are started are     *)
(* modelled from how this code uses them.                                  *)
(***************************************************************************)
EXTENDS Naturals, Sequences

CONSTANTS Mains,      \* the programs explored: "subprocess", "pipeline", "mr", "stsh"
          MaxStages,  \* bound: stages of a pipeline in the shell
          Quitters,   \* the children whose program may end before it has read its input
          Input,      \* units of input
          Expansion,  \* units a program writes for each unit it reads
          Capacity    \* units a pipe holds

ASSUME MainsAssumption == Mains \subseteq {"subprocess", "pipeline", "mr", "stsh"}
ASSUME SizesAssumption ==
    /\ MaxStages \in 1 .. 3
    /\ Input \in Nat \ {0} /\ Expansion \in Nat \ {0} /\ Capacity \in Nat \ {0}

Children == {"c1", "c2", "c3"}
Threads == {"t1", "t2"}            \* of the parent: main, or two threads of the pool
Writers == {"w1", "w2"}            \* the writer threads of runFilter
Parent == "parent"
Processes == Children \cup {Parent}
ProcessOf(x) == IF x \in Children THEN x ELSE Parent

\* A pipe or a file is a pair; its two ends, and the descriptors that name them,
\* are triples.
R(pipe) == <<pipe[1], pipe[2], "read">>
W(pipe) == <<pipe[1], pipe[2], "write">>
StdIn == <<"std", "in", "read">>
StdOut == <<"std", "out", "write">>
Supply(c) == <<c, "supply">>
Ingest(c) == <<c, "ingest">>
ToNext(c) == <<c, "next">>         \* the pipe from stage c to the stage after it
Files == {<<"std", "in">>, <<"std", "out">>, <<"file", "in">>, <<"file", "out">>}
Objects == Files \cup (Children \X {"supply", "ingest", "next"})
ObjectOf(end) == <<end[1], end[2]>>

VARIABLES
    run,      \* which program runs: its main, and how many others it starts; for the
              \* shell, the command
    code,     \* code[x]: the system calls that thread or process x still makes
    fds,      \* fds[p]: the open descriptors of process p, and what they name
    cloexec,  \* the pipes that were made with O_CLOEXEC
    content,  \* content[o]: units in pipe or file o
    owed,     \* owed[c]: units the program of c has still to write
    took,     \* history: took[c]: units the program of c has read
    got,      \* got[t]: units that thread t has read
    died,     \* the parent was ended by SIGPIPE or by an exception
    gaveUp,   \* the shell could not launch the whole pipeline
    quit,     \* history: the children that ended early
    reaped    \* the children waited for

vars == <<run, code, fds, cloexec, content, owed, took, got, died, gaveUp, quit, reaped>>

-------------------------------------------------------------------------------
(* The functions, as what they ask of the kernel                           *)

\* subprocess(): the child's part ...
SubprocessChild(c) ==
    <<<<"dup2", R(Supply(c)), StdIn>>, <<"close", R(Supply(c))>>, <<"close", W(Supply(c))>>,
      <<"dup2", W(Ingest(c)), StdOut>>, <<"close", R(Ingest(c))>>, <<"close", W(Ingest(c))>>,
      <<"exec">>>>

\* ... and the parent's, with both pipes asked for, of multiprocessing/ ...
subprocess(c) ==
    <<<<"pipe", Supply(c)>>, <<"pipe", Ingest(c)>>, <<"fork", c, SubprocessChild(c)>>,
      <<"close", R(Supply(c))>>, <<"close", W(Ingest(c))>>>>

\* ... and of mapreduce/, whose pipes are closed by exec.
subprocessCloexec(c) ==
    <<<<"pipe2", Supply(c)>>, <<"pipe2", Ingest(c)>>, <<"fork", c, SubprocessChild(c)>>,
      <<"close", R(Supply(c))>>, <<"close", W(Ingest(c))>>>>

\* main of subprocess-test.cc.
subprocessTest(c) ==
    subprocess(c) \o
    <<<<"write", W(Supply(c)), Input>>, <<"close", W(Supply(c))>>,
      <<"read", R(Ingest(c))>>, <<"close", R(Ingest(c))>>, <<"waitpid", c>>>>

\* Mutant: the parent keeps the write end.
pipelineKeepsEnd(c, d) ==
    <<<<"pipe", ToNext(c)>>,
      <<"fork", c, <<<<"dup2", W(ToNext(c)), StdOut>>, <<"close", R(ToNext(c))>>,
                     <<"close", W(ToNext(c))>>, <<"exec">>>>>>,
      <<"fork", d, <<<<"dup2", R(ToNext(c)), StdIn>>, <<"close", R(ToNext(c))>>,
                     <<"close", W(ToNext(c))>>, <<"exec">>>>>>,
      <<"close", R(ToNext(c))>>>>

pipeline(c, d) ==
    <<<<"pipe", ToNext(c)>>,
      <<"fork", c, <<<<"dup2", W(ToNext(c)), StdOut>>, <<"close", R(ToNext(c))>>,
                     <<"close", W(ToNext(c))>>, <<"exec">>>>>>,
      <<"fork", d, <<<<"dup2", R(ToNext(c)), StdIn>>, <<"close", R(ToNext(c))>>,
                     <<"close", W(ToNext(c))>>, <<"exec">>>>>>,
      <<"close", R(ToNext(c))>>, <<"close", W(ToNext(c))>>>>

\* main of pipeline-test.cc.
pipelineTest(c, d) == pipeline(c, d) \o <<<<"waitpid", c>>, <<"waitpid", d>>>>

\* runFilter of mr.cc, with its writer thread.
runFilter(w, c) ==
    subprocessCloexec(c) \o
    <<<<"thread", w, <<<<"write", W(Supply(c)), Input>>, <<"close", W(Supply(c))>>>>>>,
      <<"read", R(Ingest(c))>>, <<"close", R(Ingest(c))>>, <<"join", w>>, <<"waitpid", c>>>>

-------------------------------------------------------------------------------
(* runPipeline() of stsh.cc                                                *)

Stage == <<"c1", "c2", "c3">>
If(condition, calls) == IF condition THEN calls ELSE <<>>

\* Stage i of the command p, as a child.
StageChild(p, i) ==
    LET prev == ToNext(Stage[i - 1])
        next == ToNext(Stage[i])
    IN  If(i > 1, <<<<"dup2", R(prev), StdIn>>, <<"close", R(prev)>>>>) \o
        If(i < p.stages, <<<<"dup2", W(next), StdOut>>, <<"close", R(next)>>,
                           <<"close", W(next)>>>>) \o
        If(i = 1 /\ p.input, <<<<"open", R(<<"file", "in">>)>>,
              <<"dup2", R(<<"file", "in">>), StdIn>>, <<"close", R(<<"file", "in">>)>>>>) \o
        If(i = p.stages /\ p.output, <<<<"open", W(<<"file", "out">>)>>,
              <<"dup2", W(<<"file", "out">>), StdOut>>, <<"close", W(<<"file", "out">>)>>>>) \o
        <<<<"exec">>>>

\* The shell: prevRead is closed once more after the last stage, which fails
\* without consequence.  It then waits for the job (module Stsh says how).
runPipeline(p) ==
    LET Launch(i) ==
            If(i < p.stages, <<<<"pipe", ToNext(Stage[i])>>>>) \o
            <<<<"fork", Stage[i], StageChild(p, i)>>>> \o
            If(i > 1, <<<<"close", R(ToNext(Stage[i - 1]))>>>>) \o
            If(i < p.stages, <<<<"close", W(ToNext(Stage[i]))>>>>)
    IN  Launch(1) \o If(p.stages > 1, Launch(2)) \o If(p.stages > 2, Launch(3)) \o
        If(p.stages > 1, <<<<"close", R(ToNext(Stage[p.stages - 1]))>>>>) \o
        [i \in 1 .. p.stages |-> <<"waitpid", Stage[i]>>]

-------------------------------------------------------------------------------
Commands == [main : {"stsh"} \cap Mains, stages : 1 .. MaxStages,
             input : BOOLEAN, output : BOOLEAN]
Runs == Commands \cup
        {[main |-> m, stages |-> IF m = "subprocess" THEN 1 ELSE 2,
          input |-> FALSE, output |-> FALSE] : m \in Mains \ {"stsh"}}

ThreadCode(t) ==
    IF run.main = "mr" THEN IF t = "t1" THEN runFilter("w1", "c1") ELSE runFilter("w2", "c2")
    ELSE IF t # "t1" THEN <<>>
    ELSE CASE run.main = "subprocess" -> subprocessTest("c1")
           [] run.main = "pipeline" -> pipelineTest("c1", "c2")
           [] run.main = "stsh" -> runPipeline(run)

\* The table of a process that has ended or not begun.
NoTable == [d \in {} |-> d]

Init ==
    /\ run \in Runs
    /\ code = [x \in Threads \cup Writers \cup Children |->
                  IF x \in Threads THEN ThreadCode(x) ELSE <<>>]
    /\ fds = [p \in Processes |->
                 IF p = Parent THEN [d \in {StdIn, StdOut} |-> d] ELSE NoTable]
    /\ cloexec = {}
    /\ content = [o \in Objects |-> IF o \in Files /\ o[2] = "in" THEN Input ELSE 0]
    /\ owed = [c \in Children |-> 0] /\ took = [c \in Children |-> 0]
    /\ got = [t \in Threads |-> 0]
    /\ died = FALSE /\ gaveUp = FALSE
    /\ quit = {} /\ reaped = {}

\* Some process has the end open.
Open(end) == \E p \in Processes : \E d \in DOMAIN fds[p] : fds[p][d] = end

\* A read of the pipe or file returns 0: nobody can write to it any more.
AtEnd(o) == content[o] = 0 /\ (o \in Files \/ ~Open(W(o)))

-------------------------------------------------------------------------------
(* The system calls                                                        *)

\* The next call of x is name; it goes on with what follows.
At(x, name) ==
    /\ code[x] # <<>> /\ Head(code[x])[1] = name
    /\ x \notin Children => ~died
Call(x) == Head(code[x])
Continue(x) == code' = [code EXCEPT ![x] = Tail(@)]

With(table, d, end) == [e \in DOMAIN table \cup {d} |-> IF e = d THEN end ELSE table[e]]
Without(table, descriptors) == [d \in DOMAIN table \ descriptors |-> table[d]]

Pipe(x) ==
    /\ At(x, "pipe") \/ At(x, "pipe2")
    /\ LET p == Call(x)[2]
       IN  /\ fds' = [fds EXCEPT ![ProcessOf(x)] =
                             With(With(@, R(p), R(p)), W(p), W(p))]
           /\ cloexec' = cloexec \cup (IF At(x, "pipe2") THEN {p} ELSE {})
    /\ Continue(x)
    /\ UNCHANGED <<run, content, owed, took, got, died, gaveUp, quit, reaped>>

Fork(x) ==
    /\ At(x, "fork")
    /\ LET c == Call(x)[2]
       IN  /\ fds' = [fds EXCEPT ![c] = fds[ProcessOf(x)]]
           /\ code' = [code EXCEPT ![x] = Tail(@), ![c] = Call(x)[3]]
    /\ UNCHANGED <<run, cloexec, content, owed, took, got, died, gaveUp, quit, reaped>>

\* pipe or fork fails.  subprocess() and pipeline() throw and nobody catches it;
\* the shell goes back to its prompt with what it had opened and started so far.
CallFails(x) ==
    /\ At(x, "pipe") \/ At(x, "pipe2") \/ At(x, "fork")
    /\ IF run.main = "stsh"
       THEN /\ gaveUp' = TRUE
            /\ code' = [code EXCEPT ![x] = <<>>]
            /\ UNCHANGED <<fds, died>>
       ELSE /\ died' = TRUE
            /\ fds' = [fds EXCEPT ![Parent] = NoTable]
            /\ UNCHANGED <<code, gaveUp>>
    /\ UNCHANGED <<run, cloexec, content, owed, took, got, quit, reaped>>

\* dup2, close and open only touch the table of the process; a close of what is
\* not open does nothing.
Descriptor(x) ==
    /\ At(x, "dup2") \/ At(x, "close") \/ At(x, "open")
    /\ LET p == ProcessOf(x)
           d == Call(x)[2]
       IN  fds' = [fds EXCEPT ![p] =
              CASE Call(x)[1] = "dup2" -> With(@, Call(x)[3], @[d])
                [] Call(x)[1] = "close" -> Without(@, {d})
                [] Call(x)[1] = "open" -> With(@, d, d)]
    /\ Continue(x)
    /\ UNCHANGED <<run, cloexec, content, owed, took, got, died, gaveUp, quit, reaped>>

\* Mutant: O_CLOEXEC is forgotten.
ExecInherits(c) ==
    /\ At(c, "exec")
    /\ code' = [code EXCEPT ![c] = <<<<"program">>>>]
    /\ UNCHANGED <<run, fds, cloexec, content, owed, took, got, died, gaveUp, quit, reaped>>

Exec(c) ==
    /\ At(c, "exec")
    /\ code' = [code EXCEPT ![c] = <<<<"program">>>>]
    /\ fds' = [fds EXCEPT ![c] = Without(@, {d \in DOMAIN @ : ObjectOf(d) \in cloexec})]
    /\ UNCHANGED <<run, cloexec, content, owed, took, got, died, gaveUp, quit, reaped>>

\* One unit of a write that may take several calls.
Write(x) ==
    /\ At(x, "write")
    /\ LET d == Call(x)[2]
           o == ObjectOf(d)
       IN  /\ Open(R(o))
           /\ content[o] < Capacity
           /\ content' = [content EXCEPT ![o] = @ + 1]
           /\ code' = [code EXCEPT ![x] =
                 IF Call(x)[3] = 1 THEN Tail(@)
                 ELSE <<<<"write", d, Call(x)[3] - 1>>>> \o Tail(@)]
    /\ UNCHANGED <<run, fds, cloexec, owed, took, got, died, gaveUp, quit, reaped>>

\* write() to a pipe that nobody can read raises SIGPIPE, which none of the
\* programs ignores or handles: the test of its result is not reached.
WriteBroken(x) ==
    /\ At(x, "write")
    /\ ~Open(R(ObjectOf(Call(x)[2])))
    /\ died' = TRUE
    /\ fds' = [fds EXCEPT ![Parent] = NoTable]
    /\ UNCHANGED <<run, code, cloexec, content, owed, took, got, gaveUp, quit, reaped>>

\* Mutant: a pipe that is empty is taken for the end of the output.
ReadUntilEmpty(x) ==
    /\ At(x, "read")
    /\ LET o == ObjectOf(Call(x)[2])
       IN  \/ /\ content[o] > 0
              /\ content' = [content EXCEPT ![o] = @ - 1]
              /\ got' = [got EXCEPT ![x] = @ + 1]
              /\ UNCHANGED code
           \/ /\ content[o] = 0
              /\ Continue(x)
              /\ UNCHANGED <<content, got>>
    /\ UNCHANGED <<run, fds, cloexec, owed, took, died, gaveUp, quit, reaped>>

\* The loop of read(), which blocks while the pipe is empty and somebody could
\* still write to it.
Read(x) ==
    /\ At(x, "read")
    /\ LET o == ObjectOf(Call(x)[2])
       IN  \/ /\ content[o] > 0
              /\ content' = [content EXCEPT ![o] = @ - 1]
              /\ got' = [got EXCEPT ![x] = @ + 1]
              /\ UNCHANGED code
           \/ /\ AtEnd(o)
              /\ Continue(x)
              /\ UNCHANGED <<content, got>>
    /\ UNCHANGED <<run, fds, cloexec, owed, took, died, gaveUp, quit, reaped>>

Exited(c) == code[c] = <<>> /\ fds[c] = NoTable

Waitpid(x) ==
    /\ At(x, "waitpid")
    /\ Exited(Call(x)[2])
    /\ reaped' = reaped \cup {Call(x)[2]}
    /\ Continue(x)
    /\ UNCHANGED <<run, fds, cloexec, content, owed, took, got, died, gaveUp, quit>>

\* The writer thread is started, and joined when it has closed its end.
WriterThread(x) ==
    /\ \/ At(x, "thread") /\ code' = [code EXCEPT ![x] = Tail(@), ![Call(x)[2]] = Call(x)[3]]
       \/ At(x, "join") /\ code[Call(x)[2]] = <<>> /\ Continue(x)
    /\ UNCHANGED <<run, fds, cloexec, content, owed, took, got, died, gaveUp, quit, reaped>>

-------------------------------------------------------------------------------
(* The programs: a filter writes what it owes before it reads on, sort     *)
(* (the first program of both tests) reads everything before it writes     *)

Sorts(c) == run.main \in {"subprocess", "pipeline"} /\ c = "c1"
In(c) == ObjectOf(fds[c][StdIn])
Out(c) == ObjectOf(fds[c][StdOut])

ProgramRead(c) ==
    /\ At(c, "program")
    /\ content[In(c)] > 0
    /\ Sorts(c) \/ owed[c] = 0
    /\ content' = [content EXCEPT ![In(c)] = @ - 1]
    /\ owed' = [owed EXCEPT ![c] = @ + Expansion]
    /\ took' = [took EXCEPT ![c] = @ + 1]
    /\ UNCHANGED <<run, code, fds, cloexec, got, died, gaveUp, quit, reaped>>

ProgramWrite(c) ==
    /\ At(c, "program")
    /\ owed[c] > 0
    /\ Sorts(c) => AtEnd(In(c))
    /\ Out(c) \in Files \/ (Open(R(Out(c))) /\ content[Out(c)] < Capacity)
    /\ owed' = [owed EXCEPT ![c] = @ - 1]
    /\ content' = [content EXCEPT ![Out(c)] = @ + 1]
    /\ UNCHANGED <<run, code, fds, cloexec, took, got, died, gaveUp, quit, reaped>>

Exit(c) ==
    /\ code' = [code EXCEPT ![c] = <<>>]
    /\ fds' = [fds EXCEPT ![c] = NoTable]
    /\ UNCHANGED <<run, cloexec, content, owed, took, got, died, gaveUp, reaped>>

\* It has read to end of file and written everything, or SIGPIPE ends it.
ProgramExit(c) ==
    /\ At(c, "program")
    /\ \/ owed[c] = 0 /\ AtEnd(In(c)) /\ UNCHANGED quit
       \/ /\ owed[c] > 0 /\ Out(c) \notin Files /\ ~Open(R(Out(c)))
          /\ quit' = quit \cup {c}
    /\ Exit(c)

\* It gives up; execvp fails; or the file of a redirection cannot be opened.
ProgramQuit(c) ==
    /\ c \in Quitters /\ (At(c, "program") \/ At(c, "exec") \/ At(c, "open"))
    /\ quit' = quit \cup {c}
    /\ Exit(c)

-------------------------------------------------------------------------------
ParentStep(x) ==
    \/ Pipe(x) \/ Fork(x) \/ Descriptor(x) \/ Write(x) \/ WriteBroken(x) \/ Read(x)
    \/ Waitpid(x) \/ WriterThread(x)
ChildStep(c) ==
    Descriptor(c) \/ Exec(c) \/ ProgramRead(c) \/ ProgramWrite(c) \/ ProgramExit(c)

Returned == ~died /\ \A x \in Threads \cup Writers : code[x] = <<>>
Ended == (Returned \/ died) /\ \A c \in Children : Exited(c)

\* The parent is through and its children have ended; or the shell has given up,
\* and keeps the read end of a pipe that the last stage it started may fill.
Over == (Ended \/ gaveUp) /\ UNCHANGED vars

Next ==
    \/ Over
    \/ \E x \in Threads \cup Writers : ParentStep(x) \/ CallFails(x)
    \/ \E c \in Children : ChildStep(c) \/ ProgramQuit(c)

Spec == Init /\ [][Next]_vars

\* Threads and processes run; a program reads what it is given and writes what
\* it owes.  Nothing obliges a call to fail or a program to quit.
FairSpec ==
    /\ Spec
    /\ \A x \in Threads \cup Writers : WF_vars(ParentStep(x))
    /\ \A c \in Children : WF_vars(ChildStep(c))

-------------------------------------------------------------------------------
(* Properties                                                              *)

TypeOK ==
    /\ run \in Runs
    /\ \A p \in Processes : \A d \in DOMAIN fds[p] : ObjectOf(fds[p][d]) \in Objects
    /\ content \in [Objects -> Nat]
    /\ \A o \in Objects \ Files : content[o] =< Capacity
    /\ cloexec \subseteq Objects \ Files
    /\ quit \subseteq Children /\ reaped \subseteq Children

\* What n programs in a row make of the input.
Made[n \in 0 .. 3] == IF n = 0 THEN Input ELSE Made[n - 1] * Expansion

\* All the data comes through: what a caller reads back is the whole output of the
\* whole input (mr.cc:65, subprocess-test.cc), and what a pipeline writes goes where
\* the last stage was directed, and nowhere else (stsh.cc:323 to 335), unless one of
\* the programs gave up.
OutputIsComplete ==
    Returned /\ ~gaveUp /\ quit = {} =>
        CASE run.main = "mr" -> \A t \in Threads : got[t] = Made[1]
          [] run.main = "subprocess" -> got["t1"] = Made[1]
          [] OTHER ->
                /\ content[<<"std", "out">>] = IF run.output THEN 0 ELSE Made[run.stages]
                /\ content[<<"file", "out">>] = IF run.output THEN Made[run.stages] ELSE 0
                /\ content[<<"file", "in">>] = IF run.input THEN 0 ELSE Input

\* "disciplined closing of every unused descriptor so no process holds a pipe end
\* open longer than it should" (multiprocessing/subprocess.cc:6): once a program runs
\* it has its standard input and output and nothing else, whatever other threads were
\* setting up when it was forked (mapreduce/subprocess.cc:30); and a parent that has
\* returned, the shell after a command included, has only its own and has waited for
\* all its children.
DescriptorsAreOwned ==
    /\ TypeOK
    /\ \A c \in Children : At(c, "program") => DOMAIN fds[c] = {StdIn, StdOut}
    /\ Returned /\ ~gaveUp =>
          /\ DOMAIN fds[Parent] = {StdIn, StdOut}
          /\ reaped = {Stage[i] : i \in 1 .. run.stages}

\* "large data can't deadlock on full pipe buffers" (mr.cc:49), nor does end of file
\* fail to come: every call returns and every program that was started ends, also
\* when one of them gives up or the parent is killed half way.  A launch the shell
\* gives up is excepted: its last stage may wait for ever for a reader.
CallsReturn == <>(Ended \/ gaveUp)
===============================================================================
