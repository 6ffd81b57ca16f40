# TLA+ models of the CS110 system programs

This directory holds TLA+ models of the programs of this repository, the TLC
configurations that check them on small instances, and TLAPS proofs of the
results that matter most. The code is the reference: every definition that
stands for code is translated from the lines that `PROJECT.json` ("map") gives
for it.

## 1. The system

The repository is a set of small programs that share two libraries, the thread
pool and its semaphore.

| Component | State | Operations | What is hard |
|---|---|---|---|
| thread pool (`thread-pool/`, same files in `mapreduce/`, `http-proxy/`, `news-aggregator/`) | queue, three kinds of semaphore, `available` marks, thunk slots, `outstanding`, `done` | `schedule`, `wait`, dispatcher, workers, destructor | an unlocked slot, three locks taken one after the other, shutdown of parked threads |
| semaphore (`semaphore.h`) | value, mutex, condition variable | `wait`, `signal` | `notify_one` against stolen permits, spurious wakeups |
| farm (`multiprocessing/farm.cc`, `factor.py`) | worker table, count, pipes, signal mask | spawn, hand out, wait for all, close; SIGCHLD handler | the handler interrupts between instructions; SIGCHLD does not queue; inherited pipe ends |
| shell (`stsh/stsh.cc`) | job table, counter, `fgPgid`, signal mask, terminal | launch, foreground wait, `fg`/`bg`/`slay`/`halt`/`cont`, `quit`, SIGCHLD and keyboard handlers, at a terminal or from a script | handler against main program, parent against child, stop and continue against exit |
| shell parser (`stsh/stsh-parse.cc`) | none | `lex`, `parsePipeline` | grammar corner cases |
| subprocess, pipeline (`multiprocessing/`, `mapreduce/`) | descriptors | spawn with pipes, connect two programs | end of file needs every write end closed, in every process that inherited one; full pipes; calls that fail half way |
| map-reduce (`mapreduce/`) | intermediate buckets | map, shuffle, reduce on the pool | pipes inherited by concurrent forks, shared buckets |
| proxy (`http-proxy/`) | cache with expiry, blocklist | serve a connection on a pool thread | two misses of one key, expiry, truncated bodies |
| aggregator (`news-aggregator/`) | two pools, inverted index, per-server semaphores, seen set | fetch feeds, fetch articles, query | throttling, one article under several links, connections that break, order of the two pools' waits |
| V6 file system (`unix-v6-filesystem/`) | disk image | inode, file, directory and path look-up; `mkfs_v6` | direct, indirect and doubly indirect blocks |
| review search (`amazon-reviews/`) | memory-mapped index | look-up by id, keyword query | binary search at the edges, intersections |

## 2. Modules

### TaskPool, ThreadPool, ThreadPoolProofs

`ThreadPool` has one action per critical section, semaphore operation or read of
`done` in `thread-pool.cc`; program counters are named for the step a thread
takes next. The threads are the dispatcher, `N` workers, the clients (each in
`schedule()`, in `wait()` or outside) and the owner, which runs the destructor
once no client uses the pool any more: calling it earlier would be a use after
destruction, which the code does not claim to survive. A thread parked in
`allDone.wait` may wake spuriously. Each thunk is scheduled at most once, so that
"runs exactly once" can be said of it; a thunk returns and does not call the
pool. `status` is a history of the thunks.

`TaskPool` is what the pool promises: thunks go from pending to running to
finished, at most one per slot, `wait()` and the destructor return only on a
quiet pool. `ThreadPool!Implements` is that specification under the mapping that
takes a worker's slot as filled while it runs its thunk.

### AtomicSemaphore, Semaphore, SemaphoreProofs

`Semaphore` is `semaphore.h` down to the mutex and the condition variable;
`AtomicSemaphore` is the counter with a blocking P that `ThreadPool` uses for its
three kinds of semaphore. `Implements` justifies that use.

### Farm, FarmProofs

The manager, its SIGCHLD handler and the self-halting workers. The handler runs
to its end between two steps of the manager, whenever SIGCHLD is not blocked. The
Makefile builds with -O0, where `numWorkersAvailable--` is a load, a subtraction
and a store, and `workers[i] = worker(...)` stores `pid` first and `available`
last; these are separate steps. `Windows` names the three places where
an unprotected sequence may be interrupted: between fork and the store of the pid
("pid"), between the two stores ("available"), between load and store ("store").
`raced` remembers the windows in which a SIGCHLD was handled, and the properties
say exactly which of them breaks what; without any, all is well. A pipe's write end is held by the manager and by every worker
forked later, so end of file travels backwards.

### Stsh, StshProofs

The shell's main program, its handlers, the processes it forks and the user. The
job table maps a number to a process group, a state and the state of each
process. The kernel part keeps each process's real state, its group, and the one
change of it that `waitpid` has not reported yet (a later change replaces an
earlier one, as the kernel does it). SIGCHLD is a pending bit and a blocked bit.
A session is interactive, or scripted with no terminal at all (`NoTerminal`): then
no job is given the terminal and the keyboard handlers have nothing to send to. At a
terminal the user types a command only at the prompt, and Ctrl-C or Ctrl-Z at any
time; the handler sends the signal to the job that is in the foreground when it runs
(`forwardToForeground`). `Quit` ends the session whatever jobs are left. A failing
`pipe` or `fork` in mid-launch is modelled: the stages already running end up in
`abandoned`. Descriptors and redirections of a launch are in `Plumbing`.

### StshParse

The lexer is a fold over the characters of a line, the parser one step per
token (`Pipe`, `Input`, `Output`, `Background`, `Word`, each with its error
path), and `Finish` what follows the loop. `Init` takes every line of at most
`MaxLine` characters.

### Plumbing, PlumbingProofs, MapReduce, MapReduceProofs

`Plumbing` has all the places where a program starts others and connects them:
`subprocess()` and `pipeline()` of `multiprocessing/` with the two test programs,
`subprocess()` and `runFilter()` of `mapreduce/` on two threads of the engine at once,
and `runPipeline()` of the shell with its redirections. A function is the sequence of
system calls it makes, the child's part included (`code[x]` is what thread or process
`x` has still to do), and each kind of call is an action, with its failure where the
code tests for one. `fds[p]` is the descriptor table of a process; fork copies the
whole table, exec closes the pipes in `cloexec`. The programs that are started read,
write and end: `sort`-like ones write when their input has ended, filters as they go,
and `Quitters` may end early. Data is counted, not kept. `died` says that an exception
or SIGPIPE ended the parent, `gaveUp` that the shell could not launch every stage, and
`took` is a history: how much each program has read.

`MapReduce` is `main` of `mr.cc` with the word-count programs. A call of
`runFilter` there is one step that returns all the output (what `Plumbing`
shows), and the pool is what `TaskPool` promises. The hash is any function of
the words, chosen initially. The sequential parts (chunks, routing, sorting, the
reducer's pass) are recursive functions over the places of a sequence, so that they can
be both evaluated and reasoned about.

### HTTPMessage, Proxy, ProxyProofs

`HTTPMessage` is the message model of `http.cc`: header lists with
case-insensitive names, and what a request or response reader makes of the bytes
that arrive before the peer closes. URLs, Host headers and cache keys are texts:
sequences of symbols, where `:`, `/` and each digit is a symbol and so is a stretch of
other characters. So a URL is taken apart (`parseURL`, the port by `atoi` and cut to 16
bits) and a key is put together (`cacheKey`, the port by `to_string`) as the code does
it, and what a key does not tell, the model's key does not tell either. `Proxy` is `serviceConnection` on a thread
of the pool: read, check, look up the cache, connect, forward, read the
response, store, reply. Each critical section of the cache is a step, time passes
between any two, and `Droppers` are the connections whose peers may hang up.
Sending on a connection that the peer has closed may raise SIGPIPE, which the
proxy neither ignores nor handles.

### NewsDocuments, Aggregator, AggregatorProofs

`NewsDocuments` is `fetch.cc`, `xml-utils.cc` and the tokenizer. A URL, and the text of
a link, is a record of scheme, host, port and parts of the path. A document is the
sequence of its nodes in document order, each with its place in the tree, so that a
body that breaks off is a prefix of it, as the recovering parser of libxml2 takes it.

`Aggregator` is `aggregate.cc`: main fetches the list and schedules feed tasks on one
pool; they schedule article tasks on another. Both pools are `TaskPool` by
construction (`FP`, `AP`): every step of a pool in `Next` is an action of that instance,
restricted to the first free worker, which is the one the dispatcher takes. `seenURLs`,
the articles, the index and the table of semaphores each have their own mutex, so each
use is a step; the semaphores are those of `AtomicSemaphore`. `Site` gives the documents
and, beside each, what its author meant (the pages it links to, the words it shows):
the properties compare the index with that and not with the parser. A server in
`Unsteady` may refuse, answer with an error, or close the connection at any point.
Queries are answered at the end, from the ranked index.

### V6FileSystem

`mkfs_v6` as a sequence of `make_file` and `make_dir` calls in any order its image
has room for (the program makes one such sequence), and the reader's four layers
as operators over the disk. The geometry is a parameter, so that all addressing
schemes are reached with sectors of four units. `HugeFile` writes a file that needs
double indirection, which `mkfs_v6` itself cannot make, in the layout that
`inode_indexlookup` expects; it is marked external.

### AmazonSearch

`mkamazondb` lays out records by absolute offset, with padding, and builds the
keyword index; `getReview`, `findKeyword`, `convertQuery` and `searchKeywordIndex`
read both. Texts are sequences of characters with upper case, punctuation and
quotes among them. `lower_bound` is given by what it returns.

## 3. Runs

The names of the properties are definitions with a comment of their own in the
modules. `TypeOK` is a conjunct of one invariant of its module
(of `Semaphore` it is only proved), not a property of its own.

| Run | Instance | What it shows |
|---|---|---|
| `thread_pool` | 2 workers, 3 thunks, 2 clients, destructor | permits are backed by queue entries and idle workers (`ClaimIsBacked`), the slot that is written without a lock is free and stays so (`SlotIsFree`), the inductive invariant of the proofs holds (`IInv`: nobody stays parked on a quiet pool, shutdown loses no thunk), the pool implements `TaskPool`; `wait()` and the destructor return |
| `semaphore` | 5 threads, up to 3 permits | `notify_one` at the transition from zero and stolen permits lose no wakeup; implements `AtomicSemaphore` |
| `farm` | 3 workers, 4 numbers | a farm that ends has factored each number once, whatever the signals do; the count, the assertions, the sleeps and the end of the farm are right but for signals handled in one of the windows |
| `farm_lost_wakeup` | 2 workers, 3 numbers | violation: see below |
| `stsh` | 3 processes, 2 stages, with a terminal and from a script | job table against kernel, whole groups, whole-job waiting, terminal ownership; the prompt comes back, also when a job is stopped for reading the terminal before it owns it |
| `stsh_parse` | all lines up to 6 characters | tokens spell the line, arguments are kept in place and order |
| `plumbing` | each of the four programs; 2 concurrent `runFilter` calls; shell pipelines of up to 3 stages with any redirections; pipes of 1 unit, 3 units of input, output twice the input; failing calls, programs that quit | all the data comes through, a program owns only its own descriptors, and no full pipe or missing end of file keeps a call from returning |
| `map_reduce` | up to 3 lines of 2 words, 2 mappers, 2 reducers, every hash | counts are exact and a word has one record |
| `proxy` | 3 connections, 2 threads, clock up to 2, peers that hang up | own response (method, host, port and path) but for keys that coincide, fresh hits, no needless misses, blocklist and cache directives respected |
| `aggregator` | a list, 2 feeds that list the same 2 pages by four kinds of links, servers that refuse, fail or hang up; 2 + 2 threads | at most the allowed downloads per server, no URL fetched twice, index and ranked answers are what the pages show, and the queries are reached: permits come back on every path |
| `v6_file_system` | up to 3 inodes, sizes at each boundary | every block and every path reads back, also after later writes to shared sectors |
| `amazon_search` | all databases of up to 2 reviews from 5 texts, all short queries and phrases | records read back, a query keeps its words and phrases, search equals a scan of the texts |

### Where the code departs from its documents

`farm_lost_wakeup` checks what `multiprocessing/README.md` says of `sigsuspend`, that
the manager sleeps "race-free until a worker is available", and TLC shows it violated:
a worker that stops before its pid is in the table is taken from the kernel by the
handler, matches no entry and is not found again. A SIGCHLD inside
`numWorkersAvailable--` has the same effect through the count; one between the two
stores of `workers[i] = worker(...)` is counted and then overwritten, and lets the
assertion of line 98 fail (`AssertionsHold` excepts that window only).

The other departures met while modelling are behaviours of the models and have no
run of their own:

- `stsh.cc`: only the parent calls `tcsetpgrp`, after fork or SIGCONT. A foreground
  process that reads the terminal before that is stopped by SIGTTIN (`ReadTerminal`);
  `PromptReturns` says that the shell then takes it as stopped and prompts.
- `stsh.cc`: when a launch fails half way the shell keeps the pipe ends it has open,
  so the stage that writes to it may block for ever (`gaveUp`).
- `mr.cc` and `proxy.cc` never ignore SIGPIPE: writing to a program or a peer that is
  gone ends the engine (`died`) or the proxy (`killed`), although both test the result of
  `write` and go on.
- `cacheKey` (`proxy.cc:145`) writes the port and the path with nothing between them, and
  `parseURL` takes a URL with neither `://` nor a leading `//` whole for the path, also if
  it does not start with a slash (`http.cc:121`). So `GET 0/a` with `Host: h:8` and
  `GET http://h/a` both have the key `GET h:80/a`, and the client of the second may be
  given what was stored for the first, although the README says that a client gets the
  response of the origin it names. `NoCrossTalk` excepts answers from the cache when
  one of the two paths starts with a digit, and nothing else; two requests of
  `MCProxy` share a key like this, and without the exception TLC shows one being
  answered with the other's response.
- `parseURL` looks for `://` in the whole URL (`http.cc:118`): `GET /a?from=http://h` goes
  to `h`, for the path `/`, whatever the Host header says, although the comment at
  `http.cc:115` has a URL that starts with a slash as origin form, and the README the
  Host header for those. A request of `MCProxy` has such a URL and a blocked host in its
  Host header; what the blocklist sees is the host that is connected to.
- `proxy.cc` reads only the first Cache-Control header, so `no-store` in a second one
  is not seen, and looks for the directives in lower case only, so `No-Store` is not
  either. `HitIsFresh` says so; the replies of `MCProxy` have one such header at most,
  one of them with `No-Store`.
- `fetch.cc` and `proxy.cc` take a body that is shorter than its Content-Length as whole:
  the aggregator indexes, and the proxy caches, what arrived. The properties do not tell
  such a body from a whole one.
- `xml-utils.cc` writes the port into every URL it resolves: a page that one feed links
  to as `http://h/p` and another by a relative link is fetched and indexed twice
  (`http://h/p`, `http://h:80/p`). The properties of `Aggregator` compare URLs as
  written.
- `aggregate.cc` drops punctuation from a typed word and joins the rest, while the
  tokenizer splits text at it: a query for `o-s` asks for `os`, which the text "o-s"
  does not hold.
- `stsh-parse.cc` drops an empty last stage (`ls |` is accepted as `ls`), although its
  comment says that every stage is validated to have a program.

### Bounds and why they are enough

- Thread pool: two clients make `schedule` race with `schedule` and with `wait`;
  more thunks than workers make the dispatcher wait for a worker and reuse one. The
  proofs hold for any number.
- Semaphore: five threads allow a waiter, a thief, a signaller, a woken thread that
  has not yet the mutex, and one more; proved for any number.
- Farm: three workers and four numbers reuse a worker and leave one idle.
- Shell: `MaxPids` bounds the processes of a session, not of a job: three allow a
  two-stage job beside a single one, `fg` of a stopped job and a launch that
  fails half way.
- Plumbing: three stages are the fewest with a middle one, which has both a pipe to
  read and a pipe to write; a capacity below what is written makes every writer block.
- Aggregator: `MCAggregator.tla` says what each link and word is there for. Two threads
  of each pool make two article tasks meet on one URL, on the semaphore and in the
  index while the feeds are still being read.
- Runs over data (`StshParse`, `MapReduce`, `V6FileSystem`, `AmazonSearch`) take all
  inputs up to a size at which every branch is taken; their cfg files name it.
- Proxy: `MaxTime` 2 lets an entry with a lifetime of one be fresh, expire and be
  replaced. Requests and replies are representatives of each branch
  (`MCProxy.tla` says which): the three forms of URL, hosts from the URL and from the Host
  header, two ports of one host, a port beyond 16 bits, and two requests that share a key.
- Symmetry is used for the proxy's connections only; that run checks no liveness.

Deadlock is checked except where a program may stop: the two runs of `Farm`,
where a stuck manager is the subject, and `MCV6FileSystem` and
`MCAmazonSearch`, where the program simply ends.

### Fairness

Weak fairness of a thread's own next step, and nothing more: the operating system
runs runnable threads. Calls a client may or may not make (`schedule`, `wait`, the
destructor) have none. A mutex is assumed not to starve a thread only as far as
weak fairness says. In `farm` workers factor their number in finite
time; in `stsh` programs that are not stopped end, and a SIGCHLD that is unblocked
again and again is delivered (strong fairness of the handler: the kernel delivers a
pending signal as soon as it is unblocked); in `plumbing` programs keep
reading and writing; in `aggregator` downloads end, and one of the threads that can go
on does (weak fairness of `Progress` as a whole, which is enough because the work is
finite). Nothing is said of the progress
of the proxy: it has no timeouts, so it depends on its peers.

## 4. Proofs

`ThreadPoolProofs` proves, for every `N > 0`, every finite set of thunks and of
clients, the safety properties of `thread_pool`, the refinement, that a quiet pool is as
new and that shutdown loses no thunk. None of
them is inductive alone. `IInv` (checked by TLC as well) adds, as long as `done`
is not raised:

- three counts and the sets they stand for: `outstanding` is the number of live
  thunks plus the workers that have finished one but not yet said so;
  `queued` is the length of the queue less the clients between push and signal,
  less the permit the dispatcher holds; `availableWorkers` likewise for idle
  workers;
- for each worker, exactly one of four conditions: marked available, claimed by
  the dispatcher, signalled, or busy;
- each pending thunk is in exactly one place: with a client in `schedule`, in the
  queue, in the dispatcher's hand or in one slot;
- the destructor is only past its `wait` when all clients are gone.

Each conjunct has a lemma with one step per action; `Invariance` combines them. The
cardinality facts come from `FiniteSetTheorems`.

`SemaphoreProofs` proves mutual exclusion, that no wakeup is lost, and that
`Semaphore` implements `AtomicSemaphore`, for any finite set of threads. The
invariant relates the value to the waiters: while a thread is parked, the permits
are no more than the threads that will test the value again, plus one if a
signaller is about to notify.

`FarmProofs` proves all four safety properties of the farm, for every number of workers
and of numbers, with the handler free to run between any two steps of the manager.
`FInv` has, beside the types and what the table, the mask and the last test say:

- `CountInv`: the count is the number of marked workers, plus the one being taken, and
  the value the manager has loaded is still the count, but for signals handled in the
  windows; a lost increment leaves it too low and never too high, which is why the
  assertions survive a SIGCHLD inside the decrement;
- `WakeInv`: a worker that has stopped is marked, or still to be reported with a SIGCHLD
  pending, or the one being taken, if no signal was handled in a window;
- `PipeInv`: the manager keeps its write ends until it writes no more, and a worker that
  has exited has read everything;
- `NumberInv`: a number that has been written is in exactly one place, in one pipe or among
  the factored ones.

That a farm at its end has factored everything is not inductive alone: it says
nothing before the end.

`StshProofs` proves the five safety properties of the shell, for every number of
processes and of stages. The parts of `SInv`, each with a lemma that has a step per kind
of step (`Cases`):

- `KernelInv`: process ids are given out in order, and an event that is not yet
  reported is the latest change of its process, with a SIGCHLD pending.
- `MaskInv`: where exactly SIGCHLD is blocked.
- `LaunchInv`: the children of the launch under way are in its group, but for the newest
  one while neither parent nor child has called `setpgid`.
- `TrackInv`: without an event the table says what the kernel says; what it says to be
  terminated is reaped.
- `OwnerInv`: each process is in one job, in the launch, abandoned or reaped; a job
  is the group of one of its own processes, so no two share one.
- `NumberInv`: a new job gets a free number, because each earlier job took a process.
- `TerminalInv`, `MarkInv`: where the shell has the terminal, and that only the job waited
  for is marked foreground.
- `ForegroundInv`: a foreground process that runs is known to the table to run. This is what
  the wait goes by: only the prompt can continue a process, and `fg` marks the job before
  its SIGCONT. With `OwnerInv` it gives `WaitsForWholeGroup`.

`ProxyProofs` proves `NoCrossTalk`, the other two invariants and the action property of the
proxy, for any connections, threads, requests, replies and lifetimes. The first part is about
texts: a host never holds a colon, however it was written, and a path is not empty
(`ParsedText`); a port is written in digits (`PortInDigits`), no two ports alike
(`PortsDiffer`); so a key can be taken apart at the first colon and, if the path does not start
with a digit, where the digits end (`KeyApart`), and two requests with such paths and one key
are for one method, host, port and path (`KeysTell`). Where a path starts with a digit this is
false, hence the exception of `NoCrossTalk`. The second part is the invariant of the concurrent
engine, `EngineInv`: a partition holds, for each word, the sum over the map tasks of what each
has appended so far (`PartitionsAddUp`), whatever the order; and no reducer starts before all
have finished (`PhasesInOrder`).

All these inductive invariants were checked by TLC on the instances of the runs before they were
proved (unbounded quantifiers in them by bounded ones). Proving them also found three CASE expressions whose guards
overlapped (in `Stsh`, `Plumbing` and `V6FileSystem`): TLC takes the first that holds, the
semantics any. They are now disjoint.

Only model-checked, and why:

- all liveness (`WaitReturns`, `DestructorReturns`, `FarmEnds`, `PromptReturns`, `CallsReturn`,
  `QueriesAreReached`): the prover has neither fairness nor ENABLED;
- what the folds, sorts and searches of the sequential modules compute (`LexIsExact`,
  `ArgumentsAreKept`, and the properties of `V6FileSystem` and `AmazonSearch`): they are
  properties of data of any size, written with operators the prover cannot unfold
  (`SelectSeq`, `SortSeq`, folds, RECURSIVE); where one is worth it, it can be restated as
  `MapReduce` was. For the same reason `SiteAssumption` is evaluated and not proved.

## 5. Not modelled

- Thunks that throw (the worker would call `std::terminate`) or that call the pool.
- Reuse of process identifiers; functions that are not async-signal-safe inside
  handlers; exhaustion of memory, descriptors or processes, except a failing call
  in `Plumbing` and a failing launch in `Stsh`.
- The calls of `subprocess()` that ask for only one of its pipes, which no program here
  makes.
- What becomes of the jobs that are left when the shell quits.
- The pieces in which a socket delivers a message: a stream is taken whole, up to the
  point where the peer closes it.
- libxml2, DNS, regular expressions, formatting and logging; test drivers and
  command-line front ends.

## 6. Plan

Order of work, most important first.

1. Done: thread pool and semaphore with their abstract specifications and proofs;
   farm; shell, at a terminal and from a script; parser; subprocess, pipeline and
   redirections (`Plumbing`); map-reduce; proxy; aggregator over two instances of
   `TaskPool`, with `NewsDocuments`; file system; review search.
2. Done: theorems about thread pool, semaphore, farm, shell, subprocesses and pipelines,
   map-reduce, proxy and aggregator: every safety property their runs check (section 4).
3. Theorems left: `SearchIsExact` of `AmazonSearch` and `ReadsBack` of `V6FileSystem`, by the
   induction of `MapReduceProofs`.
