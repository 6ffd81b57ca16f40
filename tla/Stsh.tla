--------------------------------- MODULE Stsh ---------------------------------
(***************************************************************************)
(* stsh.cc: the shell's job table, its SIGCHLD handler, foreground waiting *)
(* and the built-ins, against the kernel's view of the child processes.    *)
(* The shell is single-threaded but its handlers interrupt it, the         *)
(* children run beside it, and the user types Ctrl-C and Ctrl-Z whenever   *)
(* he likes.  Process ids are not reused.  The kernel (process states,     *)
(* groups, the terminal, waitpid) is modelled from how stsh.cc uses it.    *)
(***************************************************************************)
EXTENDS Naturals, FiniteSets

CONSTANTS MaxPids,    \* bound: processes forked in a session
          MaxStages   \* bound: commands in a pipeline

ASSUME BoundsAssumption == MaxPids \in Nat \ {0} /\ MaxStages \in Nat \ {0}

Pids == 1 .. MaxPids
Shell == 0            \* the shell's process group
Nums == 1 .. MaxPids  \* job numbers: a job has at least one process
NoTerminal == MaxPids + 1  \* standard input is a file or a pipe: not interactive

VARIABLES
    jobs,      \* jobs_: job number -> [pgid, state, processes]
    counter,   \* counter_
    fgPgid,    \* process group of the foreground job, or 0
    spc,       \* the shell's next step
    pids,      \* runPipeline: children forked so far
    pgid,      \* runPipeline, fg, waitForForegroundJob: the group in question
    todo,      \* runPipeline: stages still to fork
    fore,      \* runPipeline: is the pipeline to run in the foreground
    blocked,   \* is SIGCHLD blocked
    pending,   \* is SIGCHLD pending
    kstate,    \* kstate[p]: state of process p in the kernel
    event,     \* event[p]: the change of p that waitpid has not reported yet
    group,     \* group[p]: process group of p
    terminal,  \* the terminal's foreground process group, or NoTerminal
    abandoned  \* history: children of a launch that failed half way

tableVars == <<jobs, counter>>
localVars == <<pids, pgid, todo, fore>>
kernelVars == <<kstate, event, group>>
vars == <<tableVars, fgPgid, spc, localVars, blocked, pending, kernelVars,
          terminal, abandoned>>

ShellPC == {"prompt", "fork", "setpgid", "addJob", "setFg", "launchTerminal",
            "launchRestore", "fgSet", "fgRestore", "fgTerminal", "waitBlock",
            "waitTest", "sigsuspend", "suspended", "waitRestore",
            "waitTerminal", "waitReset", "ended"}
ProcState == {"running", "stopped", "terminated"}

Born == {p \in Pids : kstate[p] # "unborn"}
Alive == {p \in Pids : kstate[p] \in {"running", "stopped"}}

TypeOK ==
    /\ DOMAIN jobs \subseteq Nums
    /\ \A n \in DOMAIN jobs :
          /\ jobs[n].pgid \in Pids
          /\ jobs[n].state \in {"foreground", "background"}
          /\ DOMAIN jobs[n].processes \subseteq Pids
          /\ \A p \in DOMAIN jobs[n].processes : jobs[n].processes[p] \in ProcState
    /\ counter \in 0 .. MaxPids
    /\ fgPgid \in 0 .. MaxPids
    /\ spc \in ShellPC
    /\ pids \subseteq Pids /\ pgid \in 0 .. MaxPids
    /\ todo \in 0 .. MaxStages /\ fore \in BOOLEAN
    /\ blocked \in BOOLEAN /\ pending \in BOOLEAN
    /\ kstate \in [Pids -> {"unborn", "running", "stopped", "zombie", "reaped"}]
    /\ event \in [Pids -> {"none", "stopped", "continued", "exited"}]
    /\ group \in [Pids -> 0 .. MaxPids]
    /\ terminal \in 0 .. NoTerminal
    /\ abandoned \subseteq Pids

Init ==
    /\ jobs = [n \in {} |-> 0] /\ counter = 0 /\ fgPgid = 0
    /\ spc = "prompt"
    /\ pids = {} /\ pgid = 0 /\ todo = 0 /\ fore = FALSE
    /\ blocked = FALSE /\ pending = FALSE
    /\ kstate = [p \in Pids |-> "unborn"]
    /\ event = [p \in Pids |-> "none"]
    /\ group = [p \in Pids |-> Shell]
    /\ terminal \in {Shell, NoTerminal}
    /\ abandoned = {}

interactive == terminal # NoTerminal

-------------------------------------------------------------------------------
(* The job table                                                           *)

Job(g, state, processes) == [pgid |-> g, state |-> state, processes |-> processes]
States(job) == {job.processes[p] : p \in DOMAIN job.processes}
\* Mutant: a job that only has stopped processes left counts as finished.
NoneRunning(job) == "running" \notin States(job)
AllTerminated(job) == States(job) \subseteq {"terminated"}
\* Mutant: one process that does not run is enough to stop waiting.
AllRunning(job) == States(job) \subseteq {"running"}
AnyRunning(job) == "running" \in States(job)
AllStopped(job) == ~AnyRunning(job) /\ ~AllTerminated(job)

JobsOfGroup(g) == {n \in DOMAIN jobs : jobs[n].pgid = g}

-------------------------------------------------------------------------------
(* The kernel: what a signal sent to the processes ps does to them, and to *)
(* the shell, which gets SIGCHLD for every change                          *)

StateAfter(sig) ==
    CASE sig \in {"SIGKILL", "SIGINT"} -> "zombie"
      [] sig = "SIGTSTP" -> "stopped"
      [] sig = "SIGCONT" -> "running"
EventOf(sig) ==
    CASE sig \in {"SIGKILL", "SIGINT"} -> "exited"
      [] sig = "SIGTSTP" -> "stopped"
      [] sig = "SIGCONT" -> "continued"

Deliver(sig, ps) ==
    LET hit == {p \in ps : \/ sig = "SIGKILL" /\ p \in Alive
                           \/ sig = "SIGINT" /\ kstate[p] = "running"
                           \/ sig = "SIGTSTP" /\ kstate[p] = "running"
                           \/ sig = "SIGCONT" /\ kstate[p] = "stopped"}
    IN  /\ kstate' = [p \in Pids |-> IF p \in hit THEN StateAfter(sig) ELSE kstate[p]]
        /\ event' = [p \in Pids |-> IF p \in hit THEN EventOf(sig) ELSE event[p]]
        /\ pending' = (pending \/ hit # {})

Members(g) == {p \in Born : group[p] = g}

\* A child runs as soon as it is forked: it moves itself to its group before it
\* does anything else, and then may end at any time.
ChildSetpgid(p) ==
    /\ kstate[p] = "running" /\ spc # "ended"
    /\ group[p] = Shell
    /\ group' = [group EXCEPT ![p] = IF pgid = 0 THEN p ELSE pgid]
    /\ UNCHANGED <<tableVars, fgPgid, spc, localVars, blocked, pending, kstate,
                   event, terminal, abandoned>>

Exit(p) ==
    /\ kstate[p] = "running" /\ spc # "ended"
    /\ group[p] # Shell
    /\ kstate' = [kstate EXCEPT ![p] = "zombie"]
    /\ event' = [event EXCEPT ![p] = "exited"]
    /\ pending' = TRUE
    /\ UNCHANGED <<tableVars, fgPgid, spc, localVars, blocked, group, terminal,
                   abandoned>>

\* A process that reads from a terminal its group does not own gets SIGTTIN.
ReadTerminal(p) ==
    /\ kstate[p] = "running" /\ spc # "ended"
    /\ interactive
    /\ group[p] \notin {Shell, terminal}
    /\ kstate' = [kstate EXCEPT ![p] = "stopped"]
    /\ event' = [event EXCEPT ![p] = "stopped"]
    /\ pending' = TRUE
    /\ UNCHANGED <<tableVars, fgPgid, spc, localVars, blocked, group, terminal,
                   abandoned>>

\* Ctrl-C and Ctrl-Z go to the terminal's group.
Keyboard(sig) ==
    /\ terminal \in Pids /\ spc # "ended"
    /\ Deliver(sig, Members(terminal))
    /\ UNCHANGED <<tableVars, fgPgid, spc, localVars, blocked, group, terminal,
                   abandoned>>

\* If that is the shell's, or the shell of a script is sent the signal, it passes the
\* signal on to the foreground job, and a sigsuspend it was in returns.  A child that
\* has not left the shell's group gets it from the terminal, too: it is hit once it
\* has reset its handlers, which it does just before it leaves.
forwardToForeground(sig) ==
    /\ terminal \in {Shell, NoTerminal} /\ spc # "ended"
    /\ \E reset \in SUBSET (IF interactive THEN Members(Shell) ELSE {}) :
          Deliver(sig, reset \cup (IF fgPgid > 0 THEN Members(fgPgid) ELSE {}))
    /\ spc' = IF spc = "suspended" THEN "waitTest" ELSE spc
    /\ UNCHANGED <<tableVars, fgPgid, localVars, blocked, group, terminal, abandoned>>

-------------------------------------------------------------------------------
(* handleSIGCHLD: the loop of waitpid collects every change                *)

Reported(p, state) ==
    CASE event[p] = "exited" -> "terminated"
      [] event[p] = "stopped" -> "stopped"
      [] event[p] = "continued" -> "running"
      [] event[p] = "none" -> state

Updated(job) ==
    Job(job.pgid, job.state,
        [p \in DOMAIN job.processes |-> Reported(p, job.processes[p])])

handleSIGCHLD ==
    /\ pending /\ spc # "ended"
    /\ ~blocked \/ spc = "suspended"
    /\ pending' = FALSE
    /\ event' = [p \in Pids |-> "none"]
    /\ kstate' = [p \in Pids |-> IF event[p] = "exited" THEN "reaped" ELSE kstate[p]]
    /\ jobs' = [n \in {k \in DOMAIN jobs : ~AllTerminated(Updated(jobs[k]))} |->
                  Updated(jobs[n])]
    /\ spc' = IF spc = "suspended" THEN "waitTest" ELSE spc
    /\ UNCHANGED <<counter, fgPgid, localVars, blocked, group, terminal,
                   abandoned>>

-------------------------------------------------------------------------------
(* runPipeline                                                             *)

Goto(from, to) == spc = from /\ spc' = to

\* Mutant: SIGCHLD is not blocked while the job is built.
LaunchUnblocked ==
    /\ Goto("prompt", "fork")
    /\ pids' = {} /\ pgid' = 0
    /\ todo' \in 1 .. MaxStages
    /\ fore' \in BOOLEAN
    /\ UNCHANGED <<tableVars, fgPgid, blocked, pending, kernelVars, terminal,
                   abandoned>>

LaunchBlock ==
    /\ Goto("prompt", "fork")
    /\ blocked' = TRUE
    /\ pids' = {} /\ pgid' = 0
    /\ todo' \in 1 .. MaxStages
    /\ fore' \in BOOLEAN
    /\ UNCHANGED <<tableVars, fgPgid, pending, kernelVars, terminal, abandoned>>

LaunchFork ==
    /\ Goto("fork", "setpgid")
    /\ \E p \in Pids \ Born :
          /\ \A q \in Pids \ Born : p =< q
          /\ kstate' = [kstate EXCEPT ![p] = "running"]
          /\ pids' = pids \cup {p}
    /\ todo' = todo - 1
    /\ UNCHANGED <<tableVars, fgPgid, pgid, fore, blocked, pending, event, group,
                   terminal, abandoned>>

\* pipe or fork fails: the mask is restored, the stages already running are
\* neither recorded nor ended.
LaunchFail ==
    /\ Goto("fork", "prompt")
    /\ blocked' = FALSE
    /\ abandoned' = abandoned \cup pids
    /\ pids' = {} /\ pgid' = 0 /\ todo' = 0 /\ fore' = FALSE
    /\ UNCHANGED <<tableVars, fgPgid, pending, kernelVars, terminal>>

\* Mutant: only the child calls setpgid.
LaunchLeavesGroup ==
    /\ Goto("setpgid", IF todo > 0 THEN "fork" ELSE "addJob")
    /\ \E p \in pids :
          /\ \A q \in pids : q =< p
          /\ pgid' = IF pgid = 0 THEN p ELSE pgid
    /\ UNCHANGED <<tableVars, fgPgid, pids, todo, fore, blocked, pending,
                   kernelVars, terminal, abandoned>>

\* The parent's setpgid, for a child that has not done it itself.  A zombie keeps
\* its group until it is reaped, so with SIGCHLD blocked the group still exists.
LaunchSetpgid ==
    /\ Goto("setpgid", IF todo > 0 THEN "fork" ELSE "addJob")
    /\ \E p \in pids :
          /\ \A q \in pids : q =< p
          /\ pgid' = IF pgid = 0 THEN p ELSE pgid
          /\ group' = [group EXCEPT ![p] = pgid']
    /\ UNCHANGED <<tableVars, fgPgid, pids, todo, fore, blocked, pending, kstate,
                   event, terminal, abandoned>>

\* emplace leaves an entry that exists.
addJob(num, job) ==
    [n \in DOMAIN jobs \cup {num} |-> IF n \in DOMAIN jobs THEN jobs[n] ELSE job]

\* addJob and push_back of the processes.  A background launch ends here and restores
\* the mask.
LaunchAddJob ==
    /\ Goto("addJob", IF fore THEN "setFg" ELSE "prompt")
    /\ counter' = counter + 1
    /\ jobs' = addJob(counter + 1,
                      Job(pgid, IF fore THEN "foreground" ELSE "background",
                          [p \in pids |-> "running"]))
    /\ blocked' = fore
    /\ pids' = {}
    /\ UNCHANGED <<fgPgid, pgid, todo, fore, pending, kernelVars, terminal,
                   abandoned>>

SetForeground ==
    /\ Goto("setFg", "launchTerminal") \/ Goto("fgSet", "fgRestore")
    /\ fgPgid' = pgid
    /\ UNCHANGED <<tableVars, localVars, blocked, pending, kernelVars, terminal,
                   abandoned>>

\* giveTerminalTo.  tcsetpgrp fails if the group is gone: fg restores the mask first.
GiveTerminal ==
    /\ Goto("launchTerminal", "launchRestore") \/ Goto("fgTerminal", "waitBlock")
    /\ terminal' = IF interactive /\ \E p \in Members(pgid) : kstate[p] # "reaped"
                   THEN pgid ELSE terminal
    /\ UNCHANGED <<tableVars, fgPgid, localVars, blocked, pending, kernelVars,
                   abandoned>>

RestoreMask ==
    /\ Goto("launchRestore", "waitBlock") \/ Goto("fgRestore", "fgTerminal")
    /\ blocked' = FALSE
    /\ UNCHANGED <<tableVars, fgPgid, localVars, pending, kernelVars, terminal,
                   abandoned>>

-------------------------------------------------------------------------------
(* waitForForegroundJob(pgid)                                              *)

\* Mutant: SIGCHLD may come between the test and sigsuspend.
WaitUnblocked ==
    /\ Goto("waitBlock", "waitTest")
    /\ UNCHANGED <<tableVars, fgPgid, localVars, blocked, pending, kernelVars,
                   terminal, abandoned>>

WaitBlock ==
    /\ Goto("waitBlock", "waitTest")
    /\ blocked' = TRUE
    /\ UNCHANGED <<tableVars, fgPgid, localVars, pending, kernelVars, terminal,
                   abandoned>>

WaitTest ==
    /\ Goto("waitTest", "sigsuspend")
    /\ \E n \in JobsOfGroup(pgid) : AnyRunning(jobs[n])
    /\ UNCHANGED <<tableVars, fgPgid, localVars, blocked, pending, kernelVars,
                   terminal, abandoned>>

\* sigsuspend unblocks SIGCHLD and sleeps in one step; see handleSIGCHLD.
WaitSuspend ==
    /\ Goto("sigsuspend", "suspended")
    /\ UNCHANGED <<tableVars, fgPgid, localVars, blocked, pending, kernelVars,
                   terminal, abandoned>>

\* Mutant: a job that stops stays marked foreground.
WaitOverKeepsState ==
    /\ Goto("waitTest", "waitRestore")
    /\ \A n \in JobsOfGroup(pgid) : ~AnyRunning(jobs[n])
    /\ fgPgid' = 0
    /\ UNCHANGED <<tableVars, localVars, blocked, pending, kernelVars, terminal,
                   abandoned>>

\* The job is gone or no process of it runs: a stopped one becomes background.
WaitOver ==
    /\ Goto("waitTest", "waitRestore")
    /\ \A n \in JobsOfGroup(pgid) : ~AnyRunning(jobs[n])
    /\ jobs' = [n \in DOMAIN jobs |->
                  IF n \in JobsOfGroup(pgid) /\ AllStopped(jobs[n])
                  THEN Job(pgid, "background", jobs[n].processes) ELSE jobs[n]]
    /\ fgPgid' = 0
    /\ UNCHANGED <<counter, localVars, blocked, pending, kernelVars, terminal,
                   abandoned>>

WaitRestore ==
    /\ Goto("waitRestore", "waitTerminal")
    /\ blocked' = FALSE
    /\ UNCHANGED <<tableVars, fgPgid, localVars, pending, kernelVars, terminal,
                   abandoned>>

WaitTakeTerminal ==
    /\ Goto("waitTerminal", "waitReset")
    /\ terminal' = IF interactive THEN Shell ELSE terminal
    /\ UNCHANGED <<tableVars, fgPgid, localVars, blocked, pending, kernelVars,
                   abandoned>>

MaybeResetCounter ==
    /\ Goto("waitReset", "prompt")
    /\ counter' = IF DOMAIN jobs = {} THEN 0 ELSE counter
    /\ pgid' = 0 /\ todo' = 0 /\ fore' = FALSE
    /\ UNCHANGED <<jobs, fgPgid, pids, blocked, pending, kernelVars, terminal,
                   abandoned>>

-------------------------------------------------------------------------------
(* The built-ins that change something (jobs only prints)                  *)

\* quit, exit, or the end of the input.  Jobs that are left are not ended, and what
\* becomes of them without a shell is not modelled.
Quit ==
    /\ Goto("prompt", "ended")
    /\ UNCHANGED <<tableVars, fgPgid, localVars, blocked, pending, kernelVars, terminal,
                   abandoned>>

Ended == spc = "ended" /\ UNCHANGED vars

MarkedRunning(ps) == [p \in DOMAIN ps |-> IF ps[p] = "stopped" THEN "running" ELSE ps[p]]

\* fg n and bg n, from blocking SIGCHLD to the SIGCONT: the table is made to say
\* running before the children are.
Resume(n, foreground) ==
    /\ spc = "prompt"
    /\ n \in DOMAIN jobs
    /\ jobs' = [jobs EXCEPT ![n] =
                  Job(@.pgid, IF foreground THEN "foreground" ELSE "background",
                      MarkedRunning(@.processes))]
    /\ Deliver("SIGCONT", Members(jobs[n].pgid))
    /\ spc' = IF foreground THEN "fgSet" ELSE "prompt"
    /\ blocked' = foreground
    /\ pgid' = IF foreground THEN jobs[n].pgid ELSE 0
    /\ UNCHANGED <<counter, fgPgid, pids, todo, fore, group, terminal, abandoned>>

\* slay, halt and cont, for a process or for a whole job; SIGCHLD stays blocked
\* from the look-up to the signal.
SignalBuiltin(sig, ps) ==
    /\ spc = "prompt"
    /\ Deliver(sig, ps)
    /\ UNCHANGED <<tableVars, fgPgid, spc, localVars, blocked, group, terminal,
                   abandoned>>

Signals ==
    \E sig \in {"SIGKILL", "SIGTSTP", "SIGCONT"} :
        \/ \E p \in Alive : SignalBuiltin(sig, {p})
        \/ \E n \in DOMAIN jobs : SignalBuiltin(sig, Members(jobs[n].pgid))

-------------------------------------------------------------------------------
ShellStep ==
    \/ LaunchFork \/ LaunchSetpgid \/ LaunchAddJob
    \/ SetForeground \/ GiveTerminal \/ RestoreMask
    \/ WaitBlock \/ WaitTest \/ WaitSuspend \/ WaitOver \/ WaitRestore \/ WaitTakeTerminal
    \/ MaybeResetCounter

User ==
    \/ LaunchBlock
    \/ \E n \in DOMAIN jobs, foreground \in BOOLEAN : Resume(n, foreground)
    \/ Signals
    \/ \E sig \in {"SIGINT", "SIGTSTP"} : Keyboard(sig) \/ forwardToForeground(sig)
    \/ Quit

Next ==
    \/ ShellStep
    \/ User
    \/ LaunchFail
    \/ Ended
    \/ handleSIGCHLD
    \/ \E p \in Pids : ChildSetpgid(p) \/ Exit(p) \/ ReadTerminal(p)

Spec == Init /\ [][Next]_vars

\* The shell runs, signals are delivered, fork works or fails, and every process
\* that is not stopped ends some day.  The user need not do anything, nor does he send
\* signals so fast that each finds the shell just suspended again, with a SIGCHLD
\* pending that it never gets to (SF).
FairSpec ==
    /\ Spec
    /\ WF_vars(ShellStep \/ LaunchFail)
    /\ SF_vars(handleSIGCHLD)
    /\ \A p \in Pids : WF_vars(ChildSetpgid(p)) /\ WF_vars(Exit(p))

-------------------------------------------------------------------------------
(* Properties                                                              *)

InJob(p, n) == p \in DOMAIN jobs[n].processes

\* Whenever the shell reads a command it owns the terminal, fgPgid names no job
\* and no job in the table is marked foreground, however the last foreground
\* job ended or stopped (waitForForegroundJob, lines 197 to 203).
PromptOwnsTerminal ==
    spc = "prompt" =>
        /\ terminal \in {Shell, NoTerminal}
        /\ fgPgid = 0
        /\ \A n \in DOMAIN jobs : jobs[n].state = "background"

\* The shell stops waiting only when "every process in the group has terminated
\* or stopped" (README.md of stsh/), not the first one.
WaitsForWholeGroup ==
    spc = "waitRestore" => \A p \in Members(pgid) : kstate[p] # "running"

\* Apart from the changes waitpid has still to report, of which a SIGCHLD is
\* pending, the table says of every process what the kernel says.  markGroupRunning
\* must not run ahead of SIGCONT for this.
TableTracksKernel ==
    /\ (\E p \in Pids : event[p] # "none") => pending
    /\ \A n \in DOMAIN jobs : \A p \in DOMAIN jobs[n].processes :
          event[p] = "none" =>
              kstate[p] = IF jobs[n].processes[p] = "terminated" THEN "reaped"
                          ELSE jobs[n].processes[p]

\* No child is lost: every process not yet reaped is in exactly one job, or is a
\* stage of the pipeline being launched, or of a launch that failed half way; and
\* no job outlives its processes.
TableIsComplete ==
    /\ TypeOK
    /\ \A p \in Born :
          LET owners == {n \in DOMAIN jobs : InJob(p, n)}
          IN  /\ Cardinality(owners) =< 1
              /\ kstate[p] # "reaped" => owners # {} \/ p \in pids \cup abandoned
    /\ \A n \in DOMAIN jobs : ~AllTerminated(jobs[n])

\* All processes of a job are in its process group, so Ctrl-C, fg and slay %n
\* reach every stage whichever of parent and child called setpgid first; and two
\* jobs never share a group (getJobByPgid returns the first match).
GroupsAreWhole ==
    /\ \A n \in DOMAIN jobs : \A p \in DOMAIN jobs[n].processes :
          group[p] = jobs[n].pgid
    /\ \A n, k \in DOMAIN jobs : jobs[n].pgid = jobs[k].pgid => n = k

\* The shell comes back to the prompt: the foreground job ends or stops, and the
\* shell notices.  That includes a job that is stopped because it reads the terminal
\* before the shell has handed it over (lines 258 and 360).
PromptReturns == spc \notin {"prompt", "ended"} ~> spc = "prompt"
===============================================================================
