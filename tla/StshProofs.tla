------------------------------ MODULE StshProofs ------------------------------
(***************************************************************************)
(* Proofs about module Stsh, for every number of processes in a session    *)
(* and of commands in a pipeline.                                          *)
(***************************************************************************)
EXTENDS Stsh, FiniteSetTheorems, TLAPS

USE BoundsAssumption
USE DEF tableVars, localVars, kernelVars, vars

-------------------------------------------------------------------------------
(* The inductive invariant                                                 *)

Processes(n) == DOMAIN jobs[n].processes
Says(n, p) == jobs[n].processes[p]

\* The shape of the table.
ShapeInv ==
  /\ jobs = [n \in DOMAIN jobs |-> jobs[n]]
  /\ \A n \in DOMAIN jobs :
       /\ jobs[n] = Job(jobs[n].pgid, jobs[n].state, jobs[n].processes)
       /\ jobs[n].processes = [p \in Processes(n) |-> Says(n, p)]

\* Process ids are given out in order; the last event of a process is its state.
KernelInv ==
  /\ \A p, q \in Pids : p < q /\ kstate[p] = "unborn" => kstate[q] = "unborn"
  /\ \A p \in Pids :
       /\ event[p] # "none" => pending
       /\ kstate[p] = "unborn" => group[p] = Shell
       /\ event[p] = "exited" <=> kstate[p] = "zombie"
       /\ event[p] = "stopped" => kstate[p] = "stopped"
       /\ event[p] = "continued" => kstate[p] = "running"

\* SIGCHLD is blocked while a job is built, resumed or waited for.
Launching == {"fork", "setpgid", "addJob"}
Foreground == {"setFg", "launchTerminal", "launchRestore", "fgSet", "fgRestore", "fgTerminal",
               "waitBlock", "waitTest", "sigsuspend", "suspended"}
Masked == Launching \cup {"setFg", "launchTerminal", "launchRestore", "fgSet", "fgRestore",
                          "waitTest", "sigsuspend", "suspended", "waitRestore"}
MaskInv == blocked <=> spc \in Masked

\* The last child forked, which may not have left the shell's group.
Newest(p) == p \in pids /\ \A q \in pids : q =< p

\* The children of the launch under way.
LaunchInv ==
  /\ pids # {} => spc \in Launching
  /\ spc \in {"setpgid", "addJob"} => pids # {}
  /\ spc = "fork" => todo > 0
  /\ \A p \in pids : kstate[p] # "unborn" /\ (event[p] = "none" => kstate[p] = "running")
  /\ spc \in Launching => \A p \in pids :
       \/ group[p] = pgid /\ pgid \in pids
       \/ /\ spc = "setpgid" /\ Newest(p)
          /\ group[p] \in {Shell, IF pgid = 0 THEN p ELSE pgid}
          /\ pgid \in pids \cup {0}
          /\ pgid = 0 => pids = {p}
  /\ spc = "fork" /\ pids = {} => pgid = 0
  /\ \A p \in Born : group[p] = Shell => spc = "setpgid" /\ Newest(p)

\* What the table says was so before the events still to be reported.
TrackInv ==
  \A n \in DOMAIN jobs : \A p \in Processes(n) :
     /\ Says(n, p) = "terminated" => kstate[p] = "reaped"
     /\ event[p] = "none" =>
          kstate[p] = IF Says(n, p) = "terminated" THEN "reaped" ELSE Says(n, p)

\* Whose each process is.
OwnerInv ==
  /\ \A n \in DOMAIN jobs :
       /\ jobs[n].pgid \in Processes(n)
       /\ ~AllTerminated(jobs[n])
       /\ \A p \in Processes(n) :
            /\ p \in Born /\ p \notin pids \cup abandoned
            /\ group[p] = jobs[n].pgid
            /\ \A k \in DOMAIN jobs : p \in Processes(k) => k = n
  /\ \A p \in abandoned : p \in Born /\ p \notin pids /\ group[p] \in abandoned
  /\ \A p \in Born :
       kstate[p] = "reaped" \/ p \in pids \cup abandoned \/ \E n \in DOMAIN jobs : p \in Processes(n)

\* Job numbers.
NumberInv ==
  /\ \A n \in DOMAIN jobs : n =< counter
  /\ counter > 0 => counter \in Born
  /\ pids # {} => counter + 1 \in Born

\* Who has the terminal, and what SIGINT is passed on to.
WithShell == {"prompt", "setFg", "launchTerminal", "fgSet", "fgRestore", "fgTerminal",
              "waitReset", "ended"} \cup Launching
TerminalInv ==
  /\ spc \in WithShell => terminal \in {Shell, NoTerminal}
  /\ spc \in {"prompt", "setFg", "fgSet", "waitRestore", "waitTerminal", "waitReset", "ended"}
             \cup Launching => fgPgid = 0

\* Only the job waited for is marked foreground.
MarkInv ==
  \A n \in DOMAIN jobs :
     jobs[n].state = "foreground" => spc \in Foreground /\ jobs[n].pgid = pgid

\* What the wait goes by: no process of the job runs that the table does not know to run.
ForegroundInv ==
  spc \in Foreground =>
     /\ pgid \in Pids \ abandoned
     /\ \A n \in JobsOfGroup(pgid) : \A p \in Processes(n) :
          kstate[p] = "running" => Says(n, p) = "running"

SInv ==
  /\ TypeOK /\ ShapeInv /\ KernelInv /\ MaskInv /\ LaunchInv /\ TrackInv /\ OwnerInv
  /\ NumberInv /\ TerminalInv /\ MarkInv /\ ForegroundInv /\ WaitsForWholeGroup

-------------------------------------------------------------------------------
(* The steps, by what they change                                          *)

\* Some processes change state in the kernel, and the shell is to be told.
KernelMoves(resumes) ==
  /\ kstate' \in [Pids -> {"unborn", "running", "stopped", "zombie", "reaped"}]
  /\ event' \in [Pids -> {"none", "stopped", "continued", "exited"}]
  /\ pending' \in BOOLEAN /\ (pending => pending')
  /\ \A p \in Pids :
       \/ kstate'[p] = kstate[p] /\ event'[p] = event[p]
       \/ /\ pending' /\ kstate[p] \in {"running", "stopped"}
          /\ \/ kstate'[p] = "zombie" /\ event'[p] = "exited"
             \/ kstate'[p] = "stopped" /\ event'[p] = "stopped"
             \/ resumes /\ kstate'[p] = "running" /\ event'[p] = "continued"

KernelStep ==
  /\ KernelMoves(spc = "prompt")
  /\ spc' = spc \/ (spc = "suspended" /\ spc' = "waitTest")
  /\ UNCHANGED <<tableVars, fgPgid, localVars, blocked, group, terminal, abandoned>>

\* A signal does so, and only SIGCONT makes a process run again.
LEMMA Delivers ==
  ASSUME TypeOK, NEW sig \in {"SIGKILL", "SIGINT", "SIGTSTP", "SIGCONT"}, NEW ps, Deliver(sig, ps)
  PROVE  KernelMoves(sig = "SIGCONT")
<1> DEFINE hit == {p \in ps : \/ sig = "SIGKILL" /\ p \in Alive
                              \/ sig = "SIGINT" /\ kstate[p] = "running"
                              \/ sig = "SIGTSTP" /\ kstate[p] = "running"
                              \/ sig = "SIGCONT" /\ kstate[p] = "stopped"}
<1>1. /\ kstate' = [p \in Pids |-> IF p \in hit THEN StateAfter(sig) ELSE kstate[p]]
      /\ event' = [p \in Pids |-> IF p \in hit THEN EventOf(sig) ELSE event[p]]
      /\ pending' = (pending \/ hit # {})
  BY DEF Deliver
<1>2. pending' \in BOOLEAN /\ (pending => pending') /\ (hit # {} => pending')
  BY <1>1, Zenon
<1>3. \A p \in hit : kstate[p] \in {"running", "stopped"}
  BY DEF Alive
<1> HIDE DEF hit
<1> USE DEF StateAfter, EventOf
<1>4. kstate' \in [Pids -> {"unborn", "running", "stopped", "zombie", "reaped"}]
  BY <1>1 DEF TypeOK
<1>5. event' \in [Pids -> {"none", "stopped", "continued", "exited"}]
  BY <1>1 DEF TypeOK
<1>6. ASSUME NEW p \in Pids, p \notin hit
      PROVE  kstate'[p] = kstate[p] /\ event'[p] = event[p]
  BY <1>1, <1>6
<1>7. ASSUME NEW p \in Pids, p \in hit
      PROVE  /\ pending' /\ kstate[p] \in {"running", "stopped"}
             /\ \/ kstate'[p] = "zombie" /\ event'[p] = "exited"
                \/ kstate'[p] = "stopped" /\ event'[p] = "stopped"
                \/ sig = "SIGCONT" /\ kstate'[p] = "running" /\ event'[p] = "continued"
  BY <1>1, <1>2, <1>3, <1>7
<1> QED BY <1>2, <1>4, <1>5, <1>6, <1>7 DEF KernelMoves

\* Signals, the keyboard and the children only make processes stop, end or (from the prompt)
\* continue.
LEMMA KernelSteps ==
  ASSUME TypeOK,
         \/ Signals
         \/ \E sig \in {"SIGINT", "SIGTSTP"} : Keyboard(sig) \/ forwardToForeground(sig)
         \/ \E p \in Pids : Exit(p) \/ ReadTerminal(p)
  PROVE  KernelStep
<1>1. ASSUME NEW sig \in {"SIGKILL", "SIGTSTP", "SIGCONT"}, NEW ps, SignalBuiltin(sig, ps)
      PROVE  KernelStep
  <2>1. KernelMoves(sig = "SIGCONT") /\ spc = "prompt"
    BY <1>1, Delivers DEF SignalBuiltin
  <2>2. KernelMoves(spc = "prompt")
    BY <2>1 DEF KernelMoves
  <2> QED BY <1>1, <2>2 DEF SignalBuiltin, KernelStep
<1>2. ASSUME NEW sig \in {"SIGINT", "SIGTSTP"}, NEW ps, Deliver(sig, ps)
      PROVE  KernelMoves(spc = "prompt")
  <2>1. KernelMoves(sig = "SIGCONT") /\ sig # "SIGCONT"
    BY <1>2, Delivers
  <2> QED BY <2>1 DEF KernelMoves
<1>3. ASSUME NEW sig \in {"SIGINT", "SIGTSTP"}, Keyboard(sig)
      PROVE  KernelStep
  BY <1>2, <1>3 DEF Keyboard, KernelStep
<1>4. ASSUME NEW sig \in {"SIGINT", "SIGTSTP"}, forwardToForeground(sig)
      PROVE  KernelStep
  BY <1>2, <1>4 DEF forwardToForeground, KernelStep
<1>5. ASSUME NEW p \in Pids, Exit(p) \/ ReadTerminal(p)
      PROVE  KernelStep
  <2>1. pending' = TRUE
    BY <1>5 DEF Exit, ReadTerminal
  <2>2. pending' \in BOOLEAN /\ (pending => pending') /\ pending'
    BY <2>1, Zenon
  <2>3. /\ kstate[p] = "running"
        /\ \/ /\ kstate' = [kstate EXCEPT ![p] = "zombie"]
              /\ event' = [event EXCEPT ![p] = "exited"]
           \/ /\ kstate' = [kstate EXCEPT ![p] = "stopped"]
              /\ event' = [event EXCEPT ![p] = "stopped"]
    BY <1>5 DEF Exit, ReadTerminal
  <2>4. KernelMoves(spc = "prompt")
    BY <2>2, <2>3 DEF KernelMoves, TypeOK
  <2> QED BY <1>5, <2>4 DEF Exit, ReadTerminal, KernelStep
<1> QED BY <1>1, <1>3, <1>4, <1>5 DEF Signals

\* The steps that only take the shell from one place to the next.
Passes ==
  \/ SetForeground \/ GiveTerminal \/ RestoreMask \/ WaitBlock \/ WaitTest \/ WaitSuspend
  \/ WaitRestore \/ WaitTakeTerminal \/ Quit

\* They leave the table, the children and the launch alone.
LEMMA PassesChange ==
  ASSUME Passes
  PROVE  UNCHANGED <<tableVars, localVars, pending, kernelVars, abandoned>>
BY DEF Passes, SetForeground, GiveTerminal, RestoreMask, WaitBlock, WaitTest, WaitSuspend,
       WaitRestore, WaitTakeTerminal, Quit

\* Every step is one of these.
LEMMA Cases ==
  ASSUME TypeOK, [Next]_vars
  PROVE  \/ KernelStep \/ handleSIGCHLD
         \/ \E p \in Pids : ChildSetpgid(p)
         \/ \E n \in DOMAIN jobs, foreground \in BOOLEAN : Resume(n, foreground)
         \/ LaunchBlock \/ LaunchFork \/ LaunchFail \/ LaunchSetpgid \/ LaunchAddJob
         \/ WaitOver \/ MaybeResetCounter \/ Passes \/ UNCHANGED vars
BY KernelSteps DEF Next, ShellStep, User, Ended, Passes

\* fg and bg continue every stopped process of the group.
LEMMA Resumes ==
  ASSUME TypeOK, NEW n \in DOMAIN jobs, NEW foreground \in BOOLEAN, Resume(n, foreground)
  PROVE  /\ KernelMoves(TRUE)
         /\ \A p \in Members(jobs[n].pgid) :
              kstate[p] = "stopped" => kstate'[p] = "running" /\ event'[p] = "continued"
<1>1. Deliver("SIGCONT", Members(jobs[n].pgid))
  BY DEF Resume
<1>2. KernelMoves(TRUE)
  BY <1>1, Delivers DEF KernelMoves
<1>3. \A p \in Members(jobs[n].pgid) : p \in Pids
  BY DEF Members, Born
<1> QED BY <1>1, <1>2, <1>3 DEF Deliver, StateAfter, EventOf

-------------------------------------------------------------------------------
(* What becomes of the table                                               *)

\* SIGCHLD: every process gets the state reported, and what has terminated goes.
LEMMA HandledTable ==
  ASSUME handleSIGCHLD
  PROVE  /\ ShapeInv'
         /\ DOMAIN jobs' \subseteq DOMAIN jobs
         /\ \A n \in DOMAIN jobs' :
              /\ jobs'[n].pgid = jobs[n].pgid /\ jobs'[n].state = jobs[n].state
              /\ DOMAIN jobs'[n].processes = DOMAIN jobs[n].processes
              /\ \A p \in DOMAIN jobs[n].processes :
                   jobs'[n].processes[p] = Reported(p, jobs[n].processes[p])
              /\ ~AllTerminated(jobs'[n])
         /\ \A n \in DOMAIN jobs : n \notin DOMAIN jobs' =>
              \A p \in DOMAIN jobs[n].processes : Reported(p, jobs[n].processes[p]) = "terminated"
<1>1. jobs' = [n \in {k \in DOMAIN jobs : ~AllTerminated(Updated(jobs[k]))} |-> Updated(jobs[n])]
  BY DEF handleSIGCHLD
<1>2. DOMAIN jobs' = {k \in DOMAIN jobs : ~AllTerminated(Updated(jobs[k]))}
  BY <1>1
<1>3. \A n \in DOMAIN jobs' : jobs'[n] = Updated(jobs[n])
  BY <1>1
<1>4. \A n : /\ Updated(jobs[n]).pgid = jobs[n].pgid /\ Updated(jobs[n]).state = jobs[n].state
             /\ Updated(jobs[n]).processes =
                  [p \in DOMAIN jobs[n].processes |-> Reported(p, jobs[n].processes[p])]
             /\ Updated(jobs[n]) = Job(Updated(jobs[n]).pgid, Updated(jobs[n]).state,
                                       Updated(jobs[n]).processes)
  BY DEF Updated, Job
<1>5. ShapeInv'
  <2>1. jobs' = [n \in DOMAIN jobs' |-> jobs'[n]]
    BY <1>1
  <2>2. ASSUME NEW n \in DOMAIN jobs'
        PROVE  /\ jobs'[n] = Job(jobs'[n].pgid, jobs'[n].state, jobs'[n].processes)
               /\ jobs'[n].processes = [p \in DOMAIN jobs'[n].processes |-> jobs'[n].processes[p]]
    <3>1. jobs'[n] = Updated(jobs[n])
      BY <1>3
    <3> QED BY <1>4, <3>1
  <2> QED BY <2>1, <2>2 DEF ShapeInv, Processes, Says
<1>6. \A n \in DOMAIN jobs : n \notin DOMAIN jobs' =>
        \A p \in DOMAIN jobs[n].processes : Reported(p, jobs[n].processes[p]) = "terminated"
  <2>1. ASSUME NEW n \in DOMAIN jobs, n \notin DOMAIN jobs',
               NEW p \in DOMAIN jobs[n].processes
        PROVE  Reported(p, jobs[n].processes[p]) = "terminated"
    <3>1. States(Updated(jobs[n])) \subseteq {"terminated"}
      BY <1>2, <2>1 DEF AllTerminated
    <3>2. Reported(p, jobs[n].processes[p]) \in States(Updated(jobs[n]))
      <4>1. Updated(jobs[n]).processes =
              [q \in DOMAIN jobs[n].processes |-> Reported(q, jobs[n].processes[q])]
        BY <1>4
      <4> QED BY <2>1, <4>1 DEF States
    <3> QED BY <3>1, <3>2
  <2> QED BY <2>1
<1>7. ASSUME NEW n \in DOMAIN jobs'
      PROVE  /\ jobs'[n].pgid = jobs[n].pgid /\ jobs'[n].state = jobs[n].state
             /\ DOMAIN jobs'[n].processes = DOMAIN jobs[n].processes
             /\ \A p \in DOMAIN jobs[n].processes :
                  jobs'[n].processes[p] = Reported(p, jobs[n].processes[p])
             /\ ~AllTerminated(jobs'[n])
  <2>1. jobs'[n] = Updated(jobs[n]) /\ ~AllTerminated(Updated(jobs[n]))
    BY <1>2, <1>3
  <2>2. jobs'[n].processes = [p \in DOMAIN jobs[n].processes |-> Reported(p, jobs[n].processes[p])]
    BY <1>4, <2>1
  <2> QED BY <1>4, <2>1, <2>2
<1> QED BY <1>2, <1>5, <1>6, <1>7

\* fg and bg: the stopped processes of one job are marked running.
LEMMA ResumedTable ==
  ASSUME ShapeInv, NEW n \in DOMAIN jobs, NEW foreground \in BOOLEAN, Resume(n, foreground)
  PROVE  /\ ShapeInv'
         /\ DOMAIN jobs' = DOMAIN jobs
         /\ \A k \in DOMAIN jobs : k # n => jobs'[k] = jobs[k]
         /\ jobs'[n].pgid = jobs[n].pgid
         /\ jobs'[n].state = IF foreground THEN "foreground" ELSE "background"
         /\ DOMAIN jobs'[n].processes = DOMAIN jobs[n].processes
         /\ \A p \in DOMAIN jobs[n].processes :
              jobs'[n].processes[p] = IF jobs[n].processes[p] = "stopped" THEN "running"
                                      ELSE jobs[n].processes[p]
<1> DEFINE marked == Job(jobs[n].pgid, IF foreground THEN "foreground" ELSE "background",
                         MarkedRunning(jobs[n].processes))
<1>1. jobs' = [jobs EXCEPT ![n] = marked]
  BY DEF Resume
<1>2. /\ marked.pgid = jobs[n].pgid
      /\ marked.state = IF foreground THEN "foreground" ELSE "background"
      /\ marked.processes = MarkedRunning(jobs[n].processes)
      /\ marked = Job(marked.pgid, marked.state, marked.processes)
  BY DEF Job
<1> HIDE DEF marked
<1>3. /\ DOMAIN jobs' = DOMAIN jobs /\ jobs'[n] = marked
      /\ \A k \in DOMAIN jobs : k # n => jobs'[k] = jobs[k]
      /\ jobs' = [k \in DOMAIN jobs' |-> jobs'[k]]
  BY <1>1 DEF ShapeInv
<1>4. MarkedRunning(jobs[n].processes) =
        [p \in DOMAIN jobs[n].processes |-> IF jobs[n].processes[p] = "stopped" THEN "running"
                                            ELSE jobs[n].processes[p]]
  BY DEF MarkedRunning
<1>5. ShapeInv'
  <2>1. ASSUME NEW k \in DOMAIN jobs
        PROVE  /\ jobs'[k] = Job(jobs'[k].pgid, jobs'[k].state, jobs'[k].processes)
               /\ jobs'[k].processes = [p \in DOMAIN jobs'[k].processes |-> jobs'[k].processes[p]]
    <3>1. CASE k = n
      BY <1>2, <1>3, <1>4, <3>1
    <3>2. CASE k # n
      BY <1>3, <3>2 DEF ShapeInv, Processes, Says
    <3> QED BY <3>1, <3>2
  <2> QED BY <1>3, <2>1 DEF ShapeInv, Processes, Says
<1> QED BY <1>2, <1>3, <1>4, <1>5

\* A launch: a new job, whose number is free.
LEMMA AddedTable ==
  ASSUME ShapeInv, counter + 1 \notin DOMAIN jobs, LaunchAddJob
  PROVE  /\ ShapeInv'
         /\ DOMAIN jobs' = DOMAIN jobs \cup {counter + 1}
         /\ \A k \in DOMAIN jobs : jobs'[k] = jobs[k]
         /\ jobs'[counter + 1].pgid = pgid
         /\ jobs'[counter + 1].state = IF fore THEN "foreground" ELSE "background"
         /\ DOMAIN jobs'[counter + 1].processes = pids
         /\ \A p \in pids : jobs'[counter + 1].processes[p] = "running"
<1> DEFINE new == Job(pgid, IF fore THEN "foreground" ELSE "background", [p \in pids |-> "running"])
<1>1. jobs' = [k \in DOMAIN jobs \cup {counter + 1} |-> IF k \in DOMAIN jobs THEN jobs[k] ELSE new]
  BY DEF LaunchAddJob, addJob
<1>2. /\ new.pgid = pgid /\ new.state = (IF fore THEN "foreground" ELSE "background")
      /\ new.processes = [p \in pids |-> "running"]
      /\ new = Job(new.pgid, new.state, new.processes)
  BY DEF Job
<1> HIDE DEF new
<1>3. /\ DOMAIN jobs' = DOMAIN jobs \cup {counter + 1} /\ jobs'[counter + 1] = new
      /\ \A k \in DOMAIN jobs : jobs'[k] = jobs[k]
      /\ jobs' = [k \in DOMAIN jobs' |-> jobs'[k]]
  BY <1>1
<1>4. ShapeInv'
  <2>1. ASSUME NEW k \in DOMAIN jobs'
        PROVE  /\ jobs'[k] = Job(jobs'[k].pgid, jobs'[k].state, jobs'[k].processes)
               /\ jobs'[k].processes = [p \in DOMAIN jobs'[k].processes |-> jobs'[k].processes[p]]
    <3>1. CASE k = counter + 1
      BY <1>2, <1>3, <3>1
    <3>2. CASE k \in DOMAIN jobs
      BY <1>3, <3>2 DEF ShapeInv, Processes, Says
    <3> QED BY <1>3, <3>1, <3>2
  <2> QED BY <1>3, <2>1 DEF ShapeInv, Processes, Says
<1> QED BY <1>2, <1>3, <1>4

\* The end of the wait: what has stopped is in the background.
LEMMA WaitedTable ==
  ASSUME ShapeInv, WaitOver
  PROVE  /\ ShapeInv'
         /\ DOMAIN jobs' = DOMAIN jobs
         /\ \A n \in DOMAIN jobs :
              /\ jobs'[n].pgid = jobs[n].pgid /\ jobs'[n].processes = jobs[n].processes
              /\ jobs'[n].state = IF n \in JobsOfGroup(pgid) /\ AllStopped(jobs[n])
                                  THEN "background" ELSE jobs[n].state
<1>1. jobs' = [n \in DOMAIN jobs |-> IF n \in JobsOfGroup(pgid) /\ AllStopped(jobs[n])
                                     THEN Job(pgid, "background", jobs[n].processes) ELSE jobs[n]]
  BY DEF WaitOver
<1>2. \A n \in JobsOfGroup(pgid) : jobs[n].pgid = pgid
  BY DEF JobsOfGroup
<1>3. \A n \in DOMAIN jobs :
        /\ jobs'[n].pgid = jobs[n].pgid /\ jobs'[n].processes = jobs[n].processes
        /\ jobs'[n].state = IF n \in JobsOfGroup(pgid) /\ AllStopped(jobs[n])
                            THEN "background" ELSE jobs[n].state
        /\ jobs'[n] = Job(jobs'[n].pgid, jobs'[n].state, jobs'[n].processes)
  BY <1>1, <1>2 DEF Job, ShapeInv
<1>4. DOMAIN jobs' = DOMAIN jobs /\ jobs' = [n \in DOMAIN jobs' |-> jobs'[n]]
  BY <1>1
<1> QED BY <1>3, <1>4 DEF ShapeInv, Processes, Says

-------------------------------------------------------------------------------
(* Types                                                                   *)

TableType ==
  /\ DOMAIN jobs \subseteq Nums
  /\ \A n \in DOMAIN jobs :
       /\ jobs[n].pgid \in Pids
       /\ jobs[n].state \in {"foreground", "background"}
       /\ DOMAIN jobs[n].processes \subseteq Pids
       /\ \A p \in DOMAIN jobs[n].processes : jobs[n].processes[p] \in ProcState
RestType ==
  /\ counter \in 0 .. MaxPids /\ fgPgid \in 0 .. MaxPids /\ spc \in ShellPC
  /\ pids \subseteq Pids /\ pgid \in 0 .. MaxPids /\ todo \in 0 .. MaxStages
  /\ kstate \in [Pids -> {"unborn", "running", "stopped", "zombie", "reaped"}]
  /\ event \in [Pids -> {"none", "stopped", "continued", "exited"}]
  /\ group \in [Pids -> 0 .. MaxPids]
  /\ terminal \in 0 .. NoTerminal /\ abandoned \subseteq Pids
FlagType == fore \in BOOLEAN /\ blocked \in BOOLEAN /\ pending \in BOOLEAN

\* A new job gets a number that is free and within the bound.
LEMMA FreeNumber ==
  ASSUME TypeOK, NumberInv
  PROVE  counter + 1 \notin DOMAIN jobs /\ (pids # {} => counter + 1 \in Nums)
BY DEF TypeOK, NumberInv, Nums, Born, Pids

\* The table stays a function from numbers to jobs.
LEMMA ShapeStep ==
  ASSUME TypeOK, ShapeInv, NumberInv, [Next]_vars
  PROVE  ShapeInv'
<1>1. CASE KernelStep
  BY <1>1 DEF ShapeInv, Processes, Says, KernelStep
<1>2. CASE handleSIGCHLD
  BY <1>2, HandledTable
<1>3. ASSUME NEW p \in Pids, ChildSetpgid(p)
      PROVE  ShapeInv'
  BY <1>3 DEF ShapeInv, Processes, Says, ChildSetpgid
<1>4. ASSUME NEW n \in DOMAIN jobs, NEW foreground \in BOOLEAN, Resume(n, foreground)
      PROVE  ShapeInv'
  BY <1>4, ResumedTable
<1>5. CASE LaunchBlock
  BY <1>5 DEF ShapeInv, Processes, Says, LaunchBlock
<1>6. CASE LaunchFork
  BY <1>6 DEF ShapeInv, Processes, Says, LaunchFork
<1>7. CASE LaunchFail
  BY <1>7 DEF ShapeInv, Processes, Says, LaunchFail
<1>8. CASE LaunchSetpgid
  BY <1>8 DEF ShapeInv, Processes, Says, LaunchSetpgid
<1>9. CASE LaunchAddJob
  BY <1>9, FreeNumber, AddedTable
<1>10. CASE WaitOver
  BY <1>10, WaitedTable
<1>11. CASE MaybeResetCounter
  BY <1>11 DEF ShapeInv, Processes, Says, MaybeResetCounter
<1>12. CASE Passes
  BY <1>12, PassesChange DEF ShapeInv, Processes, Says
<1>13. CASE UNCHANGED vars
  BY <1>13 DEF ShapeInv, Processes, Says, vars
<1> QED BY <1>1, <1>2, <1>3, <1>4, <1>5, <1>6, <1>7, <1>8, <1>9, <1>10, <1>11, <1>12,
       <1>13, Cases

\* Every entry of the table keeps its type.
LEMMA TableStep ==
  ASSUME TypeOK, ShapeInv, LaunchInv, NumberInv, [Next]_vars
  PROVE  TableType'
<1> USE DEF TypeOK, TableType
<1>1. CASE KernelStep
  BY <1>1 DEF KernelStep, KernelMoves
<1>2. CASE handleSIGCHLD
  BY <1>2, HandledTable DEF Reported, ProcState
<1>3. ASSUME NEW p \in Pids, ChildSetpgid(p)
      PROVE  TableType'
  BY <1>3 DEF ChildSetpgid
<1>4. ASSUME NEW n \in DOMAIN jobs, NEW foreground \in BOOLEAN, Resume(n, foreground)
      PROVE  TableType'
  BY <1>4, ResumedTable DEF ProcState
<1>5. CASE LaunchBlock
  BY <1>5 DEF LaunchBlock, Goto
<1>6. CASE LaunchFork
  BY <1>6 DEF LaunchFork, Goto
<1>7. CASE LaunchFail
  BY <1>7 DEF LaunchFail, Goto
<1>8. CASE LaunchSetpgid
  BY <1>8 DEF LaunchSetpgid, Goto
<1>9. CASE LaunchAddJob
  BY <1>9, FreeNumber, AddedTable DEF ProcState, LaunchAddJob, Goto, LaunchInv, Launching
<1>10. CASE WaitOver
  BY <1>10, WaitedTable
<1>11. CASE MaybeResetCounter
  BY <1>11 DEF MaybeResetCounter, Goto
<1>12. CASE Passes
  BY <1>12, PassesChange
<1>13. CASE UNCHANGED vars
  BY <1>13
<1> HIDE DEF TypeOK, TableType
<1> QED BY <1>1, <1>2, <1>3, <1>4, <1>5, <1>6, <1>7, <1>8, <1>9, <1>10, <1>11, <1>12,
       <1>13, Cases

\* So do the flags.
LEMMA FlagStep ==
  ASSUME TypeOK, [Next]_vars
  PROVE  FlagType'
<1> USE DEF TypeOK, FlagType
<1>0. fore \in BOOLEAN /\ blocked \in BOOLEAN /\ pending \in BOOLEAN
  BY Zenon DEF TypeOK
<1>1. CASE KernelStep
  BY <1>1, Zenon DEF KernelStep, KernelMoves, localVars
<1>2. CASE handleSIGCHLD
  BY <1>2, Zenon DEF handleSIGCHLD, localVars
<1>3. ASSUME NEW p \in Pids, ChildSetpgid(p)
      PROVE  FlagType'
  BY <1>3, Zenon DEF ChildSetpgid, localVars
<1>4. ASSUME NEW n \in DOMAIN jobs, NEW foreground \in BOOLEAN, Resume(n, foreground)
      PROVE  FlagType'
  <2>1. KernelMoves(TRUE)
    BY <1>4, Resumes
  <2> QED BY <1>4, <2>1, Zenon DEF KernelMoves, Resume
<1>5. CASE LaunchBlock
  BY <1>5, Zenon DEF LaunchBlock, vars, tableVars, localVars
<1>6. CASE LaunchFork
  BY <1>6, Zenon DEF LaunchFork, vars, tableVars, localVars
<1>7. CASE LaunchFail
  BY <1>7, Zenon DEF LaunchFail, vars, tableVars, localVars
<1>8. CASE LaunchSetpgid
  BY <1>8, Zenon DEF LaunchSetpgid, vars, tableVars, localVars
<1>9. CASE LaunchAddJob
  BY <1>9, Zenon DEF LaunchAddJob, vars, tableVars, localVars
<1>10. CASE WaitOver
  BY <1>10, Zenon DEF WaitOver, vars, tableVars, localVars
<1>11. CASE MaybeResetCounter
  BY <1>11, Zenon DEF MaybeResetCounter, vars, tableVars, localVars
<1>12. CASE SetForeground
  BY <1>12 DEF SetForeground, Goto
<1>13. CASE GiveTerminal
  BY <1>13 DEF GiveTerminal, Goto
<1>14. CASE RestoreMask
  BY <1>14 DEF RestoreMask, Goto
<1>15. CASE WaitBlock
  BY <1>15 DEF WaitBlock, Goto
<1>16. CASE WaitTest
  BY <1>16 DEF WaitTest, Goto
<1>17. CASE WaitSuspend
  BY <1>17 DEF WaitSuspend, Goto
<1>18. CASE WaitRestore
  BY <1>18 DEF WaitRestore, Goto
<1>19. CASE WaitTakeTerminal
  BY <1>19 DEF WaitTakeTerminal, Goto
<1>20. CASE Quit
  BY <1>20 DEF Quit, Goto
<1>21. CASE UNCHANGED vars
  BY <1>21
<1> HIDE DEF TypeOK, FlagType
<1> QED BY <1>1, <1>2, <1>3, <1>4, <1>5, <1>6, <1>7, <1>8, <1>9, <1>10, <1>11, <1>12,
       <1>13, <1>14, <1>15, <1>16, <1>17, <1>18, <1>19, <1>20, <1>21, Cases DEF Passes

\* So does everything else: no counter leaves its bound.
LEMMA RestStep ==
  ASSUME TypeOK, LaunchInv, NumberInv, [Next]_vars
  PROVE  RestType'
<1> USE DEF TypeOK, RestType, ShellPC
<1>1. CASE KernelStep
  BY <1>1 DEF KernelStep, KernelMoves
<1>2. CASE handleSIGCHLD
  BY <1>2 DEF handleSIGCHLD, Updated, Reported
<1>3. ASSUME NEW p \in Pids, ChildSetpgid(p)
      PROVE  RestType'
  BY <1>3 DEF ChildSetpgid, Pids
<1>4. ASSUME NEW n \in DOMAIN jobs, NEW foreground \in BOOLEAN, Resume(n, foreground)
      PROVE  RestType'
  <2>1. /\ kstate' \in [Pids -> {"unborn", "running", "stopped", "zombie", "reaped"}]
        /\ event' \in [Pids -> {"none", "stopped", "continued", "exited"}]
    BY <1>4, Resumes DEF KernelMoves
  <2>2. /\ UNCHANGED <<counter, fgPgid, pids, todo, group, terminal, abandoned>>
        /\ spc' \in {"fgSet", "prompt"} /\ pgid' \in {jobs[n].pgid, 0}
    BY <1>4 DEF Resume
  <2>3. pgid' \in 0 .. MaxPids
    BY <2>2 DEF Pids
  <2> QED BY <2>1, <2>2, <2>3
<1>5. CASE LaunchBlock
  BY <1>5 DEF LaunchBlock, Goto
<1>6. CASE LaunchFork
  BY <1>6 DEF LaunchFork, Goto, LaunchInv
<1>7. CASE LaunchFail
  BY <1>7 DEF LaunchFail, Goto
<1>8. CASE LaunchSetpgid
  BY <1>8 DEF LaunchSetpgid, Goto, Pids
<1>9. CASE LaunchAddJob
  BY <1>9, FreeNumber DEF LaunchAddJob, Goto, LaunchInv, Nums
<1>10. CASE WaitOver
  BY <1>10 DEF WaitOver, Goto, JobsOfGroup
<1>11. CASE MaybeResetCounter
  BY <1>11 DEF MaybeResetCounter, Goto
<1>12. CASE SetForeground
  BY <1>12 DEF SetForeground, Goto
<1>13. CASE GiveTerminal
  BY <1>13 DEF GiveTerminal, Goto, NoTerminal
<1>14. CASE RestoreMask
  BY <1>14 DEF RestoreMask, Goto
<1>15. CASE WaitBlock
  BY <1>15 DEF WaitBlock, Goto
<1>16. CASE WaitTest
  BY <1>16 DEF WaitTest, Goto
<1>17. CASE WaitSuspend
  BY <1>17 DEF WaitSuspend, Goto
<1>18. CASE WaitRestore
  BY <1>18 DEF WaitRestore, Goto
<1>19. CASE WaitTakeTerminal
  BY <1>19 DEF WaitTakeTerminal, Goto, Shell, NoTerminal
<1>20. CASE Quit
  BY <1>20 DEF Quit, Goto
<1>21. CASE UNCHANGED vars
  BY <1>21
<1> HIDE DEF TypeOK, RestType, ShellPC
<1> QED BY <1>1, <1>2, <1>3, <1>4, <1>5, <1>6, <1>7, <1>8, <1>9, <1>10, <1>11, <1>12,
       <1>13, <1>14, <1>15, <1>16, <1>17, <1>18, <1>19, <1>20, <1>21, Cases DEF Passes

\* A process that changes leaves an event behind, and handleSIGCHLD takes all of them.
LEMMA KernelInvStep ==
  ASSUME TypeOK, KernelInv, LaunchInv, [Next]_vars
  PROVE  KernelInv'
<1> USE DEF TypeOK, KernelInv
<1>1. CASE KernelStep
  BY <1>1 DEF KernelStep, KernelMoves
<1>2. CASE handleSIGCHLD
  BY <1>2 DEF handleSIGCHLD, Updated, Reported
<1>3. ASSUME NEW p \in Pids, ChildSetpgid(p)
      PROVE  KernelInv'
  BY <1>3 DEF ChildSetpgid
<1>4. ASSUME NEW n \in DOMAIN jobs, NEW foreground \in BOOLEAN, Resume(n, foreground)
      PROVE  KernelInv'
  BY <1>4, Resumes DEF Resume, KernelMoves, MarkedRunning
<1>5. CASE LaunchBlock
  BY <1>5 DEF LaunchBlock, Goto
<1>6. CASE LaunchFork
  BY <1>6 DEF LaunchFork, Goto, Born, Pids
<1>7. CASE LaunchFail
  BY <1>7 DEF LaunchFail, Goto
<1>8. CASE LaunchSetpgid
  BY <1>8 DEF LaunchSetpgid, Goto, LaunchInv
<1>9. CASE LaunchAddJob
  BY <1>9 DEF LaunchAddJob, Goto, addJob
<1>10. CASE WaitOver
  BY <1>10 DEF WaitOver, Goto, JobsOfGroup
<1>11. CASE MaybeResetCounter
  BY <1>11 DEF MaybeResetCounter, Goto
<1>12. CASE Passes
  BY <1>12, PassesChange
<1>13. CASE UNCHANGED vars
  BY <1>13
<1> HIDE DEF TypeOK, KernelInv
<1> QED BY <1>1, <1>2, <1>3, <1>4, <1>5, <1>6, <1>7, <1>8, <1>9, <1>10, <1>11, <1>12,
       <1>13, Cases

\* SIGCHLD is blocked exactly where the code means it to be.
LEMMA MaskStep ==
  ASSUME TypeOK, MaskInv, [Next]_vars
  PROVE  MaskInv'
<1> USE DEF MaskInv, Masked, Launching
<1>1. CASE KernelStep
  BY <1>1 DEF KernelStep, KernelMoves
<1>2. CASE handleSIGCHLD
  BY <1>2 DEF handleSIGCHLD, Updated, Reported
<1>3. ASSUME NEW p \in Pids, ChildSetpgid(p)
      PROVE  MaskInv'
  BY <1>3 DEF ChildSetpgid
<1>4. ASSUME NEW n \in DOMAIN jobs, NEW foreground \in BOOLEAN, Resume(n, foreground)
      PROVE  MaskInv'
  BY <1>4, Resumes DEF Resume, KernelMoves, MarkedRunning
<1>5. CASE LaunchBlock
  BY <1>5 DEF LaunchBlock, Goto
<1>6. CASE LaunchFork
  BY <1>6 DEF LaunchFork, Goto
<1>7. CASE LaunchFail
  BY <1>7 DEF LaunchFail, Goto
<1>8. CASE LaunchSetpgid
  BY <1>8 DEF LaunchSetpgid, Goto
<1>9. CASE LaunchAddJob
  BY <1>9 DEF LaunchAddJob, Goto, addJob
<1>10. CASE WaitOver
  BY <1>10 DEF WaitOver, Goto, JobsOfGroup
<1>11. CASE MaybeResetCounter
  BY <1>11 DEF MaybeResetCounter, Goto
<1>12. CASE SetForeground
  BY <1>12 DEF SetForeground, Goto
<1>13. CASE GiveTerminal
  BY <1>13 DEF GiveTerminal, Goto
<1>14. CASE RestoreMask
  BY <1>14 DEF RestoreMask, Goto
<1>15. CASE WaitBlock
  BY <1>15 DEF WaitBlock, Goto
<1>16. CASE WaitTest
  BY <1>16 DEF WaitTest, Goto
<1>17. CASE WaitSuspend
  BY <1>17 DEF WaitSuspend, Goto
<1>18. CASE WaitRestore
  BY <1>18 DEF WaitRestore, Goto
<1>19. CASE WaitTakeTerminal
  BY <1>19 DEF WaitTakeTerminal, Goto
<1>20. CASE Quit
  BY <1>20 DEF Quit, Goto
<1>21. CASE UNCHANGED vars
  BY <1>21
<1> HIDE DEF MaskInv, Masked, Launching
<1> QED BY <1>1, <1>2, <1>3, <1>4, <1>5, <1>6, <1>7, <1>8, <1>9, <1>10, <1>11, <1>12,
       <1>13, <1>14, <1>15, <1>16, <1>17, <1>18, <1>19, <1>20, <1>21, Cases DEF Passes

\* The table follows the kernel: markGroupRunning runs ahead of SIGCONT under the mask only.
LEMMA TrackStep ==
  ASSUME TypeOK, ShapeInv, KernelInv, LaunchInv, TrackInv, OwnerInv, NumberInv, [Next]_vars
  PROVE  TrackInv'
<1> USE DEF TypeOK, TrackInv, Processes, Says
<1>1. CASE KernelStep
  BY <1>1 DEF KernelStep, KernelMoves
<1>2. CASE handleSIGCHLD
  <2>1. /\ event' = [p \in Pids |-> "none"]
        /\ kstate' = [p \in Pids |-> IF event[p] = "exited" THEN "reaped" ELSE kstate[p]]
    BY <1>2 DEF handleSIGCHLD
  <2>2. ASSUME NEW n \in DOMAIN jobs', NEW p \in DOMAIN jobs[n].processes
        PROVE  /\ jobs'[n].processes[p] = "terminated" => kstate'[p] = "reaped"
               /\ kstate'[p] = IF jobs'[n].processes[p] = "terminated" THEN "reaped"
                               ELSE jobs'[n].processes[p]
    <3>1. n \in DOMAIN jobs /\ jobs'[n].processes[p] = Reported(p, jobs[n].processes[p])
      BY <1>2, <2>2, HandledTable
    <3>2. p \in Pids
      BY <2>2, <3>1
    <3> QED BY <2>1, <2>2, <3>1, <3>2 DEF Reported, KernelInv
  <2> QED BY <1>2, <2>2, HandledTable
<1>3. ASSUME NEW p \in Pids, ChildSetpgid(p)
      PROVE  TrackInv'
  BY <1>3 DEF ChildSetpgid
<1>4. ASSUME NEW n \in DOMAIN jobs, NEW foreground \in BOOLEAN, Resume(n, foreground)
      PROVE  TrackInv'
  BY <1>4, Resumes, ResumedTable DEF KernelMoves, Members, OwnerInv
<1>5. CASE LaunchBlock
  BY <1>5 DEF LaunchBlock, Goto
<1>6. CASE LaunchFork
  BY <1>6 DEF LaunchFork, OwnerInv
<1>7. CASE LaunchFail
  BY <1>7 DEF LaunchFail, Goto
<1>8. CASE LaunchSetpgid
  BY <1>8 DEF LaunchSetpgid, Goto
<1>9. CASE LaunchAddJob
  BY <1>9, FreeNumber, AddedTable DEF LaunchAddJob, LaunchInv
<1>10. CASE WaitOver
  BY <1>10, WaitedTable DEF WaitOver
<1>11. CASE MaybeResetCounter
  BY <1>11 DEF MaybeResetCounter, Goto
<1>12. CASE Passes
  BY <1>12, PassesChange
<1>13. CASE UNCHANGED vars
  BY <1>13
<1> HIDE DEF TypeOK, TrackInv, Processes, Says
<1> QED BY <1>1, <1>2, <1>3, <1>4, <1>5, <1>6, <1>7, <1>8, <1>9, <1>10, <1>11, <1>12,
       <1>13, Cases

\* A job number in use is never above the counter, nor the counter above the processes.
LEMMA NumberStep ==
  ASSUME TypeOK, ShapeInv, KernelInv, LaunchInv, NumberInv, [Next]_vars
  PROVE  NumberInv'
<1> USE DEF TypeOK, NumberInv, Born, Pids, Nums
<1>1. CASE KernelStep
  BY <1>1 DEF KernelStep, KernelMoves
<1>2. CASE handleSIGCHLD
  BY <1>2, HandledTable DEF handleSIGCHLD, KernelInv
<1>3. ASSUME NEW p \in Pids, ChildSetpgid(p)
      PROVE  NumberInv'
  BY <1>3 DEF ChildSetpgid
<1>4. ASSUME NEW n \in DOMAIN jobs, NEW foreground \in BOOLEAN, Resume(n, foreground)
      PROVE  NumberInv'
  BY <1>4, Resumes, ResumedTable DEF KernelMoves, Resume
<1>5. CASE LaunchBlock
  BY <1>5 DEF LaunchBlock, Goto
<1>6. CASE LaunchFork
  BY <1>6 DEF LaunchFork, KernelInv
<1>7. CASE LaunchFail
  BY <1>7 DEF LaunchFail, Goto
<1>8. CASE LaunchSetpgid
  BY <1>8 DEF LaunchSetpgid, Goto
<1>9. CASE LaunchAddJob
  <2>1. /\ counter' = counter + 1 /\ pids' = {} /\ UNCHANGED kernelVars /\ pids # {}
    BY <1>9 DEF LaunchAddJob, LaunchInv, Goto
  <2>2. DOMAIN jobs' = DOMAIN jobs \cup {counter + 1}
    BY <1>9, FreeNumber, AddedTable
  <2> QED BY <2>1, <2>2
<1>10. CASE WaitOver
  BY <1>10, WaitedTable DEF WaitOver
<1>11. CASE MaybeResetCounter
  BY <1>11 DEF MaybeResetCounter, Goto, LaunchInv, Launching
<1>12. CASE Passes
  BY <1>12, PassesChange
<1>13. CASE UNCHANGED vars
  BY <1>13
<1> HIDE DEF TypeOK, NumberInv, Born, Pids, Nums
<1> QED BY <1>1, <1>2, <1>3, <1>4, <1>5, <1>6, <1>7, <1>8, <1>9, <1>10, <1>11, <1>12,
       <1>13, Cases

\* Parent and child set the group of the newest stage in either order.
LEMMA LaunchStep ==
  ASSUME TypeOK, KernelInv, MaskInv, LaunchInv, [Next]_vars
  PROVE  LaunchInv'
<1> USE DEF TypeOK, LaunchInv, Launching, Newest, Born, Shell
<1>1. CASE KernelStep
  BY <1>1 DEF KernelStep, KernelMoves, KernelInv
<1>2. CASE handleSIGCHLD
  BY <1>2 DEF handleSIGCHLD, MaskInv, Masked, KernelInv
<1>3. ASSUME NEW p \in Pids, ChildSetpgid(p)
      PROVE  LaunchInv'
  BY <1>3 DEF ChildSetpgid, Pids
<1>4. ASSUME NEW n \in DOMAIN jobs, NEW foreground \in BOOLEAN, Resume(n, foreground)
      PROVE  LaunchInv'
  BY <1>4, Resumes DEF Resume, KernelMoves, KernelInv
<1>5. CASE LaunchBlock
  BY <1>5 DEF LaunchBlock, Goto
<1>6. CASE LaunchFork
  <2>1. PICK p \in Pids : /\ kstate[p] = "unborn"
                         /\ kstate' = [kstate EXCEPT ![p] = "running"] /\ pids' = pids \cup {p}
    BY <1>6 DEF LaunchFork
  <2>2. spc = "fork" /\ spc' = "setpgid" /\ UNCHANGED <<pgid, event, group>>
    BY <1>6 DEF LaunchFork, Goto
  <2>3. group[p] = Shell /\ event[p] = "none" /\ \A q \in pids : q < p
    BY <2>1 DEF KernelInv, Pids
  <2>4. Newest(p)'
    BY <2>1, <2>3 DEF Pids
  <2>5. \A q \in pids : group[q] = pgid /\ pgid \in pids
    BY <2>2
  <2>6. pgid \in pids \cup {0} /\ (pgid = 0 => pids = {})
    BY <2>2, <2>5 DEF Pids
  <2>7. \A q \in Pids : kstate'[q] # "unborn" => q = p \/ kstate[q] # "unborn"
    BY <2>1
  <2>8. \A q \in pids' : kstate'[q] # "unborn" /\ (event'[q] = "none" => kstate'[q] = "running")
    BY <2>1, <2>2
  <2>9. \A q \in pids' :
          \/ group'[q] = pgid' /\ pgid' \in pids'
          \/ /\ Newest(q)' /\ group'[q] = Shell
             /\ pgid' \in pids' \cup {0} /\ (pgid' = 0 => pids' = {q})
    BY <2>1, <2>2, <2>3, <2>4, <2>5, <2>6
  <2>10. \A q \in Born' : group'[q] = Shell => Newest(q)'
    BY <2>2, <2>4, <2>7
  <2> HIDE DEF Newest
  <2> QED BY <2>1, <2>2, <2>8, <2>9, <2>10
<1>7. CASE LaunchFail
  BY <1>7 DEF LaunchFail, Goto, Pids
<1>8. CASE LaunchSetpgid
  BY <1>8 DEF LaunchSetpgid, Goto, Pids
<1>9. CASE LaunchAddJob
  BY <1>9 DEF LaunchAddJob, Goto, addJob
<1>10. CASE WaitOver
  BY <1>10 DEF WaitOver, Goto, JobsOfGroup
<1>11. CASE MaybeResetCounter
  BY <1>11 DEF MaybeResetCounter, Goto
<1>12. CASE SetForeground
  BY <1>12 DEF SetForeground, Goto
<1>13. CASE GiveTerminal
  BY <1>13 DEF GiveTerminal, Goto
<1>14. CASE RestoreMask
  BY <1>14 DEF RestoreMask, Goto
<1>15. CASE WaitBlock
  BY <1>15 DEF WaitBlock, Goto
<1>16. CASE WaitTest
  BY <1>16 DEF WaitTest, Goto
<1>17. CASE WaitSuspend
  BY <1>17 DEF WaitSuspend, Goto
<1>18. CASE WaitRestore
  BY <1>18 DEF WaitRestore, Goto
<1>19. CASE WaitTakeTerminal
  BY <1>19 DEF WaitTakeTerminal, Goto
<1>20. CASE Quit
  BY <1>20 DEF Quit, Goto
<1>21. CASE UNCHANGED vars
  BY <1>21
<1> HIDE DEF TypeOK, LaunchInv, Launching, Newest, Born, Shell
<1> QED BY <1>1, <1>2, <1>3, <1>4, <1>5, <1>6, <1>7, <1>8, <1>9, <1>10, <1>11, <1>12,
       <1>13, <1>14, <1>15, <1>16, <1>17, <1>18, <1>19, <1>20, <1>21, Cases DEF Passes

\* A process moves from the launch to the table or to the abandoned ones, and is not lost.
LEMMA OwnerStep ==
  ASSUME TypeOK, ShapeInv, KernelInv, LaunchInv, TrackInv, TrackInv', OwnerInv, NumberInv, [Next]_vars
  PROVE  OwnerInv'
<1> USE DEF TypeOK, OwnerInv, Processes, Born, Shell
<1>1. CASE KernelStep
  BY <1>1 DEF KernelStep, KernelMoves
<1>2. CASE handleSIGCHLD
  <2>1. /\ UNCHANGED <<pids, group, abandoned>>
        /\ kstate' = [p \in Pids |-> IF event[p] = "exited" THEN "reaped" ELSE kstate[p]]
    BY <1>2 DEF handleSIGCHLD
  <2>2. Born' = Born
    BY <2>1 DEF KernelInv
  <2> HIDE DEF Born
  <2>3. ASSUME NEW n \in DOMAIN jobs'
        PROVE  /\ jobs'[n].pgid \in Processes(n)' /\ ~AllTerminated(jobs'[n])
               /\ \A p \in Processes(n)' :
                    /\ p \in Born' /\ p \notin pids' \cup abandoned' /\ group'[p] = jobs'[n].pgid
                    /\ \A k \in DOMAIN jobs' : p \in Processes(k)' => k = n
    <3>1. n \in DOMAIN jobs
      BY <1>2, HandledTable
    <3>2. \A k \in DOMAIN jobs' : k \in DOMAIN jobs /\ Processes(k)' = Processes(k)
      BY <1>2, HandledTable
    <3>3. jobs'[n].pgid = jobs[n].pgid /\ ~AllTerminated(jobs'[n])
      BY <1>2, HandledTable
    <3> HIDE DEF Processes
    <3> QED BY <2>1, <2>2, <3>1, <3>2, <3>3
  <2>4. ASSUME NEW p \in Born', kstate'[p] # "reaped", p \notin pids' \cup abandoned'
        PROVE  \E n \in DOMAIN jobs' : p \in Processes(n)'
    <3>1. p \in Pids /\ kstate[p] # "reaped" /\ event[p] # "exited"
      BY <2>1, <2>2, <2>4 DEF Born
    <3>2. PICK n \in DOMAIN jobs : p \in DOMAIN jobs[n].processes
      BY <2>1, <2>2, <2>4, <3>1
    <3>3. Reported(p, jobs[n].processes[p]) # "terminated"
      BY <3>1, <3>2 DEF Reported, TrackInv, Says
    <3> QED BY <1>2, <3>2, <3>3, HandledTable
  <2> QED BY <2>1, <2>2, <2>3, <2>4
<1>3. ASSUME NEW p \in Pids, ChildSetpgid(p)
      PROVE  OwnerInv'
  BY <1>3 DEF ChildSetpgid, LaunchInv, Newest
<1>4. ASSUME NEW n \in DOMAIN jobs, NEW foreground \in BOOLEAN, Resume(n, foreground)
      PROVE  OwnerInv'
  <2>1. UNCHANGED <<pids, group, abandoned>>
    BY <1>4 DEF Resume
  <2>2. Born' = Born /\ \A p \in Born : kstate[p] = "reaped" => kstate'[p] = "reaped"
    BY <1>4, Resumes DEF KernelMoves
  <2>3. /\ DOMAIN jobs' = DOMAIN jobs
        /\ \A k \in DOMAIN jobs : Processes(k)' = Processes(k) /\ jobs'[k].pgid = jobs[k].pgid
    BY <1>4, ResumedTable
  <2>4. ASSUME NEW k \in DOMAIN jobs
        PROVE  ~AllTerminated(jobs'[k])
    <3>1. CASE k # n
      BY <1>4, <3>1, ResumedTable
    <3>2. CASE k = n
      <4>1. PICK p \in DOMAIN jobs[n].processes : jobs[n].processes[p] # "terminated"
        BY DEF AllTerminated, States
      <4>2. p \in DOMAIN jobs'[n].processes /\ jobs'[n].processes[p] # "terminated"
        BY <1>4, <4>1, ResumedTable
      <4>3. jobs'[n].processes[p] \in States(jobs'[n])
        BY <4>2 DEF States
      <4> QED BY <3>2, <4>2, <4>3 DEF AllTerminated
    <3> QED BY <3>1, <3>2
  <2> HIDE DEF Processes, Born
  <2> QED BY <2>1, <2>2, <2>3, <2>4 DEF Born
<1>5. CASE LaunchBlock
  BY <1>5 DEF LaunchBlock, Goto, LaunchInv, Launching
<1>6. CASE LaunchFork
  BY <1>6 DEF LaunchFork
<1>7. CASE LaunchFail
  BY <1>7 DEF LaunchFail, LaunchInv, Launching, Goto
<1>8. CASE LaunchSetpgid
  BY <1>8 DEF LaunchSetpgid
<1>9. CASE LaunchAddJob
  <2>1. /\ pids' = {} /\ UNCHANGED <<kstate, group, abandoned>> /\ spc = "addJob" /\ pids # {}
    BY <1>9 DEF LaunchAddJob, LaunchInv, Goto
  <2>2. pgid \in pids /\ \A p \in pids : p \in Born /\ group[p] = pgid
    BY <2>1 DEF LaunchInv, Launching
  <2> PICK m : m = counter + 1
    OBVIOUS
  <2>3. /\ DOMAIN jobs' = DOMAIN jobs \cup {m} /\ m \notin DOMAIN jobs
        /\ jobs'[m].pgid = pgid /\ DOMAIN jobs'[m].processes = pids
        /\ jobs'[m].processes[pgid] = "running"
        /\ \A k \in DOMAIN jobs : jobs'[k] = jobs[k]
    BY <1>9, <2>2, FreeNumber, AddedTable
  <2>4. ~AllTerminated(jobs'[m])
    <3>1. jobs'[m].processes[pgid] \in States(jobs'[m])
      BY <2>2, <2>3 DEF States
    <3> QED BY <2>3, <3>1 DEF AllTerminated
  <2>5. /\ Processes(m)' = pids
        /\ \A k \in DOMAIN jobs : Processes(k)' = Processes(k)
    BY <2>3
  <2> HIDE DEF Processes
  <2>6. ASSUME NEW n \in DOMAIN jobs'
        PROVE  /\ jobs'[n].pgid \in Processes(n)' /\ ~AllTerminated(jobs'[n])
               /\ \A p \in Processes(n)' :
                    /\ p \in Born' /\ p \notin pids' \cup abandoned' /\ group'[p] = jobs'[n].pgid
                    /\ \A k \in DOMAIN jobs' : p \in Processes(k)' => k = n
    <3>1. CASE n = m
      <4>1. jobs'[m].pgid = pgid /\ Processes(m)' = pids /\ Born' = Born
        BY <2>1, <2>3, <2>5
      <4>2. \A k \in DOMAIN jobs : \A p \in Processes(k) : p \notin pids \cup abandoned
        OBVIOUS
      <4>3. \A p \in abandoned : p \notin pids
        OBVIOUS
      <4>4. \A p \in pids : \A k \in DOMAIN jobs' : p \in Processes(k)' => k = m
        BY <2>3, <2>5, <4>2
      <4> HIDE DEF OwnerInv
      <4> QED BY <2>1, <2>2, <2>4, <3>1, <4>1, <4>3, <4>4
    <3>2. CASE n \in DOMAIN jobs
      BY <2>1, <2>2, <2>3, <2>5, <3>2
    <3> QED BY <2>3, <3>1, <3>2
  <2>7. ASSUME NEW p \in Born', kstate'[p] # "reaped", p \notin pids' \cup abandoned'
        PROVE  \E n \in DOMAIN jobs' : p \in Processes(n)'
    BY <2>1, <2>3, <2>5, <2>7
  <2> QED BY <2>1, <2>6, <2>7
<1>10. CASE WaitOver
  BY <1>10, WaitedTable DEF WaitOver, AllTerminated, States
<1>11. CASE MaybeResetCounter
  BY <1>11 DEF MaybeResetCounter, Goto
<1>12. CASE Passes
  BY <1>12, PassesChange
<1>13. CASE UNCHANGED vars
  BY <1>13
<1> HIDE DEF TypeOK, OwnerInv, Processes, Born, Shell
<1> QED BY <1>1, <1>2, <1>3, <1>4, <1>5, <1>6, <1>7, <1>8, <1>9, <1>10, <1>11, <1>12,
       <1>13, Cases

\* The terminal comes back before the prompt does.
LEMMA TerminalStep ==
  ASSUME TypeOK, TerminalInv, [Next]_vars
  PROVE  TerminalInv'
<1> USE DEF TerminalInv, WithShell, Launching, Shell
<1>1. CASE KernelStep
  BY <1>1 DEF KernelStep, KernelMoves
<1>2. CASE handleSIGCHLD
  BY <1>2 DEF handleSIGCHLD, Updated, Reported
<1>3. ASSUME NEW p \in Pids, ChildSetpgid(p)
      PROVE  TerminalInv'
  BY <1>3 DEF ChildSetpgid
<1>4. ASSUME NEW n \in DOMAIN jobs, NEW foreground \in BOOLEAN, Resume(n, foreground)
      PROVE  TerminalInv'
  BY <1>4, Resumes DEF Resume, KernelMoves, MarkedRunning
<1>5. CASE LaunchBlock
  BY <1>5 DEF LaunchBlock, Goto
<1>6. CASE LaunchFork
  BY <1>6 DEF LaunchFork, Goto
<1>7. CASE LaunchFail
  BY <1>7 DEF LaunchFail, Goto
<1>8. CASE LaunchSetpgid
  BY <1>8 DEF LaunchSetpgid, Goto
<1>9. CASE LaunchAddJob
  BY <1>9 DEF LaunchAddJob, Goto, addJob
<1>10. CASE WaitOver
  BY <1>10 DEF WaitOver, Goto, JobsOfGroup
<1>11. CASE MaybeResetCounter
  BY <1>11 DEF MaybeResetCounter, Goto
<1>12. CASE SetForeground
  BY <1>12 DEF SetForeground, Goto
<1>13. CASE GiveTerminal
  BY <1>13 DEF GiveTerminal, Goto
<1>14. CASE RestoreMask
  BY <1>14 DEF RestoreMask, Goto
<1>15. CASE WaitBlock
  BY <1>15 DEF WaitBlock, Goto
<1>16. CASE WaitTest
  BY <1>16 DEF WaitTest, Goto
<1>17. CASE WaitSuspend
  BY <1>17 DEF WaitSuspend, Goto
<1>18. CASE WaitRestore
  BY <1>18 DEF WaitRestore, Goto
<1>19. CASE WaitTakeTerminal
  BY <1>19 DEF WaitTakeTerminal, Goto, interactive
<1>20. CASE Quit
  BY <1>20 DEF Quit, Goto
<1>21. CASE UNCHANGED vars
  BY <1>21
<1> HIDE DEF TerminalInv, WithShell, Launching, Shell
<1> QED BY <1>1, <1>2, <1>3, <1>4, <1>5, <1>6, <1>7, <1>8, <1>9, <1>10, <1>11, <1>12,
       <1>13, <1>14, <1>15, <1>16, <1>17, <1>18, <1>19, <1>20, <1>21, Cases DEF Passes

\* A job is marked foreground only while it is waited for.
LEMMA MarkStep ==
  ASSUME TypeOK, ShapeInv, LaunchInv, OwnerInv, NumberInv, MarkInv, [Next]_vars
  PROVE  MarkInv'
<1> USE DEF MarkInv, Foreground, Launching
<1>1. CASE KernelStep
  BY <1>1 DEF KernelStep, KernelMoves
<1>2. CASE handleSIGCHLD
  BY <1>2, HandledTable DEF handleSIGCHLD
<1>3. ASSUME NEW p \in Pids, ChildSetpgid(p)
      PROVE  MarkInv'
  BY <1>3 DEF ChildSetpgid
<1>4. ASSUME NEW n \in DOMAIN jobs, NEW foreground \in BOOLEAN, Resume(n, foreground)
      PROVE  MarkInv'
  BY <1>4, ResumedTable DEF Resume
<1>5. CASE LaunchBlock
  BY <1>5 DEF LaunchBlock, Goto
<1>6. CASE LaunchFork
  BY <1>6 DEF LaunchFork, Goto
<1>7. CASE LaunchFail
  BY <1>7 DEF LaunchFail, Goto
<1>8. CASE LaunchSetpgid
  BY <1>8 DEF LaunchSetpgid, Goto
<1>9. CASE LaunchAddJob
  BY <1>9, FreeNumber, AddedTable DEF LaunchAddJob, Goto
<1>10. CASE WaitOver
  BY <1>10, WaitedTable DEF WaitOver, Goto, JobsOfGroup, AllStopped, OwnerInv
<1>11. CASE MaybeResetCounter
  BY <1>11 DEF MaybeResetCounter, Goto
<1>12. CASE SetForeground
  BY <1>12 DEF SetForeground, Goto
<1>13. CASE GiveTerminal
  BY <1>13 DEF GiveTerminal, Goto
<1>14. CASE RestoreMask
  BY <1>14 DEF RestoreMask, Goto
<1>15. CASE WaitBlock
  BY <1>15 DEF WaitBlock, Goto
<1>16. CASE WaitTest
  BY <1>16 DEF WaitTest, Goto
<1>17. CASE WaitSuspend
  BY <1>17 DEF WaitSuspend, Goto
<1>18. CASE WaitRestore
  BY <1>18 DEF WaitRestore, Goto
<1>19. CASE WaitTakeTerminal
  BY <1>19 DEF WaitTakeTerminal, Goto
<1>20. CASE Quit
  BY <1>20 DEF Quit, Goto
<1>21. CASE UNCHANGED vars
  BY <1>21
<1> HIDE DEF MarkInv, Foreground, Launching
<1> QED BY <1>1, <1>2, <1>3, <1>4, <1>5, <1>6, <1>7, <1>8, <1>9, <1>10, <1>11, <1>12,
       <1>13, <1>14, <1>15, <1>16, <1>17, <1>18, <1>19, <1>20, <1>21, Cases DEF Passes

\* The table never lags behind a foreground process that runs.
LEMMA ForegroundStep ==
  ASSUME TypeOK, ShapeInv, KernelInv, KernelInv', LaunchInv, TrackInv, TrackInv', OwnerInv,
         NumberInv, ForegroundInv, [Next]_vars
  PROVE  ForegroundInv'
<1> USE DEF TypeOK, ForegroundInv, Foreground, Processes, Says, JobsOfGroup
<1>1. CASE KernelStep
  BY <1>1 DEF KernelStep, KernelMoves
<1>2. CASE handleSIGCHLD
  <2>1. /\ spc' \in Foreground => spc \in Foreground
        /\ kstate' = [p \in Pids |-> IF event[p] = "exited" THEN "reaped" ELSE kstate[p]]
        /\ UNCHANGED <<pgid, abandoned>>
    BY <1>2 DEF handleSIGCHLD
  <2>2. ASSUME spc' \in Foreground, NEW n \in DOMAIN jobs', jobs'[n].pgid = pgid,
               NEW p \in DOMAIN jobs'[n].processes, kstate'[p] = "running"
        PROVE  jobs'[n].processes[p] = "running"
    <3>1. /\ n \in JobsOfGroup(pgid) /\ p \in DOMAIN jobs[n].processes
          /\ jobs'[n].processes[p] = Reported(p, jobs[n].processes[p])
      BY <1>2, <2>2, HandledTable
    <3>2. p \in Pids /\ kstate[p] = "running"
      BY <2>1, <2>2, <3>1
    <3>3. jobs[n].processes[p] = "running"
      BY <2>1, <2>2, <3>1, <3>2
    <3> QED BY <3>1, <3>2, <3>3 DEF Reported, KernelInv
  <2> QED BY <2>1, <2>2
<1>3. ASSUME NEW p \in Pids, ChildSetpgid(p)
      PROVE  ForegroundInv'
  BY <1>3 DEF ChildSetpgid
<1>4. ASSUME NEW n \in DOMAIN jobs, NEW foreground \in BOOLEAN, Resume(n, foreground)
      PROVE  ForegroundInv'
  <2>1. pgid' \in {0, jobs[n].pgid} /\ (spc' \in Foreground => pgid' = jobs[n].pgid)
        /\ UNCHANGED abandoned /\ jobs[n].pgid \in Pids \ abandoned
    BY <1>4 DEF Resume, OwnerInv
  <2>2. \A k \in DOMAIN jobs : jobs[k].pgid = jobs[n].pgid => k = n
    BY DEF OwnerInv
  <2>3. ASSUME NEW p \in DOMAIN jobs[n].processes, kstate'[p] = "running"
        PROVE  jobs'[n].processes[p] = "running"
    <3>1. p \in Pids /\ p \in Members(jobs[n].pgid)
      BY DEF OwnerInv, Members
    <3>2. kstate[p] # "reaped"
      BY <1>4, <2>3, <3>1, Resumes DEF KernelMoves
    <3>3. jobs[n].processes[p] \in {"running", "stopped"}
      BY <3>2 DEF TrackInv, ProcState
    <3> QED BY <1>4, <3>3, ResumedTable
  <2>4. /\ DOMAIN jobs' = DOMAIN jobs /\ DOMAIN jobs'[n].processes = DOMAIN jobs[n].processes
        /\ \A k \in DOMAIN jobs : jobs'[k].pgid = jobs[k].pgid
    BY <1>4, ResumedTable
  <2> QED BY <2>1, <2>2, <2>3, <2>4
<1>5. CASE LaunchBlock
  BY <1>5 DEF LaunchBlock, Goto
<1>6. CASE LaunchFork
  BY <1>6 DEF LaunchFork, Goto
<1>7. CASE LaunchFail
  BY <1>7 DEF LaunchFail, Goto
<1>8. CASE LaunchSetpgid
  BY <1>8 DEF LaunchSetpgid, Goto
<1>9. CASE LaunchAddJob
  <2>1. spc = "addJob" /\ UNCHANGED <<pgid, abandoned, kstate>>
    BY <1>9 DEF LaunchAddJob, Goto
  <2>2. pgid \in pids
    BY <2>1 DEF LaunchInv, Launching
  <2>3. pgid \in Pids \ abandoned /\ \A k \in DOMAIN jobs : jobs[k].pgid # pgid
    BY <2>2 DEF OwnerInv
  <2> QED BY <1>9, <2>1, <2>3, FreeNumber, AddedTable
<1>10. CASE WaitOver
  BY <1>10 DEF WaitOver, Goto
<1>11. CASE MaybeResetCounter
  BY <1>11 DEF MaybeResetCounter, Goto
<1>12. CASE SetForeground
  BY <1>12 DEF SetForeground, Goto
<1>13. CASE GiveTerminal
  BY <1>13 DEF GiveTerminal, Goto
<1>14. CASE RestoreMask
  BY <1>14 DEF RestoreMask, Goto
<1>15. CASE WaitBlock
  BY <1>15 DEF WaitBlock, Goto
<1>16. CASE WaitTest
  BY <1>16 DEF WaitTest, Goto
<1>17. CASE WaitSuspend
  BY <1>17 DEF WaitSuspend, Goto
<1>18. CASE WaitRestore
  BY <1>18 DEF WaitRestore, Goto
<1>19. CASE WaitTakeTerminal
  BY <1>19 DEF WaitTakeTerminal, Goto
<1>20. CASE Quit
  BY <1>20 DEF Quit, Goto
<1>21. CASE UNCHANGED vars
  BY <1>21
<1> HIDE DEF TypeOK, ForegroundInv, Foreground, Processes, Says, JobsOfGroup
<1> QED BY <1>1, <1>2, <1>3, <1>4, <1>5, <1>6, <1>7, <1>8, <1>9, <1>10, <1>11, <1>12,
       <1>13, <1>14, <1>15, <1>16, <1>17, <1>18, <1>19, <1>20, <1>21, Cases DEF Passes

\* The wait is over: a process of the group that ran would be in a job of the group.
LEMMA WaitStep ==
  ASSUME TypeOK, KernelInv, LaunchInv, OwnerInv, ForegroundInv,
         WaitsForWholeGroup, [Next]_vars
  PROVE  WaitsForWholeGroup'
<1> USE DEF TypeOK, WaitsForWholeGroup, Members, Born
<1>1. CASE KernelStep
  BY <1>1 DEF KernelStep, KernelMoves
<1>2. CASE handleSIGCHLD
  BY <1>2 DEF handleSIGCHLD, Updated, Reported
<1>3. ASSUME NEW p \in Pids, ChildSetpgid(p)
      PROVE  WaitsForWholeGroup'
  BY <1>3 DEF ChildSetpgid, LaunchInv
<1>4. ASSUME NEW n \in DOMAIN jobs, NEW foreground \in BOOLEAN, Resume(n, foreground)
      PROVE  WaitsForWholeGroup'
  BY <1>4, Resumes DEF Resume, KernelMoves, MarkedRunning
<1>5. CASE LaunchBlock
  BY <1>5 DEF LaunchBlock, Goto
<1>6. CASE LaunchFork
  BY <1>6 DEF LaunchFork, Goto
<1>7. CASE LaunchFail
  BY <1>7 DEF LaunchFail, Goto
<1>8. CASE LaunchSetpgid
  BY <1>8 DEF LaunchSetpgid, Goto
<1>9. CASE LaunchAddJob
  BY <1>9 DEF LaunchAddJob, Goto, addJob
<1>10. CASE WaitOver
  <2>1. spc = "waitTest" /\ UNCHANGED <<pgid, kstate, group>>
    BY <1>10 DEF WaitOver, Goto
  <2>2. ASSUME NEW p \in Members(pgid), kstate[p] = "running"
        PROVE  FALSE
    <3>1. p \in Born /\ group[p] = pgid /\ pids = {} /\ pgid \notin abandoned
      BY <2>1 DEF LaunchInv, Launching, ForegroundInv, Foreground
    <3>2. p \notin abandoned
      BY <3>1 DEF OwnerInv
    <3>3. PICK n \in DOMAIN jobs : p \in Processes(n)
      BY <2>2, <3>1, <3>2 DEF OwnerInv
    <3>4. n \in JobsOfGroup(pgid)
      BY <3>1, <3>3 DEF OwnerInv, JobsOfGroup
    <3>5. Says(n, p) = "running"
      BY <2>1, <2>2, <3>3, <3>4 DEF ForegroundInv, Foreground
    <3>6. Says(n, p) \in States(jobs[n])
      BY <3>3 DEF Says, Processes, States
    <3> QED BY <1>10, <3>4, <3>5, <3>6 DEF WaitOver, AnyRunning
  <2> QED BY <2>1, <2>2
<1>11. CASE MaybeResetCounter
  BY <1>11 DEF MaybeResetCounter, Goto
<1>12. CASE SetForeground
  BY <1>12 DEF SetForeground, Goto
<1>13. CASE GiveTerminal
  BY <1>13 DEF GiveTerminal, Goto
<1>14. CASE RestoreMask
  BY <1>14 DEF RestoreMask, Goto
<1>15. CASE WaitBlock
  BY <1>15 DEF WaitBlock, Goto
<1>16. CASE WaitTest
  BY <1>16 DEF WaitTest, Goto
<1>17. CASE WaitSuspend
  BY <1>17 DEF WaitSuspend, Goto
<1>18. CASE WaitRestore
  BY <1>18 DEF WaitRestore, Goto
<1>19. CASE WaitTakeTerminal
  BY <1>19 DEF WaitTakeTerminal, Goto
<1>20. CASE Quit
  BY <1>20 DEF Quit, Goto
<1>21. CASE UNCHANGED vars
  BY <1>21
<1> HIDE DEF TypeOK, WaitsForWholeGroup, Members, Born
<1> QED BY <1>1, <1>2, <1>3, <1>4, <1>5, <1>6, <1>7, <1>8, <1>9, <1>10, <1>11, <1>12,
       <1>13, <1>14, <1>15, <1>16, <1>17, <1>18, <1>19, <1>20, <1>21, Cases DEF Passes

-------------------------------------------------------------------------------
(* The theorems                                                            *)

\* The invariant holds at the start,
LEMMA InitInv == Init => SInv
<1> SUFFICES ASSUME Init PROVE SInv
  OBVIOUS
<1>1. DOMAIN jobs = {} /\ jobs = [n \in {} |-> 0]
  BY DEF Init
<1>2. blocked = FALSE /\ fore = FALSE /\ pending = FALSE
  BY DEF Init
<1>3. blocked \in BOOLEAN /\ fore \in BOOLEAN /\ pending \in BOOLEAN /\ ~blocked
  BY <1>2, Zenon
<1>4. Born = {}
  BY DEF Init, Born
<1>5. TypeOK
  BY <1>1, <1>3 DEF Init, TypeOK, Shell, NoTerminal, ShellPC
<1>6. ShapeInv /\ TrackInv /\ NumberInv /\ MarkInv
  BY <1>1 DEF Init, ShapeInv, TrackInv, NumberInv, MarkInv
<1>7. KernelInv /\ OwnerInv
  BY <1>1, <1>4 DEF Init, KernelInv, OwnerInv
<1>8. MaskInv /\ LaunchInv
  BY <1>3, <1>4 DEF Init, MaskInv, Masked, Launching, LaunchInv
<1>9. TerminalInv /\ ForegroundInv /\ WaitsForWholeGroup
  BY DEF Init, TerminalInv, ForegroundInv, Foreground, WaitsForWholeGroup
<1> QED BY <1>5, <1>6, <1>7, <1>8, <1>9 DEF SInv

\* every step keeps it,
LEMMA NextInv == SInv /\ [Next]_vars => SInv'
<1> SUFFICES ASSUME SInv, [Next]_vars PROVE SInv'
  OBVIOUS
<1> USE DEF SInv
<1>1. ShapeInv'
  BY ShapeStep
<1>2. KernelInv' /\ MaskInv' /\ LaunchInv' /\ NumberInv'
  BY KernelInvStep, MaskStep, LaunchStep, NumberStep
<1>3. TrackInv'
  BY TrackStep
<1>4. OwnerInv'
  BY <1>3, OwnerStep
<1>5. TerminalInv' /\ MarkInv'
  BY TerminalStep, MarkStep
<1>6. ForegroundInv' /\ WaitsForWholeGroup'
  BY <1>2, <1>3, ForegroundStep, WaitStep
<1>7. TypeOK'
  <2>1. TableType' /\ RestType' /\ FlagType'
    BY TableStep, RestStep, FlagStep
  <2> QED BY <2>1, Zenon DEF TypeOK, TableType, RestType, FlagType
<1> QED BY <1>1, <1>2, <1>3, <1>4, <1>5, <1>6, <1>7

\* and so it always holds.
LEMMA AlwaysInv == Spec => []SInv
BY InitInv, NextInv, PTL DEF Spec

\* Whenever the shell reads a command it owns the terminal, no job is marked foreground,
\* and SIGINT would be passed on to none (waitForForegroundJob, fgCommand, runPipeline).
THEOREM PromptIsClean == Spec => []PromptOwnsTerminal
<1>1. SInv => PromptOwnsTerminal
  BY DEF SInv, TypeOK, TerminalInv, WithShell, MarkInv, Foreground, PromptOwnsTerminal
<1> QED BY <1>1, AlwaysInv, PTL

\* The wait for the foreground job is over only when no process of its group runs, for
\* every pipeline and every order of exits, stops and handlers.
THEOREM WholeGroupAwaited == Spec => []WaitsForWholeGroup
<1>1. SInv => WaitsForWholeGroup
  BY DEF SInv
<1> QED BY <1>1, AlwaysInv, PTL

\* The job table agrees with the kernel up to the changes handleSIGCHLD has still to
\* collect, and of those a SIGCHLD is pending.
THEOREM TableAgrees == Spec => []TableTracksKernel
<1>1. SInv => TableTracksKernel
  BY DEF SInv, KernelInv, TrackInv, Processes, Says, TableTracksKernel
<1> QED BY <1>1, AlwaysInv, PTL

\* No child is lost from the table, none is in two jobs, and no job outlives its processes.
THEOREM NoChildLost == Spec => []TableIsComplete
<1>1. SInv => TableIsComplete
  <2> SUFFICES ASSUME SInv PROVE TableIsComplete
    OBVIOUS
  <2>1. ASSUME NEW p \in Born
        PROVE  Cardinality({n \in DOMAIN jobs : InJob(p, n)}) =< 1
    <3> DEFINE owners == {n \in DOMAIN jobs : InJob(p, n)}
    <3>1. \A n, k \in owners : n = k
      BY DEF SInv, OwnerInv, Processes, InJob
    <3>2. CASE owners = {}
      <4>1. Cardinality(owners) = 0
        BY <3>2, FS_EmptySet
      <4> QED BY <4>1
    <3>3. CASE owners # {}
      <4>1. PICK n : owners = {n}
        BY <3>1, <3>3
      <4>2. Cardinality(owners) = 1
        BY <4>1, FS_Singleton
      <4> QED BY <4>2
    <3> QED BY <3>2, <3>3
  <2>2. ASSUME NEW p \in Born, kstate[p] # "reaped"
        PROVE  {n \in DOMAIN jobs : InJob(p, n)} # {} \/ p \in pids \cup abandoned
    BY <2>2 DEF SInv, OwnerInv, Processes, InJob
  <2>3. TypeOK /\ \A n \in DOMAIN jobs : ~AllTerminated(jobs[n])
    BY DEF SInv, OwnerInv
  <2> QED BY <2>1, <2>2, <2>3 DEF TableIsComplete
<1> QED BY <1>1, AlwaysInv, PTL

\* All processes of a job are in its group, and no two jobs share one, whichever of parent
\* and child called setpgid first.
THEOREM JobsAreGroups == Spec => []GroupsAreWhole
<1>1. SInv => GroupsAreWhole
  BY DEF SInv, OwnerInv, Processes, GroupsAreWhole
<1> QED BY <1>1, AlwaysInv, PTL
===============================================================================
