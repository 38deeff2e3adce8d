-------------------------------- MODULE Shell --------------------------------
(***************************************************************************)
(* The shell tsh.c: its job table, its signal handlers, and the processes  *)
(* it starts.                                                              *)
(*                                                                         *)
(* One thread of control: main, and on top of it the handlers that have    *)
(* interrupted it or each other, a stack.  A signal that is pending and    *)
(* not blocked is delivered before the next instruction.  A handler blocks *)
(* its own signal while it runs, no other (Signal leaves sa_mask empty).   *)
(*                                                                         *)
(* eval blocks SIGCHLD before it forks, and what is to unblock it unblocks *)
(* an empty set; so from the first job on SIGCHLD gets through only inside *)
(* Sigsuspend, when the shell waits for a foreground job.                  *)
(*                                                                         *)
(* SIGINT and SIGTSTP reach the shell alone (a program sends them, as the  *)
(* lab's driver does), and have their default effect on a job's process    *)
(* once it has called execve.                                              *)
(***************************************************************************)
EXTENDS Integers, Sequences, FiniteSetsExt

CONSTANTS
    Pids,       \* identities of processes; one that was reaped is used again
    MAXJOBS,    \* entries of the job table
    MaxJid      \* bound on the job numbers, which can grow for ever

NoPid == "no pid"

ASSUME ShellAssumption ==
    /\ IsFiniteSet(Pids) /\ NoPid \notin Pids
    /\ MAXJOBS \in Nat \ {0}
    /\ MaxJid \in Nat /\ MaxJid >= MAXJOBS

Slots == 1..MAXJOBS
Signals == {"CHLD", "INT", "TSTP"}

VARIABLES
    jobs,           \* jobs[s]: pid, jid and state
    nextjid,
    flag,           \* set by sigchld_handler, awaited by waitfg
    mpc,            \* where main stands
    mpid,           \* the pid that main is about to add or is waiting for
    background,     \* main's local bg
    chldBlocked,    \* main has blocked SIGCHLD
    stack,          \* running handlers, the innermost first
    pending,        \* signals pending for the shell
    proc,           \* proc[p]: the state of process p
    news,           \* stopped processes that waitpid has not reported yet
    refused         \* history: children that found the table full

tableVars == <<jobs, nextjid>>
mainVars == <<mpc, mpid, background, chldBlocked>>
kernelVars == <<proc, news>>
vars == <<tableVars, flag, mainVars, stack, pending, kernelVars, refused>>

\* "forked": between Fork and Execve, with the shell's handlers.
ProcState == {"none", "forked", "running", "stopped", "zombie"}
MainPC == {"prompt", "add", "wait", "suspend", "quit", "noSuchJob", "killFailed"}
NoJob == [pid |-> NoPid, jid |-> 0, state |-> "UNDEF"]
Job == [pid : Pids, jid : 1..MaxJid, state : {"FG", "BG", "ST"}] \cup {NoJob}
Frame == [sig : Signals, at : {"start", "dead", "stopped", "kill"},
          pid : Pids \cup {NoPid}, all : BOOLEAN]

OnStack == {stack[k].sig : k \in 1..Len(stack)}

TypeOK ==
    /\ jobs \in [Slots -> Job]
    /\ nextjid \in 1..MaxJid+1
    /\ flag \in BOOLEAN
    /\ mpc \in MainPC /\ mpid \in Pids \cup {NoPid}
    /\ background \in BOOLEAN /\ chldBlocked \in BOOLEAN
    /\ stack \in Seq(Frame) /\ Len(stack) = Cardinality(OnStack)
    /\ pending \subseteq Signals
    /\ proc \in [Pids -> ProcState]
    /\ news \subseteq Pids /\ refused \subseteq Pids

Init ==
    /\ jobs = [s \in Slots |-> NoJob]                   \* initjobs
    /\ nextjid = 1
    /\ flag = FALSE
    /\ mpc = "prompt" /\ mpid = NoPid
    /\ background = FALSE /\ chldBlocked = FALSE
    /\ stack = <<>>
    /\ pending = {}
    /\ proc = [p \in Pids |-> "none"]
    /\ news = {} /\ refused = {}

-----------------------------------------------------------------------------
\* The job table.
FirstWhere(Test(_)) == Min({s \in Slots : Test(s)})

HasJob(p) == \E s \in Slots : jobs[s].pid = p
SlotOf(p) == FirstWhere(LAMBDA s : jobs[s].pid = p)     \* getjobpid
fgpid ==
    IF \E s \in Slots : jobs[s].state = "FG"
    THEN jobs[FirstWhere(LAMBDA s : jobs[s].state = "FG")].pid ELSE NoPid

maxjid(table) == Max({table[s].jid : s \in Slots})

FreeSlots == {s \in Slots : jobs[s].pid = NoPid}

addjob(p, state) ==
    IF FreeSlots = {} THEN UNCHANGED tableVars
    ELSE /\ jobs' = [jobs EXCEPT ![Min(FreeSlots)] =
                       [pid |-> p, jid |-> nextjid, state |-> state]]
         /\ nextjid' = IF nextjid + 1 > MAXJOBS THEN 1 ELSE nextjid + 1

deletejob(p) ==
    LET cleared == [jobs EXCEPT ![SlotOf(p)] = NoJob]
    IN  jobs' = cleared /\ nextjid' = maxjid(cleared) + 1

-----------------------------------------------------------------------------
\* Signals.
Up == mpc \notin {"quit", "noSuchJob", "killFailed"}
Waiting == mpc \in {"wait", "suspend"}

Blocked ==
    IF \E k \in 1..Len(stack) : stack[k].all THEN Signals
    ELSE OnStack \cup (IF chldBlocked /\ mpc # "suspend" THEN {"CHLD"} ELSE {})

Deliverable == pending \ Blocked

Deliver(sig) ==
    /\ Up
    /\ sig \in Deliverable
    /\ pending' = pending \ {sig}
    /\ stack' = <<[sig |-> sig, at |-> "start", pid |-> NoPid, all |-> FALSE]>> \o stack
    /\ UNCHANGED <<tableVars, flag, mainVars, kernelVars, refused>>

\* The innermost handler runs.
InHandler(sigs, at) ==
    /\ Up
    /\ stack # <<>> /\ Deliverable = {}
    /\ Head(stack).sig \in sigs /\ Head(stack).at = at

GoTo(at, p, all) ==
    stack' = [stack EXCEPT ![1] = [sig |-> @.sig, at |-> at, pid |-> p, all |-> all]]

\* A handler returns; sigsuspend returns with the last one.
Return ==
    /\ stack' = Tail(stack)
    /\ mpc' = IF Len(stack) = 1 /\ mpc = "suspend" THEN "wait" ELSE mpc
    /\ UNCHANGED <<mpid, background, chldBlocked>>

Exits(why) ==
    /\ mpc' = why /\ stack' = <<>>
    /\ UNCHANGED <<mpid, background, chldBlocked>>

-----------------------------------------------------------------------------
\* sigchld_handler: waitpid reports a zombie, or a process that has stopped,
\* or that there is nothing to report.
ReapDead ==
    /\ InHandler({"CHLD"}, "start")
    /\ \E p \in Pids :
        /\ proc[p] = "zombie"
        /\ proc' = [proc EXCEPT ![p] = "none"]
        /\ GoTo("dead", p, Head(stack).all)
    /\ UNCHANGED <<tableVars, flag, mainVars, pending, news, refused>>

ReapStopped ==
    /\ InHandler({"CHLD"}, "start")
    /\ \E p \in news :
        /\ news' = news \ {p}
        /\ GoTo("stopped", p, Head(stack).all)
    /\ UNCHANGED <<tableVars, flag, mainVars, pending, proc, refused>>

NothingToReap ==
    /\ InHandler({"CHLD"}, "start")
    /\ news = {} /\ \A p \in Pids : proc[p] # "zombie"
    /\ Return
    /\ UNCHANGED <<tableVars, flag, pending, kernelVars, refused>>

\* flag is raised for the foreground job; an unknown child ends the shell.
UnknownChild ==
    /\ \E at \in {"dead", "stopped"} : InHandler({"CHLD"}, at)
    /\ ~HasJob(Head(stack).pid)
    /\ Exits("noSuchJob")
    /\ flag' = (flag \/ Head(stack).pid = fgpid)
    /\ UNCHANGED <<tableVars, pending, kernelVars, refused>>

\* A slip: the handler handles one child and returns.
RecordDeadOnce ==
    /\ InHandler({"CHLD"}, "dead")
    /\ HasJob(Head(stack).pid)
    /\ flag' = (flag \/ Head(stack).pid = fgpid)
    /\ deletejob(Head(stack).pid)
    /\ Return
    /\ UNCHANGED <<pending, kernelVars, refused>>

\* A slip: the flag is raised for any child.
RecordDeadAny ==
    /\ InHandler({"CHLD"}, "dead")
    /\ HasJob(Head(stack).pid)
    /\ flag' = TRUE
    /\ deletejob(Head(stack).pid)
    /\ GoTo("start", NoPid, Head(stack).all)
    /\ UNCHANGED <<mainVars, pending, kernelVars, refused>>

RecordDead ==
    /\ InHandler({"CHLD"}, "dead")
    /\ HasJob(Head(stack).pid)
    /\ flag' = (flag \/ Head(stack).pid = fgpid)
    /\ deletejob(Head(stack).pid)
    /\ GoTo("start", NoPid, Head(stack).all)
    /\ UNCHANGED <<mainVars, pending, kernelVars, refused>>

\* A slip: the state is set, the flag is not.
RecordStoppedSilent ==
    /\ InHandler({"CHLD"}, "stopped")
    /\ HasJob(Head(stack).pid)
    /\ jobs' = [jobs EXCEPT ![SlotOf(Head(stack).pid)].state = "ST"]
    /\ GoTo("start", NoPid, TRUE)
    /\ UNCHANGED <<flag, nextjid, mainVars, pending, kernelVars, refused>>

\* From here on all signals stay blocked until the handler returns.
RecordStopped ==
    /\ InHandler({"CHLD"}, "stopped")
    /\ HasJob(Head(stack).pid)
    /\ flag' = (flag \/ Head(stack).pid = fgpid)
    /\ jobs' = [jobs EXCEPT ![SlotOf(Head(stack).pid)].state = "ST"]
    /\ GoTo("start", NoPid, TRUE)
    /\ UNCHANGED <<nextjid, mainVars, pending, kernelVars, refused>>

-----------------------------------------------------------------------------
\* sigint_handler and sigtstp_handler.
FindForeground ==
    /\ InHandler({"INT", "TSTP"}, "start")
    /\ IF fgpid = NoPid THEN Return
       ELSE GoTo("kill", fgpid, FALSE) /\ UNCHANGED mainVars
    /\ UNCHANGED <<tableVars, flag, pending, kernelVars, refused>>

\* Kill(pid, sig).  A process that has not called execve catches the signal
\* with the shell's handler and finds no foreground job in its copy of the
\* table; a stopped one keeps it pending.
SendSignal ==
    /\ InHandler({"INT", "TSTP"}, "kill")
    /\ LET p == Head(stack).pid
       IN  /\ proc[p] # "none"
           /\ IF proc[p] # "running" THEN UNCHANGED <<pending, kernelVars>>
              ELSE /\ pending' = pending \cup {"CHLD"}
                   /\ IF Head(stack).sig = "INT"
                      THEN proc' = [proc EXCEPT ![p] = "zombie"] /\ UNCHANGED news
                      ELSE proc' = [proc EXCEPT ![p] = "stopped"] /\ news' = news \cup {p}
    /\ Return
    /\ UNCHANGED <<tableVars, flag, refused>>

\* The process was reaped after fgpid was read: kill fails, and so the wrapper
\* ends the shell.
KillFails ==
    /\ InHandler({"INT", "TSTP"}, "kill")
    /\ proc[Head(stack).pid] = "none"
    /\ Exits("killFailed")
    /\ UNCHANGED <<tableVars, flag, pending, kernelVars, refused>>

-----------------------------------------------------------------------------
\* main.
MainAt(at) == Up /\ stack = <<>> /\ Deliverable = {} /\ mpc = at

\* Pids are names: which unused one the child gets makes no difference.
ForkChild ==
    /\ \E p \in Pids : proc[p] = "none"
    /\ LET p == CHOOSE q \in Pids : proc[q] = "none"
       IN  mpid' = p /\ proc' = [proc EXCEPT ![p] = "forked"]

\* A slip: SIGCHLD is not blocked before the fork.
EvalUnblocked ==
    /\ MainAt("prompt")
    /\ background' \in BOOLEAN
    /\ ForkChild
    /\ mpc' = "add"
    /\ UNCHANGED <<tableVars, flag, chldBlocked, stack, pending, news, refused>>

\* eval of a command that is not built in, up to the fork.
Eval ==
    /\ MainAt("prompt")
    /\ background' \in BOOLEAN
    /\ chldBlocked' = TRUE
    /\ ForkChild
    /\ mpc' = "add"
    /\ UNCHANGED <<tableVars, flag, stack, pending, news, refused>>

\* addjob, and for a foreground job waitfg up to its loop: a job that is not
\* in the table is not waited for.  A local that is dead is reset.
AddJob ==
    /\ MainAt("add")
    /\ nextjid <= MaxJid
    /\ addjob(mpid, IF background THEN "BG" ELSE "FG")
    /\ refused' = IF FreeSlots = {} THEN refused \cup {mpid} ELSE refused
    /\ flag' = (flag /\ background)
    /\ background' = FALSE
    /\ IF background \/ FreeSlots = {} THEN mpc' = "prompt" /\ mpid' = NoPid
       ELSE mpc' = "wait" /\ UNCHANGED mpid
    /\ UNCHANGED <<chldBlocked, stack, pending, kernelVars>>

\* The loop of waitfg: it sleeps in Sigsuspend until a handler has returned.
TestFlag ==
    /\ MainAt("wait")
    /\ IF flag THEN mpc' = "prompt" /\ mpid' = NoPid
       ELSE mpc' = "suspend" /\ UNCHANGED mpid
    /\ UNCHANGED <<tableVars, flag, background, chldBlocked, stack, pending,
                   kernelVars, refused>>

\* do_bgfg with a job number: SIGCONT to the process group, then the new state
\* and for fg the wait.  A process that goes on raises SIGCHLD too.
Continue(p) ==
    IF proc[p] # "stopped" THEN UNCHANGED <<pending, kernelVars>>
    ELSE /\ proc' = [proc EXCEPT ![p] = "running"]
         /\ news' = news \ {p}
         /\ pending' = pending \cup {"CHLD"}

ByJid(s) ==                                             \* getjobjid
    /\ MainAt("prompt")
    /\ jobs[s].pid # NoPid
    /\ s = FirstWhere(LAMBDA u : jobs[u].jid = jobs[s].jid)

BgByJid(s) ==
    /\ ByJid(s)
    /\ Continue(jobs[s].pid)
    /\ jobs' = [jobs EXCEPT ![s].state = "BG"]
    /\ UNCHANGED <<flag, nextjid, mainVars, stack, refused>>

FgByJid(s) ==
    /\ ByJid(s)
    /\ Continue(jobs[s].pid)
    /\ jobs' = [jobs EXCEPT ![s].state = "FG"]
    /\ flag' = FALSE
    /\ mpc' = "wait" /\ mpid' = jobs[s].pid
    /\ UNCHANGED <<nextjid, background, chldBlocked, stack, refused>>

\* do_bgfg with a process number.  The number is kept in a variable of an
\* inner block; SIGCONT and waitfg use the outer one, still -1.  So nothing is
\* continued (process 1 is not the shell's to signal) and nothing is awaited.
BgFgByPid(s, state) ==
    /\ MainAt("prompt")
    /\ jobs[s].pid # NoPid
    /\ jobs' = [jobs EXCEPT ![s].state = state]
    /\ flag' = (flag /\ state = "BG")
    /\ UNCHANGED <<nextjid, mainVars, stack, pending, kernelVars, refused>>

Quit ==
    /\ MainAt("prompt")
    /\ mpc' = "quit"
    /\ UNCHANGED <<tableVars, flag, mpid, background, chldBlocked, stack, pending,
                   kernelVars, refused>>

-----------------------------------------------------------------------------
\* The processes, and the user's keys.
Exec(p) ==
    /\ Up /\ proc[p] = "forked"
    /\ proc' = [proc EXCEPT ![p] = "running"]
    /\ UNCHANGED <<tableVars, flag, mainVars, stack, pending, news, refused>>

\* It ends, by itself or killed by a program that is not the shell.
Ends(p) ==
    /\ Up /\ proc[p] \in {"forked", "running", "stopped"}
    /\ proc' = [proc EXCEPT ![p] = "zombie"]
    /\ news' = news \ {p}
    /\ pending' = pending \cup {"CHLD"}
    /\ UNCHANGED <<tableVars, flag, mainVars, stack, refused>>

\* It stops itself, as the lab's mystop does.
Stops(p) ==
    /\ Up /\ proc[p] = "running"
    /\ proc' = [proc EXCEPT ![p] = "stopped"]
    /\ news' = news \cup {p}
    /\ pending' = pending \cup {"CHLD"}
    /\ UNCHANGED <<tableVars, flag, mainVars, stack, refused>>

\* A key typed while its handler runs is delivered when that has returned, and
\* is typed then.
Type(sig) ==
    /\ Up /\ sig \in {"INT", "TSTP"} \ (pending \cup OnStack)
    /\ pending' = pending \cup {sig}
    /\ UNCHANGED <<tableVars, flag, mainVars, stack, kernelVars, refused>>

-----------------------------------------------------------------------------
ChildStep ==
    \/ ReapDead \/ ReapStopped \/ NothingToReap \/ UnknownChild
    \/ RecordDead \/ RecordStopped

KeyStep == FindForeground \/ SendSignal \/ KillFails

CommandStep == AddJob \/ TestFlag

NextByJid ==
    \/ \E sig \in Signals : Deliver(sig) \/ Type(sig)
    \/ ChildStep \/ KeyStep
    \/ Eval \/ CommandStep \/ Quit
    \/ \E s \in Slots : BgByJid(s) \/ FgByJid(s)
    \/ \E p \in Pids : Exec(p) \/ Ends(p) \/ Stops(p)

Next == NextByJid \/ \E s \in Slots : BgFgByPid(s, "BG") \/ BgFgByPid(s, "FG")

\* The shell as it is, and as it behaves when jobs are named by number only.
Spec == Init /\ [][Next]_vars
SpecByJid == Init /\ [][NextByJid]_vars

\* The processor runs main and each handler; typing, which interrupts them, can
\* not keep one of them from running for ever.
Fairness ==
    /\ SF_vars(CommandStep)
    /\ SF_vars(ChildStep)
    /\ \A sig \in {"INT", "TSTP"} : SF_vars(KeyStep /\ Head(stack).sig = sig)
    /\ WF_vars(\E sig \in Signals : Deliver(sig))

FairSpec == Spec /\ Fairness
FairSpecByJid == SpecByJid /\ Fairness

-----------------------------------------------------------------------------
Listed == {jobs[s].pid : s \in Slots} \ {NoPid}
Children == {p \in Pids : proc[p] # "none"}

\* When no SIGCHLD is pending and no handler runs, the table tells the truth:
\* its jobs exist, none has ended, and exactly the stopped ones are ST.
TableAgrees ==
    Up /\ stack = <<>> /\ "CHLD" \notin pending =>
        \A s \in Slots : jobs[s].pid # NoPid =>
            /\ proc[jobs[s].pid] \notin {"none", "zombie"}
            /\ jobs[s].state = "ST" <=> proc[jobs[s].pid] = "stopped"

\* Every child is in the table, once, unless main is about to add it or found
\* no room; the handler meets an unknown child only in the last case.
ChildrenKnown ==
    /\ Up => Children \subseteq Listed \cup refused
                 \cup (IF mpc = "add" THEN {mpid} ELSE {})
    /\ \A s, u \in Slots : jobs[s].pid = jobs[u].pid /\ jobs[s].pid # NoPid => s = u
    /\ mpc = "noSuchJob" => refused # {}

\* tsh.c: at most one job is in the foreground.
AtMostOneForeground ==
    Cardinality({s \in Slots : jobs[s].state = "FG"}) <= 1

\* The foreground job is the one main waits for; at the prompt there is none.
ForegroundAwaited ==
    /\ AtMostOneForeground
    /\ Up => \A s \in Slots : jobs[s].state = "FG" => Waiting /\ jobs[s].pid = mpid

\* The shell ends only when the user wants it to: ctrl-c and ctrl-z have no
\* effect when there is no foreground job (README.md of the lab).
EndsOnlyOnRequest == mpc # "killFailed"

\* waitfg: the prompt comes back when the job that is waited for has ended or
\* stopped.  True when jobs are named by number (FairSpecByJid).  An fg with a
\* pid leaves an entry in FG that nobody waits for: fgpid may find it instead of
\* the next foreground job, whose end then raises no flag (FairSpec).
PromptComesBack ==
    (Waiting /\ proc[mpid] \in {"none", "zombie", "stopped"}) ~> ~Waiting
=============================================================================
