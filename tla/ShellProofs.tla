----------------------------- MODULE ShellProofs -----------------------------
(***************************************************************************)
(* The shell's job table under every interleaving of children, keys and    *)
(* handlers, for every set of processes and every size of the table, as    *)
(* long as fg and bg name jobs by number: no child is forgotten, the table *)
(* tells the truth when the handlers are done, and the foreground job is   *)
(* the one main waits for.                                                 *)
(*                                                                         *)
(* None of the three is inductive.  Between the end of a child and its     *)
(* removal from the table stand a pending signal, a handler on the stack,  *)
(* and the pid in the handler's frame; ShellInv says where the news of a   *)
(* child is at every moment.                                               *)
(***************************************************************************)
EXTENDS Shell, SequenceTheorems, FiniteSetTheorems, FunctionTheorems, NatInduction

Frames == {stack[k] : k \in 1..Len(stack)}
ChldRuns == \E f \in Frames : f.sig = "CHLD"

\* A handler blocks its own signal, so no two frames have the same.
StackInv ==
    /\ stack \in Seq(Frame)
    /\ \A j, k \in 1..Len(stack) : stack[j].sig = stack[k].sig => j = k

TypeInv ==
    /\ jobs \in [Slots -> Job]
    /\ nextjid \in 1..MaxJid+1
    /\ flag \in BOOLEAN
    /\ mpc \in MainPC /\ mpid \in Pids \cup {NoPid}
    /\ background \in BOOLEAN /\ chldBlocked \in BOOLEAN
    /\ pending \subseteq Signals
    /\ proc \in [Pids -> ProcState]
    /\ news \subseteq Pids /\ refused \subseteq Pids
    /\ ~Up => stack = <<>>

\* What a handler has read stays true until it acts on it, except that the
\* process which a key is for may be gone.
FrameInv ==
    \A f \in Frames :
        /\ f.sig = "CHLD" => mpc = "suspend"
        /\ f.at \in {"dead", "stopped"} => f.sig = "CHLD" /\ f.pid \in (Listed \cup refused) \cap Pids
        /\ f.at = "dead" => proc[f.pid] = "none"
        /\ f.at = "stopped" => proc[f.pid] \in {"stopped", "zombie"}
        /\ f.at = "kill" => f.sig # "CHLD" /\ f.pid \in Pids

\* Until its first job the shell has no child; from then on SIGCHLD is blocked.
BlockedInv ==
    ~chldBlocked =>
        /\ mpc \in {"prompt", "quit", "killFailed"}
        /\ "CHLD" \notin pending
        /\ \A p \in Pids : proc[p] = "none"
        /\ \A s \in Slots : jobs[s] = NoJob

\* The news of a child that has ended or stopped is on its way to the table.
NewsInv ==
    /\ \A p \in news : proc[p] = "stopped"
    /\ Up /\ (news # {} \/ \E p \in Pids : proc[p] = "zombie") =>
          "CHLD" \in pending \/ ChldRuns

\* Every child is in the table, once, or about to be added, or was refused; a
\* job's process is there unless a handler is about to delete the job.
ChildInv ==
    /\ \A s, u \in Slots : jobs[s].pid = jobs[u].pid /\ jobs[s].pid # NoPid => s = u
    /\ Up => \A p \in Pids : proc[p] # "none" =>
                 (p \in Listed \cup refused \/ (mpc = "add" /\ p = mpid))
    /\ Up => \A s \in Slots : jobs[s].pid # NoPid /\ proc[jobs[s].pid] = "none" =>
                 \E f \in Frames : f.at = "dead" /\ f.pid = jobs[s].pid
    /\ mpc = "add" => mpid \in Pids /\ mpid \notin Listed /\ proc[mpid] # "none"
    /\ mpc = "noSuchJob" => refused # {}

BasicInv == TypeInv /\ StackInv /\ FrameInv /\ BlockedInv /\ NewsInv /\ ChildInv

\* A job that is ST is not running, and one that has stopped is ST or will be.
StateInv ==
    /\ Up => \A s \in Slots : jobs[s].pid # NoPid =>
          LET p == jobs[s].pid IN
          /\ jobs[s].state = "ST" => proc[p] \in {"stopped", "zombie", "none"}
          /\ proc[p] = "stopped" =>
                \/ jobs[s].state = "ST" \/ p \in news
                \/ \E f \in Frames : f.at = "stopped" /\ f.pid = p
    /\ mpc = "add" /\ proc[mpid] = "stopped" => mpid \in news

ForegroundInv ==
    /\ \A s, u \in Slots : jobs[s].state = "FG" /\ jobs[u].state = "FG" => s = u
    /\ Up => \A s \in Slots : jobs[s].state = "FG" => Waiting /\ jobs[s].pid = mpid /\ ~flag

ShellInv == BasicInv /\ StateInv /\ ForegroundInv

-----------------------------------------------------------------------------
\* The library's Min, of a set of numbers, is one of them.
LEMMA MinIn ==
    ASSUME NEW T \in SUBSET Nat, T # {}
    PROVE  Min(T) \in T
<1>1. \E m \in T : \A k \in T : m <= k
  BY LeastElement
<1> QED
  BY <1>1, Zenon DEF Min

\* The same for the largest, of numbers up to a bound.
LEMMA MaxIn ==
    ASSUME NEW b \in Nat, NEW T \in SUBSET (0..b), T # {}
    PROVE  Max(T) \in T
<1> DEFINE U == {b - k : k \in T}
<1>1. U \in SUBSET Nat /\ U # {}
  <2>1. \A k \in T : b - k \in Nat
    OBVIOUS
  <2>2. PICK k \in T : TRUE
    OBVIOUS
  <2>3. b - k \in U
    BY <2>2
  <2> QED
    BY <2>1, <2>3
<1>2. PICK m \in U : \A k \in U : m <= k
  BY <1>1, LeastElement
<1>3. PICK x \in T : m = b - x
  BY <1>2
<1>4. \A y \in T : x >= y
  <2> SUFFICES ASSUME NEW y \in T PROVE x >= y
    OBVIOUS
  <2>1. b - y \in U /\ m <= b - y
    BY <1>2
  <2> QED
    BY <1>3, <2>1
<1>5. \E z \in T : \A y \in T : z >= y
  BY <1>4
<1> QED
  BY <1>5, Zenon DEF Max

\* The only slot that has a pid is the one getjobpid finds.
LEMMA SlotIs ==
    ASSUME NEW p, NEW s \in Slots, jobs[s].pid = p,
           \A u \in Slots : jobs[u].pid = p => u = s
    PROVE  SlotOf(p) = s
<1>1. SlotOf(p) = Min({u \in Slots : jobs[u].pid = p})
  BY DEF SlotOf, FirstWhere
<1>2. {u \in Slots : jobs[u].pid = p} = {s}
  OBVIOUS
<1>3. Min({s}) \in {s}
  BY MinIn, ShellAssumption DEF Slots
<1> QED
  BY <1>1, <1>2, <1>3

\* The pid of the only foreground job.
LEMMA ForegroundIs ==
    ASSUME NEW s \in Slots, jobs[s].state = "FG",
           \A u \in Slots : jobs[u].state = "FG" => u = s
    PROVE  fgpid = jobs[s].pid
<1>1. fgpid = jobs[Min({u \in Slots : jobs[u].state = "FG"})].pid
  BY DEF fgpid, FirstWhere
<1>2. {u \in Slots : jobs[u].state = "FG"} = {s}
  OBVIOUS
<1>3. Min({s}) \in {s}
  BY MinIn, ShellAssumption DEF Slots
<1> QED
  BY <1>1, <1>2, <1>3

-----------------------------------------------------------------------------
\* The stack of handlers, as the set of its frames: no two of one signal.
LEMMA FramesDiffer ==
    ASSUME StackInv
    PROVE  /\ \A f \in Frames : f \in Frame
           /\ \A f, g \in Frames : f.sig = g.sig => f = g
           /\ stack = <<>> <=> Frames = {}
           /\ stack # <<>> => Head(stack) \in Frames
           /\ OnStack = {f.sig : f \in Frames}
<1>1. \A f \in Frames : f \in Frame
  BY DEF StackInv, Frames
<1>2. \A f, g \in Frames : f.sig = g.sig => f = g
  BY DEF StackInv, Frames
<1>3. stack # <<>> => 1 \in 1..Len(stack) /\ Head(stack) = stack[1]
  BY DEF StackInv
<1>4. stack = <<>> <=> Frames = {}
  <2>1. stack # <<>> => stack[1] \in Frames
    BY <1>3 DEF Frames
  <2>2. stack = <<>> => 1..Len(stack) = {}
    BY EmptySeq
  <2> QED
    BY <2>1, <2>2 DEF Frames
<1>5. OnStack = {f.sig : f \in Frames}
  BY DEF OnStack, Frames
<1> QED
  BY <1>1, <1>2, <1>3, <1>4, <1>5 DEF Frames

\* Delivery adds a frame.
LEMMA PushFrame ==
    ASSUME StackInv, NEW f \in Frame, f.sig \notin OnStack, stack' = <<f>> \o stack
    PROVE  StackInv' /\ Frames' = Frames \cup {f}
<1>1. stack \in Seq(Frame) /\ Len(stack) \in Nat
  BY DEF StackInv
<1>2. /\ stack' \in Seq(Frame) /\ Len(stack') = Len(stack) + 1 /\ stack'[1] = f
      /\ \A k \in 2..Len(stack)+1 : stack'[k] = stack[k-1]
  BY <1>1
<1>3. \A k \in 1..Len(stack) : stack[k].sig # f.sig
  BY DEF OnStack
<1>4. \A k \in 1..Len(stack)+1 : k = 1 \/ (k \in 2..Len(stack)+1 /\ k - 1 \in 1..Len(stack))
  BY <1>1
<1>5. ASSUME NEW j \in 1..Len(stack'), NEW k \in 1..Len(stack'), stack'[j].sig = stack'[k].sig
      PROVE  j = k
  <2>1. j = 1 \/ (j \in 2..Len(stack)+1 /\ j - 1 \in 1..Len(stack) /\ stack'[j] = stack[j-1])
    BY <1>2, <1>4
  <2>2. k = 1 \/ (k \in 2..Len(stack)+1 /\ k - 1 \in 1..Len(stack) /\ stack'[k] = stack[k-1])
    BY <1>2, <1>4
  <2>3. j # 1 /\ k # 1 => j - 1 = k - 1
    BY <1>5, <2>1, <2>2 DEF StackInv
  <2> QED
    BY <1>1, <1>2, <1>3, <1>5, <2>1, <2>2, <2>3
<1>6. Frames' = Frames \cup {f}
  <2>1. \A k \in 1..Len(stack) : k + 1 \in 2..Len(stack)+1 /\ (k + 1) - 1 = k /\ k + 1 \in 1..Len(stack)+1
    BY <1>1
  <2>2. \A k \in 1..Len(stack) : stack'[k+1] = stack[k]
    BY <1>2, <2>1
  <2>3. 1 \in 1..Len(stack)+1
    BY <1>1
  <2>4. \A k \in 1..Len(stack)+1 : stack'[k] = f \/ \E j \in 1..Len(stack) : stack'[k] = stack[j]
    BY <1>2, <1>4
  <2> QED
    BY <1>2, <2>1, <2>2, <2>3, <2>4 DEF Frames
<1> QED
  BY <1>2, <1>5, <1>6 DEF StackInv

\* A return removes the innermost one.
LEMMA PopFrame ==
    ASSUME StackInv, stack # <<>>, stack' = Tail(stack)
    PROVE  StackInv' /\ Frames' = Frames \ {Head(stack)} /\ Len(stack') = Len(stack) - 1
<1>1. /\ stack' \in Seq(Frame) /\ Len(stack') = Len(stack) - 1 /\ Len(stack) \in Nat \ {0}
      /\ Head(stack) = stack[1] /\ \A k \in 1..Len(stack)-1 : stack'[k] = stack[k+1]
  BY HeadTailProperties DEF StackInv
<1>2. \A k \in 1..Len(stack)-1 : k + 1 \in 1..Len(stack) /\ k + 1 # 1
  BY <1>1
<1>3. ASSUME NEW j \in 1..Len(stack'), NEW k \in 1..Len(stack'), stack'[j].sig = stack'[k].sig
      PROVE  j = k
  <2>1. j + 1 = k + 1
    BY <1>1, <1>2, <1>3 DEF StackInv
  <2> QED
    BY <2>1
<1>4. \A k \in 1..Len(stack) : k # 1 => stack[k].sig # stack[1].sig
  BY <1>1 DEF StackInv
<1>5. \A k \in 1..Len(stack) : k # 1 => k - 1 \in 1..Len(stack)-1 /\ (k - 1) + 1 = k
  BY <1>1
<1>6. \A k \in 1..Len(stack) : k # 1 => stack'[k-1] = stack[k]
  BY <1>1, <1>5
<1>7. Frames' = Frames \ {Head(stack)}
  <2>1. \A k \in 1..Len(stack') : stack'[k] \in Frames \ {stack[1]}
    BY <1>1, <1>2, <1>4 DEF Frames
  <2>2. \A f \in Frames \ {stack[1]} : \E k \in 1..Len(stack') : f = stack'[k]
    BY <1>1, <1>5, <1>6 DEF Frames
  <2>3. Frames' = {stack'[k] : k \in 1..Len(stack')}
    BY DEF Frames
  <2>4. Frames' \subseteq Frames \ {stack[1]}
    BY <2>1, <2>3
  <2>5. Frames \ {stack[1]} \subseteq Frames'
    BY <2>2, <2>3
  <2> QED
    BY <1>1, <2>4, <2>5
<1> QED
  BY <1>1, <1>3, <1>7 DEF StackInv

\* Every other step of a handler replaces it.
LEMMA ChangeFrame ==
    ASSUME StackInv, stack # <<>>, NEW at, NEW pid, NEW all, GoTo(at, pid, all),
           NEW g, g = [sig |-> Head(stack).sig, at |-> at, pid |-> pid, all |-> all], g \in Frame
    PROVE  StackInv' /\ Frames' = (Frames \ {Head(stack)}) \cup {g} /\ stack' # <<>>
<1>1. stack \in Seq(Frame) /\ Len(stack) \in Nat \ {0} /\ Head(stack) = stack[1] /\ stack[1] \in Frame
  BY HeadTailProperties DEF StackInv
<1>2. stack' = [stack EXCEPT ![1] = g]
  BY <1>1 DEF GoTo
<1>3. /\ stack' \in Seq(Frame) /\ Len(stack') = Len(stack) /\ stack'[1] = g
      /\ \A k \in 1..Len(stack) : k # 1 => stack'[k] = stack[k]
  BY <1>1, <1>2
<1>4. \A k \in 1..Len(stack) : stack'[k].sig = stack[k].sig
  BY <1>1, <1>3
<1>5. \A k \in 1..Len(stack) : k # 1 => stack[k].sig # stack[1].sig
  BY <1>1 DEF StackInv
<1>6. Frames' = (Frames \ {stack[1]}) \cup {g}
  <2>1. 1 \in 1..Len(stack)
    BY <1>1
  <2>2. \A k \in 1..Len(stack) : stack'[k] \in (Frames \ {stack[1]}) \cup {g}
    BY <1>3, <1>5 DEF Frames
  <2>3. \A f \in Frames \ {stack[1]} : \E k \in 1..Len(stack) : f = stack'[k]
    BY <1>3 DEF Frames
  <2> QED
    BY <1>3, <2>1, <2>2, <2>3 DEF Frames
<1> QED
  BY <1>1, <1>3, <1>4, <1>6 DEF StackInv

\* A job's pid, number and state are there together.
LEMMA JobFacts ==
    ASSUME TypeInv
    PROVE  \A s \in Slots :
               /\ jobs[s] \in Job
               /\ jobs[s].pid = NoPid <=> jobs[s] = NoJob
               /\ jobs[s].pid # NoPid => /\ jobs[s].pid \in Pids /\ jobs[s].jid \in 1..MaxJid
                                        /\ jobs[s].state \in {"FG", "BG", "ST"}
               /\ jobs[s].state \in {"FG", "BG", "ST"} => jobs[s].pid # NoPid
               /\ jobs[s].jid \in 0..MaxJid
<1> SUFFICES ASSUME NEW s \in Slots
             PROVE  /\ jobs[s] \in Job
                    /\ jobs[s].pid = NoPid <=> jobs[s] = NoJob
                    /\ jobs[s].pid # NoPid => /\ jobs[s].pid \in Pids /\ jobs[s].jid \in 1..MaxJid
                                             /\ jobs[s].state \in {"FG", "BG", "ST"}
                    /\ jobs[s].state \in {"FG", "BG", "ST"} => jobs[s].pid # NoPid
                    /\ jobs[s].jid \in 0..MaxJid
  OBVIOUS
<1>1. jobs[s] \in Job
  BY DEF TypeInv
<1> QED
  BY <1>1, ShellAssumption DEF Job, NoJob

\* A job is in the table when one of its slots has the job's pid.
LEMMA ListedFacts ==
    \A p : p \in Listed <=> p # NoPid /\ \E s \in Slots : jobs[s].pid = p
BY DEF Listed

\* The innermost frame; the handler of SIGCHLD runs at most once.
LEMMA Innermost ==
    ASSUME BasicInv, NEW sigs, NEW at, InHandler(sigs, at)
    PROVE  /\ Up /\ stack # <<>>
           /\ Head(stack) \in Frames /\ Head(stack) \in Frame
           /\ Head(stack).sig \in sigs /\ Head(stack).at = at
           /\ \A f \in Frames : f # Head(stack) => f.sig # Head(stack).sig
BY FramesDiffer DEF BasicInv, InHandler

\* main takes a step only when no handler runs.
LEMMA MainAlone ==
    ASSUME BasicInv, NEW at, MainAt(at)
    PROVE  /\ Up /\ stack = <<>> /\ Frames = {} /\ mpc = at
           /\ \A s \in Slots : jobs[s].pid # NoPid => proc[jobs[s].pid] # "none"
<1>1. Up /\ stack = <<>> /\ mpc = at
  BY DEF MainAt
<1>2. Frames = {}
  BY <1>1, FramesDiffer DEF BasicInv
<1> QED
  BY <1>1, <1>2 DEF BasicInv, ChildInv

\* Steps that leave the stack alone leave its frames alone.
LEMMA SameFrames ==
    ASSUME StackInv, stack' = stack
    PROVE  StackInv' /\ Frames' = Frames
BY DEF StackInv, Frames

-----------------------------------------------------------------------------
\* Delivery: SIGCHLD gets through only in sigsuspend.
LEMMA DeliverKeeps ==
    ASSUME BasicInv, NEW sig \in Signals, Deliver(sig)
    PROVE  BasicInv' /\ Frames \subseteq Frames'
<1> DEFINE f == [sig |-> sig, at |-> "start", pid |-> NoPid, all |-> FALSE]
<1>1. f \in Frame
  BY DEF Frame
<1>2. sig \notin OnStack /\ (sig = "CHLD" => mpc = "suspend")
  <2>1. sig \in pending /\ sig \notin Blocked
    BY DEF Deliver, Deliverable
  <2>2. sig \notin OnStack /\ ~(sig = "CHLD" /\ chldBlocked /\ mpc # "suspend")
    BY <2>1 DEF Blocked
  <2> QED
    BY <2>1, <2>2 DEF BasicInv, BlockedInv
<1>3. StackInv' /\ Frames' = Frames \cup {f}
  BY <1>1, <1>2, PushFrame DEF BasicInv, Deliver
<1>4. /\ UNCHANGED <<jobs, nextjid, flag, mpc, mpid, background, chldBlocked, proc, news, refused>>
      /\ pending' = pending \ {sig} /\ Up
  BY DEF Deliver, tableVars, mainVars, kernelVars
<1>5. TypeInv'
  BY <1>4 DEF BasicInv, TypeInv, Up
<1>6. FrameInv'
  BY <1>2, <1>3, <1>4 DEF BasicInv, FrameInv, Listed
<1>7. BlockedInv'
  BY <1>4 DEF BasicInv, BlockedInv
<1>8. NewsInv'
  <2>1. f \in Frames' /\ f.sig = sig /\ Frames \subseteq Frames'
    BY <1>3
  <2>2. "CHLD" \in pending \/ ChldRuns => "CHLD" \in pending' \/ ChldRuns'
    BY <1>4, <2>1 DEF ChldRuns
  <2> QED
    BY <1>4, <2>2 DEF BasicInv, NewsInv, Up
<1>9. ChildInv'
  BY <1>3, <1>4 DEF BasicInv, ChildInv, Listed, Up
<1> QED
  BY <1>3, <1>5, <1>6, <1>7, <1>8, <1>9 DEF BasicInv

\* A key is typed.
LEMMA TypeKeeps ==
    ASSUME BasicInv, NEW sig \in Signals, Type(sig)
    PROVE  BasicInv'
<1>1. /\ UNCHANGED <<jobs, nextjid, flag, mpc, mpid, background, chldBlocked, stack, proc, news, refused>>
      /\ pending' = pending \cup {sig} /\ sig \in {"INT", "TSTP"}
  BY DEF Type, tableVars, mainVars, kernelVars
<1>2. StackInv' /\ Frames' = Frames
  BY <1>1, SameFrames DEF BasicInv
<1>3. TypeInv'
  BY <1>1 DEF BasicInv, TypeInv, Up, Signals
<1>4. FrameInv'
  BY <1>1, <1>2 DEF BasicInv, FrameInv, Listed
<1>5. BlockedInv'
  BY <1>1 DEF BasicInv, BlockedInv
<1>6. NewsInv'
  BY <1>1, <1>2 DEF BasicInv, NewsInv, ChldRuns, Up
<1>7. ChildInv'
  BY <1>1, <1>2 DEF BasicInv, ChildInv, Listed, Up
<1> QED
  BY <1>2, <1>3, <1>4, <1>5, <1>6, <1>7 DEF BasicInv

\* waitpid reports a child that has ended.
LEMMA ReapDeadKeeps ==
    ASSUME BasicInv, ReapDead
    PROVE  BasicInv'
<1> DEFINE h == Head(stack)
<1>1. /\ Up /\ stack # <<>> /\ h \in Frames /\ h \in Frame /\ h.sig = "CHLD" /\ h.at = "start"
      /\ \A f \in Frames : f # h => f.sig # "CHLD"
  BY Innermost DEF ReapDead
<1>2. PICK p \in Pids : /\ proc[p] = "zombie" /\ proc' = [proc EXCEPT ![p] = "none"]
                       /\ GoTo("dead", p, h.all)
  BY DEF ReapDead
<1>3. /\ UNCHANGED <<jobs, nextjid, flag, mpc, mpid, background, chldBlocked, pending, news, refused>>
      /\ mpc = "suspend"
  BY <1>1 DEF ReapDead, tableVars, mainVars, BasicInv, FrameInv
<1> DEFINE g == [sig |-> h.sig, at |-> "dead", pid |-> p, all |-> h.all]
<1>4. g \in Frame
  BY <1>1 DEF Frame
<1>5. StackInv' /\ Frames' = (Frames \ {h}) \cup {g}
  BY <1>1, <1>2, <1>4, ChangeFrame DEF BasicInv
<1>6. /\ \A q \in Pids : proc'[q] = IF q = p THEN "none" ELSE proc[q]
      /\ proc' \in [Pids -> ProcState]
  BY <1>2 DEF BasicInv, TypeInv, ProcState
<1>7. p \in Listed \cup refused
  BY <1>1, <1>2, <1>3 DEF BasicInv, ChildInv
<1>8. TypeInv'
  BY <1>1, <1>3, <1>6 DEF BasicInv, TypeInv, Up
<1>9. FrameInv'
  BY <1>1, <1>3, <1>5, <1>6, <1>7 DEF BasicInv, FrameInv, Listed
<1>10. BlockedInv'
  BY <1>3 DEF BasicInv, BlockedInv
<1>11. NewsInv'
  <2>1. ChldRuns'
    <3>1. g \in Frames' /\ g.sig = "CHLD"
      BY <1>1, <1>5
    <3> QED
      BY <3>1 DEF ChldRuns
  <2>2. \A q \in news : q \in Pids /\ q # p /\ proc'[q] = "stopped"
    BY <1>2, <1>6 DEF BasicInv, NewsInv, TypeInv
  <2> QED
    BY <1>3, <2>1, <2>2 DEF NewsInv
<1>12. ChildInv'
  <2>1. \A f \in Frames : f.at # "dead"
    BY <1>1 DEF BasicInv, FrameInv
  <2>2. \A s \in Slots : jobs[s].pid # NoPid => jobs[s].pid \in Pids /\ proc[jobs[s].pid] # "none"
    BY <1>1, <2>1, JobFacts DEF BasicInv, ChildInv
  <2>3. g \in Frames' /\ g.at = "dead" /\ g.pid = p
    BY <1>5
  <2>4. \A s \in Slots : jobs[s].pid # NoPid /\ proc'[jobs[s].pid] = "none" => jobs[s].pid = p
    BY <1>6, <2>2
  <2>5. \A s \in Slots : jobs'[s].pid # NoPid /\ proc'[jobs'[s].pid] = "none" =>
            \E f \in Frames' : f.at = "dead" /\ f.pid = jobs'[s].pid
    BY <1>3, <2>3, <2>4
  <2>6. \A q \in Pids : proc'[q] # "none" => proc[q] # "none"
    BY <1>6
  <2> QED
    BY <1>1, <1>3, <2>5, <2>6 DEF BasicInv, ChildInv, Listed, Up
<1> QED
  BY <1>5, <1>8, <1>9, <1>10, <1>11, <1>12 DEF BasicInv

\* waitpid reports a child that has stopped.
LEMMA ReapStoppedKeeps ==
    ASSUME BasicInv, ReapStopped
    PROVE  /\ BasicInv'
           /\ \E f \in Frames' : f.at = "stopped" /\ news' = news \ {f.pid}
<1> DEFINE h == Head(stack)
<1>1. /\ Up /\ stack # <<>> /\ h \in Frames /\ h \in Frame /\ h.sig = "CHLD" /\ h.at = "start"
      /\ \A f \in Frames : f # h => f.sig # "CHLD"
  BY Innermost DEF ReapStopped
<1>2. PICK p \in news : news' = news \ {p} /\ GoTo("stopped", p, h.all)
  BY DEF ReapStopped
<1>3. /\ UNCHANGED <<jobs, nextjid, flag, mpc, mpid, background, chldBlocked, pending, proc, refused>>
      /\ mpc = "suspend"
  BY <1>1 DEF ReapStopped, tableVars, mainVars, BasicInv, FrameInv
<1>4. p \in Pids /\ proc[p] = "stopped"
  BY DEF BasicInv, TypeInv, NewsInv
<1> DEFINE g == [sig |-> h.sig, at |-> "stopped", pid |-> p, all |-> h.all]
<1>5. g \in Frame
  BY <1>1, <1>4 DEF Frame
<1>6. StackInv' /\ Frames' = (Frames \ {h}) \cup {g}
  BY <1>1, <1>2, <1>5, ChangeFrame DEF BasicInv
<1>7. p \in Listed \cup refused
  BY <1>1, <1>3, <1>4 DEF BasicInv, ChildInv
<1>8. TypeInv'
  BY <1>1, <1>2, <1>3 DEF BasicInv, TypeInv, Up
<1>9. FrameInv'
  BY <1>1, <1>3, <1>4, <1>6, <1>7 DEF BasicInv, FrameInv, Listed
<1>10. BlockedInv'
  BY <1>3 DEF BasicInv, BlockedInv
<1>11. NewsInv'
  <2>1. ChldRuns'
    <3>1. g \in Frames' /\ g.sig = "CHLD"
      BY <1>1, <1>6
    <3> QED
      BY <3>1 DEF ChldRuns
  <2> QED
    BY <1>2, <1>3, <2>1 DEF BasicInv, NewsInv
<1>12. ChildInv'
  <2>1. \A f \in Frames : f.at # "dead"
    BY <1>1 DEF BasicInv, FrameInv
  <2> QED
    BY <1>1, <1>3, <2>1 DEF BasicInv, ChildInv, Listed, Up
<1>13. g \in Frames' /\ g.at = "stopped" /\ news' = news \ {g.pid}
  BY <1>2, <1>6
<1> QED
  BY <1>13, <1>6, <1>8, <1>9, <1>10, <1>11, <1>12 DEF BasicInv

\* A handler returns: sigsuspend with the last one.
LEMMA Returns ==
    ASSUME BasicInv, stack # <<>>, Return
    PROVE  /\ StackInv' /\ Frames' = Frames \ {Head(stack)}
           /\ UNCHANGED <<mpid, background, chldBlocked>>
           /\ Up /\ Up'
           /\ mpc' = mpc \/ (mpc = "suspend" /\ mpc' = "wait" /\ Frames' = {})
<1>1. stack' = Tail(stack)
  BY DEF Return
<1>2. StackInv' /\ Frames' = Frames \ {Head(stack)} /\ Len(stack') = Len(stack) - 1
  BY <1>1, PopFrame DEF BasicInv
<1>3. Up
  BY DEF BasicInv, TypeInv
<1>4. Len(stack) = 1 => Frames' = {}
  <2>1. Len(stack) = 1 => 1..Len(stack') = {}
    BY <1>2
  <2> QED
    BY <2>1 DEF Frames
<1> QED
  BY <1>2, <1>3, <1>4 DEF Return, Up

\* The handler of SIGCHLD has nothing more to report.
LEMMA NothingToReapKeeps ==
    ASSUME BasicInv, NothingToReap
    PROVE  BasicInv'
<1> DEFINE h == Head(stack)
<1>1. /\ Up /\ stack # <<>> /\ h \in Frames /\ h.sig = "CHLD" /\ h.at = "start"
      /\ \A f \in Frames : f # h => f.sig # "CHLD"
  BY Innermost DEF NothingToReap
<1>2. /\ StackInv' /\ Frames' = Frames \ {h}
      /\ UNCHANGED <<mpid, background, chldBlocked>> /\ Up'
      /\ mpc = "suspend" /\ mpc' \in {"suspend", "wait"}
  BY <1>1, Returns DEF NothingToReap, BasicInv, FrameInv
<1>3. /\ UNCHANGED <<jobs, nextjid, flag, pending, proc, news, refused>>
      /\ news = {} /\ \A p \in Pids : proc[p] # "zombie"
  BY DEF NothingToReap, tableVars, kernelVars
<1>4. TypeInv'
  BY <1>2, <1>3 DEF BasicInv, TypeInv, MainPC
<1>5. FrameInv'
  BY <1>1, <1>2, <1>3 DEF BasicInv, FrameInv, Listed
<1>6. BlockedInv'
  BY <1>2, <1>3 DEF BasicInv, BlockedInv
<1>7. NewsInv'
  BY <1>3 DEF NewsInv
<1>8. ChildInv'
  <2>1. \A f \in Frames : f.at # "dead"
    BY <1>1 DEF BasicInv, FrameInv
  <2> QED
    BY <1>1, <1>2, <1>3, <2>1 DEF BasicInv, ChildInv, Listed
<1> QED
  BY <1>2, <1>4, <1>5, <1>6, <1>7, <1>8 DEF BasicInv

\* The shell ends in a handler, with no job for the child or no process to
\* send the key to.
LEMMA ExitKeeps ==
    ASSUME BasicInv, UnknownChild \/ KillFails
    PROVE  BasicInv'
<1>1. /\ UNCHANGED <<jobs, nextjid, mpid, background, chldBlocked, pending, proc, news, refused>>
      /\ stack' = <<>> /\ stack # <<>> /\ flag' \in BOOLEAN
      /\ mpc' = "killFailed" \/ (UnknownChild /\ mpc' = "noSuchJob")
  BY DEF UnknownChild, KillFails, InHandler, Exits, tableVars, kernelVars, BasicInv, TypeInv
<1>2. ~Up' /\ mpc' \in {"killFailed", "noSuchJob"}
  BY <1>1 DEF Up
<1>3. StackInv' /\ Frames' = {}
  <2>1. 1..Len(stack') = {}
    BY <1>1, EmptySeq
  <2> QED
    BY <1>1, <2>1 DEF StackInv, Frames
<1>4. TypeInv'
  BY <1>1, <1>2 DEF BasicInv, TypeInv, MainPC
<1>5. FrameInv'
  BY <1>3 DEF FrameInv
<1>6. UnknownChild => refused # {} /\ mpc = "suspend"
  <2> SUFFICES ASSUME UnknownChild PROVE refused # {} /\ mpc = "suspend"
    OBVIOUS
  <2>1. PICK at \in {"dead", "stopped"} : InHandler({"CHLD"}, at)
    BY DEF UnknownChild
  <2>2. Head(stack) \in Frames /\ Head(stack).sig = "CHLD" /\ Head(stack).at \in {"dead", "stopped"}
    BY <2>1, Innermost
  <2>3. Head(stack).pid \in Listed \cup refused /\ mpc = "suspend"
    BY <2>2 DEF BasicInv, FrameInv
  <2>4. Head(stack).pid \notin Listed
    BY ListedFacts DEF UnknownChild, HasJob
  <2> QED
    BY <2>3, <2>4
<1>7. BlockedInv'
  BY <1>1, <1>6 DEF BasicInv, BlockedInv
<1>8. NewsInv'
  BY <1>1, <1>2 DEF BasicInv, NewsInv
<1>9. ChildInv'
  BY <1>1, <1>2, <1>6 DEF BasicInv, ChildInv
<1> QED
  BY <1>3, <1>4, <1>5, <1>7, <1>8, <1>9 DEF BasicInv

\* The slot of a child that the handler knows.
LEMMA SlotOfChild ==
    ASSUME BasicInv, HasJob(Head(stack).pid), Head(stack).pid \in Pids
    PROVE  /\ SlotOf(Head(stack).pid) \in Slots
           /\ jobs[SlotOf(Head(stack).pid)].pid = Head(stack).pid
           /\ \A s \in Slots : jobs[s].pid = Head(stack).pid => s = SlotOf(Head(stack).pid)
<1> DEFINE p == Head(stack).pid
<1>1. PICK s \in Slots : jobs[s].pid = p
  BY DEF HasJob
<1>2. \A u \in Slots : jobs[u].pid = p => u = s
  BY <1>1, ShellAssumption DEF BasicInv, ChildInv
<1> HIDE DEF p
<1>3. SlotOf(p) = s
  BY <1>1, <1>2, SlotIs
<1> QED
  BY <1>1, <1>2, <1>3 DEF p

\* maxjid: the largest job number, 0 in an empty table.
LEMMA MaxJidIn ==
    ASSUME NEW table \in [Slots -> Job]
    PROVE  maxjid(table) \in 0..MaxJid
<1> DEFINE T == {table[s].jid : s \in Slots}
<1>1. \A s \in Slots : table[s].jid \in 0..MaxJid
  <2> TAKE s \in Slots
  <2>1. table[s] \in Job
    OBVIOUS
  <2> QED
    BY <2>1, ShellAssumption DEF Job, NoJob
<1>2. T \in SUBSET (0..MaxJid)
  BY <1>1
<1>3. T # {}
  <2>1. 1 \in Slots
    BY ShellAssumption DEF Slots
  <2> QED
    BY <2>1
<1> HIDE DEF T
<1>4. Max(T) \in T
  BY <1>2, <1>3, MaxIn, ShellAssumption
<1>5. maxjid(table) = Max(T)
  BY DEF maxjid, T
<1> QED
  BY <1>2, <1>4, <1>5

\* deletejob: the job of a child that has ended leaves the table.
LEMMA RecordDeadKeeps ==
    ASSUME BasicInv, RecordDead
    PROVE  BasicInv'
<1> DEFINE h == Head(stack)
           p == h.pid
           d == SlotOf(p)
<1>1. /\ Up /\ stack # <<>> /\ h \in Frames /\ h \in Frame /\ h.sig = "CHLD" /\ h.at = "dead"
      /\ \A f \in Frames : f # h => f.sig # "CHLD"
  BY Innermost DEF RecordDead
<1>2. p \in Pids /\ proc[p] = "none" /\ mpc = "suspend"
  BY <1>1 DEF BasicInv, FrameInv
<1>3. /\ d \in Slots /\ jobs[d].pid = p
      /\ \A s \in Slots : jobs[s].pid = p => s = d
  BY <1>2, SlotOfChild DEF RecordDead
<1>4. /\ UNCHANGED <<mpc, mpid, background, chldBlocked, pending, proc, news, refused>>
      /\ flag' \in BOOLEAN
      /\ jobs' = [jobs EXCEPT ![d] = NoJob] /\ nextjid' = maxjid(jobs') + 1
      /\ GoTo("start", NoPid, h.all)
  BY DEF RecordDead, deletejob, mainVars, kernelVars, BasicInv, TypeInv
<1> DEFINE g == [sig |-> h.sig, at |-> "start", pid |-> NoPid, all |-> h.all]
<1>5. g \in Frame
  BY <1>1 DEF Frame
<1>6. StackInv' /\ Frames' = (Frames \ {h}) \cup {g}
  BY <1>1, <1>4, <1>5, ChangeFrame DEF BasicInv
<1>7. jobs' \in [Slots -> Job]
  BY <1>3, <1>4 DEF BasicInv, TypeInv, Job
<1>8. \A s \in Slots : /\ s # d => jobs'[s] = jobs[s]
                       /\ s = d => jobs'[s] = NoJob /\ jobs'[s].pid = NoPid
  BY <1>3, <1>4 DEF BasicInv, TypeInv, NoJob
<1>9. TypeInv'
  <2>1. maxjid(jobs') + 1 \in 1..MaxJid+1
    BY <1>7, MaxJidIn, ShellAssumption
  <2> QED
    BY <1>1, <1>4, <1>7, <2>1 DEF BasicInv, TypeInv, Up
<1>10. \A q : q \in Listed /\ q # p => q \in Listed'
  BY <1>3, <1>8 DEF Listed
<1>11. FrameInv'
  <2>1. \A f \in Frames : f # h => f.at \notin {"dead", "stopped"}
    BY <1>1 DEF BasicInv, FrameInv
  <2> QED
    BY <1>1, <1>2, <1>4, <1>6, <2>1 DEF BasicInv, FrameInv
<1>12. BlockedInv'
  BY <1>2, <1>4 DEF BasicInv, BlockedInv
<1>13. NewsInv'
  <2>1. ChldRuns'
    <3>1. g \in Frames' /\ g.sig = "CHLD"
      BY <1>1, <1>6
    <3> QED
      BY <3>1 DEF ChldRuns
  <2> QED
    BY <1>4, <2>1 DEF BasicInv, NewsInv
<1>14. ChildInv'
  <2>1. \A s, u \in Slots : jobs'[s].pid = jobs'[u].pid /\ jobs'[s].pid # NoPid => s = u
    BY <1>8 DEF BasicInv, ChildInv
  <2>2. \A q \in Pids : proc[q] # "none" => q \in Listed' \cup refused
    BY <1>1, <1>2, <1>10 DEF BasicInv, ChildInv
  <2>3. \A s \in Slots : jobs[s].pid # NoPid /\ proc[jobs[s].pid] = "none" => s = d
    <3> SUFFICES ASSUME NEW s \in Slots, jobs[s].pid # NoPid, proc[jobs[s].pid] = "none"
                 PROVE  s = d
      OBVIOUS
    <3>1. PICK f \in Frames : f.at = "dead" /\ f.pid = jobs[s].pid
      BY <1>1 DEF BasicInv, ChildInv
    <3>2. f = h
      BY <1>1, <3>1 DEF BasicInv, FrameInv
    <3> QED
      BY <1>3, <3>1, <3>2
  <2>4. \A s \in Slots : ~(jobs'[s].pid # NoPid /\ proc[jobs'[s].pid] = "none")
    BY <1>8, <2>3
  <2> QED
    BY <1>2, <1>4, <2>1, <2>2, <2>4 DEF ChildInv
<1> QED
  BY <1>6, <1>9, <1>11, <1>12, <1>13, <1>14 DEF BasicInv

\* A change of one job's state: the same processes are listed.
LEMMA StateOnly ==
    ASSUME TypeInv, NEW d \in Slots, jobs[d].pid # NoPid, NEW state \in {"FG", "BG", "ST"},
           jobs' = [jobs EXCEPT ![d].state = state]
    PROVE  /\ jobs' \in [Slots -> Job]
           /\ \A s \in Slots : /\ jobs'[s].pid = jobs[s].pid
                               /\ s # d => jobs'[s] = jobs[s]
                               /\ s = d => jobs'[s].state = state
           /\ Listed' = Listed
<1> DEFINE j == [jobs[d] EXCEPT !.state = state]
<1>1. jobs[d] \in [pid : Pids, jid : 1..MaxJid, state : {"FG", "BG", "ST"}]
  BY JobFacts DEF TypeInv, Job, NoJob
<1>2. j \in Job /\ j.pid = jobs[d].pid /\ j.state = state
  BY <1>1 DEF Job
<1>3. jobs' = [jobs EXCEPT ![d] = j]
  OBVIOUS
<1> HIDE DEF j
<1>4. jobs' \in [Slots -> Job]
  BY <1>2, <1>3 DEF TypeInv
<1>5. \A s \in Slots : /\ s # d => jobs'[s] = jobs[s]
                       /\ s = d => jobs'[s] = j
  BY <1>3 DEF TypeInv
<1>6. \A s \in Slots : jobs'[s].pid = jobs[s].pid
  BY <1>2, <1>5
<1> QED
  BY <1>2, <1>4, <1>5, <1>6 DEF Listed

\* The job of a child that has stopped becomes ST.
LEMMA RecordStoppedKeeps ==
    ASSUME BasicInv, RecordStopped
    PROVE  BasicInv'
<1> DEFINE h == Head(stack)
           p == h.pid
           d == SlotOf(p)
<1>1. /\ Up /\ stack # <<>> /\ h \in Frames /\ h \in Frame /\ h.sig = "CHLD" /\ h.at = "stopped"
      /\ \A f \in Frames : f # h => f.sig # "CHLD"
  BY Innermost DEF RecordStopped
<1>2. p \in Pids /\ mpc = "suspend"
  BY <1>1 DEF BasicInv, FrameInv
<1>3. d \in Slots /\ jobs[d].pid = p /\ p # NoPid
  BY <1>2, SlotOfChild, ShellAssumption DEF RecordStopped
<1>4. /\ UNCHANGED <<nextjid, mpc, mpid, background, chldBlocked, pending, proc, news, refused>>
      /\ flag' \in BOOLEAN
      /\ jobs' = [jobs EXCEPT ![d].state = "ST"]
      /\ GoTo("start", NoPid, TRUE)
  BY DEF RecordStopped, mainVars, kernelVars, BasicInv, TypeInv
<1> DEFINE g == [sig |-> h.sig, at |-> "start", pid |-> NoPid, all |-> TRUE]
<1>5. g \in Frame
  BY <1>1 DEF Frame
<1>6. StackInv' /\ Frames' = (Frames \ {h}) \cup {g}
  <2>1. PICK b \in BOOLEAN : b /\ GoTo("start", NoPid, b)
    BY <1>4
  <2>2. g = [sig |-> h.sig, at |-> "start", pid |-> NoPid, all |-> b]
    BY <2>1
  <2> HIDE DEF g
  <2> QED
    <3>1. StackInv
      BY DEF BasicInv
    <3>2. stack # <<>> /\ GoTo("start", NoPid, b)
      BY <1>1, <2>1
    <3> QED
      BY <1>5, <2>2, <3>1, <3>2, ChangeFrame
<1> HIDE DEF d
<1>7. /\ jobs' \in [Slots -> Job]
      /\ \A s \in Slots : jobs'[s].pid = jobs[s].pid
      /\ Listed' = Listed
  BY <1>3, <1>4, StateOnly DEF BasicInv
<1>8. TypeInv'
  BY <1>1, <1>4, <1>7 DEF BasicInv, TypeInv, Up
<1>9. FrameInv'
  BY <1>1, <1>2, <1>4, <1>6, <1>7 DEF BasicInv, FrameInv
<1>10. BlockedInv'
  BY <1>2, <1>4 DEF BasicInv, BlockedInv
<1>11. NewsInv'
  <2>1. ChldRuns'
    <3>1. g \in Frames' /\ g.sig = "CHLD"
      BY <1>1, <1>6
    <3> QED
      BY <3>1 DEF ChldRuns
  <2> QED
    BY <1>4, <2>1 DEF BasicInv, NewsInv
<1>12. ChildInv'
  <2>1. \A f \in Frames : f.at # "dead"
    BY <1>1 DEF BasicInv, FrameInv
  <2> QED
    BY <1>1, <1>2, <1>4, <1>7, <2>1 DEF BasicInv, ChildInv, Up
<1> QED
  BY <1>6, <1>8, <1>9, <1>10, <1>11, <1>12 DEF BasicInv

\* fgpid: the pid of a foreground job, and NoPid (0 in the code) without one.
LEMMA FgpidIn ==
    ASSUME TypeInv
    PROVE  \/ fgpid = NoPid /\ (\A s \in Slots : jobs[s].state # "FG")
           \/ \E s \in Slots : jobs[s].state = "FG" /\ fgpid = jobs[s].pid /\ fgpid \in Pids
<1> DEFINE T == {u \in Slots : jobs[u].state = "FG"}
<1>1. CASE T = {}
  BY <1>1 DEF fgpid
<1>2. CASE T # {}
  <2>1. fgpid = jobs[Min(T)].pid
    BY <1>2 DEF fgpid, FirstWhere
  <2>2. T \in SUBSET Nat
    BY ShellAssumption DEF Slots
  <2> HIDE DEF T
  <2>3. Min(T) \in T
    BY <1>2, <2>2, MinIn
  <2> QED
    BY <2>1, <2>3, JobFacts DEF T
<1> QED
  BY <1>1, <1>2

\* A handler of a key looks for the foreground job.
LEMMA FindForegroundKeeps ==
    ASSUME BasicInv, FindForeground
    PROVE  BasicInv' /\ \A f \in Frames : f.sig = "CHLD" => f \in Frames'
<1> DEFINE h == Head(stack)
<1>1. /\ Up /\ stack # <<>> /\ h \in Frames /\ h \in Frame /\ h.sig \in {"INT", "TSTP"}
      /\ h.at = "start"
  BY Innermost DEF FindForeground
<1>2. UNCHANGED <<jobs, nextjid, flag, pending, proc, news, refused>>
  BY DEF FindForeground, tableVars, kernelVars
<1>3. CASE fgpid = NoPid
  <2>1. /\ StackInv' /\ Frames' = Frames \ {h}
        /\ UNCHANGED <<mpid, background, chldBlocked>> /\ Up'
        /\ mpc' = mpc \/ (mpc = "suspend" /\ mpc' = "wait" /\ Frames' = {})
    BY <1>1, <1>3, Returns DEF FindForeground
  <2>2. TypeInv'
    BY <1>2, <2>1 DEF BasicInv, TypeInv, MainPC
  <2>3. FrameInv'
    BY <1>2, <2>1 DEF BasicInv, FrameInv, Listed
  <2>4. BlockedInv'
    BY <1>2, <2>1 DEF BasicInv, BlockedInv
  <2>5. \A f \in Frames : f.sig = "CHLD" \/ f.at = "dead" => f # h
    BY <1>1
  <2>6. NewsInv'
    BY <1>1, <1>2, <2>1, <2>5 DEF BasicInv, NewsInv, ChldRuns
  <2>7. ChildInv'
    BY <1>1, <1>2, <2>1, <2>5 DEF BasicInv, ChildInv, Listed
  <2> QED
    BY <2>1, <2>2, <2>3, <2>4, <2>5, <2>6, <2>7 DEF BasicInv
<1>4. CASE fgpid # NoPid
  <2>1. /\ GoTo("kill", fgpid, FALSE) /\ fgpid \in Pids
        /\ UNCHANGED <<mpc, mpid, background, chldBlocked>>
    BY <1>4, FgpidIn DEF FindForeground, mainVars, BasicInv
  <2>2. PICK g : g = [sig |-> h.sig, at |-> "kill", pid |-> fgpid, all |-> FALSE]
    OBVIOUS
  <2>3. g \in Frame /\ g.sig = h.sig /\ g.at = "kill" /\ g.pid \in Pids
    BY <1>1, <2>1, <2>2 DEF Frame
  <2>4. StackInv' /\ Frames' = (Frames \ {h}) \cup {g} /\ stack' # <<>>
    <3>1. PICK b \in BOOLEAN, q \in Pids : ~b /\ q = fgpid /\ GoTo("kill", q, b)
      BY <2>1
    <3>2. g = [sig |-> h.sig, at |-> "kill", pid |-> q, all |-> b]
      BY <2>2, <3>1
    <3> QED
      BY <1>1, <2>3, <3>1, <3>2, ChangeFrame DEF BasicInv
  <2>5. TypeInv'
    BY <1>1, <1>2, <2>1 DEF BasicInv, TypeInv, Up
  <2>6. FrameInv'
    BY <1>1, <1>2, <2>1, <2>3, <2>4 DEF BasicInv, FrameInv, Listed
  <2>7. BlockedInv'
    BY <1>2, <2>1 DEF BasicInv, BlockedInv
  <2>8. \A f \in Frames : f.sig = "CHLD" \/ f.at = "dead" => f # h
    BY <1>1
  <2>9. NewsInv'
    BY <1>1, <1>2, <2>1, <2>4, <2>8 DEF BasicInv, NewsInv, ChldRuns, Up
  <2>10. ChildInv'
    BY <1>1, <1>2, <2>1, <2>4, <2>8 DEF BasicInv, ChildInv, Listed, Up
  <2> QED
    BY <2>4, <2>8, <2>5, <2>6, <2>7, <2>9, <2>10 DEF BasicInv
<1> QED
  BY <1>3, <1>4

\* The key reaches the foreground job's process.
LEMMA SendSignalKeeps ==
    ASSUME BasicInv, SendSignal
    PROVE  BasicInv' /\ \A f \in Frames : f.sig = "CHLD" => f \in Frames'
<1> DEFINE h == Head(stack)
           p == h.pid
<1>1. /\ Up /\ stack # <<>> /\ h \in Frames /\ h \in Frame /\ h.sig \in {"INT", "TSTP"}
      /\ h.at = "kill"
  BY Innermost DEF SendSignal
<1>2. p \in Pids
  BY <1>1 DEF BasicInv, FrameInv
<1>3. /\ UNCHANGED <<jobs, nextjid, flag, refused>>
      /\ proc[p] # "none"
      /\ \/ UNCHANGED <<pending, proc, news>>
         \/ /\ proc[p] = "running" /\ pending' = pending \cup {"CHLD"}
            /\ \/ proc' = [proc EXCEPT ![p] = "zombie"] /\ news' = news
               \/ proc' = [proc EXCEPT ![p] = "stopped"] /\ news' = news \cup {p}
  BY DEF SendSignal, tableVars, kernelVars
<1>4. /\ StackInv' /\ Frames' = Frames \ {h}
      /\ UNCHANGED <<mpid, background, chldBlocked>> /\ Up'
      /\ mpc' = mpc \/ (mpc = "suspend" /\ mpc' = "wait" /\ Frames' = {})
  BY <1>1, Returns DEF SendSignal
<1>5. chldBlocked
  BY <1>2, <1>3 DEF BasicInv, BlockedInv, TypeInv
<1>6. /\ proc' \in [Pids -> ProcState]
      /\ \A q \in Pids : q # p => proc'[q] = proc[q]
      /\ proc'[p] = proc[p] \/ (proc[p] = "running" /\ proc'[p] \in {"zombie", "stopped"})
  BY <1>2, <1>3 DEF BasicInv, TypeInv, ProcState
<1>7. TypeInv'
  BY <1>2, <1>3, <1>4, <1>6 DEF BasicInv, TypeInv, MainPC, Signals
<1>8. Listed' = Listed
  BY <1>3 DEF Listed
<1>9. FrameInv'
  <2>1. \A f \in Frames' : f \in Frames /\ Frames' # {}
    BY <1>4
  <2>2. \A q \in Pids : /\ proc[q] = "none" => proc'[q] = "none"
                        /\ proc[q] \in {"stopped", "zombie"} => proc'[q] \in {"stopped", "zombie"}
    BY <1>3, <1>6
  <2> QED
    BY <1>3, <1>4, <1>8, <2>1, <2>2 DEF BasicInv, FrameInv
<1>10. BlockedInv'
  BY <1>4, <1>5 DEF BlockedInv
<1>11. \A f \in Frames : f.sig = "CHLD" \/ f.at = "dead" => f # h
  BY <1>1
<1>12. NewsInv'
  <2>1. \A q \in news' : proc'[q] = "stopped"
    BY <1>2, <1>3, <1>6 DEF BasicInv, NewsInv, TypeInv
  <2>2. ChldRuns => ChldRuns'
    BY <1>4, <1>11 DEF ChldRuns
  <2>3. "CHLD" \in pending' \/ UNCHANGED <<pending, proc, news>>
    BY <1>3
  <2> QED
    BY <1>1, <2>1, <2>2, <2>3 DEF BasicInv, NewsInv
<1>13. ChildInv'
  <2>1. \A q \in Pids : proc'[q] = "none" <=> proc[q] = "none"
    BY <1>3, <1>6
  <2>2. \A s \in Slots : jobs[s].pid # NoPid => jobs[s].pid \in Pids
    BY JobFacts DEF BasicInv
  <2>3. mpc' = "add" => mpc = "add" /\ mpid' = mpid
    BY <1>4
  <2>4. mpc = "add" => mpc' = "add"
    BY <1>4
  <2>5. mpc' # "noSuchJob"
    BY <1>4 DEF Up
  <2> QED
    BY <1>1, <1>3, <1>4, <1>8, <1>11, <2>1, <2>2, <2>3, <2>4, <2>5 DEF BasicInv, ChildInv
<1> QED
  BY <1>4, <1>7, <1>9, <1>10, <1>11, <1>12, <1>13 DEF BasicInv

-----------------------------------------------------------------------------
\* main forks a child: an unused pid is in no slot of the table.
LEMMA EvalKeeps ==
    ASSUME BasicInv, Eval
    PROVE  BasicInv'
<1>1. /\ Up /\ stack = <<>> /\ Frames = {} /\ mpc = "prompt"
      /\ \A s \in Slots : jobs[s].pid # NoPid => proc[jobs[s].pid] # "none"
  BY MainAlone DEF Eval
<1> DEFINE p == CHOOSE q \in Pids : proc[q] = "none"
<1>2. p \in Pids /\ proc[p] = "none"
  BY DEF Eval, ForkChild
<1>3. /\ mpid' = p /\ proc' = [proc EXCEPT ![p] = "forked"]
      /\ mpc' = "add" /\ chldBlocked' = TRUE /\ background' \in BOOLEAN
      /\ UNCHANGED <<jobs, nextjid, flag, stack, pending, news, refused>>
  BY DEF Eval, ForkChild, tableVars
<1> HIDE DEF p
<1>4. StackInv' /\ Frames' = {}
  BY <1>1, <1>3, SameFrames DEF BasicInv
<1>5. /\ proc' \in [Pids -> ProcState] /\ proc'[p] = "forked"
      /\ \A q \in Pids : q # p => proc'[q] = proc[q]
  BY <1>2, <1>3 DEF BasicInv, TypeInv, ProcState
<1>6. TypeInv'
  BY <1>1, <1>2, <1>3, <1>5 DEF BasicInv, TypeInv, MainPC
<1>7. FrameInv' /\ BlockedInv'
  BY <1>3, <1>4 DEF FrameInv, BlockedInv
<1>8. NewsInv'
  <2>1. ~ChldRuns
    BY <1>1 DEF ChldRuns
  <2>2. \A q \in news : q \in Pids /\ q # p
    BY <1>2 DEF BasicInv, TypeInv, NewsInv
  <2>3. \A q \in Pids : proc'[q] = "zombie" => proc[q] = "zombie"
    BY <1>5
  <2> QED
    BY <1>1, <1>3, <1>5, <2>1, <2>2, <2>3 DEF BasicInv, NewsInv
<1>9. ChildInv'
  <2>1. Listed' = Listed
    BY <1>3 DEF Listed
  <2>2. p \notin Listed
    BY <1>1, <1>2, ListedFacts
  <2>3. \A s \in Slots : jobs[s].pid # NoPid => jobs[s].pid \in Pids
    BY JobFacts DEF BasicInv
  <2>4. Up' /\ mpc' # "noSuchJob"
    BY <1>3 DEF Up
  <2>5. \A s \in Slots : jobs[s].pid # NoPid => proc'[jobs[s].pid] # "none"
    BY <1>1, <1>5, <2>3
  <2>6. \A q \in Pids : proc'[q] # "none" => q \in Listed \cup refused \/ q = p
    BY <1>1, <1>5 DEF BasicInv, ChildInv
  <2> QED
    BY <1>2, <1>3, <1>5, <2>1, <2>2, <2>4, <2>5, <2>6 DEF BasicInv, ChildInv
<1> QED
  BY <1>4, <1>6, <1>7, <1>8, <1>9 DEF BasicInv

\* addjob fills the first free slot; nothing else of the table changes.
LEMMA Added ==
    ASSUME TypeInv, NEW p \in Pids, NEW state \in {"FG", "BG"}, FreeSlots # {},
           nextjid <= MaxJid, addjob(p, state)
    PROVE  /\ jobs' \in [Slots -> Job] /\ nextjid' \in 1..MaxJid+1
           /\ Min(FreeSlots) \in Slots /\ jobs[Min(FreeSlots)].pid = NoPid
           /\ jobs'[Min(FreeSlots)].pid = p /\ jobs'[Min(FreeSlots)].state = state
           /\ \A s \in Slots : s # Min(FreeSlots) => jobs'[s] = jobs[s]
<1> DEFINE d == Min(FreeSlots)
           j == [pid |-> p, jid |-> nextjid, state |-> state]
<1>1. d \in Slots /\ jobs[d].pid = NoPid
  <2>1. FreeSlots \in SUBSET Nat
    BY ShellAssumption DEF FreeSlots, Slots
  <2>2. d \in FreeSlots
    BY <2>1, MinIn
  <2> QED
    BY <2>2 DEF FreeSlots
<1>2. /\ jobs' = [jobs EXCEPT ![d] = j]
      /\ nextjid' = IF nextjid + 1 > MAXJOBS THEN 1 ELSE nextjid + 1
  BY DEF addjob
<1>3. j \in Job /\ nextjid' \in 1..MaxJid+1
  BY <1>2, ShellAssumption DEF TypeInv, Job
<1>4. j.pid = p /\ j.state = state
  OBVIOUS
<1> HIDE DEF d, j
<1>5. jobs' \in [Slots -> Job] /\ jobs'[d] = j /\ \A s \in Slots : s # d => jobs'[s] = jobs[s]
  BY <1>1, <1>2, <1>3 DEF TypeInv
<1> QED
  BY <1>1, <1>3, <1>4, <1>5 DEF d

\* addjob: the child enters the table, or is refused.
LEMMA AddJobKeeps ==
    ASSUME BasicInv, AddJob
    PROVE  BasicInv'
<1>1. /\ Up /\ stack = <<>> /\ Frames = {} /\ mpc = "add"
      /\ \A s \in Slots : jobs[s].pid # NoPid => proc[jobs[s].pid] # "none"
  BY MainAlone DEF AddJob
<1>2. mpid \in Pids /\ mpid \notin Listed /\ proc[mpid] # "none" /\ chldBlocked = TRUE
  BY <1>1 DEF BasicInv, ChildInv, BlockedInv, TypeInv
<1>3. /\ nextjid <= MaxJid /\ addjob(mpid, IF background THEN "BG" ELSE "FG")
      /\ refused' = IF FreeSlots = {} THEN refused \cup {mpid} ELSE refused
      /\ flag' \in BOOLEAN /\ background' = FALSE
      /\ mpc' \in {"prompt", "wait"} /\ mpid' \in {NoPid, mpid}
      /\ UNCHANGED <<chldBlocked, stack, pending, proc, news>>
  BY DEF AddJob, kernelVars, BasicInv, TypeInv
<1>4. StackInv' /\ Frames' = {}
  BY <1>1, <1>3, SameFrames DEF BasicInv
<1>5. FrameInv' /\ BlockedInv'
  BY <1>2, <1>3, <1>4 DEF FrameInv, BlockedInv
<1>6. NewsInv'
  BY <1>1, <1>3 DEF BasicInv, NewsInv, ChldRuns
<1>7. Up'
  BY <1>3 DEF Up
<1>8. CASE FreeSlots = {}
  <2>1. UNCHANGED <<jobs, nextjid>> /\ refused' = refused \cup {mpid} /\ Listed' = Listed
    BY <1>3, <1>8 DEF addjob, tableVars, Listed
  <2>2. TypeInv'
    BY <1>1, <1>2, <1>3, <2>1 DEF BasicInv, TypeInv, MainPC
  <2>3. ChildInv'
    BY <1>1, <1>3, <2>1 DEF BasicInv, ChildInv
  <2> QED
    BY <1>4, <1>5, <1>6, <2>2, <2>3 DEF BasicInv
<1>9. CASE FreeSlots # {}
  <2> DEFINE d == Min(FreeSlots)
  <2>1. PICK state \in {"FG", "BG"} : addjob(mpid, state)
    BY <1>3
  <2>2. /\ jobs' \in [Slots -> Job] /\ nextjid' \in 1..MaxJid+1
        /\ d \in Slots /\ jobs[d].pid = NoPid /\ jobs'[d].pid = mpid
        /\ \A s \in Slots : s # d => jobs'[s] = jobs[s]
    BY <1>2, <1>3, <1>9, <2>1, Added DEF BasicInv
  <2> HIDE DEF d
  <2>3. TypeInv'
    BY <1>1, <1>2, <1>3, <1>9, <2>2 DEF BasicInv, TypeInv, MainPC
  <2>4. \A q \in Listed : q \in Listed'
    BY <2>2, ListedFacts DEF Listed
  <2>5. mpid \in Listed'
    BY <1>2, <2>2, ShellAssumption DEF Listed
  <2>6. \A s \in Slots : jobs[s].pid # mpid
    BY <1>2, ListedFacts, ShellAssumption
  <2>7. \A s, u \in Slots : jobs'[s].pid = jobs'[u].pid /\ jobs'[s].pid # NoPid => s = u
    <3> SUFFICES ASSUME NEW s \in Slots, NEW u \in Slots,
                        jobs'[s].pid = jobs'[u].pid, jobs'[s].pid # NoPid
                 PROVE  s = u
      OBVIOUS
    <3>1. s = d => u = d
      BY <2>2, <2>6
    <3>2. u = d => s = d
      BY <2>2, <2>6
    <3> QED
      BY <2>2, <3>1, <3>2 DEF BasicInv, ChildInv
  <2>8. \A s \in Slots : jobs'[s].pid # NoPid => proc[jobs'[s].pid] # "none"
    BY <1>1, <1>2, <2>2
  <2>9. \A q \in Pids : proc[q] # "none" => q \in Listed' \cup refused
    BY <1>1, <2>4, <2>5 DEF BasicInv, ChildInv
  <2>10. ChildInv'
    BY <1>3, <1>9, <2>7, <2>8, <2>9 DEF ChildInv
  <2> QED
    BY <1>4, <1>5, <1>6, <2>3, <2>10 DEF BasicInv
<1> QED
  BY <1>8, <1>9

\* The loop of waitfg, and quit: only main's own place changes.
LEMMA MainMovesKeeps ==
    ASSUME BasicInv, TestFlag \/ Quit
    PROVE  BasicInv'
<1>1. /\ Up /\ stack = <<>> /\ Frames = {} /\ mpc \in {"wait", "prompt"}
      /\ \A s \in Slots : jobs[s].pid # NoPid => proc[jobs[s].pid] # "none"
  BY MainAlone DEF TestFlag, Quit
<1>2. /\ UNCHANGED <<jobs, nextjid, flag, background, chldBlocked, stack, pending, proc, news, refused>>
      /\ mpid' \in {NoPid, mpid}
      /\ (mpc = "wait" /\ mpc' \in {"prompt", "suspend"}) \/ (mpc = "prompt" /\ mpc' = "quit")
  BY DEF TestFlag, Quit, tableVars, kernelVars, MainAt
<1>3. StackInv' /\ Frames' = {} /\ Listed' = Listed
  BY <1>1, <1>2, SameFrames DEF BasicInv, Listed
<1>4. TypeInv'
  BY <1>1, <1>2 DEF BasicInv, TypeInv, MainPC
<1>5. FrameInv'
  BY <1>3 DEF FrameInv
<1>6. BlockedInv'
  BY <1>1, <1>2 DEF BasicInv, BlockedInv
<1>7. NewsInv'
  BY <1>1, <1>2 DEF BasicInv, NewsInv, ChldRuns
<1>8. ChildInv'
  BY <1>1, <1>2, <1>3 DEF BasicInv, ChildInv
<1> QED
  BY <1>3, <1>4, <1>5, <1>6, <1>7, <1>8 DEF BasicInv

\* SIGCONT: a stopped process goes on, and its stop is no news any more.
LEMMA Continued ==
    ASSUME TypeInv, NewsInv, NEW p \in Pids, Continue(p)
    PROVE  /\ proc' \in [Pids -> ProcState]
           /\ \A q \in Pids : /\ q # p => proc'[q] = proc[q]
                              /\ proc'[q] \in {"none", "zombie"} <=> proc[q] \in {"none", "zombie"}
                              /\ proc'[q] = "none" <=> proc[q] = "none"
                              /\ proc'[q] = "stopped" <=> proc[q] = "stopped" /\ q # p
           /\ news' \subseteq news /\ \A q \in news : q # p => q \in news'
           /\ \A q \in news' : proc'[q] = "stopped"
           /\ pending' \subseteq Signals /\ pending \subseteq pending'
           /\ "CHLD" \in pending' \/ UNCHANGED <<pending, proc, news>>
<1>1. CASE proc[p] # "stopped"
  BY <1>1 DEF Continue, kernelVars, TypeInv, NewsInv
<1>2. CASE proc[p] = "stopped"
  <2>1. /\ proc' = [proc EXCEPT ![p] = "running"] /\ news' = news \ {p}
        /\ pending' = pending \cup {"CHLD"}
    BY <1>2 DEF Continue
  <2>2. /\ proc' \in [Pids -> ProcState] /\ proc'[p] = "running"
        /\ \A q \in Pids : q # p => proc'[q] = proc[q]
    BY <2>1 DEF TypeInv, ProcState
  <2> QED
    BY <1>2, <2>1, <2>2 DEF TypeInv, NewsInv, Signals
<1> QED
  BY <1>1, <1>2

\* bg and fg, by number or by pid: one job changes state, and its process may
\* be continued.
LEMMA BgFgKeeps ==
    ASSUME BasicInv, NEW s \in Slots,
           \/ BgByJid(s) \/ FgByJid(s) \/ BgFgByPid(s, "BG") \/ BgFgByPid(s, "FG")
    PROVE  BasicInv'
<1> DEFINE p == jobs[s].pid
<1>1. /\ Up /\ stack = <<>> /\ Frames = {} /\ mpc = "prompt"
      /\ \A u \in Slots : jobs[u].pid # NoPid => proc[jobs[u].pid] # "none"
  BY MainAlone DEF BgByJid, FgByJid, ByJid, BgFgByPid
<1>2. p # NoPid /\ p \in Pids /\ chldBlocked = TRUE
  <2>1. p # NoPid
    BY DEF BgByJid, FgByJid, ByJid, BgFgByPid
  <2> QED
    BY <2>1, JobFacts DEF BasicInv, BlockedInv, TypeInv, NoJob
<1>3. /\ UNCHANGED <<nextjid, background, chldBlocked, stack, refused>>
      /\ flag' \in BOOLEAN
      /\ (mpc' = "prompt" /\ mpid' = mpid) \/ (mpc' = "wait" /\ mpid' = p)
      /\ \/ jobs' = [jobs EXCEPT ![s].state = "FG"]
         \/ jobs' = [jobs EXCEPT ![s].state = "BG"]
      /\ Continue(p) \/ UNCHANGED <<pending, proc, news>>
  <2>1. CASE BgByJid(s)
    <3>1. UNCHANGED <<flag, mpc, mpid, background, chldBlocked>> /\ flag' \in BOOLEAN
      BY <2>1 DEF BgByJid, mainVars, BasicInv, TypeInv
    <3>2. UNCHANGED <<nextjid, stack, refused>>
      BY <2>1 DEF BgByJid
    <3>3. jobs' = [jobs EXCEPT ![s].state = "BG"] /\ Continue(p)
      BY <2>1, Zenon DEF BgByJid
    <3> QED
      BY <1>1, <3>1, <3>2, <3>3
  <2>2. CASE FgByJid(s)
    BY <1>1, <2>2 DEF FgByJid
  <2>3. CASE BgFgByPid(s, "BG")
    <3>1. UNCHANGED <<mpc, mpid, background, chldBlocked, pending, proc, news>> /\ flag' \in BOOLEAN
      BY <2>3 DEF BgFgByPid, mainVars, kernelVars, BasicInv, TypeInv
    <3>2. UNCHANGED <<nextjid, stack, refused>>
      BY <2>3 DEF BgFgByPid
    <3>3. jobs' = [jobs EXCEPT ![s].state = "BG"]
      BY <2>3, Zenon DEF BgFgByPid
    <3> QED
      BY <1>1, <3>1, <3>2, <3>3
  <2>4. CASE BgFgByPid(s, "FG")
    <3>1. UNCHANGED <<mpc, mpid, background, chldBlocked, pending, proc, news>> /\ flag' \in BOOLEAN
      BY <2>4 DEF BgFgByPid, mainVars, kernelVars, BasicInv, TypeInv
    <3>2. UNCHANGED <<nextjid, stack, refused>>
      BY <2>4 DEF BgFgByPid
    <3>3. jobs' = [jobs EXCEPT ![s].state = "FG"]
      BY <2>4, Zenon DEF BgFgByPid
    <3> QED
      BY <1>1, <3>1, <3>2, <3>3
  <2> QED
    BY <2>1, <2>2, <2>3, <2>4
<1>4. /\ jobs' \in [Slots -> Job]
      /\ \A u \in Slots : jobs'[u].pid = jobs[u].pid
      /\ Listed' = Listed
  BY <1>2, <1>3, StateOnly DEF BasicInv
<1>5. /\ proc' \in [Pids -> ProcState]
      /\ \A q \in Pids : /\ proc'[q] \in {"none", "zombie"} <=> proc[q] \in {"none", "zombie"}
                         /\ proc'[q] = "none" <=> proc[q] = "none"
      /\ news' \subseteq news
      /\ \A q \in news' : proc'[q] = "stopped"
      /\ pending' \subseteq Signals
      /\ "CHLD" \in pending' \/ UNCHANGED <<pending, proc, news>>
  <2>1. CASE Continue(p)
    BY <1>2, <2>1, Continued DEF BasicInv
  <2>2. CASE UNCHANGED <<pending, proc, news>>
    BY <2>2 DEF BasicInv, TypeInv, NewsInv
  <2> QED
    BY <1>3, <2>1, <2>2
<1>6. StackInv' /\ Frames' = {} /\ Up'
  BY <1>1, <1>3, SameFrames DEF BasicInv, Up
<1>7. TypeInv'
  BY <1>1, <1>2, <1>3, <1>4, <1>5 DEF BasicInv, TypeInv, MainPC
<1>8. FrameInv' /\ BlockedInv'
  BY <1>2, <1>3, <1>6 DEF FrameInv, BlockedInv
<1>9. NewsInv'
  <2>1. "CHLD" \in pending' \/ (news' = {} /\ \A q \in Pids : proc'[q] # "zombie")
    <3>1. CASE "CHLD" \in pending'
      BY <3>1
    <3>2. CASE UNCHANGED <<pending, proc, news>>
      BY <1>1, <3>2 DEF BasicInv, NewsInv, ChldRuns
    <3> QED
      BY <1>5, <3>1, <3>2
  <2> QED
    BY <1>5, <2>1 DEF NewsInv
<1>10. ChildInv'
  <2>1. \A u \in Slots : jobs[u].pid # NoPid => jobs[u].pid \in Pids
    BY JobFacts DEF BasicInv
  <2> QED
    BY <1>1, <1>3, <1>4, <1>5, <2>1 DEF BasicInv, ChildInv
<1> QED
  BY <1>6, <1>7, <1>8, <1>9, <1>10 DEF BasicInv

-----------------------------------------------------------------------------
\* A process calls execve, ends, or stops: the kernel tells the shell, if it
\* has to, in the same step.
LEMMA ProcessKeeps ==
    ASSUME BasicInv, NEW p \in Pids, Exec(p) \/ Ends(p) \/ Stops(p)
    PROVE  BasicInv'
<1>1. /\ UNCHANGED <<jobs, nextjid, flag, mpc, mpid, background, chldBlocked, stack, refused>>
      /\ Up /\ proc[p] # "none"
      /\ \/ proc[p] = "forked" /\ proc' = [proc EXCEPT ![p] = "running"] /\ UNCHANGED <<pending, news>>
         \/ /\ proc' = [proc EXCEPT ![p] = "zombie"] /\ news' = news \ {p}
            /\ pending' = pending \cup {"CHLD"}
         \/ /\ proc[p] = "running" /\ proc' = [proc EXCEPT ![p] = "stopped"]
            /\ news' = news \cup {p} /\ pending' = pending \cup {"CHLD"}
  BY DEF Exec, Ends, Stops, tableVars, mainVars
<1>2. /\ proc' \in [Pids -> ProcState]
      /\ \A q \in Pids : q # p => proc'[q] = proc[q]
      /\ \/ proc[p] = "forked" /\ proc'[p] = "running" /\ UNCHANGED <<pending, news>>
         \/ proc'[p] = "zombie" /\ news' = news \ {p} /\ pending' = pending \cup {"CHLD"}
         \/ /\ proc[p] = "running" /\ proc'[p] = "stopped"
            /\ news' = news \cup {p} /\ pending' = pending \cup {"CHLD"}
  BY <1>1 DEF BasicInv, TypeInv, ProcState
<1>3. StackInv' /\ Frames' = Frames /\ Listed' = Listed
  BY <1>1, SameFrames DEF BasicInv, Listed
<1>4. chldBlocked = TRUE
  BY <1>1 DEF BasicInv, BlockedInv, TypeInv
<1>5. TypeInv'
  BY <1>1, <1>2 DEF BasicInv, TypeInv, Up, Signals
<1>6. FrameInv'
  <2>1. \A q \in Pids : /\ proc[q] = "none" => proc'[q] = "none"
                        /\ proc[q] \in {"stopped", "zombie"} => proc'[q] \in {"stopped", "zombie"}
    BY <1>1, <1>2
  <2> QED
    BY <1>1, <1>3, <2>1 DEF BasicInv, FrameInv
<1>7. BlockedInv'
  BY <1>1, <1>4 DEF BlockedInv
<1>8. NewsInv'
  <2>1. \A q \in news' : proc'[q] = "stopped"
    BY <1>2 DEF BasicInv, NewsInv, TypeInv
  <2>2. ChldRuns' <=> ChldRuns
    BY <1>3 DEF ChldRuns
  <2>3. "CHLD" \in pending' \/ (UNCHANGED <<pending, news>> /\ \A q \in Pids : proc'[q] = "zombie" => proc[q] = "zombie")
    BY <1>2
  <2> QED
    BY <1>1, <2>1, <2>2, <2>3 DEF BasicInv, NewsInv
<1>9. ChildInv'
  <2>1. \A q \in Pids : proc'[q] = "none" <=> proc[q] = "none"
    BY <1>1, <1>2
  <2>2. \A s \in Slots : jobs[s].pid # NoPid => jobs[s].pid \in Pids
    BY JobFacts DEF BasicInv
  <2> QED
    BY <1>1, <1>3, <2>1, <2>2 DEF BasicInv, ChildInv, Up
<1> QED
  BY <1>3, <1>5, <1>6, <1>7, <1>8, <1>9 DEF BasicInv

\* Every step of the shell, with fg and bg by number or by pid.
LEMMA BasicStep ==
    ASSUME BasicInv, [Next]_vars
    PROVE  BasicInv'
<1>1. ASSUME NEW sig \in Signals, Deliver(sig) \/ Type(sig) PROVE BasicInv'
  BY <1>1, DeliverKeeps, TypeKeeps
<1>2. CASE ChildStep
  BY <1>2, ReapDeadKeeps, ReapStoppedKeeps, NothingToReapKeeps, ExitKeeps, RecordDeadKeeps,
     RecordStoppedKeeps DEF ChildStep
<1>3. CASE KeyStep
  BY <1>3, FindForegroundKeeps, SendSignalKeeps, ExitKeeps DEF KeyStep
<1>4. CASE Eval \/ CommandStep \/ Quit
  BY <1>4, EvalKeeps, AddJobKeeps, MainMovesKeeps DEF CommandStep
<1>5. ASSUME NEW s \in Slots,
             BgByJid(s) \/ FgByJid(s) \/ BgFgByPid(s, "BG") \/ BgFgByPid(s, "FG")
      PROVE  BasicInv'
  BY <1>5, BgFgKeeps
<1>6. ASSUME NEW p \in Pids, Exec(p) \/ Ends(p) \/ Stops(p) PROVE BasicInv'
  BY <1>6, ProcessKeeps
<1>7. CASE UNCHANGED vars
  <2>1. UNCHANGED <<jobs, nextjid, flag, mpc, mpid, background, chldBlocked, stack, pending, proc,
                    news, refused>>
    BY <1>7 DEF vars, tableVars, mainVars, kernelVars
  <2>2. StackInv' /\ Frames' = Frames /\ Listed' = Listed
    BY <2>1, SameFrames DEF BasicInv, Listed
  <2> QED
    BY <2>1, <2>2 DEF BasicInv, TypeInv, Up, FrameInv, BlockedInv, NewsInv, ChldRuns, ChildInv
<1> QED
  BY <1>1, <1>2, <1>3, <1>4, <1>5, <1>6, <1>7 DEF Next, NextByJid

\* The shell starts with an empty table and no child.
LEMMA BasicInit ==
    Init => BasicInv
<1> SUFFICES ASSUME Init PROVE BasicInv
  OBVIOUS
<1>1. stack = <<>> /\ 1..Len(stack) = {}
  BY EmptySeq DEF Init
<1>2. StackInv /\ Frames = {}
  BY <1>1 DEF StackInv, Frames
<1>3. \A s \in Slots : jobs[s] = NoJob /\ jobs[s].pid = NoPid
  BY DEF Init, NoJob
<1>4. TypeInv
  <2>1. NoJob \in Job /\ "prompt" \in MainPC /\ "none" \in ProcState /\ 1 \in 1..MaxJid+1
    BY ShellAssumption DEF Job, MainPC, ProcState
  <2>2. jobs \in [Slots -> Job] /\ proc \in [Pids -> ProcState]
    BY <2>1 DEF Init
  <2> QED
    BY <2>1, <2>2 DEF Init, TypeInv, Up
<1> QED
  BY <1>2, <1>3, <1>4 DEF Init, BasicInv, FrameInv, BlockedInv, NewsInv, ChildInv

\* At every moment of the shell, with jobs named by number or by pid, BasicInv
\* holds: the table, the stack of handlers, the signals and the processes fit
\* together (tsh.c, eval, waitfg, do_bgfg, the handlers and the job table).
THEOREM BasicInvariant ==
    Spec => []BasicInv
<1>1. BasicInv /\ [Next]_vars => BasicInv'
  BY BasicStep
<1> QED
  BY <1>1, BasicInit, PTL DEF Spec

\* No child is forgotten: every child is in the table, in one slot, unless main
\* is about to add it or addjob had no room for it; and only then can
\* sigchld_handler meet a child that is no job.
THEOREM NoChildForgotten ==
    Spec => []ChildrenKnown
<1>1. BasicInv => ChildrenKnown
  <2> SUFFICES ASSUME BasicInv PROVE ChildrenKnown
    OBVIOUS
  <2>1. Up => Children \subseteq Listed \cup refused \cup (IF mpc = "add" THEN {mpid} ELSE {})
    BY DEF BasicInv, ChildInv, Children
  <2> QED
    BY <2>1 DEF BasicInv, ChildInv, ChildrenKnown
<1> QED
  BY <1>1, BasicInvariant, PTL

-----------------------------------------------------------------------------
\* Steps that leave the table, the processes and their news alone, and lose no
\* frame of the handler of SIGCHLD.
LEMMA StateKept ==
    ASSUME BasicInv, StateInv, UNCHANGED <<jobs, proc, news>>, Up,
           \A f \in Frames : f.sig = "CHLD" => f \in Frames',
           mpc' = "add" => mpc = "add" /\ mpid' = mpid
    PROVE  StateInv'
<1>1. \A f \in Frames : f.at = "stopped" => f \in Frames'
  BY DEF BasicInv, FrameInv
<1> QED
  BY <1>1 DEF StateInv

\* The steps of the handler of SIGCHLD: the news of a stop goes from the kernel
\* to the frame, and from the frame to the table.
LEMMA ChildState ==
    ASSUME BasicInv, StateInv, ChildStep
    PROVE  StateInv'
<1> DEFINE h == Head(stack)
<1>1. CASE ReapDead
  <2>1. /\ Up /\ h \in Frames /\ h.sig = "CHLD" /\ h.at = "start"
        /\ \A f \in Frames : f # h => f.sig # "CHLD"
    BY <1>1, Innermost DEF ReapDead
  <2>2. \A f \in Frames : f.at # "stopped"
    BY <2>1 DEF BasicInv, FrameInv
  <2>3. PICK p \in Pids : proc[p] = "zombie" /\ proc' = [proc EXCEPT ![p] = "none"]
    BY <1>1 DEF ReapDead
  <2>4. \A q \in Pids : /\ q # p => proc'[q] = proc[q]
                        /\ q = p => proc'[q] = "none"
    BY <2>3 DEF BasicInv, TypeInv
  <2>5. UNCHANGED <<jobs, news, mpc, mpid>> /\ mpc = "suspend"
    BY <1>1, <2>1 DEF ReapDead, tableVars, mainVars, BasicInv, FrameInv
  <2>6. \A s \in Slots : jobs[s].pid # NoPid => jobs[s].pid \in Pids
    BY JobFacts DEF BasicInv
  <2> QED
    BY <2>1, <2>2, <2>4, <2>5, <2>6 DEF StateInv
<1>2. CASE ReapStopped
  <2>1. /\ Up /\ h \in Frames /\ h.sig = "CHLD" /\ h.at = "start"
        /\ \A f \in Frames : f # h => f.sig # "CHLD"
    BY <1>2, Innermost DEF ReapStopped
  <2>2. \A f \in Frames : f.at # "stopped"
    BY <2>1 DEF BasicInv, FrameInv
  <2>3. PICK g \in Frames' : g.at = "stopped" /\ news' = news \ {g.pid}
    BY <1>2, ReapStoppedKeeps
  <2>4. UNCHANGED <<jobs, proc, mpc, mpid>> /\ mpc = "suspend"
    BY <1>2, <2>1 DEF ReapStopped, tableVars, mainVars, BasicInv, FrameInv
  <2>5. ASSUME NEW s \in Slots, jobs[s].pid # NoPid, proc[jobs[s].pid] = "stopped",
               jobs[s].state # "ST"
        PROVE  jobs[s].pid \in news' \/ \E f \in Frames' : f.at = "stopped" /\ f.pid = jobs[s].pid
    BY <2>1, <2>2, <2>3, <2>5 DEF StateInv
  <2> QED
    BY <2>1, <2>4, <2>5 DEF StateInv
<1>3. CASE NothingToReap
  <2>1. /\ Up /\ stack # <<>> /\ h \in Frames /\ h.sig = "CHLD" /\ h.at = "start"
        /\ \A f \in Frames : f # h => f.sig # "CHLD"
    BY <1>3, Innermost DEF NothingToReap
  <2>2. \A f \in Frames : f.at # "stopped"
    BY <2>1 DEF BasicInv, FrameInv
  <2>3. UNCHANGED <<jobs, proc, news>>
    BY <1>3 DEF NothingToReap, tableVars, kernelVars
  <2>4. mpc' # "add"
    BY <1>3, <2>1, Returns DEF NothingToReap, BasicInv, FrameInv
  <2> QED
    BY <2>1, <2>2, <2>3, <2>4 DEF StateInv
<1>4. CASE UnknownChild
  BY <1>4 DEF UnknownChild, Exits, StateInv, Up
<1>5. CASE RecordDead
  <2>1. /\ Up /\ h \in Frames /\ h.sig = "CHLD" /\ h.at = "dead"
        /\ \A f \in Frames : f # h => f.sig # "CHLD"
    BY <1>5, Innermost DEF RecordDead
  <2>2. \A f \in Frames : f.at # "stopped"
    BY <2>1 DEF BasicInv, FrameInv
  <2>3. UNCHANGED <<proc, news, mpc, mpid>> /\ mpc = "suspend"
    BY <1>5, <2>1 DEF RecordDead, kernelVars, mainVars, BasicInv, FrameInv
  <2>4. jobs' = [jobs EXCEPT ![SlotOf(h.pid)] = NoJob]
    BY <1>5 DEF RecordDead, deletejob
  <2>5. \A s \in Slots : jobs'[s] = jobs[s] \/ jobs'[s] = NoJob
    BY <2>4 DEF BasicInv, TypeInv
  <2>6. NoJob.pid = NoPid
    BY DEF NoJob
  <2>7. ASSUME NEW s \in Slots, jobs'[s].pid # NoPid
        PROVE  jobs'[s] = jobs[s] /\ jobs[s].pid # NoPid
    BY <2>5, <2>6, <2>7
  <2> QED
    BY <2>1, <2>2, <2>3, <2>7 DEF StateInv
<1>6. CASE RecordStopped
  <2> DEFINE p == h.pid
             d == SlotOf(p)
  <2>1. /\ Up /\ h \in Frames /\ h.sig = "CHLD" /\ h.at = "stopped"
        /\ \A f \in Frames : f # h => f.sig # "CHLD"
    BY <1>6, Innermost DEF RecordStopped
  <2>2. /\ UNCHANGED <<proc, news, mpc, mpid>> /\ mpc = "suspend"
        /\ p \in Pids /\ proc[p] \in {"stopped", "zombie"}
        /\ jobs' = [jobs EXCEPT ![d].state = "ST"]
    BY <1>6, <2>1 DEF RecordStopped, kernelVars, mainVars, BasicInv, FrameInv
  <2>3. /\ d \in Slots /\ jobs[d].pid = p /\ p # NoPid
        /\ \A s \in Slots : jobs[s].pid = p => s = d
    BY <1>6, <2>2, SlotOfChild, ShellAssumption DEF RecordStopped
  <2> HIDE DEF d
  <2>4. \A s \in Slots : /\ jobs'[s].pid = jobs[s].pid
                         /\ s # d => jobs'[s] = jobs[s]
                         /\ s = d => jobs'[s].state = "ST"
    BY <2>2, <2>3, StateOnly DEF BasicInv
  <2>5. \A f \in Frames : f.at = "stopped" => f.pid = p
    BY <2>1 DEF BasicInv, FrameInv
  <2>6. ASSUME NEW s \in Slots, jobs'[s].pid # NoPid
        PROVE  /\ jobs'[s].state = "ST" => proc[jobs'[s].pid] \in {"stopped", "zombie", "none"}
               /\ proc[jobs'[s].pid] = "stopped" => jobs'[s].state = "ST" \/ jobs'[s].pid \in news
    <3>1. CASE s = d
      BY <2>2, <2>3, <2>4, <3>1
    <3>2. CASE s # d
      <4>1. jobs'[s] = jobs[s] /\ jobs[s].pid # p /\ jobs[s].pid # NoPid
        BY <2>3, <2>4, <2>6, <3>2
      <4> QED
        BY <2>1, <2>5, <4>1 DEF StateInv
    <3> QED
      BY <3>1, <3>2
  <2> QED
    BY <2>2, <2>6 DEF StateInv
<1> QED
  BY <1>1, <1>2, <1>3, <1>4, <1>5, <1>6 DEF ChildStep

\* A process that runs and is made to stop leaves news behind; no process that
\* is ST runs again in these steps.
LEMMA ProcessState ==
    ASSUME BasicInv, StateInv, NEW p \in Pids, UNCHANGED jobs, Up,
           \A f \in Frames : f.sig = "CHLD" => f \in Frames',
           mpc' = "add" => mpc = "add" /\ mpid' = mpid,
           \A q \in Pids : q # p => (proc'[q] = proc[q] /\ (q \in news <=> q \in news')),
           \/ proc[p] = "forked" /\ proc'[p] = "running"
           \/ proc'[p] = "zombie"
           \/ proc[p] = "running" /\ proc'[p] = "stopped" /\ p \in news'
    PROVE  StateInv'
<1>1. \A f \in Frames : f.at = "stopped" => f \in Frames'
  BY DEF BasicInv, FrameInv
<1>2. \A s \in Slots : jobs[s].pid # NoPid => jobs[s].pid \in Pids
  BY JobFacts DEF BasicInv
<1>3. ASSUME NEW s \in Slots, jobs[s].pid # NoPid
      PROVE  /\ jobs[s].state = "ST" => proc'[jobs[s].pid] \in {"stopped", "zombie", "none"}
             /\ proc'[jobs[s].pid] = "stopped" =>
                    \/ jobs[s].state = "ST" \/ jobs[s].pid \in news'
                    \/ \E f \in Frames' : f.at = "stopped" /\ f.pid = jobs[s].pid
  <2>1. CASE jobs[s].pid = p
    BY <1>2, <1>3, <2>1 DEF StateInv
  <2>2. CASE jobs[s].pid # p
    BY <1>1, <1>2, <1>3, <2>2 DEF StateInv
  <2> QED
    BY <2>1, <2>2
<1>4. mpc' = "add" /\ proc'[mpid'] = "stopped" => mpid' \in news'
  <2> SUFFICES ASSUME mpc' = "add", proc'[mpid'] = "stopped" PROVE mpid' \in news'
    OBVIOUS
  <2>1. mpid' = mpid /\ mpid \in Pids
    BY DEF BasicInv, ChildInv
  <2> QED
    BY <2>1 DEF StateInv
<1> QED
  BY <1>3, <1>4 DEF StateInv

\* The table and the processes agree on who has stopped, at every step.
LEMMA StateStep ==
    ASSUME BasicInv, StateInv, [NextByJid]_vars
    PROVE  StateInv'
<1>1. ASSUME NEW sig \in Signals, Deliver(sig) \/ Type(sig) PROVE StateInv'
  <2>1. UNCHANGED <<jobs, proc, news, mpc, mpid>> /\ Up
    BY <1>1 DEF Deliver, Type, tableVars, mainVars, kernelVars
  <2>2. Frames \subseteq Frames'
    BY <1>1, DeliverKeeps, SameFrames DEF Type, BasicInv
  <2> QED
    BY <2>1, <2>2, StateKept
<1>2. CASE ChildStep
  BY <1>2, ChildState
<1>3. CASE FindForeground
  <2>1. UNCHANGED <<jobs, proc, news>> /\ Up /\ stack # <<>>
    BY <1>3 DEF FindForeground, InHandler, tableVars, kernelVars
  <2>2. mpc' = "add" => mpc = "add" /\ mpid' = mpid
    BY <1>3, <2>1, Returns DEF FindForeground, mainVars
  <2> QED
    BY <1>3, <2>1, <2>2, FindForegroundKeeps, StateKept
<1>4. CASE SendSignal
  <2> DEFINE p == Head(stack).pid
  <2>1. /\ Up /\ stack # <<>> /\ p \in Pids /\ UNCHANGED jobs
    BY <1>4, Innermost DEF SendSignal, tableVars, BasicInv, FrameInv
  <2>2. mpc' = "add" => mpc = "add" /\ mpid' = mpid
    BY <1>4, <2>1, Returns DEF SendSignal
  <2>3. CASE UNCHANGED <<proc, news>>
    BY <1>4, <2>1, <2>2, <2>3, SendSignalKeeps, StateKept
  <2>4. CASE ~UNCHANGED <<proc, news>>
    <3>1. /\ proc[p] = "running"
          /\ \/ proc' = [proc EXCEPT ![p] = "zombie"] /\ news' = news
             \/ proc' = [proc EXCEPT ![p] = "stopped"] /\ news' = news \cup {p}
      BY <1>4, <2>4 DEF SendSignal, kernelVars
    <3>2. /\ \A q \in Pids : q # p => (proc'[q] = proc[q] /\ (q \in news <=> q \in news'))
          /\ \/ proc'[p] = "zombie"
             \/ proc'[p] = "stopped" /\ p \in news'
      BY <2>1, <3>1 DEF BasicInv, TypeInv
    <3> QED
      BY <1>4, <2>1, <2>2, <3>1, <3>2, SendSignalKeeps, ProcessState
  <2> QED
    BY <2>3, <2>4
<1>5. CASE KillFails
  BY <1>5 DEF KillFails, Exits, StateInv, Up
<1>6. CASE Eval
  <2> DEFINE p == CHOOSE q \in Pids : proc[q] = "none"
  <2>1. /\ Up /\ Frames = {}
        /\ \A s \in Slots : jobs[s].pid # NoPid => jobs[s].pid \in Pids /\ proc[jobs[s].pid] # "none"
    BY <1>6, MainAlone, JobFacts DEF Eval, BasicInv
  <2>2. /\ p \in Pids /\ proc[p] = "none"
        /\ mpid' = p /\ proc' = [proc EXCEPT ![p] = "forked"]
        /\ UNCHANGED <<jobs, news>>
    BY <1>6 DEF Eval, ForkChild, tableVars
  <2> HIDE DEF p
  <2>3. proc'[p] = "forked" /\ \A q \in Pids : q # p => proc'[q] = proc[q]
    BY <2>2 DEF BasicInv, TypeInv
  <2>4. \A s \in Slots : jobs[s].pid # NoPid => proc'[jobs[s].pid] = proc[jobs[s].pid]
    BY <2>1, <2>2, <2>3
  <2> QED
    BY <2>1, <2>2, <2>3, <2>4 DEF StateInv
<1>7. CASE AddJob
  <2>1. /\ Up /\ Frames = {} /\ mpc = "add" /\ mpid \in Pids
    BY <1>7, MainAlone DEF AddJob, BasicInv, ChildInv
  <2>2. UNCHANGED <<proc, news>> /\ mpc' \in {"prompt", "wait"} /\ nextjid <= MaxJid
    BY <1>7 DEF AddJob, kernelVars
  <2>3. PICK state \in {"FG", "BG"} : addjob(mpid, state)
    BY <1>7 DEF AddJob
  <2>4. CASE FreeSlots = {}
    <3>1. UNCHANGED jobs
      BY <2>3, <2>4 DEF addjob, tableVars
    <3> QED
      BY <2>1, <2>2, <3>1 DEF StateInv
  <2>5. CASE FreeSlots # {}
    <3> DEFINE d == Min(FreeSlots)
    <3>1. /\ d \in Slots /\ jobs'[d].pid = mpid /\ jobs'[d].state # "ST"
          /\ \A s \in Slots : s # d => jobs'[s] = jobs[s]
      BY <2>1, <2>2, <2>3, <2>5, Added DEF BasicInv
    <3> HIDE DEF d
    <3>2. ASSUME NEW s \in Slots, jobs'[s].pid # NoPid
          PROVE  /\ jobs'[s].state = "ST" => proc[jobs'[s].pid] \in {"stopped", "zombie", "none"}
                 /\ proc[jobs'[s].pid] = "stopped" => jobs'[s].state = "ST" \/ jobs'[s].pid \in news
      <4>1. CASE s = d
        BY <2>1, <3>1, <4>1 DEF StateInv
      <4>2. CASE s # d
        BY <2>1, <3>1, <3>2, <4>2 DEF StateInv
      <4> QED
        BY <4>1, <4>2
    <3> QED
      BY <2>2, <3>2 DEF StateInv
  <2> QED
    BY <2>4, <2>5
<1>8. CASE TestFlag \/ Quit
  <2>1. UNCHANGED <<jobs, proc, news, stack>> /\ Up /\ mpc' # "add"
    BY <1>8 DEF TestFlag, Quit, MainAt, tableVars, kernelVars
  <2> QED
    BY <2>1, SameFrames, StateKept DEF BasicInv
<1>9. ASSUME NEW s \in Slots, BgByJid(s) \/ FgByJid(s) PROVE StateInv'
  <2> DEFINE p == jobs[s].pid
  <2>1. /\ Up /\ Frames = {} /\ p # NoPid
        /\ \A u \in Slots : jobs[u].pid # NoPid => jobs[u].pid \in Pids
    BY <1>9, MainAlone, JobFacts DEF BgByJid, FgByJid, ByJid, BasicInv
  <2>2. /\ Continue(p) /\ mpc' # "add"
        /\ \/ jobs' = [jobs EXCEPT ![s].state = "FG"]
           \/ jobs' = [jobs EXCEPT ![s].state = "BG"]
    BY <1>9, Zenon DEF BgByJid, FgByJid, ByJid, MainAt, mainVars
  <2>3. \A u \in Slots : /\ jobs'[u].pid = jobs[u].pid
                         /\ u # s => jobs'[u] = jobs[u]
                         /\ u = s => jobs'[u].state # "ST"
    BY <2>1, <2>2, StateOnly DEF BasicInv
  <2>4. /\ \A q \in Pids : /\ q # p => proc'[q] = proc[q]
                           /\ proc'[q] = "stopped" <=> proc[q] = "stopped" /\ q # p
        /\ \A q \in news : q # p => q \in news'
    BY <2>1, <2>2, Continued DEF BasicInv
  <2>5. ASSUME NEW u \in Slots, jobs'[u].pid # NoPid
        PROVE  /\ jobs'[u].state = "ST" => proc'[jobs'[u].pid] \in {"stopped", "zombie", "none"}
               /\ proc'[jobs'[u].pid] = "stopped" => jobs'[u].state = "ST" \/ jobs'[u].pid \in news'
    <3>1. CASE u = s
      BY <2>1, <2>3, <2>4, <3>1
    <3>2. CASE u # s
      <4>1. jobs'[u] = jobs[u] /\ jobs[u].pid \in Pids /\ jobs[u].pid # p
        BY <2>1, <2>3, <2>5, <3>2 DEF BasicInv, ChildInv
      <4> QED
        BY <2>1, <2>4, <2>5, <4>1 DEF StateInv
    <3> QED
      BY <3>1, <3>2
  <2> QED
    BY <2>2, <2>5 DEF StateInv
<1>10. ASSUME NEW p \in Pids, Exec(p) \/ Ends(p) \/ Stops(p) PROVE StateInv'
  <2>1. /\ UNCHANGED <<jobs, mpc, mpid, stack>> /\ Up
        /\ \/ proc[p] = "forked" /\ proc' = [proc EXCEPT ![p] = "running"] /\ news' = news
           \/ proc' = [proc EXCEPT ![p] = "zombie"] /\ news' = news \ {p}
           \/ /\ proc[p] = "running" /\ proc' = [proc EXCEPT ![p] = "stopped"]
              /\ news' = news \cup {p}
    BY <1>10 DEF Exec, Ends, Stops, tableVars, mainVars
  <2>2. /\ \A q \in Pids : q # p => (proc'[q] = proc[q] /\ (q \in news <=> q \in news'))
        /\ \/ proc[p] = "forked" /\ proc'[p] = "running"
           \/ proc'[p] = "zombie"
           \/ proc[p] = "running" /\ proc'[p] = "stopped" /\ p \in news'
    BY <2>1 DEF BasicInv, TypeInv
  <2>3. Frames' = Frames
    BY <2>1, SameFrames DEF BasicInv
  <2> QED
    BY <2>1, <2>2, <2>3, ProcessState
<1>11. CASE UNCHANGED vars
  <2>1. UNCHANGED <<jobs, proc, news, mpc, mpid, stack>>
    BY <1>11 DEF vars, tableVars, mainVars, kernelVars
  <2>2. Frames' = Frames
    BY <2>1, SameFrames DEF BasicInv
  <2> QED
    BY <2>1, <2>2 DEF StateInv, Up
<1> QED
  BY <1>1, <1>2, <1>3, <1>4, <1>5, <1>6, <1>7, <1>8, <1>9, <1>10, <1>11
     DEF NextByJid, KeyStep, CommandStep

-----------------------------------------------------------------------------
\* Steps that leave the table, the flag and the awaited pid alone, and do not
\* let main go on.
LEMMA ForegroundKept ==
    ASSUME ForegroundInv, UNCHANGED <<jobs, flag, mpid>>, Up, Waiting => Waiting'
    PROVE  ForegroundInv'
BY DEF ForegroundInv

\* The handler of SIGCHLD raises the flag for the foreground job, and in the
\* same step the job leaves the table or becomes ST.
LEMMA RecordForeground ==
    ASSUME BasicInv, ForegroundInv, RecordDead \/ RecordStopped
    PROVE  ForegroundInv'
<1> DEFINE p == Head(stack).pid
           d == SlotOf(p)
<1>1. Up /\ Head(stack) \in Frames /\ Head(stack).at \in {"dead", "stopped"}
  BY Innermost DEF RecordDead, RecordStopped
<1>2. p \in Pids
  BY <1>1 DEF BasicInv, FrameInv
<1>3. d \in Slots /\ jobs[d].pid = p /\ p # NoPid
  BY <1>2, SlotOfChild, ShellAssumption DEF RecordDead, RecordStopped
<1>4. /\ UNCHANGED <<mpc, mpid>> /\ flag' = (flag \/ p = fgpid)
      /\ \/ jobs' = [jobs EXCEPT ![d] = NoJob]
         \/ jobs' = [jobs EXCEPT ![d].state = "ST"]
  BY DEF RecordDead, RecordStopped, deletejob, mainVars
<1> HIDE DEF d
<1>5. /\ \A s \in Slots : s # d => jobs'[s] = jobs[s]
      /\ jobs'[d].state # "FG"
  <2>1. CASE jobs' = [jobs EXCEPT ![d] = NoJob]
    BY <1>3, <2>1 DEF BasicInv, TypeInv, NoJob
  <2>2. CASE jobs' = [jobs EXCEPT ![d].state = "ST"]
    BY <1>3, <2>2, StateOnly DEF BasicInv
  <2> QED
    BY <1>4, <2>1, <2>2
<1>6. ASSUME NEW s \in Slots, jobs'[s].state = "FG"
      PROVE  jobs[s].state = "FG" /\ jobs'[s] = jobs[s] /\ ~flag' /\ Waiting' /\ jobs[s].pid = mpid
  <2>1. s # d /\ jobs'[s] = jobs[s] /\ jobs[s].state = "FG"
    BY <1>5, <1>6
  <2>2. Waiting /\ jobs[s].pid = mpid /\ ~flag
    BY <1>1, <2>1 DEF ForegroundInv
  <2>3. fgpid = jobs[s].pid
    BY <2>1, ForegroundIs DEF ForegroundInv
  <2>4. jobs[s].pid # p
    BY <1>3, <2>1 DEF BasicInv, ChildInv
  <2> QED
    BY <1>4, <2>1, <2>2, <2>3, <2>4 DEF Waiting
<1>7. \A s, u \in Slots : jobs'[s].state = "FG" /\ jobs'[u].state = "FG" => s = u
  BY <1>6 DEF ForegroundInv
<1>8. \A s \in Slots : jobs'[s].state = "FG" => Waiting' /\ jobs'[s].pid = mpid' /\ ~flag'
  BY <1>4, <1>6
<1> QED
  BY <1>7, <1>8 DEF ForegroundInv

\* The job in the foreground is the one that main waits for, at every step.
LEMMA ForegroundStep ==
    ASSUME BasicInv, ForegroundInv, [NextByJid]_vars
    PROVE  ForegroundInv'
<1>1. ASSUME NEW sig \in Signals, Deliver(sig) \/ Type(sig) PROVE ForegroundInv'
  BY <1>1, ForegroundKept DEF Deliver, Type, tableVars, mainVars, Waiting
<1>2. CASE ReapDead \/ ReapStopped
  BY <1>2, ForegroundKept DEF ReapDead, ReapStopped, InHandler, tableVars, mainVars, Waiting
<1>3. CASE NothingToReap \/ SendSignal \/ FindForeground
  <2>1. Up /\ stack # <<>> /\ UNCHANGED <<jobs, flag>>
    BY <1>3 DEF NothingToReap, SendSignal, FindForeground, InHandler, tableVars
  <2>2. mpid' = mpid /\ (Waiting => Waiting')
    <3>1. CASE Return
      BY <2>1, <3>1, Returns DEF Waiting
    <3>2. CASE UNCHANGED mainVars
      BY <3>2 DEF mainVars, Waiting
    <3> QED
      BY <1>3, <3>1, <3>2 DEF NothingToReap, SendSignal, FindForeground
  <2> QED
    BY <2>1, <2>2, ForegroundKept
<1>4. CASE UnknownChild \/ KillFails
  <2>1. jobs' = jobs /\ ~Up'
    BY <1>4 DEF UnknownChild, KillFails, Exits, tableVars, Up
  <2> QED
    BY <2>1 DEF ForegroundInv
<1>5. CASE RecordDead \/ RecordStopped
  BY <1>5, RecordForeground
<1>6. ASSUME MainAt("prompt") \/ MainAt("add") PROVE \A s \in Slots : jobs[s].state # "FG"
  <2>1. Up /\ mpc \in {"prompt", "add"}
    BY <1>6 DEF MainAt
  <2> QED
    BY <2>1 DEF ForegroundInv, Waiting
<1>7. CASE Eval \/ Quit
  <2>1. jobs' = jobs
    BY <1>7 DEF Eval, Quit, tableVars
  <2> QED
    BY <1>6, <1>7, <2>1 DEF Eval, Quit, ForegroundInv
<1>8. CASE AddJob
  <2>1. \A s \in Slots : jobs[s].state # "FG"
    BY <1>6, <1>8 DEF AddJob
  <2>2. mpid \in Pids /\ nextjid <= MaxJid
    BY <1>8 DEF AddJob, MainAt, BasicInv, ChildInv
  <2>3. addjob(mpid, IF background THEN "BG" ELSE "FG")
    BY <1>8 DEF AddJob
  <2>4. CASE FreeSlots = {}
    <3>1. jobs' = jobs
      BY <2>3, <2>4 DEF addjob, tableVars
    <3> QED
      BY <2>1, <3>1 DEF ForegroundInv
  <2>5. CASE FreeSlots # {} /\ background
    <3>1. addjob(mpid, "BG")
      BY <2>3, <2>5
    <3>2. /\ jobs'[Min(FreeSlots)].state = "BG"
          /\ \A s \in Slots : s # Min(FreeSlots) => jobs'[s] = jobs[s]
      BY <2>2, <2>5, <3>1, Added DEF BasicInv
    <3>3. \A s \in Slots : jobs'[s].state # "FG"
      BY <2>1, <3>2
    <3> QED
      BY <3>3 DEF ForegroundInv
  <2>6. CASE FreeSlots # {} /\ ~background
    <3> DEFINE d == Min(FreeSlots)
    <3>1. addjob(mpid, "FG")
      BY <2>3, <2>6
    <3>2. jobs'[d].pid = mpid /\ \A s \in Slots : s # d => jobs'[s] = jobs[s]
      BY <2>2, <2>6, <3>1, Added DEF BasicInv
    <3> HIDE DEF d
    <3>3. mpc' = "wait" /\ mpid' = mpid /\ ~flag'
      BY <1>8, <2>6 DEF AddJob
    <3>4. \A s \in Slots : jobs'[s].state = "FG" => s = d
      BY <2>1, <3>2
    <3> QED
      BY <3>2, <3>3, <3>4 DEF ForegroundInv, Waiting
  <2> QED
    BY <2>4, <2>5, <2>6
<1>9. CASE TestFlag
  <2>1. UNCHANGED <<jobs, flag>> /\ Up /\ mpc = "wait"
    BY <1>9 DEF TestFlag, MainAt, tableVars
  <2>2. CASE flag
    BY <2>1, <2>2 DEF ForegroundInv
  <2>3. CASE ~flag
    BY <1>9, <2>1, <2>3, ForegroundKept DEF TestFlag, Waiting
  <2> QED
    BY <2>2, <2>3
<1>10. ASSUME NEW s \in Slots, BgByJid(s) PROVE ForegroundInv'
  <2>1. jobs[s].pid # NoPid /\ \A u \in Slots : jobs[u].state # "FG"
    BY <1>6, <1>10 DEF BgByJid, ByJid
  <2>2. jobs' = [jobs EXCEPT ![s].state = "BG"]
    BY <1>10, Zenon DEF BgByJid
  <2>3. \A u \in Slots : /\ u # s => jobs'[u] = jobs[u]
                         /\ u = s => jobs'[u].state = "BG"
    <3>1. jobs \in [Slots -> Job]
      BY DEF BasicInv, TypeInv
    <3>2. jobs[s] \in [pid : Pids, jid : 1..MaxJid, state : {"FG", "BG", "ST"}]
      BY <2>1, <3>1, JobFacts DEF Job, NoJob
    <3>3. PICK j : j = [jobs[s] EXCEPT !.state = "BG"]
      OBVIOUS
    <3>4. j.state = "BG" /\ jobs' = [jobs EXCEPT ![s] = j]
      BY <2>2, <3>2, <3>3
    <3> QED
      BY <3>1, <3>4
  <2>4. \A u \in Slots : jobs'[u].state # "FG"
    BY <2>1, <2>3
  <2> QED
    BY <2>4 DEF ForegroundInv
<1>11. ASSUME NEW s \in Slots, FgByJid(s) PROVE ForegroundInv'
  <2>1. jobs[s].pid # NoPid /\ \A u \in Slots : jobs[u].state # "FG"
    BY <1>6, <1>11 DEF FgByJid, ByJid
  <2>2. jobs' = [jobs EXCEPT ![s].state = "FG"]
    BY <1>11, Zenon DEF FgByJid
  <2>3. \A u \in Slots : /\ jobs'[u].pid = jobs[u].pid
                         /\ u # s => jobs'[u] = jobs[u]
    BY <2>1, <2>2, StateOnly DEF BasicInv
  <2>4. \A u \in Slots : jobs'[u].state = "FG" => u = s
    BY <2>1, <2>3
  <2>5. mpc' = "wait" /\ mpid' = jobs[s].pid /\ flag' = FALSE
    BY <1>11 DEF FgByJid
  <2> QED
    BY <2>3, <2>4, <2>5 DEF ForegroundInv, Waiting
<1>12. ASSUME NEW p \in Pids, Exec(p) \/ Ends(p) \/ Stops(p) PROVE ForegroundInv'
  BY <1>12, ForegroundKept DEF Exec, Ends, Stops, tableVars, mainVars, Waiting
<1>13. CASE UNCHANGED vars
  <2>1. UNCHANGED <<jobs, flag, mpc, mpid>>
    BY <1>13 DEF vars, tableVars, mainVars
  <2> QED
    BY <2>1 DEF ForegroundInv, Up, Waiting
<1> QED
  BY <1>1, <1>2, <1>3, <1>4, <1>5, <1>7, <1>8, <1>9, <1>10, <1>11, <1>12, <1>13
     DEF NextByJid, ChildStep, KeyStep, CommandStep

-----------------------------------------------------------------------------
\* While fg and bg name jobs by number, ShellInv holds at every moment: no news
\* of a child is lost between the kernel, the handlers and the table.
THEOREM ShellInvariant ==
    SpecByJid => []ShellInv
<1>1. Init => ShellInv
  <2> SUFFICES ASSUME Init PROVE ShellInv
    OBVIOUS
  <2>1. \A s \in Slots : jobs[s].pid = NoPid /\ jobs[s].state = "UNDEF"
    BY DEF Init, NoJob
  <2>2. StateInv /\ ForegroundInv
    BY <2>1 DEF Init, StateInv, ForegroundInv
  <2> QED
    BY <2>2, BasicInit DEF ShellInv
<1>2. ShellInv /\ [NextByJid]_vars => ShellInv'
  BY BasicStep, StateStep, ForegroundStep DEF ShellInv, Next
<1> QED
  BY <1>1, <1>2, PTL DEF SpecByJid

\* When no SIGCHLD is pending and no handler runs, the table tells the truth:
\* its jobs exist, none has ended, and exactly the stopped ones are ST.
THEOREM TableTellsTheTruth ==
    SpecByJid => []TableAgrees
<1>1. ShellInv => TableAgrees
  <2> SUFFICES ASSUME ShellInv, Up, stack = <<>>, "CHLD" \notin pending,
                      NEW s \in Slots, jobs[s].pid # NoPid
               PROVE  /\ proc[jobs[s].pid] \notin {"none", "zombie"}
                      /\ jobs[s].state = "ST" <=> proc[jobs[s].pid] = "stopped"
    BY DEF TableAgrees
  <2>1. Frames = {} /\ ~ChldRuns
    BY FramesDiffer DEF ShellInv, BasicInv, ChldRuns
  <2>2. jobs[s].pid \in Pids
    BY JobFacts DEF ShellInv, BasicInv
  <2>3. news = {} /\ proc[jobs[s].pid] # "zombie"
    BY <2>1, <2>2 DEF ShellInv, BasicInv, NewsInv
  <2>4. proc[jobs[s].pid] # "none"
    BY <2>1 DEF ShellInv, BasicInv, ChildInv
  <2> QED
    BY <2>1, <2>3, <2>4 DEF ShellInv, StateInv
<1> QED
  BY <1>1, ShellInvariant, PTL

\* At most one job is in the foreground (tsh.c says so), and it is the one that
\* main waits for; at the prompt there is none.
THEOREM TheForegroundIsAwaited ==
    SpecByJid => []ForegroundAwaited
<1>1. ShellInv => ForegroundAwaited
  <2> SUFFICES ASSUME ShellInv PROVE ForegroundAwaited
    OBVIOUS
  <2> DEFINE T == {s \in Slots : jobs[s].state = "FG"}
  <2>1. \A s, u \in T : s = u
    BY DEF ShellInv, ForegroundInv
  <2>2. Cardinality(T) <= 1
    <3>1. CASE T = {}
      BY <3>1, FS_EmptySet
    <3>2. CASE T # {}
      <4>1. PICK s \in T : T = {s}
        BY <2>1, <3>2
      <4> QED
        <5>1. Cardinality({s}) = 1
          BY FS_Singleton
        <5> HIDE DEF T
        <5> QED
          BY <4>1, <5>1
    <3> QED
      BY <3>1, <3>2
  <2> QED
    BY <2>2 DEF ShellInv, ForegroundInv, ForegroundAwaited, AtMostOneForeground
<1> QED
  BY <1>1, ShellInvariant, PTL

\* The model's types, with one frame for each signal whose handler runs.
THEOREM TypesRight ==
    Spec => []TypeOK
<1>1. BasicInv => TypeOK
  <2> SUFFICES ASSUME BasicInv PROVE TypeOK
    OBVIOUS
  <2> DEFINE n == Len(stack)
             sigOf == [k \in 1..n |-> stack[k].sig]
  <2>1. n \in Nat /\ stack \in Seq(Frame)
    BY DEF BasicInv, StackInv
  <2>2. sigOf \in Bijection(1..n, OnStack)
    <3>1. sigOf \in [1..n -> OnStack] /\ \A k \in 1..n : sigOf[k] = stack[k].sig
      BY DEF OnStack
    <3>2. \A j, k \in 1..n : sigOf[j] = sigOf[k] => j = k
      BY <3>1 DEF BasicInv, StackInv
    <3>3. \A sig \in OnStack : \E k \in 1..n : sigOf[k] = sig
      BY <3>1 DEF OnStack
    <3> HIDE DEF sigOf
    <3> QED
      BY <3>1, <3>2, <3>3, Fun_IsBij
  <2>3. Cardinality(OnStack) = n
    <3> HIDE DEF n, sigOf
    <3>1. ExistsBijection(1..n, OnStack)
      BY <2>2 DEF ExistsBijection
    <3> QED
      BY <2>1, <3>1, FS_CountingElements
  <2> QED
    BY <2>1, <2>3 DEF BasicInv, TypeInv, TypeOK
<1> QED
  BY <1>1, BasicInvariant, PTL

=============================================================================
