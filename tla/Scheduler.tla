----------------------------- MODULE Scheduler -----------------------------
(***************************************************************************)
(* The process scheduler of src/process/scheduler.rs: the process table,   *)
(* the ready queue, context switches, and the life of a process from spawn *)
(* or fork to exit, join and reaping.                                      *)
(*                                                                         *)
(* One CPU runs processes: only CPU 0's timer handler calls schedule and   *)
(* the application processors have no current pid.  So a process acts only *)
(* while it is current, a section that runs with interrupts off is one     *)
(* step up to the schedule call inside it, and what follows that call is a *)
(* continuation (pc) the process takes when it is current again.  Kernel   *)
(* threads run with interrupts on, so their exit takes several steps.      *)
(***************************************************************************)
EXTENDS Integers, Sequences

CONSTANTS MaxPid,      \* bound: pids handed out in one behaviour
          MaxQueue,    \* bound: entries of the ready queue
          MaxJoiners,  \* bound: entries of a list of joiners
          Codes,       \* exit codes passed to exit
          Workloads    \* sets of operations; a behaviour uses one of them

ASSUME SchedulerAssumption ==
    /\ MaxPid \in Nat \ {0}
    /\ MaxQueue \in Nat /\ MaxJoiners \in Nat
    /\ Codes \subseteq Int

Pids == 1 .. MaxPid
Boot == 1              \* the process init_boot_process makes; it becomes the shell

States == {"None",     \* not in the process table
           "Ready", "Running", "Blocked", "Exited"}

Kinds == {"kthread", "user"}       \* the boot process is a kernel thread here

VARIABLES
    next_pid,   \* PidAllocator.next_pid
    kind,       \* kernel thread or user process
    state,      \* Process.state, "None" for a pid not in the table
    code,       \* Process.exit_code
    parent,     \* Process.parent, 0 for none
    joiners,    \* Process.join_waiters
    ready,      \* the ready queue in order of its counter
    current,    \* current_pid of CPU 0
    stack,      \* what kernel_stack_ptr points to: "none", a "saved" frame,
                \* or a stale place while the process is "live" on the CPU
    pc,         \* what the process does when it is current
    wakeList,   \* waiters that an exiting process has still to wake
    target,     \* the pid a joining process waits for
    joined,     \* what the join that returned last returned
    preempt,    \* PREEMPTION_ENABLED
    fault,      \* "none", "wild switch" or "panic": the machine has stopped
    workload    \* the operations of this behaviour

cpuVars == <<state, ready, current, stack, fault>>
taskVars == <<next_pid, kind, code, parent, joiners>>
contVars == <<pc, wakeList, target, joined>>
modeVars == <<preempt, workload>>
vars == <<cpuVars, taskVars, contVars, modeVars>>

NotJoined == [pid |-> 0, value |-> 0, exited |-> FALSE]

TypeOK ==
    /\ next_pid \in 2 .. (MaxPid + 1)
    /\ kind \in [Pids -> Kinds]
    /\ state \in [Pids -> States]
    /\ code \in [Pids -> Int]
    /\ parent \in [Pids -> Pids \cup {0}]
    /\ joiners \in [Pids -> Seq(Pids)]
    /\ ready \in Seq(Pids)
    /\ current \in Pids
    /\ stack \in [Pids -> {"none", "saved", "live"}]
    /\ pc \in [Pids -> {"run", "exit", "join", "halt"}]
    /\ wakeList \in [Pids -> Seq(Pids)]
    /\ target \in [Pids -> Pids \cup {0}]
    /\ joined \in [pid : Pids \cup {0}, value : Int, exited : BOOLEAN]
    /\ preempt \in BOOLEAN
    /\ fault \in {"none", "wild switch", "panic"}
    /\ workload \in Workloads

(* init_boot_process: the boot process is running, preemption is off. *)
Init ==
    /\ next_pid = 2
    /\ kind = [p \in Pids |-> "kthread"]
    /\ state = [p \in Pids |-> IF p = Boot THEN "Running" ELSE "None"]
    /\ code = [p \in Pids |-> 0]
    /\ parent = [p \in Pids |-> 0]
    /\ joiners = [p \in Pids |-> << >>]
    /\ ready = << >>
    /\ current = Boot
    /\ stack = [p \in Pids |-> IF p = Boot THEN "live" ELSE "none"]
    /\ pc = [p \in Pids |-> "run"]
    /\ wakeList = [p \in Pids |-> << >>]
    /\ target = [p \in Pids |-> 0]
    /\ joined = NotJoined
    /\ preempt = FALSE
    /\ fault = "none"
    /\ workload \in Workloads

-----------------------------------------------------------------------------
(* schedule, from an intermediate state s of the processes and queue q *)

(* Mutant of Eligible: the test of the state of the entry is dropped. *)
EligibleAnyState(s, p) == s[p] # "None"

(* The entries that end the loop of schedule; the others are dropped. *)
Eligible(s, p) == s[p] = "Ready" \/ (p = current /\ s[p] = "Running")

First(s, q, i) == Eligible(s, q[i]) /\ \A j \in 1 .. (i - 1) : ~Eligible(s, q[j])

(* Mutant of SwitchTo: the process switched away from stays Running. *)
SwitchToKeepsRunning(n, s, q) ==
    /\ state' = [s EXCEPT ![n] = "Running"]
    /\ ready' = Append(q, current)
    /\ current' = n
    /\ stack' = [stack EXCEPT ![current] = "saved", ![n] = "live"]
    /\ fault' = IF stack[n] = "saved" THEN fault ELSE "wild switch"

(* Mutant of SwitchTo: the preempted process goes to the head of the queue. *)
SwitchToHead(n, s, q) ==
    LET s1 == [s EXCEPT ![n] = "Running"]
        requeue == s1[current] = "Running"
    IN  /\ state' = IF requeue THEN [s1 EXCEPT ![current] = "Ready"] ELSE s1
        /\ ready' = IF requeue THEN <<current>> \o q ELSE q
        /\ current' = n
        /\ stack' = [stack EXCEPT ![current] = "saved", ![n] = "live"]
        /\ fault' = IF stack[n] = "saved" THEN fault ELSE "wild switch"

(* The switch itself.  A process that was Running is made Ready and queued *)
(* again; that includes n itself when n is current but had been made Ready *)
(* again, and then the switch resumes a frame that is not there any more.  *)
SwitchTo(n, s, q) ==
    LET s1 == [s EXCEPT ![n] = "Running"]
        requeue == s1[current] = "Running"
    IN  /\ state' = IF requeue THEN [s1 EXCEPT ![current] = "Ready"] ELSE s1
        /\ ready' = IF requeue THEN Append(q, current) ELSE q
        /\ current' = n
        /\ stack' = [stack EXCEPT ![current] = "saved", ![n] = "live"]
        /\ fault' = IF stack[n] = "saved" THEN fault ELSE "wild switch"

schedule(s, q) ==
    \/ /\ \A i \in DOMAIN q : ~Eligible(s, q[i])
       /\ state' = s
       /\ ready' = << >>
       /\ UNCHANGED <<current, stack, fault>>
    \/ \E i \in DOMAIN q :
          /\ First(s, q, i)
          /\ s[q[i]] = "Running"
          /\ state' = s
          /\ ready' = SubSeq(q, i + 1, Len(q))
          /\ UNCHANGED <<current, stack, fault>>
    \/ \E i \in DOMAIN q :
          /\ First(s, q, i)
          /\ s[q[i]] # "Running"
          /\ SwitchTo(q[i], s, SubSeq(q, i + 1, Len(q)))

(* Process state changes that do not end in schedule. *)
SetState(s, q) ==
    /\ state' = s
    /\ ready' = q
    /\ UNCHANGED <<current, stack, fault>>

-----------------------------------------------------------------------------
(* The current process acts: c runs ordinary code of kind k. *)

Acts(c, k, service) ==
    /\ fault = "none"
    /\ c = current
    /\ pc[c] = "run"
    /\ kind[c] = k
    /\ service \in workload

(* Mutant of Insert: schedule_ready is forgotten. *)
InsertCreated(k, par, frame) ==
    LET p == next_pid IN
    /\ p <= MaxPid
    /\ next_pid' = p + 1
    /\ kind' = [kind EXCEPT ![p] = k]
    /\ parent' = [parent EXCEPT ![p] = par]
    /\ state' = [state EXCEPT ![p] = "Created"]
    /\ stack' = [stack EXCEPT ![p] = frame]
    /\ UNCHANGED <<code, joiners, ready, current, fault>>

(* A new process: insert it in the table and push it. *)
Insert(k, par, frame) ==
    LET p == next_pid IN
    /\ p <= MaxPid
    /\ Len(ready) < MaxQueue
    /\ next_pid' = p + 1
    /\ kind' = [kind EXCEPT ![p] = k]
    /\ parent' = [parent EXCEPT ![p] = par]
    /\ state' = [state EXCEPT ![p] = "Ready"]
    /\ ready' = Append(ready, p)
    /\ stack' = [stack EXCEPT ![p] = frame]
    /\ UNCHANGED <<code, joiners, current, fault>>

(* spawn, spawn_elf and the other loaders, from the shell. *)
spawn(c) ==
    /\ Acts(c, "kthread", "spawn")
    /\ Insert("user", 0, "saved")
    /\ UNCHANGED <<contVars, modeVars>>

(* A loader that fails has used up a pid. *)
spawn_fails(c) ==
    /\ Acts(c, "kthread", "spawn")
    /\ next_pid <= MaxPid
    /\ next_pid' = next_pid + 1
    /\ UNCHANGED <<cpuVars, kind, code, parent, joiners, contVars, modeVars>>

spawn_kthread(c) ==
    /\ Acts(c, "kthread", "kthread")
    /\ Insert("kthread", 0, "saved")
    /\ UNCHANGED <<contVars, modeVars>>

(* fork: the child has a kernel stack but no frame on it. *)
fork(c) ==
    /\ Acts(c, "user", "fork")
    /\ Insert("user", c, "none")
    /\ UNCHANGED <<contVars, modeVars>>

-----------------------------------------------------------------------------
(* Leaving: exit_process and the paths that reach it. *)

Exit(p, v) ==
    /\ code' = [code EXCEPT ![p] = v]
    /\ UNCHANGED <<next_pid, kind, parent>>

(* The loop of exit_process over the waiters it drained, in one piece:     *)
(* every waiter is made Ready, whatever its state, and pushed.  Waiters    *)
(* are kernel threads, which nobody reaps, so the lookup of a waiter finds *)
(* it (WaitersInTable).                                                    *)
WakeAll(s, w) ==
    [p \in Pids |-> IF \E i \in DOMAIN w : w[i] = p THEN "Ready" ELSE s[p]]

(* exit_process with interrupts off, for process p: an exception in user   *)
(* mode (p is current) and cancel_kthread (p is any process).  SIGCHLD     *)
(* only sets a pending bit of the parent.                                  *)
exit_process(p, v) ==
    LET s == WakeAll([state EXCEPT ![p] = "Exited"], joiners[p])
        q == ready \o joiners[p]
    IN  /\ Len(q) <= MaxQueue
        /\ Exit(p, v)
        /\ joiners' = [joiners EXCEPT ![p] = << >>]
        /\ IF p = current THEN schedule(s, q) ELSE SetState(s, q)

terminate_current_user_process(c, v) ==
    /\ Acts(c, "user", "fault")
    /\ exit_process(c, v)
    /\ pc' = [pc EXCEPT ![c] = "halt"]
    /\ UNCHANGED <<wakeList, target, joined, modeVars>>

(* The exit system call sets the state and leaves the joiners alone; the   *)
(* return path calls schedule and halts.                                   *)
sys_exit(c, v) ==
    /\ Acts(c, "user", "exit")
    /\ Exit(c, v)
    /\ schedule([state EXCEPT ![c] = "Exited"], ready)
    /\ pc' = [pc EXCEPT ![c] = "halt"]
    /\ UNCHANGED <<joiners, wakeList, target, joined, modeVars>>

(* exit_current_kthread runs exit_process with interrupts on.  First the   *)
(* block under the lock of the process ...                                 *)
exit_current_kthread(c, v) ==
    /\ Acts(c, "kthread", "exit") /\ c # Boot
    /\ Exit(c, v)
    /\ SetState([state EXCEPT ![c] = "Exited"], ready)
    /\ wakeList' = [wakeList EXCEPT ![c] = joiners[c]]
    /\ joiners' = [joiners EXCEPT ![c] = << >>]
    /\ pc' = [pc EXCEPT ![c] = "exit"]
    /\ UNCHANGED <<target, joined, modeVars>>

(* Mutant of exit_wake: unblock instead of ready and push. *)
exit_wake_unblocks(c) ==
    /\ fault = "none" /\ c = current /\ pc[c] = "exit"
    /\ wakeList[c] # << >>
    /\ LET p == Head(wakeList[c]) IN
         IF state[p] = "None"
         THEN UNCHANGED cpuVars
         ELSE SetState([state EXCEPT ![p] = "Ready"], ready)
    /\ wakeList' = [wakeList EXCEPT ![c] = Tail(@)]
    /\ UNCHANGED <<taskVars, pc, target, joined, modeVars>>

(* ... then one waiter at a time ...                                       *)
exit_wake(c) ==
    /\ fault = "none" /\ c = current /\ pc[c] = "exit"
    /\ wakeList[c] # << >>
    /\ LET p == Head(wakeList[c]) IN
         IF state[p] = "None"
         THEN UNCHANGED cpuVars
         ELSE /\ Len(ready) < MaxQueue
              /\ SetState([state EXCEPT ![p] = "Ready"], Append(ready, p))
    /\ wakeList' = [wakeList EXCEPT ![c] = Tail(@)]
    /\ UNCHANGED <<taskVars, pc, target, joined, modeVars>>

(* ... then schedule, and the hlt loop should schedule return. *)
exit_schedule(c) ==
    /\ fault = "none" /\ c = current /\ pc[c] = "exit"
    /\ wakeList[c] = << >>
    /\ schedule(state, ready)
    /\ pc' = [pc EXCEPT ![c] = "halt"]
    /\ UNCHANGED <<taskVars, wakeList, target, joined, modeVars>>

-----------------------------------------------------------------------------
(* join_kthread, cancel_kthread, waitpid *)

(* An unknown pid panics in expect("Process not found"). *)
join_unknown(c, t) ==
    /\ Acts(c, "kthread", "join unknown")
    /\ state[t] = "None"
    /\ fault' = "panic"
    /\ UNCHANGED <<state, ready, current, stack, taskVars, contVars, modeVars>>

Return(t, v) ==
    joined' = [pid |-> t, value |-> v, exited |-> state[t] = "Exited"]

(* Every caller joins a thread that it spawned: a later pid. *)
join_kthread(c, t) ==
    /\ Acts(c, "kthread", "join") /\ c < t
    /\ state[t] # "None"
    /\ IF state[t] = "Exited"
       THEN /\ Return(t, code[t])
            /\ UNCHANGED <<cpuVars, joiners, pc, target>>
       ELSE /\ Len(joiners[t]) < MaxJoiners
            /\ joiners' = [joiners EXCEPT ![t] = Append(@, c)]
            /\ schedule(IF state[c] = "Running"
                        THEN [state EXCEPT ![c] = "Blocked"] ELSE state, ready)
            /\ pc' = [pc EXCEPT ![c] = "join"]
            /\ target' = [target EXCEPT ![c] = t]
            /\ UNCHANGED joined
    /\ UNCHANGED <<next_pid, kind, code, parent, wakeList, modeVars>>

(* block_current_task has returned: the result is 0. *)
join_return(c) ==
    /\ fault = "none" /\ c = current /\ pc[c] = "join"
    /\ Return(target[c], 0)
    /\ pc' = [pc EXCEPT ![c] = "run"]
    /\ target' = [target EXCEPT ![c] = 0]
    /\ UNCHANGED <<cpuVars, taskVars, wakeList, modeVars>>

(* cancel_kthread; Canceled is overwritten before anyone can see it. *)
cancel_kthread(c, t) ==
    /\ Acts(c, "kthread", "cancel")
    /\ state[t] \notin {"None", "Exited"}
    /\ exit_process(t, -1)
    /\ UNCHANGED <<contVars, modeVars>>

(* Mutants of Zombies: the state, or the parent, is not looked at. *)
ZombiesOfAnyState(c) == { p \in Pids : state[p] # "None" }
ZombiesOfAnyParent(c) == { p \in Pids : state[p] = "Exited" }

(* waitpid reaps the exited child that child_pid names; -1 names the first *)
(* one of the table.                                                       *)
Zombies(c) == { p \in Pids : parent[p] = c /\ state[p] = "Exited" }
waitpid(c, p) ==
    /\ Acts(c, "user", "wait")
    /\ p \in Zombies(c)
    /\ SetState([state EXCEPT ![p] = "None"], ready)
    /\ UNCHANGED <<taskVars, contVars, modeVars>>

-----------------------------------------------------------------------------
(* Signals, exec, yielding and the timer *)

Kill(s, p) == [s EXCEPT ![p] = "Exited"]

(* send_signal SIGKILL, from the shell, a kernel thread or a system call.  *)
(* A system call that killed its own process goes on as sys_exit does.     *)
send_sigkill(c, p) ==
    /\ Acts(c, kind[c], "kill")
    /\ state[p] # "None"
    /\ Exit(p, -1)
    /\ IF p = c /\ kind[c] = "user"
       THEN /\ schedule(Kill(state, p), ready)
            /\ pc' = [pc EXCEPT ![c] = "halt"]
       ELSE /\ SetState(Kill(state, p), ready)
            /\ UNCHANGED pc
    /\ UNCHANGED <<joiners, wakeList, target, joined, modeVars>>

(* SIGSTOP blocks whatever the state was; SIGCONT readies what is blocked. *)
send_sigstop(c, p) ==
    /\ Acts(c, kind[c], "stop")
    /\ state[p] # "None"
    /\ SetState([state EXCEPT ![p] = "Blocked"], ready)
    /\ UNCHANGED <<taskVars, contVars, modeVars>>

send_sigcont(c, p) ==
    /\ Acts(c, kind[c], "stop")
    /\ state[p] = "Blocked"
    /\ Len(ready) < MaxQueue
    /\ SetState([state EXCEPT ![p] = "Ready"], Append(ready, p))
    /\ UNCHANGED <<taskVars, contVars, modeVars>>

(* exec_process, and the sched_yield call of the generic ABI, make the     *)
(* current process Ready without queueing it.                              *)
exec_process(c) ==
    /\ Acts(c, "user", "exec")
    /\ SetState([state EXCEPT ![c] = "Ready"], ready)
    /\ UNCHANGED <<taskVars, contVars, modeVars>>

sched_yield(c) ==
    /\ Acts(c, "user", "yield")
    /\ state[c] = "Running"
    /\ SetState([state EXCEPT ![c] = "Ready"], ready)
    /\ UNCHANGED <<taskVars, contVars, modeVars>>

(* yield_now, from the shell and the kernel threads. *)
yield_now(c) ==
    /\ Acts(c, "kthread", "sched")
    /\ schedule(state, ready)
    /\ UNCHANGED <<taskVars, contVars, modeVars>>

(* Shell::run: preemption is on while the GUI has the screen. *)
set_preemption(c) ==
    /\ Acts(c, "kthread", "preempt") /\ c = Boot
    /\ preempt' = ~preempt
    /\ UNCHANGED <<cpuVars, taskVars, contVars, workload>>

(* timer_handler on CPU 0: interrupts are on everywhere but after the      *)
(* schedule call of a join, which runs inside without_interrupts.          *)
timer_handler ==
    /\ fault = "none"
    /\ pc[current] # "join"
    /\ preempt
    /\ schedule(state, ready)
    /\ UNCHANGED <<taskVars, contVars, modeVars>>

Next ==
    \/ timer_handler
    \/ \E c \in Pids :
          \/ spawn(c) \/ spawn_fails(c) \/ spawn_kthread(c) \/ fork(c)
          \/ exit_wake(c) \/ exit_schedule(c) \/ join_return(c)
          \/ exec_process(c) \/ sched_yield(c) \/ yield_now(c)
          \/ set_preemption(c)
          \/ \E v \in Codes :
                \/ terminate_current_user_process(c, v)
                \/ sys_exit(c, v)
                \/ exit_current_kthread(c, v)
          \/ \E t \in Pids :
                \/ join_unknown(c, t) \/ join_kthread(c, t)
                \/ cancel_kthread(c, t) \/ waitpid(c, t)
                \/ send_sigkill(c, t) \/ send_sigstop(c, t) \/ send_sigcont(c, t)

Spec == Init /\ [][Next]_vars

(* The timer keeps interrupting, and a process inside the kernel goes on   *)
(* while it is on the CPU; nothing is assumed of user code, of the shell,  *)
(* or of how long a kernel thread runs.                                    *)
FairSpec ==
    /\ Spec
    /\ WF_vars(timer_handler)
    /\ \A c \in Pids : WF_vars(exit_wake(c) \/ exit_schedule(c))

-----------------------------------------------------------------------------
(* Properties *)

(* At most one process is Running, and it is the one on the CPU: schedule  *)
(* relies on it when it skips a Running entry that is not current.         *)
RunningIsCurrent == \A p \in Pids : state[p] = "Running" => p = current

(* The process on the CPU is never reaped, so the raw pointer              *)
(* current_process_raw that system calls and schedule dereference without  *)
(* the table lock points to a live Process.                                *)
CurrentInTable == state[current] # "None"

(* A process that waits in join_kthread is not reaped before it is woken.  *)
WaitersInTable ==
    \A t \in Pids :
        /\ \A i \in DOMAIN joiners[t] : state[joiners[t][i]] # "None"
        /\ \A i \in DOMAIN wakeList[t] : state[wakeList[t][i]] # "None"

(* What makes the two above inductive: a pid not handed out yet is not in  *)
(* the table, a parent is older than its child, only user processes have a *)
(* parent to reap them, and whoever waits in a join is a kernel thread.    *)
TableInv ==
    /\ \A p \in Pids : p >= next_pid => state[p] = "None"
    /\ \A p \in Pids : parent[p] < p
    /\ \A p \in Pids : kind[p] = "kthread" => parent[p] = 0
    /\ \A t \in Pids : \A i \in DOMAIN joiners[t] : kind[joiners[t][i]] = "kthread"
    /\ \A t \in Pids : \A i \in DOMAIN wakeList[t] : kind[wakeList[t][i]] = "kthread"

Queued(s, q) == \A p \in Pids : s[p] = "Ready" => \E i \in DOMAIN q : q[i] = p

(* No process is lost: whatever is Ready has an entry in the ready queue,  *)
(* unless the workload has exec or the generic sched_yield, which make a   *)
(* process Ready and push it nowhere.                                      *)
ReadyIsQueued == workload \cap {"exec", "yield"} = {} => Queued(state, ready)

(* The same for a process that is off the CPU, whatever the workload:      *)
(* Ready means that schedule will get to it.                               *)
NoLostProcess ==
    \A p \in Pids : state[p] = "Ready" /\ p # current =>
        \E i \in DOMAIN ready : ready[i] = p

(* Every context switch resumes a frame that an earlier switch, or         *)
(* init_process_stack, left on the stack.                                  *)
SwitchHasFrame == fault # "wild switch"

(* A process that has left the CPU for good has released its joiners.      *)
JoinersReleased ==
    \A t \in Pids : state[t] = "Exited" /\ current # t =>
        joiners[t] = << >> /\ wakeList[t] = << >>

(* A join that returns has seen its target exit and returns its code.      *)
JoinResult == joined # NotJoined => joined.exited /\ joined.value = code[joined.pid]

(* No process starves: once preemption stays on, a Ready process runs.     *)
(* (The workloads that can lose a process or stop the machine, exec, the   *)
(* generic sched_yield, fork and join, are left out of this.)              *)
StarvationFree ==
    <>[]preempt => \A p \in Pids : state[p] = "Ready" ~> state[p] # "Ready"

(* An exited process stays exited until it is reaped, unless SIGSTOP, or   *)
(* the wake-up of a joiner that was killed, overwrites its state.          *)
ExitedIsFinal ==
    [][workload \cap {"stop", "join"} = {} =>
         \A p \in Pids : state[p] = "Exited" => state'[p] \in {"Exited", "None"}]_vars
=============================================================================
