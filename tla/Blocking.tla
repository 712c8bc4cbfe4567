------------------------------ MODULE Blocking ------------------------------
(***************************************************************************)
(* The calls that put a process to sleep, on top of Scheduler: timed       *)
(* sleeps (src/timer.rs, sys_nanosleep, sys_poll, the frame pacing of the  *)
(* compositor thread), futexes (src/sync/futex.rs, sys_futex) and wait     *)
(* conditions (src/sync/wait_condition.rs) under a pipe or a wait queue.   *)
(*                                                                         *)
(* A system call runs with interrupts off, so each is one step up to its   *)
(* schedule call and one step (…_return) from where schedule returns.  A   *)
(* kernel thread sleeps with interrupts on and yields in a later step.     *)
(* The timer handler is Scheduler's with the tick of the sleep queue in it.*)
(***************************************************************************)
EXTENDS Scheduler, FiniteSets

CONSTANTS MaxSleepers,   \* MAX_SLEEPERS: slots of the sleep queue
          Delays,        \* sleeping times, in ms
          Addrs,         \* physical addresses of futex words
          Values,        \* contents of a futex word
          Bits,          \* bits of a futex bitset
          MaxItems,      \* bound: items in the pipe
          MaxWaiters     \* bound: entries of a list of waiters

ASSUME BlockingAssumption ==
    /\ MaxSleepers \in Nat \ {0} /\ MaxItems \in Nat /\ MaxWaiters \in Nat
    /\ Delays \subseteq Nat /\ 0 \in Values /\ 0 \notin Addrs

MsPerTick == 10
NoTimeout == -1
NoAddr == 0
NoSleeper == [pid |-> 0, left |-> 0]
Slots == 1 .. MaxSleepers
Waiter == [pid : Pids, bits : SUBSET Bits, val : Values]   \* val: what the word held

VARIABLES
    sleepers,   \* Timer.sleepers; left: ticks until wake_tick
    timed_out,  \* Process.timed_out
    futexes,    \* FutexManager.queues, << >> for an address without entry
    word,       \* the futex words in user memory
    items,      \* number of items in the pipe
    readers,    \* the waiters of its read_condition
    call,       \* the blocking call a process is in
    addr,       \* the futex address of that call, or of a store to announce
    due         \* ms that the sleep of the process has still to last

blockVars == <<sleepers, timed_out, futexes, word, items, readers,
               call, addr, due>>
allVars == <<vars, blockVars>>

BlockTypeOK ==
    /\ TypeOK
    /\ sleepers \in [Slots -> [pid : Pids, left : Nat] \cup {NoSleeper}]
    /\ timed_out \in [Pids -> BOOLEAN]
    /\ futexes \in [Addrs -> Seq(Waiter)]
    /\ word \in [Addrs -> Values]
    /\ items \in 0 .. MaxItems
    /\ readers \in Seq(Pids)
    /\ call \in [Pids -> {"none", "sleep", "pace", "futex", "receive", "announce"}]
    /\ addr \in [Pids -> Addrs \cup {NoAddr}]
    /\ due \in [Pids -> Nat]

BlockInit ==
    /\ Init
    /\ sleepers = [i \in Slots |-> NoSleeper]
    /\ timed_out = [p \in Pids |-> FALSE]
    /\ futexes = [a \in Addrs |-> << >>]
    /\ word = [a \in Addrs |-> 0]
    /\ items = 0
    /\ readers = << >>
    /\ call = [p \in Pids |-> "none"]
    /\ addr = [p \in Pids |-> NoAddr]
    /\ due = [p \in Pids |-> 0]

(* The subsequence of s at the indices in I, and the n smallest of I. *)
SubSeqAt(s, I) ==
    LET kept == SelectSeq([i \in 1 .. Len(s) |-> i], LAMBDA i : i \in I)
    IN  [k \in DOMAIN kept |-> s[kept[k]]]

Smallest(I, n) == { i \in I : Cardinality({ j \in I : j < i }) < n }

(* c runs ordinary code, or has come back from the schedule call in k. *)
Starts(c, k, service) == Acts(c, k, service) /\ call[c] = "none"
Resumes(c, k) == fault = "none" /\ c = current /\ call[c] = k

Block(c) == [state EXCEPT ![c] = "Blocked"]

(* unblock: the state changes, whatever it was, and nothing is queued. *)
Unblock(P) == [p \in Pids |-> IF p \in P THEN "Ready" ELSE state[p]]

-----------------------------------------------------------------------------
(* The sleep queue *)

(* Mutant of Ticks: rounded down. *)
TicksFloor(ms) == ms \div MsPerTick

Ticks(ms) == (ms + MsPerTick - 1) \div MsPerTick

(* Mutant of sleep_ms: a slot is taken without looking whether it is free. *)
sleep_ms_overwrites(p, ms) ==
    [sleepers EXCEPT ![1] = [pid |-> p, left |-> Ticks(ms)]]

(* Timer::sleep_ms takes the first free slot; a full table is not told to  *)
(* the process, which has been marked Blocked already.                     *)
sleep_ms(p, ms) ==
    LET free == { i \in Slots : sleepers[i] = NoSleeper } IN
    IF free = {} THEN sleepers
    ELSE [sleepers EXCEPT ![CHOOSE i \in free : \A j \in free : i <= j] =
            [pid |-> p, left |-> Ticks(ms)]]

(* Mutant of Expired: the tick is compared for equality. *)
ExpiredExactly(i) == sleepers[i] # NoSleeper /\ sleepers[i].left = 1

Expired(i) == sleepers[i] # NoSleeper /\ sleepers[i].left <= 1

(* The slots whose process wake_sleepers makes Ready; a second slot of the *)
(* same process finds it Ready.                                            *)
Wakes(i) ==
    /\ Expired(i)
    /\ state[sleepers[i].pid] = "Blocked"
    /\ \A j \in 1 .. (i - 1) : ~(Expired(j) /\ sleepers[j].pid = sleepers[i].pid)

Woken == SubSeqAt([i \in Slots |-> sleepers[i].pid], { i \in Slots : Wakes(i) })

InterruptsOn ==
    /\ pc[current] # "join"
    /\ call[current] \notin {"sleep", "futex", "receive"}

(* timer_handler: Timer::tick, then schedule once preemption is on. *)
tick ==
    LET woken == { Woken[k] : k \in DOMAIN Woken } IN
    /\ fault = "none" /\ InterruptsOn
    /\ sleepers' = [i \in Slots |->
                      IF sleepers[i] = NoSleeper \/ Expired(i) THEN NoSleeper
                      ELSE [sleepers[i] EXCEPT !.left = @ - 1]]
    /\ timed_out' = [p \in Pids |-> timed_out[p] \/ p \in woken]
    /\ due' = [p \in Pids |-> IF due[p] > MsPerTick THEN due[p] - MsPerTick ELSE 0]
    /\ IF preempt THEN schedule(Unblock(woken), ready \o Woken)
                  ELSE SetState(Unblock(woken), ready \o Woken)
    /\ UNCHANGED <<taskVars, contVars, modeVars>>
    /\ UNCHANGED <<futexes, word, items, readers, call, addr>>

Sleep(c, ms, k) ==
    /\ sleepers' = sleep_ms(c, ms)
    /\ due' = [due EXCEPT ![c] = ms]
    /\ call' = [call EXCEPT ![c] = k]
    /\ UNCHANGED <<taskVars, contVars, modeVars>>
    /\ UNCHANGED <<timed_out, futexes, word, items, readers, addr>>

sys_nanosleep(c, ms) ==
    /\ Starts(c, "user", "sleep")
    /\ schedule(Block(c), ready)
    /\ Sleep(c, IF ms = 0 THEN 1 ELSE ms, "sleep")

(* With no input and a timeout; otherwise poll returns at once. *)
sys_poll(c, ms) ==
    /\ Starts(c, "user", "poll")
    /\ ms > 0
    /\ schedule(Block(c), ready)
    /\ Sleep(c, ms, "sleep")

(* After schedule, in both: the process is Running whatever woke it. *)
sleep_return(c) ==
    /\ Resumes(c, "sleep")
    /\ SetState([state EXCEPT ![c] = "Running"], ready)
    /\ timed_out' = [timed_out EXCEPT ![c] = FALSE]
    /\ call' = [call EXCEPT ![c] = "none"]
    /\ UNCHANGED <<taskVars, contVars, modeVars>>
    /\ UNCHANGED <<sleepers, futexes, word, items, readers, addr, due>>

(* The generic nanosleep goes on without schedule. *)
nanosleep_generic(c, ms) ==
    /\ Starts(c, "user", "generic")
    /\ Len(ready) + Cardinality({ i \in Slots : sleepers[i] # NoSleeper }) < MaxQueue
    /\ SetState(Block(c), ready)
    /\ Sleep(c, ms, "none")

(* Frame pacing: sleep_ms, then yield_now, with interrupts on in between. *)
pace(c, ms) ==
    /\ Starts(c, "kthread", "pace") /\ c # Boot
    /\ SetState(Block(c), ready)
    /\ Sleep(c, ms, "pace")

pace_yield(c) ==
    /\ Resumes(c, "pace")
    /\ schedule(state, ready)
    /\ call' = [call EXCEPT ![c] = "none"]
    /\ UNCHANGED <<taskVars, contVars, modeVars>>
    /\ UNCHANGED <<sleepers, timed_out, futexes, word, items, readers, addr, due>>

-----------------------------------------------------------------------------
(* Futexes *)

(* Mutant of CompareWord: FUTEX_WAIT blocks whatever the word holds. *)
CompareNothing(a, v) == TRUE

CompareWord(a, v) == word[a] = v

(* FUTEX_WAIT and FUTEX_WAIT_BITSET; another value in the word is EAGAIN. *)
futex_wait(c, a, v, b, timeout) ==
    /\ Starts(c, "user", IF timeout = NoTimeout THEN "futex" ELSE "timed futex")
    /\ CompareWord(a, v)
    /\ Len(futexes[a]) < MaxWaiters
    /\ futexes' = [futexes EXCEPT ![a] = Append(@, [pid |-> c, bits |-> b, val |-> v])]
    /\ timed_out' = [timed_out EXCEPT ![c] = FALSE]
    /\ sleepers' = IF timeout = NoTimeout THEN sleepers ELSE sleep_ms(c, timeout)
    /\ schedule(Block(c), ready)
    /\ call' = [call EXCEPT ![c] = "futex"]
    /\ addr' = [addr EXCEPT ![c] = a]
    /\ UNCHANGED <<taskVars, contVars, modeVars, word, items, readers, due>>

(* Mutant of cancel_wait: the entry stays. *)
cancel_nothing(a, p) == futexes

cancel_wait(a, p) ==
    [futexes EXCEPT ![a] = SelectSeq(@, LAMBDA w : w.pid # p)]

(* After schedule: a wait that timed out gives up its place. *)
futex_wait_return(c) ==
    /\ Resumes(c, "futex")
    /\ futexes' = IF timed_out[c] THEN cancel_wait(addr[c], c) ELSE futexes
    /\ call' = [call EXCEPT ![c] = "none"]
    /\ addr' = [addr EXCEPT ![c] = NoAddr]
    /\ UNCHANGED <<cpuVars, taskVars, contVars, modeVars>>
    /\ UNCHANGED <<sleepers, timed_out, word, items, readers, due>>

(* FutexManager::wake: the first n waiters with a bit of b leave the queue *)
(* and are unblocked.                                                      *)
Wake(a, n, b) ==
    LET I == Smallest({ i \in DOMAIN futexes[a] : futexes[a][i].bits \cap b # {} }, n)
    IN  /\ futexes' = [futexes EXCEPT ![a] = SubSeqAt(@, DOMAIN @ \ I)]
        /\ SetState(Unblock({ futexes[a][i].pid : i \in I }), ready)

futex_wake(c, a, n, b) ==
    /\ Starts(c, "user", "wake")
    /\ Wake(a, n, b)
    /\ UNCHANGED <<taskVars, contVars, modeVars>>
    /\ UNCHANGED <<sleepers, timed_out, word, items, readers, call, addr, due>>

(* FUTEX_REQUEUE, and FUTEX_CMP_REQUEUE once the word has compared equal:  *)
(* n waiters of a are unblocked and up to m more moved behind those of a2. *)
futex_requeue(c, a, a2, n, m) ==
    LET q == futexes[a]
        woken == DOMAIN q \cap 1 .. n
        moved == DOMAIN q \cap (n + 1) .. (n + m)
        rest == [futexes EXCEPT ![a] = SubSeqAt(q, DOMAIN q \ (woken \cup moved))]
    IN  /\ Starts(c, "user", "requeue")
        /\ Len(rest[a2]) + Cardinality(moved) <= MaxWaiters
        /\ futexes' = [rest EXCEPT ![a2] = @ \o SubSeqAt(q, moved)]
        /\ SetState(Unblock({ q[i].pid : i \in woken }), ready)
        /\ UNCHANGED <<taskVars, contVars, modeVars>>
        /\ UNCHANGED <<sleepers, timed_out, word, items, readers, call, addr, due>>

(* How user code uses the two: it stores to the word, with interrupts on,  *)
(* and then calls FUTEX_WAKE for every waiter.                             *)
store(c, a, v) ==
    /\ Starts(c, "user", "store")
    /\ word[a] # v
    /\ word' = [word EXCEPT ![a] = v]
    /\ call' = [call EXCEPT ![c] = "announce"]
    /\ addr' = [addr EXCEPT ![c] = a]
    /\ UNCHANGED <<cpuVars, taskVars, contVars, modeVars>>
    /\ UNCHANGED <<sleepers, timed_out, futexes, items, readers, due>>

announce(c) ==
    /\ Resumes(c, "announce")
    /\ Wake(addr[c], MaxWaiters, Bits)
    /\ call' = [call EXCEPT ![c] = "none"]
    /\ addr' = [addr EXCEPT ![c] = NoAddr]
    /\ UNCHANGED <<taskVars, contVars, modeVars>>
    /\ UNCHANGED <<sleepers, timed_out, word, items, readers, due>>

-----------------------------------------------------------------------------
(* A pipe; WaitQueue::receive and send, under the event, serio and user    *)
(* schemes, are the same loops over the same WaitCondition.                *)

(* One turn of the loop of read: take what there is, or wait. *)
ReadTurn(c, n) ==
    \/ /\ n \in 1 .. items
       /\ items' = items - n
       /\ call' = [call EXCEPT ![c] = "none"]
       /\ UNCHANGED <<cpuVars, readers>>
    \/ /\ items = 0
       /\ Len(readers) < MaxWaiters
       /\ readers' = Append(readers, c)
       /\ schedule(Block(c), ready)
       /\ call' = [call EXCEPT ![c] = "receive"]
       /\ UNCHANGED items

read(c, n) ==
    /\ Starts(c, "user", "read") \/ Resumes(c, "receive")
    /\ ReadTurn(c, n)
    /\ UNCHANGED <<taskVars, contVars, modeVars>>
    /\ UNCHANGED <<sleepers, timed_out, futexes, word, addr, due>>

(* WaitCondition::notify unblocks every waiter. *)
notify ==
    /\ SetState(Unblock({ readers[i] : i \in DOMAIN readers }), ready)
    /\ readers' = << >>

(* Mutant of write: nobody is notified. *)
write_silent(c) ==
    /\ Starts(c, "user", "write")
    /\ items < MaxItems
    /\ items' = items + 1
    /\ UNCHANGED <<cpuVars, readers>>
    /\ UNCHANGED <<taskVars, contVars, modeVars>>
    /\ UNCHANGED <<sleepers, timed_out, futexes, word, call, addr, due>>

write(c) ==
    /\ Starts(c, "user", "write")
    /\ items < MaxItems
    /\ items' = items + 1
    /\ notify
    /\ UNCHANGED <<taskVars, contVars, modeVars>>
    /\ UNCHANGED <<sleepers, timed_out, futexes, word, call, addr, due>>

-----------------------------------------------------------------------------

(* What the other processes do meanwhile, from Scheduler. *)
Elsewhere(c) ==
    /\ call[c] = "none"
    /\ \/ spawn(c) \/ spawn_kthread(c) \/ yield_now(c) \/ set_preemption(c)
       \/ \E v \in Codes : sys_exit(c, v)
       \/ \E p \in Pids : send_sigkill(c, p) \/ send_sigstop(c, p) \/ send_sigcont(c, p)
    /\ UNCHANGED blockVars

BlockNext ==
    \/ tick
    \/ \E c \in Pids :
          \/ Elsewhere(c)
          \/ sleep_return(c) \/ pace_yield(c) \/ futex_wait_return(c)
          \/ announce(c) \/ write(c)
          \/ \E n \in 1 .. MaxItems : read(c, n)
          \/ \E ms \in Delays :
                sys_nanosleep(c, ms) \/ sys_poll(c, ms) \/ nanosleep_generic(c, ms) \/ pace(c, ms)
          \/ \E a \in Addrs :
                \/ \E v \in Values :
                      \/ store(c, a, v)
                      \/ \E b \in SUBSET Bits, t \in Delays \cup {NoTimeout} : futex_wait(c, a, v, b, t)
                \/ \E n \in 0 .. MaxWaiters, b \in SUBSET Bits : futex_wake(c, a, n, b)
                \/ \E a2 \in Addrs, n, m \in 0 .. MaxWaiters : futex_requeue(c, a, a2, n, m)

(* The timer keeps interrupting, and a system call that the CPU has come   *)
(* back to returns: it runs with interrupts off.                           *)
BlockSpec ==
    /\ BlockInit /\ [][BlockNext]_allVars
    /\ WF_allVars(tick)
    /\ \A c \in Pids : WF_allVars(sleep_return(c) \/ futex_wait_return(c))

-----------------------------------------------------------------------------
(* Properties *)

(* The shell is there to be switched to: schedule finds it behind whatever *)
(* blocks, and does not return to the caller at once.                      *)
ShellAlive == state[Boot] \in {"Ready", "Running"}

(* A nanosleep or poll never returns before its time has passed on the     *)
(* kernel's clock: no slot that an earlier wait left behind cuts it short. *)
(* (SIGCONT ends a sleep.  FUTEX_WAKE leaves a slot behind as well, but    *)
(* the process it wakes does not run again.)                               *)
SleepLasts ==
    [][ShellAlive /\ "stop" \notin workload =>
         \A p \in Pids : call[p] = "sleep" /\ call'[p] # "sleep" => due[p] = 0]_allVars

(* A process whose sleep is in the sleep queue gets the CPU back once      *)
(* preemption stays on, unless it is killed.  (A futex entry that a        *)
(* requeue left behind makes it Ready without queueing it.)                *)
SleepersWake ==
    <>[]preempt /\ []ShellAlive /\ workload \cap {"requeue", "stop"} = {} =>
        \A p \in Pids :
            call[p] = "sleep" /\ (\E i \in Slots : sleepers[i].pid = p)
                ~> call[p] # "sleep" \/ state[p] = "Exited"

Entries == { <<a, i>> \in Addrs \X (1 .. MaxWaiters) : i \in DOMAIN futexes[a] }

(* Whoever has an entry in a futex queue is in FUTEX_WAIT on that address, *)
(* and has one entry: a time-out takes it away.  (A requeued waiter, or    *)
(* one that a signal wakes, gives up a place it does not hold or none.)    *)
WaitersWait ==
    workload \cap {"requeue", "stop"} = {} /\ ShellAlive =>
        /\ \A e \in Entries :
              LET p == futexes[e[1]][e[2]].pid
              IN  call[p] = "futex" /\ addr[p] = e[1]
        /\ \A e, f \in Entries :
              futexes[e[1]][e[2]].pid = futexes[f[1]][f[2]].pid => e = f

(* No missed wake-up: a process in a futex queue has compared the word     *)
(* with the value it holds now, or the process that stored another value   *)
(* has still to call FUTEX_WAKE.                                           *)
NoMissedWake ==
    workload \cap {"requeue", "kill"} = {} =>
        \A e \in Entries :
            LET w == futexes[e[1]][e[2]]
            IN  \/ word[e[1]] = w.val
                \/ w.bits = {}
                \/ \E c \in Pids : call[c] = "announce" /\ addr[c] = e[1]

(* No reader is left waiting while the pipe holds something. *)
NoMissedNotify == items > 0 => readers = << >>

(* A sleeper marked Blocked, and woken, while it is still on the CPU is    *)
(* never resumed from a frame it does not have: the shell is ahead of it   *)
(* in the queue.  (SIGSTOP blocks the shell as well.)                      *)
SleeperHasFrame ==
    "stop" \notin workload /\ ShellAlive => SwitchHasFrame
=============================================================================
