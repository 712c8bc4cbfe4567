-------------------------- MODULE Scheduler_proofs --------------------------
(***************************************************************************)
(* Proofs about the scheduler, for every number of processes, every bound  *)
(* on the queues and every workload.                                       *)
(***************************************************************************)
EXTENDS Scheduler, TLAPS

-----------------------------------------------------------------------------
(* What one call of schedule does *)

(* The values schedule assigns have their types.                           *)
LEMMA ScheduleType ==
    ASSUME TypeOK, NEW s \in [Pids -> States], NEW q \in Seq(Pids), schedule(s, q)
    PROVE  /\ state' \in [Pids -> States]
           /\ ready' \in Seq(Pids)
           /\ current' \in Pids
           /\ stack' \in [Pids -> {"none", "saved", "live"}]
           /\ fault' \in {"none", "wild switch", "panic"}
<1>1. CASE \A i \in DOMAIN q : ~Eligible(s, q[i])
  <2>1. CASE state' = s /\ ready' = << >> /\ UNCHANGED <<current, stack, fault>>
    <3>1. << >> \in Seq(Pids)
      OBVIOUS
    <3> QED BY <2>1, <3>1 DEF TypeOK
  <2> QED BY <1>1, <2>1 DEF schedule, First
<1>2. ASSUME NEW i \in DOMAIN q, state' = s, ready' = SubSeq(q, i + 1, Len(q)),
             UNCHANGED <<current, stack, fault>>
      PROVE  /\ state' \in [Pids -> States]
             /\ ready' \in Seq(Pids)
             /\ current' \in Pids
             /\ stack' \in [Pids -> {"none", "saved", "live"}]
             /\ fault' \in {"none", "wild switch", "panic"}
  <2>1. SubSeq(q, i + 1, Len(q)) \in Seq(Pids)
    OBVIOUS
  <2> QED BY <1>2, <2>1 DEF TypeOK
<1>3. ASSUME NEW i \in DOMAIN q, SwitchTo(q[i], s, SubSeq(q, i + 1, Len(q)))
      PROVE  /\ state' \in [Pids -> States]
             /\ ready' \in Seq(Pids)
             /\ current' \in Pids
             /\ stack' \in [Pids -> {"none", "saved", "live"}]
             /\ fault' \in {"none", "wild switch", "panic"}
  <2> DEFINE n == q[i]
             r == SubSeq(q, i + 1, Len(q))
             s1 == [s EXCEPT ![n] = "Running"]
  <2>1. n \in Pids /\ r \in Seq(Pids)
    OBVIOUS
  <2>2. s1 \in [Pids -> States] /\ [s1 EXCEPT ![current] = "Ready"] \in [Pids -> States]
    BY <2>1 DEF TypeOK, States
  <2>4. SwitchTo(n, s, r)
    BY <1>3
  <2> HIDE DEF n, r
  <2>3. current \in Pids /\ Append(r, current) \in Seq(Pids)
    <3>1. current \in Pids
      BY DEF TypeOK
    <3>2. \A t \in Seq(Pids) : Append(t, current) \in Seq(Pids)
      BY <3>1
    <3> QED BY <2>1, <3>1, <3>2
  <2>5. state' \in [Pids -> States] /\ ready' \in Seq(Pids) /\ current' = n
    BY <2>1, <2>2, <2>3, <2>4 DEF SwitchTo
  <2>6. stack' \in [Pids -> {"none", "saved", "live"}]
    BY <2>1, <2>3, <2>4 DEF SwitchTo, TypeOK
  <2>7. fault' \in {"none", "wild switch", "panic"}
    BY <2>4 DEF SwitchTo, TypeOK
  <2> QED BY <2>1, <2>5, <2>6, <2>7
<1> QED BY <1>1, <1>2, <1>3 DEF schedule

(* schedule leaves exactly the new current process Running, never runs a   *)
(* process that is not in the table, and changes nobody's membership.      *)
LEMMA ScheduleSafe ==
    ASSUME TypeOK, NEW s \in [Pids -> States], NEW q \in Seq(Pids), schedule(s, q),
           \A p \in Pids : s[p] = "Running" => p = current,
           s[current] # "None"
    PROVE  /\ RunningIsCurrent'
           /\ CurrentInTable'
           /\ \A p \in Pids : state'[p] = "None" <=> s[p] = "None"
<1>1. CASE state' = s /\ UNCHANGED current
  BY <1>1 DEF RunningIsCurrent, CurrentInTable
<1>2. ASSUME NEW i \in DOMAIN q, s[q[i]] = "Ready",
             SwitchTo(q[i], s, SubSeq(q, i + 1, Len(q)))
      PROVE  /\ RunningIsCurrent'
             /\ CurrentInTable'
             /\ \A p \in Pids : state'[p] = "None" <=> s[p] = "None"
  <2>1. PICK n \in Pids : n = q[i] /\ s[n] = "Ready"
    BY <1>2
  <2>2. current \in Pids /\ current' = n
    BY <1>2, <2>1 DEF SwitchTo, TypeOK
  <2> DEFINE s1 == [s EXCEPT ![n] = "Running"]
  <2>3. state' = IF s1[current] = "Running" THEN [s1 EXCEPT ![current] = "Ready"] ELSE s1
    BY <1>2, <2>1 DEF SwitchTo
  <2>4. \A p \in Pids : s1[p] = IF p = n THEN "Running" ELSE s[p]
    BY <2>1
  <2>5. \A p \in Pids : state'[p] =
            IF p = current /\ s1[current] = "Running" THEN "Ready" ELSE s1[p]
    BY <2>2, <2>3
  <2> QED BY <2>1, <2>2, <2>4, <2>5 DEF RunningIsCurrent, CurrentInTable
<1> QED BY <1>1, <1>2 DEF schedule, First, Eligible

(* schedule drops no Ready process: what was Ready and queued still is, or *)
(* runs.                                                                   *)
LEMMA ScheduleQueue ==
    ASSUME TypeOK, NEW s \in [Pids -> States], NEW q \in Seq(Pids), schedule(s, q),
           Queued(s, q)
    PROVE  Queued(state', ready')
<1> USE DEF Queued
<1> SUFFICES ASSUME NEW p \in Pids, state'[p] = "Ready"
             PROVE  \E i \in DOMAIN ready' : ready'[i] = p
  OBVIOUS
<1>1. CASE \A i \in DOMAIN q : ~Eligible(s, q[i])
  BY <1>1 DEF schedule, First, Eligible
<1>2. ASSUME NEW i \in DOMAIN q, First(s, q, i), s[q[i]] = "Running",
             state' = s, ready' = SubSeq(q, i + 1, Len(q))
      PROVE  \E k \in DOMAIN ready' : ready'[k] = p
  <2>1. PICK k \in DOMAIN q : q[k] = p
    BY <1>2
  <2>2. k > i
    BY <1>2, <2>1 DEF First, Eligible
  <2>3. Len(ready') = Len(q) - i /\ ready'[k - i] = p /\ k - i \in 1 .. Len(ready')
    BY <1>2, <2>1, <2>2, SMTT(30)
  <2> QED BY <2>3, <1>2
<1>3. ASSUME NEW i \in DOMAIN q, First(s, q, i), s[q[i]] = "Ready",
             SwitchTo(q[i], s, SubSeq(q, i + 1, Len(q)))
      PROVE  \E k \in DOMAIN ready' : ready'[k] = p
  <2>1. PICK n \in Pids : n = q[i] /\ s[n] = "Ready"
    BY <1>3
  <2>2. PICK r \in Seq(Pids) : /\ r = SubSeq(q, i + 1, Len(q))
                               /\ Len(r) = Len(q) - i
                               /\ \A k \in 1 .. Len(r) : r[k] = q[k + i]
    <3>1. SubSeq(q, i + 1, Len(q)) \in Seq(Pids)
      OBVIOUS
    <3>2. Len(SubSeq(q, i + 1, Len(q))) = Len(q) - i
      OBVIOUS
    <3>3. \A k \in 1 .. (Len(q) - i) : SubSeq(q, i + 1, Len(q))[k] = q[k + i]
      OBVIOUS
    <3> QED BY <3>1, <3>2, <3>3, Zenon
  <2>3. SwitchTo(n, s, r) /\ current \in Pids
    BY <1>3, <2>1, <2>2 DEF TypeOK
  <2> DEFINE s1 == [s EXCEPT ![n] = "Running"]
  <2>4. CASE s1[current] = "Running" /\ p = current
    <3>1. ready' = Append(r, current)
      BY <2>3, <2>4 DEF SwitchTo
    <3> QED BY <3>1, <2>2, <2>3, <2>4
  <2>5. CASE ~(s1[current] = "Running" /\ p = current)
    <3>1. s1[p] = "Ready"
      BY <2>3, <2>5 DEF SwitchTo
    <3>2. p # n /\ s[p] = "Ready"
      BY <3>1, <2>1
    <3>3. PICK k \in DOMAIN q : q[k] = p
      BY <3>2
    <3>4. k > i
      BY <1>3, <2>1, <3>2, <3>3 DEF First, Eligible
    <3>5. k - i \in 1 .. Len(r) /\ r[k - i] = p
      <4>1. i \in 1 .. Len(q) /\ k \in 1 .. Len(q)
        OBVIOUS
      <4>2. k - i \in 1 .. Len(r)
        BY <2>2, <3>4, <4>1, SMTT(30)
      <4>3. (k - i) + i = k
        BY <4>1
      <4> QED BY <2>2, <3>3, <4>2, <4>3, SMTT(30)
    <3>6. ready' = r \/ ready' = Append(r, current)
      BY <2>3 DEF SwitchTo
    <3>7. ready' = r => k - i \in DOMAIN ready' /\ ready'[k - i] = p
      BY <3>5, <2>2
    <3>8. ready' = Append(r, current) => k - i \in DOMAIN ready' /\ ready'[k - i] = p
      BY <3>5, <2>2, <2>3
    <3> QED BY <3>6, <3>7, <3>8
  <2> QED BY <2>4, <2>5
<1> QED BY <1>1, <1>2, <1>3, Zenon DEF schedule, First, Eligible

-----------------------------------------------------------------------------
(* Type correctness *)

LEMMA TypeInit == Init => TypeOK
<1> SUFFICES ASSUME Init PROVE TypeOK
  OBVIOUS
<1>1. Boot \in Pids /\ << >> \in Seq(Pids) /\ 2 \in 2 .. (MaxPid + 1)
  BY SchedulerAssumption DEF Boot, Pids
<1>2. joined \in [pid : Pids \cup {0}, value : Int, exited : BOOLEAN]
  BY DEF Init, NotJoined
<1>3. /\ kind \in [Pids -> Kinds]
      /\ state \in [Pids -> States]
      /\ stack \in [Pids -> {"none", "saved", "live"}]
      /\ pc \in [Pids -> {"run", "exit", "join", "halt"}]
  BY DEF Init, States, Kinds
<1>4. code \in [Pids -> Int] /\ parent \in [Pids -> Pids \cup {0}]
      /\ target \in [Pids -> Pids \cup {0}]
  BY DEF Init
<1>5. joiners \in [Pids -> Seq(Pids)] /\ wakeList \in [Pids -> Seq(Pids)]
  BY <1>1 DEF Init
<1>6. /\ next_pid \in 2 .. (MaxPid + 1) /\ ready \in Seq(Pids) /\ current \in Pids
      /\ preempt \in BOOLEAN /\ fault \in {"none", "wild switch", "panic"}
      /\ workload \in Workloads
  BY <1>1, Zenon DEF Init
<1> QED BY <1>2, <1>3, <1>4, <1>5, <1>6 DEF TypeOK

(* The part of the state that schedule and SetState assign, typed.         *)
CpuTyped ==
    /\ state' \in [Pids -> States]
    /\ ready' \in Seq(Pids)
    /\ current' \in Pids
    /\ stack' \in [Pids -> {"none", "saved", "live"}]
    /\ fault' \in {"none", "wild switch", "panic"}

LEMMA SetStateType ==
    ASSUME TypeOK, NEW s \in [Pids -> States], NEW q \in Seq(Pids), SetState(s, q)
    PROVE  CpuTyped
BY DEF TypeOK, SetState, CpuTyped

LEMMA InsertType ==
    ASSUME TypeOK, NEW k \in Kinds, NEW par \in Pids \cup {0},
           NEW frame \in {"none", "saved"}, Insert(k, par, frame)
    PROVE  /\ next_pid' \in 2 .. (MaxPid + 1)
           /\ kind' \in [Pids -> Kinds]
           /\ code' \in [Pids -> Int]
           /\ parent' \in [Pids -> Pids \cup {0}]
           /\ joiners' \in [Pids -> Seq(Pids)]
           /\ CpuTyped
<1>1. next_pid \in Pids /\ next_pid' \in 2 .. (MaxPid + 1)
  <2>1. next_pid \in 2 .. (MaxPid + 1) /\ next_pid <= MaxPid /\ next_pid' = next_pid + 1
    BY DEF TypeOK, Insert
  <2> QED BY <2>1, SchedulerAssumption DEF Pids
<1>2. kind' \in [Pids -> Kinds] /\ parent' \in [Pids -> Pids \cup {0}]
  BY <1>1 DEF TypeOK, Insert
<1>3. code' \in [Pids -> Int] /\ joiners' \in [Pids -> Seq(Pids)]
  BY DEF TypeOK, Insert
<1>4. state' \in [Pids -> States]
  BY <1>1 DEF TypeOK, Insert, States
<1>5. ready' \in Seq(Pids)
  <2>1. ready \in Seq(Pids)
    BY DEF TypeOK
  <2>2. Append(ready, next_pid) \in Seq(Pids)
    BY <1>1, <2>1
  <2> QED BY <2>2 DEF Insert
<1>6. stack' \in [Pids -> {"none", "saved", "live"}]
  BY <1>1 DEF TypeOK, Insert
<1>7. current' \in Pids /\ fault' \in {"none", "wild switch", "panic"}
  BY DEF TypeOK, Insert
<1> QED BY <1>1, <1>2, <1>3, <1>4, <1>5, <1>6, <1>7 DEF CpuTyped

LEMMA ExitProcessType ==
    ASSUME TypeOK, NEW p \in Pids, NEW v \in Int, exit_process(p, v)
    PROVE  /\ UNCHANGED <<next_pid, kind, parent>>
           /\ code' \in [Pids -> Int]
           /\ joiners' \in [Pids -> Seq(Pids)]
           /\ CpuTyped
<1> DEFINE s == WakeAll([state EXCEPT ![p] = "Exited"], joiners[p])
           q == ready \o joiners[p]
<1>1. s \in [Pids -> States]
  BY DEF TypeOK, WakeAll, States
<1>2. ready \in Seq(Pids) /\ joiners[p] \in Seq(Pids)
  BY DEF TypeOK
<1>3. q \in Seq(Pids)
  BY <1>2
<1>4. schedule(s, q) \/ SetState(s, q)
  BY DEF exit_process
<1>5. code' \in [Pids -> Int] /\ UNCHANGED <<next_pid, kind, parent>>
  BY DEF TypeOK, exit_process, Exit
<1>6. joiners' \in [Pids -> Seq(Pids)]
  <2>1. << >> \in Seq(Pids)
    OBVIOUS
  <2> QED BY <2>1 DEF TypeOK, exit_process
<1> HIDE DEF s, q
<1>7. CpuTyped
  BY <1>1, <1>3, <1>4, ScheduleType, SetStateType DEF CpuTyped
<1> QED BY <1>5, <1>6, <1>7

TaskTyped ==
    /\ next_pid' \in 2 .. (MaxPid + 1)
    /\ kind' \in [Pids -> Kinds]
    /\ code' \in [Pids -> Int]
    /\ parent' \in [Pids -> Pids \cup {0}]
    /\ joiners' \in [Pids -> Seq(Pids)]

ContTyped ==
    /\ pc' \in [Pids -> {"run", "exit", "join", "halt"}]
    /\ wakeList' \in [Pids -> Seq(Pids)]
    /\ target' \in [Pids -> Pids \cup {0}]
    /\ joined' \in [pid : Pids \cup {0}, value : Int, exited : BOOLEAN]

ModeTyped == preempt' \in BOOLEAN /\ workload' \in Workloads

LEMMA TypeParts ==
    /\ TypeOK /\ UNCHANGED cpuVars => CpuTyped
    /\ TypeOK /\ UNCHANGED taskVars => TaskTyped
    /\ TypeOK /\ UNCHANGED contVars => ContTyped
    /\ TypeOK /\ UNCHANGED modeVars => ModeTyped
    /\ CpuTyped /\ TaskTyped /\ ContTyped /\ ModeTyped => TypeOK'
<1>1. TypeOK /\ UNCHANGED cpuVars => CpuTyped
  BY DEF TypeOK, cpuVars, CpuTyped
<1>2. TypeOK /\ UNCHANGED taskVars => TaskTyped
  BY DEF TypeOK, taskVars, TaskTyped
<1>3. TypeOK /\ UNCHANGED contVars => ContTyped
  BY Zenon DEF TypeOK, contVars, ContTyped
<1>4. TypeOK /\ UNCHANGED modeVars => ModeTyped
  BY DEF TypeOK, modeVars, ModeTyped
<1>5. CpuTyped /\ TaskTyped /\ ContTyped /\ ModeTyped => TypeOK'
  BY DEF TypeOK, CpuTyped, TaskTyped, ContTyped, ModeTyped
<1> QED BY <1>1, <1>2, <1>3, <1>4, <1>5

(* Insertion: spawn, spawn_kthread and fork.                               *)
LEMMA SpawnType ==
    ASSUME TypeOK, NEW c \in Pids, spawn(c) \/ spawn_kthread(c) \/ fork(c)
    PROVE  TypeOK'
<1>1. UNCHANGED contVars /\ UNCHANGED modeVars
  BY DEF spawn, spawn_kthread, fork
<1>2. \E k \in Kinds, par \in Pids \cup {0}, frame \in {"none", "saved"} : Insert(k, par, frame)
  BY DEF spawn, spawn_kthread, fork, Kinds
<1>3. TaskTyped /\ CpuTyped
  BY <1>2, InsertType DEF TaskTyped
<1> QED BY <1>1, <1>3, TypeParts

(* Steps that change nothing but the CPU's part of the state.              *)
LEMMA CpuStepType ==
    ASSUME TypeOK, UNCHANGED <<taskVars, contVars, modeVars>>,
           NEW s \in [Pids -> States], NEW q \in Seq(Pids), schedule(s, q) \/ SetState(s, q)
    PROVE  TypeOK'
BY TypeParts, ScheduleType, SetStateType DEF CpuTyped

(* Leaving the CPU for good: a Boolean combination of the parts.           *)
LEMMA ExitType ==
    ASSUME TypeOK, NEW c \in Pids, NEW v \in Int,
           terminate_current_user_process(c, v) \/ sys_exit(c, v) \/ exit_current_kthread(c, v)
    PROVE  TypeOK'
<1>1. CASE terminate_current_user_process(c, v)
  <2>1. CpuTyped /\ TaskTyped
    BY <1>1, ExitProcessType DEF terminate_current_user_process, TypeOK, TaskTyped
  <2>2. ContTyped /\ ModeTyped
    BY <1>1 DEF terminate_current_user_process, TypeOK, ContTyped, ModeTyped, modeVars
  <2> QED BY <2>1, <2>2, TypeParts
<1>2. CASE sys_exit(c, v)
  <2>1. [state EXCEPT ![c] = "Exited"] \in [Pids -> States] /\ ready \in Seq(Pids)
    BY DEF TypeOK, States
  <2>2. CpuTyped
    BY <1>2, <2>1, ScheduleType DEF sys_exit, CpuTyped
  <2>3. TaskTyped
    BY <1>2 DEF sys_exit, Exit, TypeOK, TaskTyped
  <2>4. ContTyped /\ ModeTyped
    BY <1>2 DEF sys_exit, TypeOK, ContTyped, ModeTyped, modeVars
  <2> QED BY <2>2, <2>3, <2>4, TypeParts
<1>3. CASE exit_current_kthread(c, v)
  <2>1. [state EXCEPT ![c] = "Exited"] \in [Pids -> States] /\ ready \in Seq(Pids)
    BY DEF TypeOK, States
  <2>2. CpuTyped
    BY <1>3, <2>1, SetStateType, Zenon DEF exit_current_kthread
  <2>3. TaskTyped
    <3>1. << >> \in Seq(Pids)
      OBVIOUS
    <3> QED BY <1>3, <3>1 DEF exit_current_kthread, Exit, TypeOK, TaskTyped
  <2>4. ContTyped /\ ModeTyped
    BY <1>3 DEF exit_current_kthread, TypeOK, ContTyped, ModeTyped, modeVars
  <2> QED BY <2>2, <2>3, <2>4, TypeParts
<1> QED BY <1>1, <1>2, <1>3

(* The steps that follow in the exit of a kernel thread.                   *)
LEMMA ExitContType ==
    ASSUME TypeOK, NEW c \in Pids, exit_wake(c) \/ exit_schedule(c)
    PROVE  TypeOK'
<1>1. CASE exit_wake(c)
  <2>1. wakeList[c] \in Seq(Pids) /\ wakeList[c] # << >>
    BY <1>1 DEF TypeOK, exit_wake
  <2>2. Head(wakeList[c]) \in Pids /\ Tail(wakeList[c]) \in Seq(Pids)
    BY <2>1
  <2> DEFINE p == Head(wakeList[c])
             s == [state EXCEPT ![p] = "Ready"]
             q == Append(ready, p)
  <2>3. s \in [Pids -> States] /\ q \in Seq(Pids)
    <3>1. ready \in Seq(Pids)
      BY DEF TypeOK
    <3>2. \A x \in Pids : Append(ready, x) \in Seq(Pids)
      BY <3>1
    <3>3. \A x \in Pids : [state EXCEPT ![x] = "Ready"] \in [Pids -> States]
      BY DEF TypeOK, States
    <3> QED BY <2>2, <3>2, <3>3
  <2>4. UNCHANGED cpuVars \/ SetState(s, q)
    BY <1>1 DEF exit_wake
  <2> HIDE DEF s, q
  <2>5. CpuTyped
    BY <2>3, <2>4, SetStateType, TypeParts
  <2>6. ContTyped
    BY <1>1, <2>2, Zenon DEF exit_wake, TypeOK, ContTyped
  <2>7. TaskTyped /\ ModeTyped
    BY <1>1, TypeParts DEF exit_wake
  <2> QED BY <2>5, <2>6, <2>7, TypeParts
<1>2. CASE exit_schedule(c)
  <2>1. CpuTyped
    BY <1>2, ScheduleType DEF exit_schedule, CpuTyped, TypeOK
  <2>2. ContTyped
    BY <1>2, Zenon DEF exit_schedule, TypeOK, ContTyped
  <2>3. TaskTyped /\ ModeTyped
    BY <1>2, TypeParts DEF exit_schedule
  <2> QED BY <2>1, <2>2, <2>3, TypeParts
<1> QED BY <1>1, <1>2

LEMMA JoinType ==
    ASSUME TypeOK, NEW c \in Pids, NEW t \in Pids, join_kthread(c, t)
    PROVE  TypeOK'
<1>1. CASE state[t] = "Exited"
  <2>1. CpuTyped /\ TaskTyped /\ ModeTyped
    BY <1>1, TypeParts, SMTT(30) DEF join_kthread, taskVars
  <2>2. code[t] \in Int /\ joined' = [pid |-> t, value |-> code[t], exited |-> TRUE]
    BY <1>1 DEF join_kthread, Return, TypeOK
  <2>3. UNCHANGED <<pc, target, wakeList>>
    BY <1>1 DEF join_kthread
  <2>4. ContTyped
    BY <2>2, <2>3 DEF TypeOK, ContTyped
  <2> QED BY <2>1, <2>4, TypeParts
<1>2. CASE state[t] # "Exited"
  <2> DEFINE s == IF state[c] = "Running" THEN [state EXCEPT ![c] = "Blocked"] ELSE state
  <2>1. s \in [Pids -> States] /\ ready \in Seq(Pids)
    BY DEF TypeOK, States
  <2>2. schedule(s, ready)
    BY <1>2 DEF join_kthread
  <2> HIDE DEF s
  <2>3. CpuTyped
    BY <2>1, <2>2, ScheduleType DEF CpuTyped
  <2>4. joiners' \in [Pids -> Seq(Pids)]
    <3>1. joiners[t] \in Seq(Pids)
      BY DEF TypeOK
    <3>2. Append(joiners[t], c) \in Seq(Pids)
      BY <3>1
    <3> QED BY <1>2, <3>2, ZenonT(60) DEF join_kthread, TypeOK
  <2>5. TaskTyped
    BY <1>2, <2>4 DEF join_kthread, TypeOK, TaskTyped
  <2>6. ContTyped /\ ModeTyped
    <3>1. /\ pc' = [pc EXCEPT ![c] = "join"]
          /\ target' = [target EXCEPT ![c] = t]
          /\ UNCHANGED <<joined, wakeList, modeVars>>
      BY <1>2 DEF join_kthread
    <3> QED BY <3>1 DEF TypeOK, ContTyped, ModeTyped, modeVars
  <2> QED BY <2>3, <2>5, <2>6, TypeParts
<1> QED BY <1>1, <1>2

LEMMA JoinReturnType ==
    ASSUME TypeOK, NEW c \in Pids, join_return(c)
    PROVE  TypeOK'
<1>1. CpuTyped /\ TaskTyped /\ ModeTyped
  BY TypeParts DEF join_return
<1>2. ContTyped
  BY DEF join_return, Return, TypeOK, ContTyped
<1> QED BY <1>1, <1>2, TypeParts

LEMMA KillType ==
    ASSUME TypeOK, NEW c \in Pids, NEW t \in Pids, send_sigkill(c, t)
    PROVE  TypeOK'
<1>1. Kill(state, t) \in [Pids -> States] /\ ready \in Seq(Pids)
  BY ZenonT(60) DEF TypeOK, States, Kill
<1>2. CpuTyped
  BY <1>1, ScheduleType, SetStateType DEF send_sigkill, CpuTyped
<1>3. TaskTyped
  <2>1. -1 \in Int
    BY SMTT(30)
  <2>2. code' = [code EXCEPT ![t] = -1] /\ UNCHANGED <<next_pid, kind, parent, joiners>>
    BY DEF send_sigkill, Exit
  <2> QED BY <2>1, <2>2 DEF TypeOK, TaskTyped
<1>4. ContTyped /\ ModeTyped
  BY DEF send_sigkill, TypeOK, ContTyped, ModeTyped, modeVars
<1> QED BY <1>2, <1>3, <1>4, TypeParts

LEMMA TypeNext == TypeOK /\ [Next]_vars => TypeOK'
<1> SUFFICES ASSUME TypeOK, [Next]_vars PROVE TypeOK'
  OBVIOUS
<1>0. ready \in Seq(Pids) /\ state \in [Pids -> States] /\ current \in Pids
  BY DEF TypeOK
<1>1. CASE timer_handler
  BY <1>0, <1>1, CpuStepType DEF timer_handler
<1>2. ASSUME NEW c \in Pids, spawn(c) \/ spawn_kthread(c) \/ fork(c) PROVE TypeOK'
  BY <1>2, SpawnType
<1>3. ASSUME NEW c \in Pids, spawn_fails(c) PROVE TypeOK'
  <2>1. next_pid' \in 2 .. (MaxPid + 1)
    <3>1. next_pid \in 2 .. (MaxPid + 1) /\ next_pid <= MaxPid /\ next_pid' = next_pid + 1
      BY <1>3 DEF spawn_fails, TypeOK
    <3> QED BY <3>1, SchedulerAssumption
  <2>2. TaskTyped
    BY <1>3, <2>1 DEF spawn_fails, TypeOK, TaskTyped
  <2> QED BY <1>3, <2>2, TypeParts DEF spawn_fails
<1>4. ASSUME NEW c \in Pids, exit_wake(c) \/ exit_schedule(c) PROVE TypeOK'
  BY <1>4, ExitContType
<1>5. ASSUME NEW c \in Pids, join_return(c) PROVE TypeOK'
  BY <1>5, JoinReturnType
<1>6. ASSUME NEW c \in Pids, exec_process(c) \/ sched_yield(c) PROVE TypeOK'
  <2>1. [state EXCEPT ![c] = "Ready"] \in [Pids -> States]
    BY <1>0 DEF States
  <2> QED BY <1>0, <1>6, <2>1, CpuStepType, Zenon DEF exec_process, sched_yield
<1>7. ASSUME NEW c \in Pids, yield_now(c) PROVE TypeOK'
  BY <1>0, <1>7, CpuStepType DEF yield_now
<1>8. ASSUME NEW c \in Pids, set_preemption(c) PROVE TypeOK'
  <2>1. ModeTyped
    BY <1>8 DEF set_preemption, TypeOK, ModeTyped
  <2> QED BY <1>8, <2>1, TypeParts DEF set_preemption
<1>9. ASSUME NEW c \in Pids, NEW v \in Codes,
             terminate_current_user_process(c, v) \/ sys_exit(c, v) \/ exit_current_kthread(c, v)
      PROVE  TypeOK'
  BY <1>9, ExitType, SchedulerAssumption
<1>10. ASSUME NEW c \in Pids, NEW t \in Pids, join_unknown(c, t) PROVE TypeOK'
  <2>1. CpuTyped
    BY <1>10 DEF join_unknown, TypeOK, CpuTyped
  <2> QED BY <1>10, <2>1, TypeParts DEF join_unknown
<1>11. ASSUME NEW c \in Pids, NEW t \in Pids, join_kthread(c, t) PROVE TypeOK'
  BY <1>11, JoinType
<1>12. ASSUME NEW c \in Pids, NEW t \in Pids, cancel_kthread(c, t) PROVE TypeOK'
  <2>1. exit_process(t, -1) /\ -1 \in Int
    BY <1>12 DEF cancel_kthread
  <2>2. CpuTyped /\ TaskTyped
    BY <2>1, ExitProcessType DEF TypeOK, TaskTyped
  <2> QED BY <1>12, <2>2, TypeParts DEF cancel_kthread
<1>13. ASSUME NEW c \in Pids, NEW t \in Pids, waitpid(c, t) PROVE TypeOK'
  <2>1. [state EXCEPT ![t] = "None"] \in [Pids -> States]
    BY <1>0 DEF States
  <2> QED BY <1>0, <1>13, <2>1, CpuStepType, Zenon DEF waitpid
<1>14. ASSUME NEW c \in Pids, NEW t \in Pids, send_sigkill(c, t) PROVE TypeOK'
  BY <1>14, KillType
<1>15. ASSUME NEW c \in Pids, NEW t \in Pids, send_sigstop(c, t) PROVE TypeOK'
  <2>1. [state EXCEPT ![t] = "Blocked"] \in [Pids -> States]
    BY <1>0 DEF States
  <2> QED BY <1>0, <1>15, <2>1, CpuStepType, Zenon DEF send_sigstop
<1>16. ASSUME NEW c \in Pids, NEW t \in Pids, send_sigcont(c, t) PROVE TypeOK'
  <2>1. [state EXCEPT ![t] = "Ready"] \in [Pids -> States]
    BY <1>0 DEF States
  <2>2. Append(ready, t) \in Seq(Pids)
    BY <1>0
  <2> QED BY <1>16, <2>1, <2>2, CpuStepType, Zenon DEF send_sigcont
<1>17. CASE UNCHANGED vars
  BY <1>17, TypeParts DEF vars
<1> QED BY <1>1, <1>2, <1>3, <1>4, <1>5, <1>6, <1>7, <1>8, <1>9, <1>10, <1>11,
           <1>12, <1>13, <1>14, <1>15, <1>16, <1>17 DEF Next

-----------------------------------------------------------------------------
(* The process table *)

(* A list of waiters: kernel threads that are in the table.                *)
Held(w) == \A i \in DOMAIN w : kind[w[i]] = "kthread" /\ state[w[i]] # "None"

Inv == TypeOK /\ RunningIsCurrent /\ CurrentInTable /\ WaitersInTable /\ TableInv

LEMMA SeqElement == \A w \in Seq(Pids) : \A i \in DOMAIN w : w[i] \in Pids
BY SMTT(30)

LEMMA InvHeld ==
    ASSUME Inv
    PROVE  \A t \in Pids : Held(joiners[t]) /\ Held(wakeList[t])
BY DEF Inv, WaitersInTable, TableInv, Held

(* A change s of the states that neither adds a process to the table nor   *)
(* removes one, applied with or without a call of schedule.                *)
LEMMA TableKept ==
    ASSUME Inv, TypeOK',
           NEW s \in [Pids -> States], NEW q \in Seq(Pids), schedule(s, q) \/ SetState(s, q),
           \A p \in Pids : s[p] = "None" <=> state[p] = "None",
           \A p \in Pids : s[p] = "Running" => p = current,
           UNCHANGED <<next_pid, kind, parent>>,
           \A t \in Pids : Held(joiners'[t]) /\ Held(wakeList'[t])
    PROVE  Inv'
<1>1. TypeOK /\ s[current] # "None"
  BY DEF Inv, TypeOK, CurrentInTable
<1>2. /\ RunningIsCurrent'
      /\ CurrentInTable'
      /\ \A p \in Pids : state'[p] = "None" <=> s[p] = "None"
  <2>1. CASE schedule(s, q)
    BY <1>1, <2>1, ScheduleSafe
  <2>2. CASE SetState(s, q)
    BY <1>1, <2>2, SMTT(30) DEF SetState, RunningIsCurrent, CurrentInTable
  <2> QED BY <2>1, <2>2
<1>3. \A p \in Pids : state'[p] = "None" <=> state[p] = "None"
  BY <1>2
<1>4. \A t \in Pids : /\ \A i \in DOMAIN joiners'[t] : joiners'[t][i] \in Pids
                      /\ \A i \in DOMAIN wakeList'[t] : wakeList'[t][i] \in Pids
  <2>1. \A t \in Pids : joiners'[t] \in Seq(Pids) /\ wakeList'[t] \in Seq(Pids)
    BY ZenonT(60) DEF TypeOK
  <2> QED BY <2>1, SeqElement
<1>5. WaitersInTable'
  BY <1>3, <1>4, SMTT(30) DEF WaitersInTable, Held
<1>6. TableInv'
  BY <1>3, <1>4, ZenonT(60) DEF Inv, TableInv, Held
<1> QED BY <1>2, <1>5, <1>6, SMTT(30) DEF Inv

(* The usual change: process p of the table gets a state other than        *)
(* Running.                                                                *)
LEMMA StateChange ==
    ASSUME Inv, NEW p \in Pids, state[p] # "None", NEW x \in {"Ready", "Blocked", "Exited"}
    PROVE  /\ [state EXCEPT ![p] = x] \in [Pids -> States]
           /\ \A r \in Pids : [state EXCEPT ![p] = x][r] = "None" <=> state[r] = "None"
           /\ \A r \in Pids : [state EXCEPT ![p] = x][r] = "Running" => r = current
BY DEF Inv, TypeOK, States, RunningIsCurrent

LEMMA StateKept ==
    ASSUME Inv
    PROVE  /\ state \in [Pids -> States]
           /\ \A r \in Pids : state[r] = "Running" => r = current
BY DEF Inv, TypeOK, RunningIsCurrent

(* Insertion puts a fresh pid in the table.                                *)
LEMMA InsertInv ==
    ASSUME Inv, TypeOK', NEW k \in Kinds, NEW par \in Pids \cup {0}, NEW frame,
           Insert(k, par, frame), UNCHANGED wakeList,
           par = 0 \/ (k = "user" /\ par = current)
    PROVE  Inv'
<1> DEFINE n == next_pid
<1>1. n \in Pids /\ next_pid' = n + 1 /\ state[n] = "None"
  <2>1. n \in 2 .. (MaxPid + 1) /\ n <= MaxPid /\ next_pid' = n + 1
    BY DEF Inv, TypeOK, Insert
  <2>2. n \in Pids
    BY <2>1, SchedulerAssumption, SMTT(30) DEF Pids
  <2> QED BY <2>1, <2>2, SMTT(30) DEF Inv, TableInv, Pids
<1>2. /\ \A p \in Pids : kind'[p] = IF p = n THEN k ELSE kind[p]
      /\ \A p \in Pids : parent'[p] = IF p = n THEN par ELSE parent[p]
      /\ \A p \in Pids : state'[p] = IF p = n THEN "Ready" ELSE state[p]
      /\ UNCHANGED <<joiners, current>>
  BY <1>1, ZenonT(60) DEF Inv, TypeOK, Insert
<1>3. current \in Pids /\ current < n /\ current # n
  <2>1. current \in Pids /\ n \in Pids /\ state[current] # "None"
    BY <1>1 DEF Inv, TypeOK, CurrentInTable
  <2>2. ~(current >= n)
    BY <2>1 DEF Inv, TableInv
  <2> QED BY <2>1, <2>2 DEF Pids
<1>4. RunningIsCurrent' /\ CurrentInTable'
  BY <1>1, <1>2, <1>3 DEF Inv, RunningIsCurrent, CurrentInTable
<1>5. \A t \in Pids : /\ \A i \in DOMAIN joiners[t] : joiners[t][i] \in Pids /\ joiners[t][i] # n
                      /\ \A i \in DOMAIN wakeList[t] : wakeList[t][i] \in Pids /\ wakeList[t][i] # n
  <2>1. \A t \in Pids : joiners[t] \in Seq(Pids) /\ wakeList[t] \in Seq(Pids)
    BY Zenon DEF Inv, TypeOK
  <2>2. \A t \in Pids : /\ \A i \in DOMAIN joiners[t] : state[joiners[t][i]] # "None"
                        /\ \A i \in DOMAIN wakeList[t] : state[wakeList[t][i]] # "None"
    BY SMTT(30) DEF Inv, WaitersInTable
  <2> QED BY <1>1, <2>1, <2>2, SeqElement, SMTT(30)
<1>6. WaitersInTable'
  BY <1>2, <1>5, SMTT(30) DEF Inv, WaitersInTable
<1>7. TableInv'
  <2>1. \A p \in Pids : p >= next_pid' => state'[p] = "None"
    <3> SUFFICES ASSUME NEW p \in Pids, p >= n + 1 PROVE state'[p] = "None"
      BY <1>1
    <3>1. p # n /\ p >= n
      BY <1>1, SMTT(30) DEF Pids
    <3> QED BY <3>1, <1>2, Zenon DEF Inv, TableInv
  <2>2. \A p \in Pids : parent'[p] < p
    <3>1. par < n
      BY <1>1, <1>3, SMTT(30) DEF Pids
    <3> QED BY <3>1, <1>2 DEF Inv, TableInv
  <2>3. \A p \in Pids : kind'[p] = "kthread" => parent'[p] = 0
    BY <1>2, SMTT(30) DEF Inv, TableInv
  <2>4. \A t \in Pids : \A i \in DOMAIN joiners'[t] : kind'[joiners'[t][i]] = "kthread"
    BY <1>2, <1>5, SMTT(30) DEF Inv, TableInv
  <2>5. \A t \in Pids : \A i \in DOMAIN wakeList'[t] : kind'[wakeList'[t][i]] = "kthread"
    BY <1>2, <1>5 DEF Inv, TableInv
  <2> QED BY <2>1, <2>2, <2>3, <2>4, <2>5, SMTT(30) DEF TableInv
<1> QED BY <1>4, <1>6, <1>7, SMTT(30) DEF Inv

LEMMA InvInit == Init => Inv
<1> SUFFICES ASSUME Init PROVE Inv
  OBVIOUS
<1>1. TypeOK
  BY TypeInit
<1>2. Boot \in Pids /\ \A p \in Pids : p >= 2 => p # Boot
  BY SchedulerAssumption DEF Pids, Boot
<1>3. RunningIsCurrent /\ CurrentInTable
  BY <1>2 DEF Init, RunningIsCurrent, CurrentInTable
<1>4. \A t \in Pids : DOMAIN joiners[t] = {} /\ DOMAIN wakeList[t] = {}
  BY DEF Init
<1>5. WaitersInTable
  BY <1>4 DEF WaitersInTable
<1>6. TableInv
  <2>1. \A p \in Pids : parent[p] = 0 /\ 0 < p
    BY DEF Init, Pids
  <2>2. \A p \in Pids : p >= next_pid => state[p] = "None"
    BY <1>2, SMTT(30) DEF Init
  <2> QED BY <1>4, <2>1, <2>2 DEF TableInv
<1> QED BY <1>1, <1>3, <1>5, <1>6 DEF Inv

(* exit_process with interrupts off.                                       *)
LEMMA ExitProcessInv ==
    ASSUME Inv, TypeOK', NEW p \in Pids, NEW v \in Int, state[p] # "None",
           exit_process(p, v), UNCHANGED wakeList
    PROVE  Inv'
<1> DEFINE s0 == [state EXCEPT ![p] = "Exited"]
           s == WakeAll(s0, joiners[p])
           q == ready \o joiners[p]
<1>1. joiners[p] \in Seq(Pids) /\ ready \in Seq(Pids) /\ Held(joiners[p])
  BY InvHeld DEF Inv, TypeOK
<1>2. q \in Seq(Pids)
  BY <1>1
<1>3. /\ s0 \in [Pids -> States]
      /\ \A r \in Pids : s0[r] = "None" <=> state[r] = "None"
      /\ \A r \in Pids : s0[r] = "Running" => r = current
  BY StateChange, SMTT(30)
<1> HIDE DEF s0
<1>4. /\ s \in [Pids -> States]
      /\ \A r \in Pids : s[r] = "None" <=> state[r] = "None"
      /\ \A r \in Pids : s[r] = "Running" => r = current
  BY <1>1, <1>3 DEF WakeAll, Held, States
<1>5. \A t \in Pids : Held(joiners'[t]) /\ Held(wakeList'[t])
  <2>1. \A t \in Pids : joiners'[t] = IF t = p THEN << >> ELSE joiners[t]
    BY DEF exit_process, Inv, TypeOK
  <2>2. Held(<< >>)
    BY DEF Held
  <2> QED BY <2>1, <2>2, InvHeld, SMTT(30)
<1>6. UNCHANGED <<next_pid, kind, parent>> /\ (schedule(s, q) \/ SetState(s, q))
  BY SMTT(30) DEF exit_process, Exit, s0
<1> HIDE DEF s, q
<1> QED BY <1>2, <1>4, <1>5, <1>6, TableKept, SMTT(30)

LEMMA InvNext == Inv /\ [Next]_vars => Inv'
<1> SUFFICES ASSUME Inv, [Next]_vars PROVE Inv'
  OBVIOUS
<1> USE DEF taskVars, contVars
<1>a. TypeOK /\ TypeOK'
  BY TypeNext, SMTT(30) DEF Inv
<1>b. /\ ready \in Seq(Pids) /\ state \in [Pids -> States]
      /\ current \in Pids /\ state[current] # "None"
  BY <1>a DEF TypeOK, Inv, CurrentInTable
<1>c. /\ \A r \in Pids : state[r] = "Running" => r = current
      /\ \A t \in Pids : Held(joiners[t]) /\ Held(wakeList[t])
  BY InvHeld, SMTT(30) DEF Inv, RunningIsCurrent
<1>1. CASE timer_handler
  BY <1>1, <1>a, <1>b, <1>c, TableKept DEF timer_handler
<1>2. ASSUME NEW c \in Pids, spawn(c) \/ spawn_kthread(c) \/ fork(c) PROVE Inv'
  <2>1. "user" \in Kinds /\ "kthread" \in Kinds /\ UNCHANGED wakeList
    BY <1>2, SMTT(30) DEF Kinds, spawn, spawn_kthread, fork
  <2> QED BY <1>2, <1>a, <2>1, InsertInv DEF spawn, spawn_kthread, fork, Acts
<1>3. ASSUME NEW c \in Pids, spawn_fails(c) PROVE Inv'
  <2>1. next_pid' = next_pid + 1 /\ UNCHANGED <<cpuVars, kind, parent, joiners, wakeList>>
    BY <1>3 DEF spawn_fails
  <2>2. \A p \in Pids : p >= next_pid + 1 => p >= next_pid
    <3>1. next_pid \in 2 .. (MaxPid + 1)
      BY <1>a DEF TypeOK
    <3>2. next_pid \in Int
      BY <3>1, SchedulerAssumption, SMTT(30)
    <3> QED BY <3>2, SMTT(30) DEF Pids
  <2>3. TableInv'
    BY <2>1, <2>2, SMTT(30) DEF Inv, TableInv, cpuVars
  <2> QED BY <1>a, <2>1, <2>3 DEF Inv, RunningIsCurrent, CurrentInTable, WaitersInTable, cpuVars
<1>4. ASSUME NEW c \in Pids, exit_wake(c) PROVE Inv'
  <2>1. wakeList[c] \in Seq(Pids) /\ wakeList[c] # << >> /\ Held(wakeList[c])
    BY <1>4, <1>a, <1>c DEF exit_wake, TypeOK
  <2>2. PICK p \in Pids : p = Head(wakeList[c]) /\ state[p] # "None"
    BY <2>1 DEF Held
  <2>3. Held(Tail(wakeList[c]))
    BY <2>1, SMTT(30) DEF Held
  <2>4. \A t \in Pids : Held(joiners'[t]) /\ Held(wakeList'[t])
    BY <1>4, <1>a, <1>c, <2>3, ZenonT(60) DEF exit_wake, TypeOK
  <2>5. Append(ready, p) \in Seq(Pids)
    BY <1>b, SMTT(30)
  <2>6. SetState([state EXCEPT ![p] = "Ready"], Append(ready, p))
    BY <1>4, <2>2, SMTT(30) DEF exit_wake
  <2> QED BY <1>4, <1>a, <2>2, <2>4, <2>5, <2>6, StateChange, TableKept, Zenon DEF exit_wake
<1>5. ASSUME NEW c \in Pids, exit_schedule(c) \/ yield_now(c) PROVE Inv'
  BY <1>5, <1>a, <1>b, <1>c, TableKept, SMTT(30) DEF exit_schedule, yield_now
<1>6. ASSUME NEW c \in Pids, exec_process(c) \/ sched_yield(c) PROVE Inv'
  <2>1. state[c] # "None"
    BY <1>6, <1>b, SMTT(30) DEF exec_process, sched_yield, Acts
  <2> QED BY <1>6, <1>a, <1>b, <1>c, <2>1, StateChange, TableKept, Zenon
             DEF exec_process, sched_yield
<1>7. ASSUME NEW c \in Pids, join_return(c) \/ set_preemption(c) PROVE Inv'
  <2>1. UNCHANGED <<cpuVars, next_pid, kind, parent, joiners, wakeList>>
    BY <1>7 DEF join_return, set_preemption
  <2> QED BY <1>a, <2>1
        DEF Inv, RunningIsCurrent, CurrentInTable, WaitersInTable, TableInv, cpuVars
<1>8. ASSUME NEW c \in Pids, NEW v \in Codes, terminate_current_user_process(c, v) PROVE Inv'
  <2>1. state[c] # "None" /\ exit_process(c, v) /\ UNCHANGED wakeList /\ v \in Int
    BY <1>8, <1>b, SchedulerAssumption, SMTT(30) DEF terminate_current_user_process, Acts
  <2> QED BY <1>a, <2>1, ExitProcessInv
<1>9. ASSUME NEW c \in Pids, NEW v \in Codes, sys_exit(c, v) PROVE Inv'
  <2>1. state[c] # "None"
    BY <1>9, <1>b DEF sys_exit, Acts
  <2> QED BY <1>9, <1>a, <1>b, <1>c, <2>1, StateChange, TableKept, Zenon DEF sys_exit, Exit
<1>10. ASSUME NEW c \in Pids, NEW v \in Codes, exit_current_kthread(c, v) PROVE Inv'
  <2>1. state[c] # "None"
    BY <1>10, <1>b DEF exit_current_kthread, Acts
  <2>2. Held(<< >>)
    BY DEF Held
  <2>3. \A t \in Pids : Held(joiners'[t]) /\ Held(wakeList'[t])
    BY <1>10, <1>a, <1>c, <2>2, ZenonT(60) DEF exit_current_kthread, TypeOK
  <2> QED BY <1>10, <1>a, <1>b, <2>1, <2>3, StateChange, TableKept, Zenon
             DEF exit_current_kthread, Exit
<1>11. ASSUME NEW c \in Pids, NEW t \in Pids, join_unknown(c, t) PROVE Inv'
  BY <1>11, <1>a, ZenonT(60)
     DEF join_unknown, Inv, RunningIsCurrent, CurrentInTable, WaitersInTable, TableInv
<1>12. ASSUME NEW c \in Pids, NEW t \in Pids, join_kthread(c, t) PROVE Inv'
  <2>1. CASE state[t] = "Exited"
    <3>1. UNCHANGED <<cpuVars, next_pid, kind, parent, joiners, wakeList>>
      BY <1>12, <2>1 DEF join_kthread
    <3> QED BY <1>a, <3>1
          DEF Inv, RunningIsCurrent, CurrentInTable, WaitersInTable, TableInv, cpuVars
  <2>2. CASE state[t] # "Exited"
    <3>1. /\ schedule(IF state[c] = "Running" THEN [state EXCEPT ![c] = "Blocked"] ELSE state, ready)
          /\ joiners' = [joiners EXCEPT ![t] = Append(joiners[t], c)]
          /\ UNCHANGED <<next_pid, kind, parent, wakeList>>
      BY <1>12, <2>2 DEF join_kthread
    <3>2. c = current /\ kind[c] = "kthread" /\ state[c] # "None"
      BY <1>12, <1>b DEF join_kthread, Acts
    <3>3. Held(Append(joiners[t], c))
      <4>1. joiners[t] \in Seq(Pids) /\ Held(joiners[t])
        BY <1>a, <1>c, ZenonT(60) DEF TypeOK
      <4> QED BY <3>2, <4>1 DEF Held
    <3>4. \A u \in Pids : Held(joiners'[u]) /\ Held(wakeList'[u])
      BY <3>1, <3>3, <1>a, <1>c, ZenonT(60) DEF TypeOK
    <3>5. CASE state[c] = "Running"
      BY <3>1, <3>2, <3>4, <3>5, <1>a, <1>b, StateChange, TableKept, Zenon
    <3>6. CASE state[c] # "Running"
      BY <3>1, <3>4, <3>6, <1>a, <1>b, <1>c, TableKept
    <3> QED BY <3>5, <3>6, SMTT(30)
  <2> QED BY <2>1, <2>2
<1>13. ASSUME NEW c \in Pids, NEW t \in Pids, cancel_kthread(c, t) PROVE Inv'
  <2>1. state[t] # "None" /\ exit_process(t, -1) /\ UNCHANGED wakeList /\ -1 \in Int
    BY <1>13 DEF cancel_kthread
  <2> QED BY <1>a, <2>1, ExitProcessInv
<1>14. ASSUME NEW c \in Pids, NEW t \in Pids, waitpid(c, t) PROVE Inv'
  <2>1. /\ c = current /\ parent[t] = c
        /\ UNCHANGED <<next_pid, kind, parent, joiners, wakeList, current>>
        /\ \A p \in Pids : state'[p] = IF p = t THEN "None" ELSE state[p]
    BY <1>14, <1>b, SMTT(30) DEF waitpid, Zombies, Acts, SetState
  <2>2. t # c /\ kind[t] # "kthread"
    BY <2>1 DEF Inv, TableInv, Pids
  <2>3. RunningIsCurrent' /\ CurrentInTable'
    BY <2>1, <2>2, <1>b, <1>c, SMTT(30) DEF RunningIsCurrent, CurrentInTable
  <2>4. \A u \in Pids : /\ \A i \in DOMAIN joiners[u] : joiners[u][i] \in Pids /\ joiners[u][i] # t
                        /\ \A i \in DOMAIN wakeList[u] : wakeList[u][i] \in Pids /\ wakeList[u][i] # t
    <3>1. \A u \in Pids : joiners[u] \in Seq(Pids) /\ wakeList[u] \in Seq(Pids)
      BY <1>a, ZenonT(60) DEF TypeOK
    <3> QED BY <3>1, <2>2, <1>c, SeqElement DEF Held
  <2>5. WaitersInTable'
    BY <2>1, <2>4, SMTT(30) DEF Inv, WaitersInTable
  <2>6. TableInv'
    BY <2>1, SMTT(30) DEF Inv, TableInv
  <2> QED BY <1>a, <2>3, <2>5, <2>6, SMTT(30) DEF Inv
<1>15. ASSUME NEW c \in Pids, NEW t \in Pids, send_sigkill(c, t) PROVE Inv'
  <2>1. state[t] # "None" /\ UNCHANGED <<next_pid, kind, parent, joiners, wakeList>>
    BY <1>15, Zenon DEF send_sigkill, Exit
  <2>2. \/ schedule([state EXCEPT ![t] = "Exited"], ready)
        \/ SetState([state EXCEPT ![t] = "Exited"], ready)
    BY <1>15, SMTT(30) DEF send_sigkill, Kill
  <2> QED BY <1>a, <1>b, <1>c, <2>1, <2>2, StateChange, TableKept, Zenon
<1>16. ASSUME NEW c \in Pids, NEW t \in Pids, send_sigstop(c, t) PROVE Inv'
  BY <1>16, <1>a, <1>b, <1>c, StateChange, TableKept, Zenon DEF send_sigstop
<1>17. ASSUME NEW c \in Pids, NEW t \in Pids, send_sigcont(c, t) PROVE Inv'
  <2>1. Append(ready, t) \in Seq(Pids) /\ state[t] # "None"
    BY <1>17, <1>b, SMTT(30) DEF send_sigcont
  <2> QED BY <1>17, <1>a, <1>c, <2>1, StateChange, TableKept, Zenon DEF send_sigcont
<1>18. CASE UNCHANGED vars
  BY <1>18, <1>a
     DEF vars, cpuVars, Inv, RunningIsCurrent, CurrentInTable, WaitersInTable, TableInv
<1> QED BY <1>1, <1>2, <1>3, <1>4, <1>5, <1>6, <1>7, <1>8, <1>9, <1>10, <1>11, <1>12,
           <1>13, <1>14, <1>15, <1>16, <1>17, <1>18 DEF Next

(* At every moment at most one process is Running, namely the one on the   *)
(* CPU; the process on the CPU is in the process table, so the raw pointer *)
(* to it is never dangling; and whoever waits in join_kthread is in the    *)
(* table until exit_process wakes it.                                      *)
THEOREM TableInvariant ==
    Spec => [](TypeOK /\ RunningIsCurrent /\ CurrentInTable /\ WaitersInTable)
<1>1. Init => Inv
  BY InvInit
<1>2. Inv /\ [Next]_vars => Inv'
  BY InvNext
<1>3. Inv => TypeOK /\ RunningIsCurrent /\ CurrentInTable /\ WaitersInTable
  BY DEF Inv
<1> QED BY <1>1, <1>2, <1>3, PTL DEF Spec

-----------------------------------------------------------------------------
(* No lost process *)

(* A change s of the states and q of the queue that loses nobody, applied  *)
(* with or without a call of schedule.                                     *)
LEMMA QueueKept ==
    ASSUME TypeOK, NEW s \in [Pids -> States], NEW q \in Seq(Pids),
           schedule(s, q) \/ SetState(s, q), Queued(s, q)
    PROVE  Queued(state', ready')
<1>1. CASE schedule(s, q)
  BY <1>1, ScheduleQueue, Zenon DEF Queued
<1>2. CASE SetState(s, q)
  BY <1>2 DEF SetState, Queued
<1> QED BY <1>1, <1>2, SMTT(30)

LEMMA QueuedChange ==
    ASSUME TypeOK, Queued(state, ready), NEW p \in Pids
    PROVE  /\ Queued(state, ready)
           /\ \A x \in {"None", "Blocked", "Exited"} :
                 /\ [state EXCEPT ![p] = x] \in [Pids -> States]
                 /\ Queued([state EXCEPT ![p] = x], ready)
           /\ [state EXCEPT ![p] = "Ready"] \in [Pids -> States]
           /\ Append(ready, p) \in Seq(Pids)
           /\ Queued([state EXCEPT ![p] = "Ready"], Append(ready, p))
<1>1. ready \in Seq(Pids) /\ state \in [Pids -> States]
  BY DEF TypeOK
<1>2. Append(ready, p) \in Seq(Pids)
  BY <1>1
<1>3. \A x \in {"None", "Blocked", "Exited", "Ready"} : [state EXCEPT ![p] = x] \in [Pids -> States]
  BY <1>1 DEF States
<1>4. Queued(state, ready)
  BY DEF Queued
<1>5. \A x \in {"None", "Blocked", "Exited"} : Queued([state EXCEPT ![p] = x], ready)
  BY <1>1, <1>4 DEF Queued
<1>6. Queued([state EXCEPT ![p] = "Ready"], Append(ready, p))
  <2> SUFFICES ASSUME NEW r \in Pids, [state EXCEPT ![p] = "Ready"][r] = "Ready"
               PROVE  \E i \in DOMAIN Append(ready, p) : Append(ready, p)[i] = r
    BY DEF Queued
  <2>1. DOMAIN Append(ready, p) = 1 .. (Len(ready) + 1) /\ DOMAIN ready = 1 .. Len(ready)
        /\ Len(ready) \in Nat
    BY <1>1
  <2>2. CASE r = p
    <3>1. Append(ready, p)[Len(ready) + 1] = p
      BY <1>1
    <3> QED BY <2>1, <2>2, <3>1
  <2>3. CASE r # p
    <3>1. PICK i \in DOMAIN ready : ready[i] = r
      BY <1>1, <1>4, <2>3 DEF Queued
    <3>2. Append(ready, p)[i] = r
      BY <1>1, <3>1, SMTT(30)
    <3> QED BY <2>1, <3>1, <3>2
  <2> QED BY <2>2, <2>3
<1> QED BY <1>2, <1>3, <1>4, <1>5, <1>6, SMTT(30)

LEMMA InsertQueued ==
    ASSUME TypeOK, Queued(state, ready), NEW k, NEW par, NEW frame, Insert(k, par, frame)
    PROVE  Queued(state', ready')
<1>1. next_pid \in 2 .. (MaxPid + 1) /\ next_pid <= MaxPid
  BY DEF TypeOK, Insert
<1>2. next_pid \in Pids
  BY <1>1, SchedulerAssumption DEF Pids
<1>3. state' = [state EXCEPT ![next_pid] = "Ready"] /\ ready' = Append(ready, next_pid)
  BY DEF Insert
<1> QED BY <1>2, <1>3, QueuedChange, SMTT(30) DEF Queued

LEMMA ExitProcessQueued ==
    ASSUME TypeOK, Queued(state, ready), NEW p \in Pids, NEW v, exit_process(p, v)
    PROVE  Queued(state', ready')
<1> DEFINE w == joiners[p]
           s == WakeAll([state EXCEPT ![p] = "Exited"], w)
           q == ready \o w
<1>1. w \in Seq(Pids) /\ ready \in Seq(Pids) /\ state \in [Pids -> States]
  BY DEF TypeOK
<1>2. schedule(s, q) \/ SetState(s, q)
  BY DEF exit_process
<1> HIDE DEF w
<1>3. q \in Seq(Pids) /\ s \in [Pids -> States]
  <2>1. q \in Seq(Pids)
    BY <1>1
  <2>2. s \in [Pids -> States]
    BY <1>1, SMTT(30) DEF WakeAll, States
  <2> QED BY <2>1, <2>2, Zenon
<1>4. Queued(s, q)
  <2> SUFFICES ASSUME NEW r \in Pids, s[r] = "Ready" PROVE \E i \in DOMAIN q : q[i] = r
    BY DEF Queued
  <2>1. /\ Len(ready) \in Nat /\ Len(w) \in Nat
        /\ DOMAIN ready = 1 .. Len(ready) /\ DOMAIN w = 1 .. Len(w)
        /\ DOMAIN q = 1 .. (Len(ready) + Len(w))
    BY <1>1, SMTT(30)
  <2>2. CASE \E i \in DOMAIN w : w[i] = r
    <3>1. PICK i \in 1 .. Len(w) : w[i] = r
      BY <2>1, <2>2, SMTT(30)
    <3>2. q[Len(ready) + i] = r
      BY <1>1, <3>1, SMTT(30)
    <3>3. Len(ready) + i \in DOMAIN q
      BY <2>1, <3>1, SMTT(30)
    <3> QED BY <3>2, <3>3, SMTT(30)
  <2>3. CASE ~(\E i \in DOMAIN w : w[i] = r)
    <3>1. state[r] = "Ready"
      BY <1>1, <2>3 DEF WakeAll
    <3>2. PICK i \in 1 .. Len(ready) : ready[i] = r
      BY <2>1, <3>1, SMTT(30) DEF Queued
    <3>3. q[i] = r
      BY <1>1, <3>2, SMTT(30)
    <3>4. i \in DOMAIN q
      BY <2>1, <3>2, SMTT(30)
    <3> QED BY <3>3, <3>4
  <2> QED BY <2>2, <2>3, SMTT(30)
<1> HIDE DEF s, q
<1> QED BY <1>2, <1>3, <1>4, QueueKept, SMTT(30)

LEMMA QueuedNext ==
    ASSUME "exec" \notin workload, "yield" \notin workload
    PROVE  TypeOK /\ TypeOK' /\ Queued(state, ready) /\ [Next]_vars => Queued(state', ready')
<1> SUFFICES ASSUME TypeOK, TypeOK', Queued(state, ready), [Next]_vars
             PROVE  Queued(state', ready')
  BY SMTT(30)
<1>a. ready \in Seq(Pids) /\ state \in [Pids -> States]
  BY DEF TypeOK
<1>b. Queued(state, ready)
  BY DEF Queued
<1>c. UNCHANGED cpuVars => Queued(state', ready')
  BY DEF cpuVars
<1>1. CASE timer_handler
  BY <1>1, <1>a, <1>b, QueueKept DEF timer_handler
<1>2. ASSUME NEW c \in Pids, spawn(c) \/ spawn_kthread(c) \/ fork(c) PROVE Queued(state', ready')
  BY <1>2, InsertQueued, SMTT(30) DEF spawn, spawn_kthread, fork
<1>3. ASSUME NEW c \in Pids, spawn_fails(c) \/ join_return(c) \/ set_preemption(c)
      PROVE  Queued(state', ready')
  BY <1>3, <1>c DEF spawn_fails, join_return, set_preemption
<1>4. ASSUME NEW c \in Pids, exit_wake(c) PROVE Queued(state', ready')
  <2>1. wakeList[c] \in Seq(Pids) /\ wakeList[c] # << >>
    BY <1>4, Zenon DEF exit_wake, TypeOK
  <2>2. PICK p \in Pids : p = Head(wakeList[c])
    BY <2>1
  <2>3. UNCHANGED cpuVars \/ SetState([state EXCEPT ![p] = "Ready"], Append(ready, p))
    BY <1>4, <2>2, Zenon DEF exit_wake
  <2> QED BY <2>3, <1>c, QueuedChange, QueueKept, ZenonT(60)
<1>5. ASSUME NEW c \in Pids, exit_schedule(c) \/ yield_now(c) PROVE Queued(state', ready')
  BY <1>5, <1>a, <1>b, QueueKept, SMTT(30) DEF exit_schedule, yield_now
<1>6. ASSUME NEW c \in Pids, exec_process(c) \/ sched_yield(c) PROVE Queued(state', ready')
  BY <1>6 DEF exec_process, sched_yield, Acts
<1>7. ASSUME NEW c \in Pids, NEW v \in Codes, terminate_current_user_process(c, v)
      PROVE  Queued(state', ready')
  BY <1>7, ExitProcessQueued, SMTT(30) DEF terminate_current_user_process
<1>8. ASSUME NEW c \in Pids, NEW v \in Codes, sys_exit(c, v) \/ exit_current_kthread(c, v)
      PROVE  Queued(state', ready')
  BY <1>8, <1>a, QueuedChange, QueueKept, Zenon DEF sys_exit, exit_current_kthread
<1>9. ASSUME NEW c \in Pids, NEW t \in Pids, join_unknown(c, t) PROVE Queued(state', ready')
  BY <1>9 DEF join_unknown
<1>10. ASSUME NEW c \in Pids, NEW t \in Pids, join_kthread(c, t) PROVE Queued(state', ready')
  <2>1. \/ UNCHANGED cpuVars
        \/ schedule([state EXCEPT ![c] = "Blocked"], ready)
        \/ schedule(state, ready)
    BY <1>10 DEF join_kthread
  <2> QED BY <2>1, <1>a, <1>b, <1>c, QueuedChange, QueueKept, Zenon
<1>11. ASSUME NEW c \in Pids, NEW t \in Pids, cancel_kthread(c, t) PROVE Queued(state', ready')
  BY <1>11, ExitProcessQueued DEF cancel_kthread
<1>12. ASSUME NEW c \in Pids, NEW t \in Pids, waitpid(c, t) \/ send_sigstop(c, t)
       PROVE  Queued(state', ready')
  BY <1>12, <1>a, QueuedChange, QueueKept, Zenon DEF waitpid, send_sigstop
<1>13. ASSUME NEW c \in Pids, NEW t \in Pids, send_sigkill(c, t) PROVE Queued(state', ready')
  BY <1>13, <1>a, QueuedChange, QueueKept, Zenon DEF send_sigkill, Kill
<1>14. ASSUME NEW c \in Pids, NEW t \in Pids, send_sigcont(c, t) PROVE Queued(state', ready')
  BY <1>14, QueuedChange, QueueKept, Zenon DEF send_sigcont
<1>15. CASE UNCHANGED vars
  BY <1>15, <1>c DEF vars
<1> QED BY <1>1, <1>2, <1>3, <1>4, <1>5, <1>6, <1>7, <1>8, <1>9, <1>10, <1>11, <1>12,
           <1>13, <1>14, <1>15, SMTT(30) DEF Next

LEMMA WorkloadFixed == [Next]_vars => UNCHANGED workload
<1> SUFFICES ASSUME [Next]_vars PROVE UNCHANGED workload
  OBVIOUS
<1>1. CASE timer_handler \/ UNCHANGED vars
  BY <1>1, SMTT(30) DEF timer_handler, vars, modeVars
<1>2. ASSUME NEW c \in Pids, spawn(c) \/ spawn_fails(c) \/ spawn_kthread(c) \/ fork(c)
      PROVE  UNCHANGED workload
  BY <1>2, SMTT(30) DEF spawn, spawn_fails, spawn_kthread, fork, modeVars
<1>3. ASSUME NEW c \in Pids, exit_wake(c) \/ exit_schedule(c) \/ join_return(c)
      PROVE  UNCHANGED workload
  BY <1>3 DEF exit_wake, exit_schedule, join_return, modeVars
<1>4. ASSUME NEW c \in Pids,
             exec_process(c) \/ sched_yield(c) \/ yield_now(c) \/ set_preemption(c)
      PROVE  UNCHANGED workload
  BY <1>4, SMTT(30) DEF exec_process, sched_yield, yield_now, set_preemption, modeVars
<1>5. ASSUME NEW c \in Pids, NEW v \in Codes,
             \/ terminate_current_user_process(c, v)
             \/ sys_exit(c, v) \/ exit_current_kthread(c, v)
      PROVE  UNCHANGED workload
  BY <1>5, Zenon DEF terminate_current_user_process, sys_exit, exit_current_kthread, modeVars
<1>6. ASSUME NEW c \in Pids, NEW p \in Pids,
             join_unknown(c, p) \/ join_kthread(c, p) \/ cancel_kthread(c, p)
      PROVE  UNCHANGED workload
  BY <1>6, Zenon DEF join_unknown, join_kthread, cancel_kthread, modeVars
<1>7. ASSUME NEW c \in Pids, NEW p \in Pids,
             \/ waitpid(c, p) \/ send_sigkill(c, p)
             \/ send_sigstop(c, p) \/ send_sigcont(c, p)
      PROVE  UNCHANGED workload
  BY <1>7 DEF waitpid, send_sigkill, send_sigstop, send_sigcont, modeVars
<1> QED BY <1>1, <1>2, <1>3, <1>4, <1>5, <1>6, <1>7, Zenon DEF Next

(* As long as no process calls exec or the sched_yield of the generic ABI, *)
(* the two that make a process Ready without queueing it, every Ready      *)
(* process has an entry in the ready queue: schedule will get to it.       *)
THEOREM NoProcessIsLost == Spec => []ReadyIsQueued
<1>1. Init => Inv /\ ReadyIsQueued
  <2>1. Init => ReadyIsQueued
    BY DEF Init, ReadyIsQueued, Queued
  <2> QED BY <2>1, InvInit
<1>2. Inv /\ ReadyIsQueued /\ [Next]_vars => (Inv /\ ReadyIsQueued)'
  <2> SUFFICES ASSUME Inv, ReadyIsQueued, [Next]_vars
               PROVE  Inv' /\ ReadyIsQueued'
    OBVIOUS
  <2>1. Inv'
    BY InvNext
  <2>2. UNCHANGED workload
    BY WorkloadFixed
  <2>3. CASE "exec" \in workload \/ "yield" \in workload
    BY <2>1, <2>2, <2>3 DEF ReadyIsQueued
  <2>4. CASE "exec" \notin workload /\ "yield" \notin workload
    <3>1. Queued(state, ready)
      BY <2>4 DEF ReadyIsQueued
    <3>2. Queued(state', ready')
      BY <2>1, <2>4, <3>1, QueuedNext DEF Inv
    <3> QED BY <2>1, <3>2 DEF ReadyIsQueued
  <2> QED BY <2>3, <2>4
<1> QED BY <1>1, <1>2, PTL DEF Spec
=============================================================================
