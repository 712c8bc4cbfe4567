---------------------------- MODULE MCScheduler ----------------------------
(* The scheduler for TLC: four pids, the boot process among them, under    *)
(* workloads that use different operations.                                *)
EXTENDS Scheduler

MCCodes == {7}

MCWorkloads ==
    { (* user processes: life cycle, then signals *)
      {"spawn", "fork", "fault", "exit", "wait", "kill", "preempt"},
      {"spawn", "exit", "stop", "exec", "yield", "sched", "preempt"},
      (* kernel threads: exit with interrupts on, join and cancel *)
      {"kthread", "exit", "join", "cancel", "kill", "sched", "preempt"},
      (* joins beside reaping *)
      {"spawn", "fork", "wait", "kill", "kthread", "join", "join unknown", "sched"} }

(* Processes that come, compete for the CPU and leave. *)
LifeWorkload == {{"spawn", "kthread", "exit", "fault", "kill", "sched", "preempt"}}

(* The workloads of the findings. *)
ExitWorkload == {{"kthread", "exit", "join", "sched", "preempt"}}
JoinWorkload == {{"kthread", "exit", "join", "sched"}}
ForkWorkload == {{"spawn", "fork", "sched", "preempt"}}
=============================================================================
