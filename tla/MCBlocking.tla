----------------------------- MODULE MCBlocking -----------------------------
(* The blocking calls for TLC: the shell and two more processes.           *)
EXTENDS Blocking

Base == {"spawn", "sched", "preempt"}

MCWorkloads ==
    { (* timed sleeps, among system calls and kernel threads *)
      Base \cup {"sleep", "poll", "futex", "timed futex"},
      Base \cup {"kthread", "pace", "sleep"},
      Base \cup {"generic", "exit"},
      Base \cup {"sleep", "kill"},
      (* futexes *)
      Base \cup {"futex", "timed futex", "store", "sleep"},
      Base \cup {"futex", "timed futex", "wake", "sleep"},
      Base \cup {"futex", "requeue"},
      (* the pipe; SIGCONT resumes a reader that nothing has been written for *)
      {"spawn", "sched", "read", "write", "stop"} }

(* The workload of the finding. *)
WakeWorkload == {Base \cup {"futex", "store"}}
=============================================================================
