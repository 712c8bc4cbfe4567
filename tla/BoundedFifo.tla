---------------------------- MODULE BoundedFifo ----------------------------
(***************************************************************************)
(* What an IPC channel promises: every channel object is a first-in        *)
(* first-out queue of at most Cap messages.  A send that returns Ok has    *)
(* appended exactly its message, a send that returns Full met a full       *)
(* queue, a receive returns the oldest message or reports an empty queue.  *)
(* IpcChannels implements this with ring buffers behind a table of ids.    *)
(***************************************************************************)
EXTENDS Naturals, Sequences

CONSTANTS Procs,      \* the processes and kernel threads that use channels
          Chans,      \* the channel objects
          Messages,   \* the messages that can be stored
          Cap         \* messages a channel holds

VARIABLES q,          \* q[c]: the messages queued in channel c, oldest first
          res         \* res[p]: what p's last operation returned

vars == <<q, res>>

(* Results other than a received message. *)
Codes == {"none", "ok", "full", "empty", "invalid"}

Init ==
    /\ q = [c \in Chans |-> << >>]
    /\ res = [p \in Procs |-> [code |-> "none"]]

Send(p, c, m) ==
    /\ Len(q[c]) < Cap
    /\ q' = [q EXCEPT ![c] = Append(@, m)]
    /\ res' = [res EXCEPT ![p] = [code |-> "ok"]]

SendFull(p, c) ==
    /\ Len(q[c]) = Cap
    /\ res' = [res EXCEPT ![p] = [code |-> "full"]]
    /\ UNCHANGED q

Recv(p, c) ==
    /\ q[c] # << >>
    /\ q' = [q EXCEPT ![c] = Tail(@)]
    /\ res' = [res EXCEPT ![p] = [code |-> "msg", msg |-> Head(q[c])]]

RecvEmpty(p, c) ==
    /\ q[c] = << >>
    /\ res' = [res EXCEPT ![p] = [code |-> "empty"]]
    /\ UNCHANGED q

(* An operation on an id that names no channel. *)
Invalid(p) ==
    /\ res' = [res EXCEPT ![p] = [code |-> "invalid"]]
    /\ UNCHANGED q

Next ==
    \E p \in Procs :
        \/ Invalid(p)
        \/ \E c \in Chans :
              \/ \E m \in Messages : Send(p, c, m)
              \/ SendFull(p, c)
              \/ Recv(p, c)
              \/ RecvEmpty(p, c)

Spec == Init /\ [][Next]_vars
=============================================================================
