---------------------------- MODULE IpcChannels ----------------------------
(***************************************************************************)
(* IPC channels of src/ipc/mod.rs: ring buffers of RING_CAP slots reached  *)
(* through ids in the global table IPC, and the boot sequence of           *)
(* src/init.rs that puts the first channels into that table.               *)
(*                                                                         *)
(* A channel object is an Arc<Channel>; once made it is never reused, and  *)
(* a process that looked it up keeps using it after the id is destroyed or *)
(* registered again: ipc::send and ipc::recv take the table lock for the   *)
(* lookup only, so the lookup and the ring operation are two steps.        *)
(***************************************************************************)
EXTENDS Integers, Sequences, FiniteSets

CONSTANTS Procs,         \* processes and kernel threads that use channels
          Lens,          \* lengths of the payloads they pass to send
          MsgMax,        \* MSG_MAX
          RingCap,       \* RING_CAP
          MaxChannels,   \* MAX_CHANNELS: slots of the table
          MaxObjects,    \* bound: channel objects made in one behaviour
          NoMsg,         \* Option::None in a ring slot
          WellKnown      \* ids that init registers (1, 3 and 4 in init.rs)

ASSUME IpcAssumption ==
    /\ RingCap \in Nat /\ RingCap >= 2
    /\ MsgMax \in Nat /\ Lens \subseteq Nat
    /\ MaxChannels \in Nat \ {0} /\ MaxObjects \in Nat
    /\ WellKnown \subseteq 1 .. (MaxChannels - 1)
    /\ NoMsg \notin [sender : Procs, len : 0 .. MsgMax]

Ids == 1 .. MaxChannels
Objects == 1 .. MaxObjects
Slots == 0 .. (RingCap - 1)
NoObj == 0

(* Mutant of Message: the payload is not cut. *)
MessageUncut(p, len) == [sender |-> p, len |-> len]

(* Message::new: the payload is cut at MSG_MAX bytes. *)
Message(p, len) == [sender |-> p, len |-> IF len < MsgMax THEN len ELSE MsgMax]
Messages == [sender : Procs, len : 0 .. MsgMax]

VARIABLES
    table,      \* IPC.channels: id |-> channel object
    legacy,     \* CHANNELS, the older table that register_channel also fills
    made,       \* channel objects made so far
    ring, head, tail,    \* ChannelInner of every object
    op,         \* op[p]: the call p is in, with the Arc it looked up
    res,        \* res[p]: what p's last call returned
    boot,       \* "scan" (drivers), "register" (well-known ids) or "up"
    gpu         \* GPU_IPC_CHANNEL, and the object create returned with it

chanVars == <<ring, head, tail>>
vars == <<table, legacy, made, ring, head, tail, op, res, boot, gpu>>

Idle == [call |-> "idle"]
NoGpu == [id |-> 0, obj |-> NoObj]

TypeOK ==
    /\ table \in [Ids -> Objects \cup {NoObj}]
    /\ legacy \in [0 .. (MaxChannels - 1) -> Objects \cup {NoObj}]
    /\ made \in 0 .. MaxObjects
    /\ ring \in [Objects -> [Slots -> Messages \cup {NoMsg}]]
    /\ head \in [Objects -> Slots]
    /\ tail \in [Objects -> Slots]
    /\ op \in [Procs -> {Idle}
                 \cup [call : {"recv"}, obj : Objects]
                 \cup [call : {"send"}, obj : Objects, msg : Messages]]
    /\ res \in [Procs -> [code : {"none", "ok", "full", "empty", "invalid"}]
                          \cup [code : {"msg"}, msg : Messages]]
    /\ boot \in {"scan", "register", "up"}
    /\ gpu \in [id : Ids \cup {0}, obj : Objects \cup {NoObj}]

Init ==
    /\ table = [i \in Ids |-> NoObj]
    /\ legacy = [i \in 0 .. (MaxChannels - 1) |-> NoObj]
    /\ made = 0
    /\ ring = [c \in Objects |-> [s \in Slots |-> NoMsg]]
    /\ head = [c \in Objects |-> 0]
    /\ tail = [c \in Objects |-> 0]
    /\ op = [p \in Procs |-> Idle]
    /\ res = [p \in Procs |-> [code |-> "none"]]
    /\ boot = "scan"
    /\ gpu = NoGpu

-----------------------------------------------------------------------------
(* The table of ids. *)

FreeIds == { i \in Ids : table[i] = NoObj }

(* ChannelTable::create: a new object in the first free slot, i. *)
create(i) ==
    /\ i \in FreeIds
    /\ \A j \in FreeIds : i <= j
    /\ made < MaxObjects
    /\ made' = made + 1
    /\ table' = [table EXCEPT ![i] = made + 1]

(* register_channel: a new object under a fixed id of both tables, over *)
(* whatever was there.                                                  *)
register(id) ==
    /\ made < MaxObjects
    /\ made' = made + 1
    /\ legacy' = [legacy EXCEPT ![id] = made + 1]
    /\ table' = [table EXCEPT ![id] = made + 1]

(* device_manager::scan: the VirtIO GPU driver, when the device is found,  *)
(* creates its service channel and keeps the id.                           *)
ScanDrivers ==
    /\ boot = "scan"
    /\ \/ \E i \in Ids :
             /\ create(i)
             /\ gpu' = [id |-> i, obj |-> made + 1]
       \/ UNCHANGED <<table, made, gpu>>
    /\ boot' = "register"
    /\ UNCHANGED <<legacy, chanVars, op, res>>

(* init registers its well-known channels in increasing order of id. *)
RegisterWellKnown ==
    /\ boot = "register"
    /\ \E id \in WellKnown :
          /\ legacy[id] = NoObj
          /\ \A j \in WellKnown : j < id => legacy[j] # NoObj
          /\ register(id)
    /\ boot' = IF \A j \in WellKnown : legacy'[j] # NoObj
               THEN "up" ELSE "register"
    /\ UNCHANGED <<chanVars, op, res, gpu>>

(* create_channel, from sys_pipe, the ZIQA_IPC_CREATE call or the shell. *)
CreateChannel(p) ==
    /\ boot = "up" /\ op[p] = Idle
    /\ IF FreeIds = {}
       THEN UNCHANGED <<table, made>>
       ELSE \E i \in Ids : create(i)
    /\ UNCHANGED <<legacy, chanVars, op, res, boot, gpu>>

(* ChannelTable::destroy forgets the object; the legacy table keeps it. *)
DestroyChannel(p, id) ==
    /\ boot = "up" /\ op[p] = Idle
    /\ table' = [table EXCEPT ![id] = NoObj]
    /\ UNCHANGED <<legacy, made, chanVars, op, res, boot, gpu>>

-----------------------------------------------------------------------------
(* ipc::send and ipc::recv: the lookup, under the read lock of the table. *)

Lookup(p, id, pending) ==
    /\ boot = "up" /\ op[p] = Idle
    /\ IF table[id] = NoObj
       THEN /\ res' = [res EXCEPT ![p] = [code |-> "invalid"]]
            /\ UNCHANGED op
       ELSE /\ op' = [op EXCEPT ![p] = pending]
            /\ UNCHANGED res
    /\ UNCHANGED <<table, legacy, made, chanVars, boot, gpu>>

SendLookup(p, id, len) ==
    Lookup(p, id, [call |-> "send", obj |-> table[id], msg |-> Message(p, len)])

RecvLookup(p, id) ==
    Lookup(p, id, [call |-> "recv", obj |-> table[id]])

Return(p, r) ==
    /\ res' = [res EXCEPT ![p] = r]
    /\ op' = [op EXCEPT ![p] = Idle]
    /\ UNCHANGED <<table, legacy, made, boot, gpu>>

(* Mutant of ChannelSend: the full test forgets the slot kept free. *)
ChannelSendToTheBrim(p) ==
    /\ op[p].call = "send"
    /\ LET c == op[p].obj
       IN  IF ring[c][head[c]] # NoMsg
           THEN /\ Return(p, [code |-> "full"])
                /\ UNCHANGED chanVars
           ELSE /\ ring' = [ring EXCEPT ![c][head[c]] = op[p].msg]
                /\ head' = [head EXCEPT ![c] = (@ + 1) % RingCap]
                /\ Return(p, [code |-> "ok"])
                /\ UNCHANGED tail

(* Channel::send, under the lock of the ring. *)
ChannelSend(p) ==
    /\ op[p].call = "send"
    /\ LET c == op[p].obj
           next_head == (head[c] + 1) % RingCap
       IN  IF next_head = tail[c]
           THEN /\ Return(p, [code |-> "full"])
                /\ UNCHANGED chanVars
           ELSE /\ ring' = [ring EXCEPT ![c][head[c]] = op[p].msg]
                /\ head' = [head EXCEPT ![c] = next_head]
                /\ Return(p, [code |-> "ok"])
                /\ UNCHANGED tail

(* Mutant of ChannelRecv: the slot is read, not taken. *)
ChannelRecvCopies(p) ==
    /\ op[p].call = "recv"
    /\ LET c == op[p].obj
       IN  IF head[c] = tail[c]
           THEN /\ Return(p, [code |-> "empty"])
                /\ UNCHANGED chanVars
           ELSE /\ tail' = [tail EXCEPT ![c] = (tail[c] + 1) % RingCap]
                /\ Return(p, [code |-> "msg", msg |-> ring[c][tail[c]]])
                /\ UNCHANGED <<ring, head>>

(* Channel::recv; `take().ok_or(Empty)?` would leave the tail alone. *)
ChannelRecv(p) ==
    /\ op[p].call = "recv"
    /\ LET c == op[p].obj
           msg == ring[c][tail[c]]
       IN  IF head[c] = tail[c] \/ msg = NoMsg
           THEN /\ Return(p, [code |-> "empty"])
                /\ UNCHANGED chanVars
           ELSE /\ ring' = [ring EXCEPT ![c][tail[c]] = NoMsg]
                /\ tail' = [tail EXCEPT ![c] = (tail[c] + 1) % RingCap]
                /\ Return(p, [code |-> "msg", msg |-> msg])
                /\ UNCHANGED head

Next ==
    \/ ScanDrivers
    \/ RegisterWellKnown
    \/ \E p \in Procs :
          \/ CreateChannel(p)
          \/ \E id \in Ids :
                \/ DestroyChannel(p, id)
                \/ \E n \in Lens : SendLookup(p, id, n)
                \/ RecvLookup(p, id)
          \/ ChannelSend(p)
          \/ ChannelRecv(p)

Spec == Init /\ [][Next]_vars

-----------------------------------------------------------------------------
(* Properties *)

(* The slots from the tail up to the head, across the wrap. *)
InUse(c, s) ==
    IF tail[c] <= head[c] THEN tail[c] <= s /\ s < head[c]
                          ELSE tail[c] <= s \/ s < head[c]

(* The occupied slots of a ring are exactly the ones from tail up to head, *)
(* across the wrap: `take().ok_or(Empty)` in Channel::recv always finds a  *)
(* message once head # tail, and Channel::send overwrites none.            *)
RingOccupied ==
    \A c \in Objects : \A s \in Slots : (ring[c][s] # NoMsg) <=> InUse(c, s)

Occupancy(c) == (head[c] - tail[c] + RingCap) % RingCap

(* The messages of channel c, oldest first. *)
Contents(c) ==
    [i \in 1 .. Occupancy(c) |-> ring[c][(tail[c] + i - 1) % RingCap]]

(* Whatever is destroyed, created or registered again between the lookup  *)
(* and the ring operation of a call, every channel is a FIFO queue of     *)
(* RING_CAP - 1 messages: nothing lost, duplicated or reordered, and Full *)
(* and Empty reported only when they are true.                            *)
Fifo == INSTANCE BoundedFifo WITH
            Chans <- Objects,
            Cap <- RingCap - 1,
            q <- [c \in Objects |-> Contents(c)]
FifoSpec == Fifo!Spec

(* "Register IPC channel for GPU service": once the system is up, the id   *)
(* the GPU driver published names the channel it created.                  *)
GpuChannelIsItsOwn ==
    boot = "up" /\ gpu # NoGpu => table[gpu.id] = gpu.obj
=============================================================================
