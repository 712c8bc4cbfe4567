------------------------- MODULE IpcChannels_proofs -------------------------
(***************************************************************************)
(* IpcChannels for every number of processes, channels and slots: the type *)
(* invariant and RingOccupied.  Together they are inductive: RingOccupied  *)
(* needs the indices to be slots, and nothing else of the state.           *)
(***************************************************************************)
EXTENDS IpcChannels, TLAPS

USE IpcAssumption

(* The successor of a slot, as Channel::send and Channel::recv compute it. *)
LEMMA NextSlot ==
    ASSUME NEW x \in Slots
    PROVE  /\ (x + 1) % RingCap \in Slots
           /\ (x + 1) % RingCap = IF x + 1 = RingCap THEN 0 ELSE x + 1
<1>1. CASE x + 1 = RingCap
    <2>1. RingCap % RingCap = 0
        BY SMT
    <2> QED BY <1>1, <2>1 DEF Slots
<1>2. CASE x + 1 < RingCap
    <2>1. \A y \in 0 .. (RingCap - 1) : y % RingCap = y
        BY SMT
    <2> QED BY <1>2, <2>1 DEF Slots
<1> QED BY <1>1, <1>2 DEF Slots

(* Message::new makes a message that fits a slot. *)
LEMMA MessageType ==
    ASSUME NEW p \in Procs, NEW n \in Lens
    PROVE  Message(p, n) \in Messages
BY DEF Message, Messages

(* ChannelTable::create stays within the table and the objects. *)
LEMMA CreateType ==
    ASSUME TypeOK, NEW i \in Ids, create(i)
    PROVE  /\ table' \in [Ids -> Objects \cup {NoObj}]
           /\ made' \in 0 .. MaxObjects
           /\ made + 1 \in Objects
BY DEF TypeOK, create, Objects

LEMMA TypeInit == Init => TypeOK
BY DEF Init, TypeOK, Ids, Objects, Slots, NoObj, NoGpu, Idle

LEMMA TypeNext == TypeOK /\ [Next]_vars => TypeOK'
<1> SUFFICES ASSUME TypeOK, [Next]_vars PROVE TypeOK'
    OBVIOUS
<1>1. CASE ScanDrivers
    <2>1. ASSUME NEW i \in Ids, create(i), gpu' = [id |-> i, obj |-> made + 1]
          PROVE  TypeOK'
        BY <1>1, <2>1, CreateType DEF TypeOK, ScanDrivers, chanVars
    <2>2. CASE UNCHANGED <<table, made, gpu>>
        BY <1>1, <2>2 DEF TypeOK, ScanDrivers, chanVars
    <2> QED BY <1>1, <2>1, <2>2 DEF ScanDrivers
<1>2. CASE RegisterWellKnown
    BY <1>2 DEF TypeOK, RegisterWellKnown, register, chanVars, Ids, Objects, NoObj
<1>3. ASSUME NEW p \in Procs, CreateChannel(p) PROVE TypeOK'
    <2>1. ASSUME NEW i \in Ids, create(i) PROVE TypeOK'
        BY <1>3, <2>1, CreateType DEF TypeOK, CreateChannel, chanVars
    <2>2. CASE UNCHANGED <<table, made>>
        BY <1>3, <2>2 DEF TypeOK, CreateChannel, chanVars
    <2> QED BY <1>3, <2>1, <2>2 DEF CreateChannel
<1>4. ASSUME NEW p \in Procs, NEW id \in Ids, DestroyChannel(p, id) PROVE TypeOK'
    BY <1>4 DEF TypeOK, DestroyChannel, chanVars, Objects, NoObj
<1>5. ASSUME NEW p \in Procs, NEW id \in Ids, NEW n \in Lens, SendLookup(p, id, n)
      PROVE  TypeOK'
    <2> DEFINE pending == [call |-> "send", obj |-> table[id], msg |-> Message(p, n)]
    <2>1. CASE table[id] = NoObj
        BY <1>5, <2>1, SMTT(30) DEF TypeOK, SendLookup, Lookup, chanVars
    <2>2. CASE table[id] # NoObj
        <3>1. table[id] \in Objects /\ Message(p, n) \in Messages
            BY <2>2, MessageType DEF TypeOK
        <3>2. pending \in [call : {"send"}, obj : Objects, msg : Messages]
            BY <3>1
        <3>3. /\ op' = [op EXCEPT ![p] = pending]
              /\ UNCHANGED <<table, legacy, made, ring, head, tail, res, boot, gpu>>
            BY <1>5, <2>2 DEF SendLookup, Lookup, chanVars
        <3> QED BY <3>2, <3>3 DEF TypeOK
    <2> QED BY <2>1, <2>2
<1>6. ASSUME NEW p \in Procs, NEW id \in Ids, RecvLookup(p, id) PROVE TypeOK'
    <2> DEFINE pending == [call |-> "recv", obj |-> table[id]]
    <2>1. CASE table[id] = NoObj
        BY <1>6, <2>1 DEF TypeOK, RecvLookup, Lookup, chanVars
    <2>2. CASE table[id] # NoObj
        <3>1. pending \in [call : {"recv"}, obj : Objects]
            BY <2>2 DEF TypeOK
        <3>2. /\ op' = [op EXCEPT ![p] = pending]
              /\ UNCHANGED <<table, legacy, made, ring, head, tail, res, boot, gpu>>
            BY <1>6, <2>2 DEF RecvLookup, Lookup, chanVars
        <3> QED BY <3>1, <3>2 DEF TypeOK
    <2> QED BY <2>1, <2>2
<1>7. ASSUME NEW p \in Procs, ChannelSend(p) PROVE TypeOK'
    <2> DEFINE c == op[p].obj
    <2>1. c \in Objects /\ op[p].msg \in Messages
        BY <1>7, SMTT(30) DEF TypeOK, ChannelSend, Idle
    <2>2. head[c] \in Slots /\ (head[c] + 1) % RingCap \in Slots
        BY <2>1, NextSlot DEF TypeOK
    <2>3. CASE (head[c] + 1) % RingCap = tail[c]
        <3>1. /\ res' = [res EXCEPT ![p] = [code |-> "full"]]
              /\ op' = [op EXCEPT ![p] = Idle]
              /\ UNCHANGED <<table, legacy, made, ring, head, tail, boot, gpu>>
            BY <1>7, <2>3 DEF ChannelSend, Return, chanVars
        <3> QED BY <3>1 DEF TypeOK
    <2>4. CASE (head[c] + 1) % RingCap # tail[c]
        <3>1. /\ ring' = [ring EXCEPT ![c][head[c]] = op[p].msg]
              /\ head' = [head EXCEPT ![c] = (head[c] + 1) % RingCap]
              /\ res' = [res EXCEPT ![p] = [code |-> "ok"]]
              /\ op' = [op EXCEPT ![p] = Idle]
              /\ UNCHANGED <<table, legacy, made, tail, boot, gpu>>
            BY <1>7, <2>4 DEF ChannelSend, Return
        <3>2. ring' \in [Objects -> [Slots -> Messages \cup {NoMsg}]]
            BY <3>1, <2>1, <2>2 DEF TypeOK
        <3> QED BY <3>1, <3>2, <2>1, <2>2 DEF TypeOK
    <2> QED BY <2>3, <2>4
<1>8. ASSUME NEW p \in Procs, ChannelRecv(p) PROVE TypeOK'
    <2> DEFINE c == op[p].obj
    <2>1. c \in Objects
        BY <1>8 DEF TypeOK, ChannelRecv, Idle
    <2>2. (tail[c] + 1) % RingCap \in Slots
        BY <2>1, NextSlot DEF TypeOK
    <2>3. tail[c] \in Slots /\ NoMsg \in Messages \cup {NoMsg}
        BY <2>1 DEF TypeOK
    <2>4. CASE head[c] = tail[c] \/ ring[c][tail[c]] = NoMsg
        <3>1. /\ res' = [res EXCEPT ![p] = [code |-> "empty"]]
              /\ op' = [op EXCEPT ![p] = Idle]
              /\ UNCHANGED <<table, legacy, made, ring, head, tail, boot, gpu>>
            BY <1>8, <2>4, SMTT(30) DEF ChannelRecv, Return, chanVars
        <3> QED BY <3>1, SMTT(30) DEF TypeOK
    <2>5. CASE ~(head[c] = tail[c] \/ ring[c][tail[c]] = NoMsg)
        <3>1. /\ ring' = [ring EXCEPT ![c][tail[c]] = NoMsg]
              /\ tail' = [tail EXCEPT ![c] = (tail[c] + 1) % RingCap]
              /\ res' = [res EXCEPT ![p] = [code |-> "msg", msg |-> ring[c][tail[c]]]]
              /\ op' = [op EXCEPT ![p] = Idle]
              /\ UNCHANGED <<table, legacy, made, head, boot, gpu>>
            BY <1>8, <2>5 DEF ChannelRecv, Return
        <3>2. ring[c][tail[c]] \in Messages
            BY <2>1, <2>3, <2>5, SMTT(30) DEF TypeOK
        <3>3. ring' \in [Objects -> [Slots -> Messages \cup {NoMsg}]]
            BY <3>1, <2>1, <2>3 DEF TypeOK
        <3> QED BY <3>1, <3>2, <3>3, <2>1, <2>2, SMTT(30) DEF TypeOK
    <2> QED BY <2>4, <2>5
<1>9. CASE UNCHANGED vars
    BY <1>9 DEF TypeOK, vars
<1> QED BY <1>1, <1>2, <1>3, <1>4, <1>5, <1>6, <1>7, <1>8, <1>9 DEF Next

-----------------------------------------------------------------------------
(* A step that leaves the rings alone preserves RingOccupied. *)
LEMMA RingStable == RingOccupied /\ UNCHANGED chanVars => RingOccupied'
BY DEF RingOccupied, InUse, chanVars

LEMMA RingSend ==
    ASSUME TypeOK, RingOccupied, NEW p \in Procs, ChannelSend(p)
    PROVE  RingOccupied'
<1> DEFINE c == op[p].obj
<1>1. c \in Objects /\ op[p].msg \in Messages
    BY SMTT(30) DEF TypeOK, ChannelSend, Idle
<1>2. op[p].msg # NoMsg
    BY <1>1 DEF Messages
<1>3. CASE UNCHANGED chanVars
    BY <1>3, RingStable
<1>4. CASE ~UNCHANGED chanVars
    <2>1. /\ (head[c] + 1) % RingCap # tail[c]
          /\ ring' = [ring EXCEPT ![c][head[c]] = op[p].msg]
          /\ head' = [head EXCEPT ![c] = (head[c] + 1) % RingCap]
          /\ tail' = tail
        BY <1>4 DEF ChannelSend
    <2>2. /\ head[c] \in Slots /\ tail[c] \in Slots
          /\ (head[c] + 1) % RingCap = IF head[c] + 1 = RingCap THEN 0 ELSE head[c] + 1
        BY <1>1, NextSlot DEF TypeOK
    <2>3. ASSUME NEW d \in Objects, NEW s \in Slots
          PROVE  (ring'[d][s] # NoMsg) <=> InUse(d, s)'
        <3>1. CASE d # c
            BY <3>1, <2>1, <1>1, SMTT(30) DEF RingOccupied, InUse, TypeOK
        <3>2. CASE d = c
            <4>1. /\ ring'[c][s] = IF s = head[c] THEN op[p].msg ELSE ring[c][s]
                  /\ head'[c] = IF head[c] + 1 = RingCap THEN 0 ELSE head[c] + 1
                  /\ tail'[c] = tail[c]
                BY <2>1, <2>2, <1>1 DEF TypeOK
            <4>2. (ring[c][s] # NoMsg) <=> InUse(c, s)
                BY <1>1, SMTT(30) DEF RingOccupied
            <4> QED BY <3>2, <4>1, <4>2, <2>1, <2>2, <1>2, SMTT(30) DEF InUse, Slots
        <3> QED BY <3>1, <3>2
    <2> QED BY <2>3 DEF RingOccupied
<1> QED BY <1>3, <1>4

LEMMA RingRecv ==
    ASSUME TypeOK, RingOccupied, NEW p \in Procs, ChannelRecv(p)
    PROVE  RingOccupied'
<1> DEFINE c == op[p].obj
<1>1. c \in Objects
    BY SMTT(30) DEF TypeOK, ChannelRecv, Idle
<1>3. CASE UNCHANGED chanVars
    BY <1>3, RingStable
<1>4. CASE ~UNCHANGED chanVars
    <2>1. /\ head[c] # tail[c]
          /\ ring' = [ring EXCEPT ![c][tail[c]] = NoMsg]
          /\ tail' = [tail EXCEPT ![c] = (tail[c] + 1) % RingCap]
          /\ head' = head
        BY <1>4 DEF ChannelRecv
    <2>2. /\ head[c] \in Slots /\ tail[c] \in Slots
          /\ (tail[c] + 1) % RingCap = IF tail[c] + 1 = RingCap THEN 0 ELSE tail[c] + 1
        BY <1>1, NextSlot DEF TypeOK
    <2>3. ASSUME NEW d \in Objects, NEW s \in Slots
          PROVE  (ring'[d][s] # NoMsg) <=> InUse(d, s)'
        <3>1. CASE d # c
            BY <3>1, <2>1, <1>1, SMTT(30) DEF RingOccupied, InUse, TypeOK
        <3>2. CASE d = c
            <4>1. /\ ring'[c][s] = IF s = tail[c] THEN NoMsg ELSE ring[c][s]
                  /\ tail'[c] = IF tail[c] + 1 = RingCap THEN 0 ELSE tail[c] + 1
                  /\ head'[c] = head[c]
                BY <2>1, <2>2, <1>1 DEF TypeOK
            <4>2. (ring[c][s] # NoMsg) <=> InUse(c, s)
                BY <1>1 DEF RingOccupied
            <4> QED BY <3>2, <4>1, <4>2, <2>1, <2>2, SMTT(30) DEF InUse, Slots
        <3> QED BY <3>1, <3>2
    <2> QED BY <2>3 DEF RingOccupied
<1> QED BY <1>3, <1>4

(* In every reachable state of every instance the ring indices and the     *)
(* occupied slots agree: Channel::recv never reports Empty for a slot it   *)
(* should have found full and Channel::send never overwrites a message.    *)
THEOREM RingInvariant == Spec => [](TypeOK /\ RingOccupied)
<1>1. Init => RingOccupied
    BY DEF Init, RingOccupied, InUse, Slots
<1>2. TypeOK /\ RingOccupied /\ [Next]_vars => RingOccupied'
    <2> SUFFICES ASSUME TypeOK, RingOccupied, [Next]_vars PROVE RingOccupied'
        OBVIOUS
    <2>1. ASSUME NEW p \in Procs, ChannelSend(p) PROVE RingOccupied'
        BY <2>1, RingSend
    <2>2. ASSUME NEW p \in Procs, ChannelRecv(p) PROVE RingOccupied'
        BY <2>2, RingRecv, SMTT(30)
    <2>3. \/ UNCHANGED chanVars
          \/ \E p \in Procs : ChannelSend(p) \/ ChannelRecv(p)
        BY DEF Next, vars, chanVars, ScanDrivers, RegisterWellKnown, CreateChannel,
               DestroyChannel, SendLookup, RecvLookup, Lookup
    <2> QED BY <2>1, <2>2, <2>3, RingStable
<1> QED BY <1>1, <1>2, TypeInit, TypeNext, PTL DEF Spec
=============================================================================
