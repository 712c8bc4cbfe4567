--------------------------- MODULE MCIpcChannels ---------------------------
(* IPC channels for TLC: two processes, rings of three slots.              *)
EXTENDS IpcChannels, TLC

MCLens == {2}           \* with MsgMax = 1, a payload that is cut
MCWellKnown == {1}
MCSymmetry == Permutations(Procs)
=============================================================================
