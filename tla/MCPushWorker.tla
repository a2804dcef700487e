---------------------------- MODULE MCPushWorker ----------------------------
(* Instances of PushWorker for TLC.                                        *)
EXTENDS PushWorker, TLC

Symmetry == Permutations(Slots) \cup Permutations(Devices)
               \cup Permutations(Groups)
=============================================================================
