----------------------------- MODULE MCFieldSync -----------------------------
(* Instances of FieldSync for TLC.                                          *)
EXTENDS FieldSync, TLC

CONSTANTS d1, w1

OneDevice == [d \in {d1} |-> w1]

(* Pushes of one device do not differ.                                      *)
SyncSymmetry == Permutations(Slots)
=============================================================================
