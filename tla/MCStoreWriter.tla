---------------------------- MODULE MCStoreWriter ----------------------------
(* Instances of StoreWriter for TLC: a few processes on one path. *)
EXTENDS StoreWriterInv, TLC

CONSTANTS p1, p2, i1, i2, v1, v2

MCProcs == {p1, p2}
MCInodes == {i1, i2}
MCOneInode == {i1}
MCVals == {v1, v2}
Symmetry == Permutations(MCProcs) \cup Permutations(MCInodes) \cup Permutations(MCVals)

MCNowhere == {}
MCAnywhere == {"opened", "locked"}
==============================================================================
