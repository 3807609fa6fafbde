------------------------------ MODULE MCShardDir ------------------------------
(* Instances of ShardDir for TLC: two writers and a reader of one directory. *)
EXTENDS ShardDirInv, TLC

CONSTANTS w1, w2, r1, x, y

MCWriters == {w1, w2}
MCReaders == {r1}
MCSchemas == {x, y}
MCLimits == {0, 2}

MCSymmetry == Permutations(MCWriters) \cup Permutations(MCSchemas)
==============================================================================
