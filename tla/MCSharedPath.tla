---------------------------- MODULE MCSharedPath -----------------------------
(* Instances of SharedPath for TLC: who meets on the path. *)
EXTENDS SharedPath, TLC

CONSTANTS u1, u2, c1, r1, i1, i2, i3

MCNobody == {}
MCOneUpdater == {u1}
MCTwoUpdaters == {u1, u2}
MCOneCompactor == {c1}
MCOneReader == {r1}
MCInodes == {i1, i2, i3}

\* Stores of one-row records, and stores whose first record is empty.
MCStarts == {<<1, 2>>, <<0, 1, 2>>, <<0, 2>>}
MCTwoRecords == {<<1, 2>>}
MCThreeRecords == {<<1, 2, 3>>}

\* Two scenarios share a run.  Where the first record is empty, which no
\* session writes and no compaction leaves, two updaters and a reader meet, with
\* and without statistics; elsewhere an updater, a compaction and a reader, with
\* statistics where there are several records, smaller records, and one output
\* of a compaction lying about at a time.
StartsEmpty == file[path.src].body[1].rows = 0
Extends(u) == upd[u].pc = "open" /\ upd'[u].pc = "open" /\ upd'[u] # upd[u]

Scenario ==
  IF StartsEmpty THEN comp' = comp
  ELSE /\ upd'[u2] = upd[u2]
       /\ None \in {path'.temp, path'.out}
       /\ file[path.src].n > 1 => file[path.src].stats # 0
       /\ upd[u1].pc = "idle" => upd'[u1].pc = "idle" \/ upd'[u1].stats
       /\ Extends(u1) => upd'[u1].rows = upd[u1].rows + 1 /\ upd'[u1].rows <= 3 /\ upd'[u1].n <= 3

MCSymmetry == Permutations(MCInodes)
==============================================================================
