---------------------------- MODULE StreamWriteInv ----------------------------
(***************************************************************************)
(* The inductive invariant behind StreamWrite's safety properties.         *)
(***************************************************************************)
EXTENDS StreamWrite

PCs  == {"build", "await", "drain", "leave", "sync", "unlink", "ended"}
Hows == {"pwrite", "mmap", "plan", "cfr"}

Calls == [pc : PCs, how : Hows, n : Nat, per : Nat, cut : Nat, k : Nat]

\* A job puts rows where they belong: row r of the selection into row r.
Jobs    == {j \in [col : Cols, src : Nat, at : Nat, count : Nat] : j.src = j.at}
Batches == [todo : SUBSET Jobs, bad : BOOLEAN]
Cells(n) == [Cols -> [1..n -> Nat]]

TypeInv == /\ main \in Calls
           /\ main.pc # "ended" => main.n \in Sizes /\ (main.n > 0 => main.per > 0)
           /\ main.pc = "build" => ~AllBuilt(main)
           /\ main.pc = "await" => ~Copies(main) /\ main.k > 0 /\ main.k - 1 < Spans(main.n, main.per)
           /\ queue \in Seq(Batches)
           /\ IF main.pc = "ended" THEN temp = None ELSE temp \in Cells(main.n)

\* One batch at most is pending; behind it only the mark of a failed evaluation.
QueueInv == /\ Len(queue) <= 2
            /\ Len(queue) = 2 => main.pc \in {"leave", "unlink"} /\ Done(queue[2]) /\ queue[2].bad
            /\ main.pc \in {"sync", "unlink", "ended"} => InFlight = {}

\* The rows whose batch has been submitted.
Submitted(m) == IF Copies(m) THEN m.n
                ELSE IF m.pc = "await" THEN MinOf((m.k - 1) * m.per, m.n)
                ELSE MinOf(m.k * m.per, m.n)

Covers(j, c, r) == j.col = c /\ j.at < r /\ r <= j.at + j.count

\* What the batch last submitted still has to write, and nothing if there is none.
Pending(q) == IF q = <<>> THEN {} ELSE Last(q).todo

\* The first rows are there, but for those a job is still to write.
Filled(cells, todo, rows) ==
  \A c \in Cols, r \in 1..rows : cells[c][r] = r \/ \E j \in todo : Covers(j, c, r)

FillInv == /\ main.pc \in {"build", "await", "drain", "leave"} /\ ~PendingRaises =>
                Filled(temp, Pending(queue), Submitted(main))
           /\ main.pc = "leave" /\ ~PendingRaises => AllBuilt(main)
           /\ main.pc = "sync" => Filled(temp, {}, main.n)

IInv == TypeInv /\ QueueInv /\ FillInv /\ PublishedComplete
==============================================================================
