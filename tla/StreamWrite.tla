------------------------------ MODULE StreamWrite ------------------------------
(***************************************************************************)
(* write_dataset_streaming (src/colstore/format.py): a file is laid out     *)
(* under a temporary name, filled batch by batch or by a plan of raw        *)
(* copies, and renamed onto its path.  The pwrite fill overlaps the writes  *)
(* of one batch, on a background thread and its pool, with the evaluation   *)
(* of the next; every step of a thread another one can fall between is an   *)
(* action here.                                                             *)
(*                                                                          *)
(* A cell is one row of one column.  What is written there is the number of  *)
(* the row of the selection (rows, or all) that it holds, so a file is      *)
(* right when row r of every column holds r.                                *)
(***************************************************************************)
EXTENDS Naturals, Sequences, FiniteSets, SequencesExt

CONSTANTS Cols,          \* the output columns
          None,
          Sizes,         \* rows of a file
          Budgets,       \* memory_budget, in bytes
          RowBytes,      \* bytes_per_row
          Cuts           \* rows of the first of two merged sources

ASSUME BoundsAssumption == /\ Sizes \subseteq Nat /\ Cuts \subseteq Nat
                           /\ Budgets \subseteq Nat \ {0}
                           /\ RowBytes \in Nat \ {0}
ASSUME NoneAssumption == \A n \in Sizes : None \notin [Cols -> [1..n -> Nat]]

VARIABLES target,   \* the file behind the path, None to begin with
          temp,     \* the cells of the temporary file, None when there is none
          main,     \* the calling thread
          queue     \* the batches submitted and not yet forgotten

vars == <<target, temp, main, queue>>

------------------------------------------------------------------------------
(* Batches and jobs *)

MinOf(a, b) == IF a < b THEN a ELSE b
MaxOf(a, b) == IF a < b THEN b ELSE a

BatchRows(n, budget) == IF n = 0 THEN 0 ELSE MaxOf(1, MinOf(n, budget \div RowBytes))

\* range(0, n_rows, batch_rows), counted from 1.
Spans(n, per) == IF n = 0 THEN 0 ELSE (n + per - 1) \div per
Start(m, k) == (k - 1) * m.per
Stop(m, k)  == MinOf(Start(m, k) + m.per, m.n)

\* count rows of a column, from source row src + 1 on, to row at + 1 on.
Job(c, src, at, count) == [col |-> c, src |-> src, at |-> at, count |-> count]

\* build_jobs: one write per column.
BatchJobs(m, k) == {Job(c, Start(m, k), Start(m, k), Stop(m, k) - Start(m, k)) : c \in Cols}

\* _merge_copy_plan: of every column the rows of each source, end to end.
PlanJobs(m) ==
  LET cut == MinOf(m.cut, m.n) IN
  {j \in UNION {{Job(c, 0, 0, cut), Job(c, cut, cut, m.n - cut)} : c \in Cols} : j.count > 0}

Batch(jobs) == [todo |-> jobs, bad |-> FALSE]
Done(b) == b.todo = {}

\* What the cells are after a job.
Written(cells, j) ==
  [c \in DOMAIN cells |->
     IF c # j.col THEN cells[c]
     ELSE [r \in DOMAIN cells[c] |->
             IF r \in (j.at + 1)..(j.at + j.count) THEN j.src + r - j.at ELSE cells[c][r]]]

------------------------------------------------------------------------------
(* The calling thread *)

\* pc    build  the next batch is being evaluated   drain  waiting for the last batch
\*       await  it is, and waits for its turn       leave  leaving pool and descriptor
\*       sync   the file is filled                  unlink the write failed
\* how   pwrite and mmap are the two fills; plan is a copy plan, cfr one that
\*       copy_file_range is tried on first
\* n, per, cut, k   rows, rows of a batch, rows of the first source, batches built
Call(pc, how, n, per, cut) ==
  [pc |-> pc, how |-> how, n |-> n, per |-> per, cut |-> cut, k |-> 0]

Ended == Call("ended", "pwrite", 0, 0, 0)

Init == /\ target = None
        /\ temp = None
        /\ main = Ended
        /\ queue = <<>>

Copies(m) == m.how \in {"plan", "cfr"}

\* Nothing to evaluate any more?
AllBuilt(m) == Copies(m) \/ m.k >= Spans(m.n, m.per)

\* The places in queue of the batches with a job to run, the oldest of them, and
\* the queue once the batches before that are forgotten.
InFlight == {k \in 1..Len(queue) : ~Done(queue[k])}
Oldest   == CHOOSE k \in InFlight : \A j \in InFlight : k <= j
Backlog  == IF InFlight = {} THEN <<>> ELSE SubSeq(queue, Oldest, Len(queue))

\* The header goes out, the body is laid out as zeros, and the way to fill it is
\* chosen: the copy plan is there for untransformed columns only.
Begin ==
  /\ main.pc = "ended"
  /\ \E n \in Sizes, budget \in Budgets, how \in {"pwrite", "mmap", "plan", "cfr"}, cut \in Cuts :
       LET m == Call(IF n = 0 THEN "sync" ELSE IF how \in {"plan", "cfr"} THEN "drain" ELSE "build",
                     how, n, BatchRows(n, budget), cut) IN
       /\ how \in {"pwrite", "mmap"} => cut = 0
       /\ temp' = [c \in Cols |-> [r \in 1..n |-> 0]]
       /\ main' = m
       /\ queue' = IF m.pc = "drain" THEN <<Batch(PlanJobs(m))>> ELSE <<>>
  /\ UNCHANGED target

\* A batch is read and transformed, while the one before it may be written.
Build ==
  /\ main.pc = "build"
  /\ main' = [main EXCEPT !.pc = "await", !.k = @ + 1]
  /\ UNCHANGED <<target, temp, queue>>

BuildFails ==
  /\ main.pc = "build"
  /\ main' = [main EXCEPT !.pc = "leave"]
  /\ queue' = Append(queue, [todo |-> {}, bad |-> TRUE])
  /\ UNCHANGED <<target, temp>>

\* A slip to catch: it waits for a success.
WaitsForSuccess == queue # <<>> => Done(Last(queue)) /\ ~Last(queue).bad

\* pending.result() returns or raises: the batch last submitted is over.
PendingOver == queue # <<>> => Done(Last(queue))

\* A slip to catch: nobody asks what became of it.
ResultIgnored == FALSE

\* It raises.
PendingRaises == queue # <<>> /\ Last(queue).bad

\* Only the pwrite fill of more than one batch evaluates while it writes.
Overlaps(m) == m.how = "pwrite" /\ Spans(m.n, m.per) > 1

\* The batch built goes to the background thread, or to the pool to be waited
\* for, once the batch before it is written.
Handoff ==
  /\ main.pc = "await"
  /\ PendingOver
  /\ IF PendingRaises
     THEN main' = [main EXCEPT !.pc = "leave"] /\ UNCHANGED queue
     ELSE /\ main' = [main EXCEPT !.pc =
                        IF Overlaps(main) /\ ~AllBuilt(main) THEN "build" ELSE "drain"]
          /\ queue' = Append(Backlog, Batch(BatchJobs(main, main.k)))
  /\ UNCHANGED <<target, temp>>

\* The batch submitted is written.  A copy_file_range that failed is done over
\* by the mmap copy, of the whole body.
Drain ==
  /\ main.pc = "drain"
  /\ PendingOver
  /\ IF PendingRaises /\ main.how = "cfr"
     THEN /\ main' = [main EXCEPT !.how = "plan"]
          /\ queue' = <<Batch(PlanJobs(main))>>
     ELSE /\ main' = [main EXCEPT !.pc =
                        IF PendingRaises \/ AllBuilt(main) THEN "leave" ELSE "build"]
          /\ UNCHANGED queue
  /\ UNCHANGED <<target, temp>>

\* A slip to catch: the pool is left without waiting for what it runs.
NoWaitAtExit == TRUE

\* ThreadPoolExecutor.__exit__ returns when every job has run.
PoolIdle == InFlight = {}

\* The pool is left and the descriptor closed, whether or not there is an error
\* to raise.
Leave ==
  /\ main.pc = "leave"
  /\ PoolIdle
  /\ main' = [main EXCEPT !.pc = IF PendingRaises THEN "unlink" ELSE "sync"]
  /\ UNCHANGED <<target, temp, queue>>

\* fsync, then the rename onto the path.
Publish ==
  /\ main.pc = "sync"
  /\ target' = temp
  /\ temp' = None
  /\ main' = Ended
  /\ queue' = Backlog

PublishFails ==
  /\ main.pc = "sync"
  /\ main' = [main EXCEPT !.pc = "unlink"]
  /\ UNCHANGED <<target, temp, queue>>

\* The temporary is removed, as far as it can be, and the error raised.
Unlink ==
  /\ main.pc = "unlink"
  /\ temp' = None
  /\ main' = Ended
  /\ queue' = Backlog
  /\ UNCHANGED target

\* The process dies; its temporary is never looked at again.
Crash ==
  /\ main.pc # "ended"
  /\ temp' = None
  /\ main' = Ended
  /\ queue' = <<>>
  /\ UNCHANGED target

------------------------------------------------------------------------------
(* The threads that write *)

\* One batch is written at a time, its jobs in any order.
JobWrites ==
  /\ InFlight # {}
  /\ \E j \in queue[Oldest].todo :
       /\ temp' = IF temp = None THEN None ELSE Written(temp, j)
       /\ queue' = [queue EXCEPT ![Oldest].todo = @ \ {j}]
  /\ UNCHANGED <<target, main>>

\* A job raises: on a pool the others run on, in a plain loop they are dropped.
AfterJobFailure(b, j) == {[todo |-> rest, bad |-> TRUE] : rest \in {b.todo \ {j}, {}}}

\* It may have written some of its rows.
JobFails ==
  /\ InFlight # {}
  /\ \E j \in queue[Oldest].todo :
       /\ \E some \in 0..(j.count - 1) :
            temp' = IF temp = None THEN None ELSE Written(temp, [j EXCEPT !.count = some])
       /\ \E b \in AfterJobFailure(queue[Oldest], j) : queue' = [queue EXCEPT ![Oldest] = b]
  /\ UNCHANGED <<target, main>>

Main == Build \/ BuildFails \/ Handoff \/ Drain \/ Leave \/ Publish \/ PublishFails \/ Unlink
Workers == JobWrites \/ JobFails

Next == Begin \/ Main \/ Workers \/ Crash

Spec == Init /\ [][Next]_vars

\* A call under way goes on, and so does a pool with work; nobody has to begin
\* another write.
FairSpec == Spec /\ WF_vars(Main) /\ WF_vars(Workers)

------------------------------------------------------------------------------
(* Properties *)

\* The file at the path is complete: every row of every column is there, in its
\* place, however the file was filled and whatever failed, raced or fell back on
\* the way ("A reader never sees a partial file", atomic_publish).
PublishedComplete ==
  target # None => \A c \in Cols : \A r \in DOMAIN target[c] : target[c][r] = r

\* Of the batch being evaluated and those not yet written there are at most two
\* ("bounds memory to two batches in flight", _fill_streaming_pwrite), and none once
\* the descriptor is closed: no thread writes through it then, nor into a file that is
\* being renamed or removed, after an error no less than after success.
BatchesInFlight ==
  /\ Cardinality(InFlight) + (IF main.pc \in {"build", "await"} THEN 1 ELSE 0) <= 2
  /\ main.pc \in {"sync", "unlink", "ended"} => InFlight = {}

\* A write under way ends, published or failed: no wait for a batch is for ever,
\* not even when jobs or transforms raise.
Terminates == main.pc # "ended" ~> main.pc = "ended"
==============================================================================
