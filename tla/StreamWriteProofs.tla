-------------------------- MODULE StreamWriteProofs ---------------------------
(***************************************************************************)
(* A streamed write publishes complete files only, with at most two batches *)
(* in flight and no thread at work once its descriptor is closed: for every *)
(* number of columns and rows, every memory budget and every interleaving.  *)
(***************************************************************************)
EXTENDS StreamWriteInv, SequenceTheorems, FiniteSetTheorems, TLAPS

------------------------------------------------------------------------------
(* Jobs *)

\* A job writes the rows it covers, each as itself, and no other.
LEMMA WrittenFacts ==
  ASSUME NEW n \in Nat, NEW cells \in Cells(n), NEW j \in Jobs
  PROVE  /\ Written(cells, j) \in Cells(n)
         /\ \A c \in Cols, r \in 1..n :
              Written(cells, j)[c][r] = IF Covers(j, c, r) THEN r ELSE cells[c][r]
<1>1. j.src = j.at /\ j.at \in Nat /\ j.count \in Nat /\ j.src \in Nat
  BY DEF Jobs
<1>2. DOMAIN cells = Cols /\ \A c \in Cols : DOMAIN cells[c] = 1..n
  BY DEF Cells
<1>3. \A r \in 1..n : /\ r \in Nat /\ j.src + r - j.at = r
                      /\ r \in (j.at + 1)..(j.at + j.count) <=> j.at < r /\ r <= j.at + j.count
  BY <1>1
<1> DEFINE w(c, r) == IF Covers(j, c, r) THEN r ELSE cells[c][r]
<1>4. ASSUME NEW c \in Cols
      PROVE  Written(cells, j)[c] = [r \in 1..n |-> w(c, r)]
  <2>1. CASE c = j.col
    <3>1. Written(cells, j)[c] =
            [r \in 1..n |-> IF r \in (j.at + 1)..(j.at + j.count) THEN j.src + r - j.at
                                                                  ELSE cells[c][r]]
      BY <1>2, <2>1 DEF Written
    <3> QED
      BY <1>3, <2>1, <3>1 DEF Covers
  <2>2. CASE c # j.col
    <3>1. Written(cells, j)[c] = cells[c]
      BY <1>2, <2>2 DEF Written
    <3>2. cells[c] = [r \in 1..n |-> cells[c][r]]
      BY DEF Cells
    <3> QED
      BY <2>2, <3>1, <3>2 DEF Covers
  <2> QED
    BY <2>1, <2>2
<1>5. \A c \in Cols, r \in 1..n : w(c, r) \in Nat
  BY <1>3 DEF Cells
<1>6. DOMAIN Written(cells, j) = Cols /\ Written(cells, j) = [c \in Cols |-> Written(cells, j)[c]]
  BY <1>2 DEF Written
<1> HIDE DEF w
<1>7. Written(cells, j) \in Cells(n)
  BY <1>4, <1>5, <1>6 DEF Cells
<1>8. \A c \in Cols, r \in 1..n : Written(cells, j)[c][r] = w(c, r)
  BY <1>4
<1> QED
  BY <1>7, <1>8 DEF w

\* A copy plan covers the file.
LEMMA PlanCovers ==
  ASSUME NEW m \in Calls
  PROVE  /\ PlanJobs(m) \subseteq Jobs
         /\ \A c \in Cols, r \in 1..m.n : \E j \in PlanJobs(m) : Covers(j, c, r)
<1> DEFINE cut == MinOf(m.cut, m.n)
           a(c) == Job(c, 0, 0, cut)
           b(c) == Job(c, cut, cut, m.n - cut)
<1>1. cut \in Nat /\ cut <= m.n /\ m.n \in Nat /\ m.n - cut \in Nat
  BY DEF MinOf, Calls
<1>2. PlanJobs(m) = {j \in UNION {{a(c), b(c)} : c \in Cols} : j.count > 0}
  BY DEF PlanJobs
<1>3. \A c : /\ a(c).col = c /\ a(c).at = 0 /\ a(c).count = cut
             /\ b(c).col = c /\ b(c).at = cut /\ b(c).count = m.n - cut
  BY DEF Job
<1>4. \A c \in Cols : a(c) \in Jobs /\ b(c) \in Jobs
  BY <1>1 DEF Job, Jobs
<1> HIDE DEF a, b
<1>5. ASSUME NEW c \in Cols, NEW r \in 1..m.n
      PROVE  \E j \in PlanJobs(m) : Covers(j, c, r)
  <2>1. CASE r <= cut
    <3>1. Covers(a(c), c, r) /\ a(c).count > 0
      BY <1>1, <1>3, <2>1 DEF Covers
    <3> QED
      BY <1>2, <3>1
  <2>2. CASE ~(r <= cut)
    <3>1. Covers(b(c), c, r) /\ b(c).count > 0
      BY <1>1, <1>3, <2>2 DEF Covers
    <3> QED
      BY <1>2, <3>1
  <2> QED
    BY <2>1, <2>2
<1> QED
  BY <1>2, <1>4, <1>5

\* The spans of a file reach its end, each but the last short of it.
LEMMA SpansFacts ==
  ASSUME NEW n \in Nat, NEW per \in Nat, n > 0 => per > 0, NEW k \in Nat
  PROVE  /\ Spans(n, per) \in Nat
         /\ k >= Spans(n, per) => n <= k * per
         /\ k < Spans(n, per) => n > 0 /\ k * per < n
         /\ n > 0 => 0 < Spans(n, per)
<1>1. CASE n = 0
  BY <1>1 DEF Spans
<1>2. CASE n > 0
  <2>1. Spans(n, per) = (n + per - 1) \div per /\ per \in Nat \ {0}
    BY <1>2 DEF Spans
  <2>2. k >= (n + per - 1) \div per => n <= k * per
    BY <2>1
  <2>3. k < (n + per - 1) \div per => k * per < n
    BY <2>1
  <2>4. (n + per - 1) \div per \in Nat
    <3>1. n + per - 1 \in Nat
      BY <1>2
    <3> QED
      BY <2>1, <3>1
  <2>5. 0 < (n + per - 1) \div per
    BY <1>2, <2>1
  <2> QED
    BY <1>2, <2>1, <2>2, <2>3, <2>4, <2>5
<1> QED
  BY <1>1, <1>2

\* A batch covers the rows from where the one before it ends.
LEMMA BatchCovers ==
  ASSUME NEW m \in Calls, m.k > 0, m.n > 0 => m.per > 0, m.k - 1 < Spans(m.n, m.per)
  PROVE  /\ BatchJobs(m, m.k) \subseteq Jobs
         /\ \A c \in Cols, r \in 1..MinOf(m.k * m.per, m.n) :
              (m.k - 1) * m.per < r => \E j \in BatchJobs(m, m.k) : Covers(j, c, r)
<1> DEFINE at == (m.k - 1) * m.per
           stop == Stop(m, m.k)
<1>1. /\ m.k \in Nat /\ m.per \in Nat /\ m.n \in Nat /\ m.k - 1 \in Nat
      /\ at \in Nat /\ at + m.per = m.k * m.per
  BY DEF Calls
<1>2. at < m.n
  BY <1>1, SpansFacts
<1>3. stop = MinOf(m.k * m.per, m.n) /\ stop \in Nat /\ at <= stop /\ stop - at \in Nat
  <2>1. stop = MinOf(at + m.per, m.n)
    BY DEF Stop, Start
  <2> DEFINE per == m.per
             n == m.n
  <2> HIDE DEF at, stop, per, n
  <2>2. at \in Nat /\ per \in Nat /\ n \in Nat /\ at < n /\ stop = MinOf(at + per, n)
    BY <1>1, <1>2, <2>1 DEF per, n
  <2>3. stop \in Nat /\ at <= stop /\ stop - at \in Nat
    BY <2>2 DEF MinOf
  <2> QED
    BY <1>1, <2>2, <2>3 DEF per, n
<1>4. BatchJobs(m, m.k) = {Job(c, at, at, stop - at) : c \in Cols}
  BY DEF BatchJobs, Start
<1> HIDE DEF at, stop
<1>5. \A c \in Cols : Job(c, at, at, stop - at) \in Jobs
  BY <1>1, <1>3 DEF Job, Jobs
<1>6. \A c, r : at < r /\ r <= at + (stop - at) => Covers(Job(c, at, at, stop - at), c, r)
  BY DEF Covers, Job
<1>7. \A r \in 1..stop : r <= at + (stop - at)
  BY <1>1, <1>3
<1>8. \A c \in Cols, r \in 1..stop : at < r => \E j \in BatchJobs(m, m.k) : Covers(j, c, r)
  BY <1>4, <1>6, <1>7
<1> QED
  BY <1>3, <1>4, <1>5, <1>8 DEF at

------------------------------------------------------------------------------
(* The queue *)

\* A queue of at most two batches.
LEMMA QueueShapes ==
  ASSUME TypeInv, QueueInv
  PROVE  /\ Len(queue) \in 0..2
         /\ queue = <<>> <=> Len(queue) = 0
         /\ \A k \in 1..Len(queue) : queue[k] \in Batches
         /\ queue # <<>> => Last(queue) \in Batches /\ Last(queue) = queue[Len(queue)]
<1>1. queue \in Seq(Batches) /\ Len(queue) \in Nat /\ Len(queue) <= 2
  BY LenProperties DEF TypeInv, QueueInv
<1>2. queue = <<>> <=> Len(queue) = 0
  BY <1>1, EmptySeq
<1>3. \A k \in 1..Len(queue) : queue[k] \in Batches
  BY <1>1, ElementOfSeq
<1>4. queue # <<>> => Len(queue) \in 1..Len(queue)
  BY <1>1, <1>2
<1> DEFINE l == Len(queue)
<1>5. l \in 0..2
  <2>1. l \in Nat /\ l <= 2
    BY <1>1
  <2> HIDE DEF l
  <2> QED
    BY <2>1
<1>6. queue # <<>> => Last(queue) \in Batches /\ Last(queue) = queue[Len(queue)]
  BY <1>3, <1>4 DEF Last
<1> QED
  BY <1>2, <1>3, <1>5, <1>6

\* Once the pending batch is over, nothing is in flight but for a batch whose
\* successor failed.
LEMMA NothingInFlight ==
  ASSUME TypeInv, QueueInv, PendingOver, main.pc \notin {"leave"}
  PROVE  InFlight = {} /\ Backlog = <<>> /\ (queue # <<>> => Last(queue).todo = {})
<1>1. \A k \in 1..Len(queue) : k = Len(queue) \/ main.pc = "unlink"
  BY QueueShapes DEF QueueInv
<1>2. InFlight = {}
  BY <1>1, QueueShapes DEF InFlight, PendingOver, QueueInv
<1> QED
  BY <1>2 DEF Backlog, PendingOver, Done

\* The batch that is written is the one submitted last, or the call has failed.
LEMMA NextBatch ==
  ASSUME TypeInv, QueueInv, InFlight # {}
  PROVE  /\ Oldest \in 1..Len(queue) /\ queue[Oldest] \in Batches /\ Oldest \in InFlight
         /\ main.pc \notin {"sync", "unlink", "ended"}
         /\ \/ Oldest = Len(queue)
            \/ Oldest = 1 /\ Len(queue) = 2 /\ main.pc = "leave" /\ Last(queue).bad /\ PendingRaises
<1>1. \E k \in InFlight : \A j \in InFlight : k <= j
  <2>1. \A k \in InFlight : k \in 1..Len(queue)
    BY DEF InFlight
  <2>2. CASE 1 \in InFlight
    BY <2>1, <2>2, QueueShapes
  <2>3. CASE 1 \notin InFlight
    BY <2>1, <2>3, QueueShapes
  <2> QED
    BY <2>2, <2>3
<1>2. Oldest \in InFlight
  BY <1>1 DEF Oldest
<1>3. Oldest \in 1..Len(queue)
  BY <1>2 DEF InFlight
<1>4. Oldest # Len(queue) => Oldest = 1 /\ Len(queue) = 2
  BY <1>3, QueueShapes
<1> QED
  BY <1>2, <1>3, <1>4, QueueShapes DEF QueueInv, PendingRaises

\* A queue of one batch.
LEMMA OneBatch ==
  ASSUME NEW b \in Batches
  PROVE  /\ <<b>> \in Seq(Batches) /\ Len(<<b>>) = 1 /\ Last(<<b>>) = b /\ <<b>> # <<>>
         /\ Append(<<>>, b) = <<b>>
  BY DEF Last

\* A batch of jobs.
LEMMA BatchType == ASSUME NEW jobs, jobs \subseteq Jobs PROVE
         Batch(jobs) \in Batches /\ Batch(jobs).todo = jobs /\ ~Batch(jobs).bad
  BY DEF Batch, Batches

------------------------------------------------------------------------------
(* The calling thread *)

\* An empty queue has nothing in flight and nothing to raise.
LEMMA EmptyQueue ==
  ASSUME queue = <<>>
  PROVE  queue \in Seq(Batches) /\ QueueInv /\ InFlight = {} /\ Pending(queue) = {} /\ ~PendingRaises
<1>1. Len(queue) = 0 /\ queue \in Seq(Batches)
  OBVIOUS
<1>2. InFlight = {}
  BY <1>1 DEF InFlight
<1> QED
  BY <1>1, <1>2 DEF QueueInv, Pending, PendingRaises

\* And so it is with one that was emptied.
LEMMA EmptyQueueNext ==
  ASSUME queue' = <<>>
  PROVE  /\ queue' \in Seq(Batches) /\ QueueInv' /\ InFlight' = {}
         /\ Pending(queue') = {} /\ ~PendingRaises'
<1>1. Len(queue') = 0 /\ queue' \in Seq(Batches)
  OBVIOUS
<1>2. InFlight' = {}
  BY <1>1 DEF InFlight
<1> QED
  BY <1>1, <1>2 DEF QueueInv, Pending, PendingRaises

\* A queue of one batch has that one to wait for.
LEMMA SingleQueueNext ==
  ASSUME NEW b \in Batches, queue' = <<b>>, main'.pc \notin {"sync", "unlink", "ended"}
  PROVE  /\ queue' \in Seq(Batches) /\ QueueInv'
         /\ Pending(queue') = b.todo /\ (PendingRaises' <=> b.bad)
<1>1. queue' \in Seq(Batches) /\ Len(queue') = 1 /\ Last(queue') = b /\ queue' # <<>>
  BY OneBatch
<1> QED
  BY <1>1 DEF QueueInv, Pending, PendingRaises

\* Nothing is written to begin with.
LEMMA InitInv == ASSUME Init PROVE IInv
<1>1. /\ main.pc = "ended" /\ main.n = 0 /\ main \in Calls /\ queue = <<>> /\ target = None
      /\ temp = None
  BY DEF Init, Ended, Call, Calls, PCs, Hows
<1>2. Len(queue) = 0 /\ queue \in Seq(Batches)
  BY <1>1
<1>3. InFlight = {}
  BY <1>2 DEF InFlight
<1>4. TypeInv
  BY <1>1, <1>2 DEF TypeInv
<1> QED
  BY <1>1, <1>4, EmptyQueue DEF IInv, FillInv, PublishedComplete

\* A call begins: the body is laid out, and none of it submitted, or all of it
\* as one plan of copies.
LEMMA BeginKeeps == ASSUME IInv, Begin PROVE IInv'
<1>1. PICK n \in Sizes, budget \in Budgets, how \in Hows, cut \in Cuts :
        LET m == Call(IF n = 0 THEN "sync" ELSE IF how \in {"plan", "cfr"} THEN "drain" ELSE "build",
                      how, n, BatchRows(n, budget), cut) IN
        /\ main' = m
        /\ temp' = [c \in Cols |-> [r \in 1..n |-> 0]]
        /\ queue' = IF m.pc = "drain" THEN <<Batch(PlanJobs(m))>> ELSE <<>>
  BY DEF Begin, Hows
<1> DEFINE pc == IF n = 0 THEN "sync" ELSE IF how \in {"plan", "cfr"} THEN "drain" ELSE "build"
           m == Call(pc, how, n, BatchRows(n, budget), cut)
<1>2. n \in Nat /\ cut \in Nat /\ budget \in Nat /\ RowBytes \in Nat \ {0}
  BY BoundsAssumption
<1>3. BatchRows(n, budget) \in Nat /\ (n > 0 => BatchRows(n, budget) > 0)
  <2>1. budget \div RowBytes \in Nat
    BY <1>2
  <2> QED
    BY <1>2, <2>1 DEF BatchRows, MinOf, MaxOf
<1>4. /\ m \in Calls /\ m.pc = pc /\ m.how = how /\ m.n = n /\ m.k = 0
      /\ m.per = BatchRows(n, budget)
  BY <1>2, <1>3 DEF Call, Calls, PCs, Hows
<1>5. main' = m /\ temp' = [c \in Cols |-> [r \in 1..n |-> 0]]
      /\ queue' = IF pc = "drain" THEN <<Batch(PlanJobs(m))>> ELSE <<>>
  BY <1>1, <1>4
<1>6. PlanJobs(m) \subseteq Jobs /\ \A c \in Cols, r \in 1..m.n : \E j \in PlanJobs(m) : Covers(j, c, r)
  BY <1>4, PlanCovers
<1>7. /\ Batch(PlanJobs(m)) \in Batches /\ Batch(PlanJobs(m)).todo = PlanJobs(m)
      /\ ~Batch(PlanJobs(m)).bad
  BY <1>6, BatchType
<1>8. temp' \in Cells(n) /\ target' = target
  BY <1>2, <1>5 DEF Cells, Begin
<1> HIDE DEF m
<1>9. PublishedComplete'
  BY <1>8 DEF IInv, PublishedComplete
<1>10. n > 0 => m.per > 0
  BY <1>3, <1>4
<1>11. CASE pc = "sync"
  <2>1. n = 0 /\ queue' = <<>>
    BY <1>5, <1>11
  <2>2. TypeInv'
    BY <1>4, <1>5, <1>8, <1>11, <2>1, EmptyQueueNext DEF TypeInv
  <2>3. FillInv'
    BY <1>4, <1>5, <1>11, <2>1 DEF FillInv, Filled
  <2> QED
    BY <1>9, <2>1, <2>2, <2>3, EmptyQueueNext DEF IInv
<1>12. CASE pc = "drain"
  <2>1. queue' = <<Batch(PlanJobs(m))>> /\ Copies(m)
    BY <1>4, <1>5, <1>12 DEF Copies
  <2>2. TypeInv'
    BY <1>4, <1>5, <1>7, <1>8, <1>10, <1>12, <2>1, SingleQueueNext DEF TypeInv
  <2>3. Pending(queue') = PlanJobs(m) /\ QueueInv'
    BY <1>4, <1>5, <1>7, <1>12, <2>1, SingleQueueNext
  <2>4. FillInv'
    BY <1>4, <1>5, <1>6, <1>12, <2>1, <2>3 DEF FillInv, Filled, Submitted
  <2> QED
    BY <1>9, <2>2, <2>3, <2>4 DEF IInv
<1>13. CASE pc = "build"
  <2>1. queue' = <<>> /\ n > 0 /\ ~Copies(m)
    BY <1>2, <1>4, <1>5, <1>13 DEF Copies
  <2>2. ~AllBuilt(m)
    <3>1. Spans(n, m.per) \in Nat /\ 0 < Spans(n, m.per)
      BY <1>2, <1>3, <1>4, <1>10, <2>1, SpansFacts
    <3>2. ~(0 >= Spans(n, m.per))
      BY <3>1
    <3> QED
      BY <1>4, <2>1, <3>2 DEF AllBuilt
  <2>3. TypeInv'
    BY <1>4, <1>5, <1>8, <1>10, <1>13, <2>1, <2>2, EmptyQueueNext DEF TypeInv
  <2>4. Submitted(m) = 0
    BY <1>2, <1>3, <1>4, <1>13, <2>1 DEF Submitted, MinOf
  <2>5. FillInv'
    BY <1>4, <1>5, <1>13, <2>4 DEF FillInv, Filled
  <2> QED
    BY <1>9, <2>1, <2>3, <2>5, EmptyQueueNext DEF IInv
<1> QED
  BY <1>11, <1>12, <1>13

\* What the calling thread is after it moved on.
LEMMA MainMoves ==
  ASSUME main \in Calls, NEW pc \in PCs, main' = [main EXCEPT !.pc = pc]
  PROVE  /\ main' \in Calls /\ main'.pc = pc
         /\ main'.how = main.how /\ main'.n = main.n /\ main'.per = main.per
         /\ main'.cut = main.cut /\ main'.k = main.k
  BY DEF Calls

\* The numbers of a call under way.
LEMMA CallFacts ==
  ASSUME TypeInv, main.pc # "ended"
  PROVE  /\ main \in Calls /\ main.n \in Nat /\ main.per \in Nat /\ main.k \in Nat
         /\ main.n \in Sizes /\ (main.n > 0 => main.per > 0)
         /\ temp \in Cells(main.n)
  BY DEF TypeInv, Calls

\* Evaluating a batch moves nothing.
LEMMA BuildKeeps == ASSUME IInv, Build PROVE IInv'
<1>1. /\ main.pc = "build" /\ main' = [main EXCEPT !.pc = "await", !.k = @ + 1]
      /\ UNCHANGED <<target, temp, queue>>
  BY DEF Build
<1>2. /\ main \in Calls /\ main.n \in Nat /\ main.per \in Nat /\ main.k \in Nat
      /\ main.n \in Sizes /\ (main.n > 0 => main.per > 0)
  BY <1>1, CallFacts DEF IInv
<1>3. /\ main' \in Calls /\ main'.pc = "await" /\ main'.k = main.k + 1
      /\ main'.how = main.how /\ main'.n = main.n /\ main'.per = main.per
  <2> DEFINE k == main.k + 1
  <2>1. k \in Nat
    BY <1>2
  <2>2. main' = [main EXCEPT !.pc = "await", !.k = k]
    BY <1>1
  <2> HIDE DEF k
  <2>3. main' \in Calls /\ main'.pc = "await" /\ main'.k = k
        /\ main'.how = main.how /\ main'.n = main.n /\ main'.per = main.per
    BY <1>2, <2>1, <2>2 DEF Calls, PCs
  <2> QED
    BY <2>3 DEF k
<1>4. ~Copies(main) /\ main.k < Spans(main.n, main.per)
  <2>1. ~AllBuilt(main)
    BY <1>1 DEF IInv, TypeInv
  <2>2. Spans(main.n, main.per) \in Nat
    BY <1>2, SpansFacts
  <2> QED
    BY <1>2, <2>1, <2>2 DEF AllBuilt
<1>5. ~Copies(main') /\ main'.k > 0 /\ main'.k - 1 = main.k
  BY <1>2, <1>3, <1>4 DEF Copies
<1>6. TypeInv'
  BY <1>1, <1>2, <1>3, <1>4, <1>5 DEF IInv, TypeInv
<1>7. QueueInv'
  BY <1>1, <1>3 DEF IInv, QueueInv, InFlight
<1>8. Submitted(main') = Submitted(main)
  BY <1>1, <1>3, <1>4, <1>5 DEF Submitted
<1>9. FillInv'
  BY <1>1, <1>3, <1>8 DEF IInv, FillInv, PendingRaises
<1> QED
  BY <1>1, <1>6, <1>7, <1>9 DEF IInv, PublishedComplete

\* A failed evaluation leaves its mark behind the batch that is being written.
LEMMA BuildFailsKeeps == ASSUME IInv, BuildFails PROVE IInv'
<1> DEFINE mark == [todo |-> {}, bad |-> TRUE]
<1>1. /\ main.pc = "build" /\ main' = [main EXCEPT !.pc = "leave"]
      /\ queue' = Append(queue, mark) /\ UNCHANGED <<target, temp>>
  BY DEF BuildFails
<1>2. mark \in Batches /\ Done(mark) /\ mark.bad
  BY DEF Batches, Done
<1> HIDE DEF mark
<1>3. queue \in Seq(Batches) /\ Len(queue) \in 0..1
  BY <1>1, QueueShapes DEF IInv, QueueInv, TypeInv
<1>4. /\ queue' \in Seq(Batches) /\ Len(queue') = Len(queue) + 1
      /\ queue'[Len(queue')] = mark /\ queue' # <<>>
  BY <1>1, <1>2, <1>3
<1>5. PendingRaises'
  BY <1>2, <1>4 DEF PendingRaises, Last
<1>6. /\ main' \in Calls /\ main'.pc = "leave" /\ main'.n = main.n /\ main'.per = main.per
  BY <1>1, MainMoves DEF IInv, TypeInv, PCs
<1>7. QueueInv'
  <2>1. Len(queue') <= 2 /\ (Len(queue') = 2 => queue'[2] = mark)
    <3> DEFINE l == Len(queue)
    <3>1. l \in 0..1 /\ Len(queue') = l + 1
      BY <1>3, <1>4
    <3> HIDE DEF l
    <3>2. Len(queue') <= 2
      BY <3>1
    <3> QED
      BY <1>4, <3>2
  <2> QED
    BY <1>2, <1>6, <2>1 DEF QueueInv, Done
<1>8. TypeInv'
  BY <1>1, <1>4, <1>6 DEF IInv, TypeInv
<1>9. FillInv'
  BY <1>5, <1>6 DEF FillInv
<1> QED
  BY <1>1, <1>7, <1>8, <1>9 DEF IInv, PublishedComplete

\* The batch built is submitted when the one before it is in the file.
LEMMA HandoffKeeps == ASSUME IInv, Handoff PROVE IInv'
<1>1. main.pc = "await" /\ PendingOver /\ UNCHANGED <<target, temp>>
  BY DEF Handoff
<1>2. /\ main \in Calls /\ main.n \in Nat /\ main.per \in Nat /\ main.k \in Nat
      /\ main.n \in Sizes /\ (main.n > 0 => main.per > 0)
  BY <1>1, CallFacts DEF IInv
<1>3. ~Copies(main) /\ main.k > 0 /\ main.k - 1 < Spans(main.n, main.per)
  BY <1>1 DEF IInv, TypeInv
<1>4. PublishedComplete'
  BY <1>1 DEF IInv, PublishedComplete
<1>5. CASE PendingRaises
  <2>1. main' = [main EXCEPT !.pc = "leave"] /\ queue' = queue
    BY <1>5 DEF Handoff
  <2>2. /\ main' \in Calls /\ main'.pc = "leave" /\ main'.n = main.n /\ main'.per = main.per
    BY <1>2, <2>1, MainMoves DEF PCs
  <2>3. TypeInv' /\ QueueInv'
    BY <1>1, <1>2, <2>1, <2>2 DEF IInv, TypeInv, QueueInv
  <2>4. FillInv'
    BY <1>5, <2>1, <2>2 DEF FillInv, PendingRaises
  <2> QED
    BY <1>4, <2>3, <2>4 DEF IInv
<1>6. CASE ~PendingRaises
  <2> DEFINE jobs == BatchJobs(main, main.k)
  <2>1. Backlog = <<>> /\ (queue # <<>> => Last(queue).todo = {})
    BY <1>1, NothingInFlight DEF IInv
  <2>2. /\ jobs \subseteq Jobs
        /\ \A c \in Cols, r \in 1..MinOf(main.k * main.per, main.n) :
             (main.k - 1) * main.per < r => \E j \in jobs : Covers(j, c, r)
    BY <1>2, <1>3, BatchCovers
  <2>3. PICK pc \in {"build", "drain"} :
          /\ main' = [main EXCEPT !.pc = pc]
          /\ pc = "build" => ~AllBuilt(main)
    BY <1>6 DEF Handoff
  <2>4. /\ main' \in Calls /\ main'.pc = pc /\ main'.n = main.n /\ main'.per = main.per
        /\ main'.k = main.k /\ main'.how = main.how
    BY <1>2, <2>3, MainMoves DEF PCs
  <2>5. Batch(jobs) \in Batches /\ Batch(jobs).todo = jobs /\ ~Batch(jobs).bad
    BY <2>2, BatchType
  <2>6. queue' = <<Batch(jobs)>>
    BY <1>6, <2>1, <2>5, OneBatch DEF Handoff
  <2>7. /\ queue' \in Seq(Batches) /\ QueueInv' /\ Pending(queue') = jobs /\ ~PendingRaises'
    BY <2>4, <2>5, <2>6, SingleQueueNext
  <2>8. TypeInv'
    <3>1. pc = "build" => ~AllBuilt(main')
      BY <2>3, <2>4 DEF AllBuilt, Copies
    <3> QED
      BY <1>1, <1>2, <2>4, <2>7, <3>1 DEF IInv, TypeInv
  <2> HIDE DEF jobs
  <2>9. Filled(temp', jobs, MinOf(main.k * main.per, main.n))
    <3>1. Filled(temp, {}, MinOf((main.k - 1) * main.per, main.n))
      <4>1. Pending(queue) = {} /\ Submitted(main) = MinOf((main.k - 1) * main.per, main.n)
        BY <1>1, <1>3, <2>1 DEF Pending, Submitted
      <4> QED
        BY <1>1, <1>6, <4>1 DEF IInv, FillInv
    <3>2. ASSUME NEW c \in Cols, NEW r \in 1..MinOf(main.k * main.per, main.n)
          PROVE  temp'[c][r] = r \/ \E j \in jobs : Covers(j, c, r)
      <4> DEFINE at == (main.k - 1) * main.per
                 all == main.k * main.per
      <4>1. at \in Nat /\ all \in Nat
        BY <1>2, <1>3
      <4>2. CASE at < r
        BY <2>2, <4>2
      <4>3. CASE ~(at < r)
        <5> HIDE DEF at, all
        <5>1. r \in 1..MinOf(all, main.n)
          BY <3>2 DEF all
        <5>2. r \in 1..MinOf(at, main.n)
          BY <1>2, <4>1, <4>3, <5>1 DEF MinOf
        <5> QED
          BY <1>1, <3>1, <5>2 DEF Filled, at
      <4> QED
        BY <4>2, <4>3
    <3> QED
      BY <3>2 DEF Filled
  <2>10. FillInv'
    <3>1. Submitted(main') = MinOf(main.k * main.per, main.n)
      BY <1>3, <2>3, <2>4 DEF Submitted, Copies
    <3> QED
      BY <2>4, <2>7, <2>9, <3>1 DEF FillInv
  <2> QED
    BY <1>4, <2>7, <2>8, <2>10 DEF IInv
<1> QED
  BY <1>5, <1>6

\* The pending batch is waited for; copy_file_range may start all over.
LEMMA DrainKeeps == ASSUME IInv, Drain PROVE IInv'
<1>1. main.pc = "drain" /\ PendingOver /\ UNCHANGED <<target, temp>>
  BY DEF Drain
<1>2. /\ main \in Calls /\ main.n \in Nat /\ main.per \in Nat /\ main.k \in Nat
      /\ main.n \in Sizes /\ (main.n > 0 => main.per > 0)
  BY <1>1, CallFacts DEF IInv
<1>3. PublishedComplete'
  BY <1>1 DEF IInv, PublishedComplete
<1>4. CASE PendingRaises /\ main.how = "cfr"
  <2> DEFINE jobs == PlanJobs(main)
  <2>1. main' = [main EXCEPT !.how = "plan"] /\ queue' = <<Batch(jobs)>>
    BY <1>4 DEF Drain
  <2>2. jobs \subseteq Jobs /\ \A c \in Cols, r \in 1..main.n : \E j \in jobs : Covers(j, c, r)
    BY <1>2, PlanCovers
  <2>3. Batch(jobs) \in Batches /\ Batch(jobs).todo = jobs /\ ~Batch(jobs).bad
    BY <2>2, BatchType
  <2>4. /\ main' \in Calls /\ main'.pc = "drain" /\ main'.n = main.n /\ main'.per = main.per
        /\ main'.how = "plan"
    BY <1>1, <1>2, <2>1 DEF Calls, Hows
  <2> HIDE DEF jobs
  <2>5. /\ queue' \in Seq(Batches) /\ QueueInv' /\ Pending(queue') = jobs
    BY <2>1, <2>3, <2>4, SingleQueueNext
  <2>6. TypeInv'
    BY <1>1, <1>2, <2>4, <2>5 DEF IInv, TypeInv
  <2>7. Filled(temp', jobs, main.n)
    BY <2>2 DEF Filled
  <2>8. FillInv'
    BY <2>4, <2>5, <2>7 DEF FillInv, Submitted, Copies
  <2> QED
    BY <1>3, <2>5, <2>6, <2>8 DEF IInv
<1>5. CASE ~(PendingRaises /\ main.how = "cfr")
  <2>1. PICK pc \in {"build", "leave"} :
          /\ main' = [main EXCEPT !.pc = pc]
          /\ pc = IF PendingRaises \/ AllBuilt(main) THEN "leave" ELSE "build"
    BY <1>5 DEF Drain
  <2>2. queue' = queue
    BY <1>5 DEF Drain
  <2>3. /\ main' \in Calls /\ main'.pc = pc /\ main'.n = main.n /\ main'.per = main.per
        /\ main'.k = main.k /\ main'.how = main.how
    BY <1>2, <2>1, MainMoves DEF PCs
  <2>4. (Copies(main') <=> Copies(main)) /\ (AllBuilt(main') <=> AllBuilt(main))
    BY <2>3 DEF Copies, AllBuilt
  <2>5. Submitted(main') = Submitted(main)
    BY <1>1, <2>3, <2>4 DEF Submitted
  <2>6. PendingRaises' <=> PendingRaises
    BY <2>2 DEF PendingRaises
  <2>7. TypeInv' /\ QueueInv'
    BY <1>1, <1>2, <2>1, <2>2, <2>3, <2>4 DEF IInv, TypeInv, QueueInv
  <2>8. FillInv'
    BY <1>1, <2>1, <2>2, <2>3, <2>4, <2>5, <2>6 DEF IInv, FillInv
  <2> QED
    BY <1>3, <2>7, <2>8 DEF IInv
<1> QED
  BY <1>4, <1>5

\* A call that has submitted all has submitted every row.
LEMMA AllSubmitted ==
  ASSUME TypeInv, main.pc = "leave", AllBuilt(main)
  PROVE  Submitted(main) = main.n
<1>1. /\ main.n \in Nat /\ main.per \in Nat /\ main.k \in Nat /\ (main.n > 0 => main.per > 0)
  BY CallFacts
<1>2. CASE Copies(main)
  BY <1>2 DEF Submitted
<1>3. CASE ~Copies(main)
  <2> DEFINE n == main.n
             all == main.k * main.per
  <2>1. n <= all /\ all \in Nat /\ n \in Nat
    BY <1>1, <1>3, SpansFacts DEF AllBuilt
  <2>2. Submitted(main) = MinOf(all, n)
    BY <1>3 DEF Submitted
  <2> HIDE DEF n, all
  <2>3. MinOf(all, n) = n
    BY <2>1 DEF MinOf
  <2> QED
    BY <2>2, <2>3 DEF n
<1> QED
  BY <1>2, <1>3

\* The pool is left: with nothing to raise the file is filled.
LEMMA LeaveKeeps == ASSUME IInv, Leave PROVE IInv'
<1>1. main.pc = "leave" /\ InFlight = {} /\ UNCHANGED <<target, temp, queue>>
  BY DEF Leave, PoolIdle
<1>2. PICK pc \in {"unlink", "sync"} :
        main' = [main EXCEPT !.pc = pc] /\ pc = IF PendingRaises THEN "unlink" ELSE "sync"
  BY DEF Leave
<1>3. /\ main \in Calls /\ main.n \in Sizes /\ (main.n > 0 => main.per > 0)
  BY <1>1, CallFacts DEF IInv
<1>4. /\ main' \in Calls /\ main'.pc = pc /\ main'.n = main.n /\ main'.per = main.per
  BY <1>2, <1>3, MainMoves DEF PCs
<1>5. PublishedComplete' /\ TypeInv' /\ InFlight' = {}
  BY <1>1, <1>3, <1>4 DEF IInv, TypeInv, PublishedComplete, InFlight
<1>6. QueueInv'
  <2>1. pc = "sync" => Len(queue) # 2
    BY <1>2, QueueShapes DEF IInv, QueueInv, PendingRaises
  <2> QED
    BY <1>1, <1>4, <1>5, <2>1 DEF IInv, QueueInv
<1>7. FillInv'
  <2>1. CASE pc = "sync"
    <3>1. ~PendingRaises
      BY <1>2, <2>1
    <3>2. Filled(temp, Pending(queue), main.n)
      BY <1>1, <3>1, AllSubmitted DEF IInv, FillInv
    <3>3. Pending(queue) = {}
      <4>1. CASE queue = <<>>
        BY <4>1 DEF Pending
      <4>2. CASE queue # <<>>
        <5>1. Len(queue) \in 1..Len(queue) /\ Last(queue) = queue[Len(queue)]
          BY <4>2, QueueShapes DEF IInv
        <5>2. Done(queue[Len(queue)])
          BY <1>1, <5>1 DEF InFlight
        <5> QED
          BY <4>2, <5>1, <5>2 DEF Pending, Done
      <4> QED
        BY <4>1, <4>2
    <3> QED
      BY <1>1, <1>4, <2>1, <3>2, <3>3 DEF FillInv
  <2>2. CASE pc = "unlink"
    BY <1>4, <2>2 DEF FillInv
  <2> QED
    BY <2>1, <2>2
<1> QED
  BY <1>5, <1>6, <1>7 DEF IInv

\* A call that is over leaves no temporary and nothing queued.
LEMMA EndedKeeps ==
  ASSUME main' = Ended, temp' = None, queue' = <<>>, PublishedComplete'
  PROVE  IInv'
<1>1. main' \in Calls /\ main'.pc = "ended"
  BY DEF Ended, Call, Calls, PCs, Hows
<1>2. TypeInv'
  BY <1>1, EmptyQueueNext DEF TypeInv
<1> QED
  BY <1>1, <1>2, EmptyQueueNext DEF IInv, FillInv

\* What is renamed onto the path is filled.
LEMMA PublishKeeps == ASSUME IInv, Publish PROVE IInv'
<1>1. main.pc = "sync" /\ target' = temp /\ temp' = None /\ main' = Ended /\ queue' = Backlog
  BY DEF Publish
<1>2. main.n \in Nat /\ temp \in Cells(main.n) /\ Filled(temp, {}, main.n)
  BY <1>1, CallFacts DEF IInv, FillInv
<1>3. queue' = <<>>
  BY <1>1 DEF Backlog, IInv, QueueInv
<1>4. ASSUME NEW c \in Cols, NEW r \in DOMAIN temp[c]
      PROVE  temp[c][r] = r
  BY <1>2 DEF Cells, Filled
<1>5. PublishedComplete'
  <2>1. DOMAIN temp = Cols
    BY <1>2 DEF Cells
  <2> QED
    BY <1>1, <1>4 DEF PublishedComplete
<1> QED
  BY <1>1, <1>3, <1>5, EndedKeeps

\* A file that could not be made durable is not published.
LEMMA PublishFailsKeeps == ASSUME IInv, PublishFails PROVE IInv'
<1>1. main.pc = "sync" /\ main' = [main EXCEPT !.pc = "unlink"] /\ UNCHANGED <<target, temp, queue>>
  BY DEF PublishFails
<1>2. /\ main \in Calls /\ main.n \in Sizes /\ (main.n > 0 => main.per > 0)
  BY <1>1, CallFacts DEF IInv
<1>3. /\ main' \in Calls /\ main'.pc = "unlink" /\ main'.n = main.n /\ main'.per = main.per
  BY <1>1, <1>2, MainMoves DEF PCs
<1> QED
  BY <1>1, <1>2, <1>3 DEF IInv, TypeInv, QueueInv, InFlight, FillInv, PublishedComplete

\* The temporary of a failed call goes, and what was queued is over.
LEMMA UnlinkKeeps == ASSUME IInv, Unlink PROVE IInv'
<1>1. main.pc = "unlink" /\ target' = target /\ temp' = None /\ main' = Ended /\ queue' = Backlog
  BY DEF Unlink
<1>2. queue' = <<>>
  BY <1>1 DEF Backlog, IInv, QueueInv
<1> QED
  BY <1>1, <1>2, EndedKeeps DEF IInv, PublishedComplete

\* A crash leaves the path alone.
LEMMA CrashKeeps == ASSUME IInv, Crash PROVE IInv'
  BY EndedKeeps DEF IInv, Crash, PublishedComplete

------------------------------------------------------------------------------
(* The threads that write *)

\* The batch that is written becomes another one; whether the call will raise,
\* and what is pending, is that batch's to say unless the call has failed.
LEMMA BatchMoves ==
  ASSUME TypeInv, QueueInv, InFlight # {}, NEW b \in Batches,
         queue' = [queue EXCEPT ![Oldest] = b], main' = main
  PROVE  /\ queue' \in Seq(Batches) /\ QueueInv'
         /\ \/ PendingRaises /\ PendingRaises'
            \/ /\ Pending(queue) = queue[Oldest].todo /\ (PendingRaises <=> queue[Oldest].bad)
               /\ Pending(queue') = b.todo /\ (PendingRaises' <=> b.bad)
<1> DEFINE o == Oldest
           l == Len(queue)
<1>1. /\ o \in 1..l /\ o \in InFlight /\ main.pc \notin {"sync", "unlink", "ended"}
      /\ o = l \/ (o = 1 /\ l = 2 /\ Last(queue).bad /\ PendingRaises)
  BY NextBatch
<1>2. queue \in Seq(Batches) /\ l \in Nat /\ l <= 2
  BY QueueShapes DEF TypeInv, QueueInv
<1>3. /\ queue' \in Seq(Batches) /\ Len(queue') = l
      /\ queue'[o] = b /\ \A k \in 1..l : k # o => queue'[k] = queue[k]
  BY <1>1, <1>2
<1>4. queue # <<>> /\ queue' # <<>>
  <2>1. Len(queue) # 0 /\ Len(queue') # 0
    <3> HIDE DEF o
    <3>1. l # 0
      BY <1>1, <1>2
    <3> QED
      BY <1>3, <3>1
  <2> QED
    BY <2>1, Len(<<>>) = 0
<1>5. l = 2 => Done(queue[2]) /\ queue[2].bad /\ main.pc = "leave" /\ o = 1
  <2>1. l = 2 => Done(queue[2]) /\ queue[2].bad /\ main.pc = "leave"
    BY <1>1 DEF QueueInv
  <2>2. o = 2 => ~Done(queue[2])
    BY <1>1 DEF InFlight
  <2> QED
    BY <1>1, <2>1, <2>2
<1>6. l = 2 => queue'[2] = queue[2]
  BY <1>3, <1>5
<1>7. QueueInv'
  BY <1>1, <1>2, <1>3, <1>5, <1>6 DEF QueueInv
<1>8. CASE l = 2
  BY <1>3, <1>4, <1>5, <1>6, <1>7, <1>8 DEF PendingRaises, Last
<1>9. CASE l # 2
  <2>1. o = Len(queue) /\ o = Len(queue')
    BY <1>1, <1>3, <1>9
  <2>2. Last(queue) = queue[Oldest]
    BY <2>1 DEF Last
  <2>3. Last(queue') = b
    BY <1>3, <2>1 DEF Last
  <2> QED
    BY <1>3, <1>4, <1>7, <2>2, <2>3 DEF Pending, PendingRaises
<1> QED
  BY <1>3, <1>7, <1>8, <1>9

\* A temporary that is being filled is there.
LEMMA TempIsThere ==
  ASSUME TypeInv, main.pc # "ended"
  PROVE  main.n \in Nat /\ temp \in Cells(main.n) /\ temp # None
<1>1. main.n \in Sizes /\ main.n \in Nat /\ temp \in Cells(main.n)
  BY CallFacts
<1> QED
  BY <1>1, NoneAssumption DEF Cells

\* The state of the call and of the file once a batch has moved on.
LEMMA WorkerKeeps ==
  ASSUME IInv, InFlight # {}, NEW b \in Batches, queue' = [queue EXCEPT ![Oldest] = b],
         main' = main, target' = target, temp' \in Cells(main.n),
         ~b.bad => ~queue[Oldest].bad,
         ~b.bad => \A rows \in Nat : rows <= main.n /\ Filled(temp, queue[Oldest].todo, rows)
                                        => Filled(temp', b.todo, rows)
  PROVE  IInv'
<1>1. /\ queue' \in Seq(Batches) /\ QueueInv'
      /\ \/ PendingRaises /\ PendingRaises'
         \/ /\ Pending(queue) = queue[Oldest].todo /\ (PendingRaises <=> queue[Oldest].bad)
            /\ Pending(queue') = b.todo /\ (PendingRaises' <=> b.bad)
  BY BatchMoves DEF IInv
<1>2. main.pc \notin {"sync", "unlink", "ended"}
  BY NextBatch DEF IInv
<1>3. TypeInv'
  BY <1>1, <1>2 DEF IInv, TypeInv
<1>4. Submitted(main) \in Nat /\ Submitted(main) <= main.n
  <2>1. main.n \in Nat /\ main.per \in Nat /\ main.k \in Nat
    BY <1>2, CallFacts DEF IInv
  <2>2. main.pc = "await" => main.k - 1 \in Nat
    BY <2>1 DEF IInv, TypeInv
  <2>3. main.k * main.per \in Nat
    BY <2>1
  <2>4. main.pc = "await" => (main.k - 1) * main.per \in Nat
    <3>1. \A x, y \in Nat : x * y \in Nat
      OBVIOUS
    <3> QED
      BY <2>1, <2>2, <3>1
  <2>5. \A a \in Nat : MinOf(a, main.n) \in Nat /\ MinOf(a, main.n) <= main.n
    BY <2>1 DEF MinOf
  <2> QED
    BY <2>1, <2>3, <2>4, <2>5 DEF Submitted
<1>5. ~PendingRaises' => Filled(temp', Pending(queue'), Submitted(main'))
  <2>1. SUFFICES ASSUME ~PendingRaises' PROVE Filled(temp', Pending(queue'), Submitted(main))
    OBVIOUS
  <2>2. Pending(queue) = queue[Oldest].todo /\ Pending(queue') = b.todo /\ ~b.bad /\ ~PendingRaises
    BY <1>1, <2>1
  <2>3. main.pc \in {"build", "await", "drain", "leave"}
    BY <1>2, CallFacts DEF IInv, Calls, PCs
  <2>4. Filled(temp, queue[Oldest].todo, Submitted(main))
    BY <2>2, <2>3 DEF IInv, FillInv
  <2> QED
    BY <1>4, <2>2, <2>4
<1>6. ~PendingRaises' => ~PendingRaises
  BY <1>1
<1>7. FillInv'
  <2>1. main.pc = "leave" /\ ~PendingRaises' => AllBuilt(main')
    BY <1>6 DEF IInv, FillInv
  <2> QED
    BY <1>2, <1>5, <2>1 DEF FillInv
<1> QED
  BY <1>1, <1>3, <1>7 DEF IInv, PublishedComplete

\* A job done is in the file.
LEMMA JobWritesKeeps == ASSUME IInv, JobWrites PROVE IInv'
<1> DEFINE old == queue[Oldest]
<1>1. PICK j \in old.todo :
        /\ temp' = IF temp = None THEN None ELSE Written(temp, j)
        /\ queue' = [queue EXCEPT ![Oldest].todo = @ \ {j}]
  BY DEF JobWrites
<1>2. InFlight # {} /\ main' = main /\ target' = target
  BY DEF JobWrites
<1>3. old \in Batches /\ main.pc # "ended"
  BY <1>2, NextBatch DEF IInv
<1>4. main.n \in Nat /\ temp \in Cells(main.n) /\ temp' = Written(temp, j)
  BY <1>1, <1>3, TempIsThere DEF IInv
<1> DEFINE b == [todo |-> old.todo \ {j}, bad |-> old.bad]
<1>5. b \in Batches /\ j \in Jobs
  BY <1>3 DEF Batches
<1>6. queue' = [queue EXCEPT ![Oldest] = b]
  <2>1. old = [todo |-> old.todo, bad |-> old.bad]
    BY <1>3 DEF Batches
  <2>2. [old EXCEPT !.todo = old.todo \ {j}] = b
    BY <2>1
  <2>3. queue' = [queue EXCEPT ![Oldest] = [old EXCEPT !.todo = old.todo \ {j}]]
    BY <1>1
  <2> QED
    BY <2>2, <2>3
<1>7. /\ Written(temp, j) \in Cells(main.n)
      /\ \A c \in Cols, r \in 1..main.n :
           Written(temp, j)[c][r] = IF Covers(j, c, r) THEN r ELSE temp[c][r]
  BY <1>4, <1>5, WrittenFacts
<1>8. ASSUME NEW rows \in Nat, rows <= main.n, Filled(temp, old.todo, rows)
      PROVE  Filled(temp', b.todo, rows)
  <2>1. \A r \in 1..rows : r \in 1..main.n
    BY <1>4, <1>8
  <2> QED
    BY <1>4, <1>7, <1>8, <2>1 DEF Filled
<1>9. b.bad = old.bad
  OBVIOUS
<1> HIDE DEF b
<1> QED
  BY <1>2, <1>4, <1>5, <1>6, <1>7, <1>8, <1>9, WorkerKeeps

\* A job that raised has written none or some of its rows, and the batch is bad.
LEMMA JobFailsKeeps == ASSUME IInv, JobFails PROVE IInv'
<1> DEFINE old == queue[Oldest]
<1>1. PICK j \in old.todo : \E some \in 0..(j.count - 1), b \in AfterJobFailure(old, j) :
        /\ temp' = IF temp = None THEN None ELSE Written(temp, [j EXCEPT !.count = some])
        /\ queue' = [queue EXCEPT ![Oldest] = b]
  BY DEF JobFails
<1>2. InFlight # {} /\ main' = main /\ target' = target
  BY DEF JobFails
<1>3. old \in Batches /\ main.pc # "ended"
  BY <1>2, NextBatch DEF IInv
<1>4. j \in Jobs /\ j.count \in Nat
  BY <1>3 DEF Batches, Jobs
<1>5. PICK some \in 0..(j.count - 1), b \in AfterJobFailure(old, j) :
        /\ temp' = IF temp = None THEN None ELSE Written(temp, [j EXCEPT !.count = some])
        /\ queue' = [queue EXCEPT ![Oldest] = b]
  BY <1>1
<1>6. b \in Batches /\ b.bad
  <2>1. PICK rest \in {old.todo \ {j}, {}} : b = [todo |-> rest, bad |-> TRUE]
    BY DEF AfterJobFailure
  <2>2. rest \subseteq Jobs
    BY <1>3, <2>1 DEF Batches
  <2> QED
    BY <2>1, <2>2 DEF Batches
<1>7. [j EXCEPT !.count = some] \in Jobs
  BY <1>4 DEF Jobs
<1>8. main.n \in Nat /\ temp \in Cells(main.n) /\ temp # None
  BY <1>3, TempIsThere DEF IInv
<1>9. temp' \in Cells(main.n)
  BY <1>5, <1>7, <1>8, WrittenFacts
<1> QED
  BY <1>2, <1>5, <1>6, <1>9, WorkerKeeps

------------------------------------------------------------------------------
(* The theorems *)

\* Every step of a write keeps the invariant.
LEMMA NextKeeps == ASSUME IInv, [Next]_vars PROVE IInv'
<1>1. CASE Begin
  BY <1>1, BeginKeeps
<1>2. CASE Main
  BY <1>2, BuildKeeps, BuildFailsKeeps, HandoffKeeps, DrainKeeps, LeaveKeeps, PublishKeeps,
     PublishFailsKeeps, UnlinkKeeps DEF Main
<1>3. CASE Workers
  BY <1>3, JobWritesKeeps, JobFailsKeeps DEF Workers
<1>4. CASE Crash
  BY <1>4, CrashKeeps
<1>5. CASE UNCHANGED vars
  BY <1>5 DEF vars, IInv, TypeInv, QueueInv, FillInv, PublishedComplete, InFlight, PendingRaises
<1> QED
  BY <1>1, <1>2, <1>3, <1>4, <1>5 DEF Next

\* The types, the queue's shape and what is filled hold in every state of a write.
THEOREM Invariance == Spec => []IInv
<1>1. Init => IInv
  BY InitInv
<1>2. IInv /\ [Next]_vars => IInv'
  BY NextKeeps
<1> QED
  BY <1>1, <1>2, PTL DEF Spec

\* The file behind the path is complete in every state: however it was filled, and
\* whatever failed, crashed or was done over on the way, the rename comes after the
\* last cell (atomic_publish, write_dataset_streaming).
THEOREM PublishedWhole == Spec => []PublishedComplete
<1>1. IInv => PublishedComplete
  BY DEF IInv
<1> QED
  BY <1>1, Invariance, PTL

\* At most two batches are in flight, the one evaluated and the one written, and
\* none once the descriptor is closed (_fill_streaming_pwrite).
THEOREM TwoInFlight == Spec => []BatchesInFlight
<1>1. ASSUME IInv PROVE BatchesInFlight
  <2> DEFINE l == Len(queue)
             busy == main.pc \in {"build", "await"}
  <2>1. l \in 0..2 /\ (busy => l \in 0..1)
    BY <1>1, QueueShapes DEF IInv, QueueInv
  <2>2. InFlight \subseteq 1..l
    BY DEF InFlight
  <2> HIDE DEF l, busy
  <2>3. IsFiniteSet(1..l) /\ Cardinality(1..l) = l
    <3>1. l \in Int /\ 1 \in Int /\ (IF 1 <= l THEN l - 1 + 1 ELSE 0) = l
      BY <2>1
    <3> QED
      BY <3>1, FS_Interval
  <2>4. Cardinality(InFlight) \in Nat /\ Cardinality(InFlight) <= l
    BY <2>2, <2>3, FS_Subset, FS_CardinalityType
  <2>5. l = 2 => 2 \notin InFlight
    BY <1>1 DEF IInv, QueueInv, InFlight, l
  <2>6. Cardinality(InFlight) + (IF busy THEN 1 ELSE 0) <= 2
    BY <2>1, <2>4
  <2> QED
    BY <1>1, <2>6 DEF BatchesInFlight, IInv, QueueInv, busy
<1> QED
  BY <1>1, Invariance, PTL

==============================================================================
