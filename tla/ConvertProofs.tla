---------------------------- MODULE ConvertProofs ----------------------------
(***************************************************************************)
(* Convert keeps its hands off other files and leaves nothing behind, for  *)
(* any files, calls, numbers of threads and failures.                      *)
(***************************************************************************)
EXTENDS ConvertInv, SequenceFacts

\* The files at other paths are as they were.
OnlyAt(p) == \A q \in DOMAIN disk \ {p} : q \in DOMAIN disk' /\ disk'[q] = disk[q]

LEMMA PutsAside ==
  ASSUME NEW p
  PROVE  /\ disk' = disk => OnlyAt(p)
         /\ disk' = Unlinked(disk, p) => OnlyAt(p)
         /\ \A f : disk' = Stored(disk, p, f) => OnlyAt(p)
BY DEF OnlyAt, Unlinked, Stored

\* A call's step that writes one of its outputs loses no other file.
LEMMA StillUntouched ==
  ASSUME IInv, NEW p, OnlyAt(p), IsOutput(p), Free(p),
         main'.call = main.call, main'.before = main.before, main'.groups = main.groups
  PROVE  OthersUntouched'
<1> SUFFICES ASSUME main.call # None, NEW q \in DOMAIN main.before
             PROVE  \/ q \in DOMAIN disk' /\ disk'[q] = main.before[q]
                    \/ main.call.overwrite /\ \E g \in Range(main.groups) : g.to = q
  BY DEF OthersUntouched
<1>1. CASE q \in DOMAIN disk /\ disk[q] = main.before[q]
  <2>1. CASE q = p
    BY <2>1 DEF Free, IsOutput
  <2>2. CASE q # p
    BY <1>1, <2>2 DEF OnlyAt
  <2> QED
    BY <2>1, <2>2
<1>2. CASE main.call.overwrite /\ \E g \in Range(main.groups) : g.to = q
  BY <1>2
<1> QED
  BY <1>1, <1>2 DEF IInv, OthersUntouched

\* Nobody is at work unless the call maps or waits for its pool.
LEMMA AtWorkWhen ==
  ASSUME IInv, NEW j \in DOMAIN job, job[j].pc \notin Settled
  PROVE  main.pc \in {"mapping", "stopping"} /\ j \notin 1..main.collected
<1>1. main.pc \notin {"cleaning", "ended"}
  BY DEF IInv, ProgressInv, AllStopped
<1>2. j \notin 1..main.collected
  BY DEF IInv, ProgressInv, Settled
<1>3. main.pc # "filling"
  BY <1>2 DEF IInv, ProgressInv, AllCollected
<1>4. main.pc # "idle"
  BY DEF IInv, ProgressInv
<1> QED
  BY <1>1, <1>2, <1>3, <1>4 DEF IInv, TypeInv

\* One job goes on; it writes at most its own output, or a part.
LEMMA JobMoves ==
  ASSUME IInv, NEW j \in DOMAIN job, job[j].pc \notin Settled, main' = main,
         DOMAIN job' = DOMAIN job, \A k \in DOMAIN job \ {j} : job'[k] = job[k],
         DOMAIN job'[j] = JobFields, job'[j].part = job[j].part, job'[j].to = job[j].to,
         IF job[j].part THEN job'[j].pc # "preparing"
         ELSE job'[j].pc \in AtWork => Free(job[j].to),
         disk' = disk \/ (~job[j].part /\ Free(job[j].to) /\ OnlyAt(job[j].to)),
         scratch' = scratch \/ job[j].part
  PROVE  IInv'
<1>1. main.pc \in {"mapping", "stopping"} /\ j \notin 1..main.collected
  BY AtWorkWhen
<1>2. TypeInv'
  BY DEF IInv, TypeInv
<1>3. ScratchInv'
  BY <1>1 DEF IInv, ScratchInv, Merging
<1>4. ProgressInv'
  BY <1>1 DEF IInv, ProgressInv, Ended
<1>5. OutputsInv'
  BY DEF IInv, OutputsInv, Merging, IsOutput, Free
<1>6. OthersUntouched'
  <2>1. CASE disk' = disk
    BY <2>1 DEF IInv, OthersUntouched
  <2>2. CASE ~job[j].part /\ Free(job[j].to) /\ OnlyAt(job[j].to)
    <3>1. IsOutput(job[j].to)
      BY <2>2 DEF IInv, OutputsInv
    <3> QED
      BY <2>2, <3>1, StillUntouched
  <2> QED
    BY <2>1, <2>2
<1> QED
  BY <1>2, <1>3, <1>4, <1>5, <1>6 DEF IInv

\* What moves a job on.
LEMMA JobFacts ==
  ASSUME IInv, NEW j \in DOMAIN job, NEW pc
  PROVE  LET m == Now(j, pc) IN
         /\ DOMAIN m = DOMAIN job /\ \A k \in DOMAIN job \ {j} : m[k] = job[k]
         /\ m[j].pc = pc /\ m[j].part = job[j].part /\ m[j].to = job[j].to
         /\ DOMAIN m[j] = JobFields
  BY DEF IInv, TypeInv, JobFields, Now

LEMMA StartKeeps == ASSUME IInv, NEW j \in DOMAIN job, Start(j) PROVE IInv'
<1> DEFINE pc == IF job[j].part THEN "reading" ELSE "preparing"
<1>1. job' = Now(j, pc) /\ job[j].pc = "waiting" /\ main' = main /\ disk' = disk /\ scratch' = scratch
  BY DEF Start
<1>2. job[j].pc \notin Settled /\ IF job[j].part THEN pc # "preparing" ELSE pc \notin AtWork
  BY <1>1 DEF Settled, AtWork
<1> HIDE DEF pc
<1> QED
  BY <1>1, <1>2, JobFacts, JobMoves

LEMMA PrepareKeeps == ASSUME IInv, NEW j \in DOMAIN job, Prepare(j) PROVE IInv'
<1> DEFINE to == job[j].to
           ok == (Native(job[j].from) \/ Native(to)) /\ MayTake(main.call, to)
           pc == IF ok THEN "reading" ELSE "failed"
<1>1. /\ job' = Now(j, pc) /\ job[j].pc = "preparing" /\ main' = main /\ scratch' = scratch
      /\ disk' = IF ok THEN Unlinked(disk, to) ELSE disk
  BY DEF Prepare
<1>2. job[j].pc \notin Settled /\ ~job[j].part
  BY <1>1 DEF Settled, IInv, OutputsInv
<1>3. ok => Free(to)
  <2>1. main.call # None
    BY <1>2, AtWorkWhen, CallsAssumption DEF IInv, TypeInv
  <2> SUFFICES ASSUME ok, ~main.call.overwrite, to \in DOMAIN main.before
               PROVE  FALSE
    BY DEF Free
  <2>2. to \notin DOMAIN disk
    BY DEF MayTake, Exists
  <2> QED
    BY <2>1, <2>2 DEF IInv, OthersUntouched
<1>4. disk' = disk \/ (ok /\ OnlyAt(to))
  BY <1>1, PutsAside
<1>5. pc # "preparing" /\ (pc \in AtWork => ok)
  BY DEF AtWork
<1> HIDE DEF pc, ok
<1> QED
  BY <1>1, <1>2, <1>3, <1>4, <1>5, JobFacts, JobMoves DEF to

\* A job that is past the look at its output: it may write there, or into the
\* scratch directory.
LEMMA WorkMoves ==
  ASSUME IInv, NEW j \in DOMAIN job, job[j].pc \in AtWork, main' = main,
         DOMAIN job' = DOMAIN job, \A k \in DOMAIN job \ {j} : job'[k] = job[k],
         DOMAIN job'[j] = JobFields, job'[j].part = job[j].part, job'[j].to = job[j].to,
         job'[j].pc # "preparing",
         \/ disk' = disk /\ scratch' = scratch
         \/ \E f : Writes(j, f)
         \/ Becomes(j, Unlinked(Place(j), job[j].to))
  PROVE  IInv'
<1>1. job[j].pc \notin Settled
  BY DEF AtWork, Settled
<1>2. ~job[j].part => Free(job[j].to)
  BY DEF IInv, OutputsInv
<1>3. /\ disk' = disk \/ (~job[j].part /\ OnlyAt(job[j].to))
      /\ scratch' = scratch \/ job[j].part
  <2>1. CASE disk' = disk /\ scratch' = scratch
    BY <2>1
  <2>2. CASE \E f : Writes(j, f)
    BY <2>2, PutsAside DEF Writes, Becomes, Place
  <2>3. CASE Becomes(j, Unlinked(Place(j), job[j].to))
    BY <2>3, PutsAside DEF Becomes, Place
  <2> QED
    BY <2>1, <2>2, <2>3
<1> QED
  BY <1>1, <1>2, <1>3, JobMoves

LEMMA ReadKeeps == ASSUME IInv, NEW j \in DOMAIN job, Read(j) PROVE IInv'
<1>1. job[j].pc \in AtWork /\ main' = main /\ disk' = disk /\ scratch' = scratch
  BY DEF Read, AtWork
<1>2. /\ DOMAIN job' = DOMAIN job /\ \A k \in DOMAIN job \ {j} : job'[k] = job[k]
      /\ DOMAIN job'[j] = JobFields /\ job'[j].part = job[j].part /\ job'[j].to = job[j].to
      /\ job'[j].pc # "preparing"
  BY DEF IInv, TypeInv, JobFields, Read, Now
<1> QED
  BY <1>1, <1>2, WorkMoves

LEMMA WriteKeeps == ASSUME IInv, NEW j \in DOMAIN job, Write(j) PROVE IInv'
<1>1. job[j].pc \in AtWork /\ main' = main
  BY DEF Write, AtWork
<1>2. \E pc \in {"failed", "opening", "streaming", "filling"} : job' = Now(j, pc)
  BY Zenon DEF Write
<1>3. (disk' = disk /\ scratch' = scratch) \/ \E f : Writes(j, f)
  BY DEF Write
<1> QED
  BY <1>1, <1>2, <1>3, JobFacts, WorkMoves

LEMMA FillKeeps == ASSUME IInv, NEW j \in DOMAIN job, Fill(j) \/ CommitStream(j) PROVE IInv'
<1>1. job[j].pc \in AtWork /\ main' = main /\ job' = Now(j, "opening") /\ \E f : Writes(j, f)
  BY DEF Fill, CommitStream, AtWork
<1> QED
  BY <1>1, JobFacts, WorkMoves

LEMMA StreamBatchKeeps == ASSUME IInv, NEW j \in DOMAIN job, StreamBatch(j) PROVE IInv'
<1>1. job[j].pc \in AtWork /\ job[j].pc = "streaming" /\ main' = main /\ disk' = disk /\ scratch' = scratch
  BY DEF StreamBatch, AtWork
<1>2. /\ DOMAIN job' = DOMAIN job /\ \A k \in DOMAIN job \ {j} : job'[k] = job[k]
      /\ DOMAIN job'[j] = JobFields /\ job'[j].part = job[j].part /\ job'[j].to = job[j].to
      /\ job'[j].pc = job[j].pc
  BY DEF IInv, TypeInv, JobFields, StreamBatch
<1> QED
  BY <1>1, <1>2, WorkMoves

LEMMA OpenResultKeeps == ASSUME IInv, NEW j \in DOMAIN job, OpenResult(j) PROVE IInv'
<1>1. job[j].pc \in AtWork /\ main' = main /\ disk' = disk /\ scratch' = scratch
  BY DEF OpenResult, AtWork
<1>2. CASE \E pc \in {"done", "failed"} : job' = Now(j, pc)
  BY <1>1, <1>2, JobFacts, WorkMoves
<1>3. CASE job' = [job EXCEPT ![j].pc = "done", ![j].reader = Written(j)]
  <2> DEFINE f == Written(j)
  <2>1. job' = [job EXCEPT ![j].pc = "done", ![j].reader = f]
    BY <1>3
  <2> HIDE DEF f
  <2>2. /\ DOMAIN job' = DOMAIN job /\ \A k \in DOMAIN job \ {j} : job'[k] = job[k]
        /\ job'[j] = [job[j] EXCEPT !.pc = "done", !.reader = f]
    BY <2>1
  <2>3. DOMAIN job[j] = JobFields
    BY DEF IInv, TypeInv
  <2>4. /\ DOMAIN job'[j] = JobFields /\ job'[j].part = job[j].part /\ job'[j].to = job[j].to
        /\ job'[j].pc # "preparing"
    BY <2>2, <2>3 DEF JobFields
  <2> QED
    BY <1>1, <2>2, <2>4, WorkMoves
<1> QED
  BY <1>2, <1>3 DEF OpenResult

LEMMA JobFailsKeeps == ASSUME IInv, NEW j \in DOMAIN job, JobFails(j) PROVE IInv'
<1>1. job[j].pc \in AtWork /\ main' = main /\ job' = Now(j, "failed")
  BY DEF JobFails, AtWork
<1>2. \/ disk' = disk /\ scratch' = scratch
      \/ \E f : Writes(j, f)
      \/ Becomes(j, Unlinked(Place(j), job[j].to))
  BY DEF JobFails
<1> QED
  BY <1>1, <1>2, JobFacts, WorkMoves

------------------------------------------------------------------------------
(* The caller's steps *)

\* A step of the call that goes on with the plan it has.
MainMoves == /\ DOMAIN main' = CallFields
             /\ \A x \in {"call", "mode", "to", "groups", "before"} : main'[x] = main[x]

LEMMA MainFacts ==
  ASSUME IInv, MainMoves
  PROVE  /\ main'.call = main.call /\ main'.mode = main.mode /\ main'.to = main.to
         /\ main'.groups = main.groups /\ main'.before = main.before
         /\ Merging' = Merging
  BY DEF MainMoves, Merging

\* A step of the call that changes no output.
LEMMA QuietCall ==
  ASSUME IInv, MainMoves, disk' = disk, DOMAIN job' = DOMAIN job,
         \A j \in DOMAIN job : /\ job'[j].part = job[j].part /\ job'[j].to = job[j].to
                              /\ job'[j].pc \in {job[j].pc, "cancelled"}
  PROVE  OutputsInv' /\ OthersUntouched'
<1>1. OthersUntouched'
  BY MainFacts DEF IInv, OthersUntouched
<1>2. Merging' => IsOutput(main.to)' /\ Free(main.to)'
  BY MainFacts DEF IInv, OutputsInv, IsOutput, Free
<1>3. ASSUME NEW j \in DOMAIN job
      PROVE  IF job'[j].part THEN job'[j].pc # "preparing"
             ELSE IsOutput(job[j].to)' /\ (job'[j].pc \in AtWork => Free(job[j].to)')
  BY MainFacts DEF IInv, OutputsInv, IsOutput, Free, AtWork
<1> QED
  BY <1>1, <1>2, <1>3 DEF OutputsInv

LEMMA CollectKeeps == ASSUME IInv, Collect PROVE IInv'
<1> DEFINE n == main.collected
<1>1. /\ main.pc = "mapping" /\ n + 1 \in DOMAIN job /\ job[n + 1].pc = "done"
      /\ main' = [main EXCEPT !.collected = n + 1] /\ disk' = disk /\ job' = job /\ scratch' = scratch
  BY DEF Collect
<1>2. DOMAIN main = CallFields /\ n \in Nat
  BY DEF IInv, TypeInv
<1>3. MainMoves /\ main'.pc = "mapping" /\ main'.collected = n + 1
  BY <1>1, <1>2 DEF MainMoves, CallFields
<1>4. 1..(n + 1) = (1..n) \cup {n + 1}
  BY <1>2
<1>5. TypeInv'
  BY <1>1, <1>2, <1>3, MainFacts DEF IInv, TypeInv
<1>6. ScratchInv'
  BY <1>1, <1>3, MainFacts DEF IInv, ScratchInv
<1>7. ProgressInv'
  BY <1>1, <1>3, <1>4 DEF IInv, ProgressInv, Ended
<1> QED
  BY <1>1, <1>3, <1>5, <1>6, <1>7, QuietCall DEF IInv

LEMMA GiveUpKeeps == ASSUME IInv, GiveUp PROVE IInv'
<1>1. /\ main.pc = "mapping" /\ main' = [main EXCEPT !.pc = "stopping"] /\ disk' = disk /\ scratch' = scratch
      /\ job' = [k \in DOMAIN job |-> IF job[k].pc = "waiting" THEN [job[k] EXCEPT !.pc = "cancelled"]
                                                               ELSE job[k]]
  BY DEF GiveUp
<1>2. DOMAIN main = CallFields /\ main.collected \in Nat /\ \A j \in DOMAIN job : DOMAIN job[j] = JobFields
  BY DEF IInv, TypeInv
<1>3. MainMoves /\ main'.pc = "stopping" /\ main'.collected = main.collected
  BY <1>1, <1>2 DEF MainMoves, CallFields
<1>4. /\ DOMAIN job' = DOMAIN job
      /\ \A j \in DOMAIN job : /\ DOMAIN job'[j] = JobFields
                              /\ job'[j].part = job[j].part /\ job'[j].to = job[j].to
                              /\ job'[j].pc \in {job[j].pc, "cancelled"}
                              /\ job[j].pc = "done" => job'[j].pc = "done"
  BY <1>1, <1>2 DEF JobFields
<1>5. TypeInv'
  BY <1>1, <1>2, <1>3, <1>4, MainFacts DEF IInv, TypeInv
<1>6. ScratchInv'
  BY <1>1, <1>3, <1>4, MainFacts DEF IInv, ScratchInv
<1>7. ProgressInv'
  BY <1>1, <1>3, <1>4 DEF IInv, ProgressInv, Ended
<1> QED
  BY <1>1, <1>3, <1>4, <1>5, <1>6, <1>7, QuietCall DEF IInv

\* The call gets on to its clean-up once nobody is at work.
LEMMA ToCleaning ==
  ASSUME IInv, main.pc \in {"mapping", "filling", "stopping"}, AllStopped, job' = job, scratch' = scratch,
         MainMoves, main'.pc = "cleaning", main'.collected = main.collected
  PROVE  TypeInv' /\ ScratchInv' /\ ProgressInv'
<1>1. TypeInv'
  BY MainFacts DEF IInv, TypeInv, MainMoves
<1>2. ScratchInv'
  BY MainFacts DEF IInv, ScratchInv
<1>3. ProgressInv'
  BY DEF IInv, ProgressInv, Ended, AllStopped
<1> QED
  BY <1>1, <1>2, <1>3

LEMMA StopKeeps == ASSUME IInv, Stop PROVE IInv'
<1>1. /\ main.pc = "stopping" /\ AllStopped /\ main' = [main EXCEPT !.pc = "cleaning"]
      /\ job' = job /\ disk' = disk /\ scratch' = scratch
  BY DEF Stop
<1>2. MainMoves /\ main'.pc = "cleaning" /\ main'.collected = main.collected
  BY <1>1 DEF IInv, TypeInv, MainMoves, CallFields
<1> QED
  BY <1>1, <1>2, ToCleaning, QuietCall DEF IInv

\* Once all is collected, nobody is at work.
LEMMA CollectedStopped == ASSUME IInv, AllCollected PROVE AllStopped
  BY DEF IInv, ProgressInv, AllCollected, AllStopped, Settled

\* The merge writes the output it has taken, or removes it.
LEMMA WritesMerged ==
  ASSUME IInv, Merging, MainMoves, job' = job,
         disk' = Unlinked(disk, main.to) \/ \E f : disk' = Stored(disk, main.to, f)
  PROVE  OutputsInv' /\ OthersUntouched'
<1>1. OnlyAt(main.to)
  BY PutsAside
<1>2. IsOutput(main.to) /\ Free(main.to)
  BY DEF IInv, OutputsInv
<1>3. OthersUntouched'
  BY <1>1, <1>2, MainFacts, StillUntouched
<1>4. OutputsInv'
  BY MainFacts DEF IInv, OutputsInv, IsOutput, Free
<1> QED
  BY <1>3, <1>4

LEMMA MergeKeeps == ASSUME IInv, Merge \/ FillMerged \/ MergeFails PROVE IInv'
<1>1. /\ main.pc \in {"mapping", "filling"} /\ Merging /\ AllCollected /\ job' = job /\ scratch' = scratch
      /\ disk' = disk \/ disk' = Unlinked(disk, main.to) \/ \E f : disk' = Stored(disk, main.to, f)
  BY DEF Merge, FillMerged, MergeFails, Merging, IInv, ProgressInv, ScratchInv
<1>2. /\ MainMoves /\ main'.pc \in {"cleaning", "filling"} /\ main'.collected = main.collected
  <2>1. CASE Merge
    BY <2>1 DEF Merge, IInv, TypeInv, MainMoves, CallFields
  <2>2. CASE FillMerged \/ MergeFails
    BY <2>2 DEF FillMerged, MergeFails, IInv, TypeInv, MainMoves, CallFields
  <2> QED
    BY <2>1, <2>2
<1>3. AllStopped
  BY <1>1, CollectedStopped
<1>4. TypeInv' /\ ScratchInv' /\ ProgressInv'
  <2>1. CASE main'.pc = "cleaning"
    BY <1>1, <1>2, <1>3, <2>1, ToCleaning
  <2>2. CASE main'.pc = "filling"
    <3>1. TypeInv'
      BY <1>1, <1>2, <2>2, MainFacts DEF IInv, TypeInv, MainMoves
    <3>2. ScratchInv'
      BY <1>1, <1>2, <2>2, MainFacts DEF IInv, ScratchInv
    <3>3. ProgressInv'
      BY <1>1, <1>2, <2>2 DEF IInv, ProgressInv, Ended, AllCollected
    <3> QED
      BY <3>1, <3>2, <3>3
  <2> QED
    BY <1>2, <2>1, <2>2
<1>5. OutputsInv' /\ OthersUntouched'
  BY <1>1, <1>2, QuietCall, WritesMerged
<1> QED
  BY <1>4, <1>5 DEF IInv

LEMMA CleanUpKeeps == ASSUME IInv, CleanUp PROVE IInv'
<1>1. /\ main.pc = "cleaning" /\ main' = [main EXCEPT !.pc = "ended"] /\ disk' = disk
      /\ Merging => /\ scratch' = None
                    /\ job' = [j \in DOMAIN job |-> IF j <= main.collected THEN [job[j] EXCEPT !.reader = None]
                                                                       ELSE job[j]]
      /\ ~Merging => scratch' = scratch /\ job' = job
  BY DEF CleanUp, Merging
<1>2. DOMAIN main = CallFields /\ main.collected \in Nat /\ \A j \in DOMAIN job : DOMAIN job[j] = JobFields
  BY DEF IInv, TypeInv
<1>3. MainMoves /\ main'.pc = "ended" /\ main'.collected = main.collected
  BY <1>1, <1>2 DEF MainMoves, CallFields
<1>4. /\ DOMAIN job' = DOMAIN job
      /\ \A j \in DOMAIN job : /\ DOMAIN job'[j] = JobFields
                              /\ job'[j].part = job[j].part /\ job'[j].to = job[j].to
                              /\ job'[j].pc = job[j].pc
  <2>1. CASE Merging
    BY <1>1, <1>2, <2>1 DEF JobFields
  <2>2. CASE ~Merging
    BY <1>1, <1>2, <2>2
  <2> QED
    BY <2>1, <2>2
<1>5. TypeInv'
  BY <1>1, <1>2, <1>3, <1>4, MainFacts DEF IInv, TypeInv
<1>6. ScratchInv'
  BY <1>1, <1>3, <1>4, MainFacts DEF IInv, ScratchInv
<1>7. ProgressInv'
  <2>1. 1..main.collected \subseteq DOMAIN job /\ \A j \in 1..main.collected : job'[j].pc = "done"
    BY <1>4 DEF IInv, ProgressInv
  <2>2. AllStopped'
    BY <1>1, <1>4 DEF IInv, ProgressInv, AllStopped
  <2>3. ASSUME Merging, NEW j \in 1..main.collected PROVE job'[j].reader = None
    <3>1. j <= main.collected /\ j \in DOMAIN job /\ DOMAIN job[j] = JobFields
      BY <1>2, <2>1
    <3>2. job'[j] = [job[j] EXCEPT !.reader = None]
      BY <1>1, <2>3, <3>1
    <3> QED
      BY <3>1, <3>2 DEF JobFields
  <2> QED
    BY <1>3, <1>4, <2>1, <2>2, <2>3, MainFacts DEF ProgressInv
<1> QED
  BY <1>1, <1>3, <1>4, <1>5, <1>6, <1>7, QuietCall DEF IInv

LEMMA ReturnKeeps == ASSUME IInv, Return PROVE IInv'
<1>1. /\ main.pc = "mapping" /\ ~Merging /\ AllCollected /\ disk' = disk /\ scratch' = scratch
      /\ main' = [main EXCEPT !.pc = "ended", !.ok = TRUE]
      /\ job' = [j \in DOMAIN job |-> [job[j] EXCEPT !.reader = None]] \/ job' = job
  BY DEF Return, Merging
<1>2. DOMAIN main = CallFields /\ main.collected \in Nat /\ \A j \in DOMAIN job : DOMAIN job[j] = JobFields
  BY DEF IInv, TypeInv
<1>3. MainMoves /\ main'.pc = "ended" /\ main'.collected = main.collected
  BY <1>1, <1>2 DEF MainMoves, CallFields
<1>4. /\ DOMAIN job' = DOMAIN job
      /\ \A j \in DOMAIN job : /\ DOMAIN job'[j] = JobFields
                              /\ job'[j].part = job[j].part /\ job'[j].to = job[j].to
                              /\ job'[j].pc = job[j].pc
  BY <1>1, <1>2 DEF JobFields
<1>5. TypeInv'
  BY <1>1, <1>2, <1>3, <1>4, MainFacts DEF IInv, TypeInv
<1>6. ScratchInv'
  BY <1>1, <1>3, <1>4, MainFacts DEF IInv, ScratchInv
<1>7. ProgressInv'
  <2>1. AllStopped
    BY <1>1, CollectedStopped
  <2>2. AllStopped'
    BY <1>4, <2>1 DEF AllStopped
  <2> QED
    BY <1>1, <1>3, <1>4, <2>2, MainFacts DEF IInv, ProgressInv
<1> QED
  BY <1>1, <1>3, <1>4, <1>5, <1>6, <1>7, QuietCall DEF IInv

\* What a call starts with.
LEMMA CalledFacts ==
  ASSUME NEW c, NEW plan
  PROVE  LET m == Called(c, plan) IN
         /\ DOMAIN m = CallFields /\ m.pc = "mapping" /\ m.call = c /\ m.collected = 0
         /\ m.mode = IF Merges(plan) THEN "merge" ELSE "one-to-one"
         /\ m.to = plan.groups[1].to /\ m.groups = plan.groups /\ m.before = disk
  BY DEF Called, NoCall, CallFields

\* Only the plan of a merge has mode "merge", and it has an output.
LEMMA MergePlan ==
  ASSUME NEW c, Planned(c).mode = "merge"
  PROVE  \E g \in Range(Planned(c).groups) : g.to = Planned(c).groups[1].to
<1>1. \E inputs : Planned(c) = [mode |-> "merge", groups |-> <<[from |-> inputs, to |-> c.literal]>>]
  <2> DEFINE inputs == Inputs(c)
             groups == [k \in DOMAIN inputs |->
                          [from |-> <<inputs[k]>>,
                           to |-> OutputPath(c, inputs[k], k - 1, TargetExtension(c, inputs))]]
  <2>1. \/ Planned(c) = Refused
        \/ Planned(c) = [mode |-> "merge", groups |-> <<[from |-> inputs, to |-> c.literal]>>]
        \/ Planned(c) = [mode |-> "one-to-one", groups |-> groups]
    BY Zenon DEF Planned
  <2> HIDE DEF inputs, groups
  <2> QED
    BY <2>1 DEF Refused
<1>2. PICK inputs : Planned(c) = [mode |-> "merge", groups |-> <<[from |-> inputs, to |-> c.literal]>>]
  BY <1>1
<1>3. 1 \in DOMAIN Planned(c).groups
  BY <1>2
<1> QED
  BY <1>3 DEF Range

LEMMA NoJobs == DOMAIN <<>> = {}
<1>1. <<>> \in Seq({}) /\ Len(<<>>) = 0
  BY EmptySeq
<1>2. DOMAIN <<>> = 1..0
  BY <1>1, LenProperties
<1> QED
  BY <1>2

LEMMA BeginNothingKeeps == ASSUME IInv, NEW c \in Calls, BeginNothing(c) PROVE IInv'
<1>1. main.pc \in {"idle", "ended"} /\ job' = <<>> /\ disk' = disk /\ scratch' = scratch
  BY DEF BeginNothing, MayBegin
<1>2. /\ DOMAIN main' = CallFields /\ main'.pc = "ended" /\ main'.call = c /\ main'.collected = 0
      /\ main'.mode # "merge" /\ main'.before = disk
  BY DEF BeginNothing, NoCall, CallFields
<1>3. scratch = None
  BY <1>1 DEF IInv, ScratchInv
<1>4. ~Merging' /\ DOMAIN job' = {}
  BY <1>1, <1>2, NoJobs DEF Merging
<1>5. TypeInv' /\ ScratchInv'
  <2>1. scratch' = None
    BY <1>1, <1>3
  <2> QED
    BY <1>2, <1>4, <2>1 DEF TypeInv, ScratchInv
<1>6. ProgressInv'
  <2>1. 1..main'.collected = {}
    BY <1>2
  <2> QED
    BY <1>2, <1>4, <2>1 DEF ProgressInv, AllStopped, Ended
<1>7. OutputsInv' /\ OthersUntouched'
  BY <1>1, <1>2, <1>4 DEF OutputsInv, OthersUntouched
<1> QED
  BY <1>5, <1>6, <1>7 DEF IInv

\* A call that begins with all its jobs waiting.
LEMMA CallBegins ==
  ASSUME IInv, NEW c \in Calls, NEW plan, main.pc \in {"idle", "ended"}, main' = Called(c, plan),
         \A j \in DOMAIN job' : DOMAIN job'[j] = JobFields /\ job'[j].pc = "waiting",
         \A j \in DOMAIN job' : job'[j].part => Merges(plan),
         scratch' = scratch \/ Merges(plan)
  PROVE  TypeInv' /\ ScratchInv' /\ ProgressInv'
<1>1. /\ DOMAIN main' = CallFields /\ main'.pc = "mapping" /\ main'.call = c /\ main'.collected = 0
      /\ Merging' <=> Merges(plan)
  BY CalledFacts DEF Merging
<1>2. scratch = None
  BY DEF IInv, ScratchInv
<1>3. TypeInv' /\ ScratchInv'
  BY <1>1, <1>2 DEF TypeInv, ScratchInv
<1>4. ProgressInv'
  BY <1>1 DEF ProgressInv, Ended
<1> QED
  BY <1>3, <1>4

LEMMA BeginEachKeeps == ASSUME IInv, NEW c \in Calls, BeginEach(c) PROVE IInv'
<1> DEFINE plan == Planned(c)
<1>1. /\ main.pc \in {"idle", "ended"} /\ ~Merges(plan) /\ main' = Called(c, plan)
      /\ job' = [k \in DOMAIN plan.groups |-> Waiting(plan.groups[k].from[1], plan.groups[k].to, FALSE)]
      /\ disk' = disk /\ scratch' = scratch
  BY DEF BeginEach, MayBegin
<1> HIDE DEF plan
<1>2. /\ DOMAIN job' = DOMAIN plan.groups
      /\ \A j \in DOMAIN job' : /\ DOMAIN job'[j] = JobFields /\ job'[j].pc = "waiting"
                               /\ job'[j].part = FALSE /\ job'[j].to = plan.groups[j].to
  <2>1. /\ DOMAIN job' = DOMAIN plan.groups
        /\ \A j \in DOMAIN plan.groups :
             job'[j] = Waiting(plan.groups[j].from[1], plan.groups[j].to, FALSE)
    BY <1>1, Zenon
  <2> SUFFICES ASSUME NEW j \in DOMAIN plan.groups
               PROVE  /\ DOMAIN job'[j] = JobFields /\ job'[j].pc = "waiting"
                      /\ job'[j].part = FALSE /\ job'[j].to = plan.groups[j].to
    BY <2>1
  <2> DEFINE from == plan.groups[j].from[1]
             to == plan.groups[j].to
  <2>2. job'[j] = Waiting(from, to, FALSE)
    BY <2>1
  <2> HIDE DEF from, to
  <2> QED
    BY <2>2 DEF Waiting, JobFields, to
<1>3. TypeInv' /\ ScratchInv' /\ ProgressInv'
  <2>1. \A j \in DOMAIN job' : job'[j].part => Merges(plan)
    BY <1>2
  <2>2. \A j \in DOMAIN job' : DOMAIN job'[j] = JobFields /\ job'[j].pc = "waiting"
    BY <1>2
  <2>3. main.pc \in {"idle", "ended"} /\ main' = Called(c, plan) /\ (scratch' = scratch \/ Merges(plan))
    BY <1>1
  <2> QED
    BY <2>1, <2>2, <2>3, CallBegins
<1>4. main'.groups = plan.groups /\ main'.before = disk /\ ~Merging'
  BY <1>1, CalledFacts DEF Merging
<1>5. OutputsInv'
  BY <1>2, <1>4 DEF OutputsInv, IsOutput, Range, AtWork
<1>6. OthersUntouched'
  BY <1>1, <1>4 DEF OthersUntouched
<1> QED
  BY <1>3, <1>5, <1>6 DEF IInv

LEMMA BeginMergeKeeps == ASSUME IInv, NEW c \in Calls, BeginMerge(c) PROVE IInv'
<1> DEFINE plan == Planned(c)
           to == plan.groups[1].to
           from == plan.groups[1].from
<1>1. /\ main.pc \in {"idle", "ended"} /\ Merges(plan) /\ main' = Called(c, plan) /\ MayTake(c, to)
      /\ disk' = Unlinked(disk, to)
      /\ job' = [k \in DOMAIN from |-> Waiting(from[k], PartPath(k - 1), TRUE)]
  BY DEF BeginMerge, MayBegin, MayMerge
<1>2. \E g \in Range(plan.groups) : g.to = to
  BY <1>1, MergePlan DEF Merges
<1> HIDE DEF plan, to, from
<1>3. \A j \in DOMAIN job' : DOMAIN job'[j] = JobFields /\ job'[j].pc = "waiting" /\ job'[j].part = TRUE
  <2>1. /\ DOMAIN job' = DOMAIN from
        /\ \A j \in DOMAIN from : job'[j] = Waiting(from[j], PartPath(j - 1), TRUE)
    BY <1>1, Zenon
  <2> QED
    BY <2>1 DEF Waiting, JobFields
<1>4. TypeInv' /\ ScratchInv' /\ ProgressInv'
  <2>1. \A j \in DOMAIN job' : job'[j].part => Merges(plan)
    BY <1>1
  <2>2. \A j \in DOMAIN job' : DOMAIN job'[j] = JobFields /\ job'[j].pc = "waiting"
    BY <1>3
  <2>3. main.pc \in {"idle", "ended"} /\ main' = Called(c, plan) /\ (scratch' = scratch \/ Merges(plan))
    BY <1>1
  <2> QED
    BY <2>1, <2>2, <2>3, CallBegins
<1>5. main'.groups = plan.groups /\ main'.before = disk /\ main'.to = to /\ main'.call = c
  BY <1>1, CalledFacts DEF to
<1>6. c.overwrite \/ to \notin DOMAIN disk
  BY <1>1 DEF MayTake, Exists
<1>7. OutputsInv'
  BY <1>2, <1>3, <1>5, <1>6 DEF OutputsInv, IsOutput, Free
<1>8. OthersUntouched'
  BY <1>1, <1>2, <1>5, <1>6 DEF OthersUntouched, Unlinked
<1> QED
  BY <1>4, <1>7, <1>8 DEF IInv

------------------------------------------------------------------------------
(* The theorems *)

LEMMA InitKeeps == ASSUME Init PROVE IInv
<1>1. /\ DOMAIN main = CallFields /\ main.pc = "idle" /\ main.collected = 0 /\ main.mode # "merge"
      /\ main.call = None /\ job = <<>> /\ DOMAIN job = {} /\ scratch = None
  BY NoJobs DEF Init, NoCall, CallFields
<1>2. TypeInv /\ ScratchInv
  <2>1. main.collected \in Nat
    BY <1>1
  <2> QED
    BY <1>1, <2>1, Zenon DEF TypeInv, ScratchInv, Merging
<1>3. ProgressInv
  <2>1. 1..main.collected = {}
    BY <1>1
  <2> QED
    BY <1>1, <2>1, Zenon DEF ProgressInv, Merging, Ended
<1>4. OutputsInv /\ OthersUntouched
  BY <1>1 DEF OutputsInv, OthersUntouched, Merging
<1> QED
  BY <1>2, <1>3, <1>4 DEF IInv

LEMMA NextKeeps == ASSUME IInv, [Next]_vars PROVE IInv'
<1>1. ASSUME NEW c \in Calls, BeginNothing(c) \/ BeginMerge(c) \/ BeginEach(c) PROVE IInv'
  BY <1>1, BeginNothingKeeps, BeginMergeKeeps, BeginEachKeeps
<1>2. ASSUME NEW j \in DOMAIN job, Working(j) \/ JobFails(j) PROVE IInv'
  BY <1>2, StartKeeps, PrepareKeeps, ReadKeeps, WriteKeeps, FillKeeps, StreamBatchKeeps,
     OpenResultKeeps, JobFailsKeeps DEF Working
<1>3. CASE Calling \/ MergeFails
  BY <1>3, CollectKeeps, GiveUpKeeps, StopKeeps, MergeKeeps, CleanUpKeeps, ReturnKeeps DEF Calling
<1>4. CASE UNCHANGED vars
  BY <1>4 DEF vars, IInv, TypeInv, ScratchInv, ProgressInv, OutputsInv, OthersUntouched, Merging,
     AllCollected, AllStopped, Ended, IsOutput, Free
<1> QED
  BY <1>1, <1>2, <1>3, <1>4 DEF Next

\* The invariant holds in every behaviour, whatever the calls and the files are
\* and whatever fails.
THEOREM Invariance == Spec => []IInv
<1>1. Init => IInv
  BY InitKeeps
<1>2. IInv /\ [Next]_vars => IInv'
  BY NextKeeps
<1> QED
  BY <1>1, <1>2, PTL DEF Spec

\* convert() removes or changes no file but an output it was told to overwrite
\* (OthersUntouched), by however many threads and wherever they fail.
THEOREM OthersAreLeftAlone == Spec => []OthersUntouched
<1>1. IInv => OthersUntouched
  BY DEF IInv
<1> QED
  BY <1>1, Invariance, PTL

\* A call that has ended, however, has no thread at work, no scratch directory
\* and no part open of those it collected (NothingLeftBehind).
THEOREM CallsClearUp == Spec => []NothingLeftBehind
<1>1. IInv => NothingLeftBehind
  BY DEF IInv, ProgressInv, ScratchInv, NothingLeftBehind, Ended, AllStopped, Merging
<1> QED
  BY <1>1, Invariance, PTL

------------------------------------------------------------------------------
(* Files *)

LEMMA FileRecord ==
  ASSUME NEW r \in Seq(Rows), NEW c
  PROVE  /\ IsFile(File(r, c)) /\ File(r, c).rows = r /\ File(r, c).cols = c /\ File(r, c).whole = TRUE
  BY DEF IsFile, File

LEMMA TornIsFile == IsFile(Torn) /\ ~Torn.whole
<1>1. <<>> \in Seq(Rows)
  BY EmptySeq
<1> QED
  BY <1>1 DEF IsFile, Torn

\* What is asked of a file that has it.
LEMMA ProjectionIs ==
  ASSUME NEW f, IsFile(f), f.whole
  PROVE  /\ Projection(f) = File(f.rows, IF main.call.columns = None THEN f.cols ELSE main.call.columns)
         /\ IsFile(Projection(f)) /\ Projection(f).whole
<1>1. f = [rows |-> f.rows, cols |-> f.cols, whole |-> TRUE] /\ f.rows \in Seq(Rows)
  BY DEF IsFile
<1>2. Projection(f) = File(f.rows, IF main.call.columns = None THEN f.cols ELSE main.call.columns)
  <2> DEFINE r == f.rows
             c == f.cols
  <2>1. f = [rows |-> r, cols |-> c, whole |-> TRUE]
    BY <1>1
  <2> HIDE DEF r, c
  <2>2. Projection(f) = File(r, IF main.call.columns = None THEN c ELSE main.call.columns)
    BY <2>1 DEF Projection, File
  <2> QED
    BY <2>2 DEF r, c
<1>3. LET c == IF main.call.columns = None THEN f.cols ELSE main.call.columns IN
      IsFile(File(f.rows, c)) /\ File(f.rows, c).whole
  BY <1>1, FileRecord
<1> QED
  BY <1>2, <1>3

\* Another path, and another place of a part.
LEMMA PartPaths ==
  ASSUME NEW i \in Int, NEW j \in Int, PartPath(i) = PartPath(j)
  PROVE  i = j
<1>1. PartPath(i).stem = <<"part", i>> /\ PartPath(j).stem = <<"part", j>>
  BY DEF PartPath
<1>2. PartPath(i).stem[2] = i /\ PartPath(j).stem[2] = j
  BY <1>1
<1> QED
  BY <1>2


------------------------------------------------------------------------------
(* A job's step *)

\* What is known of a call while its plan stays.
LEMMA SamePlan ==
  ASSUME main'.call = main.call, main'.mode = main.mode, main'.groups = main.groups,
         main'.before = main.before
  PROVE  /\ Ordered' = Ordered /\ Promise(1)' = Promise(1) /\ (Apart' <=> Apart)
         /\ (Merging' <=> Merging) /\ (HasPlan' <=> HasPlan)
         /\ \A j : Source(j)' = Source(j) /\ (Sound(j)' <=> Sound(j)) /\ Share(j)' = Share(j)
         /\ \A p : IsOutput(p)' <=> IsOutput(p)
<1>1. Ordered' = Ordered
  BY DEF Ordered
<1>2. Promise(1)' = Promise(1)
  BY DEF Promise
<1>3. (Apart' <=> Apart) /\ (Merging' <=> Merging) /\ (HasPlan' <=> HasPlan)
  BY DEF Apart, Merging, HasPlan
<1>4. ASSUME NEW j PROVE Source(j)' = Source(j)
  BY <1>1 DEF Source
<1>5. ASSUME NEW j PROVE (Sound(j)' <=> Sound(j)) /\ Share(j)' = Share(j)
  BY <1>1, <1>4 DEF Sound, Share, Has, Projection
<1>6. ASSUME NEW p PROVE IsOutput(p)' <=> IsOutput(p)
  BY DEF IsOutput
<1> QED
  BY <1>1, <1>2, <1>3, <1>4, <1>5, <1>6

\* The files at other paths are the same.
Elsewhere(p) == \A q : q # p => /\ q \in DOMAIN disk' <=> q \in DOMAIN disk
                                /\ q \in DOMAIN disk => disk'[q] = disk[q]

\* One job moves on, and writes only where it may.
OneMoves(j) == /\ main' = main /\ DOMAIN job' = DOMAIN job /\ \A k \in DOMAIN job \ {j} : job'[k] = job[k]
               /\ job'[j].from = job[j].from /\ job'[j].part = job[j].part /\ job'[j].to = job[j].to
WritesThere(j) ==
  IF job[j].part
  THEN disk' = disk /\ \A p \in DOMAIN scratch \ {job[j].to} : p \in DOMAIN scratch' /\ scratch'[p] = scratch[p]
  ELSE scratch' = scratch /\ Elsewhere(job[j].to)

\* There are jobs under a plan only, and they are numbered.
LEMMA Numbered ==
  ASSUME ExactInv, NEW j \in DOMAIN job
  PROVE  /\ HasPlan /\ j \in DOMAIN Ordered /\ DOMAIN job = DOMAIN Ordered
         /\ DOMAIN Ordered = 1..Len(Ordered) /\ Len(Ordered) \in Nat /\ j \in Nat \ {0}
         /\ ~Merging => main.mode = "one-to-one" /\ DOMAIN main.groups = DOMAIN Ordered
<1>1. HasPlan
  <2>1. DOMAIN job # {}
    OBVIOUS
  <2> QED
    BY <2>1, NoJobs DEF ExactInv, PlanInv
<1>2. Ordered \in Seq(Range(Ordered))
  BY <1>1 DEF ExactInv, PlanInv
<1>3. DOMAIN Ordered = 1..Len(Ordered) /\ Len(Ordered) \in Nat
  BY <1>2, LenProperties
<1>4. DOMAIN job = DOMAIN Ordered
  BY <1>1 DEF ExactInv, JobsInv
<1>5. ~Merging => main.mode = "one-to-one" /\ DOMAIN main.groups = DOMAIN Ordered
  BY <1>1 DEF HasPlan, Merging, ExactInv, PlanInv
<1> QED
  BY <1>1, <1>3, <1>4, <1>5

\* No two jobs write to the same place.
LEMMA PlacesApart ==
  ASSUME ExactInv, NEW j \in DOMAIN job, NEW k \in DOMAIN job, job[j].to = job[k].to
  PROVE  j = k
<1>1. CASE Merging
  <2>1. PartPath(j - 1) = PartPath(k - 1)
    BY <1>1 DEF ExactInv, JobsInv
  <2>2. j \in Int /\ k \in Int /\ j - 1 \in Int /\ k - 1 \in Int
    BY Numbered
  <2>3. j - 1 = k - 1
    BY <2>1, <2>2, PartPaths
  <2> QED
    BY <2>2, <2>3
<1>2. CASE ~Merging
  BY <1>2, Numbered DEF ExactInv, JobsInv, PlanInv
<1> QED
  BY <1>1, <1>2

\* Where a job of its own writes is an output.
LEMMA WritesOutput ==
  ASSUME ExactInv, NEW j \in DOMAIN job
  PROVE  /\ job[j].part <=> Merging
         /\ ~job[j].part => IsOutput(job[j].to) /\ IsPath(job[j].to)
<1>1. job[j].part = Merging /\ ~Merging => job[j].to = main.groups[j].to
  BY DEF ExactInv, JobsInv
<1>2. job[j].part <=> Merging
  BY DEF ExactInv, JobsInv
<1>3. ~Merging => main.groups[j] \in Range(main.groups)
  BY Numbered DEF Range
<1> QED
  BY <1>2, <1>3 DEF ExactInv, JobsInv, PlanInv, IsOutput

LEMMA JobChanges ==
  ASSUME IInv, ExactInv, NEW j \in DOMAIN job, OneMoves(j), WritesThere(j),
         FilesInv', Hands(j)', Apart => Shares(j)'
  PROVE  ExactInv'
<1> USE DEF OneMoves, WritesThere
<1>1. /\ Ordered' = Ordered /\ Promise(1)' = Promise(1) /\ (Apart' <=> Apart)
      /\ (Merging' <=> Merging) /\ (HasPlan' <=> HasPlan)
      /\ \A k : Source(k)' = Source(k) /\ (Sound(k)' <=> Sound(k)) /\ Share(k)' = Share(k)
      /\ \A p : IsOutput(p)' <=> IsOutput(p)
  BY SamePlan
<1>2. HasPlan
  BY Numbered
<1>3. PlanInv'
  BY <1>1, <1>2 DEF ExactInv, PlanInv, Merging, HasPlan
<1>4. JobsInv'
  <2>1. HasPlan' => DOMAIN job' = DOMAIN Ordered'
    BY <1>1 DEF ExactInv, JobsInv
  <2>2. ASSUME NEW k \in DOMAIN job
        PROVE  /\ job'[k].from = Ordered'[k] /\ job'[k].part = Merging'
               /\ job'[k].to = IF Merging' THEN PartPath(k - 1) ELSE main'.groups[k].to
    <3>1. job'[k].from = job[k].from /\ job'[k].part = job[k].part /\ job'[k].to = job[k].to
      OBVIOUS
    <3>2. /\ job[k].from = Ordered[k] /\ job[k].part = Merging
          /\ job[k].to = IF Merging THEN PartPath(k - 1) ELSE main.groups[k].to
      BY DEF ExactInv, JobsInv
    <3>3. Merging' = Merging
      BY DEF Merging
    <3> QED
      BY <3>1, <3>2, <3>3, <1>1
  <2> QED
    BY <2>1, <2>2 DEF JobsInv
<1>5. HandsInv'
  <2> SUFFICES ASSUME NEW k \in DOMAIN job PROVE Hands(k)'
    BY DEF HandsInv, OneMoves
  <2>1. k # j => Hands(k)'
    BY DEF ExactInv, HandsInv, Hands
  <2> QED
    BY <2>1
<1>6. OthersInv'
  <2> SUFFICES ASSUME NEW p, ~IsOutput(p), p \in DOMAIN disk' \cup DOMAIN main.before PROVE AsBefore(p)'
    BY <1>1 DEF OthersInv
  <2>1. CASE job[j].part
    BY <2>1 DEF ExactInv, OthersInv, AsBefore, Exists
  <2>2. CASE ~job[j].part
    BY <2>2, WritesOutput DEF ExactInv, OthersInv, AsBefore, Exists, Elsewhere
  <2> QED
    BY <2>1, <2>2
<1>7. OkInv'
  BY <1>1 DEF ExactInv, OkInv, AllCollected, Ended
<1>8. ASSUME Apart PROVE SharesInv'
  <2> SUFFICES ASSUME NEW k \in DOMAIN job PROVE Shares(k)'
    BY DEF SharesInv, OneMoves
  <2>1. CASE k = j
    BY <1>8, <2>1
  <2>2. CASE k # j
    <3>1. Shares(k) /\ job'[k] = job[k] /\ job[k].to # job[j].to /\ (job[k].part <=> job[j].part)
      BY <1>8, <2>2, PlacesApart, WritesOutput DEF ExactInv, SharesInv
    <3>2. Source(k)' = Source(k) /\ (Sound(k)' <=> Sound(k)) /\ Share(k)' = Share(k)
      BY <1>1
    <3>3. CASE job[j].part
      BY <3>1, <3>2, <3>3 DEF Shares
    <3>4. CASE ~job[j].part
      <4>1. Landed(k, job[k].to)
        BY <3>1, <3>4 DEF Shares
      <4>2. /\ (Exists(job[k].to))' <=> Exists(job[k].to)
            /\ Exists(job[k].to) => disk'[job[k].to] = disk[job[k].to]
        BY <3>1, <3>4 DEF Elsewhere, Exists
      <4>3. AsBefore(job[k].to)' <=> AsBefore(job[k].to)
        BY <3>1, <4>2 DEF AsBefore
      <4>4. Landed(k, job[k].to)'
        BY <3>1, <3>2, <4>1, <4>2, <4>3 DEF Landed
      <4> QED
        BY <3>1, <3>2, <3>4, <4>4 DEF Shares
    <3> QED
      BY <3>3, <3>4
  <2> QED
    BY <2>1, <2>2
<1>9. ASSUME Apart PROVE MergedInv'
  <2>1. Merging => disk' = disk
    BY WritesOutput
  <2> QED
    BY <1>1, <1>9, <2>1 DEF ExactInv, MergedInv, Exists
<1> QED
  BY <1>1, <1>3, <1>4, <1>5, <1>6, <1>7, <1>8, <1>9 DEF ExactInv

\* A job that only goes to its next place of work.
LEMMA NowMoves ==
  ASSUME IInv, NEW j \in DOMAIN job, NEW pc, job' = Now(j, pc), main' = main
  PROVE  /\ OneMoves(j) /\ job'[j].pc = pc
         /\ job'[j].got = job[j].got /\ job'[j].sent = job[j].sent /\ job'[j].reader = job[j].reader
  BY DEF IInv, TypeInv, JobFields, Now, OneMoves

\* A job that leaves the files alone.
LEMMA QuietFiles ==
  ASSUME ExactInv, NEW j \in DOMAIN job, main' = main, disk' = disk, scratch' = scratch
  PROVE  WritesThere(j) /\ FilesInv'
<1>1. FilesInv'
  BY DEF ExactInv, FilesInv, Merging
<1> QED
  BY <1>1 DEF WritesThere, Elsewhere

\* A job that writes a file, where it may.
LEMMA WritesFile ==
  ASSUME IInv, ExactInv, NEW j \in DOMAIN job, job[j].pc \notin Settled, main' = main,
         NEW f, IsFile(f), Writes(j, f)
  PROVE  /\ WritesThere(j) /\ FilesInv'
         /\ job[j].part => job[j].to \in DOMAIN scratch' /\ scratch'[job[j].to] = f
         /\ ~job[j].part => job[j].to \in DOMAIN disk' /\ disk'[job[j].to] = f
<1> DEFINE p == job[j].to
<1>1. main.pc \in {"mapping", "stopping"}
  BY AtWorkWhen
<1>2. CASE job[j].part
  <2>1. scratch' = Stored(scratch, p, f) /\ disk' = disk /\ Merging
    BY <1>2, WritesOutput DEF Writes, Becomes, Place
  <2> HIDE DEF p
  <2>2. /\ DOMAIN scratch' = DOMAIN scratch \cup {p} /\ scratch'[p] = f
        /\ \A q \in DOMAIN scratch \ {p} : scratch'[q] = scratch[q]
    BY <2>1 DEF Stored
  <2>3. FilesInv'
    BY <1>1, <2>1, <2>2 DEF ExactInv, FilesInv, Merging
  <2> QED
    BY <1>2, <2>1, <2>2, <2>3 DEF WritesThere, p
<1>3. CASE ~job[j].part
  <2>1. disk' = Stored(disk, p, f) /\ scratch' = scratch /\ IsPath(p)
    BY <1>3, WritesOutput DEF Writes, Becomes, Place
  <2> HIDE DEF p
  <2>2. /\ DOMAIN disk' = DOMAIN disk \cup {p} /\ disk'[p] = f
        /\ \A q \in DOMAIN disk \ {p} : disk'[q] = disk[q]
    BY <2>1 DEF Stored
  <2>3. IsFiniteSet(DOMAIN disk) => IsFiniteSet(DOMAIN disk')
    BY <2>2, FS_AddElement
  <2>4. FilesInv'
    BY <2>1, <2>2, <2>3 DEF ExactInv, FilesInv, Merging
  <2> QED
    BY <1>3, <2>1, <2>2, <2>4 DEF WritesThere, Elsewhere, p
<1> QED
  BY <1>2, <1>3

\* A job that removes the file it was to write.
LEMMA RemovesFile ==
  ASSUME IInv, ExactInv, NEW j \in DOMAIN job, job[j].pc \notin Settled, main' = main,
         Becomes(j, Unlinked(Place(j), job[j].to))
  PROVE  /\ WritesThere(j) /\ FilesInv'
         /\ ~job[j].part => job[j].to \notin DOMAIN disk'
<1> DEFINE p == job[j].to
<1>1. main.pc \in {"mapping", "stopping"}
  BY AtWorkWhen
<1>2. CASE job[j].part
  <2>1. scratch' = Unlinked(scratch, p) /\ disk' = disk /\ Merging
    BY <1>2, WritesOutput DEF Becomes, Place
  <2> HIDE DEF p
  <2>2. /\ DOMAIN scratch' = DOMAIN scratch \ {p}
        /\ \A q \in DOMAIN scratch \ {p} : scratch'[q] = scratch[q]
    BY <2>1 DEF Unlinked
  <2>3. FilesInv'
    BY <1>1, <2>1, <2>2 DEF ExactInv, FilesInv, Merging
  <2> QED
    BY <1>2, <2>1, <2>2, <2>3 DEF WritesThere, p
<1>3. CASE ~job[j].part
  <2>1. disk' = Unlinked(disk, p) /\ scratch' = scratch
    BY <1>3 DEF Becomes, Place
  <2> HIDE DEF p
  <2>2. /\ DOMAIN disk' = DOMAIN disk \ {p}
        /\ \A q \in DOMAIN disk \ {p} : disk'[q] = disk[q]
    BY <2>1 DEF Unlinked
  <2>3. IsFiniteSet(DOMAIN disk) => IsFiniteSet(DOMAIN disk')
    BY <2>2, FS_RemoveElement
  <2>4. FilesInv'
    BY <2>1, <2>2, <2>3 DEF ExactInv, FilesInv, Merging
  <2> QED
    BY <1>3, <2>1, <2>2, <2>4 DEF WritesThere, Elsewhere, p
<1> QED
  BY <1>2, <1>3

\* What a job's share is does not change with its step.
LEMMA SameShare ==
  ASSUME NEW j, main' = main
  PROVE  /\ Share(j)' = Share(j) /\ (Sound(j)' <=> Sound(j))
         /\ \A p : disk' = disk => (AsBefore(p)' <=> AsBefore(p))
<1>1. Share(j)' = Share(j) /\ (Sound(j)' <=> Sound(j))
  BY SamePlan
<1> QED
  BY <1>1 DEF AsBefore, Exists

LEMMA StartExact == ASSUME IInv, ExactInv, NEW j \in DOMAIN job, Start(j) PROVE ExactInv'
<1> DEFINE pc == IF job[j].part THEN "reading" ELSE "preparing"
<1>1. job' = Now(j, pc) /\ job[j].pc = "waiting" /\ main' = main /\ disk' = disk /\ scratch' = scratch
  BY DEF Start
<1>2. Hands(j) /\ (Apart => Shares(j))
  BY DEF ExactInv, HandsInv, SharesInv
<1>3. pc \in {"reading", "preparing"} /\ (~job[j].part => pc = "preparing")
  OBVIOUS
<1> HIDE DEF pc
<1>4. /\ OneMoves(j) /\ job'[j].pc = pc
      /\ job'[j].got = job[j].got /\ job'[j].sent = job[j].sent /\ job'[j].reader = job[j].reader
  BY <1>1, NowMoves
<1>5. WritesThere(j) /\ FilesInv'
  BY <1>1, QuietFiles
<1>6. Hands(j)'
  BY <1>1, <1>2, <1>3, <1>4 DEF Hands, Carrying
<1>7. Apart => Shares(j)'
  BY <1>1, <1>2, <1>3, <1>4, SameShare DEF Shares, Landed, OneMoves, Carrying
<1> QED
  BY <1>4, <1>5, <1>6, <1>7, JobChanges

LEMMA PrepareExact == ASSUME IInv, ExactInv, NEW j \in DOMAIN job, Prepare(j) PROVE ExactInv'
<1> DEFINE ok == (Native(job[j].from) \/ Native(job[j].to)) /\ MayTake(main.call, job[j].to)
           pc == IF ok THEN "reading" ELSE "failed"
<1>1. /\ job[j].pc = "preparing" /\ job' = Now(j, pc) /\ main' = main /\ scratch' = scratch
      /\ disk' = IF ok THEN Unlinked(disk, job[j].to) ELSE disk
  BY DEF Prepare
<1>2. Hands(j) /\ (Apart => Shares(j))
  BY DEF ExactInv, HandsInv, SharesInv
<1>3. ~job[j].part
  BY <1>1 DEF IInv, OutputsInv
<1>4. (pc = "reading" /\ ok) \/ (pc = "failed" /\ ~ok)
  OBVIOUS
<1> HIDE DEF ok, pc
<1>5. /\ OneMoves(j) /\ job'[j].pc = pc
      /\ job'[j].got = job[j].got /\ job'[j].sent = job[j].sent /\ job'[j].reader = job[j].reader
  BY <1>1, NowMoves
<1>6. Hands(j)'
  BY <1>1, <1>2, <1>4, <1>5 DEF Hands, Carrying
<1>7. CASE ok
  <2>1. Becomes(j, Unlinked(Place(j), job[j].to))
    BY <1>1, <1>3, <1>7 DEF Becomes, Place
  <2>2. WritesThere(j) /\ FilesInv' /\ job[j].to \notin DOMAIN disk'
    BY <1>1, <1>3, <2>1, RemovesFile DEF Settled
  <2>3. Apart => Shares(j)'
    BY <1>2, <1>3, <1>4, <1>5, <1>7, <2>2 DEF Shares, Landed, Exists, OneMoves, Carrying
  <2> QED
    BY <1>5, <1>6, <2>2, <2>3, JobChanges
<1>8. CASE ~ok
  <2>1. WritesThere(j) /\ FilesInv'
    BY <1>1, <1>8, QuietFiles
  <2>2. Apart => Shares(j)'
    BY <1>1, <1>2, <1>3, <1>4, <1>5, <1>8, SameShare DEF Shares, Landed, OneMoves, Carrying
  <2> QED
    BY <1>5, <1>6, <2>1, <2>2, JobChanges
<1> QED
  BY <1>7, <1>8

\* The input of a job is as it was at the call: it is no output.
LEMMA InputAsBefore ==
  ASSUME ExactInv, Apart, NEW j \in DOMAIN job, Exists(job[j].from)
  PROVE  job[j].from \in DOMAIN main.before /\ disk[job[j].from] = Source(j) /\ job[j].from = Ordered[j]
<1>1. job[j].from = Ordered[j] /\ j \in DOMAIN Ordered
  BY Numbered DEF ExactInv, JobsInv
<1>2. ~IsOutput(Ordered[j])
  <2>1. \E g \in Range(main.groups) : \E i \in DOMAIN g.from : g.from[i] = Ordered[j]
    <3>1. CASE Merging
      <4> DEFINE g == [from |-> Ordered, to |-> main.to]
      <4>1. main.groups = <<g>>
        BY <3>1 DEF ExactInv, PlanInv
      <4>2. g.from = Ordered
        OBVIOUS
      <4> HIDE DEF g
      <4>3. g \in Range(main.groups)
        BY <4>1 DEF Range
      <4> QED
        BY <1>1, <4>2, <4>3
    <3>2. CASE ~Merging
      <4>1. j \in DOMAIN main.groups /\ main.groups[j].from = <<Ordered[j]>>
        BY <3>2, Numbered DEF ExactInv, PlanInv
      <4>2. main.groups[j] \in Range(main.groups)
        BY <4>1 DEF Range
      <4>3. 1 \in DOMAIN main.groups[j].from /\ main.groups[j].from[1] = Ordered[j]
        BY <4>1
      <4> QED
        BY <4>2, <4>3
    <3> QED
      BY <3>1, <3>2
  <2> QED
    BY <2>1 DEF Apart, IsOutput
<1>3. AsBefore(Ordered[j])
  BY <1>1, <1>2 DEF ExactInv, OthersInv, Exists
<1> QED
  BY <1>1, <1>3 DEF AsBefore, Source

LEMMA ReadExact == ASSUME IInv, ExactInv, NEW j \in DOMAIN job, Read(j) PROVE ExactInv'
<1> DEFINE source == disk[job[j].from]
           ready == Exists(job[j].from) /\ Has(source) /\ ~(Native(job[j].from) /\ main.call.dtypes /\ ~job[j].part)
           whole == job[j].part /\ Native(job[j].from) /\ main.call.columns = None
<1>1. /\ job[j].pc = "reading" /\ main' = main /\ disk' = disk /\ scratch' = scratch
      /\ job' = IF ~ready THEN Now(j, "failed")
                ELSE IF whole THEN [job EXCEPT ![j] = [job[j] EXCEPT !.pc = "done", !.reader = source]]
                ELSE [job EXCEPT ![j] = [job[j] EXCEPT !.pc = "writing", !.got = Projection(source)]]
  BY DEF Read
<1>2. Hands(j) /\ (Apart => Shares(j))
  BY DEF ExactInv, HandsInv, SharesInv
<1>3. WritesThere(j) /\ FilesInv'
  BY <1>1, QuietFiles
<1>4. ready => IsFile(source) /\ source.whole /\ IsFile(Projection(source))
  <2>1. ready => IsFile(source) /\ source.whole
    BY DEF ExactInv, FilesInv, Exists, Has
  <2> HIDE DEF ready, source
  <2> QED
    BY <2>1, ProjectionIs
<1>5. ready /\ Apart => Sound(j) /\ Projection(source) = Share(j)
  <2>1. ASSUME ready, Apart PROVE Ordered[j] \in DOMAIN main.before /\ source = Source(j) /\ Has(source)
    BY <2>1, InputAsBefore
  <2> QED
    BY <2>1 DEF Sound, Share
<1>6. whole => Projection(source) = source /\ job[j].part
  BY DEF Projection
<1> HIDE DEF source, ready, whole
<1>7. CASE ~ready
  <2>1. /\ OneMoves(j) /\ job'[j].pc = "failed"
        /\ job'[j].got = job[j].got /\ job'[j].sent = job[j].sent /\ job'[j].reader = job[j].reader
    BY <1>1, <1>7, NowMoves
  <2>2. Hands(j)'
    BY <1>1, <1>2, <2>1 DEF Hands, Carrying
  <2>3. Apart => Shares(j)'
    BY <1>1, <1>2, <2>1 DEF Shares, Landed, OneMoves, Carrying, Exists
  <2> QED
    BY <1>3, <2>1, <2>2, <2>3, JobChanges
<1>8. CASE ready /\ whole
  <2>1. /\ OneMoves(j) /\ job'[j].pc = "done" /\ job'[j].part = job[j].part
        /\ job'[j].got = job[j].got /\ job'[j].sent = job[j].sent /\ job'[j].reader = source
    BY <1>1, <1>8 DEF IInv, TypeInv, JobFields, OneMoves
  <2>2. Hands(j)'
    BY <1>1, <1>2, <1>4, <1>8, <2>1 DEF Hands, Carrying
  <2>3. Apart => Shares(j)'
    <3>1. Share(j)' = Share(j) /\ (Sound(j)' <=> Sound(j))
      BY <1>1, SameShare
    <3>2. Apart => Sound(j) /\ source = Share(j)
      BY <1>5, <1>6, <1>8
    <3>3. job'[j].part /\ job'[j].pc \notin Carrying /\ job'[j].pc # "opening"
      BY <1>6, <1>8, <2>1 DEF Carrying
    <3> QED
      BY <2>1, <3>1, <3>2, <3>3 DEF Shares
  <2> QED
    BY <1>3, <2>1, <2>2, <2>3, JobChanges
<1>9. CASE ready /\ ~whole
  <2>1. /\ OneMoves(j) /\ job'[j].pc = "writing" /\ job'[j].to = job[j].to
        /\ job'[j].got = Projection(source) /\ job'[j].sent = job[j].sent /\ job'[j].reader = job[j].reader
    BY <1>1, <1>9 DEF IInv, TypeInv, JobFields, OneMoves
  <2>2. Hands(j)'
    BY <1>1, <1>2, <1>4, <1>9, <2>1 DEF Hands, Carrying
  <2>3. Apart => Shares(j)'
    BY <1>1, <1>2, <1>5, <1>9, <2>1, SameShare DEF Shares, Landed, OneMoves, Carrying, Exists
  <2> QED
    BY <1>3, <2>1, <2>2, <2>3, JobChanges
<1> QED
  BY <1>7, <1>8, <1>9

\* A job that has begun its output, or has all of it.
LEMMA OnItsWay ==
  ASSUME IInv, ExactInv, NEW j \in DOMAIN job, job[j].pc \in {"writing", "filling", "streaming"}, main' = main,
         NEW pc, job' = Now(j, pc), NEW f, Writes(j, f),
         \/ pc = "opening" /\ f = job[j].got
         \/ pc = "filling" /\ f = Torn
         \/ pc = "streaming" /\ f = Torn /\ main.call.batches /\ job[j].pc = "writing"
  PROVE  ExactInv'
<1>1. Hands(j) /\ (Apart => Shares(j))
  BY DEF ExactInv, HandsInv, SharesInv
<1>2. IsFile(job[j].got) /\ IsFile(f)
  BY <1>1, TornIsFile DEF Hands, Carrying
<1>3. /\ OneMoves(j) /\ job'[j].pc = pc
      /\ job'[j].got = job[j].got /\ job'[j].sent = job[j].sent /\ job'[j].reader = job[j].reader
  BY NowMoves
<1>4. /\ WritesThere(j) /\ FilesInv'
      /\ job[j].part => job[j].to \in DOMAIN scratch' /\ scratch'[job[j].to] = f
      /\ ~job[j].part => job[j].to \in DOMAIN disk' /\ disk'[job[j].to] = f
  BY <1>2, WritesFile DEF Settled
<1>5. Len(job[j].got.rows) \in Nat
  BY <1>2, LenProperties DEF IsFile
<1>6. Hands(j)'
  BY <1>1, <1>3, <1>5 DEF Hands, Carrying, OneMoves
<1>7. Apart => Shares(j)'
  BY <1>1, <1>3, <1>4, SameShare DEF Shares, Landed, OneMoves, Carrying, Exists
<1> QED
  BY <1>3, <1>4, <1>6, <1>7, JobChanges

\* A job that fails and leaves the files alone.
LEMMA FailsQuietly ==
  ASSUME IInv, ExactInv, NEW j \in DOMAIN job,
         job[j].pc \in {"reading", "writing", "filling", "streaming", "opening"}, main' = main, disk' = disk, scratch' = scratch, job' = Now(j, "failed")
  PROVE  ExactInv'
<1>1. Hands(j) /\ (Apart => Shares(j))
  BY DEF ExactInv, HandsInv, SharesInv
<1>2. /\ OneMoves(j) /\ job'[j].pc = "failed"
      /\ job'[j].got = job[j].got /\ job'[j].sent = job[j].sent /\ job'[j].reader = job[j].reader
  BY NowMoves
<1>3. WritesThere(j) /\ FilesInv'
  BY QuietFiles
<1>4. Hands(j)'
  BY <1>1, <1>2 DEF Hands, Carrying
<1>5. Torn.whole = FALSE
  BY TornIsFile
<1>6. Apart => Shares(j)'
  BY <1>1, <1>2, <1>5, SameShare DEF Shares, Landed, OneMoves, Carrying, Exists
<1> QED
  BY <1>2, <1>3, <1>4, <1>6, JobChanges

LEMMA WriteExact == ASSUME IInv, ExactInv, NEW j \in DOMAIN job, Write(j) PROVE ExactInv'
<1>1. job[j].pc = "writing" /\ main' = main
  BY DEF Write
<1>2. \/ job' = Now(j, "failed") /\ disk' = disk /\ scratch' = scratch
      \/ job' = Now(j, "opening") /\ Writes(j, job[j].got)
      \/ job' = Now(j, "filling") /\ Writes(j, Torn)
      \/ job' = Now(j, "streaming") /\ Writes(j, Torn) /\ main.call.batches
  BY DEF Write
<1> QED
  BY <1>1, <1>2, FailsQuietly, OnItsWay

LEMMA FillExact == ASSUME IInv, ExactInv, NEW j \in DOMAIN job, Fill(j) \/ CommitStream(j) PROVE ExactInv'
<1>1. /\ job[j].pc \in {"filling", "streaming"} /\ main' = main
      /\ job' = Now(j, "opening") /\ Writes(j, job[j].got)
  BY DEF Fill, CommitStream
<1> QED
  BY <1>1, OnItsWay

LEMMA StreamBatchExact == ASSUME IInv, ExactInv, NEW j \in DOMAIN job, StreamBatch(j) PROVE ExactInv'
<1>1. /\ job[j].pc = "streaming" /\ job[j].sent < Len(job[j].got.rows) /\ main' = main
      /\ disk' = disk /\ scratch' = scratch /\ job' = [job EXCEPT ![j].sent = @ + 1]
  BY DEF StreamBatch
<1>2. Hands(j) /\ (Apart => Shares(j))
  BY DEF ExactInv, HandsInv, SharesInv
<1>3. /\ OneMoves(j) /\ job'[j].pc = "streaming"
      /\ job'[j].got = job[j].got /\ job'[j].sent = job[j].sent + 1 /\ job'[j].reader = job[j].reader
  BY <1>1 DEF IInv, TypeInv, JobFields, OneMoves
<1>4. IsFile(job[j].got) /\ job[j].sent \in 0..Len(job[j].got.rows) /\ Len(job[j].got.rows) \in Nat
  BY <1>1, <1>2, LenProperties DEF Hands, Carrying, IsFile
<1>5. job[j].sent + 1 \in 0..Len(job[j].got.rows)
  BY <1>1, <1>4
<1>6. WritesThere(j) /\ FilesInv'
  BY <1>1, QuietFiles
<1>7. Hands(j)'
  BY <1>1, <1>2, <1>3, <1>5 DEF Hands, Carrying, OneMoves
<1>8. Apart => Shares(j)'
  BY <1>1, <1>2, <1>3, SameShare DEF Shares, Landed, OneMoves, Carrying, Exists
<1> QED
  BY <1>3, <1>6, <1>7, <1>8, JobChanges

LEMMA OpenResultExact == ASSUME IInv, ExactInv, NEW j \in DOMAIN job, OpenResult(j) PROVE ExactInv'
<1>1. /\ job[j].pc = "opening" /\ main' = main /\ disk' = disk /\ scratch' = scratch
      /\ job' = IF ~Native(job[j].to) THEN Now(j, "done")
                ELSE IF Taken(j) /\ Written(j).whole
                THEN [job EXCEPT ![j].pc = "done", ![j].reader = Written(j)]
                ELSE Now(j, "failed")
  BY DEF OpenResult
<1>2. Hands(j) /\ (Apart => Shares(j))
  BY DEF ExactInv, HandsInv, SharesInv
<1>3. WritesThere(j) /\ FilesInv'
  BY <1>1, QuietFiles
<1>4. job[j].part => Native(job[j].to) /\ Merging /\ main.pc \in {"mapping", "stopping"}
  <2>1. job[j].part => Merging /\ job[j].to = PartPath(j - 1)
    BY WritesOutput DEF ExactInv, JobsInv
  <2>2. PartPath(j - 1).ext = "cstore"
    BY DEF PartPath
  <2>3. main.pc \in {"mapping", "stopping"}
    BY <1>1, AtWorkWhen DEF Settled
  <2> QED
    BY <2>1, <2>2, <2>3 DEF Native
<1>5. CASE ~Native(job[j].to)
  <2>1. /\ OneMoves(j) /\ job'[j].pc = "done" /\ job'[j].part = job[j].part
        /\ job'[j].got = job[j].got /\ job'[j].sent = job[j].sent /\ job'[j].reader = job[j].reader
    BY <1>1, <1>5, NowMoves DEF OneMoves
  <2>2. Hands(j)'
    BY <1>1, <1>2, <1>4, <1>5, <2>1 DEF Hands, Carrying
  <2>3. Apart => Shares(j)'
    BY <1>1, <1>2, <1>4, <1>5, <2>1, SameShare DEF Shares, Hands, Landed, OneMoves, Carrying, Exists
  <2> QED
    BY <1>3, <2>1, <2>2, <2>3, JobChanges
<1>6. CASE Native(job[j].to) /\ Taken(j) /\ Written(j).whole
  <2>1. /\ OneMoves(j) /\ job'[j].pc = "done" /\ job'[j].part = job[j].part /\ job'[j].to = job[j].to
        /\ job'[j].got = job[j].got /\ job'[j].sent = job[j].sent /\ job'[j].reader = Written(j)
    BY <1>1, <1>6 DEF IInv, TypeInv, JobFields, OneMoves
  <2>2. IsFile(Written(j))
    BY <1>4, <1>6 DEF Taken, Written, Place, ExactInv, FilesInv
  <2>3. Hands(j)'
    BY <1>1, <1>2, <2>1, <2>2 DEF Hands, Carrying
  <2>4. Apart => Written(j) = Share(j) /\ Sound(j)
    BY <1>1, <1>2, <1>6 DEF Shares, Landed, Exists, Written, Place, Carrying
  <2>5. Apart => Shares(j)'
    BY <1>1, <1>2, <2>1, <2>4, SameShare DEF Shares, Landed, Carrying, Exists
  <2> QED
    BY <1>3, <2>1, <2>3, <2>5, JobChanges
<1>7. CASE Native(job[j].to) /\ ~(Taken(j) /\ Written(j).whole)
  BY <1>1, <1>7, FailsQuietly
<1> QED
  BY <1>5, <1>6, <1>7

\* A file of the first rows of another begins as it does, if they came in batches.
LEMMA FirstRows ==
  ASSUME NEW f, IsFile(f), NEW n \in 0..Len(f.rows), NEW ext, NEW batches, batches
  PROVE  LET k == [f EXCEPT !.rows = SubSeq(@, 1, n)]
         IN  IsFile(k) /\ BeginsAs(k, f, ext, batches)
<1> DEFINE k == [f EXCEPT !.rows = SubSeq(@, 1, n)]
<1>1. f = [rows |-> f.rows, cols |-> f.cols, whole |-> f.whole] /\ f.rows \in Seq(Rows) /\ f.whole \in BOOLEAN
  BY DEF IsFile
<1>2. DOMAIN f = {"rows", "cols", "whole"}
  BY <1>1
<1>3. /\ DOMAIN k = {"rows", "cols", "whole"}
      /\ k.rows = SubSeq(f.rows, 1, n) /\ k.cols = f.cols /\ k.whole = f.whole
  BY <1>2
<1>4. k = [rows |-> k.rows, cols |-> k.cols, whole |-> k.whole]
  <2> DEFINE r == f.rows
             c == f.cols
             w == f.whole
             t == SubSeq(f.rows, 1, n)
  <2>1. f = [rows |-> r, cols |-> c, whole |-> w] /\ k = [f EXCEPT !.rows = t]
    BY <1>1
  <2> HIDE DEF k, r, c, w, t
  <2>2. k = [rows |-> t, cols |-> c, whole |-> w]
    BY <2>1
  <2> QED
    BY <2>2
<1> HIDE DEF k
<1>5. /\ SubSeq(f.rows, 1, n) \in Seq(Rows) /\ Len(SubSeq(f.rows, 1, n)) = n
      /\ \A i \in 1..n : SubSeq(f.rows, 1, n)[i] = f.rows[i]
  <2> DEFINE r == f.rows
  <2>1. r \in Seq(Rows) /\ n \in 0..Len(r)
    BY <1>1
  <2> HIDE DEF r
  <2>2. Len(r) \in Nat /\ SubSeq(r, 1, n) \in Seq(Rows) /\ Len(SubSeq(r, 1, n)) = n
        /\ \A i \in 1..n : SubSeq(r, 1, n)[i] = r[i]
    BY <2>1, SubSeqProperties, LenProperties
  <2> QED
    BY <2>2 DEF r
<1>6. IsFile(k)
  BY <1>1, <1>3, <1>4, <1>5 DEF IsFile
<1>7. BeginsAs(k, f, ext, batches)
  <2>1. n = Len(f.rows) \/ n < Len(f.rows)
    BY <1>1, LenProperties
  <2>2. k.rows = SubSeq(f.rows, 1, n) /\ Len(k.rows) = n
    BY <1>3, <1>5
  <2>3. \A i \in 1..n : k.rows[i] = f.rows[i]
    BY <1>5, <2>2
  <2> QED
    BY <1>3, <2>1, <2>2, <2>3 DEF BeginsAs
<1> QED
  BY <1>6, <1>7 DEF k

\* What a broken transfer of a file leaves does not open, or begins as the file does.
LEMMA BreaksOff ==
  ASSUME NEW g, IsFile(g), NEW p, NEW f \in BrokenOff(g, p.ext, StreamsTo(p))
  PROVE  IsFile(f) /\ (f = Torn \/ BeginsAs(f, g, p.ext, main.call.batches))
<1>1. CASE f = Torn
  BY <1>1, TornIsFile
<1>2. CASE f # Torn
  <2> DEFINE C == IF p.ext \in ByColumn THEN (SUBSET g.cols) \ {{}} ELSE {g.cols}
             S == Stages(g, p.ext, StreamsTo(p))
             F(stage, cols) == File([k \in 1..stage[1] |-> IF k <= stage[2] THEN g.rows[k] ELSE Blank], cols)
  <2>1. f \in {F(stage, cols) : stage \in S, cols \in C}
    BY <1>2 DEF BrokenOff
  <2> HIDE DEF C, S, F
  <2>2. \E stage \in S, cols \in C : f = F(stage, cols)
    BY <2>1
  <2>3. PICK stage \in Stages(g, p.ext, StreamsTo(p)),
             cols \in IF p.ext \in ByColumn THEN (SUBSET g.cols) \ {{}} ELSE {g.cols} :
               f = File([k \in 1..stage[1] |-> IF k <= stage[2] THEN g.rows[k] ELSE Blank], cols)
    BY <2>2 DEF C, S, F
  <2> DEFINE all  == Len(g.rows)
             n    == stage[1]
             m    == stage[2]
             rows == [k \in 1..n |-> IF k <= m THEN g.rows[k] ELSE Blank]
  <2>4. g.rows \in Seq(Rows) /\ all \in Nat /\ \A k \in 1..all : g.rows[k] \in Rows
    BY LenProperties DEF IsFile
  <2>5. /\ n \in 0..all /\ m \in 0..all
        /\ n = all \/ StreamsTo(p)
        /\ m = n \/ (m < n /\ p.ext = "hdf5")
    BY <2>3 DEF Stages
  <2>6. f = File(rows, cols)
    BY <2>3
  <2> HIDE DEF all, n, m
  <2>7. rows \in Seq(Rows) /\ Len(rows) = n
    <3>1. \A k \in 1..n : (IF k <= m THEN g.rows[k] ELSE Blank) \in Rows
      BY <2>4, <2>5, BlankAssumption
    <3>2. rows \in [1..n -> Rows] /\ n \in Nat
      BY <2>4, <2>5, <3>1
    <3> HIDE DEF rows
    <3> QED
      BY <3>2
  <2>8. \A k \in 1..n : rows[k] = g.rows[k] \/ (p.ext = "hdf5" /\ \A l \in k..n : rows[l] = Blank)
    BY <2>4, <2>5
  <2> HIDE DEF rows
  <2>9. f.rows = rows /\ f.cols = cols /\ IsFile(f)
    BY <2>6, <2>7, FileRecord
  <2>10. n = all \/ (main.call.batches /\ n < all)
    BY <2>4, <2>5 DEF StreamsTo
  <2>11. cols = g.cols \/ (p.ext \in ByColumn /\ cols \subseteq g.cols)
    BY <2>3
  <2>12. BeginsAs(f, g, p.ext, main.call.batches)
    BY <2>7, <2>8, <2>9, <2>10, <2>11 DEF BeginsAs, all
  <2> QED
    BY <2>9, <2>12
<1> QED
  BY <1>1, <1>2

LEMMA JobFailsExact == ASSUME IInv, ExactInv, NEW j \in DOMAIN job, JobFails(j) PROVE ExactInv'
<1> DEFINE kept == Kept(job[j])
           left == BrokenOff(job[j].got, job[j].to.ext, StreamsTo(job[j].to))
           begins(f) == BeginsAs(f, job[j].got, job[j].to.ext, main.call.batches)
<1>1. main' = main /\ job' = Now(j, "failed")
      /\ \/ /\ job[j].pc \in {"reading", "writing", "filling", "streaming", "opening"}
            /\ disk' = disk /\ scratch' = scratch
         \/ job[j].pc \in {"streaming", "filling"} /\ Becomes(j, Unlinked(Place(j), job[j].to))
         \/ job[j].pc = "streaming" /\ Writes(j, kept)
         \/ job[j].pc = "filling" /\ \E f \in left : Writes(j, f)
  <2>1. main' = main /\ job' = Now(j, "failed") /\ job[j].pc \in {"reading", "writing", "filling", "streaming", "opening"}
    BY DEF JobFails
  <2>2. CASE job[j].pc = "streaming"
    BY <2>1, <2>2 DEF JobFails
  <2>3. CASE job[j].pc = "filling" /\ ~Native(job[j].to)
    BY <2>1, <2>3 DEF JobFails
  <2>4. CASE job[j].pc # "streaming" /\ ~(job[j].pc = "filling" /\ ~Native(job[j].to))
    BY <2>1, <2>4 DEF JobFails
  <2> QED
    BY <2>1, <2>2, <2>3, <2>4
<1>2. Hands(j) /\ (Apart => Shares(j))
  BY DEF ExactInv, HandsInv, SharesInv
<1>3. /\ OneMoves(j) /\ job'[j].pc = "failed"
      /\ job'[j].got = job[j].got /\ job'[j].sent = job[j].sent /\ job'[j].reader = job[j].reader
  BY <1>1, NowMoves
<1>4. Hands(j)'
  BY <1>1, <1>2, <1>3 DEF Hands, Carrying
<1>5. job[j].pc = "streaming" => IsFile(kept) /\ begins(kept)
  BY <1>2, FirstRows DEF Hands, Carrying, Kept
<1>6. job[j].pc = "filling" => \A f \in left : IsFile(f) /\ (~f.whole \/ begins(f))
  BY <1>2, BreaksOff, TornIsFile DEF Hands, Carrying
<1> HIDE DEF kept, left
<1>7. CASE job[j].pc \in {"streaming", "filling"} /\ Becomes(j, Unlinked(Place(j), job[j].to))
  <2>1. WritesThere(j) /\ FilesInv' /\ (~job[j].part => job[j].to \notin DOMAIN disk')
    BY <1>1, <1>7, RemovesFile DEF Settled
  <2>2. Apart => Shares(j)'
    BY <1>2, <1>3, <2>1 DEF Shares, Landed, Exists, OneMoves, Carrying
  <2> QED
    BY <1>3, <1>4, <2>1, <2>2, JobChanges
<1>8. ASSUME NEW f, job[j].pc \in {"streaming", "filling"}, Writes(j, f), IsFile(f), ~f.whole \/ begins(f)
      PROVE  ExactInv'
  <2>1. WritesThere(j) /\ FilesInv' /\ (~job[j].part => job[j].to \in DOMAIN disk' /\ disk'[job[j].to] = f)
    BY <1>1, <1>8, WritesFile DEF Settled
  <2>2. Apart => Sound(j) /\ job[j].got = Share(j)
    BY <1>2, <1>8 DEF Shares, Carrying
  <2>3. Apart => ~f.whole \/ BeginsAs(f, Share(j), job[j].to.ext, main.call.batches)
    BY <1>8, <2>2
  <2> HIDE DEF begins
  <2>4. Apart /\ ~job[j].part => Landed(j, job[j].to)'
    <3> SUFFICES ASSUME Apart, ~job[j].part
                 PROVE  ~disk'[job[j].to].whole
                        \/ (Sound(j)' /\ BeginsAs(disk'[job[j].to], Share(j)', job[j].to.ext, main'.call.batches))
      BY <1>3 DEF Landed, OneMoves
    <3>1. Share(j)' = Share(j) /\ (Sound(j)' <=> Sound(j)) /\ main' = main
      BY <1>1, SameShare
    <3> QED
      BY <2>1, <2>2, <2>3, <3>1
  <2>5. Apart => Shares(j)'
    BY <1>1, <1>3, <2>1, <2>4, SameShare DEF Shares, OneMoves, Carrying
  <2> QED
    BY <1>3, <1>4, <2>1, <2>5, JobChanges
<1> QED
  BY <1>1, <1>5, <1>7, <1>8, <1>6, FailsQuietly

------------------------------------------------------------------------------
(* The caller's steps *)

\* What the merge of all parts is: what was promised of the inputs.
LEMMA MergedIs ==
  ASSUME IInv, ExactInv, Apart, Merging, AllCollected, main.pc # "ended"
  PROVE  Merged = Promise(1)
<1> DEFINE all  == Ordered
           n    == Len(all)
           from == [i \in 1..n |-> main.before[all[i]]]
           cols == IF main.call.columns # None THEN main.call.columns
                   ELSE {x \in from[1].cols : \A i \in DOMAIN from : x \in from[i].cols}
<1>1. Promise(1) = File(FlattenSeq([i \in DOMAIN from |-> from[i].rows]), cols)
  <2>1. Promise(1) = Promised(main.call, TRUE, main.before, 1)
    BY DEF Promise, Merging
  <2>2. Promised(main.call, TRUE, main.before, 1) = File(FlattenSeq([i \in DOMAIN from |-> from[i].rows]), cols)
    BY DEF Promised, Ordered
  <2> QED
    BY <2>1, <2>2
<1>2. DOMAIN job = DOMAIN all /\ DOMAIN all = 1..n /\ n \in Nat /\ 1 \in DOMAIN job
  <2>1. HasPlan
    BY DEF HasPlan, Merging
  <2>2. all \in Seq(Range(all)) /\ all # <<>> /\ DOMAIN job = DOMAIN all
    BY <2>1 DEF ExactInv, PlanInv, JobsInv
  <2> HIDE DEF all
  <2>3. DOMAIN all = 1..Len(all) /\ Len(all) \in Nat /\ Len(all) # 0
    BY <2>2, LenProperties, EmptySeq
  <2> QED
    BY <2>2, <2>3
<1>3. DOMAIN from = DOMAIN job /\ \A j \in DOMAIN job : from[j] = Source(j)
  BY <1>2 DEF Source
<1>4. ASSUME NEW j \in DOMAIN job
      PROVE  /\ job[j].reader.rows = Source(j).rows
             /\ job[j].reader.cols = IF main.call.columns = None THEN Source(j).cols ELSE main.call.columns
  <2>1. job[j].pc = "done" /\ (job[j].part <=> Merging)
    BY WritesOutput DEF AllCollected, IInv, ProgressInv
  <2>2. Sound(j) /\ job[j].reader = Share(j)
    BY <2>1 DEF ExactInv, SharesInv, Shares
  <2>3. IsFile(Source(j)) /\ Source(j).whole
    BY <2>2 DEF Sound, Has, Source, ExactInv, FilesInv
  <2>4. Share(j) = File(Source(j).rows, IF main.call.columns = None THEN Source(j).cols ELSE main.call.columns)
    BY <2>3, ProjectionIs DEF Share
  <2> QED
    BY <2>2, <2>4 DEF File
<1> HIDE DEF all, n, from
<1>5. [j \in DOMAIN job |-> job[j].reader.rows] = [i \in DOMAIN from |-> from[i].rows]
  BY <1>3, <1>4
<1>6. {c \in job[1].reader.cols : \A j \in DOMAIN job : c \in job[j].reader.cols} = cols
  <2>1. CASE main.call.columns # None
    BY <1>2, <1>4, <2>1
  <2>2. CASE main.call.columns = None
    BY <1>2, <1>3, <1>4, <2>2
  <2> QED
    BY <2>1, <2>2
<1> HIDE DEF cols
<1> QED
  BY <1>1, <1>5, <1>6 DEF Merged

\* The call goes on, and a job is only cancelled or its reader closed.
CallerMoves ==
  /\ MainMoves /\ main.pc \notin {"idle", "ended"}
  /\ DOMAIN job' = DOMAIN job /\ (HasPlan \/ job' = job)
  /\ \A j \in DOMAIN job :
       /\ job'[j].from = job[j].from /\ job'[j].part = job[j].part /\ job'[j].to = job[j].to
       /\ job'[j].got = job[j].got /\ job'[j].sent = job[j].sent
       /\ job'[j].pc = job[j].pc \/ (job[j].pc = "waiting" /\ job'[j].pc = "cancelled")
       /\ job'[j].reader = job[j].reader \/ (job'[j].reader = None /\ main'.pc = "ended")
  /\ scratch' = scratch \/ (main'.pc = "ended" /\ AllStopped)
  /\ \/ disk' = disk
     \/ Merging /\ disk' = Unlinked(disk, main.to)
     \/ Merging /\ \E f : IsFile(f) /\ disk' = Stored(disk, main.to, f)

LEMMA CallerChanges ==
  ASSUME IInv, ExactInv, CallerMoves
  PROVE  FilesInv' /\ PlanInv' /\ JobsInv' /\ HandsInv' /\ OthersInv' /\ (Apart' => Apart /\ SharesInv')
<1> USE DEF CallerMoves
<1>1. /\ main'.call = main.call /\ main'.mode = main.mode /\ main'.to = main.to
      /\ main'.groups = main.groups /\ main'.before = main.before
  BY MainFacts
<1>2. /\ Ordered' = Ordered /\ (Apart' <=> Apart) /\ (Merging' <=> Merging) /\ (HasPlan' <=> HasPlan)
      /\ \A k : Source(k)' = Source(k) /\ (Sound(k)' <=> Sound(k)) /\ Share(k)' = Share(k)
      /\ \A p : IsOutput(p)' <=> IsOutput(p)
  BY <1>1, SamePlan
<1>3. disk' # disk => Merging /\ IsOutput(main.to) /\ Elsewhere(main.to) /\ IsPath(main.to)
                      /\ (main.to \in DOMAIN disk' => IsFile(disk'[main.to]))
                      /\ DOMAIN disk' \in {DOMAIN disk \cup {main.to}, DOMAIN disk \ {main.to}}
  <2> SUFFICES ASSUME Merging,
                      \/ disk' = Unlinked(disk, main.to)
                      \/ \E f : IsFile(f) /\ disk' = Stored(disk, main.to, f)
               PROVE  IsOutput(main.to) /\ Elsewhere(main.to) /\ IsPath(main.to)
                      /\ (main.to \in DOMAIN disk' => IsFile(disk'[main.to]))
                      /\ DOMAIN disk' \in {DOMAIN disk \cup {main.to}, DOMAIN disk \ {main.to}}
    OBVIOUS
  <2>1. IsOutput(main.to)
    BY DEF IInv, OutputsInv
  <2>2. IsPath(main.to)
    BY <2>1 DEF IsOutput, ExactInv, PlanInv
  <2>3. Elsewhere(main.to) /\ (main.to \in DOMAIN disk' => IsFile(disk'[main.to]))
        /\ DOMAIN disk' \in {DOMAIN disk \cup {main.to}, DOMAIN disk \ {main.to}}
    <3>1. CASE disk' = Unlinked(disk, main.to)
      BY <3>1 DEF Elsewhere, Unlinked
    <3>2. CASE \E f : IsFile(f) /\ disk' = Stored(disk, main.to, f)
      BY <3>2 DEF Elsewhere, Stored
    <3> QED
      BY <3>1, <3>2
  <2> QED
    BY <2>1, <2>2, <2>3
<1>4. FilesInv'
  <2>1. IsFiniteSet(DOMAIN disk')
    <3>1. IsFiniteSet(DOMAIN disk)
      BY DEF ExactInv, FilesInv
    <3>2. IsFiniteSet(DOMAIN disk \cup {main.to}) /\ IsFiniteSet(DOMAIN disk \ {main.to})
      BY <3>1, FS_AddElement, FS_RemoveElement
    <3> QED
      BY <1>3, <3>1, <3>2
  <2>2. \A p \in DOMAIN disk' : IsPath(p) /\ IsFile(disk'[p])
    BY <1>3 DEF ExactInv, FilesInv, Elsewhere
  <2>3. Merging' /\ main'.pc \notin {"idle", "ended"} => scratch' = scratch /\ Merging
    BY <1>2
  <2> QED
    BY <1>1, <2>1, <2>2, <2>3 DEF ExactInv, FilesInv
<1>5. PlanInv'
  BY <1>1, <1>2 DEF ExactInv, PlanInv, Merging, HasPlan
<1>6. JobsInv'
  <2>1. HasPlan' => DOMAIN job' = DOMAIN Ordered'
    BY <1>2 DEF ExactInv, JobsInv
  <2>2. ASSUME NEW k \in DOMAIN job
        PROVE  /\ job'[k].from = Ordered'[k] /\ job'[k].part = Merging'
               /\ job'[k].to = IF Merging' THEN PartPath(k - 1) ELSE main'.groups[k].to
    <3>1. job'[k].from = job[k].from /\ job'[k].part = job[k].part /\ job'[k].to = job[k].to
      OBVIOUS
    <3>2. /\ job[k].from = Ordered[k] /\ job[k].part = Merging
          /\ job[k].to = IF Merging THEN PartPath(k - 1) ELSE main.groups[k].to
      BY DEF ExactInv, JobsInv
    <3>3. Merging' = Merging
      BY <1>1 DEF Merging
    <3> QED
      BY <1>1, <1>2, <3>1, <3>2, <3>3
  <2> QED
    BY <2>1, <2>2 DEF JobsInv
<1>7. HandsInv'
  <2> SUFFICES ASSUME NEW k \in DOMAIN job PROVE Hands(k)'
    BY DEF HandsInv
  <2>1. Hands(k)
    BY DEF ExactInv, HandsInv
  <2> QED
    BY <1>1, <2>1 DEF Hands, Carrying
<1>8. OthersInv'
  <2> SUFFICES ASSUME NEW p, ~IsOutput(p), p \in DOMAIN disk' \cup DOMAIN main.before PROVE AsBefore(p)'
    BY <1>1, <1>2 DEF OthersInv
  <2>1. (p \in DOMAIN disk' <=> p \in DOMAIN disk) /\ (p \in DOMAIN disk => disk'[p] = disk[p])
    BY <1>3 DEF Elsewhere
  <2>2. AsBefore(p)
    BY <2>1 DEF ExactInv, OthersInv
  <2> QED
    BY <1>1, <2>1, <2>2 DEF AsBefore, Exists
<1>9. ASSUME Apart PROVE SharesInv'
  <2> SUFFICES ASSUME NEW k \in DOMAIN job PROVE Shares(k)'
    BY DEF SharesInv
  <2>1. Shares(k) /\ (job[k].part <=> Merging)
    BY <1>9, WritesOutput DEF ExactInv, SharesInv
  <2>2. Source(k)' = Source(k) /\ (Sound(k)' <=> Sound(k)) /\ Share(k)' = Share(k)
    BY <1>2
  <2>3. job[k].pc = "opening" => scratch' = scratch
    BY DEF AllStopped, Settled
  <2>4. CASE job[k].part
    BY <2>1, <2>2, <2>3, <2>4 DEF Shares, Carrying
  <2>5. CASE ~job[k].part
    <3>1. disk' = disk /\ (AsBefore(job[k].to)' <=> AsBefore(job[k].to))
      BY <1>1, <1>3, <2>1, <2>5 DEF AsBefore, Exists
    <3>2. Landed(k, job[k].to)'
      BY <1>1, <2>1, <2>2, <2>5, <3>1 DEF Shares, Landed, Exists
    <3> QED
      BY <2>1, <2>2, <2>5, <3>2 DEF Shares, Carrying
  <2> QED
    BY <2>4, <2>5
<1> QED
  BY <1>2, <1>4, <1>5, <1>6, <1>7, <1>8, <1>9

\* What is left to show of a step of the call.
LEMMA CallerExact ==
  ASSUME IInv, ExactInv, CallerMoves, OkInv', Apart /\ Merging => MergedInv'
  PROVE  ExactInv'
<1>1. FilesInv' /\ PlanInv' /\ JobsInv' /\ HandsInv' /\ OthersInv' /\ (Apart' => Apart /\ SharesInv')
  BY CallerChanges
<1>2. Merging' <=> Merging
  BY MainFacts DEF CallerMoves
<1>3. ~Merging => MergedInv'
  BY <1>2 DEF MergedInv
<1> QED
  BY <1>1, <1>3 DEF ExactInv

\* Nobody has said that all is well who still works at it.
LEMMA NotYet ==
  ASSUME ExactInv, main.pc \in {"mapping", "filling", "stopping"}
  PROVE  ~main.ok
  BY DEF ExactInv, OkInv, Ended

LEMMA CollectExact == ASSUME IInv, ExactInv, Collect PROVE ExactInv'
<1> DEFINE n == main.collected
<1>1. /\ main.pc = "mapping" /\ n + 1 \in DOMAIN job
      /\ main' = [main EXCEPT !.collected = n + 1] /\ disk' = disk /\ job' = job /\ scratch' = scratch
  BY DEF Collect
<1>2. MainMoves /\ main'.pc = "mapping" /\ main'.ok = main.ok /\ main'.to = main.to
  BY <1>1 DEF IInv, TypeInv, MainMoves, CallFields
<1>3. CallerMoves
  BY <1>1, <1>2 DEF CallerMoves
<1>4. OkInv'
  BY <1>1, <1>2, NotYet DEF OkInv
<1>5. Apart /\ Merging => MergedInv'
  BY <1>1, <1>2 DEF ExactInv, MergedInv, Exists
<1> QED
  BY <1>3, <1>4, <1>5, CallerExact

LEMMA GiveUpExact == ASSUME IInv, ExactInv, GiveUp PROVE ExactInv'
<1>1. /\ main.pc = "mapping" /\ main' = [main EXCEPT !.pc = "stopping"] /\ disk' = disk /\ scratch' = scratch
      /\ job' = [k \in DOMAIN job |-> IF job[k].pc = "waiting" THEN [job[k] EXCEPT !.pc = "cancelled"] ELSE job[k]]
      /\ main.collected + 1 \in DOMAIN job
  BY DEF GiveUp
<1>2. MainMoves /\ main'.pc = "stopping" /\ main'.ok = main.ok /\ main'.to = main.to
  BY <1>1 DEF IInv, TypeInv, MainMoves, CallFields
<1>3. CallerMoves
  <2>1. HasPlan
    BY <1>1, Numbered
  <2>2. ASSUME NEW j \in DOMAIN job
        PROVE  /\ job'[j].from = job[j].from /\ job'[j].part = job[j].part /\ job'[j].to = job[j].to
               /\ job'[j].got = job[j].got /\ job'[j].sent = job[j].sent /\ job'[j].reader = job[j].reader
               /\ job'[j].pc = job[j].pc \/ (job[j].pc = "waiting" /\ job'[j].pc = "cancelled")
    BY <1>1 DEF IInv, TypeInv, JobFields
  <2>3. DOMAIN job' = DOMAIN job
    BY <1>1
  <2> QED
    BY <1>1, <1>2, <2>1, <2>2, <2>3 DEF CallerMoves
<1>4. OkInv'
  BY <1>1, <1>2, NotYet DEF OkInv
<1>5. Apart /\ Merging => MergedInv'
  BY <1>1, <1>2 DEF ExactInv, MergedInv, Exists
<1> QED
  BY <1>3, <1>4, <1>5, CallerExact

LEMMA StopExact == ASSUME IInv, ExactInv, Stop PROVE ExactInv'
<1>1. /\ main.pc = "stopping" /\ main' = [main EXCEPT !.pc = "cleaning"]
      /\ job' = job /\ disk' = disk /\ scratch' = scratch
  BY DEF Stop
<1>2. MainMoves /\ main'.pc = "cleaning" /\ main'.ok = main.ok /\ main'.to = main.to
  BY <1>1 DEF IInv, TypeInv, MainMoves, CallFields
<1>3. CallerMoves
  BY <1>1, <1>2 DEF CallerMoves
<1>4. OkInv'
  BY <1>1, <1>2, NotYet DEF OkInv
<1>5. Apart /\ Merging => MergedInv'
  BY <1>1, <1>2, NotYet DEF ExactInv, MergedInv, Exists
<1> QED
  BY <1>3, <1>4, <1>5, CallerExact

\* What a merge writes is a file.
LEMMA MergedFile ==
  ASSUME IInv, ExactInv, Merging, AllCollected, main.pc # "ended"
  PROVE  IsFile(Merged)
<1> DEFINE s == [j \in DOMAIN job |-> job[j].reader.rows]
<1>1. DOMAIN job = 1..Len(Ordered) /\ Len(Ordered) \in Nat \ {0}
  <2>1. HasPlan
    BY DEF HasPlan, Merging
  <2>2. Ordered \in Seq(Range(Ordered)) /\ Ordered # <<>> /\ DOMAIN job = DOMAIN Ordered
    BY <2>1 DEF ExactInv, PlanInv, JobsInv
  <2> QED
    BY <2>2, LenProperties, EmptySeq
<1>2. DOMAIN s = 1..Len(Ordered) /\ Len(s) = Len(Ordered)
  BY <1>1
<1>3. ASSUME NEW j \in DOMAIN s PROVE s[j] \in Seq(Rows)
  <2>1. j \in DOMAIN job /\ job[j].pc = "done" /\ (job[j].part <=> Merging) /\ Hands(j)
    BY <1>3, WritesOutput DEF AllCollected, IInv, ProgressInv, ExactInv, HandsInv
  <2>2. IsFile(job[j].reader)
    BY <2>1 DEF Hands
  <2> QED
    BY <2>2 DEF IsFile
<1> HIDE DEF s
<1>4. FlattenSeq(s) \in Seq(Rows)
  BY <1>1, <1>2, <1>3, FlatType
<1> QED
  BY <1>4, FileRecord DEF s, Merged

\* A merge that has come to an end, or has begun its output.
LEMMA MergeWrites ==
  ASSUME IInv, ExactInv, Merging, AllCollected, main.pc \in {"mapping", "filling"}, job' = job, scratch' = scratch,
         MainMoves, main'.collected = main.collected,
         \/ main'.pc = "filling" /\ main'.ok = main.ok /\ disk' = Stored(disk, main.to, Torn)
         \/ main'.pc = "cleaning" /\ main'.ok = main.ok /\ disk' = disk
         \/ main'.pc = "cleaning" /\ main'.ok = main.ok /\ disk' = Unlinked(disk, main.to)
         \/ main'.pc = "cleaning" /\ main'.ok = main.ok
            /\ \E f \in BrokenOff(Merged, main.to.ext, StreamsTo(main.to)) : disk' = Stored(disk, main.to, f)
         \/ main'.pc = "cleaning" /\ disk' = Stored(disk, main.to, Merged)
  PROVE  ExactInv'
<1>1. /\ IsFile(Merged) /\ IsFile(Torn)
      /\ \A f \in BrokenOff(Merged, main.to.ext, StreamsTo(main.to)) :
           IsFile(f) /\ (f = Torn \/ BeginsAs(f, Merged, main.to.ext, main.call.batches))
  BY MergedFile, TornIsFile, BreaksOff
<1>2. CallerMoves
  BY <1>1 DEF CallerMoves
<1>3. main'.to = main.to /\ (Merging' <=> Merging) /\ (AllCollected' <=> AllCollected) /\ HasPlan'
  BY MainFacts DEF AllCollected, HasPlan, Merging
<1>4. OkInv'
  BY <1>3, NotYet DEF OkInv
<1>5. ASSUME Apart PROVE MergedInv'
  <2>1. Merged = Promise(1) /\ Promise(1)' = Promise(1) /\ main'.call = main.call
    BY <1>5, MergedIs, SamePlan, MainFacts
  <2>2. /\ \A f : disk' = Stored(disk, main.to, f) => main.to \in DOMAIN disk' /\ disk'[main.to] = f
        /\ disk' = Unlinked(disk, main.to) => main.to \notin DOMAIN disk'
    BY DEF Stored, Unlinked
  <2>3. ~main.ok /\ MergedInv
    BY <1>5, NotYet DEF ExactInv
  <2>4. CASE /\ main'.pc = "cleaning" /\ main'.ok = main.ok
             /\ \E f \in BrokenOff(Merged, main.to.ext, StreamsTo(main.to)) : disk' = Stored(disk, main.to, f)
    <3>1. /\ main.to \in DOMAIN disk'
          /\ disk'[main.to] = Torn \/ BeginsAs(disk'[main.to], Merged, main.to.ext, main.call.batches)
      BY <1>1, <2>2, <2>4
    <3> QED
      BY <1>3, <2>1, <2>3, <2>4, <3>1 DEF MergedInv, Exists
  <2> QED
    BY <1>3, <2>1, <2>2, <2>3, <2>4 DEF MergedInv, Exists
<1> QED
  BY <1>2, <1>4, <1>5, CallerExact

LEMMA MergeExact == ASSUME IInv, ExactInv, Merge \/ FillMerged \/ MergeFails PROVE ExactInv'
<1>1. /\ main.pc \in {"mapping", "filling"} /\ Merging /\ AllCollected /\ job' = job /\ scratch' = scratch
  BY DEF Merge, FillMerged, MergeFails, Merging, IInv, ProgressInv, ScratchInv
<1>2. \/ main' = [main EXCEPT !.pc = "filling"] /\ disk' = Stored(disk, main.to, Torn)
      \/ main' = [main EXCEPT !.pc = "cleaning"] /\ disk' = disk
      \/ main' = [main EXCEPT !.pc = "cleaning"] /\ disk' = Unlinked(disk, main.to)
      \/ /\ main' = [main EXCEPT !.pc = "cleaning"]
         /\ \E f \in BrokenOff(Merged, main.to.ext, StreamsTo(main.to)) : disk' = Stored(disk, main.to, f)
      \/ main' = [main EXCEPT !.pc = "cleaning", !.ok = TRUE] /\ disk' = Stored(disk, main.to, Merged)
  BY DEF Merge, FillMerged, MergeFails
<1>3. DOMAIN main = CallFields
  BY DEF IInv, TypeInv
<1>4. /\ MainMoves /\ main'.collected = main.collected
      /\ \/ main'.pc = "filling" /\ main'.ok = main.ok /\ disk' = Stored(disk, main.to, Torn)
         \/ main'.pc = "cleaning" /\ main'.ok = main.ok /\ disk' = disk
         \/ main'.pc = "cleaning" /\ main'.ok = main.ok /\ disk' = Unlinked(disk, main.to)
         \/ main'.pc = "cleaning" /\ main'.ok = main.ok
            /\ \E f \in BrokenOff(Merged, main.to.ext, StreamsTo(main.to)) : disk' = Stored(disk, main.to, f)
         \/ main'.pc = "cleaning" /\ disk' = Stored(disk, main.to, Merged)
  BY <1>2, <1>3 DEF MainMoves, CallFields
<1> QED
  BY <1>1, <1>4, MergeWrites

LEMMA CleanUpExact == ASSUME IInv, ExactInv, CleanUp PROVE ExactInv'
<1>1. /\ main.pc = "cleaning" /\ main' = [main EXCEPT !.pc = "ended"] /\ disk' = disk
      /\ Merging => /\ scratch' = None
                    /\ job' = [j \in DOMAIN job |-> IF j <= main.collected THEN [job[j] EXCEPT !.reader = None]
                                                                       ELSE job[j]]
      /\ ~Merging => scratch' = scratch /\ job' = job
  BY DEF CleanUp, Merging
<1>2. MainMoves /\ main'.pc = "ended" /\ main'.ok = main.ok /\ main'.to = main.to /\ main'.collected = main.collected
  BY <1>1 DEF IInv, TypeInv, MainMoves, CallFields
<1>3. DOMAIN job' = DOMAIN job /\ AllStopped
  BY <1>1 DEF IInv, ProgressInv
<1>4. CallerMoves
  <2>1. ASSUME NEW j \in DOMAIN job
        PROVE  /\ job'[j].from = job[j].from /\ job'[j].part = job[j].part /\ job'[j].to = job[j].to
               /\ job'[j].got = job[j].got /\ job'[j].sent = job[j].sent /\ job'[j].pc = job[j].pc
               /\ job'[j].reader \in {job[j].reader, None}
    BY <1>1 DEF IInv, TypeInv, JobFields
  <2>2. HasPlan \/ job' = job
    BY <1>1 DEF HasPlan, Merging
  <2> QED
    BY <1>1, <1>2, <1>3, <2>1, <2>2 DEF CallerMoves
<1>5. OkInv'
  <2>1. (HasPlan' <=> HasPlan) /\ (AllCollected' <=> AllCollected)
    BY <1>2, <1>3, MainFacts DEF HasPlan, AllCollected
  <2> QED
    BY <1>1, <1>2, <2>1 DEF ExactInv, OkInv, Ended
<1>6. Apart /\ Merging => MergedInv'
  <2>1. Promise(1)' = Promise(1)
    BY <1>2, MainFacts, SamePlan
  <2> QED
    BY <1>1, <1>2, <2>1 DEF ExactInv, MergedInv, Exists
<1> QED
  BY <1>4, <1>5, <1>6, CallerExact

LEMMA ReturnExact == ASSUME IInv, ExactInv, Return PROVE ExactInv'
<1>1. /\ main.pc = "mapping" /\ main.mode = "one-to-one" /\ AllCollected /\ disk' = disk /\ scratch' = scratch
      /\ main' = [main EXCEPT !.pc = "ended", !.ok = TRUE]
      /\ job' = [j \in DOMAIN job |-> [job[j] EXCEPT !.reader = None]] \/ job' = job
  BY DEF Return
<1>2. MainMoves /\ main'.pc = "ended" /\ main'.collected = main.collected
  BY <1>1 DEF IInv, TypeInv, MainMoves, CallFields
<1>3. DOMAIN job' = DOMAIN job
  BY <1>1
<1>4. CallerMoves
  <2>1. ASSUME NEW j \in DOMAIN job
        PROVE  /\ job'[j].from = job[j].from /\ job'[j].part = job[j].part /\ job'[j].to = job[j].to
               /\ job'[j].got = job[j].got /\ job'[j].sent = job[j].sent /\ job'[j].pc = job[j].pc
               /\ job'[j].reader \in {job[j].reader, None}
    BY <1>1 DEF IInv, TypeInv, JobFields
  <2>2. HasPlan
    BY <1>1 DEF HasPlan
  <2> QED
    BY <1>1, <1>2, <1>3, <2>1, <2>2 DEF CallerMoves
<1>5. OkInv'
  BY <1>1, <1>2, <1>3, MainFacts DEF OkInv, AllCollected, HasPlan
<1>6. ~Merging
  BY <1>1 DEF Merging
<1> QED
  BY <1>4, <1>5, <1>6, CallerExact

------------------------------------------------------------------------------
(* The plan *)

\* Paths whose numbers differ have an order by number, with each of them in it.
LEMMA OrderExists ==
  ASSUME NEW M, IsFiniteSet(M), \A p \in M : p.stem[2] \in Nat,
         \A p, q \in M : p.stem[2] = q.stem[2] => p = q
  PROVE  /\ NaturalOrder(M) \in Seq(M)
         /\ \A i, j \in DOMAIN NaturalOrder(M) : i < j => NaturalOrder(M)[i].stem[2] < NaturalOrder(M)[j].stem[2]
<1> DEFINE n == Cardinality(M)
           Sorts(s) == \A i, j \in DOMAIN s : i < j => s[i].stem[2] < s[j].stem[2]
<1>1. n \in Nat /\ ExistsBijection(1..n, M)
  BY FS_CardinalityType
<1> HIDE DEF n
<1>2. PICK b \in [1..n -> M] : \A i, j \in 1..n : b[i] = b[j] => i = j
  BY <1>1 DEF ExistsBijection, Bijection, Injection, IsInjective
<1>3. \E s \in [1..n -> M] : Sorts(s)
  <2> DEFINE num == [i \in 1..n |-> b[i].stem[2]]
  <2>1. num \in [1..n -> Int] /\ \A i, j \in 1..n : num[i] = num[j] => i = j
    <3>1. \A i \in 1..n : b[i] \in M /\ b[i].stem[2] \in Nat
      BY <1>2
    <3>2. \A i, j \in 1..n : b[i].stem[2] = b[j].stem[2] => i = j
      BY <1>2, <3>1
    <3> QED
      BY <3>1, <3>2
  <2>2. \A i \in 1..n : num[i] = b[i].stem[2]
    OBVIOUS
  <2> HIDE DEF num
  <2>3. PICK p \in [1..n -> 1..n] : \A i, j \in 1..n : i < j => num[p[i]] < num[p[j]]
    BY <1>1, <2>1, SortingPermutation
  <2> DEFINE s == [i \in 1..n |-> b[p[i]]]
  <2>4. s \in [1..n -> M] /\ \A i \in 1..n : s[i] = b[p[i]] /\ p[i] \in 1..n
    BY <1>2, <2>3
  <2> HIDE DEF s
  <2>5. DOMAIN s = 1..n /\ \A i \in 1..n : s[i].stem[2] = num[p[i]]
    BY <2>2, <2>4
  <2>6. Sorts(s)
    BY <2>3, <2>5
  <2> QED
    BY <2>4, <2>6
<1>4. NaturalOrder(M) \in [1..n -> M] /\ Sorts(NaturalOrder(M))
  <2>1. NaturalOrder(M) = CHOOSE s \in [1..n -> M] : Sorts(s)
    BY DEF NaturalOrder, n
  <2> HIDE DEF Sorts
  <2> QED
    BY <1>3, <2>1
<1> QED
  BY <1>1, <1>4

\* What a pattern matches is a few paths, of different numbers.
LEMMA MatchesAre ==
  ASSUME ExactInv, NEW pattern
  PROVE  LET M == Matches(DOMAIN disk, pattern)
         IN  /\ IsFiniteSet(M) /\ \A p \in M : IsPath(p)
             /\ NaturalOrder(M) \in Seq(M)
<1> DEFINE M == Matches(DOMAIN disk, pattern)
<1>1. M \in SUBSET DOMAIN disk
  BY DEF Matches
<1>2. IsFiniteSet(M) /\ \A p \in M : IsPath(p)
  BY <1>1, FS_Subset DEF ExactInv, FilesInv
<1>3. \A p \in M : p.stem[2] \in Nat
  BY <1>2 DEF IsPath, IsStem
<1>4. ASSUME NEW p \in M, NEW q \in M, p.stem[2] = q.stem[2] PROVE p = q
  <2>1. p.dir = q.dir /\ p.stem[1] = q.stem[1] /\ p.ext = q.ext
    BY DEF Matches
  <2>2. /\ p = [dir |-> p.dir, stem |-> p.stem, ext |-> p.ext] /\ p.stem = <<p.stem[1], p.stem[2]>>
        /\ q = [dir |-> q.dir, stem |-> q.stem, ext |-> q.ext] /\ q.stem = <<q.stem[1], q.stem[2]>>
    BY <1>2 DEF IsPath, IsStem
  <2>3. p.stem = q.stem
    BY <1>4, <2>1, <2>2, Zenon
  <2> QED
    BY <2>1, <2>2, <2>3, Zenon
<1> HIDE DEF M
<1>5. NaturalOrder(M) \in Seq(M)
  BY <1>2, <1>3, <1>4, OrderExists
<1> QED
  BY <1>2, <1>5 DEF M

\* The paths a call may take its inputs from.
Known(c) == {p \in DOMAIN disk \cup {c.source[k].path : k \in DOMAIN c.source} : IsPath(p)}

LEMMA InputsAre ==
  ASSUME ExactInv, NEW c \in Calls, Inputs(c) # <<>>
  PROVE  Inputs(c) \in Seq(Known(c))
<1> DEFINE s == [k \in DOMAIN c.source |-> Expanded(c.source[k])]
<1>1. /\ DOMAIN c.source = 1..Len(c.source) /\ Len(c.source) \in Nat
      /\ \A k \in DOMAIN c.source : c.source[k].pattern = None => IsPath(c.source[k].path)
  BY CallsAssumption
<1>2. DOMAIN s = 1..Len(s) /\ Len(s) = Len(c.source)
  BY <1>1
<1>3. ASSUME NEW k \in DOMAIN c.source PROVE Expanded(c.source[k]) \in Seq(Known(c))
  <2> DEFINE item == c.source[k]
  <2>1. CASE item.pattern = None
    <3>1. item.path \in Known(c)
      BY <1>1, <2>1 DEF Known
    <3>2. Expanded(item) = <<item.path>>
      BY <2>1 DEF Expanded
    <3> QED
      BY <3>1, <3>2
  <2>2. CASE item.pattern # None
    <3> DEFINE M == Matches(DOMAIN disk, item.pattern)
    <3>1. NaturalOrder(M) \in Seq(M) /\ \A p \in M : IsPath(p)
      BY MatchesAre
    <3>2. M \subseteq Known(c)
      BY <3>1 DEF Known, Matches
    <3>3. Expanded(item) = NaturalOrder(M)
      BY <2>2 DEF Expanded
    <3> HIDE DEF M
    <3> QED
      BY <3>1, <3>2, <3>3
  <2> QED
    BY <2>1, <2>2
<1>4. Inputs(c) = FlattenSeq(s)
  BY DEF Inputs
<1>5. Len(s) # 0
  <2>1. Len(s) = 0 => s = <<>>
    BY <1>1, <1>2
  <2>2. Len(s) = 0 => FlattenSeq(s) = s
    BY DEF FlattenSeq
  <2> QED
    BY <1>4, <2>1, <2>2
<1>6. \A k \in DOMAIN s : s[k] \in Seq(Known(c))
  BY <1>3
<1> HIDE DEF s
<1>7. FlattenSeq(s) \in Seq(Known(c))
  BY <1>1, <1>2, <1>5, <1>6, FlatType
<1> QED
  BY <1>4, <1>7

\* The inputs of a plan are those it lists of the files there are.
LEMMA InputsListed ==
  ASSUME NEW c
  PROVE  Inputs(c) = ListedInputs(c, disk)
<1>1. ASSUME NEW k \in DOMAIN c.source PROVE Expanded(c.source[k]) = Listed(c.source[k], disk)
  BY DEF Expanded, Listed, NaturalOrder
<1>2. [k \in DOMAIN c.source |-> Expanded(c.source[k])] = [i \in DOMAIN c.source |-> Listed(c.source[i], disk)]
  BY <1>1
<1> QED
  BY <1>2, Zenon DEF Inputs, ListedInputs

\* An output is a path.
LEMMA OutputIsPath ==
  ASSUME NEW c \in Calls, NEW p, IsPath(p), NEW i \in Nat, NEW ext
  PROVE  IsPath(OutputPath(c, p, i, ext))
<1> DEFINE stem == IF c.dest # None
                   THEN IF c.dest.field = "index" THEN <<c.dest.name, i>> ELSE p.stem
                   ELSE IF p.stem \in DOMAIN c.rename THEN c.rename[p.stem] ELSE p.stem
           dir == IF c.outdir # None THEN c.outdir ELSE IF c.dest # None THEN c.dest.dir ELSE p.dir
<1>1. p = [dir |-> p.dir, stem |-> p.stem, ext |-> p.ext] /\ IsStem(p.stem)
  BY DEF IsPath
<1>2. OutputPath(c, p, i, ext) = [dir |-> dir, stem |-> stem, ext |-> ext]
  <2> DEFINE d == p.dir
             t == p.stem
             e == p.ext
  <2>1. p = [dir |-> d, stem |-> t, ext |-> e]
    BY <1>1
  <2>2. stem = IF c.dest # None
               THEN IF c.dest.field = "index" THEN <<c.dest.name, i>> ELSE t
               ELSE IF t \in DOMAIN c.rename THEN c.rename[t] ELSE t
    OBVIOUS
  <2>3. dir = IF c.outdir # None THEN c.outdir ELSE IF c.dest # None THEN c.dest.dir ELSE d
    OBVIOUS
  <2> HIDE DEF d, t, e, stem, dir
  <2>4. CASE c.dest # None
    BY <2>1, <2>2, <2>3, <2>4 DEF OutputPath
  <2>5. CASE c.dest = None
    BY <2>1, <2>2, <2>3, <2>5 DEF OutputPath
  <2> QED
    BY <2>4, <2>5
<1>3. IsStem(stem)
  <2>1. \A x \in DOMAIN c.rename : IsStem(c.rename[x])
    BY CallsAssumption
  <2>2. IsStem(<<c.dest.name, i>>)
    BY DEF IsStem
  <2> QED
    BY <1>1, <2>1, <2>2
<1> HIDE DEF stem, dir
<1> QED
  BY <1>2, <1>3 DEF IsPath

\* A plan that is not refused takes every input into one output, or each to its own.
LEMMA PlanIs ==
  ASSUME ExactInv, NEW c \in Calls, Planned(c).mode # "refused"
  PROVE  /\ Inputs(c) # <<>>
         /\ \/ /\ c.literal # None /\ Planned(c).mode = "merge"
               /\ Planned(c).groups = <<[from |-> Inputs(c), to |-> c.literal]>>
            \/ /\ Planned(c).mode = "one-to-one"
               /\ DOMAIN Planned(c).groups = DOMAIN Inputs(c)
               /\ \A k \in DOMAIN Inputs(c) :
                    /\ Planned(c).groups[k].from = <<Inputs(c)[k]>>
                    /\ \E ext : Planned(c).groups[k].to = OutputPath(c, Inputs(c)[k], k - 1, ext)
               /\ ~(Cardinality({Planned(c).groups[k].to : k \in DOMAIN Planned(c).groups}) < Len(Planned(c).groups))
<1> DEFINE inputs == Inputs(c)
           ext == TargetExtension(c, inputs)
           groups == [k \in DOMAIN inputs |-> [from |-> <<inputs[k]>>, to |-> OutputPath(c, inputs[k], k - 1, ext)]]
<1>1. /\ inputs # <<>> \/ Planned(c) = Refused
      /\ \/ Planned(c) = Refused
         \/ c.literal # None /\ Planned(c) = [mode |-> "merge", groups |-> <<[from |-> inputs, to |-> c.literal]>>]
         \/ /\ Planned(c) = [mode |-> "one-to-one", groups |-> groups]
            /\ ~(Cardinality({groups[k].to : k \in DOMAIN groups}) < Len(groups))
  BY Zenon DEF Planned
<1>2. Planned(c) # Refused
  BY DEF Refused
<1>3. /\ DOMAIN groups = DOMAIN inputs
      /\ \A k \in DOMAIN inputs : groups[k].from = <<inputs[k]>> /\ groups[k].to = OutputPath(c, inputs[k], k - 1, ext)
  OBVIOUS
<1> HIDE DEF groups, ext
<1>4. CASE c.literal # None /\ Planned(c) = [mode |-> "merge", groups |-> <<[from |-> inputs, to |-> c.literal]>>]
  BY <1>1, <1>2, <1>4
<1>5. CASE /\ Planned(c) = [mode |-> "one-to-one", groups |-> groups]
           /\ ~(Cardinality({groups[k].to : k \in DOMAIN groups}) < Len(groups))
  <2>1. Planned(c).mode = "one-to-one" /\ Planned(c).groups = groups
    BY <1>5
  <2> QED
    BY <1>1, <1>2, <1>3, <1>5, <2>1, Zenon
<1> QED
  BY <1>1, <1>2, <1>4, <1>5

\* No more places than values, no value twice.
LEMMA NoneTwice ==
  ASSUME NEW n \in Nat, NEW f, ~(Cardinality({f[k] : k \in 1..n}) < n)
  PROVE  \A k, l \in 1..n : f[k] = f[l] => k = l
<1> DEFINE T == {f[k] : k \in 1..n}
           g == [k \in 1..n |-> f[k]]
<1>1. IsFiniteSet(1..n) /\ Cardinality(1..n) = n
  BY FS_Interval
<1>2. g \in Surjection(1..n, T) /\ \A k \in 1..n : g[k] = f[k]
  BY DEF Surjection
<1> HIDE DEF g
<1>3. IsFiniteSet(T) /\ Cardinality(T) <= n /\ (Cardinality(T) = n <=> g \in Injection(1..n, T))
  BY <1>1, <1>2, FS_Surjection
<1>4. Cardinality(T) \in Nat
  BY <1>3, FS_CardinalityType
<1>5. g \in Injection(1..n, T)
  <2>1. ~(Cardinality(T) < n)
    OBVIOUS
  <2> HIDE DEF T
  <2> QED
    BY <1>3, <1>4, <2>1
<1> QED
  BY <1>2, <1>5 DEF Injection, IsInjective

------------------------------------------------------------------------------
(* Where a call begins *)

\* Of a call that has no plan there is nothing to show.
LEMMA NothingPlanned ==
  FilesInv /\ ~HasPlan /\ main.groups = <<>> /\ job = <<>> /\ main.before = disk /\ (Ended \/ ~main.ok)
  => ExactInv
<1> SUFFICES ASSUME FilesInv, ~HasPlan, main.groups = <<>>, job = <<>>, main.before = disk, Ended \/ ~main.ok
             PROVE  ExactInv
  OBVIOUS
<1>1. DOMAIN main.groups = {} /\ DOMAIN job = {}
  BY NoJobs
<1>2. ~Merging
  BY DEF HasPlan, Merging
<1>3. Range(main.groups) = {}
  BY <1>1 DEF Range
<1>4. PlanInv
  <2>1. ~(main.mode = "one-to-one")
    BY DEF HasPlan
  <2> QED
    BY <1>2, <1>3, <2>1, Zenon DEF PlanInv
<1>5. JobsInv /\ HandsInv /\ SharesInv
  BY <1>1, Zenon DEF JobsInv, HandsInv, SharesInv
<1>6. OthersInv
  BY DEF OthersInv, AsBefore, Exists
<1>7. OkInv /\ MergedInv
  BY <1>2, Zenon DEF OkInv, MergedInv
<1> QED
  BY <1>4, <1>5, <1>6, <1>7 DEF ExactInv

LEMMA InitExact == ASSUME Init PROVE ExactInv
<1>1. /\ main.pc = "idle" /\ main.mode \notin {"merge", "one-to-one"} /\ main.groups = <<>>
      /\ main.before = disk /\ ~main.ok /\ job = <<>> /\ disk = Files
  BY DEF Init, NoCall
<1>2. ~HasPlan /\ ~Merging
  BY <1>1 DEF HasPlan, Merging
<1>3. FilesInv
  BY <1>1, <1>2, FilesAssumption DEF FilesInv
<1> QED
  BY <1>1, <1>2, <1>3, NothingPlanned

LEMMA BeginNothingExact == ASSUME IInv, ExactInv, NEW c \in Calls, BeginNothing(c) PROVE ExactInv'
<1>1. job' = <<>> /\ disk' = disk /\ scratch' = scratch
  BY DEF BeginNothing
<1>2. /\ main'.pc = "ended" /\ main'.mode \notin {"merge", "one-to-one"} /\ main'.groups = <<>>
      /\ main'.before = disk
  BY DEF BeginNothing, NoCall
<1>3. ~HasPlan' /\ ~Merging'
  BY <1>2 DEF HasPlan, Merging
<1>4. FilesInv'
  BY <1>1, <1>2, <1>3 DEF ExactInv, FilesInv
<1>5. (FilesInv /\ ~HasPlan /\ main.groups = <<>> /\ job = <<>> /\ main.before = disk /\ (Ended \/ ~main.ok)
       => ExactInv)'
  BY NothingPlanned, PTL
<1> QED
  BY <1>1, <1>2, <1>3, <1>4, <1>5 DEF Ended

LEMMA BeginMergeExact == ASSUME IInv, ExactInv, NEW c \in Calls, BeginMerge(c) PROVE ExactInv'
<1> DEFINE plan == Planned(c)
           all == Inputs(c)
           to == c.literal
<1>1. /\ plan.mode # "refused" /\ Merges(plan) /\ main' = Called(c, plan)
      /\ disk' = Unlinked(disk, plan.groups[1].to)
      /\ job' = [k \in DOMAIN plan.groups[1].from |->
                   Waiting(plan.groups[1].from[k], PartPath(k - 1), TRUE)]
      /\ scratch' = [p \in {} |-> Torn]
  BY DEF BeginMerge, Accepted
<1>2. all # <<>> /\ to # None /\ plan.groups = <<[from |-> all, to |-> to]>>
  BY <1>1, PlanIs DEF Merges
<1>3. all \in Seq(Known(c)) /\ all = ListedInputs(c, disk) /\ IsPath(to)
  BY <1>2, InputsAre, InputsListed, CallsAssumption
<1>4. /\ main'.pc = "mapping" /\ main'.call = c /\ main'.mode = "merge" /\ main'.to = to
      /\ main'.groups = <<[from |-> all, to |-> to]>> /\ main'.before = disk /\ main'.ok = FALSE
  <2>1. plan.groups[1].to = to
    BY <1>2
  <2>2. Called(c, plan).ok = FALSE
    BY DEF Called, NoCall
  <2> QED
    BY <1>1, <1>2, <2>1, <2>2, CalledFacts
<1>5. /\ disk' = Unlinked(disk, to) /\ DOMAIN job' = DOMAIN all
      /\ \A k \in DOMAIN all : job'[k] = Waiting(all[k], PartPath(k - 1), TRUE)
  <2>1. plan.groups[1].to = to /\ plan.groups[1].from = all
    BY <1>2
  <2> QED
    BY <1>1, <2>1, Zenon
<1> HIDE DEF plan, all, to
<1>6. Ordered' = all /\ Merging' /\ HasPlan'
  BY <1>3, <1>4 DEF Ordered, Merging, HasPlan
<1>7. DOMAIN disk' = DOMAIN disk \ {to} /\ \A q \in DOMAIN disk' : disk'[q] = disk[q]
  BY <1>5 DEF Unlinked
<1>8. FilesInv'
  <2>1. IsFiniteSet(DOMAIN disk')
    BY <1>7, FS_RemoveElement DEF ExactInv, FilesInv
  <2>2. DOMAIN scratch' = {}
    BY <1>1
  <2> QED
    BY <1>4, <1>7, <2>1, <2>2 DEF ExactInv, FilesInv
<1>9. all \in Seq(Range(all))
  <2>1. DOMAIN all = 1..Len(all) /\ Len(all) \in Nat
    BY <1>3, LenProperties
  <2> QED
    BY <1>3, <2>1 DEF Range
<1>10. \A g \in Range(main'.groups) : g.to = to
  <2> DEFINE g == [from |-> all, to |-> to]
  <2>1. main'.groups = <<g>> /\ g.to = to
    BY <1>4
  <2> HIDE DEF g
  <2> QED
    BY <2>1 DEF Range
<1>11. PlanInv'
  BY <1>2, <1>3, <1>4, <1>6, <1>9, <1>10 DEF PlanInv, all, Merging, HasPlan
<1>12. ASSUME NEW j \in DOMAIN job'
       PROVE  /\ job'[j].pc = "waiting" /\ job'[j].from = all[j] /\ job'[j].to = PartPath(j - 1)
              /\ job'[j].part = TRUE /\ job'[j].sent = 0 /\ job'[j].reader = None
  <2> DEFINE from == all[j]
             to2 == PartPath(j - 1)
  <2>1. job'[j] = Waiting(from, to2, TRUE)
    BY <1>5
  <2> HIDE DEF from, to2
  <2> QED
    BY <2>1 DEF Waiting, from, to2
<1>13. JobsInv'
  BY <1>5, <1>6, <1>12 DEF JobsInv
<1>14. HandsInv'
  BY <1>12 DEF HandsInv, Hands, Carrying
<1>15. OthersInv'
  <2>1. IsOutput(to)'
    <3> DEFINE g == [from |-> all, to |-> to]
    <3>1. main'.groups = <<g>> /\ g.to = to
      BY <1>4
    <3> HIDE DEF g
    <3> QED
      BY <3>1 DEF IsOutput, Range
  <2> QED
    BY <1>4, <1>7, <2>1 DEF OthersInv, AsBefore, Exists
<1>16. OkInv'
  BY <1>4 DEF OkInv
<1>17. SharesInv'
  BY <1>12 DEF SharesInv, Shares, Carrying
<1>18. MergedInv'
  BY <1>4, <1>7 DEF MergedInv, Exists
<1> QED
  BY <1>8, <1>11, <1>13, <1>14, <1>15, <1>16, <1>17, <1>18 DEF ExactInv

LEMMA BeginEachExact == ASSUME IInv, ExactInv, NEW c \in Calls, BeginEach(c) PROVE ExactInv'
<1> DEFINE plan == Planned(c)
           all == Inputs(c)
<1>1. /\ plan.mode # "refused" /\ ~Merges(plan) /\ main' = Called(c, plan)
      /\ job' = [k \in DOMAIN plan.groups |-> Waiting(plan.groups[k].from[1], plan.groups[k].to, FALSE)]
      /\ disk' = disk /\ scratch' = scratch
  BY DEF BeginEach, Accepted
<1>2. all \in Seq(Known(c)) /\ all = ListedInputs(c, disk) /\ all # <<>>
  BY <1>1, PlanIs, InputsAre, InputsListed
<1>3. DOMAIN all = 1..Len(all) /\ Len(all) \in Nat \ {0} /\ all \in Seq(Range(all))
  <2> HIDE DEF all
  <2>1. DOMAIN all = 1..Len(all) /\ Len(all) \in Nat \ {0}
    BY <1>2, LenProperties, EmptySeq
  <2> QED
    BY <1>2, <2>1 DEF Range
<1>4. /\ DOMAIN plan.groups = DOMAIN all
      /\ \A k \in DOMAIN plan.groups : plan.groups[k].from = <<all[k]>> /\ IsPath(plan.groups[k].to)
      /\ \A k, l \in DOMAIN plan.groups : plan.groups[k].to = plan.groups[l].to => k = l
  <2>1. CASE plan.mode = "merge"
    <3> DEFINE g == [from |-> all, to |-> c.literal]
    <3>1. plan.groups = <<g>> /\ IsPath(c.literal) /\ g.from = all /\ g.to = c.literal
      BY <1>1, <2>1, PlanIs, CallsAssumption
    <3> HIDE DEF plan, all, g
    <3>2. DOMAIN plan.groups = {1} /\ plan.groups[1] = g
      BY <3>1
    <3>3. Len(all) = 1
      <4>1. ~(Len(all) > 1)
        BY <1>1, <2>1, <3>1, <3>2 DEF Merges
      <4> QED
        BY <1>3, <4>1
    <3>4. all = <<all[1]>> /\ DOMAIN all = {1}
      <4>1. DOMAIN all = {1}
        BY <1>3, <3>3
      <4>2. all = [i \in 1..1 |-> all[i]]
        BY <1>2, <3>3, LenProperties
      <4> QED
        BY <4>1, <4>2
    <3> QED
      BY <3>1, <3>2, <3>4
  <2>2. CASE plan.mode # "merge"
    <3>1. /\ DOMAIN plan.groups = DOMAIN all
          /\ \A k \in DOMAIN all : /\ plan.groups[k].from = <<all[k]>>
                                   /\ \E ext : plan.groups[k].to = OutputPath(c, all[k], k - 1, ext)
          /\ ~(Cardinality({plan.groups[k].to : k \in DOMAIN plan.groups}) < Len(plan.groups))
      BY <1>1, <2>2, PlanIs
    <3> HIDE DEF plan, all
    <3>2. ASSUME NEW k \in DOMAIN all PROVE IsPath(plan.groups[k].to)
      <4>1. all[k] \in Known(c) /\ k - 1 \in Nat
        BY <1>2, <1>3
      <4>2. IsPath(all[k])
        BY <4>1 DEF Known
      <4>3. PICK ext : plan.groups[k].to = OutputPath(c, all[k], k - 1, ext)
        BY <3>1
      <4> QED
        BY <4>1, <4>2, <4>3, OutputIsPath
    <3>3. \A k, l \in DOMAIN plan.groups : plan.groups[k].to = plan.groups[l].to => k = l
      <4> DEFINE f == [k \in DOMAIN all |-> plan.groups[k].to]
                 n == Len(all)
      <4>1. /\ DOMAIN all = 1..n /\ Len(plan.groups) = n /\ n \in Nat
            /\ \A k \in 1..n : f[k] = plan.groups[k].to
        BY <1>3, <3>1
      <4> HIDE DEF f, n
      <4>2. {f[k] : k \in 1..n} = {plan.groups[k].to : k \in DOMAIN plan.groups}
        BY <3>1, <4>1
      <4>3. ~(Cardinality({f[k] : k \in 1..n}) < n)
        BY <3>1, <4>1, <4>2
      <4>4. \A k, l \in 1..n : f[k] = f[l] => k = l
        BY <4>1, <4>3, NoneTwice
      <4> QED
        BY <3>1, <4>1, <4>4
    <3> QED
      BY <3>1, <3>2, <3>3
  <2> QED
    BY <2>1, <2>2
<1>5. /\ main'.pc = "mapping" /\ main'.call = c /\ main'.mode = "one-to-one"
      /\ main'.groups = plan.groups /\ main'.before = disk /\ main'.ok = FALSE
  <2>1. Called(c, plan).ok = FALSE
    BY DEF Called, NoCall
  <2> QED
    BY <1>1, <2>1, CalledFacts
<1>6. /\ DOMAIN job' = DOMAIN all
      /\ \A k \in DOMAIN all : job'[k] = Waiting(plan.groups[k].from[1], plan.groups[k].to, FALSE)
  BY <1>1, <1>4, Zenon
<1> HIDE DEF plan, all
<1>7. Ordered' = all /\ ~Merging' /\ HasPlan'
  BY <1>2, <1>5 DEF Ordered, Merging, HasPlan
<1>8. FilesInv'
  BY <1>1, <1>5, <1>7 DEF ExactInv, FilesInv
<1>9. PlanInv'
  <2>1. \A g \in Range(main'.groups) : IsPath(g.to)
    BY <1>4, <1>5 DEF Range
  <2> QED
    BY <1>2, <1>3, <1>4, <1>5, <1>7, <2>1 DEF PlanInv, Merging, HasPlan
<1>10. ASSUME NEW j \in DOMAIN job'
       PROVE  /\ job'[j].pc = "waiting" /\ job'[j].from = all[j] /\ job'[j].to = plan.groups[j].to
              /\ job'[j].part = FALSE /\ job'[j].sent = 0 /\ job'[j].reader = None
  <2>1. j \in DOMAIN all /\ plan.groups[j].from[1] = all[j]
    BY <1>4, <1>6
  <2> DEFINE from == all[j]
             to == plan.groups[j].to
  <2>2. job'[j] = Waiting(from, to, FALSE)
    BY <1>6, <2>1
  <2> HIDE DEF from, to
  <2> QED
    BY <2>2 DEF Waiting, from, to
<1>11. JobsInv'
  <2>1. Merging' = FALSE
    BY <1>7 DEF Merging
  <2> QED
    BY <1>5, <1>6, <1>7, <1>10, <2>1 DEF JobsInv
<1>12. HandsInv'
  BY <1>10 DEF HandsInv, Hands, Carrying
<1>13. OthersInv'
  BY <1>1, <1>5 DEF OthersInv, AsBefore, Exists
<1>14. OkInv'
  BY <1>5 DEF OkInv
<1>15. SharesInv'
  <2>1. \A p : AsBefore(p)'
    BY <1>1, <1>5 DEF AsBefore, Exists
  <2> QED
    BY <1>10, <2>1 DEF SharesInv, Shares, Carrying, Landed
<1>16. MergedInv'
  BY <1>7 DEF MergedInv
<1> QED
  BY <1>8, <1>9, <1>11, <1>12, <1>13, <1>14, <1>15, <1>16 DEF ExactInv

LEMMA NextExact == ASSUME IInv, ExactInv, [Next]_vars PROVE ExactInv'
<1>1. ASSUME NEW c \in Calls, BeginNothing(c) \/ BeginMerge(c) \/ BeginEach(c) PROVE ExactInv'
  BY <1>1, BeginNothingExact, BeginMergeExact, BeginEachExact
<1>2. ASSUME NEW j \in DOMAIN job, Working(j) \/ JobFails(j) PROVE ExactInv'
  BY <1>2, StartExact, PrepareExact, ReadExact, WriteExact, FillExact, StreamBatchExact,
     OpenResultExact, JobFailsExact DEF Working
<1>3. ASSUME Calling \/ MergeFails PROVE ExactInv'
  BY <1>3, CollectExact, GiveUpExact, StopExact, MergeExact, CleanUpExact, ReturnExact DEF Calling
<1>4. CASE UNCHANGED vars
  <2>1. disk' = disk /\ main' = main /\ job' = job /\ scratch' = scratch
    BY <1>4 DEF vars
  <2>2. SharesInv => SharesInv'
    BY <2>1, SameShare, SamePlan DEF SharesInv, Shares, Landed, AsBefore, Exists, Carrying
  <2>3. MergedInv => MergedInv'
    BY <2>1, SamePlan DEF MergedInv, Merging, Exists
  <2>4. (Apart' <=> Apart) /\ Ordered' = Ordered /\ \A p : IsOutput(p)' <=> IsOutput(p)
    BY <2>1, SamePlan
  <2>5. FilesInv' /\ OkInv' /\ HandsInv'
    BY <2>1 DEF ExactInv, FilesInv, OkInv, HandsInv, Hands, Carrying, Merging, HasPlan, AllCollected, Ended
  <2>6. PlanInv' /\ JobsInv' /\ OthersInv'
    BY <2>1, <2>4 DEF ExactInv, PlanInv, JobsInv, OthersInv, Merging, HasPlan, AsBefore, Exists
  <2> QED
    BY <2>2, <2>3, <2>4, <2>5, <2>6 DEF ExactInv
<1> QED
  BY <1>1, <1>2, <1>3, <1>4 DEF Next

\* What was promised of one input.
LEMMA PromiseOne ==
  ASSUME ExactInv, main.mode = "one-to-one", NEW k \in DOMAIN Ordered, Sound(k)
  PROVE  Promise(k) = Share(k)
<1> DEFINE f == Source(k)
           from == [i \in 1..1 |-> f]
           rows == [i \in DOMAIN from |-> from[i].rows]
           cols == IF main.call.columns # None THEN main.call.columns
                   ELSE {x \in from[1].cols : \A i \in DOMAIN from : x \in from[i].cols}
<1>1. Promise(k) = File(FlattenSeq(rows), cols)
  <2>1. Promise(k) = Promised(main.call, FALSE, main.before, k)
    BY DEF Promise
  <2>2. Promised(main.call, FALSE, main.before, k) = File(FlattenSeq(rows), cols)
    BY DEF Promised, Ordered, Source
  <2> QED
    BY <2>1, <2>2
<1>2. IsFile(f) /\ f.whole
  BY DEF Sound, Has, Source, ExactInv, FilesInv
<1>3. Share(k) = File(f.rows, IF main.call.columns = None THEN f.cols ELSE main.call.columns)
  BY <1>2, ProjectionIs DEF Share
<1> HIDE DEF f
<1>4. rows = <<f.rows>>
  OBVIOUS
<1>5. FlattenSeq(rows) = f.rows
  BY <1>4, FlatOne
<1>6. cols = IF main.call.columns = None THEN f.cols ELSE main.call.columns
  <2>1. DOMAIN from = {1} /\ from[1] = f
    OBVIOUS
  <2>2. {x \in from[1].cols : \A i \in DOMAIN from : x \in from[i].cols} = f.cols
    BY <2>1
  <2> QED
    BY <2>2
<1> QED
  BY <1>1, <1>3, <1>5, <1>6

\* The output of a merge is the one output there is.
LEMMA MergeOutput ==
  ASSUME ExactInv, Merging, NEW k \in DOMAIN main.groups
  PROVE  k = 1 /\ main.groups[k].to = main.to
<1> DEFINE g == [from |-> Ordered, to |-> main.to]
<1>1. main.groups = <<g>> /\ g.to = main.to
  BY DEF ExactInv, PlanInv
<1> HIDE DEF g
<1> QED
  BY <1>1

LEMMA OutputsAre == ASSUME IInv, ExactInv, Apart PROVE OutputsExact
<1> SUFFICES ASSUME Ended, main.ok, NEW k \in DOMAIN main.groups, NEW to, to = main.groups[k].to
             PROVE  /\ to \in DOMAIN disk /\ disk[to] = Promise(k)
                    /\ \A j \in DOMAIN job : job[j].to = to /\ job[j].reader # None => job[j].reader = disk[to]
  BY DEF OutputsExact
<1>1. HasPlan
  <2>1. main.groups # <<>>
    BY NoJobs
  <2> QED
    BY <2>1 DEF ExactInv, PlanInv
<1>2. AllCollected /\ DOMAIN job = DOMAIN Ordered
  BY <1>1 DEF ExactInv, OkInv, JobsInv
<1>3. CASE Merging
  <2>1. k = 1 /\ to = main.to
    BY <1>3, MergeOutput
  <2>2. \A j \in DOMAIN job : job[j].reader = None
    BY <1>2, <1>3 DEF IInv, ProgressInv, AllCollected
  <2>3. Exists(main.to) /\ disk[main.to] = Promise(1)
    BY <1>3 DEF ExactInv, MergedInv, Ended
  <2> QED
    BY <2>1, <2>2, <2>3 DEF Exists
<1>4. CASE ~Merging
  <2>1. main.mode = "one-to-one" /\ k \in DOMAIN Ordered /\ k \in DOMAIN job
    BY <1>1, <1>2, <1>4 DEF HasPlan, Merging, ExactInv, PlanInv
  <2>2. job[k].pc = "done" /\ ~job[k].part /\ job[k].to = to
    BY <1>2, <1>4, <2>1, WritesOutput DEF IInv, ProgressInv, AllCollected, ExactInv, JobsInv
  <2>3. Shares(k)
    BY <2>1 DEF ExactInv, SharesInv
  <2>4. Sound(k) /\ Exists(to) /\ disk[to] = Share(k) /\ (job[k].reader # None => job[k].reader = Share(k))
    BY <2>2, <2>3 DEF Shares, Landed
  <2>5. Promise(k) = Share(k)
    BY <2>1, <2>4, PromiseOne
  <2>6. \A j \in DOMAIN job : job[j].to = to => j = k
    BY <2>1, <2>2, PlacesApart
  <2> QED
    BY <2>4, <2>5, <2>6 DEF Exists
<1> QED
  BY <1>3, <1>4

LEMMA OutputsBegin == ASSUME IInv, ExactInv, Apart PROVE OpensAsPrefix
<1> SUFFICES ASSUME NEW k \in DOMAIN main.groups, NEW to, to = main.groups[k].to,
                    to \in DOMAIN disk, disk[to].whole
             PROVE  \/ to \in DOMAIN main.before /\ disk[to] = main.before[to]
                    \/ BeginsAs(disk[to], Promise(k), to.ext, main.call.batches)
  BY DEF OpensAsPrefix
<1>1. HasPlan
  <2>1. main.groups # <<>>
    BY NoJobs
  <2> QED
    BY <2>1 DEF ExactInv, PlanInv
<1>2. ~Torn.whole /\ disk[to] # Torn
  BY TornIsFile
<1>3. \A g : BeginsAs(g, g, to.ext, main.call.batches)
  BY DEF BeginsAs
<1>4. CASE Merging
  <2>1. k = 1 /\ to = main.to
    BY <1>4, MergeOutput
  <2>2. MergedInv
    BY DEF ExactInv
  <2> QED
    BY <1>2, <1>4, <1>3, <2>1, <2>2 DEF MergedInv, Exists
<1>5. CASE ~Merging
  <2>1. main.mode = "one-to-one" /\ k \in DOMAIN Ordered /\ k \in DOMAIN job
    BY <1>1, <1>5 DEF HasPlan, Merging, ExactInv, PlanInv, JobsInv
  <2>2. ~job[k].part /\ job[k].to = to
    BY <1>5, <2>1, WritesOutput DEF ExactInv, JobsInv
  <2>3. Shares(k) /\ Landed(k, to)
    BY <2>1, <2>2 DEF ExactInv, SharesInv, Shares
  <2>4. Sound(k) => Promise(k) = Share(k)
    BY <2>1, PromiseOne
  <2>5. job[k].pc \in {"opening", "done"} => Sound(k)
    BY <2>3 DEF Shares, Carrying
  <2> QED
    BY <1>2, <1>3, <2>3, <2>4, <2>5 DEF Landed, AsBefore, Exists
<1> QED
  BY <1>4, <1>5

\* Every file is where it should be, at every point of every run of calls.
THEOREM ExactInvariance == Spec => []ExactInv
<1>1. Init => IInv /\ ExactInv
  BY InitKeeps, InitExact
<1>2. IInv /\ ExactInv /\ [Next]_vars => IInv' /\ ExactInv'
  BY NextKeeps, NextExact
<1> QED
  BY <1>1, <1>2, PTL DEF Spec

\* A conversion that returns has put into every output what was promised of its
\* inputs, whichever thread was done first, unless an output is one of them.
THEOREM OutputsAreExact == Spec => [](Apart => OutputsExact)
<1>1. IInv /\ ExactInv => (Apart => OutputsExact)
  BY OutputsAre
<1> QED
  BY <1>1, Invariance, ExactInvariance, PTL

\* Whatever fails, and when: an output that opens is as it was, or begins as what
\* was promised: rows are missing only after a call in batches, columns only in a
\* format that is written column by column, and only HDF5 has rows nobody filled.
THEOREM OutputsOpenAsPrefix == Spec => [](Apart => OpensAsPrefix)
<1>1. IInv /\ ExactInv => (Apart => OpensAsPrefix)
  BY OutputsBegin
<1> QED
  BY <1>1, Invariance, ExactInvariance, PTL
==============================================================================
