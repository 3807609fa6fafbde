----------------------------- MODULE ConvertInv -----------------------------
(***************************************************************************)
(* The inductive invariant behind OthersUntouched and NothingLeftBehind:   *)
(* where a call is, and what it has taken.                                 *)
(***************************************************************************)
EXTENDS Convert

CallFields == {"pc", "call", "mode", "to", "groups", "workers", "collected", "ok", "before"}
JobFields  == {"pc", "from", "to", "part", "got", "sent", "reader"}

TypeInv == /\ DOMAIN main = CallFields
           /\ main.pc \in {"idle", "mapping", "filling", "stopping", "cleaning", "ended"}
           /\ main.pc # "idle" => main.call \in Calls
           /\ main.collected \in Nat
           /\ \A j \in DOMAIN job : DOMAIN job[j] = JobFields

Merging == main.mode = "merge"

\* There is a scratch directory during a merge, and only then are there parts.
ScratchInv == /\ scratch # None => Merging /\ main.pc \notin {"idle", "ended"}
              /\ \A j \in DOMAIN job : job[j].part => Merging
              /\ main.pc = "filling" => Merging

\* Results are collected from jobs that are done; who gets to the end or has
\* waited for the pool has nobody left at work.
ProgressInv == /\ 1..main.collected \subseteq DOMAIN job
               /\ \A j \in 1..main.collected : job[j].pc = "done"
               /\ main.pc = "filling" => AllCollected
               /\ main.pc \in {"cleaning", "ended"} => AllStopped
               /\ main.pc = "idle" => job = <<>>
               /\ Ended /\ Merging => \A j \in 1..main.collected : job[j].reader = None

IsOutput(p) == \E g \in Range(main.groups) : g.to = p

\* An output may be written: it was not there, or is to be overwritten.
Free(p) == main.call.overwrite \/ p \notin DOMAIN main.before

AtWork == {"reading", "writing", "filling", "streaming", "opening"}

\* Who is past the look at its output writes nobody else's file.
OutputsInv ==
  /\ Merging => IsOutput(main.to) /\ Free(main.to)
  /\ \A j \in DOMAIN job :
       IF job[j].part THEN job[j].pc # "preparing"
       ELSE IsOutput(job[j].to) /\ (job[j].pc \in AtWork => Free(job[j].to))

IInv == TypeInv /\ ScratchInv /\ ProgressInv /\ OutputsInv /\ OthersUntouched

------------------------------------------------------------------------------
(* What is behind OutputsExact and OpensAsPrefix: where every file comes     *)
(* from, at every point of a call none of whose outputs is one of its inputs. *)

Apart == \A g, h \in Range(main.groups) : \A i \in DOMAIN g.from : g.from[i] # h.to

\* The inputs in their order, as they were at the call, and what is asked of each.
Ordered == ListedInputs(main.call, main.before)
Source(j) == main.before[Ordered[j]]
Sound(j) == Ordered[j] \in DOMAIN main.before /\ Has(Source(j))
Share(j) == Projection(Source(j))

\* Paths are paths and files are files, wherever they are kept.
FilesInv == /\ IsFiniteSet(DOMAIN disk)
            /\ \A p \in DOMAIN disk : IsPath(p) /\ IsFile(disk[p])
            /\ \A p \in DOMAIN main.before : IsPath(p) /\ IsFile(main.before[p])
            /\ Merging /\ main.pc \notin {"idle", "ended"} => \A p \in DOMAIN scratch : IsFile(scratch[p])

\* A plan takes the inputs in their order, each to an output of its own or all
\* to one.
HasPlan == main.mode \in {"merge", "one-to-one"}

PlanInv ==
  /\ Merging => main.groups = <<[from |-> Ordered, to |-> main.to]>>
  /\ main.mode = "one-to-one" =>
       /\ DOMAIN main.groups = DOMAIN Ordered
       /\ \A k \in DOMAIN main.groups : main.groups[k].from = <<Ordered[k]>>
       /\ \A k, l \in DOMAIN main.groups : main.groups[k].to = main.groups[l].to => k = l
  /\ HasPlan => Ordered \in Seq(Range(Ordered)) /\ Ordered # <<>>
  /\ ~HasPlan => main.groups = <<>> /\ job = <<>>
  /\ \A g \in Range(main.groups) : IsPath(g.to)

\* A job has its input, and writes its output or its part.
JobsInv ==
  /\ HasPlan => DOMAIN job = DOMAIN Ordered
  /\ \A j \in DOMAIN job :
       /\ job[j].from = Ordered[j] /\ job[j].part = Merging
       /\ job[j].to = IF Merging THEN PartPath(j - 1) ELSE main.groups[j].to

Carrying == {"writing", "filling", "streaming", "opening"}

\* What a job has in hand is a file, of which it has sent some rows.
Hands(j) ==
    /\ job[j].pc \in Carrying => IsFile(job[j].got)
    /\ job[j].pc = "streaming" => job[j].sent \in 0..Len(job[j].got.rows) /\ main.call.batches
    /\ job[j].pc \in {"waiting", "preparing", "reading", "writing"} => job[j].sent = 0
    /\ IF job[j].pc = "done" THEN job[j].reader # None => IsFile(job[j].reader) ELSE job[j].reader = None
    /\ job[j].part /\ job[j].pc = "done" /\ main.pc # "ended" => IsFile(job[j].reader)
HandsInv == \A j \in DOMAIN job : Hands(j)

AsBefore(p) == /\ Exists(p) <=> p \in DOMAIN main.before
               /\ Exists(p) => disk[p] = main.before[p]

\* Nobody writes to a path that is no output.
OthersInv == \A p \in DOMAIN disk \cup DOMAIN main.before : ~IsOutput(p) => AsBefore(p)

\* A conversion has what its input was, and its output is as far as it is.
Landed(j, p) ==
  CASE job[j].pc \in {"waiting", "preparing", "cancelled"} -> AsBefore(p)
    [] job[j].pc \in {"reading", "writing"}                -> ~Exists(p)
    [] job[j].pc \in {"filling", "streaming"}              -> Exists(p) /\ disk[p] = Torn
    [] job[j].pc \in {"opening", "done"} -> Exists(p) /\ disk[p] = Share(j)
    [] OTHER -> \/ AsBefore(p) \/ ~Exists(p) \/ ~disk[p].whole
                \/ disk[p] = Share(j) /\ Sound(j)
                \/ Sound(j) /\ BeginsAs(disk[p], Share(j), p.ext, main.call.batches)

Shares(j) ==
    /\ job[j].pc \in Carrying => Sound(j) /\ job[j].got = Share(j)
    /\ job[j].pc = "done" =>
         /\ Sound(j)
         /\ job[j].reader = Share(j) \/ (job[j].reader = None /\ (job[j].part => main.pc = "ended"))
    /\ IF job[j].part
       THEN job[j].pc = "opening" => job[j].to \in DOMAIN scratch /\ scratch[job[j].to] = Share(j)
       ELSE Landed(j, job[j].to)
SharesInv == \A j \in DOMAIN job : Shares(j)

\* So is the output of a merge.
MergedInv ==
  Merging =>
    CASE main.pc \in {"mapping", "stopping"} -> ~Exists(main.to)
      [] main.pc = "filling"                 -> Exists(main.to) /\ disk[main.to] = Torn
      [] OTHER -> /\ Exists(main.to) =>
                       \/ disk[main.to] \in {Torn, Promise(1)}
                       \/ BeginsAs(disk[main.to], Promise(1), main.to.ext, main.call.batches)
                  /\ main.ok => Exists(main.to) /\ disk[main.to] = Promise(1)

\* Only who has everything says so.
OkInv == main.ok => IF HasPlan THEN AllCollected /\ main.pc \in {"cleaning", "ended"} ELSE Ended

ExactInv == /\ FilesInv /\ PlanInv /\ JobsInv /\ HandsInv /\ OthersInv /\ OkInv
            /\ (Apart => SharesInv /\ MergedInv)
==============================================================================
