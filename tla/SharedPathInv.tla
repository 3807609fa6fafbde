---------------------------- MODULE SharedPathInv ----------------------------
(***************************************************************************)
(* The inductive invariants behind SharedPath's properties: PathInv for    *)
(* what is behind the names, with it ReadersInv for what readers have      *)
(* mapped, and with both FootersInv for the statistics they skip by.       *)
(***************************************************************************)
EXTENDS SharedPath

Cell == [kind : {"head"}, idx : Nat, rows : Nat] \cup [kind : {"row"}, row : Nat]
        \cup [kind : {"foot"}, entries : Seq(SUBSET Nat)] \cup {Hole}
Contents == [n : Nat, rows : Nat, stats : Nat, body : Seq(Cell)]
Extents  == [at : Nat, rows : Nat]
Actors   == Updaters \cup Compactors

Update == [pc : {"idle", "opened", "locked", "open", "footed"}, inode : Inodes \cup {None},
           n : Nat, rows : Nat, stats : BOOLEAN, acc : Seq(SUBSET Nat), foot : Nat,
           wrote : Seq(Nat)]
Compaction == [pc : {"idle", "opened", "locked", "indexed", "copying", "unlocked"},
               dest : {"temp", "out"}, fd : Inodes \cup {None}, src : Inodes \cup {None},
               dst : Inodes \cup {None}, n : Nat, rows : Nat, ix : Seq(Extents), done : Nat]
Reader == [pc : {"idle", "header", "index", "open"}, n : Nat, rows : Nat, stats : Nat,
           ix : Seq(Extents), map : Inodes \cup {None}, entries : Seq(SUBSET Nat), low : Nat]

TypeInv == /\ path \in [src : Inodes, temp : Inodes \cup {None}, out : Inodes \cup {None}]
           /\ file \in [Inodes -> Contents]
           /\ holder \in [Inodes -> Actors \cup {None}]
           /\ upd \in [Updaters -> Update]
           /\ comp \in [Compactors -> Compaction]
           /\ acked \in Seq(Nat)

------------------------------------------------------------------------------
(* Records in a file *)

\* The rows before record k, given where its own start: what is left of the
\* cells in front of them without the k headers.
Before(ix, k) == ix[k].at - k - 1

\* The records of ix lie one behind the other from the first cell on, m rows in
\* all, numbered through.
Laid(b, ix, m) ==
  LET n == Len(ix) IN
  /\ n + m <= Len(b)
  /\ ix[1].at = 2
  /\ ix[n].at + ix[n].rows = n + m + 1
  /\ \A k \in 1..n :
       /\ k < n => ix[k + 1].at = ix[k].at + ix[k].rows + 1
       /\ k + 1 <= ix[k].at /\ ix[k].at + ix[k].rows <= n + m + 1
       /\ b[ix[k].at - 1] = RecHead(k - 1, ix[k].rows)
       /\ \A j \in 1..ix[k].rows : b[ix[k].at + j - 1] = RowCell(Before(ix, k) + j)

\* The c rows that come after the first m.
Following(m, c) == [j \in 1..c |-> m + j]

\* The first n records hold the first m rows.
Stored(b, n, m) == /\ n \in Nat \ {0} /\ m \in Nat
                   /\ Index(b, n) \in Seq(Extents)
                   /\ Laid(b, Index(b, n), m)

------------------------------------------------------------------------------
(* Names, locks and what is behind them *)

NamesInv == /\ path.src \notin {path.temp, path.out}
            /\ path.temp # None => path.temp # path.out

LockInv ==
  /\ \A u \in Updaters : upd[u].pc \in {"locked", "open", "footed"} => holder[upd[u].inode] = u
  /\ \A c \in Compactors : comp[c].pc \in {"locked", "indexed", "copying"} => holder[comp[c].fd] = c

\* Who is at work is at work on the file behind the path, and a compaction that
\* has let go of it is alone.
PlaceInv ==
  /\ \A u \in Updaters : upd[u].pc # "idle" => upd[u].inode = path.src
  /\ \A c \in Compactors :
       /\ comp[c].pc \notin {"idle", "unlocked"} => comp[c].fd = path.src
       /\ comp[c].pc = "unlocked" => /\ comp[c].dest = "temp"
                                     /\ \A u \in Updaters : upd[u].pc = "idle"
                                     /\ \A d \in Compactors \ {c} : comp[d].pc = "idle"

\* The file behind the path has every committed row.
SourceInv == LET f == file[path.src] IN
             /\ Stored(f.body, f.n, f.rows)
             /\ acked = [r \in 1..f.rows |-> r]

\* A session's records follow the committed ones.
Session(u) ==
  LET s == upd[u]  f == file[path.src] IN
  /\ s.pc = "idle" => s = NoUpdate
  /\ s.pc \in {"opened", "locked"} => s.wrote = <<>>
  /\ s.pc \in {"open", "footed"} =>
       /\ Stored(f.body, s.n, s.rows)
       /\ f.n <= s.n /\ s.rows = f.rows + Len(s.wrote)
       /\ s.wrote = [j \in 1..Len(s.wrote) |-> f.rows + j]
       /\ s.pc = "open" => Len(f.body) = s.n + s.rows

\* The output of a compaction, as far as it has got: one record with what were
\* the first rows of the store.
Output(f) ==
  /\ f.n = 1 /\ f.rows <= Len(acked)
  /\ \A p \in 1..Len(f.body) :
       p <= f.rows + 1 => f.body[p] = IF p = 1 THEN RecHead(0, f.rows) ELSE RowCell(p - 1)

OutputsInv == \A nm \in {"temp", "out"} : path[nm] # None => Output(file[path[nm]])

\* The rows in the first k records.
RowsIn(ix, k) == IF k = 0 THEN 0 ELSE Before(ix, k) + ix[k].rows

Compacts(c) ==
  LET s == comp[c]  f == file[path.src] IN
  /\ s.pc = "idle" => s = NoCompaction
  /\ s.pc \in {"opened", "locked", "indexed"} => s.done = 0
  /\ s.pc \in {"indexed", "copying"} => /\ s.n = f.n /\ s.rows = f.rows
                                        /\ s.ix = Index(f.body, f.n)
  /\ s.pc \in {"copying", "unlocked"} => /\ s.dst \in Inodes /\ s.dst = path[s.dest]
                                         /\ file[s.dst].rows = f.rows
  /\ s.pc = "copying" => /\ s.src = path.src
                         /\ s.done <= s.n
                         /\ Len(file[s.dst].body) = 1 + RowsIn(s.ix, s.done)
  /\ s.pc = "unlocked" => Len(file[s.dst].body) = 1 + f.rows

ActorsInv == /\ \A u \in Updaters : Session(u)
             /\ \A c \in Compactors : Compacts(c)

PathInv == /\ TypeInv /\ NamesInv /\ LockInv /\ PlaceInv
           /\ SourceInv /\ OutputsInv /\ ActorsInv

------------------------------------------------------------------------------
(* What readers have *)

\* What a step keeps that puts no other file behind the path: the committed
\* records there, and every file somebody has a hold of that is no output.
Kept ==
  /\ path'.src = path.src
  /\ \A i \in Inodes \ {path.src, path.temp, path.out} :
       ~Unused(i) => file'[i] = file[i] /\ i \notin {path'.temp, path'.out}
  /\ LET f == file[path.src]  g == file'[path.src] IN
     /\ f.n <= g.n /\ f.n + f.rows <= g.n + g.rows
     /\ f.n + f.rows <= Len(g.body)
     /\ \A p \in 1..(f.n + f.rows) : g.body[p] = f.body[p]
  /\ Len(acked) <= Len(acked')

\* The file a reader has mapped, or is about to.
Behind(r) == IF rd[r].pc = "open" THEN rd[r].map ELSE path.src

Reads(r) ==
  LET s == rd[r]  f == file[Behind(r)] IN
  /\ s.pc # "open" => s.entries = <<>>
  /\ s.pc # "idle" =>
       /\ Behind(r) \in Inodes \ {path.temp, path.out}
       /\ Stored(f.body, s.n, s.rows)
       /\ Behind(r) = path.src => s.n <= f.n /\ s.n + s.rows <= f.n + f.rows
       /\ s.low <= s.rows /\ s.rows <= Len(acked)
       /\ s.pc # "header" => s.ix = Index(f.body, s.n)

ReadersInv == /\ rd \in [Readers -> Reader]
              /\ \A r \in Readers : Reads(r)

------------------------------------------------------------------------------
(* What footers say *)

\* An entry for each of the first n records, with the values it has.
Speaks(e, b, n) ==
  /\ n <= Len(e)
  /\ \A k \in 1..n : Range(RowsAt(b, Index(b, n)[k])) \cap Rows \subseteq e[k]

FooterSpeaks(b, n) == b # <<>> /\ b[Len(b)].kind = "foot" => Speaks(b[Len(b)].entries, b, n)

\* A session that keeps statistics has an entry for each record, one that does not
\* has none, and what the session wrote at the end speaks for its records.
Announces(u) ==
  LET s == upd[u]  b == file[path.src].body IN
  /\ s.pc = "open" => IF s.stats THEN Len(s.acc) = s.n /\ Speaks(s.acc, b, s.n) ELSE s.acc = <<>>
  /\ s.pc = "footed" => FooterSpeaks(b, s.n)

\* The entries a reader skips by speak for the records of the file it mapped.
SkipsBy(r) == LET s == rd[r] IN
              s.entries # <<>> => Speaks(s.entries, file[s.map].body, s.n)

FootersInv == /\ FooterSpeaks(file[path.src].body, file[path.src].n)
              /\ \A u \in Updaters : Announces(u)
              /\ \A r \in Readers : SkipsBy(r)
==============================================================================
