----------------------------- MODULE ShardDirInv -----------------------------
(***************************************************************************)
(* The inductive invariants behind ShardDir's properties: IInv for         *)
(* OneSession, ShardsImmutable and ClosedIsStored, and with it ShardsInv   *)
(* for RowsInOrder and ShardsWhole and ReadersInv for DatasetWhole.        *)
(***************************************************************************)
EXTENDS ShardDir

\* The fields of a session.
Fields == {"pc", "once", "literal", "limit", "schema", "name", "buffer", "made", "mine", "then",
           "size"}

\* A session at work: the shard it is making has a name nobody has taken, its
\* temporary holds its buffer once filled, and what it accepted is in the buffer
\* or has been in a shard.
Working(w) ==
  LET s == sess[w] IN
  /\ s.pc # "idle"
  /\ DOMAIN s = Fields
  /\ s.buffer \in Seq(Nat)
  /\ s.then = "write" => s.buffer # <<>>
  /\ s.name.kind = "shard"
  /\ s.pc \in {"filling", "filled", "copying"} => s.name \notin DOMAIN dir
  /\ s.pc = "filled" => /\ Temp(w) \in DOMAIN dir
                        /\ dir[Temp(w)].batches = s.buffer
  /\ s.mine \subseteq ToSet(s.buffer) \cup Stored \cup gone

SessionsInv == \A w \in Writers : sess[w] = NoSession \/ Working(w)

IInv == /\ DOMAIN sess = Writers
        /\ taken \in Nat
        /\ OneSession
        /\ SessionsInv
        /\ ClosedIsStored

------------------------------------------------------------------------------
(* What shards hold *)

Ordered(rows) == \A k \in 1..Len(rows) : \A j \in 1..(k - 1) : Before(rows[j], rows[k])

IsName(nm) == nm = Literal \/ \E k \in Nat : nm = Shard(k)

\* A name past those of all numbered shards.
Past(nm) == nm = Literal \/ \E k \in Nat : nm = Shard(k) /\ \A x \in Numbered(dir) : x.place <= k

\* The batches of the numbered shards are older than what is in a buffer, the
\* number a session picked is past theirs, and they have the session's schema.
Ahead(w) ==
  LET s == sess[w] IN
  /\ s.pc = "locked" => s.buffer = <<>>
  /\ ToSet(s.buffer) \subseteq 1..taken
  /\ Ordered(s.buffer)
  /\ \A nm \in Numbered(dir) : \A x \in ToSet(dir[nm].batches), y \in ToSet(s.buffer) : x < y
  /\ Past(s.name)

OneSchema(w) ==
  LET s == sess[w] IN
  /\ s.schema \in Schemas \cup {None}
  /\ s.buffer # <<>> \/ s.pc \in {"flush", "filling", "filled", "copying"} => s.schema \in Schemas
  /\ s.pc # "locked" => \A nm \in ShardNames(dir) : dir[nm].schema = s.schema
  /\ s.pc = "filled" => dir[Temp(w)].schema = s.schema
  /\ SourceQuiet => /\ s.pc = "copying" => source <= s.size
                    /\ s.pc = "filled" => dir[Temp(w)].whole

ShardsHold ==
  /\ \A nm \in ShardNames(dir) : /\ IsName(nm)
                                 /\ ToSet(dir[nm].batches) \subseteq 1..taken
                                 /\ SourceQuiet => dir[nm].whole
                                 /\ dir[nm].schema \in Schemas
                                 /\ \A x \in ShardNames(dir) : dir[nm].schema = dir[x].schema
  /\ \E k \in Nat : \A nm \in Numbered(dir) : nm.place <= k
  /\ RowsInOrder

ShardsInv ==
  /\ source \in Nat
  /\ ShardsHold
  /\ \A w \in Writers : sess[w].pc # "idle" => Ahead(w) /\ OneSchema(w)

\* The batch is in a shard of one of these names.
In(shards, names, b) == \E nm \in names : b \in ToSet(shards[nm].batches)

\* What a reader is to find is in a shard it is yet to list or to open, in one
\* it has opened, or was deleted.
Finds(r) ==
  /\ rd[r].pc = "listing" => \A b \in rd[r].due \ gone : In(dir, rd[r].low \cap ShardNames(dir), b)
  /\ rd[r].pc \in {"opening", "open"} =>
       \A b \in rd[r].due \ gone : \/ In(dir, rd[r].todo \cap ShardNames(dir), b)
                                   \/ In(rd[r].opened, DOMAIN rd[r].opened, b)

\* The opens of one name find one shard, and what they make is whole if the
\* directory's shards are.
Opening(r) ==
  /\ DOMAIN rd[r] = {"pc", "due", "low", "todo", "head", "index", "opened"}
  /\ \A nm \in rd[r].low \cup rd[r].todo : IsName(nm)
  /\ rd[r].pc # "opening" => rd[r].todo = {}
  /\ rd[r].pc \in {"idle", "listing"} => DOMAIN rd[r].opened = {}
  /\ rd[r].todo = {} => rd[r].head = None
  /\ rd[r].index # None => rd[r].head # None
  /\ rd[r].todo \cap DOMAIN rd[r].opened = {}
  /\ NamesNotReused =>
       /\ \A c \in {rd[r].head, rd[r].index} \ {None} :
            First(rd[r].todo) \in DOMAIN dir => c = dir[First(rd[r].todo)]
       /\ SourceQuiet => \A nm \in DOMAIN rd[r].opened : rd[r].opened[nm].whole

ReadersInv ==
  /\ DOMAIN rd = Readers
  /\ \A r \in Readers : Opening(r) /\ Finds(r)
==============================================================================
