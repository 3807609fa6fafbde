---------------------------- MODULE ShardDirProofs ----------------------------
(***************************************************************************)
(* Theorems about ShardDir: one session at a time, shards that never       *)
(* change, and nothing lost of a session that closed without an error;     *)
(* then what the shards hold: batches in the order they were accepted,     *)
(* whole shards of one schema, and datasets with all that was committed    *)
(* before they were listed.                                                *)
(***************************************************************************)
EXTENDS ShardDirInv, SequenceFacts

------------------------------------------------------------------------------
(* Names, directories, sessions *)

\* Shards and temporaries are told apart by their names.
LEMMA Kinds ==
  /\ \A k : Shard(k).kind = "shard"
  /\ Literal.kind = "shard" /\ Orphan.kind = "temp"
  /\ \A w : Temp(w).kind = "temp"
  /\ \A s : FreeName(s).kind = "shard"
  BY DEF Shard, Literal, Orphan, Temp, FreeName

\* A name added to a directory, and a name taken out of it.
LEMMA WithFacts ==
  ASSUME NEW d, NEW nm, NEW c
  PROVE  /\ DOMAIN With(d, nm, c) = DOMAIN d \cup {nm}
         /\ With(d, nm, c)[nm] = c
         /\ \A x \in DOMAIN d : x # nm => With(d, nm, c)[x] = d[x]
  BY DEF With

LEMMA WithoutFacts ==
  ASSUME NEW d, NEW nm
  PROVE  /\ DOMAIN Without(d, nm) = DOMAIN d \ {nm}
         /\ \A x \in DOMAIN d : x # nm => Without(d, nm)[x] = d[x]
  BY DEF Without

\* What a session that accepts a batch becomes.
LEMMA WithBatchFacts ==
  ASSUME NEW s, DOMAIN s = Fields, s.buffer \in Seq(Nat), NEW b \in Nat, NEW sc
  PROVE  LET t == WithBatch(s, b, sc) IN
         /\ DOMAIN t = Fields
         /\ t.pc \in {s.pc, "flush"}
         /\ t.buffer = Append(s.buffer, b)
         /\ t.buffer # <<>>
         /\ t.name = s.name
         /\ t.mine = s.mine \cup {b}
  <1>1. Append(s.buffer, b) # <<>>
    OBVIOUS
  <1>2. QED  BY <1>1 DEF WithBatch, Fields

\* The batches of a buffer, with one more.
LEMMA AppendToSet ==
  ASSUME NEW q \in Seq(Nat), NEW b \in Nat
  PROVE  Append(q, b) \in Seq(Nat) /\ ToSet(Append(q, b)) = ToSet(q) \cup {b}
  <1>1. /\ DOMAIN Append(q, b) = 1..(Len(q) + 1) /\ DOMAIN q = 1..Len(q)
        /\ Len(q) \in Nat
        /\ \A k \in 1..Len(q) : Append(q, b)[k] = q[k]
        /\ Append(q, b)[Len(q) + 1] = b
    OBVIOUS
  <1>2. 1..(Len(q) + 1) = (1..Len(q)) \cup {Len(q) + 1}
    BY <1>1
  <1>3. ToSet(Append(q, b)) = ToSet(q) \cup {b}
    BY <1>1, <1>2 DEF ToSet
  <1>4. QED  BY <1>3

\* Shards that are still there with what they hold.
ShardsStay == \A nm \in ShardNames(dir) : nm \in ShardNames(dir') /\ dir'[nm] = dir[nm]

LEMMA StoredStays == ASSUME ShardsStay PROVE Stored \subseteq Stored'
  BY DEF ShardsStay, Stored

\* Temporaries come and go without touching a shard.
LEMMA TempIsNoShard ==
  ASSUME NEW tmp, tmp.kind = "temp"
  PROVE  /\ \A c : dir' = With(dir, tmp, c) => ShardsStay
         /\ dir' = Without(dir, tmp) => ShardsStay
  <1>1. \A nm \in ShardNames(dir) : nm \in DOMAIN dir /\ nm.kind = "shard" /\ nm # tmp
    BY DEF ShardNames
  <1>2. ASSUME NEW c, dir' = With(dir, tmp, c) PROVE ShardsStay
    <2>1. /\ DOMAIN dir' = DOMAIN dir \cup {tmp}
          /\ \A x \in DOMAIN dir : x # tmp => dir'[x] = dir[x]
      BY <1>2 DEF With
    <2>2. QED  BY <1>1, <2>1 DEF ShardsStay, ShardNames
  <1>3. ASSUME dir' = Without(dir, tmp) PROVE ShardsStay
    <2>1. /\ DOMAIN dir' = DOMAIN dir \ {tmp}
          /\ \A x \in DOMAIN dir : x # tmp => dir'[x] = dir[x]
      BY <1>3 DEF Without
    <2>2. QED  BY <1>1, <2>1 DEF ShardsStay, ShardNames
  <1>4. QED  BY <1>2, <1>3

------------------------------------------------------------------------------
(* Steps of a session *)

\* While one session is at work there is no other.
LEMMA Alone ==
  ASSUME IInv, NEW w \in Writers, sess[w].pc # "idle"
  PROVE  /\ holder = w
         /\ Working(w)
         /\ \A v \in Writers : v # w => sess[v] = NoSession
  <1>1. holder = w
    BY DEF IInv, OneSession
  <1>2. NoSession.pc = "idle"
    BY DEF NoSession
  <1>3. Working(w)
    BY <1>2 DEF IInv, SessionsInv
  <1>4. \A v \in Writers : v # w => sess[v] = NoSession
    BY <1>1 DEF IInv, OneSession, SessionsInv, Working
  <1>5. QED  BY <1>1, <1>3, <1>4

\* A session that goes on, in order, keeps the invariant.
LEMMA GoesOn ==
  ASSUME IInv, NEW w \in Writers, NEW t, Become(w, t),
         \A v \in Writers : v # w => sess[v] = NoSession,
         holder' = w, taken' \in Nat, kept' = kept, gone' = gone, ShardsStay, Working(w)'
  PROVE  IInv'
  <1>1. /\ DOMAIN sess' = Writers /\ sess'[w] = t
        /\ \A v \in Writers : v # w => sess'[v] = NoSession
    BY DEF IInv, Become
  <1>2. NoSession.pc = "idle" /\ t.pc # "idle"
    BY <1>1 DEF NoSession, Working
  <1>3. OneSession'
    BY <1>1, <1>2 DEF OneSession
  <1>4. SessionsInv'
    BY <1>1 DEF SessionsInv
  <1>5. ClosedIsStored'
    BY StoredStays DEF IInv, ClosedIsStored
  <1>6. QED  BY <1>1, <1>3, <1>4, <1>5 DEF IInv

\* So does one that ends, if what it closed with is stored.
LEMMA Ends ==
  ASSUME IInv, NEW w \in Writers, sess[w].pc # "idle", Leave(w),
         taken' = taken, gone' = gone, ShardsStay,
         kept' \subseteq kept \cup Stored' \cup gone
  PROVE  IInv'
  <1>1. \A v \in Writers : v # w => sess[v] = NoSession
    BY Alone
  <1>2. DOMAIN sess' = Writers /\ (\A v \in Writers : sess'[v] = NoSession) /\ holder' = None
    BY <1>1 DEF IInv, Leave, Become
  <1>3. NoSession.pc = "idle" /\ \A v \in Writers : v # None
    BY NoneAssumption DEF NoSession
  <1>4. OneSession'
    BY <1>2, <1>3 DEF OneSession
  <1>5. SessionsInv'
    BY <1>2 DEF SessionsInv
  <1>6. ClosedIsStored'
    BY StoredStays DEF IInv, ClosedIsStored
  <1>7. QED  BY <1>2, <1>4, <1>5, <1>6 DEF IInv

------------------------------------------------------------------------------
(* The steps that leave the directory alone *)

LEMMA ShardsStayPut == dir' = dir => ShardsStay
  BY DEF ShardsStay

\* What became of a session.
LEMMA Became ==
  ASSUME IInv, NEW w \in Writers, NEW t, Become(w, t)
  PROVE  sess'[w] = t
  BY DEF IInv, Become

LEMMA AcquireKeeps ==
  ASSUME IInv, NEW w \in Writers, Acquire(w)
  PROVE  IInv'
  <1>1. \A v \in Writers : sess[v] = NoSession
    BY NoneAssumption DEF IInv, OneSession, SessionsInv, Working, Acquire
  <1>2. PICK once \in BOOLEAN, literal \in BOOLEAN, limit \in Limits :
          Become(w, [NoSession EXCEPT !.pc = "locked", !.once = once, !.literal = literal,
                                      !.limit = limit])
    BY DEF Acquire
  <1> DEFINE t == [NoSession EXCEPT !.pc = "locked", !.once = once, !.literal = literal,
                                    !.limit = limit]
  <1>3. /\ t.pc = "locked" /\ DOMAIN t = Fields /\ t.buffer = <<>> /\ t.then = "none"
        /\ t.name = Literal /\ t.mine = {}
    BY DEF NoSession, Fields
  <1>4. sess'[w] = t
    BY <1>2, Became
  <1>5. <<>> \in Seq(Nat)
    OBVIOUS
  <1>6. Working(w)'
    BY <1>3, <1>4, <1>5, Kinds DEF Working
  <1>7. holder' = w /\ taken' \in Nat /\ kept' = kept /\ gone' = gone /\ dir' = dir
    BY DEF Acquire, IInv
  <1>8. QED  BY <1>1, <1>2, <1>6, <1>7, ShardsStayPut, GoesOn

\* A session that goes on over an unchanged directory.
LEMMA StaysIn ==
  ASSUME IInv, NEW w \in Writers, sess[w].pc # "idle", NEW t, Become(w, t),
         dir' = dir, gone' = gone, kept' = kept, holder' = holder, taken' \in Nat,
         t.pc \in {"open", "flush"}, DOMAIN t = Fields, t.buffer \in Seq(Nat),
         t.then = "write" => t.buffer # <<>>, t.name.kind = "shard",
         t.mine \subseteq ToSet(t.buffer) \cup Stored \cup gone
  PROVE  IInv'
  <1>1. sess'[w] = t
    BY Became
  <1>2. Stored' = Stored
    BY DEF Stored
  <1>3. Working(w)'
    BY <1>1, <1>2 DEF Working
  <1>4. holder = w /\ \A v \in Writers : v # w => sess[v] = NoSession
    BY Alone
  <1>5. QED  BY <1>3, <1>4, ShardsStayPut, GoesOn

LEMMA ReadSchemaKeeps ==
  ASSUME IInv, NEW w \in Writers, ReadSchema(w)
  PROVE  IInv'
  <1> DEFINE s == sess[w]
             t == [s EXCEPT !.pc = "open", !.schema = ExistingSchema(dir),
                            !.name = FreeName(s)]
  <1>1. s.pc # "idle" /\ Become(w, t)
    BY DEF ReadSchema
  <1>2. Working(w)
    BY <1>1, Alone
  <1>3. /\ t.pc = "open" /\ DOMAIN t = Fields /\ t.buffer = s.buffer /\ t.then = s.then
        /\ t.name = FreeName(s) /\ t.mine = s.mine
    BY <1>2 DEF Working, Fields
  <1>4. /\ dir' = dir /\ gone' = gone /\ kept' = kept /\ holder' = holder /\ taken' \in Nat
    BY DEF ReadSchema, IInv
  <1>5. QED  BY <1>1, <1>2, <1>3, <1>4, Kinds, StaysIn DEF Working

\* A batch accepted, or accepted again.
LEMMA AcceptKeeps ==
  ASSUME IInv, NEW w \in Writers, NEW sc, NEW b \in Nat, sess[w].pc = "open",
         Become(w, WithBatch(sess[w], b, sc)),
         dir' = dir, gone' = gone, kept' = kept, holder' = holder, taken' \in Nat
  PROVE  IInv'
  <1> DEFINE s == sess[w]
             t == WithBatch(s, b, sc)
  <1>1. Working(w) /\ s.pc # "idle"
    BY Alone
  <1>2. DOMAIN s = Fields /\ s.buffer \in Seq(Nat)
    BY <1>1 DEF Working
  <1>3. /\ DOMAIN t = Fields /\ t.pc \in {s.pc, "flush"} /\ t.buffer = Append(s.buffer, b)
        /\ t.buffer # <<>> /\ t.name = s.name /\ t.mine = s.mine \cup {b}
    BY <1>2, WithBatchFacts
  <1>4. t.buffer \in Seq(Nat) /\ ToSet(t.buffer) = ToSet(s.buffer) \cup {b}
    BY <1>2, <1>3, AppendToSet
  <1>5. t.mine \subseteq ToSet(t.buffer) \cup Stored \cup gone
    BY <1>1, <1>3, <1>4 DEF Working
  <1>6. t.name.kind = "shard"
    BY <1>1, <1>3 DEF Working
  <1> HIDE DEF t
  <1>7. Become(w, t)
    BY DEF t
  <1>8. QED  BY <1>1, <1>3, <1>4, <1>5, <1>6, <1>7, StaysIn

LEMMA WriteKeeps ==
  ASSUME IInv, NEW w \in Writers, Write(w)
  PROVE  IInv'
  <1>1. PICK sc \in Schemas : Become(w, WithBatch(sess[w], taken + 1, sc))
    BY DEF Write
  <1>2. taken + 1 \in Nat /\ taken' = taken + 1
    BY DEF IInv, Write
  <1>3. /\ sess[w].pc = "open" /\ dir' = dir /\ gone' = gone /\ kept' = kept
        /\ holder' = holder
    BY DEF Write
  <1>4. QED  BY <1>1, <1>2, <1>3, AcceptKeeps

LEMMA RetryWriteKeeps ==
  ASSUME IInv, NEW w \in Writers, RetryWrite(w)
  PROVE  IInv'
  <1> DEFINE s == sess[w]
             b == Last(s.buffer)
  <1>1. /\ s.pc = "open" /\ s.then = "write" /\ Become(w, WithBatch(s, b, s.schema))
        /\ dir' = dir /\ gone' = gone /\ kept' = kept /\ holder' = holder /\ taken' \in Nat
    BY DEF RetryWrite, IInv
  <1>2. s.buffer \in Seq(Nat) /\ s.buffer # <<>>
    BY <1>1, Alone DEF Working
  <1>3. b \in Nat
    BY <1>2 DEF Last
  <1> HIDE DEF b
  <1>4. QED  BY <1>1, <1>3, AcceptKeeps

LEMMA FlushKeeps ==
  ASSUME IInv, NEW w \in Writers, Flush(w)
  PROVE  IInv'
  <1> DEFINE s == sess[w]
             t == [s EXCEPT !.pc = "flush", !.then = "flush"]
  <1>1. s.pc # "idle" /\ Become(w, t)
    BY DEF Flush
  <1>2. Working(w)
    BY <1>1, Alone
  <1>3. /\ t.pc = "flush" /\ DOMAIN t = Fields /\ t.buffer = s.buffer /\ t.then = "flush"
        /\ t.name = s.name /\ t.mine = s.mine
    BY <1>2 DEF Working, Fields
  <1>4. dir' = dir /\ gone' = gone /\ kept' = kept /\ holder' = holder /\ taken' \in Nat
    BY DEF Flush, IInv
  <1>5. QED  BY <1>1, <1>2, <1>3, <1>4, StaysIn DEF Working

\* append() has the lock and data: the flush it starts ends the session.
LEMMA AppendDataKeeps ==
  ASSUME IInv, NEW w \in Writers, AppendData(w)
  PROVE  IInv'
  <1> DEFINE s == sess[w]
             u(sc) == WithBatch(s, taken + 1, sc)
             t(sc) == [u(sc) EXCEPT !.pc = "flush", !.then = "close"]
  <1>1. PICK sc \in Schemas : Become(w, t(sc))
    BY DEF AppendData
  <1>2. s.pc # "idle" /\ taken \in Nat
    BY DEF AppendData, IInv
  <1>3. Working(w)
    BY <1>2, Alone
  <1>4. DOMAIN s = Fields /\ s.buffer \in Seq(Nat) /\ taken + 1 \in Nat
    BY <1>2, <1>3 DEF Working
  <1>5. /\ DOMAIN u(sc) = Fields /\ u(sc).buffer = Append(s.buffer, taken + 1)
        /\ u(sc).name = s.name /\ u(sc).mine = s.mine \cup {taken + 1}
    BY <1>4, WithBatchFacts
  <1> HIDE DEF u
  <1>6. /\ t(sc).pc = "flush" /\ DOMAIN t(sc) = Fields /\ t(sc).buffer = u(sc).buffer
        /\ t(sc).then = "close" /\ t(sc).name = s.name /\ t(sc).mine = s.mine \cup {taken + 1}
    BY <1>5 DEF Fields
  <1>7. t(sc).buffer \in Seq(Nat) /\ ToSet(t(sc).buffer) = ToSet(s.buffer) \cup {taken + 1}
    BY ZenonT(40), <1>4, <1>5, <1>6, AppendToSet
  <1>8. t(sc).mine \subseteq ToSet(t(sc).buffer) \cup Stored \cup gone
    BY <1>3, <1>6, <1>7 DEF Working
  <1>9. t(sc).name.kind = "shard"
    BY <1>3, <1>6 DEF Working
  <1>10. dir' = dir /\ gone' = gone /\ kept' = kept /\ holder' = holder /\ taken' \in Nat
    BY <1>4 DEF AppendData
  <1> HIDE DEF t
  <1>11. QED  BY <1>1, <1>2, <1>6, <1>7, <1>8, <1>9, <1>10, StaysIn

------------------------------------------------------------------------------
(* The steps that build a shard *)

\* The directory gets a temporary, or a new one of that name.
LEMMA TempFacts ==
  ASSUME NEW w, NEW c, dir' = With(dir, BuiltAt(w, None), c)
  PROVE  /\ ShardsStay
         /\ Temp(w) \in DOMAIN dir' /\ dir'[Temp(w)] = c
         /\ \A nm \in DOMAIN dir' : nm.kind = "shard" => nm \in DOMAIN dir
  <1>1. dir' = With(dir, Temp(w), c)
    BY DEF BuiltAt
  <1>2. ShardsStay
    BY <1>1, TempIsNoShard, Kinds
  <1>3. /\ DOMAIN dir' = DOMAIN dir \cup {Temp(w)} /\ dir'[Temp(w)] = c
    BY <1>1 DEF With
  <1>4. QED  BY <1>2, <1>3, Kinds

\* A session that goes on and has written its temporary.
LEMMA Builds ==
  ASSUME IInv, NEW w \in Writers, sess[w].pc # "idle", NEW t, Become(w, t),
         NEW c, dir' = With(dir, BuiltAt(w, t.name), c),
         gone' = gone, kept' = kept, holder' = holder, taken' \in Nat,
         t.pc \in {"filling", "filled", "copying"}, DOMAIN t = Fields,
         t.buffer \in Seq(Nat), t.then = "write" => t.buffer # <<>>,
         t.name.kind = "shard", t.name \notin DOMAIN dir,
         t.pc = "filled" => c.batches = t.buffer,
         t.mine \subseteq ToSet(t.buffer) \cup Stored \cup gone
  PROVE  IInv'
  <1>1. sess'[w] = t
    BY Became
  <1>2. dir' = With(dir, BuiltAt(w, None), c)
    BY DEF BuiltAt
  <1>3. /\ ShardsStay
        /\ Temp(w) \in DOMAIN dir' /\ dir'[Temp(w)] = c
        /\ t.name \notin DOMAIN dir'
    BY <1>2, TempFacts
  <1>4. Stored \subseteq Stored'
    BY <1>3, StoredStays
  <1>5. Working(w)'
    BY <1>1, <1>3, <1>4 DEF Working
  <1>6. holder = w /\ \A v \in Writers : v # w => sess[v] = NoSession
    BY Alone
  <1>7. QED  BY <1>3, <1>5, <1>6, GoesOn

LEMMA AppendFileKeeps ==
  ASSUME IInv, NEW w \in Writers, AppendFile(w)
  PROVE  IInv'
  <1> DEFINE s == sess[w]
             u(sc) == WithBatch(s, taken + 1, sc)
             t(sc) == [u(sc) EXCEPT !.pc = "copying", !.then = "close", !.size = source]
  <1>1. PICK sc \in Schemas : Become(w, t(sc))
    BY DEF AppendFile
  <1>2. s.pc # "idle" /\ taken \in Nat
    BY DEF AppendFile, IInv
  <1>3. Working(w)
    BY <1>2, Alone
  <1>4. DOMAIN s = Fields /\ s.buffer \in Seq(Nat) /\ taken + 1 \in Nat
    BY <1>2, <1>3 DEF Working
  <1>5. /\ DOMAIN u(sc) = Fields /\ u(sc).buffer = Append(s.buffer, taken + 1)
        /\ u(sc).name = s.name /\ u(sc).mine = s.mine \cup {taken + 1}
    BY <1>4, WithBatchFacts
  <1> HIDE DEF u
  <1>6. /\ t(sc).pc = "copying" /\ DOMAIN t(sc) = Fields /\ t(sc).buffer = u(sc).buffer
        /\ t(sc).then = "close" /\ t(sc).name = s.name /\ t(sc).mine = s.mine \cup {taken + 1}
    BY <1>5 DEF Fields
  <1>7. t(sc).buffer \in Seq(Nat) /\ ToSet(t(sc).buffer) = ToSet(s.buffer) \cup {taken + 1}
    BY ZenonT(40), <1>4, <1>5, <1>6, AppendToSet
  <1>8. t(sc).mine \subseteq ToSet(t(sc).buffer) \cup Stored \cup gone
    BY <1>3, <1>6, <1>7 DEF Working
  <1>9. t(sc).name.kind = "shard" /\ t(sc).name \notin DOMAIN dir
    BY <1>3, <1>6 DEF Working, AppendFile, NameOf
  <1>10. gone' = gone /\ kept' = kept /\ holder' = holder /\ taken' \in Nat
    BY <1>4 DEF AppendFile
  <1>11. dir' = With(dir, BuiltAt(w, t(sc).name), Content(<<>>, s.schema, FALSE))
    BY <1>6 DEF AppendFile
  <1> HIDE DEF t
  <1>12. QED  BY <1>1, <1>2, <1>6, <1>7, <1>8, <1>9, <1>10, <1>11, Builds

\* The buffer is in the temporary, whether it was written or copied.
LEMMA FilledKeeps ==
  ASSUME IInv, NEW w \in Writers, sess[w].pc \in {"filling", "copying"},
         Become(w, [sess[w] EXCEPT !.pc = "filled"]), NEW whole,
         dir' = With(dir, BuiltAt(w, sess[w].name),
                     Content(sess[w].buffer, sess[w].schema, whole)),
         UNCHANGED <<holder, taken, kept, gone>>
  PROVE  IInv'
  <1> DEFINE s == sess[w]
             t == [s EXCEPT !.pc = "filled"]
             c == Content(s.buffer, s.schema, whole)
  <1>1. Working(w) /\ s.pc # "idle"
    BY Alone
  <1>2. /\ t.pc = "filled" /\ DOMAIN t = Fields /\ t.buffer = s.buffer /\ t.then = s.then
        /\ t.name = s.name /\ t.mine = s.mine
    BY <1>1 DEF Working, Fields
  <1>3. c.batches = t.buffer
    BY <1>2 DEF Content
  <1>4. taken' \in Nat
    BY DEF IInv
  <1>5. Become(w, t) /\ dir' = With(dir, BuiltAt(w, t.name), c)
    BY <1>2
  <1> HIDE DEF t, c
  <1>6. QED  BY <1>1, <1>2, <1>3, <1>4, <1>5, Builds DEF Working

LEMMA CopyBytesKeeps ==
  ASSUME IInv, NEW w \in Writers, CopyBytes(w)
  PROVE  IInv'
  BY FilledKeeps DEF CopyBytes

LEMMA FillShardKeeps ==
  ASSUME IInv, NEW w \in Writers, FillShard(w)
  PROVE  IInv'
  BY FilledKeeps DEF FillShard

LEMMA StartShardKeeps ==
  ASSUME IInv, NEW w \in Writers, StartShard(w)
  PROVE  IInv'
  <1> DEFINE s == sess[w]
             t == [s EXCEPT !.pc = "filling", !.name = NameOf(s)]
  <1>1. Working(w) /\ s.pc # "idle"
    BY Alone DEF StartShard
  <1>2. /\ t.pc = "filling" /\ DOMAIN t = Fields /\ t.buffer = s.buffer /\ t.then = s.then
        /\ t.name = NameOf(s) /\ t.mine = s.mine
    BY <1>1 DEF Working, Fields
  <1>3. t.name.kind = "shard" /\ t.name \notin DOMAIN dir
    BY <1>1, <1>2, Kinds DEF Working, StartShard, MayMakeShard, NameOf
  <1>4. gone' = gone /\ kept' = kept /\ holder' = holder /\ taken' \in Nat
    BY DEF StartShard, IInv
  <1>5. Become(w, t) /\ dir' = With(dir, BuiltAt(w, t.name), Content(<<>>, s.schema, FALSE))
    BY <1>2 DEF StartShard
  <1> HIDE DEF t
  <1>6. QED  BY <1>1, <1>2, <1>3, <1>4, <1>5, Builds DEF Working

------------------------------------------------------------------------------
(* The steps that end a flush or a session *)

\* A shard that is published has a new name, and holds the buffer.
LEMMA PublishFacts ==
  ASSUME IInv, NEW w \in Writers, Publish(w)
  PROVE  /\ ShardsStay
         /\ ToSet(sess[w].buffer) \subseteq Stored'
         /\ sess[w].name \notin DOMAIN dir
         /\ DOMAIN dir' = (DOMAIN dir \ {Temp(w)}) \cup {sess[w].name}
  <1> DEFINE s == sess[w]
             d == Without(dir, Temp(w))
  <1>1. /\ s.pc = "filled"
        /\ dir' = With(d, s.name, dir[Temp(w)])
    BY DEF Publish, BuiltAt
  <1>2. /\ s.name.kind = "shard" /\ s.name \notin DOMAIN dir
        /\ dir[Temp(w)].batches = s.buffer
    BY <1>1, Alone DEF Working
  <1>3. /\ DOMAIN d = DOMAIN dir \ {Temp(w)}
        /\ \A x \in DOMAIN dir : x # Temp(w) => d[x] = dir[x]
    BY WithoutFacts
  <1> HIDE DEF d
  <1>4. /\ DOMAIN dir' = DOMAIN d \cup {s.name}
        /\ dir'[s.name] = dir[Temp(w)]
        /\ \A x \in DOMAIN d : x # s.name => dir'[x] = d[x]
    BY <1>1 DEF With
  <1>5. \A nm \in ShardNames(dir) : nm \in DOMAIN d /\ nm # s.name /\ nm # Temp(w)
    BY <1>2, <1>3, Kinds DEF ShardNames
  <1>6. ShardsStay
    <2>1. SUFFICES ASSUME NEW nm \in ShardNames(dir)
                   PROVE  nm \in ShardNames(dir') /\ dir'[nm] = dir[nm]
      BY DEF ShardsStay
    <2>2. nm \in DOMAIN dir /\ nm.kind = "shard"
      BY DEF ShardNames
    <2>3. nm \in DOMAIN d /\ nm # s.name /\ nm # Temp(w)
      BY <1>5
    <2>4. nm \in ShardNames(dir')
      BY <1>4, <2>2, <2>3 DEF ShardNames
    <2>5. dir'[nm] = dir[nm]
      BY <1>3, <1>4, <2>2, <2>3
    <2>6. QED  BY <2>4, <2>5
  <1>7. s.name \in ShardNames(dir') /\ dir'[s.name].batches = s.buffer
    BY <1>2, <1>4 DEF ShardNames
  <1>8. ToSet(s.buffer) \subseteq Stored'
    BY <1>7 DEF Stored
  <1>9. QED  BY <1>2, <1>3, <1>4, <1>6, <1>8

LEMMA PublishKeeps ==
  ASSUME IInv, NEW w \in Writers, Publish(w)
  PROVE  IInv'
  <1> DEFINE s == sess[w]
             t == [s EXCEPT !.pc = "open", !.then = "none", !.name = Literal, !.buffer = <<>>,
                            !.made = TRUE]
  <1>1. Working(w) /\ s.pc # "idle"
    BY Alone DEF Publish
  <1>2. ShardsStay /\ ToSet(s.buffer) \subseteq Stored'
    BY PublishFacts
  <1>3. s.mine \subseteq Stored' \cup gone
    BY <1>1, <1>2, StoredStays DEF Working
  <1>4. taken' = taken /\ taken' \in Nat /\ gone' = gone
    BY DEF Publish, IInv
  <1>5. CASE s.then = "close"
    <2>1. Leave(w) /\ kept' = kept \cup s.mine
      BY <1>5 DEF Publish
    <2>2. QED  BY <1>1, <1>2, <1>3, <1>4, <2>1, Ends
  <1>6. CASE s.then # "close"
    <2>1. Become(w, t) /\ kept' = kept /\ holder' = holder
      BY <1>6 DEF Publish
    <2>2. /\ t.pc = "open" /\ DOMAIN t = Fields /\ t.buffer = <<>> /\ t.then = "none"
          /\ t.name = Literal /\ t.mine = s.mine
      BY <1>1 DEF Working, Fields
    <2>3. sess'[w] = t /\ <<>> \in Seq(Nat)
      BY <2>1, Became
    <2> HIDE DEF t
    <2>4. Working(w)'
      BY <1>3, <1>4, <2>2, <2>3, Kinds DEF Working
    <2>5. holder = w /\ \A v \in Writers : v # w => sess[v] = NoSession
      BY <1>1, Alone
    <2>6. QED  BY <1>2, <1>4, <2>1, <2>4, <2>5, GoesOn
  <1>7. QED  BY <1>5, <1>6

LEMMA FlushFailsKeeps ==
  ASSUME IInv, NEW w \in Writers, FlushFails(w)
  PROVE  IInv'
  <1> DEFINE s == sess[w]
             t == [s EXCEPT !.pc = "open", !.name = Literal]
  <1>1. Working(w) /\ s.pc # "idle"
    BY Alone DEF FlushFails
  <1>2. ShardsStay
    BY TempIsNoShard, Kinds DEF FlushFails
  <1>3. taken' = taken /\ taken' \in Nat /\ gone' = gone /\ kept' = kept
    BY DEF FlushFails, IInv
  <1>4. CASE s.then = "close"
    <2>1. Leave(w)
      BY <1>4 DEF FlushFails, AfterFailure
    <2>2. QED  BY <1>1, <1>2, <1>3, <2>1, Ends
  <1>5. CASE s.then # "close"
    <2>1. Become(w, t) /\ holder' = holder
      BY <1>5 DEF FlushFails, AfterFailure
    <2>2. /\ t.pc = "open" /\ DOMAIN t = Fields /\ t.buffer = s.buffer /\ t.then = s.then
          /\ t.name = Literal /\ t.mine = s.mine
      BY <1>1 DEF Working, Fields
    <2>3. sess'[w] = t
      BY <2>1, Became
    <2>4. Stored \subseteq Stored'
      BY <1>2, StoredStays
    <2> HIDE DEF t
    <2>5. Working(w)'
      BY <1>1, <1>3, <2>2, <2>3, <2>4, Kinds DEF Working
    <2>6. holder = w /\ \A v \in Writers : v # w => sess[v] = NoSession
      BY <1>1, Alone
    <2>7. QED  BY <1>2, <1>3, <2>1, <2>5, <2>6, GoesOn
  <1>6. QED  BY <1>4, <1>5

LEMMA CloseKeeps ==
  ASSUME IInv, NEW w \in Writers, Close(w)
  PROVE  IInv'
  <1> DEFINE s == sess[w]
             t == [s EXCEPT !.pc = "flush", !.then = "close"]
  <1>1. Working(w) /\ s.pc # "idle"
    BY Alone DEF Close
  <1>2. dir' = dir /\ taken' = taken /\ taken' \in Nat /\ gone' = gone
    BY DEF Close, IInv
  <1>3. CASE s.buffer # <<>>
    <2>1. Become(w, t) /\ kept' = kept /\ holder' = holder
      BY <1>3 DEF Close, FlushDue
    <2>2. /\ t.pc = "flush" /\ DOMAIN t = Fields /\ t.buffer = s.buffer /\ t.then = "close"
          /\ t.name = s.name /\ t.mine = s.mine
      BY <1>1 DEF Working, Fields
    <2> HIDE DEF t
    <2>3. QED  BY <1>1, <1>2, <2>1, <2>2, StaysIn DEF Working
  <1>4. CASE s.buffer = <<>>
    <2>1. Leave(w) /\ kept' = kept \cup s.mine
      BY <1>4 DEF Close, FlushDue
    <2>2. ToSet(s.buffer) = {}
      BY <1>4 DEF ToSet
    <2>3. Stored' = Stored
      BY <1>2 DEF Stored
    <2>4. s.mine \subseteq Stored' \cup gone
      BY <1>1, <2>2, <2>3 DEF Working
    <2>5. QED  BY <1>1, <1>2, <2>1, <2>4, ShardsStayPut, Ends
  <1>5. QED  BY <1>3, <1>4

LEMMA AppendFailsKeeps ==
  ASSUME IInv, NEW w \in Writers, AppendFails(w)
  PROVE  IInv'
  BY ShardsStayPut, Ends DEF AppendFails

LEMMA CrashStays ==
  ASSUME NEW w \in Writers, Crash(w)
  PROVE  ShardsStay
  <1>1. CASE Temp(w) \in DOMAIN dir
    <2> DEFINE d == Without(dir, Temp(w))
    <2>1. dir' = With(d, Orphan, dir[Temp(w)])
      BY <1>1 DEF Crash
    <2>2. /\ DOMAIN d = DOMAIN dir \ {Temp(w)}
          /\ \A x \in DOMAIN dir : x # Temp(w) => d[x] = dir[x]
      BY WithoutFacts
    <2> HIDE DEF d
    <2>3. /\ DOMAIN dir' = DOMAIN d \cup {Orphan}
          /\ \A x \in DOMAIN d : x # Orphan => dir'[x] = d[x]
      BY <2>1 DEF With
    <2>4. \A nm \in ShardNames(dir) :
            nm \in DOMAIN dir /\ nm.kind = "shard" /\ nm # Orphan /\ nm # Temp(w)
      BY Kinds DEF ShardNames
    <2>5. QED  BY <2>2, <2>3, <2>4 DEF ShardsStay, ShardNames
  <1>2. CASE Temp(w) \notin DOMAIN dir
    BY <1>2, ShardsStayPut DEF Crash
  <1>3. QED  BY <1>1, <1>2

LEMMA CrashKeeps ==
  ASSUME IInv, NEW w \in Writers, Crash(w)
  PROVE  IInv'
  BY CrashStays, Ends DEF Crash

------------------------------------------------------------------------------
(* Every step *)

\* No step of a session touches a shard.
LEMMA SessionStays ==
  ASSUME IInv, NEW w \in Writers, Session(w)
  PROVE  ShardsStay
  <1>1. CASE dir' = dir
    BY <1>1, ShardsStayPut
  <1>2. CASE \E c : dir' = With(dir, Temp(w), c)
    BY <1>2, TempIsNoShard, Kinds
  <1>3. CASE Publish(w)
    BY <1>3, PublishFacts
  <1>4. CASE FlushFails(w)
    BY <1>4, TempIsNoShard, Kinds DEF FlushFails
  <1>5. CASE Crash(w)
    BY <1>5, CrashStays
  <1>6. CASE AppendFile(w)
    BY <1>6, <1>2 DEF AppendFile, BuiltAt
  <1>7. CASE CopyBytes(w)
    BY <1>7, <1>2 DEF CopyBytes, BuiltAt
  <1>8. CASE StartShard(w)
    BY <1>8, <1>2 DEF StartShard, BuiltAt
  <1>9. CASE FillShard(w)
    BY <1>9, <1>2 DEF FillShard, BuiltAt
  <1>10. QED
    BY <1>1, <1>3, <1>4, <1>5, <1>6, <1>7, <1>8, <1>9
       DEF Session, Acquire, ReadSchema, Write, RetryWrite, Flush, AppendData, Close, AppendFails

LEMMA DeleteKeeps ==
  ASSUME IInv, Delete
  PROVE  /\ IInv'
         /\ \A nm \in ShardNames(dir) \cap ShardNames(dir') : dir'[nm] = dir[nm]
  <1>1. PICK nm \in ShardNames(dir) : /\ dir' = Without(dir, nm)
                                      /\ gone' = gone \cup ToSet(dir[nm].batches)
    BY DEF Delete
  <1>2. UNCHANGED <<holder, sess, taken, kept>>
    BY DEF Delete
  <1>3. /\ nm.kind = "shard"
        /\ DOMAIN dir' = DOMAIN dir \ {nm}
        /\ \A x \in DOMAIN dir : x # nm => dir'[x] = dir[x]
    BY <1>1 DEF ShardNames, Without
  <1>4. Stored \cup gone \subseteq Stored' \cup gone'
    <2>1. SUFFICES ASSUME NEW x \in ShardNames(dir), NEW y \in ToSet(dir[x].batches)
                   PROVE  y \in Stored' \cup gone'
      BY <1>1 DEF Stored
    <2>2. CASE x = nm
      BY <1>1, <2>2
    <2>3. CASE x # nm
      <3>1. x \in ShardNames(dir') /\ dir'[x] = dir[x]
        BY <1>3, <2>3 DEF ShardNames
      <3>2. QED  BY <3>1 DEF Stored
    <2>4. QED  BY <2>2, <2>3
  <1>5. SessionsInv'
    <2>1. SUFFICES ASSUME NEW w \in Writers, Working(w)
                   PROVE  Working(w)'
      BY <1>2 DEF IInv, SessionsInv
    <2>2. /\ sess[w].name \notin DOMAIN dir => sess[w].name \notin DOMAIN dir'
          /\ Temp(w) \in DOMAIN dir => Temp(w) \in DOMAIN dir' /\ dir'[Temp(w)] = dir[Temp(w)]
      BY <1>3, Kinds
    <2>3. sess[w].mine \subseteq ToSet(sess[w].buffer) \cup Stored' \cup gone'
      BY <1>4, <2>1 DEF Working
    <2>4. QED  BY <1>2, <2>1, <2>2, <2>3 DEF Working
  <1>6. ClosedIsStored'
    BY <1>2, <1>4 DEF IInv, ClosedIsStored
  <1>7. OneSession' /\ DOMAIN sess' = Writers /\ taken' \in Nat
    BY <1>2 DEF IInv, OneSession
  <1>8. QED  BY <1>3, <1>5, <1>6, <1>7 DEF IInv, ShardNames

\* Readers and commits elsewhere see the directory and change nothing of it.
LEMMA OutsideKeeps ==
  ASSUME IInv, UNCHANGED <<dir, holder, sess, taken, kept, gone>>
  PROVE  IInv'
  BY DEF IInv, OneSession, SessionsInv, Working, ClosedIsStored, Stored

LEMMA SessionKeeps ==
  ASSUME IInv, NEW w \in Writers, Session(w)
  PROVE  IInv'
  BY AcquireKeeps, ReadSchemaKeeps, WriteKeeps, RetryWriteKeeps, FlushKeeps, AppendDataKeeps,
     AppendFileKeeps, CopyBytesKeeps, StartShardKeeps, FillShardKeeps, PublishKeeps,
     FlushFailsKeeps, CloseKeeps, AppendFailsKeeps, CrashKeeps
     DEF Session

\* What a step outside the sessions leaves alone.
LEMMA OutsideLeaves ==
  ASSUME (\E r \in Readers : Reading(r)) \/ CommitToSource \/ UNCHANGED vars
  PROVE  UNCHANGED <<dir, holder, sess, taken, kept, gone>>
  BY DEF Reading, List, Listed, ReadHead, WalkIndex, MapRows, Combine, CloseReader, CommitToSource,
         vars

LEMMA IInvInit == Init => IInv
  BY NoneAssumption DEF Init, IInv, OneSession, SessionsInv, ClosedIsStored, NoSession

LEMMA IInvStep == IInv /\ [Next]_vars => IInv'
  <1>1. SUFFICES ASSUME IInv, [Next]_vars
                 PROVE  IInv'
    OBVIOUS
  <1>2. CASE \E w \in Writers : Session(w)
    BY <1>1, <1>2, SessionKeeps
  <1>3. CASE Delete
    BY <1>1, <1>3, DeleteKeeps
  <1>4. CASE (\E r \in Readers : Reading(r)) \/ CommitToSource \/ UNCHANGED vars
    BY <1>1, <1>4, OutsideLeaves, OutsideKeeps
  <1>5. QED  BY <1>1, <1>2, <1>3, <1>4 DEF Next

------------------------------------------------------------------------------
(* The theorems *)

\* The invariant the properties rest on: at most one session is at work, its
\* shard's name is free until it publishes, and what it accepted is in its
\* buffer or stored.
THEOREM Invariance == Spec => []IInv
  BY IInvInit, IInvStep, PTL DEF Spec

\* The directory's lock is held exactly by the session at work, whichever way
\* sessions end: by close(), a failed close(), a failed append() or a crash
\* (_acquire_directory_lock and the finally clauses that release it).
THEOREM SessionsAlone == Spec => []OneSession
  <1>1. IInv => OneSession
    BY DEF IInv
  <1>2. QED  BY <1>1, Invariance, PTL

\* A batch accepted by a session that closed without an error is in a shard or
\* was in one that somebody deleted, however many flushes failed on the way.
THEOREM NothingLost == Spec => []ClosedIsStored
  <1>1. IInv => ClosedIsStored
    BY DEF IInv
  <1>2. QED  BY <1>1, Invariance, PTL

\* A shard that exists is never written over: each step leaves every shard of
\* the directory as it is, or deletes it (the exists() checks and
\* atomic_publish's rename).
THEOREM ShardsNeverChange == Spec => ShardsImmutable
  <1> DEFINE Same == \A nm \in ShardNames(dir) \cap ShardNames(dir') : dir'[nm] = dir[nm]
  <1>1. IInv /\ [Next]_vars => [Same]_vars
    <2>1. SUFFICES ASSUME IInv, [Next]_vars
                   PROVE  Same
      OBVIOUS
    <2>2. CASE \E w \in Writers : Session(w)
      BY <2>1, <2>2, SessionStays DEF ShardsStay
    <2>3. CASE Delete
      BY <2>1, <2>3, DeleteKeeps
    <2>4. CASE (\E r \in Readers : Reading(r)) \/ CommitToSource \/ UNCHANGED vars
      BY <2>4, OutsideLeaves
    <2>5. QED  BY <2>1, <2>2, <2>3, <2>4 DEF Next
  <1>2. QED  BY <1>1, Invariance, PTL DEF Spec, ShardsImmutable

------------------------------------------------------------------------------
(* Least and greatest places *)

\* So it has a greatest one, if it is bounded.
LEMMA GreatestNumber ==
  ASSUME NEW S, S \subseteq Nat, S # {}, NEW top \in Nat, \A k \in S : k <= top
  PROVE  \E k \in S : \A j \in S : j <= k
  <1> DEFINE down == {top - k : k \in S}
  <1>1. down \subseteq Nat /\ down # {}
    <2>1. \A k \in S : k \in Nat /\ top - k \in Nat
      OBVIOUS
    <2>2. QED  BY <2>1
  <1>2. PICK m \in down : \A j \in down : m <= j
    BY <1>1, LeastNumber
  <1>3. PICK k \in S : m = top - k
    OBVIOUS
  <1>4. \A j \in S : top - k <= top - j
    BY <1>2, <1>3
  <1>5. \A j \in S : j \in Nat /\ k \in Nat
    OBVIOUS
  <1>6. QED  BY <1>4, <1>5

\* The place of a name.
LEMMA NamePlaces ==
  /\ \A nm : IsName(nm) => nm.place \in Nat /\ nm = [kind |-> "shard", place |-> nm.place]
  /\ \A k \in Nat : IsName(Shard(k)) /\ Shard(k).place = k + 1 /\ Shard(k) # Literal
  /\ IsName(Literal)
  <1>1. Literal.place = 0 /\ \A k \in Nat : Shard(k).place = k + 1
    BY DEF Shard, Literal
  <1>2. \A k \in Nat : k + 1 \in Nat /\ k + 1 # 0
    OBVIOUS
  <1>3. \A k \in Nat : Shard(k) # Literal
    BY <1>1, <1>2
  <1>4. ASSUME NEW nm, IsName(nm)
        PROVE  nm.place \in Nat /\ nm = [kind |-> "shard", place |-> nm.place]
    <2>1. CASE nm = Literal
      BY <2>1 DEF Literal
    <2>2. CASE \E k \in Nat : nm = Shard(k)
      BY <2>2 DEF Shard
    <2>3. QED  BY <1>4, <2>1, <2>2 DEF IsName
  <1>5. QED  BY <1>1, <1>3, <1>4 DEF IsName

\* The first of some names is one of them.
LEMMA FirstIsThere ==
  ASSUME NEW names, names # {}, \A nm \in names : IsName(nm)
  PROVE  First(names) \in names
  <1> DEFINE places == {nm.place : nm \in names}
  <1>1. places \subseteq Nat /\ places # {}
    BY NamePlaces
  <1>2. PICK k \in places : \A j \in places : k <= j
    BY <1>1, LeastNumber
  <1>3. PICK nm \in names : nm.place = k
    OBVIOUS
  <1>4. \A x \in names : nm.place <= x.place
    BY <1>2, <1>3
  <1>5. QED  BY <1>4 DEF First

\* A free name is past those of all numbered shards.
LEMMA FreeNameIsPast ==
  ASSUME ShardsHold, NEW s
  PROVE  Past(FreeName(s))
  <1> DEFINE places == {nm.place : nm \in Numbered(dir)}
  <1>1. CASE s.literal
    BY <1>1 DEF FreeName, Past
  <1>2. CASE ~s.literal /\ Numbered(dir) = {}
    BY <1>2 DEF FreeName, Past, NextIndex
  <1>3. CASE ~s.literal /\ Numbered(dir) # {}
    <2>1. \A nm \in Numbered(dir) : nm.place \in Nat
      BY NamePlaces DEF ShardsHold, Numbered
    <2>2. PICK top \in Nat : \A nm \in Numbered(dir) : nm.place <= top
      BY DEF ShardsHold
    <2>3. \E k \in places : \A j \in places : j <= k
      <3>1. places \subseteq Nat /\ places # {} /\ \A k \in places : k <= top
        BY <1>3, <2>1, <2>2
      <3> HIDE DEF places
      <3>2. QED  BY <3>1, GreatestNumber
    <2>4. NextIndex(dir) = CHOOSE k \in places : \A j \in places : j <= k
      BY <1>3 DEF NextIndex
    <2>5. NextIndex(dir) \in places /\ \A j \in places : j <= NextIndex(dir)
      BY <2>3, <2>4
    <2>6. NextIndex(dir) \in Nat /\ \A nm \in Numbered(dir) : nm.place <= NextIndex(dir)
      BY <2>1, <2>5
    <2>7. FreeName(s) = Shard(NextIndex(dir))
      BY <1>3 DEF FreeName
    <2>8. QED  BY <2>6, <2>7 DEF Past
  <1>4. QED  BY <1>1, <1>2, <1>3

------------------------------------------------------------------------------
(* Steps that make no shard *)

\* Every shard was one before, with what it held.
NoNewShard == \A nm \in ShardNames(dir') : nm \in ShardNames(dir) /\ dir'[nm] = dir[nm]

LEMMA TempMakesNoShard ==
  ASSUME NEW tmp, tmp.kind = "temp"
  PROVE  /\ \A c : dir' = With(dir, tmp, c) => NoNewShard
         /\ dir' = Without(dir, tmp) => NoNewShard
  <1>1. ASSUME NEW c, dir' = With(dir, tmp, c) PROVE NoNewShard
    <2>1. /\ DOMAIN dir' = DOMAIN dir \cup {tmp}
          /\ \A x \in DOMAIN dir : x # tmp => dir'[x] = dir[x]
      BY <1>1 DEF With
    <2>2. QED  BY <2>1 DEF NoNewShard, ShardNames
  <1>2. ASSUME dir' = Without(dir, tmp) PROVE NoNewShard
    <2>1. /\ DOMAIN dir' = DOMAIN dir \ {tmp}
          /\ \A x \in DOMAIN dir : x # tmp => dir'[x] = dir[x]
      BY <1>2 DEF Without
    <2>2. QED  BY <2>1 DEF NoNewShard, ShardNames
  <1>3. QED  BY <1>1, <1>2

LEMMA CrashMakesNoShard ==
  ASSUME NEW w \in Writers, Crash(w)
  PROVE  NoNewShard
  <1>1. CASE Temp(w) \in DOMAIN dir
    <2> DEFINE d == Without(dir, Temp(w))
    <2>1. dir' = With(d, Orphan, dir[Temp(w)])
      BY <1>1 DEF Crash
    <2>2. /\ DOMAIN d = DOMAIN dir \ {Temp(w)}
          /\ \A x \in DOMAIN dir : x # Temp(w) => d[x] = dir[x]
      BY WithoutFacts
    <2> HIDE DEF d
    <2>3. /\ DOMAIN dir' = DOMAIN d \cup {Orphan}
          /\ \A x \in DOMAIN d : x # Orphan => dir'[x] = d[x]
      BY <2>1 DEF With
    <2>4. QED  BY <2>2, <2>3, Kinds DEF NoNewShard, ShardNames
  <1>2. CASE Temp(w) \notin DOMAIN dir
    BY <1>2 DEF Crash, NoNewShard
  <1>3. QED  BY <1>1, <1>2

LEMMA OnlyPublishMakesShards ==
  ASSUME NEW w \in Writers, Session(w), ~Publish(w)
  PROVE  NoNewShard
  <1>1. CASE dir' = dir
    BY <1>1 DEF NoNewShard
  <1>2. CASE \E c : dir' = With(dir, Temp(w), c)
    BY <1>2, TempMakesNoShard, Kinds
  <1>3. CASE FlushFails(w)
    BY <1>3, TempMakesNoShard, Kinds DEF FlushFails
  <1>4. CASE Crash(w)
    BY <1>4, CrashMakesNoShard
  <1>5. CASE AppendFile(w)
    BY <1>5, <1>2 DEF AppendFile, BuiltAt
  <1>6. CASE CopyBytes(w)
    BY <1>6, <1>2 DEF CopyBytes, BuiltAt
  <1>7. CASE StartShard(w)
    BY <1>7, <1>2 DEF StartShard, BuiltAt
  <1>8. CASE FillShard(w)
    BY <1>8, <1>2 DEF FillShard, BuiltAt
  <1>9. QED
    BY <1>1, <1>3, <1>4, <1>5, <1>6, <1>7, <1>8
       DEF Session, Acquire, ReadSchema, Write, RetryWrite, Flush, AppendData, Close, AppendFails

\* What holds of the shards holds on while none is made.
LEMMA ShardsHoldOn ==
  ASSUME ShardsHold, NoNewShard, taken \in Nat, taken' \in Nat, taken <= taken',
         again \subseteq again'
  PROVE  ShardsHold'
  <1>1. \A nm \in Numbered(dir') : nm \in Numbered(dir) /\ dir'[nm] = dir[nm]
    BY DEF NoNewShard, Numbered
  <1>3. RowsInOrder'
    <2>1. ASSUME NEW nm \in Numbered(dir')
          PROVE  (Ordered(dir[nm].batches))'
      <3>1. Ordered(dir[nm].batches)
        BY <1>1, <2>1 DEF ShardsHold, RowsInOrder, Ordered
      <3>2. QED  BY <1>1, <2>1, <3>1 DEF Ordered, Before
    <2>2. ASSUME NEW a \in Numbered(dir'), NEW b \in Numbered(dir'), a.place < b.place
          PROVE  \A x \in ToSet(dir'[a].batches), y \in ToSet(dir'[b].batches) :
                   x < y \/ (x = y /\ x \in again')
      BY <1>1, <2>2 DEF ShardsHold, RowsInOrder, Before
    <2>3. QED  BY <2>1, <2>2 DEF RowsInOrder, Ordered, Before
  <1>4. \E k \in Nat : \A nm \in Numbered(dir') : nm.place <= k
    BY <1>1 DEF ShardsHold
  <1>5. 1..taken \subseteq 1..taken'
    OBVIOUS
  <1>6. ASSUME NEW nm \in ShardNames(dir')
        PROVE  /\ IsName(nm)
               /\ ToSet(dir'[nm].batches) \subseteq 1..taken'
               /\ SourceQuiet => dir'[nm].whole
               /\ dir'[nm].schema \in Schemas
               /\ \A x \in ShardNames(dir') : dir'[nm].schema = dir'[x].schema
    BY <1>5 DEF NoNewShard, ShardsHold
  <1>7. QED  BY <1>3, <1>4, <1>6 DEF ShardsHold

------------------------------------------------------------------------------
(* Steps of a session, and the shards *)

\* A session at work is ahead of the shards, under their schema.
LEMMA AtWork ==
  ASSUME IInv, ShardsInv, NEW w \in Writers, sess[w].pc # "idle"
  PROVE  /\ Ahead(w) /\ OneSchema(w) /\ ShardsHold /\ source \in Nat /\ taken \in Nat
         /\ DOMAIN sess[w] = Fields /\ sess[w].buffer \in Seq(Nat)
         /\ \A v \in Writers : v # w => sess[v] = NoSession
  <1>1. Working(w) /\ \A v \in Writers : v # w => sess[v] = NoSession
    BY Alone
  <1>2. QED  BY <1>1 DEF ShardsInv, IInv, Working

\* The shards and the session that made the step say it all.
LEMMA OneMoved ==
  ASSUME IInv, ShardsInv, NEW w \in Writers, NEW t, Become(w, t),
         \A v \in Writers : v # w => sess[v] = NoSession,
         source' = source, ShardsHold',
         t = NoSession \/ (Ahead(w) /\ OneSchema(w))'
  PROVE  ShardsInv'
  <1>1. sess' = [sess EXCEPT ![w] = t] /\ DOMAIN sess = Writers
    BY DEF Become, IInv
  <1>2. sess'[w] = t /\ \A v \in Writers : v # w => sess'[v] = NoSession
    BY <1>1
  <1>3. NoSession.pc = "idle"
    BY DEF NoSession
  <1>4. \A v \in Writers : sess'[v].pc # "idle" => (Ahead(v) /\ OneSchema(v))'
    BY <1>2, <1>3
  <1>5. QED  BY <1>4 DEF ShardsInv

\* A session that makes no shard and takes no batch stays ahead.
LEMMA StaysAhead ==
  ASSUME NEW w, Ahead(w), NoNewShard, taken' = taken, again' = again,
         sess'[w].buffer = sess[w].buffer, sess'[w].pc # "locked", Past(sess'[w].name)
  PROVE  Ahead(w)'
  <1>1. \A nm \in Numbered(dir') : nm \in Numbered(dir) /\ dir'[nm] = dir[nm]
    BY DEF NoNewShard, Numbered
  <1>2. Past(sess[w].name)'
    BY <1>1 DEF Past
  <1>3. Ordered(sess[w].buffer)'
    BY DEF Ahead, Ordered, Before
  <1>4. /\ ToSet(sess'[w].buffer) \subseteq 1..taken'
        /\ \A nm \in Numbered(dir') : \A x \in ToSet(dir'[nm].batches), y \in ToSet(sess'[w].buffer) : x < y
    BY <1>1 DEF Ahead
  <1>5. QED  BY <1>2, <1>3, <1>4 DEF Ahead

\* Nor does it change the schema.
LEMMA KeepsSchema ==
  ASSUME NEW w, OneSchema(w), NoNewShard, source' = source,
         sess'[w].buffer = sess[w].buffer, sess'[w].schema = sess[w].schema,
         sess[w].pc # "locked", sess'[w].pc \notin {"filled", "copying"},
         sess'[w].pc \in {"flush", "filling"} =>
            sess[w].buffer # <<>> \/ sess[w].pc \in {"flush", "filling", "filled", "copying"}
  PROVE  OneSchema(w)'
  <1> DEFINE sc == sess[w].schema
  <1>1. /\ sc \in Schemas \cup {None}
        /\ sess[w].buffer # <<>> \/ sess[w].pc \in {"flush", "filling", "filled", "copying"} => sc \in Schemas
        /\ \A nm \in ShardNames(dir) : dir[nm].schema = sc
    BY DEF OneSchema
  <1>2. \A nm \in ShardNames(dir') : dir'[nm].schema = sc
    BY <1>1 DEF NoNewShard
  <1>3. QED  BY <1>1, <1>2 DEF OneSchema

\* A session that goes on with what it has.
LEMMA GoesOnAhead ==
  ASSUME IInv, ShardsInv, NEW w \in Writers, sess[w].pc \notin {"idle", "locked"}, NEW t, Become(w, t),
         NoNewShard, UNCHANGED <<source, taken, again>>,
         t.buffer = sess[w].buffer, t.schema = sess[w].schema, Past(t.name),
         t.pc \notin {"filled", "copying", "locked"},
         t.pc \in {"flush", "filling"} =>
            sess[w].buffer # <<>> \/ sess[w].pc \in {"flush", "filling", "filled", "copying"}
  PROVE  ShardsInv'
  <1>1. /\ Ahead(w) /\ OneSchema(w) /\ ShardsHold /\ taken \in Nat
        /\ \A v \in Writers : v # w => sess[v] = NoSession
    BY AtWork
  <1>2. sess'[w] = t
    BY Became
  <1>3. ShardsHold'
    BY <1>1, ShardsHoldOn
  <1>4. Ahead(w)'
    BY <1>1, <1>2, StaysAhead
  <1>5. OneSchema(w)'
    BY <1>1, <1>2, KeepsSchema
  <1>6. QED  BY <1>1, <1>3, <1>4, <1>5, OneMoved

\* One that ends without a shard.
LEMMA LeavesShards ==
  ASSUME IInv, ShardsInv, NEW w \in Writers, sess[w].pc # "idle", Leave(w),
         NoNewShard, UNCHANGED <<source, taken, again>>
  PROVE  ShardsInv'
  <1>1. /\ ShardsHold /\ taken \in Nat /\ Become(w, NoSession)
        /\ \A v \in Writers : v # w => sess[v] = NoSession
    BY AtWork DEF Leave
  <1>2. ShardsHold'
    BY <1>1, ShardsHoldOn
  <1>3. QED  BY <1>1, <1>2, OneMoved

LEMMA AcquireAhead ==
  ASSUME IInv, ShardsInv, NEW w \in Writers, Acquire(w)
  PROVE  ShardsInv'
  <1>1. \A v \in Writers : sess[v] = NoSession
    BY NoneAssumption DEF IInv, OneSession, SessionsInv, Working, Acquire
  <1>2. PICK once \in BOOLEAN, literal \in BOOLEAN, limit \in Limits :
          Become(w, [NoSession EXCEPT !.pc = "locked", !.once = once, !.literal = literal,
                                      !.limit = limit])
    BY DEF Acquire
  <1> DEFINE t == [NoSession EXCEPT !.pc = "locked", !.once = once, !.literal = literal,
                                    !.limit = limit]
  <1>3. /\ t.pc = "locked" /\ t.buffer = <<>> /\ t.name = Literal /\ t.schema = None
    BY DEF NoSession
  <1>4. sess'[w] = t
    BY <1>2, Became
  <1>5. ToSet(<<>>) = {} /\ Len(<<>>) = 0
    BY DEF ToSet
  <1>6. UNCHANGED <<dir, source, taken, again>>
    BY DEF Acquire
  <1>7. Ordered(<<>>)'
    BY <1>5 DEF Ordered
  <1> HIDE DEF t
  <1>8. (Ahead(w) /\ OneSchema(w))'
    BY <1>3, <1>4, <1>5, <1>7 DEF Ahead, OneSchema, Past
  <1>9. ShardsHold'
    <2>1. ShardsHold /\ taken \in Nat /\ NoNewShard
      BY <1>6 DEF ShardsInv, IInv, NoNewShard
    <2>2. QED  BY <1>6, <2>1, ShardsHoldOn
  <1>10. QED  BY <1>1, <1>2, <1>6, <1>8, <1>9, OneMoved DEF t

LEMMA ReadSchemaAhead ==
  ASSUME IInv, ShardsInv, NEW w \in Writers, ReadSchema(w)
  PROVE  ShardsInv'
  <1> DEFINE s == sess[w]
             sc == ExistingSchema(dir)
             t == [s EXCEPT !.pc = "open", !.schema = sc, !.name = FreeName(s)]
  <1>1. s.pc = "locked" /\ Become(w, t) /\ UNCHANGED <<dir, source, taken, again>>
    BY DEF ReadSchema
  <1>2. /\ Ahead(w) /\ OneSchema(w) /\ ShardsHold /\ taken \in Nat /\ DOMAIN s = Fields
        /\ \A v \in Writers : v # w => sess[v] = NoSession
    BY <1>1, AtWork
  <1>3. t.pc = "open" /\ t.buffer = s.buffer /\ t.name = FreeName(s) /\ t.schema = sc
    BY <1>2 DEF Fields
  <1>4. sess'[w] = t
    BY <1>1, Became
  <1>5. s.buffer = <<>>
    BY <1>1, <1>2 DEF Ahead
  <1>6. sc \in Schemas \cup {None} /\ \A nm \in ShardNames(dir) : dir[nm].schema = sc
    <2>1. CASE ShardNames(dir) = {}
      BY <2>1 DEF ExistingSchema
    <2>2. CASE ShardNames(dir) # {}
      <3>1. First(ShardNames(dir)) \in ShardNames(dir)
        BY <1>2, <2>2, FirstIsThere DEF ShardsHold
      <3>2. QED  BY <1>2, <2>2, <3>1 DEF ExistingSchema, ShardsHold
    <2>3. QED  BY <2>1, <2>2
  <1> HIDE DEF t, sc
  <1>7. NoNewShard /\ ShardsHold'
    <2>1. NoNewShard
      BY <1>1 DEF NoNewShard
    <2>2. QED  BY <1>1, <1>2, <2>1, ShardsHoldOn
  <1>8. Ahead(w)'
    <2>1. Past(FreeName(s))
      BY <1>2, FreeNameIsPast
    <2>2. QED  BY <1>1, <1>2, <1>3, <1>4, <1>7, <2>1, StaysAhead
  <1>9. OneSchema(w)'
    BY <1>1, <1>3, <1>4, <1>5, <1>6 DEF OneSchema
  <1>10. QED  BY <1>1, <1>2, <1>7, <1>8, <1>9, OneMoved

LEMMA FlushAhead ==
  ASSUME IInv, ShardsInv, NEW w \in Writers, Flush(w)
  PROVE  ShardsInv'
  <1> DEFINE s == sess[w]
             t == [s EXCEPT !.pc = "flush", !.then = "flush"]
  <1>1. /\ s.pc = "open" /\ s.buffer # <<>> /\ Become(w, t) /\ UNCHANGED <<dir, source, taken, again>>
    BY DEF Flush
  <1>2. Ahead(w) /\ DOMAIN s = Fields
    BY <1>1, AtWork
  <1>3. t.pc = "flush" /\ t.buffer = s.buffer /\ t.name = s.name /\ t.schema = s.schema
    BY <1>2 DEF Fields
  <1>4. Past(s.name) /\ NoNewShard
    BY <1>1, <1>2 DEF Ahead, NoNewShard
  <1> HIDE DEF t
  <1>5. QED  BY <1>1, <1>3, <1>4, GoesOnAhead

LEMMA CloseAhead ==
  ASSUME IInv, ShardsInv, NEW w \in Writers, Close(w)
  PROVE  ShardsInv'
  <1> DEFINE s == sess[w]
             t == [s EXCEPT !.pc = "flush", !.then = "close"]
  <1>1. s.pc = "open" /\ UNCHANGED <<dir, source, taken, again>>
    BY DEF Close
  <1>2. Ahead(w) /\ DOMAIN s = Fields
    BY <1>1, AtWork
  <1>3. t.pc = "flush" /\ t.buffer = s.buffer /\ t.name = s.name /\ t.schema = s.schema
    BY <1>2 DEF Fields
  <1>4. Past(s.name) /\ NoNewShard
    BY <1>1, <1>2 DEF Ahead, NoNewShard
  <1>5. CASE s.buffer # <<>>
    <2>1. Become(w, t)
      BY <1>5 DEF Close, FlushDue
    <2> HIDE DEF t
    <2>2. QED  BY <1>1, <1>3, <1>4, <1>5, <2>1, GoesOnAhead
  <1>6. CASE s.buffer = <<>>
    BY <1>1, <1>4, <1>6, LeavesShards DEF Close, FlushDue
  <1>7. QED  BY <1>5, <1>6

LEMMA StartShardAhead ==
  ASSUME IInv, ShardsInv, NEW w \in Writers, StartShard(w)
  PROVE  ShardsInv'
  <1> DEFINE s == sess[w]
             t == [s EXCEPT !.pc = "filling", !.name = NameOf(s)]
  <1>1. s.pc = "flush" /\ Become(w, t) /\ UNCHANGED <<source, taken, again>>
    BY DEF StartShard
  <1>2. Ahead(w) /\ ShardsHold /\ DOMAIN s = Fields
    BY <1>1, AtWork
  <1>3. t.pc = "filling" /\ t.buffer = s.buffer /\ t.name = NameOf(s) /\ t.schema = s.schema
    BY <1>2 DEF Fields
  <1>4. Past(NameOf(s))
    BY <1>2, FreeNameIsPast DEF Ahead, NameOf
  <1>5. NoNewShard
    BY TempMakesNoShard, Kinds DEF StartShard, BuiltAt
  <1> HIDE DEF t
  <1>6. QED  BY <1>1, <1>3, <1>4, <1>5, GoesOnAhead

LEMMA FlushFailsAhead ==
  ASSUME IInv, ShardsInv, NEW w \in Writers, FlushFails(w)
  PROVE  ShardsInv'
  <1> DEFINE s == sess[w]
             t == [s EXCEPT !.pc = "open", !.name = Literal]
  <1>1. s.pc \in {"flush", "filling", "filled", "copying"} /\ UNCHANGED <<source, taken, again>>
    BY DEF FlushFails
  <1>2. DOMAIN s = Fields
    BY <1>1, AtWork
  <1>3. t.pc = "open" /\ t.buffer = s.buffer /\ t.name = Literal /\ t.schema = s.schema
    BY <1>2 DEF Fields
  <1>4. Past(Literal)
    BY DEF Past
  <1>5. NoNewShard
    BY TempMakesNoShard, Kinds DEF FlushFails
  <1>6. CASE s.then = "close"
    BY <1>1, <1>5, <1>6, LeavesShards DEF FlushFails, AfterFailure
  <1>7. CASE s.then # "close"
    <2>1. Become(w, t)
      BY <1>7 DEF FlushFails, AfterFailure
    <2> HIDE DEF t
    <2>2. QED  BY <1>1, <1>3, <1>4, <1>5, <2>1, GoesOnAhead
  <1>8. QED  BY <1>6, <1>7

LEMMA AppendFailsAhead ==
  ASSUME IInv, ShardsInv, NEW w \in Writers, AppendFails(w)
  PROVE  ShardsInv'
  <1>1. NoNewShard
    BY DEF AppendFails, NoNewShard
  <1>2. QED  BY <1>1, LeavesShards DEF AppendFails

LEMMA CrashAhead ==
  ASSUME IInv, ShardsInv, NEW w \in Writers, Crash(w)
  PROVE  ShardsInv'
  BY CrashMakesNoShard, LeavesShards DEF Crash


------------------------------------------------------------------------------
(* Steps that take a batch *)

\* What a batch makes of a session's schema and name.
LEMMA WithBatchSchema ==
  ASSUME NEW s, DOMAIN s = Fields, NEW b, NEW sc
  PROVE  LET t == WithBatch(s, b, sc) IN
         t.schema = sc /\ t.name = s.name /\ t.buffer = Append(s.buffer, b) /\ DOMAIN t = Fields
  BY DEF WithBatch, Fields

\* The buffer is in order with a batch that is new, or that of the last again.
LEMMA InOrderStill ==
  ASSUME NEW q \in Seq(Nat), Ordered(q), NEW b \in Nat, again \subseteq again',
         \A y \in ToSet(q) : y < b \/ (y <= b /\ b \in again'),
         NEW t, t = Append(q, b)
  PROVE  \A k \in 1..Len(t) : \A j \in 1..(k - 1) : t[j] < t[k] \/ (t[j] = t[k] /\ t[j] \in again')
  <1> DEFINE l == Len(q)
  <1>1. /\ l \in Nat /\ Len(t) = l + 1 /\ \A k \in 1..l : t[k] = q[k] /\ q[k] \in Nat
        /\ t[l + 1] = b
    OBVIOUS
  <1>2. \A k \in 1..l : q[k] \in ToSet(q)
    BY DEF ToSet
  <1>3. ASSUME NEW k \in 1..(l + 1), NEW j \in 1..(k - 1)
        PROVE  t[j] < t[k] \/ (t[j] = t[k] /\ t[j] \in again')
    <2> HIDE DEF l
    <2>1. CASE k \in 1..l
      <3>1. j \in 1..l
        BY <1>1, <2>1
      <3>2. Before(q[j], q[k])
        BY <2>1 DEF Ordered, l
      <3>3. QED  BY <1>1, <2>1, <3>1, <3>2 DEF Before
    <2>2. CASE k = l + 1
      <3>1. j \in 1..l
        BY <1>1, <2>2
      <3>2. q[j] < b \/ (q[j] <= b /\ b \in again')
        BY <1>2, <3>1
      <3>3. t[j] = q[j] /\ t[k] = b /\ q[j] \in Nat
        BY <1>1, <2>2, <3>1
      <3>4. QED  BY <3>2, <3>3
    <2>3. k \in 1..l \/ k = l + 1
      BY <1>1
    <2>4. QED  BY <2>1, <2>2, <2>3
  <1>4. QED  BY <1>1, <1>3

\* A session that accepts a batch stays ahead of the shards.
LEMMA AcceptsAhead ==
  ASSUME NEW w, Ahead(w), sess[w].buffer \in Seq(Nat), NEW b \in 1..taken',
         NoNewShard, taken \in Nat, taken' \in Nat, taken <= taken', again \subseteq again',
         \A y \in ToSet(sess[w].buffer) : y < b \/ (y <= b /\ b \in again'),
         \A nm \in Numbered(dir) : \A x \in ToSet(dir[nm].batches) : x < b,
         sess'[w].buffer = Append(sess[w].buffer, b), sess'[w].name = sess[w].name,
         sess'[w].pc # "locked"
  PROVE  Ahead(w)'
  <1> DEFINE q == sess[w].buffer
  <1>1. \A nm \in Numbered(dir') : nm \in Numbered(dir) /\ dir'[nm] = dir[nm]
    BY DEF NoNewShard, Numbered
  <1>2. b \in Nat
    OBVIOUS
  <1>3. ToSet(Append(q, b)) = ToSet(q) \cup {b}
    BY <1>2, AppendToSet
  <1>4. \A t : t = Append(q, b) =>
          \A k \in 1..Len(t) : \A j \in 1..(k - 1) : t[j] < t[k] \/ (t[j] = t[k] /\ t[j] \in again')
    BY <1>2, InOrderStill DEF Ahead
  <1>5. Ordered(sess[w].buffer)'
    BY <1>4 DEF Ordered, Before
  <1>6. ToSet(sess'[w].buffer) \subseteq 1..taken'
    <2>1. ToSet(q) \subseteq 1..taken'
      BY DEF Ahead
    <2>2. QED  BY <1>3, <2>1
  <1>7. \A nm \in Numbered(dir') : \A x \in ToSet(dir'[nm].batches), y \in ToSet(sess'[w].buffer) : x < y
    BY <1>1, <1>3 DEF Ahead
  <1>8. Past(sess[w].name)'
    BY <1>1 DEF Ahead, Past
  <1>9. QED  BY <1>5, <1>6, <1>7, <1>8 DEF Ahead

\* And it has the shards' schema: its own, or that of its first batch.
LEMMA AcceptsSchema ==
  ASSUME IInv, ShardsInv, NEW w \in Writers, sess[w].pc = "open", NoNewShard,
         NEW sc \in Schemas, Fits(sess[w], sc)
  PROVE  \A nm \in ShardNames(dir') : dir'[nm].schema = sc
  <1>1. OneSchema(w) /\ ShardsHold
    BY AtWork
  <1>2. \A nm \in ShardNames(dir) : dir[nm].schema = sess[w].schema /\ dir[nm].schema \in Schemas
    BY <1>1 DEF OneSchema, ShardsHold
  <1>3. QED  BY <1>2, NoneAssumption DEF Fits, NoNewShard

\* A step that takes a batch, new or again.
LEMMA TakesAhead ==
  ASSUME IInv, ShardsInv, NEW w \in Writers, sess[w].pc = "open", NEW sc \in Schemas,
         Fits(sess[w], sc), NEW b, NEW t, Become(w, t),
         t.buffer = Append(sess[w].buffer, b), t.name = sess[w].name, t.schema = sc,
         t.pc \in {"open", "flush", "copying"}, t.pc = "copying" => t.size = source,
         NoNewShard, source' = source,
         \/ b = taken + 1 /\ taken' = b /\ again' = again
         \/ /\ b = Last(sess[w].buffer) /\ sess[w].buffer # <<>>
            /\ taken' = taken /\ again' = again \cup {b}
  PROVE  ShardsInv'
  <1> DEFINE q == sess[w].buffer
  <1>1. /\ Ahead(w) /\ ShardsHold /\ source \in Nat /\ taken \in Nat /\ q \in Seq(Nat)
        /\ \A v \in Writers : v # w => sess[v] = NoSession
    BY AtWork
  <1>2. sess'[w] = t
    BY Became
  <1>3. taken' \in Nat /\ taken <= taken' /\ again \subseteq again'
    BY <1>1
  <1>4. ShardsHold'
    BY <1>1, <1>3, ShardsHoldOn
  <1>5. /\ b \in 1..taken'
        /\ \A y \in ToSet(q) : y < b \/ (y <= b /\ b \in again')
        /\ \A nm \in Numbered(dir) : \A x \in ToSet(dir[nm].batches) : x < b
    <2>1. ToSet(q) \subseteq 1..taken
      BY <1>1 DEF Ahead
    <2>2. \A nm \in Numbered(dir) : ToSet(dir[nm].batches) \subseteq 1..taken
      BY <1>1 DEF ShardsHold, Numbered
    <2>3. CASE b = taken + 1 /\ taken' = b
      <3>1. \A y \in 1..taken : y < b
        BY <1>1, <2>3
      <3>2. b \in 1..taken'
        BY <1>1, <2>3
      <3>3. QED  BY <2>1, <2>2, <3>1, <3>2
    <2>4. CASE b = Last(q) /\ q # <<>> /\ taken' = taken /\ again' = again \cup {b}
      <3>1. /\ Len(q) \in Nat /\ Len(q) > 0 /\ b = q[Len(q)] /\ DOMAIN q = 1..Len(q)
            /\ \A k \in 1..Len(q) : q[k] \in Nat
        BY <1>1, <2>4, SMTT(40) DEF Last
      <3>2. b \in ToSet(q)
        BY <3>1 DEF ToSet
      <3>3. ASSUME NEW y \in ToSet(q)
            PROVE  y <= b
        <4>1. PICK k \in 1..Len(q) : y = q[k]
          BY <3>1 DEF ToSet
        <4>2. CASE k = Len(q)
          BY <3>1, <4>1, <4>2
        <4>3. CASE k # Len(q)
          <5> DEFINE l == Len(q)
          <5>1. l \in 1..l /\ k \in 1..(l - 1)
            BY <3>1, <4>3
          <5>2. Before(q[k], q[l])
            BY <1>1, <5>1 DEF Ahead, Ordered
          <5>3. q[k] \in Nat /\ q[l] \in Nat
            BY <3>1, <5>1
          <5>4. QED  BY <3>1, <4>1, <5>2, <5>3 DEF Before
        <4>4. QED  BY <4>2, <4>3
      <3>4. \A nm \in Numbered(dir) : \A x \in ToSet(dir[nm].batches) : x < b
        BY <1>1, <3>2 DEF Ahead
      <3>5. QED  BY <2>1, <2>4, <3>2, <3>3, <3>4
    <2>5. QED  BY <2>3, <2>4
  <1>6. Ahead(w)'
    BY <1>1, <1>2, <1>3, <1>5, AcceptsAhead
  <1>7. \A nm \in ShardNames(dir') : dir'[nm].schema = sc
    BY AcceptsSchema
  <1>8. OneSchema(w)'
    BY <1>1, <1>2, <1>7 DEF OneSchema
  <1>9. QED  BY <1>1, <1>4, <1>6, <1>8, OneMoved

LEMMA WriteAhead ==
  ASSUME IInv, ShardsInv, NEW w \in Writers, Write(w)
  PROVE  ShardsInv'
  <1> DEFINE s == sess[w]
             b == taken + 1
             t(sc) == WithBatch(s, b, sc)
  <1>1. PICK sc \in Schemas : Fits(s, sc) /\ Become(w, t(sc))
    BY DEF Write
  <1>2. /\ s.pc = "open" /\ taken' = b /\ UNCHANGED <<dir, source, again>>
    BY DEF Write
  <1>3. DOMAIN s = Fields /\ s.buffer \in Seq(Nat) /\ b \in Nat
    BY <1>2, AtWork
  <1>4. t(sc).schema = sc /\ t(sc).name = s.name /\ t(sc).buffer = Append(s.buffer, b)
    BY <1>3, WithBatchSchema
  <1>5. t(sc).pc \in {"open", "flush"}
    BY <1>2, <1>3, WithBatchFacts
  <1>6. NoNewShard
    BY <1>2 DEF NoNewShard
  <1> HIDE DEF t
  <1>7. QED  BY <1>1, <1>2, <1>4, <1>5, <1>6, TakesAhead

LEMMA RetryWriteAhead ==
  ASSUME IInv, ShardsInv, NEW w \in Writers, RetryWrite(w)
  PROVE  ShardsInv'
  <1> DEFINE s == sess[w]
             b == Last(s.buffer)
             t == WithBatch(s, b, s.schema)
  <1>1. /\ s.pc = "open" /\ s.then = "write" /\ Become(w, t) /\ again' = again \cup {b}
        /\ UNCHANGED <<dir, source, taken>>
    BY DEF RetryWrite
  <1>2. Working(w) /\ OneSchema(w) /\ DOMAIN s = Fields /\ s.buffer \in Seq(Nat)
    BY <1>1, AtWork, Alone
  <1>3. s.buffer # <<>> /\ s.schema \in Schemas /\ Fits(s, s.schema)
    BY <1>1, <1>2 DEF Working, OneSchema, Fits
  <1>4. b \in Nat
    BY <1>2, <1>3 DEF Last
  <1>5. t.schema = s.schema /\ t.name = s.name /\ t.buffer = Append(s.buffer, b)
    BY <1>2, WithBatchSchema
  <1>6. t.pc \in {"open", "flush"}
    BY <1>1, <1>2, <1>4, WithBatchFacts
  <1>7. NoNewShard
    BY <1>1 DEF NoNewShard
  <1> HIDE DEF t, b
  <1>8. b = Last(s.buffer)
    BY DEF b
  <1>9. QED  BY <1>1, <1>3, <1>5, <1>6, <1>7, <1>8, TakesAhead

LEMMA AppendDataAhead ==
  ASSUME IInv, ShardsInv, NEW w \in Writers, AppendData(w)
  PROVE  ShardsInv'
  <1> DEFINE s == sess[w]
             b == taken + 1
             u(sc) == WithBatch(s, b, sc)
             t(sc) == [u(sc) EXCEPT !.pc = "flush", !.then = "close"]
  <1>1. PICK sc \in Schemas : Fits(s, sc) /\ Become(w, t(sc))
    BY DEF AppendData
  <1>2. /\ s.pc = "open" /\ taken' = b /\ UNCHANGED <<dir, source, again>>
    BY DEF AppendData
  <1>3. DOMAIN s = Fields
    BY <1>2, AtWork
  <1>4. /\ u(sc).schema = sc /\ u(sc).name = s.name /\ u(sc).buffer = Append(s.buffer, b)
        /\ DOMAIN u(sc) = Fields
    BY <1>3, WithBatchSchema
  <1> HIDE DEF u
  <1>5. /\ t(sc).schema = sc /\ t(sc).name = s.name /\ t(sc).buffer = Append(s.buffer, b)
        /\ t(sc).pc = "flush"
    BY <1>4 DEF Fields
  <1>6. NoNewShard
    BY <1>2 DEF NoNewShard
  <1> HIDE DEF t
  <1>7. QED  BY <1>1, <1>2, <1>5, <1>6, TakesAhead

LEMMA AppendFileAhead ==
  ASSUME IInv, ShardsInv, NEW w \in Writers, AppendFile(w)
  PROVE  ShardsInv'
  <1> DEFINE s == sess[w]
             b == taken + 1
             u(sc) == WithBatch(s, b, sc)
             t(sc) == [u(sc) EXCEPT !.pc = "copying", !.then = "close", !.size = source]
  <1>1. PICK sc \in Schemas : Fits(s, sc) /\ Become(w, t(sc))
    BY DEF AppendFile
  <1>2. /\ s.pc = "open" /\ taken' = b /\ UNCHANGED <<source, again>>
    BY DEF AppendFile
  <1>3. DOMAIN s = Fields
    BY <1>2, AtWork
  <1>4. /\ u(sc).schema = sc /\ u(sc).name = s.name /\ u(sc).buffer = Append(s.buffer, b)
        /\ DOMAIN u(sc) = Fields
    BY <1>3, WithBatchSchema
  <1> HIDE DEF u
  <1>5. /\ t(sc).schema = sc /\ t(sc).name = s.name /\ t(sc).buffer = Append(s.buffer, b)
        /\ t(sc).pc = "copying" /\ t(sc).size = source
    BY <1>4 DEF Fields
  <1>6. NoNewShard
    BY TempMakesNoShard, Kinds DEF AppendFile, BuiltAt
  <1> HIDE DEF t
  <1>7. QED  BY <1>1, <1>2, <1>5, <1>6, TakesAhead

------------------------------------------------------------------------------
(* The steps that fill a shard and publish it *)

\* The temporary has the session's schema, and all of its rows.
LEMMA FilledAhead ==
  ASSUME IInv, ShardsInv, NEW w \in Writers, sess[w].pc \in {"filling", "copying"}, NEW whole,
         Become(w, [sess[w] EXCEPT !.pc = "filled"]),
         dir' = With(dir, BuiltAt(w, sess[w].name), Content(sess[w].buffer, sess[w].schema, whole)), SourceQuiet => whole,
         UNCHANGED <<source, taken, again>>
  PROVE  ShardsInv'
  <1> DEFINE s == sess[w]
             t == [s EXCEPT !.pc = "filled"]
             c == Content(s.buffer, s.schema, whole)
  <1>1. /\ Ahead(w) /\ OneSchema(w) /\ ShardsHold /\ taken \in Nat /\ DOMAIN s = Fields
        /\ \A v \in Writers : v # w => sess[v] = NoSession
    BY AtWork
  <1>2. t.pc = "filled" /\ t.buffer = s.buffer /\ t.name = s.name /\ t.schema = s.schema
    BY <1>1 DEF Fields
  <1>3. sess'[w] = t /\ Become(w, t)
    BY Became
  <1>4. NoNewShard
    BY TempMakesNoShard, Kinds DEF BuiltAt
  <1>5. dir'[Temp(w)] = c /\ c.schema = s.schema /\ c.whole = whole
    BY DEF With, BuiltAt, Content
  <1> HIDE DEF t, c
  <1>6. ShardsHold'
    BY <1>1, <1>4, ShardsHoldOn
  <1>7. Ahead(w)'
    BY <1>1, <1>2, <1>3, <1>4, StaysAhead DEF Ahead
  <1>8. OneSchema(w)'
    BY <1>1, <1>2, <1>3, <1>4, <1>5 DEF OneSchema, NoNewShard
  <1>9. QED  BY <1>1, <1>3, <1>6, <1>7, <1>8, OneMoved

LEMMA FillShardAhead ==
  ASSUME IInv, ShardsInv, NEW w \in Writers, FillShard(w)
  PROVE  ShardsInv'
  BY FilledAhead DEF FillShard

LEMMA CopyBytesAhead ==
  ASSUME IInv, ShardsInv, NEW w \in Writers, CopyBytes(w)
  PROVE  ShardsInv'
  <1>1. sess[w].pc = "copying"
    BY DEF CopyBytes
  <1>3. SourceQuiet => source <= sess[w].size
    BY <1>1, AtWork DEF OneSchema
  <1>4. QED  BY <1>1, <1>3, FilledAhead DEF CopyBytes


\* What the published shard is, and that it is the only one that is new.
LEMMA PublishedFacts ==
  ASSUME IInv, NEW w \in Writers, Publish(w)
  PROVE  /\ sess[w].pc = "filled" /\ sess[w].name.kind = "shard"
         /\ sess[w].name \in ShardNames(dir')
         /\ dir'[sess[w].name] = dir[Temp(w)] /\ dir[Temp(w)].batches = sess[w].buffer
         /\ \A nm \in ShardNames(dir') : nm = sess[w].name \/ (nm \in ShardNames(dir) /\ dir'[nm] = dir[nm])
  <1> DEFINE s == sess[w]
             d == Without(dir, Temp(w))
  <1>1. s.pc = "filled" /\ dir' = With(d, s.name, dir[Temp(w)])
    BY DEF Publish, BuiltAt
  <1>2. /\ s.name.kind = "shard" /\ s.name \notin DOMAIN dir
        /\ dir[Temp(w)].batches = s.buffer
    BY <1>1, Alone DEF Working
  <1>3. /\ DOMAIN dir' = (DOMAIN dir \ {Temp(w)}) \cup {s.name}
        /\ ShardsStay
    BY PublishFacts
  <1>4. dir'[s.name] = dir[Temp(w)]
    BY <1>1 DEF With
  <1>5. \A nm \in ShardNames(dir') : nm = s.name \/ nm \in ShardNames(dir)
    BY <1>3 DEF ShardNames
  <1>6. s.name \in ShardNames(dir')
    BY <1>2, <1>3 DEF ShardNames
  <1>7. QED  BY <1>1, <1>2, <1>3, <1>4, <1>5, <1>6 DEF ShardsStay

\* The shards are in order and alike with the one that is published, whose
\* batches are younger and whose number is past those of the rest.
LEMMA PublishedInOrder ==
  ASSUME IInv, ShardsInv, NEW w \in Writers, Publish(w)
  PROVE  /\ ShardsHold'
         /\ \A nm \in ShardNames(dir') : dir'[nm].schema = sess[w].schema
  <1> DEFINE s == sess[w]
             new == s.name
  <1>1. /\ s.pc = "filled" /\ new \in ShardNames(dir')
        /\ dir'[new] = dir[Temp(w)] /\ dir[Temp(w)].batches = s.buffer
        /\ \A nm \in ShardNames(dir') : nm = new \/ (nm \in ShardNames(dir) /\ dir'[nm] = dir[nm])
    BY PublishedFacts
  <1>2. Ahead(w) /\ OneSchema(w) /\ ShardsHold /\ taken \in Nat
    BY <1>1, AtWork
  <1>3. taken' = taken /\ again' = again
    BY DEF Publish
  <1>4. dir'[new].batches = s.buffer /\ (SourceQuiet => dir'[new].whole) /\ dir'[new].schema = s.schema /\ s.schema \in Schemas
    BY <1>1, <1>2 DEF OneSchema
  <1>5. \A nm \in ShardNames(dir) : dir[nm].schema = s.schema
    BY <1>1, <1>2 DEF OneSchema
  <1>6. \A nm \in ShardNames(dir') : dir'[nm].schema = s.schema
    BY <1>1, <1>4, <1>5
  <1>7. IsName(new) /\ Past(new)
    BY <1>2 DEF Ahead, Past, IsName
  <1>8. \A nm \in Numbered(dir') :
          \/ nm \in Numbered(dir) /\ dir'[nm] = dir[nm]
          \/ nm = new /\ nm # Literal
    BY <1>1 DEF Numbered
  <1>9. \E k \in Nat : \A nm \in Numbered(dir') : nm.place <= k
    <2>1. PICK k \in Nat : \A nm \in Numbered(dir) : nm.place <= k
      BY <1>2 DEF ShardsHold
    <2>2. CASE new = Literal
      BY <1>8, <2>1, <2>2
    <2>3. CASE new # Literal
      <3>1. PICK j \in Nat : new = Shard(j) /\ \A nm \in Numbered(dir) : nm.place <= j
        BY <1>7, <2>3 DEF Past
      <3>2. new.place = j + 1
        BY <3>1, NamePlaces
      <3>3. \A nm \in Numbered(dir) : nm.place \in Nat
        BY <1>2, NamePlaces DEF ShardsHold, Numbered
      <3>4. \A nm \in Numbered(dir') : nm.place <= j + 1
        BY <1>8, <3>1, <3>2, <3>3
      <3>5. j + 1 \in Nat
        OBVIOUS
      <3>6. QED  BY <3>4, <3>5
    <2>4. QED  BY <2>2, <2>3
  <1>10. RowsInOrder'
    <2>1. ASSUME NEW nm \in Numbered(dir')
          PROVE  (Ordered(dir[nm].batches))'
      <3>1. Ordered(dir[nm].batches) \/ dir'[nm].batches = s.buffer
        BY <1>2, <1>4, <1>8, <2>1 DEF ShardsHold, RowsInOrder, Ordered
      <3>2. Ordered(s.buffer)
        BY <1>2 DEF Ahead
      <3>3. CASE dir'[nm].batches = s.buffer
        BY <1>3, <3>2, <3>3 DEF Ordered, Before
      <3>4. CASE dir'[nm].batches # s.buffer
        BY <1>3, <1>4, <1>8, <2>1, <3>1, <3>4 DEF Ordered, Before
      <3>5. QED  BY <3>3, <3>4
    <2>2. ASSUME NEW a \in Numbered(dir'), NEW b \in Numbered(dir'), a.place < b.place
          PROVE  \A x \in ToSet(dir'[a].batches), y \in ToSet(dir'[b].batches) :
                   x < y \/ (x = y /\ x \in again')
      <3>1. CASE a # new /\ b # new
        BY <1>2, <1>3, <1>8, <2>2, <3>1 DEF ShardsHold, RowsInOrder, Before
      <3>2. CASE a # new /\ b = new
        BY <1>2, <1>4, <1>8, <3>2 DEF Ahead
      <3>3. CASE a = new
        <4>1. PICK k \in Nat : new = Shard(k) /\ \A nm \in Numbered(dir) : nm.place <= k
          BY <1>7, <1>8, <3>3 DEF Past, Numbered
        <4>2. new.place = k + 1
          BY <4>1, NamePlaces
        <4>3. b \in Numbered(dir)
          BY <1>8, <2>2, <3>3, <4>2
        <4>4. b.place <= k /\ b.place \in Nat
          BY <1>2, <4>1, <4>3, NamePlaces DEF ShardsHold, Numbered
        <4>5. QED  BY <2>2, <3>3, <4>2, <4>4
      <3>4. QED  BY <3>1, <3>2, <3>3
    <2>3. QED  BY <2>1, <2>2 DEF RowsInOrder, Ordered, Before
  <1>11. ASSUME NEW nm \in ShardNames(dir')
         PROVE  /\ IsName(nm)
                /\ ToSet(dir'[nm].batches) \subseteq 1..taken'
                /\ SourceQuiet => dir'[nm].whole
                /\ dir'[nm].schema \in Schemas
                /\ \A x \in ShardNames(dir') : dir'[nm].schema = dir'[x].schema
    <2>1. CASE nm = new
      BY <1>2, <1>3, <1>4, <1>6, <1>7, <2>1 DEF Ahead
    <2>2. CASE nm # new
      BY <1>1, <1>2, <1>3, <1>6, <2>2 DEF ShardsHold
    <2>3. QED  BY <2>1, <2>2
  <1>12. ShardsHold'
    BY <1>9, <1>10, <1>11 DEF ShardsHold
  <1>13. QED  BY <1>6, <1>12

LEMMA PublishAhead ==
  ASSUME IInv, ShardsInv, NEW w \in Writers, Publish(w)
  PROVE  ShardsInv'
  <1> DEFINE s == sess[w]
             t == [s EXCEPT !.pc = "open", !.then = "none", !.name = Literal, !.buffer = <<>>,
                            !.made = TRUE]
  <1>1. s.pc = "filled" /\ source' = source
    BY DEF Publish
  <1>2. /\ OneSchema(w) /\ DOMAIN s = Fields
        /\ \A v \in Writers : v # w => sess[v] = NoSession
    BY <1>1, AtWork
  <1>3. ShardsHold' /\ \A nm \in ShardNames(dir') : dir'[nm].schema = s.schema
    BY PublishedInOrder
  <1>4. CASE s.then = "close"
    <2>1. Become(w, NoSession)
      BY <1>4 DEF Publish, Leave
    <2>2. QED  BY <1>1, <1>2, <1>3, <2>1, OneMoved
  <1>5. CASE s.then # "close"
    <2>1. Become(w, t)
      BY <1>5 DEF Publish
    <2>2. t.pc = "open" /\ t.name = Literal /\ t.buffer = <<>> /\ t.schema = s.schema
      BY <1>2 DEF Fields
    <2>3. sess'[w] = t
      BY <2>1, Became
    <2>4. ToSet(<<>>) = {} /\ Len(<<>>) = 0
      BY DEF ToSet
    <2>5. Ordered(<<>>)'
      BY <2>4 DEF Ordered
    <2> HIDE DEF t
    <2>6. Ahead(w)'
      BY <2>2, <2>3, <2>4, <2>5 DEF Ahead, Past
    <2>7. OneSchema(w)'
      BY <1>2, <1>3, <2>2, <2>3 DEF OneSchema
    <2>8. QED  BY <1>1, <1>2, <1>3, <2>1, <2>6, <2>7, OneMoved
  <1>6. QED  BY <1>4, <1>5

------------------------------------------------------------------------------
(* Every step *)

LEMMA SessionAhead ==
  ASSUME IInv, ShardsInv, NEW w \in Writers, Session(w)
  PROVE  ShardsInv'
  BY AcquireAhead, ReadSchemaAhead, WriteAhead, RetryWriteAhead, FlushAhead, AppendDataAhead,
     AppendFileAhead, CopyBytesAhead, StartShardAhead, FillShardAhead, PublishAhead,
     FlushFailsAhead, CloseAhead, AppendFailsAhead, CrashAhead
     DEF Session

\* A shard less is no matter.
LEMMA DeleteAhead ==
  ASSUME IInv, ShardsInv, Delete
  PROVE  ShardsInv'
  <1>1. PICK nm \in ShardNames(dir) : dir' = Without(dir, nm)
    BY DEF Delete
  <1>2. UNCHANGED <<sess, source, taken, again>>
    BY DEF Delete
  <1>3. /\ nm.kind = "shard" /\ DOMAIN dir' = DOMAIN dir \ {nm}
        /\ \A x \in DOMAIN dir : x # nm => dir'[x] = dir[x]
    BY <1>1 DEF ShardNames, Without
  <1>4. NoNewShard
    BY <1>3 DEF NoNewShard, ShardNames
  <1>5. ShardsHold'
    BY <1>2, <1>4, ShardsHoldOn DEF IInv, ShardsInv
  <1>6. ASSUME NEW w \in Writers, sess[w].pc # "idle"
        PROVE  (Ahead(w) /\ OneSchema(w))'
    <2>1. Ahead(w) /\ OneSchema(w) /\ Working(w)
      BY <1>6, AtWork, Alone
    <2>2. \A x \in Numbered(dir') : x \in Numbered(dir) /\ dir'[x] = dir[x]
      BY <1>4 DEF NoNewShard, Numbered
    <2>3. Past(sess[w].name)' /\ Ordered(sess[w].buffer)'
      BY <1>2, <2>1, <2>2 DEF Ahead, Past, Ordered, Before
    <2>4. Ahead(w)'
      BY <1>2, <2>1, <2>2, <2>3 DEF Ahead
    <2>5. sess[w].pc = "filled" => dir'[Temp(w)] = dir[Temp(w)]
      BY <1>3, <2>1, Kinds DEF Working
    <2>6. OneSchema(w)'
      BY <1>2, <1>4, <2>1, <2>5 DEF OneSchema, NoNewShard
    <2>7. QED  BY <2>4, <2>6
  <1>7. QED  BY <1>2, <1>5, <1>6 DEF ShardsInv

\* A file that is being copied is quiet, if any is.
LEMMA CommitAhead ==
  ASSUME IInv, ShardsInv, CommitToSource
  PROVE  ShardsInv'
  <1>1. source' = source + 1 /\ UNCHANGED <<dir, sess, taken, again>>
    BY DEF CommitToSource
  <1>2. SourceQuiet => \A w \in Writers : sess[w].pc # "copying"
    BY DEF CommitToSource
  <1>3. NoNewShard
    BY <1>1 DEF NoNewShard
  <1>4. ShardsHold'
    BY <1>1, <1>3, ShardsHoldOn DEF IInv, ShardsInv
  <1>5. ASSUME NEW w \in Writers, sess[w].pc # "idle"
        PROVE  (Ahead(w) /\ OneSchema(w))'
    BY <1>1, <1>2, <1>5 DEF ShardsInv, Ahead, OneSchema, Past, Ordered, Before, Numbered, ShardNames
  <1>6. QED  BY <1>1, <1>4, <1>5 DEF ShardsInv

LEMMA QuietAhead ==
  ASSUME ShardsInv, UNCHANGED <<dir, sess, source, taken, again>>
  PROVE  ShardsInv'
  BY DEF ShardsInv, ShardsHold, RowsInOrder, Ahead, OneSchema, Past, Ordered, Before, Numbered, ShardNames

LEMMA ShardsInvInit ==
  ASSUME Init
  PROVE  ShardsInv
  <1>1. DOMAIN dir = {}
    BY DEF Init
  <1>2. ShardNames(dir) = {} /\ Numbered(dir) = {}
    BY <1>1 DEF ShardNames, Numbered
  <1>3. \A w \in Writers : sess[w].pc = "idle"
    BY DEF Init, NoSession
  <1>4. 0 \in Nat /\ source = 0
    BY DEF Init
  <1>5. QED  BY <1>2, <1>3, <1>4 DEF ShardsInv, ShardsHold, RowsInOrder

LEMMA ShardsInvStep ==
  ASSUME IInv, ShardsInv, [Next]_vars
  PROVE  ShardsInv'
  <1>1. CASE \E w \in Writers : Session(w)
    BY <1>1, SessionAhead
  <1>2. CASE Delete
    BY <1>2, DeleteAhead
  <1>3. CASE CommitToSource
    BY <1>3, CommitAhead
  <1>4. CASE (\E r \in Readers : Reading(r)) \/ UNCHANGED vars
    <2>1. UNCHANGED <<dir, sess, source, taken, again>>
      BY <1>4 DEF Reading, List, Listed, ReadHead, WalkIndex, MapRows, Combine, CloseReader, vars
    <2>2. QED  BY <2>1, QuietAhead
  <1>5. QED  BY <1>1, <1>2, <1>3, <1>4 DEF Next


------------------------------------------------------------------------------
(* Readers *)

\* What a step outside the readers leaves each reader to find.
LEMMA StillFinds ==
  ASSUME NEW r, Finds(r), rd' = rd, gone \subseteq gone',
         \A nm \in ShardNames(dir) : \/ nm \in ShardNames(dir') /\ dir'[nm] = dir[nm]
                                     \/ ToSet(dir[nm].batches) \subseteq gone'
  PROVE  Finds(r)'
  <1>1. ASSUME NEW names, NEW b, b \notin gone', In(dir, names \cap ShardNames(dir), b)
        PROVE  In(dir', names \cap ShardNames(dir'), b)
    <2>1. PICK nm \in names \cap ShardNames(dir) : b \in ToSet(dir[nm].batches)
      BY <1>1 DEF In
    <2>2. nm \in ShardNames(dir') /\ dir'[nm] = dir[nm]
      BY <1>1, <2>1
    <2>3. QED  BY <2>1, <2>2 DEF In
  <1>2. \A b \in rd[r].due \ gone' : b \in rd[r].due \ gone
    OBVIOUS
  <1>3. rd[r].pc = "listing" =>
          \A b \in rd[r].due \ gone' : In(dir', rd[r].low \cap ShardNames(dir'), b)
    BY <1>1, <1>2 DEF Finds
  <1>4. rd[r].pc \in {"opening", "open"} =>
          \A b \in rd[r].due \ gone' : \/ In(dir', rd[r].todo \cap ShardNames(dir'), b)
                                       \/ In(rd[r].opened, DOMAIN rd[r].opened, b)
    BY <1>1, <1>2 DEF Finds
  <1>5. QED  BY <1>3, <1>4 DEF Finds

\* A reader between two opens has a name to open.
LEMMA NextName ==
  ASSUME NEW r, Opening(r), rd[r].todo # {}
  PROVE  First(rd[r].todo) \in rd[r].todo /\ First(rd[r].todo).kind = "shard"
  <1>1. First(rd[r].todo) \in rd[r].todo
    BY FirstIsThere DEF Opening
  <1>2. IsName(First(rd[r].todo))
    BY <1>1 DEF Opening
  <1>3. QED  BY <1>1, <1>2, Kinds DEF IsName

\* Nor does it come between the opens of a name, unless it makes that name's shard.
LEMMA StillOpening ==
  ASSUME NEW r \in Readers, Opening(r), rd' = rd,
         \A nm \in ShardNames(dir') : \/ nm \in ShardNames(dir) /\ dir'[nm] = dir[nm]
                                      \/ NamesNotReused => ~BeingOpened(nm)
  PROVE  Opening(r)'
  <1> DEFINE nm == First(rd[r].todo)
  <1>1. ASSUME NamesNotReused, NEW c \in {rd[r].head, rd[r].index} \ {None}, nm \in DOMAIN dir'
        PROVE  c = dir'[nm]
    <2>1. rd[r].head # None
      BY <1>1 DEF Opening
    <2>2. nm.kind = "shard"
      BY <2>1, NextName DEF Opening
    <2>3. nm \in ShardNames(dir')
      BY <1>1, <2>2 DEF ShardNames
    <2>4. BeingOpened(nm)
      BY <2>1 DEF BeingOpened
    <2> HIDE DEF nm
    <2>5. nm \in ShardNames(dir) /\ dir'[nm] = dir[nm]
      BY <1>1, <2>3, <2>4
    <2>6. nm \in DOMAIN dir
      BY <2>5 DEF ShardNames
    <2>7. c = dir[nm]
      BY <1>1, <2>6 DEF Opening, nm
    <2>8. QED  BY <2>5, <2>7
  <1>2. QED  BY <1>1 DEF Opening

\* No reader but r has moved.
LEMMA OthersFind ==
  ASSUME ReadersInv, NEW r \in Readers, NEW new, rd' = [rd EXCEPT ![r] = new],
         UNCHANGED <<dir, gone>>, Opening(r)', Finds(r)'
  PROVE  ReadersInv'
  <1>1. DOMAIN rd' = Readers /\ \A q \in Readers : q # r => rd'[q] = rd[q]
    BY DEF ReadersInv
  <1>2. \A q \in Readers : q # r => Finds(q)'
    BY <1>1 DEF ReadersInv, Finds
  <1>3. \A q \in Readers : q # r => Opening(q)'
    BY <1>1 DEF ReadersInv, Opening
  <1>4. QED  BY <1>1, <1>2, <1>3 DEF ReadersInv

\* A reader that moves, before and after.
LEMMA Moves ==
  ASSUME ReadersInv, NEW r \in Readers, NEW new, rd' = [rd EXCEPT ![r] = new]
  PROVE  /\ rd'[r] = new /\ Opening(r) /\ Finds(r)
         /\ DOMAIN rd[r] = {"pc", "due", "low", "todo", "head", "index", "opened"}
  BY DEF ReadersInv, Opening

LEMMA ListFinds ==
  ASSUME IInv, ShardsInv, ReadersInv, NEW r \in Readers, List(r)
  PROVE  ReadersInv'
  <1> DEFINE d == rd[r]
             new == [d EXCEPT !.pc = "listing", !.low = ShardNames(dir), !.due = kept \ gone]
  <1>1. rd' = [rd EXCEPT ![r] = new] /\ UNCHANGED <<dir, gone>> /\ d.pc = "idle"
    BY DEF List
  <1>2. /\ rd'[r] = new /\ Opening(r)
        /\ DOMAIN d = {"pc", "due", "low", "todo", "head", "index", "opened"}
    BY <1>1, Moves
  <1>3. /\ DOMAIN new = {"pc", "due", "low", "todo", "head", "index", "opened"}
        /\ new.pc = "listing" /\ new.low = ShardNames(dir) /\ new.due = kept \ gone
        /\ new.todo = d.todo /\ new.head = d.head /\ new.index = d.index /\ new.opened = d.opened
    BY <1>2
  <1> HIDE DEF new
  <1>4. \A b \in kept \ gone : In(dir, ShardNames(dir), b)
    BY DEF IInv, ClosedIsStored, Stored, In
  <1>5. Finds(r)'
    BY <1>1, <1>2, <1>3, <1>4 DEF Finds
  <1>6. d.todo = {} /\ d.head = None /\ d.index = None /\ DOMAIN d.opened = {}
    BY <1>1, <1>2 DEF Opening
  <1>7. \A nm \in ShardNames(dir) : IsName(nm)
    BY DEF ShardsInv, ShardsHold
  <1>8. Opening(r)'
    BY <1>1, <1>2, <1>3, <1>6, <1>7 DEF Opening
  <1>9. QED  BY <1>1, <1>5, <1>8, OthersFind

LEMMA ListedFinds ==
  ASSUME ShardsInv, ReadersInv, NEW r \in Readers, Listed(r)
  PROVE  ReadersInv'
  <1> DEFINE d == rd[r]
  <1>1. PICK names \in SUBSET (d.low \cup ShardNames(dir)) :
          /\ d.low \cap ShardNames(dir) \subseteq names
          /\ rd' = [rd EXCEPT ![r].pc = "opening", ![r].low = {}, ![r].todo = names]
    BY DEF Listed
  <1> DEFINE new == [d EXCEPT !.pc = "opening", !.low = {}, !.todo = names]
  <1>2. rd' = [rd EXCEPT ![r] = new] /\ UNCHANGED <<dir, gone>> /\ d.pc = "listing"
    BY <1>1 DEF Listed
  <1>3. /\ rd'[r] = new /\ Opening(r) /\ Finds(r)
        /\ DOMAIN d = {"pc", "due", "low", "todo", "head", "index", "opened"}
    BY <1>2, Moves
  <1>4. /\ DOMAIN new = {"pc", "due", "low", "todo", "head", "index", "opened"}
        /\ new.pc = "opening" /\ new.low = {} /\ new.due = d.due
        /\ new.todo = names /\ new.head = d.head /\ new.index = d.index /\ new.opened = d.opened
    BY <1>3
  <1> HIDE DEF new
  <1>5. ASSUME NEW b \in d.due \ gone
        PROVE  In(dir, names \cap ShardNames(dir), b)
    <2>1. In(dir, d.low \cap ShardNames(dir), b)
      BY <1>2, <1>3 DEF Finds
    <2>2. QED  BY <1>1, <2>1 DEF In
  <1>6. Finds(r)'
    BY <1>2, <1>3, <1>4, <1>5 DEF Finds
  <1>7. d.head = None /\ d.index = None /\ DOMAIN d.opened = {}
    BY <1>2, <1>3 DEF Opening
  <1>8. \A nm \in names : IsName(nm)
    BY <1>1, <1>3 DEF ShardsInv, ShardsHold, Opening
  <1>9. Opening(r)'
    BY <1>2, <1>3, <1>4, <1>7, <1>8 DEF Opening
  <1>10. QED  BY <1>2, <1>6, <1>9, OthersFind

\* The first two opens of a name find the same, if the second finds anything.
LEMMA ReadHeadFinds ==
  ASSUME ReadersInv, NEW r \in Readers, ReadHead(r)
  PROVE  ReadersInv'
  <1> DEFINE d == rd[r]
             nm == First(d.todo)
             new == [d EXCEPT !.head = dir[nm]]
  <1>1. /\ rd' = [rd EXCEPT ![r] = new] /\ UNCHANGED <<dir, gone>>
        /\ d.pc = "opening" /\ d.todo # {} /\ nm \in DOMAIN dir /\ d.head = None
    BY DEF ReadHead, Opens
  <1>2. /\ rd'[r] = new /\ Opening(r) /\ Finds(r)
        /\ DOMAIN d = {"pc", "due", "low", "todo", "head", "index", "opened"}
    BY <1>1, Moves
  <1>3. /\ DOMAIN new = {"pc", "due", "low", "todo", "head", "index", "opened"}
        /\ new.pc = d.pc /\ new.low = d.low /\ new.due = d.due /\ new.todo = d.todo
        /\ new.head = dir[nm] /\ new.index = d.index /\ new.opened = d.opened
    BY <1>2
  <1> HIDE DEF new
  <1>4. Finds(r)'
    BY <1>1, <1>2, <1>3 DEF Finds
  <1>5. d.index = None
    BY <1>1, <1>2 DEF Opening
  <1>6. Opening(r)'
    BY <1>1, <1>2, <1>3, <1>5 DEF Opening
  <1>7. QED  BY <1>1, <1>4, <1>6, OthersFind

LEMMA WalkIndexFinds ==
  ASSUME ReadersInv, NEW r \in Readers, WalkIndex(r)
  PROVE  ReadersInv'
  <1> DEFINE d == rd[r]
             nm == First(d.todo)
             new == [d EXCEPT !.index = dir[nm]]
  <1>1. /\ rd' = [rd EXCEPT ![r] = new] /\ UNCHANGED <<dir, gone>>
        /\ d.pc = "opening" /\ d.todo # {} /\ nm \in DOMAIN dir /\ d.head # None
    BY DEF WalkIndex, Opens
  <1>2. /\ rd'[r] = new /\ Opening(r) /\ Finds(r)
        /\ DOMAIN d = {"pc", "due", "low", "todo", "head", "index", "opened"}
    BY <1>1, Moves
  <1>3. /\ DOMAIN new = {"pc", "due", "low", "todo", "head", "index", "opened"}
        /\ new.pc = d.pc /\ new.low = d.low /\ new.due = d.due /\ new.todo = d.todo
        /\ new.head = d.head /\ new.index = dir[nm] /\ new.opened = d.opened
    BY <1>2
  <1> HIDE DEF new
  <1>4. Finds(r)'
    BY <1>1, <1>2, <1>3 DEF Finds
  <1>5. Opening(r)'
    BY <1>1, <1>2, <1>3 DEF Opening
  <1>6. QED  BY <1>1, <1>4, <1>5, OthersFind

\* The third finds the same again, so the rows are where the header says.
LEMMA MapRowsFinds ==
  ASSUME ShardsInv, ReadersInv, NEW r \in Readers, MapRows(r)
  PROVE  ReadersInv'
  <1> DEFINE d == rd[r]
             nm == First(d.todo)
             whole == dir[nm].whole /\ Alike(d.head, d.index) /\ Alike(d.head, dir[nm])
             shown == Content(dir[nm].batches, d.head.schema, whole)
             shards == With(d.opened, nm, shown)
             new == [d EXCEPT !.todo = @ \ {nm}, !.head = None, !.index = None, !.opened = shards]
  <1>1. /\ rd' = [rd EXCEPT ![r] = new] /\ UNCHANGED <<dir, gone>>
        /\ d.pc = "opening" /\ d.todo # {} /\ nm \in DOMAIN dir /\ d.index # None
    BY DEF MapRows, Opens
  <1>2. /\ rd'[r] = new /\ Opening(r) /\ Finds(r)
        /\ DOMAIN d = {"pc", "due", "low", "todo", "head", "index", "opened"}
    BY <1>1, Moves
  <1>3. /\ DOMAIN new = {"pc", "due", "low", "todo", "head", "index", "opened"}
        /\ new.pc = d.pc /\ new.low = d.low /\ new.due = d.due /\ new.todo = d.todo \ {nm}
        /\ new.head = None /\ new.index = None /\ new.opened = shards
    BY <1>2
  <1>4. shown.batches = dir[nm].batches /\ shown.whole = whole
    BY DEF Content
  <1> HIDE DEF new, shown
  <1>5. /\ DOMAIN shards = DOMAIN d.opened \cup {nm} /\ shards[nm] = shown
        /\ \A x \in DOMAIN d.opened : x # nm => shards[x] = d.opened[x]
    BY DEF With
  <1>6. nm \in d.todo /\ nm.kind = "shard" /\ nm \notin DOMAIN d.opened /\ d.head # None
    BY <1>1, <1>2, NextName DEF Opening
  <1> HIDE DEF shards, whole
  <1>7. ASSUME NEW b \in d.due \ gone
        PROVE  \/ In(dir, (d.todo \ {nm}) \cap ShardNames(dir), b)
               \/ In(shards, DOMAIN shards, b)
    <2>1. CASE In(d.opened, DOMAIN d.opened, b)
      BY <1>5, <1>6, <2>1 DEF In
    <2>2. CASE In(dir, d.todo \cap ShardNames(dir), b)
      <3>1. PICK x \in d.todo \cap ShardNames(dir) : b \in ToSet(dir[x].batches)
        BY <2>2 DEF In
      <3>2. CASE x = nm
        <4>1. b \in ToSet(shards[nm].batches)
          BY <1>4, <1>5, <3>1, <3>2
        <4>2. nm \in DOMAIN shards
          BY <1>5
        <4>3. QED  BY <4>1, <4>2 DEF In
      <3>3. CASE x # nm
        BY <3>1, <3>3 DEF In
      <3>4. QED  BY <3>2, <3>3
    <2>3. QED  BY <1>1, <1>2, <2>1, <2>2 DEF Finds
  <1>8. Finds(r)'
    BY <1>1, <1>2, <1>3, <1>7 DEF Finds
  <1>9. ASSUME NamesNotReused, SourceQuiet
        PROVE  \A x \in DOMAIN shards : shards[x].whole
    <2>1. d.head = dir[nm] /\ d.index = dir[nm]
      BY <1>1, <1>2, <1>6, <1>9 DEF Opening
    <2>2. nm \in ShardNames(dir)
      BY <1>1, <1>6 DEF ShardNames
    <2>3. dir[nm].whole
      BY <1>9, <2>2 DEF ShardsInv, ShardsHold
    <2>4. whole
      BY <2>1, <2>3 DEF whole, Alike
    <2>5. \A x \in DOMAIN d.opened : d.opened[x].whole
      BY <1>2, <1>9 DEF Opening
    <2>6. shards[nm].whole
      BY <1>4, <1>5, <2>4
    <2>7. QED  BY <1>5, <1>6, <2>5, <2>6
  <1>10. (d.todo \ {nm}) \cap DOMAIN shards = {}
    BY <1>2, <1>5 DEF Opening
  <1>11. \A x \in d.low \cup (d.todo \ {nm}) : IsName(x)
    BY <1>2 DEF Opening
  <1>12. Opening(r)'
    BY <1>1, <1>2, <1>3, <1>9, <1>10, <1>11 DEF Opening
  <1>13. QED  BY <1>1, <1>8, <1>12, OthersFind

LEMMA CombineFinds ==
  ASSUME ReadersInv, NEW r \in Readers, Combine(r)
  PROVE  ReadersInv'
  <1> DEFINE d == rd[r]
             new == [d EXCEPT !.pc = "open"]
  <1>1. /\ rd' = [rd EXCEPT ![r] = new] /\ UNCHANGED <<dir, gone>>
        /\ d.pc = "opening" /\ d.todo = {}
    BY DEF Combine
  <1>2. /\ rd'[r] = new /\ Opening(r) /\ Finds(r)
        /\ DOMAIN d = {"pc", "due", "low", "todo", "head", "index", "opened"}
    BY <1>1, Moves
  <1>3. /\ DOMAIN new = {"pc", "due", "low", "todo", "head", "index", "opened"}
        /\ new.pc = "open" /\ new.low = d.low /\ new.due = d.due /\ new.todo = d.todo
        /\ new.head = d.head /\ new.index = d.index /\ new.opened = d.opened
    BY <1>2
  <1> HIDE DEF new
  <1>4. Finds(r)'
    BY <1>1, <1>2, <1>3 DEF Finds
  <1>5. Opening(r)'
    BY <1>1, <1>2, <1>3 DEF Opening
  <1>6. QED  BY <1>1, <1>4, <1>5, OthersFind

\* A reader that has nothing open.
LEMMA IdleFinds ==
  ASSUME NEW r, rd[r] = NoReader
  PROVE  Opening(r) /\ Finds(r)
  BY DEF NoReader, Opening, Finds

LEMMA CloseReaderFinds ==
  ASSUME ReadersInv, NEW r \in Readers, CloseReader(r)
  PROVE  ReadersInv'
  <1>1. rd' = [rd EXCEPT ![r] = NoReader] /\ UNCHANGED <<dir, gone>>
    BY DEF CloseReader
  <1>2. rd'[r] = NoReader
    BY <1>1 DEF ReadersInv
  <1>3. Opening(r)' /\ Finds(r)'
    BY <1>2 DEF NoReader, Opening, Finds
  <1>4. QED  BY <1>1, <1>3, OthersFind

LEMMA ReadersInvInit ==
  ASSUME Init
  PROVE  ReadersInv
  BY IdleFinds DEF Init, ReadersInv

LEMMA ReadersInvStep ==
  ASSUME IInv, ShardsInv, ReadersInv, [Next]_vars
  PROVE  ReadersInv'
  <1>1. CASE \E r \in Readers : Reading(r)
    BY <1>1, ListFinds, ListedFinds, ReadHeadFinds, WalkIndexFinds, MapRowsFinds, CombineFinds,
       CloseReaderFinds DEF Reading
  <1>2. ASSUME rd' = rd, gone \subseteq gone',
               \A nm \in ShardNames(dir) : \/ nm \in ShardNames(dir') /\ dir'[nm] = dir[nm]
                                           \/ ToSet(dir[nm].batches) \subseteq gone',
               \A nm \in ShardNames(dir') : \/ nm \in ShardNames(dir) /\ dir'[nm] = dir[nm]
                                            \/ NamesNotReused => ~BeingOpened(nm)
        PROVE  ReadersInv'
    <2>1. \A r \in Readers : Finds(r)'
      BY <1>2, StillFinds DEF ReadersInv
    <2>2. \A r \in Readers : Opening(r)'
      BY <1>2, StillOpening DEF ReadersInv
    <2>3. QED  BY <1>2, <2>1, <2>2 DEF ReadersInv
  <1>3. CASE \E w \in Writers : Session(w)
    <2>1. PICK w \in Writers : Session(w)
      BY <1>3
    <2>2. ShardsStay
      BY <2>1, SessionStays
    <2>3. rd' = rd /\ gone' = gone
      BY <2>1 DEF Session, Acquire, ReadSchema, Write, RetryWrite, Flush, AppendData, AppendFile,
                  CopyBytes, StartShard, FillShard, Publish, FlushFails, Close, AppendFails, Crash
    <2>4. CASE Publish(w)
      <3>1. NamesNotReused => ~BeingOpened(sess[w].name)
        BY <2>4 DEF Publish
      <3>2. \A nm \in ShardNames(dir') : \/ nm \in ShardNames(dir) /\ dir'[nm] = dir[nm]
                                         \/ NamesNotReused => ~BeingOpened(nm)
        BY <2>4, <3>1, PublishedFacts
      <3>3. QED  BY <1>2, <2>2, <2>3, <3>2 DEF ShardsStay
    <2>5. CASE ~Publish(w)
      BY <1>2, <2>1, <2>2, <2>3, <2>5, OnlyPublishMakesShards DEF ShardsStay, NoNewShard
    <2>6. QED  BY <2>4, <2>5
  <1>4. CASE Delete
    <2>1. PICK nm \in ShardNames(dir) : /\ dir' = Without(dir, nm)
                                        /\ gone' = gone \cup ToSet(dir[nm].batches)
      BY <1>4 DEF Delete
    <2>2. \A x \in ShardNames(dir) : x # nm => x \in ShardNames(dir') /\ dir'[x] = dir[x]
      BY <2>1 DEF ShardNames, Without
    <2>3. \A x \in ShardNames(dir') : x \in ShardNames(dir) /\ dir'[x] = dir[x]
      BY <2>1 DEF ShardNames, Without
    <2>4. rd' = rd
      BY <1>4 DEF Delete
    <2>5. QED  BY <1>2, <2>1, <2>2, <2>3, <2>4
  <1>5. CASE CommitToSource \/ UNCHANGED vars
    BY <1>2, <1>5 DEF CommitToSource, vars
  <1>6. QED  BY <1>1, <1>3, <1>4, <1>5 DEF Next

------------------------------------------------------------------------------
(* The theorems *)

\* What the shards hold and what readers find.
THEOREM ShardsInvariance == Spec => [](ShardsInv /\ ReadersInv)
  <1>1. Init => ShardsInv /\ ReadersInv
    BY ShardsInvInit, ReadersInvInit
  <1>2. IInv /\ (ShardsInv /\ ReadersInv) /\ [Next]_vars => (ShardsInv /\ ReadersInv)'
    BY ShardsInvStep, ReadersInvStep
  <1>3. QED  BY <1>1, <1>2, Invariance, PTL DEF Spec

\* The numbered shards have the batches in the order they were accepted, over
\* sessions, failed flushes and deletions: a new shard's number is past all that
\* are left, and its batches are the youngest (_next_index, Appender.flush).
THEOREM InOrder == Spec => []RowsInOrder
  <1>1. ShardsInv => RowsInOrder
    BY DEF ShardsInv, ShardsHold
  <1>2. QED  BY <1>1, ShardsInvariance, PTL

\* A name that is listed is a whole shard under the directory's one schema
\* (atomic_publish, _existing_schema), as long as nobody updates a file while
\* append() copies it.
THEOREM ShardsAreWhole == ASSUME SourceQuiet PROVE Spec => []ShardsWhole
  <1>1. ASSUME ShardsInv PROVE ShardsWhole
    <2>1. ASSUME NEW nm \in ShardNames(dir)
          PROVE  dir[nm].whole /\ dir[nm].schema = ExistingSchema(dir)
      <3>1. First(ShardNames(dir)) \in ShardNames(dir)
        BY <1>1, FirstIsThere DEF ShardsInv, ShardsHold
      <3>2. ExistingSchema(dir) = dir[First(ShardNames(dir))].schema
        BY DEF ExistingSchema
      <3>3. QED  BY <1>1, <3>1, <3>2 DEF ShardsInv, ShardsHold
    <2>2. QED  BY <2>1 DEF ShardsWhole
  <1>2. QED  BY <1>1, ShardsInvariance, PTL

\* A dataset opened on the directory, one shard after another and each by three
\* opens of its name, while sessions publish and shards are deleted, has all that
\* was committed when its listing began and still stands, each shard whole
\* (ColStoreDataset._coerce_to_children, ColStoreReader.__init__), if copied files
\* are quiet and no name is taken again between two opens of it.
THEOREM DatasetsAreWhole == ASSUME SourceQuiet, NamesNotReused PROVE Spec => []DatasetWhole
  <1>1. ASSUME ReadersInv, NEW r \in Readers, rd[r].pc = "open"
        PROVE  /\ \A nm \in DOMAIN rd[r].opened : rd[r].opened[nm].whole
               /\ \A b \in rd[r].due \ gone : In(rd[r].opened, DOMAIN rd[r].opened, b)
    <2>1. Opening(r) /\ Finds(r) /\ rd[r].todo = {}
      BY <1>1 DEF ReadersInv, Opening
    <2>2. \A b : ~In(dir, rd[r].todo \cap ShardNames(dir), b)
      BY <2>1 DEF In
    <2>3. QED  BY <1>1, <2>1, <2>2 DEF Opening, Finds
  <1>2. ReadersInv => DatasetWhole
    BY <1>1 DEF DatasetWhole, In
  <1>3. QED  BY <1>2, ShardsInvariance, PTL
==============================================================================
