-------------------------- MODULE StoreWriterProofs --------------------------
(***************************************************************************)
(* What StoreWriter guarantees for every number of processes, inodes,      *)
(* values and every bound.                                                 *)
(***************************************************************************)
EXTENDS StoreWriterInv, SequenceTheorems, TLAPS

\* The chunks StoreWriter writes are chunks.
LEMMA ChunkTypes ==
  /\ \A k \in Nat, v \in Vals : Rec(k, v) \in Chunk
  /\ \A e \in Seq(Vals \cup {NoStat}) : Foot(e) \in Chunk
  /\ Junk \in Chunk
  BY DEF Rec, Foot, Junk, Chunk

\* A record has the index and the value it is made of.
LEMMA RecFields == \A k, v : Rec(k, v).kind = "rec" /\ Rec(k, v).idx = k /\ Rec(k, v).val = v
  BY DEF Rec

\* A function on 1..m is a sequence of length m.
LEMMA FunctionIsSeq ==
  ASSUME NEW S, NEW m \in Nat, NEW w \in [1..m -> S]
  PROVE  w \in Seq(S) /\ Len(w) = m
<1>1. w \in Seq(S)
  BY SeqDef
<1>2. DOMAIN w = 1..m /\ DOMAIN w = 1..Len(w) /\ Len(w) \in Nat
  BY <1>1, LenProperties
<1> QED
  BY <1>1, <1>2

\* A write at a position changes that chunk, keeps the others and, past the
\* end, extends the file.
LEMMA WriteAtFacts ==
  ASSUME NEW b \in Seq(Chunk), NEW pos \in Nat, NEW c \in Chunk
  PROVE  /\ WriteAt(b, pos, c) \in Seq(Chunk)
         /\ Len(WriteAt(b, pos, c)) = IF pos < Len(b) THEN Len(b) ELSE pos + 1
         /\ WriteAt(b, pos, c)[pos + 1] = c
         /\ \A j \in 1..Len(b) : j # pos + 1 => WriteAt(b, pos, c)[j] = b[j]
<1> DEFINE m == IF pos < Len(b) THEN Len(b) ELSE pos + 1
           w == [j \in 1..m |-> IF j = pos + 1 THEN c ELSE IF j <= Len(b) THEN b[j] ELSE Junk]
<1>1. m \in Nat /\ pos + 1 \in 1..m /\ Len(b) <= m
  OBVIOUS
<1>2. \A j \in 1..m : w[j] \in Chunk
  BY <1>1, ChunkTypes
<1>3. w \in Seq(Chunk) /\ Len(w) = m
  <2>1. w \in [1..m -> Chunk]
    BY <1>2
  <2> QED
    BY <1>1, <2>1, FunctionIsSeq
<1> QED
  BY <1>1, <1>3 DEF WriteAt

\* A late footer leaves a body of chunks.
LEMMA LateFooterType ==
  ASSUME NEW b \in Seq(Chunk), NEW foot \in Nat, NEW c \in Chunk
  PROVE  WriteAt(b, foot - 1, c) \in Seq(Chunk)
<1>1. Len(b) \in Nat /\ \A j \in 1..Len(b) : b[j] \in Chunk
  BY LenProperties, ElementOfSeq
<1>2. CASE foot = 0
  <2>1. WriteAt(b, foot - 1, c) \in [1..Len(b) -> Chunk]
    BY <1>1, <1>2 DEF WriteAt
  <2> QED
    BY <1>1, <2>1, FunctionIsSeq
<1>3. CASE foot # 0
  <2>1. foot - 1 \in Nat
    BY <1>3
  <2> QED
    BY <2>1, WriteAtFacts
<1> QED
  BY <1>2, <1>3

\* truncate() keeps the chunks before the end it is given, and only those.
LEMMA TruncatedFacts ==
  ASSUME NEW b \in Seq(Chunk), NEW end \in Nat
  PROVE  /\ Truncated(b, end) \in Seq(Chunk)
         /\ Len(Truncated(b, end)) = end
         /\ \A k \in 1..end : k <= Len(b) => Truncated(b, end)[k] = b[k]
<1>1. \A k \in 1..end : k <= Len(b) => b[k] \in Chunk
  BY ElementOfSeq
<1>2. Truncated(b, end) \in [1..end -> Chunk]
  BY <1>1, ChunkTypes DEF Truncated
<1>3. Truncated(b, end) \in Seq(Chunk) /\ Len(Truncated(b, end)) = end
  BY <1>2, FunctionIsSeq
<1> QED
  BY <1>3 DEF Truncated

\* A session starts as a session.
LEMMA NewSessionType ==
  ASSUME NEW pc \in PCs, NEW mode \in Modes, NEW i \in Inodes \cup {None}, NEW st \in BOOLEAN
  PROVE  NewSession(pc, mode, i, st) \in Session
<1>1. /\ <<>> \in Seq(Vals \cup {NoStat}) /\ <<>> \in Seq(Vals)
  BY EmptySeq
<1> QED
  BY <1>1 DEF NewSession, Session, Buffers

\* What a session starts with.
LEMMA NewSessionFields ==
  ASSUME NEW pc, NEW mode, NEW i, NEW st
  PROVE  LET s == NewSession(pc, mode, i, st) IN
         /\ s.pc = pc /\ s.mode = mode /\ s.inode = i
         /\ s.hasHeader <=> mode = "update"
         /\ s.buf = "none" /\ ~s.failed /\ s.n = 0 /\ s.pos = 0 /\ s.wrote = <<>>
         /\ s.acc = <<>>
  BY DEF NewSession

\* A process with no writer has a session that is idle.
LEMMA IdleType == Idle \in Session
<1>1. "idle" \in PCs /\ "create" \in Modes
  BY DEF PCs, Modes
<1> QED
  BY <1>1, NewSessionType DEF Idle

\* A session after write(), whether it returned or raised, and with its footer
\* written, is a session.
LEMMA SessionUpdates ==
  ASSUME NEW s \in Session, NEW n \in Nat, NEW pos \in Nat, NEW foot \in Nat,
         NEW acc \in Seq(Vals \cup {NoStat}), NEW wrote \in Seq(Vals)
  PROVE  /\ [s EXCEPT !.hasHeader = TRUE, !.buf = "none", !.n = n, !.pos = pos,
                      !.acc = acc, !.wrote = wrote] \in Session
         /\ [s EXCEPT !.hasHeader = TRUE, !.failed = TRUE, !.buf = "header"] \in Session
         /\ [s EXCEPT !.hasHeader = TRUE, !.failed = TRUE, !.buf = "none"] \in Session
         /\ [s EXCEPT !.hasHeader = TRUE, !.failed = TRUE, !.buf = "none",
                      !.pos = pos] \in Session
         /\ [s EXCEPT !.pc = "footed", !.foot = foot] \in Session
         /\ [s EXCEPT !.pc = "closing", !.buf = "none", !.wrote = <<>>] \in Session
  BY EmptySeq DEF Session, PCs, Buffers

\* What is left of a session whose close() raised.
LEMMA RaisedFacts ==
  ASSUME NEW s \in Session, NEW kept \in Buffers
  PROVE  LET r == Raised(s, kept) IN
         /\ r \in Session
         /\ r.pc = "closing" /\ r.buf = kept
         /\ r.wrote = IF kept = "counters" THEN s.wrote ELSE <<>>
         /\ r.mode = s.mode /\ r.inode = s.inode /\ r.hasHeader = s.hasHeader
         /\ r.failed = s.failed /\ r.n = s.n /\ r.acc = s.acc /\ r.stats = s.stats
         /\ r.foot = s.foot
         /\ \A ft : LET u == [r EXCEPT !.foot = ft] IN
              /\ ft \in Nat => u \in Session
              /\ u.pc = "closing" /\ u.buf = kept /\ u.wrote = r.wrote
              /\ u.mode = s.mode /\ u.inode = s.inode /\ u.hasHeader = s.hasHeader
              /\ u.failed = s.failed /\ u.n = s.n /\ u.acc = s.acc /\ u.stats = s.stats
              /\ u.foot = ft
<1>1. (IF kept = "counters" THEN s.wrote ELSE <<>>) \in Seq(Vals)
  BY EmptySeq DEF Session
<1> DEFINE w == IF kept = "counters" THEN s.wrote ELSE <<>>
<1>2. Raised(s, kept) = [s EXCEPT !.pc = "closing", !.buf = kept, !.wrote = w]
  BY DEF Raised, Session
<1>3. w \in Seq(Vals) /\ w = IF kept = "counters" THEN s.wrote ELSE <<>>
  BY <1>1
<1> HIDE DEF w
<1> DEFINE r == [s EXCEPT !.pc = "closing", !.buf = kept, !.wrote = w]
<1>4. /\ r \in Session
      /\ r.pc = "closing" /\ r.buf = kept /\ r.wrote = w
      /\ r.mode = s.mode /\ r.inode = s.inode /\ r.hasHeader = s.hasHeader
      /\ r.failed = s.failed /\ r.n = s.n /\ r.acc = s.acc /\ r.stats = s.stats
      /\ r.foot = s.foot
  BY <1>3 DEF Session, PCs
<1>5. Raised(s, kept) = r
  BY <1>2
<1> HIDE DEF r
<1>6. ASSUME NEW ft
      PROVE  LET u == [r EXCEPT !.foot = ft] IN
             /\ ft \in Nat => u \in Session
             /\ u.pc = r.pc /\ u.buf = r.buf /\ u.wrote = r.wrote
             /\ u.mode = r.mode /\ u.inode = r.inode /\ u.hasHeader = r.hasHeader
             /\ u.failed = r.failed /\ u.n = r.n /\ u.acc = r.acc /\ u.stats = r.stats
             /\ u.foot = ft
  BY <1>4 DEF Session
<1>7. /\ r.pc = "closing" /\ r.buf = kept
      /\ r.wrote = IF kept = "counters" THEN s.wrote ELSE <<>>
  BY <1>3, <1>4
<1> HIDE DEF w
<1> QED
  BY <1>4, <1>5, <1>6, <1>7

\* A close() that raises keeps what it had gathered and, of the records, those that
\* its counters may still bring.
LEMMA RaisedStep ==
  ASSUME NEW p \in Procs, sess[p] \in Session, FooterFails(p) \/ CountersFail(p)
  PROVE  \E t :
           /\ sess' = [sess EXCEPT ![p] = t]
           /\ t.pc = "closing" /\ t.mode = sess[p].mode /\ t.inode = sess[p].inode
           /\ t.wrote = IF t.buf = "counters" THEN sess[p].wrote ELSE <<>>
           /\ t.hasHeader = sess[p].hasHeader /\ t.n = sess[p].n
           /\ t.acc = sess[p].acc /\ t.stats = sess[p].stats
<1> DEFINE s == sess[p]
<1>1. \A kept \in {s.buf, "none", "footer", "counters"} : kept \in Buffers
  BY DEF Buffers, Session
<1>2. PICK kept \in {s.buf, "none", "footer", "counters"}, ft \in {EndOf(s) + 1} :
        \/ sess' = [sess EXCEPT ![p] = Raised(s, kept)]
        \/ sess' = [sess EXCEPT ![p] = [Raised(s, kept) EXCEPT !.foot = ft]]
  BY DEF FooterFails, CountersFail, Become
<1> DEFINE r == Raised(s, kept)
           u == [r EXCEPT !.foot = ft]
<1>3. s \in Session /\ kept \in Buffers
  BY <1>1
<1>4. /\ r.pc = "closing" /\ r.mode = s.mode /\ r.inode = s.inode
      /\ r.wrote = IF r.buf = "counters" THEN s.wrote ELSE <<>>
      /\ r.hasHeader = s.hasHeader /\ r.n = s.n /\ r.acc = s.acc /\ r.stats = s.stats
  BY <1>3, RaisedFacts
<1>5. /\ u.pc = "closing" /\ u.mode = s.mode /\ u.inode = s.inode
      /\ u.wrote = IF u.buf = "counters" THEN s.wrote ELSE <<>>
      /\ u.hasHeader = s.hasHeader /\ u.n = s.n /\ u.acc = s.acc /\ u.stats = s.stats
  BY <1>3, RaisedFacts
<1>6. sess' = [sess EXCEPT ![p] = r] \/ sess' = [sess EXCEPT ![p] = u]
  BY <1>2
<1> HIDE DEF r, u
<1> QED
  BY <1>4, <1>5, <1>6

\* A load that raises leaves the session with the records it may know of.
LEMMA FailedLoadSession ==
  ASSUME NEW p \in Procs, sess[p] \in Session, LoadFails(p)
  PROVE  \E t :
           /\ sess' = [sess EXCEPT ![p] = t]
           /\ t.pc = "broken" /\ t.mode = sess[p].mode /\ t.inode = sess[p].inode
           /\ t.hasHeader = sess[p].hasHeader /\ t.buf = sess[p].buf
           /\ t.wrote = sess[p].wrote /\ t.stats = sess[p].stats
           /\ t.n = CountLoaded(file[sess[p].inode])
           /\ t.acc = sess[p].acc \/ (LoadOK(p) /\ t.acc = StatsLoaded(sess[p]))
<1> DEFINE s == sess[p]
           t == [s EXCEPT !.pc = "broken", !.n = CountLoaded(file[s.inode])]
           u == [t EXCEPT !.acc = StatsLoaded(s)]
<1>1. \/ sess' = [sess EXCEPT ![p] = t]
      \/ LoadOK(p) /\ sess' = [sess EXCEPT ![p] = u]
  BY DEF LoadFails, Become
<1>2. /\ t.pc = "broken" /\ t.mode = s.mode /\ t.inode = s.inode
      /\ t.hasHeader = s.hasHeader /\ t.buf = s.buf /\ t.wrote = s.wrote /\ t.stats = s.stats
      /\ t.n = CountLoaded(file[s.inode]) /\ t.acc = s.acc
  BY DEF Session
<1>3. /\ u.pc = "broken" /\ u.mode = s.mode /\ u.inode = s.inode
      /\ u.hasHeader = s.hasHeader /\ u.buf = s.buf /\ u.wrote = s.wrote /\ u.stats = s.stats
      /\ u.n = CountLoaded(file[s.inode]) /\ u.acc = StatsLoaded(s)
  BY DEF Session
<1> HIDE DEF t, u
<1> QED
  BY <1>1, <1>2, <1>3

\* What is left of a session that gave up the lock.
LEMMA LeftoverFacts ==
  ASSUME NEW s \in Session
  PROVE  LET u == [Leftover(s) EXCEPT !.pc = "unlocked"] IN
         /\ u \in Session
         /\ u.pc = "unlocked" /\ u.mode = s.mode /\ u.inode = s.inode
         /\ u.hasHeader = s.hasHeader /\ u.buf = s.buf
         /\ s.buf = "none" => u.wrote = <<>> /\ u.n = 0
         /\ s.buf # "none" => /\ u.wrote = s.wrote /\ u.n = s.n /\ u.foot = s.foot
                             /\ u.acc = s.acc /\ u.stats = s.stats
<1>1. CASE s.buf = "none"
  <2> DEFINE t == NewSession(s.pc, s.mode, s.inode, FALSE)
  <2>1. s.pc \in PCs /\ s.mode \in Modes /\ s.inode \in Inodes \cup {None}
        /\ s.hasHeader \in BOOLEAN
    BY DEF Session
  <2>2. t \in Session
    BY <2>1, NewSessionType
  <2>3. t.mode = s.mode /\ t.inode = s.inode /\ t.buf = "none" /\ t.wrote = <<>> /\ t.n = 0
    BY DEF NewSession
  <2>4. [Leftover(s) EXCEPT !.pc = "unlocked"]
          = [[t EXCEPT !.hasHeader = s.hasHeader] EXCEPT !.pc = "unlocked"]
    BY <1>1 DEF Leftover
  <2> HIDE DEF t
  <2> QED
    BY <1>1, <2>1, <2>2, <2>3, <2>4 DEF Session, PCs
<1>2. CASE s.buf # "none"
  BY <1>2 DEF Leftover, Session, PCs
<1> QED
  BY <1>1, <1>2

\* The entries an append carries over are as many as the records.
LEMMA LoadStatsType ==
  ASSUME NEW f \in Contents
  PROVE  LoadStats(f) \in Seq(Vals \cup {NoStat})
<1>1. f.n \in Nat /\ f.body \in Seq(Chunk)
  BY DEF Contents
<1>2. CASE HasFooter(f) /\ Len(f.body[f.stats].stats) >= f.n
  <2>1. f.stats \in 1..Len(f.body)
    BY <1>1, <1>2, LenProperties DEF HasFooter, Contents
  <2>2. f.body[f.stats] \in Chunk
    BY <1>1, <2>1, ElementOfSeq
  <2>3. f.body[f.stats].stats \in Seq(Vals \cup {NoStat})
    BY <1>2, <2>2 DEF HasFooter, Chunk, Junk
  <2> QED
    BY <1>1, <1>2, <2>3, SubSeqProperties DEF LoadStats
<1>3. CASE ~(HasFooter(f) /\ Len(f.body[f.stats].stats) >= f.n)
  <2>1. [k \in 1..f.n |-> NoStat] \in [1..f.n -> Vals \cup {NoStat}]
    OBVIOUS
  <2> QED
    BY <1>1, <1>3, <2>1, FunctionIsSeq DEF LoadStats
<1> QED
  BY <1>2, <1>3

\* The initial state is well typed.
LEMMA TypeInit == Init => TypeOK
<1> SUFFICES ASSUME Init PROVE TypeOK
  OBVIOUS
<1>1. EmptyFile \in Contents
  BY EmptySeq DEF EmptyFile, Contents
<1>2. <<>> \in Seq(Vals)
  BY EmptySeq
<1> QED
  BY <1>1, <1>2, IdleType DEF Init, TypeOK

\* What a session's file operations make of its file.
LEMMA FileOps ==
  ASSUME TypeOK, NEW p \in Procs, sess[p].inode \in Inodes
  PROVE  /\ Target(sess[p]) \in Contents
         /\ \A c \in Chunk : WithChunk(sess[p], c) \in Contents
         /\ WithCounters(sess[p]) \in Contents
         /\ Flushed(sess[p]) \in Contents
<1> DEFINE s == sess[p]
<1>1. s \in Session /\ file[s.inode] \in Contents
  BY DEF TypeOK
<1>2. Target(s) \in Contents
  BY <1>1 DEF Target, WithHeader, Contents
<1>3. ASSUME NEW c \in Chunk PROVE WithChunk(s, c) \in Contents
  <2>1. s.pos \in Nat /\ Target(s).body \in Seq(Chunk)
    BY <1>1, <1>2 DEF Session, Contents
  <2>2. WriteAt(Target(s).body, s.pos, c) \in Seq(Chunk)
    BY <2>1, WriteAtFacts
  <2> QED
    BY <1>2, <2>2 DEF WithChunk, Contents
<1>4. WithCounters(s) \in Contents
  BY <1>1, <1>2 DEF WithCounters, Contents, Session
<1>5. Flushed(s) \in Contents
  <2>1. CASE s.buf = "none"
    BY <1>1, <2>1 DEF Flushed
  <2>2. CASE s.buf = "header"
    BY <1>1, <2>2 DEF Flushed, WithHeader, Contents
  <2>3. CASE s.buf = "footer"
    <3>1. /\ file[s.inode].body \in Seq(Chunk) /\ Foot(s.acc) \in Chunk
          /\ s.foot \in Nat
      BY <1>1, ChunkTypes DEF Contents, Session
    <3>2. WriteAt(file[s.inode].body, s.foot - 1, Foot(s.acc)) \in Seq(Chunk)
      BY <3>1, LateFooterType
    <3> QED
      BY <1>1, <2>3, <3>2 DEF Flushed, Contents
  <2>4. CASE s.buf = "counters"
    BY <1>4, <2>4 DEF Flushed
  <2> QED
    BY <1>1, <2>1, <2>2, <2>3, <2>4 DEF Session, Buffers
<1> QED
  BY <1>2, <1>3, <1>4, <1>5

\* A write() that raises leaves the session in place, with all it has gathered.
LEMMA FailedWriteSession ==
  ASSUME NEW p \in Procs, sess[p] \in Session, WriteFails(p)
  PROVE  \E t \in Session :
           /\ sess' = [sess EXCEPT ![p] = t]
           /\ t.pc = sess[p].pc /\ t.mode = sess[p].mode /\ t.inode = sess[p].inode
           /\ t.n = sess[p].n /\ t.stats = sess[p].stats /\ t.acc = sess[p].acc
           /\ t.wrote = sess[p].wrote /\ t.failed
<1> DEFINE s == sess[p]
           u == [s EXCEPT !.hasHeader = TRUE, !.failed = TRUE]
           u1 == [u EXCEPT !.buf = "header"]
           u2 == [u EXCEPT !.buf = "none"]
           u3 == [u EXCEPT !.buf = "none", !.pos = s.pos + 1]
<1>1. /\ s.pos + 1 \in Nat /\ s.n \in Nat /\ s.foot \in Nat
      /\ s.acc \in Seq(Vals \cup {NoStat}) /\ s.wrote \in Seq(Vals)
  BY DEF Session
<1>2. u1 \in Session /\ u2 \in Session /\ u3 \in Session
  BY <1>1, SessionUpdates
<1>3. \A t \in {u1, u2, u3} : /\ t.pc = s.pc /\ t.mode = s.mode /\ t.inode = s.inode
                             /\ t.n = s.n /\ t.stats = s.stats /\ t.acc = s.acc
                             /\ t.wrote = s.wrote /\ t.failed
  BY DEF Session
<1>4. \E t \in {u1, u2, u3} : sess' = [sess EXCEPT ![p] = t]
  BY DEF WriteFails, Become, HeaderDue, Session
<1> HIDE DEF u1, u2, u3
<1> QED
  BY <1>2, <1>3, <1>4

\* No step leaves the types: one step per action of Next.
LEMMA TypeStep ==
  ASSUME TypeOK, Seated, [Next]_vars
  PROVE  TypeOK' /\ Seated'
<1> USE DEF TypeOK, Seated
<1>1. CASE UNCHANGED vars
  BY <1>1 DEF vars
<1>2. ASSUME NEW p \in Procs, Step(p)
      PROVE  TypeOK' /\ Seated'
  <2> DEFINE s == sess[p]
             Same == UNCHANGED <<name, file, acked>>
  <2>1. s \in Session
    OBVIOUS
  \* A step that gives p a session of the right type, and nothing but that.
  <2>2. ASSUME NEW t \in Session, sess' = [sess EXCEPT ![p] = t],
               t.pc \notin {"idle", "checked"} => t.inode \in Inodes
        PROVE  sess' \in [Procs -> Session] /\ Seated'
    BY <2>2
  <2>3. CASE CheckAbsent(p)
    <3>1. \A st \in BOOLEAN : NewSession("checked", "create", None, st) \in Session
      BY NewSessionType DEF PCs, Modes
    <3> QED
      BY <2>3, <3>1, <2>2 DEF CheckAbsent, Become, NewSession
  <2>4. ASSUME NEW i \in Inodes, NEW mode \in Modes, NEW st \in BOOLEAN,
               TruncatingOpen(p, i, mode, st)
        PROVE  TypeOK' /\ Seated'
    <3>1. NewSession("opened", mode, i, st) \in Session
      BY NewSessionType DEF PCs
    <3>2. EmptyFile \in Contents /\ <<>> \in Seq(Vals)
      BY EmptySeq DEF EmptyFile, Contents
    <3>3. sess' \in [Procs -> Session] /\ Seated'
      BY <2>4, <3>1, <2>2 DEF TruncatingOpen, Become, NewSession
    <3> QED
      BY <2>4, <3>2, <3>3 DEF TruncatingOpen
  <2>5. CASE OpenCreate(p)
    BY <2>1, <2>4, <2>5 DEF OpenCreate, Modes, Session
  <2>6. CASE OpenRecreate(p)
    BY <2>4, <2>6 DEF OpenRecreate, Modes
  <2>7. CASE OpenUpdate(p)
    <3>1. \A st \in BOOLEAN : NewSession("opened", "update", name, st) \in Session
      BY NewSessionType DEF PCs, Modes
    <3> QED
      BY <2>7, <3>1, <2>2 DEF OpenUpdate, Become, NewSession
  <2>8. CASE Lock(p)
    <3>1. [s EXCEPT !.pc = AfterLock(s)] \in Session
      BY <2>1 DEF Session, AfterLock, PCs
    <3> QED
      BY <2>8, <3>1, <2>2 DEF Lock, Become, AfterLock, Session
  <2>9. CASE Contended(p)
    BY <2>9, <2>2, IdleType DEF Contended, Become, Idle, NewSession
  \* What the load makes of the file and of the statistics.
  <2>10. s.inode \in Inodes =>
           /\ file[s.inode] \in Contents /\ file[s.inode].n \in Nat
           /\ StatsLoaded(s) \in Seq(Vals \cup {NoStat})
           /\ CutBack(s.inode) \in [Inodes -> Contents]
    <3> SUFFICES ASSUME s.inode \in Inodes
                 PROVE  /\ file[s.inode] \in Contents /\ file[s.inode].n \in Nat
                        /\ StatsLoaded(s) \in Seq(Vals \cup {NoStat})
                        /\ CutBack(s.inode) \in [Inodes -> Contents]
      OBVIOUS
    <3> DEFINE f == file[s.inode]
    <3>1. f \in Contents /\ f.n \in Nat /\ f.body \in Seq(Chunk)
      BY DEF Contents
    <3>2. StatsLoaded(s) \in Seq(Vals \cup {NoStat})
      BY <3>1, LoadStatsType, EmptySeq DEF StatsLoaded
    <3>3. [f EXCEPT !.body = Truncated(f.body, f.n)] \in Contents
      BY <3>1, TruncatedFacts DEF Contents
    <3> QED
      BY <3>1, <3>2, <3>3 DEF CutBack, EndOfCommitted
  <2>11. CASE Load(p)
    <3> DEFINE f == file[s.inode]
               t == [s EXCEPT !.pc = "open", !.n = f.n, !.pos = f.n, !.acc = StatsLoaded(s)]
    <3>1. s.inode \in Inodes
      BY <2>11 DEF Load
    <3>2. t \in Session
      BY <2>1, <2>10, <3>1 DEF Session, PCs
    <3>3. sess' = [sess EXCEPT ![p] = t] /\ t.inode = s.inode
      BY <2>1, <2>11 DEF Load, Become, EndOfCommitted, Session
    <3> HIDE DEF t
    <3>4. sess' \in [Procs -> Session] /\ Seated'
      BY <3>1, <3>2, <3>3, <2>2
    <3> QED
      BY <2>10, <2>11, <3>1, <3>4 DEF Load
  <2>12. CASE LoadFails(p)
    <3> DEFINE t == [s EXCEPT !.pc = "broken", !.n = CountLoaded(file[s.inode])]
               u == [t EXCEPT !.acc = StatsLoaded(s)]
    <3>1. s.inode \in Inodes /\ file[s.inode] \in Contents
      BY <2>12 DEF LoadFails
    <3>2. CountLoaded(file[s.inode]) \in Nat
      BY <3>1 DEF CountLoaded, Contents
    <3>3. t \in Session /\ u \in Session /\ t.inode = s.inode /\ u.inode = s.inode
      BY <2>1, <2>10, <3>1, <3>2 DEF Session, PCs
    <3>4. \/ sess' = [sess EXCEPT ![p] = t] /\ file' = file
          \/ sess' = [sess EXCEPT ![p] = u] /\ file' \in {file, CutBack(s.inode)}
      BY <2>12 DEF LoadFails, Become
    <3> HIDE DEF t, u
    <3>5. sess' \in [Procs -> Session] /\ Seated'
      BY <3>1, <3>3, <3>4, <2>2
    <3>6. file' \in [Inodes -> Contents]
      BY <2>10, <3>1, <3>4
    <3> QED
      BY <2>12, <3>5, <3>6 DEF LoadFails
  <2>13. CASE OpenInterrupted(p)
    <3>1. s.pc \in {"opened", "locked"}
      BY <2>13, InterruptAssumption DEF OpenInterrupted
    <3>2. s.inode \in Inodes
      BY <3>1
    <3>3. [s EXCEPT !.pc = "broken"] \in Session /\ [s EXCEPT !.pc = "broken"].inode = s.inode
      BY <2>1 DEF Session, PCs
    <3>4. sess' \in [Procs -> Session] /\ Seated'
      BY <2>13, <3>2, <3>3, <2>2 DEF OpenInterrupted, Become
    <3> QED
      BY <2>13, <3>4 DEF OpenInterrupted
  <2>14. CASE Write(p)
    <3>1. s.inode \in Inodes
      BY <2>14 DEF Write, MayWrite
    <3>2. PICK v \in Vals :
            /\ file' = [file EXCEPT ![s.inode] = WithRecord(s, v)]
            /\ Become(p, [s EXCEPT !.hasHeader = TRUE, !.buf = "none",
                                   !.n = @ + 1, !.pos = @ + 1,
                                   !.acc = IF s.stats THEN Append(@, v) ELSE @,
                                   !.wrote = Append(@, v)])
      BY <2>14 DEF Write
    <3> DEFINE t == [s EXCEPT !.hasHeader = TRUE, !.buf = "none",
                              !.n = s.n + 1, !.pos = s.pos + 1,
                              !.acc = IF s.stats THEN Append(s.acc, v) ELSE s.acc,
                              !.wrote = Append(s.wrote, v)]
    <3>3. WithRecord(s, v) \in Contents
      BY <2>1, <3>1, FileOps, ChunkTypes DEF WithRecord, Session
    <3>4. t \in Session
      <4>1. Append(s.wrote, v) \in Seq(Vals) /\ s.acc \in Seq(Vals \cup {NoStat})
        BY <2>1 DEF Session
      <4>2. (IF s.stats THEN Append(s.acc, v) ELSE s.acc) \in Seq(Vals \cup {NoStat})
        BY <4>1
      <4>3. s.n + 1 \in Nat /\ s.pos + 1 \in Nat /\ s.foot \in Nat
        BY <2>1 DEF Session
      <4> HIDE DEF s
      <4> QED
        BY <2>1, <4>1, <4>2, <4>3, SessionUpdates
    <3>5. sess' \in [Procs -> Session] /\ Seated'
      BY <3>1, <3>2, <3>4, <2>2 DEF Become
    <3> QED
      BY <2>14, <3>1, <3>2, <3>3, <3>5 DEF Write
  <2>15. CASE WriteFails(p)
    <3>1. s.inode \in Inodes
      BY <2>15 DEF WriteFails, MayWrite
    <3>2. /\ Target(s) \in Contents
          /\ WithChunk(s, Junk) \in Contents
      BY <3>1, FileOps, ChunkTypes
    <3>3. PICK t \in Session : sess' = [sess EXCEPT ![p] = t] /\ t.inode = s.inode
      BY <2>1, <2>15, FailedWriteSession
    <3>4. sess' \in [Procs -> Session] /\ Seated'
      BY <3>1, <3>3, <2>2
    <3>5. file' \in [Inodes -> Contents]
      BY <2>15, <3>1, <3>2 DEF WriteFails
    <3> QED
      BY <2>15, <3>4, <3>5 DEF WriteFails
  <2>16. Closable(s) => s.inode \in Inodes
    BY DEF Closable
  <2>17. CASE CloseEmpty(p)
    <3>1. [s EXCEPT !.pc = "closing"] \in Session
      BY <2>1 DEF Session, PCs
    <3>2. sess' \in [Procs -> Session] /\ Seated'
      BY <2>16, <2>17, <3>1, <2>2 DEF CloseEmpty, Become
    <3> QED
      BY <2>17, <3>2 DEF CloseEmpty
  \* A chunk at the end of the file.
  <2>18. ASSUME NEW c \in Chunk, s.inode \in Inodes
         PROVE  [file EXCEPT ![s.inode].body = Append(@, c)] \in [Inodes -> Contents]
    <3>1. file[s.inode] \in Contents /\ file[s.inode].body \in Seq(Chunk)
      BY <2>18 DEF Contents
    <3>2. Append(file[s.inode].body, c) \in Seq(Chunk)
      BY <3>1, AppendProperties
    <3>3. [file[s.inode] EXCEPT !.body = Append(file[s.inode].body, c)] \in Contents
      BY <3>1, <3>2 DEF Contents
    <3> QED
      BY <3>3
  <2>19. s.inode \in Inodes => EndOf(s) \in Nat /\ Foot(s.acc) \in Chunk /\ Junk \in Chunk
    <3>1. s.inode \in Inodes => file[s.inode].body \in Seq(Chunk)
      BY DEF Contents
    <3> QED
      BY <2>1, <3>1, LenProperties, ChunkTypes DEF EndOf, Session
  <2>20. CASE WriteFooter(p)
    <3> DEFINE ft == IF FooterDue(s) THEN EndOf(s) + 1 ELSE 0
               t == [s EXCEPT !.pc = "footed", !.foot = ft]
    <3>1. s.inode \in Inodes
      BY <2>16, <2>20 DEF WriteFooter
    <3>2. t \in Session
      <4>1. ft \in Nat
        BY <2>19, <3>1
      <4>2. s.acc \in Seq(Vals \cup {NoStat}) /\ s.wrote \in Seq(Vals) /\ s.n \in Nat
        BY <2>1 DEF Session
      <4> HIDE DEF ft, s
      <4> QED
        BY <2>1, <4>1, <4>2, SessionUpdates
    <3>3. sess' \in [Procs -> Session] /\ Seated'
      BY <2>20, <3>1, <3>2, <2>2 DEF WriteFooter, Become
    <3>4. file' \in [Inodes -> Contents]
      BY <2>18, <2>19, <2>20, <3>1 DEF WriteFooter
    <3> QED
      BY <2>20, <3>3, <3>4 DEF WriteFooter
  <2>21. CASE CommitCounters(p)
    <3>1. s.inode \in Inodes
      BY <2>21 DEF CommitCounters
    <3>2. WithCounters(s) \in Contents
      BY <3>1, FileOps
    <3>3. acked[s.inode] \o s.wrote \in Seq(Vals)
      BY <2>1, <3>1, ConcatProperties DEF Session
    <3> DEFINE t == [s EXCEPT !.pc = "closing", !.buf = "none", !.wrote = <<>>]
    <3>4. t \in Session /\ t.inode = s.inode
      BY <2>1, EmptySeq DEF Session, PCs, Buffers
    <3>5. sess' \in [Procs -> Session] /\ Seated'
      BY <2>21, <3>1, <3>4, <2>2 DEF CommitCounters, Become
    <3> QED
      BY <2>21, <3>1, <3>2, <3>3, <3>5 DEF CommitCounters
  \* A close() that raised.
  <2>22. ASSUME s.inode \in Inodes, NEW kept \in Buffers, NEW ft \in Nat,
                \/ sess' = [sess EXCEPT ![p] = Raised(s, kept)]
                \/ sess' = [sess EXCEPT ![p] = [Raised(s, kept) EXCEPT !.foot = ft]]
         PROVE  sess' \in [Procs -> Session] /\ Seated'
    <3>1. /\ Raised(s, kept) \in Session /\ Raised(s, kept).inode = s.inode
          /\ [Raised(s, kept) EXCEPT !.foot = ft] \in Session
          /\ [Raised(s, kept) EXCEPT !.foot = ft].inode = s.inode
      BY <2>1, RaisedFacts
    <3> QED
      BY <2>2, <2>22, <3>1
  <2>23. CASE FooterFails(p)
    <3>1. s.inode \in Inodes /\ s.buf \in Buffers
      BY <2>1, <2>16, <2>23 DEF FooterFails, Session
    <3>2. sess' \in [Procs -> Session] /\ Seated'
      <4>1. EndOf(s) + 1 \in Nat
        BY <2>19, <3>1
      <4>2. \/ sess' = [sess EXCEPT ![p] = Raised(s, s.buf)]
            \/ \E kept \in {"none", "footer"} :
                 sess' = [sess EXCEPT ![p] = [Raised(s, kept) EXCEPT !.foot = EndOf(s) + 1]]
        BY <2>23 DEF FooterFails, Become
      <4>3. {"none", "footer"} \subseteq Buffers
        BY DEF Buffers
      <4> QED
        BY <2>22, <3>1, <4>1, <4>2, <4>3
    <3>3. file' \in [Inodes -> Contents]
      <4>1. [file EXCEPT ![s.inode].body = Append(@, Junk)] \in [Inodes -> Contents]
        BY <2>18, <2>19, <3>1
      <4>2. file' \in {file, [file EXCEPT ![s.inode].body = Append(@, Junk)]}
        BY <2>23 DEF FooterFails
      <4> QED
        BY <4>1, <4>2
    <3> QED
      BY <2>23, <3>2, <3>3 DEF FooterFails
  <2>24. CASE CountersFail(p)
    <3>1. s.inode \in Inodes /\ s.buf \in Buffers
      BY <2>1, <2>24 DEF CountersFail, Session
    <3>2. sess' \in [Procs -> Session] /\ Seated'
      <4>1. \E kept \in Buffers : sess' = [sess EXCEPT ![p] = Raised(s, kept)]
        BY <2>24, <3>1 DEF CountersFail, Become, Buffers
      <4> QED
        BY <2>22, <3>1, <4>1
    <3>3. Target(s) \in Contents
      BY <3>1, FileOps
    <3> QED
      BY <2>24, <3>1, <3>2, <3>3 DEF CountersFail
  <2>25. Released(p) \in [Inodes -> Procs \cup {None}]
    BY DEF Released
  <2>26. CASE Unlock(p)
    <3> DEFINE t == [Leftover(s) EXCEPT !.pc = "unlocked"]
    <3>1. s.inode \in Inodes
      BY <2>26 DEF Unlock
    <3>2. t \in Session /\ t.inode = s.inode /\ sess' = [sess EXCEPT ![p] = t]
      BY <2>1, <2>26, LeftoverFacts DEF Unlock, Become
    <3> HIDE DEF t
    <3>3. sess' \in [Procs -> Session] /\ Seated'
      BY <3>1, <3>2, <2>2
    <3> QED
      BY <2>25, <2>26, <3>3 DEF Unlock
  <2>27. CASE CloseFile(p)
    <3>1. s.inode \in Inodes
      BY <2>27 DEF CloseFile
    <3>2. Flushed(s) \in Contents
      BY <3>1, FileOps
    <3>3. acked[s.inode] \o s.wrote \in Seq(Vals)
      BY <2>1, <3>1, ConcatProperties DEF Session
    <3>4. /\ [s EXCEPT !.pc = "closed"] \in Session
          /\ [s EXCEPT !.pc = "closed"].inode = s.inode
      BY <2>1 DEF Session, PCs
    <3>5. \/ sess' = [sess EXCEPT ![p] = [s EXCEPT !.pc = "closed"]]
          \/ sess' = [sess EXCEPT ![p] = Idle]
      BY <2>27 DEF CloseFile, Become
    <3>6. sess' \in [Procs -> Session] /\ Seated'
      BY <3>1, <3>4, <3>5, <2>2, IdleType DEF Idle, NewSession
    <3> QED
      BY <2>27, <3>1, <3>2, <3>3, <3>6 DEF CloseFile
  <2>28. CASE Unlink(p)
    BY <2>28, <2>2, IdleType DEF Unlink, Become, Idle, NewSession
  <2>29. CASE Crash(p)
    BY <2>25, <2>29, <2>2, IdleType DEF Crash, Become, Idle, NewSession
  <2>30. CASE CrashTearing(p)
    <3>1. s.inode \in Inodes /\ file[s.inode] \in Contents
      BY <2>30 DEF CrashTearing
    <3>2. [file[s.inode] EXCEPT !.ok = FALSE] \in Contents
      BY <3>1 DEF Contents
    <3>3. sess' \in [Procs -> Session] /\ Seated'
      BY <2>30, <2>2, IdleType DEF CrashTearing, Become, Idle, NewSession
    <3> QED
      BY <2>25, <2>30, <3>1, <3>2, <3>3 DEF CrashTearing
  <2> QED
    BY <1>2, <2>3, <2>5, <2>6, <2>7, <2>8, <2>9, <2>11, <2>12, <2>13, <2>14, <2>15,
       <2>17, <2>20, <2>21, <2>23, <2>24, <2>26, <2>27, <2>28, <2>29, <2>30
       DEF Step, Opening, Writing, Closing, Dying
<1> QED
  BY <1>1, <1>2 DEF Next
\* Every state of every session has the type it should have, whatever the
\* callers do and whether or not flock works.
THEOREM TypeCorrect == Spec => []TypeOK
<1>1. Init => TypeOK /\ Seated
  BY TypeInit DEF Init, Seated, Idle, NewSession
<1>2. TypeOK /\ Seated /\ [Next]_vars => (TypeOK /\ Seated)'
  BY TypeStep
<1> QED
  BY <1>1, <1>2, PTL DEF Spec

------------------------------------------------------------------------------
(* Who works on the file *)

\* The lock stays with the session that took it, until close() or death.
LEMMA LockStep ==
  ASSUME TypeOK, Seated, LockInv, Disciplined, NEW p \in Procs, Step(p)
  PROVE  LockInv'
<1> DEFINE s == sess[p]
<1> USE DEF LockInv, Become
<1>1. /\ s \in Session /\ sess \in [Procs -> Session]
      /\ holder \in [Inodes -> Procs \cup {None}] /\ None \notin Procs
  BY NoneAssumption DEF TypeOK
\* A session that stays on its side of the lock.
<1>2. ASSUME NEW t, sess' = [sess EXCEPT ![p] = t], UNCHANGED holder,
             t.pc \in Holding <=> s.pc \in Holding,
             t.pc \in Holding => t.inode = s.inode
      PROVE  LockInv'
  BY <1>1, <1>2
\* A session that lets go.
<1>3. ASSUME NEW t, sess' = [sess EXCEPT ![p] = t], holder' = Released(p),
             t.pc \notin Holding
      PROVE  LockInv'
  BY <1>1, <1>3 DEF Released
<1>4. CASE CheckAbsent(p)
  BY <1>1, <1>2, <1>4 DEF CheckAbsent, NewSession, Holding
<1>5. ASSUME NEW i \in Inodes, NEW mode, NEW st, TruncatingOpen(p, i, mode, st),
             s.pc \notin Holding
      PROVE  LockInv'
  BY <1>1, <1>2, <1>5 DEF TruncatingOpen, NewSession, Holding
<1>6. CASE OpenCreate(p)
  BY <1>5, <1>6 DEF OpenCreate, Holding
<1>7. CASE OpenRecreate(p)
  BY <1>5, <1>7 DEF OpenRecreate, Holding
<1>8. CASE OpenUpdate(p)
  BY <1>1, <1>2, <1>8 DEF OpenUpdate, NewSession, Holding
<1>9. CASE Lock(p)
  <2>1. s.inode \in Inodes
    BY <1>9 DEF Lock, Seated
  <2> QED
    BY <1>1, <1>9, <2>1 DEF Lock, AfterLock, Session, Holding, Disciplined
<1>10. CASE Contended(p)
  BY <1>1, <1>2, <1>10 DEF Contended, Idle, NewSession, Holding
<1>11. CASE Load(p)
  BY <1>1, <1>2, <1>11 DEF Load, Session, Holding
<1>12. CASE LoadFails(p)
  <2>1. PICK t : sess' = [sess EXCEPT ![p] = t] /\ t.pc = "broken" /\ t.inode = s.inode
    BY <1>1, <1>12, FailedLoadSession
  <2> QED
    BY <1>2, <1>12, <2>1 DEF LoadFails, Holding
<1>13. CASE OpenInterrupted(p)
  <2>1. s.pc = "locked"
    BY <1>13, InterruptAssumption DEF OpenInterrupted, Disciplined
  <2> QED
    BY <1>1, <1>2, <1>13, <2>1 DEF OpenInterrupted, Session, Holding
<1>14. CASE Write(p)
  BY <1>1, <1>2, <1>14 DEF Write, MayWrite, Session, Holding
<1>15. CASE WriteFails(p)
  <2>1. PICK t : sess' = [sess EXCEPT ![p] = t] /\ t.pc = s.pc /\ t.inode = s.inode
    BY <1>1, <1>15, FailedWriteSession
  <2> QED
    BY <1>2, <1>15, <2>1 DEF WriteFails
<1>16. CASE CloseEmpty(p)
  BY <1>1, <1>2, <1>16 DEF CloseEmpty, Closable, Session, Holding
<1>17. CASE WriteFooter(p)
  BY <1>1, <1>2, <1>17 DEF WriteFooter, Closable, Session, Holding
<1>18. CASE CommitCounters(p)
  BY <1>1, <1>2, <1>18 DEF CommitCounters, Session, Holding
<1>19. CASE FooterFails(p) \/ CountersFail(p)
  <2>1. PICK t : sess' = [sess EXCEPT ![p] = t] /\ t.pc = "closing" /\ t.inode = s.inode
    BY <1>1, <1>19, RaisedStep
  <2>2. s.pc \in Holding /\ UNCHANGED holder
    BY <1>19 DEF FooterFails, CountersFail, Closable, Holding
  <2> QED
    BY <1>2, <2>1, <2>2 DEF Holding
<1>20. CASE Unlock(p)
  <2>1. [Leftover(s) EXCEPT !.pc = "unlocked"].pc = "unlocked"
    BY <1>1, LeftoverFacts
  <2> QED
    BY <1>3, <1>20, <2>1 DEF Unlock, Holding
<1>21. CASE CloseFile(p)
  <2>1. [s EXCEPT !.pc = "closed"].pc \notin Holding /\ Idle.pc \notin Holding
    BY <1>1 DEF Idle, NewSession, Holding, Session
  <2> QED
    BY <1>2, <1>21, <2>1 DEF CloseFile, Holding
<1>22. CASE Unlink(p)
  BY <1>1, <1>2, <1>22 DEF Unlink, Holding, Idle, NewSession
<1>23. CASE Crash(p) \/ CrashTearing(p)
  <2>1. Idle.pc \notin Holding
    BY DEF Idle, NewSession, Holding
  <2> QED
    BY <1>3, <1>23, <2>1 DEF Crash, CrashTearing
<1> QED
  BY <1>4, <1>6, <1>7, <1>8, <1>9, <1>10, <1>11, <1>12, <1>13, <1>14, <1>15, <1>16,
     <1>17, <1>18, <1>19, <1>20, <1>22, <1>23, <1>21
     DEF Step, Opening, Writing, Closing, Dying

\* A session that works on a file after a step of its own worked on it before,
\* unless it has just taken the lock.
LEMMA WorksOn ==
  ASSUME TypeOK, Disciplined, NEW p \in Procs, Step(p), ~Lock(p), Works(sess'[p])
  PROVE  Works(sess[p]) /\ sess'[p].inode = sess[p].inode
<1> DEFINE s == sess[p]
<1> USE DEF Become
<1>1. s \in Session /\ sess \in [Procs -> Session]
  BY DEF TypeOK
<1>2. ~Works(Idle)
  BY DEF Works, FlushesLate, Holding, Idle, NewSession
<1>3. \A mode, i, st : /\ ~Works(NewSession("checked", mode, i, st))
                       /\ ~Works(NewSession("opened", mode, i, st))
  BY DEF Works, FlushesLate, Holding, NewSession
<1>4. CASE CheckAbsent(p) \/ OpenUpdate(p)
  BY <1>1, <1>3, <1>4 DEF CheckAbsent, OpenUpdate
<1>5. CASE OpenCreate(p) \/ OpenRecreate(p)
  BY <1>1, <1>3, <1>5 DEF OpenCreate, OpenRecreate, TruncatingOpen
<1>6. CASE Contended(p) \/ Unlink(p) \/ Crash(p) \/ CrashTearing(p)
  BY <1>1, <1>2, <1>6 DEF Contended, Unlink, Crash, CrashTearing
<1>7. CASE Load(p)
  BY <1>1, <1>7 DEF Load, Session, Works, Holding
<1>8. CASE LoadFails(p)
  BY <1>1, <1>8 DEF LoadFails, Session, Works, Holding
<1>9. CASE OpenInterrupted(p)
  <2>1. s.pc = "locked"
    BY <1>9, InterruptAssumption DEF OpenInterrupted, Disciplined
  <2> QED
    BY <1>1, <1>9, <2>1 DEF OpenInterrupted, Session, Works, Holding
<1>10. CASE Write(p)
  BY <1>1, <1>10 DEF Write, MayWrite, Session, Works, Holding
<1>11. CASE WriteFails(p)
  <2>1. PICK t : sess' = [sess EXCEPT ![p] = t] /\ t.inode = s.inode
    BY <1>1, <1>11, FailedWriteSession
  <2> QED
    BY <1>1, <1>11, <2>1 DEF WriteFails, MayWrite, Works, Holding
<1>12. CASE CloseEmpty(p) \/ WriteFooter(p) \/ CommitCounters(p)
  <2>1. CASE CloseEmpty(p)
    BY <1>1, <2>1 DEF CloseEmpty, Closable, Session, Works, Holding
  <2>2. CASE WriteFooter(p)
    BY <1>1, <2>2 DEF WriteFooter, Closable, Session, Works, Holding
  <2>3. CASE CommitCounters(p)
    BY <1>1, <2>3 DEF CommitCounters, Session, Works, Holding
  <2> QED
    BY <1>12, <2>1, <2>2, <2>3
<1>13. CASE FooterFails(p) \/ CountersFail(p)
  <2>1. PICK t : sess' = [sess EXCEPT ![p] = t] /\ t.inode = s.inode
    BY <1>1, <1>13, RaisedStep
  <2> QED
    BY <1>1, <1>13, <2>1 DEF FooterFails, CountersFail, Closable, Works, Holding
<1>14. CASE Unlock(p)
  <2>1. [Leftover(s) EXCEPT !.pc = "unlocked"].inode = s.inode
    BY <1>1, LeftoverFacts
  <2> QED
    BY <1>1, <1>14, <2>1 DEF Unlock, Works, Holding
<1>15. CASE CloseFile(p)
  <2>1. ~Works([s EXCEPT !.pc = "closed"])
    BY <1>1 DEF Works, FlushesLate, Holding, Session
  <2> QED
    BY <1>1, <1>2, <1>15, <2>1 DEF CloseFile
<1> QED
  BY <1>4, <1>5, <1>6, <1>7, <1>8, <1>9, <1>10, <1>11, <1>12, <1>13, <1>14, <1>15
     DEF Step, Opening, Writing, Closing, Dying

\* Whoever takes the lock finds nobody at work on the file.
LEMMA OneWorksStep ==
  ASSUME TypeOK, Seated, LockInv, OneWorks, Disciplined, NEW p \in Procs, Step(p),
         \A q \in Procs \ {p} : sess'[q] = sess[q]
  PROVE  OneWorks'
<1> DEFINE s == sess[p]
<1>1. CASE ~Lock(p)
  <2>1. Works(sess'[p]) => Works(s) /\ sess'[p].inode = s.inode
    BY <1>1, WorksOn
  <2>2. \A q \in Procs : Works(sess'[q]) => Works(sess[q]) /\ sess'[q].inode = sess[q].inode
    BY <2>1
  <2> QED
    BY <2>2 DEF OneWorks
<1>2. CASE Lock(p)
  <2>1. /\ sess'[p].inode = s.inode /\ s.inode \in Inodes /\ holder[s.inode] = None
        /\ \A q \in Procs : sess[q].inode = s.inode => ~FlushesLate(sess[q])
    BY <1>2 DEF Lock, Become, TypeOK, Session, Seated, Disciplined
  <2>2. \A q \in Procs : sess[q].inode = s.inode => ~Works(sess[q])
    BY <2>1, NoneAssumption DEF Works, LockInv
  <2> QED
    BY <2>1, <2>2 DEF OneWorks
<1> QED
  BY <1>1, <1>2

\* A truncating session stays alone among its kind, and undisturbed until it
\* has opened the file.
LEMMA OneTruncatingStep ==
  ASSUME TypeOK, OneTruncating, PlaceInv, Exclusive, NEW p \in Procs, Step(p)
  PROVE  OneTruncating'
<1> DEFINE s == sess[p]
<1> USE DEF Become
<1>1. s \in Session /\ sess \in [Procs -> Session]
  BY DEF TypeOK
\* A session that keeps its mode, or goes idle.
<1>2. ASSUME NEW t, sess' = [sess EXCEPT ![p] = t],
             t.pc # "idle" => t.mode = s.mode /\ s.pc # "idle" /\ t.pc # "checked"
      PROVE  OneTruncating'
  BY <1>1, <1>2 DEF OneTruncating, Truncating
\* A truncating session begins with nobody else there.
<1>3. ASSUME NEW t, sess' = [sess EXCEPT ![p] = t], \A q \in Procs \ {p} : sess[q].pc = "idle"
      PROVE  OneTruncating'
  BY <1>1, <1>3 DEF OneTruncating, Truncating
<1>4. CASE CheckAbsent(p)
  BY <1>3, <1>4 DEF CheckAbsent, MayTruncate
<1>5. CASE OpenCreate(p)
  BY <1>3, <1>5 DEF OpenCreate, TruncatingOpen, OneTruncating
<1>6. CASE OpenRecreate(p)
  BY <1>3, <1>6 DEF OpenRecreate, TruncatingOpen, MayTruncate
<1>7. CASE OpenUpdate(p)
  BY <1>1, <1>7 DEF OpenUpdate, NewSession, OneTruncating, Truncating, PlaceInv, InPlace
<1>8. CASE Lock(p)
  BY <1>1, <1>2, <1>8 DEF Lock, AfterLock, Session
<1>9. CASE Contended(p)
  BY <1>2, <1>9 DEF Contended, Idle, NewSession
<1>10. CASE Load(p)
  BY <1>1, <1>2, <1>10 DEF Load, Session
<1>11. CASE LoadFails(p)
  BY <1>1, <1>2, <1>11 DEF LoadFails, Session
<1>12. CASE OpenInterrupted(p)
  BY <1>1, <1>2, <1>12, InterruptAssumption DEF OpenInterrupted, Session
<1>13. CASE Write(p)
  BY <1>1, <1>2, <1>13 DEF Write, MayWrite, Session
<1>14. CASE WriteFails(p)
  BY <1>1, <1>2, <1>14 DEF WriteFails, MayWrite, Session
<1>15. CASE CloseEmpty(p)
  BY <1>1, <1>2, <1>15 DEF CloseEmpty, Closable, Session
<1>16. CASE WriteFooter(p)
  BY <1>1, <1>2, <1>16 DEF WriteFooter, Closable, Session
<1>17. CASE CommitCounters(p)
  BY <1>1, <1>2, <1>17 DEF CommitCounters, Session
<1>18. CASE FooterFails(p) \/ CountersFail(p)
  <2>1. PICK t : sess' = [sess EXCEPT ![p] = t] /\ t.pc = "closing" /\ t.mode = s.mode
    BY <1>1, <1>18, RaisedStep
  <2> QED
    BY <1>2, <1>18, <2>1 DEF FooterFails, CountersFail, Closable
<1>19. CASE Unlock(p)
  <2>1. /\ [Leftover(s) EXCEPT !.pc = "unlocked"].pc = "unlocked"
        /\ [Leftover(s) EXCEPT !.pc = "unlocked"].mode = s.mode
    BY <1>1, LeftoverFacts
  <2> QED
    BY <1>2, <1>19, <2>1 DEF Unlock
<1>20. CASE CloseFile(p)
  BY <1>1, <1>2, <1>20 DEF CloseFile, Session, Idle, NewSession
<1>21. CASE Unlink(p)
  BY <1>2, <1>21 DEF Unlink, Idle, NewSession
<1>22. CASE Crash(p) \/ CrashTearing(p)
  BY <1>2, <1>22 DEF Crash, CrashTearing, Idle, NewSession
<1> QED
  BY <1>4, <1>5, <1>6, <1>7, <1>8, <1>9, <1>10, <1>11, <1>12, <1>13, <1>14, <1>15,
     <1>16, <1>17, <1>18, <1>19, <1>21, <1>22, <1>20
     DEF Step, Opening, Writing, Closing, Dying

------------------------------------------------------------------------------
(* What a step leaves alone *)

\* A step of p touches no other session, and of the files only the one p works
\* on, unless nobody else has a session.
LEMMA Footprint ==
  ASSUME IInv, Disciplined, NEW p \in Procs, Step(p)
  PROVE  /\ \A q \in Procs \ {p} : sess'[q] = sess[q]
         /\ \/ UNCHANGED <<name, file, acked>>
            \/ sess[p].pc = "closed" /\ name' = None /\ UNCHANGED <<file, acked>>
            \/ \A q \in Procs \ {p} : sess[q].pc = "idle"
            \/ /\ name' = name /\ sess[p].inode \in Inodes /\ Works(sess[p])
               /\ \A i \in Inodes \ {sess[p].inode} :
                    file'[i] = file[i] /\ acked'[i] = acked[i]
               /\ Truncating(p) \/ file'[sess[p].inode].hdr = file[sess[p].inode].hdr
<1> DEFINE s == sess[p]
           i == sess[p].inode
           Alone == \A q \in Procs \ {p} : sess[q].pc = "idle"
           Own == /\ name' = name /\ i \in Inodes /\ Works(s)
                  /\ \A j \in Inodes \ {i} : file'[j] = file[j] /\ acked'[j] = acked[j]
                  /\ Truncating(p) \/ file'[i].hdr = file[i].hdr
<1>1. /\ s \in Session /\ sess \in [Procs -> Session]
      /\ file \in [Inodes -> Contents] /\ acked \in [Inodes -> Seq(Vals)]
  BY DEF IInv, TypeOK
<1>2. \E t : sess' = [sess EXCEPT ![p] = t]
  <2>1. CASE WriteFails(p)
    BY <1>1, <2>1, FailedWriteSession
  <2>2. CASE FooterFails(p) \/ CountersFail(p)
    BY <1>1, <2>2, RaisedStep
  <2>3. CASE ~(WriteFails(p) \/ FooterFails(p) \/ CountersFail(p))
    BY <2>3 DEF Step, Opening, Writing, Closing, Dying, CheckAbsent, OpenCreate, OpenRecreate,
          TruncatingOpen, OpenUpdate, Lock, Contended, Load, LoadFails, OpenInterrupted,
          Write, CloseEmpty, WriteFooter, CommitCounters, Unlock, CloseFile, Unlink, Crash,
          CrashTearing, Become
  <2> QED
    BY <2>1, <2>2, <2>3
<1>3. \A q \in Procs \ {p} : sess'[q] = sess[q]
  BY <1>1, <1>2
<1>4. CASE \/ CheckAbsent(p) \/ OpenUpdate(p) \/ Lock(p) \/ Contended(p) \/ OpenInterrupted(p)
           \/ CloseEmpty(p) \/ Unlock(p) \/ Crash(p)
  BY <1>3, <1>4 DEF CheckAbsent, OpenUpdate, Lock, Contended, OpenInterrupted, CloseEmpty,
                    Unlock, Crash
<1>5. CASE Unlink(p)
  BY <1>3, <1>5 DEF Unlink
<1>6. CASE OpenCreate(p)
  <2>1. Alone
    BY <1>6 DEF OpenCreate, IInv, OneTruncating
  <2> QED
    BY <1>3, <2>1
<1>7. CASE OpenRecreate(p)
  <2>1. Alone
    BY <1>7 DEF OpenRecreate, MayTruncate, Disciplined
  <2> QED
    BY <1>3, <2>1
\* The steps that write the session's file.
<1>8. Works(s) => i \in Inodes /\ s.pc # "idle"
  BY DEF IInv, Seated, Holding, Works, FlushesLate
<1>9. Works(s) /\ (HeaderDue(s) \/ s.buf = "header") => Truncating(p)
  BY <1>1, <1>8 DEF IInv, PlaceInv, InPlace, HeaderDue, Truncating, Session, Modes
<1>10. ASSUME Works(s), name' = name, NEW g,
              file' = [file EXCEPT ![i] = g],
              \A j \in Inodes \ {i} : acked'[j] = acked[j],
              Truncating(p) \/ g.hdr = file[i].hdr
       PROVE  Own
  BY <1>1, <1>8, <1>10
\* A step that changes the body of the file.
<1>11. ASSUME s.pc \in Holding, UNCHANGED <<name, acked>>, NEW b,
              file' \in {file, [file EXCEPT ![i].body = b]}
       PROVE  Own
  <2>1. Works(s)
    BY <1>11 DEF Works
  <2>2. file' = file \/ file' = [file EXCEPT ![i] = [file[i] EXCEPT !.body = b]]
    BY <1>11
  <2>3. [file[i] EXCEPT !.body = b].hdr = file[i].hdr
    BY <1>1, <1>8, <2>1 DEF Contents
  <2> QED
    BY <1>1, <1>8, <1>10, <1>11, <2>1, <2>2, <2>3
<1>12. CASE Load(p)
  <2> DEFINE b == Truncated(file[i].body, EndOfCommitted(file[i]))
  <2>1. file' = [file EXCEPT ![i].body = b]
    BY <1>12 DEF Load, CutBack
  <2>2. s.pc \in Holding /\ UNCHANGED <<name, acked>>
    BY <1>12 DEF Load, Holding
  <2> HIDE DEF b
  <2>3. file' \in {file, [file EXCEPT ![i].body = b]}
    BY <2>1
  <2> QED
    BY <1>3, <1>11, <2>2, <2>3
<1>13. CASE LoadFails(p)
  <2>1. \/ file' = file
        \/ file' = [file EXCEPT ![i].body = Truncated(file[i].body, EndOfCommitted(file[i]))]
    BY <1>13 DEF LoadFails, CutBack
  <2>2. s.pc \in Holding /\ UNCHANGED <<name, acked>>
    BY <1>13 DEF LoadFails, Holding
  <2> QED
    BY <1>3, <1>11, <2>1, <2>2
<1>14. Works(s) =>
         /\ Truncating(p) \/ Target(s) = file[i]
         /\ Target(s) \in Contents
         /\ \A c : WithChunk(s, c).hdr = Target(s).hdr
         /\ WithCounters(s).hdr = Target(s).hdr
  <2>1. Works(s) => Target(s) \in Contents
    BY <1>8, FileOps DEF IInv
  <2>2. Works(s) => Truncating(p) \/ Target(s) = file[i]
    BY <1>9 DEF Target
  <2> QED
    BY <2>1, <2>2 DEF WithChunk, WithCounters, Contents
<1>15. CASE Write(p)
  <2>1. PICK v \in Vals : file' = [file EXCEPT ![i] = WithRecord(s, v)]
    BY <1>15 DEF Write
  <2>2. Works(s)
    BY <1>15 DEF Write, MayWrite, Works, Holding
  <2>3. Truncating(p) \/ WithRecord(s, v).hdr = file[i].hdr
    BY <1>14, <2>2 DEF WithRecord
  <2> QED
    BY <1>3, <1>10, <1>15, <2>1, <2>2, <2>3 DEF Write
<1>16. CASE WriteFails(p)
  <2>1. \/ file' = file
        \/ file' = [file EXCEPT ![i] = Target(s)]
        \/ file' = [file EXCEPT ![i] = WithChunk(s, Junk)]
    BY <1>16 DEF WriteFails
  <2>2. Works(s)
    BY <1>16 DEF WriteFails, MayWrite, Works, Holding
  <2>3. /\ Truncating(p) \/ Target(s).hdr = file[i].hdr
        /\ Truncating(p) \/ WithChunk(s, Junk).hdr = file[i].hdr
    BY <1>14, <2>2
  <2> QED
    BY <1>3, <1>10, <1>16, <2>1, <2>2, <2>3 DEF WriteFails
<1>17. CASE WriteFooter(p)
  <2>1. file' = file \/ file' = [file EXCEPT ![i].body = Append(file[i].body, Foot(s.acc))]
    BY <1>17 DEF WriteFooter
  <2>2. s.pc \in Holding /\ UNCHANGED <<name, acked>>
    BY <1>17 DEF WriteFooter, Closable, Holding
  <2> QED
    BY <1>3, <1>11, <2>1, <2>2
<1>18. CASE FooterFails(p)
  <2>1. file' = file \/ file' = [file EXCEPT ![i].body = Append(file[i].body, Junk)]
    BY <1>18 DEF FooterFails
  <2>2. s.pc \in Holding /\ UNCHANGED <<name, acked>>
    BY <1>18 DEF FooterFails, Closable, Holding
  <2> QED
    BY <1>3, <1>11, <2>1, <2>2
<1>19. CASE CommitCounters(p)
  <2>1. Works(s)
    BY <1>19 DEF CommitCounters, Works, Holding
  <2>2. Truncating(p) \/ WithCounters(s).hdr = file[i].hdr
    BY <1>14, <2>1
  <2> QED
    BY <1>1, <1>3, <1>10, <1>19, <2>1, <2>2 DEF CommitCounters
<1>20. CASE CountersFail(p)
  <2>1. Works(s)
    BY <1>20 DEF CountersFail, Works, Holding
  <2>2. file' = file \/ file' = [file EXCEPT ![i] = Target(s)]
    BY <1>20 DEF CountersFail
  <2>3. Truncating(p) \/ Target(s).hdr = file[i].hdr
    BY <1>14, <2>1
  <2> QED
    BY <1>3, <1>10, <1>20, <2>1, <2>2, <2>3 DEF CountersFail
<1>21. CASE CloseFile(p)
  <2>1. CASE s.buf = "none"
    <3>1. file' = file /\ name' = name
      BY <1>1, <1>21, <2>1 DEF CloseFile, Flushed
    <3>2. s.wrote = <<>>
      BY <1>21, <2>1 DEF CloseFile, IInv, ProgressInv, OnCourse
    <3>3. i \in Inodes
      BY <1>21 DEF CloseFile, IInv, Seated
    <3>4. acked' = acked
      BY <1>1, <1>21, <3>2, <3>3 DEF CloseFile
    <3> QED
      BY <1>3, <3>1, <3>4
  <2>2. CASE s.buf # "none"
    <3>1. Works(s)
      BY <1>21, <2>2 DEF CloseFile, Works, FlushesLate
    <3>2. Truncating(p) \/ Flushed(s).hdr = file[i].hdr
      <4>1. file[i] \in Contents
        BY <1>1, <1>8, <3>1
      <4>2. CASE s.buf = "header"
        BY <1>9, <3>1, <4>2
      <4>3. CASE s.buf = "footer"
        BY <4>1, <4>3 DEF Flushed, Contents
      <4>4. CASE s.buf = "counters"
        BY <1>14, <3>1, <4>4 DEF Flushed
      <4> QED
        BY <1>1, <2>2, <4>2, <4>3, <4>4 DEF Session, Buffers
    <3>3. /\ name' = name
          /\ \/ /\ file' = [file EXCEPT ![i] = Flushed(s)]
                /\ acked' = [acked EXCEPT ![i] = @ \o s.wrote]
             \/ UNCHANGED <<file, acked>>
      BY <1>21 DEF CloseFile
    <3> QED
      BY <1>1, <1>3, <1>10, <3>1, <3>2, <3>3
  <2> QED
    BY <2>1, <2>2
<1>22. CASE CrashTearing(p)
  <2>1. Works(s)
    BY <1>22 DEF CrashTearing, Works, FlushesLate, Holding
  <2>2. [file[i] EXCEPT !.ok = FALSE].hdr = file[i].hdr
    BY <1>1, <1>8, <2>1 DEF Contents
  <2> QED
    BY <1>3, <1>10, <1>22, <2>1, <2>2 DEF CrashTearing
<1> QED
  BY <1>4, <1>5, <1>6, <1>7, <1>12, <1>13, <1>15, <1>16, <1>17, <1>19, <1>22, <1>18,
     <1>20, <1>21
     DEF Step, Opening, Writing, Closing, Dying

\* The other sessions stay where they were.
LEMMA OthersStep ==
  ASSUME IInv, Disciplined, NEW p \in Procs, Step(p), NEW q \in Procs \ {p}
  PROVE  InPlace(q)' /\ OnCourse(q)'
<1> DEFINE i == sess[p].inode
<1>1. sess'[q] = sess[q] /\ sess[q] \in Session /\ sess[p] \in Session
  BY Footprint DEF IInv, TypeOK
<1>2. InPlace(q) /\ OnCourse(q) /\ InPlace(p) /\ OnCourse(p)
  BY DEF IInv, PlaceInv, ProgressInv
<1>3. sess[q].pc \notin {"idle", "checked"} => sess[q].inode \in Inodes
  BY DEF IInv, Seated
<1>4. ~(Truncating(p) /\ Truncating(q)) /\ (sess[q].pc = "checked" => sess[p].pc = "idle")
  BY DEF IInv, OneTruncating
<1>5. CASE UNCHANGED <<name, file, acked>>
  BY <1>1, <1>2, <1>5 DEF InPlace, OnCourse, Truncating
<1>6. CASE sess[p].pc = "closed" /\ name' = None /\ UNCHANGED <<file, acked>>
  <2>1. Truncating(p) /\ i = name /\ ~file[i].hdr
    BY <1>1, <1>2, <1>6 DEF InPlace, OnCourse, Truncating
  <2>2. OnCourse(q)'
    BY <1>1, <1>2, <1>6 DEF OnCourse
  <2>3. InPlace(q)'
    BY <1>1, <1>2, <1>3, <1>4, <1>6, <2>1 DEF InPlace, Truncating
  <2> QED
    BY <2>2, <2>3
<1>7. sess[q].pc \in {"idle", "checked"} => ~Works(sess[q]) /\ ~Unfinished(sess[q])
  BY DEF Works, FlushesLate, Holding, Unfinished
<1>8. CASE sess[q].pc = "idle"
  BY <1>1, <1>2, <1>8, <1>7 DEF InPlace, OnCourse, Truncating
<1>9. CASE /\ name' = name /\ i \in Inodes /\ Works(sess[p])
           /\ \A j \in Inodes \ {i} : file'[j] = file[j] /\ acked'[j] = acked[j]
           /\ Truncating(p) \/ file'[i].hdr = file[i].hdr
  <2>1. CASE sess[q].pc \in {"idle", "checked"}
    BY <1>1, <1>2, <1>9, <1>7, <2>1 DEF InPlace, OnCourse, Truncating
  <2>2. CASE sess[q].pc \notin {"idle", "checked"} /\ sess[q].inode # i
    BY <1>1, <1>2, <1>3, <1>9, <2>2 DEF InPlace, OnCourse, Truncating
  <2>3. CASE sess[q].pc \notin {"idle", "checked"} /\ sess[q].inode = i
    <3>1. ~Works(sess[q])
      BY <1>9, <2>3 DEF IInv, OneWorks
    <3>2. sess[q].buf = "none" /\ ~Unfinished(sess[q]) /\ sess[q].wrote = <<>>
          /\ sess[q].pc \in {"opened", "unlocked", "closed"}
      BY <1>1, <1>2, <2>3, <3>1
         DEF OnCourse, Unfinished, Works, FlushesLate, Holding, Session, PCs
    <3>3. Truncating(p) => i = name
      <4>1. sess[p].pc # "checked"
        BY <1>9 DEF Works, FlushesLate, Holding
      <4> QED
        BY <1>2, <4>1 DEF InPlace
    <3>4. sess[q].hasHeader \/ Truncating(q)
      BY <1>2, <2>3 DEF InPlace, Truncating
    <3>5. OnCourse(q)'
      BY <1>1, <1>2, <1>4, <1>9, <2>3, <3>2, <3>4 DEF OnCourse, Truncating
    <3>6. InPlace(q)'
      BY <1>1, <1>2, <1>4, <1>9, <2>3, <3>2, <3>3 DEF InPlace, Truncating
    <3> QED
      BY <3>5, <3>6
  <2> QED
    BY <2>1, <2>2, <2>3
<1> QED
  BY <1>5, <1>6, <1>8, <1>9, Footprint

------------------------------------------------------------------------------
(* What a step does to its own session and file *)

\* A chunk written after the first n leaves those as they are.
LEMMA WriteBehind ==
  ASSUME NEW b \in Seq(Chunk), NEW n \in Nat, n <= Len(b), NEW c \in Chunk
  PROVE  /\ n + 1 <= Len(WriteAt(b, n, c))
         /\ WriteAt(b, n, c)[n + 1] = c
         /\ \A k \in 1..n : WriteAt(b, n, c)[k] = b[k]
<1> DEFINE w == WriteAt(b, n, c)
<1>1. Len(b) \in Nat
  BY LenProperties
<1>2. /\ Len(w) = IF n < Len(b) THEN Len(b) ELSE n + 1
      /\ w[n + 1] = c
      /\ \A j \in 1..Len(b) : j # n + 1 => w[j] = b[j]
  BY WriteAtFacts
<1>3. \A k \in 1..n : k \in 1..Len(b) /\ k # n + 1
  BY <1>1
<1> QED
  BY <1>1, <1>2, <1>3

\* The file has a header, or the session's next write brings it.
Headed(s) == file[s.inode].hdr \/ HeaderDue(s)

\* With the header that may be due, the file holds the records it counts and
\* the session's.
LEMMA TargetFacts ==
  ASSUME IInv, NEW p \in Procs, Unfinished(sess[p]), Headed(sess[p])
  PROVE  LET s == sess[p]
             t == Target(s)
             old == acked[s.inode]
         IN /\ s.inode \in Inodes /\ t \in Contents /\ t.hdr
            /\ old \in Seq(Vals) /\ SoundWith(t, old)
            /\ Appended(s, t)
            /\ s.mode = "update" => s.inode = name /\ ~HeaderDue(s)
<1> DEFINE s == sess[p]
           i == s.inode
           f == file[i]
           t == Target(s)
           old == acked[i]
<1>1. s \in Session /\ i \in Inodes /\ f \in Contents /\ old \in Seq(Vals)
  BY DEF IInv, TypeOK, Seated, Unfinished
<1>2. SoundWith(f, old) /\ InPlace(p) /\ OnCourse(p)
  BY <1>1 DEF IInv, FileInv, PlaceInv, ProgressInv, Sound
<1>3. t \in Contents
  BY <1>1, FileOps DEF IInv
<1>4. s.mode = "update" => i = name /\ ~HeaderDue(s)
  BY <1>1, <1>2 DEF InPlace, HeaderDue, Headed, Unfinished
<1>5. CASE HeaderDue(s)
  <2>1. ~f.hdr /\ s.n = 0 /\ s.wrote = <<>>
    BY <1>2, <1>5 DEF OnCourse
  <2>2. f.body = <<>> /\ old = <<>>
    BY <1>2, <2>1 DEF SoundWith
  <2>3. t.hdr /\ t.ok /\ t.n = 0 /\ t.body = <<>>
    BY <1>1, <1>5, <2>2 DEF Target, WithHeader, Contents
  <2>4. Appended(s, t)
    <3> HIDE DEF s, t
    <3>1. Len(<<>>) = 0
      OBVIOUS
    <3>2. Len(s.wrote) = 0
      BY <2>1, <3>1
    <3>3. Found(s) = 0
      <4>1. s.n = 0
        BY <2>1
      <4>2. s.n - Len(s.wrote) = 0
        BY <3>2, <4>1
      <4> QED
        BY <4>2 DEF Found
    <3> QED
      BY <2>1, <2>3, <3>1, <3>3, <3>2 DEF Appended
  <2>5. SoundWith(t, old)
    BY <2>2, <2>3 DEF SoundWith, HoldsLast
  <2> QED
    BY <1>1, <1>3, <1>4, <2>3, <2>4, <2>5
<1>6. CASE ~HeaderDue(s)
  <2>1. f.hdr /\ Appended(s, f) /\ t = f
    BY <1>2, <1>6 DEF OnCourse, Target, Headed
  <2> QED
    BY <1>1, <1>2, <1>3, <1>4, <2>1
<1> QED
  BY <1>5, <1>6

\* A session whose file has no header, with none to come, has nothing in it.
LEMMA NotHeaded ==
  ASSUME IInv, NEW p \in Procs, Unfinished(sess[p]), ~Headed(sess[p])
  PROVE  LET s == sess[p]
             f == file[s.inode]
         IN /\ ~f.hdr /\ Target(s) = f
            /\ f.n = 0 /\ f.body = <<>> /\ acked[s.inode] = <<>>
            /\ s.n = 0 /\ s.wrote = <<>>
<1>1. sess[p].inode \in Inodes
  BY DEF IInv, Seated, Unfinished
<1>2. Sound(sess[p].inode) /\ OnCourse(p)
  BY <1>1 DEF IInv, FileInv, ProgressInv
<1>3. ~HeaderDue(sess[p]) /\ ~file[sess[p].inode].hdr
  BY DEF Headed
<1>4. sess[p].n = 0 /\ sess[p].wrote = <<>>
  BY <1>2, <1>3 DEF OnCourse
<1> QED
  BY <1>2, <1>3, <1>4 DEF Sound, SoundWith, Target

\* Nothing is lost of the session's records while the first n chunks stay.
LEMMA AppendedStays ==
  ASSUME NEW s \in Session, NEW t, NEW g, t.n \in Nat, g.n = t.n, Appended(s, t),
         s.n <= Len(g.body), \A k \in 1..s.n : g.body[k] = t.body[k]
  PROVE  Appended(s, g)
<1> DEFINE m == Found(s)
           w == Len(s.wrote)
           n == s.n
<1>1. m \in Nat /\ w \in Nat /\ n \in Nat /\ n = m + w
  <2>1. s.n \in Nat /\ w \in Nat /\ w <= s.n /\ m = s.n - w
    BY LenProperties DEF Session, Appended, Found
  <2> HIDE DEF m, w
  <2> QED
    BY <2>1
<1>2. \A k \in 1..w : t.body[m + k] = Rec(m + k - 1, s.wrote[k])
  BY DEF Appended
<1> HIDE DEF m, w, n
<1>3. \A k \in 1..w : m + k \in 1..n
  BY <1>1
<1>4. \A k \in 1..w : g.body[m + k] = Rec(m + k - 1, s.wrote[k])
  BY <1>2, <1>3 DEF n
<1>5. m = g.n \/ (m = 0 /\ ~NeverReset)
  BY DEF Appended, m
<1>6. w <= n /\ n <= Len(g.body)
  BY <1>1 DEF n
<1> QED
  BY <1>4, <1>5, <1>6 DEF Appended, m, w, n

\* The records found and the session's are the last of what it commits.
LEMMA AllAppended ==
  ASSUME NEW s \in Session, NEW t, NEW old \in Seq(Vals), t.n \in Nat,
         Len(t.body) \in Nat, Appended(s, t), HoldsLast(t, t.n, old)
  PROVE  /\ s.n \in Nat /\ HoldsLast(t, s.n, old \o s.wrote)
         /\ NeverReset /\ t.n = Len(old) => s.n = Len(old \o s.wrote)
<1> DEFINE m == Found(s)
           l == Len(old)
           w == Len(s.wrote)
           n == s.n
           new == old \o s.wrote
<1>1. s.wrote \in Seq(Vals)
  BY DEF Session
<1>2. HoldsLast(t, m, old) /\ (NeverReset => m = t.n)
  <2>1. m = t.n \/ (m = 0 /\ ~NeverReset)
    BY DEF Appended
  <2>2. HoldsLast(t, 0, old)
    BY LenProperties DEF HoldsLast
  <2> QED
    BY <2>1, <2>2
<1>3. m \in Nat /\ l \in Nat /\ m <= l /\ w \in Nat /\ n \in Nat /\ n = m + w
  <2>1. s.n \in Nat /\ w \in Nat /\ l \in Nat /\ w <= s.n /\ m = s.n - w
    BY <1>1, LenProperties DEF Session, Appended, Found
  <2>2. m <= l
    BY <1>2 DEF HoldsLast
  <2> HIDE DEF m, w, l
  <2> QED
    BY <2>1, <2>2
<1>4. /\ \A k \in 1..w : t.body[m + k] = Rec(m + k - 1, s.wrote[k])
      /\ \A k \in 1..m : t.body[k] = Rec(k - 1, old[l - m + k])
  BY <1>2 DEF Appended, HoldsLast
<1>5. /\ Len(new) = l + w
      /\ \A k \in 1..l + w : new[k] = IF k <= l THEN old[k] ELSE s.wrote[k - l]
  BY <1>1, ConcatProperties
<1> HIDE DEF m, l, w, n, new
<1>6. \A k \in 1..n : k \in 1..m \/ (~(k <= m) /\ k - m \in 1..w /\ m + (k - m) = k)
  BY <1>3
<1>7. Len(new) - n = l - m
  BY <1>3, <1>5
<1>8. ASSUME NEW k \in 1..n PROVE t.body[k] = Rec(k - 1, new[l - m + k])
  <2>1. CASE k \in 1..m
    <3>1. l - m + k \in 1..l + w /\ l - m + k <= l
      BY <1>3, <2>1
    <3>2. new[l - m + k] = old[l - m + k]
      BY <1>5, <3>1
    <3> QED
      BY <1>4, <2>1, <3>2
  <2>2. CASE ~(k <= m) /\ k - m \in 1..w /\ m + (k - m) = k
    <3>1. PICK j \in 1..w : j = k - m /\ m + j = k
      BY <2>2
    <3>2. PICK x \in 1..l + w : x = l - m + k /\ ~(x <= l) /\ x - l = j
      BY <1>3, <3>1
    <3>3. new[x] = s.wrote[j]
      BY <1>5, <3>2
    <3>4. t.body[m + j] = Rec(m + j - 1, s.wrote[j])
      BY <1>4
    <3>5. t.body[k] = Rec(k - 1, s.wrote[j])
      <4>1. m + j = k /\ m + j - 1 = k - 1
        BY <1>3, <3>1
      <4> QED
        BY <3>4, <4>1, Zenon
    <3> QED
      BY <3>2, <3>3, <3>5, Zenon
  <2> QED
    BY <1>6, <2>1, <2>2
<1>9. n <= Len(new) /\ (m = l => n = Len(new))
  BY <1>3, <1>5
<1>10. n <= Len(t.body)
  BY DEF Appended, n
<1>11. HoldsLast(t, n, new)
  BY <1>7, <1>8, <1>9, <1>10 DEF HoldsLast
<1> QED
  BY <1>2, <1>3, <1>9, <1>11 DEF l, n, new

\* Chunks that stay as they are hold the same records.
LEMMA StillHolds ==
  ASSUME NEW f, NEW g, NEW n \in Nat, NEW old, HoldsLast(f, n, old), n <= Len(g.body),
         \A k \in 1..n : g.body[k] = f.body[k]
  PROVE  HoldsLast(g, n, old)
  BY DEF HoldsLast

\* Counters that count what is there and what the session wrote leave the file sound.
LEMMA CountersAreSound ==
  ASSUME IInv, NEW p \in Procs, Unfinished(sess[p])
  PROVE  LET s == sess[p]
             g == WithCounters(s)
         IN /\ SoundWith(g, acked[s.inode] \o s.wrote)
            /\ g.hdr = Target(s).hdr /\ g.n = s.n /\ g.body = Target(s).body /\ g.ok
<1> DEFINE s == sess[p]
           i == s.inode
           t == Target(s)
           g == WithCounters(s)
           old == acked[i]
           new == old \o s.wrote
<1>1. s \in Session /\ i \in Inodes
  BY DEF IInv, TypeOK, Seated, Unfinished
<1>2. t \in Contents
  BY <1>1, FileOps DEF IInv
<1>3. g.hdr = t.hdr /\ g.ok /\ g.n = s.n /\ g.body = t.body
  BY <1>1, <1>2 DEF WithCounters, Contents, Session
<1>4. CASE Headed(s)
  <2>1. t.hdr /\ SoundWith(t, old) /\ Appended(s, t) /\ old \in Seq(Vals)
    BY <1>4, TargetFacts
  <2>2. t.n \in Nat /\ Len(t.body) \in Nat
    BY <1>2, LenProperties DEF Contents
  <2>3. HoldsLast(t, t.n, old) /\ (NeverReset => t.n = Len(old))
    BY <2>1 DEF SoundWith
  <2>4. HoldsLast(t, s.n, new) /\ (NeverReset => s.n = Len(new))
    <3> HIDE DEF t
    <3> QED
      BY <1>1, <2>1, <2>2, <2>3, AllAppended
  <2> HIDE DEF g, new
  <2>5. SoundWith(g, new)
    BY <1>3, <2>1, <2>4 DEF SoundWith, HoldsLast
  <2> QED
    BY <1>3, <2>5 DEF g, new
<1>5. CASE ~Headed(s)
  <2>1. ~t.hdr /\ t.body = <<>> /\ s.n = 0 /\ old = <<>> /\ s.wrote = <<>>
    BY <1>5, NotHeaded
  <2>2. new = <<>>
    BY <2>1
  <2> HIDE DEF g, new
  <2>3. SoundWith(g, new)
    BY <1>3, <2>1, <2>2 DEF SoundWith
  <2> QED
    BY <1>3, <2>3 DEF g, new
<1> QED
  BY <1>4, <1>5

\* A change of the session's file that leaves that file sound.
LEMMA FilesStaySound ==
  ASSUME IInv, NEW i \in Inodes, NEW g, file' = [file EXCEPT ![i] = g],
         \A k \in Inodes \ {i} : acked'[k] = acked[k], SoundWith(g, acked'[i])
  PROVE  FileInv'
<1>1. file \in [Inodes -> Contents] /\ \A k \in Inodes : SoundWith(file[k], acked[k])
  BY DEF IInv, TypeOK, FileInv, Sound
<1>2. \A k \in Inodes : SoundWith(file'[k], acked'[k])
  BY <1>1
<1> QED
  BY <1>2 DEF FileInv, Sound

\* A session that goes on with its file.
LEMMA StaysInPlace ==
  ASSUME IInv, NEW p \in Procs, NEW u, sess'[p] = u, name' = name,
         u.mode = sess[p].mode, u.inode = sess[p].inode,
         sess[p].pc \notin {"idle", "checked"}, u.pc # "checked",
         sess[p].mode = "update" =>
           /\ u.hasHeader /\ u.buf # "header"
           /\ file'[u.inode].hdr = file[u.inode].hdr
  PROVE  InPlace(p)'
<1>1. InPlace(p)
  BY DEF IInv, PlaceInv
<1> QED
  BY <1>1 DEF InPlace, Truncating

\* A session that is over.
LEMMA IdleInPlace ==
  ASSUME NEW p \in Procs, sess'[p] = Idle
  PROVE  InPlace(p)' /\ OnCourse(p)'
<1>1. /\ Idle.pc = "idle" /\ Idle.mode = "create" /\ Idle.buf = "none" /\ Idle.wrote = <<>>
  BY DEF Idle, NewSession
<1> QED
  BY <1>1 DEF InPlace, OnCourse, Truncating, Unfinished

\* The invariant's parts about a process and its file outlive a step of that
\* process.  First the steps of __init__.
LEMMA OwnOpening ==
  ASSUME IInv, Disciplined, NEW p \in Procs, Opening(p)
  PROVE  InPlace(p)' /\ OnCourse(p)' /\ FileInv'
<1> DEFINE s == sess[p]
           i == s.inode
           f == file[i]
           Kept == UNCHANGED <<file, acked>>
<1>1. /\ s \in Session /\ sess \in [Procs -> Session]
      /\ file \in [Inodes -> Contents] /\ acked \in [Inodes -> Seq(Vals)]
  BY DEF IInv, TypeOK
<1>2. FileInv /\ InPlace(p) /\ OnCourse(p)
  BY DEF IInv, PlaceInv, ProgressInv
<1>3. s.pc \notin {"idle", "checked"} =>
        /\ i \in Inodes /\ SoundWith(f, acked[i])
        /\ f \in Contents /\ f.body \in Seq(Chunk) /\ acked[i] \in Seq(Vals)
  BY <1>1, <1>2 DEF IInv, Seated, FileInv, Sound, Contents
<1>4. Kept => FileInv'
  BY <1>2 DEF FileInv, Sound
<1>5. CASE CheckAbsent(p)
  <2>1. PICK st \in BOOLEAN : sess'[p] = NewSession("checked", "create", None, st)
    BY <1>1, <1>5 DEF CheckAbsent, Become
  <2>2. Kept /\ name' = name /\ name = None
    BY <1>5 DEF CheckAbsent
  <2>3. InPlace(p)'
    BY <2>1, <2>2, NewSessionFields DEF InPlace, Truncating
  <2>4. OnCourse(p)'
    BY <2>1, <2>2, NewSessionFields DEF OnCourse, Unfinished
  <2> QED
    BY <1>4, <2>2, <2>3, <2>4
<1>6. ASSUME NEW j \in Inodes, NEW mode \in {"create", "recreate"}, NEW st \in BOOLEAN,
             TruncatingOpen(p, j, mode, st)
      PROVE  InPlace(p)' /\ OnCourse(p)' /\ FileInv'
  <2>1. sess'[p] = NewSession("opened", mode, j, st) /\ name' = j
    BY <1>1, <1>6 DEF TruncatingOpen, Become
  <2>2. /\ file' = [file EXCEPT ![j] = EmptyFile] /\ file'[j] = EmptyFile /\ acked'[j] = <<>>
        /\ \A k \in Inodes \ {j} : acked'[k] = acked[k]
    BY <1>1, <1>6 DEF TruncatingOpen
  <2>3. SoundWith(EmptyFile, <<>>)
    BY DEF SoundWith, EmptyFile
  <2>4. FileInv'
    BY <2>2, <2>3, FilesStaySound
  <2>5. InPlace(p)'
    BY <1>6, <2>1, NewSessionFields DEF InPlace, Truncating
  <2>6. OnCourse(p)'
    BY <1>6, <2>1, <2>2, NewSessionFields DEF OnCourse, EmptyFile, Unfinished
  <2> QED
    BY <2>4, <2>5, <2>6
<1>7. CASE OpenCreate(p)
  BY <1>1, <1>6, <1>7 DEF OpenCreate, Session
<1>8. CASE OpenRecreate(p)
  BY <1>6, <1>8 DEF OpenRecreate
<1>9. CASE OpenUpdate(p)
  <2>1. PICK st \in BOOLEAN : sess'[p] = NewSession("opened", "update", name, st)
    BY <1>1, <1>9 DEF OpenUpdate, Become
  <2>2. Kept /\ name' = name
    BY <1>9 DEF OpenUpdate
  <2>3. InPlace(p)'
    BY <2>1, <2>2, NewSessionFields DEF InPlace, Truncating
  <2>4. OnCourse(p)'
    BY <2>1, <2>2, NewSessionFields DEF OnCourse, Unfinished
  <2> QED
    BY <1>4, <2>2, <2>3, <2>4
<1>10. CASE Lock(p)
  <2> DEFINE u == [s EXCEPT !.pc = AfterLock(s)]
  <2>1. sess'[p] = u /\ s.pc = "opened" /\ Kept /\ name' = name
    BY <1>1, <1>10 DEF Lock, Become
  <2>2. /\ u.pc = AfterLock(s) /\ u.mode = s.mode /\ u.inode = i /\ u.hasHeader = s.hasHeader
        /\ u.buf = s.buf /\ u.failed = s.failed /\ u.n = s.n /\ u.pos = s.pos
        /\ u.wrote = s.wrote
    BY <1>1 DEF Session
  <2>3. /\ s.n = 0 /\ s.pos = 0 /\ s.wrote = <<>> /\ ~s.failed /\ s.buf = "none"
        /\ s.mode = "update" => s.hasHeader
        /\ s.mode # "update" => ~s.hasHeader /\ ~f.hdr /\ f.n = 0
    BY <1>2, <1>3, <2>1 DEF OnCourse, InPlace, SoundWith
  <2> HIDE DEF u
  <2>4. InPlace(p)'
    BY <2>1, <2>2, <2>3, StaysInPlace DEF AfterLock
  <2>5. Found(u) = 0
    <3>1. u.n = 0 /\ Len(u.wrote) = 0
      BY <2>2, <2>3
    <3> QED
      BY <3>1 DEF Found
  <2>6. OnCourse(p)'
    <3>1. CASE s.mode = "update"
      <4>1. u.pc = "locked"
        BY <2>2, <3>1 DEF AfterLock
      <4> QED
        BY <2>1, <2>2, <2>3, <3>1, <4>1 DEF OnCourse, Unfinished
    <3>2. CASE s.mode # "update"
      <4>1. u.pc = "open" /\ HeaderDue(u)
        BY <2>2, <2>3, <3>2 DEF AfterLock, HeaderDue
      <4> QED
        BY <2>1, <2>2, <2>3, <2>5, <3>2, <4>1 DEF OnCourse, Unfinished
    <3> QED
      BY <3>1, <3>2
  <2> QED
    BY <1>4, <2>1, <2>4, <2>6
<1>11. CASE Contended(p)
  <2>1. sess'[p] = Idle /\ Kept
    BY <1>1, <1>11 DEF Contended, Become
  <2> QED
    BY <1>4, <2>1, IdleInPlace
\* What the load makes of a file that has a header.
<1> DEFINE g == [f EXCEPT !.body = Truncated(f.body, f.n)]
<1>12. s.pc = "locked" /\ f.hdr =>
         /\ CutBack(i) = [file EXCEPT ![i] = g]
         /\ f.n \in Nat /\ f.n <= Len(f.body) /\ Len(g.body) = f.n
         /\ g.hdr /\ g.n = f.n /\ g.ok = f.ok
         /\ SoundWith(g, acked[i])
  <2> SUFFICES ASSUME s.pc = "locked", f.hdr
               PROVE  /\ CutBack(i) = [file EXCEPT ![i] = g]
                      /\ f.n \in Nat /\ f.n <= Len(f.body) /\ Len(g.body) = f.n
                      /\ g.hdr /\ g.n = f.n /\ g.ok = f.ok
                      /\ SoundWith(g, acked[i])
    OBVIOUS
  <2>1. CutBack(i) = [file EXCEPT ![i] = g]
    BY DEF CutBack, EndOfCommitted
  <2>2. f.n \in Nat /\ HoldsLast(f, f.n, acked[i]) /\ f.n <= Len(f.body)
    BY <1>3 DEF SoundWith, HoldsLast, Contents
  <2>3. g.hdr /\ g.ok = f.ok /\ g.n = f.n /\ g.body = Truncated(f.body, f.n)
    BY <1>3, <2>2 DEF Contents
  <2>4. Len(g.body) = f.n /\ \A k \in 1..f.n : g.body[k] = f.body[k]
    <3>1. f.body \in Seq(Chunk) /\ Len(f.body) \in Nat
      BY <1>3, LenProperties
    <3>2. /\ Len(Truncated(f.body, f.n)) = f.n
          /\ \A k \in 1..f.n : k <= Len(f.body) => Truncated(f.body, f.n)[k] = f.body[k]
      BY <2>2, <3>1, TruncatedFacts
    <3>3. \A k \in 1..f.n : k <= Len(f.body)
      BY <2>2, <3>1
    <3> HIDE DEF f, g
    <3> QED
      BY <2>3, <3>2, <3>3
  <2>5. HoldsLast(g, g.n, acked[i])
    <3> HIDE DEF f, g
    <3>1. g.n \in Nat /\ HoldsLast(f, g.n, acked[i]) /\ g.n <= Len(g.body)
      BY <2>2, <2>3, <2>4
    <3>2. \A k \in 1..g.n : g.body[k] = f.body[k]
      BY <2>3, <2>4
    <3> QED
      BY <3>1, <3>2, StillHolds
  <2>6. SoundWith(g, acked[i])
    <3>1. (~TornCounters => f.ok) /\ (NeverReset => f.n = Len(acked[i]))
      BY <1>3 DEF SoundWith
    <3> HIDE DEF f, g
    <3> QED
      BY <2>3, <2>5, <3>1 DEF SoundWith
  <2> QED
    BY <2>1, <2>2, <2>3, <2>4, <2>6
<1>13. s.pc = "locked" => /\ s.mode = "update" /\ s.hasHeader /\ s.buf = "none"
                          /\ s.wrote = <<>> /\ ~s.failed /\ s.n = 0
  BY <1>2 DEF InPlace, OnCourse
<1>14. LoadOK(p) => f.hdr
  BY DEF LoadOK, HeaderOK
<1>15. CASE Load(p)
  <2> DEFINE u == [s EXCEPT !.pc = "open", !.n = f.n, !.pos = f.n, !.acc = StatsLoaded(s)]
  <2>1. /\ s.pc = "locked" /\ LoadOK(p) /\ name' = name /\ acked' = acked
        /\ file' = CutBack(i) /\ sess'[p] = u
    BY <1>1, <1>15 DEF Load, EndOfCommitted, Become
  <2>2. file' = [file EXCEPT ![i] = g] /\ SoundWith(g, acked'[i]) /\ i \in Inodes
    BY <1>3, <1>12, <1>14, <2>1
  <2>3. file'[i] = g
    BY <1>1, <2>2
  <2>4. FileInv'
    BY <2>1, <2>2, FilesStaySound
  <2>5. /\ u.pc = "open" /\ u.mode = s.mode /\ u.inode = i /\ u.hasHeader = s.hasHeader
        /\ u.buf = s.buf /\ u.failed = s.failed /\ u.n = f.n /\ u.pos = f.n
        /\ u.wrote = s.wrote
    BY <1>1 DEF Session
  <2>6. /\ f.hdr /\ g.hdr /\ g.n = f.n /\ f.n \in Nat /\ Len(g.body) = f.n
        /\ s.mode = "update" /\ s.hasHeader /\ s.buf = "none" /\ s.wrote = <<>> /\ ~s.failed
    BY <1>12, <1>13, <1>14, <2>1
  <2> HIDE DEF u, g, f
  <2>7. InPlace(p)'
    BY <2>1, <2>3, <2>5, <2>6, StaysInPlace DEF f
  <2>8. Len(u.wrote) = 0
    BY <2>5, <2>6
  <2>9. Found(u) = g.n
    BY <2>5, <2>6, <2>8 DEF Found
  <2>10. Appended(u, g)
    BY <2>5, <2>6, <2>8, <2>9 DEF Appended
  <2>11. OnCourse(p)'
    BY <2>1, <2>3, <2>5, <2>6, <2>8, <2>9, <2>10 DEF OnCourse, HeaderDue
  <2> QED
    BY <2>4, <2>7, <2>11
\* An __init__ that raised knows of all the records that are counted, or of none.
<1>16. ASSUME NEW u, sess'[p] = u, s.pc = "locked", name' = name, acked' = acked,
              u.pc = "broken", u.mode = s.mode, u.inode = i, u.hasHeader = s.hasHeader,
              u.buf = s.buf, u.wrote = s.wrote,
              file' = file \/ (f.hdr /\ file' = CutBack(i)),
              f.hdr => u.n = f.n \/ (u.n = 0 /\ ~NeverReset),
              ~f.hdr => u.n = 0
       PROVE  InPlace(p)' /\ OnCourse(p)' /\ FileInv'
  <2>1. i \in Inodes
    BY <1>3, <1>16
  <2>2. file'[i] = f \/ (f.hdr /\ file'[i] = g)
    BY <1>1, <1>12, <1>16, <2>1
  <2>3. FileInv'
    <3>1. CASE file' = file
      BY <1>4, <1>16, <3>1
    <3>2. CASE f.hdr /\ file' = CutBack(i)
      <4>1. file' = [file EXCEPT ![i] = g] /\ SoundWith(g, acked'[i])
        BY <1>12, <1>16, <3>2
      <4> QED
        BY <1>16, <2>1, <4>1, FilesStaySound
    <3> QED
      BY <1>16, <3>1, <3>2
  <2>4. /\ file'[i].hdr = f.hdr
        /\ f.hdr => file'[i].n = f.n /\ f.n \in Nat /\ f.n <= Len(file'[i].body)
    <3>1. /\ f.hdr => g.hdr /\ g.n = f.n /\ f.n \in Nat
          /\ f.hdr => f.n <= Len(f.body) /\ f.n <= Len(g.body)
      BY <1>12, <1>16
    <3> HIDE DEF f, g
    <3> QED
      BY <2>2, <3>1
  <2>5. InPlace(p)'
    BY <1>13, <1>16, <2>4, StaysInPlace
  <2>6. Len(u.wrote) = 0
    BY <1>13, <1>16
  <2>7. f.hdr => Appended(u, file'[i])
    <3> HIDE DEF f
    <3> SUFFICES ASSUME f.hdr PROVE Appended(u, file'[i])
      OBVIOUS
    <3>1. u.n \in Nat
      BY <1>16, <2>4
    <3>2. Found(u) = u.n
      BY <2>6, <3>1 DEF Found
    <3>3. u.n <= Len(file'[i].body) /\ (u.n = file'[i].n \/ (u.n = 0 /\ ~NeverReset))
      BY <1>16, <2>4, LenProperties
    <3> QED
      BY <2>6, <3>1, <3>2, <3>3 DEF Appended
  <2>8. OnCourse(p)'
    <3>1. ~HeaderDue(u)
      BY <1>13, <1>16, <2>1 DEF HeaderDue, InPlace
    <3> HIDE DEF f, g
    <3> QED
      BY <1>13, <1>16, <2>4, <2>7, <3>1 DEF OnCourse, Works, Holding
  <2> QED
    BY <2>3, <2>5, <2>8
<1>17. CASE LoadFails(p)
  <2>1. PICK u :
          /\ sess' = [sess EXCEPT ![p] = u]
          /\ u.pc = "broken" /\ u.mode = s.mode /\ u.inode = i
          /\ u.hasHeader = s.hasHeader /\ u.buf = s.buf
          /\ u.wrote = s.wrote /\ u.n = CountLoaded(f)
    BY <1>1, <1>17, FailedLoadSession
  <2>2. /\ s.pc = "locked" /\ name' = name /\ acked' = acked
        /\ file' = file \/ (LoadOK(p) /\ file' = CutBack(i))
    BY <1>17 DEF LoadFails
  <2>3. f.hdr => u.n = f.n \/ (u.n = 0 /\ ~NeverReset)
    <3>1. f.hdr /\ ~f.ok => ~NeverReset
      BY <1>3, <2>2 DEF SoundWith, NeverReset
    <3> QED
      BY <2>1, <3>1 DEF CountLoaded, HeaderOK
  <2>4. ~f.hdr => u.n = 0
    BY <2>1 DEF CountLoaded, HeaderOK
  <2>5. sess'[p] = u
    BY <1>1, <2>1
  <2> QED
    BY <1>14, <1>16, <2>1, <2>2, <2>3, <2>4, <2>5
<1>18. CASE OpenInterrupted(p)
  <2> DEFINE u == [s EXCEPT !.pc = "broken"]
  <2>1. s.pc = "locked" /\ InterruptedAt # {}
    BY <1>18, InterruptAssumption DEF OpenInterrupted, Disciplined
  <2>2. sess'[p] = u /\ UNCHANGED <<name, file, acked>>
    BY <1>1, <1>18 DEF OpenInterrupted, Become
  <2>3. /\ u.pc = "broken" /\ u.mode = s.mode /\ u.inode = i /\ u.hasHeader = s.hasHeader
        /\ u.buf = s.buf /\ u.wrote = s.wrote /\ u.n = s.n
    BY <1>1 DEF Session
  <2> HIDE DEF u
  <2>4. u.n = 0 /\ ~NeverReset
    BY <1>13, <2>1, <2>3 DEF NeverReset
  <2> QED
    BY <1>16, <2>1, <2>2, <2>3, <2>4
<1> QED
  BY <1>5, <1>7, <1>8, <1>9, <1>10, <1>11, <1>15, <1>17, <1>18 DEF Opening

\* The steps of write().
LEMMA OwnWriting ==
  ASSUME IInv, Disciplined, NEW p \in Procs, Writing(p)
  PROVE  InPlace(p)' /\ OnCourse(p)' /\ FileInv'
<1> DEFINE s == sess[p]
           i == s.inode
           f == file[i]
           t == Target(s)
           old == acked[i]
<1>1. /\ s \in Session /\ sess \in [Procs -> Session]
      /\ file \in [Inodes -> Contents] /\ acked \in [Inodes -> Seq(Vals)]
  BY DEF IInv, TypeOK
<1>2. FileInv /\ InPlace(p) /\ OnCourse(p)
  BY DEF IInv, PlaceInv, ProgressInv
<1>3. s.pc = "open" /\ ~s.failed /\ name' = name /\ acked' = acked
  BY DEF Writing, Write, WriteFails, MayWrite, Disciplined
<1>4. Unfinished(s) /\ (f.hdr <=> ~HeaderDue(s)) /\ s.pos = s.n /\ Found(s) = f.n
  BY <1>2, <1>3 DEF OnCourse, Unfinished
<1>5. Headed(s)
  BY <1>4 DEF Headed
<1>6. /\ i \in Inodes /\ t \in Contents /\ t.hdr /\ SoundWith(t, old) /\ Appended(s, t)
      /\ s.mode = "update" => ~HeaderDue(s)
  BY <1>4, <1>5, TargetFacts
<1>7. /\ t.n \in Nat /\ t.body \in Seq(Chunk) /\ Len(t.body) \in Nat
      /\ s.n \in Nat /\ s.wrote \in Seq(Vals) /\ Len(s.wrote) \in Nat
  BY <1>1, <1>6, LenProperties DEF Contents, Session
<1>8. /\ t.n = f.n /\ (s.mode = "update" => t = f)
      /\ HeaderDue(s) => ~f.hdr /\ f.n = 0
  <2>1. SoundWith(f, old)
    BY <1>2, <1>6 DEF FileInv, Sound
  <2>2. CASE HeaderDue(s)
    <3>1. f.n = 0
      BY <1>4, <2>1, <2>2 DEF SoundWith
    <3>2. t.n = 0
      BY <1>1, <1>6, <2>2 DEF Target, WithHeader, Contents
    <3> QED
      BY <1>4, <1>6, <2>2, <3>1, <3>2
  <2>3. CASE ~HeaderDue(s)
    BY <2>3 DEF Target
  <2> QED
    BY <2>2, <2>3
<1>9. t.n <= s.n /\ s.n <= Len(t.body) /\ s.n = t.n + Len(s.wrote)
  <2>1. s.n - Len(s.wrote) = t.n /\ s.n <= Len(t.body)
    BY <1>4, <1>6, <1>8 DEF Found, Appended
  <2> HIDE DEF s, t
  <2> QED
    BY <1>7, <2>1
\* The session's file becomes c: its first n chunks stay.
<1>10. ASSUME NEW c, file' = [file EXCEPT ![i] = c], c.hdr, c.ok = t.ok, c.n = t.n,
              Len(c.body) \in Nat, s.n <= Len(c.body),
              \A k \in 1..s.n : c.body[k] = t.body[k]
       PROVE  FileInv' /\ Appended(s, c) /\ file'[i] = c
  <2>1. Appended(s, c)
    <3> HIDE DEF s, t
    <3> QED
      BY <1>1, <1>6, <1>7, <1>10, AppendedStays DEF s
  <2>2. HoldsLast(c, t.n, old)
    <3>1. HoldsLast(t, t.n, old) /\ t.n <= Len(c.body) /\ \A k \in 1..t.n : c.body[k] = t.body[k]
      <4> HIDE DEF s, t
      <4> QED
        BY <1>6, <1>7, <1>9, <1>10 DEF SoundWith
    <3> HIDE DEF t
    <3> QED
      BY <1>7, <3>1, StillHolds
  <2>3. SoundWith(c, acked'[i])
    <3>1. (~TornCounters => t.ok) /\ (NeverReset => t.n = Len(old))
      BY <1>6 DEF SoundWith
    <3> HIDE DEF t
    <3> QED
      BY <1>3, <1>10, <2>2, <3>1 DEF SoundWith
  <2>4. FileInv'
    BY <1>3, <1>6, <1>10, <2>3, FilesStaySound
  <2> QED
    BY <1>1, <1>6, <1>10, <2>1, <2>4
<1>11. CASE Write(p)
  <2>1. PICK v \in Vals :
          /\ file' = [file EXCEPT ![i] = WithRecord(s, v)]
          /\ sess'[p] = [s EXCEPT !.hasHeader = TRUE, !.buf = "none",
                                  !.n = @ + 1, !.pos = @ + 1,
                                  !.acc = IF s.stats THEN Append(@, v) ELSE @,
                                  !.wrote = Append(@, v)]
    BY <1>1, <1>11 DEF Write, Become
  <2> DEFINE c == Rec(s.n, v)
             g == WithRecord(s, v)
             u == [s EXCEPT !.hasHeader = TRUE, !.buf = "none",
                            !.n = @ + 1, !.pos = @ + 1,
                            !.acc = IF s.stats THEN Append(@, v) ELSE @,
                            !.wrote = Append(@, v)]
  <2>2. c \in Chunk
    BY <1>7, ChunkTypes
  <2>3. g.body = WriteAt(t.body, s.n, c) /\ g.hdr = t.hdr /\ g.hdr /\ g.ok = t.ok /\ g.n = t.n
    BY <1>4, <1>6 DEF WithRecord, WithChunk, Contents
  <2>4. /\ s.n + 1 <= Len(g.body) /\ g.body[s.n + 1] = c /\ Len(g.body) \in Nat
        /\ \A k \in 1..s.n : g.body[k] = t.body[k]
    <3> HIDE DEF t, s, c, g
    <3>1. WriteAt(t.body, s.n, c) \in Seq(Chunk)
      BY <1>7, <2>2, WriteAtFacts
    <3>2. /\ s.n + 1 <= Len(WriteAt(t.body, s.n, c))
          /\ WriteAt(t.body, s.n, c)[s.n + 1] = c
          /\ \A k \in 1..s.n : WriteAt(t.body, s.n, c)[k] = t.body[k]
      BY <1>7, <1>9, <2>2, WriteBehind
    <3>3. Len(WriteAt(t.body, s.n, c)) \in Nat
      BY <3>1, LenProperties
    <3> QED
      BY <2>3, <3>2, <3>3
  <2>5. /\ u.pc = "open" /\ u.mode = s.mode /\ u.inode = i /\ u.hasHeader /\ u.buf = "none"
        /\ u.failed = s.failed /\ u.n = s.n + 1 /\ u.pos = s.pos + 1
        /\ u.wrote = Append(s.wrote, v)
    BY <1>1, <1>3 DEF Session
  <2>6. sess'[p] = u /\ file' = [file EXCEPT ![i] = g]
    BY <2>1
  <2> HIDE DEF u, g
  <2>7. FileInv' /\ Appended(s, g) /\ file'[i] = g
    <3>1. s.n <= Len(g.body)
      BY <1>7, <2>4
    <3> QED
      BY <1>10, <2>3, <2>4, <2>6, <3>1
  <2>8. InPlace(p)'
    <3>1. s.mode = "update" => file'[i].hdr = f.hdr
      BY <1>6, <1>8, <2>3, <2>7
    <3> QED
      BY <1>3, <2>5, <2>6, <3>1, StaysInPlace
  <2>9. /\ Len(u.wrote) = Len(s.wrote) + 1 /\ u.wrote[Len(s.wrote) + 1] = v
        /\ \A k \in 1..Len(s.wrote) : u.wrote[k] = s.wrote[k]
    BY <1>7, <2>5, AppendProperties
  <2>10. Found(u) = g.n
    <3>1. u.n - Len(u.wrote) = t.n
      <4> HIDE DEF s, t
      <4> QED
        BY <1>7, <1>9, <2>5, <2>9
    <3> QED
      BY <2>3, <3>1 DEF Found
  <2>11. Appended(u, g)
    <3>1. \A k \in 1..Len(s.wrote) : g.body[g.n + k] = Rec(g.n + k - 1, s.wrote[k])
      <4>1. \A k \in 1..Len(s.wrote) : g.body[Found(s) + k] = Rec(Found(s) + k - 1, s.wrote[k])
        BY <2>7 DEF Appended
      <4>2. Found(s) = g.n
        BY <1>4, <1>8, <2>3
      <4> QED
        BY <4>1, <4>2
    <3>2. g.n + (Len(s.wrote) + 1) = s.n + 1 /\ g.n + (Len(s.wrote) + 1) - 1 = s.n
      <4> HIDE DEF s, t
      <4> QED
        BY <1>7, <1>9, <2>3
    <3>3. \A k \in 1..Len(s.wrote) + 1 : k \in 1..Len(s.wrote) \/ k = Len(s.wrote) + 1
      BY <1>7
    <3>4. \A k \in 1..Len(s.wrote) + 1 :
            g.body[g.n + k] = Rec(g.n + k - 1, u.wrote[k])
      BY <2>4, <2>9, <3>1, <3>2, <3>3
    <3>5. Len(u.wrote) <= u.n /\ u.n <= Len(g.body)
      <4> HIDE DEF s, t
      <4> QED
        BY <1>7, <1>9, <2>4, <2>5, <2>9
    <3> QED
      BY <2>9, <2>10, <3>4, <3>5 DEF Appended
  <2>12. OnCourse(p)'
    <3>1. ~HeaderDue(u)
      BY <2>5 DEF HeaderDue
    <3>2. u.pos = u.n
      BY <1>4, <2>5
    <3> HIDE DEF s, t, f
    <3> QED
      BY <1>3, <2>3, <2>5, <2>6, <2>7, <2>10, <2>11, <3>1, <3>2
         DEF OnCourse, Works, Holding, Unfinished, i
  <2> QED
    BY <2>7, <2>8, <2>12
\* A write() that raised leaves the session with what it had.
<1>12. ASSUME NEW u, NEW g, sess'[p] = u, file'[i] = g, g.hdr <=> ~HeaderDue(u),
              u.pc = "open", u.mode = s.mode, u.inode = i, u.hasHeader, u.failed,
              u.buf \in {"none", "header"}, u.n = s.n, u.wrote = s.wrote, g.n = f.n,
              g.hdr => Appended(s, g),
              ~g.hdr => s.n = 0 /\ s.wrote = <<>>
       PROVE  OnCourse(p)'
  <2>1. Found(u) = g.n
    BY <1>4, <1>12 DEF Found
  <2>2. g.hdr => Appended(u, g)
    BY <1>12 DEF Appended, Found
  <2> HIDE DEF s, f
  <2> QED
    BY <1>12, <2>1, <2>2 DEF OnCourse, Works, Holding, Unfinished
<1>13. CASE WriteFails(p)
  <2> DEFINE u0 == [s EXCEPT !.hasHeader = TRUE, !.failed = TRUE,
                             !.buf = IF HeaderDue(s) THEN "header" ELSE "none"]
             u1 == [s EXCEPT !.hasHeader = TRUE, !.failed = TRUE, !.buf = "none"]
             u2 == [s EXCEPT !.hasHeader = TRUE, !.failed = TRUE, !.buf = "none",
                             !.pos = s.pos + 1]
             g == WithChunk(s, Junk)
  <2>1. \/ sess'[p] = u0 /\ file' = file
        \/ sess'[p] = u1 /\ file' = [file EXCEPT ![i] = t]
        \/ sess'[p] = u2 /\ file' = [file EXCEPT ![i] = g]
    BY <1>1, <1>13 DEF WriteFails, Become, Session
  <2>2. /\ u0.pc = "open" /\ u0.mode = s.mode /\ u0.inode = i /\ u0.hasHeader /\ u0.failed
        /\ u0.buf = IF HeaderDue(s) THEN "header" ELSE "none"
        /\ u0.n = s.n /\ u0.wrote = s.wrote
    BY <1>1, <1>3 DEF Session
  <2>3. \A u \in {u1, u2} :
          /\ u.pc = "open" /\ u.mode = s.mode /\ u.inode = i /\ u.hasHeader /\ u.failed
          /\ u.buf = "none" /\ u.n = s.n /\ u.wrote = s.wrote
    BY <1>1, <1>3 DEF Session
  <2> HIDE DEF u0, u1, u2
  <2>4. \A u \in {u1, u2} : ~HeaderDue(u)
    BY <2>3 DEF HeaderDue
  <2>5. CASE sess'[p] = u0 /\ file' = file
    <3>1. HeaderDue(u0) <=> HeaderDue(s)
      BY <2>2 DEF HeaderDue
    <3>2. InPlace(p)'
      BY <1>3, <1>6, <2>2, <2>5, StaysInPlace
    <3>3. IF f.hdr THEN Appended(s, f) ELSE s.n = 0 /\ s.wrote = <<>>
      BY <1>2, <1>4 DEF OnCourse
    <3>4. OnCourse(p)'
      BY <1>4, <1>12, <2>2, <2>5, <3>1, <3>3
    <3>5. FileInv'
      BY <1>2, <1>3, <2>5 DEF FileInv, Sound
    <3> QED
      BY <3>2, <3>4, <3>5
  <2>6. CASE sess'[p] = u1 /\ file' = [file EXCEPT ![i] = t]
    <3>1. FileInv' /\ file'[i] = t
      <4>1. \A k \in 1..s.n : t.body[k] = t.body[k]
        OBVIOUS
      <4> HIDE DEF t
      <4> QED
        BY <1>6, <1>7, <1>9, <1>10, <2>6, <4>1
    <3>2. InPlace(p)'
      BY <1>3, <1>6, <1>8, <2>3, <2>6, <3>1, StaysInPlace
    <3>3. OnCourse(p)'
      BY <1>6, <1>8, <1>12, <2>3, <2>4, <2>6, <3>1
    <3> QED
      BY <3>1, <3>2, <3>3
  <2>7. CASE sess'[p] = u2 /\ file' = [file EXCEPT ![i] = g]
    <3>1. t.body \in Seq(Chunk) /\ Junk \in Chunk
      BY <1>7, ChunkTypes
    <3>2. g.hdr = t.hdr /\ g.hdr /\ g.ok = t.ok /\ g.n = t.n /\ g.body = WriteAt(t.body, s.n, Junk)
      BY <1>4, <1>6 DEF WithChunk, Contents
    <3>3. /\ s.n <= Len(g.body) /\ Len(g.body) \in Nat
          /\ \A k \in 1..s.n : g.body[k] = t.body[k]
      <4> HIDE DEF t, s, g
      <4>1. /\ s.n + 1 <= Len(WriteAt(t.body, s.n, Junk))
            /\ \A k \in 1..s.n : WriteAt(t.body, s.n, Junk)[k] = t.body[k]
        BY <1>7, <1>9, <3>1, WriteBehind
      <4>2. Len(WriteAt(t.body, s.n, Junk)) \in Nat
        BY <1>7, <3>1, WriteAtFacts, LenProperties
      <4> QED
        BY <1>7, <3>2, <4>1, <4>2
    <3> HIDE DEF g
    <3>4. FileInv' /\ Appended(s, g) /\ file'[i] = g
      BY <1>10, <2>7, <3>2, <3>3
    <3>5. InPlace(p)'
      BY <1>3, <1>6, <1>8, <2>3, <2>7, <3>2, <3>4, StaysInPlace
    <3>6. OnCourse(p)'
      <4>1. ~HeaderDue(u2) /\ g.n = f.n
        BY <1>8, <2>4, <3>2
      <4> QED
        BY <1>12, <2>3, <2>7, <3>2, <3>4, <4>1
    <3> QED
      BY <3>4, <3>5, <3>6
  <2> QED
    BY <2>1, <2>5, <2>6, <2>7
<1> QED
  BY <1>11, <1>13 DEF Writing

\* The steps of close().
LEMMA OwnClosing ==
  ASSUME IInv, Disciplined, NEW p \in Procs, Closing(p)
  PROVE  InPlace(p)' /\ OnCourse(p)' /\ FileInv'
<1> DEFINE s == sess[p]
           i == s.inode
           f == file[i]
           t == Target(s)
           old == acked[i]
           Kept == UNCHANGED <<file, acked>>
<1>1. /\ s \in Session /\ sess \in [Procs -> Session]
      /\ file \in [Inodes -> Contents] /\ acked \in [Inodes -> Seq(Vals)]
  BY DEF IInv, TypeOK
<1>2. FileInv /\ InPlace(p) /\ OnCourse(p)
  BY DEF IInv, PlaceInv, ProgressInv
<1>3. s.pc \notin {"idle", "checked"}
  BY DEF Closing, CloseEmpty, WriteFooter, FooterFails, CommitCounters, CountersFail, Unlock,
         CloseFile, Unlink, Closable
<1>4. /\ i \in Inodes /\ SoundWith(f, old) /\ f \in Contents /\ old \in Seq(Vals)
      /\ f.body \in Seq(Chunk) /\ Len(f.body) \in Nat /\ f.n \in Nat
      /\ s.n \in Nat /\ s.acc \in Seq(Vals \cup {NoStat}) /\ s.buf \in Buffers
  BY <1>1, <1>2, <1>3, LenProperties DEF IInv, Seated, FileInv, Sound, Contents, Session
<1>5. Kept => FileInv'
  BY <1>2 DEF FileInv, Sound
<1>6. s.mode = "update" => s.hasHeader /\ s.buf # "header"
  BY <1>2 DEF InPlace
<1>7. Unfinished(s) => /\ t.hdr = f.hdr \/ (~f.hdr /\ HeaderDue(s))
                       /\ IF f.hdr THEN ~HeaderDue(s) /\ Appended(s, f)
                                   ELSE s.n = 0 /\ s.wrote = <<>>
  BY <1>2 DEF OnCourse, Target
\* A chunk c at the end of the file.
<1>8. ASSUME NEW c \in Chunk, f.hdr
      PROVE  LET g == [f EXCEPT !.body = Append(f.body, c)] IN
             /\ g.hdr = f.hdr /\ g.n = f.n /\ SoundWith(g, old)
             /\ Unfinished(s) => Appended(s, g)
  <2> DEFINE g == [f EXCEPT !.body = Append(f.body, c)]
  <2>1. g.hdr = f.hdr /\ g.ok = f.ok /\ g.n = f.n /\ g.body = Append(f.body, c)
    BY <1>4 DEF Contents
  <2>2. /\ Len(g.body) = Len(f.body) + 1
        /\ \A k \in 1..Len(f.body) : g.body[k] = f.body[k]
    BY <1>4, <2>1, AppendProperties
  <2>3. SoundWith(g, old)
    <3>1. HoldsLast(f, f.n, old) /\ f.n <= Len(f.body)
      BY <1>4, <1>8 DEF SoundWith, HoldsLast
    <3>2. f.n <= Len(g.body) /\ \A k \in 1..f.n : g.body[k] = f.body[k]
      <4> HIDE DEF f, g
      <4> QED
        BY <1>4, <2>2, <3>1
    <3>3. (~TornCounters => f.ok) /\ (NeverReset => f.n = Len(old))
      BY <1>4, <1>8 DEF SoundWith
    <3> HIDE DEF f, g
    <3>4. HoldsLast(g, f.n, old)
      BY <1>4, <3>1, <3>2, StillHolds
    <3> QED
      BY <1>8, <2>1, <3>3, <3>4 DEF SoundWith
  <2>4. ASSUME Unfinished(s) PROVE Appended(s, g)
    <3>1. Appended(s, f) /\ s.n <= Len(f.body)
      BY <1>7, <1>8, <2>4 DEF Appended
    <3>2. s.n <= Len(g.body) /\ \A k \in 1..s.n : g.body[k] = f.body[k]
      <4> HIDE DEF s, f, g
      <4> QED
        BY <1>4, <2>2, <3>1
    <3> HIDE DEF s, f, g
    <3> QED
      BY <1>1, <1>4, <2>1, <3>1, <3>2, AppendedStays DEF s
  <2> QED
    BY <2>1, <2>3, <2>4
<1>9. Foot(s.acc) \in Chunk /\ Junk \in Chunk
  BY <1>4, ChunkTypes
<1>10. Closable(s) => Unfinished(s) /\ s.buf \in {"none", "header"}
                      /\ (s.n # 0 => Found(s) = f.n /\ f.n <= s.n /\ s.n <= Len(f.body))
  <2> SUFFICES ASSUME Closable(s)
               PROVE  Unfinished(s) /\ s.buf \in {"none", "header"}
                      /\ (s.n # 0 => Found(s) = f.n /\ f.n <= s.n /\ s.n <= Len(f.body))
    OBVIOUS
  <2>1. Unfinished(s) /\ s.buf \in {"none", "header"}
    BY <1>2 DEF OnCourse, Closable, Unfinished
  <2>2. ASSUME s.n # 0 PROVE Found(s) = f.n /\ f.n <= s.n /\ s.n <= Len(f.body)
    <3>1. Appended(s, f)
      BY <1>7, <2>1, <2>2
    <3>2. s.pc = "broken" => Found(s) = s.n
      <4>1. s.pc = "broken" => s.wrote = <<>>
        BY <1>2 DEF OnCourse
      <4>2. s.wrote = <<>> => Len(s.wrote) = 0
        OBVIOUS
      <4>3. s.wrote = <<>> => s.n - Len(s.wrote) = s.n
        <5> HIDE DEF s
        <5> QED
          BY <1>4, <4>2
      <4> QED
        BY <4>1, <4>3 DEF Found
    <3>3. Found(s) = f.n
      BY <1>2, <2>2, <3>1, <3>2 DEF OnCourse, Closable, Appended
    <3>4. Len(s.wrote) <= s.n /\ Len(s.wrote) \in Nat /\ s.n <= Len(f.body)
      BY <1>1, <3>1, LenProperties DEF Appended, Session
    <3>5. s.n - Len(s.wrote) = f.n
      BY <3>3 DEF Found
    <3> HIDE DEF s, f
    <3> QED
      BY <1>4, <3>3, <3>4, <3>5
  <2> QED
    BY <2>1, <2>2
<1>11. CASE CloseEmpty(p)
  <2> DEFINE u == [s EXCEPT !.pc = "closing"]
  <2>1. Closable(s) /\ ~s.hasHeader /\ Kept /\ name' = name /\ sess'[p] = u
    BY <1>1, <1>11 DEF CloseEmpty, Become
  <2>2. /\ u.pc = "closing" /\ u.mode = s.mode /\ u.inode = i /\ u.hasHeader = s.hasHeader
        /\ u.buf = s.buf /\ u.n = s.n /\ u.wrote = s.wrote
    BY <1>1 DEF Session
  <2>3. s.buf = "none" /\ HeaderDue(s) /\ ~f.hdr /\ s.wrote = <<>>
    BY <1>2, <1>7, <1>10, <2>1 DEF OnCourse, HeaderDue
  <2> HIDE DEF u
  <2>4. InPlace(p)'
    BY <1>3, <1>6, <2>1, <2>2, StaysInPlace
  <2>5. OnCourse(p)'
    BY <2>1, <2>2, <2>3 DEF OnCourse, Unfinished
  <2> QED
    BY <1>5, <2>1, <2>4, <2>5
<1>12. CASE WriteFooter(p)
  <2> DEFINE u == [s EXCEPT !.pc = "footed", !.foot = IF FooterDue(s) THEN EndOf(s) + 1 ELSE 0]
             g == IF FooterDue(s) THEN [f EXCEPT !.body = Append(f.body, Foot(s.acc))] ELSE f
  <2>1. /\ Closable(s) /\ s.hasHeader /\ name' = name /\ acked' = acked /\ sess'[p] = u
        /\ file' = [file EXCEPT ![i] = g]
    BY <1>1, <1>12 DEF WriteFooter, Become
  <2>2. /\ u.pc = "footed" /\ u.mode = s.mode /\ u.inode = i /\ u.hasHeader = s.hasHeader
        /\ u.buf = s.buf /\ u.n = s.n /\ u.wrote = s.wrote
    BY <1>1 DEF Session
  <2>3. /\ g.hdr = f.hdr /\ g.n = f.n /\ SoundWith(g, old)
        /\ f.hdr => Appended(s, g)
    <3>1. FooterDue(s) => f.hdr
      BY <1>7, <1>10, <2>1 DEF FooterDue
    <3>2. CASE FooterDue(s)
      BY <1>8, <1>9, <1>10, <2>1, <3>1, <3>2
    <3>3. CASE ~FooterDue(s)
      BY <1>4, <1>7, <1>10, <2>1, <3>3
    <3> QED
      BY <3>2, <3>3
  <2> HIDE DEF g, u
  <2>4. file'[i] = g /\ FileInv'
    BY <1>1, <1>4, <2>1, <2>3, FilesStaySound
  <2>5. InPlace(p)'
    BY <1>3, <1>6, <2>1, <2>2, <2>3, <2>4, StaysInPlace
  <2>6. OnCourse(p)'
    <3>1. HeaderDue(u) <=> HeaderDue(s)
      BY <2>2 DEF HeaderDue
    <3>2. f.hdr => Appended(u, g)
      BY <2>2, <2>3 DEF Appended, Found
    <3> HIDE DEF f
    <3> QED
      BY <1>7, <1>10, <2>1, <2>2, <2>3, <2>4, <3>1, <3>2 DEF OnCourse, Works, Holding, Unfinished
  <2> QED
    BY <2>4, <2>5, <2>6
\* A session that raised out of close(), with the file as it was but for one chunk.
<1>13. ASSUME NEW u, sess'[p] = u, name' = name, acked' = acked,
              u.pc = "closing", u.mode = s.mode, u.inode = i, u.hasHeader = s.hasHeader,
              u.n = s.n, u.wrote = IF u.buf = "counters" THEN s.wrote ELSE <<>>,
              s.hasHeader, Unfinished(s),
              NEW g, file' = [file EXCEPT ![i] = g], SoundWith(g, old),
              s.mode = "update" => g.hdr = f.hdr,
              u.buf = "header" => s.buf = "header" /\ g.hdr = f.hdr,
              u.buf = "counters" =>
                IF g.hdr THEN Appended(s, g) ELSE s.n = 0 /\ s.wrote = <<>>,
              u.buf = "footer" => g.hdr /\ g.n <= s.n /\ s.n <= Len(g.body) /\ s.n < u.foot
       PROVE  InPlace(p)' /\ OnCourse(p)' /\ FileInv'
  <2>1. file'[i] = g /\ FileInv'
    BY <1>1, <1>4, <1>13, FilesStaySound
  <2>2. InPlace(p)'
    BY <1>3, <1>6, <1>13, <2>1, StaysInPlace
  <2>3. u.buf = "header" => ~g.hdr /\ s.n = 0
    BY <1>7, <1>13 DEF HeaderDue
  <2>4. u.buf = "counters" => ~HeaderDue(u) /\ u.wrote = s.wrote
    BY <1>13 DEF HeaderDue
  <2>5. u.buf = "counters" /\ g.hdr => Appended(u, g)
    BY <1>13, <2>4 DEF Appended, Found
  <2>6. OnCourse(p)'
    <3> HIDE DEF s, f
    <3> QED
      BY <1>13, <2>1, <2>3, <2>4, <2>5 DEF OnCourse, Works, Holding, Unfinished
  <2> QED
    BY <2>1, <2>2, <2>6
<1>14. CASE FooterFails(p)
  <2>1. Closable(s) /\ s.hasHeader /\ name' = name /\ acked' = acked /\ Unfinished(s)
    BY <1>10, <1>14 DEF FooterFails
  <2>2. CASE sess'[p] = Raised(s, s.buf) /\ file' = file
    <3> DEFINE u == Raised(s, s.buf)
    <3>1. /\ u.pc = "closing" /\ u.mode = s.mode /\ u.inode = i /\ u.hasHeader = s.hasHeader
          /\ u.n = s.n /\ u.wrote = (IF u.buf = "counters" THEN s.wrote ELSE <<>>)
          /\ u.buf = s.buf
      BY <1>1, <1>4, RaisedFacts
    <3>2. file' = [file EXCEPT ![i] = f]
      BY <1>1, <1>4, <2>2
    <3> HIDE DEF u
    <3> QED
      BY <1>4, <1>10, <1>13, <2>1, <2>2, <3>1, <3>2 DEF u
  <2>3. ASSUME FooterDue(s), NEW kept \in {"none", "footer"},
               sess'[p] = [Raised(s, kept) EXCEPT !.foot = EndOf(s) + 1],
               file' \in {file, [file EXCEPT ![i].body = Append(@, Junk)]}
        PROVE  InPlace(p)' /\ OnCourse(p)' /\ FileInv'
    <3> DEFINE u == [Raised(s, kept) EXCEPT !.foot = EndOf(s) + 1]
               h == [f EXCEPT !.body = Append(f.body, Junk)]
    <3>1. /\ u.pc = "closing" /\ u.mode = s.mode /\ u.inode = i /\ u.hasHeader = s.hasHeader
          /\ u.n = s.n /\ u.wrote = (IF u.buf = "counters" THEN s.wrote ELSE <<>>)
          /\ u.buf = kept /\ u.foot = Len(f.body) + 1
      <4>1. kept \in Buffers
        BY DEF Buffers
      <4> QED
        BY <1>1, <4>1, RaisedFacts DEF EndOf
    <3>2. f.hdr /\ f.n <= s.n /\ s.n <= Len(f.body)
      BY <1>7, <1>10, <2>1, <2>3 DEF FooterDue
    <3>3. PICK g \in {f, h} : file' = [file EXCEPT ![i] = g]
      BY <1>1, <1>4, <2>3
    <3>4. g.hdr = f.hdr /\ g.n = f.n /\ SoundWith(g, old) /\ Len(f.body) <= Len(g.body)
      <4>1. CASE g = f
        BY <1>4, <4>1
      <4>2. CASE g = h
        <5>1. h.body = Append(f.body, Junk)
          BY <1>4 DEF Contents
        <5>2. Len(f.body) <= Len(h.body)
          <6> HIDE DEF f, h
          <6> QED
            BY <1>4, <1>9, <5>1, AppendProperties
        <5> QED
          BY <1>8, <1>9, <3>2, <4>2, <5>2
      <4> QED
        BY <3>3, <4>1, <4>2
    <3>5. g.n <= s.n /\ s.n <= Len(g.body) /\ s.n < u.foot
      <4>1. Len(g.body) >= s.n
        <5>1. Len(g.body) \in Nat
          BY <1>4, <1>9, <3>3, AppendProperties, LenProperties DEF Contents
        <5> HIDE DEF s, f
        <5> QED
          BY <1>4, <3>2, <3>4, <5>1
      <4> HIDE DEF s, f, u
      <4> QED
        BY <1>4, <3>1, <3>2, <3>4, <4>1
    <3>6. sess'[p] = u
      BY <2>3
    <3> HIDE DEF u, h
    <3> QED
      BY <1>13, <2>1, <3>1, <3>2, <3>3, <3>4, <3>5, <3>6
  <2>4. \/ sess'[p] = Raised(s, s.buf) /\ file' = file
        \/ /\ FooterDue(s)
           /\ \E kept \in {"none", "footer"} :
                sess'[p] = [Raised(s, kept) EXCEPT !.foot = EndOf(s) + 1]
           /\ file' \in {file, [file EXCEPT ![i].body = Append(@, Junk)]}
    BY <1>1, <1>14 DEF FooterFails, Become
  <2> QED
    BY <2>2, <2>3, <2>4
\* With the header in it that was due the file is sound, and has the session's records.
<1>15. s.pc = "footed" => /\ Unfinished(s) /\ s.hasHeader /\ s.buf \in {"none", "header"}
                          /\ SoundWith(t, old) /\ (s.mode = "update" => t = f)
                          /\ IF t.hdr THEN Appended(s, t) ELSE s.n = 0 /\ s.wrote = <<>>
  <2> SUFFICES ASSUME s.pc = "footed"
               PROVE  /\ Unfinished(s) /\ s.hasHeader /\ s.buf \in {"none", "header"}
                      /\ SoundWith(t, old) /\ (s.mode = "update" => t = f)
                      /\ IF t.hdr THEN Appended(s, t) ELSE s.n = 0 /\ s.wrote = <<>>
    OBVIOUS
  <2>1. Unfinished(s) /\ s.hasHeader /\ s.buf \in {"none", "header"}
    BY <1>2 DEF OnCourse, Unfinished
  <2>2. s.mode = "update" => t = f
    BY <1>6 DEF Target, HeaderDue
  <2>3. CASE Headed(s)
    BY <2>1, <2>2, <2>3, TargetFacts
  <2>4. CASE ~Headed(s)
    BY <1>4, <2>1, <2>2, <2>4, NotHeaded
  <2> QED
    BY <2>3, <2>4
<1>16. CASE CommitCounters(p)
  <2> DEFINE g == WithCounters(s)
             u == [s EXCEPT !.pc = "closing", !.buf = "none", !.wrote = <<>>]
             new == old \o s.wrote
  <2>1. /\ s.pc = "footed" /\ name' = name /\ acked' = [acked EXCEPT ![i] = new]
        /\ file' = [file EXCEPT ![i] = g] /\ sess'[p] = u
    BY <1>1, <1>16 DEF CommitCounters, Become
  <2>2. /\ u.pc = "closing" /\ u.mode = s.mode /\ u.inode = i
        /\ u.hasHeader = s.hasHeader /\ u.buf = "none" /\ u.wrote = <<>>
    BY <1>1 DEF Session
  <2>3. SoundWith(g, new) /\ g.hdr = t.hdr
    BY <1>15, <2>1, CountersAreSound
  <2> HIDE DEF u, g, new
  <2>4. /\ file'[i] = g /\ acked'[i] = new /\ \A k \in Inodes \ {i} : acked'[k] = acked[k]
    BY <1>1, <1>4, <2>1
  <2>5. FileInv'
    BY <1>4, <2>1, <2>3, <2>4, FilesStaySound
  <2>6. InPlace(p)'
    BY <1>3, <1>6, <1>15, <2>1, <2>2, <2>3, <2>4, StaysInPlace
  <2>7. OnCourse(p)'
    BY <1>15, <2>1, <2>2 DEF OnCourse, Unfinished
  <2> QED
    BY <2>5, <2>6, <2>7
<1>17. CASE CountersFail(p)
  <2>1. s.pc = "footed" /\ name' = name /\ acked' = acked
    BY <1>17 DEF CountersFail
  <2>2. PICK kept \in Buffers :
          /\ sess'[p] = Raised(s, kept)
          /\ \/ kept = s.buf /\ file' = file
             \/ kept \in {"none", "counters"} /\ file' = [file EXCEPT ![i] = t]
    BY <1>1, <1>4, <1>17 DEF CountersFail, Become, Buffers
  <2> DEFINE u == Raised(s, kept)
  <2>3. /\ u.pc = "closing" /\ u.mode = s.mode /\ u.inode = i /\ u.hasHeader = s.hasHeader
        /\ u.n = s.n /\ u.wrote = (IF u.buf = "counters" THEN s.wrote ELSE <<>>)
        /\ u.buf = kept
    BY <1>1, <2>2, RaisedFacts
  <2>4. sess'[p] = u
    BY <2>2
  <2> HIDE DEF u
  <2>5. CASE kept = s.buf /\ file' = file
    <3>1. file' = [file EXCEPT ![i] = f]
      BY <1>1, <1>4, <2>5
    <3> QED
      BY <1>4, <1>13, <1>15, <2>1, <2>3, <2>4, <2>5, <3>1
  <2>6. CASE kept \in {"none", "counters"} /\ file' = [file EXCEPT ![i] = t]
    <3> HIDE DEF t
    <3> QED
      BY <1>13, <1>15, <2>1, <2>3, <2>4, <2>6
  <2> QED
    BY <2>2, <2>5, <2>6
<1>18. CASE Unlock(p)
  <2> DEFINE u == [Leftover(s) EXCEPT !.pc = "unlocked"]
  <2>1. s.pc = "closing" /\ Kept /\ name' = name /\ sess'[p] = u
    BY <1>1, <1>18 DEF Unlock, Become
  <2>2. /\ u.pc = "unlocked" /\ u.mode = s.mode /\ u.inode = i
        /\ u.hasHeader = s.hasHeader /\ u.buf = s.buf
        /\ s.buf = "none" => u.wrote = <<>> /\ u.n = 0
        /\ s.buf # "none" => u.wrote = s.wrote /\ u.n = s.n /\ u.foot = s.foot
    BY <1>1, LeftoverFacts
  <2> HIDE DEF u
  <2>3. InPlace(p)'
    BY <1>3, <1>6, <2>1, <2>2, StaysInPlace
  <2>4. OnCourse(p)'
    <3>1. file'[i] = f
      BY <2>1
    <3>2. CASE s.buf = "none"
      BY <1>2, <2>1, <2>2, <3>1, <3>2 DEF OnCourse, Unfinished
    <3>3. CASE s.buf # "none"
      <4>1. HeaderDue(u) <=> HeaderDue(s)
        BY <2>2 DEF HeaderDue
      <4>2. Appended(s, f) => Appended(u, f)
        BY <2>2, <3>3 DEF Appended, Found
      <4>3. Unfinished(u) <=> Unfinished(s)
        BY <2>1, <2>2 DEF Unfinished
      <4>4. /\ s.hasHeader /\ (s.wrote # <<>> => s.buf = "counters" /\ Unfinished(s))
            /\ s.buf = "footer" => f.hdr /\ f.n <= s.n /\ s.n <= Len(f.body) /\ s.n < s.foot
        BY <1>2, <2>1, <3>3 DEF OnCourse
      <4>5. Works(u)
        BY <2>2, <3>3 DEF Works, FlushesLate
      <4> HIDE DEF f
      <4> QED
        BY <1>7, <2>1, <2>2, <3>1, <3>3, <4>1, <4>2, <4>3, <4>4, <4>5 DEF OnCourse
    <3> QED
      BY <3>2, <3>3
  <2> QED
    BY <1>5, <2>1, <2>3, <2>4
<1>19. CASE CloseFile(p)
  <2>1. /\ s.pc = "unlocked" /\ name' = name
        /\ sess'[p] = IF IsUnusedNewFile(s) THEN [s EXCEPT !.pc = "closed"] ELSE Idle
        /\ \/ Kept /\ s.buf # "none"
           \/ /\ file' = [file EXCEPT ![i] = Flushed(s)]
              /\ acked' = [acked EXCEPT ![i] = old \o s.wrote]
    BY <1>1, <1>19 DEF CloseFile, Become
  <2>2. s.wrote # <<>> => s.buf = "counters"
    BY <1>2, <2>1 DEF OnCourse
  <2>3. s.wrote = <<>> => old \o s.wrote = old
    BY <1>4, ConcatEmptySeq
  <2>4. FileInv'
    <3>1. SoundWith(Flushed(s), old \o s.wrote)
      <4>1. CASE s.buf = "none"
        BY <1>4, <2>2, <2>3, <4>1 DEF Flushed
      <4>2. CASE s.buf = "header"
        <5>1. Unfinished(s) /\ HeaderDue(s) /\ Headed(s)
          BY <2>1, <4>2 DEF Unfinished, HeaderDue, Headed
        <5>2. SoundWith(t, old)
          BY <5>1, TargetFacts
        <5> QED
          BY <2>2, <2>3, <4>2, <5>1, <5>2 DEF Flushed, Target
      <4>3. CASE s.buf = "footer"
        <5> DEFINE b == WriteAt(f.body, s.foot - 1, Foot(s.acc))
                   g == [f EXCEPT !.body = b]
        <5>1. f.hdr /\ f.n <= s.n /\ s.n <= Len(f.body) /\ s.n < s.foot /\ s.foot \in Nat
          BY <1>1, <1>2, <4>3 DEF OnCourse, Session
        <5>2. g.hdr = f.hdr /\ g.ok = f.ok /\ g.n = f.n /\ g.body = b /\ f.n \in Nat
          BY <1>4 DEF Contents
        <5>3. f.n <= Len(b) /\ \A k \in 1..f.n : b[k] = f.body[k]
          <6> DEFINE pos == s.foot - 1
          <6>1. pos \in Nat /\ f.n <= pos /\ f.n <= Len(f.body)
            BY <1>4, <5>1
          <6> HIDE DEF f, pos
          <6>2. /\ Len(WriteAt(f.body, pos, Foot(s.acc)))
                     = IF pos < Len(f.body) THEN Len(f.body) ELSE pos + 1
                /\ \A k \in 1..Len(f.body) : k # pos + 1 =>
                     WriteAt(f.body, pos, Foot(s.acc))[k] = f.body[k]
            BY <1>4, <1>9, <6>1, WriteAtFacts
          <6>3. \A k \in 1..f.n : k \in 1..Len(f.body) /\ k # pos + 1
            BY <1>4, <6>1
          <6>4. f.n <= Len(WriteAt(f.body, pos, Foot(s.acc)))
            BY <1>4, <6>1, <6>2
          <6> QED
            BY <6>2, <6>3, <6>4 DEF pos
        <5> HIDE DEF b, g
        <5>4. HoldsLast(g, f.n, old) /\ (~TornCounters => f.ok) /\ (NeverReset => f.n = Len(old))
          <6>1. HoldsLast(f, f.n, old) /\ (~TornCounters => f.ok) /\ (NeverReset => f.n = Len(old))
            BY <1>4, <5>1 DEF SoundWith
          <6> HIDE DEF f
          <6>2. f.n <= Len(g.body) /\ \A k \in 1..f.n : g.body[k] = f.body[k]
            BY <5>2, <5>3
          <6>3. HoldsLast(g, f.n, old)
            BY <5>2, <6>1, <6>2, StillHolds
          <6> QED
            BY <6>1, <6>3
        <5>5. SoundWith(g, old)
          <6> HIDE DEF f
          <6> QED
            BY <5>1, <5>2, <5>4 DEF SoundWith
        <5> QED
          BY <2>2, <2>3, <4>3, <5>5 DEF Flushed, g, b
      <4>4. CASE s.buf = "counters"
        <5>1. Unfinished(s)
          BY <2>1, <4>4 DEF Unfinished
        <5> QED
          BY <4>4, <5>1, CountersAreSound DEF Flushed
      <4> QED
        BY <1>4, <4>1, <4>2, <4>3, <4>4 DEF Buffers
    <3>2. CASE Kept
      BY <1>5, <3>2
    <3>3. CASE /\ file' = [file EXCEPT ![i] = Flushed(s)]
               /\ acked' = [acked EXCEPT ![i] = old \o s.wrote]
      <4>1. acked'[i] = old \o s.wrote /\ \A k \in Inodes \ {i} : acked'[k] = acked[k]
        BY <1>1, <1>4, <3>3
      <4> QED
        BY <1>4, <3>1, <3>3, <4>1, FilesStaySound
    <3> QED
      BY <2>1, <3>2, <3>3
  <2>5. CASE ~IsUnusedNewFile(s)
    BY <2>1, <2>4, <2>5, IdleInPlace
  <2>6. CASE IsUnusedNewFile(s)
    <3> DEFINE u == [s EXCEPT !.pc = "closed"]
    <3>1. sess'[p] = u
      BY <2>1, <2>6
    <3>2. /\ u.pc = "closed" /\ u.mode = s.mode /\ u.inode = i /\ u.hasHeader = s.hasHeader
          /\ u.buf = s.buf /\ u.wrote = s.wrote
      BY <1>1 DEF Session
    <3>3. /\ ~s.hasHeader /\ s.mode # "update" /\ s.buf = "none" /\ s.wrote = <<>> /\ ~f.hdr
      BY <1>2, <2>1, <2>2, <2>6 DEF IsUnusedNewFile, OnCourse
    <3>4. file'[i] = f
      BY <1>1, <1>4, <2>1, <3>3 DEF Flushed
    <3> HIDE DEF u
    <3>5. InPlace(p)'
      BY <1>3, <2>1, <3>1, <3>2, <3>3, StaysInPlace
    <3>6. OnCourse(p)'
      BY <3>1, <3>2, <3>3, <3>4 DEF OnCourse, Unfinished
    <3> QED
      BY <2>4, <3>5, <3>6
  <2> QED
    BY <2>5, <2>6
<1>20. CASE Unlink(p)
  <2>1. sess'[p] = Idle /\ Kept
    BY <1>1, <1>20 DEF Unlink, Become
  <2> QED
    BY <1>5, <2>1, IdleInPlace
<1> QED
  BY <1>11, <1>12, <1>14, <1>16, <1>17, <1>18, <1>19, <1>20 DEF Closing

\* A process that dies.
LEMMA OwnDying ==
  ASSUME IInv, NEW p \in Procs, Dying(p)
  PROVE  InPlace(p)' /\ OnCourse(p)' /\ FileInv'
<1> DEFINE s == sess[p]
           i == s.inode
           f == file[i]
           g == [f EXCEPT !.ok = FALSE]
<1>1. /\ sess \in [Procs -> Session]
      /\ file \in [Inodes -> Contents] /\ acked \in [Inodes -> Seq(Vals)]
  BY DEF IInv, TypeOK
<1>2. sess'[p] = Idle
  BY <1>1 DEF Dying, Crash, CrashTearing, Become
<1>3. CASE Crash(p)
  <2>1. FileInv'
    BY <1>3 DEF Crash, IInv, FileInv, Sound
  <2> QED
    BY <1>2, <2>1, IdleInPlace
<1>4. CASE CrashTearing(p)
  <2>1. TornCounters /\ acked' = acked /\ file' = [file EXCEPT ![i] = g] /\ i \in Inodes
    BY <1>1, <1>4 DEF CrashTearing, IInv, Seated
  <2>2. SoundWith(f, acked[i]) /\ g.hdr = f.hdr /\ g.n = f.n /\ g.body = f.body
    BY <1>1, <2>1 DEF IInv, FileInv, Sound, Contents
  <2> HIDE DEF g
  <2>3. SoundWith(g, acked'[i])
    BY <2>1, <2>2 DEF SoundWith, HoldsLast, NeverReset
  <2>4. FileInv'
    BY <2>1, <2>3, FilesStaySound
  <2> QED
    BY <1>2, <2>4, IdleInPlace
<1> QED
  BY <1>3, <1>4 DEF Dying

------------------------------------------------------------------------------
(* The invariant, and what follows from it *)

\* The invariant holds to begin with.
LEMMA IInvInit == Init => IInv
<1> SUFFICES ASSUME Init PROVE IInv
  OBVIOUS
<1>1. TypeOK
  BY TypeInit
<1>2. \A p \in Procs : /\ sess[p].pc = "idle" /\ sess[p].mode = "create"
                       /\ sess[p].buf = "none" /\ sess[p].wrote = <<>>
  BY DEF Init, Idle, NewSession
<1>3. Seated /\ OneTruncating /\ OneWorks /\ PlaceInv /\ ProgressInv
  BY <1>2 DEF Seated, OneTruncating, Truncating, OneWorks, Works, FlushesLate, Holding,
              PlaceInv, InPlace, ProgressInv, OnCourse, Unfinished
<1>4. LockInv
  BY <1>2, NoneAssumption DEF Init, LockInv, Holding
<1>5. FileInv
  BY DEF Init, FileInv, Sound, SoundWith, EmptyFile
<1> QED
  BY <1>1, <1>3, <1>4, <1>5 DEF IInv

\* The invariant outlives every step, of disciplined callers.
LEMMA IInvStep ==
  ASSUME IInv, Disciplined, [Next]_vars
  PROVE  IInv'
<1>1. TypeOK' /\ Seated'
  BY TypeStep DEF IInv
<1>2. CASE UNCHANGED vars
  BY <1>2, <1>1 DEF vars, IInv, LockInv, OneWorks, OneTruncating, Truncating, FileInv, Sound,
                    PlaceInv, InPlace, ProgressInv, OnCourse
<1>3. ASSUME NEW p \in Procs, Step(p)
      PROVE  IInv'
  <2>1. LockInv'
    BY <1>3, LockStep DEF IInv
  <2>2. OneTruncating'
    BY <1>3, OneTruncatingStep DEF IInv, Disciplined
  <2>3. InPlace(p)' /\ OnCourse(p)' /\ FileInv'
    BY <1>3, OwnOpening, OwnWriting, OwnClosing, OwnDying DEF Step
  <2>4. \A q \in Procs \ {p} : InPlace(q)' /\ OnCourse(q)'
    BY <1>3, OthersStep
  <2>5. PlaceInv' /\ ProgressInv'
    BY <2>3, <2>4 DEF PlaceInv, ProgressInv
  <2>6. OneWorks'
    <3>1. \A q \in Procs \ {p} : sess'[q] = sess[q]
      BY <1>3, Footprint
    <3> QED
      BY <1>3, <3>1, OneWorksStep DEF IInv
  <2> QED
    BY <1>1, <2>1, <2>2, <2>3, <2>5, <2>6 DEF IInv
<1> QED
  BY <1>2, <1>3 DEF Next

\* For disciplined callers the invariant holds throughout.
THEOREM Invariance == ASSUME Disciplined PROVE Spec => []IInv
<1>1. IInv /\ [Next]_vars => IInv'
  BY IInvStep
<1> QED
  BY <1>1, IInvInit, PTL DEF Spec

\* What a reader finds in a sound file is the last of what was committed.
LEMMA SoundIsSeen ==
  ASSUME NEW i \in Inodes, Sound(i), file[i] \in Contents, acked[i] \in Seq(Vals), file[i].hdr
  PROVE  /\ file[i].ok => Readable(file[i])
         /\ DOMAIN Visible(file[i]) = 1..file[i].n /\ file[i].n \in Nat
         /\ file[i].n <= Len(acked[i])
         /\ \A k \in 1..file[i].n :
              Visible(file[i])[k] = acked[i][Len(acked[i]) - file[i].n + k]
<1> DEFINE f == file[i]
           at(k) == Len(acked[i]) - f.n + k
<1>1. /\ f.n \in Nat /\ f.n <= Len(acked[i]) /\ f.n <= Len(f.body)
      /\ \A k \in 1..f.n : f.body[k] = Rec(k - 1, acked[i][at(k)])
  BY DEF Sound, SoundWith, HoldsLast, Contents
<1>2. \A k \in 1..f.n : /\ f.body[k].kind = "rec" /\ f.body[k].idx = k - 1
                        /\ f.body[k].val = acked[i][at(k)]
  <2> HIDE DEF f, at
  <2> QED
    BY <1>1, RecFields
<1>3. f.ok => Readable(f)
  BY <1>1, <1>2 DEF Readable, HeaderOK, WalkOK
<1> QED
  BY <1>1, <1>2, <1>3 DEF Visible

\* Where nothing makes a session start again that is all that was committed.
LEMMA SoundIsRead ==
  ASSUME NeverReset, NEW i \in Inodes, Sound(i), file[i] \in Contents,
         acked[i] \in Seq(Vals), file[i].hdr
  PROVE  Readable(file[i]) /\ Visible(file[i]) = acked[i]
<1> DEFINE f == file[i]
           seen == Visible(f)
           m == Len(acked[i])
<1>1. f.ok /\ f.n = m /\ m \in Nat
  BY LenProperties DEF Sound, SoundWith, NeverReset
<1>2. /\ Readable(f) /\ DOMAIN seen = 1..f.n
      /\ \A k \in 1..f.n : seen[k] = acked[i][m - f.n + k]
  BY <1>1, SoundIsSeen
<1>3. seen = [k \in 1..f.n |-> seen[k]]
  BY <1>2 DEF Visible
<1> HIDE DEF f, seen, m
<1>4. \A k \in 1..m : seen[k] = acked[i][k]
  BY <1>1, <1>2
<1>5. acked[i] = [k \in 1..m |-> acked[i][k]]
  BY LenProperties DEF m
<1> QED
  BY <1>1, <1>2, <1>3, <1>4, <1>5 DEF f, seen

\* For disciplined callers, and where nothing makes a session start again from
\* no records, a reader sees exactly the records of the sessions that committed,
\* whatever crashed, failed or was flushed late before.
THEOREM ReadersSeeCommits ==
  ASSUME Disciplined, NeverReset
  PROVE  Spec => []ReadersSeeAcked
<1>1. IInv => ReadersSeeAcked
  <2> SUFFICES ASSUME IInv, NEW i \in Inodes, Readable(file[i])
               PROVE  Visible(file[i]) = acked[i]
    BY DEF ReadersSeeAcked
  <2> QED
    BY SoundIsRead DEF IInv, TypeOK, FileInv, Readable, HeaderOK
<1> QED
  BY <1>1, Invariance, PTL

\* For disciplined callers, and where no crash tears the counters, a file that
\* has its header can be opened, at every moment of every session and after
\* every crash.
THEOREM CommitsStayReadable ==
  ASSUME Disciplined, ~TornCounters
  PROVE  Spec => []CommittedReadable
<1>1. IInv => CommittedReadable
  <2> SUFFICES ASSUME IInv, NEW i \in Inodes, file[i].hdr
               PROVE  Readable(file[i])
    BY DEF CommittedReadable
  <2> QED
    BY SoundIsSeen DEF IInv, TypeOK, FileInv, Sound, SoundWith
<1> QED
  BY <1>1, Invariance, PTL

\* For disciplined callers, even if crashes tear the counters and __init__ is cut
\* short after the lock, a reader sees records that some session committed, in
\* their order: the last ones.
THEOREM NothingElseIsSeen == ASSUME Disciplined PROVE Spec => []VisibleWasCommitted
<1>1. IInv => VisibleWasCommitted
  <2> SUFFICES ASSUME IInv, NEW i \in Inodes, Readable(file[i])
               PROVE  \E at \in [1..Len(Visible(file[i])) -> 1..Len(acked[i])] :
                        /\ \A k \in 1..Len(Visible(file[i])) :
                             acked[i][at[k]] = Visible(file[i])[k]
                        /\ \A j, k \in 1..Len(Visible(file[i])) : j < k => at[j] < at[k]
    BY DEF VisibleWasCommitted
  <2> DEFINE n == file[i].n
             m == Len(acked[i])
             seen == Visible(file[i])
             at == [k \in 1..n |-> m - n + k]
  <2>1. /\ n \in Nat /\ n <= m /\ m \in Nat /\ DOMAIN seen = 1..n
        /\ \A k \in 1..n : seen[k] = acked[i][m - n + k]
    <3>1. Sound(i) /\ file[i] \in Contents /\ acked[i] \in Seq(Vals) /\ file[i].hdr
      BY DEF IInv, TypeOK, FileInv, Readable, HeaderOK
    <3> QED
      BY <3>1, SoundIsSeen, LenProperties
  <2>2. Len(seen) = n
    <3>1. seen = [k \in 1..n |-> seen[k]]
      BY DEF Visible
    <3> QED
      BY <2>1, <3>1
  <2> HIDE DEF n, m, seen
  <2>3. at \in [1..n -> 1..m]
    BY <2>1
  <2>4. \A k \in 1..n : acked[i][at[k]] = seen[k]
    BY <2>1
  <2>5. \A j, k \in 1..n : j < k => at[j] < at[k]
    BY <2>1
  <2> HIDE DEF at
  <2> QED
    BY <2>2, <2>3, <2>4, <2>5 DEF seen, m
<1> QED
  BY <1>1, Invariance, PTL

\* A step that changes a file changes the session that takes it.
LEMMA WritersMove ==
  ASSUME IInv, Disciplined, NEW p \in Procs, Step(p), file' # file
  PROVE  sess'[p] # sess[p]
<1> DEFINE s == sess[p]
<1>1. s \in Session /\ sess \in [Procs -> Session]
  BY DEF IInv, TypeOK
<1>2. CASE OpenCreate(p) \/ OpenRecreate(p)
  <2>1. \E mode, i, st : sess'[p] = NewSession("opened", mode, i, st)
    BY <1>1, <1>2 DEF OpenCreate, OpenRecreate, TruncatingOpen, Become
  <2>2. sess'[p].pc = "opened" /\ s.pc # "opened"
    BY <1>2, <2>1, NewSessionFields DEF OpenCreate, OpenRecreate
  <2> QED
    BY <2>2
<1>3. CASE Load(p) \/ LoadFails(p)
  <2>1. s.pc = "locked" /\ sess'[p].pc \in {"open", "broken"}
    BY <1>1, <1>3 DEF Load, LoadFails, Become, Session
  <2> QED
    BY <2>1
<1>4. CASE Write(p)
  <2>1. sess'[p].n = s.n + 1 /\ s.n \in Nat
    BY <1>1, <1>4 DEF Write, Become, Session
  <2> QED
    BY <2>1
<1>5. CASE WriteFails(p)
  <2>1. ~s.failed /\ sess'[p].failed
    BY <1>1, <1>5, ZenonT(40) DEF WriteFails, MayWrite, Disciplined, Become, Session
  <2> QED
    BY <2>1
<1>6. CASE WriteFooter(p) \/ FooterFails(p)
  <2>1. s.pc \in {"open", "broken"}
    BY <1>6 DEF WriteFooter, FooterFails, Closable
  <2>2. CASE WriteFooter(p)
    BY <1>1, <2>1, <2>2 DEF WriteFooter, Become, Session
  <2>3. CASE FooterFails(p)
    <3>1. sess'[p].pc = "closing"
      <4>1. /\ Raised(s, s.buf).pc = "closing"
            /\ \A kept \in {"none", "footer"}, ft \in {EndOf(s) + 1} :
                 [Raised(s, kept) EXCEPT !.foot = ft].pc = "closing"
        BY <1>1, RaisedFacts DEF Session, Buffers
      <4>2. \/ sess'[p] = Raised(s, s.buf)
            \/ \E kept \in {"none", "footer"} :
                 sess'[p] = [Raised(s, kept) EXCEPT !.foot = EndOf(s) + 1]
        BY <1>1, <2>3 DEF FooterFails, Become
      <4> QED
        BY <4>1, <4>2
    <3> QED
      BY <2>1, <3>1
  <2> QED
    BY <1>6, <2>2, <2>3
<1>7. CASE CommitCounters(p) \/ CountersFail(p)
  <2>1. s.pc = "footed" /\ sess'[p].pc = "closing"
    <3>1. CASE CommitCounters(p)
      BY <1>1, <3>1 DEF CommitCounters, Become, Session
    <3>2. CASE CountersFail(p)
      <4>1. s.pc = "footed" /\ \E kept \in Buffers : sess'[p] = Raised(s, kept)
        BY <1>1, <3>2 DEF CountersFail, Become, Session, Buffers
      <4> QED
        BY <1>1, <4>1, RaisedFacts
    <3> QED
      BY <1>7, <3>1, <3>2
  <2> QED
    BY <2>1
<1>8. CASE CloseFile(p) \/ CrashTearing(p)
  <2>1. s.pc \in {"unlocked", "footed"} /\ sess'[p].pc \in {"closed", "idle"}
    BY <1>1, <1>8 DEF CloseFile, CrashTearing, Become, Session, Idle, NewSession
  <2> QED
    BY <2>1
<1> QED
  BY <1>2, <1>3, <1>4, <1>5, <1>6, <1>7, <1>8
     DEF Step, Opening, Writing, Closing, Dying, CheckAbsent, OpenUpdate, Lock, Contended,
         OpenInterrupted, CloseEmpty, Unlock, Unlink, Crash

\* For disciplined callers, and where nobody takes the lock before the last owner
\* has closed the file, nobody changes a file while another session holds it.
THEOREM HoldersWrite == ASSUME Disciplined PROVE Spec => OnlyHolderWrites
<1>1. IInv /\ [Next]_vars =>
        [\A i \in Inodes, p \in Procs :
           holder[i] = p /\ file'[i] # file[i] => sess'[p] # sess[p]]_vars
  <2> SUFFICES ASSUME IInv, NEW p \in Procs, Step(p), NEW i \in Inodes, NEW q \in Procs,
                      holder[i] = q, file'[i] # file[i]
               PROVE  sess'[q] # sess[q]
    BY DEF Next
  <2>1. CASE q = p
    BY <2>1, WritersMove
  <2>2. CASE q # p
    <3>1. sess[q].pc \in Holding /\ sess[q].inode = i
      BY DEF IInv, LockInv
    <3>2. sess[q].pc # "idle" /\ Works(sess[q])
      BY <3>1 DEF Holding, Works
    <3>3. Works(sess[p]) => sess[p].inode # i
      BY <2>2, <3>1, <3>2 DEF IInv, OneWorks
    <3>4. file' # file
      OBVIOUS
    <3>5. FALSE
      BY <2>2, <3>2, <3>3, <3>4, Footprint
    <3> QED
      BY <3>5
  <2> QED
    BY <2>1, <2>2
<1> QED
  BY <1>1, Invariance, PTL DEF Spec, OnlyHolderWrites

\* For disciplined callers, closing an unused new file removes no records.
THEOREM UnlinkIsHarmless == ASSUME Disciplined PROVE Spec => UnlinkSparesCommits
<1>1. IInv /\ [Next]_vars => [name' = None /\ name # None => acked[name] = <<>>]_vars
  <2> SUFFICES ASSUME IInv, NEW p \in Procs, Step(p), name' = None, name # None
               PROVE  acked[name] = <<>>
    BY DEF Next
  <2>1. sess[p] \in Session /\ name \in Inodes
    BY DEF IInv, TypeOK
  <2>2. CASE Unlink(p)
    <3>1. ~file[name].hdr
      BY <2>1, <2>2 DEF Unlink, IInv, PlaceInv, InPlace, ProgressInv, OnCourse, Truncating
    <3> QED
      BY <2>1, <3>1 DEF IInv, FileInv, Sound, SoundWith
  <2>3. CASE ~Unlink(p)
    BY <2>3, NoneAssumption
       DEF Step, Opening, Writing, Closing, Dying, CheckAbsent, OpenCreate, OpenRecreate,
           TruncatingOpen, OpenUpdate, Lock, Contended, Load, LoadFails, Write, WriteFails,
           OpenInterrupted, CloseEmpty, WriteFooter, FooterFails, CommitCounters,
           CountersFail, Unlock, CloseFile, Crash, CrashTearing
  <2> QED
    BY <2>2, <2>3
<1> QED
  BY <1>1, Invariance, PTL DEF Spec, UnlinkSparesCommits

(***************************************************************************)
(* The refinement: each step of a disciplined session is a step of the     *)
(* log, or leaves it alone.                                                *)
(***************************************************************************)

\* The log and its pending records, as ImplementsCommitLog maps them.
LogValue == IF name # None /\ Readable(file[name]) THEN Visible(file[name]) ELSE NoStore
Pending  == [p \in Procs |-> sess[p].wrote]

\* The log as the invariant has it.
Committed == IF name # None /\ file[name].hdr THEN acked[name] ELSE NoStore

\* The steps of the log, as steps of the two.
LEMMA LogSteps ==
  /\ LogValue' = LogValue /\ Pending' = Pending => UNCHANGED Log!vars
  /\ (\A p \in Procs : Pending[p] = <<>>) /\ LogValue' = NoStore /\ Pending' = Pending => Log!Reset
  /\ LogValue = NoStore /\ LogValue' = <<>> /\ Pending' = Pending => Log!Format
  /\ \A p \in Procs, v \in Vals :
       /\ \A q \in Procs \ {p} : Pending[q] = <<>>
       /\ Pending' = [Pending EXCEPT ![p] = Append(@, v)]
       /\ LogValue' = IF LogValue = NoStore THEN <<>> ELSE LogValue
       => Log!Write(p)
  /\ \A p \in Procs :
       /\ LogValue # NoStore
       /\ LogValue' = LogValue \o Pending[p]
       /\ Pending' = [Pending EXCEPT ![p] = <<>>]
       => Log!Commit(p)
  /\ \A p \in Procs :
       LogValue' = LogValue /\ Pending' = [Pending EXCEPT ![p] = <<>>] => Log!Discard(p)
<1>1. LogValue' = LogValue /\ Pending' = Pending => UNCHANGED Log!vars
  BY DEF Log!vars, LogValue, Pending
<1>2. (\A p \in Procs : Pending[p] = <<>>) /\ LogValue' = NoStore /\ Pending' = Pending => Log!Reset
  BY DEF Log!Reset, Log!Quiet, LogValue, Pending
<1>3. LogValue = NoStore /\ LogValue' = <<>> /\ Pending' = Pending => Log!Format
  BY DEF Log!Format, LogValue, Pending
<1>4. ASSUME NEW p \in Procs, NEW v \in Vals,
             \A q \in Procs \ {p} : Pending[q] = <<>>,
             Pending' = [Pending EXCEPT ![p] = Append(@, v)],
             LogValue' = IF LogValue = NoStore THEN <<>> ELSE LogValue
      PROVE  Log!Write(p)
  BY <1>4 DEF Log!Write, Log!Quiet, LogValue, Pending
<1>5. ASSUME NEW p \in Procs, LogValue # NoStore, LogValue' = LogValue \o Pending[p],
             Pending' = [Pending EXCEPT ![p] = <<>>]
      PROVE  Log!Commit(p)
  BY <1>5 DEF Log!Commit, LogValue, Pending
<1>6. ASSUME NEW p \in Procs, LogValue' = LogValue, Pending' = [Pending EXCEPT ![p] = <<>>]
      PROVE  Log!Discard(p)
  BY <1>6 DEF Log!Discard, LogValue, Pending
<1> QED
  BY <1>1, <1>2, <1>3, <1>4, <1>5, <1>6

\* Under the invariant, and where no session starts again from no records, the log
\* is what was committed to the file that has the name now, once that file has its
\* header.
LEMMA LogIsCommitted == ASSUME IInv, NeverReset PROVE LogValue = Committed
<1>1. CASE name # None /\ file[name].hdr
  <2>1. name \in Inodes /\ file[name] \in Contents /\ acked[name] \in Seq(Vals) /\ Sound(name)
    BY <1>1 DEF IInv, TypeOK, FileInv
  <2>2. Readable(file[name]) /\ Visible(file[name]) = acked[name]
    BY <1>1, <2>1, SoundIsRead
  <2> QED
    BY <1>1, <2>2 DEF LogValue, Committed
<1>2. CASE ~(name # None /\ file[name].hdr)
  BY <1>2 DEF LogValue, Committed, Readable, HeaderOK
<1> QED
  BY <1>1, <1>2

\* No log is the value of no log.
LEMMA CommittedFacts ==
  ASSUME IInv
  PROVE  /\ Committed = NoStore <=> ~(name # None /\ file[name].hdr)
         /\ Committed # NoStore => Committed \in Seq(Vals)
<1>1. name # None => name \in Inodes /\ acked[name] \in Seq(Vals)
  BY DEF IInv, TypeOK
<1> QED
  BY <1>1, NoStoreAssumption DEF Committed

\* A session with pending records works on the file of the name.
LEMMA PendingInPlace ==
  ASSUME IInv, NEW p \in Procs, sess[p].wrote # <<>>
  PROVE  /\ Works(sess[p]) /\ sess[p].pc \notin {"idle", "checked", "opened", "closed"}
         /\ sess[p].inode \in Inodes /\ sess[p].inode = name /\ file[name].hdr
<1> DEFINE s == sess[p]
<1>1. s \in Session /\ InPlace(p) /\ OnCourse(p)
  BY DEF IInv, TypeOK, PlaceInv, ProgressInv
<1>2. Unfinished(s) /\ file[s.inode].hdr
  BY <1>1 DEF OnCourse
<1>3. s.pc \notin {"idle", "checked", "opened", "closed"} /\ s.inode \in Inodes
  BY <1>2 DEF Unfinished, IInv, Seated
<1>4. Works(s)
  BY <1>2 DEF Unfinished, Works, Holding, FlushesLate
<1>5. s.inode = name
  BY <1>1, <1>2, <1>3 DEF InPlace, Truncating
<1> QED
  BY <1>2, <1>3, <1>4, <1>5

\* A session that takes a write() has the file of the name, and nobody else has
\* anything pending.
LEMMA OnlyOneWrites ==
  ASSUME IInv, NEW p \in Procs, sess[p].pc = "open"
  PROVE  /\ sess[p].inode \in Inodes /\ sess[p].inode = name /\ name # None
         /\ \A q \in Procs \ {p} : sess[q].wrote = <<>>
<1> DEFINE i == sess[p].inode
<1>1. sess[p] \in Session /\ i \in Inodes /\ Works(sess[p])
  BY DEF IInv, TypeOK, Seated, Works, Holding
<1>2. i = name
  <2>1. InPlace(p) /\ OnCourse(p)
    BY DEF IInv, PlaceInv, ProgressInv
  <2>2. sess[p].mode = "update" => ~HeaderDue(sess[p])
    BY <2>1 DEF InPlace, HeaderDue
  <2> QED
    BY <2>1, <2>2 DEF InPlace, OnCourse, Truncating
<1>3. name # None
  BY <1>1, <1>2, NoneAssumption
<1>4. ASSUME NEW q \in Procs \ {p}, sess[q].wrote # <<>>
      PROVE  FALSE
  <2>1. Works(sess[q]) /\ sess[q].inode = name
    BY <1>4, PendingInPlace
  <2> QED
    BY <1>1, <1>2, <1>4, <2>1 DEF IInv, OneWorks
<1> QED
  BY <1>1, <1>2, <1>3, <1>4

\* What LogIsCommitted says holds after a step as well.
LEMMA LogIsCommittedNext ==
  ASSUME NeverReset
  PROVE  IInv' => (LogValue = Committed)'
<1>1. IInv => LogValue = Committed
  BY LogIsCommitted
<1> QED
  BY <1>1, PTL

\* A session takes something pending with write() only, and in no other step
\* keeps a part of what it has.
LEMMA PendingOf ==
  ASSUME IInv, NEW p \in Procs, Step(p), ~Write(p)
  PROVE  sess'[p].wrote \in {sess[p].wrote, <<>>}
<1> DEFINE s == sess[p]
<1> USE DEF Become
<1>1. s \in Session /\ sess \in [Procs -> Session]
  BY DEF IInv, TypeOK
<1>2. Idle.wrote = <<>> /\ \A pc, m, i, st : NewSession(pc, m, i, st).wrote = <<>>
  BY DEF Idle, NewSession
<1>3. CASE Opening(p)
  <2>1. CASE CheckAbsent(p) \/ OpenUpdate(p) \/ Contended(p)
    BY <1>1, <1>2, <2>1 DEF CheckAbsent, OpenUpdate, Contended
  <2>2. CASE OpenCreate(p) \/ OpenRecreate(p)
    BY <1>1, <1>2, <2>2 DEF OpenCreate, OpenRecreate, TruncatingOpen
  <2>3. CASE Lock(p) \/ OpenInterrupted(p)
    BY <1>1, <2>3 DEF Lock, OpenInterrupted, Session
  <2>4. CASE Load(p)
    BY <1>1, <2>4 DEF Load, Session
  <2>5. CASE LoadFails(p)
    BY <1>1, <2>5 DEF LoadFails, Session
  <2> QED
    BY <1>3, <2>1, <2>2, <2>3, <2>4, <2>5 DEF Opening
<1>4. CASE WriteFails(p)
  <2>1. sess'[p].wrote = s.wrote
    BY <1>1, <1>4, FailedWriteSession
  <2> QED
    BY <2>1
<1>5. CASE Closing(p)
  <2>1. CASE CloseEmpty(p) \/ WriteFooter(p)
    BY <1>1, <2>1 DEF CloseEmpty, WriteFooter, Session
  <2>2. CASE FooterFails(p)
    <3>1. /\ Raised(s, s.buf).wrote \in {s.wrote, <<>>}
          /\ \A kept \in {"none", "footer"}, ft \in {EndOf(s) + 1} :
               [Raised(s, kept) EXCEPT !.foot = ft].wrote \in {s.wrote, <<>>}
      BY <1>1, RaisedFacts DEF Session, Buffers
    <3>2. \/ sess'[p] = Raised(s, s.buf)
          \/ \E kept \in {"none", "footer"} :
               sess'[p] = [Raised(s, kept) EXCEPT !.foot = EndOf(s) + 1]
      BY <1>1, <2>2 DEF FooterFails
    <3> QED
      BY <3>1, <3>2
  <2>3. CASE CommitCounters(p)
    BY <1>1, <2>3 DEF CommitCounters, Session
  <2>4. CASE CountersFail(p)
    <3>1. \E kept \in Buffers : sess'[p] = Raised(s, kept)
      BY <1>1, <2>4 DEF CountersFail, Session, Buffers
    <3> QED
      BY <1>1, <3>1, RaisedFacts
  <2>5. CASE Unlock(p)
    <3>1. sess'[p] = [Leftover(s) EXCEPT !.pc = "unlocked"]
      BY <1>1, <2>5 DEF Unlock
    <3> QED
      BY <1>1, <3>1, LeftoverFacts
  <2>6. CASE CloseFile(p) \/ Unlink(p)
    BY <1>1, <1>2, <2>6 DEF CloseFile, Unlink, Session
  <2> QED
    BY <1>5, <2>1, <2>2, <2>3, <2>4, <2>5, <2>6 DEF Closing
<1>6. CASE Dying(p)
  BY <1>1, <1>2, <1>6 DEF Dying, Crash, CrashTearing
<1> QED
  BY <1>3, <1>4, <1>5, <1>6 DEF Step, Writing

\* A step other than write() that leaves the committed records as they are is a
\* step of the log, or none.
LEMMA QuietStep ==
  ASSUME IInv, Disciplined, NeverReset, IInv', NEW p \in Procs, Step(p), ~Write(p),
         Committed' = Committed
  PROVE  [Log!Next]_(Log!vars)
<1>1. LogValue' = LogValue
  BY LogIsCommitted, LogIsCommittedNext
<1>2. sess'[p].wrote \in {sess[p].wrote, <<>>} /\ \A q \in Procs \ {p} : sess'[q] = sess[q]
  BY PendingOf, Footprint
<1>3. CASE sess'[p].wrote = sess[p].wrote
  <2>1. Pending' = Pending
    BY <1>2, <1>3 DEF Pending
  <2> QED
    BY <1>1, <2>1, LogSteps
<1>4. CASE sess'[p].wrote = <<>>
  <2>1. Pending' = [Pending EXCEPT ![p] = <<>>]
    BY <1>2, <1>4 DEF Pending
  <2>2. Log!Discard(p)
    BY <1>1, <2>1, LogSteps
  <2> QED
    BY <2>2 DEF Log!Next
<1> QED
  BY <1>2, <1>3, <1>4

\* A step other than write() that may bring the header into the session's file,
\* and commit what the session has pending, is a step of the log, or none.
LEMMA EffectStep ==
  ASSUME IInv, Disciplined, NeverReset, IInv', NEW p \in Procs, Step(p), ~Write(p),
         NEW i \in Inodes, i = sess[p].inode, name' = name,
         \A j \in Inodes \ {i} : file'[j].hdr = file[j].hdr /\ acked'[j] = acked[j],
         file[i].hdr => file'[i].hdr,
         \/ acked'[i] = acked[i]
         \/ acked'[i] = acked[i] \o sess[p].wrote /\ sess'[p].wrote = <<>>
  PROVE  [Log!Next]_(Log!vars)
<1> DEFINE s == sess[p]
<1>1. /\ s \in Session /\ acked[i] \in Seq(Vals) /\ Sound(i)
      /\ \A j \in Inodes : file[j] \in Contents /\ file'[j] \in Contents
      /\ name # None => name \in Inodes
  BY DEF IInv, TypeOK, FileInv
<1>2. sess'[p].wrote \in {s.wrote, <<>>} /\ \A q \in Procs \ {p} : sess'[q] = sess[q]
  BY PendingOf, Footprint
<1>3. s.wrote # <<>> => i = name /\ file[i].hdr /\ name # None
  BY <1>1, PendingInPlace, NoneAssumption
<1>4. s.wrote = <<>> => acked'[i] = acked[i]
  BY <1>1, ConcatEmptySeq
<1>5. CASE s.wrote # <<>> /\ acked'[i] # acked[i]
  <2>1. acked'[i] = acked[i] \o s.wrote /\ sess'[p].wrote = <<>> /\ file'[i].hdr
    BY <1>3, <1>5
  <2>2. LogValue' = acked[i] \o s.wrote
    BY <1>3, <1>5, <2>1, LogIsCommittedNext DEF Committed
  <2>3. LogValue = acked[i] /\ LogValue # NoStore
    BY <1>3, <1>5, LogIsCommitted, CommittedFacts DEF Committed
  <2>4. Pending' = [Pending EXCEPT ![p] = <<>>] /\ Pending[p] = s.wrote
    BY <1>2, <2>1 DEF Pending
  <2>5. Log!Commit(p)
    BY <2>2, <2>3, <2>4, LogSteps
  <2> QED
    BY <2>5 DEF Log!Next
<1>6. CASE acked'[i] = acked[i] /\ ~file[i].hdr /\ file'[i].hdr /\ i = name
  <2>1. acked[i] = <<>> /\ s.wrote = <<>> /\ name # None
    BY <1>1, <1>3, <1>6, NoneAssumption DEF Sound, SoundWith
  <2>2. LogValue' = <<>> /\ LogValue = NoStore
    BY <1>6, <2>1, LogIsCommitted, LogIsCommittedNext DEF Committed
  <2>3. Pending' = Pending
    BY <1>2, <2>1 DEF Pending
  <2>4. Log!Format
    BY <2>2, <2>3, LogSteps
  <2> QED
    BY <2>4 DEF Log!Next
<1>7. CASE acked'[i] = acked[i] /\ (i = name => (file'[i].hdr <=> file[i].hdr))
  <2>1. name # None => (file'[name].hdr <=> file[name].hdr) /\ acked'[name] = acked[name]
    BY <1>1, <1>7
  <2>2. Committed' = Committed
    BY <2>1 DEF Committed
  <2> QED
    BY <2>2, QuietStep
<1> QED
  BY <1>4, <1>5, <1>6, <1>7

\* A truncating open meets nobody who has anything pending, and starts over.
LEMMA TruncatingResets ==
  ASSUME IInv, Disciplined, NeverReset, IInv', NEW p \in Procs, OpenCreate(p) \/ OpenRecreate(p)
  PROVE  Log!Reset
<1>1. sess \in [Procs -> Session] /\ file \in [Inodes -> Contents]
  BY DEF IInv, TypeOK
<1>2. \A q \in Procs \ {p} : sess[q].pc = "idle"
  BY DEF OpenCreate, OpenRecreate, MayTruncate, Disciplined, IInv, OneTruncating
<1>3. sess[p].pc \in {"idle", "checked"}
  BY DEF OpenCreate, OpenRecreate
<1>4. \A q \in Procs : sess[q].wrote = <<>>
  <2>1. \A q \in Procs : sess[q].pc \in {"idle", "checked"}
    BY <1>2, <1>3
  <2> QED
    BY <2>1, PendingInPlace
<1>5. PICK i \in Inodes, mode \in Modes, st \in BOOLEAN : TruncatingOpen(p, i, mode, st)
  <2>1. sess[p].stats \in BOOLEAN /\ {"create", "recreate"} \subseteq Modes
    BY <1>1 DEF Session, Modes
  <2> QED
    BY <2>1 DEF OpenCreate, OpenRecreate
<1>6. name' = i /\ ~file'[i].hdr
  BY <1>1, <1>5 DEF TruncatingOpen, EmptyFile
<1>7. LogValue' = NoStore
  BY <1>6, LogIsCommittedNext DEF Committed
<1>8. Pending' = Pending
  <2>1. sess' = [sess EXCEPT ![p] = NewSession("opened", mode, i, st)]
    BY <1>5 DEF TruncatingOpen, Become
  <2>2. NewSession("opened", mode, i, st).wrote = <<>>
    BY NewSessionFields
  <2> HIDE DEF Pending
  <2>3. \A q \in Procs : sess'[q].wrote = sess[q].wrote
    BY <1>1, <1>4, <2>1, <2>2
  <2> QED
    BY <2>3 DEF Pending
<1> QED
  BY <1>4, <1>7, <1>8, LogSteps DEF Pending

\* A write() is a write to the log; the first one of a new store formats it.
LEMMA WriteIsWrite ==
  ASSUME IInv, Disciplined, NeverReset, IInv', NEW p \in Procs, Write(p)
  PROVE  Log!Write(p)
<1> DEFINE s == sess[p]
           i == s.inode
<1>1. s \in Session /\ sess \in [Procs -> Session] /\ file \in [Inodes -> Contents]
  BY DEF IInv, TypeOK
<1>2. s.pc = "open"
  BY DEF Write, MayWrite
<1>3. i \in Inodes /\ i = name /\ name # None /\ \A q \in Procs \ {p} : sess[q].wrote = <<>>
  BY <1>2, OnlyOneWrites
<1>4. PICK v \in Vals :
        /\ file' = [file EXCEPT ![i] = WithRecord(s, v)]
        /\ Become(p, [s EXCEPT !.hasHeader = TRUE, !.buf = "none",
                               !.n = @ + 1, !.pos = @ + 1,
                               !.acc = IF s.stats THEN Append(@, v) ELSE @,
                               !.wrote = Append(@, v)])
  BY DEF Write
<1>5. name' = name /\ acked' = acked
  BY DEF Write
<1>6. Pending' = [Pending EXCEPT ![p] = Append(@, v)]
  <2>1. sess'[p].wrote = Append(s.wrote, v) /\ \A q \in Procs \ {p} : sess'[q] = sess[q]
    BY <1>1, <1>4 DEF Become, Session
  <2> QED
    BY <2>1 DEF Pending
<1>7. file'[i].hdr
  <2>1. Unfinished(s) /\ Headed(s)
    BY <1>2 DEF IInv, ProgressInv, OnCourse, Unfinished, Headed
  <2>2. Target(s).hdr /\ Target(s) \in Contents
    BY <2>1, TargetFacts
  <2>3. WithRecord(s, v).hdr
    BY <2>2 DEF WithRecord, WithChunk, Contents
  <2> QED
    BY <1>1, <1>3, <1>4, <2>3
<1>8. LogValue' = acked[i]
  BY <1>3, <1>5, <1>7, LogIsCommittedNext DEF Committed
<1>9. LogValue' = IF LogValue = NoStore THEN <<>> ELSE LogValue
  <2>1. CASE file[i].hdr
    BY <1>3, <1>8, <2>1, LogIsCommitted, CommittedFacts DEF Committed
  <2>2. CASE ~file[i].hdr
    <3>1. acked[i] = <<>>
      BY <1>3, <2>2 DEF IInv, FileInv, Sound, SoundWith
    <3> QED
      BY <1>3, <1>8, <2>2, <3>1, LogIsCommitted DEF Committed
  <2> QED
    BY <2>1, <2>2
<1>10. \A q \in Procs \ {p} : Pending[q] = <<>>
  BY <1>3 DEF Pending
<1> QED
  BY <1>6, <1>9, <1>10, LogSteps

\* Bringing the header that is due takes none away.
LEMMA TargetKeepsHeader ==
  ASSUME IInv, NEW p \in Procs, sess[p].inode \in Inodes
  PROVE  LET s == sess[p] IN
         /\ Target(s) \in Contents
         /\ file[s.inode].hdr => Target(s).hdr
         /\ WithCounters(s).hdr = Target(s).hdr
         /\ \A c : WithChunk(s, c).hdr = Target(s).hdr
<1>1. file[sess[p].inode] \in Contents /\ Target(sess[p]) \in Contents
  BY FileOps DEF IInv, TypeOK
<1>2. file[sess[p].inode].hdr => Target(sess[p]).hdr
  BY <1>1 DEF Target, WithHeader, Contents
<1>3. \A c : WithChunk(sess[p], c).hdr = Target(sess[p]).hdr
  BY <1>1 DEF WithChunk, Contents
<1>4. WithCounters(sess[p]).hdr = Target(sess[p]).hdr
  BY <1>1 DEF WithCounters, Contents
<1> QED
  BY <1>1, <1>2, <1>3, <1>4

\* A load, a write() that raised and each step of close() loses the session,
\* commits it, lays down the schema or does none of this.
LEMMA FileSteps ==
  ASSUME IInv, Disciplined, NeverReset, IInv', NEW p \in Procs, ~Write(p),
         \/ Load(p) \/ LoadFails(p) \/ WriteFails(p) \/ WriteFooter(p) \/ FooterFails(p)
         \/ CommitCounters(p) \/ CountersFail(p) \/ CloseFile(p)
  PROVE  [Log!Next]_(Log!vars)
<1> DEFINE s == sess[p]
           i == s.inode
<1>1. /\ s \in Session /\ sess \in [Procs -> Session] /\ file \in [Inodes -> Contents]
      /\ acked \in [Inodes -> Seq(Vals)]
  BY DEF IInv, TypeOK
<1>2. Step(p) /\ name' = name
  BY DEF Step, Opening, Writing, Closing, Load, LoadFails, WriteFails, WriteFooter, FooterFails,
         CommitCounters, CountersFail, CloseFile
<1>3. i \in Inodes
  <2>1. s.pc \in {"locked", "open", "broken", "footed", "unlocked"}
    BY DEF Load, LoadFails, WriteFails, MayWrite, WriteFooter, FooterFails, Closable,
           CommitCounters, CountersFail, CloseFile
  <2> QED
    BY <2>1 DEF IInv, Seated
<1>4. /\ file[i].hdr => Target(s).hdr
      /\ WithCounters(s).hdr = Target(s).hdr
      /\ \A c : WithChunk(s, c).hdr = Target(s).hdr
  BY <1>3, TargetKeepsHeader
<1>5. ASSUME file' = file, acked' = acked
      PROVE  [Log!Next]_(Log!vars)
  <2>1. Committed' = Committed
    BY <1>2, <1>5 DEF Committed
  <2> QED
    BY <1>2, <2>1, QuietStep
<1>6. ASSUME NEW g, file' = [file EXCEPT ![i] = g], file[i].hdr => g.hdr,
             \/ acked' = acked
             \/ acked' = [acked EXCEPT ![i] = @ \o s.wrote] /\ sess'[p].wrote = <<>>
      PROVE  [Log!Next]_(Log!vars)
  <2>1. /\ \A j \in Inodes \ {i} : file'[j] = file[j] /\ acked'[j] = acked[j]
        /\ file'[i] = g
    BY <1>1, <1>3, <1>6
  <2>2. \/ acked'[i] = acked[i]
        \/ acked'[i] = acked[i] \o s.wrote /\ sess'[p].wrote = <<>>
    BY <1>1, <1>3, <1>6
  <2> HIDE DEF s, i
  <2>3. \A j \in Inodes \ {i} : file'[j].hdr = file[j].hdr /\ acked'[j] = acked[j]
    BY <2>1
  <2>4. file[i].hdr => file'[i].hdr
    BY <1>6, <2>1
  <2> QED
    BY <1>2, <1>3, <2>2, <2>3, <2>4, EffectStep DEF s, i
<1>7. ASSUME NEW b, file' = [file EXCEPT ![i].body = b], acked' = acked
      PROVE  [Log!Next]_(Log!vars)
  <2>1. file' = [file EXCEPT ![i] = [file[i] EXCEPT !.body = b]]
    BY <1>7
  <2>2. [file[i] EXCEPT !.body = b].hdr = file[i].hdr
    BY <1>1, <1>3 DEF Contents
  <2> QED
    BY <1>6, <1>7, <2>1, <2>2
<1>8. CASE Load(p) \/ LoadFails(p)
  <2>1. acked' = acked /\ (file' = file \/ \E b : file' = [file EXCEPT ![i].body = b])
    BY <1>8 DEF Load, LoadFails, CutBack
  <2> QED
    BY <1>5, <1>7, <2>1
<1>9. CASE WriteFails(p)
  <2>1. acked' = acked /\ (file' = file \/ \E g \in {Target(s), WithChunk(s, Junk)} :
                                             file' = [file EXCEPT ![i] = g])
    BY <1>9 DEF WriteFails
  <2> QED
    BY <1>4, <1>5, <1>6, <2>1
<1>10. CASE WriteFooter(p) \/ FooterFails(p)
  <2>1. acked' = acked /\ (file' = file \/ \E b : file' = [file EXCEPT ![i].body = b])
    BY <1>10 DEF WriteFooter, FooterFails
  <2> QED
    BY <1>5, <1>7, <2>1
<1>11. CASE CommitCounters(p)
  <2>1. /\ acked' = [acked EXCEPT ![i] = @ \o s.wrote]
        /\ file' = [file EXCEPT ![i] = WithCounters(s)]
        /\ sess' = [sess EXCEPT ![p] = [s EXCEPT !.pc = "closing", !.buf = "none", !.wrote = <<>>]]
    BY <1>11 DEF CommitCounters, Become
  <2>2. sess'[p].wrote = <<>>
    BY <1>1, <2>1 DEF Session
  <2> QED
    BY <1>4, <1>6, <2>1, <2>2
<1>12. CASE CountersFail(p)
  <2>1. acked' = acked /\ (file' = file \/ file' = [file EXCEPT ![i] = Target(s)])
    BY <1>12 DEF CountersFail
  <2> QED
    BY <1>4, <1>5, <1>6, <2>1
<1>13. CASE CloseFile(p)
  <2>1. /\ \/ file' = file /\ acked' = acked
           \/ /\ file' = [file EXCEPT ![i] = Flushed(s)]
              /\ acked' = [acked EXCEPT ![i] = @ \o s.wrote]
        /\ sess' = [sess EXCEPT ![p] =
                       IF IsUnusedNewFile(s) THEN [s EXCEPT !.pc = "closed"] ELSE Idle]
    BY <1>13 DEF CloseFile, Become
  <2>2. sess'[p].wrote = <<>>
    <3>1. s.pc = "unlocked" /\ OnCourse(p)
      BY <1>13 DEF CloseFile, IInv, ProgressInv
    <3>2. IsUnusedNewFile(s) => s.wrote = <<>>
      BY <3>1 DEF OnCourse, IsUnusedNewFile
    <3>3. Idle.wrote = <<>>
      BY DEF Idle, NewSession
    <3> QED
      BY <1>1, <2>1, <3>2, <3>3 DEF Session
  <2>3. file[i].hdr => Flushed(s).hdr
    <3>1. file[i] \in Contents /\ s.buf \in Buffers
      BY <1>1, <1>3 DEF Session
    <3>2. CASE s.buf \in {"none", "header", "footer"}
      BY <3>1, <3>2 DEF Flushed, WithHeader, Contents
    <3>3. CASE s.buf = "counters"
      BY <1>4, <3>3 DEF Flushed
    <3> QED
      BY <3>1, <3>2, <3>3 DEF Buffers
  <2> QED
    BY <1>5, <1>6, <2>1, <2>2, <2>3
<1> QED
  BY <1>8, <1>9, <1>10, <1>11, <1>12, <1>13

\* Every step of the writers is a step of the log, or none.
LEMMA StepImplements ==
  ASSUME IInv, Disciplined, NeverReset, IInv', [Next]_vars
  PROVE  [Log!Next]_(Log!vars)
<1>1. CASE UNCHANGED vars
  <2>1. LogValue' = LogValue /\ Pending' = Pending
    BY <1>1 DEF vars, LogValue, Pending, Readable, HeaderOK, WalkOK, Visible
  <2> QED
    BY <2>1, LogSteps
<1>2. ASSUME NEW p \in Procs, Step(p)
      PROVE  [Log!Next]_(Log!vars)
  <2>1. CASE Write(p)
    BY <2>1, WriteIsWrite DEF Log!Next
  <2>2. CASE OpenCreate(p) \/ OpenRecreate(p)
    BY <2>2, TruncatingResets DEF Log!Next
  <2>3. CASE /\ ~Write(p)
             /\ \/ Load(p) \/ LoadFails(p) \/ WriteFails(p) \/ WriteFooter(p) \/ FooterFails(p)
                \/ CommitCounters(p) \/ CountersFail(p) \/ CloseFile(p)
    BY <2>3, FileSteps
  \* What is left moves no record and no counter.
  <2>4. CASE UNCHANGED <<name, file, acked>> /\ ~Write(p)
    <3>1. Committed' = Committed
      BY <2>4 DEF Committed
    <3> QED
      BY <1>2, <2>4, <3>1, QuietStep
  <2>5. CASE Unlink(p) /\ ~Write(p)
    <3>1. InPlace(p) /\ OnCourse(p) /\ sess[p].pc = "closed" /\ name' = None
      BY <2>5 DEF IInv, PlaceInv, ProgressInv, Unlink
    <3>2. sess[p].inode = name /\ ~file[name].hdr
      BY <3>1 DEF InPlace, OnCourse, Truncating
    <3>3. Committed' = Committed
      BY <3>1, <3>2 DEF Committed
    <3> QED
      BY <1>2, <2>5, <3>3, QuietStep
  <2>6. CASE CrashTearing(p)
    BY <2>6 DEF CrashTearing, NeverReset
  <2> QED
    BY <1>2, <2>1, <2>2, <2>3, <2>4, <2>5, <2>6
       DEF Step, Opening, Writing, Closing, Dying, CheckAbsent, OpenUpdate, Lock, Contended,
           OpenInterrupted, CloseEmpty, Unlock, Crash
<1> QED
  BY <1>1, <1>2 DEF Next

\* For disciplined callers, and where nothing makes a session start again from no
\* records, the sessions are the log that the docstring of writer.py promises: each
\* becomes visible whole or not at all, one at a time, through every crash, failed
\* load, failed write, failed close and late flush.
THEOREM WritersImplementLog ==
  ASSUME Disciplined, NeverReset
  PROVE  Spec => ImplementsCommitLog
<1>1. Init => Log!Init
  BY DEF Init, Log!Init, Idle, NewSession
<1>2. IInv /\ IInv' /\ [Next]_vars => [Log!Next]_(Log!vars)
  BY StepImplements
<1> QED
  BY <1>1, <1>2, Invariance, PTL DEF Spec, ImplementsCommitLog, Log!Spec

(***************************************************************************)
(* Footers: what makes skipping by min and max sound.                      *)
(***************************************************************************)

\* A file that does not end with a footer has none to be wrong.
LEMMA NoFooterCovers ==
  ASSUME NEW b, NEW n, b # <<>> => b[Len(b)].kind # "foot"
  PROVE  FooterCovers(b, n)
  BY DEF FooterCovers

\* The last chunk of a body is a chunk.
LEMMA LastChunk ==
  ASSUME NEW b \in Seq(Chunk), b # <<>>
  PROVE  /\ Len(b) \in 1..Len(b)
         /\ b[Len(b)] \in Chunk
         /\ b[Len(b)].kind = "foot" => b[Len(b)].stats \in Seq(Vals \cup {NoStat})
<1>1. Len(b) \in Nat /\ Len(b) # 0
  BY LenProperties, EmptySeq
<1>2. Len(b) \in 1..Len(b)
  BY <1>1
<1>3. b[Len(b)] \in Chunk
  BY <1>2, ElementOfSeq
<1> QED
  BY <1>2, <1>3 DEF Chunk, Junk

\* A footer of no records covers them.
LEMMA NothingToCover == ASSUME NEW b \in Seq(Chunk) PROVE FooterCovers(b, 0)
<1>1. CASE b # <<>> /\ b[Len(b)].kind = "foot"
  <2>1. b[Len(b)].stats \in Seq(Vals \cup {NoStat})
    BY <1>1, LastChunk
  <2> QED
    BY <2>1, LenProperties DEF FooterCovers
<1>2. CASE ~(b # <<>> /\ b[Len(b)].kind = "foot")
  BY <1>2 DEF FooterCovers
<1> QED
  BY <1>1, <1>2

\* A footer that is appended covers what its entries cover.
LEMMA FooterAppended ==
  ASSUME NEW b \in Seq(Chunk), NEW e \in Seq(Vals \cup {NoStat}), NEW n \in Nat, NEW m \in Nat,
         n <= m, m <= Len(b), Len(e) = m, \A k \in 1..m : EntryFor(e[k], b[k])
  PROVE  FooterCovers(Append(b, Foot(e)), n)
<1> DEFINE g == Append(b, Foot(e))
<1>1. Foot(e).stats = e /\ Foot(e) \in Chunk
  BY ChunkTypes DEF Foot
<1>2. Len(g) = Len(b) + 1 /\ g[Len(b) + 1] = Foot(e) /\ \A k \in 1..Len(b) : g[k] = b[k]
  BY <1>1, AppendProperties
<1>3. Len(b) \in Nat
  BY LenProperties
<1>4. \A k \in 1..n : k \in 1..m /\ k \in 1..Len(b)
  BY <1>3
<1> HIDE DEF g
<1>5. g[Len(g)].stats = e
  BY <1>1, <1>2
<1>6. \A k \in 1..n : EntryFor(e[k], g[k])
  BY <1>2, <1>4
<1>7. FooterCovers(g, n)
  BY <1>5, <1>6 DEF FooterCovers
<1> QED
  BY <1>7 DEF g

\* What a session loads of a footer speaks of the records it loads.
LEMMA LoadedStats ==
  ASSUME NEW f \in Contents, f.n <= Len(f.body), FooterCovers(f.body, f.n)
  PROVE  /\ Len(LoadStats(f)) = f.n
         /\ \A k \in 1..f.n : EntryFor(LoadStats(f)[k], f.body[k])
<1>1. f.n \in Nat /\ f.body \in Seq(Chunk)
  BY DEF Contents
<1>2. CASE HasFooter(f) /\ Len(f.body[f.stats].stats) >= f.n
  <2> DEFINE e == f.body[f.stats].stats
  <2>1. f.stats = Len(f.body) /\ f.body # <<>> /\ f.body[Len(f.body)].kind = "foot"
    BY <1>1, <1>2, EmptySeq DEF HasFooter
  <2>2. e \in Seq(Vals \cup {NoStat}) /\ f.n <= Len(e)
    BY <1>1, <2>1, LastChunk, <1>2, LenProperties
  <2>3. \A k \in 1..f.n : EntryFor(e[k], f.body[k])
    BY <2>1 DEF FooterCovers
  <2>4. LoadStats(f) = SubSeq(e, 1, f.n)
    BY <1>2 DEF LoadStats
  <2> HIDE DEF e
  <2>5. Len(SubSeq(e, 1, f.n)) = f.n /\ \A k \in 1..f.n : SubSeq(e, 1, f.n)[k] = e[k]
    BY <1>1, <2>2
  <2> QED
    BY <2>3, <2>4, <2>5
<1>3. CASE ~(HasFooter(f) /\ Len(f.body[f.stats].stats) >= f.n)
  <2>1. LoadStats(f) = [k \in 1..f.n |-> NoStat]
    BY <1>3 DEF LoadStats
  <2>2. LoadStats(f) \in [1..f.n -> Vals \cup {NoStat}]
    BY <2>1
  <2>3. Len(LoadStats(f)) = f.n
    BY <1>1, <2>2, FunctionIsSeq
  <2> QED
    BY <2>1, <2>3 DEF EntryFor
<1> QED
  BY <1>2, <1>3

\* The footers of all files, as FooterInv has them.
FilesCovered == \A i \in Inodes : file[i].hdr => FooterCovers(file[i].body, file[i].n)

\* A session that begins knows nothing of its file.
LEMMA NewSessionGathered ==
  ASSUME NEW pc, NEW mode, NEW i, NEW st
  PROVE  NewSession(pc, mode, i, st).acc = <<>>
  BY DEF NewSession

\* Only a session in close() has a footer or counters in its buffer.
LEMMA BufferedLate ==
  ASSUME IInv', NEW p \in Procs, sess'[p].buf \in {"footer", "counters"}
  PROVE  sess'[p].pc \in {"closing", "unlocked"}
  BY DEF IInv, ProgressInv, OnCourse, Works, Holding, FlushesLate

\* The header and the counters leave the chunks behind them alone.
LEMMA TargetBody ==
  ASSUME IInv, NEW p \in Procs, sess[p].inode \in Inodes
  PROVE  LET s == sess[p]
             f == file[s.inode]
         IN /\ f \in Contents /\ Target(s) \in Contents /\ Target(s).body = f.body
            /\ Target(s).n = (IF HeaderDue(s) THEN 0 ELSE f.n)
            /\ WithCounters(s).body = f.body /\ WithCounters(s).n = s.n
            /\ WithHeader(f).body = f.body /\ WithHeader(f).n = 0
<1> DEFINE s == sess[p]
           f == file[s.inode]
<1>1. f \in Contents /\ Target(s) \in Contents
  BY FileOps DEF IInv, TypeOK
<1>2. WithHeader(f).body = f.body /\ WithHeader(f).n = 0
  BY <1>1 DEF WithHeader, Contents
<1>3. Target(s).body = f.body /\ Target(s).n = (IF HeaderDue(s) THEN 0 ELSE f.n)
  BY <1>2 DEF Target
<1>4. WithCounters(s).body = f.body /\ WithCounters(s).n = s.n
  BY <1>1, <1>3 DEF WithCounters, Contents
<1> QED
  BY <1>1, <1>2, <1>3, <1>4

\* Taking the lock: a new file is empty, an old one is still to be loaded.
LEMMA LockFooter ==
  ASSUME IInv, FooterInv, IInv', NEW p \in Procs, Lock(p)
  PROVE  FooterOnCourse(p)'
<1> DEFINE s == sess[p]
           b == file[s.inode].body
<1>1. s \in Session /\ sess \in [Procs -> Session] /\ s.inode \in Inodes
  BY DEF IInv, TypeOK, Seated, Lock
<1>2. OnCourse(p) /\ FooterOnCourse(p) /\ InPlace(p) /\ Sound(s.inode)
  BY <1>1 DEF IInv, ProgressInv, PlaceInv, FileInv, FooterInv
<1>3. /\ s.pc = "opened" /\ file' = file
      /\ sess' = [sess EXCEPT ![p] = [s EXCEPT !.pc = AfterLock(s)]]
  BY DEF Lock, Become
<1>4. s.acc = <<>> /\ s.n = 0
  BY <1>2, <1>3 DEF FooterOnCourse, OnCourse
<1>5. CASE s.mode = "update"
  <2>1. sess'[p] = [s EXCEPT !.pc = "locked"]
    BY <1>1, <1>3, <1>5 DEF AfterLock
  <2>2. sess'[p].pc = "locked" /\ sess'[p].acc = <<>>
    BY <1>1, <1>4, <2>1 DEF Session
  <2> QED
    BY <2>2, BufferedLate DEF FooterOnCourse
<1>6. CASE s.mode # "update"
  <2>1. b = <<>>
    BY <1>2, <1>3, <1>6 DEF OnCourse, Sound, SoundWith
  <2>2. sess'[p] = [s EXCEPT !.pc = "open"]
    BY <1>1, <1>3, <1>6 DEF AfterLock
  <2>3. /\ sess'[p].pc = "open" /\ sess'[p].acc = <<>> /\ sess'[p].n = 0
        /\ sess'[p].inode = s.inode
    BY <1>1, <1>4, <2>2 DEF Session
  <2>4. Len(<<>>) = 0
    BY EmptySeq
  <2> QED
    BY <1>3, <2>1, <2>3, <2>4, BufferedLate DEF FooterOnCourse, Gathered
<1> QED
  BY <1>5, <1>6

\* What a load finds: the counted records, which end the file once the rest is cut
\* off, and what the old footer says of them.
LEMMA LoadedFacts ==
  ASSUME IInv, FooterInv, NEW p \in Procs, sess[p].pc = "locked", LoadOK(p)
  PROVE  LET s == sess[p]
             f == file[s.inode]
             b == Truncated(f.body, f.n)
             e == StatsLoaded(s)
         IN /\ b \in Seq(Chunk) /\ Len(b) = f.n /\ \A k \in 1..f.n : b[k] = f.body[k]
            /\ b # <<>> => b[Len(b)].kind # "foot"
            /\ s.stats => Len(e) = f.n /\ \A k \in 1..f.n : EntryFor(e[k], f.body[k])
            /\ ~s.stats => e = <<>>
            /\ CountLoaded(f) = f.n
<1> DEFINE s == sess[p]
           i == s.inode
           f == file[i]
           b == Truncated(f.body, f.n)
<1>1. s \in Session /\ i \in Inodes /\ f \in Contents /\ acked[i] \in Seq(Vals)
  BY DEF IInv, TypeOK, Seated
<1>2. f.hdr /\ CountLoaded(f) = f.n
  BY DEF LoadOK, HeaderOK, CountLoaded
<1>3. /\ f.n <= Len(f.body)
      /\ \A k \in 1..f.n : f.body[k] = Rec(k - 1, acked[i][Len(acked[i]) - f.n + k])
  BY <1>1, <1>2 DEF IInv, FileInv, Sound, SoundWith, HoldsLast
<1>4. f.n \in Nat /\ f.body \in Seq(Chunk)
  BY <1>1 DEF Contents
<1>5. b \in Seq(Chunk) /\ Len(b) = f.n /\ \A k \in 1..f.n : b[k] = f.body[k]
  <2>1. Len(f.body) \in Nat
    BY <1>4, LenProperties
  <2>2. \A k \in 1..f.n : k <= Len(f.body)
    BY <1>3, <1>4, <2>1
  <2> QED
    BY <1>4, <2>2, TruncatedFacts
<1>6. FooterCovers(f.body, f.n)
  BY <1>1, <1>2 DEF FooterInv
<1>7. /\ Len(LoadStats(f)) = f.n
      /\ \A k \in 1..f.n : EntryFor(LoadStats(f)[k], f.body[k])
  BY <1>1, <1>3, <1>6, LoadedStats
<1>8. b # <<>> => b[Len(b)].kind # "foot"
  <2> HIDE DEF b
  <2> SUFFICES ASSUME b # <<>> PROVE b[Len(b)].kind # "foot"
    OBVIOUS
  <2>1. Len(b) \in 1..f.n
    BY <1>5, LastChunk
  <2> QED
    BY <1>3, <1>5, <2>1, RecFields
<1>9. StatsLoaded(s) = IF s.stats THEN LoadStats(f) ELSE <<>>
  BY DEF StatsLoaded
<1> QED
  BY <1>2, <1>5, <1>7, <1>8, <1>9

\* Cutting the rest off keeps the footers right.
LEMMA CutBackCovered ==
  ASSUME IInv, FooterInv, NEW p \in Procs, sess[p].pc = "locked", LoadOK(p),
         file' = CutBack(sess[p].inode)
  PROVE  /\ FilesCovered'
         /\ file'[sess[p].inode].body
              = Truncated(file[sess[p].inode].body, file[sess[p].inode].n)
<1> DEFINE i == sess[p].inode
           f == file[i]
           b == Truncated(f.body, f.n)
<1>1. i \in Inodes /\ file \in [Inodes -> Contents] /\ f \in Contents
  BY DEF IInv, TypeOK, Seated
<1>2. file' = [file EXCEPT ![i].body = b]
  BY DEF CutBack, EndOfCommitted
<1>3. b # <<>> => b[Len(b)].kind # "foot"
  BY LoadedFacts
<1> HIDE DEF b
<1>4. file'[i].body = b /\ \A j \in Inodes \ {i} : file'[j] = file[j]
  BY <1>1, <1>2 DEF Contents
<1>5. FilesCovered'
  BY <1>3, <1>4, NoFooterCovers DEF FilesCovered, FooterInv
<1> QED
  BY <1>4, <1>5 DEF b

\* The load leaves the counted records and what the old footer says of them.
LEMMA LoadFooter ==
  ASSUME IInv, FooterInv, IInv', NEW p \in Procs, Load(p)
  PROVE  FilesCovered' /\ FooterOnCourse(p)'
<1> DEFINE s == sess[p]
           i == s.inode
           f == file[i]
           b == Truncated(f.body, f.n)
<1>1. s \in Session /\ sess \in [Procs -> Session] /\ s.pc = "locked" /\ LoadOK(p)
  BY DEF IInv, TypeOK, Load
<1>2. FilesCovered' /\ file'[i].body = b
  BY <1>1, CutBackCovered DEF Load
<1>3. /\ sess'[p].pc = "open" /\ sess'[p].n = f.n /\ sess'[p].inode = i
      /\ sess'[p].stats = s.stats /\ sess'[p].acc = StatsLoaded(s)
  BY <1>1 DEF Load, Become, Session
<1>4. /\ Len(b) = f.n /\ (b # <<>> => b[Len(b)].kind # "foot")
      /\ \A k \in 1..f.n : b[k] = f.body[k]
      /\ s.stats => Len(StatsLoaded(s)) = f.n
                    /\ \A k \in 1..f.n : EntryFor(StatsLoaded(s)[k], f.body[k])
      /\ ~s.stats => StatsLoaded(s) = <<>>
  BY <1>1, LoadedFacts
<1> HIDE DEF b
<1>5. Gathered(sess'[p], b)
  BY <1>3, <1>4 DEF Gathered
<1> QED
  BY <1>2, <1>3, <1>4, <1>5, BufferedLate DEF FooterOnCourse

\* A load that raises has the statistics of the records it counts, or none.
LEMMA FailedLoadFooter ==
  ASSUME IInv, FooterInv, IInv', NEW p \in Procs, LoadFails(p)
  PROVE  FilesCovered' /\ FooterOnCourse(p)'
<1> DEFINE s == sess[p]
           i == s.inode
           f == file[i]
           t == [s EXCEPT !.pc = "broken", !.n = CountLoaded(f)]
           u == [t EXCEPT !.acc = StatsLoaded(s)]
<1>1. s \in Session /\ sess \in [Procs -> Session] /\ s.pc = "locked" /\ FooterOnCourse(p)
  BY DEF IInv, TypeOK, LoadFails, FooterInv
<1>2. t.pc = "broken" /\ t.acc = s.acc
  BY <1>1 DEF Session
<1>3. /\ u.pc = "broken" /\ u.n = CountLoaded(f) /\ u.inode = i /\ u.stats = s.stats
      /\ u.acc = StatsLoaded(s)
  BY <1>1 DEF Session
<1>4. \/ sess'[p] = t /\ file' = file
      \/ sess'[p] = u /\ LoadOK(p) /\ file' \in {file, CutBack(i)}
  BY <1>1 DEF LoadFails, Become
<1> HIDE DEF t, u
<1>5. CASE sess'[p] = t /\ file' = file
  <2>1. FilesCovered'
    BY <1>5 DEF FilesCovered, FooterInv
  <2>2. sess'[p].pc = "broken" /\ sess'[p].acc = <<>>
    BY <1>1, <1>2, <1>5 DEF FooterOnCourse
  <2> QED
    BY <2>1, <2>2, BufferedLate DEF FooterOnCourse
<1>6. CASE sess'[p] = u /\ LoadOK(p) /\ file' \in {file, CutBack(i)}
  <2> DEFINE b == Truncated(f.body, f.n)
  <2>1. /\ \A k \in 1..f.n : b[k] = f.body[k]
        /\ s.stats => Len(StatsLoaded(s)) = f.n
                      /\ \A k \in 1..f.n : EntryFor(StatsLoaded(s)[k], f.body[k])
        /\ ~s.stats => StatsLoaded(s) = <<>>
        /\ CountLoaded(f) = f.n
    BY <1>1, <1>6, LoadedFacts
  <2>2. FilesCovered' /\ file'[i].body \in {f.body, b}
    <3>1. CASE file' = file
      BY <3>1 DEF FilesCovered, FooterInv
    <3>2. CASE file' = CutBack(i)
      BY <1>1, <1>6, <3>2, CutBackCovered
    <3> QED
      BY <1>6, <3>1, <3>2
  <2> HIDE DEF b
  <2>3. \A k \in 1..f.n : file'[i].body[k] = f.body[k]
    BY <2>1, <2>2
  <2>4. Gathered(sess'[p], file'[i].body)
    BY <1>3, <1>6, <2>1, <2>3 DEF Gathered
  <2> QED
    BY <1>3, <1>6, <2>2, <2>4, BufferedLate DEF FooterOnCourse
<1> QED
  BY <1>4, <1>5, <1>6

\* Where a disciplined session writes: at the end of its file, right behind the
\* last record it counts.
LEMMA WritesAtTheEnd ==
  ASSUME IInv, FooterInv, Disciplined, NEW p \in Procs, MayWrite(sess[p])
  PROVE  LET s == sess[p]
             b == file[s.inode].body
         IN /\ s \in Session /\ s.inode \in Inodes /\ s.n \in Nat /\ b \in Seq(Chunk)
            /\ s.pc = "open" /\ s.pos = s.n /\ s.n = Len(b)
            /\ Target(s).body = b /\ Target(s) \in Contents
            /\ Gathered(s, b) /\ (b # <<>> => b[Len(b)].kind # "foot")
<1> DEFINE s == sess[p]
           f == file[s.inode]
<1>1. s \in Session /\ s.inode \in Inodes /\ f \in Contents /\ s.pc = "open" /\ ~s.failed
  BY DEF IInv, TypeOK, Seated, MayWrite, Disciplined
<1>2. OnCourse(p) /\ FooterOnCourse(p)
  BY DEF IInv, ProgressInv, FooterInv
<1>3. Target(s).body = f.body /\ Target(s) \in Contents
  BY <1>1, TargetBody
<1> QED
  BY <1>1, <1>2, <1>3 DEF OnCourse, FooterOnCourse, Session, Contents

\* A write at the end makes the file one chunk longer.
LEMMA WriteAtEnd ==
  ASSUME NEW b \in Seq(Chunk), NEW c \in Chunk, NEW n, n = Len(b)
  PROVE  LET g == WriteAt(b, n, c) IN
         /\ g \in Seq(Chunk) /\ Len(g) = n + 1 /\ g[Len(g)] = c
         /\ \A k \in 1..n : g[k] = b[k]
<1>1. n \in Nat
  BY LenProperties
<1>2. \A k \in 1..n : k \in 1..Len(b) /\ k # n + 1
  BY <1>1
<1> DEFINE g == WriteAt(b, n, c)
<1>3. /\ g \in Seq(Chunk) /\ Len(g) = IF n < Len(b) THEN Len(b) ELSE n + 1
      /\ g[n + 1] = c /\ \A j \in 1..Len(b) : j # n + 1 => g[j] = b[j]
  BY ZenonT(40), <1>1, WriteAtFacts
<1> HIDE DEF g
<1>4. Len(g) = n + 1
  BY <1>1, <1>3
<1>5. g \in Seq(Chunk) /\ Len(g) = n + 1 /\ g[Len(g)] = c /\ \A k \in 1..n : g[k] = b[k]
  BY <1>2, <1>3, <1>4
<1> QED
  BY <1>5 DEF g

\* What a session gathered stays right when only other chunks change.
LEMMA StillGathered ==
  ASSUME NEW s, NEW t, NEW b, NEW g, Gathered(s, b), t.n = s.n, t.stats = s.stats, t.acc = s.acc,
         \A k \in 1..s.n : g[k] = b[k]
  PROVE  Gathered(t, g)
<1>1. CASE s.stats
  BY <1>1 DEF Gathered, EntryFor
<1>2. CASE ~s.stats
  BY <1>2 DEF Gathered
<1> QED
  BY <1>1, <1>2

\* A write puts a record at the end and its value into the statistics.
LEMMA WriteFooterFacts ==
  ASSUME IInv, FooterInv, Disciplined, IInv', NEW p \in Procs, Write(p)
  PROVE  FilesCovered' /\ FooterOnCourse(p)'
<1> DEFINE s == sess[p]
           i == s.inode
           b == file[i].body
<1>1. /\ s \in Session /\ i \in Inodes /\ s.n \in Nat /\ b \in Seq(Chunk)
      /\ s.pc = "open" /\ s.pos = s.n /\ s.n = Len(b)
      /\ Target(s).body = b /\ Target(s) \in Contents
      /\ Gathered(s, b)
  BY WritesAtTheEnd DEF Write
<1>2. sess \in [Procs -> Session] /\ file \in [Inodes -> Contents]
  BY DEF IInv, TypeOK
<1>3. PICK v \in Vals :
        /\ file' = [file EXCEPT ![i] = WithRecord(s, v)]
        /\ Become(p, [s EXCEPT !.hasHeader = TRUE, !.buf = "none",
                               !.n = @ + 1, !.pos = @ + 1,
                               !.acc = IF s.stats THEN Append(@, v) ELSE @,
                               !.wrote = Append(@, v)])
  BY DEF Write
<1> DEFINE g == WriteAt(b, s.n, Rec(s.n, v))
<1>4. /\ sess'[p].pc = "open" /\ sess'[p].n = s.n + 1 /\ sess'[p].inode = i
      /\ sess'[p].stats = s.stats
      /\ sess'[p].acc = IF s.stats THEN Append(s.acc, v) ELSE s.acc
  BY <1>1, <1>2, <1>3 DEF Become, Session
<1>5. file'[i].body = g /\ \A j \in Inodes \ {i} : file'[j] = file[j]
  <2>1. file'[i] = WithRecord(s, v)
    BY <1>1, <1>2, <1>3
  <2>2. WithRecord(s, v).body = WriteAt(Target(s).body, s.pos, Rec(s.n, v))
    BY <1>1 DEF WithRecord, WithChunk, Contents
  <2> QED
    BY <1>1, <1>2, <1>3, <2>1, <2>2
<1>6. /\ g \in Seq(Chunk) /\ Len(g) = s.n + 1 /\ g[Len(g)] = Rec(s.n, v)
      /\ \A k \in 1..s.n : g[k] = b[k]
  <2>1. Rec(s.n, v) \in Chunk
    BY <1>1, ChunkTypes
  <2>2. b \in Seq(Chunk) /\ s.n = Len(b)
    BY <1>1
  <2> HIDE DEF b, s
  <2> QED
    BY <2>1, <2>2, WriteAtEnd
<1> HIDE DEF g
<1>7. g[Len(g)].kind # "foot"
  BY <1>6, RecFields
<1>8. FilesCovered'
  BY <1>5, <1>7, NoFooterCovers DEF FilesCovered, FooterInv
<1>9. Gathered(sess'[p], g)
  <2>1. CASE s.stats
    <3>1. s.acc \in Seq(Vals \cup {NoStat}) /\ v \in Vals \cup {NoStat} /\ Len(s.acc) = s.n
      BY <1>1, <2>1 DEF Session, Gathered
    <3>2. /\ Len(Append(s.acc, v)) = s.n + 1 /\ Append(s.acc, v)[s.n + 1] = v
          /\ \A k \in 1..s.n : Append(s.acc, v)[k] = s.acc[k]
      BY <3>1, AppendProperties
    <3>3. ASSUME NEW k \in 1..(s.n + 1)
          PROVE  EntryFor(Append(s.acc, v)[k], g[k])
      <4>1. CASE k = s.n + 1
        <5>1. g[k].val = v /\ Append(s.acc, v)[k] = v
          BY <1>6, <3>2, <4>1, RecFields
        <5> QED
          BY <5>1 DEF EntryFor
      <4>2. CASE k # s.n + 1
        <5>1. k \in 1..s.n
          BY <1>1, <4>2
        <5> QED
          BY <1>1, <1>6, <2>1, <3>2, <5>1 DEF Gathered, EntryFor
      <4> QED
        BY <4>1, <4>2
    <3> QED
      BY <1>4, <2>1, <3>2, <3>3 DEF Gathered
  <2>2. CASE ~s.stats
    BY <1>1, <1>4, <2>2 DEF Gathered
  <2> QED
    BY <2>1, <2>2
<1> QED
  BY <1>4, <1>5, <1>6, <1>7, <1>8, <1>9, BufferedLate DEF FooterOnCourse

\* A write() that raises leaves part of a record at the end, or nothing.
LEMMA FailedWriteFooter ==
  ASSUME IInv, FooterInv, Disciplined, IInv', NEW p \in Procs, WriteFails(p)
  PROVE  FilesCovered' /\ FooterOnCourse(p)'
<1> DEFINE s == sess[p]
           i == s.inode
           b == file[i].body
           g == WriteAt(b, s.n, Junk)
<1>1. /\ s \in Session /\ i \in Inodes /\ s.n \in Nat /\ b \in Seq(Chunk)
      /\ s.pc = "open" /\ s.pos = s.n /\ s.n = Len(b)
      /\ Target(s).body = b /\ Target(s) \in Contents
      /\ Gathered(s, b) /\ (b # <<>> => b[Len(b)].kind # "foot")
  BY WritesAtTheEnd DEF WriteFails
<1>2. sess \in [Procs -> Session] /\ file \in [Inodes -> Contents]
  BY DEF IInv, TypeOK
<1>3. PICK t \in Session : /\ sess' = [sess EXCEPT ![p] = t]
                           /\ t.pc = "open" /\ t.inode = i /\ t.n = s.n
                           /\ t.stats = s.stats /\ t.acc = s.acc /\ t.failed
  BY <1>1, FailedWriteSession
<1>4. /\ g \in Seq(Chunk) /\ Len(g) = s.n + 1 /\ g[Len(g)] = Junk
      /\ \A k \in 1..s.n : g[k] = b[k]
  <2>1. b \in Seq(Chunk) /\ Junk \in Chunk /\ s.n = Len(b)
    BY <1>1, ChunkTypes
  <2> HIDE DEF s, b
  <2> QED
    BY <2>1, WriteAtEnd
<1>5. file'[i].body \in {b, g} /\ \A j \in Inodes \ {i} : file'[j] = file[j]
  <2>1. file' = file \/ file' = [file EXCEPT ![i] = Target(s)]
                     \/ file' = [file EXCEPT ![i] = WithChunk(s, Junk)]
    BY DEF WriteFails
  <2>2. WithChunk(s, Junk).body = g
    BY <1>1 DEF WithChunk, Contents
  <2> HIDE DEF g
  <2> QED
    BY <1>1, <1>2, <2>1, <2>2
<1> HIDE DEF g
<1>6. LET c == file'[i].body IN
      /\ c # <<>> => c[Len(c)].kind # "foot"
      /\ \A k \in 1..s.n : c[k] = b[k]
  <2>1. g[Len(g)].kind # "foot"
    BY <1>4 DEF Junk
  <2>2. CASE file'[i].body = b
    BY <1>1, <2>2
  <2>3. CASE file'[i].body = g
    BY <1>4, <2>1, <2>3
  <2> QED
    BY <1>5, <2>2, <2>3
<1>7. FilesCovered'
  BY <1>5, <1>6, NoFooterCovers DEF FilesCovered, FooterInv
<1>8. sess'[p].pc = "open" /\ sess'[p].inode = i /\ sess'[p].failed
      /\ sess'[p].n = s.n /\ sess'[p].stats = s.stats /\ sess'[p].acc = s.acc
  BY <1>2, <1>3
<1>9. Gathered(sess'[p], file'[i].body)
  BY <1>1, <1>6, <1>8, StillGathered
<1> QED
  BY <1>6, <1>7, <1>8, <1>9, BufferedLate DEF FooterOnCourse

\* A session that has a footer to write has an entry for each record it counts.
LEMMA FooterDueFacts ==
  ASSUME IInv, FooterInv, NEW p \in Procs, Closable(sess[p]), FooterDue(sess[p])
  PROVE  LET s == sess[p]
             f == file[s.inode]
         IN /\ f.hdr /\ ~HeaderDue(s)
            /\ s.n \in Nat /\ f.n \in Nat /\ f.n <= s.n /\ s.n <= Len(f.body)
            /\ s.stats /\ Gathered(s, f.body)
<1> DEFINE s == sess[p]
           f == file[s.inode]
<1>1. s \in Session /\ s.inode \in Inodes /\ f \in Contents /\ Unfinished(s)
  BY DEF IInv, TypeOK, Seated, Closable, Unfinished
<1>2. OnCourse(p) /\ FooterOnCourse(p) /\ s.n \in Nat /\ f.n \in Nat /\ s.n # 0 /\ s.acc # <<>>
  BY <1>1 DEF IInv, ProgressInv, FooterInv, Session, Contents, FooterDue
<1>3. f.hdr /\ ~HeaderDue(s) /\ Appended(s, f)
  BY <1>1, <1>2 DEF OnCourse
<1>4. Gathered(s, f.body)
  BY <1>2 DEF Closable, FooterOnCourse
<1>5. s.stats
  BY <1>2, <1>4 DEF Gathered
<1>6. f.n <= s.n
  <2> DEFINE w == Len(s.wrote)
  <2>1. w \in Nat /\ (s.wrote = <<>> => w = 0)
    BY <1>1, LenProperties, EmptySeq DEF Session
  <2>2. s.pc = "open" => Found(s) = f.n
    BY <1>2 DEF OnCourse
  <2>3. s.pc = "broken" => s.wrote = <<>> /\ (Found(s) = f.n \/ Found(s) = 0)
    BY <1>2, <1>3 DEF OnCourse, Appended
  <2>4. Found(s) = s.n - w
    BY DEF Found
  <2> HIDE DEF w, f, s
  <2>5. CASE s.pc = "open"
    BY <1>2, <2>1, <2>2, <2>4, <2>5
  <2>6. CASE s.pc = "broken"
    BY <1>2, <2>1, <2>3, <2>4, <2>6
  <2> QED
    BY <2>5, <2>6 DEF Closable, s
<1> QED
  BY <1>2, <1>3, <1>4, <1>5, <1>6 DEF Appended

\* The footer that close() writes has an entry for every record of the session
\* and of those before it; a session that knows no statistics leaves the footer
\* that is there, with the count it belongs to.
LEMMA FooterFooter ==
  ASSUME IInv, FooterInv, IInv', NEW p \in Procs, WriteFooter(p)
  PROVE  FilesCovered' /\ FooterOnCourse(p)'
<1> DEFINE s == sess[p]
           i == s.inode
           f == file[i]
           b == f.body
           g == Append(b, Foot(s.acc))
<1>1. /\ s \in Session /\ sess \in [Procs -> Session] /\ i \in Inodes
      /\ file \in [Inodes -> Contents] /\ f \in Contents
      /\ Closable(s) /\ Unfinished(s)
  BY DEF IInv, TypeOK, Seated, WriteFooter, Closable, Unfinished
<1>2. OnCourse(p) /\ FooterOnCourse(p)
  BY DEF IInv, ProgressInv, FooterInv
<1>3. s.n \in Nat /\ f.n \in Nat /\ b \in Seq(Chunk) /\ s.acc \in Seq(Vals \cup {NoStat})
  BY <1>1 DEF Session, Contents
<1>4. /\ sess'[p].pc = "footed" /\ sess'[p].inode = i /\ sess'[p].n = s.n
      /\ sess'[p].hasHeader = s.hasHeader /\ sess'[p].buf = s.buf
  BY <1>1 DEF WriteFooter, Become, Session
<1>5. HeaderDue(sess'[p]) <=> HeaderDue(s)
  BY <1>4 DEF HeaderDue
<1>6. CASE FooterDue(s)
  <2>1. /\ f.n <= s.n /\ s.n <= Len(b)
        /\ Len(s.acc) = s.n /\ \A k \in 1..s.n : EntryFor(s.acc[k], b[k])
    BY <1>1, <1>6, FooterDueFacts DEF Gathered
  <2>2. /\ file'[i].body = g /\ file'[i].n = f.n
        /\ \A j \in Inodes \ {i} : file'[j] = file[j]
    <3>1. file' = [file EXCEPT ![i].body = g]
      BY <1>6 DEF WriteFooter
    <3> HIDE DEF g
    <3> QED
      BY <1>1, <3>1 DEF Contents
  <2>3. FooterCovers(g, f.n) /\ FooterCovers(g, s.n)
    <3> HIDE DEF s, b, f
    <3> QED
      BY <1>3, <2>1, FooterAppended
  <2> HIDE DEF g
  <2>4. FilesCovered'
    BY <2>2, <2>3 DEF FilesCovered, FooterInv
  <2> QED
    BY <1>4, <2>2, <2>3, <2>4, BufferedLate DEF FooterOnCourse
<1>7. CASE ~FooterDue(s)
  <2>1. file' = file
    BY <1>7 DEF WriteFooter
  <2>2. FilesCovered'
    BY <2>1 DEF FilesCovered, FooterInv
  <2>3. CASE s.n = 0
    <3>1. FooterCovers(b, s.n)
      BY <1>3, <2>3, NothingToCover
    <3> QED
      BY <1>4, <2>1, <2>2, <3>1, BufferedLate DEF FooterOnCourse
  <2>4. CASE s.n # 0 /\ s.pc = "open"
    <3>1. FooterCovers(b, s.n)
      BY <1>2, <2>4, NoFooterCovers DEF FooterOnCourse
    <3> QED
      BY <1>4, <2>1, <2>2, <3>1, BufferedLate DEF FooterOnCourse
  <2>5. CASE s.n # 0 /\ s.pc = "broken"
    <3>1. f.hdr /\ s.wrote = <<>> /\ (Found(s) = f.n \/ Found(s) = 0)
      BY <1>1, <1>2, <2>5 DEF OnCourse, Appended
    <3>2. Found(s) = s.n
      <4>1. Len(s.wrote) = 0
        BY <3>1
      <4>2. s.n - Len(s.wrote) = s.n
        BY <1>3, <4>1
      <4> QED
        BY <4>2 DEF Found
    <3>3. FooterCovers(b, s.n)
      BY <1>1, <2>5, <3>1, <3>2 DEF FooterInv
    <3> QED
      BY <1>4, <2>1, <2>2, <3>3, BufferedLate DEF FooterOnCourse
  <2> QED
    BY <1>1, <2>3, <2>4, <2>5 DEF Closable
<1> QED
  BY <1>6, <1>7

\* A footer that failed leaves what it was to say, or part of it, or nothing.
LEMMA FailedFooterFooter ==
  ASSUME IInv, FooterInv, IInv', NEW p \in Procs, FooterFails(p)
  PROVE  FilesCovered' /\ FooterOnCourse(p)'
<1> DEFINE s == sess[p]
           i == s.inode
           f == file[i]
           b == f.body
           g == Append(b, Junk)
<1>1. /\ s \in Session /\ sess \in [Procs -> Session] /\ i \in Inodes
      /\ file \in [Inodes -> Contents] /\ f \in Contents
      /\ Closable(s) /\ Unfinished(s) /\ OnCourse(p)
  BY DEF IInv, TypeOK, Seated, FooterFails, Closable, Unfinished, ProgressInv
<1>2. \/ sess'[p] = Raised(s, s.buf) /\ file' = file
      \/ /\ FooterDue(s)
         /\ \E kept \in {"none", "footer"} :
              sess'[p] = [Raised(s, kept) EXCEPT !.foot = EndOf(s) + 1]
         /\ file' \in {file, [file EXCEPT ![i].body = g]}
  BY <1>1 DEF FooterFails, Become
<1>3. CASE sess'[p] = Raised(s, s.buf) /\ file' = file
  <2>1. s.buf \in Buffers /\ s.buf \in {"none", "header"}
    BY <1>1 DEF Session, OnCourse, Closable
  <2>2. sess'[p].pc = "closing" /\ sess'[p].buf = s.buf
    BY <1>1, <1>3, <2>1, RaisedFacts
  <2>3. FilesCovered'
    BY <1>3 DEF FilesCovered, FooterInv
  <2> QED
    BY <2>1, <2>2, <2>3 DEF FooterOnCourse
<1>4. CASE /\ FooterDue(s)
           /\ \E kept \in {"none", "footer"} :
                sess'[p] = [Raised(s, kept) EXCEPT !.foot = EndOf(s) + 1]
           /\ file' \in {file, [file EXCEPT ![i].body = g]}
  <2>1. PICK kept \in {"none", "footer"} :
          sess'[p] = [Raised(s, kept) EXCEPT !.foot = EndOf(s) + 1]
    BY <1>4
  <2>2. kept \in Buffers
    BY DEF Buffers
  <2>3. /\ sess'[p].pc = "closing" /\ sess'[p].buf = kept /\ sess'[p].inode = i
        /\ sess'[p].n = s.n /\ sess'[p].acc = s.acc /\ sess'[p].stats = s.stats
        /\ sess'[p].foot = Len(b) + 1
    BY <1>1, <2>1, <2>2, RaisedFacts DEF EndOf
  <2>4. s.n \in Nat /\ s.n <= Len(b) /\ s.stats /\ Gathered(s, b)
    BY <1>1, <1>4, FooterDueFacts
  <2>5. b \in Seq(Chunk) /\ Junk \in Chunk /\ Len(b) \in Nat
    BY <1>1, ChunkTypes, LenProperties DEF Contents
  <2>6. Len(g) = Len(b) + 1 /\ g[Len(b) + 1] = Junk /\ \A k \in 1..Len(b) : g[k] = b[k]
    BY <2>5, AppendProperties
  <2>7. file' = file \/ (file'[i].body = g /\ \A j \in Inodes \ {i} : file'[j] = file[j])
    <3> HIDE DEF g
    <3> QED
      BY <1>1, <1>4 DEF Contents
  <2> HIDE DEF g
  <2>8. FilesCovered'
    <3>1. g[Len(g)].kind # "foot"
      BY <2>6 DEF Junk
    <3> QED
      BY <2>7, <3>1, NoFooterCovers DEF FilesCovered, FooterInv
  <2>9. Len(file'[i].body) <= Len(b) + 1 /\ \A k \in 1..s.n : file'[i].body[k] = b[k]
    <3>1. CASE file' = file
      BY <2>5, <3>1
    <3>2. CASE file'[i].body = g
      <4>1. \A k \in 1..s.n : k \in 1..Len(b)
        BY <2>4, <2>5
      <4> HIDE DEF b
      <4> QED
        BY <2>5, <2>6, <3>2, <4>1
    <3> QED
      BY <2>7, <3>1, <3>2
  <2>10. Gathered(sess'[p], file'[i].body)
    <3> DEFINE u == sess'[p]
               c == file'[i].body
    <3>1. u.n = s.n /\ u.acc = s.acc /\ u.stats = s.stats /\ \A k \in 1..s.n : c[k] = b[k]
      BY <2>3, <2>9
    <3> HIDE DEF u, c, s, b
    <3>2. Gathered(u, c)
      BY <2>4, <3>1 DEF Gathered
    <3> QED
      BY <3>2 DEF u, c
  <2> QED
    BY <2>3, <2>4, <2>8, <2>9, <2>10 DEF FooterOnCourse
<1> QED
  BY <1>2, <1>3, <1>4

\* What a session that is past its footer counts, the last footer covers.
LEMMA FootedCovers ==
  ASSUME IInv, FooterInv, NEW p \in Procs, sess[p].pc = "footed"
  PROVE  FooterCovers(file[sess[p].inode].body, sess[p].n)
<1> DEFINE s == sess[p]
           f == file[s.inode]
<1>1. f \in Contents /\ OnCourse(p) /\ FooterOnCourse(p) /\ Unfinished(s)
  BY DEF IInv, TypeOK, Seated, ProgressInv, FooterInv, Unfinished
<1>2. CASE HeaderDue(s)
  <2>1. s.n = 0 /\ f.body \in Seq(Chunk)
    BY <1>1, <1>2 DEF OnCourse, Contents
  <2> QED
    BY <2>1, NothingToCover
<1>3. CASE ~HeaderDue(s)
  BY <1>1, <1>3 DEF FooterOnCourse
<1> QED
  BY <1>2, <1>3

\* The counters that close() writes count no record that the footer leaves out;
\* nor do those that are still to come.
LEMMA CommitFooter ==
  ASSUME IInv, FooterInv, IInv', NEW p \in Procs, CommitCounters(p) \/ CountersFail(p)
  PROVE  FilesCovered' /\ FooterOnCourse(p)'
<1> DEFINE s == sess[p]
           i == s.inode
           f == file[i]
<1>1. /\ s \in Session /\ sess \in [Procs -> Session] /\ i \in Inodes
      /\ file \in [Inodes -> Contents] /\ s.pc = "footed" /\ OnCourse(p)
  BY DEF IInv, TypeOK, Seated, CommitCounters, CountersFail, ProgressInv
<1>2. FooterCovers(f.body, s.n)
  BY <1>1, FootedCovers
<1>3. FooterCovers(f.body, 0)
  BY <1>1, NothingToCover DEF Contents
<1>4. /\ Target(s).body = f.body /\ Target(s).n = (IF HeaderDue(s) THEN 0 ELSE f.n)
      /\ WithCounters(s).body = f.body /\ WithCounters(s).n = s.n
  BY <1>1, TargetBody
<1>5. CASE CommitCounters(p)
  <2>1. file' = [file EXCEPT ![i] = WithCounters(s)]
    BY <1>5 DEF CommitCounters
  <2>2. /\ file'[i].body = f.body /\ file'[i].n = s.n
        /\ \A j \in Inodes \ {i} : file'[j] = file[j]
    BY <1>1, <1>4, <2>1
  <2>3. sess'[p].pc = "closing" /\ sess'[p].buf = "none"
    BY <1>1, <1>5 DEF CommitCounters, Become, Session
  <2> QED
    BY <1>2, <2>2, <2>3 DEF FilesCovered, FooterInv, FooterOnCourse
<1>6. CASE CountersFail(p)
  <2>1. /\ file' \in {file, [file EXCEPT ![i] = Target(s)]}
        /\ \E kept \in {s.buf, "none", "counters"} : sess'[p] = Raised(s, kept)
    BY <1>1, <1>6 DEF CountersFail, Become
  <2>2. /\ file'[i].body = f.body
        /\ \A j \in Inodes \ {i} : file'[j] = file[j]
        /\ file' = file \/ (file'[i] = Target(s))
    BY <1>1, <1>4, <2>1
  <2>3. PICK kept \in {s.buf, "none", "counters"} : sess'[p] = Raised(s, kept)
    BY <2>1
  <2>4. kept \in {"none", "header", "counters"} /\ kept \in Buffers
    BY <1>1 DEF OnCourse, Buffers
  <2>5. /\ sess'[p].pc = "closing" /\ sess'[p].buf = kept /\ sess'[p].inode = i
        /\ sess'[p].n = s.n
    BY <1>1, <2>3, <2>4, RaisedFacts
  <2>6. FilesCovered'
    <3>1. CASE file' = file
      BY <3>1 DEF FilesCovered, FooterInv
    <3>2. CASE file'[i] = Target(s)
      <4>1. CASE HeaderDue(s)
        BY <1>3, <1>4, <2>2, <3>2, <4>1 DEF FilesCovered, FooterInv
      <4>2. CASE ~HeaderDue(s)
        <5>1. Target(s) = f
          BY <4>2 DEF Target
        <5> QED
          BY <2>2, <3>2, <5>1 DEF FilesCovered, FooterInv
      <4> QED
        BY <4>1, <4>2
    <3> QED
      BY <2>2, <3>1, <3>2
  <2> QED
    BY <1>2, <2>2, <2>4, <2>5, <2>6 DEF FooterOnCourse
<1> QED
  BY <1>5, <1>6

\* What is left to flush keeps what it says past the unlock.
LEMMA UnlockFooter ==
  ASSUME IInv, FooterInv, NEW p \in Procs, Unlock(p)
  PROVE  FilesCovered' /\ FooterOnCourse(p)'
<1> DEFINE s == sess[p]
           u == [Leftover(s) EXCEPT !.pc = "unlocked"]
<1>1. s \in Session /\ sess \in [Procs -> Session] /\ FooterOnCourse(p) /\ file' = file
  BY DEF IInv, TypeOK, FooterInv, Unlock
<1>2. sess'[p] = u
  BY <1>1 DEF Unlock, Become
<1>3. /\ u.pc = "unlocked" /\ u.inode = s.inode /\ u.buf = s.buf
      /\ s.buf # "none" => /\ u.n = s.n /\ u.foot = s.foot
                           /\ u.acc = s.acc /\ u.stats = s.stats
  BY <1>1, LeftoverFacts
<1> HIDE DEF u
<1>4. FilesCovered'
  BY <1>1 DEF FilesCovered, FooterInv
<1>5. s.buf = "footer" => Gathered(u, file[s.inode].body)
  BY <1>1, <1>3, StillGathered DEF FooterOnCourse
<1> QED
  BY <1>1, <1>2, <1>3, <1>4, <1>5 DEF FooterOnCourse

\* A footer that is flushed late ends the file and covers its records; the
\* counters flushed late count what the last footer covers.
LEMMA FlushedCovers ==
  ASSUME IInv, FooterInv, NEW p \in Procs, sess[p].pc = "unlocked", NEW g, g = Flushed(sess[p])
  PROVE  g.hdr => FooterCovers(g.body, g.n)
<1> DEFINE s == sess[p]
           i == s.inode
           f == file[i]
           b == f.body
<1>1. /\ s \in Session /\ i \in Inodes /\ f \in Contents /\ OnCourse(p) /\ FooterOnCourse(p)
      /\ b \in Seq(Chunk) /\ f.n \in Nat /\ s.n \in Nat /\ s.foot \in Nat
      /\ s.acc \in Seq(Vals \cup {NoStat})
  BY DEF IInv, TypeOK, Seated, ProgressInv, FooterInv, Contents, Session
<1>2. CASE s.buf = "none"
  BY <1>1, <1>2 DEF Flushed, FooterInv
<1>3. CASE s.buf = "header"
  <2>1. FooterCovers(b, 0)
    BY <1>1, NothingToCover
  <2> QED
    BY <1>1, <1>3, <2>1, TargetBody DEF Flushed
<1>4. CASE s.buf = "footer"
  <2> DEFINE pos == s.foot - 1
             c == WriteAt(b, pos, Foot(s.acc))
  <2>1. f.n <= s.n /\ s.n <= Len(b) /\ s.n < s.foot
    BY <1>1, <1>4 DEF OnCourse
  <2>2. /\ Len(s.acc) = s.n /\ (\A k \in 1..s.n : EntryFor(s.acc[k], b[k]))
        /\ Len(b) <= s.foot
    BY <1>1, <1>4 DEF FooterOnCourse, Gathered
  <2>3. g.body = c /\ g.n = f.n
    BY <1>1, <1>4 DEF Flushed, Contents
  <2>4. Foot(s.acc) \in Chunk /\ Foot(s.acc).stats = s.acc /\ Foot(s.acc).kind = "foot"
    BY <1>1, ChunkTypes DEF Foot
  <2>5. pos \in Nat /\ pos + 1 = s.foot /\ Len(b) \in Nat
    BY <1>1, <2>1, LenProperties
  <2>6. /\ Len(c) = IF pos < Len(b) THEN Len(b) ELSE pos + 1
        /\ c[pos + 1] = Foot(s.acc)
        /\ \A k \in 1..Len(b) : k # pos + 1 => c[k] = b[k]
    <3> HIDE DEF b, pos
    <3> QED
      BY <1>1, <2>4, <2>5, WriteAtFacts
  <2> HIDE DEF c, pos, b, s, f
  <2>7. Len(c) = pos + 1
    BY <2>2, <2>5, <2>6
  <2>8. \A k \in 1..f.n : k \in 1..Len(b) /\ k # pos + 1 /\ k \in 1..s.n
    BY <1>1, <2>1, <2>5
  <2>9. \A k \in 1..f.n : EntryFor(s.acc[k], c[k])
    BY <2>2, <2>6, <2>8
  <2>10. FooterCovers(c, f.n)
    BY <2>1, <2>2, <2>4, <2>6, <2>7, <2>9 DEF FooterCovers
  <2> QED
    BY <2>3, <2>10
<1>5. CASE s.buf = "counters"
  <2>1. FooterCovers(b, s.n)
    BY <1>1, <1>5 DEF FooterOnCourse
  <2> QED
    BY <1>1, <1>5, <2>1, TargetBody DEF Flushed
<1> QED
  BY <1>1, <1>2, <1>3, <1>4, <1>5 DEF Session, Buffers

\* Closing the file leaves right footers, whether it flushes or drops.
LEMMA CloseFileFooter ==
  ASSUME IInv, FooterInv, IInv', NEW p \in Procs, CloseFile(p)
  PROVE  FilesCovered' /\ FooterOnCourse(p)'
<1> DEFINE s == sess[p]
           g == Flushed(s)
<1>1. /\ s \in Session /\ sess \in [Procs -> Session] /\ s.inode \in Inodes
      /\ file \in [Inodes -> Contents] /\ s.pc = "unlocked"
  BY DEF IInv, TypeOK, Seated, CloseFile
<1>2. sess'[p].pc \in {"closed", "idle"}
  BY <1>1 DEF CloseFile, Become, Session, Idle, NewSession
<1>3. g.hdr => FooterCovers(g.body, g.n)
  BY <1>1, FlushedCovers
<1>4. file' = file \/ file' = [file EXCEPT ![s.inode] = g]
  BY DEF CloseFile
<1> HIDE DEF g
<1>5. FilesCovered'
  BY <1>1, <1>3, <1>4 DEF FilesCovered, FooterInv
<1> QED
  BY <1>2, <1>5, BufferedLate DEF FooterOnCourse

\* A truncating open leaves no footer.
LEMMA TruncatedFooter ==
  ASSUME IInv, FooterInv, IInv', NEW p \in Procs, OpenCreate(p) \/ OpenRecreate(p)
  PROVE  FilesCovered' /\ FooterOnCourse(p)'
<1>1. sess \in [Procs -> Session] /\ file \in [Inodes -> Contents]
  BY DEF IInv, TypeOK
<1>2. PICK i \in Inodes, mode \in Modes, st \in BOOLEAN : TruncatingOpen(p, i, mode, st)
  <2>1. sess[p].stats \in BOOLEAN /\ {"create", "recreate"} \subseteq Modes
    BY <1>1 DEF Session, Modes
  <2> QED
    BY <2>1 DEF OpenCreate, OpenRecreate
<1>3. ~file'[i].hdr /\ \A j \in Inodes \ {i} : file'[j] = file[j]
  BY <1>1, <1>2 DEF TruncatingOpen, EmptyFile
<1>4. sess'[p].pc = "opened" /\ sess'[p].acc = <<>>
  BY <1>1, <1>2, NewSessionFields, NewSessionGathered DEF TruncatingOpen, Become
<1> QED
  BY <1>3, <1>4, BufferedLate DEF FilesCovered, FooterInv, FooterOnCourse

\* The other steps leave what the files hold alone, but for counters that are torn,
\* and no session that writes.
LEMMA QuietFooter ==
  ASSUME IInv, FooterInv, Disciplined, IInv', NEW p \in Procs, Step(p),
         ~OpenCreate(p), ~OpenRecreate(p), ~Lock(p), ~Load(p), ~LoadFails(p), ~Write(p),
         ~WriteFails(p), ~WriteFooter(p), ~FooterFails(p), ~CommitCounters(p),
         ~CountersFail(p), ~Unlock(p), ~CloseFile(p)
  PROVE  FilesCovered' /\ FooterOnCourse(p)'
<1> DEFINE s == sess[p]
           Away == sess'[p].pc \notin {"opened", "locked", "broken", "open", "footed"}
<1> USE DEF Become
<1>1. s \in Session /\ sess \in [Procs -> Session] /\ file \in [Inodes -> Contents]
  BY DEF IInv, TypeOK
<1>2. Away /\ sess'[p].buf \notin {"footer", "counters"} => FooterOnCourse(p)'
  BY DEF FooterOnCourse
<1>3. file' = file => FilesCovered'
  BY DEF FilesCovered, FooterInv
<1>4. Idle.pc = "idle" /\ Idle.buf = "none"
  BY DEF Idle, NewSession
<1>5. CASE CheckAbsent(p)
  BY <1>1, <1>2, <1>3, <1>5, NewSessionFields DEF CheckAbsent
<1>6. CASE OpenUpdate(p)
  <2>1. file' = file /\ sess'[p].pc = "opened" /\ sess'[p].acc = <<>> /\ sess'[p].buf = "none"
    BY <1>1, <1>6, NewSessionFields, NewSessionGathered DEF OpenUpdate
  <2> QED
    BY <1>3, <2>1 DEF FooterOnCourse
<1>7. CASE Contended(p) \/ Unlink(p) \/ Crash(p)
  BY <1>1, <1>2, <1>3, <1>4, <1>7 DEF Contended, Unlink, Crash
<1>8. CASE OpenInterrupted(p)
  <2>1. s.pc \in {"opened", "locked"}
    BY <1>8, InterruptAssumption DEF OpenInterrupted
  <2>2. s.acc = <<>>
    BY <2>1 DEF FooterInv, FooterOnCourse
  <2>3. file' = file /\ sess'[p].pc = "broken" /\ sess'[p].acc = s.acc
    BY <1>1, <1>8 DEF OpenInterrupted, Session
  <2> QED
    BY <1>3, <2>2, <2>3, BufferedLate DEF FooterOnCourse
<1>9. CASE CloseEmpty(p)
  <2>1. file' = file /\ sess'[p].pc = "closing" /\ sess'[p].buf = s.buf /\ ~s.hasHeader
    BY <1>1, <1>9 DEF CloseEmpty, Session
  <2>2. s.buf = "none"
    BY <2>1 DEF IInv, ProgressInv, OnCourse
  <2> QED
    BY <1>2, <1>3, <2>1, <2>2
<1>10. CASE CrashTearing(p)
  <2>1. s.inode \in Inodes /\ file[s.inode] \in Contents
    BY <1>1, <1>10 DEF CrashTearing, IInv, Seated
  <2>2. /\ file'[s.inode].n = file[s.inode].n /\ file'[s.inode].body = file[s.inode].body
        /\ file'[s.inode].hdr = file[s.inode].hdr
        /\ \A j \in Inodes \ {s.inode} : file'[j] = file[j]
    BY <1>1, <1>10, <2>1 DEF CrashTearing, Contents
  <2>3. sess'[p] = Idle
    BY <1>1, <1>10 DEF CrashTearing
  <2> QED
    BY <1>2, <1>4, <2>2, <2>3 DEF FilesCovered, FooterInv
<1> QED
  BY <1>5, <1>6, <1>7, <1>8, <1>9, <1>10
  DEF Step, Opening, Writing, Closing, Dying

\* Nobody's step disturbs what another session knows of its file: one at a time
\* works on it.
LEMMA OthersFooter ==
  ASSUME IInv, FooterInv, Disciplined, NEW p \in Procs, Step(p), NEW q \in Procs \ {p}
  PROVE  FooterOnCourse(q)'
<1>1. sess'[q] = sess[q] /\ FooterOnCourse(q) /\ OnCourse(q)
  BY Footprint DEF FooterInv, IInv, ProgressInv
<1>2. CASE file' = file
  BY <1>1, <1>2 DEF FooterOnCourse
<1>3. CASE ~Works(sess[q])
  <2>1. sess[q].pc \notin {"broken", "open", "footed"} /\ sess[q].buf = "none"
    BY <1>1, <1>3 DEF Works, Holding, OnCourse
  <2> QED
    BY <1>1, <2>1 DEF FooterOnCourse
<1>4. CASE /\ sess[p].inode \in Inodes /\ Works(sess[p]) /\ Works(sess[q])
           /\ \A i \in Inodes \ {sess[p].inode} : file'[i] = file[i]
  <2>1. sess[q].inode \in Inodes /\ sess[q].inode # sess[p].inode
    BY <1>4 DEF IInv, Seated, OneWorks, Works, Holding, FlushesLate
  <2>2. file'[sess[q].inode] = file[sess[q].inode]
    BY <1>4, <2>1
  <2> QED
    BY <1>1, <2>2 DEF FooterOnCourse
<1>5. sess[q].pc = "idle" => ~Works(sess[q])
  BY DEF Works, Holding, FlushesLate
<1> QED
  BY <1>2, <1>3, <1>4, <1>5, Footprint

\* FooterInv is kept, step by step.
LEMMA FooterStep ==
  ASSUME IInv, FooterInv, Disciplined, IInv', [Next]_vars
  PROVE  FooterInv'
<1>1. CASE UNCHANGED vars
  BY <1>1 DEF vars, FooterInv, FooterOnCourse
<1>2. ASSUME NEW p \in Procs, Step(p)
      PROVE  FooterInv'
  <2>1. FilesCovered' /\ FooterOnCourse(p)'
    <3>1. CASE Lock(p)
      <4>1. file' = file
        BY <3>1 DEF Lock
      <4> QED
        BY <3>1, <4>1, LockFooter DEF FilesCovered, FooterInv
    <3> QED
      BY <1>2, <3>1, LoadFooter, FailedLoadFooter, WriteFooterFacts, FailedWriteFooter,
         FooterFooter, FailedFooterFooter, CommitFooter, UnlockFooter, CloseFileFooter,
         TruncatedFooter, QuietFooter
  <2>2. \A q \in Procs \ {p} : FooterOnCourse(q)'
    BY <1>2, OthersFooter
  <2> QED
    BY <2>1, <2>2 DEF FooterInv, FilesCovered
<1> QED
  BY <1>1, <1>2 DEF Next

\* For disciplined callers a footer that a reader accepts speaks of the records
\* that are there, so that skipping a record by its min and max is sound: through
\* appends to files with and without statistics, failed loads and writes, footers
\* and counters that are flushed late, crashes, and counters that a crash tears and
\* a later session clears.
THEOREM FootersAreRight == ASSUME Disciplined PROVE Spec => []FooterMatchesRecords
<1>1. Init => FooterInv
  BY DEF Init, FooterInv, FooterOnCourse, EmptyFile, Idle, NewSession
<1>2. IInv /\ FooterInv /\ IInv' /\ [Next]_vars => FooterInv'
  BY FooterStep
<1>3. IInv /\ FooterInv => FooterMatchesRecords
  <2> SUFFICES ASSUME IInv, FooterInv, NEW i \in Inodes, Readable(file[i]), HasFooter(file[i])
               PROVE  LET f == file[i] IN
                      /\ Len(f.body[f.stats].stats) >= f.n
                      /\ \A k \in 1..f.n : f.body[f.stats].stats[k] \in {f.body[k].val, NoStat}
    BY DEF FooterMatchesRecords
  <2> DEFINE f == file[i]
  <2>1. f \in Contents /\ f.hdr
    BY DEF IInv, TypeOK, Readable, HeaderOK
  <2>2. f.body # <<>> /\ f.stats = Len(f.body) /\ f.body[Len(f.body)].kind = "foot"
    BY <2>1, EmptySeq DEF HasFooter
  <2>3. FooterCovers(f.body, f.n)
    BY <2>1 DEF FooterInv
  <2>4. f.n \in Nat /\ Len(f.body[f.stats].stats) \in Nat
    BY <2>1, <2>2, LastChunk, LenProperties DEF Contents
  <2> QED
    BY <2>2, <2>3, <2>4 DEF FooterCovers, EntryFor
<1> QED
  BY <1>1, <1>2, <1>3, Invariance, PTL DEF Spec
=============================================================================
