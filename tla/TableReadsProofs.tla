------------------------- MODULE TableReadsProofs --------------------------
(***************************************************************************)
(* Theorems about TableReads: who opens a reader closes it, the dataset's  *)
(* columns are in every child, its memo is never of other children than    *)
(* those it has, and a view selects the rows it should, also through a     *)
(* query that skips records.                                               *)
(***************************************************************************)
EXTENDS TableReadsInv, SequenceFacts

------------------------------------------------------------------------------
(* Handles for what append() opens *)

\* Of a finite set of numbers, one has just k below it, for every k smaller than
\* the set.
LEMMA Ranked ==
  ASSUME NEW n \in Nat, NEW S \in SUBSET (1..n), NEW k \in Nat, k < Cardinality(S)
  PROVE  \E x \in S : Cardinality({y \in S : y < x}) = k
<1> DEFINE Below(m) == {y \in S : y < m}
           Beyond == {m \in Nat : Cardinality(Below(m)) > k}
<1>1. IsFiniteSet(S) /\ \A y \in S : y \in Int /\ 1 <= y /\ y <= n
  <2>1. IsFiniteSet(1..n)
    BY FS_Interval
  <2>2. S \subseteq 1..n /\ \A y \in 1..n : y \in Int /\ 1 <= y /\ y <= n
    OBVIOUS
  <2> QED
    BY <2>1, <2>2, FS_Subset
<1>2. \A m \in Nat : IsFiniteSet(Below(m)) /\ Cardinality(Below(m)) \in Nat
  <2> TAKE m \in Nat
  <2>1. Below(m) \subseteq S
    OBVIOUS
  <2> HIDE DEF Below
  <2> QED
    BY <1>1, <2>1, FS_Subset, FS_CardinalityType
<1>3. n + 1 \in Beyond
  <2>1. Below(n + 1) = S
    <3>1. \A y \in S : y < n + 1
      BY <1>1
    <3> QED
      BY <3>1
  <2> HIDE DEF Below
  <2> QED
    BY <2>1
<1>4. PICK m \in Beyond : \A j \in Beyond : m <= j
  <2>1. Beyond \in SUBSET Nat /\ Beyond # {}
    BY <1>3
  <2> HIDE DEF Beyond
  <2> QED
    BY <2>1, LeastNumber
<1>5. m # 0
  <2>1. Below(0) = {}
    <3>1. \A y \in S : ~(y < 0)
      BY <1>1
    <3> QED
      BY <3>1
  <2>2. Cardinality(Below(0)) = 0
    BY <2>1, FS_EmptySet
  <2> HIDE DEF Below
  <2> QED
    BY <2>2
<1>6. m \in Nat /\ m - 1 \in Nat /\ m - 1 \notin Beyond
  <2>1. m \in Nat /\ m - 1 \in Nat /\ ~(m <= m - 1)
    BY <1>5
  <2> HIDE DEF Beyond
  <2> QED
    BY <1>4, <2>1
<1>7. Cardinality(Below(m - 1)) <= k /\ Cardinality(Below(m)) > k
  <2> HIDE DEF Below
  <2> QED
    BY <1>2, <1>4, <1>6
<1>8. m - 1 \in S
  <2>1. m - 1 \notin S => Below(m) = Below(m - 1)
    <3>1. \A y \in S : y # m - 1 => (y < m <=> y < m - 1)
      BY <1>1, <1>6
    <3> QED
      BY <3>1
  <2> HIDE DEF Below
  <2> QED
    BY <1>2, <1>6, <1>7, <2>1
<1>9. Cardinality(Below(m)) = Cardinality(Below(m - 1)) + 1
  <2>1. Below(m) = Below(m - 1) \cup {m - 1} /\ m - 1 \notin Below(m - 1)
    <3>1. (\A y \in S : y < m <=> y < m - 1 \/ y = m - 1) /\ ~(m - 1 < m - 1)
      BY <1>1, <1>6
    <3> QED
      BY <1>8, <3>1
  <2> HIDE DEF Below
  <2> QED
    BY <1>2, <1>6, <2>1, FS_AddElement
<1>10. Cardinality(Below(m - 1)) = k
  <2> HIDE DEF Below
  <2> QED
    BY <1>2, <1>6, <1>7, <1>9
<1> QED
  BY <1>8, <1>10

\* There are finitely many handles and they are numbers.
LEMMA HandlesAreNumbers ==
  /\ IsFiniteSet(Handles) /\ Cardinality(Handles) \in Nat
  /\ Handles = 1..Cardinality(Handles) /\ Handles \subseteq Nat
<1>1. IsFiniteSet(Handles) /\ Handles = 1..Cardinality(Handles)
  BY HandleAssumption
<1>2. Cardinality(Handles) \in Nat
  BY <1>1, FS_CardinalityType
<1>3. 1..Cardinality(Handles) \subseteq Nat
  BY <1>2
<1> QED
  BY <1>1, <1>2, <1>3

\* A source of append() is one or more paths and readers.
LEMMA SourceFacts ==
  ASSUME NEW sources \in Sources
  PROVE  /\ Len(sources) \in Nat \ {0} /\ DOMAIN sources = 1..Len(sources)
         /\ IsFiniteSet(DOMAIN sources)
         /\ Paths(sources) \subseteq DOMAIN sources
         /\ \A i \in Paths(sources) : sources[i].file \in Files \cup {Missing}
<1>1. /\ sources # << >>
      /\ sources \in Seq([kind : {"path"}, file : Files \cup {Missing}]
                           \cup [kind : {"reader"}, handle : Handles])
  BY SourcesAssumption
<1>2. Len(sources) \in Nat \ {0} /\ DOMAIN sources = 1..Len(sources)
  BY <1>1, LenProperties, EmptySeq
<1>3. IsFiniteSet(DOMAIN sources)
  BY <1>2, FS_Interval
<1>4. Paths(sources) \subseteq DOMAIN sources
  BY DEF Paths
<1>5. \A i \in Paths(sources) : sources[i].file \in Files \cup {Missing}
  <2> TAKE i \in Paths(sources)
  <2>1. i \in 1..Len(sources) /\ sources[i].kind = "path"
    BY <1>2 DEF Paths
  <2>2. sources[i] \in [kind : {"path"}, file : Files \cup {Missing}]
                         \cup [kind : {"reader"}, handle : Handles]
    BY <1>1, <2>1, ElementOfSeq
  <2> QED
    BY <2>1, <2>2
<1> QED
  BY <1>2, <1>3, <1>4, <1>5

\* Where there is room, each path is opened with a handle that is not in use.
LEMMA FreshHandles ==
  ASSUME NEW sources \in Sources, Cardinality(Paths(sources)) <= Cardinality(Unused),
         NEW i \in Paths(sources)
  PROVE  HandleOf(sources, i) \in Unused
<1> DEFINE E == {j \in Paths(sources) : j < i}
<1>1. Unused \subseteq 1..Cardinality(Handles) /\ IsFiniteSet(Unused) /\ Cardinality(Unused) \in Nat
  <2>1. Unused \subseteq Handles
    BY DEF Unused
  <2> QED
    BY <2>1, HandlesAreNumbers, FS_Subset, FS_CardinalityType
<1>2. IsFiniteSet(Paths(sources)) /\ Cardinality(Paths(sources)) \in Nat
  BY SourceFacts, FS_Subset, FS_CardinalityType
<1>3. E \subseteq Paths(sources) /\ i \notin E
  <2>1. i \in 1..Len(sources) /\ Len(sources) \in Nat
    BY SourceFacts
  <2>2. ~(i < i)
    BY <2>1
  <2> QED
    BY <2>2
<1> HIDE DEF E
<1>4. Cardinality(E) \in Nat /\ Cardinality(E) < Cardinality(Paths(sources))
  <2>1. IsFiniteSet(E) /\ Cardinality(E) <= Cardinality(Paths(sources))
        /\ (Cardinality(Paths(sources)) = Cardinality(E) => Paths(sources) = E)
    BY <1>2, <1>3, FS_Subset
  <2>2. Cardinality(E) \in Nat
    BY <2>1, FS_CardinalityType
  <2> QED
    BY <1>2, <1>3, <2>1, <2>2
<1>5. \E h \in Unused : Cardinality({g \in Unused : g < h}) = Cardinality(E)
  <2>1. Cardinality(E) < Cardinality(Unused)
    BY <1>1, <1>2, <1>4
  <2>2. Cardinality(Handles) \in Nat
    BY HandlesAreNumbers
  <2>3. Unused \in SUBSET (1..Cardinality(Handles)) /\ Cardinality(E) \in Nat
    BY <1>1, <1>4
  <2> QED
    BY <2>1, <2>2, <2>3, Ranked
<1> QED
  BY <1>5 DEF HandleOf, E

------------------------------------------------------------------------------
(* What append() does *)

FreshOf(sources) == {HandleOf(sources, i) : i \in Opened(sources)}
FileOf(sources, i) == IF i \in Paths(sources) THEN sources[i].file ELSE file[sources[i].handle]
NewFiles(sources) == {FileOf(sources, i) : i \in DOMAIN sources}
AllFiles(sources) == NewFiles(sources) \cup {file[children[k]] : k \in DOMAIN children}

\* It leaves all as it was but for what it closes again,
GivenUp(sources) ==
  /\ FreshOf(sources) \subseteq Unused
  /\ live' = live \ FreshOf(sources)
  /\ UNCHANGED << file, mine, dataset, view >>

\* or has one child more for each source.
Grown(sources) ==
  /\ ~ closed /\ closed' = closed /\ mine' = mine /\ mode' = mode
  /\ NewFiles(sources) \subseteq Files
  /\ FreshOf(sources) \subseteq Unused
  /\ file' \in [Handles -> Files \cup {None}]
  /\ \A h \in Handles \ FreshOf(sources) : file'[h] = file[h]
  /\ \A h \in FreshOf(sources) : file'[h] \in NewFiles(sources)
  /\ live' = live \cup FreshOf(sources)
  /\ children' \in Seq(Handles) /\ children' # << >>
  /\ DOMAIN children \subseteq DOMAIN children' /\ owned' \in Seq(BOOLEAN)
  /\ DOMAIN owned' = DOMAIN children'
  /\ \A k \in DOMAIN children : children'[k] = children[k] /\ owned'[k] = owned[k]
  /\ \A k \in DOMAIN children' \ DOMAIN children :
       /\ file'[children'[k]] \in NewFiles(sources)
       /\ IF owned'[k] THEN children'[k] \in FreshOf(sources) ELSE children'[k] \in live \cap mine
  /\ \A h \in FreshOf(sources) : \E k \in DOMAIN children' : children'[k] = h /\ owned'[k]
  /\ IF mode = "drop"
     THEN schema' = CommonSchema(AllFiles(sources)) /\ schema' # {}
     ELSE /\ Agrees(NewFiles(sources))
          /\ schema' = IF schema = {} THEN SchemaOf(FileOf(sources, 1)) ELSE schema
  /\ memo' = EmptyTable /\ grid' = UnknownGrid

LEMMA AppendFacts ==
  ASSUME TypeInv, OwnersInv, NEW sources \in Sources, AppendSources(sources)
  PROVE  GivenUp(sources) \/ Grown(sources)
<1> DEFINE added == [i \in DOMAIN sources |-> Child(sources, i)]
           fails == \E i \in DOMAIN sources : FailsAt(sources, i)
           refused == IF mode = "drop" THEN CommonSchema(AllFiles(sources)) = {}
                      ELSE ~ Agrees(NewFiles(sources))
<1>1. /\ ~ closed
      /\ Cardinality(Paths(sources)) <= Cardinality(Unused)
      /\ \A i \in DOMAIN sources \ Paths(sources) : sources[i].handle \in live \cap mine
  BY DEF AppendSources
<1>2. \A i \in Paths(sources) : HandleOf(sources, i) \in Unused
  BY <1>1, FreshHandles
<1>3. FreshOf(sources) \subseteq Unused
  BY <1>2 DEF FreshOf, Opened
<1>4. CASE fails \/ refused
  BY <1>3, <1>4 DEF AppendSources, GivenUp, CloseAll, FreshOf, FileOf, NewFiles, AllFiles
<1>5. CASE ~(fails \/ refused)
  <2>1. /\ file' = [h \in Handles |->
                      IF h \in FreshOf(sources)
                      THEN FileOf(sources, CHOOSE i \in Opened(sources) : HandleOf(sources, i) = h)
                      ELSE file[h]]
        /\ live' = live \cup FreshOf(sources)
        /\ children' = children \o added
        /\ owned' = owned \o [i \in DOMAIN sources |-> i \in Paths(sources)]
        /\ schema' = IF mode = "drop" THEN CommonSchema(AllFiles(sources))
                     ELSE IF schema = {} THEN SchemaOf(FileOf(sources, 1)) ELSE schema
        /\ memo' = EmptyTable /\ grid' = UnknownGrid
        /\ UNCHANGED << mine, mode, closed, view >>
    BY <1>5 DEF AppendSources, RebuildOffsets, FreshOf, FileOf, NewFiles, AllFiles
  <2>2. Opened(sources) = Paths(sources)
    BY <1>5, SourceFacts DEF Opened, Paths
  <2>3. \A i \in DOMAIN sources : FileOf(sources, i) \in Files
    <3> TAKE i \in DOMAIN sources
    <3>1. CASE i \in Paths(sources)
      <4>1. ~FailsAt(sources, i)
        BY <1>5
      <4>2. sources[i].file # Missing
        BY <3>1, <4>1 DEF FailsAt
      <4> QED
        BY <3>1, <4>2, SourceFacts DEF FileOf
    <3>2. CASE i \notin Paths(sources)
      <4>1. sources[i].handle \in live \cap mine
        BY <1>1, <3>2
      <4>2. sources[i].handle \in Handles /\ file[sources[i].handle] # None
        BY <4>1 DEF TypeInv, OwnersInv, InUse
      <4> QED
        BY <3>2, <4>2 DEF FileOf, TypeInv
    <3> QED
      BY <3>1, <3>2
  <2>4. NewFiles(sources) \subseteq Files
    BY <2>3 DEF NewFiles
  <2>5. \A h \in FreshOf(sources) : h \in Handles /\ file'[h] \in NewFiles(sources)
    <3> TAKE h \in FreshOf(sources)
    <3>1. h \in Handles
      BY <1>3 DEF Unused
    <3>2. \E i \in Opened(sources) : HandleOf(sources, i) = h
      BY DEF FreshOf
    <3>3. PICK i \in Opened(sources) : file'[h] = FileOf(sources, i)
      BY <2>1, <3>1, <3>2
    <3> QED
      BY <3>1, <3>3, <2>2, SourceFacts DEF NewFiles
  <2>6. \A h \in Handles \ FreshOf(sources) : file'[h] = file[h]
    BY <2>1
  <2>7. file' \in [Handles -> Files \cup {None}]
    <3>1. \A h \in Handles : file'[h] \in Files \cup {None}
      BY <2>4, <2>5, <2>6 DEF TypeInv
    <3> QED
      BY <2>1, <3>1
  <2>8. \A i \in DOMAIN sources : added[i] \in Handles
    <3>1. \A i \in DOMAIN sources : i \in Paths(sources) => Child(sources, i) \in Handles
      BY <1>2 DEF Child, Unused
    <3>2. \A i \in DOMAIN sources : i \notin Paths(sources) => Child(sources, i) \in Handles
      BY <1>1 DEF Child, TypeInv
    <3> QED
      BY <3>1, <3>2
  <2>9. added \in Seq(Handles) /\ Len(added) = Len(sources)
    <3>1. added \in [1..Len(sources) -> Handles] /\ Len(sources) \in Nat
      BY <2>8, SourceFacts
    <3> HIDE DEF added
    <3> QED
      BY <3>1, SeqDef, LenProperties
  <2>10. /\ children \in Seq(Handles) /\ Len(children) \in Nat /\ DOMAIN children = 1..Len(children)
         /\ children' \in Seq(Handles) /\ Len(children') = Len(children) + Len(sources)
         /\ DOMAIN children' = 1..(Len(children) + Len(sources))
         /\ \A k \in 1..Len(children) : children'[k] = children[k]
         /\ \A i \in 1..Len(sources) : children'[Len(children) + i] = Child(sources, i)
    <3>1. children \in Seq(Handles)
      BY DEF TypeInv
    <3>2. \A i \in 1..Len(sources) : added[i] = Child(sources, i)
      BY SourceFacts
    <3> HIDE DEF added
    <3>3. Len(children) \in Nat /\ Len(sources) \in Nat /\ DOMAIN children = 1..Len(children)
      BY <3>1, SourceFacts, LenProperties
    <3>4. children \o added \in Seq(Handles) /\ Len(children \o added) = Len(children) + Len(sources)
          /\ \A k \in 1..(Len(children) + Len(sources)) :
               (children \o added)[k] = IF k <= Len(children) THEN children[k] ELSE added[k - Len(children)]
      <4>1. /\ children \o added \in Seq(Handles)
            /\ Len(children \o added) = Len(children) + Len(added)
            /\ \A k \in 1..(Len(children) + Len(added)) :
                 (children \o added)[k] = IF k <= Len(children) THEN children[k] ELSE added[k - Len(children)]
        BY <3>1, <2>9, ConcatProperties
      <4> QED
        BY <4>1, <3>1, <2>9, <3>3
    <3>5. DOMAIN (children \o added) = 1..(Len(children) + Len(sources))
      BY <3>4, LenProperties
    <3> QED
      BY <2>1, <3>1, <3>2, <3>3, <3>4, <3>5
  <2>11. /\ owned' \in Seq(BOOLEAN) /\ DOMAIN owned' = DOMAIN children'
         /\ \A k \in 1..Len(children) : owned'[k] = owned[k]
         /\ \A i \in 1..Len(sources) : owned'[Len(children) + i] = (i \in Paths(sources))
    <3> DEFINE flags == [i \in DOMAIN sources |-> i \in Paths(sources)]
    <3>1. owned \in Seq(BOOLEAN) /\ Len(owned) = Len(children)
      <4>1. owned \in Seq(BOOLEAN) /\ DOMAIN owned = 1..Len(children)
        BY <2>10 DEF TypeInv
      <4> QED
        BY <4>1, <2>10, LenProperties
    <3>2. flags \in [1..Len(sources) -> BOOLEAN] /\ Len(sources) \in Nat
          /\ \A i \in 1..Len(sources) : flags[i] = (i \in Paths(sources))
      BY SourceFacts
    <3>3. owned' = owned \o flags
      BY <2>1
    <3> HIDE DEF flags
    <3>4. flags \in Seq(BOOLEAN) /\ Len(flags) = Len(sources)
      BY <3>2, SeqDef, LenProperties
    <3>5. owned \o flags \in Seq(BOOLEAN) /\ Len(owned \o flags) = Len(children) + Len(sources)
          /\ \A k \in 1..(Len(children) + Len(sources)) :
               (owned \o flags)[k] = IF k <= Len(children) THEN owned[k] ELSE flags[k - Len(children)]
      <4>1. /\ owned \o flags \in Seq(BOOLEAN)
            /\ Len(owned \o flags) = Len(owned) + Len(flags)
            /\ \A k \in 1..(Len(owned) + Len(flags)) :
                 (owned \o flags)[k] = IF k <= Len(owned) THEN owned[k] ELSE flags[k - Len(owned)]
        BY <3>1, <3>4, ConcatProperties
      <4> QED
        BY <4>1, <3>1, <3>4, <2>10, <3>2
    <3>6. DOMAIN (owned \o flags) = 1..(Len(children) + Len(sources))
      BY <3>5, LenProperties
    <3>7. \A i \in 1..Len(sources) : Len(children) + i \in 1..(Len(children) + Len(sources))
            /\ ~(Len(children) + i <= Len(children)) /\ (Len(children) + i) - Len(children) = i
      BY <2>10, <3>2
    <3>8. \A i \in 1..Len(sources) : (owned \o flags)[Len(children) + i] = flags[i]
      BY <3>5, <3>7
    <3>9. \A k \in 1..Len(children) : k \in 1..(Len(children) + Len(sources)) /\ k <= Len(children)
      BY <2>10, <3>2
    <3>10. \A k \in 1..Len(children) : owned'[k] = owned[k]
      BY <3>3, <3>5, <3>9
    <3>11. \A i \in 1..Len(sources) : owned'[Len(children) + i] = (i \in Paths(sources))
      BY <3>2, <3>3, <3>8
    <3> QED
      BY <2>10, <3>3, <3>5, <3>6, <3>10, <3>11
  <2>12. /\ \A k \in DOMAIN children' \ DOMAIN children :
              \E i \in 1..Len(sources) : k = Len(children) + i
         /\ \A i \in 1..Len(sources) : Len(children) + i \in DOMAIN children'
         /\ DOMAIN children \subseteq DOMAIN children'
    <3>1. Len(children) \in Nat /\ Len(sources) \in Nat
      BY <2>10, SourceFacts
    <3>2. \A k \in 1..(Len(children) + Len(sources)) :
            k \notin 1..Len(children) => k - Len(children) \in 1..Len(sources) /\ k = Len(children) + (k - Len(children))
      BY <3>1
    <3>3. \A i \in 1..Len(sources) : Len(children) + i \in 1..(Len(children) + Len(sources))
      BY <3>1
    <3>4. 1..Len(children) \subseteq 1..(Len(children) + Len(sources))
      BY <3>1
    <3> QED
      BY <2>10, <3>2, <3>3, <3>4
  <2>13. children' # << >>
    <3>1. 1 \in 1..Len(sources)
      BY SourceFacts
    <3>2. DOMAIN children' # {}
      BY <3>1, <2>12
    <3> QED
      BY <3>2, <2>10, EmptySeq, LenProperties
  <2>14. \A k \in DOMAIN children' \ DOMAIN children :
           /\ file'[children'[k]] \in NewFiles(sources)
           /\ IF owned'[k] THEN children'[k] \in FreshOf(sources) ELSE children'[k] \in live \cap mine
    <3> TAKE k \in DOMAIN children' \ DOMAIN children
    <3>1. PICK i \in 1..Len(sources) : k = Len(children) + i
      BY <2>12
    <3>2. children'[k] = Child(sources, i) /\ owned'[k] = (i \in Paths(sources)) /\ i \in DOMAIN sources
      BY <3>1, <2>10, <2>11, SourceFacts
    <3>3. CASE i \in Paths(sources)
      <4>1. children'[k] \in FreshOf(sources)
        BY <3>2, <3>3, <2>2 DEF Child, FreshOf
      <4> QED
        BY <4>1, <3>2, <3>3, <2>5
    <3>4. CASE i \notin Paths(sources)
      <4>1. children'[k] = sources[i].handle /\ children'[k] \in live \cap mine
        BY <3>2, <3>4, <1>1 DEF Child
      <4>2. children'[k] \in Handles /\ file[children'[k]] # None
        BY <4>1 DEF TypeInv, OwnersInv, InUse
      <4>3. file'[children'[k]] = file[children'[k]]
        BY <4>2, <1>3, <2>6 DEF Unused
      <4>4. file[sources[i].handle] \in NewFiles(sources)
        BY <3>2, <3>4 DEF NewFiles, FileOf
      <4> QED
        BY <4>1, <4>3, <4>4, <3>2, <3>4
    <3> QED
      BY <3>3, <3>4
  <2>15. \A h \in FreshOf(sources) : \E k \in DOMAIN children' : children'[k] = h /\ owned'[k]
    <3> TAKE h \in FreshOf(sources)
    <3>1. PICK i \in Paths(sources) : HandleOf(sources, i) = h
      BY <2>2 DEF FreshOf
    <3>2. i \in 1..Len(sources) /\ Child(sources, i) = h
      BY <3>1, SourceFacts DEF Child
    <3> QED
      BY <3>1, <3>2, <2>10, <2>11, <2>12
  <2>16. IF mode = "drop"
         THEN schema' = CommonSchema(AllFiles(sources)) /\ schema' # {}
         ELSE /\ Agrees(NewFiles(sources))
              /\ schema' = IF schema = {} THEN SchemaOf(FileOf(sources, 1)) ELSE schema
    BY <1>5, <2>1
  <2> HIDE DEF added, fails, refused
  <2>17. \A k \in DOMAIN children : children'[k] = children[k] /\ owned'[k] = owned[k]
    BY <2>10, <2>11
  <2>18. /\ ~ closed /\ closed' = closed /\ mine' = mine /\ mode' = mode
         /\ live' = live \cup FreshOf(sources)
         /\ memo' = EmptyTable /\ grid' = UnknownGrid
    BY <1>1, <2>1
  <2> QED
    BY <1>3, <2>4, <2>5, <2>6, <2>7, <2>10, <2>11, <2>12, <2>13, <2>14, <2>15, <2>16, <2>17, <2>18 DEF Grown
<1> QED
  BY <1>4, <1>5

------------------------------------------------------------------------------
(* Types and owners *)

\* A handle that is not in use is nobody's.
LEMMA UnusedIsFree ==
  ASSUME OwnersInv, NEW h \in Unused
  PROVE  h \notin live /\ h \notin mine /\ h \notin ToSet(children)
  BY DEF OwnersInv, InUse, Unused

\* The children are those at their places.
LEMMA ChildrenAre ==
  ASSUME NEW q
  PROVE  \A h : h \in ToSet(q) <=> \E k \in DOMAIN q : q[k] = h
  BY DEF ToSet

LEMMA GrownOwners ==
  ASSUME TypeInv, OwnersInv, NEW sources \in Sources, Grown(sources)
  PROVE  TypeInv' /\ OwnersInv'
<1> DEFINE fresh == FreshOf(sources)
<1>1. fresh \subseteq Unused /\ fresh \subseteq Handles
  BY DEF Grown, Unused
<1>2. TypeInv'
  BY <1>1 DEF TypeInv, Grown
<1>3. \A h \in fresh : h \notin live /\ h \notin mine /\ h \notin ToSet(children)
                       /\ file'[h] \in Files
  BY <1>1, UnusedIsFree DEF Grown
<1>4. \A h \in InUse : file'[h] = file[h] /\ file[h] # None
  <2> TAKE h \in InUse
  <2>1. h \in Handles
    BY ChildrenAre, ElementOfSeq, LenProperties DEF InUse, TypeInv
  <2>2. h \notin fresh
    BY <1>3 DEF InUse
  <2> QED
    BY <2>1, <2>2 DEF Grown, OwnersInv
<1>5. \A k \in DOMAIN children' : file'[children'[k]] # None
  <2>1. \A k \in DOMAIN children : file'[children'[k]] # None
    BY <1>4, ChildrenAre DEF Grown, InUse
  <2>2. \A k \in DOMAIN children' \ DOMAIN children : file'[children'[k]] # None
    BY FilesAssumption DEF Grown
  <2> QED
    BY <2>1, <2>2
<1>6. \A h \in InUse' : file'[h] # None
  <2>1. \A h \in live' \cup mine' : file'[h] # None
    BY <1>3, <1>4, FilesAssumption DEF Grown, InUse
  <2>2. \A h \in ToSet(children') : file'[h] # None
    BY <1>5, ChildrenAre
  <2> QED
    BY <2>1, <2>2 DEF InUse
<1>7. \A k \in DOMAIN children' : owned'[k] => children'[k] \notin mine'
  <2>1. \A k \in DOMAIN children : owned'[k] => children'[k] \notin mine'
    BY DEF Grown, OwnersInv
  <2>2. \A k \in DOMAIN children' \ DOMAIN children : owned'[k] => children'[k] \notin mine'
    BY <1>3 DEF Grown
  <2> QED
    BY <2>1, <2>2
<1>8. \A h \in live' \ mine' :
        ~ closed' /\ \E k \in DOMAIN children' : children'[k] = h /\ owned'[k]
  <2> TAKE h \in live' \ mine'
  <2>1. CASE h \in fresh
    BY <2>1 DEF Grown
  <2>2. CASE h \notin fresh
    <3>1. h \in live \ mine
      BY <2>2 DEF Grown
    <3>2. PICK k \in DOMAIN children : children[k] = h /\ owned[k]
      BY <3>1 DEF OwnersInv
    <3> QED
      BY <3>2 DEF Grown
  <2> QED
    BY <2>1, <2>2
<1> QED
  BY <1>2, <1>6, <1>7, <1>8 DEF OwnersInv

\* Whoever is closed: the dataset, or a reader of the user's, or what append() gave up.
Shrunk == /\ live' \subseteq live
          /\ UNCHANGED << file, mine, mode, children, owned, schema, offsets, memo, grid >>

LEMMA ShrunkOwners ==
  ASSUME TypeInv, OwnersInv, Shrunk, closed' # closed => live' \subseteq mine
  PROVE  TypeInv' /\ OwnersInv'
<1>1. TypeInv'
  BY DEF TypeInv, Shrunk
<1>2. \A h \in InUse' : file'[h] # None
  BY DEF OwnersInv, InUse, Shrunk
<1>3. \A h \in live' \ mine' :
        ~ closed' /\ \E k \in DOMAIN children' : children'[k] = h /\ owned'[k]
  BY DEF OwnersInv, Shrunk
<1> QED
  BY <1>1, <1>2, <1>3 DEF OwnersInv, Shrunk

LEMMA GivenUpShrinks ==
  ASSUME NEW sources, GivenUp(sources)
  PROVE  Shrunk /\ closed' = closed
  BY DEF GivenUp, Shrunk, dataset

LEMMA CloseReaderShrinks ==
  ASSUME NEW h, CloseReader(h)
  PROVE  Shrunk /\ closed' = closed
  BY DEF CloseReader, Shrunk, dataset

\* The dataset closes all readers that are not the user's.
LEMMA CloseDatasetShrinks ==
  ASSUME TypeInv, OwnersInv, CloseDataset
  PROVE  Shrunk /\ live' \subseteq mine /\ live \cap mine \subseteq live'
<1>1. live' = live \ {children[k] : k \in {j \in DOMAIN children : owned[j]}}
  BY DEF CloseDataset
<1>2. \A h \in live \ mine : \E k \in DOMAIN children : children[k] = h /\ owned[k]
  BY DEF OwnersInv
<1>3. \A k \in DOMAIN children : owned[k] => children[k] \notin mine
  BY DEF OwnersInv
<1>4. Shrunk
  BY <1>1 DEF CloseDataset, Shrunk
<1> QED
  BY <1>1, <1>2, <1>3, <1>4

\* The user's readers get handles that were not in use.
Opening(f) ==
  \E h \in Unused :
    /\ f \in Files
    /\ children = << >>
    /\ file' = [file EXCEPT ![h] = f]
    /\ live' = live \cup {h} /\ mine' = mine \cup {h}
    /\ UNCHANGED dataset

LEMMA OpenReaderOpens ==
  ASSUME NEW f \in Files, OpenReader(f)
  PROVE  Opening(f)
<1>1. Smallest(Unused) \in Unused
  <2>1. Unused \in SUBSET Nat /\ Unused # {}
    BY HandlesAreNumbers DEF Unused, OpenReader
  <2>2. \E x \in Unused : \A y \in Unused : x <= y
    BY <2>1, LeastNumber
  <2> QED
    BY <2>2 DEF Smallest
<1> QED
  BY <1>1 DEF OpenReader, Opening

LEMMA OpeningOwners ==
  ASSUME TypeInv, OwnersInv, NEW f, Opening(f)
  PROVE  TypeInv' /\ OwnersInv'
<1>1. PICK h \in Unused : /\ f \in Files
                          /\ file' = [file EXCEPT ![h] = f]
                          /\ live' = live \cup {h} /\ mine' = mine \cup {h}
                          /\ UNCHANGED dataset
  BY DEF Opening
<1>2. h \in Handles
  BY DEF Unused
<1>3. TypeInv'
  BY <1>1, <1>2 DEF TypeInv, dataset
<1>4. h \notin live /\ h \notin mine /\ h \notin ToSet(children)
  BY UnusedIsFree
<1>5. \A g \in InUse' : file'[g] # None
  <2>1. \A g \in InUse' : g \in InUse \/ g = h
    BY <1>1 DEF InUse, dataset
  <2>2. \A g \in InUse : g \in Handles
    BY ChildrenAre, ElementOfSeq, LenProperties DEF InUse, TypeInv
  <2>3. file' \in [Handles -> Files \cup {None}] /\ file'[h] = f
        /\ \A g \in Handles : g # h => file'[g] = file[g]
    BY <1>1, <1>2 DEF TypeInv
  <2>4. \A g \in InUse : file[g] # None
    BY DEF OwnersInv
  <2> QED
    BY <1>1, <2>1, <2>2, <2>3, <2>4, FilesAssumption
<1>6. \A k \in DOMAIN children' : owned'[k] => children'[k] \notin mine'
  BY <1>1, <1>4, ChildrenAre DEF OwnersInv, dataset
<1>7. \A g \in live' \ mine' :
        ~ closed' /\ \E k \in DOMAIN children' : children'[k] = g /\ owned'[k]
  BY <1>1 DEF OwnersInv, dataset
<1> QED
  BY <1>3, <1>5, <1>6, <1>7 DEF OwnersInv

\* A view that is made, narrowed or read without a copy, or a query, leaves the
\* readers and the dataset alone; a read may leave tables.
Quiet == UNCHANGED << file, live, mine, dataset >>
Tabled(cs, env) ==
  /\ MayRead(cs) /\ LeavesTables(cs, env)
  /\ UNCHANGED << file, live, mine, mode, children, owned, schema, offsets, closed, view >>

LEMMA Steps ==
  ASSUME TypeInv, OwnersInv, [Next]_vars
  PROVE  \/ \E f \in Files : Opening(f)
         \/ \E sources \in Sources : Grown(sources)
         \/ \E sources \in Sources : GivenUp(sources)
         \/ CloseDataset
         \/ \E h \in Handles : CloseReader(h)
         \/ Quiet
         \/ \E cs \in Requests, env \in Environments : Tabled(cs, env)
<1>1. ASSUME NEW f \in Files, OpenReader(f) PROVE Opening(f)
  BY <1>1, OpenReaderOpens
<1>2. ASSUME NEW sources \in Sources, AppendSources(sources)
      PROVE  GivenUp(sources) \/ Grown(sources)
  BY <1>2, AppendFacts
<1>3. ASSUME NEW key, Select(key) PROVE Quiet
  BY <1>3 DEF Select, Quiet
<1>4. ASSUME NEW key, Narrow(key) PROVE Quiet
  BY <1>4 DEF Narrow, Quiet
<1>5. HeadOfView \/ TailOfView \/ Drop => Quiet
  BY DEF HeadOfView, TailOfView, Drop, Quiet
<1>6. ASSUME NEW h, NEW comparison, Query(h, comparison) PROVE Quiet
  BY <1>6 DEF Query, Quiet
<1>7. ASSUME NEW cs, NEW env, Read(cs, env) \/ ReadRecarray(cs, env) PROVE Tabled(cs, env)
  BY <1>7 DEF Read, ReadRecarray, Tabled
<1>8. ASSUME NEW cs, ReadView(cs) PROVE Quiet
  BY <1>8 DEF ReadView, Quiet
<1>9. UNCHANGED vars => Quiet
  BY DEF vars, Quiet, dataset
<1> QED
  BY <1>1, <1>2, <1>3, <1>4, <1>5, <1>6, <1>7, <1>8, <1>9 DEF Next

LEMMA OwnersStep ==
  ASSUME TypeInv, OwnersInv, [Next]_vars
  PROVE  TypeInv' /\ OwnersInv'
<1>1. ASSUME NEW f \in Files, Opening(f) PROVE TypeInv' /\ OwnersInv'
  BY <1>1, OpeningOwners
<1>2. ASSUME NEW sources \in Sources, Grown(sources) PROVE TypeInv' /\ OwnersInv'
  BY <1>2, GrownOwners
<1>3. ASSUME Shrunk, closed' = closed PROVE TypeInv' /\ OwnersInv'
  BY <1>3, ShrunkOwners
<1>4. ASSUME CloseDataset PROVE TypeInv' /\ OwnersInv'
  BY <1>4, CloseDatasetShrinks, ShrunkOwners
<1>5. ASSUME NEW cs, NEW env, Tabled(cs, env) PROVE TypeInv' /\ OwnersInv'
  BY <1>5 DEF Tabled, TypeInv, OwnersInv, InUse
<1>6. ASSUME Quiet PROVE TypeInv' /\ OwnersInv'
  BY <1>6 DEF Quiet, dataset, TypeInv, OwnersInv, InUse
<1> QED
  BY <1>1, <1>2, <1>3, <1>4, <1>5, <1>6, Steps, GivenUpShrinks, CloseReaderShrinks

------------------------------------------------------------------------------
(* The schema *)

\* Files that agree have one schema, that of the dataset if it has one.
LEMMA OneSchema ==
  ASSUME NEW files, IsFiniteSet(files), Agrees(files), NEW f \in files
  PROVE  /\ \A g \in files : SchemaOf(g) = SchemaOf(f)
         /\ schema # {} => SchemaOf(f) = schema
<1> DEFINE S == SchemasOf(files) \cup (IF schema = {} THEN {} ELSE {schema})
<1>1. Cardinality(S) <= 1
  BY DEF Agrees
<1>2. IsFiniteSet(SchemasOf(files))
  <2> DEFINE sch == [g \in files |-> SchemaOf(g)]
  <2>1. sch \in Surjection(files, SchemasOf(files))
    BY DEF Surjection, SchemasOf
  <2> QED
    BY <2>1, FS_Surjection
<1>3. IsFiniteSet(S)
  BY <1>2, FS_AddElement
<1>4. \A s, t \in S : s = t
  <2> HIDE DEF S
  <2> TAKE s \in S, t \in S
  <2>1. {s, t} \subseteq S
    OBVIOUS
  <2>2. Cardinality({s, t}) <= Cardinality(S) /\ Cardinality(S) \in Nat
        /\ Cardinality({s, t}) \in Nat /\ IsFiniteSet({s, t})
    BY <1>3, <2>1, FS_Subset, FS_CardinalityType
  <2>3. Cardinality({s, t}) = 0 \/ Cardinality({s, t}) = 1
    BY <1>1, <2>2
  <2>4. {s, t} # {}
    OBVIOUS
  <2>5. Cardinality({s, t}) = 1
    BY <2>2, <2>3, <2>4, FS_EmptySet
  <2>6. \E x : {s, t} = {x}
    BY <2>2, <2>5, FS_Singleton
  <2> QED
    BY <2>6
<1>5. \A g \in files : SchemaOf(g) \in S
  BY DEF SchemasOf
<1>6. schema # {} => schema \in S
  OBVIOUS
<1> HIDE DEF S
<1> QED
  BY <1>4, <1>5, <1>6

\* What all have in common each has.
LEMMA InCommon ==
  ASSUME NEW files, NEW x \in CommonSchema(files), NEW f \in files
  PROVE  x \in SchemaOf(f)
  BY DEF CommonSchema, SchemasOf

LEMMA GrownSchema ==
  ASSUME TypeInv, OwnersInv, SchemaInv, NEW sources \in Sources, Grown(sources)
  PROVE  SchemaInv'
<1> DEFINE new == NewFiles(sources)
<1>1. \A k \in DOMAIN children : file'[children'[k]] = file[children[k]]
  <2> TAKE k \in DOMAIN children
  <2>1. children[k] \in Handles /\ children[k] \in ToSet(children) /\ children'[k] = children[k]
    BY ElementOfSeq, LenProperties, ChildrenAre DEF TypeInv, Grown
  <2>2. children[k] \notin FreshOf(sources)
    BY <2>1, UnusedIsFree DEF Grown
  <2> QED
    BY <2>1, <2>2 DEF Grown
<1>2. \A k \in DOMAIN children' \ DOMAIN children : file'[children'[k]] \in new
  BY DEF Grown
<1>3. CASE mode = "drop"
  <2>1. schema' = CommonSchema(AllFiles(sources)) /\ schema' # {}
    BY <1>3 DEF Grown
  <2>2. \A k \in DOMAIN children' : file'[children'[k]] \in AllFiles(sources)
    BY <1>1, <1>2 DEF AllFiles
  <2>3. SchemaInEveryChild'
    BY <2>1, <2>2, InCommon DEF SchemaInEveryChild, SchemaOf
  <2> QED
    BY <2>1, <2>3 DEF SchemaInv, Grown
<1>4. CASE mode # "drop"
  <2>1. Agrees(new) /\ schema' = IF schema = {} THEN SchemaOf(FileOf(sources, 1)) ELSE schema
    BY <1>4 DEF Grown
  <2>2. FileOf(sources, 1) \in new
    BY SourceFacts DEF NewFiles
  <2>3. IsFiniteSet(new)
    <3> DEFINE of == [i \in DOMAIN sources |-> FileOf(sources, i)]
    <3>1. of \in Surjection(DOMAIN sources, new)
      BY DEF Surjection, NewFiles
    <3> QED
      BY <3>1, SourceFacts, FS_Surjection
  <2>4. \A f \in new : SchemaOf(f) = schema'
    <3> HIDE DEF new
    <3> QED
      BY <2>1, <2>2, <2>3, OneSchema
  <2>5. schema' # {}
    BY <2>1, <2>2, FilesAssumption DEF Grown, SchemaOf
  <2>6. \A k \in DOMAIN children' : \A x \in schema' : x \in SchemaOf(file'[children'[k]])
    <3>1. \A k \in DOMAIN children' \ DOMAIN children : \A x \in schema' : x \in SchemaOf(file'[children'[k]])
      BY <1>2, <2>4
    <3>2. CASE schema = {}
      <4>1. DOMAIN children = {}
        BY <3>2, EmptySeq, LenProperties DEF SchemaInv
      <4> QED
        BY <3>1, <4>1
    <3>3. CASE schema # {}
      <4>1. schema' = schema
        BY <2>1, <3>3
      <4>2. \A k \in DOMAIN children : \A x \in schema' : x \in SchemaOf(file'[children'[k]])
        BY <1>1, <4>1 DEF SchemaInv, SchemaInEveryChild
      <4> QED
        BY <3>1, <4>2
    <3> QED
      BY <3>2, <3>3
  <2>7. SchemaInEveryChild'
    BY <2>6 DEF SchemaInEveryChild, SchemaOf
  <2> QED
    BY <2>5, <2>7 DEF SchemaInv, Grown
<1> QED
  BY <1>3, <1>4

LEMMA OpeningSchema ==
  ASSUME TypeInv, SchemaInv, NEW f, Opening(f)
  PROVE  SchemaInv'
<1>1. children' = children /\ schema' = schema /\ children = << >>
  BY DEF Opening, dataset
<1>2. DOMAIN children' = {}
  BY <1>1, EmptySeq, LenProperties DEF TypeInv
<1>3. SchemaInEveryChild'
  BY <1>2 DEF SchemaInEveryChild
<1> QED
  BY <1>1, <1>3 DEF SchemaInv

LEMMA SchemaStep ==
  ASSUME TypeInv, OwnersInv, SchemaInv, [Next]_vars
  PROVE  SchemaInv'
<1>1. ASSUME NEW f \in Files, Opening(f) PROVE SchemaInv'
  BY <1>1, OpeningSchema
<1>2. ASSUME NEW sources \in Sources, Grown(sources) PROVE SchemaInv'
  BY <1>2, GrownSchema
<1>3. ASSUME file' = file, children' = children, schema' = schema PROVE SchemaInv'
  BY <1>3 DEF SchemaInv, SchemaInEveryChild, SchemaOf
<1>4. Shrunk => file' = file /\ children' = children /\ schema' = schema
  BY DEF Shrunk
<1>5. Quiet => file' = file /\ children' = children /\ schema' = schema
  BY DEF Quiet, dataset
<1>6. ASSUME NEW cs, NEW env, Tabled(cs, env)
      PROVE  file' = file /\ children' = children /\ schema' = schema
  BY <1>6 DEF Tabled
<1> QED
  BY <1>1, <1>2, <1>3, <1>4, <1>5, <1>6, Steps, GivenUpShrinks, CloseReaderShrinks,
     CloseDatasetShrinks

------------------------------------------------------------------------------
(* The memo *)

\* Where the segments of stitched tables start depends on where those of each start.
LEMMA StartsOnly ==
  ASSUME NEW t, NEW u, NEW offs, NEW rows, NEW n, NEW m, DOMAIN t = DOMAIN u,
         \A i \in DOMAIN t : t[i].starts = u[i].starts /\ SegmentsIn(t[i]) = SegmentsIn(u[i])
  PROVE  StitchSegments(t, offs, rows, n).starts = StitchSegments(u, offs, rows, m).starts
<1> DEFINE places(w) == [i \in DOMAIN w |->
                           [s \in 1..SegmentsIn(w[i]) |-> w[i].starts[s - 1] + offs[i]]]
<1>1. places(t) = places(u)
  OBVIOUS
<1>2. StitchedStarts(t, offs) = StitchedStarts(u, offs)
  <2>1. StitchedStarts(t, offs) = FlattenSeq(places(t)) /\ StitchedStarts(u, offs) = FlattenSeq(places(u))
    BY DEF StitchedStarts
  <2> HIDE DEF places
  <2> QED
    BY <1>1, <2>1
<1> QED
  BY <1>2 DEF StitchSegments

\* So the tables of any two columns have the same starts, and share a grid.
LEMMA SameStarts ==
  ASSUME NEW c, NEW d, Stitch(c) # None, Stitch(d) # None
  PROVE  Stitch(c).starts = Stitch(d).starts
<1> DEFINE with == WithRows(children, offsets)
           tables(x) == [i \in DOMAIN with |-> ColumnSegments(children[with[i]], file[children[with[i]]], x)]
           offs == [i \in DOMAIN with |-> offsets[with[i]]]
<1>1. /\ Stitch(c) = StitchSegments(tables(c), offs, RowCount, SchemaSize(c))
      /\ Stitch(d) = StitchSegments(tables(d), offs, RowCount, SchemaSize(d))
  BY DEF Stitch
<1>2. \A h, f : /\ ColumnSegments(h, f, c).starts = ColumnSegments(h, f, d).starts
                /\ SegmentsIn(ColumnSegments(h, f, c)) = SegmentsIn(ColumnSegments(h, f, d))
  BY DEF ColumnSegments, SegmentsIn
<1>3. /\ DOMAIN tables(c) = DOMAIN tables(d)
      /\ \A i \in DOMAIN tables(c) :
           tables(c)[i].starts = tables(d)[i].starts /\ SegmentsIn(tables(c)[i]) = SegmentsIn(tables(d)[i])
  BY <1>2
<1> HIDE DEF tables, offs
<1> QED
  BY <1>1, <1>3, StartsOnly

\* A table that would be stitched of children that are all mapped stays the same as
\* long as they are and they stay the children.
LEMMA StitchStays ==
  ASSUME AllMapped, AllMapped', UNCHANGED << file, children, offsets, schema >>, NEW c
  PROVE  Stitch(c)' = Stitch(c)
<1>1. /\ \A k \in DOMAIN children : children[k] \in live /\ children[k] \in live'
  BY ChildrenAre DEF AllMapped
<1>2. /\ (\E k \in DOMAIN children : ChildRows(k) > 0 /\ children[k] \notin live) <=> FALSE
      /\ (\E k \in DOMAIN children : ChildRows(k) > 0 /\ children[k] \notin live)' <=> FALSE
  BY <1>1
<1> QED
  BY <1>2 DEF Stitch, RowCount, SchemaSize

\* Where nothing is remembered nothing is stale.
LEMMA NothingRemembered ==
  ASSUME memo = EmptyTable, grid = UnknownGrid
  PROVE  MemoInv
<1>1. DOMAIN memo = {}
  BY DEF EmptyTable
<1>2. grid.known = FALSE
  BY DEF UnknownGrid
<1> QED
  BY <1>1, <1>2 DEF MemoInv

\* A memo nobody touches stays fresh while the children stay.
LEMMA MemoStays ==
  ASSUME MemoInv, UNCHANGED << file, children, offsets, schema, memo, grid >>,
         AllMapped' => AllMapped
  PROVE  MemoInv'
<1>1. DOMAIN memo' \subseteq Shown' /\ Shown' = Shown
  BY DEF MemoInv, Shown
<1>2. ASSUME AllMapped'
      PROVE  /\ \A c \in DOMAIN memo' : memo'[c] = Stitch(c)'
             /\ grid'.known => \A c \in Shown' :
                  Stitch(c)' # None => grid'.rows = UniformSegmentRows(Stitch(c)'.starts)
  <2>1. AllMapped
    BY <1>2
  <2>2. \A c : Stitch(c)' = Stitch(c)
    BY <1>2, <2>1, StitchStays
  <2> QED
    BY <1>1, <2>1, <2>2 DEF MemoInv
<1> QED
  BY <1>1, <1>2 DEF MemoInv

\* The tables a read leaves are from the memo, or stitched now.
LEMMA TabledMemo ==
  ASSUME MemoInv, NEW cs \in Requests, NEW env, Tabled(cs, env)
  PROVE  MemoInv'
<1>1. UNCHANGED << file, live, children, offsets, schema >>
  BY DEF Tabled
<1>2. AllMapped' <=> AllMapped
  BY <1>1 DEF AllMapped
<1>3. CASE UNCHANGED << memo, grid >>
  BY <1>1, <1>2, <1>3, MemoStays
<1>4. CASE ~ UNCHANGED << memo, grid >>
  <2>1. /\ view.on = Dataset
        /\ memo' = Memoised(cs, env)
        /\ grid' = IF AsksGrid(cs, Selected, env) /\ ~ grid.known
                   THEN [known |-> TRUE, rows |-> UniformSegmentRows(TableOf(cs[1], env).starts)]
                   ELSE grid
    BY <1>4 DEF Tabled, LeavesTables
  <2>2. ToSet(cs) \subseteq Shown
    BY <2>1 DEF Tabled, MayRead, ColumnsOn, Shown
  <2>3. DOMAIN memo \subseteq Shown /\ Shown' = Shown
    BY <1>1 DEF MemoInv, Shown
  <2>4. DOMAIN memo' \subseteq Shown'
    BY <2>1, <2>2, <2>3 DEF Memoised
  <2>5. ASSUME AllMapped'
        PROVE  /\ \A c \in DOMAIN memo' : memo'[c] = Stitch(c)'
               /\ grid'.known => \A c \in Shown' :
                    Stitch(c)' # None => grid'.rows = UniformSegmentRows(Stitch(c)'.starts)
    <3>1. AllMapped
      BY <1>2, <2>5
    <3>2. \A c : Stitch(c)' = Stitch(c)
      BY <1>1, <2>5, <3>1, StitchStays
    <3>3. \A c \in DOMAIN memo : memo[c] = Stitch(c)
      BY <3>1 DEF MemoInv
    <3>4. \A c : env.cpp => TableOf(c, env) = Stitch(c)
      BY <3>3 DEF TableOf
    <3>5. \A c \in DOMAIN memo' : memo'[c] = Stitch(c)
      <4>1. CASE env.cpp
        BY <2>1, <3>4, <4>1 DEF Memoised
      <4>2. CASE ~ env.cpp
        BY <2>1, <3>3, <4>2 DEF Memoised
      <4> QED
        BY <4>1, <4>2
    <3>6. CASE AsksGrid(cs, Selected, env) /\ ~ grid.known
      <4>1. \A c \in ToSet(cs) : TableOf(c, env) # None
        BY <3>6 DEF AsksGrid
      <4>2. cs[1] \in ToSet(cs)
        <5>1. cs \in Seq(STRING) /\ cs # << >>
          BY RequestsAssumption
        <5>2. 1 \in DOMAIN cs
          BY <5>1, LenProperties, EmptySeq
        <5> QED
          BY <5>2 DEF ToSet
      <4>3. TableOf(cs[1], env) = Stitch(cs[1]) /\ Stitch(cs[1]) # None
        BY <3>4, <4>1, <4>2 DEF TableOf
      <4>4. grid'.rows = UniformSegmentRows(Stitch(cs[1]).starts)
        BY <2>1, <3>6, <4>3
      <4>5. \A c : Stitch(c) # None => Stitch(c).starts = Stitch(cs[1]).starts
        BY <4>3, SameStarts
      <4> QED
        BY <3>2, <3>5, <4>4, <4>5
    <3>7. CASE ~(AsksGrid(cs, Selected, env) /\ ~ grid.known)
      <4>1. grid' = grid
        BY <2>1, <3>7
      <4>2. grid.known => \A c \in Shown :
              Stitch(c) # None => grid.rows = UniformSegmentRows(Stitch(c).starts)
        BY <3>1 DEF MemoInv
      <4> QED
        BY <2>3, <3>2, <3>5, <4>1, <4>2
    <3> QED
      BY <3>6, <3>7
  <2> QED
    BY <2>4, <2>5 DEF MemoInv
<1> QED
  BY <1>3, <1>4

\* Without children there is no column to remember.
LEMMA OpeningMemo ==
  ASSUME SchemaInv, MemoInv, NEW f, Opening(f)
  PROVE  MemoInv'
<1>1. UNCHANGED << children, schema, memo, grid >> /\ schema = {}
  BY DEF Opening, dataset, SchemaInv
<1>2. Shown' = {}
  BY <1>1 DEF Shown
<1>3. DOMAIN memo' = {}
  BY <1>1, <1>2 DEF MemoInv, Shown
<1> QED
  BY <1>2, <1>3 DEF MemoInv

LEMMA MemoStep ==
  ASSUME TypeInv, OwnersInv, SchemaInv, MemoInv, [Next]_vars
  PROVE  MemoInv'
<1>1. ASSUME NEW f \in Files, Opening(f) PROVE MemoInv'
  BY <1>1, OpeningMemo
<1>2. ASSUME NEW sources \in Sources, Grown(sources) PROVE MemoInv'
  <2>1. memo' = EmptyTable /\ grid' = UnknownGrid
    BY <1>2 DEF Grown
  <2>2. DOMAIN memo' = {} /\ grid'.known = FALSE
    BY <2>1 DEF EmptyTable, UnknownGrid
  <2> QED
    BY <2>2 DEF MemoInv
<1>3. ASSUME Shrunk PROVE MemoInv'
  <2>1. UNCHANGED << file, children, offsets, schema, memo, grid >>
    BY <1>3 DEF Shrunk
  <2>2. AllMapped' => AllMapped
    BY <1>3 DEF Shrunk, AllMapped
  <2> QED
    BY <2>1, <2>2, MemoStays
<1>4. ASSUME Quiet PROVE MemoInv'
  <2>1. UNCHANGED << file, children, offsets, schema, memo, grid >> /\ (AllMapped' => AllMapped)
    BY <1>4 DEF Quiet, dataset, AllMapped
  <2> QED
    BY <2>1, MemoStays
<1>5. ASSUME NEW cs \in Requests, NEW env, Tabled(cs, env) PROVE MemoInv'
  BY <1>5, TabledMemo
<1> QED
  BY <1>1, <1>2, <1>3, <1>4, <1>5, Steps, GivenUpShrinks, CloseReaderShrinks,
     CloseDatasetShrinks

------------------------------------------------------------------------------
(* Ranges *)

\* A number is between two multiples.
LEMMA Quotient ==
  ASSUME NEW a \in Int, NEW s \in Nat \ {0}
  PROVE  a \div s \in Int /\ (a \div s) * s <= a /\ a < (a \div s) * s + s
  OBVIOUS

\* A smaller factor leaves room for one step more.
LEMMA StepBelow ==
  ASSUME NEW x \in Int, NEW y \in Int, NEW s \in Nat \ {0}, x < y
  PROVE  x * s + s <= y * s
<1>1. PICK k \in Nat : y = x + 1 + k
  <2>1. y - x - 1 \in Nat /\ y = x + 1 + (y - x - 1)
    OBVIOUS
  <2> QED
    BY <2>1
<1>2. y * s = x * s + s + k * s /\ k * s >= 0
  BY <1>1
<1>3. x * s \in Int /\ y * s \in Int /\ k * s \in Int
  OBVIOUS
<1> QED
  BY <1>2, <1>3

\* How often a step of t goes into a distance d, rounded up.
StepsIn(d, t) == Most(0, (d + t - 1) \div t)

\* Each of the steps begins before the end.
LEMMA StepsBefore ==
  ASSUME NEW d \in Int, NEW t \in Nat \ {0}
  PROVE  StepsIn(d, t) \in Nat /\ \A i \in 1..StepsIn(d, t) : (i - 1) * t \in Nat /\ (i - 1) * t < d
<1> DEFINE q == (d + t - 1) \div t
<1>1. q \in Int /\ q * t <= d + t - 1
  <2>1. d + t - 1 \in Int
    OBVIOUS
  <2> QED
    BY <2>1, Quotient
<1> HIDE DEF q
<1>2. Most(0, q) \in Nat /\ (Most(0, q) = q \/ Most(0, q) = 0)
  BY <1>1 DEF Most
<1>3. ASSUME NEW i \in 1..Most(0, q) PROVE (i - 1) * t \in Nat /\ (i - 1) * t < d
  <2>1. i \in Nat /\ i - 1 \in Nat /\ i - 1 < q
    BY <1>1, <1>2
  <2>2. (i - 1) * t + t <= q * t
    BY <1>1, <2>1, StepBelow
  <2>3. (i - 1) * t \in Nat /\ q * t \in Int
    BY <1>1, <2>1
  <2> QED
    BY <1>1, <2>2, <2>3
<1> QED
  BY <1>2, <1>3 DEF StepsIn, q

\* There are c of them if the last begins before the end, and the next would not.
LEMMA StepsAre ==
  ASSUME NEW d \in Int, NEW t \in Nat \ {0}, NEW c \in Nat \ {0},
         (c - 1) * t < d, d <= c * t
  PROVE  StepsIn(d, t) = c
<1> DEFINE a == d + t - 1
           q == a \div t
<1>1. a \in Int /\ q \in Int /\ q * t <= a /\ a < q * t + t
  <2>1. a \in Int
    OBVIOUS
  <2> QED
    BY <2>1, Quotient
<1>2. (c - 1) * t = c * t - t /\ c * t \in Int /\ q * t \in Int
  BY <1>1
<1>3. c * t <= a /\ a < c * t + t
  BY <1>2
<1> HIDE DEF a, q
<1>4. ~(q < c)
  BY <1>1, <1>2, <1>3, StepBelow
<1>5. ~(c < q)
  BY <1>1, <1>2, <1>3, StepBelow
<1>6. q = c
  BY <1>1, <1>4, <1>5
<1> QED
  BY <1>6 DEF StepsIn, Most, q, a

\* No steps lead to a place that is not ahead.
LEMMA NoSteps == ASSUME NEW d \in Int, NEW t \in Nat \ {0}, d <= 0 PROVE StepsIn(d, t) = 0
<1> DEFINE q == (d + t - 1) \div t
<1>1. q \in Int /\ q * t <= d + t - 1
  <2>1. d + t - 1 \in Int
    OBVIOUS
  <2> QED
    BY <2>1, Quotient
<1> HIDE DEF q
<1>2. ~(0 < q)
  <2> SUFFICES ASSUME 0 < q PROVE FALSE
    OBVIOUS
  <2>1. 0 * t + t <= q * t
    BY <1>1, StepBelow
  <2>2. 0 * t = 0 /\ q * t \in Int
    BY <1>1
  <2> QED
    BY <1>1, <2>1, <2>2
<1> QED
  BY <1>1, <1>2 DEF StepsIn, Most, q

\* A range is as long as there are steps from its start to its stop.
LEMMA RangeLenSteps ==
  ASSUME NEW a \in Int, NEW b \in Int, NEW s \in Int \ {0}
  PROVE  RangeLen(a, b, s) = IF s > 0 THEN StepsIn(b - a, s) ELSE StepsIn(a - b, -s)
<1>1. b - a + s - 1 = (b - a) + s - 1 /\ a - b - s - 1 = (a - b) + (-s) - 1
  OBVIOUS
<1>2. CASE s > 0
  BY <1>1, <1>2 DEF RangeLen, StepsIn
<1>3. CASE ~(s > 0)
  <2>1. RangeLen(a, b, s) = Most(0, (a - b - s - 1) \div (-s))
    BY <1>3 DEF RangeLen
  <2>2. StepsIn(a - b, -s) = Most(0, ((a - b) + (-s) - 1) \div (-s))
    BY DEF StepsIn
  <2> QED
    BY <1>1, <1>3, <2>1, <2>2
<1> QED
  BY <1>2, <1>3

\* A range from a by steps of s, of as many places as it has before b.
LEMMA RangeHas ==
  ASSUME NEW a \in Int, NEW b \in Int, NEW s \in Int \ {0}
  PROVE  /\ RangeLen(a, b, s) \in Nat
         /\ \A i \in 1..RangeLen(a, b, s) :
              /\ a + (i - 1) * s \in Int
              /\ s > 0 => a <= a + (i - 1) * s /\ a + (i - 1) * s < b
              /\ s < 0 => b < a + (i - 1) * s /\ a + (i - 1) * s <= a
<1>1. CASE s > 0
  <2>1. s \in Nat \ {0} /\ b - a \in Int /\ RangeLen(a, b, s) = StepsIn(b - a, s)
    BY <1>1, RangeLenSteps
  <2>2. StepsIn(b - a, s) \in Nat
        /\ \A i \in 1..StepsIn(b - a, s) : (i - 1) * s \in Nat /\ (i - 1) * s < b - a
    BY <2>1, StepsBefore
  <2> QED
    BY <1>1, <2>1, <2>2
<1>2. CASE s < 0
  <2>1. -s \in Nat \ {0} /\ a - b \in Int /\ RangeLen(a, b, s) = StepsIn(a - b, -s)
    BY <1>2, RangeLenSteps
  <2>2. StepsIn(a - b, -s) \in Nat
        /\ \A i \in 1..StepsIn(a - b, -s) : (i - 1) * (-s) \in Nat /\ (i - 1) * (-s) < a - b
    BY <2>1, StepsBefore
  <2>3. ASSUME NEW i \in 1..StepsIn(a - b, -s)
        PROVE  b < a + (i - 1) * s /\ a + (i - 1) * s <= a /\ a + (i - 1) * s \in Int
    <3>1. (i - 1) * (-s) \in Nat /\ (i - 1) * (-s) < a - b /\ i \in Int
      BY <2>2
    <3>2. (i - 1) * s = -((i - 1) * (-s))
      BY <3>1
    <3> QED
      BY <3>1, <3>2
  <2> QED
    BY <1>2, <2>1, <2>2, <2>3
<1> QED
  BY <1>1, <1>2

\* A range has c places when the c-th is in it and no other would be.
LEMMA RangeLenIs ==
  ASSUME NEW a \in Int, NEW b \in Int, NEW s \in Int \ {0}, NEW c \in Nat \ {0},
         s > 0 => a + (c - 1) * s < b /\ b <= a + c * s,
         s < 0 => b < a + (c - 1) * s /\ a + c * s <= b
  PROVE  RangeLen(a, b, s) = c
<1>1. CASE s > 0
  <2>1. s \in Nat \ {0} /\ b - a \in Int /\ RangeLen(a, b, s) = StepsIn(b - a, s)
    BY <1>1, RangeLenSteps
  <2>2. (c - 1) * s \in Int /\ c * s \in Int
    OBVIOUS
  <2>3. (c - 1) * s < b - a /\ b - a <= c * s
    BY <1>1, <2>2
  <2> QED
    BY <2>1, <2>3, StepsAre
<1>2. CASE s < 0
  <2>1. -s \in Nat \ {0} /\ a - b \in Int /\ RangeLen(a, b, s) = StepsIn(a - b, -s)
    BY <1>2, RangeLenSteps
  <2>2. /\ (c - 1) * s \in Int /\ c * s \in Int
        /\ (c - 1) * (-s) = -((c - 1) * s) /\ c * (-s) = -(c * s)
    OBVIOUS
  <2>3. (c - 1) * (-s) < a - b /\ a - b <= c * (-s)
    BY <1>2, <2>2
  <2> QED
    BY <2>1, <2>3, StepsAre
<1> QED
  BY <1>1, <1>2

------------------------------------------------------------------------------
(* Slices *)

\* The bounds of a slice, put right, are in the table or just outside.
SliceBounds(x, n) ==
  /\ x[1] \in Int /\ x[2] \in Int /\ x[3] \in Int \ {0}
  /\ x[3] > 0 => 0 <= x[1] /\ x[1] <= n /\ 0 <= x[2] /\ x[2] <= n
  /\ x[3] < 0 => -1 <= x[1] /\ x[1] < n /\ -1 <= x[2] /\ x[2] < n

LEMMA SliceIndicesBound ==
  ASSUME NEW key \in Slices, NEW n \in Nat
  PROVE  SliceBounds(SliceIndices(key, n), n) /\ SliceIndices(key, n)[3] = key.step
<1>1. /\ key.step \in Int \ {0} /\ key.start \in Int \cup {None} /\ key.stop \in Int \cup {None}
  BY DEF Slices
<1>2. CASE key.step > 0
  BY <1>1, <1>2 DEF SliceIndices, SliceBounds, Most, Least
<1>3. CASE key.step < 0
  BY <1>1, <1>3 DEF SliceIndices, SliceBounds, Most, Least
<1> QED
  BY <1>1, <1>2, <1>3

\* The rows of a slice are rows of the table.
LEMMA SliceRows ==
  ASSUME NEW key \in Slices, NEW n \in Nat
  PROVE  LET x == SliceIndices(key, n) IN
         /\ RangeLen(x[1], x[2], x[3]) \in Nat
         /\ RowsOfSlice(key, n) = [i \in 1..RangeLen(x[1], x[2], x[3]) |-> x[1] + (i - 1) * x[3]]
         /\ RowsOfSlice(key, n) \in Seq(0..(n - 1))
         /\ Len(RowsOfSlice(key, n)) = RangeLen(x[1], x[2], x[3])
         /\ \A i \in 1..RangeLen(x[1], x[2], x[3]) : x[1] + (i - 1) * x[3] \in 0..(n - 1)
<1> DEFINE x == SliceIndices(key, n)
           m == RangeLen(x[1], x[2], x[3])
<1>1. SliceBounds(x, n)
  BY SliceIndicesBound
<1>2. RowsOfSlice(key, n) = [i \in 1..m |-> x[1] + (i - 1) * x[3]]
  BY DEF RowsOfSlice, Range3
<1> HIDE DEF x
<1>3. m \in Nat /\ \A i \in 1..m : /\ x[1] + (i - 1) * x[3] \in Int
                                   /\ x[3] > 0 => x[1] <= x[1] + (i - 1) * x[3] /\ x[1] + (i - 1) * x[3] < x[2]
                                   /\ x[3] < 0 => x[2] < x[1] + (i - 1) * x[3] /\ x[1] + (i - 1) * x[3] <= x[1]
  BY <1>1, RangeHas DEF SliceBounds
<1> HIDE DEF m
<1>4. ASSUME NEW i \in 1..m PROVE x[1] + (i - 1) * x[3] \in 0..(n - 1)
  <2> DEFINE y == x[1] + (i - 1) * x[3]
  <2>1. /\ y \in Int
        /\ x[3] > 0 => x[1] <= y /\ y < x[2]
        /\ x[3] < 0 => x[2] < y /\ y <= x[1]
    BY <1>3
  <2> HIDE DEF y
  <2>2. y \in 0..(n - 1)
    BY <1>1, <2>1 DEF SliceBounds
  <2> QED
    BY <2>2 DEF y
<1>5. [i \in 1..m |-> x[1] + (i - 1) * x[3]] \in Seq(0..(n - 1))
  BY <1>3, <1>4
<1>6. Len([i \in 1..m |-> x[1] + (i - 1) * x[3]]) = m
  BY <1>3
<1> QED
  BY <1>2, <1>3, <1>4, <1>5, <1>6 DEF x, m

\* A run of rows, forward or backward, as a slice; one backward that passes row 0 has no end.
LEMMA RunAsSlice ==
  ASSUME NEW n \in Nat, NEW first \in 0..(n - 1), NEW by \in Int \ {0}, NEW count \in Nat \ {0},
         first + (count - 1) * by \in 0..(n - 1)
  PROVE  LET past == first + count * by
             c == Slice(first, IF by < 0 /\ past < 0 THEN None ELSE past, by)
         IN  /\ c \in Slices
             /\ RowsOfSlice(c, n) = [i \in 1..count |-> first + (i - 1) * by]
<1> DEFINE past == first + count * by
           last == first + (count - 1) * by
           stop == IF by < 0 /\ past < 0 THEN None ELSE past
           c == Slice(first, stop, by)
           x == SliceIndices(c, n)
<1>1. past \in Int /\ last \in 0..(n - 1) /\ past = last + by /\ first \in Int /\ by \in Int \ {0}
  <2>1. count * by \in Int /\ (count - 1) * by = count * by - by
    OBVIOUS
  <2> QED
    BY <2>1
<1>2. c \in Slices /\ c.start = first /\ c.stop = stop /\ c.step = by
  BY <1>1 DEF Slice, Slices
<1>3. first # None /\ past # None
  BY <1>1, NoneAssumption
<1> HIDE DEF past, last, c
<1>4. x[1] = first /\ x[3] = by
  BY <1>1, <1>2, <1>3 DEF SliceIndices, Most, Least
<1>5. CASE by > 0
  <2>1. stop = past /\ past > 0
    BY <1>1, <1>5
  <2>2. x[2] = Least(past, n)
    BY <1>1, <1>2, <1>3, <1>5, <2>1 DEF SliceIndices
  <2>3. x[2] \in Int /\ last < x[2] /\ x[2] <= past
    BY <1>1, <1>5, <2>2 DEF Least
  <2>4. RangeLen(first, x[2], by) = count
    <3> HIDE DEF x
    <3> QED
      BY <1>1, <1>5, <2>3, RangeLenIs DEF past, last
  <2> QED
    BY <1>2, <1>4, <2>4 DEF RowsOfSlice, Range3, past, c
<1>6. CASE by < 0
  <2>1. x[2] = IF past < 0 THEN -1 ELSE past
    <3>1. CASE past < 0
      BY <1>1, <1>2, <1>3, <1>6, <3>1 DEF SliceIndices
    <3>2. CASE ~(past < 0)
      BY <1>1, <1>2, <1>3, <1>6, <3>2 DEF SliceIndices, Least
    <3> QED
      BY <3>1, <3>2
  <2>2. x[2] \in Int /\ x[2] < last /\ past <= x[2]
    BY <1>1, <1>6, <2>1
  <2>3. RangeLen(first, x[2], by) = count
    <3> HIDE DEF x
    <3> QED
      BY <1>1, <1>6, <2>2, RangeLenIs DEF past, last
  <2> QED
    BY <1>2, <1>4, <2>3 DEF RowsOfSlice, Range3, past, c
<1> QED
  BY <1>1, <1>5, <1>6

\* The slice of no rows.
LEMMA EmptySlice == ASSUME NEW n \in Nat PROVE Slice(0, 0, 1) \in Slices /\ RowsOfSlice(Slice(0, 0, 1), n) = << >>
<1> DEFINE c == Slice(0, 0, 1)
           x == SliceIndices(c, n)
<1>1. c \in Slices /\ c.start = 0 /\ c.stop = 0 /\ c.step = 1
  BY DEF Slice, Slices
<1>2. x[1] = 0 /\ x[2] = 0 /\ x[3] = 1
  BY <1>1, NoneAssumption DEF SliceIndices, Least, Most
<1>3. RangeLen(0, 0, 1) = 0
  BY DEF RangeLen, Most
<1> HIDE DEF c
<1>4. RowsOfSlice(c, n) = [i \in 1..0 |-> x[1] + (i - 1) * x[3]]
  BY <1>2, <1>3 DEF RowsOfSlice, Range3
<1>5. RowsOfSlice(c, n) = << >>
  BY <1>4
<1> QED
  BY <1>1, <1>5 DEF c

\* A slice of a slice is a slice, of the rows the one has of those of the other.
LEMMA SliceOfSlice ==
  ASSUME NEW n \in Nat, NEW sel \in Slices, NEW key \in Slices
  PROVE  LET x == SliceIndices(sel, n)
             len == RangeLen(x[1], x[2], x[3])
             c == ComposeSlices(x[1], x[3], len, key)
             y == RowsOfSlice(key, len)
         IN  /\ c \in Slices
             /\ RowsOfSlice(c, n) = [i \in 1..Len(y) |-> RowsOfSlice(sel, n)[y[i] + 1]]
<1> DEFINE x == SliceIndices(sel, n)
           len == RangeLen(x[1], x[2], x[3])
           c == ComposeSlices(x[1], x[3], len, key)
           y == RowsOfSlice(key, len)
           z == SliceIndices(key, len)
           count == RangeLen(z[1], z[2], z[3])
           by == x[3] * z[3]
           first == x[1] + z[1] * x[3]
<1>1. /\ len \in Nat
      /\ RowsOfSlice(sel, n) = [i \in 1..len |-> x[1] + (i - 1) * x[3]]
      /\ \A i \in 1..len : x[1] + (i - 1) * x[3] \in 0..(n - 1)
      /\ SliceBounds(x, n)
  BY SliceRows, SliceIndicesBound
<1>2. /\ count \in Nat /\ y = [i \in 1..count |-> z[1] + (i - 1) * z[3]] /\ Len(y) = count
      /\ \A i \in 1..count : z[1] + (i - 1) * z[3] \in 0..(len - 1)
      /\ SliceBounds(z, len)
  BY <1>1, SliceRows, SliceIndicesBound
<1> HIDE DEF x, len, y, z, count
<1>3. c = IF count = 0 THEN Slice(0, 0, 1)
          ELSE Slice(first, IF by < 0 /\ first + count * by < 0 THEN None ELSE first + count * by, by)
  BY DEF ComposeSlices, z, count
<1>4. ASSUME NEW i \in 1..count
      PROVE  RowsOfSlice(sel, n)[y[i] + 1] = first + (i - 1) * by /\ first + (i - 1) * by \in 0..(n - 1)
  <2>1. y[i] = z[1] + (i - 1) * z[3] /\ y[i] \in 0..(len - 1) /\ i \in Int
    BY <1>2
  <2>2. y[i] + 1 \in 1..len /\ (y[i] + 1) - 1 = y[i]
    BY <1>1, <2>1
  <2>3. /\ RowsOfSlice(sel, n)[y[i] + 1] = x[1] + y[i] * x[3]
        /\ x[1] + y[i] * x[3] \in 0..(n - 1)
    BY <1>1, <2>2
  <2>4. x[1] \in Int /\ x[3] \in Int /\ z[1] \in Int /\ z[3] \in Int
    BY <1>1, <1>2 DEF SliceBounds
  <2>5. y[i] * x[3] = z[1] * x[3] + ((i - 1) * z[3]) * x[3]
    BY <2>1, <2>4
  <2>6. ((i - 1) * z[3]) * x[3] = (i - 1) * (x[3] * z[3])
    BY <2>1, <2>4
  <2>7. z[1] * x[3] \in Int /\ (i - 1) * (x[3] * z[3]) \in Int
    BY <2>1, <2>4
  <2> QED
    BY <2>3, <2>4, <2>5, <2>6, <2>7
<1>5. CASE count = 0
  <2>1. c \in Slices /\ RowsOfSlice(c, n) = << >>
    BY <1>3, <1>5, EmptySlice
  <2>2. [i \in 1..Len(y) |-> RowsOfSlice(sel, n)[y[i] + 1]] = << >>
    BY <1>2, <1>5
  <2> QED
    BY <2>1, <2>2 DEF c, x, len, y
<1>6. CASE count # 0
  <2>1. count \in Nat \ {0} /\ 1 \in 1..count /\ count \in 1..count
    BY <1>2, <1>6
  <2>2. by \in Int \ {0}
    BY <1>1, <1>2 DEF SliceBounds
  <2>3. first \in 0..(n - 1)
    <3>1. first + (1 - 1) * by \in 0..(n - 1)
      BY <1>4, <2>1
    <3>2. first \in Int
      BY <1>1, <1>2 DEF SliceBounds
    <3> HIDE DEF first, by
    <3> QED
      BY <2>2, <3>1, <3>2
  <2>4. first + (count - 1) * by \in 0..(n - 1)
    BY <1>4, <2>1
  <2> HIDE DEF first, by
  <2>5. c \in Slices /\ RowsOfSlice(c, n) = [i \in 1..count |-> first + (i - 1) * by]
    BY <1>3, <1>6, <2>1, <2>2, <2>3, <2>4, RunAsSlice
  <2>6. [i \in 1..Len(y) |-> RowsOfSlice(sel, n)[y[i] + 1]] = [i \in 1..count |-> first + (i - 1) * by]
    BY <1>2, <1>4
  <2> QED
    BY <2>5, <2>6 DEF c, x, len, y
<1> QED
  BY <1>5, <1>6

------------------------------------------------------------------------------
(* Masks and numbers of rows *)

\* The places up to m that are set, as a function of m.
LEMMA SetPlacesExist ==
  ASSUME NEW bits, NEW n \in Nat
  PROVE  \E f : f = [i \in 0..n |-> IF i = 0 THEN << >>
                                    ELSE IF bits[i] THEN Append(f[i - 1], i - 1) ELSE f[i - 1]]
<1> DEFINE Step(f, i) == IF i = 0 THEN << >> ELSE IF bits[i] THEN Append(f[i - 1], i - 1) ELSE f[i - 1]
           Good(m) == \E f : f = [i \in 0..m |-> Step(f, i)]
           S == {m \in Nat : Good(m)}
<1>1. Good(0)
  <2> DEFINE f == [i \in 0..0 |-> << >>]
  <2>1. f = [i \in 0..0 |-> Step(f, i)]
    OBVIOUS
  <2> HIDE DEF f
  <2> QED
    BY <2>1
<1>2. ASSUME NEW m \in Nat, Good(m) PROVE Good(m + 1)
  <2>1. PICK f : f = [i \in 0..m |-> Step(f, i)]
    BY <1>2
  <2> HIDE DEF Good, S
  <2> DEFINE g == [i \in 0..(m + 1) |-> IF i = m + 1 THEN IF bits[i] THEN Append(f[m], m) ELSE f[m]
                                        ELSE f[i]]
  <2>2. ASSUME NEW i \in 0..(m + 1) PROVE g[i] = Step(g, i)
    <3>1. CASE i = 0
      <4>1. 0 \in 0..m /\ i # m + 1
        BY <3>1
      <4>2. f[0] = << >>
        BY <2>1, <4>1
      <4> QED
        BY <3>1, <4>1, <4>2
    <3>2. CASE i = m + 1
      <4>1. i # 0 /\ i - 1 = m /\ m \in 0..(m + 1) /\ m # m + 1
        BY <3>2
      <4>2. g[m] = f[m]
        BY <4>1
      <4>3. g[i] = IF bits[i] THEN Append(f[m], m) ELSE f[m]
        BY <3>2
      <4> QED
        BY <4>1, <4>2, <4>3
    <3>3. CASE i \in 1..m
      <4>1. i # 0 /\ i # m + 1 /\ i - 1 # m + 1 /\ i \in 0..m /\ i - 1 \in 0..(m + 1)
        BY <3>3
      <4>2. g[i] = f[i] /\ g[i - 1] = f[i - 1]
        BY <4>1
      <4>3. f[i] = Step(f, i)
        BY <2>1, <4>1
      <4> QED
        BY <4>1, <4>2, <4>3
    <3> QED
      BY <3>1, <3>2, <3>3
  <2>3. g = [i \in 0..(m + 1) |-> Step(g, i)]
    BY <2>2
  <2> HIDE DEF g
  <2> QED
    BY <2>3 DEF Good
<1> HIDE DEF Good
<1>3. 0 \in S /\ \A m \in 0..(n - 1) : m \in S => m + 1 \in S
  BY <1>1, <1>2
<1> HIDE DEF S
<1>4. n \in S
  BY <1>3, UpTo
<1>5. Good(n)
  BY <1>4 DEF S
<1> QED
  BY <1>5 DEF Good

\* The places that are set are numbers of rows.
LEMMA SetPlaces ==
  ASSUME NEW bits, NEW n \in Nat, Len(bits) = n
  PROVE  FlatNonZero(bits) \in Seq(0..(n - 1))
<1> DEFINE P(g) == g = [i \in 0..n |-> IF i = 0 THEN << >>
                                    ELSE IF bits[i] THEN Append(g[i - 1], i - 1) ELSE g[i - 1]]
           f == CHOOSE g : P(g)
           S == {m \in Nat : f[m] \in Seq(0..(n - 1))}
<1>1. f = [i \in 0..n |-> IF i = 0 THEN << >>
                          ELSE IF bits[i] THEN Append(f[i - 1], i - 1) ELSE f[i - 1]]
  <2>1. \E g : P(g)
    BY SetPlacesExist
  <2> HIDE DEF P
  <2>2. P(f)
    BY <2>1, Zenon
  <2> QED
    BY <2>2 DEF P
<1>2. FlatNonZero(bits) = f[n]
  BY Zenon DEF FlatNonZero
<1> HIDE DEF f
<1>3. 0 \in S
  BY <1>1
<1>4. ASSUME NEW m \in 0..(n - 1), m \in S PROVE m + 1 \in S
  <2>1. m + 1 \in 0..n /\ m + 1 # 0 /\ (m + 1) - 1 = m /\ m \in Nat /\ m + 1 \in Nat
    OBVIOUS
  <2>2. f[m + 1] = IF bits[m + 1] THEN Append(f[m], m) ELSE f[m]
    BY <1>1, <2>1
  <2>3. f[m] \in Seq(0..(n - 1))
    BY <1>4
  <2>4. Append(f[m], m) \in Seq(0..(n - 1))
    BY <2>3
  <2>5. f[m + 1] \in Seq(0..(n - 1))
    BY <2>2, <2>3, <2>4
  <2> QED
    BY <2>1, <2>5
<1> HIDE DEF S
<1>5. n \in S
  <2>1. \A m \in 0..(n - 1) : m \in S => m + 1 \in S
    BY <1>4
  <2>2. \A m \in 0..n : m \in S
    BY <1>3, <2>1, UpTo
  <2> QED
    BY <2>2
<1> QED
  BY <1>2, <1>5 DEF S

\* An index counts from the end when it is negative, that is modulo the length.
LEMMA Folded ==
  ASSUME NEW r \in Int, NEW n \in Nat
  PROVE  /\ FoldRow(r, n) \in Int
         /\ FoldRow(r, n) \in 0..(n - 1) <=> InBounds(r, n)
         /\ InBounds(r, n) => n \in Nat \ {0} /\ r % n = FoldRow(r, n)
<1>1. FoldRow(r, n) \in Int /\ (FoldRow(r, n) \in 0..(n - 1) <=> InBounds(r, n))
  BY DEF FoldRow, InBounds
<1>2. ASSUME InBounds(r, n) PROVE n \in Nat \ {0} /\ r % n = FoldRow(r, n)
  <2>1. n \in Nat \ {0}
    BY <1>2 DEF InBounds
  <2>2. CASE r < 0
    <3>1. 0 <= r + n /\ r + n < n
      BY <1>2, <2>2 DEF InBounds
    <3>2. r % n = r + n
      BY <2>1, <3>1
    <3> QED
      BY <2>1, <2>2, <3>2 DEF FoldRow
  <2>3. CASE r >= 0
    <3>1. r % n = r
      BY <1>2, <2>1, <2>3 DEF InBounds
    <3> QED
      BY <2>1, <2>3, <3>1 DEF FoldRow
  <2> QED
    BY <2>1, <2>2, <2>3
<1> QED
  BY <1>1, <1>2

------------------------------------------------------------------------------
(* What selectors stand for *)

\* A selector is one of five kinds.
LEMMA NormalKinds ==
  ASSUME NEW n \in Nat, NEW sel \in Normal(n)
  PROVE  \/ sel = All /\ sel.kind = "all"
         \/ sel.kind = "row" /\ sel.row \in 0..(n - 1) /\ sel = Row(sel.row)
         \/ sel.kind = "slice" /\ sel \in Slices
         \/ sel.kind = "fancy" /\ sel.rows \in Seq(0..(n - 1)) /\ sel = Fancy(sel.rows)
         \/ sel.kind = "mask" /\ sel.bits \in Seq(BOOLEAN) /\ Len(sel.bits) = n /\ sel = Mask(sel.bits)
<1>1. CASE sel = All
  BY <1>1 DEF All
<1>2. CASE sel \in [kind : {"row"}, row : 0..(n - 1)]
  BY <1>2 DEF Row
<1>3. CASE sel \in Slices
  BY <1>3 DEF Slices
<1>4. CASE sel \in [kind : {"fancy"}, rows : Seq(0..(n - 1))]
  BY <1>4 DEF Fancy
<1>5. CASE sel \in {m \in Masks : Len(m.bits) = n}
  BY <1>5 DEF Mask, Masks
<1> QED
  BY <1>1, <1>2, <1>3, <1>4, <1>5 DEF Normal

\* What can be given as a key is of five kinds.
LEMMA SelectorKinds ==
  ASSUME NEW key \in Selectors
  PROVE  \/ key = All /\ key.kind = "all"
         \/ key.kind = "row" /\ key.row \in Int
         \/ key.kind = "slice" /\ key \in Slices
         \/ key.kind = "fancy" /\ key.rows \in Seq(Int)
         \/ key.kind = "mask" /\ key \in Masks /\ key.bits \in Seq(BOOLEAN)
<1>1. CASE key = All
  BY <1>1 DEF All
<1>2. CASE key \in [kind : {"row"}, row : Int]
  BY <1>2
<1>3. CASE key \in Slices
  BY <1>3 DEF Slices
<1>4. CASE key \in [kind : {"fancy"}, rows : Seq(Int)]
  BY <1>4
<1>5. CASE key \in Masks
  BY <1>5 DEF Masks
<1> QED
  BY <1>1, <1>2, <1>3, <1>4, <1>5 DEF Selectors, Masks

\* The rows of a normal selector are rows of the table, and count() is their number.
LEMMA NormalRows ==
  ASSUME NEW n \in Nat, NEW sel \in Normal(n)
  PROVE  /\ RowsOf(sel, n) \in Seq(0..(n - 1))
         /\ CountOf(sel, n) = Len(RowsOf(sel, n))
         /\ sel.kind # "bad"
<1>1. CASE sel = All /\ sel.kind = "all"
  <2>1. RowsOf(sel, n) = [i \in 1..n |-> i - 1] /\ CountOf(sel, n) = n
    BY <1>1 DEF RowsOf, CountOf
  <2>2. [i \in 1..n |-> i - 1] \in Seq(0..(n - 1)) /\ Len([i \in 1..n |-> i - 1]) = n
    OBVIOUS
  <2> QED
    BY <1>1, <2>1, <2>2
<1>2. CASE sel.kind = "row" /\ sel.row \in 0..(n - 1)
  <2>1. RowsOf(sel, n) = << sel.row >> /\ CountOf(sel, n) = 1
    BY <1>2 DEF RowsOf, CountOf
  <2> QED
    BY <1>2, <2>1
<1>3. CASE sel.kind = "slice" /\ sel \in Slices
  <2>1. /\ RowsOf(sel, n) = RowsOfSlice(sel, n)
        /\ CountOf(sel, n) = LET x == SliceIndices(sel, n) IN RangeLen(x[1], x[2], x[3])
    BY <1>3 DEF RowsOf, CountOf
  <2> QED
    BY <1>3, <2>1, SliceRows
<1>4. CASE sel.kind = "fancy" /\ sel.rows \in Seq(0..(n - 1))
  <2>1. RowsOf(sel, n) = sel.rows /\ CountOf(sel, n) = Len(sel.rows)
    BY <1>4 DEF RowsOf, CountOf
  <2> QED
    BY <1>4, <2>1
<1>5. CASE sel.kind = "mask" /\ Len(sel.bits) = n
  <2>1. RowsOf(sel, n) = FlatNonZero(sel.bits) /\ CountOf(sel, n) = Len(FlatNonZero(sel.bits))
    BY <1>5 DEF RowsOf, CountOf
  <2> QED
    BY <1>5, <2>1, SetPlaces
<1> QED
  BY <1>1, <1>2, <1>3, <1>4, <1>5, NormalKinds

\* An array of row numbers, put right.
LEMMA FancyStands ==
  ASSUME NEW n \in Nat, NEW rows \in Seq(Int)
  PROVE  IF \A i \in DOMAIN rows : InBounds(rows[i], n)
         THEN /\ ValidFancy(rows, n) = Fancy([i \in DOMAIN rows |-> rows[i] % n])
              /\ [i \in DOMAIN rows |-> rows[i] % n] \in Seq(0..(n - 1))
              /\ rows # << >> => n # 0
         ELSE ValidFancy(rows, n) = Bad
<1> DEFINE folded == [i \in DOMAIN rows |-> FoldRow(rows[i], n)]
<1>1. DOMAIN rows = 1..Len(rows) /\ Len(rows) \in Nat /\ \A i \in DOMAIN rows : rows[i] \in Int
  OBVIOUS
<1>2. CASE \A i \in DOMAIN rows : InBounds(rows[i], n)
  <2>1. \A i \in DOMAIN rows : folded[i] \in 0..(n - 1) /\ rows[i] % n = folded[i] /\ n # 0
    BY <1>1, <1>2, Folded
  <2>2. ValidFancy(rows, n) = Fancy(folded)
    BY <2>1 DEF ValidFancy
  <2>3. folded = [i \in DOMAIN rows |-> rows[i] % n]
    BY <2>1
  <2>4. folded \in Seq(0..(n - 1))
    BY <1>1, <2>1
  <2>5. rows # << >> => 1 \in DOMAIN rows
    BY <1>1
  <2> HIDE DEF folded
  <2> QED
    BY <1>2, <2>1, <2>2, <2>3, <2>4, <2>5
<1>3. CASE ~(\A i \in DOMAIN rows : InBounds(rows[i], n))
  <2>1. PICK i \in DOMAIN rows : ~ InBounds(rows[i], n)
    BY <1>3
  <2>2. folded[i] \notin 0..(n - 1)
    BY <1>1, <2>1, Folded
  <2>3. ValidFancy(rows, n) = Bad
    BY <2>1, <2>2 DEF ValidFancy
  <2> QED
    BY <1>3, <2>3
<1> QED
  BY <1>2, <1>3

\* A key on a view of n rows, as numbers of rows of the view.
KeyFound(key, n, sub) ==
  \/ sub.kind = "row" /\ sub.row \in 0..(n - 1)
  \/ sub.kind = "fancy" /\ sub.rows \in Seq(0..(n - 1))

PickedBy(rows, sub, want) ==
  want.rows = IF sub.kind = "row" THEN << rows[sub.row + 1] >>
              ELSE [i \in DOMAIN sub.rows |-> rows[sub.rows[i] + 1]]

LEMMA KeyPicks ==
  ASSUME NEW rows, NEW n \in Nat, Len(rows) = n, NEW key \in Selectors, key.kind # "all"
  PROVE  LET sub == KeyToViewIndices(key, n)
             want == Picks(rows, key)
         IN  IF want.ok THEN KeyFound(key, n, sub) /\ PickedBy(rows, sub, want)
             ELSE sub = Bad /\ key.kind # "slice"
<1> DEFINE sub == KeyToViewIndices(key, n)
           want == Picks(rows, key)
<1>1. CASE key.kind = "row" /\ key.row \in Int
  <2>1. sub = IF FoldRow(key.row, n) \in 0..(n - 1) THEN Row(FoldRow(key.row, n)) ELSE Bad
    BY <1>1 DEF KeyToViewIndices, Resolve
  <2>2. want = IF InBounds(key.row, n) THEN [ok |-> TRUE, rows |-> << rows[(key.row % n) + 1] >>]
                                       ELSE [ok |-> FALSE, rows |-> << >>]
    BY <1>1 DEF Picks
  <2>3. CASE InBounds(key.row, n)
    <3>1. FoldRow(key.row, n) \in 0..(n - 1) /\ key.row % n = FoldRow(key.row, n)
      BY <1>1, <2>3, Folded
    <3>2. sub.kind = "row" /\ sub.row = FoldRow(key.row, n)
      BY <2>1, <3>1 DEF Row
    <3>3. want.ok /\ want.rows = << rows[sub.row + 1] >>
      BY <2>2, <2>3, <3>1, <3>2
    <3> QED
      BY <3>1, <3>2, <3>3 DEF KeyFound, PickedBy
  <2>4. CASE ~ InBounds(key.row, n)
    <3>1. FoldRow(key.row, n) \notin 0..(n - 1)
      BY <1>1, <2>4, Folded
    <3>2. ~ want.ok
      BY <2>2, <2>4
    <3> QED
      BY <1>1, <2>1, <3>1, <3>2
  <2> QED
    BY <2>3, <2>4
<1>2. CASE key.kind = "slice" /\ key \in Slices
  <2>1. sub = Fancy(RowsOfSlice(key, n))
    BY <1>2 DEF KeyToViewIndices
  <2>2. sub.kind = "fancy" /\ sub.rows = RowsOfSlice(key, n) /\ RowsOfSlice(key, n) \in Seq(0..(n - 1))
    BY <1>2, <2>1, SliceRows DEF Fancy
  <2>3. want.ok /\ want.rows = [i \in DOMAIN RowsOfSlice(key, n) |-> rows[RowsOfSlice(key, n)[i] + 1]]
    BY <1>2 DEF Picks
  <2> QED
    BY <2>2, <2>3 DEF KeyFound, PickedBy
<1>3. CASE key.kind = "fancy" /\ key.rows \in Seq(Int)
  <2>1. sub = ValidFancy(key.rows, n)
    BY <1>3 DEF KeyToViewIndices, Resolve
  <2>2. want = IF \A i \in DOMAIN key.rows : InBounds(key.rows[i], n)
               THEN [ok |-> TRUE, rows |-> [i \in DOMAIN key.rows |-> rows[(key.rows[i] % n) + 1]]]
               ELSE [ok |-> FALSE, rows |-> << >>]
    BY <1>3 DEF Picks
  <2>3. CASE \A i \in DOMAIN key.rows : InBounds(key.rows[i], n)
    <3> DEFINE y == [i \in DOMAIN key.rows |-> key.rows[i] % n]
    <3>1. sub = Fancy(y) /\ y \in Seq(0..(n - 1))
      BY <1>3, <2>1, <2>3, FancyStands
    <3>2. want.ok /\ want.rows = [i \in DOMAIN y |-> rows[y[i] + 1]]
      <4>1. DOMAIN y = DOMAIN key.rows /\ \A i \in DOMAIN key.rows : y[i] = key.rows[i] % n
        OBVIOUS
      <4>2. want.ok /\ want.rows = [i \in DOMAIN key.rows |-> rows[(key.rows[i] % n) + 1]]
        BY <2>2, <2>3
      <4> HIDE DEF y, want
      <4> QED
        BY <4>1, <4>2
    <3> HIDE DEF y
    <3>3. sub.kind = "fancy" /\ sub.rows = y
      BY <3>1 DEF Fancy
    <3> QED
      BY <3>1, <3>2, <3>3 DEF KeyFound, PickedBy
  <2>4. CASE ~(\A i \in DOMAIN key.rows : InBounds(key.rows[i], n))
    <3>1. sub = Bad
      BY <1>3, <2>1, <2>4, FancyStands
    <3>2. ~ want.ok
      BY <2>2, <2>4
    <3> QED
      BY <1>3, <3>1, <3>2
  <2> QED
    BY <2>3, <2>4
<1>4. CASE key.kind = "mask" /\ key.bits \in Seq(BOOLEAN)
  <2>1. sub = IF Len(key.bits) = n THEN Fancy(FlatNonZero(key.bits)) ELSE Bad
    BY <1>4 DEF KeyToViewIndices
  <2> DEFINE y == FlatNonZero(key.bits)
  <2>2. want = IF Len(key.bits) = n THEN [ok |-> TRUE, rows |-> [i \in 1..Len(y) |-> rows[y[i] + 1]]]
                                    ELSE [ok |-> FALSE, rows |-> << >>]
    BY <1>4 DEF Picks
  <2> HIDE DEF y
  <2>3. CASE Len(key.bits) = n
    <3>1. y \in Seq(0..(n - 1)) /\ DOMAIN y = 1..Len(y)
      BY <2>3, SetPlaces DEF y
    <3>2. sub.kind = "fancy" /\ sub.rows = y
      BY <2>1, <2>3 DEF Fancy, y
    <3>3. want.ok /\ want.rows = [i \in DOMAIN y |-> rows[y[i] + 1]]
      BY <2>2, <2>3, <3>1
    <3> QED
      BY <3>1, <3>2, <3>3 DEF KeyFound, PickedBy
  <2>4. CASE Len(key.bits) # n
    BY <1>4, <2>1, <2>2, <2>4
  <2> QED
    BY <2>3, <2>4
<1> QED
  BY <1>1, <1>2, <1>3, <1>4, SelectorKinds

\* A key on the whole table stands for what it picks of the rows from the first on.
LEMMA KeyStands ==
  ASSUME NEW n \in Nat, NEW key \in Selectors
  PROVE  Stands(Resolve(key, n), n, Picks([i \in 1..n |-> i - 1], key))
<1> DEFINE first == [i \in 1..n |-> i - 1]
           want == Picks(first, key)
           sel == Resolve(key, n)
<1>1. Len(first) = n /\ \A r \in 0..(n - 1) : first[r + 1] = r
  OBVIOUS
<1>2. CASE key.kind = "all" /\ key = All
  <2>1. sel = All /\ want.ok /\ want.rows = first
    BY <1>2 DEF Resolve, Picks
  <2>2. RowsOf(sel, n) = first /\ sel \in Normal(n)
    BY <1>2, <2>1 DEF RowsOf, Normal
  <2> QED
    BY <2>1, <2>2 DEF Stands
<1>3. CASE key.kind = "row" /\ key.row \in Int
  <2>1. sel = IF FoldRow(key.row, n) \in 0..(n - 1) THEN Row(FoldRow(key.row, n)) ELSE Bad
    BY <1>3 DEF Resolve
  <2>2. KeyToViewIndices(key, n) = sel
    BY <1>3 DEF KeyToViewIndices
  <2>3. IF want.ok THEN KeyFound(key, n, sel) /\ PickedBy(first, sel, want) ELSE sel = Bad
    BY <1>1, <1>3, <2>2, KeyPicks
  <2>4. CASE want.ok
    <3> HIDE DEF first, want
    <3>1. sel # Bad
      BY <2>3, <2>4 DEF KeyFound, Bad
    <3>2. FoldRow(key.row, n) \in 0..(n - 1) /\ sel = Row(FoldRow(key.row, n))
      BY <2>1, <3>1
    <3>3. sel.kind = "row" /\ sel.row \in 0..(n - 1) /\ sel \in [kind : {"row"}, row : 0..(n - 1)]
      BY <3>2 DEF Row
    <3>4. want.rows = << sel.row >>
      BY <1>1, <2>3, <2>4, <3>3 DEF PickedBy
    <3>5. RowsOf(sel, n) = << sel.row >>
      BY <3>3 DEF RowsOf
    <3> HIDE DEF sel
    <3>6. Stands(sel, n, want)
      BY <2>4, <3>3, <3>4, <3>5 DEF Stands, Normal
    <3> QED
      BY <3>6 DEF sel, want, first
  <2> QED
    BY <2>3, <2>4 DEF Stands
<1>4. CASE key.kind = "slice" /\ key \in Slices
  <2> DEFINE y == RowsOfSlice(key, n)
  <2>1. sel = key
    BY <1>4 DEF Resolve
  <2>2. want.ok /\ want.rows = [i \in DOMAIN y |-> first[y[i] + 1]]
    <3> HIDE DEF first
    <3> QED
      BY <1>1, <1>4 DEF Picks
  <2>3. y \in Seq(0..(n - 1)) /\ RowsOf(key, n) = y
    BY <1>4, SliceRows DEF RowsOf
  <2> HIDE DEF y, first
  <2>4. want.rows = y
    <3>1. \A i \in DOMAIN y : y[i] \in 0..(n - 1)
      BY <2>3
    <3>2. y = [i \in DOMAIN y |-> y[i]]
      BY <2>3
    <3> HIDE DEF want
    <3> QED
      BY <1>1, <2>2, <3>1, <3>2
  <2> HIDE DEF want, sel
  <2>5. Stands(sel, n, want)
    BY <1>4, <2>1, <2>2, <2>3, <2>4 DEF Stands, Normal
  <2> QED
    BY <2>5 DEF sel, want, first
<1>5. CASE key.kind = "fancy" /\ key.rows \in Seq(Int)
  <2>1. KeyToViewIndices(key, n) = sel /\ sel = ValidFancy(key.rows, n)
    BY <1>5 DEF KeyToViewIndices, Resolve
  <2>2. IF want.ok THEN KeyFound(key, n, sel) /\ PickedBy(first, sel, want) ELSE sel = Bad
    BY <1>1, <1>5, <2>1, KeyPicks
  <2>3. CASE want.ok
    <3>1. sel # Bad
      BY <2>2, <2>3 DEF KeyFound, Bad
    <3> DEFINE y == [i \in DOMAIN key.rows |-> key.rows[i] % n]
    <3>2. sel = Fancy(y) /\ y \in Seq(0..(n - 1))
      BY <1>5, <2>1, <3>1, FancyStands
    <3> HIDE DEF y, first, want, sel
    <3>3. sel.kind = "fancy" /\ sel.rows = y /\ sel \in [kind : {"fancy"}, rows : Seq(0..(n - 1))]
      BY <3>2 DEF Fancy
    <3>4. want.rows = [i \in DOMAIN y |-> first[y[i] + 1]]
      BY <2>2, <2>3, <3>3 DEF PickedBy
    <3>5. want.rows = y
      <4>1. \A i \in DOMAIN y : y[i] \in 0..(n - 1)
        BY <3>2
      <4>2. y = [i \in DOMAIN y |-> y[i]]
        BY <3>2
      <4> QED
        BY <1>1, <3>4, <4>1, <4>2
    <3>6. RowsOf(sel, n) = y
      BY <3>3 DEF RowsOf
    <3>7. Stands(sel, n, want)
      BY <2>3, <3>3, <3>5, <3>6 DEF Stands, Normal
    <3> QED
      BY <3>7 DEF sel, want, first
  <2> QED
    BY <2>2, <2>3 DEF Stands
<1>6. CASE key.kind = "mask" /\ key \in Masks
  <2> DEFINE y == FlatNonZero(key.bits)
  <2>1. sel = IF Len(key.bits) = n THEN key ELSE Bad
    BY <1>6 DEF Resolve
  <2>2. want = IF Len(key.bits) = n THEN [ok |-> TRUE, rows |-> [i \in 1..Len(y) |-> first[y[i] + 1]]]
                                    ELSE [ok |-> FALSE, rows |-> << >>]
    BY <1>6 DEF Picks
  <2> HIDE DEF y, first, want, sel
  <2>3. CASE Len(key.bits) = n
    <3>1. y \in Seq(0..(n - 1)) /\ DOMAIN y = 1..Len(y) /\ RowsOf(key, n) = y
      BY <1>6, <2>3, SetPlaces DEF y, RowsOf
    <3>2. want.rows = y
      <4>1. \A i \in DOMAIN y : y[i] \in 0..(n - 1)
        BY <3>1
      <4>2. y = [i \in DOMAIN y |-> y[i]]
        BY <3>1
      <4>3. want.rows = [i \in DOMAIN y |-> first[y[i] + 1]]
        BY <2>2, <2>3, <3>1
      <4> QED
        BY <1>1, <4>1, <4>2, <4>3
    <3>3. Stands(sel, n, want)
      BY <1>6, <2>1, <2>2, <2>3, <3>1, <3>2 DEF Stands, Normal
    <3> QED
      BY <3>3 DEF sel, want, first
  <2>4. CASE Len(key.bits) # n
    <3>1. Stands(sel, n, want)
      BY <2>1, <2>2, <2>4 DEF Stands
    <3> QED
      BY <3>1 DEF sel, want, first
  <2> QED
    BY <2>3, <2>4
<1> QED
  BY <1>2, <1>3, <1>4, <1>5, <1>6, SelectorKinds

\* What is normal needs no putting right.
LEMMA NormalStays ==
  ASSUME NEW n \in Nat, NEW sel \in Normal(n)
  PROVE  Resolve(sel, n) = sel
<1>1. CASE sel = All /\ sel.kind = "all"
  BY <1>1 DEF Resolve
<1>2. CASE sel.kind = "row" /\ sel.row \in 0..(n - 1) /\ sel = Row(sel.row)
  <2>1. FoldRow(sel.row, n) = sel.row
    BY <1>2 DEF FoldRow
  <2> QED
    BY <1>2, <2>1 DEF Resolve
<1>3. CASE sel.kind = "slice"
  BY <1>3 DEF Resolve
<1>4. CASE sel.kind = "fancy" /\ sel.rows \in Seq(0..(n - 1)) /\ sel = Fancy(sel.rows)
  <2> DEFINE folded == [i \in DOMAIN sel.rows |-> FoldRow(sel.rows[i], n)]
  <2>1. \A i \in DOMAIN sel.rows : FoldRow(sel.rows[i], n) = sel.rows[i] /\ sel.rows[i] \in 0..(n - 1)
    BY <1>4 DEF FoldRow
  <2>2. folded = sel.rows
    <3>1. sel.rows = [i \in DOMAIN sel.rows |-> sel.rows[i]]
      BY <1>4
    <3> QED
      BY <2>1, <3>1
  <2>3. ValidFancy(sel.rows, n) = Fancy(sel.rows)
    BY <2>1, <2>2 DEF ValidFancy
  <2> QED
    BY <1>4, <2>3 DEF Resolve
<1>5. CASE sel.kind = "mask" /\ Len(sel.bits) = n
  BY <1>5 DEF Resolve
<1> QED
  BY <1>1, <1>2, <1>3, <1>4, <1>5, NormalKinds

\* An array of rows of the table is a normal selector, and stands for them.
LEMMA FancyNormal ==
  ASSUME NEW n \in Nat, NEW rows \in Seq(0..(n - 1))
  PROVE  Fancy(rows) \in Normal(n) /\ RowsOf(Fancy(rows), n) = rows
<1> DEFINE sel == Fancy(rows)
<1>1. sel \in [kind : {"fancy"}, rows : Seq(0..(n - 1))] /\ sel.kind = "fancy" /\ sel.rows = rows
  BY DEF Fancy
<1> HIDE DEF sel
<1>2. sel \in Normal(n) /\ RowsOf(sel, n) = rows
  BY <1>1 DEF Normal, RowsOf
<1> QED
  BY <1>2 DEF sel

\* A row that is there is a normalised selector.
LEMMA RowNormal ==
  ASSUME NEW n \in Nat, NEW r \in 0..(n - 1)
  PROVE  Row(r) \in Normal(n) /\ RowsOf(Row(r), n) = << r >>
<1> DEFINE sel == Row(r)
<1>1. sel \in [kind : {"row"}, row : 0..(n - 1)] /\ sel.kind = "row" /\ sel.row = r
  BY DEF Row
<1> HIDE DEF sel
<1>2. sel \in Normal(n) /\ RowsOf(sel, n) = << r >>
  BY <1>1 DEF Normal, RowsOf
<1> QED
  BY <1>2 DEF sel

\* A key on a selection, with the rows of the selection at hand.
LEMMA ComposedOf ==
  ASSUME NEW n \in Nat, NEW at \in Seq(0..(n - 1)), NEW m \in Nat, Len(at) = m,
         NEW sub, NEW want, NEW part,
         IF want.ok THEN KeyFound(part, m, sub) /\ PickedBy(at, sub, want) ELSE sub = Bad,
         part = CASE sub.kind = "row" -> Row(at[sub.row + 1])
                  [] sub.kind = "fancy" -> Fancy([i \in DOMAIN sub.rows |-> at[sub.rows[i] + 1]])
                  [] OTHER -> Bad
  PROVE  Stands(Resolve(part, n), n, want)
<1>1. CASE ~ want.ok
  <2>1. sub.kind = "bad"
    BY <1>1 DEF Bad
  <2>2. part = Bad
    BY <2>1
  <2>3. Resolve(Bad, n) = Bad
    BY DEF Resolve, Bad
  <2> QED
    BY <1>1, <2>2, <2>3 DEF Stands
<1>2. CASE want.ok /\ sub.kind = "row"
  <2>1. sub.row \in 0..(m - 1) /\ want.rows = << at[sub.row + 1] >>
    BY <1>2 DEF KeyFound, PickedBy
  <2>2. at[sub.row + 1] \in 0..(n - 1)
    <3>1. sub.row + 1 \in 1..m
      BY <2>1
    <3> QED
      BY <3>1
  <2>3. part = Row(at[sub.row + 1])
    BY <1>2
  <2>4. part \in Normal(n) /\ RowsOf(part, n) = << at[sub.row + 1] >>
    BY <2>2, <2>3, RowNormal
  <2>5. Resolve(part, n) = part
    BY <2>4, NormalStays
  <2> QED
    BY <1>2, <2>1, <2>4, <2>5 DEF Stands
<1>3. CASE want.ok /\ sub.kind # "row"
  <2> DEFINE y == [i \in DOMAIN sub.rows |-> at[sub.rows[i] + 1]]
  <2>1. sub.kind = "fancy" /\ sub.rows \in Seq(0..(m - 1)) /\ want.rows = y
    BY <1>3 DEF KeyFound, PickedBy
  <2>2. part = Fancy(y)
    BY <1>3, <2>1
  <2>3. y \in Seq(0..(n - 1))
    <3>1. \A i \in DOMAIN sub.rows : sub.rows[i] + 1 \in 1..m
      BY <2>1
    <3>2. \A i \in DOMAIN sub.rows : at[sub.rows[i] + 1] \in 0..(n - 1)
      BY <3>1
    <3>3. DOMAIN sub.rows = 1..Len(sub.rows) /\ Len(sub.rows) \in Nat
      BY <2>1
    <3> QED
      BY <3>2, <3>3
  <2> HIDE DEF y
  <2>4. part \in Normal(n) /\ RowsOf(part, n) = y
    BY <2>2, <2>3, FancyNormal
  <2>5. Resolve(part, n) = part
    BY <2>4, NormalStays
  <2> QED
    BY <1>3, <2>1, <2>4, <2>5 DEF Stands
<1> QED
  BY <1>1, <1>2, <1>3

\* A selection of a selection stands for what the key picks of its rows.
LEMMA ComposeStands ==
  ASSUME NEW n \in Nat, NEW sel \in Normal(n), NEW key \in Selectors, key.kind # "all"
  PROVE  Stands(Resolve(Compose(sel, key, n), n), n, Picks(RowsOf(sel, n), key))
<1> DEFINE at == RowsOf(sel, n)
           part == Compose(sel, key, n)
           want == Picks(at, key)
<1>1. at \in Seq(0..(n - 1)) /\ Len(at) \in Nat /\ sel.kind # "bad"
  BY NormalRows
<1>2. CASE sel = All /\ sel.kind = "all"
  <2>1. part = key
    BY <1>2 DEF Compose
  <2>2. at = [i \in 1..n |-> i - 1]
    BY <1>2 DEF RowsOf
  <2> QED
    BY <2>1, <2>2, KeyStands
<1>3. CASE sel.kind = "slice" /\ sel \in Slices
  <2> DEFINE x == SliceIndices(sel, n)
             len == RangeLen(x[1], x[2], x[3])
             sub == KeyToViewIndices(key, len)
  <2>1. /\ len \in Nat /\ at = [i \in 1..len |-> x[1] + (i - 1) * x[3]] /\ Len(at) = len
        /\ \A i \in 1..len : x[1] + (i - 1) * x[3] \in 0..(n - 1)
        /\ SliceBounds(x, n)
    <3>1. at = RowsOfSlice(sel, n)
      BY <1>3 DEF RowsOf
    <3>2. /\ len \in Nat /\ RowsOfSlice(sel, n) = [i \in 1..len |-> x[1] + (i - 1) * x[3]]
          /\ Len(RowsOfSlice(sel, n)) = len
          /\ \A i \in 1..len : x[1] + (i - 1) * x[3] \in 0..(n - 1)
      BY <1>3, SliceRows
    <3>3. SliceBounds(x, n)
      BY <1>3, SliceIndicesBound
    <3> HIDE DEF at, x, len
    <3> QED
      BY <3>1, <3>2, <3>3
  <2>2. IF want.ok THEN KeyFound(key, len, sub) /\ PickedBy(at, sub, want)
                   ELSE sub = Bad /\ key.kind # "slice"
    <3> HIDE DEF at, len
    <3> QED
      BY <2>1, KeyPicks
  <2>3. CASE key.kind = "slice" /\ key \in Slices
    <3> DEFINE c == ComposeSlices(x[1], x[3], len, key)
               y == RowsOfSlice(key, len)
    <3>1. part = c
      BY <1>3, <2>3 DEF Compose
    <3>2. c \in Slices /\ RowsOfSlice(c, n) = [i \in 1..Len(y) |-> RowsOfSlice(sel, n)[y[i] + 1]]
      BY <1>3, <2>3, SliceOfSlice
    <3>3. y \in Seq(0..(len - 1))
      BY <2>1, <2>3, SliceRows
    <3>4. at = RowsOfSlice(sel, n)
      BY <1>3 DEF RowsOf
    <3> HIDE DEF c, len, at
    <3>5. want.ok /\ want.rows = [i \in DOMAIN y |-> at[y[i] + 1]]
      <4>1. Len(at) = len
        BY <2>1
      <4> QED
        BY <2>3, <4>1 DEF Picks
    <3> HIDE DEF y, x, want
    <3>6. c.kind = "slice" /\ c \in Normal(n)
      BY <3>2 DEF Slices, Normal
    <3>7. RowsOf(c, n) = RowsOfSlice(c, n) /\ Resolve(c, n) = c
      BY <3>6, NormalStays DEF RowsOf
    <3>8. DOMAIN y = 1..Len(y)
      BY <3>3
    <3>9. RowsOf(c, n) = want.rows
      BY <3>2, <3>4, <3>5, <3>7, <3>8
    <3>10. Stands(Resolve(part, n), n, want)
      <4> HIDE DEF part
      <4> QED
        BY <3>1, <3>5, <3>6, <3>7, <3>9 DEF Stands
    <3> QED
      BY <3>10 DEF want, at
  <2>4. CASE key.kind # "slice"
    <3>1. part = CASE sub.kind = "row" -> Row(x[1] + sub.row * x[3])
                   [] sub.kind = "fancy" -> Fancy([i \in DOMAIN sub.rows |-> x[1] + sub.rows[i] * x[3]])
                   [] OTHER -> Bad
      BY <1>3, <2>4 DEF Compose
    <3> HIDE DEF sub, len, at, x, want, part
    <3>2. \A r \in 0..(len - 1) : at[r + 1] = x[1] + r * x[3]
      <4> TAKE r \in 0..(len - 1)
      <4>1. r + 1 \in 1..len /\ (r + 1) - 1 = r
        BY <2>1
      <4> QED
        BY <2>1, <4>1
    <3>3. part = CASE sub.kind = "row" -> Row(at[sub.row + 1])
                   [] sub.kind = "fancy" -> Fancy([i \in DOMAIN sub.rows |-> at[sub.rows[i] + 1]])
                   [] OTHER -> Bad
      <4>1. CASE ~ want.ok
        <5>1. sub.kind = "bad"
          BY <2>2, <4>1 DEF Bad
        <5> QED
          BY <3>1, <5>1
      <4>2. CASE want.ok /\ sub.kind = "row"
        <5>1. sub.row \in 0..(len - 1)
          BY <2>2, <4>2 DEF KeyFound
        <5> QED
          BY <3>1, <3>2, <4>2, <5>1
      <4>3. CASE want.ok /\ sub.kind # "row"
        <5>1. sub.kind = "fancy" /\ sub.rows \in Seq(0..(len - 1))
          BY <2>2, <4>3 DEF KeyFound
        <5>2. \A i \in DOMAIN sub.rows : sub.rows[i] \in 0..(len - 1)
          BY <2>1, <5>1
        <5>3. [i \in DOMAIN sub.rows |-> x[1] + sub.rows[i] * x[3]] = [i \in DOMAIN sub.rows |-> at[sub.rows[i] + 1]]
          BY <3>2, <5>2
        <5> QED
          BY <3>1, <5>1, <5>3
      <4> QED
        BY <4>1, <4>2, <4>3
    <3>4. IF want.ok THEN KeyFound(part, len, sub) /\ PickedBy(at, sub, want) ELSE sub = Bad
      BY <2>2 DEF KeyFound
    <3>5. Stands(Resolve(part, n), n, want)
      BY <1>1, <2>1, <3>3, <3>4, ComposedOf
    <3> QED
      BY <3>5 DEF part, want, at
  <2> QED
    BY <2>3, <2>4, SelectorKinds
<1>4. CASE sel.kind \in {"row", "fancy", "mask"}
  <2> DEFINE sub == KeyToViewIndices(key, Len(at))
  <2>1. part = CASE sub.kind = "row" -> Row(at[sub.row + 1])
                 [] sub.kind = "fancy" -> Fancy([i \in DOMAIN sub.rows |-> at[sub.rows[i] + 1]])
                 [] OTHER -> Bad
    BY <1>4 DEF Compose
  <2>2. IF want.ok THEN KeyFound(key, Len(at), sub) /\ PickedBy(at, sub, want)
                   ELSE sub = Bad /\ key.kind # "slice"
    <3> HIDE DEF at
    <3> QED
      BY <1>1, KeyPicks
  <2> HIDE DEF sub, at, want, part
  <2>3. IF want.ok THEN KeyFound(part, Len(at), sub) /\ PickedBy(at, sub, want) ELSE sub = Bad
    BY <2>2 DEF KeyFound
  <2>4. Stands(Resolve(part, n), n, want)
    BY <1>1, <2>1, <2>3, ComposedOf
  <2> QED
    BY <2>4 DEF part, want, at
<1> QED
  BY <1>2, <1>3, <1>4, NormalKinds

\* A range of step 1 within the table.
LEMMA UnitSlice ==
  ASSUME NEW n \in Nat, NEW a \in 0..n, NEW b \in Nat, a <= b
  PROVE  LET c == Slice(a, b, 1)
             m == Least(b, n) - a
         IN  /\ c \in Slices
             /\ m \in Nat => RowsOfSlice(c, n) = [i \in 1..m |-> a + i - 1]
<1> DEFINE c == Slice(a, b, 1)
           x == SliceIndices(c, n)
           m == Least(b, n) - a
<1>1. c \in Slices /\ c.start = a /\ c.stop = b /\ c.step = 1
  BY DEF Slice, Slices
<1>2. a # None /\ b # None
  BY NoneAssumption
<1> HIDE DEF c
<1>3. x[1] = a /\ x[2] = Least(b, n) /\ x[3] = 1
  BY <1>1, <1>2 DEF SliceIndices, Least
<1>4. ASSUME m \in Nat PROVE RowsOfSlice(c, n) = [i \in 1..m |-> a + i - 1]
  <2>1. RangeLen(a, Least(b, n), 1) = m
    <3> DEFINE l == Least(b, n)
    <3>1. l \in Int /\ l - a = m /\ l - a + 1 - 1 = m
      BY DEF Least
    <3> HIDE DEF l, m
    <3>2. m \div 1 = m /\ m >= 0
      BY <1>4
    <3>3. RangeLen(a, l, 1) = m
      BY <3>1, <3>2 DEF RangeLen, Most
    <3> QED
      BY <3>3 DEF l
  <2> HIDE DEF m
  <2>2. RowsOfSlice(c, n) = [i \in 1..m |-> a + (i - 1) * 1]
    BY <1>3, <2>1 DEF RowsOfSlice, Range3
  <2>3. \A i \in 1..m : a + (i - 1) * 1 = a + i - 1
    OBVIOUS
  <2> QED
    BY <2>2, <2>3
<1> QED
  BY <1>1, <1>4 DEF c

\* Part of a sequence has elements of the same set.
LEMMA SubSeqIn ==
  ASSUME NEW S, NEW s \in Seq(S), NEW a \in Nat \ {0}, NEW b \in Nat, b <= Len(s)
  PROVE  SubSeq(s, a, b) \in Seq(S)
  OBVIOUS

\* The first of one is that one.
LEMMA OneAlone == ASSUME NEW r PROVE SubSeq(<< r >>, 1, 1) = << r >>
<1> DEFINE s == << r >>
<1>1. s \in Seq({r}) /\ Len(s) = 1 /\ s[1] = r
  OBVIOUS
<1>2. SubSeq(s, 1, 1) = [i \in 1..1 |-> s[i]]
  <2> HIDE DEF s
  <2> QED
    BY <1>1
<1>3. s = [i \in 1..1 |-> s[i]]
  <2> HIDE DEF s
  <2> QED
    BY <1>1
<1> QED
  BY <1>2, <1>3

\* The head and the tail of a view stand for the first and the last of its rows.
LEMMA HeadStands ==
  ASSUME NEW n \in Nat, NEW sel \in Normal(n), NEW k \in Nat \ {0}, NEW want, want.ok,
         want.rows = SubSeq(RowsOf(sel, n), 1, Least(k, Len(RowsOf(sel, n))))
  PROVE  Stands(Resolve(HeadRows(sel, k, n), n), n, want)
<1> DEFINE at == RowsOf(sel, n)
           part == HeadRows(sel, k, n)
<1>1. at \in Seq(0..(n - 1)) /\ Len(at) \in Nat
  BY NormalRows
<1>2. SUFFICES part \in Normal(n) /\ RowsOf(part, n) = SubSeq(at, 1, Least(k, Len(at)))
  BY NormalStays DEF Stands
<1>3. CASE sel = All /\ sel.kind = "all"
  <2>1. part = Slice(0, k, 1) /\ at = [i \in 1..n |-> i - 1]
    BY <1>3 DEF HeadRows, RowsOf
  <2>2. Least(k, n) \in Nat /\ Least(k, n) - 0 = Least(k, n) /\ Least(k, n) <= n
    BY DEF Least
  <2>3. part \in Slices /\ RowsOfSlice(part, n) = [i \in 1..Least(k, n) |-> 0 + i - 1]
    <3>1. 0 \in 0..n /\ k \in Nat /\ 0 <= k /\ Least(k, n) - 0 \in Nat
      BY <2>2
    <3> QED
      BY <2>1, <2>2, <3>1, UnitSlice
  <2> HIDE DEF part
  <2>4. part \in Normal(n) /\ RowsOf(part, n) = RowsOfSlice(part, n)
    BY <2>3 DEF Normal, RowsOf, Slices
  <2>5. SubSeq(at, 1, Least(k, Len(at))) = [i \in 1..Least(k, n) |-> 0 + i - 1]
    <3>1. Len(at) = n /\ at \in Seq(Int)
      BY <2>1
    <3> DEFINE l == Least(k, n)
    <3> HIDE DEF l
    <3>2. SubSeq(at, 1, l) = [i \in 1..l |-> at[i]]
      BY <2>2, <3>1 DEF l
    <3>3. \A i \in 1..l : at[i] = 0 + i - 1
      BY <2>1, <2>2 DEF l
    <3> QED
      BY <3>1, <3>2, <3>3 DEF l
  <2> QED
    BY <2>3, <2>4, <2>5
<1>4. CASE sel.kind = "row" /\ sel.row \in 0..(n - 1)
  <2>1. part = sel /\ at = << sel.row >>
    BY <1>4 DEF HeadRows, RowsOf
  <2>2. Len(at) = 1 /\ Least(k, 1) = 1
    BY <2>1 DEF Least
  <2>3. SubSeq(at, 1, 1) = at
    BY <2>1, OneAlone
  <2> QED
    BY <2>1, <2>2, <2>3
<1>5. CASE sel.kind \in {"slice", "fancy", "mask"}
  <2>1. part = Fancy(SubSeq(at, 1, Least(k, Len(at))))
    BY <1>5 DEF HeadRows
  <2> HIDE DEF at
  <2>2. Least(k, Len(at)) \in Nat /\ Least(k, Len(at)) <= Len(at)
    BY <1>1 DEF Least
  <2>3. SubSeq(at, 1, Least(k, Len(at))) \in Seq(0..(n - 1))
    BY <1>1, <2>2, SubSeqIn
  <2> QED
    BY <2>1, <2>3, FancyNormal
<1> QED
  BY <1>3, <1>4, <1>5, NormalKinds

\* The last rows of a selection stand for the last of its rows.
LEMMA TailStands ==
  ASSUME NEW n \in Nat, NEW sel \in Normal(n), NEW k \in Nat \ {0}, NEW want, want.ok,
         want.rows = SubSeq(RowsOf(sel, n), Most(0, Len(RowsOf(sel, n)) - k) + 1, Len(RowsOf(sel, n)))
  PROVE  Stands(Resolve(TailRows(sel, k, n), n), n, want)
<1> DEFINE at == RowsOf(sel, n)
           part == TailRows(sel, k, n)
<1>1. at \in Seq(0..(n - 1)) /\ Len(at) \in Nat
  BY NormalRows
<1>2. SUFFICES part \in Normal(n) /\ RowsOf(part, n) = SubSeq(at, Most(0, Len(at) - k) + 1, Len(at))
  BY NormalStays DEF Stands
<1>3. CASE sel = All /\ sel.kind = "all"
  <2> DEFINE a == Most(0, n - k)
  <2>1. part = Slice(a, n, 1) /\ at = [i \in 1..n |-> i - 1]
    BY <1>3 DEF TailRows, RowsOf
  <2>2. a \in 0..n /\ a <= n /\ Least(n, n) = n /\ n - a \in Nat
    BY DEF Most, Least
  <2> HIDE DEF a
  <2>3. part \in Slices /\ RowsOfSlice(part, n) = [i \in 1..(n - a) |-> a + i - 1]
    BY <2>1, <2>2, UnitSlice
  <2> HIDE DEF part
  <2>4. part \in Normal(n) /\ RowsOf(part, n) = RowsOfSlice(part, n)
    BY <2>3 DEF Normal, RowsOf, Slices
  <2>5. SubSeq(at, a + 1, n) = [i \in 1..(n - a) |-> a + i - 1]
    <3>1. Len(at) = n /\ at \in Seq(Int)
      BY <2>1
    <3>2. SubSeq(at, a + 1, n) = [i \in 1..(n - a) |-> at[a + i]]
      <4>1. SubSeq(at, a + 1, n) = [i \in 1..(1 + n - (a + 1)) |-> at[i + (a + 1) - 1]]
        BY <2>2, <3>1
      <4>2. 1 + n - (a + 1) = n - a /\ \A i \in 1..(n - a) : i + (a + 1) - 1 = a + i
        BY <2>2
      <4> HIDE DEF at
      <4> QED
        BY <4>1, <4>2
    <3>3. \A i \in 1..(n - a) : at[a + i] = a + i - 1
      BY <2>1, <2>2
    <3> QED
      BY <3>2, <3>3
  <2>6. Most(0, Len(at) - k) = a /\ Len(at) = n
    BY <2>1 DEF a
  <2> QED
    BY <2>3, <2>4, <2>5, <2>6
<1>4. CASE sel.kind = "row" /\ sel.row \in 0..(n - 1)
  <2>1. part = sel /\ at = << sel.row >>
    BY <1>4 DEF TailRows, RowsOf
  <2>2. Len(at) = 1 /\ Most(0, 1 - k) + 1 = 1
    BY <2>1 DEF Most
  <2>3. SubSeq(at, 1, 1) = at
    BY <2>1, OneAlone
  <2> QED
    BY <2>1, <2>2, <2>3
<1>5. CASE sel.kind \in {"slice", "fancy", "mask"}
  <2>1. part = Fancy(SubSeq(at, Most(0, Len(at) - k) + 1, Len(at)))
    BY <1>5 DEF TailRows
  <2> HIDE DEF at
  <2>2. Most(0, Len(at) - k) + 1 \in Nat \ {0}
    BY <1>1 DEF Most
  <2>3. SubSeq(at, Most(0, Len(at) - k) + 1, Len(at)) \in Seq(0..(n - 1))
    BY <1>1, <2>2, SubSeqIn
  <2> QED
    BY <2>1, <2>3, FancyNormal
<1> QED
  BY <1>3, <1>4, <1>5, NormalKinds

------------------------------------------------------------------------------
(* Elements in memory *)

\* The parts of the files' declarations that the rest needs.
LEMMA FileFields ==
  ASSUME NEW f \in Files
  PROVE  /\ Columns[f] \in ColumnSeqs /\ Columns[f] # << >>
         /\ Records[f] \in Seq(Nat) /\ Len(Records[f]) \in Nat \ {0}
         /\ \A r \in 1..Len(Records[f]) : Records[f][r] \in Nat
         /\ Preamble \in Nat /\ HeaderCells \in Nat \ {0} /\ BodyAlign \in Nat \ {0}
         /\ Span \in Nat \ {0}
<1>1. /\ Records[f] \in Seq(Nat) /\ Len(Records[f]) > 0 /\ Len(Columns[f]) > 0
      /\ Columns[f] \in Seq([name : STRING, size : Nat \ {0}])
      /\ Preamble \in Nat /\ HeaderCells \in Nat \ {0} /\ BodyAlign \in Nat \ {0}
      /\ Span \in Nat \ {0}
  BY LayoutAssumption
<1>2. Columns[f] \in ColumnSeqs /\ Columns[f] # << >>
  BY <1>1, EmptySeq DEF ColumnSeqs
<1> QED
  BY <1>1, <1>2

\* The records before one have so many rows.
LEMMA FirstRowType ==
  ASSUME NEW f \in Files, NEW r \in 0..Len(Records[f])
  PROVE  Total(SubSeq(Records[f], 1, r)) \in Nat
<1> DEFINE s == SubSeq(Records[f], 1, r)
<1>1. r \in Nat /\ Len(s) = r /\ \A i \in 1..r : s[i] \in Nat
  BY FileFields
<1> HIDE DEF s
<1>2. Total(s) \in Nat
  BY <1>1, TotalNat
<1> QED
  BY <1>2 DEF s

\* A file has a number of rows.
LEMMA RowsInType == ASSUME NEW f \in Files PROVE RowsIn(f) \in Nat
  BY FileFields, TotalNat DEF RowsIn

\* A record of a file.
LEMMA RecordParts ==
  ASSUME NEW f \in Files, NEW r \in 1..Len(Records[f])
  PROVE  /\ FirstRowOf(f, r) \in Nat
         /\ RecordOf(f, r) \in Seq(CellType)
         /\ Len(RecordOf(f, r)) = BodySize(f, r) + HeaderCells
<1>1. FirstRowOf(f, r) \in Nat
  <2>1. r - 1 \in 0..Len(Records[f])
    BY FileFields
  <2> QED
    BY <2>1, FirstRowType DEF FirstRowOf
<1> DEFINE columns == Columns[f]  m == Records[f][r]  first == FirstRowOf(f, r)
<1>2. /\ columns \in ColumnSeqs /\ columns # << >> /\ m \in Nat /\ first \in Int
      /\ HeaderCells \in Nat /\ BodyAlign \in Nat \ {0}
  BY <1>1, FileFields
<1>3. RecordOf(f, r) = LaidOut(columns, m, first, HeaderCells, BodyAlign)
      /\ BodySize(f, r) = BodyRoom(columns, m, BodyAlign)
  BY DEF RecordOf, BodySize
<1> HIDE DEF columns, m, first
<1>4. LaidOut(columns, m, first, HeaderCells, BodyAlign) \in Seq(CellType)
  BY <1>2, RecordLength
<1>5. Len(LaidOut(columns, m, first, HeaderCells, BodyAlign)) = BodyRoom(columns, m, BodyAlign) + HeaderCells
  BY <1>2, RecordLengths, Zenon
<1> QED
  BY <1>1, <1>3, <1>4, <1>5

\* A cell of a record is in the file behind the records before it.
LEMMA CellInImage ==
  ASSUME NEW f \in Files, NEW r \in 1..Len(Records[f]), NEW i \in 1..Len(RecordOf(f, r))
  PROVE  LET at == RecordStartsBytes[f][r - 1] - HeaderCells + i
         IN  at \in 1..Len(Image[f]) /\ Image[f][at] = RecordOf(f, r)[i]
<1> DEFINE n == Len(Records[f])
           s == [q \in DOMAIN Records[f] |-> RecordOf(f, q)]
           sizes == [q \in 1..(r - 1) |-> BodySize(f, q) + HeaderCells]
<1>1. n \in Nat \ {0} /\ DOMAIN Records[f] = 1..n /\ Preamble \in Nat /\ HeaderCells \in Nat
  BY FileFields
<1>2. SeqsOf(CellType, s, n)
  <2>1. Len(s) = n
    BY <1>1
  <2>2. \A q \in 1..n : s[q] \in Seq(CellType)
    BY <1>1, RecordParts
  <2> HIDE DEF s
  <2> QED
    BY <1>1, <2>1, <2>2 DEF SeqsOf
<1>3. \A q \in 1..n : s[q] = RecordOf(f, q) /\ Len(s[q]) = BodySize(f, q) + HeaderCells
  BY <1>1, RecordParts
<1>4. RecordStartsBytes[f][r - 1] = Preamble + HeaderCells + Total(sizes)
  <2>1. r - 1 \in 0..(n - 1)
    BY <1>1
  <2> QED
    BY <2>1 DEF RecordStartsBytes
<1>5. Image[f] = Gap(Preamble) \o FlattenSeq(s)
  BY Zenon DEF Image, Cells, s
<1> HIDE DEF s
<1>6. /\ Total(LengthsTo(s, r - 1)) + i \in 1..Len(FlattenSeq(s))
      /\ FlattenSeq(s)[Total(LengthsTo(s, r - 1)) + i] = s[r][i]
  <2>1. r \in 1..n /\ i \in 1..Len(s[r])
    BY <1>3
  <2> HIDE DEF n
  <2> QED
    BY <1>2, <2>1, FlatPlace
<1>7. FlattenSeq(s) \in Seq(CellType)
  BY <1>2, FlatLength
<1>8. Total(LengthsTo(s, r - 1)) = Total(sizes) /\ Total(sizes) \in Int
  <2>1. /\ r - 1 \in Nat /\ Len(LengthsTo(s, r - 1)) = r - 1 /\ Len(sizes) = r - 1
        /\ \A q \in 1..(r - 1) : LengthsTo(s, r - 1)[q] = sizes[q] /\ sizes[q] \in Nat
    <3>1. r \in 1..n /\ r - 1 \in Nat
      BY <1>1
    <3>2. \A q \in 1..(r - 1) : q \in 1..n
      BY <1>1
    <3>3. \A q \in 1..n : Len(s[q]) \in Nat
      BY <1>2 DEF SeqsOf
    <3> QED
      BY <1>3, <3>1, <3>2, <3>3 DEF LengthsTo
  <2> HIDE DEF sizes
  <2>2. Total(LengthsTo(s, r - 1)) = Total(sizes)
    BY <2>1, TotalSame
  <2>3. Total(sizes) \in Nat
    BY <2>1, TotalNat
  <2> QED
    BY <2>2, <2>3
<1> HIDE DEF sizes, n
<1>9. Gap(Preamble) \in Seq(CellType) /\ Len(Gap(Preamble)) = Preamble
  BY <1>1, GapCells
<1>10. RecordStartsBytes[f][r - 1] - HeaderCells + i = Preamble + (Total(LengthsTo(s, r - 1)) + i)
  BY <1>1, <1>4, <1>8
<1>11. \A j \in 1..Len(FlattenSeq(s)) :
         /\ Preamble + j \in 1..Len(Gap(Preamble) \o FlattenSeq(s))
         /\ (Gap(Preamble) \o FlattenSeq(s))[Preamble + j] = FlattenSeq(s)[j]
  BY <1>1, <1>7, <1>9
<1>12. s[r] = RecordOf(f, r)
  BY <1>3 DEF n
<1> QED
  BY <1>5, <1>6, <1>10, <1>11, <1>12

\* The name of a column says where it is in a row.
LEMMA ColumnNamed ==
  ASSUME NEW f \in Files, NEW c \in NamesOf(f)
  PROVE  \E k \in 1..Len(Columns[f]) :
           /\ Columns[f][k].name = c /\ Size(f, c) = Columns[f][k].size
           /\ ColumnPrefix(f, c) = Total([j \in 1..(k - 1) |-> Columns[f][j].size])
<1> DEFINE columns == Columns[f]  n == Len(Columns[f])
<1>1. /\ n \in Nat /\ DOMAIN columns = 1..n
      /\ \A k \in 1..n : columns[k].name \in STRING /\ columns[k].size \in Nat \ {0}
  BY FileFields, ColumnFields
<1>2. \A i, j \in 1..n : columns[i].name = columns[j].name => i = j
  BY <1>1, LayoutAssumption
<1>3. PICK k \in 1..n : columns[k].name = c
  BY <1>1 DEF NamesOf, ToSet
<1>4. Size(f, c) = columns[k].size
  <2>1. columns[k] \in ToSet(columns) /\ columns[k].name = c
    BY <1>1, <1>3 DEF ToSet
  <2>2. \A x \in ToSet(columns) : x.name = c => x = columns[k]
    BY <1>1, <1>2, <1>3 DEF ToSet
  <2>3. (CHOOSE x \in ToSet(columns) : x.name = c) = columns[k]
    BY <2>1, <2>2
  <2> QED
    BY <2>3 DEF Size, ColumnOf
<1> DEFINE before(x) == \E i, j \in DOMAIN columns : i < j /\ columns[i] = x /\ columns[j].name = c
           all == [i \in DOMAIN columns |-> IF before(columns[i]) THEN columns[i].size ELSE 0]
           sizes == [i \in 1..n |-> columns[i].size]
<1>5. \A i \in 1..n : before(columns[i]) <=> i <= k - 1
  <2> TAKE i \in 1..n
  <2>1. ASSUME before(columns[i]) PROVE i <= k - 1
    <3>1. PICK i2, j \in 1..n : i2 < j /\ columns[i2] = columns[i] /\ columns[j].name = c
      BY <1>1, <2>1
    <3>2. i2 = i /\ j = k
      BY <1>2, <1>3, <3>1
    <3> QED
      BY <1>1, <3>1, <3>2
  <2>2. ASSUME i <= k - 1 PROVE before(columns[i])
    <3>1. i < k
      BY <1>1, <2>2
    <3> QED
      BY <1>1, <1>3, <3>1
  <2> QED
    BY <2>1, <2>2
<1>6. all = [i \in 1..n |-> IF i <= k - 1 THEN sizes[i] ELSE 0]
  <2>1. \A i \in 1..n : all[i] = IF i <= k - 1 THEN sizes[i] ELSE 0
    BY <1>1, <1>5
  <2>2. all = [i \in 1..n |-> all[i]]
    BY <1>1
  <2> HIDE DEF all, sizes
  <2> QED
    BY <2>1, <2>2
<1>7. Len(sizes) = n /\ \A i \in 1..n : sizes[i] = columns[i].size /\ sizes[i] \in Nat
  BY <1>1
<1>8. ColumnPrefix(f, c) = Total(all)
  BY DEF ColumnPrefix
<1> HIDE DEF all, sizes, columns, n
<1>9. k - 1 \in 0..n /\ \A i \in 1..(k - 1) : i \in 1..n
  BY <1>1
<1>10. Total(all) = Total([i \in 1..(k - 1) |-> sizes[i]])
  BY <1>1, <1>6, <1>7, <1>9, TotalUpTo
<1>11. [i \in 1..(k - 1) |-> sizes[i]] = [i \in 1..(k - 1) |-> columns[i].size]
  BY <1>7, <1>9
<1>12. /\ columns[k].name = c /\ Size(f, c) = columns[k].size
       /\ ColumnPrefix(f, c) = Total([i \in 1..(k - 1) |-> columns[i].size])
  BY <1>3, <1>4, <1>8, <1>10, <1>11
<1> QED
  BY <1>12 DEF columns, n

\* A column's prefix is a number.
LEMMA PrefixType ==
  ASSUME NEW f \in Files, NEW c \in NamesOf(f)
  PROVE  ColumnPrefix(f, c) \in Nat
<1>1. PICK k \in 1..Len(Columns[f]) :
        ColumnPrefix(f, c) = Total([j \in 1..(k - 1) |-> Columns[f][j].size])
  BY ColumnNamed
<1> DEFINE sizes == [j \in 1..(k - 1) |-> Columns[f][j].size]
<1>2. Len(sizes) = k - 1 /\ k - 1 \in Nat /\ \A j \in 1..(k - 1) : sizes[j] \in Nat
  BY FileFields, ColumnFields
<1> HIDE DEF sizes
<1>3. Total(sizes) \in Nat
  BY <1>2, TotalNat
<1> QED
  BY <1>1, <1>3 DEF sizes

\* A record starts somewhere.
LEMMA StartsType ==
  ASSUME NEW f \in Files, NEW r \in 1..Len(Records[f])
  PROVE  RecordStartsBytes[f][r - 1] \in Int
<1>1. r - 1 \in 0..(Len(Records[f]) - 1) /\ r - 1 \in Nat /\ Preamble \in Int
  BY FileFields
<1> DEFINE sizes == [q \in 1..(r - 1) |-> BodySize(f, q) + HeaderCells]
<1>2. Len(sizes) = r - 1 /\ \A q \in 1..(r - 1) : sizes[q] \in Nat
  <2>1. \A q \in 1..(r - 1) : q \in 1..Len(Records[f])
    BY FileFields
  <2>2. \A q \in 1..Len(Records[f]) : BodySize(f, q) + HeaderCells \in Nat
    BY RecordParts, LenProperties
  <2> QED
    BY <1>1, <2>1, <2>2
<1> HIDE DEF sizes
<1>3. Total(sizes) \in Nat
  BY <1>1, <1>2, TotalNat
<1>4. RecordStartsBytes[f][r - 1] = Preamble + HeaderCells + Total(sizes)
  BY <1>1 DEF RecordStartsBytes, sizes
<1> QED
  BY <1>1, <1>3, <1>4, FileFields

\* The element of row i of a record, in column c, is at these cells of its file.
LEMMA ElementInImage ==
  ASSUME NEW f \in Files, NEW c \in NamesOf(f), NEW r \in 1..Len(Records[f]),
         NEW i \in 1..Records[f][r], NEW p \in 1..Size(f, c)
  PROVE  LET at == RecordStartsBytes[f][r - 1] + ColumnPrefix(f, c) * Records[f][r]
                     + (i - 1) * Size(f, c) + p
         IN  /\ at \in 1..Len(Image[f])
             /\ Image[f][at] = << FirstRowOf(f, r) + i - 1, c, p - 1 >>
<1> DEFINE columns == Columns[f]  m == Records[f][r]  first == FirstRowOf(f, r)
<1>1. PICK k \in 1..Len(columns) :
           /\ columns[k].name = c /\ Size(f, c) = columns[k].size
           /\ ColumnPrefix(f, c) = Total([j \in 1..(k - 1) |-> columns[j].size])
  BY ColumnNamed
<1>2. /\ columns \in ColumnSeqs /\ columns # << >> /\ m \in Nat /\ first \in Int
      /\ HeaderCells \in Nat /\ BodyAlign \in Nat \ {0}
  BY FileFields, RecordParts
<1>3. columns[k].size \in Nat \ {0}
  BY <1>2, ColumnFields
<1>4. RecordOf(f, r) = LaidOut(columns, m, first, HeaderCells, BodyAlign)
  BY DEF RecordOf
<1>5. RecordStartsBytes[f][r - 1] \in Int
  BY StartsType
<1> DEFINE prefix == Total([j \in 1..(k - 1) |-> columns[j].size])
           z == columns[k].size
           q == m * prefix + (i - 1) * z + p
<1>6. /\ q \in 1..Len(BodyCells(columns, m, first))
      /\ BodyCells(columns, m, first)[q] = << first + i - 1, columns[k].name, p - 1 >>
  <2>1. i \in 1..m /\ p \in 1..columns[k].size
    BY <1>1
  <2> HIDE DEF columns, m, first
  <2>2. InBody(columns, m, first, k, i, p)
    BY <1>2, <2>1, ElementInBody
  <2> QED
    BY <2>2 DEF InBody
<1>7. prefix \in Nat
  BY <1>1, PrefixType
<1>8. z \in Int /\ q = m * prefix + (i - 1) * z + p /\ z = Size(f, c) /\ prefix = ColumnPrefix(f, c)
  BY <1>1, <1>3
<1>9. m = Records[f][r] /\ first = FirstRowOf(f, r)
  OBVIOUS
<1> HIDE DEF columns, m, first, prefix, z, q
<1>10. /\ LaidOut(columns, m, first, HeaderCells, BodyAlign)[HeaderCells + q]
            = << first + i - 1, columns[k].name, p - 1 >>
       /\ HeaderCells + q \in 1..Len(RecordOf(f, r))
  <2>1. \A j \in 1..Len(BodyCells(columns, m, first)) :
          LaidOut(columns, m, first, HeaderCells, BodyAlign)[HeaderCells + j] = BodyCells(columns, m, first)[j]
    BY <1>2, RecordBody
  <2>2. Len(LaidOut(columns, m, first, HeaderCells, BodyAlign)) = BodyRoom(columns, m, BodyAlign) + HeaderCells
    BY <1>2, RecordLengths, Zenon
  <2>3. /\ BodyRoom(columns, m, BodyAlign) \in Nat /\ Len(BodyCells(columns, m, first)) \in Nat
        /\ BodyRoom(columns, m, BodyAlign) >= Len(BodyCells(columns, m, first))
    BY <1>2, BodyFits
  <2>4. Len(RecordOf(f, r)) = BodyRoom(columns, m, BodyAlign) + HeaderCells
    BY <1>4, <2>2
  <2>5. HeaderCells + q \in 1..(BodyRoom(columns, m, BodyAlign) + HeaderCells)
    BY <1>2, <1>6, <2>3
  <2> QED
    BY <1>6, <2>1, <2>4, <2>5
<1> DEFINE at == RecordStartsBytes[f][r - 1] - HeaderCells + (HeaderCells + q)
<1>11. at \in 1..Len(Image[f]) /\ Image[f][at] = RecordOf(f, r)[HeaderCells + q]
  BY <1>10, CellInImage
<1>12. at = RecordStartsBytes[f][r - 1] + ColumnPrefix(f, c) * Records[f][r] + (i - 1) * Size(f, c) + p
  <2>1. m * prefix = prefix * m /\ m * prefix \in Int /\ (i - 1) * z \in Int
    BY <1>2, <1>7, <1>8
  <2>2. at = RecordStartsBytes[f][r - 1] + prefix * m + (i - 1) * z + p
    <3>1. PICK start \in Int : start = RecordStartsBytes[f][r - 1]
      BY <1>5
    <3>2. PICK a \in Int, b \in Int : a = m * prefix /\ b = (i - 1) * z
      BY <2>1
    <3>3. p \in Int /\ q = a + b + p /\ HeaderCells \in Int /\ prefix * m = a
      BY <1>2, <1>8, <2>1, <3>2
    <3>4. start - HeaderCells + (HeaderCells + q) = start + a + b + p
      BY <3>3
    <3> QED
      BY <3>1, <3>2, <3>3, <3>4
  <2> HIDE DEF at
  <2> QED
    BY <1>8, <1>9, <2>2
<1>13. Image[f][at] = << FirstRowOf(f, r) + i - 1, c, p - 1 >>
  BY <1>1, <1>4, <1>9, <1>10, <1>11 DEF columns
<1> HIDE DEF at
<1> QED
  BY <1>11, <1>12, <1>13

\* A file is a sequence of cells and fits between two mappings.
LEMMA ImageFits ==
  ASSUME NEW f \in Files
  PROVE  Image[f] \in Seq(CellType) /\ Len(Image[f]) <= Span
<1> DEFINE n == Len(Records[f])
           s == [q \in DOMAIN Records[f] |-> RecordOf(f, q)]
<1>1. n \in Nat \ {0} /\ DOMAIN Records[f] = 1..n /\ Preamble \in Nat
  BY FileFields
<1>2. SeqsOf(CellType, s, n)
  <2>1. Len(s) = n
    BY <1>1
  <2>2. \A q \in 1..n : s[q] \in Seq(CellType)
    BY <1>1, RecordParts
  <2> HIDE DEF s
  <2> QED
    BY <1>1, <2>1, <2>2 DEF SeqsOf
<1>3. Image[f] = Gap(Preamble) \o FlattenSeq(s)
  BY Zenon DEF Image, Cells, s
<1> HIDE DEF s, n
<1>4. FlattenSeq(s) \in Seq(CellType) /\ Gap(Preamble) \in Seq(CellType)
  BY <1>1, <1>2, FlatLength, GapCells
<1>5. Gap(Preamble) \o FlattenSeq(s) \in Seq(CellType)
  BY <1>4
<1> QED
  BY <1>3, <1>5, SpanAssumption

\* A cell as a load through a handle gives it.
LEMMA Prepended ==
  ASSUME NEW h, NEW a, NEW b, NEW d
  PROVE  << h >> \o << a, b, d >> = << h, a, b, d >>
<1> DEFINE T == {h, a, b, d}
<1>1. << h >> \in Seq(T) /\ << a, b, d >> \in Seq(T) /\ << h, a, b, d >> \in Seq(T)
  OBVIOUS
<1> HIDE DEF T
<1>2. Len(<< h >>) = 1 /\ Len(<< a, b, d >>) = 3 /\ Len(<< h, a, b, d >>) = 4
  OBVIOUS
<1>3. << h >> \o << a, b, d >> \in Seq(T) /\ Len(<< h >> \o << a, b, d >>) = 4
  BY <1>1, <1>2
<1>4. \A i \in 1..4 : (<< h >> \o << a, b, d >>)[i] = << h, a, b, d >>[i]
  <2>1. \A i \in 1..4 : (<< h >> \o << a, b, d >>)[i] = IF i <= 1 THEN << h >>[i] ELSE << a, b, d >>[i - 1]
    BY <1>1, <1>2, ConcatProperties
  <2>2. \A i \in 1..4 : i = 1 \/ i = 2 \/ i = 3 \/ i = 4
    OBVIOUS
  <2> QED
    BY <2>1, <2>2
<1> QED
  BY <1>1, <1>2, <1>3, <1>4, SeqEqual

\* A cell of a file that is mapped.
LEMMA CellMapped ==
  ASSUME NEW maps, NEW h \in Nat, h \in DOMAIN maps, NEW f \in Files, maps[h] = Image[f],
         NEW at \in 1..Len(Image[f])
  PROVE  CellAt(maps, Base(h) + at - 1) = << h >> \o Image[f][at]
<1>1. Image[f] \in Seq(CellType) /\ Len(Image[f]) <= Span /\ Span \in Nat \ {0}
  BY ImageFits, FileFields
<1>2. PICK n \in Nat : n = Len(Image[f])
  BY <1>1
<1>3. at \in 1..n /\ n <= Span /\ at - 1 \in 0..(Span - 1) /\ (at - 1) + 1 = at
  BY <1>1, <1>2
<1>4. (h * Span + (at - 1)) \div Span = h /\ (h * Span + (at - 1)) % Span = at - 1
  BY <1>1, <1>3, DivOf
<1>5. Base(h) + at - 1 = h * Span + (at - 1)
  <2>1. h * Span \in Int /\ at \in Int
    BY <1>1, <1>3
  <2> QED
    BY <2>1 DEF Base
<1>6. at \in DOMAIN maps[h]
  <2>1. DOMAIN Image[f] = 1..n
    BY <1>1, <1>2, LenProperties
  <2> QED
    BY <1>3, <2>1
<1> QED
  BY <1>3, <1>4, <1>5, <1>6 DEF CellAt

\* The element of row i of a record, in column c, as it is loaded.
LEMMA ElementLoaded ==
  ASSUME NEW maps, NEW h \in Nat, h \in DOMAIN maps, NEW f \in Files, maps[h] = Image[f],
         NEW c \in NamesOf(f), NEW r \in 1..Len(Records[f]), NEW i \in 1..Records[f][r]
  PROVE  Load(maps, Base(h) + RecordStartsBytes[f][r - 1] + ColumnPrefix(f, c) * Records[f][r]
                      + (i - 1) * Size(f, c), Size(f, c))
           = << h, FirstRowOf(f, r) + i - 1, c >>
<1> DEFINE size == Size(f, c)
           start == RecordStartsBytes[f][r - 1]
           body == ColumnPrefix(f, c) * Records[f][r]
           rows == (i - 1) * size
           addr == Base(h) + start + body + rows
           row == FirstRowOf(f, r) + i - 1
<1>1. size \in Nat \ {0}
  <2>1. PICK k \in 1..Len(Columns[f]) : Size(f, c) = Columns[f][k].size
    BY ColumnNamed
  <2> QED
    BY <2>1, FileFields, ColumnFields
<1>2. row \in Nat
  <2>1. Records[f][r] \in Nat /\ FirstRowOf(f, r) \in Nat
    BY FileFields, RecordParts
  <2> QED
    BY <2>1
<1>3. start + body + rows \in Int
  <2>1. Records[f][r] \in Nat
    BY FileFields
  <2>2. rows \in Int
    BY <1>1, <2>1
  <2>3. start \in Int /\ body \in Int
    BY <2>1, StartsType, PrefixType
  <2> QED
    BY <2>2, <2>3
<1>4. ASSUME NEW p \in 1..size
      PROVE  CellAt(maps, addr + p - 1) = << h, row, c, p - 1 >>
  <2> DEFINE at == start + body + rows + p
  <2>1. at \in 1..Len(Image[f]) /\ Image[f][at] = << row, c, p - 1 >>
    BY ElementInImage
  <2>2. Base(h) \in Int
    <3>1. Span \in Int
      BY FileFields
    <3> QED
      BY <3>1 DEF Base
  <2>3. addr + p - 1 = Base(h) + at - 1
    <3>1. start \in Int /\ body \in Int /\ rows \in Int
      <4>1. Records[f][r] \in Nat /\ ColumnPrefix(f, c) \in Nat
        BY FileFields, PrefixType
      <4>2. body \in Int
        BY <4>1
      <4>3. rows \in Int
        BY <1>1, <4>1
      <4>4. start \in Int
        BY StartsType
      <4> QED
        BY <4>2, <4>3, <4>4
    <3> HIDE DEF start, body, rows
    <3> QED
      BY <2>2, <3>1
  <2> HIDE DEF at
  <2>4. CellAt(maps, Base(h) + at - 1) = << h >> \o Image[f][at]
    BY <2>1, CellMapped
  <2> HIDE DEF row
  <2>5. << h >> \o << row, c, p - 1 >> = << h, row, c, p - 1 >>
    BY Prepended
  <2> QED
    BY <2>1, <2>3, <2>4, <2>5
<1> HIDE DEF addr, size, row
<1>5. Load(maps, addr, size) = << h, row, c >>
  <2> DEFINE cells == [p \in 1..size |-> CellAt(maps, addr + p - 1)]
  <2>1. 1 \in 1..size
    BY <1>1
  <2>2. cells[1] = << h, row, c, 0 >> /\ DOMAIN cells = 1..size
    BY <1>4, <2>1
  <2>3. \A p \in 1..size : cells[p] = << h, row, c, p - 1 >>
    BY <1>4
  <2> HIDE DEF cells
  <2>4. Element(cells) = << h, row, c >>
    BY <1>2, <2>2, <2>3 DEF Element
  <2> QED
    BY <2>4 DEF Load, cells
<1> QED
  BY <1>5 DEF addr, size, row

------------------------------------------------------------------------------
(* Queries *)

\* The values of a record, read from its column, are those of its rows.
LEMMA RecordRead ==
  ASSUME NEW h \in Nat, h \in live, NEW f \in Files, file[h] = f, Queried \in NamesOf(f),
         NEW r \in 1..Len(Records[f])
  PROVE  RecordColumn(h, r) = [i \in 1..Records[f][r] |-> Values[f][FirstRowOf(f, r) + i]]
<1> DEFINE size == Size(f, Queried)
           start == Base(h) + RecordStartsBytes[f][r - 1] + ColumnPrefix(f, Queried) * Records[f][r]
           at(i) == Load(Maps, start + (i - 1) * size, size)
<1>1. h \in DOMAIN Maps /\ Maps[h] = Image[f]
  BY DEF Maps
<1>2. FirstRowOf(f, r) \in Nat
  BY RecordParts
<1>3. ASSUME NEW i \in 1..Records[f][r]
      PROVE  (IF at(i) = Torn \/ at(i)[3] # Queried THEN NaN ELSE Values[f][at(i)[2] + 1])
               = Values[f][FirstRowOf(f, r) + i]
  <2> DEFINE row == FirstRowOf(f, r) + i - 1
  <2>1. at(i) = << h, row, Queried >>
    BY <1>1, ElementLoaded
  <2>2. row >= 0 /\ row + 1 = FirstRowOf(f, r) + i
    <3>1. Records[f][r] \in Nat
      BY FileFields
    <3> QED
      BY <1>2, <3>1
  <2> HIDE DEF row, at
  <2>3. << h, row, Queried >> # Torn
    <3>1. << h, row, Queried >>[2] = row /\ Torn[2] = -1
      BY DEF Torn
    <3>2. row # -1
      BY <2>2
    <3> QED
      BY <3>1, <3>2
  <2>4. at(i) # Torn /\ at(i)[3] = Queried /\ at(i)[2] = row
    BY <2>1, <2>3
  <2> QED
    BY <2>2, <2>4
<1> QED
  BY <1>3 DEF RecordColumn

\* A sequence of numbers that is not empty has a least and a largest one.
LEMMA Extremes ==
  ASSUME NEW q \in Seq(Int), q # << >>
  PROVE  /\ \E i \in 1..Len(q) : \A j \in 1..Len(q) : q[i] <= q[j]
         /\ \E i \in 1..Len(q) : \A j \in 1..Len(q) : q[j] <= q[i]
<1> DEFINE Low == {m \in Nat : \E i \in 1..(m + 1) : \A j \in 1..(m + 1) : q[i] <= q[j]}
           High == {m \in Nat : \E i \in 1..(m + 1) : \A j \in 1..(m + 1) : q[j] <= q[i]}
<1>1. PICK n \in Nat : Len(q) = n + 1
  <2>1. Len(q) \in Nat \ {0}
    BY EmptySeq, LenProperties
  <2>2. Len(q) - 1 \in Nat /\ Len(q) = (Len(q) - 1) + 1
    BY <2>1
  <2> QED
    BY <2>2
<1>2. \A i \in 1..(n + 1) : q[i] \in Int
  BY <1>1, ElementOfSeq
<1>3. 0 \in Low /\ 0 \in High
  <2>1. 1 \in 1..(0 + 1) /\ \A j \in 1..(0 + 1) : j = 1
    OBVIOUS
  <2>2. q[1] <= q[1]
    BY <1>2
  <2> QED
    BY <2>1, <2>2
<1>4. ASSUME NEW m \in 0..(n - 1), m \in Low PROVE m + 1 \in Low
  <2>1. PICK i \in 1..(m + 1) : \A j \in 1..(m + 1) : q[i] <= q[j]
    BY <1>4
  <2>2. i \in 1..(m + 2) /\ m + 2 \in 1..(m + 2) /\ q[i] \in Int /\ q[m + 2] \in Int
        /\ (\A j \in 1..(m + 2) : j \in 1..(m + 1) \/ j = m + 2)
        /\ m + 1 \in Nat /\ (m + 1) + 1 = m + 2 /\ \A j \in 1..(m + 2) : q[j] \in Int
    BY <1>2, SMTT(20)
  <2>3. CASE q[i] <= q[m + 2]
    <3>1. \A j \in 1..(m + 2) : q[i] <= q[j]
      BY <2>1, <2>2, <2>3
    <3> QED
      BY <2>2, <3>1
  <2>4. CASE q[m + 2] <= q[i]
    <3>1. \A j \in 1..(m + 2) : q[m + 2] <= q[j]
      BY <2>1, <2>2, <2>4
    <3> QED
      BY <2>2, <3>1
  <2>5. q[i] <= q[m + 2] \/ q[m + 2] <= q[i]
    <3>1. q[i] \in Int /\ q[m + 2] \in Int
      BY <2>2
    <3> QED
      BY <3>1
  <2> QED
    BY <2>3, <2>4, <2>5
<1>5. ASSUME NEW m \in 0..(n - 1), m \in High PROVE m + 1 \in High
  <2>1. PICK i \in 1..(m + 1) : \A j \in 1..(m + 1) : q[j] <= q[i]
    BY <1>5
  <2>2. i \in 1..(m + 2) /\ m + 2 \in 1..(m + 2) /\ q[i] \in Int /\ q[m + 2] \in Int
        /\ (\A j \in 1..(m + 2) : j \in 1..(m + 1) \/ j = m + 2)
        /\ m + 1 \in Nat /\ (m + 1) + 1 = m + 2 /\ \A j \in 1..(m + 2) : q[j] \in Int
    BY <1>2, SMTT(20)
  <2>3. CASE q[m + 2] <= q[i]
    <3>1. \A j \in 1..(m + 2) : q[j] <= q[i]
      BY <2>1, <2>2, <2>3
    <3> QED
      BY <2>2, <3>1
  <2>4. CASE q[i] <= q[m + 2]
    <3>1. \A j \in 1..(m + 2) : q[j] <= q[m + 2]
      BY <2>1, <2>2, <2>4
    <3> QED
      BY <2>2, <3>1
  <2>5. q[i] <= q[m + 2] \/ q[m + 2] <= q[i]
    <3>1. q[i] \in Int /\ q[m + 2] \in Int
      BY <2>2
    <3> QED
      BY <3>1
  <2> QED
    BY <2>3, <2>4, <2>5
<1> HIDE DEF Low, High
<1>6. n \in Low /\ n \in High
  <2>1. \A m \in 0..n : m \in Low
    BY <1>3, <1>4, UpTo
  <2>2. \A m \in 0..n : m \in High
    BY <1>3, <1>5, UpTo
  <2>3. n \in 0..n
    OBVIOUS
  <2> QED
    BY <2>1, <2>2, <2>3
<1> QED
  BY <1>1, <1>6 DEF Low, High

Operators == {">", ">=", "<", "<=", "=="}

\* The statistics of a record bound its values, when they may rule it out.
LEMMA StatBounds ==
  ASSUME NEW values \in Seq(Int \cup {NaN}), RecordStat(values).prunable
  PROVE  /\ RecordStat(values).min \in Int /\ RecordStat(values).max \in Int
         /\ \A i \in 1..Len(values) :
              /\ values[i] \in Int
              /\ RecordStat(values).min <= values[i] /\ values[i] <= RecordStat(values).max
<1>1. values # << >> /\ NaN \notin ToSet(values)
  BY DEF RecordStat
<1>2. RecordStat(values).min = Smallest(ToSet(values)) /\ RecordStat(values).max = Largest(ToSet(values))
  BY <1>1 DEF RecordStat
<1>3. DOMAIN values = 1..Len(values) /\ \A i \in 1..Len(values) : values[i] \in Int \cup {NaN}
  BY LenProperties, ElementOfSeq
<1>4. \A i \in 1..Len(values) : values[i] \in Int /\ values[i] \in ToSet(values)
  BY <1>1, <1>3 DEF ToSet
<1>5. \A y \in ToSet(values) : \E i \in 1..Len(values) : values[i] = y
  BY <1>3 DEF ToSet
<1>6. values \in Seq(Int)
  BY <1>3, <1>4, ListOf, LenProperties
<1>7. /\ \E x \in ToSet(values) : \A y \in ToSet(values) : x <= y
      /\ \E x \in ToSet(values) : \A y \in ToSet(values) : y <= x
  <2>1. PICK i \in 1..Len(values) : \A j \in 1..Len(values) : values[i] <= values[j]
    BY <1>1, <1>6, Extremes
  <2>2. PICK k \in 1..Len(values) : \A j \in 1..Len(values) : values[j] <= values[k]
    BY <1>1, <1>6, Extremes
  <2> QED
    BY <1>4, <1>5, <2>1, <2>2
<1>8. /\ Smallest(ToSet(values)) \in ToSet(values)
      /\ \A y \in ToSet(values) : Smallest(ToSet(values)) <= y
  BY <1>7 DEF Smallest
<1>9. /\ Largest(ToSet(values)) \in ToSet(values)
      /\ \A y \in ToSet(values) : y <= Largest(ToSet(values))
  BY <1>7 DEF Largest
<1> QED
  BY <1>2, <1>4, <1>5, <1>8, <1>9

\* No value of a record that is ruled out makes the comparison true.
LEMMA RuledOut ==
  ASSUME NEW values \in Seq(Int \cup {NaN}), NEW op \in Operators, NEW s \in Int \cup {NaN},
         ~ Survives(RecordStat(values), op, s), NEW i \in 1..Len(values)
  PROVE  ~ Holds(op, values[i], s)
<1> DEFINE stat == RecordStat(values)
<1>1. NaN \notin Int
  BY ValuesAssumption
<1>2. stat.prunable
  BY DEF Survives
<1>3. stat.min \in Int /\ stat.max \in Int /\ values[i] \in Int
      /\ stat.min <= values[i] /\ values[i] <= stat.max
  BY <1>2, StatBounds
<1> HIDE DEF stat
<1>4. ~ Survives(stat, op, s)
  BY DEF stat
<1>5. CASE op = ">"
  BY <1>1, <1>3, <1>4, <1>5 DEF Survives, Holds
<1>6. CASE op = ">="
  BY <1>1, <1>3, <1>4, <1>6 DEF Survives, Holds
<1>7. CASE op = "<"
  BY <1>1, <1>3, <1>4, <1>7 DEF Survives, Holds
<1>8. CASE op = "<="
  BY <1>1, <1>3, <1>4, <1>8 DEF Survives, Holds
<1>9. CASE op = "=="
  BY <1>1, <1>3, <1>4, <1>9 DEF Survives, Holds
<1> QED
  BY <1>5, <1>6, <1>7, <1>8, <1>9 DEF Operators

\* Whichever records its statistics rule out, a query finds the rows that the full
\* evaluation finds.
LEMMA QueryExact ==
  ASSUME NEW h \in Nat, h \in live, NEW f \in Files, file[h] = f, Queried \in NamesOf(f),
         NEW op \in Operators, NEW s \in Int \cup {NaN}
  PROVE  QueryMask(h, op, s) = [i \in 1..RowsIn(f) |-> Holds(op, Values[f][i], s)]
<1> DEFINE stats == RecordStats(f)
           holds == [i \in 1..RowsIn(f) |-> Holds(op, Values[f][i], s)]
           rows(r) == [i \in 1..Records[f][r] |->
                         Survives(stats[r], op, s) /\ Holds(op, RecordColumn(h, r)[i], s)]
           R == Records[f]
<1>1. /\ R \in Seq(Nat) /\ Len(R) \in Nat /\ R # << >> /\ DOMAIN R = 1..Len(R)
      /\ \A r \in 1..Len(R) : R[r] \in Nat
  BY FileFields, LenProperties, EmptySeq
<1>2. /\ Total(SubSeq(R, 1, 0)) = 0 /\ Total(SubSeq(R, 1, Len(R))) = Total(R)
      /\ \A k \in 0..Len(R) : Total(SubSeq(R, 1, k)) \in Nat
      /\ \A k \in 1..Len(R) : Total(SubSeq(R, 1, k)) = Total(SubSeq(R, 1, k - 1)) + R[k]
  BY <1>1, SumsUp
<1>3. Values[f] \in Seq(Int \cup {NaN}) /\ Len(Values[f]) = Total(R)
  BY ValuesAssumption DEF RowsIn
<1>4. ASSUME NEW r \in 1..Len(R)
      PROVE  rows(r) = PartOf(holds, R, r)
  <2> DEFINE first == FirstRowOf(f, r)
             values == SubSeq(Values[f], RecordStartsRows[f][r - 1] + 1, RecordStartsRows[f][r])
  <2>1. r - 1 \in 0..Len(R) /\ r \in 0..Len(R)
    BY <1>1
  <2>2. first = Total(SubSeq(R, 1, r - 1)) /\ first \in Nat
    BY <1>2, <2>1 DEF FirstRowOf
  <2>3. RecordStartsRows[f][r - 1] = first /\ RecordStartsRows[f][r] = first + R[r]
    BY <1>2, <2>1, <2>2 DEF RecordStartsRows
  <2>4. R[r] \in Nat /\ first + R[r] <= Total(R) /\ Total(R) \in Nat
    <3>1. Total(SubSeq(R, 1, r)) <= Total(R) /\ Len(R) \in 0..Len(R)
      BY <1>1, <2>1, SumsWithin
    <3>2. Total(SubSeq(R, 1, r)) = first + R[r]
      BY <1>2, <2>2
    <3>3. Total(R) \in Nat
      BY <1>2, <3>1
    <3> QED
      BY <1>1, <3>1, <3>2, <3>3
  <2> HIDE DEF first, holds
  <2>5. /\ values \in Seq(Int \cup {NaN}) /\ Len(values) = R[r]
        /\ \A i \in 1..R[r] : values[i] = Values[f][first + i]
    <3> DEFINE v == Values[f]
    <3>1. values = SubSeq(v, first + 1, first + R[r])
      BY <2>3
    <3> HIDE DEF v, values
    <3>2. v \in Seq(Int \cup {NaN}) /\ Len(v) = Total(R)
      BY <1>3 DEF v
    <3>3. ASSUME NEW m \in Nat, first + m <= Len(v)
          PROVE  /\ SubSeq(v, first + 1, first + m) \in Seq(Int \cup {NaN})
                 /\ Len(SubSeq(v, first + 1, first + m)) = m
                 /\ \A i \in 1..m : SubSeq(v, first + 1, first + m)[i] = v[first + i]
      <4>1. first \in Nat
        BY <2>2
      <4>2. v \in Seq(Int \cup {NaN})
        BY <3>2
      <4>3. first + m <= Len(v)
        BY <3>3
      <4>4. SubSeq(v, first + 1, first + m) \in Seq(Int \cup {NaN})
        BY <4>1, <4>2, <4>3, StretchOf
      <4>5. Len(SubSeq(v, first + 1, first + m)) = m
        BY <4>1, <4>2, <4>3, StretchOf
      <4>6. \A i \in 1..m : SubSeq(v, first + 1, first + m)[i] = v[first + i]
        BY <4>1, <4>2, <4>3, StretchOf
      <4> QED
        BY <4>4, <4>5, <4>6
    <3>4. /\ values \in Seq(Int \cup {NaN}) /\ Len(values) = R[r]
          /\ \A i \in 1..R[r] : values[i] = v[first + i]
      BY <2>4, <3>1, <3>2, <3>3
    <3> QED
      BY <3>4 DEF v
  <2>6. RecordColumn(h, r) = [i \in 1..R[r] |-> Values[f][first + i]]
    BY RecordRead DEF first
  <2>7. stats[r] = RecordStat(values)
    BY <1>1 DEF RecordStats
  <2> HIDE DEF values, stats
  <2>8. ASSUME NEW i \in 1..R[r]
        PROVE  /\ first + i \in 1..Total(R)
               /\ (Survives(stats[r], op, s) /\ Holds(op, RecordColumn(h, r)[i], s))
                    = Holds(op, Values[f][first + i], s)
    <3>1. first + i \in 1..Total(R)
      BY <2>2, <2>4
    <3>2. RecordColumn(h, r)[i] = Values[f][first + i]
      BY <2>6
    <3>3. ~ Survives(stats[r], op, s) => ~ Holds(op, Values[f][first + i], s)
      <4>1. i \in 1..Len(values) /\ values[i] = Values[f][first + i]
        BY <2>5
      <4> QED
        BY <2>5, <2>7, <4>1, RuledOut
    <3>4. Holds(op, Values[f][first + i], s) \in BOOLEAN
      BY DEF Holds, Operators
    <3> QED
      BY <3>1, <3>2, <3>3, <3>4
  <2>9. \A i \in 1..R[r] : holds[first + i] = Holds(op, Values[f][first + i], s)
    BY <2>8 DEF holds, RowsIn
  <2>10. rows(r) = [i \in 1..R[r] |-> Holds(op, Values[f][first + i], s)]
    BY <2>8
  <2>11. PartOf(holds, R, r) = [i \in 1..R[r] |-> Holds(op, Values[f][first + i], s)]
    BY <2>2, <2>9 DEF PartOf
  <2> QED
    BY <2>10, <2>11
<1>5. FlattenSeq([r \in 1..Len(R) |-> PartOf(holds, R, r)]) = holds
  <2>1. holds \in [1..Total(R) -> {Holds(op, Values[f][i], s) : i \in 1..Total(R)}]
    BY DEF RowsIn
  <2>2. Total(R) \in Nat
    BY <1>1, <1>2
  <2> HIDE DEF holds, R
  <2>3. holds \in Seq({Holds(op, Values[f][i], s) : i \in 1..Total(R)}) /\ Len(holds) = Total(R)
    BY <2>1, <2>2, ListOf
  <2> QED
    BY <1>1, <2>3, PartsJoined
<1>6. FlattenSeq([r \in DOMAIN stats |-> rows(r)]) = holds
  <2>1. DOMAIN stats = 1..Len(R)
    BY <1>1 DEF RecordStats
  <2>2. [r \in DOMAIN stats |-> rows(r)] = [r \in 1..Len(R) |-> PartOf(holds, R, r)]
    <3> HIDE DEF rows, holds, stats
    <3> QED
      BY <1>4, <2>1
  <2> QED
    BY <1>5, <2>2
<1> QED
  BY <1>6 DEF QueryMask

------------------------------------------------------------------------------
(* The dataset's rows *)

RowsBefore(k) == Total([j \in 1..(k - 1) |-> RowsIn(file[children[j]])])

\* The dataset has a number of rows.
LEMMA RowCountType ==
  ASSUME TypeInv, OwnersInv, OffsetsInv
  PROVE  RowCount \in Nat
<1> DEFINE n == Len(children)
           s == [j \in 1..n |-> RowsIn(file[children[j]])]
<1>1. n \in Nat /\ DOMAIN children = 1..n /\ \A j \in 1..n : children[j] \in Handles
  BY LenProperties, ElementOfSeq DEF TypeInv
<1>2. \A j \in 1..n : RowsIn(file[children[j]]) \in Nat
  <2> TAKE j \in 1..n
  <2>1. children[j] \in ToSet(children)
    BY <1>1, ChildrenAre
  <2>2. file[children[j]] \in Files
    BY <1>1, <2>1 DEF TypeInv, OwnersInv, InUse
  <2> QED
    BY <2>2, RowsInType
<1>3. Len(s) = n /\ \A j \in 1..n : s[j] \in Nat
  BY <1>1, <1>2
<1>4. Total(s) \in Nat
  <2> HIDE DEF s, n
  <2> QED
    BY <1>1, <1>3, TotalNat
<1>5. Len(offsets) = n + 1 /\ offsets[n + 1] = Total(s)
  <2>1. n + 1 \in 1..(n + 1) /\ (n + 1) - 1 = n
    BY <1>1
  <2>2. offsets = [k \in 1..(n + 1) |-> RowsBefore(k)]
    BY DEF OffsetsInv, RowsBefore
  <2>3. RowsBefore(n + 1) = Total(s)
    BY <2>1 DEF RowsBefore
  <2> HIDE DEF n, s
  <2>4. n + 1 \in Nat
    BY <1>1
  <2> QED
    BY <2>1, <2>2, <2>3, <2>4
<1> QED
  BY <1>4, <1>5 DEF RowCount

\* Its rows stay its children's.
LEMMA OffsetsStep ==
  ASSUME TypeInv, OwnersInv, OffsetsInv, [Next]_vars
  PROVE  OffsetsInv'
<1>1. ASSUME UNCHANGED << file, children, offsets >> PROVE OffsetsInv'
  BY <1>1 DEF OffsetsInv
<1>2. ASSUME NEW f \in Files, Opening(f) PROVE OffsetsInv'
  <2>1. children' = << >> /\ offsets' = offsets /\ children = << >>
    BY <1>2 DEF Opening, dataset
  <2>2. \A k \in 1..(Len(<< >>) + 1) :
          [j \in 1..(k - 1) |-> RowsIn(file'[children'[j]])]
            = [j \in 1..(k - 1) |-> RowsIn(file[children[j]])]
    <3>1. \A k \in 1..(Len(<< >>) + 1) : 1..(k - 1) = {}
      BY EmptySeq
    <3> QED
      BY <3>1
  <2> QED
    BY <2>1, <2>2 DEF OffsetsInv
<1>3. ASSUME NEW sources \in Sources, AppendSources(sources), ~ UNCHANGED << file, children, offsets >>
      PROVE  OffsetsInv'
  <2>1. RebuildOffsets(children')
    BY <1>3 DEF AppendSources, dataset
  <2> QED
    BY <2>1 DEF RebuildOffsets, OffsetsInv
<1>4. ASSUME NEW f \in Files, OpenReader(f) PROVE OffsetsInv'
  BY <1>2, <1>4, OpenReaderOpens
<1>5. CASE UNCHANGED vars
  BY <1>1, <1>5 DEF vars
<1>6. CASE CloseDataset
  BY <1>1, <1>6 DEF CloseDataset
<1>7. ASSUME NEW h, CloseReader(h) PROVE OffsetsInv'
  BY <1>1, <1>7 DEF CloseReader, dataset
<1>8. ASSUME NEW key, Select(key) PROVE OffsetsInv'
  BY <1>1, <1>8 DEF Select, dataset
<1>9. ASSUME NEW key, Narrow(key) PROVE OffsetsInv'
  BY <1>1, <1>9 DEF Narrow, dataset
<1>10. CASE HeadOfView
  BY <1>1, <1>10 DEF HeadOfView, dataset
<1>11. CASE TailOfView
  BY <1>1, <1>11 DEF TailOfView, dataset
<1>12. CASE Drop
  BY <1>1, <1>12 DEF Drop, dataset
<1>13. ASSUME NEW h, NEW comparison, Query(h, comparison) PROVE OffsetsInv'
  BY <1>1, <1>13 DEF Query, dataset
<1>14. ASSUME NEW cs, NEW env, Read(cs, env) PROVE OffsetsInv'
  BY <1>1, <1>14 DEF Read
<1>15. ASSUME NEW cs, NEW env, ReadRecarray(cs, env) PROVE OffsetsInv'
  BY <1>1, <1>15 DEF ReadRecarray
<1>16. ASSUME NEW cs, ReadView(cs) PROVE OffsetsInv'
  BY <1>1, <1>16 DEF ReadView, dataset
<1> QED
  BY <1>1, <1>3, <1>4, <1>5, <1>6, <1>7, <1>8, <1>9, <1>10, <1>11, <1>12, <1>13, <1>14, <1>15,
     <1>16 DEF Next

------------------------------------------------------------------------------
(* What views stand for *)

\* Of the picks of a key there is a record of two fields.
LEMMA PicksFields ==
  ASSUME NEW rows, NEW key \in Selectors
  PROVE  Picks(rows, key) = [ok |-> Picks(rows, key).ok, rows |-> Picks(rows, key).rows]
<1>1. CASE key.kind = "all"
  BY <1>1 DEF Picks
<1>2. CASE key.kind = "row"
  BY <1>2 DEF Picks
<1>3. CASE key.kind = "slice"
  BY <1>3 DEF Picks
<1>4. CASE key.kind = "fancy"
  BY <1>4 DEF Picks
<1>5. CASE key.kind = "mask"
  BY <1>5 DEF Picks
<1> QED
  BY <1>1, <1>2, <1>3, <1>4, <1>5, SelectorKinds

\* A view of what has n rows; its selector, normalised, stands for what it wants.
GoodView(v, n) ==
  /\ v = [on |-> v.on, part |-> v.part, want |-> v.want, depth |-> v.depth]
  /\ v.want = [ok |-> v.want.ok, rows |-> v.want.rows]
  /\ v.on # Dataset => v.on \in Handles /\ file[v.on] \in Files
  /\ Stands(Resolve(v.part, n), n, v.want)

LEMMA ViewIsGood == ViewInv <=> (view # None => GoodView(view, TableRows(view.on)))
  BY DEF ViewInv, GoodView, Selected

\* What a view selects from has a number of rows.
LEMMA TableRowsType ==
  ASSUME TypeInv, OwnersInv, OffsetsInv, NEW on, on # Dataset => file[on] \in Files
  PROVE  TableRows(on) \in Nat
  BY RowCountType, RowsInType DEF TableRows

\* Where the files and the dataset's rows stay, a view that is good is good.
LEMMA ViewKept ==
  ASSUME UNCHANGED << file, offsets >>,
         view' # None => GoodView(view', TableRows(view'.on))
  PROVE  ViewInv'
<1>1. \A on : TableRows(on)' = TableRows(on)
  BY DEF TableRows, RowCount
<1> QED
  BY <1>1 DEF ViewInv, GoodView, Selected

\* A view of all, through a key.
LEMMA SelectGood ==
  ASSUME TypeInv, OwnersInv, OffsetsInv, NEW key, Select(key)
  PROVE  ViewInv'
<1> DEFINE n == RowCount
           v == [on |-> Dataset, part |-> key, want |-> Picks(FirstRows(n), key), depth |-> 0]
<1>1. view' = v /\ key \in Selectors /\ UNCHANGED << file, offsets >>
  BY DEF Select, dataset
<1>2. n \in Nat
  BY RowCountType
<1>3. Stands(Resolve(key, n), n, Picks(FirstRows(n), key))
  <2> HIDE DEF n
  <2> QED
    BY <1>1, <1>2, KeyStands DEF FirstRows
<1>4. v.want = [ok |-> v.want.ok, rows |-> v.want.rows]
  BY <1>1, PicksFields
<1>5. TableRows(v.on) = n
  BY DEF TableRows
<1>6. GoodView(v, n)
  BY <1>3, <1>4 DEF GoodView
<1> QED
  BY <1>1, <1>5, <1>6, ViewKept

\* The selection of a query, too.
LEMMA QueryGood ==
  ASSUME TypeInv, OwnersInv, NEW h \in Handles, NEW comparison \in Comparisons, Query(h, comparison)
  PROVE  ViewInv'
<1> DEFINE f == file[h]
           n == RowsIn(f)
           holds == [i \in 1..n |-> Holds(comparison[1], Values[f][i], comparison[2])]
           key == Mask(holds)
           v == [on |-> h, part |-> key, want |-> Picks(FirstRows(n), key), depth |-> 0]
<1>1. /\ h \in mine \cap live /\ Queried \in NamesOf(f) /\ UNCHANGED << file, offsets >>
      /\ view' = [on |-> h, part |-> Mask(QueryMask(h, comparison[1], comparison[2])),
                  want |-> Picks(FirstRows(n), key), depth |-> 0]
  BY DEF Query, dataset
<1>2. f \in Files /\ h \in Nat
  <2>1. file[h] # None
    BY <1>1 DEF OwnersInv, InUse
  <2> QED
    BY <2>1, HandlesAreNumbers DEF TypeInv
<1>3. comparison[1] \in Operators /\ comparison[2] \in Int \cup {NaN}
  BY ValuesAssumption DEF Operators
<1>4. QueryMask(h, comparison[1], comparison[2]) = holds
  BY <1>1, <1>2, <1>3, QueryExact
<1>5. view' = v
  BY <1>1, <1>4
<1>6. n \in Nat
  BY <1>2, RowsInType
<1>7. key \in Selectors
  <2>1. \A i \in 1..n : Holds(comparison[1], Values[f][i], comparison[2]) \in BOOLEAN
    BY <1>3 DEF Holds, Operators
  <2>2. holds \in [1..n -> BOOLEAN]
    BY <2>1
  <2> HIDE DEF holds, n
  <2>3. holds \in Seq(BOOLEAN)
    BY <1>6, <2>2, ListOf
  <2> QED
    BY <2>3 DEF Mask, Selectors
<1> HIDE DEF key
<1>8. Stands(Resolve(key, n), n, Picks(FirstRows(n), key))
  <2> HIDE DEF n
  <2> QED
    BY <1>6, <1>7, KeyStands DEF FirstRows
<1>9. v.want = [ok |-> v.want.ok, rows |-> v.want.rows]
  BY <1>7, PicksFields
<1>10. TableRows(v.on) = n
  BY DatasetAssumption DEF TableRows
<1>11. GoodView(v, n)
  BY <1>2, <1>8, <1>9 DEF GoodView
<1> QED
  BY <1>1, <1>5, <1>10, <1>11, ViewKept

\* A view whose rows are there, changed into one of the same.
LEMMA ChangedGood ==
  ASSUME TypeInv, OwnersInv, OffsetsInv, ViewInv, view # None, view.want.ok,
         UNCHANGED << file, offsets >>, NEW part, NEW want, NEW depth,
         want = [ok |-> want.ok, rows |-> want.rows],
         view' = [on |-> view.on, part |-> part, want |-> want, depth |-> depth],
         \A n \in Nat : \A sel \in Normal(n) :
           n = TableRows(view.on) /\ sel = Selected /\ view.want.rows = RowsOf(sel, n)
             => Stands(Resolve(part, n), n, want)
  PROVE  ViewInv'
<1> DEFINE n == TableRows(view.on)
           v == [on |-> view.on, part |-> part, want |-> want, depth |-> depth]
<1>1. /\ view.on # Dataset => view.on \in Handles /\ file[view.on] \in Files
      /\ Stands(Selected, n, view.want)
  BY DEF ViewInv
<1>2. n \in Nat
  BY <1>1, TableRowsType
<1>3. Selected \in Normal(n) /\ view.want.rows = RowsOf(Selected, n)
  BY <1>1 DEF Stands
<1>4. Stands(Resolve(part, n), n, want)
  BY <1>2, <1>3
<1>5. GoodView(v, n) /\ v.on = view.on
  BY <1>1, <1>4 DEF GoodView
<1> QED
  BY <1>5, ViewKept

\* A key of a view.
LEMMA NarrowGood ==
  ASSUME TypeInv, OwnersInv, OffsetsInv, ViewInv, NEW key, Narrow(key)
  PROVE  ViewInv'
<1> DEFINE part == Compose(Selected, key, TableRows(view.on))
           want == Picks(view.want.rows, key)
<1>1. /\ key \in Selectors /\ key.kind # "all" /\ view # None /\ view.want.ok
      /\ UNCHANGED << file, offsets >>
      /\ view' = [view EXCEPT !.part = part, !.want = want, !.depth = @ + 1]
  BY DEF Narrow, dataset
<1>2. view = [on |-> view.on, part |-> view.part, want |-> view.want, depth |-> view.depth]
  BY <1>1 DEF ViewInv
<1>3. want = [ok |-> want.ok, rows |-> want.rows]
  BY <1>1, PicksFields
<1>4. \A n \in Nat : \A sel \in Normal(n) :
        n = TableRows(view.on) /\ sel = Selected /\ view.want.rows = RowsOf(sel, n)
          => Stands(Resolve(part, n), n, want)
  BY <1>1, ComposeStands
<1> HIDE DEF part, want
<1>5. view' = [on |-> view.on, part |-> part, want |-> want, depth |-> view.depth + 1]
  BY <1>1, <1>2
<1> QED
  BY <1>1, <1>3, <1>4, <1>5, ChangedGood

\* The first rows of a view,
LEMMA HeadGood ==
  ASSUME TypeInv, OwnersInv, OffsetsInv, ViewInv, HeadOfView
  PROVE  ViewInv'
<1> DEFINE part == HeadRows(Selected, Peek, TableRows(view.on))
           rows == SubSeq(view.want.rows, 1, Least(Peek, Len(view.want.rows)))
           want == [ok |-> TRUE, rows |-> rows]
<1>1. /\ view # None /\ view.want.ok
      /\ UNCHANGED << file, offsets >>
      /\ view' = [on |-> view.on, part |-> part, want |-> want, depth |-> MaxNarrowings]
  BY DEF HeadOfView, dataset
<1>2. \A n \in Nat : \A sel \in Normal(n) :
        n = TableRows(view.on) /\ sel = Selected /\ view.want.rows = RowsOf(sel, n)
          => Stands(Resolve(part, n), n, want)
  <2> TAKE n \in Nat
  <2> TAKE sel \in Normal(n)
  <2> HAVE n = TableRows(view.on) /\ sel = Selected /\ view.want.rows = RowsOf(sel, n)
  <2>1. want.ok /\ want.rows = SubSeq(RowsOf(sel, n), 1, Least(Peek, Len(RowsOf(sel, n))))
    BY <1>1
  <2>2. part = HeadRows(sel, Peek, n)
    OBVIOUS
  <2> HIDE DEF want, part
  <2> QED
    BY <2>1, <2>2, PeekAssumption, HeadStands
<1>3. want = [ok |-> want.ok, rows |-> want.rows]
  OBVIOUS
<1> HIDE DEF part, want
<1> QED
  BY <1>1, <1>2, <1>3, ChangedGood

\* and the last.
LEMMA TailGood ==
  ASSUME TypeInv, OwnersInv, OffsetsInv, ViewInv, TailOfView
  PROVE  ViewInv'
<1> DEFINE part == TailRows(Selected, Peek, TableRows(view.on))
           rows == SubSeq(view.want.rows, Most(0, Len(view.want.rows) - Peek) + 1,
                          Len(view.want.rows))
           want == [ok |-> TRUE, rows |-> rows]
<1>1. /\ view # None /\ view.want.ok
      /\ UNCHANGED << file, offsets >>
      /\ view' = [on |-> view.on, part |-> part, want |-> want, depth |-> MaxNarrowings]
  BY DEF TailOfView, dataset
<1>2. \A n \in Nat : \A sel \in Normal(n) :
        n = TableRows(view.on) /\ sel = Selected /\ view.want.rows = RowsOf(sel, n)
          => Stands(Resolve(part, n), n, want)
  <2> TAKE n \in Nat
  <2> TAKE sel \in Normal(n)
  <2> HAVE n = TableRows(view.on) /\ sel = Selected /\ view.want.rows = RowsOf(sel, n)
  <2>1. want.ok /\ want.rows = SubSeq(RowsOf(sel, n), Most(0, Len(RowsOf(sel, n)) - Peek) + 1,
                                      Len(RowsOf(sel, n)))
    BY <1>1
  <2>2. part = TailRows(sel, Peek, n)
    OBVIOUS
  <2> HIDE DEF want, part
  <2> QED
    BY <2>1, <2>2, PeekAssumption, TailStands
<1>3. want = [ok |-> want.ok, rows |-> want.rows]
  OBVIOUS
<1> HIDE DEF part, want
<1> QED
  BY <1>1, <1>2, <1>3, ChangedGood

\* No step leaves a view of other rows than it should have.
LEMMA ViewStep ==
  ASSUME TypeInv, OwnersInv, OffsetsInv, ViewInv, [Next]_vars
  PROVE  ViewInv'
<1>1. ASSUME UNCHANGED << file, offsets, view >> PROVE ViewInv'
  BY <1>1, ViewIsGood, ViewKept
<1>2. ASSUME view' = None PROVE ViewInv'
  BY <1>2 DEF ViewInv
<1>3. ASSUME NEW f, OpenReader(f) PROVE ViewInv'
  BY <1>2, <1>3 DEF OpenReader
<1>4. ASSUME NEW sources, AppendSources(sources) PROVE ViewInv'
  BY <1>2, <1>4 DEF AppendSources
<1>5. CASE UNCHANGED vars
  BY <1>1, <1>5 DEF vars
<1>6. CASE CloseDataset
  BY <1>1, <1>6 DEF CloseDataset
<1>7. ASSUME NEW h, CloseReader(h) PROVE ViewInv'
  BY <1>1, <1>7 DEF CloseReader, dataset
<1>8. ASSUME NEW key, Select(key) PROVE ViewInv'
  BY <1>8, SelectGood
<1>9. ASSUME NEW key, Narrow(key) PROVE ViewInv'
  BY <1>9, NarrowGood
<1>10. CASE HeadOfView
  BY <1>10, HeadGood
<1>11. CASE TailOfView
  BY <1>11, TailGood
<1>12. CASE Drop
  BY <1>2, <1>12 DEF Drop
<1>13. ASSUME NEW h \in Handles, NEW comparison \in Comparisons, Query(h, comparison) PROVE ViewInv'
  BY <1>13, QueryGood
<1>14. ASSUME NEW cs, NEW env, Read(cs, env) PROVE ViewInv'
  BY <1>1, <1>14 DEF Read
<1>15. ASSUME NEW cs, NEW env, ReadRecarray(cs, env) PROVE ViewInv'
  BY <1>1, <1>15 DEF ReadRecarray
<1>16. ASSUME NEW cs, ReadView(cs) PROVE ViewInv'
  BY <1>1, <1>16 DEF ReadView, dataset
<1> QED
  BY <1>3, <1>4, <1>5, <1>6, <1>7, <1>8, <1>9, <1>10, <1>11, <1>12, <1>13, <1>14, <1>15, <1>16
  DEF Next

------------------------------------------------------------------------------
(* Theorems *)

\* The invariant holds at the start.
LEMMA InitInv == ASSUME Init PROVE IInv
<1>1. /\ file = [h \in Handles |-> None] /\ live = {} /\ mine = {}
      /\ children = << >> /\ owned = << >> /\ schema = {}
      /\ memo = EmptyTable /\ grid = UnknownGrid
  BY DEF Init
<1>2. DOMAIN children = {} /\ DOMAIN owned = {} /\ children \in Seq(Handles) /\ owned \in Seq(BOOLEAN)
  <2>1. << >> \in Seq(Handles) /\ << >> \in Seq(BOOLEAN) /\ Len(<< >>) = 0
    BY EmptySeq
  <2>2. DOMAIN << >> = 1..0
    BY <2>1, LenProperties
  <2> QED
    BY <1>1, <2>1, <2>2
<1>3. TypeInv
  BY <1>1, <1>2 DEF TypeInv
<1>4. OwnersInv
  BY <1>1, <1>2, ChildrenAre DEF OwnersInv, InUse
<1>5. SchemaInv
  BY <1>1, <1>2 DEF SchemaInv, SchemaInEveryChild
<1>6. MemoInv
  BY <1>1, NothingRemembered
<1>7. OffsetsInv
  <2>1. offsets = << 0 >>
    BY DEF Init
  <2>2. \A k \in 1..(Len(<< >>) + 1) : Total([j \in 1..(k - 1) |-> RowsIn(file[children[j]])]) = 0
    <3> TAKE k \in 1..(Len(<< >>) + 1)
    <3> DEFINE s == [j \in 1..(k - 1) |-> RowsIn(file[children[j]])]
    <3>1. k = 1
      BY EmptySeq
    <3>2. Len(s) = 0
      BY <3>1
    <3> HIDE DEF s
    <3>3. Total(s) = 0
      BY <3>2, TotalNone
    <3> QED
      BY <3>3 DEF s
  <2>3. Len(<< >>) + 1 = 1
    BY EmptySeq
  <2>4. << 0 >> = [k \in 1..1 |-> 0]
    OBVIOUS
  <2> QED
    BY <1>1, <2>1, <2>2, <2>3, <2>4 DEF OffsetsInv
<1>8. ViewInv
  BY DEF Init, ViewInv
<1> QED
  BY <1>3, <1>4, <1>5, <1>6, <1>7, <1>8 DEF IInv

\* The invariant holds in every behaviour: of any files and sources, whatever is
\* appended, closed and read in whatever order.
THEOREM Invariance == Spec => []IInv
<1>1. Init => IInv
  BY InitInv
<1>2. IInv /\ [Next]_vars => IInv'
  BY OwnersStep, SchemaStep, MemoStep, OffsetsStep, ViewStep DEF IInv
<1> QED
  BY <1>1, <1>2, PTL DEF Spec

\* Every column the dataset shows is in every child (SchemaInEveryChild), in
\* whichever order they were appended and whatever append() refused in between.
THEOREM ColumnsAreInEveryChild == Spec => []SchemaInEveryChild
<1>1. IInv => SchemaInEveryChild
  BY DEF IInv, SchemaInv
<1> QED
  BY <1>1, Invariance, PTL

\* The memoised tables are those that would be stitched now (MemoFresh), as long as
\* the children are open: appending and reading may alternate in any way.
THEOREM MemoIsFresh == Spec => []MemoFresh
<1>1. ASSUME MemoInv PROVE MemoFresh
  <2> SUFFICES ASSUME AllMapped, NEW c \in DOMAIN memo
               PROVE  /\ memo[c] = Stitch(c)
                      /\ memo[c] # None /\ grid.known => grid.rows = UniformSegmentRows(memo[c].starts)
    BY DEF MemoFresh, AllMapped
  <2>1. memo[c] = Stitch(c) /\ c \in Shown
    BY <1>1 DEF MemoInv
  <2> QED
    BY <1>1, <2>1 DEF MemoInv
<1>2. IInv => MemoFresh
  BY <1>1 DEF IInv
<1> QED
  BY <1>2, Invariance, PTL

\* Who opens a reader closes it (OpenerCloses): the dataset none of the user's, and
\* of its own it leaves none open when it is closed or an append() fails.
THEOREM OpenersClose == Spec => OpenerCloses
<1>1. ASSUME IInv, [Next]_vars, NEW h \in mine \cap live, h \notin live'
      PROVE  CloseReader(h)
  <2>1. ~ \E f \in Files : Opening(f)
    BY <1>1 DEF Opening
  <2>2. ~ \E sources \in Sources : Grown(sources)
    BY <1>1 DEF Grown
  <2>3. ~ \E sources \in Sources : GivenUp(sources)
    BY <1>1, UnusedIsFree DEF GivenUp, IInv
  <2>4. ~ CloseDataset
    BY <1>1, CloseDatasetShrinks DEF IInv
  <2>5. ~ Quiet /\ ~ \E cs \in Requests, env \in Environments : Tabled(cs, env)
    BY <1>1 DEF Quiet, Tabled
  <2>6. PICK g \in Handles : CloseReader(g)
    BY <1>1, <2>1, <2>2, <2>3, <2>4, <2>5, Steps DEF IInv
  <2>7. g = h
    BY <1>1, <2>6 DEF CloseReader
  <2> QED
    BY <2>6, <2>7
<1>2. ASSUME IInv' PROVE \A h \in live' \ mine' :
        ~ closed' /\ \E k \in DOMAIN children' : children'[k] = h /\ owned'[k]
  BY <1>2 DEF IInv, OwnersInv
<1>3. IInv /\ IInv' /\ [Next]_vars =>
        [/\ \A h \in mine \cap live : h \notin live' => CloseReader(h)
         /\ \A h \in live' \ mine' :
              ~ closed' /\ \E k \in DOMAIN children' : children'[k] = h /\ owned'[k]]_vars
  BY <1>1, <1>2
<1> QED
  BY <1>3, Invariance, PTL DEF Spec, OpenerCloses

\* However a selection was come by, the selector of a view stands for the rows that
\* indexing an array the same way would give, and what would be an IndexError does not
\* resolve; a query that skips records selects what the full evaluation does
\* (ViewSelects).  Of any files, rows, keys and values.
THEOREM ViewsSelect == Spec => []ViewSelects
<1>1. ASSUME TypeInv, OwnersInv, OffsetsInv, ViewInv, view # None
      PROVE  IF view.want.ok
             THEN /\ Selected.kind # "bad"
                  /\ RowsOf(Selected, TableRows(view.on)) = view.want.rows
                  /\ CountOf(Selected, TableRows(view.on)) = Len(view.want.rows)
             ELSE Selected.kind = "bad"
  <2> DEFINE n == TableRows(view.on)
  <2>1. /\ view.on # Dataset => view.on \in Handles /\ file[view.on] \in Files
        /\ Stands(Selected, n, view.want)
    BY <1>1 DEF ViewInv
  <2>2. n \in Nat
    BY <1>1, <2>1, TableRowsType
  <2>3. CASE view.want.ok
    <3> DEFINE sel == Selected
    <3>1. sel \in Normal(n) /\ RowsOf(sel, n) = view.want.rows
      BY <2>1, <2>3 DEF Stands
    <3> HIDE DEF sel, n
    <3>2. CountOf(sel, n) = Len(RowsOf(sel, n)) /\ sel.kind # "bad"
      BY <2>2, <3>1, NormalRows
    <3>3. IF view.want.ok
          THEN sel.kind # "bad" /\ RowsOf(sel, n) = view.want.rows /\ CountOf(sel, n) = Len(view.want.rows)
          ELSE sel.kind = "bad"
      BY <2>3, <3>1, <3>2
    <3> QED
      BY <3>3 DEF sel, n
  <2>4. CASE ~ view.want.ok
    BY <2>1, <2>4 DEF Stands, Bad
  <2> QED
    BY <2>3, <2>4
<1>2. IInv => ViewSelects
  BY <1>1 DEF IInv, ViewSelects
<1> QED
  BY <1>2, Invariance, PTL
==============================================================================
