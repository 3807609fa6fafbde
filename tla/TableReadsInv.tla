--------------------------- MODULE TableReadsInv ---------------------------
(***************************************************************************)
(* The inductive invariant behind OpenerCloses, SchemaInEveryChild,        *)
(* MemoFresh and ViewSelects: whose readers there are, what the dataset    *)
(* knows of its children, what its memo remembers, and what rows the       *)
(* selector of a view stands for.                                          *)
(***************************************************************************)
EXTENDS TableReads

TypeInv == /\ file \in [Handles -> Files \cup {None}]
           /\ live \subseteq Handles /\ mine \subseteq Handles
           /\ children \in Seq(Handles)
           /\ owned \in Seq(BOOLEAN) /\ DOMAIN owned = DOMAIN children

InUse == live \cup mine \cup ToSet(children)

\* Who opened a reader: the user, or the dataset, which has it for a child and
\* is not closed.
OwnersInv == /\ \A h \in InUse : file[h] # None
             /\ \A k \in DOMAIN children : owned[k] => children[k] \notin mine
             /\ \A h \in live \ mine :
                  ~ closed /\ \E k \in DOMAIN children : children[k] = h /\ owned[k]

\* A schema is that of the children, from the first one on.
SchemaInv == /\ SchemaInEveryChild
             /\ schema = {} <=> children = << >>

Shown == {x.name : x \in schema}
AllMapped == ToSet(children) \subseteq live

\* The memo has tables of the dataset's columns; while all children are mapped
\* they are those that would be stitched now, and a grid that is known is that of
\* any column's table.
MemoInv == /\ DOMAIN memo \subseteq Shown
           /\ AllMapped =>
                /\ \A c \in DOMAIN memo : memo[c] = Stitch(c)
                /\ grid.known => \A c \in Shown :
                     Stitch(c) # None => grid.rows = UniformSegmentRows(Stitch(c).starts)

\* The dataset's rows are those of its children, one after another.
OffsetsInv ==
  offsets = [k \in 1..(Len(children) + 1) |->
               Total([j \in 1..(k - 1) |-> RowsIn(file[children[j]])])]

\* The selectors of n rows that are normalised: their rows are there.
Masks == [kind : {"mask"}, bits : Seq(BOOLEAN)]
Normal(n) == {All} \cup [kind : {"row"}, row : 0..(n - 1)] \cup Slices
             \cup [kind : {"fancy"}, rows : Seq(0..(n - 1))]
             \cup {m \in Masks : Len(m.bits) = n}

\* A selector stands for the rows that are wanted; what is out of bounds is Bad.
Stands(sel, n, want) ==
  IF want.ok
  THEN sel \in Normal(n) /\ RowsOf(sel, n) = want.rows
  ELSE sel = Bad

\* A view's selector stands for the rows of what it selects from that it should.
ViewInv ==
  view # None =>
    /\ view = [on |-> view.on, part |-> view.part, want |-> view.want, depth |-> view.depth]
    /\ view.want = [ok |-> view.want.ok, rows |-> view.want.rows]
    /\ view.on # Dataset => view.on \in Handles /\ file[view.on] \in Files
    /\ Stands(Selected, TableRows(view.on), view.want)

IInv == TypeInv /\ OwnersInv /\ SchemaInv /\ MemoInv /\ OffsetsInv /\ ViewInv
=============================================================================
