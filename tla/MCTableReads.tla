---------------------------- MODULE MCTableReads ----------------------------
(* Instances of TableReads for TLC: a file of one record, one of two with its *)
(* columns in another order, a uniform one, one with a column of another size *)
(* and an empty record, and at most three of them in a dataset.               *)
EXTENDS TableReads

CONSTANTS single, pair, uniform, wide

MCFiles == {single, pair, uniform, wide}
MCRecords == [f \in MCFiles |->
  CASE f = single  -> << 2 >>       [] f = pair -> << 1, 2 >>
    [] f = uniform -> << 2, 2, 1 >> [] f = wide -> << 1, 0, 1 >>]

Col(name, size) == [name |-> name, size |-> size]
MCColumns == [f \in MCFiles |->
  CASE f = pair -> << Col("b", 2), Col("a", 1) >>
    [] f = wide -> << Col("b", 1), Col("a", 1) >>
    [] OTHER -> << Col("a", 1), Col("b", 2) >>]

MCHandles == 1..3
MCModes == {"strict", "drop"}
Path(f) == [kind |-> "path", file |-> f]
Reader(h) == [kind |-> "reader", handle |-> h]
MCSources == {<< Path(f) >> : f \in {single, pair, uniform}}
  \cup {<< Reader(1) >>, << Path(single), Path(Missing) >>, << Path(pair), Path(wide) >>}
MCRequests == {<< "a" >>, << "b", "a" >>}
Env(cpp, dense) == [cpp |-> cpp, dense |-> dense]
MCEnvironments == {Env(TRUE, TRUE), Env(TRUE, FALSE), Env(FALSE, FALSE)}

Every(n, k) == Mask([i \in 1..n |-> i % k = 0])
Bursts(n) == Mask([i \in 1..n |-> i % 5 \in {3, 4, 0}])
MCKeys(n) ==
  {All, Row(-1), Row(n), Slice(1, 4, 1), Slice(None, None, -2), Slice(0, None, 2),
   Slice(4, 1, 1), Fancy(<< 1, 0, 1, -1 >>), Fancy(<< 0, 0, n - 1 >>), Fancy(<< >>),
   Bursts(n), Every(n, 2), Mask([i \in 1..(n + 1) |-> TRUE])}
MCNarrowings(n) ==
  {Row(0), Slice(-2, None, 1), Slice(None, None, -1), Fancy(<< -1, 0 >>), Every(n, 2)}

MCValues == [f \in MCFiles |->
  CASE f = single -> << 1, 2 >> [] f = pair -> << 3, NaN, 1 >>
    [] f = uniform -> << 1, 2, 4, 3, 2 >> [] f = wide -> << 2, 5 >>]
MCComparisons == {<< op, x >> : op \in {">", ">=", "<", "<=", "=="}, x \in {2, 3}} \cup {<< "==", NaN >>}

\* What is left out to keep the instance small: a selection is narrowed only in a strict
\* dataset and before any table is memoised, a drop dataset is read only once it has
\* dropped a column, a store is closed only under a view, and once something is closed
\* no other view is made.  None of these steps waits for another in the code.
AllOpen == ~ closed /\ ToSet(children) \subseteq live /\ mine \subseteq live
Dropped == \E k \in DOMAIN children : SchemaOf(file[children[k]]) # schema
MCFocus ==
  /\ view # None /\ view' # None /\ view'.depth > view.depth =>
       memo = EmptyTable /\ AllOpen /\ mode = "strict"
  /\ live' # live /\ ~ (live \subseteq live') => view # None
  /\ view = None /\ view' # None =>
       AllOpen /\ (view'.on = Dataset /\ mode = "drop" => Dropped)
=============================================================================
