-------------------------------- MODULE Frame --------------------------------
(***************************************************************************)
(* The deferred editing frame (src/colstore/frame.py).  A frame is a set   *)
(* of rows (a base selection narrowed by cuts) and an ordered mapping of   *)
(* column names to expressions over the columns of an opened store; nothing *)
(* is computed before a terminal asks for it.  The user edits a frame in   *)
(* place or by way of a copy, changes an array that was attached by        *)
(* reference, appends to the dataset underneath, and draws batches in      *)
(* between; the terminals (array, n_rows, report, the reductions, write)   *)
(* are functions of the state they find.                                   *)
(*                                                                         *)
(* want is what the user was promised: the table that eager NumPy would    *)
(* have made of the same edits, and the rows that pass the cuts.  An array *)
(* attached by reference can be changed later, so a column is promised     *)
(* twice: for before the change and for after it.                          *)
(***************************************************************************)
EXTENDS Expressions

CONSTANTS Table,        \* the store's columns: a sequence of << name, array >>
          More,         \* the columns of the file that is appended to it
          Openings,     \* how the frame is opened (see Opened)
          Array,        \* an array of the program,
          Altered,      \* and what it is changed to
          Assignments,  \* what assign is given: sequences of << name, value >>
          Cuts,         \* what where is given: [pred, label, weight]
          Renamings,    \* what rename is given: sequences of << old, new >>
          Projections,  \* what select is given
          Drops,        \* what drop is given
          Casts,        \* what astype is given: << name, kind >>
          Params,       \* the parameters of the queries
          BatchRows,    \* rows of a batch: what its budget of bytes holds
          MaxEdits      \* bound: edits

ASSUME BatchAssumption == BatchRows \in Nat \ {0}

VARIABLES opening,   \* how the first frame was opened
          store,     \* the store's columns, and the rows of its files
          heap,      \* the arrays of the program: the one above and snapshots of it
          altered,   \* it has been changed
          graph,     \* every node there is
          maps,      \* every mapping of names to nodes there is
          frame,     \* two frames; cols is 0 where there is none
          want,      \* of each the promised table, base rows and cuts
          iter,      \* the batches being drawn
          edits

vars == <<opening, store, heap, altered, graph, maps, frame, want, iter, edits>>

Env == [store |-> store.cols, heap |-> heap]

-----------------------------------------------------------------------------
(* Ordered mappings (dict). *)

Place(m, name) == CHOOSE i \in DOMAIN m : m[i][1] = name
Lookup(m, name) == m[Place(m, name)][2]
NamesOf(m) == {m[i][1] : i \in DOMAIN m}
Nodes(m) == [i \in DOMAIN m |-> m[i][2]]
Put(m, name, x) ==
  IF name \in NamesOf(m) THEN [m EXCEPT ![Place(m, name)] = <<name, x>>]
                         ELSE Append(m, <<name, x>>)
PutAll(m, names, xs) == Along(LAMBDA a, k : Put(a, names[k], xs[k]), m, [k \in DOMAIN names |-> k])
Without(m, names) == SelectSeq(m, LAMBDA p : p[1] \notin names)
Renamed(m, to) == [i \in DOMAIN m |-> <<IF m[i][1] \in NamesOf(to) THEN Lookup(to, m[i][1]) ELSE m[i][1],
                                        m[i][2]>>]
Resolver(m) == [c \in NamesOf(m) |-> Lookup(m, c)]

Live == {f \in DOMAIN frame : frame[f].cols # 0}
Columns(f) == maps[frame[f].cols]

-----------------------------------------------------------------------------
(* The selected rows. *)

\* _normalize_base_rows: a mask is kept where a kernel gathers by masks, from
\* several records or several files, and it is dense enough.
Normalized(o, rows, files) ==
  IF rows = None \/ rows.form # "mask" THEN rows
  ELSE IF o.dense /\ (o.records \/ Len(files) > 1) THEN rows
  ELSE Index(Positions(rows.bits))

\* _base_indices
BaseIndices(fr) ==
  IF fr.base # None /\ fr.base.form = "mask" THEN Index(Positions(fr.base.bits)) ELSE fr.base

BaseRows(fr) == IF fr.base = None THEN Span(0, fr.n) ELSE BaseIndices(fr)

And(a, b) ==
  IF a = Raised \/ b = Raised THEN Raised
  ELSE [kind |-> "b",
        at   |-> [r \in 1..(IF Len(a.at) > Len(b.at) THEN Len(a.at) ELSE Len(b.at)) |->
                    Bit(Elem(a, r) # 0 /\ Elem(b, r) # 0)]]

\* _apply_cuts: the mask over the base rows after each cut, and the weights.
Masks(fr) ==
  Along(LAMBDA masks, cut : Append(masks, IF masks = <<>> THEN cut ELSE And(Last(masks), cut)), <<>>,
           Evaluate(graph, [k \in DOMAIN fr.cuts |-> fr.cuts[k].node], BaseRows(fr), Env))

Weights(fr, k) == Evaluate(graph, <<fr.cuts[k].weight>>, BaseRows(fr), Env)[1]

\* Positions among the base rows become source rows.
Narrowed(fr, mask) ==
  IF mask = Raised THEN Raised
  ELSE IF fr.base = None THEN Index(Positions(mask.at))
  ELSE Index(Pick(BaseIndices(fr).ids, Positions(mask.at)))

\* _resolve_selection: None, a selector, or Raised.
Selection(fr) == IF fr.cuts = <<>> THEN fr.base ELSE Narrowed(fr, Last(Masks(fr)))

\* _row_count, by the mask alone.
CountRows(fr) ==
  IF fr.cuts = <<>> THEN IF fr.base = None THEN fr.n ELSE RowCount(fr.base)
  ELSE Len(Positions(Last(Masks(fr)).at))

\* _resolve_index_selection: batches are cut from positions, never from a mask.
\* A slip to catch: the mask goes through.
LoweredNot(s) == s

Lowered(s) == IF s \in {None, Raised} THEN s ELSE IF s.form = "mask" THEN Index(Positions(s.bits)) ELSE s

IndexSelection(fr) == Lowered(Selection(fr))

\* One batch of a selection: rows at + 1 .. stop of it.
BatchOf(s, at, stop) ==
  IF s = None THEN Span(at, stop)
  ELSE IF s.form = "mask" THEN MaskOf(SubSeq(s.bits, at + 1, stop))
  ELSE Index(SubSeq(s.ids, at + 1, stop))

Starts(n) == [k \in 1..((n + BatchRows - 1) \div BatchRows) |-> (k - 1) * BatchRows]
StopOf(at, n) == IF at + BatchRows < n THEN at + BatchRows ELSE n
SelectedCount(fr, s) == IF s = None THEN fr.n ELSE RowCount(s)

-----------------------------------------------------------------------------
(* Terminals. *)

\* array, and dict and recarray column by column: one memo for all of them.
Materialized(fr, names) ==
  LET over(s) == IF s = Raised THEN [k \in DOMAIN names |-> Raised]
                 ELSE Evaluate(graph, [k \in DOMAIN names |-> Lookup(maps[fr.cols], names[k])],
                               IF s = None THEN Span(0, fr.n) ELSE s, Env)
  IN  over(Selection(fr))

SumOf(xs) == Along(LAMBDA a, x : a + x, 0, xs)

\* The weight in force at a cut, summed over the rows of a mask.
Weighed(fr, k, mask) ==
  IF fr.cuts[k].weight = None THEN None ELSE SumOf(Pick(Weights(fr, k).at, Positions(mask)))

\* report
Cutflow(fr, masks) ==
  LET count(k) == IF k = 0 THEN RowCount(BaseRows(fr)) ELSE Len(Positions(masks[k].at))
      before(k) == IF k = 1 THEN [r \in 1..RowCount(BaseRows(fr)) |-> 1] ELSE masks[k - 1].at
  IN  [k \in DOMAIN masks |->
         [label |-> fr.cuts[k].label, entering |-> count(k - 1), passing |-> count(k),
          weights |-> << Weighed(fr, k, before(k)), Weighed(fr, k, masks[k].at) >>]]

\* The mapped memory of a stored column: rows of one file of one record.
Viewable(rows) ==
  /\ rows.form = "slice" /\ ~opening.records
  /\ \E k \in DOMAIN store.files :
       LET before == SumOf(SubSeq(store.files, 1, k - 1)) IN
       before <= rows.from /\ rows.to <= before + store.files[k]

\* _stream_column: one view where that can be had, or batches.
Streamed(fr, node) ==
  LET read(rows) == Evaluate(graph, <<node>>, rows, Env)[1]
      rows(s, n) == IF graph[node].op = "native" /\ s = None /\ Viewable(Span(0, n))
                    THEN SelectSeq(<< Span(0, n) >>, LAMBDA x : n > 0)
                    ELSE [k \in DOMAIN Starts(n) |-> BatchOf(s, Starts(n)[k], StopOf(Starts(n)[k], n))]
      over(s) == IF s = Raised THEN <<Raised>>
                 ELSE LET batch == rows(s, SelectedCount(fr, s)) IN [k \in DOMAIN batch |-> read(batch[k])]
  IN  over(IndexSelection(fr))

(* Rationals, in lowest terms. *)
Q(p, q) ==
  LET by(g) == <<p \div g, q \div g>>
  IN  by(Along(LAMBDA g, d : IF p % d = 0 /\ q % d = 0 THEN d ELSE g, 1, [d \in 1..q |-> d]))
Plus(a, b) == Q(a[1] * b[2] + b[1] * a[2], a[2] * b[2])
Minus(a, b) == Q(a[1] * b[2] - b[1] * a[2], a[2] * b[2])
Times(a, b) == Q(a[1] * b[1], a[2] * b[2])

\* The mean of a batch, and its squared deviations.
Mean(batch) == Q(SumOf(batch), Len(batch))
Deviations(batch) ==
  LET n == Len(batch)  total == SumOf(batch)
  IN  Q(Along(LAMBDA a, x : a + (n * x - total) * (n * x - total), 0, batch), n * n)

\* A slip to catch: the distance of the means is weighed by one part only.
ChanOneSided(acc, batch) ==
  LET count == Len(batch)  total == acc.n + Len(batch)
      delta == Minus(Mean(batch), acc.mean)
  IN  [n    |-> total,
       mean |-> Plus(acc.mean, Times(delta, Q(count, total))),
       m2   |-> Plus(Plus(acc.m2, Deviations(batch)), Times(Times(delta, delta), Q(count, total)))]

\* var: a batch joined to the parts before it.
Chan(acc, batch) ==
  LET count == Len(batch)  total == acc.n + Len(batch)
      delta == Minus(Mean(batch), acc.mean)
  IN  [n    |-> total,
       mean |-> Plus(acc.mean, Times(delta, Q(count, total))),
       m2   |-> Plus(Plus(acc.m2, Deviations(batch)),
                     Times(Times(delta, delta), Q(acc.n * count, total)))]

\* sum, mean, min, max and var, of the batches of a column.
Reduced(parts) ==
  LET sums  == [k \in DOMAIN parts |-> SumOf(parts[k])]
      n     == SumOf([k \in DOMAIN parts |-> Len(parts[k])])
      fold(op, xs) == IF xs = <<>> THEN None ELSE Along(LAMBDA a, x : Point(op, <<a, x>>), xs[1], xs)
      best(op) == fold(op, [k \in DOMAIN parts |-> fold(op, parts[k])])
  IN  [sum |-> SumOf(sums), mean |-> IF n = 0 THEN None ELSE <<SumOf(sums), n>>,
       min |-> best("minimum"), max |-> best("maximum"),
       var |-> Along(Chan, [n |-> 0, mean |-> <<0, 1>>, m2 |-> <<0, 1>>], parts)]

-----------------------------------------------------------------------------
(* iter_batches and write. *)

\* _batch_column: a view, a reused buffer, or an array of its own:
\* << what the batch shows, the buffer after it >>.  A store that does not fill
\* the buffer it is given has none after the first probe.
\* A slip to catch: the whole buffer is shown.
BatchColumnWhole(node, rows, buffer, array) ==
  IF graph[node].op # "native" \/ Viewable(rows) \/ ~opening.out THEN <<array.at, buffer>>
  ELSE LET filled == [i \in 1..BatchRows |-> IF i <= Len(array.at) THEN array.at[i] ELSE buffer[i]]
       IN  <<filled, filled>>

BatchColumn(node, rows, buffer, array) ==
  IF graph[node].op # "native" \/ Viewable(rows) \/ ~opening.out THEN <<array.at, buffer>>
  ELSE LET filled == [i \in 1..BatchRows |-> IF i <= Len(array.at) THEN array.at[i] ELSE buffer[i]]
       IN  <<SubSeq(filled, 1, RowCount(rows)), filled>>

\* _merge_copy_plan: every column untransformed, unshared, of native byte
\* order, and as many rows on the disk as the file shall have.
MergePlan(nodes, n) ==
  /\ Fusible(graph, nodes) = DOMAIN nodes /\ opening.raw
  /\ \A k \in DOMAIN nodes : Len(store.cols[graph[nodes[k]].tag].at) = n

NoFile == [ok |-> FALSE, cols |-> <<>>]
File(cols) == [ok |-> TRUE, cols |-> cols]

\* _fill_streaming: batch by batch; without a selection the columns that are
\* fusible go from the store to the file.
Filled(nodes, s, n) ==
  LET rows == [b \in DOMAIN Starts(n) |-> BatchOf(s, Starts(n)[b], StopOf(Starts(n)[b], n))]
      direct(k, b) == Pick(store.cols[graph[nodes[k]].tag].at, RowIds(rows[b]))
      body(fusible, read) ==
        IF \E b \in DOMAIN read : Raised \in Range(read[b]) THEN NoFile
        ELSE File([k \in DOMAIN nodes |->
               FlattenSeq([b \in DOMAIN rows |-> IF k \in fusible THEN direct(k, b) ELSE read[b][k].at])])
  IN  body(IF s = None THEN Fusible(graph, nodes) ELSE {},
           [b \in DOMAIN rows |-> Evaluate(graph, nodes, rows[b], Env)])

\* write: the columns of the file, or an error and no file.
Write(fr) ==
  LET nodes == Nodes(maps[fr.cols])
      over(s, n) ==
        IF \/ nodes = <<>>
           \/ s = None /\ \E k \in DOMAIN nodes : ~FitsRows(graph, nodes[k], n, Env)
        THEN NoFile
        ELSE IF s = None /\ MergePlan(nodes, n)
             THEN File([k \in DOMAIN nodes |-> store.cols[graph[nodes[k]].tag].at])
             ELSE Filled(nodes, s, n)
      from(s) == IF s = Raised THEN NoFile ELSE over(s, SelectedCount(fr, s))
  IN  from(IndexSelection(fr))

-----------------------------------------------------------------------------
(* Coercion of what a column is assigned. *)

\* _coerce with as_expr, one value after another; no root is 0 unless it is
\* refused.  Values are col() expressions, scalars, arrays, expressions of
\* apply(), and columns of the other frame.
Coerce(f, s, v) ==
  LET m == Columns(f)
      leaf(node) == [s EXCEPT !.graph = Append(@, node), !.roots = Append(@, Len(s.graph) + 1)]
      refused == [s EXCEPT !.roots = Append(@, 0)]
      node(r) == [s EXCEPT !.roots = Append(@, r)]
  IN  CASE v.is = "scalar" -> leaf(Node("const", v.at, <<>>))
        [] v.is = "expr" ->
             IF ~(ColumnsOf(v.at) \subseteq NamesOf(m)) THEN refused
             ELSE LET e == Emit(s.graph, v.at, Resolver(m))
                  IN  [s EXCEPT !.graph = e.graph, !.roots = Append(@, e.root)]
        [] v.is = "apply" ->
             IF v.col \notin NamesOf(m) THEN refused
             ELSE LET x == <<[kind |-> ResultKind(graph, Lookup(m, v.col), Env), at |-> <<>>]>>
                      kind == IF v.kind = None THEN Called(v.func, x, 0).kind ELSE v.kind
                  IN  leaf(Node("apply", [func |-> v.func, kind |-> kind, declared |-> v.kind # None],
                                <<Ref(Lookup(m, v.col))>>))
        [] v.is = "array" ->
             IF frame[f].base # None \/ frame[f].cuts # <<>> \/ Len(heap[1].at) # frame[f].n THEN refused
             ELSE IF v.copy THEN [leaf(Node("memory", Len(s.heap) + 1, <<>>)) EXCEPT !.heap = Append(@, heap[1])]
             ELSE leaf(Node("memory", 1, <<>>))
        [] v.is = "other" ->
             IF 3 - f \notin Live \/ v.col \notin NamesOf(Columns(3 - f)) THEN refused
             ELSE node(Lookup(Columns(3 - f), v.col))

CoerceAll(f, a) ==
  Along(LAMBDA s, p : Coerce(f, s, p[2]), [graph |-> graph, heap |-> heap, roots |-> <<>>], a)

\* Would they all be accepted?
Coercible(f, c) ==
  \A k \in DOMAIN c.roots :
    c.roots[k] # 0 /\ FitsRows(c.graph, c.roots[k], frame[f].n, [Env EXCEPT !.heap = c.heap])

\* _compile_predicate: over the columns there are, and boolean.
Compiled(g, pred, m) ==
  LET checked(c) == IF ResultKind(c.graph, c.root, Env) = "b" THEN c ELSE None
      emitted(e) == IF e.is = "failed" THEN None
                    ELSE IF ColumnsOf(e.at) \subseteq NamesOf(m) THEN checked(Emit(g, e.at, Resolver(m)))
                    ELSE None
  IN  emitted(IF pred.is = "query" THEN Parsed(pred.at, NamesOf(m), Params) ELSE pred)

-----------------------------------------------------------------------------
(* The promise: eager NumPy on whole columns. *)

\* What a query says of one row.
Truth(tree, row) ==
  LET holds(op, x, y) == CASE op = "in" -> x \in y [] op = "not in" -> x \notin y
                           [] OTHER -> Point(op, <<x, y>>) # 0
      v[i \in 1..Len(tree)] ==
        LET t == tree[i]
            x == [k \in DOMAIN t.in |-> v[t.in[k]]]
        IN  CASE t.ast = "constant" -> t.tag.val
              [] t.ast = "name" -> row[t.tag]
              [] t.ast = "param" -> IF Params[t.tag].is = "list" THEN Params[t.tag].at
                                    ELSE Params[t.tag].at.val
              [] t.ast = "list" -> Range(x)
              [] t.ast = "bool" -> Bit(IF t.tag = "logical_and" THEN \A k \in DOMAIN x : x[k] # 0
                                                                ELSE \E k \in DOMAIN x : x[k] # 0)
              [] t.ast = "operator" -> Point(t.tag, x)
              [] t.ast = "compare" ->
                   Bit(\A k \in DOMAIN t.tag : holds(t.tag[k], x[k], x[k + 1]))
  IN  v[Len(tree)]

Column(kind, n, F(_)) == [kind |-> kind, at |-> [r \in 1..n |-> F(r)]]
ColumnsAt(table, w) == [c \in NamesOf(table) |-> Lookup(table, c)[w]]

\* A value over a table, in both worlds; n rows.
Eager(f, table, v, n) ==
  LET cols(w) == ColumnsAt(table, w) IN
  [w \in BOOLEAN |->
     CASE v.is = "scalar" -> Column(v.at.kind, n, LAMBDA r : v.at.val)
       [] v.is = "expr"   -> Evaluated(v.at, cols(w), n)
       [] v.is = "apply"  ->
            LET x == cols(w)[v.col]
                kind == IF v.kind = None THEN Called(v.func, <<[x EXCEPT !.at = <<>>]>>, 0).kind ELSE v.kind
            IN  Column(kind, n, LAMBDA r : AsKind(IF v.kind = None THEN "i" ELSE v.kind,
                                                  Called(v.func, <<x>>, n).at[r]))
       [] v.is = "array"  -> IF v.copy THEN heap[1] ELSE IF w THEN Altered ELSE Array
       [] v.is = "other"  -> Lookup(want[3 - f].table, v.col)[w]]

EagerBits(table, pred, n) ==
  [w \in BOOLEAN |->
     IF pred.is = "expr" THEN Evaluated(pred.at, ColumnsAt(table, w), n).at
     ELSE [r \in 1..n |-> Truth(pred.at, [c \in NamesOf(table) |-> Lookup(table, c)[w].at[r]])]]

Passing(f, upto) ==
  SelectSeq(want[f].ids, LAMBDA i : \A k \in 1..upto : want[f].cuts[k].bits[altered][i] = 1)
PassingAll(f) == Passing(f, Len(want[f].cuts))

\* The columns promised, in order, as << name, array >>.
Promises(f) ==
  LET over(ids, table) ==
        [k \in DOMAIN table |-> << table[k][1], [kind |-> table[k][2][altered].kind,
                                                at |-> Pick(table[k][2][altered].at, ids)] >>]
  IN  over(PassingAll(f), want[f].table)

-----------------------------------------------------------------------------
(* Opening and editing. *)

NoFrame == [cols |-> 0, n |-> 0, base |-> None, cuts |-> <<>>]
NoWant == [table |-> <<>>, ids |-> <<>>, cuts |-> <<>>]

\* ColStoreFrame(): the store's columns, or those of a view; its rows, and the
\* predicate of the view, whose names are the store's (_carry_reader_predicate).
Opened(o) ==
  LET n      == SumOf(o.files)
      nodes  == [i \in DOMAIN Table |-> Node("native", Table[i][1], <<>>)]
      all    == [i \in DOMAIN Table |-> <<Table[i][1], i>>]
      table  == [i \in DOMAIN Table |-> <<Table[i][1], [w \in BOOLEAN |-> Table[i][2]]>>]
      some(m) == [k \in DOMAIN o.names |-> <<o.names[k], Lookup(m, o.names[k])>>]
      names  == NamesOf(all)
      e      == IF o.carried.is = "query" THEN Parsed(o.carried.at, names, Params) ELSE o.carried
      c      == Emit(nodes, e.at, Resolver(all))
      cut(x) == IF o.carried.is = "failed" THEN <<>> ELSE <<x>>
  IN  [graph |-> IF o.carried.is = "failed" THEN nodes ELSE c.graph,
       maps  |-> <<some(all)>>,
       frame |-> [cols |-> 1, n |-> n, base |-> Normalized(o, o.rows, o.files),
                  cuts |-> cut([label |-> None, node |-> c.root, weight |-> None])],
       want  |-> [table |-> some(table),
                  ids |-> IF o.rows = None THEN [r \in 1..n |-> r] ELSE RowIds(o.rows),
                  cuts |-> cut([label |-> None, bits |-> EagerBits(table, o.carried, n), weight |-> None])]]

Init ==
  /\ opening \in Openings
  /\ store = [cols |-> [c \in NamesOf(Table) |-> Lookup(Table, c)], files |-> opening.files]
  /\ heap = <<Array>> /\ altered = FALSE
  /\ \E new \in {Opened(opening)} :
       /\ graph = new.graph /\ maps = new.maps
       /\ frame = <<new.frame, NoFrame>> /\ want = <<new.want, NoWant>>
  /\ iter = None
  /\ edits = 0

\* What an edit works on: the frame, or a copy() with a mapping of its own.
Target(f, inplace) ==
  IF inplace THEN [slot |-> f, maps |-> maps, cols |-> frame[f].cols]
  ELSE [slot |-> 3 - f, maps |-> Append(maps, maps[frame[f].cols]), cols |-> Len(maps) + 1]

\* The batches are drawn from the frame they were begun on: the user keeps it.
Edit(f, inplace) ==
  /\ f \in Live /\ edits < MaxEdits
  /\ iter # None => (inplace \/ iter.f = f)
  /\ edits' = edits + 1
  /\ iter' = IF iter # None /\ inplace /\ iter.f = f THEN [iter EXCEPT !.same = FALSE] ELSE iter
  /\ UNCHANGED <<opening, store, altered>>

\* The mapping is changed, or (fresh) replaced by another.
Remap(f, inplace, m, fresh, table) ==
  LET t == Target(f, inplace)
      at == IF fresh THEN Len(t.maps) + 1 ELSE t.cols
  IN  /\ maps' = IF fresh THEN Append(t.maps, m) ELSE [t.maps EXCEPT ![t.cols] = m]
      /\ frame' = [frame EXCEPT ![t.slot] = [frame[f] EXCEPT !.cols = at]]
      /\ want' = [want EXCEPT ![t.slot] = [want[f] EXCEPT !.table = table]]

\* assign and with_columns; frame[name] = value is one name in place.  Every
\* value is coerced before any is stored.
Assign ==
  \E f \in Live, inplace \in BOOLEAN, a \in Assignments :
    \E c \in {CoerceAll(f, a)}, names \in {[k \in DOMAIN a |-> a[k][1]]} :
      /\ Coercible(f, c)
      /\ Edit(f, inplace)
      /\ graph' = c.graph /\ heap' = c.heap
      /\ Remap(f, inplace, PutAll(Columns(f), names, c.roots), FALSE,
               PutAll(want[f].table, names,
                      [k \in DOMAIN a |-> Eager(f, want[f].table, a[k][2], frame[f].n)]))

\* drop; del frame[name] is one name in place.
Drop ==
  \E f \in Live, inplace \in BOOLEAN, names \in Drops :
    /\ names \subseteq NamesOf(Columns(f))
    /\ Edit(f, inplace)
    /\ Remap(f, inplace, Without(Columns(f), names), FALSE, Without(want[f].table, names))
    /\ UNCHANGED <<graph, heap>>

\* rename, of all the names at once.
Rename ==
  \E f \in Live, inplace \in BOOLEAN, to \in Renamings :
    LET m == Renamed(Columns(f), to) IN
    /\ NamesOf(to) \subseteq NamesOf(Columns(f))
    /\ Cardinality(NamesOf(m)) = Len(m)
    /\ Edit(f, inplace)
    /\ Remap(f, inplace, m, TRUE, Renamed(want[f].table, to))
    /\ UNCHANGED <<graph, heap>>

\* select
Select ==
  \E f \in Live, inplace \in BOOLEAN, names \in Projections :
    LET some(m) == [k \in DOMAIN names |-> <<names[k], Lookup(m, names[k])>>] IN
    /\ Range(names) \subseteq NamesOf(Columns(f)) /\ IsInjective(names)
    /\ Edit(f, inplace)
    /\ Remap(f, inplace, some(Columns(f)), TRUE, some(want[f].table))
    /\ UNCHANGED <<graph, heap>>

\* astype
Astype ==
  \E f \in Live, inplace \in BOOLEAN, cast \in Casts :
    /\ cast[1] \in NamesOf(Columns(f))
    /\ Edit(f, inplace)
    /\ graph' = Append(graph, Node("cast", cast[2], <<Ref(Lookup(Columns(f), cast[1]))>>))
    /\ Remap(f, inplace, Put(Columns(f), cast[1], Len(graph) + 1), FALSE,
             Put(want[f].table, cast[1],
                 [w \in BOOLEAN |->
                    LET x == Lookup(want[f].table, cast[1])[w]
                    IN  Column(cast[2], Len(x.at), LAMBDA r : AsKind(cast[2], x.at[r]))]))
    /\ UNCHANGED heap

\* A slip to catch: a weight is for its own cut only.
WeightOfItsOwn(cuts, given) == given

\* The weight of a cut: what is given, or what the cut before it has.
StickyWeight(cuts, given) ==
  IF given = None /\ cuts # <<>> THEN Last(cuts).weight ELSE given

\* _resolve_weight: a numeric column, or None; refused is a root of 0.
Weight(c, weight, m) ==
  LET checked(w) == IF ResultKind(w.graph, w.root, Env) = "i" THEN w ELSE [w EXCEPT !.root = 0]
  IN  IF weight = None THEN [graph |-> c.graph, root |-> None]
      ELSE IF ColumnsOf(weight.at) \subseteq NamesOf(m) THEN checked(Emit(c.graph, weight.at, Resolver(m)))
      ELSE [graph |-> c.graph, root |-> 0]

\* where and filter
Filter ==
  \E f \in Live, inplace \in BOOLEAN, cut \in Cuts :
    \E c \in {Compiled(graph, cut.pred, Columns(f))} \ {None} :
    \E w \in {Weight(c, cut.weight, Columns(f))}, t \in {Target(f, inplace)} :
      /\ w.root # 0
      /\ Edit(f, inplace)
      /\ graph' = w.graph
      /\ maps' = t.maps
      /\ frame' = [frame EXCEPT ![t.slot] = [frame[f] EXCEPT !.cols = t.cols,
           !.cuts = Append(@, [label |-> cut.label, node |-> c.root,
                               weight |-> StickyWeight(frame[f].cuts, w.root)])]]
      /\ want' = [want EXCEPT ![t.slot] = [want[f] EXCEPT
           !.cuts = Append(@, [label |-> cut.label,
                               bits |-> EagerBits(want[f].table, cut.pred, frame[f].n),
                               weight |-> IF cut.weight # None
                                          THEN Eager(f, want[f].table, cut.weight, frame[f].n)
                                          ELSE IF @ = <<>> THEN None ELSE Last(@).weight])]]
      /\ UNCHANGED heap

-----------------------------------------------------------------------------
(* What goes on around the frames. *)

\* The array that was attached, or copied, is changed.
MutateArray ==
  /\ ~altered /\ \E i \in DOMAIN graph : graph[i].op = "memory"
  /\ altered' = TRUE
  /\ heap' = [heap EXCEPT ![1] = Altered]
  /\ iter' = IF iter = None THEN None ELSE [iter EXCEPT !.same = FALSE]
  /\ UNCHANGED <<opening, store, graph, maps, frame, want, edits>>

\* A file is appended to the dataset the frames read.
AppendFile ==
  /\ ~opening.records /\ Len(store.files) = Len(opening.files)
  /\ store' = [cols  |-> [c \in DOMAIN store.cols |-> [store.cols[c] EXCEPT !.at = @ \o More[c]]],
               files |-> Append(store.files, Len(More[CHOOSE c \in DOMAIN store.cols : TRUE]))]
  /\ UNCHANGED <<opening, heap, altered, graph, maps, frame, want, iter, edits>>

\* The first batch is asked for: names and selection are settled.
StartBatches ==
  /\ iter = None
  /\ \E f \in Live, copy \in BOOLEAN :
     \E s \in {IndexSelection(frame[f])}, names \in {[k \in DOMAIN Columns(f) |-> Columns(f)[k][1]]} :
           /\ s # Raised /\ names # <<>> /\ SelectedCount(frame[f], s) > 0
           /\ iter' = [f |-> f, names |-> names, sel |-> s, n |-> SelectedCount(frame[f], s), at |-> 0,
                       copy |-> copy, buffer |-> [k \in DOMAIN names |-> [i \in 1..BatchRows |-> 0]],
                       drawn |-> [k \in DOMAIN names |-> <<>>], same |-> TRUE,
                       goal |-> [k \in DOMAIN names |-> Promises(f)[k][2].at]]
  /\ UNCHANGED <<opening, store, heap, altered, graph, maps, frame, want, edits>>

\* A batch: the columns are looked up as the frame has them now.
NextBatch ==
  /\ iter # None /\ iter.at < iter.n
  /\ Range(iter.names) \subseteq NamesOf(Columns(iter.f))
  /\ \E rows \in {BatchOf(iter.sel, iter.at, StopOf(iter.at, iter.n))},
        node \in {[k \in DOMAIN iter.names |-> Lookup(Columns(iter.f), iter.names[k])]} :
     \E read \in {Evaluate(graph, node, rows, Env)} :
     \E cell \in {[k \in DOMAIN node |->
                     IF iter.copy THEN <<read[k].at, iter.buffer[k]>>
                     ELSE BatchColumn(node[k], rows, iter.buffer[k], read[k])]} :
       /\ Raised \notin Range(read)
       /\ iter' = [iter EXCEPT !.at = StopOf(iter.at, iter.n),
                     !.buffer = [k \in DOMAIN node |-> cell[k][2]],
                     !.drawn = [k \in DOMAIN node |-> iter.drawn[k] \o cell[k][1]]]
  /\ UNCHANGED <<opening, store, heap, altered, graph, maps, frame, want, edits>>

\* The batches are used up or given up, or the next one raises.
EndBatches ==
  /\ iter # None
  /\ iter' = None
  /\ UNCHANGED <<opening, store, heap, altered, graph, maps, frame, want, edits>>

Next == \/ Assign \/ Drop \/ Rename \/ Select \/ Astype \/ Filter
        \/ MutateArray \/ AppendFile
        \/ StartBatches \/ NextBatch \/ EndBatches

Spec == Init /\ [][Next]_vars

-----------------------------------------------------------------------------
(* Properties. *)

\* An expression with an inferred kind may meet data of another, and a mask
\* that was kept no longer fits a dataset that has grown: these may raise.
Grown == Len(store.files) > Len(opening.files)
MayRaise(f) ==
  \/ \E i \in DOMAIN graph : graph[i].op = "apply" /\ ~graph[i].tag.declared
  \/ Grown /\ frame[f].base # None /\ frame[f].base.form = "mask" /\ frame[f].cuts = <<>>

\* Batches may be given up at any moment, which changes nothing else: what is
\* said of the terminals is said of the states where none are drawn.
Quiet == iter = None

\* However frames were edited and copied, and whatever their expressions share
\* in the memo, every column of every frame is what eager NumPy would have made
\* of it, over the rows that eager cuts would have left; n_rows agrees.
TerminalsAgree ==
  Quiet => \A f \in Live : \A goal \in {Promises(f)} :
    \A names \in {[k \in DOMAIN Columns(f) |-> Columns(f)[k][1]]} :
      /\ names = [k \in DOMAIN goal |-> goal[k][1]]
      /\ \A got \in {Materialized(frame[f], names)} : \A k \in DOMAIN names :
           got[k] = goal[k][2] \/ (got[k] = Raised /\ MayRaise(f))
      /\ CountRows(frame[f]) = Len(PassingAll(f)) \/ MayRaise(f)

\* The cutflow counts, at each cut, the rows that reached it and those that
\* passed, and sums the weights in force over the same rows.
CutflowExact ==
  Quiet => \A f \in Live : \A masks \in {Masks(frame[f])} : Raised \notin Range(masks) =>
    LET cuts == want[f].cuts
        weigh(k, upto) == IF cuts[k].weight = None THEN None
                          ELSE SumOf(Pick(cuts[k].weight[altered].at, Passing(f, upto)))
    IN  Cutflow(frame[f], masks) =
          [k \in DOMAIN cuts |->
             [label |-> cuts[k].label,
              entering |-> Len(Passing(f, k - 1)), passing |-> Len(Passing(f, k)),
              weights |-> << weigh(k, k - 1), weigh(k, k) >>]]

\* Reducing a column batch by batch, or over one view of the mapped memory,
\* gives what reducing the whole column at once gives.
ReductionsExact ==
  Quiet => \A f \in Live : \A promise \in Range(Promises(f)) :
    \A parts \in {Streamed(frame[f], Lookup(Columns(f), promise[1]))}, xs \in {promise[2].at} :
      IF Raised \in Range(parts) THEN MayRaise(f)
      ELSE \A got \in {Reduced([k \in DOMAIN parts |-> parts[k].at])} :
        IF xs = <<>> THEN got.sum = 0 /\ {got.mean, got.min, got.max} = {None} /\ got.var.n = 0
        ELSE /\ got.sum = SumOf(xs) /\ got.mean = <<SumOf(xs), Len(xs)>>
             /\ got.min \in Range(xs) /\ got.max \in Range(xs)
             /\ \A x \in Range(xs) : got.min <= x /\ x <= got.max
             /\ got.var.n = Len(xs)
             /\ got.var.m2 = Q(Len(xs) * SumOf([k \in DOMAIN xs |-> xs[k] * xs[k]]) - SumOf(xs) * SumOf(xs),
                               Len(xs))

\* Drawn end to end, the batches of a frame that is not edited meanwhile are
\* its rows at the start, each once and in order, with and without copies,
\* whatever happens to other frames and to the dataset.
BatchesExact ==
  iter # None /\ iter.same =>
    \A k \in DOMAIN iter.names : iter.drawn[k] = SubSeq(iter.goal[k], 1, iter.at)

\* The file that write makes, by a copy of bytes, by direct fills or batch by
\* batch, holds the frame's columns; it refuses a frame with none, and one over
\* a whole dataset that has grown.
WrittenExact ==
  Quiet => \A f \in Live : \A got \in {Write(frame[f])}, goal \in {Promises(f)} :
    IF got.ok THEN got.cols = [k \in DOMAIN goal |-> goal[k][2].at] /\ got.cols # <<>>
    ELSE \/ goal = <<>> \/ MayRaise(f)
         \/ Grown /\ frame[f].base = None /\ frame[f].cuts = <<>>
=============================================================================
