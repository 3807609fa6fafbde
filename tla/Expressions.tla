----------------------------- MODULE Expressions -----------------------------
(***************************************************************************)
(* The deferred column expressions of colstore (frame.py, _query.py): how  *)
(* they are built, from operators and from query strings, and the two ways *)
(* they are computed: column by column, as a reader does with a predicate, *)
(* and by the frame's evaluate(), over some rows, with a memo that keeps   *)
(* each node's result under its structural key.                            *)
(*                                                                         *)
(* A graph is a sequence of nodes; a node's operands are scalars or        *)
(* earlier nodes.  A col() expression is a graph of its own, whose root is *)
(* the last node and whose leaves are names ("col"), resolved when it is   *)
(* bound to a frame.                                                       *)
(*                                                                         *)
(* An array is a kind, "b" (boolean) or "i" (number), and its values, of   *)
(* which booleans are 0 and 1.  One value broadcasts, as in NumPy.         *)
(***************************************************************************)
EXTENDS Integers, Sequences, FiniteSets, SequencesExt

CONSTANTS None,        \* Python's None
          Repr(_)      \* the text a scalar or a function goes by in a key

\* FoldLeft, without its choice of the least index at every step.
Along(step(_, _), base, seq) ==
  LET upto[k \in 0..Len(seq)] == IF k = 0 THEN base ELSE step(upto[k - 1], seq[k])
  IN  upto[Len(seq)]

Raised == [kind |-> "raised", at |-> <<>>]
Bit(p) == IF p THEN 1 ELSE 0
Num(v) == [kind |-> "i", val |-> v]

-----------------------------------------------------------------------------
(* Selectors of rows: a slice, an index array or a mask (Rows). *)

Span(a, b) == [form |-> "slice", from |-> a, to |-> b]
Index(ids) == [form |-> "index", ids |-> ids]
MaskOf(bits) == [form |-> "mask", bits |-> bits]

Positions(bits) == SelectSeq([i \in 1..Len(bits) |-> i], LAMBDA i : bits[i] = 1)

\* The rows a selector names, counted from 1.
RowIds(rows) ==
  CASE rows.form = "slice" -> [i \in 1..(rows.to - rows.from) |-> rows.from + i]
    [] rows.form = "index" -> rows.ids
    [] rows.form = "mask"  -> Positions(rows.bits)

RowCount(rows) ==
  CASE rows.form = "slice" -> IF rows.to > rows.from THEN rows.to - rows.from ELSE 0
    [] rows.form = "index" -> Len(rows.ids)
    [] rows.form = "mask"  -> Len(Positions(rows.bits))

Pick(seq, ids) == [i \in DOMAIN ids |-> seq[ids[i]]]

-----------------------------------------------------------------------------
(* Operands and the building of expressions. *)

Node(op, tag, in) == [op |-> op, tag |-> tag, in |-> in]
Ref(i) == [is |-> "node", at |-> i]
Scalar(s) == [is |-> "scalar", at |-> s]
Raw == [is |-> "raw", at |-> <<>>]         \* an ndarray given as an operand
Failed == [is |-> "failed", at |-> <<>>]   \* TypeError, QueryError
Expr(nodes) == [is |-> "expr", at |-> nodes]
Col(name) == Expr(<<Node("col", name, <<>>)>>)

\* The nodes of some operands side by side, and what stands for each of them.
Joined(operands) ==
  LET moved(node, by) ==
        [node EXCEPT !.in = [k \in DOMAIN node.in |->
           IF node.in[k].is = "node" THEN Ref(node.in[k].at + by) ELSE node.in[k]]]
      join(s, o) ==
        IF o.is # "expr" THEN [s EXCEPT !.in = Append(@, o)]
        ELSE [nodes |-> s.nodes \o [k \in DOMAIN o.at |-> moved(o.at[k], Len(s.nodes))],
              in    |-> Append(s.in, Ref(Len(s.nodes) + Len(o.at)))]
  IN  Along(join, [nodes |-> <<>>, in |-> <<>>], operands)

\* Elementwise functions of one result, the only ones an expression may hold.
Comparisons == {"less", "greater", "equal"}
Ufuncs == Comparisons \cup {"add", "subtract", "multiply", "bitwise_and", "maximum", "minimum",
                            "logical_and", "logical_or", "logical_not", "invert"}

\* A node over its operands.  An ndarray is not one (_check_operand), nor is
\* a function that mixes rows (__array_ufunc__, __array_function__).
Op(op, tag, operands) ==
  LET j == Joined(operands) IN
  IF \/ \E k \in DOMAIN operands : operands[k].is \notin {"expr", "scalar"}
     \/ op = "ufunc" /\ tag \notin Ufuncs
  THEN Failed
  ELSE Expr(Append(j.nodes, Node(op, tag, j.in)))

\* The operators of an expression, and their reflected forms.
Binop(f, self, other) == Op("ufunc", f, <<self, other>>)
Reflected(f, self, other) == Op("ufunc", f, <<other, self>>)
Unop(f, self) == Op("ufunc", f, <<self>>)
IsIn(self, values) == Op("isin", values, <<self>>)
AsType(self, kind) == Op("cast", kind, <<self>>)
Where(cond, a, b) ==
  IF \A o \in {cond, a, b} : o.is # "expr" THEN Failed ELSE Op("where", "", <<cond, a, b>>)

\* clip, with bounds that may be None.
Clip(self, low, high) ==
  LET above == IF low = None THEN self ELSE Binop("maximum", self, low)
  IN  IF high = None THEN above ELSE Binop("minimum", above, high)

ColumnsOf(nodes) == {nodes[i].tag : i \in {j \in DOMAIN nodes : nodes[j].op = "col"}}

-----------------------------------------------------------------------------
(* Query strings.  The syntax tree is a sequence of nodes too: a literal,   *)
(* a name, an @parameter, a list, "and"/"or", a unary or binary operator,   *)
(* or a chain of comparisons, its tag the operators of it.                  *)

Syntax(ast, tag, in) == [ast |-> ast, tag |-> tag, in |-> in]

\* One link of a chain.
Piece(op, left, right) ==
  IF op \notin {"in", "not in"} THEN Binop(op, left, right)
  ELSE IF left.is # "expr" \/ right.is # "list" THEN Failed
  ELSE LET member == IsIn(left, right.at) IN IF op = "in" THEN member ELSE Unop("logical_not", member)

\* _build_compare: a < b < c is (a < b) & (b < c).
Chain(ops, x) ==
  LET piece == [k \in DOMAIN ops |-> Piece(ops[k], x[k], x[k + 1])]
  IN  Along(LAMBDA e, p : Binop("bitwise_and", e, p), piece[1], Tail(piece))

\* parse_query and _build; names are the columns there are.
Parsed(tree, names, params) ==
  LET built[i \in 1..Len(tree)] ==
        LET t == tree[i]
            x == [k \in DOMAIN t.in |-> built[t.in[k]]]
        IN  CASE \E k \in DOMAIN x : x[k].is = "failed" -> Failed
              [] t.ast = "constant" -> Scalar(t.tag)
              [] t.ast = "name"     -> IF t.tag \in names THEN Col(t.tag) ELSE Failed
              [] t.ast = "param"    -> IF t.tag \in DOMAIN params THEN params[t.tag] ELSE Failed
              [] t.ast = "list"     -> [is |-> "list", at |-> {x[k].at.val : k \in DOMAIN x}]
              [] t.ast = "bool" /\ Len(x) > 1 ->
                   Along(LAMBDA e, y : Binop(t.tag, e, y), x[1], Tail(x))
              [] t.ast = "operator" -> Op("ufunc", t.tag, x)
              [] t.ast = "compare" /\ Len(x) > 1 -> Chain(t.tag, x)
      root == built[Len(tree)]
  IN  IF root.is = "expr" THEN root ELSE Failed

-----------------------------------------------------------------------------
(* Computing one node from the arrays of its operands, over n rows. *)

Elem(array, r) == array.at[IF Len(array.at) = 1 THEN 1 ELSE r]

Point(f, x) ==
  CASE f = "add"         -> x[1] + x[2]
    [] f = "subtract"    -> x[1] - x[2]
    [] f = "multiply"    -> x[1] * x[2]
    [] f = "maximum"     -> IF x[1] > x[2] THEN x[1] ELSE x[2]
    [] f = "minimum"     -> IF x[1] < x[2] THEN x[1] ELSE x[2]
    [] f = "less"        -> Bit(x[1] < x[2])
    [] f = "greater"     -> Bit(x[1] > x[2])
    [] f = "equal"       -> Bit(x[1] = x[2])
    [] f \in {"bitwise_and", "logical_and"} -> Bit(x[1] # 0 /\ x[2] # 0)
    [] f = "logical_or"  -> Bit(x[1] # 0 \/ x[2] # 0)
    [] f \in {"logical_not", "invert"} -> Bit(x[1] = 0)

Promote(kinds) == IF \A k \in DOMAIN kinds : kinds[k] = "b" THEN "b" ELSE "i"
UfuncKind(f, kinds) ==
  IF f \in Comparisons \cup {"logical_and", "logical_or", "logical_not"} THEN "b"
                                                                  ELSE Promote(kinds)
AsKind(kind, v) == IF kind = "b" THEN Bit(v # 0) ELSE v

\* A user function given to apply(), on whole arrays: one that works row by
\* row, one whose kind depends on the data, and one that loses a row.
Called(func, x, n) ==
  CASE func = "double"    -> [kind |-> "i", at |-> [r \in 1..n |-> 2 * x[1].at[r]]]
    [] func = "sometimes" -> [kind |-> IF \A r \in 1..n : x[1].at[r] \in {0, 1} THEN "b" ELSE "i",
                              at |-> x[1].at]
    [] func = "short"     -> [kind |-> "i", at |-> [r \in 1..(n - 1) |-> x[1].at[r]]]

\* evaluate, of an Apply: no call on no rows; the length is checked, and a
\* kind that was declared is imposed where one that was inferred must hold.
Applied(tag, x, n) ==
  LET out == Called(tag.func, x, n) IN
  CASE n = 0 -> [kind |-> tag.kind, at |-> <<>>]
    [] n > 0 /\ (Len(out.at) # n \/ (out.kind # tag.kind /\ ~tag.declared)) -> Raised
    [] n > 0 /\ Len(out.at) = n /\ (out.kind = tag.kind \/ tag.declared) ->
         [kind |-> tag.kind, at |-> [r \in 1..n |-> AsKind(tag.kind, out.at[r])]]

Compute(node, x, n) ==
  LET kinds == [k \in DOMAIN x |-> x[k].kind]
      size  == IF \E k \in DOMAIN x : Len(x[k].at) # 1
               THEN Len(x[CHOOSE k \in DOMAIN x : Len(x[k].at) # 1].at) ELSE 1
      row(r) == [k \in DOMAIN x |-> Elem(x[k], r)]
      each(kind, F(_)) == [kind |-> kind, at |-> [r \in 1..size |-> F(row(r))]]
  IN  CASE \E k \in DOMAIN x : x[k] = Raised -> Raised
        [] node.op = "ufunc" -> each(UfuncKind(node.tag, kinds), LAMBDA v : Point(node.tag, v))
        [] node.op = "cast"  -> each(node.tag, LAMBDA v : AsKind(node.tag, v[1]))
        [] node.op = "isin"  -> each("b", LAMBDA v : Bit(v[1] \in node.tag))
        [] node.op = "where" -> each(Promote(Tail(kinds)), LAMBDA v : IF v[1] # 0 THEN v[2] ELSE v[3])
        [] node.op = "apply" -> Applied(node.tag, x, n)

\* _evaluate of a col() expression over whole columns.
Evaluated(nodes, columns, n) ==
  LET val[i \in 1..Len(nodes)] ==
        IF nodes[i].op = "col" THEN columns[nodes[i].tag]
        ELSE Compute(nodes[i],
               [k \in DOMAIN nodes[i].in |->
                  IF nodes[i].in[k].is = "node" THEN val[nodes[i].in[k].at]
                  ELSE [kind |-> nodes[i].in[k].at.kind, at |-> <<nodes[i].in[k].at.val>>]], n)
  IN  val[Len(nodes)]

-----------------------------------------------------------------------------
(* Leaves, keys, and evaluation through a memo. *)

IsLeaf(node) == node.op \in {"native", "memory", "const"}

\* What a leaf gives for some rows.  env holds the store's columns and the
\* arrays of the program as they are now; a mask must be as long as what it
\* is put to.
LeafRead(node, rows, env) ==
  LET whole == IF node.op = "native" THEN env.store[node.tag] ELSE env.heap[node.tag] IN
  CASE node.op = "const" ->
         [kind |-> node.tag.kind, at |-> [r \in 1..RowCount(rows) |-> node.tag.val]]
    [] node.op # "const" /\ RowCount(rows) = 0 -> [kind |-> whole.kind, at |-> <<>>]
    [] node.op # "const" /\ RowCount(rows) > 0 ->
         IF rows.form = "mask" /\ Len(rows.bits) # Len(whole.at) THEN Raised
         ELSE [kind |-> whole.kind, at |-> Pick(whole.at, RowIds(rows))]

\* The part of a key that is not its operands': a scalar and a function
\* enter by what they are called, an array by its identity.
TagKey(node) ==
  CASE node.op = "const" -> <<Repr(node.tag.val), node.tag.kind>>
    [] node.op = "ufunc" -> Repr(node.tag)
    [] node.op = "apply" -> <<node.tag.func, node.tag.kind>>
    [] OTHER             -> node.tag

\* A slip to catch: the order of the operands is lost.
KeyUnordered(node, key) ==
  << node.op, TagKey(node),
     {IF node.in[k].is = "node" THEN key[node.in[k].at]
      ELSE <<"scalar", Repr(node.in[k].at.val)>> : k \in DOMAIN node.in} >>

\* _key of a node, from the keys of the nodes before it.
Key(node, key) ==
  << node.op, TagKey(node),
     [k \in DOMAIN node.in |-> IF node.in[k].is = "node" THEN key[node.in[k].at]
                               ELSE <<"scalar", Repr(node.in[k].at.val)>>] >>

Keys(g) == Along(LAMBDA keys, node : Append(keys, Key(node, keys)), <<>>, g)

\* The nodes evaluate() meets, operands first.
PostOrder(g, roots) ==
  LET post[i \in 1..Len(g)] ==
        Along(LAMBDA order, o : IF o.is = "node" THEN order \o post[o.at] ELSE order, <<>>, g[i].in) \o <<i>>
  IN  Along(LAMBDA order, root : order \o post[root], <<>>, roots)

Cached(memo, key) == \E m \in DOMAIN memo : memo[m][1] = key
Recall(memo, key) == memo[CHOOSE m \in DOMAIN memo : memo[m][1] = key][2]

\* evaluate(): a node whose key is in the memo is not computed again.
Visited(g, key, rows, env, memo, i) ==
  LET operand(o) == IF o.is = "node" THEN Recall(memo, key[o.at])
                    ELSE [kind |-> o.at.kind, at |-> <<o.at.val>>]
  IN  IF Cached(memo, key[i]) THEN memo
      ELSE Append(memo,
             << key[i],
                IF IsLeaf(g[i]) THEN LeafRead(g[i], rows, env)
                ELSE Compute(g[i], [k \in DOMAIN g[i].in |-> operand(g[i].in[k])], RowCount(rows)) >>)

\* Several expressions over the same rows, with one memo.
Evaluate(g, roots, rows, env) ==
  LET memo(key) == Along(LAMBDA m, i : Visited(g, key, rows, env, m, i), <<>>, PostOrder(g, roots))
      all(key, m) == [k \in DOMAIN roots |-> Recall(m, key[roots[k]])]
      keyed(key) == all(key, memo(key))
  IN  keyed(Keys(g))

\* result_dtype: an evaluation over no rows.
ResultKind(g, root, env) == Evaluate(g, <<root>>, Span(0, 0), env)[1].kind

-----------------------------------------------------------------------------
(* What is known of an expression before it is read. *)

\* _iter_leaves, with repetition.
Leaves(g, root) == SelectSeq(PostOrder(g, <<root>>), LAMBDA i : IsLeaf(g[i]))

LeafLength(node, env) ==
  CASE node.op = "native" -> Len(env.store[node.tag].at)
    [] node.op = "memory" -> Len(env.heap[node.tag].at)
    [] node.op = "const"  -> None

\* declared_length and validate_length: every sized leaf has n rows.
FitsRows(g, root, n, env) ==
  \A i \in Range(Leaves(g, root)) : LeafLength(g[i], env) \in {None, n}

\* fusible_passthroughs: the expressions that are a stored column no other
\* of them reads.
Fusible(g, roots) ==
  LET key  == Keys(g)
      read == FlattenSeq([k \in DOMAIN roots |-> Leaves(g, roots[k])])
  IN  {k \in DOMAIN roots :
         /\ g[roots[k]].op = "native"
         /\ Cardinality({m \in DOMAIN read : key[read[m]] = key[roots[k]]}) = 1}

\* _emit with a _QueryValueBuilder: the nodes of an expression added to the
\* graph, its names replaced by the nodes resolve gives: [graph, root].
Emit(g, nodes, resolve) ==
  LET placed(at, node) ==
        [node EXCEPT !.in = [k \in DOMAIN node.in |->
           IF node.in[k].is = "node" THEN Ref(at[node.in[k].at]) ELSE node.in[k]]]
      emit(s, node) ==
        IF node.op = "col" THEN [s EXCEPT !.at = Append(@, resolve[node.tag])]
        ELSE [graph |-> Append(s.graph, placed(s.at, node)),
              at    |-> Append(s.at, Len(s.graph) + 1)]
      done == Along(emit, [graph |-> g, at |-> <<>>], nodes)
  IN  [graph |-> done.graph, root |-> Last(done.at)]
=============================================================================
