------------------------------ MODULE MCFrame ------------------------------
(* A store of four rows in one file of several records, in two files, or in  *)
(* one stretch, opened as a whole, as rows and as masks; expressions that    *)
(* share parts, commute or do not, and queries of every construct.           *)
EXTENDS Frame

MCRepr(x) == x
Ints(xs) == [kind |-> "i", at |-> xs]
MCTable == << <<"a", Ints(<<1, 4, 2, 3>>)>>, <<"b", Ints(<<2, 0, 5, 1>>)>>,
              <<"m", [kind |-> "b", at |-> <<1, 0, 1, 1>>]>> >>
MCMore == [c \in {"a", "b", "m"} |-> IF c = "m" THEN <<1>> ELSE <<7>>]
MCArray == Ints(<<3, 1, 0, 2>>)
MCAltered == Ints(<<0, 5, 1, 2>>)

A == Col("a")
B == Col("b")
N(v) == Scalar(Num(v))

\* 1 < a < 4 and not (b in [5, @x]), as the parser's tree.
Tree == << Syntax("constant", Num(1), <<>>), Syntax("name", "a", <<>>),
           Syntax("constant", Num(4), <<>>), Syntax("compare", <<"less", "less">>, <<1, 2, 3>>),
           Syntax("name", "b", <<>>), Syntax("constant", Num(5), <<>>),
           Syntax("param", "x", <<>>), Syntax("list", "", <<6, 7>>),
           Syntax("compare", <<"not in">>, <<5, 8>>),
           Syntax("bool", "logical_and", <<4, 9>>) >>
\* a > b or m
Either == << Syntax("name", "a", <<>>), Syntax("name", "b", <<>>),
             Syntax("compare", <<"greater">>, <<1, 2>>), Syntax("name", "m", <<>>),
             Syntax("bool", "logical_or", <<3, 4>>) >>
Query(t) == [is |-> "query", at |-> t]
MCParams == [x |-> N(0)]

Way(names, rows, carried, files, records, out) ==
  [names |-> names, rows |-> rows, carried |-> carried, files |-> files, records |-> records,
   dense |-> TRUE, out |-> out, raw |-> ~records]
MCOpenings ==
  { Way(<<"a", "b", "m">>, None, Failed, <<2, 2>>, FALSE, TRUE),
    Way(<<"a", "b">>, MaskOf(<<0, 1, 1, 1>>), Failed, <<1, 3>>, FALSE, FALSE),
    Way(<<"b", "a">>, Index(<<4, 2, 3>>), Query(Either), <<4>>, FALSE, TRUE),
    Way(<<"a", "b">>, MaskOf(<<1, 1, 0, 1>>), Binop("less", A, N(4)), <<4>>, TRUE, TRUE) }

MCAssignments ==
  { << <<"a", B>>, <<"b", A>> >>,
    << <<"x", Where(Binop("greater", A, B), Binop("subtract", A, B), Binop("subtract", B, A))>> >>,
    << <<"x", Clip(A, N(2), N(3))>>, <<"y", Reflected("subtract", A, N(1))>> >>,
    << <<"y", [is |-> "array", copy |-> FALSE]>>, <<"z", [is |-> "array", copy |-> TRUE]>> >>,
    << <<"x", [is |-> "apply", func |-> "double", col |-> "a", kind |-> None]>>,
       <<"y", [is |-> "apply", func |-> "sometimes", col |-> "b", kind |-> "b"]>> >>,
    << <<"b", [is |-> "other", col |-> "a"]>>, <<"x", N(2)>> >> }
MCCuts ==
  { [pred |-> Query(Tree), label |-> "tree", weight |-> None],
    [pred |-> Binop("greater", B, N(0)), label |-> "b", weight |-> Binop("multiply", A, A)],
    [pred |-> Unop("invert", IsIn(Col("x"), {1, 2})), label |-> "x", weight |-> None] }
MCRenamings == { << <<"a", "b">>, <<"b", "a">> >> }
MCProjections == { <<"x", "a">> }
MCDrops == { {"a"} }
MCCasts == { <<"b", "b">> }

\* Which of the interleavings are tried: batches are drawn from the first frame
\* after one edit, and while they are, edits come between the first two, of
\* the frame that is opened first; the dataset grows after an edit.
Tried ==
  /\ (iter = None /\ iter' # None) => edits = 1 /\ iter'.f = 1
  /\ (iter # None /\ edits' # edits) =>
       /\ iter.at = BatchRows /\ Len(opening.names) = 3
       /\ iter.copy => maps # maps'
  /\ store' # store => (edits = MaxEdits \/ (iter # None /\ iter.at = BatchRows))
=============================================================================
