---------------------------- MODULE RecordLayout ----------------------------
(***************************************************************************)
(* How a record lies in a file, cell by cell: a header, the columns one    *)
(* after the other and padding (format.py).  An element of a column takes  *)
(* one or more cells; a cell is the row and the column it belongs to and   *)
(* which part of the element it is.                                        *)
(***************************************************************************)
EXTENDS Totals, SequencesExt

AlignUp(x, a) == ((x + a - 1) \div a) * a

Gap(n) == [i \in 1..n |-> << -1, "gap", 0 >>]

\* The cells of a row; columns is a sequence of [name, size].
RowCells(columns) == Total([k \in DOMAIN columns |-> columns[k].size])

\* The cells of a column of so many rows, the first of which has number first.
ColumnCells(column, rows, first) ==
  [i \in 1..(rows * column.size) |->
     << first + ((i - 1) \div column.size), column.name, (i - 1) % column.size >>]

BodyCells(columns, rows, first) ==
  FlattenSeq([k \in DOMAIN columns |-> ColumnCells(columns[k], rows, first)])

\* The room of a body.
BodyRoom(columns, rows, align) == AlignUp(rows * RowCells(columns), align)

LaidOut(columns, rows, first, header, align) ==
  Gap(header) \o BodyCells(columns, rows, first)
    \o Gap(BodyRoom(columns, rows, align) - Len(BodyCells(columns, rows, first)))
=============================================================================
