----------------------------- MODULE MCColumnarQuery -----------------------------
(* A small instance of ColumnarQuery for TLC: columns of floats, with a NaN (99) that *)
(* PostgreSQL takes to be greater than every number.                                  *)
EXTENDS ColumnarQuery

CONSTANTS null

FloatRows == {<<1, 0>>, <<99, 0>>, <<2, 2>>}
=============================================================================
