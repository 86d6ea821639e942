------------------------------ MODULE MCVectorIndex ------------------------------
(* A small instance of VectorIndex for TLC.                                   *)
EXTENDS VectorIndex

CONSTANTS s1, t1, t2, v1, v2

OneSession == {s1}
TwoTids == {t1, t2}
TwoVectors == {v1, v2}
OnlyHnsw == {"hnsw"}
================================================================================
