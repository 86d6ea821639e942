------------------------------- MODULE MCColumnar -------------------------------
(* Small instances of ColumnarTable for TLC. *)
EXTENDS ColumnarTable

CONSTANTS s1, s2

OneSession == {s1}
TwoSessions == {s1, s2}
================================================================================
