---------------------------- MODULE MCVectorizer ----------------------------
(* Small instances of Vectorizer for TLC.                                   *)
EXTENDS Vectorizer, TLC

CONSTANTS c1, c2, k1, w1, w2

OneText == {c1}
TwoTexts == {c1, c2}
OneKey == {k1}
OneWorker == {w1}
TwoWorkers == {w1, w2}
Symmetric == Permutations(TwoWorkers)
=============================================================================
