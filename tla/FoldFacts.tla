------------------------------- MODULE FoldFacts -------------------------------
(***************************************************************************)
(* Facts about FoldLeft (SequencesExt) for an operator Op with a parameter *)
(* of its own, and about induction over numbers and sequences.  The        *)
(* induction theorems of the library take a predicate; here a set takes    *)
(* its place, so that they can be cited.  A module that folds with one of  *)
(* its operators instantiates this one with it.                            *)
(***************************************************************************)
EXTENDS Integers, Sequences, SequenceTheorems, WellFoundedInduction, TLAPS

CONSTANT Op(_, _, _)

\* Max of FiniteSetsExt, which FoldLeft takes an index with.
Greatest(S) == CHOOSE x \in S : \A y \in S : x >= y

\* FoldLeft(LAMBDA a, x : Op(p, a, x), base, seq), unfolded.
Fold(p, base, seq) ==
    LET iter[s \in SUBSET DOMAIN seq] ==
          IF s = {} THEN base ELSE Op(p, iter[s \ {Greatest(s)}], seq[Greatest(s)])
    IN  iter[DOMAIN seq]
-----------------------------------------------------------------------------
\* Induction over the numbers, as a statement about a set.
LEMMA Induction ==
    ASSUME NEW T, 0 \in T, \A n \in Nat : n \in T => n + 1 \in T
    PROVE  Nat \subseteq T
<1> DEFINE U == Nat \ T
<1> SUFFICES ASSUME U # {} PROVE FALSE
  OBVIOUS
<1>1. PICK x \in U : \A y \in U : ~(<<y, x>> \in OpToRel(<, Nat))
  <2>1. U \subseteq Nat
    OBVIOUS
  <2> HIDE DEF U
  <2> QED BY <2>1, NatLessThanWellFounded, WFMin
<1>2. \A y \in U : ~(y < x)
  BY <1>1 DEF OpToRel
<1>3. x # 0 /\ x \in Nat
  OBVIOUS
<1>4. x - 1 \in U
  BY <1>3
<1> QED BY <1>2, <1>3, <1>4

\* A set of numbers that is not empty has a least member.
THEOREM Least_Exists ==
    ASSUME NEW S, S \subseteq Nat, S # {}
    PROVE  \E x \in S : \A y \in S : x <= y
<1>1. PICK x \in S : \A y \in S : ~(<<y, x>> \in OpToRel(<, Nat))
  BY NatLessThanWellFounded, WFMin
<1>2. \A y \in S : ~(y < x)
  BY <1>1 DEF OpToRel
<1> QED BY <1>2
-----------------------------------------------------------------------------
(* The recursive function in MapThenFoldSet takes subsets of the domain.   *)

Folding(G, F, base, seq, s) ==
    G[s] = IF s = {} THEN base ELSE F[<<G[s \ {Greatest(s)}], seq[Greatest(s)]>>]

LEMMA Greatest_Top ==
    ASSUME NEW n \in Nat, NEW s \in SUBSET (1 .. n + 1), n + 1 \in s
    PROVE  Greatest(s) = n + 1
<1>1. \A y \in s : y \in Nat /\ n + 1 >= y
  OBVIOUS
<1>2. \E x \in s : \A y \in s : x >= y
  BY <1>1
<1>3. Greatest(s) \in s /\ \A y \in s : Greatest(s) >= y
  BY <1>2 DEF Greatest
<1>4. Greatest(s) \in Nat /\ n + 1 >= Greatest(s) /\ Greatest(s) >= n + 1
  BY <1>1, <1>3
<1> QED BY <1>4

LEMMA Greatest_In ==
    ASSUME NEW n \in Nat, NEW s \in SUBSET (1 .. n), s # {}
    PROVE  Greatest(s) \in s
<1> DEFINE T == {m \in Nat : \A r \in SUBSET (1 .. m) : r # {} => Greatest(r) \in r}
<1>1. 0 \in T
  <2>1. SUBSET (1 .. 0) = {{}}
    OBVIOUS
  <2> QED BY <2>1
<1>2. ASSUME NEW m \in Nat, m \in T PROVE m + 1 \in T
  <2> SUFFICES ASSUME NEW r \in SUBSET (1 .. m + 1), r # {} PROVE Greatest(r) \in r
    OBVIOUS
  <2>1. CASE m + 1 \in r
    BY <2>1, Greatest_Top
  <2>2. CASE m + 1 \notin r
    <3>1. r \in SUBSET (1 .. m)
      BY <2>2
    <3> QED BY <1>2, <3>1
  <2> QED BY <2>1, <2>2
<1> HIDE DEF T
<1>3. n \in T
  BY <1>1, <1>2, Induction
<1> QED BY <1>3 DEF T

IsFold(G, F, base, seq, m, W) ==
    G \in [SUBSET (1 .. m) -> W] /\ \A s \in SUBSET (1 .. m) : Folding(G, F, base, seq, s)

LEMMA FoldExists ==
    ASSUME NEW W, NEW B, NEW F \in [W \X B -> W], NEW base \in W, NEW n \in Nat,
           NEW seq \in [1 .. n -> B]
    PROVE  \E G : IsFold(G, F, base, seq, n, W)
<1> DEFINE T == {m \in Nat : m <= n => \E G : IsFold(G, F, base, seq, m, W)}
<1>1. 0 \in T
  <2> DEFINE G == [s \in SUBSET (1 .. 0) |-> base]
  <2>1. \A s \in SUBSET (1 .. 0) : Folding(G, F, base, seq, s)
    BY DEF Folding
  <2>2. G \in [SUBSET (1 .. 0) -> W]
    OBVIOUS
  <2> HIDE DEF G
  <2>3. IsFold(G, F, base, seq, 0, W)
    BY <2>1, <2>2 DEF IsFold
  <2> QED BY <2>3
<1>2. ASSUME NEW m \in Nat, m \in T PROVE m + 1 \in T
  <2> SUFFICES ASSUME m + 1 <= n
               PROVE  \E G : IsFold(G, F, base, seq, m + 1, W)
    OBVIOUS
  <2>1. PICK H : IsFold(H, F, base, seq, m, W)
    BY <1>2
  <2>5. H \in [SUBSET (1 .. m) -> W] /\ \A s \in SUBSET (1 .. m) : Folding(H, F, base, seq, s)
    BY <2>1 DEF IsFold
  <2> DEFINE G == [s \in SUBSET (1 .. m + 1) |->
                     IF m + 1 \in s THEN F[<<H[s \ {m + 1}], seq[m + 1]>>] ELSE H[s]]
  <2>2. \A s \in SUBSET (1 .. m) : s \in SUBSET (1 .. m + 1) /\ m + 1 \notin s /\ G[s] = H[s]
    OBVIOUS
  <2>3. G \in [SUBSET (1 .. m + 1) -> W]
    <3> SUFFICES ASSUME NEW s \in SUBSET (1 .. m + 1)
                 PROVE  (IF m + 1 \in s THEN F[<<H[s \ {m + 1}], seq[m + 1]>>] ELSE H[s]) \in W
      OBVIOUS
    <3>1. s \ {m + 1} \in SUBSET (1 .. m) /\ seq[m + 1] \in B
      OBVIOUS
    <3>2. m + 1 \notin s => s \in SUBSET (1 .. m)
      OBVIOUS
    <3> QED BY <2>5, <3>1, <3>2
  <2>4. ASSUME NEW s \in SUBSET (1 .. m + 1) PROVE Folding(G, F, base, seq, s)
    <3>1. CASE m + 1 \in s
      <4>1. Greatest(s) = m + 1
        BY <3>1, Greatest_Top
      <4>2. s \ {m + 1} \in SUBSET (1 .. m)
        OBVIOUS
      <4>3. G[s] = F[<<G[s \ {m + 1}], seq[m + 1]>>]
        BY <2>2, <3>1, <4>2
      <4> HIDE DEF G
      <4> QED BY <3>1, <4>1, <4>3 DEF Folding
    <3>2. CASE m + 1 \notin s
      <4>1. s \in SUBSET (1 .. m)
        BY <3>2
      <4>2. s # {} => s \ {Greatest(s)} \in SUBSET (1 .. m)
        BY <4>1
      <4>3. G[s] = H[s] /\ (s # {} => G[s \ {Greatest(s)}] = H[s \ {Greatest(s)}])
        BY <2>2, <4>1, <4>2
      <4> HIDE DEF G
      <4> QED BY <2>5, <4>1, <4>3 DEF Folding
    <3> QED BY <3>1, <3>2
  <2> HIDE DEF G
  <2>6. IsFold(G, F, base, seq, m + 1, W)
    BY <2>3, <2>4 DEF IsFold
  <2> QED BY <2>6
<1> HIDE DEF T
<1>3. n \in T
  BY <1>1, <1>2, Induction
<1> QED BY <1>3 DEF T

\* With the operator in the place of the function.
Iterates(G, p, base, seq) ==
    G = [s \in SUBSET DOMAIN seq |->
           IF s = {} THEN base ELSE Op(p, G[s \ {Greatest(s)}], seq[Greatest(s)])]

LEMMA Fold_Iterates ==
    ASSUME NEW W, NEW B, NEW p, NEW base \in W, NEW seq \in Seq(B),
           \A a \in W, x \in B : Op(p, a, x) \in W
    PROVE  \E G : Iterates(G, p, base, seq) /\ Fold(p, base, seq) = G[DOMAIN seq]
<1> DEFINE n == Len(seq)
           F == [q \in W \X B |-> Op(p, q[1], q[2])]
<1>1. n \in Nat /\ DOMAIN seq = 1 .. n /\ seq \in [1 .. n -> B]
  BY LenProperties
<1>2. F \in [W \X B -> W]
  OBVIOUS
<1>3. \A a \in W, x \in B : F[<<a, x>>] = Op(p, a, x)
  OBVIOUS
<1> HIDE DEF F, n
<1>4. PICK H : IsFold(H, F, base, seq, n, W)
  BY <1>1, <1>2, FoldExists
<1>5. Iterates(H, p, base, seq)
  <2>1. H \in [SUBSET (1 .. n) -> W] /\ \A s \in SUBSET (1 .. n) : Folding(H, F, base, seq, s)
    BY <1>4 DEF IsFold
  <2>2. ASSUME NEW s \in SUBSET (1 .. n)
        PROVE  H[s] = IF s = {} THEN base ELSE Op(p, H[s \ {Greatest(s)}], seq[Greatest(s)])
    <3>1. CASE s = {}
      BY <2>1, <3>1 DEF Folding
    <3>2. CASE s # {}
      <4>1. Greatest(s) \in s
        BY <1>1, <3>2, Greatest_In
      <4>2. s \ {Greatest(s)} \in SUBSET (1 .. n) /\ seq[Greatest(s)] \in B
        BY <1>1, <4>1
      <4>3. H[s \ {Greatest(s)}] \in W
        BY <2>1, <4>2
      <4>4. H[s] = F[<<H[s \ {Greatest(s)}], seq[Greatest(s)]>>]
        BY <2>1, <3>2 DEF Folding
      <4> QED BY <1>3, <3>2, <4>2, <4>3, <4>4
    <3> QED BY <3>1, <3>2
  <2> QED BY <1>1, <2>1, <2>2 DEF Iterates
<1> DEFINE I == CHOOSE G : Iterates(G, p, base, seq)
<1>6. Iterates(I, p, base, seq)
  BY <1>5
<1>7. Fold(p, base, seq) = I[DOMAIN seq]
  BY DEF Fold, Iterates
<1> HIDE DEF I
<1> QED BY <1>6, <1>7

LEMMA Iterates_Step ==
    ASSUME NEW B, NEW p, NEW base, NEW seq \in Seq(B), NEW G, Iterates(G, p, base, seq)
    PROVE  \A m \in Nat : m + 1 <= Len(seq) =>
             G[1 .. m + 1] = Op(p, G[1 .. m], seq[m + 1])
<1>1. DOMAIN seq = 1 .. Len(seq) /\ Len(seq) \in Nat
  BY LenProperties
<1>2. ASSUME NEW m \in Nat, m + 1 <= Len(seq)
      PROVE  G[1 .. m + 1] = Op(p, G[1 .. m], seq[m + 1])
  <2>1. 1 .. m + 1 \in SUBSET DOMAIN seq /\ 1 .. m + 1 # {}
    <3>1. m + 1 \in 1 .. m + 1
      OBVIOUS
    <3>2. \A i \in 1 .. m + 1 : i \in 1 .. Len(seq)
      BY <1>1, <1>2
    <3> QED BY <1>1, <3>1, <3>2
  <2>2. Greatest(1 .. m + 1) = m + 1
    BY Greatest_Top
  <2>3. (1 .. m + 1) \ {m + 1} = 1 .. m
    OBVIOUS
  <2>4. G[1 .. m + 1] = Op(p, G[(1 .. m + 1) \ {Greatest(1 .. m + 1)}], seq[Greatest(1 .. m + 1)])
    BY <2>1 DEF Iterates
  <2> QED BY <2>2, <2>3, <2>4
<1> QED BY <1>2

\* An empty sequence leaves the base.
THEOREM Fold_Empty ==
    ASSUME NEW p, NEW base PROVE Fold(p, base, <<>>) = base
<1>1. DOMAIN <<>> = {}
  OBVIOUS
<1> DEFINE G == [s \in SUBSET DOMAIN <<>> |-> base]
<1>2. Iterates(G, p, base, <<>>) /\ G[DOMAIN <<>>] = base
  BY <1>1 DEF Iterates
<1> DEFINE I == CHOOSE H : Iterates(H, p, base, <<>>)
<1> HIDE DEF G
<1>3. Iterates(I, p, base, <<>>)
  BY <1>2
<1>4. Fold(p, base, <<>>) = I[DOMAIN <<>>]
  BY DEF Fold, Iterates
<1> HIDE DEF I
<1>5. I[{}] = base
  BY <1>3 DEF Iterates
<1> QED BY <1>1, <1>4, <1>5

\* What each step keeps, the fold keeps.
THEOREM Fold_In ==
    ASSUME NEW W, NEW B, NEW p, NEW base \in W, NEW seq \in Seq(B),
           \A a \in W, x \in B : Op(p, a, x) \in W
    PROVE  Fold(p, base, seq) \in W
<1>1. PICK G : Iterates(G, p, base, seq) /\ Fold(p, base, seq) = G[DOMAIN seq]
  BY Fold_Iterates
<1>2. DOMAIN seq = 1 .. Len(seq) /\ Len(seq) \in Nat /\ seq \in [1 .. Len(seq) -> B]
  BY LenProperties
<1> DEFINE T == {m \in Nat : m <= Len(seq) => G[1 .. m] \in W}
<1>3. 0 \in T
  <2>1. G[{}] = base
    BY <1>1 DEF Iterates
  <2>2. 1 .. 0 = {}
    OBVIOUS
  <2> QED BY <2>1, <2>2
<1>4. ASSUME NEW m \in Nat, m \in T PROVE m + 1 \in T
  <2> SUFFICES ASSUME m + 1 <= Len(seq) PROVE G[1 .. m + 1] \in W
    OBVIOUS
  <2>1. G[1 .. m] \in W /\ seq[m + 1] \in B
    BY <1>2, <1>4
  <2>2. G[1 .. m + 1] = Op(p, G[1 .. m], seq[m + 1])
    BY <1>1, Iterates_Step
  <2> QED BY <2>1, <2>2
<1> HIDE DEF T
<1>5. Len(seq) \in T
  BY <1>2, <1>3, <1>4, Induction
<1> QED BY <1>1, <1>2, <1>5 DEF T

\* The last member of the sequence is the last to be folded in.
THEOREM Fold_Append ==
    ASSUME NEW W, NEW B, NEW p, NEW base \in W, NEW seq \in Seq(B), NEW y \in B,
           \A a \in W, x \in B : Op(p, a, x) \in W
    PROVE  Fold(p, base, Append(seq, y)) = Op(p, Fold(p, base, seq), y)
<1> DEFINE more == Append(seq, y)
           n == Len(seq)
<1>1. /\ n \in Nat /\ DOMAIN seq = 1 .. n
      /\ more \in Seq(B) /\ Len(more) = n + 1 /\ more[n + 1] = y
      /\ \A i \in 1 .. n : more[i] = seq[i]
  BY LenProperties
<1>2. DOMAIN more = 1 .. n + 1
  BY <1>1, LenProperties
<1> HIDE DEF more, n
<1>3. PICK G : Iterates(G, p, base, seq) /\ Fold(p, base, seq) = G[DOMAIN seq]
  BY Fold_Iterates
<1>4. PICK H : Iterates(H, p, base, more) /\ Fold(p, base, more) = H[DOMAIN more]
  BY <1>1, Fold_Iterates
<1> DEFINE T == {m \in Nat : m <= n => G[1 .. m] = H[1 .. m]}
<1>5. 0 \in T
  <2>1. G[{}] = base
    BY <1>3 DEF Iterates
  <2>2. H[{}] = base
    BY <1>4 DEF Iterates
  <2>3. 1 .. 0 = {}
    OBVIOUS
  <2> QED BY <2>1, <2>2, <2>3
<1>6. ASSUME NEW m \in Nat, m \in T PROVE m + 1 \in T
  <2> SUFFICES ASSUME m + 1 <= n PROVE G[1 .. m + 1] = H[1 .. m + 1]
    OBVIOUS
  <2>1. G[1 .. m] = H[1 .. m] /\ more[m + 1] = seq[m + 1]
    BY <1>1, <1>6
  <2>2. G[1 .. m + 1] = Op(p, G[1 .. m], seq[m + 1])
    BY <1>3, Iterates_Step DEF n
  <2>3. m + 1 <= Len(more)
    BY <1>1
  <2>4. H[1 .. m + 1] = Op(p, H[1 .. m], more[m + 1])
    BY <1>1, <1>4, <2>3, Iterates_Step
  <2> QED BY <2>1, <2>2, <2>4
<1> HIDE DEF T
<1>7. n \in T
  BY <1>1, <1>5, <1>6, Induction
<1>8. G[1 .. n] = H[1 .. n]
  BY <1>1, <1>7 DEF T
<1>9. H[1 .. n + 1] = Op(p, H[1 .. n], more[n + 1])
  <2>1. n + 1 <= Len(more)
    BY <1>1
  <2> QED BY <1>1, <1>4, <2>1, Iterates_Step
<1>10. Fold(p, base, more) = Op(p, Fold(p, base, seq), y)
  BY <1>1, <1>2, <1>3, <1>4, <1>8, <1>9
<1> QED BY <1>10 DEF more

\* Induction over sequences, as a statement about a set.
THEOREM SequenceInduction ==
    ASSUME NEW B, NEW T, <<>> \in T, \A s \in Seq(B), x \in B : s \in T => Append(s, x) \in T
    PROVE  Seq(B) \subseteq T
<1> DEFINE N == {m \in Nat : \A s \in Seq(B) : Len(s) = m => s \in T}
<1>1. 0 \in N
  <2> SUFFICES ASSUME NEW s \in Seq(B), Len(s) = 0 PROVE s \in T
    OBVIOUS
  <2>1. s = <<>>
    OBVIOUS
  <2> QED BY <2>1
<1>2. ASSUME NEW m \in Nat, m \in N PROVE m + 1 \in N
  <2> SUFFICES ASSUME NEW s \in Seq(B), Len(s) = m + 1 PROVE s \in T
    OBVIOUS
  <2> DEFINE front == SubSeq(s, 1, m)
  <2>1. /\ front \in Seq(B) /\ Len(front) = m /\ s[m + 1] \in B
        /\ \A i \in 1 .. m : front[i] = s[i]
    OBVIOUS
  <2> HIDE DEF front
  <2>2. /\ Append(front, s[m + 1]) \in Seq(B) /\ Len(Append(front, s[m + 1])) = m + 1
        /\ \A i \in 1 .. m + 1 : Append(front, s[m + 1])[i] = s[i]
    BY <2>1
  <2>3. Append(front, s[m + 1]) = s
    BY <2>2, SeqEqual
  <2>4. front \in T
    BY <1>2, <2>1
  <2> QED BY <2>1, <2>3, <2>4
<1> HIDE DEF N
<1>3. Nat \subseteq N
  BY <1>1, <1>2, Induction
<1> SUFFICES ASSUME NEW s \in Seq(B) PROVE s \in T
  OBVIOUS
<1>4. Len(s) \in N
  BY <1>3, LenProperties
<1> QED BY <1>4 DEF N
================================================================================
