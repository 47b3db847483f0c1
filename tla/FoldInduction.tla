---------------------------- MODULE FoldInduction ----------------------------
(***************************************************************************)
(* Induction, and the two equations of a left fold over a sequence, for    *)
(* any operation: an instance of this module gives them for one of them.   *)
(*                                                                         *)
(* Induction on the natural numbers is stated for a set instead of a       *)
(* predicate and rests on the library's theorem that a nonempty set of     *)
(* natural numbers has a least element.                                    *)
(***************************************************************************)
EXTENDS Naturals, Sequences, SequencesExt, WellFoundedInduction, TLAPS

CONSTANT Op(_, _)

Less == OpToRel(<, Nat)

LEMMA LessWellFounded == IsWellFoundedOn(Less, Nat)
  BY NatLessThanWellFounded, Zenon DEF Less, OpToRel

LEMMA LessMeaning == \A m, n \in Nat : <<m, n>> \in Less <=> m < n
  BY DEF Less, OpToRel

(* A set with 0 and, with n, also n + 1 holds all natural numbers. *)
LEMMA Induction ==
    ASSUME NEW S, 0 \in S, \A n \in Nat : n \in S => n + 1 \in S
    PROVE  \A n \in Nat : n \in S
  <1> DEFINE T == {n \in Nat : n \notin S}
  <1> SUFFICES ASSUME T # {} PROVE FALSE
    OBVIOUS
  <1>1. PICK x \in T : \A y \in T : ~ (<<y, x>> \in Less)
    <2>1. T \subseteq Nat
      OBVIOUS
    <2> QED BY <2>1, LessWellFounded, WFMin, Zenon
  <1>2. x # 0 /\ x \in Nat
    OBVIOUS
  <1>3. x - 1 \in Nat /\ x - 1 < x /\ (x - 1) + 1 = x
    BY <1>2
  <1>4. x - 1 \in T
    BY <1>2, <1>3
  <1> QED BY <1>1, <1>2, <1>3, <1>4, LessMeaning

(* A nonempty set of numbers up to n has a greatest element, and Max is it. *)
LEMMA MaxFacts ==
    ASSUME NEW n \in Nat, NEW s \in SUBSET (1..n), s # {}
    PROVE  /\ Max(s) \in s
           /\ \A y \in s : Max(s) >= y
  <1> DEFINE HasMax(m) == \A t \in SUBSET (1..m) : t # {} => \E x \in t : \A y \in t : x >= y
             S == {m \in Nat : HasMax(m)}
  <1>1. 0 \in S
    <2>1. \A t \in SUBSET (1..0) : t = {}
      OBVIOUS
    <2> QED BY <2>1
  <1>2. ASSUME NEW m \in Nat, m \in S
        PROVE  m + 1 \in S
    <2> SUFFICES ASSUME NEW t \in SUBSET (1..(m + 1)), t # {}
                 PROVE  \E x \in t : \A y \in t : x >= y
      OBVIOUS
    <2>1. CASE m + 1 \in t
      BY <2>1
    <2>2. CASE m + 1 \notin t
      <3>1. t \in SUBSET (1..m)
        BY <2>2
      <3> QED BY <3>1, <1>2
    <2> QED BY <2>1, <2>2
  <1>3. n \in S
    <2> HIDE DEF S
    <2> QED BY <1>1, <1>2, Induction
  <1>4. \E x \in s : \A y \in s : x >= y
    BY <1>3
  <1> QED BY <1>4 DEF Max

-----------------------------------------------------------------------------
(* The function that FoldLeft is defined by, on the sets of positions up   *)
(* to n, as the library defines it: the last position is taken off.        *)
Unfolds(g, base, seq, n) ==
    g = [s \in SUBSET (1..n) |->
           IF s = {} THEN base ELSE Op(g[s \ {Max(s)}], seq[Max(s)])]

(* There is such a function. *)
LEMMA UnfoldsExists ==
    ASSUME NEW base, NEW seq, NEW n \in Nat
    PROVE  \E g : Unfolds(g, base, seq, n)
  <1> DEFINE S == {m \in Nat : \E g : Unfolds(g, base, seq, m)}
  <1>1. 0 \in S
    <2> DEFINE g == [s \in SUBSET (1..0) |-> base]
    <2>1. \A s \in SUBSET (1..0) : s = {}
      OBVIOUS
    <2>2. Unfolds(g, base, seq, 0)
      BY <2>1 DEF Unfolds
    <2> QED BY <2>2
  <1>2. ASSUME NEW m \in Nat, m \in S
        PROVE  m + 1 \in S
    <2>1. PICK f : Unfolds(f, base, seq, m)
      BY <1>2
    <2> DEFINE g == [s \in SUBSET (1..(m + 1)) |->
                       IF m + 1 \in s THEN Op(f[s \ {m + 1}], seq[m + 1]) ELSE f[s]]
               h == [s \in SUBSET (1..(m + 1)) |->
                       IF s = {} THEN base ELSE Op(g[s \ {Max(s)}], seq[Max(s)])]
    <2>2. ASSUME NEW s \in SUBSET (1..(m + 1))
          PROVE  g[s] = h[s]
      <3>1. CASE s = {}
        <4>1. g[s] = f[s] /\ h[s] = base
          BY <3>1
        <4>2. f[{}] = base
          BY <2>1 DEF Unfolds
        <4> QED BY <3>1, <4>1, <4>2
      <3>2. CASE m + 1 \in s
        <4>1. Max(s) = m + 1
          <5>1. m + 1 \in Nat /\ s # {}
            BY <3>2
          <5>2. Max(s) \in s /\ \A y \in s : Max(s) >= y
            BY <5>1, MaxFacts
          <5>3. Max(s) \in 1..(m + 1) /\ Max(s) >= m + 1
            BY <5>2, <3>2
          <5> QED BY <5>3
        <4>2. s \ {m + 1} \in SUBSET (1..(m + 1)) /\ m + 1 \notin s \ {m + 1}
          OBVIOUS
        <4>3. g[s \ {m + 1}] = f[s \ {m + 1}]
          BY <4>2
        <4>4. h[s] = Op(g[s \ {m + 1}], seq[m + 1])
          BY <4>1, <3>2
        <4>5. g[s] = Op(f[s \ {m + 1}], seq[m + 1])
          BY <3>2
        <4> QED BY <4>3, <4>4, <4>5
      <3>3. CASE s # {} /\ m + 1 \notin s
        <4>1. s \in SUBSET (1..m)
          BY <3>3
        <4>2. Max(s) \in s
          BY <4>1, <3>3, MaxFacts
        <4>3. s \ {Max(s)} \in SUBSET (1..(m + 1)) /\ m + 1 \notin s \ {Max(s)}
          BY <3>3
        <4>4. g[s \ {Max(s)}] = f[s \ {Max(s)}]
          BY <4>3
        <4>5. f[s] = Op(f[s \ {Max(s)}], seq[Max(s)])
          BY <2>1, <4>1, <3>3 DEF Unfolds
        <4>6. g[s] = f[s] /\ h[s] = Op(g[s \ {Max(s)}], seq[Max(s)])
          BY <3>3
        <4> QED BY <4>4, <4>5, <4>6
      <3> QED BY <3>1, <3>2, <3>3
    <2>3. g = h
      <3> HIDE DEF g
      <3>1. \A s \in SUBSET (1..(m + 1)) : g[s] = h[s]
        BY <2>2 DEF g
      <3>2. g = [s \in SUBSET (1..(m + 1)) |-> g[s]]
        BY DEF g
      <3> QED BY <3>1, <3>2
    <2>4. Unfolds(g, base, seq, m + 1)
      BY <2>3 DEF Unfolds
    <2> QED BY <2>4
  <1>3. n \in S
    <2> HIDE DEF S
    <2> QED BY <1>1, <1>2, Induction
  <1> QED BY <1>3

(* Two such functions agree as far as their sequences do. *)
LEMMA UnfoldsAgree ==
    ASSUME NEW base, NEW seq, NEW seq2, NEW m \in Nat, NEW n \in Nat, m <= n,
           \A i \in 1..m : seq[i] = seq2[i],
           NEW g, Unfolds(g, base, seq, m), NEW h, Unfolds(h, base, seq2, n)
    PROVE  g[1..m] = h[1..m]
  <1> DEFINE S == {k \in Nat : k <= m => \A s \in SUBSET (1..k) : g[s] = h[s]}
  <1>1. 0 \in S
    <2>1. \A s \in SUBSET (1..0) : s = {}
      OBVIOUS
    <2>2. g[{}] = base /\ h[{}] = base
      BY DEF Unfolds
    <2> QED BY <2>1, <2>2
  <1>2. ASSUME NEW k \in Nat, k \in S
        PROVE  k + 1 \in S
    <2> SUFFICES ASSUME k + 1 <= m, NEW s \in SUBSET (1..(k + 1)) PROVE g[s] = h[s]
      OBVIOUS
    <2>1. \A t \in SUBSET (1..k) : g[t] = h[t]
      BY <1>2
    <2>2. s \in SUBSET (1..m) /\ s \in SUBSET (1..n)
      OBVIOUS
    <2>3. CASE s = {}
      BY <2>1, <2>3
    <2>4. CASE s # {}
      <3>0. k + 1 \in Nat
        OBVIOUS
      <3>1. Max(s) \in s /\ \A y \in s : Max(s) >= y
        BY <2>4, <3>0, MaxFacts
      <3>2. s \ {Max(s)} \in SUBSET (1..k)
        <4> SUFFICES ASSUME NEW y \in s, y # Max(s) PROVE y \in 1..k
          OBVIOUS
        <4>1. y \in 1..(k + 1) /\ Max(s) \in 1..(k + 1) /\ Max(s) >= y
          BY <3>1
        <4> QED BY <4>1
      <3>3. g[s \ {Max(s)}] = h[s \ {Max(s)}]
        BY <3>2, <2>1
      <3>4. seq[Max(s)] = seq2[Max(s)]
        BY <3>1, <2>2
      <3>5. g[s] = Op(g[s \ {Max(s)}], seq[Max(s)])
        BY <2>2, <2>4 DEF Unfolds
      <3>6. h[s] = Op(h[s \ {Max(s)}], seq2[Max(s)])
        BY <2>2, <2>4 DEF Unfolds
      <3> QED BY <3>3, <3>4, <3>5, <3>6
    <2> QED BY <2>3, <2>4
  <1>3. m \in S
    <2> HIDE DEF S
    <2> QED BY <1>1, <1>2, Induction
  <1> QED BY <1>3

Fold(base, seq) == FoldLeft(Op, base, seq)

(* The fold is the value of that function at all positions. *)
LEMMA FoldUnfolds ==
    ASSUME NEW T, NEW base, NEW seq \in Seq(T)
    PROVE  \E g : Unfolds(g, base, seq, Len(seq)) /\ Fold(base, seq) = g[1..Len(seq)]
  <1> DEFINE g == CHOOSE g : Unfolds(g, base, seq, Len(seq))
  <1>1. Len(seq) \in Nat /\ DOMAIN seq = 1..Len(seq)
    OBVIOUS
  <1>2. Unfolds(g, base, seq, Len(seq))
    BY <1>1, UnfoldsExists
  <1>3. FoldLeft(Op, base, seq) = (CHOOSE f : f = [s \in SUBSET DOMAIN seq |->
                 IF s = {} THEN base ELSE Op(f[s \ {Max(s)}], seq[Max(s)])])[DOMAIN seq]
    BY Zenon DEF FoldLeft, MapThenFoldSet
  <1>4. Fold(base, seq) = g[1..Len(seq)]
    BY <1>1, <1>3, Zenon DEF Fold, Unfolds
  <1> QED BY <1>2, <1>4

(* Folding no element gives the base, and one more element is folded last. *)
LEMMA FoldEmpty == \A base : Fold(base, << >>) = base
  <1> SUFFICES ASSUME NEW base PROVE Fold(base, << >>) = base
    OBVIOUS
  <1>1. << >> \in Seq({}) /\ Len(<< >>) = 0
    OBVIOUS
  <1>2. PICK g : Unfolds(g, base, << >>, 0) /\ Fold(base, << >>) = g[1..0]
    BY <1>1, FoldUnfolds
  <1>3. g[{}] = base
    BY <1>2 DEF Unfolds
  <1>4. 1..0 = {}
    OBVIOUS
  <1> QED BY <1>2, <1>3, <1>4

LEMMA FoldAppend ==
    ASSUME NEW T, NEW base, NEW seq \in Seq(T), NEW x \in T
    PROVE  Fold(base, Append(seq, x)) = Op(Fold(base, seq), x)
  <1> DEFINE n == Len(seq)
             more == Append(seq, x)
  <1>1. n \in Nat /\ more \in Seq(T) /\ Len(more) = n + 1 /\ more[n + 1] = x
        /\ \A i \in 1..n : seq[i] = more[i]
    OBVIOUS
  <1>2. PICK g : Unfolds(g, base, seq, n) /\ Fold(base, seq) = g[1..n]
    BY FoldUnfolds
  <1>3. PICK h : Unfolds(h, base, more, n + 1) /\ Fold(base, more) = h[1..(n + 1)]
    BY <1>1, FoldUnfolds
  <1> HIDE DEF n, more
  <1>4. g[1..n] = h[1..n]
    BY <1>1, <1>2, <1>3, UnfoldsAgree
  <1>5. Max(1..(n + 1)) = n + 1
    <2> n \in Nat
      BY <1>1
    <2>0. n + 1 \in 1..(n + 1)
      OBVIOUS
    <2>1. 1..(n + 1) # {} /\ n + 1 \in 1..(n + 1)
      BY <2>0, Zenon
    <2>2. n + 1 \in Nat /\ 1..(n + 1) \in SUBSET (1..(n + 1))
      OBVIOUS
    <2>3. Max(1..(n + 1)) \in 1..(n + 1) /\ \A y \in 1..(n + 1) : Max(1..(n + 1)) >= y
      BY <2>1, <2>2, MaxFacts
    <2>4. Max(1..(n + 1)) >= n + 1
      BY <2>1, <2>3
    <2> QED BY <2>3, <2>4
  <1>6. h[1..(n + 1)] = Op(h[1..n], x)
    <2> n \in Nat
      BY <1>1
    <2>1. n + 1 \in 1..(n + 1)
      OBVIOUS
    <2>2. \A y : y \in (1..(n + 1)) \ {n + 1} <=> y \in 1..n
      OBVIOUS
    <2>3. (1..(n + 1)) \ {n + 1} = 1..n
      BY <2>2, Zenon
    <2> QED BY <1>1, <1>3, <1>5, <2>1, <2>3 DEF Unfolds
  <1> QED BY <1>2, <1>3, <1>4, <1>6 DEF more
=============================================================================
