--------------------------- MODULE HistoryProofs ---------------------------
(***************************************************************************)
(* What the operators of SessionHistory do to a head, and those of         *)
(* LoopState to the fields of a loop state, one lemma per kind of record;  *)
(* how what they read or rebuild from a log changes with one more line;    *)
(* and what a context holds for every call it has recorded.  The theorems  *)
(* about the session store and the coordinator use these lemmas and not    *)
(* the definitions.                                                        *)
(***************************************************************************)
EXTENDS LoopState, FiniteSetTheorems, TLAPS

IsMap(f) == f = [x \in DOMAIN f |-> f[x]]

(* A record with exactly the fields of a head. *)
HeadShape(h) ==
    h \in [ sequence : {h.sequence}, latest : {h.latest}, turns : {h.turns},
            owned : {h.owned}, responded : {h.responded}, statuses : {h.statuses},
            ops : {h.ops} ]

-----------------------------------------------------------------------------
(* Writing one map over another gives a map. *)
LEMMA OverrideFacts ==
    ASSUME NEW f, NEW g
    PROVE  /\ IsMap(Override(f, g))
           /\ DOMAIN Override(f, g) = DOMAIN f \cup DOMAIN g
           /\ \A x \in DOMAIN f : Override(f, g)[x] = f[x]
           /\ \A x \in DOMAIN g \ DOMAIN f : Override(f, g)[x] = g[x]
  BY DEF Override, IsMap

(* Two maps with the same values are equal. *)
LEMMA MapEqual ==
    ASSUME NEW f, NEW g, IsMap(f), IsMap(g), DOMAIN f = DOMAIN g,
           \A x \in DOMAIN f : f[x] = g[x]
    PROVE  f = g
  BY DEF IsMap

-----------------------------------------------------------------------------
(* What appending a record does to the head (state.go:56-284). *)

Unchanged(h, g) ==
    /\ h.latest = g.latest /\ h.turns = g.turns /\ h.owned = g.owned
    /\ h.responded = g.responded /\ h.statuses = g.statuses /\ h.ops = g.ops

(* An input, or a later status of a call, is only counted. *)
LEMMA AppendCountedFacts ==
    ASSUME NEW h, HeadShape(h), NEW r,
           \/ r.type = "input"
           \/ r.type = "status" /\ StatusKey(r) \in h.statuses
    PROVE  HeadShape(AppendTo(h, r)) /\ Unchanged(AppendTo(h, r), h)
  <1> DEFINE n == [h EXCEPT !.sequence = h.sequence + 1]
  <1>1. AppendTo(h, r) = n
    BY DEF AppendTo, IsItem
  <1>2. HeadShape(n) /\ Unchanged(n, h)
    BY DEF HeadShape, Unchanged
  <1> QED BY <1>1, <1>2

(* A turn becomes the latest one. *)
LEMMA AppendTurnFacts ==
    ASSUME NEW h, HeadShape(h), NEW r, r.type = "turn"
    PROVE  LET g == AppendTo(h, r)
           IN /\ HeadShape(g)
              /\ g.latest = r.turn /\ g.turns = h.turns \cup {r.turn}
              /\ g.owned = h.owned \cup {r.turn} /\ g.responded = h.responded
              /\ g.statuses = h.statuses /\ g.ops = h.ops
  <1> DEFINE n == [h EXCEPT !.sequence = h.sequence + 1]
             g == [n EXCEPT !.turns = n.turns \cup {r.turn},
                            !.owned = n.owned \cup {r.turn}, !.latest = r.turn]
  <1>1. AppendTo(h, r) = g
    BY DEF AppendTo, IsItem
  <1>2. HeadShape(n) /\ Unchanged(n, h)
    BY DEF HeadShape, Unchanged
  <1> HIDE DEF n
  <1>3. /\ HeadShape(g)
        /\ g.latest = r.turn /\ g.turns = n.turns \cup {r.turn}
        /\ g.owned = n.owned \cup {r.turn} /\ g.responded = n.responded
        /\ g.statuses = n.statuses /\ g.ops = n.ops
    BY <1>2 DEF HeadShape
  <1> HIDE DEF g
  <1> QED BY <1>1, <1>2, <1>3 DEF Unchanged

(* A response marks its turn. *)
LEMMA AppendResponseFacts ==
    ASSUME NEW h, HeadShape(h), NEW r, r.type = "response"
    PROVE  LET g == AppendTo(h, r)
           IN /\ HeadShape(g)
              /\ g.latest = h.latest /\ g.turns = h.turns /\ g.owned = h.owned
              /\ g.responded = h.responded \cup {r.turn}
              /\ g.statuses = h.statuses /\ g.ops = h.ops
  <1> DEFINE n == [h EXCEPT !.sequence = h.sequence + 1]
             g == [n EXCEPT !.responded = n.responded \cup {r.turn}]
  <1>1. AppendTo(h, r) = g
    BY DEF AppendTo, IsItem
  <1>2. HeadShape(n) /\ Unchanged(n, h)
    BY DEF HeadShape, Unchanged
  <1> HIDE DEF n
  <1>3. /\ HeadShape(g)
        /\ g.latest = n.latest /\ g.turns = n.turns /\ g.owned = n.owned
        /\ g.responded = n.responded \cup {r.turn}
        /\ g.statuses = n.statuses /\ g.ops = n.ops
    BY <1>2 DEF HeadShape
  <1> HIDE DEF g
  <1> QED BY <1>1, <1>2, <1>3 DEF Unchanged

(* The first status of a call brings the operations of the call. *)
LEMMA AppendFirstStatusFacts ==
    ASSUME NEW h, HeadShape(h), NEW r, r.type = "status", StatusKey(r) \notin h.statuses
    PROVE  LET g == AppendTo(h, r)
           IN /\ HeadShape(g)
              /\ g.latest = h.latest /\ g.turns = h.turns /\ g.owned = h.owned
              /\ g.responded = h.responded
              /\ g.statuses = h.statuses \cup {StatusKey(r)}
              /\ g.ops = Override(h.ops, r.ops)
  <1> DEFINE n == [h EXCEPT !.sequence = h.sequence + 1]
             g == [n EXCEPT !.statuses = n.statuses \cup {StatusKey(r)},
                            !.ops = Override(n.ops, r.ops)]
  <1>1. AppendTo(h, r) = g
    BY DEF AppendTo, IsItem
  <1>2. HeadShape(n) /\ Unchanged(n, h)
    BY DEF HeadShape, Unchanged
  <1> HIDE DEF n
  <1>3. /\ HeadShape(g)
        /\ g.latest = n.latest /\ g.turns = n.turns /\ g.owned = n.owned
        /\ g.responded = n.responded
        /\ g.statuses = n.statuses \cup {StatusKey(r)}
        /\ g.ops = Override(n.ops, r.ops)
    BY <1>2 DEF HeadShape
  <1> HIDE DEF g
  <1> QED BY <1>1, <1>2, <1>3 DEF Unchanged

(* Saving an operation replaces its state. *)
LEMMA AppendOperationFacts ==
    ASSUME NEW h, HeadShape(h), IsMap(h.ops), NEW r, r.type = "operation",
           r.op \in DOMAIN h.ops
    PROVE  LET g == AppendTo(h, r)
           IN /\ HeadShape(g)
              /\ g.latest = h.latest /\ g.turns = h.turns /\ g.owned = h.owned
              /\ g.responded = h.responded /\ g.statuses = h.statuses
              /\ IsMap(g.ops) /\ DOMAIN g.ops = DOMAIN h.ops
              /\ g.ops[r.op] = r.status
              /\ \A op \in DOMAIN h.ops : op # r.op => g.ops[op] = h.ops[op]
  <1> DEFINE ops == [h.ops EXCEPT ![r.op] = r.status]
             g == [h EXCEPT !.ops = ops]
  <1>1. AppendTo(h, r) = g
    BY DEF AppendTo, IsItem
  <1>2. ops = [op \in DOMAIN h.ops |-> IF op = r.op THEN r.status ELSE h.ops[op]]
    BY DEF IsMap
  <1>3. /\ IsMap(ops) /\ DOMAIN ops = DOMAIN h.ops /\ ops[r.op] = r.status
        /\ \A op \in DOMAIN h.ops : op # r.op => ops[op] = h.ops[op]
    BY <1>2 DEF IsMap
  <1> HIDE DEF ops
  <1>4. /\ HeadShape(g)
        /\ g.latest = h.latest /\ g.turns = h.turns /\ g.owned = h.owned
        /\ g.responded = h.responded /\ g.statuses = h.statuses /\ g.ops = ops
    BY DEF HeadShape
  <1> HIDE DEF g
  <1> QED BY <1>1, <1>3, <1>4
-----------------------------------------------------------------------------
(* Sequences of anything. *)
Elements(s) == {s[i] : i \in 1..Len(s)}

IsSequence(s) == s \in Seq(Elements(s))

(* A function on the first numbers is a sequence. *)
LEMMA FunctionIsSequence ==
    ASSUME NEW T, NEW n \in Nat, NEW c \in [1..n -> T]
    PROVE  c \in Seq(T) /\ Len(c) = n
  OBVIOUS

(* A sequence over any set is one. *)
LEMMA SequenceIn ==
    ASSUME NEW T, NEW s \in Seq(T)
    PROVE  IsSequence(s)
  BY DEF IsSequence, Elements

(* A set that a sequence and one more element are over. *)
LEMMA AppendTyped ==
    ASSUME NEW s, IsSequence(s), NEW x
    PROVE  s \in Seq(Elements(s) \cup {x}) /\ x \in Elements(s) \cup {x}
  <1> DEFINE T == Elements(s) \cup {x}
  <1>1. s \in Seq(Elements(s))
    BY DEF IsSequence
  <1>2. Len(s) \in Nat /\ s = [i \in 1..Len(s) |-> s[i]] /\ \A i \in 1..Len(s) : s[i] \in T
    BY <1>1
  <1>3. x \in T
    OBVIOUS
  <1> HIDE DEF T
  <1>4. s \in Seq(T)
    BY <1>2
  <1> QED BY <1>3, <1>4 DEF T

(* Appending an element. *)
LEMMA AppendFacts ==
    ASSUME NEW s, IsSequence(s), NEW x
    PROVE  /\ IsSequence(Append(s, x)) /\ Len(s) \in Nat
           /\ Len(Append(s, x)) = Len(s) + 1
           /\ Append(s, x)[Len(s) + 1] = x
           /\ \A i \in 1..Len(s) : Append(s, x)[i] = s[i]
  <1> DEFINE T == Elements(s) \cup {x}
  <1>1. s \in Seq(T) /\ x \in T
    BY AppendTyped
  <1> HIDE DEF T
  <1>2. /\ Append(s, x) \in Seq(T) /\ Len(s) \in Nat
        /\ Len(Append(s, x)) = Len(s) + 1
        /\ Append(s, x)[Len(s) + 1] = x
        /\ \A i \in 1..Len(s) : Append(s, x)[i] = s[i]
    BY <1>1
  <1>3. IsSequence(Append(s, x))
    BY <1>2, SequenceIn
  <1> QED BY <1>2, <1>3

(* Cutting a part out. *)
LEMMA SubSeqFacts ==
    ASSUME NEW s, IsSequence(s), NEW m \in Nat \ {0}, NEW n \in Nat, n <= Len(s), m <= n + 1
    PROVE  /\ IsSequence(SubSeq(s, m, n)) /\ Len(SubSeq(s, m, n)) = (n + 1) - m
           /\ \A i \in 1..((n + 1) - m) : SubSeq(s, m, n)[i] = s[(m + i) - 1]
  <1>1. s \in Seq(Elements(s)) /\ Len(s) \in Nat
    BY DEF IsSequence
  <1> DEFINE t == SubSeq(s, m, n)
             T == Elements(s)
  <1> HIDE DEF T
  <1>2. t \in Seq(T) /\ Len(t) = (n + 1) - m /\ \A i \in 1..((n + 1) - m) : t[i] = s[(m + i) - 1]
    BY <1>1 DEF T
  <1>3. IsSequence(t)
    BY <1>2, SequenceIn
  <1> QED BY <1>2, <1>3

LEMMA PrefixFacts ==
    ASSUME NEW s, IsSequence(s), NEW n \in Nat, n <= Len(s)
    PROVE  /\ IsSequence(SubSeq(s, 1, n)) /\ Len(SubSeq(s, 1, n)) = n
           /\ \A i \in 1..n : SubSeq(s, 1, n)[i] = s[i]
  <1>1. 1 \in Nat \ {0} /\ 1 <= n + 1 /\ (n + 1) - 1 = n
    OBVIOUS
  <1>2. /\ IsSequence(SubSeq(s, 1, n)) /\ Len(SubSeq(s, 1, n)) = n
        /\ \A i \in 1..n : SubSeq(s, 1, n)[i] = s[(1 + i) - 1]
    BY <1>1, SubSeqFacts
  <1>3. \A i \in 1..n : (1 + i) - 1 = i
    OBVIOUS
  <1> QED BY <1>2, <1>3

(* Equal in length and everywhere: equal. *)
LEMMA SequencesEqual ==
    ASSUME NEW s, NEW t, IsSequence(s), IsSequence(t), Len(s) = Len(t),
           \A i \in 1..Len(s) : s[i] = t[i]
    PROVE  s = t
  <1>1. s = [i \in 1..Len(s) |-> s[i]] /\ t = [i \in 1..Len(t) |-> t[i]]
    BY DEF IsSequence
  <1> QED BY <1>1

(* Cutting a sequence that has one more element. *)
LEMMA CutAppend ==
    ASSUME NEW s, IsSequence(s), NEW x, NEW n \in 0..Len(s)
    PROVE  /\ SubSeq(Append(s, x), 1, n) = SubSeq(s, 1, n)
           /\ SubSeq(Append(s, x), n + 1, Len(s) + 1) = Append(SubSeq(s, n + 1, Len(s)), x)
  <1> DEFINE t == Append(s, x)
  <1>1. /\ IsSequence(t) /\ Len(s) \in Nat /\ Len(t) = Len(s) + 1
        /\ t[Len(s) + 1] = x /\ \A i \in 1..Len(s) : t[i] = s[i]
    BY AppendFacts
  <1> HIDE DEF t
  <1>2. SubSeq(t, 1, n) = SubSeq(s, 1, n)
    <2> DEFINE a == SubSeq(t, 1, n)
               b == SubSeq(s, 1, n)
    <2>1. IsSequence(a) /\ Len(a) = n /\ \A i \in 1..n : a[i] = t[i]
      BY <1>1, PrefixFacts
    <2>2. IsSequence(b) /\ Len(b) = n /\ \A i \in 1..n : b[i] = s[i]
      BY <1>1, PrefixFacts
    <2> HIDE DEF a, b
    <2> QED BY <1>1, <2>1, <2>2, SequencesEqual DEF a, b
  <1>3. SubSeq(t, n + 1, Len(s) + 1) = Append(SubSeq(s, n + 1, Len(s)), x)
    <2> DEFINE a == SubSeq(t, n + 1, Len(s) + 1)
               c == SubSeq(s, n + 1, Len(s))
               b == Append(c, x)
               m == Len(s) - n
    <2>0. /\ n + 1 \in Nat \ {0} /\ m \in Nat
          /\ ((Len(s) + 1) + 1) - (n + 1) = m + 1 /\ (Len(s) + 1) - (n + 1) = m
          /\ \A i \in 1..(m + 1) : ((n + 1) + i) - 1 = n + i
      BY <1>1
    <2>1. IsSequence(a) /\ Len(a) = m + 1 /\ \A i \in 1..(m + 1) : a[i] = t[n + i]
      <3>1. Len(s) + 1 \in Nat /\ Len(s) + 1 <= Len(t) /\ n + 1 <= (Len(s) + 1) + 1
        BY <1>1
      <3>2. /\ IsSequence(a) /\ Len(a) = ((Len(s) + 1) + 1) - (n + 1)
            /\ \A i \in 1..(((Len(s) + 1) + 1) - (n + 1)) : a[i] = t[((n + 1) + i) - 1]
        BY <1>1, <2>0, <3>1, SubSeqFacts
      <3> HIDE DEF a
      <3> QED BY <2>0, <3>2
    <2>2. IsSequence(c) /\ Len(c) = m /\ \A i \in 1..m : c[i] = s[n + i]
      <3>1. Len(s) <= Len(s) /\ n + 1 <= Len(s) + 1
        BY <1>1
      <3>2. /\ IsSequence(c) /\ Len(c) = (Len(s) + 1) - (n + 1)
            /\ \A i \in 1..((Len(s) + 1) - (n + 1)) : c[i] = s[((n + 1) + i) - 1]
        BY <1>1, <2>0, <3>1, SubSeqFacts
      <3>3. \A i \in 1..m : i \in 1..(m + 1)
        BY <2>0
      <3> HIDE DEF c, m
      <3> QED BY <2>0, <3>2, <3>3
    <2> HIDE DEF a, c
    <2>3. /\ IsSequence(b) /\ Len(b) = Len(c) + 1 /\ b[Len(c) + 1] = x
          /\ \A i \in 1..Len(c) : b[i] = c[i]
      BY <2>2, AppendFacts
    <2> HIDE DEF b
    <2>4. m \in Nat /\ n + (m + 1) = Len(s) + 1
      BY <1>1
    <2>5. ASSUME NEW i \in 1..(m + 1)
          PROVE  a[i] = b[i]
      <3>1. CASE i = m + 1
        <4>1. a[i] = t[Len(s) + 1]
          BY <2>1, <2>4, <3>1
        <4> QED BY <1>1, <2>2, <2>3, <3>1, <4>1
      <3>2. CASE i \in 1..m
        <4>1. n + i \in 1..Len(s) /\ a[i] = t[n + i]
          BY <1>1, <2>1, <2>4, <3>2
        <4>2. b[i] = s[n + i]
          BY <2>2, <2>3, <3>2
        <4> QED BY <1>1, <4>1, <4>2
      <3> QED BY <2>4, <3>1, <3>2
    <2> QED BY <2>1, <2>2, <2>3, <2>5, SequencesEqual DEF a, b, c
  <1> QED BY <1>2, <1>3 DEF t

(* A prefix and the element behind it. *)
LEMMA PrefixAppend ==
    ASSUME NEW s, IsSequence(s), NEW n \in Nat, n < Len(s)
    PROVE  SubSeq(s, 1, n + 1) = Append(SubSeq(s, 1, n), s[n + 1])
  <1> DEFINE a == SubSeq(s, 1, n + 1)
             c == SubSeq(s, 1, n)
             b == Append(c, s[n + 1])
  <1>0. Len(s) \in Nat
    BY DEF IsSequence
  <1>1. IsSequence(a) /\ Len(a) = n + 1 /\ \A i \in 1..(n + 1) : a[i] = s[i]
    BY <1>0, PrefixFacts
  <1>2. IsSequence(c) /\ Len(c) = n /\ \A i \in 1..n : c[i] = s[i]
    BY <1>0, PrefixFacts
  <1> HIDE DEF a, c
  <1>3. /\ IsSequence(b) /\ Len(b) = Len(c) + 1 /\ b[Len(c) + 1] = s[n + 1]
        /\ \A i \in 1..Len(c) : b[i] = c[i]
    BY <1>2, AppendFacts
  <1> HIDE DEF b
  <1>4. Len(a) = Len(b) /\ \A i \in 1..Len(a) : a[i] = b[i]
    BY <1>1, <1>2, <1>3
  <1>5. a = b
    BY <1>1, <1>3, <1>4, SequencesEqual
  <1> QED BY <1>5 DEF a, b, c

(* The whole sequence as its own prefix. *)
LEMMA WholePrefix ==
    ASSUME NEW s, IsSequence(s)
    PROVE  SubSeq(s, 1, Len(s)) = s
  <1>1. Len(s) \in Nat
    BY DEF IsSequence
  <1> DEFINE a == SubSeq(s, 1, Len(s))
  <1>2. IsSequence(a) /\ Len(a) = Len(s) /\ \A i \in 1..Len(s) : a[i] = s[i]
    BY <1>1, PrefixFacts
  <1> HIDE DEF a
  <1> QED BY <1>1, <1>2, SequencesEqual DEF a

(* A prefix of a prefix. *)
LEMMA PrefixOfPrefix ==
    ASSUME NEW s, IsSequence(s), NEW m \in Nat, NEW n \in Nat, m <= n, n <= Len(s)
    PROVE  SubSeq(SubSeq(s, 1, n), 1, m) = SubSeq(s, 1, m)
  <1> DEFINE a == SubSeq(s, 1, n)
             b == SubSeq(s, 1, m)
             c == SubSeq(a, 1, m)
  <1>0. Len(s) \in Nat
    BY DEF IsSequence
  <1>1. IsSequence(a) /\ Len(a) = n /\ \A i \in 1..n : a[i] = s[i]
    BY <1>0, PrefixFacts
  <1>2. IsSequence(b) /\ Len(b) = m /\ \A i \in 1..m : b[i] = s[i]
    BY <1>0, PrefixFacts
  <1> HIDE DEF a, b
  <1>3. IsSequence(c) /\ Len(c) = m /\ \A i \in 1..m : c[i] = a[i]
    BY <1>1, PrefixFacts
  <1> HIDE DEF c
  <1> QED BY <1>1, <1>2, <1>3, SequencesEqual DEF a, b, c
-----------------------------------------------------------------------------
(* The folds of SessionHistory and LoopState: nothing, and one more line.  *)

KeepItems == INSTANCE FoldInduction WITH Op <- KeepItem

(* The items of a log, line by line (codec.go:120-155). *)
LEMMA KeepItemsFold ==
    /\ Items(<< >>) = << >>
    /\ \A l, x : IsSequence(l) => Items(Append(l, x)) = KeepItem(Items(l), x)
  <1>1. \A l : KeepItems!Fold(<< >>, l) = Items(l)
    BY Zenon DEF Items, KeepItems!Fold, FoldLeft, KeepItems!FoldLeft, MapThenFoldSet,
                 KeepItems!MapThenFoldSet, Max, KeepItems!Max
  <1>2. ASSUME NEW l, NEW x, IsSequence(l)
        PROVE  KeepItems!Fold(<< >>, Append(l, x)) = KeepItem(KeepItems!Fold(<< >>, l), x)
    <2> DEFINE T == Elements(l) \cup {x}
    <2>1. l \in Seq(T) /\ x \in T
      BY <1>2, AppendTyped
    <2> HIDE DEF T
    <2> QED BY <2>1, KeepItems!FoldAppend
  <1> QED BY <1>1, <1>2, KeepItems!FoldEmpty

Fresh == [ok |-> TRUE, head |-> NewHead]

InheritAll(lines) == FoldLeft(ReplayInherited, Fresh, lines)

Inherit == INSTANCE FoldInduction WITH Op <- ReplayInherited

(* Inherited history, line by line (codec.go:176-184). *)
LEMMA InheritFold ==
    /\ InheritAll(<< >>) = Fresh
    /\ \A l, x : IsSequence(l) => InheritAll(Append(l, x)) = ReplayInherited(InheritAll(l), x)
  <1>1. \A l : Inherit!Fold(Fresh, l) = InheritAll(l)
    BY Zenon DEF InheritAll, Inherit!Fold, FoldLeft, Inherit!FoldLeft, MapThenFoldSet,
                 Inherit!MapThenFoldSet, Max, Inherit!Max
  <1>2. ASSUME NEW l, NEW x, IsSequence(l)
        PROVE  Inherit!Fold(Fresh, Append(l, x)) = ReplayInherited(Inherit!Fold(Fresh, l), x)
    <2> DEFINE T == Elements(l) \cup {x}
    <2>1. l \in Seq(T) /\ x \in T
      BY <1>2, AppendTyped
    <2> HIDE DEF T
    <2> QED BY <2>1, Inherit!FoldAppend
  <1> QED BY <1>1, <1>2, Inherit!FoldEmpty

OwnAll(start, lines) == FoldLeft(ReplayOwned, start, lines)

Own == INSTANCE FoldInduction WITH Op <- ReplayOwned

(* The session's own history, line by line (codec.go:186-201). *)
LEMMA OwnFold ==
    ASSUME NEW start
    PROVE  /\ OwnAll(start, << >>) = start
           /\ \A l, x : IsSequence(l) =>
                OwnAll(start, Append(l, x)) = ReplayOwned(OwnAll(start, l), x)
  <1>1. \A l : Own!Fold(start, l) = OwnAll(start, l)
    BY Zenon DEF OwnAll, Own!Fold, FoldLeft, Own!FoldLeft, MapThenFoldSet,
                 Own!MapThenFoldSet, Max, Own!Max
  <1>2. ASSUME NEW l, NEW x, IsSequence(l)
        PROVE  Own!Fold(start, Append(l, x)) = ReplayOwned(Own!Fold(start, l), x)
    <2> DEFINE T == Elements(l) \cup {x}
    <2>1. l \in Seq(T) /\ x \in T
      BY <1>2, AppendTyped
    <2> HIDE DEF T
    <2> QED BY <2>1, Own!FoldAppend
  <1> QED BY <1>1, <1>2, Own!FoldEmpty

InheritHeads(lines) == FoldLeft(InheritTo, NewHead, lines)

Heads == INSTANCE FoldInduction WITH Op <- InheritTo

(* The head of a fork, item by item (state.go:320-364). *)
LEMMA HeadsFold ==
    /\ InheritHeads(<< >>) = NewHead
    /\ \A l, x : IsSequence(l) => InheritHeads(Append(l, x)) = InheritTo(InheritHeads(l), x)
  <1>1. \A l : Heads!Fold(NewHead, l) = InheritHeads(l)
    BY Zenon DEF InheritHeads, Heads!Fold, FoldLeft, Heads!FoldLeft, MapThenFoldSet,
                 Heads!MapThenFoldSet, Max, Heads!Max
  <1>2. ASSUME NEW l, NEW x, IsSequence(l)
        PROVE  Heads!Fold(NewHead, Append(l, x)) = InheritTo(Heads!Fold(NewHead, l), x)
    <2> DEFINE T == Elements(l) \cup {x}
    <2>1. l \in Seq(T) /\ x \in T
      BY <1>2, AppendTyped
    <2> HIDE DEF T
    <2> QED BY <2>1, Heads!FoldAppend
  <1> QED BY <1>1, <1>2, Heads!FoldEmpty

Scan == INSTANCE FoldInduction WITH Op <- ScanUnrecorded

(* The operations whose end is missing, line by line (state.go:286-318). *)
LEMMA ScanFold ==
    /\ UnrecordedOperations(<< >>) = {}
    /\ \A l, x : IsSequence(l) => UnrecordedOperations(Append(l, x)) = ScanUnrecorded(UnrecordedOperations(l), x)
  <1>1. \A l : Scan!Fold({}, l) = UnrecordedOperations(l)
    BY Zenon DEF UnrecordedOperations, Scan!Fold, FoldLeft, Scan!FoldLeft, MapThenFoldSet,
                 Scan!MapThenFoldSet, Max, Scan!Max
  <1>2. ASSUME NEW l, NEW x, IsSequence(l)
        PROVE  Scan!Fold({}, Append(l, x)) = ScanUnrecorded(Scan!Fold({}, l), x)
    <2> DEFINE T == Elements(l) \cup {x}
    <2>1. l \in Seq(T) /\ x \in T
      BY <1>2, AppendTyped
    <2> HIDE DEF T
    <2> QED BY <2>1, Scan!FoldAppend
  <1> QED BY <1>1, <1>2, Scan!FoldEmpty
-----------------------------------------------------------------------------
(* Inherited and own history. *)

(* Nothing is a sequence, and so are the items of one. *)
LEMMA EmptyIsSequence == IsSequence(<< >>) /\ Len(<< >>) = 0
  <1>1. << >> \in Seq({}) /\ Len(<< >>) = 0
    OBVIOUS
  <1> QED BY <1>1, SequenceIn

(* Every sequence but the empty one is a shorter one and a last element. *)
LEMMA FrontAndLast ==
    ASSUME NEW s, IsSequence(s), NEW n \in Nat, Len(s) = n + 1
    PROVE  /\ IsSequence(SubSeq(s, 1, n)) /\ Len(SubSeq(s, 1, n)) = n
           /\ s = Append(SubSeq(s, 1, n), s[n + 1])
  <1>1. n < Len(s) /\ n <= Len(s)
    OBVIOUS
  <1>2. SubSeq(s, 1, n + 1) = Append(SubSeq(s, 1, n), s[n + 1])
    BY <1>1, PrefixAppend
  <1>3. SubSeq(s, 1, Len(s)) = s
    BY WholePrefix
  <1>4. IsSequence(SubSeq(s, 1, n)) /\ Len(SubSeq(s, 1, n)) = n
    BY <1>1, PrefixFacts
  <1> QED BY <1>2, <1>3, <1>4

LEMMA LengthZero ==
    ASSUME NEW s, IsSequence(s), Len(s) = 0
    PROVE  s = << >>
  <1>1. \A i \in 1..Len(s) : s[i] = << >>[i]
    OBVIOUS
  <1> QED BY <1>1, EmptyIsSequence, SequencesEqual

IsFork(line) == line.record.type = "fork"

(* The last fork line (codec.go:157-175). *)
LEMMA InheritedFacts ==
    ASSUME NEW l, IsSequence(l)
    PROVE  /\ Inherited(l) \in 0..Len(l)
           /\ \A i \in 1..Len(l) : IsFork(l[i]) => i <= Inherited(l)
           /\ Inherited(l) # 0 => IsFork(l[Inherited(l)])
  <1> DEFINE I == {i \in 1..Len(l) : l[i].record.type = "fork"}
  <1>0. Len(l) \in Nat
    BY DEF IsSequence
  <1>1. Inherited(l) = IF I # {} THEN Max(I) ELSE 0
    BY Zenon DEF Inherited, SelectLastInSeq
  <1>2. CASE I = {}
    BY <1>0, <1>1, <1>2 DEF IsFork
  <1>3. CASE I # {}
    <2>1. I \in SUBSET (1..Len(l))
      OBVIOUS
    <2>2. \A t : Max(t) = KeepItems!Max(t)
      BY Zenon DEF Max, KeepItems!Max
    <2> HIDE DEF I
    <2>3. KeepItems!Max(I) \in I /\ \A y \in I : KeepItems!Max(I) >= y
      BY <1>0, <1>3, <2>1, KeepItems!MaxFacts
    <2>4. Inherited(l) \in I /\ \A y \in I : Inherited(l) >= y
      BY <1>1, <1>3, <2>2, <2>3
    <2> QED BY <1>0, <2>1, <2>4 DEF I, IsFork
  <1> QED BY <1>2, <1>3

(* It is the only such place. *)
LEMMA InheritedIs ==
    ASSUME NEW l, IsSequence(l), NEW n \in 0..Len(l),
           n # 0 => IsFork(l[n]), \A i \in (n + 1)..Len(l) : ~IsFork(l[i])
    PROVE  Inherited(l) = n
  <1> DEFINE f == Inherited(l)
  <1>0. Len(l) \in Nat
    BY DEF IsSequence
  <1>1. /\ f \in 0..Len(l) /\ (f # 0 => IsFork(l[f]))
        /\ \A i \in 1..Len(l) : IsFork(l[i]) => i <= f
    BY InheritedFacts
  <1> HIDE DEF f
  <1>2. n <= f
    BY <1>0, <1>1
  <1>3. f <= n
    BY <1>0, <1>1
  <1> QED BY <1>0, <1>1, <1>2, <1>3 DEF f

(* One more line, and fewer lines. *)
LEMMA InheritedAppend ==
    ASSUME NEW l, IsSequence(l), NEW x
    PROVE  Inherited(Append(l, x)) = IF IsFork(x) THEN Len(l) + 1 ELSE Inherited(l)
  <1> DEFINE m == Append(l, x)
             f == Inherited(l)
  <1>1. /\ IsSequence(m) /\ Len(l) \in Nat /\ Len(m) = Len(l) + 1 /\ m[Len(l) + 1] = x
        /\ \A i \in 1..Len(l) : m[i] = l[i]
    BY AppendFacts
  <1>2. /\ f \in 0..Len(l) /\ (f # 0 => IsFork(l[f]))
        /\ \A i \in 1..Len(l) : IsFork(l[i]) => i <= f
    BY InheritedFacts
  <1> HIDE DEF m, f
  <1>3. CASE IsFork(x)
    <2>1. /\ Len(l) + 1 \in 0..Len(m) /\ IsFork(m[Len(l) + 1])
          /\ \A i \in ((Len(l) + 1) + 1)..Len(m) : ~IsFork(m[i])
      BY <1>1, <1>3
    <2>2. Inherited(m) = Len(l) + 1
      BY <1>1, <2>1, InheritedIs
    <2> QED BY <1>3, <2>2 DEF m
  <1>4. CASE ~IsFork(x)
    <2>1. f \in 0..Len(m) /\ (f # 0 => IsFork(m[f]))
      BY <1>1, <1>2
    <2>2. ASSUME NEW i \in (f + 1)..Len(m) PROVE ~IsFork(m[i])
      <3>1. CASE i = Len(l) + 1
        BY <1>1, <1>4, <3>1
      <3>2. CASE i \in 1..Len(l)
        BY <1>1, <1>2, <3>2
      <3> QED BY <1>1, <1>2, <3>1, <3>2
    <2>3. Inherited(m) = f
      BY <1>1, <2>1, <2>2, InheritedIs
    <2> QED BY <1>4, <2>3 DEF m, f
  <1> QED BY <1>3, <1>4

LEMMA InheritedPrefix ==
    ASSUME NEW l, IsSequence(l), NEW n \in Inherited(l)..Len(l)
    PROVE  Inherited(SubSeq(l, 1, n)) = Inherited(l)
  <1> DEFINE f == Inherited(l)
             m == SubSeq(l, 1, n)
  <1>1. /\ f \in 0..Len(l) /\ (f # 0 => IsFork(l[f]))
        /\ \A i \in 1..Len(l) : IsFork(l[i]) => i <= f
    BY InheritedFacts
  <1>2. Len(l) \in Nat /\ n \in Nat /\ n <= Len(l)
    BY <1>1 DEF IsSequence
  <1>3. IsSequence(m) /\ Len(m) = n /\ \A i \in 1..n : m[i] = l[i]
    BY <1>2, PrefixFacts
  <1>4. n \in f..Len(l)
    OBVIOUS
  <1> HIDE DEF m, f
  <1>5. f \in 0..Len(m) /\ (f # 0 => IsFork(m[f])) /\ \A i \in (f + 1)..Len(m) : ~IsFork(m[i])
    BY <1>1, <1>2, <1>3, <1>4
  <1>6. Inherited(m) = f
    BY <1>3, <1>5, InheritedIs
  <1> QED BY <1>6 DEF m, f

-----------------------------------------------------------------------------
(* Reading a log back, one line more (codec.go:87-206). *)

(* An empty log is sound. *)
LEMMA DecodeEmpty == Decode(<< >>) = Fresh
  <1>1. Inherited(<< >>) = 0
    BY EmptyIsSequence, InheritedFacts
  <1>2. SubSeq(<< >>, 1, 0) = << >> /\ SubSeq(<< >>, 0 + 1, Len(<< >>)) = << >>
    <2>1. /\ IsSequence(SubSeq(<< >>, 1, 0)) /\ Len(SubSeq(<< >>, 1, 0)) = 0
      BY EmptyIsSequence, PrefixFacts
    <2>2. SubSeq(<< >>, 1, 0) = << >>
      BY <2>1, LengthZero
    <2> QED BY <2>2, EmptyIsSequence
  <1>3. Decode(<< >>) = OwnAll(InheritAll(<< >>), << >>)
    BY <1>1, <1>2, Zenon DEF Decode, Fresh, OwnAll, InheritAll
  <1> QED BY <1>3, InheritFold, OwnFold

(* A line that is not a fork is read as the session's own. *)
LEMMA DecodeAppend ==
    ASSUME NEW l, IsSequence(l), NEW x, ~IsFork(x)
    PROVE  Decode(Append(l, x)) = ReplayOwned(Decode(l), x)
  <1> DEFINE m == Append(l, x)
             f == Inherited(l)
             start == InheritAll(SubSeq(l, 1, f))
             own == SubSeq(l, f + 1, Len(l))
  <1>1. f \in 0..Len(l) /\ Len(l) \in Nat /\ Len(m) = Len(l) + 1
    BY InheritedFacts, AppendFacts
  <1>2. Inherited(m) = f
    BY InheritedAppend
  <1>3. SubSeq(m, 1, f) = SubSeq(l, 1, f) /\ SubSeq(m, f + 1, Len(l) + 1) = Append(own, x)
    BY <1>1, CutAppend
  <1>4. Decode(l) = OwnAll(start, own)
    BY Zenon DEF Decode, Fresh, OwnAll, InheritAll
  <1>5. Decode(m) = OwnAll(start, Append(own, x))
    <2>1. Decode(m) = OwnAll(InheritAll(SubSeq(m, 1, f)), SubSeq(m, f + 1, Len(m)))
      BY <1>2, Zenon DEF Decode, Fresh, OwnAll, InheritAll
    <2> QED BY <1>1, <1>3, <2>1, Zenon
  <1>6. IsSequence(own)
    <2>1. f + 1 \in Nat \ {0} /\ Len(l) <= Len(l) /\ f + 1 <= Len(l) + 1
      BY <1>1
    <2> HIDE DEF f
    <2> QED BY <1>1, <2>1, SubSeqFacts
  <1> HIDE DEF m, own, start
  <1>7. OwnAll(start, Append(own, x)) = ReplayOwned(OwnAll(start, own), x)
    <2>1. \A s, y : IsSequence(s) => OwnAll(start, Append(s, y)) = ReplayOwned(OwnAll(start, s), y)
      BY OwnFold
    <2> QED BY <1>6, <2>1
  <1> QED BY <1>4, <1>5, <1>7 DEF m

(* A fork makes everything before it inherited history. *)
LEMMA DecodeFork ==
    ASSUME NEW l, IsSequence(l), NEW x, IsFork(x)
    PROVE  Decode(Append(l, x)) = ReplayInherited(InheritAll(l), x)
  <1> DEFINE m == Append(l, x)
             n == Len(l) + 1
  <1>1. Len(l) \in Nat /\ Len(m) = n /\ IsSequence(m) /\ n \in Nat
    BY AppendFacts
  <1>2. Inherited(m) = n
    BY InheritedAppend
  <1>3. SubSeq(m, 1, n) = m
    BY <1>1, WholePrefix
  <1>4. SubSeq(m, n + 1, n) = << >>
    <2>1. n + 1 \in Nat \ {0} /\ n <= Len(m) /\ n + 1 <= n + 1 /\ (n + 1) - (n + 1) = 0
      BY <1>1
    <2> HIDE DEF m, n
    <2>2. IsSequence(SubSeq(m, n + 1, n)) /\ Len(SubSeq(m, n + 1, n)) = 0
      BY <1>1, <2>1, SubSeqFacts
    <2> QED BY <2>2, LengthZero
  <1>5. Decode(m) = OwnAll(InheritAll(SubSeq(m, 1, n)), SubSeq(m, n + 1, Len(m)))
    BY <1>2, Zenon DEF Decode, Fresh, OwnAll, InheritAll
  <1>6. Decode(m) = OwnAll(InheritAll(m), << >>)
    BY <1>1, <1>3, <1>4, <1>5, Zenon
  <1>7. Decode(m) = InheritAll(m)
    BY <1>6, OwnFold, Zenon
  <1> QED BY <1>7, InheritFold DEF m

(* The items of a log, with one more line. *)
LEMMA ItemsAppend ==
    ASSUME NEW l, IsSequence(l), NEW x
    PROVE  Items(Append(l, x)) = IF IsItem(x.record) THEN Append(Items(l), x) ELSE Items(l)
  BY KeepItemsFold DEF KeepItem
-----------------------------------------------------------------------------
(* Heads. *)

IsHead(h) == HeadShape(h) /\ h.sequence \in Nat /\ IsMap(h.ops)

LEMMA EmptyMap == IsMap(<< >>) /\ DOMAIN << >> = {}
  <1>1. << >> = [x \in {} |-> << >>[x]]
    OBVIOUS
  <1> QED BY <1>1 DEF IsMap

LEMMA NewHeadFacts == IsHead(NewHead) /\ NewHead.sequence = 0
  <1>1. HeadShape(NewHead) /\ NewHead.sequence = 0 /\ NewHead.ops = << >>
    BY DEF HeadShape, NewHead
  <1> QED BY <1>1, EmptyMap DEF IsHead

(* An item is counted, an operation state is not (state.go:366-378). *)
LEMMA AppendToFacts ==
    ASSUME NEW h, IsHead(h), NEW r, CanAppend(h, r)
    PROVE  /\ IsHead(AppendTo(h, r))
           /\ AppendTo(h, r).sequence = IF IsItem(r) THEN h.sequence + 1 ELSE h.sequence
  <1> DEFINE g == AppendTo(h, r)
  <1>1. CASE r.type = "operation"
    <2>1. r.op \in DOMAIN h.ops
      BY <1>1 DEF CanAppend
    <2>2. g = [h EXCEPT !.ops = [h.ops EXCEPT ![r.op] = r.status]]
      BY <1>1 DEF AppendTo, IsItem
    <2>3. HeadShape(g) /\ IsMap(g.ops)
      BY <1>1, <2>1, AppendOperationFacts DEF IsHead
    <2>4. g.sequence = h.sequence
      BY <2>2 DEF IsHead, HeadShape
    <2> QED BY <1>1, <2>3, <2>4 DEF IsHead, IsItem
  <1>2. CASE r.type # "operation"
    <2> DEFINE n == [h EXCEPT !.sequence = h.sequence + 1]
    <2>1. HeadShape(n) /\ n.sequence = h.sequence + 1 /\ n.ops = h.ops
      BY DEF IsHead, HeadShape
    <2>2. g = CASE r.type = "turn" ->
                 [n EXCEPT !.turns = n.turns \cup {r.turn},
                           !.owned = n.owned \cup {r.turn}, !.latest = r.turn]
              [] r.type = "response" -> [n EXCEPT !.responded = n.responded \cup {r.turn}]
              [] r.type = "status" /\ StatusKey(r) \notin h.statuses ->
                 [n EXCEPT !.statuses = n.statuses \cup {StatusKey(r)},
                           !.ops = Override(n.ops, r.ops)]
              [] OTHER -> n
      BY <1>2 DEF AppendTo, IsItem
    <2> HIDE DEF g, n
    <2>3. CASE r.type = "turn"
      <3>1. g = [n EXCEPT !.turns = n.turns \cup {r.turn},
                          !.owned = n.owned \cup {r.turn}, !.latest = r.turn]
        BY <2>2, <2>3
      <3>2. HeadShape(g) /\ g.sequence = n.sequence /\ g.ops = n.ops
        BY <2>1, <3>1 DEF HeadShape
      <3> QED BY <2>1, <2>3, <3>2 DEF IsHead, IsItem, g
    <2>4. CASE r.type = "response"
      <3>1. g = [n EXCEPT !.responded = n.responded \cup {r.turn}]
        BY <2>2, <2>4
      <3>2. HeadShape(g) /\ g.sequence = n.sequence /\ g.ops = n.ops
        BY <2>1, <3>1 DEF HeadShape
      <3> QED BY <2>1, <2>4, <3>2 DEF IsHead, IsItem, g
    <2>5. CASE r.type = "status" /\ StatusKey(r) \notin h.statuses
      <3> DEFINE o == Override(n.ops, r.ops)
      <3>1. IsMap(o)
        BY OverrideFacts
      <3>2. g = [n EXCEPT !.statuses = n.statuses \cup {StatusKey(r)}, !.ops = o]
        BY <2>2, <2>5
      <3> HIDE DEF o
      <3>3. HeadShape(g) /\ g.sequence = n.sequence /\ g.ops = o
        BY <2>1, <3>2 DEF HeadShape
      <3> QED BY <2>1, <2>5, <3>1, <3>3 DEF IsHead, IsItem, g
    <2>6. CASE r.type = "input" \/ (r.type = "status" /\ StatusKey(r) \in h.statuses)
      <3>1. g = n
        BY <2>2, <2>6
      <3> QED BY <2>1, <2>6, <3>1 DEF IsHead, IsItem, g
    <2> QED BY <1>2, <2>3, <2>4, <2>5, <2>6 DEF CanAppend
  <1> QED BY <1>1, <1>2

(* An inherited item has its number already (state.go:388-412). *)
LEMMA InheritToFacts ==
    ASSUME NEW h, IsHead(h), NEW x, x.seq \in Nat
    PROVE  IsHead(InheritTo(h, x)) /\ InheritTo(h, x).sequence = x.seq
  <1> DEFINE r == x.record
             n == [h EXCEPT !.sequence = x.seq]
             g == InheritTo(h, x)
  <1>1. IsHead(n) /\ n.sequence = x.seq
    BY DEF IsHead, HeadShape
  <1>2. g = CASE r.type = "turn" ->
                 [n EXCEPT !.turns = n.turns \cup {r.turn},
                           !.owned = n.owned \cup {r.turn}, !.latest = r.turn]
              [] r.type = "response" -> [n EXCEPT !.responded = n.responded \cup {r.turn}]
              [] r.type = "status" -> [n EXCEPT !.statuses = n.statuses \cup {StatusKey(r)}]
              [] r.type = "fork" -> ResetOwned(n)
              [] OTHER -> n
    BY DEF InheritTo
  <1> HIDE DEF g, n, r
  <1>3. CASE r.type = "turn"
    BY <1>1, <1>2, <1>3 DEF IsHead, HeadShape, g
  <1>4. CASE r.type = "response"
    BY <1>1, <1>2, <1>4 DEF IsHead, HeadShape, g
  <1>5. CASE r.type = "status"
    BY <1>1, <1>2, <1>5 DEF IsHead, HeadShape, g
  <1>6. CASE r.type = "fork"
    <2>1. g = [n EXCEPT !.owned = {}, !.responded = {}, !.statuses = {}, !.ops = << >>]
      BY <1>2, <1>6 DEF ResetOwned
    <2>2. HeadShape(g) /\ g.sequence = n.sequence /\ g.ops = << >>
      BY <1>1, <2>1 DEF IsHead, HeadShape
    <2> QED BY <1>1, <2>2, EmptyMap DEF IsHead, g
  <1>7. CASE r.type \notin {"turn", "response", "status", "fork"}
    <2>1. g = n
      BY <1>2, <1>7
    <2> QED BY <1>1, <2>1 DEF g
  <1> QED BY <1>3, <1>4, <1>5, <1>6, <1>7

-----------------------------------------------------------------------------
(* What a sound log looks like. *)

Numbered(items) ==
    \A k \in 1..Len(items) : items[k].seq = k /\ IsItem(items[k].record)

InheritsWell(l) ==
    InheritAll(l).ok => /\ InheritAll(l).head = InheritHeads(l)
                        /\ IsHead(InheritAll(l).head)
                        /\ InheritAll(l).head.sequence = Len(l)
                        /\ Items(l) = l /\ Numbered(l)

(* Inherited history is sound only if all of it is items, numbered from 1. *)
LEMMA InheritAllFacts ==
    ASSUME NEW l, IsSequence(l)
    PROVE  InheritsWell(l)
  <1> DEFINE S == {n \in Nat : \A s : IsSequence(s) /\ Len(s) = n => InheritsWell(s)}
  <1>1. 0 \in S
    <2> SUFFICES ASSUME NEW s, IsSequence(s), Len(s) = 0 PROVE InheritsWell(s)
      OBVIOUS
    <2>1. s = << >>
      BY LengthZero
    <2>2. InheritAll(<< >>) = Fresh /\ InheritHeads(<< >>) = NewHead /\ Items(<< >>) = << >>
      BY InheritFold, HeadsFold, KeepItemsFold
    <2>3. Fresh.head = NewHead /\ Numbered(<< >>)
      BY EmptyIsSequence DEF Fresh, Numbered
    <2> QED BY <2>1, <2>2, <2>3, NewHeadFacts, EmptyIsSequence DEF InheritsWell
  <1>2. ASSUME NEW n \in Nat, n \in S
        PROVE  n + 1 \in S
    <2> SUFFICES ASSUME NEW s, IsSequence(s), Len(s) = n + 1 PROVE InheritsWell(s)
      OBVIOUS
    <2> DEFINE p == SubSeq(s, 1, n)
               x == s[n + 1]
    <2>1. IsSequence(p) /\ Len(p) = n /\ s = Append(p, x)
      BY FrontAndLast
    <2>2. InheritsWell(p)
      BY <1>2, <2>1
    <2>3. \A i \in 1..n : s[i] = p[i]
      BY PrefixFacts
    <2> HIDE DEF p, x, S
    <2>4. InheritAll(s) = ReplayInherited(InheritAll(p), x)
      BY <2>1, InheritFold
    <2>5. InheritHeads(s) = InheritTo(InheritHeads(p), x)
      BY <2>1, HeadsFold
    <2>6. Items(s) = IF IsItem(x.record) THEN Append(Items(p), x) ELSE Items(p)
      BY <2>1, ItemsAppend
    <2> SUFFICES ASSUME InheritAll(s).ok
                 PROVE  /\ InheritAll(s).head = InheritHeads(s) /\ IsHead(InheritAll(s).head)
                        /\ InheritAll(s).head.sequence = Len(s)
                        /\ Items(s) = s /\ Numbered(s)
      BY DEF InheritsWell
    <2>7. /\ InheritAll(p).ok /\ IsItem(x.record) /\ x.seq = InheritAll(p).head.sequence + 1
          /\ InheritAll(s).head = InheritTo(InheritAll(p).head, x)
      BY <2>4 DEF ReplayInherited
    <2>8. /\ InheritAll(p).head = InheritHeads(p) /\ IsHead(InheritAll(p).head)
          /\ InheritAll(p).head.sequence = n /\ Items(p) = p /\ Numbered(p)
      BY <2>1, <2>2, <2>7 DEF InheritsWell
    <2>9. x.seq = n + 1 /\ x.seq \in Nat
      BY <2>7, <2>8
    <2>10. IsHead(InheritAll(s).head) /\ InheritAll(s).head.sequence = n + 1
      BY <2>7, <2>8, <2>9, InheritToFacts
    <2>11. Items(s) = s
      BY <2>1, <2>6, <2>7, <2>8
    <2>12. Numbered(s)
      <3> SUFFICES ASSUME NEW k \in 1..(n + 1) PROVE s[k].seq = k /\ IsItem(s[k].record)
        BY DEF Numbered
      <3>1. CASE k = n + 1
        BY <2>7, <2>9, <3>1 DEF x
      <3>2. CASE k \in 1..n
        BY <2>1, <2>3, <2>8, <3>2 DEF Numbered
      <3> QED BY <3>1, <3>2
    <2> QED BY <2>5, <2>7, <2>8, <2>10, <2>11, <2>12
  <1>3. \A n \in Nat : n \in S
    <2> HIDE DEF S
    <2> QED BY <1>1, <1>2, KeepItems!Induction
  <1>4. Len(l) \in Nat
    BY DEF IsSequence
  <1> QED BY <1>3, <1>4

DecodesWell(l) ==
    Decode(l).ok => /\ IsHead(Decode(l).head)
                    /\ Decode(l).head.sequence = Len(Items(l))
                    /\ IsSequence(Items(l)) /\ Numbered(Items(l))

(* In a sound log the items are numbered from 1, and the head counts them  *)
(* (codec.go:87-206).                                                      *)
LEMMA DecodeFacts ==
    ASSUME NEW l, IsSequence(l)
    PROVE  DecodesWell(l)
  <1> DEFINE S == {n \in Nat : \A s : IsSequence(s) /\ Len(s) = n => DecodesWell(s)}
  <1>1. 0 \in S
    <2> SUFFICES ASSUME NEW s, IsSequence(s), Len(s) = 0 PROVE DecodesWell(s)
      OBVIOUS
    <2>1. s = << >>
      BY LengthZero
    <2>2. Decode(<< >>) = Fresh /\ Items(<< >>) = << >>
      BY DecodeEmpty, KeepItemsFold
    <2>3. Fresh.head = NewHead /\ Numbered(<< >>)
      BY EmptyIsSequence DEF Fresh, Numbered
    <2> QED BY <2>1, <2>2, <2>3, NewHeadFacts, EmptyIsSequence DEF DecodesWell
  <1>2. ASSUME NEW n \in Nat, n \in S
        PROVE  n + 1 \in S
    <2> SUFFICES ASSUME NEW s, IsSequence(s), Len(s) = n + 1, Decode(s).ok
                 PROVE  /\ IsHead(Decode(s).head) /\ Decode(s).head.sequence = Len(Items(s))
                        /\ IsSequence(Items(s)) /\ Numbered(Items(s))
      BY DEF DecodesWell
    <2> DEFINE p == SubSeq(s, 1, n)
               x == s[n + 1]
    <2>1. IsSequence(p) /\ Len(p) = n /\ s = Append(p, x)
      BY FrontAndLast
    <2>2. DecodesWell(p)
      BY <1>2, <2>1
    <2> HIDE DEF p, x, S
    <2>3. Items(s) = IF IsItem(x.record) THEN Append(Items(p), x) ELSE Items(p)
      BY <2>1, ItemsAppend
    <2>4. CASE IsFork(x)
      <3>1. Decode(s) = ReplayInherited(InheritAll(p), x)
        BY <2>1, <2>4, DecodeFork
      <3>2. InheritAll(s) = ReplayInherited(InheritAll(p), x)
        BY <2>1, InheritFold
      <3>3. InheritAll(s).ok /\ Decode(s) = InheritAll(s)
        BY <3>1, <3>2
      <3>4. InheritsWell(s)
        BY InheritAllFacts
      <3> QED BY <3>3, <3>4 DEF InheritsWell
    <2>5. CASE ~IsFork(x)
      <3> DEFINE h == Decode(p).head
                 t == Items(p)
                 r == x.record
      <3>1. Decode(s) = ReplayOwned(Decode(p), x)
        BY <2>1, <2>5, DecodeAppend
      <3>2. /\ Decode(p).ok /\ CanAppend(h, r) /\ Decode(s).head = AppendTo(h, r)
            /\ IsItem(r) => x.seq = h.sequence + 1
        BY <3>1 DEF ReplayOwned
      <3>3. IsHead(h) /\ h.sequence = Len(t) /\ IsSequence(t) /\ Numbered(t)
        BY <2>2, <3>2 DEF DecodesWell
      <3> HIDE DEF h, t, r
      <3>4. /\ IsHead(Decode(s).head)
            /\ Decode(s).head.sequence = IF IsItem(r) THEN h.sequence + 1 ELSE h.sequence
        BY <3>2, <3>3, AppendToFacts
      <3>5. CASE ~IsItem(r)
        BY <2>3, <3>3, <3>4, <3>5 DEF r, t
      <3>6. CASE IsItem(r)
        <4> DEFINE u == Append(t, x)
        <4>1. /\ IsSequence(u) /\ Len(t) \in Nat /\ Len(u) = Len(t) + 1 /\ u[Len(t) + 1] = x
              /\ \A i \in 1..Len(t) : u[i] = t[i]
          BY <3>3, AppendFacts
        <4>2. Items(s) = u
          BY <2>3, <3>6 DEF r, t
        <4> HIDE DEF u
        <4>3. Numbered(u)
          <5> SUFFICES ASSUME NEW k \in 1..(Len(t) + 1) PROVE u[k].seq = k /\ IsItem(u[k].record)
            BY <4>1 DEF Numbered
          <5>1. CASE k = Len(t) + 1
            BY <3>2, <3>3, <3>6, <4>1, <5>1 DEF r
          <5>2. CASE k \in 1..Len(t)
            BY <3>3, <4>1, <5>2 DEF Numbered
          <5> QED BY <4>1, <5>1, <5>2
        <4> QED BY <3>3, <3>4, <3>6, <4>1, <4>2, <4>3
      <3> QED BY <3>5, <3>6
    <2> QED BY <2>4, <2>5
  <1>3. \A n \in Nat : n \in S
    <2> HIDE DEF S
    <2> QED BY <1>1, <1>2, KeepItems!Induction
  <1>4. Len(l) \in Nat
    BY DEF IsSequence
  <1> QED BY <1>3, <1>4

PrefixDecodes(l) ==
    \A n \in Inherited(l)..Len(l) : Decode(l).ok => Decode(SubSeq(l, 1, n)).ok

(* A sound log that loses lines it did not inherit is still sound. *)
LEMMA DecodePrefix ==
    ASSUME NEW l, IsSequence(l)
    PROVE  PrefixDecodes(l)
  <1> DEFINE S == {n \in Nat : \A s : IsSequence(s) /\ Len(s) = n => PrefixDecodes(s)}
  <1>1. 0 \in S
    <2> SUFFICES ASSUME NEW s, IsSequence(s), Len(s) = 0, NEW n \in Inherited(s)..0, Decode(s).ok
                 PROVE  Decode(SubSeq(s, 1, n)).ok
      BY DEF PrefixDecodes
    <2>1. Inherited(s) = 0 /\ n = 0
      BY InheritedFacts
    <2>2. SubSeq(s, 1, n) = s
      BY <2>1, WholePrefix
    <2> QED BY <2>2
  <1>2. ASSUME NEW n \in Nat, n \in S
        PROVE  n + 1 \in S
    <2> SUFFICES ASSUME NEW s, IsSequence(s), Len(s) = n + 1, NEW k \in Inherited(s)..(n + 1),
                        Decode(s).ok
                 PROVE  Decode(SubSeq(s, 1, k)).ok
      BY DEF PrefixDecodes
    <2>0. Inherited(s) \in 0..(n + 1) /\ k \in Nat
      BY InheritedFacts
    <2>1. CASE k = n + 1
      BY <2>1, WholePrefix
    <2>2. CASE k # n + 1
      <3> DEFINE p == SubSeq(s, 1, n)
                 x == s[n + 1]
      <3>1. IsSequence(p) /\ Len(p) = n /\ s = Append(p, x)
        BY FrontAndLast
      <3>2. PrefixDecodes(p)
        BY <1>2, <3>1
      <3>3. n \in Inherited(s)..Len(s) /\ k <= n /\ k \in Inherited(s)..n
        BY <2>0, <2>2
      <3>4. Inherited(p) = Inherited(s)
        BY <3>3, InheritedPrefix
      <3>5. ~IsFork(x)
        <4>1. \A i \in 1..Len(s) : IsFork(s[i]) => i <= Inherited(s)
          BY InheritedFacts
        <4> QED BY <2>0, <3>3, <4>1
      <3>6. SubSeq(p, 1, k) = SubSeq(s, 1, k)
        BY <2>0, <3>3, PrefixOfPrefix
      <3> HIDE DEF p, x, S
      <3>7. Decode(s) = ReplayOwned(Decode(p), x)
        BY <3>1, <3>5, DecodeAppend
      <3>8. Decode(p).ok
        BY <3>7 DEF ReplayOwned
      <3>9. Decode(SubSeq(p, 1, k)).ok
        BY <3>1, <3>2, <3>3, <3>4, <3>8 DEF PrefixDecodes
      <3> QED BY <3>6, <3>9
    <2> QED BY <2>1, <2>2
  <1>3. \A n \in Nat : n \in S
    <2> HIDE DEF S
    <2> QED BY <1>1, <1>2, KeepItems!Induction
  <1>4. Len(l) \in Nat
    BY DEF IsSequence
  <1> QED BY <1>3, <1>4
-----------------------------------------------------------------------------
(* Forking a session (state.go:320-412). *)

(* Numbered items without operations are sound as inherited history. *)
LEMMA CopiesInherit ==
    ASSUME NEW c, IsSequence(c), Numbered(c),
           \A k \in 1..Len(c) : c[k].record.type = "status" => DOMAIN c[k].record.ops = {}
    PROVE  InheritAll(c).ok
  <1>0. Len(c) \in Nat
    BY DEF IsSequence
  <1> DEFINE S == {n \in Nat : n <= Len(c) => InheritAll(SubSeq(c, 1, n)).ok}
  <1>1. 0 \in S
    <2>1. SubSeq(c, 1, 0) = << >>
      BY <1>0, PrefixFacts, LengthZero
    <2>2. InheritAll(<< >>).ok
      BY InheritFold DEF Fresh
    <2> QED BY <2>1, <2>2
  <1>2. ASSUME NEW n \in Nat, n \in S
        PROVE  n + 1 \in S
    <2> SUFFICES ASSUME n + 1 <= Len(c) PROVE InheritAll(SubSeq(c, 1, n + 1)).ok
      OBVIOUS
    <2> DEFINE p == SubSeq(c, 1, n)
               x == c[n + 1]
    <2>1. n < Len(c) /\ n <= Len(c) /\ n + 1 \in 1..Len(c)
      BY <1>0
    <2>2. SubSeq(c, 1, n + 1) = Append(p, x)
      BY <2>1, PrefixAppend
    <2>3. IsSequence(p) /\ Len(p) = n
      BY <2>1, PrefixFacts
    <2>4. InheritAll(p).ok
      BY <1>2, <2>1
    <2>5. x.seq = n + 1 /\ IsItem(x.record) /\ (x.record.type = "status" => DOMAIN x.record.ops = {})
      BY <2>1 DEF Numbered
    <2> HIDE DEF p, x, S
    <2>6. InheritAll(p).head.sequence = n
      BY <2>3, <2>4, InheritAllFacts DEF InheritsWell
    <2>7. InheritAll(Append(p, x)) = ReplayInherited(InheritAll(p), x)
      BY <2>3, InheritFold
    <2>8. InheritAll(Append(p, x)).ok
      BY <2>4, <2>5, <2>6, <2>7 DEF ReplayInherited
    <2> QED BY <2>2, <2>8
  <1>3. \A n \in Nat : n \in S
    <2> HIDE DEF S
    <2> QED BY <1>1, <1>2, KeepItems!Induction
  <1>4. InheritAll(SubSeq(c, 1, Len(c))).ok
    BY <1>0, <1>3
  <1> QED BY <1>4, WholePrefix

(* The boundary is one of the parent's items, or there is none. *)
LEMMA ForkBoundaryFacts ==
    ASSUME NEW items, IsSequence(items), NEW previous
    PROVE  ForkBoundary(items, previous) \in 0..Len(items)
  <1> DEFINE About(k) == IsAbout(items[k].record, previous)
             Ends(k) == items[k].record.type = "turn" /\ \E j \in 1..(k - 1) : About(j)
             Kept == {k \in DOMAIN items : About(k) /\ \A j \in 1..k : ~Ends(j)}
  <1>1. Len(items) \in Nat /\ DOMAIN items = 1..Len(items)
    BY DEF IsSequence
  <1>2. ForkBoundary(items, previous) =
          IF Kept = {} THEN 0 ELSE CHOOSE k \in Kept : \A j \in Kept : j <= k
    BY DEF ForkBoundary
  <1>3. Kept \in SUBSET (1..Len(items))
    BY <1>1
  <1> HIDE DEF Kept
  <1>4. CASE Kept = {}
    BY <1>1, <1>2, <1>4
  <1>5. CASE Kept # {}
    <2> DEFINE m == KeepItems!Max(Kept)
    <2>1. m \in Kept /\ \A j \in Kept : m >= j
      BY <1>1, <1>3, <1>5, KeepItems!MaxFacts
    <2>2. \A j \in Kept : j <= m
      BY <1>1, <1>3, <2>1
    <2>3. (CHOOSE k \in Kept : \A j \in Kept : j <= k) \in Kept
      BY <2>1, <2>2
    <2>4. ForkBoundary(items, previous) = CHOOSE k \in Kept : \A j \in Kept : j <= k
      BY <1>2, <1>5
    <2>5. ForkBoundary(items, previous) \in 1..Len(items)
      BY <1>3, <2>3, <2>4
    <2> QED BY <1>1, <2>5
  <1> QED BY <1>4, <1>5

(* The first log of a fork is sound, all of it is inherited, and the head  *)
(* that is cached with it is the one that reading it gives.                *)
LEMMA ForkFacts ==
    ASSUME NEW l, IsSequence(l), Decode(l).ok, NEW parent, NEW previous
    PROVE  LET f == ForkLines(l, parent, previous)
           IN /\ IsSequence(f) /\ Inherited(f) = Len(f) /\ Len(f) \in Nat
              /\ Decode(f).ok /\ Decode(f).head = ForkHead(f)
  <1> DEFINE items == Items(l)
             b == ForkBoundary(items, previous)
             c == [k \in 1..b |-> WithoutOperations(items[k])]
             r == [type |-> "fork", parent |-> parent, prev |-> previous]
             x == [seq |-> b + 1, record |-> r]
             f == Append(c, x)
  <1>1. ForkLines(l, parent, previous) = f
    BY DEF ForkLines
  <1>2. IsSequence(items) /\ Numbered(items) /\ Len(items) \in Nat
    BY DecodeFacts DEF DecodesWell, IsSequence
  <1> HIDE DEF items
  <1>3. b \in 0..Len(items) /\ b \in Nat
    BY <1>2, ForkBoundaryFacts
  <1> HIDE DEF b
  <1>4. IsSequence(c) /\ Len(c) = b /\ \A k \in 1..b : c[k] = WithoutOperations(items[k])
    <2> DEFINE T == {WithoutOperations(items[k]) : k \in 1..b}
    <2>1. c \in [1..b -> T]
      OBVIOUS
    <2>2. c \in Seq(T) /\ Len(c) = b
      BY <1>3, <2>1, FunctionIsSequence
    <2>3. \A k \in 1..b : c[k] = WithoutOperations(items[k])
      OBVIOUS
    <2> HIDE DEF c, T
    <2> QED BY <2>2, <2>3, SequenceIn
  <1> HIDE DEF c
  <1>5. ASSUME NEW k \in 1..b
        PROVE  /\ c[k].seq = k /\ IsItem(c[k].record)
               /\ c[k].record.type = "status" => DOMAIN c[k].record.ops = {}
    <2>1. items[k].seq = k /\ IsItem(items[k].record)
      BY <1>2, <1>3 DEF Numbered
    <2>2. c[k] = WithoutOperations(items[k])
      BY <1>4
    <2> QED BY <2>1, <2>2, EmptyMap DEF WithoutOperations, IsItem
  <1>6. Numbered(c)
    BY <1>4, <1>5 DEF Numbered
  <1>7. InheritAll(c).ok
    BY <1>4, <1>5, <1>6, CopiesInherit
  <1>8. /\ InheritAll(c).head = InheritHeads(c) /\ IsHead(InheritHeads(c))
        /\ InheritHeads(c).sequence = b
    BY <1>4, <1>7, InheritAllFacts DEF InheritsWell
  <1>9. /\ x.seq = b + 1 /\ x.record = r /\ r.type = "fork"
        /\ IsFork(x) /\ IsItem(x.record) /\ x.record.type # "status"
    BY DEF IsFork, IsItem
  <1> HIDE DEF x, r
  <1>10. Decode(f) = ReplayInherited(InheritAll(c), x)
    BY <1>4, <1>9, DecodeFork
  <1>11. IsSequence(f) /\ Len(f) = b + 1
    BY <1>4, AppendFacts
  <1>12. Inherited(f) = Len(f)
    BY <1>4, <1>9, <1>11, InheritedAppend
  <1> DEFINE h == InheritHeads(c)
  <1>13. Decode(f).ok /\ Decode(f).head = InheritTo(h, x)
    BY <1>7, <1>8, <1>9, <1>10 DEF ReplayInherited
  <1>14. InheritTo(h, x) = ResetOwned([h EXCEPT !.sequence = b + 1])
    BY <1>9 DEF InheritTo
  <1>15. Front(f) = c
    <2>1. SubSeq(f, 1, b) = SubSeq(c, 1, b)
      BY <1>3, <1>4, CutAppend
    <2>2. SubSeq(c, 1, b) = c
      BY <1>4, WholePrefix
    <2>3. Len(f) - 1 = b
      BY <1>3, <1>11
    <2>4. Front(f) = SubSeq(f, 1, Len(f) - 1)
      BY DEF Front
    <2> QED BY <2>1, <2>2, <2>3, <2>4
  <1>16. ForkHead(f) = ResetOwned([h EXCEPT !.sequence = h.sequence + 1])
    BY <1>15, Zenon DEF ForkHead, InheritHeads
  <1> HIDE DEF h, f
  <1>17. ForkHead(f) = Decode(f).head
    BY <1>8, <1>13, <1>14, <1>16 DEF h
  <1> QED BY <1>1, <1>3, <1>11, <1>12, <1>13, <1>17
-----------------------------------------------------------------------------
(* What a session owns: only what was recorded after its last fork. *)

OwnTurns(l) ==
    {l[k].record.turn :
       k \in {i \in (Inherited(l) + 1)..Len(l) : l[i].record.type = "turn"}}

InOwnStatus(l, op) ==
    \E k \in (Inherited(l) + 1)..Len(l) :
      /\ l[k].record.type = "status"
      /\ l[k].record.turn \in OwnTurns(l)
      /\ op \in DOMAIN l[k].record.ops

OwnsOwn(l) ==
    Decode(l).ok => /\ Decode(l).head.owned = OwnTurns(l)
                    /\ \A key \in Decode(l).head.statuses : key[1] \in OwnTurns(l)
                    /\ \A op \in DOMAIN Decode(l).head.ops : InOwnStatus(l, op)

(* The fields of the head after a fork line, and the latest turn. *)
LEMMA InheritFields ==
    ASSUME NEW h, HeadShape(h), NEW x
    PROVE  /\ HeadShape(InheritTo(h, x))
           /\ InheritTo(h, x).latest = IF x.record.type = "turn" THEN x.record.turn ELSE h.latest
           /\ InheritTo(h, x).turns =
                IF x.record.type = "turn" THEN h.turns \cup {x.record.turn} ELSE h.turns
           /\ IsFork(x) => /\ InheritTo(h, x).owned = {} /\ InheritTo(h, x).statuses = {}
                           /\ InheritTo(h, x).ops = << >>
  <1> DEFINE r == x.record
             n == [h EXCEPT !.sequence = x.seq]
             g == InheritTo(h, x)
  <1>1. HeadShape(n) /\ n.latest = h.latest /\ n.turns = h.turns
    BY DEF HeadShape
  <1>2. g = CASE r.type = "turn" ->
                 [n EXCEPT !.turns = n.turns \cup {r.turn},
                           !.owned = n.owned \cup {r.turn}, !.latest = r.turn]
              [] r.type = "response" -> [n EXCEPT !.responded = n.responded \cup {r.turn}]
              [] r.type = "status" -> [n EXCEPT !.statuses = n.statuses \cup {StatusKey(r)}]
              [] r.type = "fork" -> ResetOwned(n)
              [] OTHER -> n
    BY DEF InheritTo
  <1> HIDE DEF g, n, r
  <1> SUFFICES /\ HeadShape(g) /\ g.latest = IF r.type = "turn" THEN r.turn ELSE n.latest
               /\ g.turns = IF r.type = "turn" THEN n.turns \cup {r.turn} ELSE n.turns
               /\ r.type = "fork" => g.owned = {} /\ g.statuses = {} /\ g.ops = << >>
    BY <1>1 DEF g, r, IsFork
  <1>3. CASE r.type = "turn"
    BY <1>1, <1>2, <1>3 DEF HeadShape
  <1>4. CASE r.type = "response"
    BY <1>1, <1>2, <1>4 DEF HeadShape
  <1>5. CASE r.type = "status"
    BY <1>1, <1>2, <1>5 DEF HeadShape
  <1>6. CASE r.type = "fork"
    <2>1. g = [n EXCEPT !.owned = {}, !.responded = {}, !.statuses = {}, !.ops = << >>]
      BY <1>2, <1>6 DEF ResetOwned
    <2> QED BY <1>1, <1>6, <2>1 DEF HeadShape
  <1>7. CASE r.type \notin {"turn", "response", "status", "fork"}
    <2>1. g = n
      BY <1>2, <1>7
    <2> QED BY <1>1, <1>7, <2>1
  <1> QED BY <1>3, <1>4, <1>5, <1>6, <1>7

(* Own lines of a log with one more line of its own. *)
LEMMA OwnAppend ==
    ASSUME NEW l, IsSequence(l), NEW x, ~IsFork(x)
    PROVE  /\ OwnTurns(Append(l, x)) =
                OwnTurns(l) \cup (IF x.record.type = "turn" THEN {x.record.turn} ELSE {})
           /\ \A op : InOwnStatus(l, op) => InOwnStatus(Append(l, x), op)
           /\ \A op : (/\ x.record.type = "status" /\ x.record.turn \in OwnTurns(l)
                       /\ op \in DOMAIN x.record.ops) => InOwnStatus(Append(l, x), op)
  <1> DEFINE m == Append(l, x)
             f == Inherited(l)
             n == Len(l)
             New == IF x.record.type = "turn" THEN {x.record.turn} ELSE {}
  <1>1. /\ n \in Nat /\ Len(m) = n + 1 /\ m[n + 1] = x /\ \A i \in 1..n : m[i] = l[i]
    BY AppendFacts
  <1>2. Inherited(m) = f /\ f \in 0..n
    BY InheritedAppend, InheritedFacts
  <1> HIDE DEF m, f, n
  <1>3. (f + 1)..(n + 1) = ((f + 1)..n) \cup {n + 1} /\ \A i \in (f + 1)..n : i \in 1..n
    BY <1>1, <1>2
  <1>4. ASSUME NEW t PROVE t \in OwnTurns(m) <=> t \in OwnTurns(l) \cup New
    <2>1. t \in OwnTurns(m) <=>
            \E k \in (f + 1)..(n + 1) : m[k].record.type = "turn" /\ t = m[k].record.turn
      BY <1>1, <1>2 DEF OwnTurns
    <2>2. t \in OwnTurns(l) <=>
            \E k \in (f + 1)..n : l[k].record.type = "turn" /\ t = l[k].record.turn
      BY DEF OwnTurns, f, n
    <2> QED BY <1>1, <1>3, <2>1, <2>2
  <1>5. OwnTurns(m) = OwnTurns(l) \cup New
    BY <1>4
  <1> HIDE DEF New
  <1>6. ASSUME NEW op, InOwnStatus(l, op) PROVE InOwnStatus(m, op)
    <2>1. PICK k \in (f + 1)..n : /\ l[k].record.type = "status"
                                  /\ l[k].record.turn \in OwnTurns(l)
                                  /\ op \in DOMAIN l[k].record.ops
      BY <1>6 DEF InOwnStatus, f, n
    <2>2. k \in (f + 1)..Len(m) /\ m[k] = l[k]
      BY <1>1, <1>3
    <2> QED BY <1>2, <1>5, <2>1, <2>2 DEF InOwnStatus
  <1>7. ASSUME NEW op, x.record.type = "status", x.record.turn \in OwnTurns(l),
               op \in DOMAIN x.record.ops
        PROVE  InOwnStatus(m, op)
    <2>1. n + 1 \in (f + 1)..Len(m) /\ m[n + 1] = x
      BY <1>1, <1>2
    <2> QED BY <1>2, <1>5, <1>7, <2>1 DEF InOwnStatus
  <1> QED BY <1>5, <1>6, <1>7 DEF m, New

(* A sound log gives its session the turns, statuses and operations that   *)
(* were recorded after the last fork, and no others (codec.go:157-206).    *)
LEMMA OwnFacts ==
    ASSUME NEW l, IsSequence(l)
    PROVE  OwnsOwn(l)
  <1> DEFINE S == {n \in Nat : \A s : IsSequence(s) /\ Len(s) = n => OwnsOwn(s)}
  <1>1. 0 \in S
    <2> SUFFICES ASSUME NEW s, IsSequence(s), Len(s) = 0 PROVE OwnsOwn(s)
      OBVIOUS
    <2>1. s = << >>
      BY LengthZero
    <2>2. Decode(s).head = NewHead /\ Inherited(s) = 0
      BY <2>1, DecodeEmpty, InheritedFacts, EmptyIsSequence DEF Fresh
    <2>3. NewHead.owned = {} /\ NewHead.statuses = {} /\ DOMAIN NewHead.ops = {}
      BY EmptyMap DEF NewHead
    <2>4. OwnTurns(s) = {}
      BY <2>2 DEF OwnTurns
    <2> QED BY <2>2, <2>3, <2>4 DEF OwnsOwn
  <1>2. ASSUME NEW n \in Nat, n \in S
        PROVE  n + 1 \in S
    <2> SUFFICES ASSUME NEW s, IsSequence(s), Len(s) = n + 1, Decode(s).ok
                 PROVE  /\ Decode(s).head.owned = OwnTurns(s)
                        /\ \A key \in Decode(s).head.statuses : key[1] \in OwnTurns(s)
                        /\ \A op \in DOMAIN Decode(s).head.ops : InOwnStatus(s, op)
      BY DEF OwnsOwn
    <2> DEFINE p == SubSeq(s, 1, n)
               x == s[n + 1]
               r == x.record
               g == Decode(s).head
    <2>1. IsSequence(p) /\ Len(p) = n /\ s = Append(p, x)
      BY FrontAndLast
    <2>2. OwnsOwn(p)
      BY <1>2, <2>1
    <2> HIDE DEF p, x, S
    <2>3. CASE IsFork(x)
      <3>1. Decode(s) = ReplayInherited(InheritAll(p), x)
        BY <2>1, <2>3, DecodeFork
      <3> DEFINE u == InheritAll(p).head
      <3>2. g = InheritTo(u, x) /\ InheritAll(p).ok
        BY <3>1 DEF ReplayInherited
      <3>3. HeadShape(u)
        BY <2>1, <3>2, InheritAllFacts DEF InheritsWell, IsHead
      <3> HIDE DEF u, g
      <3>4. g.owned = {} /\ g.statuses = {} /\ g.ops = << >>
        BY <2>3, <3>2, <3>3, InheritFields
      <3>5. Inherited(s) = n + 1
        BY <2>1, <2>3, InheritedAppend
      <3>6. OwnTurns(s) = {}
        BY <3>5 DEF OwnTurns
      <3> QED BY <3>4, <3>6, EmptyMap DEF g
    <2>4. CASE ~IsFork(x)
      <3> DEFINE h == Decode(p).head
      <3>1. Decode(s) = ReplayOwned(Decode(p), x)
        BY <2>1, <2>4, DecodeAppend
      <3>2. Decode(p).ok /\ CanAppend(h, r) /\ g = AppendTo(h, r)
        BY <3>1 DEF ReplayOwned
      <3>3. HeadShape(h) /\ IsMap(h.ops)
        BY <2>1, <3>2, DecodeFacts DEF DecodesWell, IsHead
      <3>4. /\ h.owned = OwnTurns(p)
            /\ \A key \in h.statuses : key[1] \in OwnTurns(p)
            /\ \A op \in DOMAIN h.ops : InOwnStatus(p, op)
        BY <2>2, <3>2 DEF OwnsOwn
      <3>5. /\ OwnTurns(s) = OwnTurns(p) \cup (IF r.type = "turn" THEN {r.turn} ELSE {})
            /\ \A op : InOwnStatus(p, op) => InOwnStatus(s, op)
            /\ \A op : (r.type = "status" /\ r.turn \in OwnTurns(p) /\ op \in DOMAIN r.ops)
                         => InOwnStatus(s, op)
        BY <2>1, <2>4, OwnAppend
      <3> HIDE DEF h, g, r
      <3> SUFFICES /\ g.owned = OwnTurns(s)
                   /\ \A key \in g.statuses : key[1] \in OwnTurns(s)
                   /\ \A op \in DOMAIN g.ops : InOwnStatus(s, op)
        BY DEF g
      <3>6. CASE \/ r.type = "input"
                 \/ r.type = "status" /\ StatusKey(r) \in h.statuses
        <4>1. Unchanged(g, h)
          BY <3>2, <3>3, <3>6, AppendCountedFacts
        <4> QED BY <3>4, <3>5, <3>6, <4>1 DEF Unchanged
      <3>7. CASE r.type = "turn"
        <4>1. g.owned = h.owned \cup {r.turn} /\ g.statuses = h.statuses /\ g.ops = h.ops
          BY <3>2, <3>3, <3>7, AppendTurnFacts
        <4> QED BY <3>4, <3>5, <3>7, <4>1
      <3>8. CASE r.type = "response"
        <4>1. g.owned = h.owned /\ g.statuses = h.statuses /\ g.ops = h.ops
          BY <3>2, <3>3, <3>8, AppendResponseFacts
        <4> QED BY <3>4, <3>5, <3>8, <4>1
      <3>9. CASE r.type = "status" /\ StatusKey(r) \notin h.statuses
        <4>1. /\ g.owned = h.owned /\ g.statuses = h.statuses \cup {StatusKey(r)}
              /\ g.ops = Override(h.ops, r.ops)
          BY <3>2, <3>3, <3>9, AppendFirstStatusFacts
        <4>2. DOMAIN g.ops = DOMAIN h.ops \cup DOMAIN r.ops
          <5>1. DOMAIN Override(h.ops, r.ops) = DOMAIN h.ops \cup DOMAIN r.ops
            BY OverrideFacts
          <5> QED BY <4>1, <5>1
        <4>3. r.turn \in h.owned
          BY <3>2, <3>9 DEF CanAppend
        <4>4. StatusKey(r)[1] = r.turn
          BY DEF StatusKey
        <4> QED BY <3>4, <3>5, <3>9, <4>1, <4>2, <4>3, <4>4
      <3>10. CASE r.type = "operation"
        <4>1. r.op \in DOMAIN h.ops
          BY <3>2, <3>10 DEF CanAppend
        <4>2. g.owned = h.owned /\ g.statuses = h.statuses /\ DOMAIN g.ops = DOMAIN h.ops
          BY <3>2, <3>3, <3>10, <4>1, AppendOperationFacts
        <4> QED BY <3>4, <3>5, <3>10, <4>2
      <3> QED BY <3>2, <3>6, <3>7, <3>8, <3>9, <3>10 DEF CanAppend
    <2> QED BY <2>3, <2>4
  <1>3. \A n \in Nat : n \in S
    <2> HIDE DEF S
    <2> QED BY <1>1, <1>2, KeepItems!Induction
  <1>4. Len(l) \in Nat
    BY DEF IsSequence
  <1> QED BY <1>3, <1>4
-----------------------------------------------------------------------------
(* Where a fork starts. *)

(* The first item about a turn is the turn. *)
TurnsFirst(l) ==
    \A k \in 1..Len(l) :
      l[k].record.type \in {"turn", "response", "status"} =>
        \E j \in 1..k : l[j].record.type = "turn" /\ l[j].record.turn = l[k].record.turn

(* A session that was forked starts at the turn its fork line names. *)
ForkPoint(l) ==
    Inherited(l) # 0 =>
      Decode(SubSeq(l, 1, Inherited(l))).head.latest = l[Inherited(l)].record.prev

LEMMA TurnsFirstPrefix ==
    ASSUME NEW l, IsSequence(l), TurnsFirst(l), NEW n \in Nat, n <= Len(l)
    PROVE  TurnsFirst(SubSeq(l, 1, n))
  <1> DEFINE m == SubSeq(l, 1, n)
  <1>1. IsSequence(m) /\ Len(m) = n /\ \A i \in 1..n : m[i] = l[i]
    BY PrefixFacts
  <1>2. Len(l) \in Nat
    BY DEF IsSequence
  <1> HIDE DEF m
  <1>3. TurnsFirst(m)
    <2> SUFFICES ASSUME NEW k \in 1..n, m[k].record.type \in {"turn", "response", "status"}
                 PROVE  \E j \in 1..k : /\ m[j].record.type = "turn"
                                        /\ m[j].record.turn = m[k].record.turn
      BY <1>1 DEF TurnsFirst
    <2>1. k \in 1..Len(l) /\ m[k] = l[k]
      BY <1>1, <1>2
    <2>2. PICK j \in 1..k : l[j].record.type = "turn" /\ l[j].record.turn = l[k].record.turn
      BY <2>1 DEF TurnsFirst
    <2>3. m[j] = l[j]
      BY <1>1
    <2> QED BY <2>1, <2>2, <2>3
  <1> QED BY <1>3 DEF m

LEMMA TurnsFirstAppend ==
    ASSUME NEW l, IsSequence(l), TurnsFirst(l), NEW x,
           x.record.type \in {"response", "status"} =>
             \E j \in 1..Len(l) : l[j].record.type = "turn" /\ l[j].record.turn = x.record.turn
    PROVE  TurnsFirst(Append(l, x))
  <1> DEFINE m == Append(l, x)
             n == Len(l)
  <1>1. /\ n \in Nat /\ Len(m) = n + 1 /\ m[n + 1] = x /\ \A i \in 1..n : m[i] = l[i]
    BY AppendFacts
  <1> HIDE DEF m, n
  <1> SUFFICES ASSUME NEW k \in 1..(n + 1), m[k].record.type \in {"turn", "response", "status"}
               PROVE  \E j \in 1..k : /\ m[j].record.type = "turn"
                                      /\ m[j].record.turn = m[k].record.turn
    BY <1>1 DEF TurnsFirst, m
  <1>2. CASE k \in 1..n
    <2>1. PICK j \in 1..k : l[j].record.type = "turn" /\ l[j].record.turn = l[k].record.turn
      BY <1>1, <1>2 DEF TurnsFirst, n
    <2>2. m[j] = l[j] /\ m[k] = l[k]
      BY <1>1, <1>2
    <2> QED BY <2>1, <2>2
  <1>3. CASE k = n + 1 /\ x.record.type = "turn"
    BY <1>1, <1>3
  <1>4. CASE k = n + 1 /\ x.record.type # "turn"
    <2>1. m[k] = x
      BY <1>1, <1>4
    <2>2. PICK j \in 1..n : l[j].record.type = "turn" /\ l[j].record.turn = x.record.turn
      BY <1>4, <2>1 DEF n
    <2>3. m[j] = l[j] /\ j \in 1..k
      BY <1>1, <1>4
    <2> QED BY <2>1, <2>2, <2>3
  <1> QED BY <1>1, <1>2, <1>3, <1>4

(* Every item of a log is among its items. *)
HasItems(l) ==
    \A k \in 1..Len(l) :
      IsItem(l[k].record) => \E j \in 1..Len(Items(l)) : Items(l)[j] = l[k]

ItemsWell(l) ==
    IsSequence(Items(l)) /\ HasItems(l) /\ (TurnsFirst(l) => TurnsFirst(Items(l)))

LEMMA ItemsFacts ==
    ASSUME NEW l, IsSequence(l)
    PROVE  ItemsWell(l)
  <1> DEFINE S == {n \in Nat : \A s : IsSequence(s) /\ Len(s) = n => ItemsWell(s)}
  <1>1. 0 \in S
    <2> SUFFICES ASSUME NEW s, IsSequence(s), Len(s) = 0 PROVE ItemsWell(s)
      OBVIOUS
    <2>1. s = << >> /\ Items(<< >>) = << >>
      BY LengthZero, KeepItemsFold
    <2>2. HasItems(s)
      BY DEF HasItems
    <2> QED BY <2>1, <2>2, EmptyIsSequence DEF ItemsWell
  <1>2. ASSUME NEW n \in Nat, n \in S
        PROVE  n + 1 \in S
    <2> SUFFICES ASSUME NEW s, IsSequence(s), Len(s) = n + 1
                 PROVE  ItemsWell(s)
      OBVIOUS
    <2> DEFINE p == SubSeq(s, 1, n)
               x == s[n + 1]
               t == Items(p)
    <2>1. IsSequence(p) /\ Len(p) = n /\ s = Append(p, x)
      BY FrontAndLast
    <2>2. ItemsWell(p)
      BY <1>2, <2>1
    <2>3. \A i \in 1..n : s[i] = p[i]
      BY PrefixFacts
    <2>4. TurnsFirst(s) => TurnsFirst(p)
      BY TurnsFirstPrefix
    <2> HIDE DEF p, S
    <2>5. Items(s) = IF IsItem(x.record) THEN Append(t, x) ELSE t
      BY <2>1, ItemsAppend
    <2>6. IsSequence(t) /\ HasItems(p) /\ (TurnsFirst(p) => TurnsFirst(t))
      BY <2>2 DEF ItemsWell
    <2> HIDE DEF x, t
    <2>7. /\ IsSequence(Append(t, x)) /\ Len(Append(t, x)) = Len(t) + 1 /\ Len(t) \in Nat
          /\ Append(t, x)[Len(t) + 1] = x /\ \A i \in 1..Len(t) : Append(t, x)[i] = t[i]
      BY <2>6, AppendFacts
    <2>8. HasItems(s)
      <3> SUFFICES ASSUME NEW k \in 1..(n + 1), IsItem(s[k].record)
                   PROVE  \E j \in 1..Len(Items(s)) : Items(s)[j] = s[k]
        BY DEF HasItems
      <3>1. CASE k \in 1..n
        <4>1. PICK j \in 1..Len(t) : t[j] = p[k]
          BY <2>1, <2>3, <2>6, <3>1 DEF HasItems, t
        <4>2. s[k] = p[k]
          BY <2>3, <3>1
        <4> QED BY <2>5, <2>7, <4>1, <4>2
      <3>2. CASE k = n + 1
        BY <2>5, <2>7, <3>2 DEF x
      <3> QED BY <3>1, <3>2
    <2>9. ASSUME TurnsFirst(s) PROVE TurnsFirst(Items(s))
      <3>1. TurnsFirst(t)
        BY <2>4, <2>6, <2>9
      <3>2. CASE ~IsItem(x.record)
        BY <2>5, <3>1, <3>2
      <3>3. CASE IsItem(x.record)
        <4>1. ASSUME x.record.type \in {"response", "status"}
              PROVE  \E j \in 1..Len(t) : t[j].record.type = "turn" /\ t[j].record.turn = x.record.turn
          <5>1. PICK j \in 1..(n + 1) : /\ s[j].record.type = "turn"
                                        /\ s[j].record.turn = x.record.turn
            BY <2>9, <4>1 DEF TurnsFirst, x
          <5>2. j \in 1..n
            BY <4>1, <5>1 DEF x
          <5>3. p[j].record.type = "turn" /\ p[j].record.turn = x.record.turn /\ IsItem(p[j].record)
            BY <2>3, <5>1, <5>2 DEF IsItem
          <5>4. PICK i \in 1..Len(t) : t[i] = p[j]
            BY <2>1, <2>6, <5>2, <5>3 DEF HasItems, t
          <5> QED BY <5>3, <5>4
        <4>2. TurnsFirst(Append(t, x))
          BY <2>6, <3>1, <4>1, TurnsFirstAppend
        <4> QED BY <2>5, <3>3, <4>2
      <3> QED BY <3>2, <3>3
    <2>10. IsSequence(Items(s))
      BY <2>5, <2>6, <2>7
    <2> QED BY <2>8, <2>9, <2>10 DEF ItemsWell
  <1>3. \A n \in Nat : n \in S
    <2> HIDE DEF S
    <2> QED BY <1>1, <1>2, KeepItems!Induction
  <1>4. Len(l) \in Nat
    BY DEF IsSequence
  <1> QED BY <1>3, <1>4

(* A record that passed the checks keeps turns first. *)
LEMMA PreparedTurnsFirst ==
    ASSUME NEW l, IsSequence(l), Decode(l).ok, TurnsFirst(l), NEW x,
           CanAppend(Decode(l).head, x.record)
    PROVE  TurnsFirst(Append(l, x))
  <1>1. ASSUME x.record.type \in {"response", "status"}
        PROVE  \E j \in 1..Len(l) : l[j].record.type = "turn" /\ l[j].record.turn = x.record.turn
    <2>1. x.record.turn \in Decode(l).head.owned
      BY <1>1 DEF CanAppend
    <2>2. x.record.turn \in OwnTurns(l)
      BY <2>1, OwnFacts DEF OwnsOwn
    <2>3. PICK j \in (Inherited(l) + 1)..Len(l) : l[j].record.type = "turn" /\ l[j].record.turn = x.record.turn
      BY <2>2 DEF OwnTurns
    <2>4. j \in 1..Len(l)
      BY InheritedFacts DEF IsSequence
    <2> QED BY <2>3, <2>4
  <1> QED BY <1>1, TurnsFirstAppend

(* The latest turn of inherited history is its last turn. *)
LEMMA HeadsShape ==
    ASSUME NEW c, IsSequence(c)
    PROVE  HeadShape(InheritHeads(c))
  <1> DEFINE S == {n \in Nat : \A s : IsSequence(s) /\ Len(s) = n => HeadShape(InheritHeads(s))}
  <1>1. 0 \in S
    <2> SUFFICES ASSUME NEW s, IsSequence(s), Len(s) = 0 PROVE HeadShape(InheritHeads(s))
      OBVIOUS
    <2> QED BY LengthZero, HeadsFold, NewHeadFacts DEF IsHead
  <1>2. ASSUME NEW n \in Nat, n \in S
        PROVE  n + 1 \in S
    <2> SUFFICES ASSUME NEW s, IsSequence(s), Len(s) = n + 1 PROVE HeadShape(InheritHeads(s))
      OBVIOUS
    <2> DEFINE p == SubSeq(s, 1, n)
               x == s[n + 1]
    <2>1. IsSequence(p) /\ Len(p) = n /\ s = Append(p, x)
      BY FrontAndLast
    <2>2. HeadShape(InheritHeads(p))
      BY <1>2, <2>1
    <2> HIDE DEF p, x, S
    <2>3. InheritHeads(s) = InheritTo(InheritHeads(p), x)
      BY <2>1, HeadsFold
    <2> QED BY <2>2, <2>3, InheritFields
  <1>3. \A n \in Nat : n \in S
    <2> HIDE DEF S
    <2> QED BY <1>1, <1>2, KeepItems!Induction
  <1>4. Len(c) \in Nat
    BY DEF IsSequence
  <1> QED BY <1>3, <1>4

LEMMA LatestOfHeads ==
    ASSUME NEW c, IsSequence(c), NEW j \in 1..Len(c), c[j].record.type = "turn",
           \A k \in (j + 1)..Len(c) : c[k].record.type # "turn"
    PROVE  InheritHeads(c).latest = c[j].record.turn
  <1>0. Len(c) \in Nat /\ j \in Nat /\ j - 1 \in Nat /\ (j - 1) + 1 = j
    BY DEF IsSequence
  <1> DEFINE L(n) == InheritHeads(SubSeq(c, 1, n)).latest
             S == {n \in Nat : j <= n /\ n <= Len(c) => L(n) = c[j].record.turn}
  <1>1. 0 \in S
    BY <1>0
  <1>2. ASSUME NEW n \in Nat, n \in S
        PROVE  n + 1 \in S
    <2> SUFFICES ASSUME j <= n + 1, n + 1 <= Len(c) PROVE L(n + 1) = c[j].record.turn
      OBVIOUS
    <2> DEFINE p == SubSeq(c, 1, n)
               x == c[n + 1]
    <2>1. n < Len(c) /\ n <= Len(c)
      BY <1>0
    <2>2. SubSeq(c, 1, n + 1) = Append(p, x) /\ IsSequence(p)
      BY <2>1, PrefixAppend, PrefixFacts
    <2>3. InheritHeads(Append(p, x)) = InheritTo(InheritHeads(p), x)
      BY <2>2, HeadsFold
    <2>4. HeadShape(InheritHeads(p))
      BY <2>2, HeadsShape
    <2>5. L(n + 1) = IF x.record.type = "turn" THEN x.record.turn ELSE L(n)
      <3> HIDE DEF p, x
      <3>1. InheritTo(InheritHeads(p), x).latest =
              IF x.record.type = "turn" THEN x.record.turn ELSE InheritHeads(p).latest
        BY <2>4, InheritFields
      <3> QED BY <2>2, <2>3, <3>1 DEF p
    <2>6. CASE n + 1 = j
      BY <2>5, <2>6
    <2>7. CASE n + 1 # j
      <3>1. j <= n /\ n + 1 \in (j + 1)..Len(c)
        BY <1>0, <2>7
      <3>2. L(n) = c[j].record.turn
        BY <1>2, <2>1, <3>1
      <3> QED BY <2>5, <3>1, <3>2
    <2> QED BY <2>6, <2>7
  <1>3. \A n \in Nat : n \in S
    <2> HIDE DEF S
    <2> QED BY <1>1, <1>2, KeepItems!Induction
  <1>4. L(Len(c)) = c[j].record.turn
    BY <1>0, <1>3
  <1> QED BY <1>4, WholePrefix

(* Up to the boundary the turn of the fork is the last one. *)
LEMMA BoundaryTurn ==
    ASSUME NEW items, IsSequence(items), TurnsFirst(items), NEW previous,
           ForkBoundary(items, previous) # 0
    PROVE  \E j \in 1..ForkBoundary(items, previous) :
             /\ items[j].record.type = "turn" /\ items[j].record.turn = previous
             /\ \A k \in (j + 1)..ForkBoundary(items, previous) : items[k].record.type # "turn"
  <1> DEFINE About(k) == IsAbout(items[k].record, previous)
             Ends(k) == items[k].record.type = "turn" /\ \E j \in 1..(k - 1) : About(j)
             Kept == {k \in DOMAIN items : About(k) /\ \A j \in 1..k : ~Ends(j)}
             b == ForkBoundary(items, previous)
  <1>1. Len(items) \in Nat /\ DOMAIN items = 1..Len(items)
    BY DEF IsSequence
  <1>2. b = IF Kept = {} THEN 0 ELSE CHOOSE k \in Kept : \A j \in Kept : j <= k
    BY DEF ForkBoundary
  <1>3. b \in Kept
    <2>1. Kept \in SUBSET (1..Len(items)) /\ Kept # {}
      BY <1>1, <1>2
    <2> HIDE DEF Kept
    <2> DEFINE m == KeepItems!Max(Kept)
    <2>2. m \in Kept /\ \A j \in Kept : m >= j
      BY <1>1, <2>1, KeepItems!MaxFacts
    <2>3. \A j \in Kept : j <= m
      BY <1>1, <2>1, <2>2
    <2>4. (CHOOSE k \in Kept : \A j \in Kept : j <= k) \in Kept
      BY <2>2, <2>3
    <2> QED BY <1>2, <2>1, <2>4
  <1> HIDE DEF b
  <1>4. b \in 1..Len(items) /\ IsAbout(items[b].record, previous) /\ \A j \in 1..b : ~Ends(j)
    BY <1>1, <1>3
  <1>5. PICK j \in 1..b : items[j].record.type = "turn" /\ items[j].record.turn = previous
    BY <1>4 DEF TurnsFirst, IsAbout
  <1>6. ASSUME NEW k \in (j + 1)..b, items[k].record.type = "turn"
        PROVE  FALSE
    <2>1. About(j) /\ j \in 1..(k - 1) /\ k \in 1..b
      BY <1>1, <1>4, <1>5 DEF IsAbout
    <2> QED BY <1>4, <1>6, <2>1
  <1> QED BY <1>5, <1>6 DEF b

(* The first log of a fork: turns are first, and it starts at its turn. *)
LEMMA ForkPointFacts ==
    ASSUME NEW l, IsSequence(l), Decode(l).ok, TurnsFirst(l), NEW parent, NEW previous,
           ForkBoundary(Items(l), previous) # 0
    PROVE  LET f == ForkLines(l, parent, previous) IN TurnsFirst(f) /\ ForkPoint(f)
  <1> DEFINE items == Items(l)
             b == ForkBoundary(items, previous)
             c == [k \in 1..b |-> WithoutOperations(items[k])]
             r == [type |-> "fork", parent |-> parent, prev |-> previous]
             x == [seq |-> b + 1, record |-> r]
             f == Append(c, x)
  <1>1. ForkLines(l, parent, previous) = f
    BY DEF ForkLines
  <1>2. IsSequence(items) /\ TurnsFirst(items) /\ Len(items) \in Nat
    BY ItemsFacts DEF ItemsWell, IsSequence
  <1>3. PICK j \in 1..b : /\ items[j].record.type = "turn" /\ items[j].record.turn = previous
                          /\ \A k \in (j + 1)..b : items[k].record.type # "turn"
    BY <1>2, BoundaryTurn
  <1>4. /\ IsSequence(f) /\ Inherited(f) = Len(f) /\ Len(f) \in Nat
        /\ Decode(f).head = ForkHead(f)
    BY <1>1, ForkFacts
  <1> HIDE DEF items
  <1>5. b \in 0..Len(items) /\ b \in Nat
    BY <1>2, ForkBoundaryFacts
  <1> HIDE DEF b
  <1>6. IsSequence(c) /\ Len(c) = b /\ \A k \in 1..b : c[k] = WithoutOperations(items[k])
    <2> DEFINE T == {WithoutOperations(items[k]) : k \in 1..b}
    <2>1. c \in Seq(T)
      BY <1>5
    <2>2. Len(c) = b
      BY <1>5
    <2>3. \A k \in 1..b : c[k] = WithoutOperations(items[k])
      OBVIOUS
    <2> HIDE DEF c, T
    <2> QED BY <2>1, <2>2, <2>3, SequenceIn
  <1>7. x.record = r /\ r.type = "fork" /\ r.prev = previous
    OBVIOUS
  <1> HIDE DEF c, x, r
  <1>8. \A k \in 1..b : /\ c[k].record.type = items[k].record.type
                        /\ c[k].record.type \in {"turn", "response", "status"} =>
                             c[k].record.turn = items[k].record.turn
    BY <1>6 DEF WithoutOperations
  <1>9. TurnsFirst(c)
    <2> SUFFICES ASSUME NEW k \in 1..b, c[k].record.type \in {"turn", "response", "status"}
                 PROVE  \E i \in 1..k : c[i].record.type = "turn" /\ c[i].record.turn = c[k].record.turn
      BY <1>6 DEF TurnsFirst
    <2>1. k \in 1..Len(items) /\ items[k].record.type \in {"turn", "response", "status"}
      BY <1>2, <1>5, <1>8
    <2>2. PICK i \in 1..k : items[i].record.type = "turn" /\ items[i].record.turn = items[k].record.turn
      BY <1>2, <2>1 DEF TurnsFirst
    <2>3. i \in 1..b
      BY <1>5
    <2> QED BY <1>8, <2>2, <2>3
  <1>10. TurnsFirst(f)
    BY <1>6, <1>7, <1>9, TurnsFirstAppend
  <1>11. InheritHeads(c).latest = previous
    <2>1. c[j].record.type = "turn" /\ c[j].record.turn = previous
      BY <1>3, <1>8
    <2>2. \A k \in (j + 1)..Len(c) : c[k].record.type # "turn"
      BY <1>3, <1>5, <1>6, <1>8
    <2> QED BY <1>6, <2>1, <2>2, LatestOfHeads
  <1>12. Len(f) = b + 1 /\ f[b + 1] = x
    BY <1>6, AppendFacts
  <1>13. Front(f) = c
    <2>1. SubSeq(f, 1, b) = SubSeq(c, 1, b)
      BY <1>5, <1>6, CutAppend
    <2>2. SubSeq(c, 1, b) = c
      BY <1>6, WholePrefix
    <2>3. Len(f) - 1 = b
      BY <1>5, <1>12
    <2>4. Front(f) = SubSeq(f, 1, Len(f) - 1)
      BY DEF Front
    <2> QED BY <2>1, <2>2, <2>3, <2>4
  <1> DEFINE h == InheritHeads(c)
  <1>14. ForkHead(f) = ResetOwned([h EXCEPT !.sequence = h.sequence + 1])
    BY <1>13, Zenon DEF ForkHead, InheritHeads
  <1>15. HeadShape(h)
    BY <1>6, HeadsShape
  <1> HIDE DEF h, f
  <1>16. ForkHead(f).latest = h.latest
    <2> DEFINE n == [h EXCEPT !.sequence = h.sequence + 1]
    <2>1. HeadShape(n) /\ n.latest = h.latest
      BY <1>15 DEF HeadShape
    <2> HIDE DEF n
    <2>2. ResetOwned(n).latest = n.latest
      BY <2>1 DEF ResetOwned, HeadShape
    <2> QED BY <1>14, <2>1, <2>2 DEF n
  <1>17. SubSeq(f, 1, Len(f)) = f
    BY <1>4, WholePrefix
  <1>18. Decode(SubSeq(f, 1, Inherited(f))).head.latest = previous
    BY <1>4, <1>11, <1>16, <1>17 DEF h
  <1>19. f[Inherited(f)].record.prev = previous
    BY <1>4, <1>7, <1>12
  <1>20. ForkPoint(f)
    BY <1>18, <1>19 DEF ForkPoint
  <1> QED BY <1>1, <1>10, <1>20

(* The fork line stays where it is. *)
LEMMA ForkPointAppend ==
    ASSUME NEW l, IsSequence(l), ForkPoint(l), NEW x, ~IsFork(x)
    PROVE  ForkPoint(Append(l, x))
  <1> DEFINE m == Append(l, x)
             f == Inherited(l)
  <1>1. Inherited(m) = f /\ f \in 0..Len(l) /\ Len(l) \in Nat
    BY InheritedAppend, InheritedFacts, AppendFacts
  <1>2. SubSeq(m, 1, f) = SubSeq(l, 1, f)
    BY <1>1, CutAppend
  <1>3. \A i \in 1..Len(l) : m[i] = l[i]
    BY AppendFacts
  <1> HIDE DEF m, f
  <1> SUFFICES ASSUME f # 0 PROVE Decode(SubSeq(l, 1, f)).head.latest = m[f].record.prev
    BY <1>1, <1>2 DEF ForkPoint, m
  <1>4. f \in 1..Len(l)
    BY <1>1
  <1> QED BY <1>3, <1>4 DEF ForkPoint, f

LEMMA ForkPointPrefix ==
    ASSUME NEW l, IsSequence(l), ForkPoint(l), NEW n \in Inherited(l)..Len(l)
    PROVE  ForkPoint(SubSeq(l, 1, n))
  <1> DEFINE m == SubSeq(l, 1, n)
             f == Inherited(l)
  <1>1. f \in 0..Len(l) /\ Len(l) \in Nat
    BY InheritedFacts DEF IsSequence
  <1>2. n \in Nat /\ n <= Len(l) /\ f <= n /\ f \in Nat
    BY <1>1
  <1>3. Inherited(m) = f
    BY InheritedPrefix
  <1>4. \A i \in 1..n : m[i] = l[i]
    BY <1>2, PrefixFacts
  <1>5. SubSeq(m, 1, f) = SubSeq(l, 1, f)
    BY <1>2, PrefixOfPrefix
  <1> HIDE DEF m, f
  <1> SUFFICES ASSUME f # 0 PROVE Decode(SubSeq(l, 1, f)).head.latest = m[f].record.prev
    BY <1>3, <1>5 DEF ForkPoint, m
  <1>6. f \in 1..n
    BY <1>2
  <1> QED BY <1>4, <1>6 DEF ForkPoint, f

(* Only a turn moves the latest turn. *)
LEMMA AppendLatest ==
    ASSUME NEW h, IsHead(h), NEW r, CanAppend(h, r), r.type # "turn"
    PROVE  AppendTo(h, r).latest = h.latest
  <1> DEFINE g == AppendTo(h, r)
  <1>0. HeadShape(h) /\ IsMap(h.ops)
    BY DEF IsHead
  <1>1. CASE r.type = "input" \/ (r.type = "status" /\ StatusKey(r) \in h.statuses)
    BY <1>0, <1>1, AppendCountedFacts DEF Unchanged
  <1>2. CASE r.type = "response"
    BY <1>0, <1>2, AppendResponseFacts
  <1>3. CASE r.type = "status" /\ StatusKey(r) \notin h.statuses
    BY <1>0, <1>3, AppendFirstStatusFacts
  <1>4. CASE r.type = "operation"
    <2>1. r.op \in DOMAIN h.ops
      BY <1>4 DEF CanAppend
    <2> QED BY <1>0, <1>4, <2>1, AppendOperationFacts
  <1> QED BY <1>1, <1>2, <1>3, <1>4 DEF CanAppend

(* Only a turn is added to the own turns, only a response to the answered. *)
LEMMA AppendOwned ==
    ASSUME NEW h, IsHead(h), NEW r, CanAppend(h, r), r.type # "turn"
    PROVE  /\ AppendTo(h, r).owned = h.owned
           /\ AppendTo(h, r).responded =
                IF r.type = "response" THEN h.responded \cup {r.turn} ELSE h.responded
  <1> DEFINE g == AppendTo(h, r)
  <1>0. HeadShape(h) /\ IsMap(h.ops)
    BY DEF IsHead
  <1>1. CASE r.type = "input" \/ (r.type = "status" /\ StatusKey(r) \in h.statuses)
    BY <1>0, <1>1, AppendCountedFacts DEF Unchanged
  <1>2. CASE r.type = "response"
    BY <1>0, <1>2, AppendResponseFacts
  <1>3. CASE r.type = "status" /\ StatusKey(r) \notin h.statuses
    BY <1>0, <1>3, AppendFirstStatusFacts
  <1>4. CASE r.type = "operation"
    <2>1. r.op \in DOMAIN h.ops
      BY <1>4 DEF CanAppend
    <2> QED BY <1>0, <1>4, <2>1, AppendOperationFacts
  <1> QED BY <1>1, <1>2, <1>3, <1>4 DEF CanAppend

(* The first turn of a forked session follows the turn it was forked at.   *)
LEMMA FirstTurnFacts ==
    ASSUME NEW l, IsSequence(l), Decode(l).ok, ForkPoint(l), Inherited(l) # 0,
           NEW k \in (Inherited(l) + 1)..Len(l), l[k].record.type = "turn",
           \A j \in (Inherited(l) + 1)..(k - 1) : l[j].record.type # "turn"
    PROVE  l[k].record.prev = l[Inherited(l)].record.prev
  <1> DEFINE f == Inherited(l)
             D(n) == Decode(SubSeq(l, 1, n))
             S == {n \in Nat : f <= n /\ n < k => D(n).head.latest = l[f].record.prev}
  <1>0. Len(l) \in Nat /\ f \in 1..Len(l) /\ k \in (f + 1)..Len(l)
    BY InheritedFacts DEF IsSequence
  <1>1. ASSUME NEW n \in Nat, f <= n, n < Len(l)
        PROVE  /\ D(n).ok /\ IsHead(D(n).head) /\ CanAppend(D(n).head, l[n + 1].record)
               /\ D(n + 1).head = AppendTo(D(n).head, l[n + 1].record)
    <2> DEFINE p == SubSeq(l, 1, n)
               x == l[n + 1]
               q == SubSeq(l, 1, n + 1)
    <2>1. n \in f..Len(l) /\ n + 1 \in f..Len(l) /\ n <= Len(l) /\ n + 1 \in 1..Len(l)
      BY <1>0, <1>1
    <2>2. Decode(p).ok /\ Decode(q).ok
      BY <2>1, DecodePrefix DEF PrefixDecodes
    <2>3. q = Append(p, x) /\ IsSequence(p)
      BY <1>1, <2>1, PrefixAppend, PrefixFacts
    <2>4. ~IsFork(x)
      <3>1. \A i \in 1..Len(l) : IsFork(l[i]) => i <= f
        BY InheritedFacts
      <3> QED BY <1>0, <1>1, <2>1, <3>1
    <2> HIDE DEF p, x, q
    <2>5. Decode(q) = ReplayOwned(Decode(p), x)
      BY <2>3, <2>4, DecodeAppend
    <2>6. CanAppend(Decode(p).head, x.record) /\ Decode(q).head = AppendTo(Decode(p).head, x.record)
      BY <2>2, <2>5 DEF ReplayOwned
    <2>7. IsHead(Decode(p).head)
      BY <2>2, <2>3, DecodeFacts DEF DecodesWell
    <2> QED BY <2>2, <2>6, <2>7 DEF p, q, x
  <1>2. 0 \in S
    BY <1>0
  <1>3. ASSUME NEW n \in Nat, n \in S
        PROVE  n + 1 \in S
    <2> SUFFICES ASSUME f <= n + 1, n + 1 < k PROVE D(n + 1).head.latest = l[f].record.prev
      OBVIOUS
    <2>1. CASE f = n + 1
      <3>1. D(f).head.latest = l[f].record.prev
        BY DEF ForkPoint
      <3> HIDE DEF f, D
      <3> QED BY <2>1, <3>1
    <2>2. CASE f # n + 1
      <3>1. f <= n /\ n < k /\ n < Len(l) /\ n + 1 \in (f + 1)..(k - 1)
        BY <1>0, <2>2
      <3>2. D(n).head.latest = l[f].record.prev /\ l[n + 1].record.type # "turn"
        BY <1>3, <3>1
      <3>3. /\ IsHead(D(n).head) /\ CanAppend(D(n).head, l[n + 1].record)
            /\ D(n + 1).head = AppendTo(D(n).head, l[n + 1].record)
        BY <1>1, <3>1
      <3> HIDE DEF D
      <3> QED BY <3>2, <3>3, AppendLatest
    <2> QED BY <2>1, <2>2
  <1>4. \A n \in Nat : n \in S
    <2> HIDE DEF S
    <2> QED BY <1>2, <1>3, KeepItems!Induction
  <1>5. k - 1 \in Nat /\ f <= k - 1 /\ k - 1 < k /\ k - 1 < Len(l) /\ (k - 1) + 1 = k
    BY <1>0
  <1>6. D(k - 1).head.latest = l[f].record.prev
    BY <1>4, <1>5
  <1>7. CanAppend(D(k - 1).head, l[(k - 1) + 1].record)
    BY <1>1, <1>5
  <1> HIDE DEF D
  <1> QED BY <1>5, <1>6, <1>7 DEF CanAppend

-----------------------------------------------------------------------------
(* How callers use the store (loop.go:780-876): they save nothing of an    *)
(* operation that has ended, and a tool call's later statuses carry the    *)
(* stored states of operations that it has started.  The coordinator keeps *)
(* to this, and what Resume returns depends on it.                         *)
Faithful(head, record) ==
    /\ record.type = "operation" => head.ops[record.op] \notin TerminalStatuses
    /\ record.type = "status" /\ StatusKey(record) \in head.statuses =>
         \A op \in DOMAIN record.ops :
           op \in DOMAIN head.ops /\ record.ops[op] = head.ops[op]

(* Every line of the session's own history was faithful to what the log    *)
(* said before it.                                                         *)
FaithfulLog(l) ==
    \A k \in (Inherited(l) + 1)..Len(l) :
      Faithful(Decode(SubSeq(l, 1, k - 1)).head, l[k].record)

LEMMA FaithfulAppend ==
    ASSUME NEW l, IsSequence(l), FaithfulLog(l), NEW x, ~IsFork(x),
           Faithful(Decode(l).head, x.record)
    PROVE  FaithfulLog(Append(l, x))
  <1> DEFINE m == Append(l, x)
             f == Inherited(l)
  <1>1. /\ Inherited(m) = f /\ f \in 0..Len(l) /\ Len(l) \in Nat /\ Len(m) = Len(l) + 1
        /\ m[Len(l) + 1] = x /\ \A i \in 1..Len(l) : m[i] = l[i]
    BY InheritedAppend, InheritedFacts, AppendFacts
  <1>2. \A i \in 0..Len(l) : SubSeq(m, 1, i) = SubSeq(l, 1, i)
    BY CutAppend
  <1>3. SubSeq(l, 1, Len(l)) = l
    BY WholePrefix
  <1> HIDE DEF m, f
  <1>4. FaithfulLog(m)
    <2> SUFFICES ASSUME NEW k \in (f + 1)..(Len(l) + 1)
                 PROVE  Faithful(Decode(SubSeq(m, 1, k - 1)).head, m[k].record)
      BY <1>1 DEF FaithfulLog
    <2>1. k - 1 \in 0..Len(l)
      BY <1>1
    <2>2. SubSeq(m, 1, k - 1) = SubSeq(l, 1, k - 1)
      BY <1>2, <2>1
    <2>3. CASE k = Len(l) + 1
      <3>1. k - 1 = Len(l) /\ m[k] = x
        BY <1>1, <2>3
      <3> QED BY <1>3, <2>2, <3>1
    <2>4. CASE k # Len(l) + 1
      <3>1. k \in (f + 1)..Len(l) /\ k \in 1..Len(l)
        BY <1>1, <2>4
      <3> QED BY <1>1, <2>2, <3>1 DEF FaithfulLog, f
    <2> QED BY <2>3, <2>4
  <1> QED BY <1>4 DEF m

-----------------------------------------------------------------------------
(* Loop states. *)

(* A record with exactly the fields of a loop state. *)
LoopShape(s) ==
    s \in [ turn : {s.turn}, toolCalls : {s.toolCalls}, operations : {s.operations},
            available : {s.available}, delivered : {s.delivered},
            turnInputs : {s.turnInputs}, callModel : {s.callModel}, grace : {s.grace},
            graceCalls : {s.graceCalls}, effort : {s.effort}, builder : {s.builder} ]

IsLoopState(s) ==
    /\ LoopShape(s)
    /\ s.available \in Nat /\ s.delivered \in Nat /\ s.turnInputs \in Nat
    /\ s.callModel \in BOOLEAN /\ s.grace \in BOOLEAN
    /\ IsMap(s.toolCalls) /\ IsMap(s.operations)

(* Two loop states agree on all that a restart restores from the items. *)
Agree(s, t) ==
    /\ s.turn = t.turn /\ s.toolCalls = t.toolCalls
    /\ s.available = t.available /\ s.delivered = t.delivered
    /\ s.turnInputs = t.turnInputs /\ s.effort = t.effort /\ s.builder = t.builder

-----------------------------------------------------------------------------
(* clearToolGrace touches the grace period only (loop.go:256-259). *)
LEMMA ClearToolGraceFacts ==
    ASSUME NEW s, IsLoopState(s)
    PROVE  /\ IsLoopState(ClearToolGrace(s))
           /\ Agree(ClearToolGrace(s), s)
           /\ ClearToolGrace(s).operations = s.operations
           /\ ClearToolGrace(s).callModel = s.callModel
  <1>1. LoopShape(ClearToolGrace(s))
    BY DEF IsLoopState, LoopShape, ClearToolGrace
  <1>2. /\ Agree(ClearToolGrace(s), s)
        /\ ClearToolGrace(s).operations = s.operations
        /\ ClearToolGrace(s).callModel = s.callModel
        /\ ClearToolGrace(s).grace = FALSE
    BY DEF IsLoopState, LoopShape, ClearToolGrace, Agree
  <1> QED BY <1>1, <1>2 DEF IsLoopState, Agree

(* addOperationToLocalState touches the operations only (loop.go:756-761). *)
LEMMA AddOperationsFacts ==
    ASSUME NEW s, IsLoopState(s), NEW ops
    PROVE  /\ IsLoopState(AddOperations(s, ops))
           /\ Agree(AddOperations(s, ops), s)
           /\ AddOperations(s, ops).operations = Override(ops, s.operations)
           /\ AddOperations(s, ops).callModel = s.callModel
  <1>1. LoopShape(AddOperations(s, ops))
    BY DEF IsLoopState, LoopShape, AddOperations
  <1>2. /\ Agree(AddOperations(s, ops), s)
        /\ AddOperations(s, ops).operations = Override(ops, s.operations)
        /\ AddOperations(s, ops).callModel = s.callModel
        /\ AddOperations(s, ops).grace = s.grace
    BY DEF IsLoopState, LoopShape, AddOperations, Agree
  <1>3. IsMap(Override(ops, s.operations))
    BY OverrideFacts
  <1> QED BY <1>1, <1>2, <1>3 DEF IsLoopState, Agree

-----------------------------------------------------------------------------
(* Inputs add a message to the context and count, or change the settings,  *)
(* or do nothing (loop.go:557-587).                                        *)
LEMMA AddInputFacts ==
    ASSUME NEW s, IsLoopState(s), NEW r, r.type = "input"
    PROVE  /\ IsLoopState(AddItem(s, r))
           /\ AddItem(s, r).turn = s.turn
           /\ AddItem(s, r).toolCalls = s.toolCalls
           /\ AddItem(s, r).operations = s.operations
           /\ AddItem(s, r).delivered = s.delivered
           /\ AddItem(s, r).turnInputs = s.turnInputs
           /\ AddItem(s, r).available =
                IF r.kind \in {"external", "heartbeat"} THEN s.available + 1 ELSE s.available
           /\ AddItem(s, r).builder =
                IF r.kind \in {"external", "heartbeat"}
                  THEN AddMessage(s.builder, r.id) ELSE s.builder
           /\ AddItem(s, r).callModel = s.callModel
           /\ \A t : IsLoopState(t) /\ Agree(s, t) => Agree(AddItem(s, r), AddItem(t, r))
  <1>1. \A t : AddItem(t, r) = AddInput(t, r)
    BY DEF AddItem
  <1>2. ASSUME NEW t, IsLoopState(t)
        PROVE  /\ IsLoopState(AddInput(t, r))
               /\ AddInput(t, r).turn = t.turn
               /\ AddInput(t, r).toolCalls = t.toolCalls
               /\ AddInput(t, r).operations = t.operations
               /\ AddInput(t, r).delivered = t.delivered
               /\ AddInput(t, r).callModel = t.callModel
               /\ AddInput(t, r).turnInputs = t.turnInputs
               /\ AddInput(t, r).available =
                    IF r.kind \in {"external", "heartbeat"} THEN t.available + 1 ELSE t.available
               /\ AddInput(t, r).builder =
                    IF r.kind \in {"external", "heartbeat"}
                      THEN AddMessage(t.builder, r.id) ELSE t.builder
               /\ AddInput(t, r).effort =
                    IF r.kind = "settings" THEN r.id ELSE t.effort
    <2>1. CASE r.kind \in {"external", "heartbeat"}
      <3> DEFINE u == [t EXCEPT !.builder = AddMessage(t.builder, r.id),
                                !.available = t.available + 1]
      <3>1. AddInput(t, r) = u
        BY <2>1 DEF AddInput
      <3>2. LoopShape(u)
        BY <1>2 DEF IsLoopState, LoopShape
      <3>3. /\ u.turn = t.turn /\ u.toolCalls = t.toolCalls
            /\ u.operations = t.operations /\ u.available = t.available + 1
            /\ u.delivered = t.delivered /\ u.turnInputs = t.turnInputs
            /\ u.callModel = t.callModel /\ u.grace = t.grace
            /\ u.builder = AddMessage(t.builder, r.id) /\ u.effort = t.effort
        BY <1>2 DEF IsLoopState, LoopShape
      <3> HIDE DEF u
      <3>4. r.kind # "settings"
        BY <2>1
      <3> QED BY <1>2, <2>1, <3>1, <3>2, <3>3, <3>4 DEF IsLoopState
    <2>2. CASE r.kind = "settings"
      <3>1. AddInput(t, r) = [t EXCEPT !.effort = r.id]
        BY <2>2 DEF AddInput
      <3>2. LoopShape([t EXCEPT !.effort = r.id])
        BY <1>2 DEF IsLoopState, LoopShape
      <3>3. LET u == [t EXCEPT !.effort = r.id]
            IN /\ u.turn = t.turn /\ u.toolCalls = t.toolCalls
               /\ u.operations = t.operations /\ u.available = t.available
               /\ u.delivered = t.delivered /\ u.turnInputs = t.turnInputs
               /\ u.callModel = t.callModel /\ u.grace = t.grace
               /\ u.builder = t.builder /\ u.effort = r.id
        BY <1>2 DEF IsLoopState, LoopShape
      <3> QED BY <1>2, <2>2, <3>1, <3>2, <3>3 DEF IsLoopState
    <2>3. CASE r.kind \notin {"external", "heartbeat", "settings"}
      BY <1>2, <2>3 DEF AddInput
    <2> QED BY <2>1, <2>2, <2>3
  <1>3. ASSUME NEW t, IsLoopState(t), Agree(s, t)
        PROVE  Agree(AddInput(s, r), AddInput(t, r))
    BY <1>2, <1>3 DEF Agree
  <1> QED BY <1>1, <1>2, <1>3

(* A turn commits the context (loop.go:589-600). *)
LEMMA AddTurnFacts ==
    ASSUME NEW s, IsLoopState(s), NEW r, r.type = "turn"
    PROVE  /\ IsLoopState(AddItem(s, r))
           /\ AddItem(s, r).turn = r.turn
           /\ AddItem(s, r).toolCalls = s.toolCalls
           /\ AddItem(s, r).operations = s.operations
           /\ AddItem(s, r).available = s.available
           /\ AddItem(s, r).delivered = s.delivered
           /\ AddItem(s, r).turnInputs = s.available
           /\ AddItem(s, r).builder = Commit(s.builder)
           /\ AddItem(s, r).callModel = s.callModel
           /\ \A t : IsLoopState(t) /\ Agree(s, t) => Agree(AddItem(s, r), AddItem(t, r))
  <1>1. \A t : AddItem(t, r) = AddTurn(t, r)
    BY DEF AddItem
  <1>2. ASSUME NEW t, IsLoopState(t)
        PROVE  /\ IsLoopState(AddTurn(t, r))
               /\ AddTurn(t, r).turn = r.turn
               /\ AddTurn(t, r).toolCalls = t.toolCalls
               /\ AddTurn(t, r).operations = t.operations
               /\ AddTurn(t, r).available = t.available
               /\ AddTurn(t, r).delivered = t.delivered
               /\ AddTurn(t, r).turnInputs = t.available
               /\ AddTurn(t, r).effort = t.effort
               /\ AddTurn(t, r).builder = Commit(t.builder)
               /\ AddTurn(t, r).callModel = t.callModel
    BY <1>2 DEF AddTurn, IsLoopState, LoopShape
  <1>3. ASSUME NEW t, IsLoopState(t), Agree(s, t)
        PROVE  Agree(AddTurn(s, r), AddTurn(t, r))
    BY <1>2, <1>3 DEF Agree
  <1> QED BY <1>1, <1>2, <1>3

(* A response adds its tool calls, untranslated, to the unfinished ones    *)
(* (loop.go:602-618, 643-657).                                             *)
FreshCalls(r) ==
    [k \in {<<r.turn, call>> : call \in r.calls} |-> [translated |-> FALSE, waits |-> {}]]

(* The unfinished calls, and the inputs delivered, after a response. *)
LEMMA AddResponseFacts ==
    ASSUME NEW s, IsLoopState(s), NEW r, r.type = "response"
    PROVE  /\ IsLoopState(AddItem(s, r))
           /\ AddItem(s, r).turn = s.turn
           /\ AddItem(s, r).toolCalls = Override(FreshCalls(r), s.toolCalls)
           /\ AddItem(s, r).operations = s.operations
           /\ AddItem(s, r).available = s.available
           /\ AddItem(s, r).delivered = IF r.turn = s.turn THEN s.turnInputs ELSE s.delivered
           /\ AddItem(s, r).turnInputs = s.turnInputs
           /\ AddItem(s, r).builder = AddModelResponse(s.builder, r.turn)
           /\ AddItem(s, r).callModel = s.callModel
           /\ \A t : IsLoopState(t) /\ Agree(s, t) => Agree(AddItem(s, r), AddItem(t, r))
  <1>1. \A t : AddItem(t, r) = AddResponse(t, r)
    BY DEF AddItem
  <1>2. ASSUME NEW t, IsLoopState(t)
        PROVE  /\ IsLoopState(AddResponse(t, r))
               /\ AddResponse(t, r).turn = t.turn
               /\ AddResponse(t, r).toolCalls = Override(FreshCalls(r), t.toolCalls)
               /\ AddResponse(t, r).operations = t.operations
               /\ AddResponse(t, r).available = t.available
               /\ AddResponse(t, r).delivered =
                    IF r.turn = t.turn THEN t.turnInputs ELSE t.delivered
               /\ AddResponse(t, r).turnInputs = t.turnInputs
               /\ AddResponse(t, r).callModel = t.callModel
               /\ AddResponse(t, r).effort = t.effort
               /\ AddResponse(t, r).builder = AddModelResponse(t.builder, r.turn)
    <2> DEFINE u == [t EXCEPT !.builder = AddModelResponse(t.builder, r.turn),
                              !.delivered = IF r.turn = t.turn THEN t.turnInputs ELSE t.delivered]
               v == [u EXCEPT !.toolCalls = Override(FreshCalls(r), u.toolCalls)]
    <2>1. AddResponse(t, r) = v
      BY DEF AddResponse, AddToolCalls, FreshCalls
    <2>2. LoopShape(u)
      BY <1>2 DEF IsLoopState, LoopShape
    <2>3. /\ u.turn = t.turn /\ u.toolCalls = t.toolCalls
          /\ u.operations = t.operations /\ u.available = t.available
          /\ u.delivered = IF r.turn = t.turn THEN t.turnInputs ELSE t.delivered
          /\ u.turnInputs = t.turnInputs
          /\ u.callModel = t.callModel /\ u.grace = t.grace
          /\ u.builder = AddModelResponse(t.builder, r.turn) /\ u.effort = t.effort
      BY <1>2 DEF IsLoopState, LoopShape
    <2> HIDE DEF u
    <2>4. LoopShape(v)
      BY <2>2 DEF LoopShape
    <2>5. /\ v.turn = u.turn /\ v.toolCalls = Override(FreshCalls(r), u.toolCalls)
          /\ v.operations = u.operations /\ v.available = u.available
          /\ v.delivered = u.delivered /\ v.turnInputs = u.turnInputs
          /\ v.callModel = u.callModel /\ v.grace = u.grace
          /\ v.builder = u.builder /\ v.effort = u.effort
      BY <2>2 DEF LoopShape
    <2> HIDE DEF v
    <2>6. IsMap(Override(FreshCalls(r), u.toolCalls))
      BY OverrideFacts
    <2> QED BY <1>2, <2>1, <2>3, <2>4, <2>5, <2>6 DEF IsLoopState
  <1>3. ASSUME NEW t, IsLoopState(t), Agree(s, t)
        PROVE  Agree(AddResponse(s, r), AddResponse(t, r))
    BY <1>2, <1>3 DEF Agree
  <1> QED BY <1>1, <1>2, <1>3

-----------------------------------------------------------------------------
(* A status whose call is unfinished here.  `Given` is the unfinished      *)
(* calls once the status is noted, `Known` the operations.                 *)
Given(calls, r) ==
    [calls EXCEPT ![StatusKey(r)] = [translated |-> TRUE, waits |-> @.waits \cup r.waits]]

Known(s, r) == Override(r.ops, s.operations)

AllEnded(s, r) ==
    \A op \in s.toolCalls[StatusKey(r)].waits \cup r.waits :
      op \in DOMAIN Known(s, r) /\ Known(s, r)[op] \in TerminalStatuses

(* The values in `Given`. *)
LEMMA GivenFacts ==
    ASSUME NEW calls, IsMap(calls), NEW r, StatusKey(r) \in DOMAIN calls
    PROVE  /\ IsMap(Given(calls, r))
           /\ DOMAIN Given(calls, r) = DOMAIN calls
           /\ Given(calls, r)[StatusKey(r)].translated = TRUE
           /\ Given(calls, r)[StatusKey(r)].waits = calls[StatusKey(r)].waits \cup r.waits
           /\ \A k \in DOMAIN calls : k # StatusKey(r) => Given(calls, r)[k] = calls[k]
  <1> DEFINE key == StatusKey(r)
             new == [translated |-> TRUE, waits |-> calls[key].waits \cup r.waits]
  <1>1. Given(calls, r) = [calls EXCEPT ![key] = new]
    BY DEF Given
  <1>2. new.translated = TRUE /\ new.waits = calls[key].waits \cup r.waits
    OBVIOUS
  <1>3. key \in DOMAIN calls
    OBVIOUS
  <1> HIDE DEF new, key
  <1>4. [calls EXCEPT ![key] = new] =
          [k \in DOMAIN calls |-> IF k = key THEN new ELSE calls[k]]
    BY DEF IsMap
  <1>5. /\ DOMAIN Given(calls, r) = DOMAIN calls
        /\ Given(calls, r)[key] = new
        /\ \A k \in DOMAIN calls : k # key => Given(calls, r)[k] = calls[k]
        /\ IsMap(Given(calls, r))
    BY <1>1, <1>3, <1>4 DEF IsMap
  <1> QED BY <1>2, <1>5 DEF key

(* Removing a key from a map. *)
LEMMA WithoutFacts ==
    ASSUME NEW f, NEW x
    PROVE  /\ IsMap(Without(f, x))
           /\ DOMAIN Without(f, x) = DOMAIN f \ {x}
           /\ \A y \in DOMAIN f \ {x} : Without(f, x)[y] = f[y]
  BY DEF Without, IsMap

(* addToolCallOperationsToLocalState (loop.go:659-678). *)
LEMMA AddToolCallOperationsFacts ==
    ASSUME NEW s, IsLoopState(s), NEW r, StatusKey(r) \in DOMAIN s.toolCalls
    PROVE  LET t == AddToolCallOperations(s, r)
           IN /\ IsLoopState(t)
              /\ t.toolCalls = Given(s.toolCalls, r)
              /\ t.turn = s.turn /\ t.operations = s.operations
              /\ t.available = s.available /\ t.delivered = s.delivered
              /\ t.turnInputs = s.turnInputs /\ t.effort = s.effort
              /\ t.builder = s.builder /\ t.callModel = s.callModel
  <1> DEFINE t == [s EXCEPT !.toolCalls = Given(s.toolCalls, r)]
  <1>1. AddToolCallOperations(s, r) = t
    BY DEF AddToolCallOperations, Given
  <1>2. LoopShape(t)
    BY DEF IsLoopState, LoopShape
  <1>3. /\ t.toolCalls = Given(s.toolCalls, r)
        /\ t.turn = s.turn /\ t.operations = s.operations
        /\ t.available = s.available /\ t.delivered = s.delivered
        /\ t.turnInputs = s.turnInputs /\ t.effort = s.effort
        /\ t.builder = s.builder /\ t.callModel = s.callModel /\ t.grace = s.grace
    BY DEF IsLoopState, LoopShape
  <1> HIDE DEF t
  <1>4. IsMap(Given(s.toolCalls, r))
    BY GivenFacts DEF IsLoopState
  <1>5. IsLoopState(t)
    BY <1>2, <1>3, <1>4 DEF IsLoopState
  <1> QED BY <1>1, <1>3, <1>5

(* finishToolCall (loop.go:680-691). *)
LEMMA FinishToolCallFacts ==
    ASSUME NEW s, IsLoopState(s), NEW key
    PROVE  LET t == FinishToolCall(s, key)
           IN /\ IsLoopState(t)
              /\ t.toolCalls = Without(s.toolCalls, key)
              /\ t.turn = s.turn /\ t.operations = s.operations
              /\ t.available = s.available + 1 /\ t.delivered = s.delivered
              /\ t.turnInputs = s.turnInputs /\ t.effort = s.effort
              /\ t.builder = s.builder /\ t.callModel = s.callModel
  <1> DEFINE left == s.graceCalls \ {key}
             t == [s EXCEPT !.toolCalls = Without(s.toolCalls, key), !.graceCalls = left,
                            !.grace = s.grace /\ left # {}, !.available = s.available + 1]
  <1>1. FinishToolCall(s, key) = t
    BY DEF FinishToolCall
  <1> HIDE DEF left
  <1>2. LoopShape(t)
    BY DEF IsLoopState, LoopShape
  <1>3. /\ t.toolCalls = Without(s.toolCalls, key)
        /\ t.turn = s.turn /\ t.operations = s.operations
        /\ t.available = s.available + 1 /\ t.delivered = s.delivered
        /\ t.turnInputs = s.turnInputs /\ t.effort = s.effort
        /\ t.builder = s.builder /\ t.callModel = s.callModel
    BY DEF IsLoopState, LoopShape
  <1>4. t.grace \in BOOLEAN
    BY DEF IsLoopState, LoopShape
  <1> HIDE DEF t
  <1>5. IsMap(Without(s.toolCalls, key))
    BY WithoutFacts
  <1>6. IsLoopState(t)
    BY <1>2, <1>3, <1>4, <1>5 DEF IsLoopState
  <1> QED BY <1>1, <1>3, <1>6

(* A status of an unfinished call (loop.go:620-634, 710-754): the call is  *)
(* finished when all its operations have ended, and only then.             *)
LEMMA AddStatusFacts ==
    ASSUME NEW s, IsLoopState(s), NEW r, r.type = "status",
           StatusKey(r) \in DOMAIN s.toolCalls, r.waits \subseteq DOMAIN Known(s, r)
    PROVE  LET t == AddItem(s, r)
           IN /\ IsLoopState(t)
              /\ t.turn = s.turn /\ t.operations = Known(s, r)
              /\ t.delivered = s.delivered /\ t.turnInputs = s.turnInputs
              /\ t.effort = s.effort /\ t.callModel = s.callModel
              /\ t.builder = AddToolResult(s.builder, StatusKey(r), ~AllEnded(s, r))
              /\ AllEnded(s, r) =>
                   /\ t.toolCalls = Without(Given(s.toolCalls, r), StatusKey(r))
                   /\ t.available = s.available + 1
              /\ ~AllEnded(s, r) =>
                   /\ t.toolCalls = Given(s.toolCalls, r)
                   /\ t.available = s.available
  <1> DEFINE key == StatusKey(r)
             a == AddOperations(s, r.ops)
             b == AddToolCallOperations(a, r)
             c == [b EXCEPT !.builder = AddToolResult(b.builder, key, ~CallIsTerminal(b, key))]
  <1>1. /\ IsLoopState(a) /\ Agree(a, s) /\ a.operations = Known(s, r)
        /\ a.callModel = s.callModel
    BY AddOperationsFacts DEF Known
  <1>2. key \in DOMAIN a.toolCalls
    BY <1>1 DEF Agree
  <1>3. /\ IsLoopState(b)
        /\ b.toolCalls = Given(s.toolCalls, r)
        /\ b.turn = s.turn /\ b.operations = Known(s, r)
        /\ b.available = s.available /\ b.delivered = s.delivered
        /\ b.turnInputs = s.turnInputs /\ b.effort = s.effort
        /\ b.builder = s.builder /\ b.callModel = s.callModel
    BY <1>1, <1>2, AddToolCallOperationsFacts DEF Agree
  <1>4. /\ key \in DOMAIN b.toolCalls
        /\ b.toolCalls[key].waits = s.toolCalls[key].waits \cup r.waits
    <2>1. IsMap(s.toolCalls)
      BY DEF IsLoopState
    <2>2. /\ DOMAIN Given(s.toolCalls, r) = DOMAIN s.toolCalls
          /\ Given(s.toolCalls, r)[StatusKey(r)].waits =
               s.toolCalls[StatusKey(r)].waits \cup r.waits
      BY <2>1, GivenFacts
    <2> HIDE DEF b
    <2> QED BY <1>3, <2>2
  <1>5. CallIsTerminal(b, key) <=> AllEnded(s, r)
    BY <1>3, <1>4 DEF CallIsTerminal, IsTerminal, AllEnded
  <1>6. AddItem(s, r) = AddToolResultFor(b, r)
    BY DEF AddItem, AddStatus
  <1>7. AddToolResultFor(b, r) = IF CallIsTerminal(b, key) THEN FinishToolCall(c, key) ELSE c
    BY <1>3, <1>4 DEF AddToolResultFor
  <1>8. /\ IsLoopState(c)
        /\ c.toolCalls = b.toolCalls /\ c.turn = b.turn /\ c.operations = b.operations
        /\ c.available = b.available /\ c.delivered = b.delivered
        /\ c.turnInputs = b.turnInputs /\ c.effort = b.effort
        /\ c.builder = AddToolResult(b.builder, key, ~CallIsTerminal(b, key))
        /\ c.callModel = b.callModel
    <2> HIDE DEF b
    <2>1. LoopShape(c)
      BY <1>3 DEF IsLoopState, LoopShape
    <2>2. /\ c.toolCalls = b.toolCalls /\ c.turn = b.turn /\ c.operations = b.operations
          /\ c.available = b.available /\ c.delivered = b.delivered
          /\ c.turnInputs = b.turnInputs /\ c.effort = b.effort
          /\ c.builder = AddToolResult(b.builder, key, ~CallIsTerminal(b, key))
          /\ c.callModel = b.callModel /\ c.grace = b.grace
      BY <1>3 DEF IsLoopState, LoopShape
    <2> HIDE DEF c
    <2> QED BY <1>3, <2>1, <2>2 DEF IsLoopState
  <1> HIDE DEF c, b, a
  <1>9. (~CallIsTerminal(b, key)) = (~AllEnded(s, r))
    BY <1>5 DEF CallIsTerminal, AllEnded
  <1>10. c.builder = AddToolResult(s.builder, key, ~AllEnded(s, r))
    BY <1>3, <1>8, <1>9
  <1>11. CASE AllEnded(s, r)
    <2>1. AddItem(s, r) = FinishToolCall(c, key)
      BY <1>5, <1>6, <1>7, <1>11
    <2> QED BY <1>3, <1>8, <1>10, <1>11, <2>1, FinishToolCallFacts
  <1>12. CASE ~AllEnded(s, r)
    <2>1. AddItem(s, r) = c
      BY <1>5, <1>6, <1>7, <1>12
    <2> QED BY <1>3, <1>8, <1>10, <1>12, <2>1
  <1> QED BY <1>11, <1>12

(* What is left of the unfinished calls after a status. *)
LEMMA AddStatusCalls ==
    ASSUME NEW s, IsLoopState(s), NEW r, r.type = "status",
           StatusKey(r) \in DOMAIN s.toolCalls, r.waits \subseteq DOMAIN Known(s, r)
    PROVE  LET new == AddItem(s, r).toolCalls
               key == StatusKey(r)
           IN /\ DOMAIN new \subseteq DOMAIN s.toolCalls
              /\ \A k \in DOMAIN new : k # key => new[k] = s.toolCalls[k]
              /\ key \in DOMAIN new =>
                   /\ ~AllEnded(s, r)
                   /\ new[key].translated = TRUE
                   /\ new[key].waits = s.toolCalls[key].waits \cup r.waits
  <1> DEFINE new == AddItem(s, r).toolCalls
             key == StatusKey(r)
             given == Given(s.toolCalls, r)
  <1>1. /\ AllEnded(s, r) => new = Without(given, key)
        /\ ~AllEnded(s, r) => new = given
    BY AddStatusFacts
  <1>2. IsMap(s.toolCalls)
    BY DEF IsLoopState
  <1>3. /\ DOMAIN given = DOMAIN s.toolCalls
        /\ given[key].translated = TRUE
        /\ given[key].waits = s.toolCalls[key].waits \cup r.waits
        /\ \A k \in DOMAIN s.toolCalls : k # key => given[k] = s.toolCalls[k]
    BY <1>2, GivenFacts
  <1> HIDE DEF new, key, given
  <1>4. CASE AllEnded(s, r)
    BY <1>1, <1>3, <1>4 DEF new, key, Without
  <1>5. CASE ~AllEnded(s, r)
    BY <1>1, <1>3, <1>5 DEF new, key
  <1> QED BY <1>4, <1>5

(* Two states that agree, in memory and replayed, still agree after a      *)
(* status that carries all operations of its call.                         *)
LEMMA AddStatusAgree ==
    ASSUME NEW s, IsLoopState(s), NEW t, IsLoopState(t), Agree(s, t),
           NEW r, r.type = "status", StatusKey(r) \in DOMAIN s.toolCalls,
           r.waits \subseteq DOMAIN r.ops,
           s.toolCalls[StatusKey(r)].waits \subseteq DOMAIN r.ops
    PROVE  /\ Agree(AddItem(s, r), AddItem(t, r))
           /\ AllEnded(s, r) <=>
                \A op \in s.toolCalls[StatusKey(r)].waits \cup r.waits :
                  r.ops[op] \in TerminalStatuses
           /\ AllEnded(t, r) <=> AllEnded(s, r)
  <1> DEFINE waits == s.toolCalls[StatusKey(r)].waits \cup r.waits
  <1>1. /\ t.toolCalls = s.toolCalls /\ t.available = s.available
        /\ t.builder = s.builder /\ t.turn = s.turn /\ t.delivered = s.delivered
        /\ t.turnInputs = s.turnInputs /\ t.effort = s.effort
    BY DEF Agree
  <1>2. ASSUME NEW u
        PROVE  \A op \in waits : op \in DOMAIN Known(u, r) /\ Known(u, r)[op] = r.ops[op]
    <2>1. /\ DOMAIN Known(u, r) = DOMAIN r.ops \cup DOMAIN u.operations
          /\ \A op \in DOMAIN r.ops : Known(u, r)[op] = r.ops[op]
      BY OverrideFacts DEF Known
    <2>2. waits \subseteq DOMAIN r.ops
      OBVIOUS
    <2> QED BY <2>1, <2>2
  <1>3. AllEnded(s, r) <=> \A op \in waits : r.ops[op] \in TerminalStatuses
    BY <1>2 DEF AllEnded
  <1>4. AllEnded(t, r) <=> \A op \in waits : r.ops[op] \in TerminalStatuses
    BY <1>1, <1>2 DEF AllEnded
  <1>5. r.waits \subseteq DOMAIN Known(s, r) /\ r.waits \subseteq DOMAIN Known(t, r)
    BY <1>2
  <1>6. (~AllEnded(s, r)) = (~AllEnded(t, r))
    BY <1>3, <1>4 DEF AllEnded
  <1> DEFINE S == AddItem(s, r)
             T == AddItem(t, r)
  <1>7. /\ S.turn = s.turn /\ S.delivered = s.delivered /\ S.turnInputs = s.turnInputs
        /\ S.effort = s.effort
        /\ S.builder = AddToolResult(s.builder, StatusKey(r), ~AllEnded(s, r))
        /\ AllEnded(s, r) => /\ S.toolCalls = Without(Given(s.toolCalls, r), StatusKey(r))
                             /\ S.available = s.available + 1
        /\ ~AllEnded(s, r) => S.toolCalls = Given(s.toolCalls, r) /\ S.available = s.available
    BY <1>5, AddStatusFacts
  <1>8. /\ T.turn = t.turn /\ T.delivered = t.delivered /\ T.turnInputs = t.turnInputs
        /\ T.effort = t.effort
        /\ T.builder = AddToolResult(t.builder, StatusKey(r), ~AllEnded(t, r))
        /\ AllEnded(t, r) => /\ T.toolCalls = Without(Given(t.toolCalls, r), StatusKey(r))
                             /\ T.available = t.available + 1
        /\ ~AllEnded(t, r) => T.toolCalls = Given(t.toolCalls, r) /\ T.available = t.available
    BY <1>1, <1>5, AddStatusFacts
  <1> HIDE DEF S, T
  <1>9. S.builder = T.builder
    BY <1>1, <1>6, <1>7, <1>8
  <1>10. Agree(S, T)
    BY <1>1, <1>3, <1>4, <1>7, <1>8, <1>9 DEF Agree
  <1> QED BY <1>3, <1>4, <1>10 DEF S, T

(* Whether and when the model is to be called next is not on record. *)
LEMMA SetCallModelFacts ==
    ASSUME NEW s, IsLoopState(s), NEW b \in BOOLEAN
    PROVE  LET t == [s EXCEPT !.callModel = b]
           IN IsLoopState(t) /\ Agree(t, s) /\ t.operations = s.operations /\ t.callModel = b
  <1> DEFINE t == [s EXCEPT !.callModel = b]
  <1>1. LoopShape(t)
    BY DEF IsLoopState, LoopShape
  <1>2. /\ Agree(t, s) /\ t.operations = s.operations
        /\ t.callModel = b /\ t.grace = s.grace
    BY DEF IsLoopState, LoopShape, Agree
  <1> HIDE DEF t
  <1>3. IsLoopState(t)
    BY <1>1, <1>2 DEF IsLoopState, Agree
  <1> QED BY <1>2, <1>3 DEF t

(* Nor is the grace period of the tools. *)
LEMMA SetToolGraceFacts ==
    ASSUME NEW s, IsLoopState(s), NEW calls
    PROVE  LET t == [s EXCEPT !.callModel = FALSE, !.grace = TRUE, !.graceCalls = calls]
           IN /\ IsLoopState(t) /\ Agree(t, s) /\ t.operations = s.operations
              /\ t.callModel = FALSE
  <1> DEFINE t == [s EXCEPT !.callModel = FALSE, !.grace = TRUE, !.graceCalls = calls]
  <1>1. LoopShape(t)
    BY DEF IsLoopState, LoopShape
  <1>2. /\ Agree(t, s) /\ t.operations = s.operations
        /\ t.callModel = FALSE /\ t.grace = TRUE
    BY DEF IsLoopState, LoopShape, Agree
  <1> HIDE DEF t
  <1>3. IsLoopState(t)
    BY <1>1, <1>2 DEF IsLoopState, Agree
  <1> QED BY <1>2, <1>3 DEF t

-----------------------------------------------------------------------------
(* Reading a log back. *)

Replayed(items) == FoldLeft(Replay, NewLoopState, items)

Replays == INSTANCE FoldInduction WITH Op <- Replay

(* The loop state, item by item (loop.go:496-521). *)
LEMMA ReplaysFold ==
    /\ Replayed(<< >>) = NewLoopState
    /\ \A l, x : IsSequence(l) => Replayed(Append(l, x)) = Replay(Replayed(l), x)
  <1>1. \A l : Replays!Fold(NewLoopState, l) = Replayed(l)
    BY Zenon DEF Replayed, Replays!Fold, FoldLeft, Replays!FoldLeft, MapThenFoldSet,
                 Replays!MapThenFoldSet, Max, Replays!Max
  <1>2. ASSUME NEW l, NEW x, IsSequence(l)
        PROVE  Replays!Fold(NewLoopState, Append(l, x)) = Replay(Replays!Fold(NewLoopState, l), x)
    <2> DEFINE T == Elements(l) \cup {x}
    <2>1. l \in Seq(T) /\ x \in T
      BY <1>2, AppendTyped
    <2> HIDE DEF T
    <2> QED BY <2>1, Replays!FoldAppend
  <1> QED BY <1>1, <1>2, Replays!FoldEmpty

-----------------------------------------------------------------------------
(* What any item does to the counters and to the context. *)

SameCounts(s, t) ==
    /\ t.available = s.available /\ t.delivered = s.delivered /\ t.turnInputs = s.turnInputs

SameContext(s, t) == SameCounts(s, t) /\ t.builder = s.builder

(* A placeholder, or the final result, of a call. *)
Placeholder(key) == Entry("result", key, TRUE)

Final(key) == Entry("result", key, FALSE)

Shown(b, key) == AddToolResult(b, key, TRUE)

Settled(b, key) == AddToolResult(b, key, FALSE)

CountsOneMore(s, t) ==
    /\ t.available = s.available + 1
    /\ t.delivered = s.delivered /\ t.turnInputs = s.turnInputs

(* The point of a fork: calls and operations are gone. *)
LEMMA AddForkFacts ==
    ASSUME NEW s, IsLoopState(s), NEW r, r.type = "fork"
    PROVE  LET t == AddItem(s, r)
           IN /\ IsLoopState(t) /\ SameContext(s, t) /\ t.turn = s.turn /\ t.callModel = s.callModel
              /\ DOMAIN t.toolCalls = {}
  <1> DEFINE u == [s EXCEPT !.toolCalls = << >>, !.operations = << >>]
  <1>1. AddItem(s, r) = ClearToolGrace(u)
    BY DEF AddItem, AddFork
  <1>2. LoopShape(u)
    BY DEF IsLoopState, LoopShape
  <1>3. /\ u.toolCalls = << >> /\ u.operations = << >> /\ u.turn = s.turn
        /\ u.callModel = s.callModel /\ u.grace = s.grace /\ u.builder = s.builder
        /\ SameCounts(s, u)
    BY DEF IsLoopState, LoopShape, SameCounts
  <1> HIDE DEF u
  <1>4. IsMap(<< >>) /\ DOMAIN << >> = {}
    BY EmptyMap
  <1>5. IsLoopState(u)
    BY <1>2, <1>3, <1>4 DEF IsLoopState, SameCounts
  <1>6. /\ IsLoopState(ClearToolGrace(u)) /\ Agree(ClearToolGrace(u), u)
        /\ ClearToolGrace(u).callModel = u.callModel
    BY <1>5, ClearToolGraceFacts
  <1> QED BY <1>1, <1>3, <1>4, <1>6 DEF SameContext, SameCounts, Agree

(* A status that gives no result: its call is unknown, as one that was     *)
(* inherited is, or an operation it waits for is.                          *)
LEMMA IgnoredStatus ==
    ASSUME NEW s, IsLoopState(s), NEW r, r.type = "status",
           StatusKey(r) \notin DOMAIN s.toolCalls \/ ~(r.waits \subseteq DOMAIN Known(s, r))
    PROVE  LET t == AddItem(s, r)
           IN /\ IsLoopState(t) /\ SameContext(s, t) /\ t.turn = s.turn /\ t.callModel = s.callModel
              /\ DOMAIN t.toolCalls = DOMAIN s.toolCalls
  <1> DEFINE key == StatusKey(r)
             a == AddOperations(s, r.ops)
             b == AddToolCallOperations(a, r)
  <1>1. /\ IsLoopState(a) /\ Agree(a, s) /\ a.operations = Known(s, r)
        /\ a.callModel = s.callModel
    BY AddOperationsFacts DEF Known
  <1>2. AddItem(s, r) = AddToolResultFor(b, r)
    BY DEF AddItem, AddStatus
  <1> HIDE DEF a
  <1>3. CASE key \notin DOMAIN s.toolCalls
    <2>1. b = a
      BY <1>1, <1>3 DEF AddToolCallOperations, Agree
    <2>2. AddToolResultFor(b, r) = a
      BY <1>1, <1>3, <2>1 DEF AddToolResultFor, Agree
    <2> QED BY <1>1, <1>2, <2>2 DEF SameContext, SameCounts, Agree
  <1>4. CASE key \in DOMAIN s.toolCalls
    <2>1. ~(r.waits \subseteq DOMAIN Known(s, r))
      BY <1>4
    <2>2. /\ IsLoopState(b) /\ b.turn = s.turn /\ b.operations = Known(s, r)
          /\ SameContext(s, b) /\ b.callModel = s.callModel
          /\ b.toolCalls = Given(s.toolCalls, r)
      BY <1>1, <1>4, AddToolCallOperationsFacts DEF SameContext, SameCounts, Agree
    <2> HIDE DEF b
    <2>3. AddToolResultFor(b, r) = b
      BY <2>1, <2>2 DEF AddToolResultFor
    <2>4. DOMAIN Given(s.toolCalls, r) = DOMAIN s.toolCalls
      BY <1>4, GivenFacts DEF IsLoopState
    <2> QED BY <1>2, <2>2, <2>3, <2>4
  <1> QED BY <1>3, <1>4

(* Every status leaves the context alone, or adds a result to it that is   *)
(* counted if it is final.                                                 *)
LEMMA StatusEffects ==
    ASSUME NEW s, IsLoopState(s), NEW r, r.type = "status"
    PROVE  LET t == AddItem(s, r)
           IN /\ IsLoopState(t) /\ t.turn = s.turn /\ t.callModel = s.callModel
              /\ \/ SameContext(s, t)
                 \/ /\ SameCounts(s, t)
                    /\ t.builder = Shown(s.builder, StatusKey(r))
                 \/ /\ CountsOneMore(s, t)
                    /\ t.builder = Settled(s.builder, StatusKey(r))
  <1> DEFINE t == AddItem(s, r)
             key == StatusKey(r)
  <1>1. CASE key \notin DOMAIN s.toolCalls \/ ~(r.waits \subseteq DOMAIN Known(s, r))
    BY <1>1, IgnoredStatus
  <1>2. CASE key \in DOMAIN s.toolCalls /\ r.waits \subseteq DOMAIN Known(s, r)
    <2>1. /\ IsLoopState(t) /\ t.turn = s.turn /\ t.callModel = s.callModel
          /\ t.delivered = s.delivered /\ t.turnInputs = s.turnInputs
          /\ t.builder = AddToolResult(s.builder, key, ~AllEnded(s, r))
          /\ AllEnded(s, r) => t.available = s.available + 1
          /\ ~AllEnded(s, r) => t.available = s.available
      BY <1>2, AddStatusFacts
    <2> HIDE DEF t
    <2>2. CASE AllEnded(s, r)
      <3>1. (~AllEnded(s, r)) = FALSE
        BY <2>2 DEF AllEnded
      <3>2. t.builder = Settled(s.builder, key)
        BY <2>1, <3>1 DEF Settled
      <3> QED BY <2>1, <2>2, <3>2 DEF CountsOneMore, t
    <2>3. CASE ~AllEnded(s, r)
      <3>1. (~AllEnded(s, r)) = TRUE
        BY <2>3 DEF AllEnded
      <3>2. t.builder = Shown(s.builder, key)
        BY <2>1, <3>1 DEF Shown
      <3> QED BY <2>1, <2>3, <3>2 DEF SameCounts, t
    <2> QED BY <2>2, <2>3
  <1> QED BY <1>1, <1>2

-----------------------------------------------------------------------------
(* Contexts: what is dropped from one, and what is counted in it. *)

Drops == INSTANCE FoldInduction WITH Op <- KeepOther

Dropping(entries, entry) ==
    FoldLeft(KeepOther, [dropped |-> entry, kept |-> << >>], entries)

LEMMA DroppingFold ==
    /\ \A e : Dropping(<< >>, e) = [dropped |-> e, kept |-> << >>]
    /\ \A l, x, e : IsSequence(l) => Dropping(Append(l, x), e) = KeepOther(Dropping(l, e), x)
  <1> DEFINE Base(e) == [dropped |-> e, kept |-> << >>]
  <1>1. \A l, e : Drops!Fold(Base(e), l) = Dropping(l, e)
    BY Zenon DEF Dropping, Drops!Fold, FoldLeft, Drops!FoldLeft, MapThenFoldSet,
                 Drops!MapThenFoldSet, Max, Drops!Max
  <1>2. ASSUME NEW l, NEW x, NEW e, IsSequence(l)
        PROVE  Drops!Fold(Base(e), Append(l, x)) = KeepOther(Drops!Fold(Base(e), l), x)
    <2> DEFINE T == Elements(l) \cup {x}
    <2>1. l \in Seq(T) /\ x \in T
      BY <1>2, AppendTyped
    <2> HIDE DEF T, Base
    <2> QED BY <2>1, Drops!FoldAppend
  <1>3. \A e : Drops!Fold(Base(e), << >>) = Base(e)
    <2> HIDE DEF Base
    <2> QED BY Drops!FoldEmpty
  <1> HIDE DEF Base
  <1>4. \A e : Dropping(<< >>, e) = Base(e)
    BY <1>1, <1>3
  <1>5. \A l, x, e : IsSequence(l) => Dropping(Append(l, x), e) = KeepOther(Dropping(l, e), x)
    BY <1>1, <1>2
  <1> QED BY <1>4, <1>5 DEF Base

(* Dropping an entry, entry by entry. *)
LEMMA DropFold ==
    ASSUME NEW e
    PROVE  /\ Drop(<< >>, e) = << >>
           /\ \A l, x : IsSequence(l) =>
                Drop(Append(l, x), e) = IF x = e THEN Drop(l, e) ELSE Append(Drop(l, e), x)
  <1> DEFINE Well(l) == Dropping(l, e) = [dropped |-> e, kept |-> Drop(l, e)]
             S == {n \in Nat : \A l : IsSequence(l) /\ Len(l) = n => Well(l)}
  <1>1. \A l : Drop(l, e) = Dropping(l, e).kept
    BY Zenon DEF Drop, Dropping
  <1>2. ASSUME NEW l, NEW x, IsSequence(l), Well(l)
        PROVE  /\ Drop(Append(l, x), e) = IF x = e THEN Drop(l, e) ELSE Append(Drop(l, e), x)
               /\ Well(Append(l, x))
    <2> DEFINE d == Drop(l, e)
    <2>1. Dropping(Append(l, x), e) = KeepOther([dropped |-> e, kept |-> d], x)
      BY <1>2, DroppingFold
    <2> HIDE DEF d
    <2>2. CASE x = e
      <3>1. KeepOther([dropped |-> e, kept |-> d], x) = [dropped |-> e, kept |-> d]
        BY <2>2 DEF KeepOther
      <3> QED BY <1>1, <2>1, <2>2, <3>1 DEF d
    <2>3. CASE x # e
      <3>1. KeepOther([dropped |-> e, kept |-> d], x) = [dropped |-> e, kept |-> Append(d, x)]
        BY <2>3 DEF KeepOther
      <3> QED BY <1>1, <2>1, <2>3, <3>1 DEF d
    <2> QED BY <2>2, <2>3
  <1>3. Drop(<< >>, e) = << >> /\ Well(<< >>)
    BY <1>1, DroppingFold
  <1> HIDE DEF Well
  <1>4. 0 \in S
    <2> SUFFICES ASSUME NEW l, IsSequence(l), Len(l) = 0 PROVE Well(l)
      OBVIOUS
    <2> QED BY <1>3, LengthZero
  <1>5. ASSUME NEW n \in Nat, n \in S
        PROVE  n + 1 \in S
    <2> SUFFICES ASSUME NEW l, IsSequence(l), Len(l) = n + 1 PROVE Well(l)
      OBVIOUS
    <2>1. IsSequence(SubSeq(l, 1, n)) /\ Len(SubSeq(l, 1, n)) = n /\ l = Append(SubSeq(l, 1, n), l[n + 1])
      BY FrontAndLast
    <2>2. Well(SubSeq(l, 1, n))
      BY <1>5, <2>1
    <2> QED BY <1>2, <2>1, <2>2
  <1>6. \A n \in Nat : n \in S
    <2> HIDE DEF S
    <2> QED BY <1>4, <1>5, Replays!Induction
  <1>7. \A l : IsSequence(l) => Well(l)
    <2> SUFFICES ASSUME NEW l, IsSequence(l) PROVE Well(l)
      OBVIOUS
    <2>1. Len(l) \in Nat
      BY DEF IsSequence
    <2> QED BY <1>6, <2>1
  <1> QED BY <1>2, <1>3, <1>7

(* A statement about sequences that holds of the empty one, and of one     *)
(* more element, holds of all: `C` is the set of those it holds of.        *)
LEMMA SequenceInduction ==
    ASSUME NEW T, NEW C, << >> \in C,
           \A l, x : IsSequence(l) /\ l \in C /\ x \in T => Append(l, x) \in C
    PROVE  \A l \in Seq(T) : l \in C
  <1> DEFINE S == {n \in Nat : \A l \in Seq(T) : Len(l) = n => l \in C}
  <1>1. 0 \in S
    <2> SUFFICES ASSUME NEW l \in Seq(T), Len(l) = 0 PROVE l \in C
      OBVIOUS
    <2>1. l = << >>
      BY SequenceIn, LengthZero
    <2> QED BY <2>1
  <1>2. ASSUME NEW n \in Nat, n \in S
        PROVE  n + 1 \in S
    <2> SUFFICES ASSUME NEW l \in Seq(T), Len(l) = n + 1 PROVE l \in C
      OBVIOUS
    <2>1. IsSequence(l)
      BY SequenceIn
    <2>2. IsSequence(SubSeq(l, 1, n)) /\ Len(SubSeq(l, 1, n)) = n /\ l = Append(SubSeq(l, 1, n), l[n + 1])
      BY <2>1, FrontAndLast
    <2>3. SubSeq(l, 1, n) \in Seq(T) /\ l[n + 1] \in T
      OBVIOUS
    <2>4. SubSeq(l, 1, n) \in C
      BY <1>2, <2>2, <2>3
    <2> QED BY <2>2, <2>3, <2>4
  <1>3. \A n \in Nat : n \in S
    <2> HIDE DEF S
    <2> QED BY <1>1, <1>2, Replays!Induction
  <1> QED BY <1>3

-----------------------------------------------------------------------------
(* Counting in a context. *)

(* How often an entry occurs in a context. *)
Occurs(c, e) == Cardinality({k \in DOMAIN c : c[k] = e})

(* The entries that ask for an answer: those behind the last response that *)
(* are not placeholders.                                                   *)
Owed(c) ==
    {k \in 1..Len(c) : ~c[k].running /\ \A j \in k..Len(c) : c[j].kind # "response"}

OwedCount(c) == Cardinality(Owed(c))

NoResponse(c) == \A k \in 1..Len(c) : c[k].kind # "response"

LEMMA ConcatFacts ==
    ASSUME NEW s, IsSequence(s), NEW t, IsSequence(t)
    PROVE  /\ IsSequence(s \o t) /\ s \o << >> = s
           /\ \A x : s \o Append(t, x) = Append(s \o t, x)
  <1> DEFINE U == Elements(s) \cup Elements(t)
  <1>1. s \in Seq(U) /\ t \in Seq(U)
    <2>1. s \in Seq(Elements(s)) /\ t \in Seq(Elements(t))
      BY DEF IsSequence
    <2> QED BY <2>1
  <1> HIDE DEF U
  <1>2. s \o t \in Seq(U) /\ s \o << >> = s
    BY <1>1
  <1>3. ASSUME NEW x
        PROVE  s \o Append(t, x) = Append(s \o t, x)
    <2> DEFINE V == U \cup {x}
    <2>1. s \in Seq(V) /\ t \in Seq(V) /\ x \in V
      BY <1>1
    <2> HIDE DEF V
    <2> QED BY <2>1
  <1> QED BY <1>2, <1>3, SequenceIn

LEMMA OccursEmpty == \A e : Occurs(<< >>, e) = 0
  <1>1. \A e : {k \in DOMAIN << >> : << >>[k] = e} = {}
    OBVIOUS
  <1> QED BY <1>1, FS_EmptySet DEF Occurs

LEMMA OccursAppend ==
    ASSUME NEW c, IsSequence(c), NEW x, NEW e
    PROVE  /\ Occurs(c, e) \in Nat
           /\ Occurs(Append(c, x), e) = IF x = e THEN Occurs(c, e) + 1 ELSE Occurs(c, e)
  <1> DEFINE n == Len(c)
             m == Append(c, x)
             A == {k \in DOMAIN c : c[k] = e}
             B == {k \in DOMAIN m : m[k] = e}
  <1>1. /\ n \in Nat /\ DOMAIN c = 1..n /\ DOMAIN m = 1..(n + 1)
        /\ m[n + 1] = x /\ \A k \in 1..n : m[k] = c[k]
    BY AppendFacts DEF IsSequence
  <1> HIDE DEF m, n
  <1>2. IsFiniteSet(A) /\ n + 1 \notin A
    <2>1. A \subseteq 1..n
      BY <1>1
    <2>2. IsFiniteSet(1..n)
      BY <1>1, FS_Interval
    <2> HIDE DEF A
    <2>3. IsFiniteSet(A)
      BY <2>1, <2>2, FS_Subset
    <2>4. n + 1 \notin 1..n
      BY <1>1
    <2> QED BY <2>1, <2>3, <2>4
  <1>3. B = IF x = e THEN A \cup {n + 1} ELSE A
    BY <1>1
  <1> HIDE DEF A, B
  <1>4. /\ Cardinality(A) \in Nat
        /\ Cardinality(B) = IF x = e THEN Cardinality(A) + 1 ELSE Cardinality(A)
    BY <1>2, <1>3, FS_CardinalityType, FS_AddElement
  <1> QED BY <1>4 DEF Occurs, A, B, m

LEMMA OwedEmpty == OwedCount(<< >>) = 0
  <1>1. Owed(<< >>) = {}
    BY DEF Owed
  <1> QED BY <1>1, FS_EmptySet DEF OwedCount

LEMMA OwedAppend ==
    ASSUME NEW c, IsSequence(c), NEW x
    PROVE  /\ OwedCount(c) \in Nat
           /\ OwedCount(Append(c, x)) =
                IF x.kind = "response" THEN 0
                ELSE IF x.running THEN OwedCount(c) ELSE OwedCount(c) + 1
  <1> DEFINE n == Len(c)
             m == Append(c, x)
             A == Owed(c)
             B == Owed(m)
  <1>1. /\ n \in Nat /\ Len(m) = n + 1
        /\ m[n + 1] = x /\ \A k \in 1..n : m[k] = c[k]
    BY AppendFacts
  <1> HIDE DEF m, n
  <1>2. IsFiniteSet(A) /\ n + 1 \notin A
    <2>1. A \in SUBSET (1..n) /\ IsFiniteSet(1..n)
      BY <1>1, FS_Interval DEF Owed, n
    <2> QED BY <1>1, <2>1, FS_Subset
  <1>3. CASE x.kind = "response"
    <2>1. B = {}
      BY <1>1, <1>3 DEF Owed
    <2> QED BY <1>2, <1>3, <2>1, FS_CardinalityType, FS_EmptySet DEF OwedCount, m
  <1>4. CASE x.kind # "response"
    <2>1. ASSUME NEW k \in 1..(n + 1)
          PROVE  k \in B <=> (IF k = n + 1 THEN ~x.running ELSE k \in A)
      <3>1. CASE k = n + 1
        BY <1>1, <1>4, <3>1 DEF Owed
      <3>2. CASE k # n + 1
        <4>1. k \in 1..n /\ m[k] = c[k]
          BY <1>1, <3>2
        <4>2. (\A j \in k..(n + 1) : m[j].kind # "response") <=> \A j \in k..n : c[j].kind # "response"
          <5>1. \A j \in k..n : m[j] = c[j]
            BY <1>1, <4>1
          <5>2. \A j : j \in k..(n + 1) <=> j \in k..n \/ j = n + 1
            BY <1>1, <4>1
          <5> QED BY <1>1, <1>4, <5>1, <5>2
        <4> QED BY <1>1, <3>2, <4>1, <4>2 DEF Owed, n
      <3> QED BY <3>1, <3>2
    <2>2. B \subseteq 1..(n + 1) /\ A \subseteq 1..(n + 1)
      BY <1>1 DEF Owed, n
    <2> HIDE DEF A, B
    <2>3. B = IF x.running THEN A ELSE A \cup {n + 1}
      <3>1. \A k : k \in B => k \in 1..(n + 1)
        BY <2>2
      <3>2. \A k : k \in A => k \in 1..(n + 1) /\ k # n + 1
        BY <1>2, <2>2
      <3>3. n + 1 \in 1..(n + 1)
        BY <1>1
      <3>4. \A k : k \in B <=> k \in A \/ (k = n + 1 /\ ~x.running)
        BY <2>1, <3>1, <3>2, <3>3
      <3> QED BY <3>4
    <2>4. /\ Cardinality(A) \in Nat
          /\ Cardinality(B) = IF x.running THEN Cardinality(A) ELSE Cardinality(A) + 1
      BY <1>2, <2>3, FS_CardinalityType, FS_AddElement
    <2> QED BY <1>4, <2>4 DEF OwedCount, A, B, m
  <1> QED BY <1>3, <1>4

LEMMA CountsAreNat ==
    ASSUME NEW c, IsSequence(c)
    PROVE  OwedCount(c) \in Nat /\ \A e : Occurs(c, e) \in Nat
  BY OwedAppend, OccursAppend

LEMMA OccursConcat ==
    ASSUME NEW s, IsSequence(s), NEW t, IsSequence(t), NEW e
    PROVE  Occurs(s \o t, e) = Occurs(s, e) + Occurs(t, e)
  <1> DEFINE T == Elements(t)
             C == {l \in Seq(T) : Occurs(s \o l, e) = Occurs(s, e) + Occurs(l, e)}
  <1>1. << >> \in C
    <2>1. Occurs(s \o << >>, e) = Occurs(s, e) + 0
      BY ConcatFacts, CountsAreNat
    <2> QED BY <2>1, OccursEmpty
  <1>2. ASSUME NEW l, NEW x, IsSequence(l), l \in C, x \in T
        PROVE  Append(l, x) \in C
    <2>1. s \o Append(l, x) = Append(s \o l, x) /\ IsSequence(s \o l)
      BY <1>2, ConcatFacts
    <2>2. Occurs(s \o l, e) = Occurs(s, e) + Occurs(l, e) /\ l \in Seq(T)
      BY <1>2
    <2>3. Append(l, x) \in Seq(T)
      BY <1>2, <2>2
    <2>4. Occurs(Append(s \o l, x), e) = IF x = e THEN Occurs(s \o l, e) + 1 ELSE Occurs(s \o l, e)
      BY <2>1, OccursAppend
    <2>5. Occurs(Append(l, x), e) = IF x = e THEN Occurs(l, e) + 1 ELSE Occurs(l, e)
      BY <1>2, OccursAppend
    <2>6. Occurs(l, e) \in Nat /\ Occurs(s, e) \in Nat
      BY <1>2, CountsAreNat
    <2>7. Occurs(s \o Append(l, x), e) = Occurs(s, e) + Occurs(Append(l, x), e)
      BY <2>1, <2>2, <2>4, <2>5, <2>6
    <2> QED BY <2>3, <2>7
  <1>3. t \in Seq(T)
    BY DEF IsSequence
  <1>4. t \in C
    <2> HIDE DEF C, T
    <2> QED BY <1>1, <1>2, <1>3, SequenceInduction
  <1> QED BY <1>4

LEMMA OwedConcat ==
    ASSUME NEW s, IsSequence(s), NEW t, IsSequence(t), NoResponse(t)
    PROVE  OwedCount(s \o t) = OwedCount(s) + OwedCount(t)
  <1> DEFINE T == Elements(t)
             C == {l \in Seq(T) : OwedCount(s \o l) = OwedCount(s) + OwedCount(l)}
  <1>1. << >> \in C
    <2>1. OwedCount(s \o << >>) = OwedCount(s) + 0
      BY ConcatFacts, CountsAreNat
    <2> QED BY <2>1, OwedEmpty
  <1>2. ASSUME NEW l, NEW x, IsSequence(l), l \in C, x \in T
        PROVE  Append(l, x) \in C
    <2>1. s \o Append(l, x) = Append(s \o l, x) /\ IsSequence(s \o l)
      BY <1>2, ConcatFacts
    <2>2. OwedCount(s \o l) = OwedCount(s) + OwedCount(l) /\ l \in Seq(T)
      BY <1>2
    <2>3. Append(l, x) \in Seq(T) /\ x.kind # "response"
      BY <1>2, <2>2 DEF NoResponse, Elements
    <2>4. OwedCount(Append(s \o l, x)) = IF x.running THEN OwedCount(s \o l) ELSE OwedCount(s \o l) + 1
      BY <2>1, <2>3, OwedAppend
    <2>5. OwedCount(Append(l, x)) = IF x.running THEN OwedCount(l) ELSE OwedCount(l) + 1
      BY <1>2, <2>3, OwedAppend
    <2>6. OwedCount(l) \in Nat /\ OwedCount(s) \in Nat
      BY <1>2, CountsAreNat
    <2>7. OwedCount(s \o Append(l, x)) = OwedCount(s) + OwedCount(Append(l, x))
      BY <2>1, <2>2, <2>4, <2>5, <2>6
    <2> QED BY <2>3, <2>7
  <1>3. t \in Seq(T)
    BY DEF IsSequence
  <1>4. t \in C
    <2> HIDE DEF C, T
    <2> QED BY <1>1, <1>2, <1>3, SequenceInduction
  <1> QED BY <1>4

(* Dropping an entry keeps the number of the others. *)
LEMMA DropFacts ==
    ASSUME NEW t, IsSequence(t), NEW d
    PROVE  /\ IsSequence(Drop(t, d))
           /\ \A e : Occurs(Drop(t, d), e) = IF e = d THEN 0 ELSE Occurs(t, e)
  <1> DEFINE T == Elements(t)
             C == {l \in Seq(T) : /\ IsSequence(Drop(l, d))
                                  /\ \A e : Occurs(Drop(l, d), e) = IF e = d THEN 0 ELSE Occurs(l, e)}
  <1>1. << >> \in C
    BY DropFold, OccursEmpty, EmptyIsSequence
  <1>2. ASSUME NEW l, NEW x, IsSequence(l), l \in C, x \in T
        PROVE  Append(l, x) \in C
    <2>1. /\ IsSequence(Drop(l, d)) /\ l \in Seq(T)
          /\ \A e : Occurs(Drop(l, d), e) = IF e = d THEN 0 ELSE Occurs(l, e)
      BY <1>2
    <2>2. Append(l, x) \in Seq(T)
      BY <1>2, <2>1
    <2>3. Drop(Append(l, x), d) = IF x = d THEN Drop(l, d) ELSE Append(Drop(l, d), x)
      BY <1>2, DropFold
    <2>4. IsSequence(Drop(Append(l, x), d))
      BY <2>1, <2>3, AppendFacts
    <2>5. ASSUME NEW e
          PROVE  Occurs(Drop(Append(l, x), d), e) = IF e = d THEN 0 ELSE Occurs(Append(l, x), e)
      <3>1. Occurs(Append(l, x), e) = IF x = e THEN Occurs(l, e) + 1 ELSE Occurs(l, e)
        BY <1>2, OccursAppend
      <3>2. Occurs(Append(Drop(l, d), x), e) = IF x = e THEN Occurs(Drop(l, d), e) + 1 ELSE Occurs(Drop(l, d), e)
        BY <2>1, OccursAppend
      <3> QED BY <2>1, <2>3, <3>1, <3>2
    <2> QED BY <2>2, <2>4, <2>5
  <1>3. t \in Seq(T)
    BY DEF IsSequence
  <1>4. t \in C
    <2> HIDE DEF C, T
    <2> QED BY <1>1, <1>2, <1>3, SequenceInduction
  <1> QED BY <1>4

(* Dropping a placeholder keeps what is owed. *)
LEMMA DropOwed ==
    ASSUME NEW t, IsSequence(t), NoResponse(t), NEW d, d.running
    PROVE  NoResponse(Drop(t, d)) /\ OwedCount(Drop(t, d)) = OwedCount(t)
  <1> DEFINE T == Elements(t)
             C == {l \in Seq(T) : NoResponse(Drop(l, d)) /\ OwedCount(Drop(l, d)) = OwedCount(l)}
  <1>1. << >> \in C
    BY DropFold DEF NoResponse
  <1>2. ASSUME NEW l, NEW x, IsSequence(l), l \in C, x \in T
        PROVE  Append(l, x) \in C
    <2>1. /\ IsSequence(Drop(l, d)) /\ l \in Seq(T)
          /\ NoResponse(Drop(l, d)) /\ OwedCount(Drop(l, d)) = OwedCount(l)
      BY <1>2, DropFacts
    <2>2. Append(l, x) \in Seq(T) /\ x.kind # "response"
      BY <1>2, <2>1 DEF NoResponse, Elements
    <2>3. Drop(Append(l, x), d) = IF x = d THEN Drop(l, d) ELSE Append(Drop(l, d), x)
      BY <1>2, DropFold
    <2>4. OwedCount(Append(l, x)) = IF x.running THEN OwedCount(l) ELSE OwedCount(l) + 1
      BY <1>2, <2>2, OwedAppend
    <2>5. CASE x = d
      BY <2>1, <2>2, <2>3, <2>4, <2>5
    <2>6. CASE x # d
      <3>1. Drop(Append(l, x), d) = Append(Drop(l, d), x)
        BY <2>3, <2>6
      <3>2. OwedCount(Append(Drop(l, d), x)) = IF x.running THEN OwedCount(l) ELSE OwedCount(l) + 1
        BY <2>1, <2>2, OwedAppend
      <3>3. NoResponse(Append(Drop(l, d), x))
        BY <2>1, <2>2, AppendFacts DEF NoResponse
      <3> QED BY <2>2, <2>4, <3>1, <3>2, <3>3
    <2> QED BY <2>5, <2>6
  <1>3. t \in Seq(T)
    BY DEF IsSequence
  <1>4. t \in C
    <2> HIDE DEF C, T
    <2> QED BY <1>1, <1>2, <1>3, SequenceInduction
  <1> QED BY <1>4

-----------------------------------------------------------------------------
(* The counters and the context tell the same story. *)

IsBuilder(b) ==
    /\ b \in [committed : {b.committed}, staged : {b.staged}]
    /\ IsSequence(b.committed) /\ IsSequence(b.staged)

(* What the latest turn has asked about is committed, what came later is   *)
(* staged, and each counter is a number of entries of the context.         *)
Balanced(s) ==
    /\ IsBuilder(s.builder) /\ NoResponse(s.builder.staged)
    /\ OwedCount(s.builder.committed) = s.turnInputs - s.delivered
    /\ OwedCount(s.builder.staged) = s.available - s.turnInputs

(* What each change of the context does to it (builder.go:50-128). *)
LEMMA AddMessageFacts ==
    ASSUME NEW b, IsBuilder(b), NEW id
    PROVE  LET c == AddMessage(b, id)
           IN /\ IsBuilder(c) /\ c.committed = b.committed
              /\ c.staged = Append(b.staged, Entry("message", id, FALSE))
  <1> DEFINE e == Entry("message", id, FALSE)
             c == [b EXCEPT !.staged = Append(b.staged, e)]
  <1>1. AddMessage(b, id) = c
    BY DEF AddMessage
  <1>2. IsSequence(b.committed) /\ IsSequence(Append(b.staged, e))
    BY AppendFacts DEF IsBuilder
  <1> HIDE DEF e
  <1>3. /\ c \in [committed : {b.committed}, staged : {Append(b.staged, e)}]
        /\ c.committed = b.committed /\ c.staged = Append(b.staged, e)
    BY DEF IsBuilder
  <1> HIDE DEF c
  <1> QED BY <1>1, <1>2, <1>3 DEF IsBuilder, e

LEMMA AddModelResponseFacts ==
    ASSUME NEW b, IsBuilder(b), NEW turn
    PROVE  LET c == AddModelResponse(b, turn)
           IN /\ IsBuilder(c) /\ c.staged = b.staged
              /\ c.committed = Append(b.committed, Entry("response", turn, FALSE))
  <1> DEFINE e == Entry("response", turn, FALSE)
             c == [b EXCEPT !.committed = Append(b.committed, e)]
  <1>1. AddModelResponse(b, turn) = c
    BY DEF AddModelResponse
  <1>2. IsSequence(b.staged) /\ IsSequence(Append(b.committed, e))
    BY AppendFacts DEF IsBuilder
  <1> HIDE DEF e
  <1>3. /\ c \in [committed : {Append(b.committed, e)}, staged : {b.staged}]
        /\ c.staged = b.staged /\ c.committed = Append(b.committed, e)
    BY DEF IsBuilder
  <1> HIDE DEF c
  <1> QED BY <1>1, <1>2, <1>3 DEF IsBuilder, e

LEMMA CommitFacts ==
    ASSUME NEW b, IsBuilder(b)
    PROVE  LET c == Commit(b)
           IN IsBuilder(c) /\ c.committed = b.committed \o b.staged /\ c.staged = << >>
  <1> DEFINE all == b.committed \o b.staged
             c == [committed |-> all, staged |-> << >>]
  <1>1. Commit(b) = c
    BY DEF Commit
  <1>2. IsSequence(all) /\ IsSequence(<< >>)
    BY ConcatFacts, EmptyIsSequence DEF IsBuilder
  <1> HIDE DEF all
  <1>3. /\ c \in [committed : {all}, staged : {<< >>}]
        /\ c.committed = all /\ c.staged = << >>
    OBVIOUS
  <1> HIDE DEF c
  <1> QED BY <1>1, <1>2, <1>3 DEF IsBuilder, all

Replaced(b, d, e) == [b EXCEPT !.staged = Append(Drop(b.staged, d), e)]

LEMMA ReplacedFacts ==
    ASSUME NEW b, IsBuilder(b), NEW d, NEW e
    PROVE  LET c == Replaced(b, d, e)
           IN /\ IsBuilder(c) /\ c.committed = b.committed
              /\ c.staged = Append(Drop(b.staged, d), e)
  <1> DEFINE s == Append(Drop(b.staged, d), e)
             c == Replaced(b, d, e)
  <1>1. IsSequence(b.committed) /\ IsSequence(s)
    BY AppendFacts, DropFacts DEF IsBuilder
  <1> HIDE DEF s
  <1>2. c = [b EXCEPT !.staged = s]
    BY DEF s, Replaced
  <1>3. /\ c \in [committed : {b.committed}, staged : {s}]
        /\ c.committed = b.committed /\ c.staged = s
    BY <1>2 DEF IsBuilder
  <1> HIDE DEF c
  <1> QED BY <1>1, <1>3 DEF IsBuilder, s, c

LEMMA ShownFacts ==
    ASSUME NEW b, IsBuilder(b), NEW key
    PROVE  LET c == Shown(b, key)
           IN /\ IsBuilder(c) /\ c.committed = b.committed
              /\ c.staged = Append(Drop(b.staged, Placeholder(key)), Placeholder(key))
  <1>1. Shown(b, key) = Replaced(b, Placeholder(key), Placeholder(key))
    BY DEF Shown, Replaced, AddToolResult, Placeholder
  <1> QED BY <1>1, ReplacedFacts

LEMMA SettledFacts ==
    ASSUME NEW b, IsBuilder(b), NEW key
    PROVE  LET c == Settled(b, key)
           IN /\ IsBuilder(c) /\ c.committed = b.committed
              /\ c.staged = Append(Drop(b.staged, Placeholder(key)), Final(key))
  <1>1. Settled(b, key) = Replaced(b, Placeholder(key), Final(key))
    BY DEF Settled, Replaced, AddToolResult, Placeholder, Final
  <1> QED BY <1>1, ReplacedFacts

(* One more entry, not a response, behind what is staged. *)
LEMMA StagedOne ==
    ASSUME NEW t, IsSequence(t), NoResponse(t), NEW e, e.kind # "response"
    PROVE  /\ NoResponse(Append(t, e))
           /\ OwedCount(t) \in Nat
           /\ OwedCount(Append(t, e)) = IF e.running THEN OwedCount(t) ELSE OwedCount(t) + 1
  <1>1. NoResponse(Append(t, e))
    BY AppendFacts DEF NoResponse
  <1> QED BY <1>1, OwedAppend

(* Every item keeps the balance, if a response is to the latest turn       *)
(* (builder.go:50-128, loop.go:541-641).                                   *)
LEMMA BalancedItem ==
    ASSUME NEW s, IsLoopState(s), Balanced(s), NEW r,
           r.type \in {"fork", "input", "turn", "response", "status"},
           r.type = "response" => r.turn = s.turn
    PROVE  IsLoopState(AddItem(s, r)) /\ Balanced(AddItem(s, r))
  <1> DEFINE t == AddItem(s, r)
             b == s.builder
             c == t.builder
  <1>1. /\ IsBuilder(b) /\ NoResponse(b.staged)
        /\ IsSequence(b.committed) /\ IsSequence(b.staged)
        /\ OwedCount(b.committed) = s.turnInputs - s.delivered
        /\ OwedCount(b.staged) = s.available - s.turnInputs
    BY DEF Balanced, IsBuilder
  <1>2. s.available \in Nat /\ s.delivered \in Nat /\ s.turnInputs \in Nat
    BY DEF IsLoopState
  <1>3. CASE r.type = "fork"
    <2>1. IsLoopState(t) /\ SameContext(s, t)
      BY <1>3, AddForkFacts
    <2> QED BY <2>1 DEF Balanced, SameContext, SameCounts
  <1>4. CASE r.type = "input"
    <2>1. /\ IsLoopState(t) /\ t.delivered = s.delivered /\ t.turnInputs = s.turnInputs
          /\ t.available = IF r.kind \in {"external", "heartbeat"} THEN s.available + 1 ELSE s.available
          /\ c = IF r.kind \in {"external", "heartbeat"} THEN AddMessage(b, r.id) ELSE b
      BY <1>4, AddInputFacts
    <2> HIDE DEF t, c
    <2>2. CASE r.kind \in {"external", "heartbeat"}
      <3> DEFINE e == Entry("message", r.id, FALSE)
      <3>1. IsBuilder(c) /\ c.committed = b.committed /\ c.staged = Append(b.staged, e)
        BY <1>1, <2>1, <2>2, AddMessageFacts
      <3>2. e.kind = "message" /\ e.running = FALSE
        BY DEF Entry
      <3> HIDE DEF e
      <3>3. NoResponse(c.staged) /\ OwedCount(c.staged) = OwedCount(b.staged) + 1
        BY <1>1, <3>1, <3>2, StagedOne
      <3> QED BY <1>1, <1>2, <2>1, <2>2, <3>1, <3>3 DEF Balanced, c, t
    <2>3. CASE r.kind \notin {"external", "heartbeat"}
      BY <1>1, <2>1, <2>3 DEF Balanced, c, t
    <2> QED BY <2>2, <2>3
  <1>5. CASE r.type = "turn"
    <2>1. /\ IsLoopState(t) /\ t.available = s.available /\ t.delivered = s.delivered
          /\ t.turnInputs = s.available /\ c = Commit(b)
      BY <1>5, AddTurnFacts
    <2> HIDE DEF t, c
    <2>2. IsBuilder(c) /\ c.committed = b.committed \o b.staged /\ c.staged = << >>
      BY <1>1, <2>1, CommitFacts
    <2>3. OwedCount(c.committed) = s.available - s.delivered
      BY <1>1, <1>2, <2>2, OwedConcat
    <2>4. NoResponse(c.staged) /\ OwedCount(c.staged) = 0
      BY <2>2, OwedEmpty DEF NoResponse
    <2> QED BY <1>2, <2>1, <2>2, <2>3, <2>4 DEF Balanced, c, t
  <1>6. CASE r.type = "response"
    <2>1. /\ IsLoopState(t) /\ t.available = s.available /\ t.delivered = s.turnInputs
          /\ t.turnInputs = s.turnInputs /\ c = AddModelResponse(b, r.turn)
      BY <1>6, AddResponseFacts
    <2> HIDE DEF t, c
    <2> DEFINE e == Entry("response", r.turn, FALSE)
    <2>2. IsBuilder(c) /\ c.committed = Append(b.committed, e) /\ c.staged = b.staged
      BY <1>1, <2>1, AddModelResponseFacts
    <2>3. e.kind = "response"
      BY DEF Entry
    <2> HIDE DEF e
    <2>4. OwedCount(c.committed) = 0
      BY <1>1, <2>2, <2>3, OwedAppend
    <2> QED BY <1>1, <1>2, <2>1, <2>2, <2>4 DEF Balanced, c, t
  <1>7. CASE r.type = "status"
    <2>1. /\ IsLoopState(t)
          /\ \/ SameContext(s, t)
             \/ SameCounts(s, t) /\ c = Shown(b, StatusKey(r))
             \/ CountsOneMore(s, t) /\ c = Settled(b, StatusKey(r))
      BY <1>7, StatusEffects
    <2> HIDE DEF t, c
    <2> DEFINE d == Placeholder(StatusKey(r))
               f == Final(StatusKey(r))
    <2>2. /\ d.running = TRUE /\ d.kind = "result" /\ f.running = FALSE /\ f.kind = "result"
      BY DEF Entry, Placeholder, Final
    <2>a. c = Shown(b, StatusKey(r)) =>
            IsBuilder(c) /\ c.committed = b.committed /\ c.staged = Append(Drop(b.staged, d), d)
      BY <1>1, ShownFacts
    <2>b. c = Settled(b, StatusKey(r)) =>
            IsBuilder(c) /\ c.committed = b.committed /\ c.staged = Append(Drop(b.staged, d), f)
      BY <1>1, SettledFacts
    <2> HIDE DEF d, f
    <2>c. /\ IsSequence(Drop(b.staged, d)) /\ NoResponse(Drop(b.staged, d))
          /\ OwedCount(Drop(b.staged, d)) = OwedCount(b.staged)
      BY <1>1, <2>2, DropFacts, DropOwed
    <2>d. /\ NoResponse(Append(Drop(b.staged, d), d))
          /\ OwedCount(Append(Drop(b.staged, d), d)) = OwedCount(b.staged)
          /\ NoResponse(Append(Drop(b.staged, d), f))
          /\ OwedCount(Append(Drop(b.staged, d), f)) = OwedCount(b.staged) + 1
      BY <2>2, <2>c, StagedOne
    <2>3. CASE SameContext(s, t)
      BY <1>1, <2>1, <2>3 DEF Balanced, SameContext, SameCounts, t
    <2>4. CASE SameCounts(s, t) /\ c = Shown(b, StatusKey(r))
      <3>1. IsBuilder(c) /\ c.committed = b.committed /\ NoResponse(c.staged) /\ OwedCount(c.staged) = OwedCount(b.staged)
        BY <2>4, <2>a, <2>d
      <3>2. t.available = s.available /\ t.delivered = s.delivered /\ t.turnInputs = s.turnInputs
        BY <2>4 DEF SameCounts
      <3>3. Balanced(t)
        BY <1>1, <3>1, <3>2 DEF Balanced, c
      <3> QED BY <2>1, <3>3 DEF t
    <2>5. CASE CountsOneMore(s, t) /\ c = Settled(b, StatusKey(r))
      <3>1. IsBuilder(c) /\ c.committed = b.committed /\ NoResponse(c.staged) /\ OwedCount(c.staged) = OwedCount(b.staged) + 1
        BY <2>5, <2>b, <2>d
      <3>2. t.available = s.available + 1 /\ t.delivered = s.delivered /\ t.turnInputs = s.turnInputs
        BY <2>5 DEF CountsOneMore
      <3>3. Balanced(t)
        BY <1>1, <1>2, <3>1, <3>2 DEF Balanced, c
      <3> QED BY <2>1, <3>3 DEF t
    <2> QED BY <2>1, <2>3, <2>4, <2>5
  <1> QED BY <1>3, <1>4, <1>5, <1>6, <1>7

(* What is owed in the whole context. *)
LEMMA BalancedOwed ==
    ASSUME NEW s, IsLoopState(s), Balanced(s)
    PROVE  /\ OwedCount(Build(s.builder)) = PendingInputs(s)
           /\ s.delivered <= s.turnInputs /\ s.turnInputs <= s.available
  <1>1. /\ IsSequence(s.builder.committed) /\ IsSequence(s.builder.staged)
        /\ NoResponse(s.builder.staged)
        /\ OwedCount(s.builder.committed) = s.turnInputs - s.delivered
        /\ OwedCount(s.builder.staged) = s.available - s.turnInputs
    BY DEF Balanced, IsBuilder
  <1>2. OwedCount(Build(s.builder)) = OwedCount(s.builder.committed) + OwedCount(s.builder.staged)
    BY <1>1, OwedConcat DEF Build
  <1>3. OwedCount(s.builder.committed) \in Nat /\ OwedCount(s.builder.staged) \in Nat
    BY <1>1, CountsAreNat
  <1>4. s.available \in Nat /\ s.delivered \in Nat /\ s.turnInputs \in Nat
    BY DEF IsLoopState
  <1> QED BY <1>1, <1>2, <1>3, <1>4 DEF PendingInputs

LEMMA BalancedNew == Balanced(NewLoopState)
  <1>1. /\ NewLoopState.builder = [committed |-> << >>, staged |-> << >>]
        /\ NewLoopState.available = 0 /\ NewLoopState.delivered = 0 /\ NewLoopState.turnInputs = 0
    BY DEF NewLoopState, NewBuilder
  <1>2. IsBuilder([committed |-> << >>, staged |-> << >>])
    BY EmptyIsSequence DEF IsBuilder
  <1> QED BY <1>1, <1>2, OwedEmpty DEF Balanced, NoResponse

-----------------------------------------------------------------------------
(* How often an entry occurs in a context, and among what the latest turn  *)
(* has committed, after each change of it.                                 *)
Message(id) == Entry("message", id, FALSE)

LEMMA BuildCounts ==
    ASSUME NEW b, IsBuilder(b), NEW e
    PROVE  /\ Occurs(Build(b), e) = Occurs(b.committed, e) + Occurs(b.staged, e)
           /\ Occurs(b.committed, e) \in Nat /\ Occurs(b.staged, e) \in Nat
           /\ Occurs(Build(b), e) \in Nat
  <1>1. IsSequence(b.committed) /\ IsSequence(b.staged)
    BY DEF IsBuilder
  <1>2. Occurs(b.committed \o b.staged, e) = Occurs(b.committed, e) + Occurs(b.staged, e)
    BY <1>1, OccursConcat
  <1>3. Occurs(b.committed, e) \in Nat /\ Occurs(b.staged, e) \in Nat
    BY <1>1, CountsAreNat
  <1> QED BY <1>2, <1>3 DEF Build

LEMMA MessageCounts ==
    ASSUME NEW b, IsBuilder(b), NEW id, NEW e
    PROVE  LET c == AddMessage(b, id)
           IN /\ IsBuilder(c) /\ c.committed = b.committed
              /\ Occurs(Build(c), e) =
                   IF e = Message(id) THEN Occurs(Build(b), e) + 1 ELSE Occurs(Build(b), e)
  <1> DEFINE c == AddMessage(b, id)
  <1>1. /\ IsBuilder(c) /\ c.committed = b.committed
        /\ c.staged = Append(b.staged, Message(id))
    BY AddMessageFacts DEF Message
  <1> HIDE DEF c
  <1>2. Occurs(c.staged, e) =
          IF Message(id) = e THEN Occurs(b.staged, e) + 1 ELSE Occurs(b.staged, e)
    BY <1>1, OccursAppend DEF IsBuilder
  <1>3. /\ Occurs(Build(b), e) = Occurs(b.committed, e) + Occurs(b.staged, e)
        /\ Occurs(Build(c), e) = Occurs(c.committed, e) + Occurs(c.staged, e)
        /\ Occurs(b.committed, e) \in Nat /\ Occurs(b.staged, e) \in Nat
    BY <1>1, BuildCounts
  <1> QED BY <1>1, <1>2, <1>3 DEF c

LEMMA ResponseCounts ==
    ASSUME NEW b, IsBuilder(b), NEW turn, NEW e, e.kind # "response"
    PROVE  LET c == AddModelResponse(b, turn)
           IN /\ IsBuilder(c)
              /\ Occurs(c.committed, e) = Occurs(b.committed, e)
              /\ Occurs(Build(c), e) = Occurs(Build(b), e)
  <1> DEFINE c == AddModelResponse(b, turn)
             a == Entry("response", turn, FALSE)
  <1>1. /\ IsBuilder(c) /\ c.staged = b.staged /\ c.committed = Append(b.committed, a)
    BY AddModelResponseFacts
  <1>2. a # e
    BY DEF Entry
  <1> HIDE DEF c, a
  <1>3. Occurs(c.committed, e) = Occurs(b.committed, e)
    BY <1>1, <1>2, OccursAppend DEF IsBuilder
  <1>4. /\ Occurs(Build(b), e) = Occurs(b.committed, e) + Occurs(b.staged, e)
        /\ Occurs(Build(c), e) = Occurs(c.committed, e) + Occurs(c.staged, e)
    BY <1>1, BuildCounts
  <1> QED BY <1>1, <1>3, <1>4 DEF c

LEMMA CommitCounts ==
    ASSUME NEW b, IsBuilder(b), NEW e
    PROVE  LET c == Commit(b)
           IN /\ IsBuilder(c)
              /\ Occurs(c.committed, e) = Occurs(Build(b), e)
              /\ Occurs(Build(c), e) = Occurs(Build(b), e)
  <1> DEFINE c == Commit(b)
  <1>1. IsBuilder(c) /\ c.committed = b.committed \o b.staged /\ c.staged = << >>
    BY CommitFacts
  <1> HIDE DEF c
  <1>2. Occurs(c.committed, e) = Occurs(Build(b), e)
    BY <1>1 DEF Build
  <1>3. Occurs(Build(c), e) = Occurs(c.committed, e) + Occurs(c.staged, e)
    BY <1>1, BuildCounts
  <1>4. Occurs(c.staged, e) = 0
    BY <1>1, OccursEmpty
  <1>5. Occurs(c.committed, e) \in Nat
    BY <1>1, BuildCounts
  <1> QED BY <1>1, <1>2, <1>3, <1>4, <1>5 DEF c

LEMMA EntriesDiffer ==
    /\ \A k1, k2 : Placeholder(k1) # Final(k2)
    /\ \A k1, k2 : Placeholder(k1) = Placeholder(k2) => k1 = k2
    /\ \A k1, k2 : Final(k1) = Final(k2) => k1 = k2
    /\ \A id, k1 : Message(id) # Final(k1) /\ Message(id) # Placeholder(k1)
    /\ \A i, j : Message(i) = Message(j) => i = j
    /\ \A k1 : /\ Placeholder(k1).kind # "response" /\ Final(k1).kind # "response"
               /\ Message(k1).kind # "response"
  <1>1. \A k1, k2 : Placeholder(k1) # Final(k2)
    <2> SUFFICES ASSUME NEW k1, NEW k2 PROVE Placeholder(k1).running # Final(k2).running
      OBVIOUS
    <2>1. Placeholder(k1).running = TRUE
      BY DEF Placeholder, Entry
    <2>2. Final(k2).running = FALSE
      BY DEF Final, Entry
    <2> QED BY <2>1, <2>2
  <1>2. \A k1 : Placeholder(k1).of = k1 /\ Final(k1).of = k1 /\ Message(k1).of = k1
    BY DEF Placeholder, Final, Message, Entry
  <1>3. \A k1 : Placeholder(k1).kind = "result" /\ Final(k1).kind = "result" /\ Message(k1).kind = "message"
    BY DEF Placeholder, Final, Message, Entry
  <1>4. \A id, k1 : Message(id) # Final(k1) /\ Message(id) # Placeholder(k1)
    BY <1>3
  <1> HIDE DEF Placeholder, Final, Message
  <1> QED BY <1>1, <1>2, <1>3, <1>4

LEMMA ShownCounts ==
    ASSUME NEW b, IsBuilder(b), NEW key, NEW e
    PROVE  LET c == Shown(b, key)
           IN /\ IsBuilder(c) /\ c.committed = b.committed
              /\ e # Placeholder(key) => Occurs(Build(c), e) = Occurs(Build(b), e)
              /\ Occurs(Build(c), Placeholder(key)) > 0
  <1> DEFINE c == Shown(b, key)
             d == Placeholder(key)
             t == Drop(b.staged, d)
  <1>1. IsBuilder(c) /\ c.committed = b.committed /\ c.staged = Append(t, d)
    BY ShownFacts
  <1>2. IsSequence(t) /\ \A x : Occurs(t, x) = IF x = d THEN 0 ELSE Occurs(b.staged, x)
    BY DropFacts DEF IsBuilder
  <1> HIDE DEF c, d, t
  <1>3. ASSUME NEW x
        PROVE  /\ Occurs(Build(b), x) = Occurs(b.committed, x) + Occurs(b.staged, x)
               /\ Occurs(Build(c), x) = Occurs(c.committed, x) + Occurs(c.staged, x)
               /\ Occurs(b.committed, x) \in Nat
               /\ Occurs(c.staged, x) = IF d = x THEN Occurs(t, x) + 1 ELSE Occurs(t, x)
    <2>1. Occurs(c.staged, x) = IF d = x THEN Occurs(t, x) + 1 ELSE Occurs(t, x)
      BY <1>1, <1>2, OccursAppend
    <2> QED BY <1>1, <2>1, BuildCounts
  <1>4. e # d => Occurs(Build(c), e) = Occurs(Build(b), e)
    BY <1>1, <1>2, <1>3
  <1>5. Occurs(Build(c), d) > 0
    BY <1>1, <1>2, <1>3
  <1> QED BY <1>1, <1>4, <1>5 DEF c, d

LEMMA SettledCounts ==
    ASSUME NEW b, IsBuilder(b), NEW key, NEW e, e # Placeholder(key)
    PROVE  LET c == Settled(b, key)
           IN /\ IsBuilder(c) /\ c.committed = b.committed
              /\ Occurs(Build(c), e) =
                   IF e = Final(key) THEN Occurs(Build(b), e) + 1 ELSE Occurs(Build(b), e)
  <1> DEFINE c == Settled(b, key)
             d == Placeholder(key)
             f == Final(key)
             t == Drop(b.staged, d)
  <1>1. IsBuilder(c) /\ c.committed = b.committed /\ c.staged = Append(t, f)
    BY SettledFacts
  <1>2. IsSequence(t) /\ \A x : Occurs(t, x) = IF x = d THEN 0 ELSE Occurs(b.staged, x)
    BY DropFacts DEF IsBuilder
  <1> HIDE DEF c, d, t, f
  <1>3. /\ Occurs(Build(b), e) = Occurs(b.committed, e) + Occurs(b.staged, e)
        /\ Occurs(Build(c), e) = Occurs(c.committed, e) + Occurs(c.staged, e)
        /\ Occurs(b.committed, e) \in Nat /\ Occurs(b.staged, e) \in Nat
        /\ Occurs(c.staged, e) = IF f = e THEN Occurs(t, e) + 1 ELSE Occurs(t, e)
    <2>1. Occurs(c.staged, e) = IF f = e THEN Occurs(t, e) + 1 ELSE Occurs(t, e)
      BY <1>1, <1>2, OccursAppend
    <2> QED BY <1>1, <2>1, BuildCounts
  <1> QED BY <1>1, <1>2, <1>3 DEF c, d, f
=============================================================================
