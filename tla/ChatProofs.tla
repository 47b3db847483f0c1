----------------------------- MODULE ChatProofs -----------------------------
(***************************************************************************)
(* Proofs about a session of the GUI, for any sets of chats, handlers and   *)
(* messages and any bounds: what the user was told of a message stays true, *)
(* a message is recorded once and in its order, and a session that nobody   *)
(* deletes has one coordinator.                                             *)
(***************************************************************************)
EXTENDS Chat, FiniteSetTheorems, TLAPS

Inputs == Messages \cup {StopWhenIdle, StopHard}

ChatType == [made : BOOLEAN, running : BOOLEAN, stopped : BOOLEAN, pending : Seq(Messages),
             failed : BOOLEAN]
RunType == [at : {"none", "running", "returned"}, inbox : Seq(Inputs), idle : BOOLEAN,
            hard : BOOLEAN, ctxDone : BOOLEAN, err : {"nil", "canceled", "failed"}]
HandlerType == [at : {"idle", "listed", "chat", "dropped", "unlisted"},
                op : {"none", "send", "retry", "stop", "delete"},
                text : Messages \cup {"none"}, chat : Chats \cup {NoChat}]

Types ==
    /\ listed \in BOOLEAN /\ file \in BOOLEAN
    /\ log \in Seq(Messages) /\ accepted \in Seq(Messages)
    /\ current \in Chats \cup {NoChat}
    /\ chat \in [Chats -> ChatType]
    /\ run \in [Chats -> RunType]
    /\ handler \in [Handlers -> HandlerType]
    /\ bounds \in [failures : Nat, deletes : Nat, stops : Nat, commands : Nat]

(* A chat runs from the start of a run to its end; one not made is empty.   *)
Lifecycle ==
    \A c \in Chats :
        /\ chat[c].running <=> run[c].at # "none"
        /\ chat[c].running => chat[c].made
        /\ ~chat[c].made => chat[c].pending = <<>>
        /\ run[c].at = "returned" => run[c].ctxDone

(* A handler holds a chat that was made; what it is about to send has been  *)
(* neither accepted nor rejected, and is no other handler's.                *)
Requests ==
    \A h \in Handlers :
        /\ handler[h].at = "chat" => handler[h].chat \in Chats /\ chat[handler[h].chat].made
        /\ handler[h].at \in {"dropped", "unlisted"} => handler[h].op = "delete"
        /\ handler[h].op = "send" =>
             /\ handler[h].text \in Messages
             /\ handler[h].text \notin ToSet(accepted) \cup rejected
             /\ \A k \in Handlers : handler[k].op = "send" /\ k # h => handler[k].text # handler[h].text

NobodyDrops == \A h \in Handlers : handler[h].at # "dropped"

(* While the session is listed and nobody has dropped its chat, the chat in *)
(* the table is the only one; the first deletion is what changes that.      *)
Deleting ==
    /\ listed /\ NobodyDrops => \A c \in Chats : chat[c].made => c = current
    /\ current # NoChat => chat[current].made
    /\ bounds.deletes = 0 => listed /\ file /\ \A h \in Handlers : handler[h].op # "delete"

(* A message of the inbox is pending, not yet recorded and there once.      *)
InboxOwned(inbox, pending, recorded) ==
    \A i \in DOMAIN inbox : inbox[i] \in Messages =>
        /\ inbox[i] \in ToSet(pending)
        /\ inbox[i] \notin ToSet(recorded)
        /\ \A j \in DOMAIN inbox : inbox[j] = inbox[i] => j = i

(* What is pending for a chat was accepted, and is pending once.            *)
ChatOwned(ch, r, recorded, order) ==
    /\ ToSet(ch.pending) \subseteq ToSet(order)
    /\ IsInjective(ch.pending)
    /\ InboxOwned(r.inbox, ch.pending, recorded)

(* Only accepted messages are recorded or pending, each with one chat.      *)
Owned ==
    /\ IsInjective(accepted) /\ IsInjective(log)
    /\ ToSet(accepted) \cap rejected = {}
    /\ ToSet(log) \subseteq ToSet(accepted)
    /\ \A c \in Chats : ChatOwned(chat[c], run[c], log, accepted)
    /\ \A c, d \in Chats : d # c => ToSet(chat[c].pending) \cap ToSet(chat[d].pending) = {}

(* Only a stop lets go of a message that is not recorded.                   *)
Kept ==
    /\ AcceptedIsKept
    /\ \A c \in Chats : chat[c].stopped => ToSet(chat[c].pending) \subseteq interrupted \cup late

(* m comes before n in a sequence. *)
Before(s, m, n) == \E i, j \in DOMAIN s : i < j /\ s[i] = m /\ s[j] = n

Sorted(s, order) == \A i, j \in DOMAIN s : i < j => Before(order, s[i], s[j])

(* What is pending and was accepted before a message of the inbox is ahead  *)
(* of it in the inbox.                                                      *)
InboxFirst(inbox, pending, order) ==
    \A i \in DOMAIN inbox, p \in ToSet(pending) :
        inbox[i] \in Messages /\ Before(order, p, inbox[i])
            => \E j \in DOMAIN inbox : j < i /\ inbox[j] = p

(* What is pending for a chat follows what is recorded, in the order of     *)
(* acceptance, and a run that can still be sent to has it all in its inbox. *)
ChatOrdered(ch, r, recorded, order) ==
    /\ Sorted(ch.pending, order)
    /\ \A m \in ToSet(recorded), p \in ToSet(ch.pending) : Before(order, m, p)
    /\ InboxFirst(r.inbox, ch.pending, order)
    /\ r.at # "none" /\ ~r.ctxDone => ToSet(ch.pending) \subseteq ToSet(r.inbox)

(* Until the session is deleted, it is recorded in the order of acceptance. *)
InOrder ==
    /\ Sorted(log, accepted)
    /\ \A c \in Chats : ChatOrdered(chat[c], run[c], log, accepted)

IInv ==
    /\ Types /\ Lifecycle /\ Requests /\ Deleting /\ Owned /\ Kept
    /\ bounds.deletes = 0 => InOrder

-----------------------------------------------------------------------------
(* Sequences. *)

Keeps == INSTANCE FoldInduction WITH Op <- KeepOutside

LEMMA AppendFacts ==
    ASSUME NEW T, NEW s \in Seq(T), NEW x \in T
    PROVE  /\ Append(s, x) \in Seq(T) /\ Len(s) \in Nat
           /\ DOMAIN s = 1..Len(s) /\ DOMAIN Append(s, x) = 1..(Len(s) + 1)
           /\ Append(s, x)[Len(s) + 1] = x
           /\ \A i \in 1..Len(s) : Append(s, x)[i] = s[i]
  OBVIOUS

LEMMA SetOfAppend ==
    ASSUME NEW T, NEW s \in Seq(T), NEW x \in T
    PROVE  ToSet(Append(s, x)) = ToSet(s) \cup {x}
  BY AppendFacts DEF ToSet

LEMMA SetOfEmpty == ToSet(<< >>) = {}
  BY DEF ToSet

(* A statement that holds of the empty sequence, and with a sequence of one *)
(* more element, holds of all: C is the set of those it holds of.           *)
LEMMA SequenceInduction ==
    ASSUME NEW T, NEW C, << >> \in C,
           \A l \in Seq(T), x \in T : l \in C => Append(l, x) \in C
    PROVE  \A l \in Seq(T) : l \in C
  <1> DEFINE S == {n \in Nat : \A l \in Seq(T) : Len(l) = n => l \in C}
  <1>1. 0 \in S
    OBVIOUS
  <1>2. ASSUME NEW n \in Nat, n \in S
        PROVE  n + 1 \in S
    <2> SUFFICES ASSUME NEW l \in Seq(T), Len(l) = n + 1 PROVE l \in C
      OBVIOUS
    <2> DEFINE k == SubSeq(l, 1, n)
    <2>1. k \in Seq(T) /\ Len(k) = n /\ l[n + 1] \in T /\ l = Append(k, l[n + 1])
      OBVIOUS
    <2>2. k \in C
      BY <1>2, <2>1
    <2> HIDE DEF k
    <2> QED BY <2>1, <2>2
  <1>3. \A n \in Nat : n \in S
    <2> HIDE DEF S
    <2> QED BY <1>1, <1>2, Keeps!Induction
  <1> QED BY <1>3

Folded(s, D) == FoldLeft(KeepOutside, [dropped |-> D, kept |-> << >>], s)

LEMMA FoldedSteps ==
    ASSUME NEW T, NEW D
    PROVE  /\ Folded(<< >>, D) = [dropped |-> D, kept |-> << >>]
           /\ \A l \in Seq(T), x \in T : Folded(Append(l, x), D) = KeepOutside(Folded(l, D), x)
  <1> DEFINE base == [dropped |-> D, kept |-> << >>]
  <1>1. \A l : Keeps!Fold(base, l) = Folded(l, D)
    BY Zenon DEF Folded, Keeps!Fold, FoldLeft, Keeps!FoldLeft, MapThenFoldSet,
                 Keeps!MapThenFoldSet, Max, Keeps!Max
  <1> HIDE DEF base
  <1>2. Keeps!Fold(base, << >>) = base
    BY Keeps!FoldEmpty
  <1>3. \A l \in Seq(T), x \in T : Keeps!Fold(base, Append(l, x)) = KeepOutside(Keeps!Fold(base, l), x)
    BY Keeps!FoldAppend
  <1> QED BY <1>1, <1>2, <1>3 DEF base

(* The fold leaves the set alone and keeps what Without returns. *)
LEMMA FoldedKeeps ==
    ASSUME NEW T, NEW D, NEW l \in Seq(T)
    PROVE  Folded(l, D) = [dropped |-> D, kept |-> Without(l, D)]
  <1> DEFINE Well(s) == Folded(s, D) = [dropped |-> D, kept |-> Without(s, D)]
             C == {s \in Seq(T) : Well(s)}
  <1>1. \A s : Without(s, D) = Folded(s, D).kept
    BY Zenon DEF Without, Folded
  <1>2. << >> \in C
    BY <1>1, FoldedSteps
  <1>3. ASSUME NEW s \in Seq(T), NEW x \in T, Well(s)
        PROVE  Well(Append(s, x))
    <2> DEFINE d == Without(s, D)
    <2>1. Folded(Append(s, x), D) = KeepOutside([dropped |-> D, kept |-> d], x)
      BY <1>3, FoldedSteps
    <2> HIDE DEF d
    <2>2. PICK k : KeepOutside([dropped |-> D, kept |-> d], x) = [dropped |-> D, kept |-> k]
      BY DEF KeepOutside
    <2> QED BY <1>1, <2>1, <2>2
  <1>4. \A s \in Seq(T), x \in T : s \in C => Append(s, x) \in C
    <2> HIDE DEF Well
    <2> QED BY <1>3
  <1>5. \A s \in Seq(T) : s \in C
    <2> HIDE DEF C
    <2> QED BY <1>2, <1>4, SequenceInduction
  <1> QED BY <1>5

(* Without, message by message. *)
LEMMA WithoutStep ==
    ASSUME NEW T, NEW D, NEW l \in Seq(T), NEW x \in T
    PROVE  /\ x \in D => Without(Append(l, x), D) = Without(l, D)
           /\ x \notin D => Without(Append(l, x), D) = Append(Without(l, D), x)
  <1> DEFINE d == Without(l, D)
             t == Append(l, x)
  <1>1. Folded(t, D) = KeepOutside([dropped |-> D, kept |-> d], x)
    <2>1. Folded(l, D) = [dropped |-> D, kept |-> d]
      BY FoldedKeeps
    <2>2. Folded(t, D) = KeepOutside(Folded(l, D), x)
      BY FoldedSteps
    <2> QED BY <2>1, <2>2
  <1>2. Without(t, D) = Folded(t, D).kept
    BY Zenon DEF Without, Folded
  <1> HIDE DEF d, t
  <1>3. Without(t, D) = KeepOutside([dropped |-> D, kept |-> d], x).kept
    BY <1>1, <1>2
  <1>4. x \in D => Without(t, D) = d
    BY <1>3 DEF KeepOutside
  <1>5. x \notin D => Without(t, D) = Append(d, x)
    BY <1>3 DEF KeepOutside
  <1> QED BY <1>4, <1>5 DEF d, t

LEMMA WithoutNothing ==
    ASSUME NEW D
    PROVE  Without(<< >>, D) = << >>
  <1>1. Without(<< >>, D) = Folded(<< >>, D).kept
    BY Zenon DEF Without, Folded
  <1> QED BY <1>1, FoldedSteps

(* What is left is in its order, and is what is not in the set. *)
Thins(w, l, D) ==
    /\ ToSet(w) = ToSet(l) \ D
    /\ \A i, j \in DOMAIN w : i < j => \E a, b \in DOMAIN l : a < b /\ l[a] = w[i] /\ l[b] = w[j]
    /\ ToSet(l) \cap D = {} => w = l

LEMMA WithoutFacts ==
    ASSUME NEW T, NEW D, NEW l \in Seq(T)
    PROVE  Without(l, D) \in Seq(T) /\ Thins(Without(l, D), l, D)
  <1> DEFINE C == {s \in Seq(T) : Without(s, D) \in Seq(T) /\ Thins(Without(s, D), s, D)}
  <1>1. << >> \in C
    <2>1. Without(<< >>, D) = << >>
      BY WithoutNothing
    <2>2. Thins(<< >>, << >>, D) /\ << >> \in Seq(T)
      BY DEF Thins, ToSet
    <2>3. Without(<< >>, D) \in Seq(T) /\ Thins(Without(<< >>, D), << >>, D)
      BY <2>1, <2>2
    <2> QED BY <2>2, <2>3
  <1>2. ASSUME NEW s \in Seq(T), NEW x \in T, s \in C
        PROVE  Append(s, x) \in C
    <2> DEFINE w == Without(s, D)
               t == Append(s, x)
    <2>1. w \in Seq(T) /\ Thins(w, s, D)
      BY <1>2
    <2>2. /\ x \in D => Without(t, D) = w
          /\ x \notin D => Without(t, D) = Append(w, x)
      BY WithoutStep
    <2>3. /\ t \in Seq(T) /\ Len(s) \in Nat
          /\ DOMAIN s = 1..Len(s) /\ DOMAIN t = 1..(Len(s) + 1)
          /\ t[Len(s) + 1] = x
          /\ \A i \in 1..Len(s) : t[i] = s[i]
      BY AppendFacts
    <2>4. ToSet(t) = ToSet(s) \cup {x}
      BY SetOfAppend
    <2>5. ASSUME NEW a \in DOMAIN s, NEW b \in DOMAIN s, a < b
          PROVE  a \in DOMAIN t /\ b \in DOMAIN t /\ t[a] = s[a] /\ t[b] = s[b]
      BY <2>3, <2>5
    <2> HIDE DEF w, t
    <2>6. CASE x \in D
      <3>1. Thins(w, t, D)
        <4>1. \A i, j \in DOMAIN w : i < j => \E a, b \in DOMAIN t : a < b /\ t[a] = w[i] /\ t[b] = w[j]
          <5> SUFFICES ASSUME NEW i \in DOMAIN w, NEW j \in DOMAIN w, i < j
                       PROVE  \E a, b \in DOMAIN t : a < b /\ t[a] = w[i] /\ t[b] = w[j]
            OBVIOUS
          <5>1. PICK a \in DOMAIN s, b \in DOMAIN s : a < b /\ s[a] = w[i] /\ s[b] = w[j]
            BY <2>1 DEF Thins
          <5> QED BY <5>1, <2>5
        <4> QED BY <2>1, <2>4, <2>6, <4>1 DEF Thins
      <3> QED BY <2>1, <2>2, <2>3, <2>6, <3>1 DEF t
    <2>7. CASE x \notin D
      <3> DEFINE v == Append(w, x)
      <3>1. /\ v \in Seq(T) /\ Len(w) \in Nat
            /\ DOMAIN w = 1..Len(w) /\ DOMAIN v = 1..(Len(w) + 1)
            /\ v[Len(w) + 1] = x
            /\ \A i \in 1..Len(w) : v[i] = w[i]
        BY <2>1, AppendFacts
      <3>2. ToSet(v) = ToSet(w) \cup {x}
        BY <2>1, SetOfAppend
      <3>3. ToSet(s) \cap D = {} => v = t
        BY <2>1 DEF Thins, t
      <3> HIDE DEF v
      <3>4. ASSUME NEW i \in DOMAIN v, NEW j \in DOMAIN v, i < j
            PROVE  \E a, b \in DOMAIN t : a < b /\ t[a] = v[i] /\ t[b] = v[j]
        <4>1. i \in DOMAIN w /\ v[i] = w[i]
          BY <3>1, <3>4
        <4>2. CASE j \in DOMAIN w
          <5>1. PICK a \in DOMAIN s, b \in DOMAIN s : a < b /\ s[a] = w[i] /\ s[b] = w[j]
            BY <2>1, <4>1, <4>2, <3>4 DEF Thins
          <5> QED BY <5>1, <2>5, <3>1, <4>1, <4>2
        <4>3. CASE j \notin DOMAIN w
          <5>1. j = Len(w) + 1 /\ v[j] = x
            BY <4>3, <3>1
          <5>2. w[i] \in ToSet(s)
            BY <2>1, <4>1 DEF Thins, ToSet
          <5>3. PICK a \in DOMAIN s : s[a] = w[i]
            BY <5>2 DEF ToSet
          <5>4. a \in DOMAIN t /\ a < Len(s) + 1 /\ Len(s) + 1 \in DOMAIN t /\ t[a] = s[a]
            BY <2>3
          <5> QED BY <5>1, <5>3, <5>4, <2>3, <4>1
        <4> QED BY <4>2, <4>3
      <3>5. ToSet(v) = ToSet(t) \ D
        BY <3>2, <2>1, <2>4, <2>7 DEF Thins
      <3>6. Thins(v, t, D)
        BY <3>3, <3>4, <3>5, <2>4 DEF Thins
      <3> QED BY <2>2, <2>3, <2>7, <3>1, <3>6 DEF t, v
    <2> QED BY <2>6, <2>7
  <1>3. \A s \in Seq(T) : s \in C
    <2> HIDE DEF C
    <2> QED BY <1>1, <1>2, SequenceInduction
  <1> QED BY <1>3

-----------------------------------------------------------------------------
(* Order. *)

LEMMA BeforeFacts ==
    ASSUME NEW T, NEW s \in Seq(T), IsInjective(s)
    PROVE  /\ \A m, n : Before(s, m, n) => ~Before(s, n, m) /\ m # n /\ m \in ToSet(s) /\ n \in ToSet(s)
           /\ \A m, n \in ToSet(s) : m # n => Before(s, m, n) \/ Before(s, n, m)
  <1>0. DOMAIN s \subseteq Nat
    OBVIOUS
  <1>1. ASSUME NEW m, NEW n, Before(s, m, n)
        PROVE  ~Before(s, n, m) /\ m # n /\ m \in ToSet(s) /\ n \in ToSet(s)
    <2>1. PICK i \in DOMAIN s, j \in DOMAIN s : i < j /\ s[i] = m /\ s[j] = n
      BY <1>1 DEF Before
    <2>2. m # n
      BY <2>1, <1>0 DEF IsInjective
    <2>3. ASSUME NEW k \in DOMAIN s, NEW l \in DOMAIN s, k < l, s[k] = n, s[l] = m
          PROVE  FALSE
      <3>1. k = j /\ l = i
        BY <2>1, <2>3 DEF IsInjective
      <3> QED BY <3>1, <2>1, <2>3, <1>0
    <2> QED BY <2>1, <2>2, <2>3 DEF Before, ToSet
  <1>2. ASSUME NEW m \in ToSet(s), NEW n \in ToSet(s), m # n
        PROVE  Before(s, m, n) \/ Before(s, n, m)
    <2>1. PICK i \in DOMAIN s : s[i] = m
      BY DEF ToSet
    <2>2. PICK j \in DOMAIN s : s[j] = n
      BY DEF ToSet
    <2>3. i < j \/ j < i
      BY <1>0, <1>2, <2>1, <2>2
    <2> QED BY <2>1, <2>2, <2>3 DEF Before
  <1> QED BY <1>1, <1>2

LEMMA InjectiveAppend ==
    ASSUME NEW T, NEW s \in Seq(T), NEW x \in T, IsInjective(s), x \notin ToSet(s)
    PROVE  IsInjective(Append(s, x))
  BY AppendFacts DEF IsInjective, ToSet

(* One more message in the order comes after all others. *)
LEMMA BeforeAppend ==
    ASSUME NEW T, NEW s \in Seq(T), NEW x \in T, x \notin ToSet(s)
    PROVE  /\ \A m, n : Before(s, m, n) => Before(Append(s, x), m, n)
           /\ \A m \in ToSet(s) : Before(Append(s, x), m, x)
           /\ \A m, n : Before(Append(s, x), m, n) /\ n # x => Before(s, m, n)
           /\ \A n : ~Before(Append(s, x), x, n)
  <1> DEFINE t == Append(s, x)
  <1>1. /\ t \in Seq(T) /\ Len(s) \in Nat
        /\ DOMAIN s = 1..Len(s) /\ DOMAIN t = 1..(Len(s) + 1)
        /\ t[Len(s) + 1] = x
        /\ \A i \in 1..Len(s) : t[i] = s[i]
    BY AppendFacts
  <1>2. \A i \in DOMAIN s : s[i] # x
    BY DEF ToSet
  <1> HIDE DEF t
  <1>3. ASSUME NEW m, NEW n, Before(s, m, n) PROVE Before(t, m, n)
    BY <1>1, <1>3 DEF Before
  <1>4. ASSUME NEW m \in ToSet(s) PROVE Before(t, m, x)
    <2>1. PICK i \in DOMAIN s : s[i] = m
      BY DEF ToSet
    <2> QED BY <1>1, <2>1 DEF Before
  <1>5. ASSUME NEW i \in DOMAIN t, NEW j \in DOMAIN t, i < j
        PROVE  i \in DOMAIN s /\ t[i] = s[i] /\ t[i] # x /\ (t[j] # x => j \in DOMAIN s /\ t[j] = s[j])
    BY <1>1, <1>2, <1>5
  <1>6. ASSUME NEW m, NEW n, Before(t, m, n) PROVE m # x /\ (n # x => Before(s, m, n))
    BY <1>5, <1>6 DEF Before
  <1> QED BY <1>3, <1>4, <1>6 DEF t

LEMMA SortedAppend ==
    ASSUME NEW T, NEW s \in Seq(T), NEW x \in T, NEW o, Sorted(s, o), \A m \in ToSet(s) : Before(o, m, x)
    PROVE  Sorted(Append(s, x), o)
  <1> DEFINE t == Append(s, x)
  <1>1. /\ t \in Seq(T) /\ Len(s) \in Nat
        /\ DOMAIN s = 1..Len(s) /\ DOMAIN t = 1..(Len(s) + 1)
        /\ t[Len(s) + 1] = x
        /\ \A i \in 1..Len(s) : t[i] = s[i]
    BY AppendFacts
  <1> HIDE DEF t
  <1>2. ASSUME NEW i \in DOMAIN t, NEW j \in DOMAIN t, i < j
        PROVE  Before(o, t[i], t[j])
    <2>1. i \in DOMAIN s /\ t[i] = s[i] /\ t[i] \in ToSet(s)
      BY <1>1, <1>2 DEF ToSet
    <2>2. CASE j \in DOMAIN s
      BY <1>1, <1>2, <2>1, <2>2 DEF Sorted
    <2>3. CASE j \notin DOMAIN s
      <3>1. t[j] = x
        BY <1>1, <2>3
      <3> QED BY <2>1, <3>1
    <2> QED BY <2>2, <2>3
  <1> QED BY <1>2 DEF Sorted, t

LEMMA ThinFacts ==
    ASSUME NEW w \in Seq(Messages), NEW l \in Seq(Messages), NEW D, Thins(w, l, D)
    PROVE  /\ \A o : Sorted(l, o) => Sorted(w, o)
           /\ IsInjective(l) => IsInjective(w)
  <1>0. DOMAIN w \subseteq Nat /\ DOMAIN l \subseteq Nat
    OBVIOUS
  <1>1. \A i, j \in DOMAIN w : i < j => \E a, b \in DOMAIN l : a < b /\ l[a] = w[i] /\ l[b] = w[j]
    BY DEF Thins
  <1>2. ASSUME NEW o, Sorted(l, o) PROVE Sorted(w, o)
    <2> SUFFICES ASSUME NEW i \in DOMAIN w, NEW j \in DOMAIN w, i < j
                 PROVE  Before(o, w[i], w[j])
      BY DEF Sorted
    <2>1. PICK a \in DOMAIN l, b \in DOMAIN l : a < b /\ l[a] = w[i] /\ l[b] = w[j]
      BY <1>1
    <2>2. Before(o, l[a], l[b])
      BY <1>2, <2>1 DEF Sorted
    <2> QED BY <2>1, <2>2
  <1>3. ASSUME IsInjective(l), NEW i \in DOMAIN w, NEW j \in DOMAIN w, w[i] = w[j], i < j
        PROVE  FALSE
    <2>1. PICK a \in DOMAIN l, b \in DOMAIN l : a < b /\ l[a] = w[i] /\ l[b] = w[j]
      BY <1>1, <1>3
    <2>2. a = b
      BY <1>3, <2>1 DEF IsInjective
    <2> QED BY <1>0, <2>1, <2>2
  <1>4. ASSUME IsInjective(l), NEW i \in DOMAIN w, NEW j \in DOMAIN w, w[i] = w[j]
        PROVE  i = j
    <2>1. i < j \/ j < i \/ i = j
      BY <1>0
    <2> QED BY <2>1, <1>3, <1>4
  <1> QED BY <1>2, <1>4 DEF IsInjective

(* Sorted sequences say which element is ahead. *)
LEMMA SortedAhead ==
    ASSUME NEW s \in Seq(Messages), NEW o \in Seq(Messages), IsInjective(o), Sorted(s, o),
           NEW i \in DOMAIN s, NEW j \in DOMAIN s, Before(o, s[j], s[i])
    PROVE  j < i
  <1>1. ~Before(o, s[i], s[j]) /\ s[i] # s[j]
    BY BeforeFacts
  <1>2. ~(i < j) /\ i # j
    BY <1>1 DEF Sorted
  <1> QED BY <1>2

-----------------------------------------------------------------------------
(* Inboxes. *)

LEMMA NotMessages == StopWhenIdle \notin Messages /\ StopHard \notin Messages /\ "none" \notin Messages
  BY MessagesAssumption

(* What else is asked of the run changes nothing for its messages. *)
LEMMA AppendRequest ==
    ASSUME NEW inbox \in Seq(Inputs), NEW p, NEW lg, NEW x \in Inputs, x \notin Messages
    PROVE  /\ InboxOwned(inbox, p, lg) => InboxOwned(Append(inbox, x), p, lg)
           /\ \A o : InboxFirst(inbox, p, o) => InboxFirst(Append(inbox, x), p, o)
           /\ ToSet(inbox) \subseteq ToSet(Append(inbox, x))
  <1> DEFINE t == Append(inbox, x)
  <1>1. /\ Len(inbox) \in Nat
        /\ DOMAIN inbox = 1..Len(inbox) /\ DOMAIN t = 1..(Len(inbox) + 1)
        /\ t[Len(inbox) + 1] = x
        /\ \A i \in 1..Len(inbox) : t[i] = inbox[i]
    BY AppendFacts
  <1> HIDE DEF t
  <1>2. ASSUME NEW i \in DOMAIN t, t[i] \in Messages
        PROVE  i \in DOMAIN inbox /\ t[i] = inbox[i]
    BY <1>1, <1>2
  <1>3. ASSUME NEW i \in DOMAIN inbox PROVE i \in DOMAIN t /\ t[i] = inbox[i]
    BY <1>1
  <1>4. InboxOwned(inbox, p, lg) => InboxOwned(t, p, lg)
    BY <1>2 DEF InboxOwned
  <1>5. ASSUME NEW o, InboxFirst(inbox, p, o) PROVE InboxFirst(t, p, o)
    BY <1>2, <1>3, <1>5 DEF InboxFirst
  <1>6. ToSet(inbox) \subseteq ToSet(t)
    BY <1>3 DEF ToSet
  <1> QED BY <1>4, <1>5, <1>6 DEF t

(* A message that is new to the chat and to the log joins a run. *)
LEMMA AppendMessage ==
    ASSUME NEW inbox \in Seq(Inputs), NEW p \in Seq(Messages), NEW lg, NEW x \in Messages,
           InboxOwned(inbox, p, lg), x \notin ToSet(p), x \notin ToSet(lg)
    PROVE  /\ InboxOwned(inbox, Append(p, x), lg)
           /\ InboxOwned(Append(inbox, x), Append(p, x), lg)
  <1> DEFINE t == Append(inbox, x)
  <1>0. x \in Inputs
    BY DEF Inputs
  <1>1. /\ Len(inbox) \in Nat
        /\ DOMAIN inbox = 1..Len(inbox) /\ DOMAIN t = 1..(Len(inbox) + 1)
        /\ t[Len(inbox) + 1] = x
        /\ \A i \in 1..Len(inbox) : t[i] = inbox[i]
    BY <1>0, AppendFacts
  <1>2. ToSet(Append(p, x)) = ToSet(p) \cup {x}
    BY SetOfAppend
  <1>3. InboxOwned(inbox, Append(p, x), lg)
    BY <1>2 DEF InboxOwned
  <1>4. \A i \in DOMAIN inbox : inbox[i] # x
    BY DEF InboxOwned
  <1> HIDE DEF t
  <1>5. ASSUME NEW i \in DOMAIN t, t[i] \in Messages
        PROVE  /\ t[i] \in ToSet(Append(p, x)) /\ t[i] \notin ToSet(lg)
               /\ \A j \in DOMAIN t : t[j] = t[i] => j = i
    <2>1. CASE i \in DOMAIN inbox
      <3>1. t[i] = inbox[i] /\ inbox[i] \in Messages
        BY <1>1, <1>5, <2>1
      <3>2. ASSUME NEW j \in DOMAIN t, t[j] = t[i] PROVE j = i
        <4>1. j \in DOMAIN inbox /\ inbox[j] = inbox[i]
          BY <1>1, <1>4, <2>1, <3>1, <3>2
        <4> QED BY <4>1, <2>1, <3>1 DEF InboxOwned
      <3> QED BY <3>1, <3>2, <2>1, <1>2 DEF InboxOwned
    <2>2. CASE i \notin DOMAIN inbox
      <3>1. i = Len(inbox) + 1 /\ t[i] = x
        BY <1>1, <2>2
      <3> QED BY <3>1, <1>1, <1>2, <1>4
    <2> QED BY <2>1, <2>2
  <1> QED BY <1>3, <1>5 DEF InboxOwned, t

LEMMA TailFacts ==
    ASSUME NEW inbox \in Seq(Inputs), inbox # << >>
    PROVE  /\ Tail(inbox) \in Seq(Inputs) /\ Head(inbox) \in Inputs
           /\ 1 \in DOMAIN inbox /\ Head(inbox) = inbox[1] /\ DOMAIN inbox \subseteq Nat
           /\ \A i \in DOMAIN Tail(inbox) : i + 1 \in DOMAIN inbox /\ Tail(inbox)[i] = inbox[i + 1]
           /\ \A i \in DOMAIN inbox : i # 1 => i - 1 \in DOMAIN Tail(inbox) /\ Tail(inbox)[i - 1] = inbox[i]
           /\ DOMAIN Tail(inbox) \subseteq Nat
  <1>1. Len(inbox) \in Nat \ {0} /\ DOMAIN inbox = 1..Len(inbox)
    OBVIOUS
  <1>2. /\ Tail(inbox) \in Seq(Inputs) /\ Len(Tail(inbox)) = Len(inbox) - 1
        /\ DOMAIN Tail(inbox) = 1..(Len(inbox) - 1)
        /\ \A i \in 1..(Len(inbox) - 1) : Tail(inbox)[i] = inbox[i + 1]
    BY <1>1
  <1>3. Head(inbox) = inbox[1] /\ inbox[1] \in Inputs
    BY <1>1
  <1> DEFINE n == Len(inbox)
             t == Tail(inbox)
  <1> HIDE DEF n, t
  <1>4. /\ n \in Nat \ {0} /\ DOMAIN inbox = 1..n /\ DOMAIN t = 1..(n - 1)
        /\ \A i \in 1..(n - 1) : t[i] = inbox[i + 1]
    BY <1>1, <1>2 DEF n, t
  <1>5. ASSUME NEW i \in DOMAIN inbox, i # 1
        PROVE  i - 1 \in DOMAIN t /\ t[i - 1] = inbox[i]
    <2>1. i - 1 \in 1..(n - 1) /\ (i - 1) + 1 = i
      BY <1>4, <1>5
    <2> QED BY <1>4, <2>1
  <1> QED BY <1>2, <1>3, <1>4, <1>5 DEF n, t

(* The rest of the inbox, once its first input has been read. *)
LEMMA TailOwned ==
    ASSUME NEW inbox \in Seq(Inputs), inbox # << >>, NEW p, NEW lg, InboxOwned(inbox, p, lg)
    PROVE  /\ InboxOwned(Tail(inbox), p, lg)
           /\ Head(inbox) \in Messages => \A i \in DOMAIN Tail(inbox) : Tail(inbox)[i] # Head(inbox)
  <1> DEFINE t == Tail(inbox)
  <1>1. /\ 1 \in DOMAIN inbox /\ Head(inbox) = inbox[1]
        /\ \A i \in DOMAIN t : i + 1 \in DOMAIN inbox /\ t[i] = inbox[i + 1]
        /\ DOMAIN t \subseteq Nat
    BY TailFacts
  <1> HIDE DEF t
  <1>2. ASSUME NEW i \in DOMAIN t, t[i] \in Messages
        PROVE  t[i] \in ToSet(p) /\ t[i] \notin ToSet(lg) /\ \A j \in DOMAIN t : t[j] = t[i] => j = i
    <2>1. t[i] \in ToSet(p) /\ t[i] \notin ToSet(lg)
      BY <1>1, <1>2 DEF InboxOwned
    <2>2. ASSUME NEW j \in DOMAIN t, t[j] = t[i] PROVE j = i
      <3>1. j + 1 = i + 1
        BY <1>1, <1>2, <2>2 DEF InboxOwned
      <3> QED BY <3>1, <1>1
    <2> QED BY <2>1, <2>2
  <1>3. ASSUME Head(inbox) \in Messages, NEW i \in DOMAIN t, t[i] = Head(inbox) PROVE FALSE
    <2>1. i + 1 = 1
      BY <1>1, <1>3 DEF InboxOwned
    <2> QED BY <1>1, <2>1
  <1> QED BY <1>2, <1>3 DEF InboxOwned, t

(* A message that is not in an inbox is recorded, and no longer pending. *)
LEMMA RecordedElsewhere ==
    ASSUME NEW inbox, NEW p, NEW q, NEW lg \in Seq(Messages), NEW x \in Messages,
           InboxOwned(inbox, p, lg), \A i \in DOMAIN inbox : inbox[i] # x,
           ToSet(p) \ {x} \subseteq ToSet(q)
    PROVE  InboxOwned(inbox, q, Append(lg, x))
  <1>1. ToSet(Append(lg, x)) = ToSet(lg) \cup {x}
    BY SetOfAppend
  <1> QED BY <1>1 DEF InboxOwned

LEMMA TailFirst ==
    ASSUME NEW inbox \in Seq(Inputs), inbox # << >>, NEW p \in Seq(Messages), NEW q, NEW o,
           InboxFirst(inbox, p, o), ToSet(q) \subseteq ToSet(p), Head(inbox) \notin ToSet(q)
    PROVE  InboxFirst(Tail(inbox), q, o)
  <1> DEFINE t == Tail(inbox)
  <1>1. /\ 1 \in DOMAIN inbox /\ Head(inbox) = inbox[1] /\ DOMAIN inbox \subseteq Nat
        /\ \A i \in DOMAIN t : i + 1 \in DOMAIN inbox /\ t[i] = inbox[i + 1]
        /\ \A i \in DOMAIN inbox : i # 1 => i - 1 \in DOMAIN t /\ t[i - 1] = inbox[i]
        /\ DOMAIN t \subseteq Nat
    BY TailFacts
  <1> HIDE DEF t
  <1>2. ASSUME NEW i \in DOMAIN t, NEW m \in ToSet(q), t[i] \in Messages, Before(o, m, t[i])
        PROVE  \E j \in DOMAIN t : j < i /\ t[j] = m
    <2>1. PICK j \in DOMAIN inbox : j < i + 1 /\ inbox[j] = m
      BY <1>1, <1>2 DEF InboxFirst
    <2>2. j # 1
      BY <1>1, <2>1
    <2>3. j - 1 \in DOMAIN t /\ t[j - 1] = m
      BY <1>1, <2>1, <2>2
    <2>4. j - 1 < i
      BY <1>1, <2>1
    <2> QED BY <2>3, <2>4
  <1> QED BY <1>2 DEF InboxFirst, t

-----------------------------------------------------------------------------
(* Chats. *)

(* A message accepted for another chat leaves a chat owned and ordered. *)
LEMMA AcceptElsewhere ==
    ASSUME NEW ch \in ChatType, NEW r \in RunType, NEW lg, NEW o \in Seq(Messages),
           NEW x \in Messages, x \notin ToSet(o), ChatOwned(ch, r, lg, o)
    PROVE  /\ ChatOwned(ch, r, lg, Append(o, x))
           /\ ChatOrdered(ch, r, lg, o) => ChatOrdered(ch, r, lg, Append(o, x))
  <1> DEFINE u == Append(o, x)
  <1>1. ToSet(u) = ToSet(o) \cup {x}
    BY SetOfAppend
  <1>2. /\ \A m, n : Before(o, m, n) => Before(u, m, n)
        /\ \A m, n : Before(u, m, n) /\ n # x => Before(o, m, n)
    BY BeforeAppend
  <1> HIDE DEF u
  <1>3. ChatOwned(ch, r, lg, u)
    BY <1>1 DEF ChatOwned
  <1>4. ASSUME ChatOrdered(ch, r, lg, o) PROVE ChatOrdered(ch, r, lg, u)
    <2>1. Sorted(ch.pending, u)
      BY <1>2, <1>4 DEF ChatOrdered, Sorted
    <2>2. \A m \in ToSet(lg), q \in ToSet(ch.pending) : Before(u, m, q)
      BY <1>2, <1>4 DEF ChatOrdered
    <2>3. \A i \in DOMAIN r.inbox : r.inbox[i] \in Messages => r.inbox[i] # x
      BY DEF ChatOwned, InboxOwned
    <2>4. InboxFirst(r.inbox, ch.pending, u)
      BY <1>2, <1>4, <2>3 DEF ChatOrdered, InboxFirst
    <2> QED BY <1>4, <2>1, <2>2, <2>4 DEF ChatOrdered
  <1> QED BY <1>3, <1>4 DEF u

(* A message is accepted for a chat: it is pending there, after all others. *)
LEMMA PendingMore ==
    ASSUME NEW p \in Seq(Messages), NEW o \in Seq(Messages), NEW x \in Messages, x \notin ToSet(o),
           ToSet(p) \subseteq ToSet(o), IsInjective(p)
    PROVE  /\ Append(p, x) \in Seq(Messages) /\ Append(o, x) \in Seq(Messages)
           /\ ToSet(Append(p, x)) = ToSet(p) \cup {x}
           /\ ToSet(Append(o, x)) = ToSet(o) \cup {x}
           /\ IsInjective(Append(p, x))
           /\ Sorted(p, o) => Sorted(Append(p, x), Append(o, x))
  <1>1. /\ Append(p, x) \in Seq(Messages) /\ Append(o, x) \in Seq(Messages)
        /\ ToSet(Append(p, x)) = ToSet(p) \cup {x}
        /\ ToSet(Append(o, x)) = ToSet(o) \cup {x}
    BY SetOfAppend, AppendFacts
  <1>2. IsInjective(Append(p, x))
    BY InjectiveAppend
  <1>3. ASSUME Sorted(p, o) PROVE Sorted(Append(p, x), Append(o, x))
    <2>1. /\ \A m, n : Before(o, m, n) => Before(Append(o, x), m, n)
          /\ \A m \in ToSet(o) : Before(Append(o, x), m, x)
      BY BeforeAppend
    <2> DEFINE u == Append(o, x)
    <2> HIDE DEF u
    <2>2. Sorted(p, u)
      BY <1>3, <2>1 DEF Sorted, u
    <2>3. \A m \in ToSet(p) : Before(u, m, x)
      BY <2>1 DEF u
    <2>4. Sorted(Append(p, x), u)
      BY <2>2, <2>3, SortedAppend
    <2> QED BY <2>4 DEF u
  <1> QED BY <1>1, <1>2, <1>3

(* prepareRun gives a run all that is pending and not recorded. *)
LEMMA PreparedFacts ==
    ASSUME log \in Seq(Messages), NEW p \in Seq(Messages), IsInjective(p)
    PROVE  /\ Prepared(p) \in RunType /\ Prepared(p).at = "running"
           /\ InboxOwned(Prepared(p).inbox, p, log)
           /\ \A o \in Seq(Messages) :
                IsInjective(o) /\ Sorted(p, o) /\ ToSet(p) \cap ToSet(log) = {}
                  => /\ InboxFirst(Prepared(p).inbox, p, o)
                     /\ ToSet(p) \subseteq ToSet(Prepared(p).inbox)
  <1> DEFINE w == Unrecorded(p)
             b == Append(w, StopWhenIdle)
  <1>1. w \in Seq(Messages) /\ Thins(w, p, ToSet(log))
    BY WithoutFacts DEF Unrecorded
  <1>2. Prepared(p).inbox = b /\ Prepared(p).at = "running"
    BY DEF Prepared, NoRun
  <1> HIDE DEF w
  <1>3. w \in Seq(Inputs) /\ StopWhenIdle \in Inputs /\ StopWhenIdle \notin Messages
    BY <1>1, NotMessages DEF Inputs
  <1>4. b \in Seq(Inputs)
    BY <1>3
  <1>5. Prepared(p) \in RunType
    BY <1>4 DEF Prepared, NoRun, RunType, w
  <1>6. InboxOwned(w, p, log)
    <2>1. IsInjective(w)
      BY <1>1, ThinFacts
    <2>2. ToSet(w) = ToSet(p) \ ToSet(log)
      BY <1>1 DEF Thins
    <2> QED BY <2>1, <2>2 DEF InboxOwned, IsInjective, ToSet
  <1>7. ASSUME NEW o \in Seq(Messages), IsInjective(o), Sorted(p, o), ToSet(p) \cap ToSet(log) = {}
        PROVE  InboxFirst(w, p, o) /\ ToSet(p) \subseteq ToSet(w)
    <2>1. w = p
      BY <1>1, <1>7 DEF Thins
    <2>2. InboxFirst(p, p, o)
      <3> SUFFICES ASSUME NEW i \in DOMAIN p, NEW m \in ToSet(p), Before(o, m, p[i])
                   PROVE  \E j \in DOMAIN p : j < i /\ p[j] = m
        BY DEF InboxFirst
      <3>1. PICK j \in DOMAIN p : p[j] = m
        BY DEF ToSet
      <3>2. j < i
        BY <1>7, <3>1, SortedAhead
      <3> QED BY <3>1, <3>2
    <2> QED BY <2>1, <2>2
  <1>8. /\ InboxOwned(w, p, log) => InboxOwned(b, p, log)
        /\ \A o : InboxFirst(w, p, o) => InboxFirst(b, p, o)
        /\ ToSet(w) \subseteq ToSet(b)
    BY <1>3, AppendRequest
  <1> HIDE DEF b
  <1> QED BY <1>2, <1>5, <1>6, <1>7, <1>8

(* A run that starts with what is pending. *)
LEMMA StartFacts ==
    ASSUME log \in Seq(Messages), NEW ch \in ChatType, NEW o \in Seq(Messages), IsInjective(o),
           ToSet(ch.pending) \subseteq ToSet(o), IsInjective(ch.pending)
    PROVE  /\ ChatOwned(ch, Prepared(ch.pending), log, o)
           /\ Sorted(ch.pending, o) /\ (\A m \in ToSet(log), p \in ToSet(ch.pending) : Before(o, m, p))
                => ChatOrdered(ch, Prepared(ch.pending), log, o)
  <1> DEFINE p == ch.pending
  <1>0. p \in Seq(Messages)
    BY DEF ChatType
  <1>1. /\ InboxOwned(Prepared(p).inbox, p, log)
        /\ IsInjective(o) /\ Sorted(p, o) /\ ToSet(p) \cap ToSet(log) = {}
              => /\ InboxFirst(Prepared(p).inbox, p, o)
                 /\ ToSet(p) \subseteq ToSet(Prepared(p).inbox)
    BY <1>0, PreparedFacts
  <1>2. (\A m \in ToSet(log), q \in ToSet(p) : Before(o, m, q)) => ToSet(p) \cap ToSet(log) = {}
    <2>1. \A m, n : Before(o, m, n) => m # n
      BY BeforeFacts
    <2> QED BY <2>1
  <1> QED BY <1>1, <1>2 DEF ChatOwned, ChatOrdered

(* A message joins a run, or finds its context done. *)
LEMMA JoinFacts ==
    ASSUME NEW p \in Seq(Messages), NEW q \in Seq(Messages), NEW inbox \in Seq(Inputs),
           NEW o \in Seq(Messages), NEW x \in Messages, x \notin ToSet(o),
           q = Append(p, x), ToSet(p) \subseteq ToSet(o), NEW lg, InboxOwned(inbox, p, lg),
           InboxFirst(inbox, p, o)
    PROVE  /\ InboxFirst(inbox, q, Append(o, x))
           /\ ToSet(p) \subseteq ToSet(inbox) =>
                /\ InboxFirst(Append(inbox, x), q, Append(o, x))
                /\ ToSet(q) \subseteq ToSet(Append(inbox, x))
  <1> DEFINE u == Append(o, x)
             t == Append(inbox, x)
  <1>1. ToSet(q) = ToSet(p) \cup {x}
    BY SetOfAppend
  <1>2. /\ \A m, n : Before(u, m, n) /\ n # x => Before(o, m, n)
        /\ \A n : ~Before(u, x, n)
    BY BeforeAppend
  <1>3. \A i \in DOMAIN inbox : inbox[i] \in Messages => inbox[i] # x
    BY DEF InboxOwned
  <1>4. x \in Inputs
    BY DEF Inputs
  <1>5. /\ Len(inbox) \in Nat
        /\ DOMAIN inbox = 1..Len(inbox) /\ DOMAIN t = 1..(Len(inbox) + 1)
        /\ t[Len(inbox) + 1] = x
        /\ \A i \in 1..Len(inbox) : t[i] = inbox[i]
    BY <1>4, AppendFacts
  <1>6. ToSet(t) = ToSet(inbox) \cup {x}
    BY <1>4, SetOfAppend
  <1> HIDE DEF u, t
  <1>7. ASSUME NEW i \in DOMAIN inbox, NEW m \in ToSet(q), inbox[i] \in Messages, Before(u, m, inbox[i])
        PROVE  \E j \in DOMAIN inbox : j < i /\ inbox[j] = m
    <2>1. m \in ToSet(p) /\ Before(o, m, inbox[i])
      BY <1>1, <1>2, <1>3, <1>7
    <2> QED BY <1>7, <2>1 DEF InboxFirst
  <1>8. ASSUME ToSet(p) \subseteq ToSet(inbox),
               NEW i \in DOMAIN t, NEW m \in ToSet(q), t[i] \in Messages, Before(u, m, t[i])
        PROVE  \E j \in DOMAIN t : j < i /\ t[j] = m
    <2>1. CASE i \in DOMAIN inbox
      <3>1. t[i] = inbox[i]
        BY <1>5, <2>1
      <3>2. PICK j \in DOMAIN inbox : j < i /\ inbox[j] = m
        BY <1>7, <1>8, <2>1, <3>1
      <3> QED BY <1>5, <3>2
    <2>2. CASE i \notin DOMAIN inbox
      <3>1. i = Len(inbox) + 1
        BY <1>5, <2>2
      <3>2. m \in ToSet(p)
        BY <1>1, <1>2, <1>8
      <3>3. PICK j \in DOMAIN inbox : inbox[j] = m
        BY <1>8, <3>2 DEF ToSet
      <3> QED BY <1>5, <3>1, <3>3
    <2> QED BY <2>1, <2>2
  <1> QED BY <1>1, <1>6, <1>7, <1>8 DEF InboxFirst, u, t

-----------------------------------------------------------------------------
(* What the steps have in common. *)

LEMMA EmptyFacts ==
    /\ ToSet(<< >>) = {} /\ IsInjective(<< >>)
    /\ \A o : Sorted(<< >>, o)
    /\ \A p, lg : InboxOwned(<< >>, p, lg)
    /\ \A p, o : InboxFirst(<< >>, p, o)
  BY DEF ToSet, IsInjective, Sorted, InboxOwned, InboxFirst

LEMMA InitIInv == Init => IInv
  <1> SUFFICES ASSUME Init PROVE IInv
    OBVIOUS
  <1>1. /\ \A c \in Chats : chat[c] = [NewChat EXCEPT !.made = FALSE] /\ run[c] = NoRun
        /\ \A h \in Handlers : handler[h] = Idle
    BY DEF Init
  <1>2. /\ [NewChat EXCEPT !.made = FALSE] \in ChatType
        /\ Idle \in HandlerType
        /\ << >> \in Seq(Messages) /\ << >> \in Seq(Inputs)
    <2>1. << >> \in Seq(Messages) /\ << >> \in Seq(Inputs)
      OBVIOUS
    <2>2. Idle \in HandlerType
      BY DEF HandlerType, Idle
    <2>3. [NewChat EXCEPT !.made = FALSE] \in ChatType
      BY <2>1 DEF ChatType, NewChat
    <2> QED BY <2>1, <2>2, <2>3
  <1>3. NoRun \in RunType
    BY <1>2 DEF NoRun, RunType
  <1>4. Types
    <2>1. bounds \in [failures : Nat, deletes : Nat, stops : Nat, commands : Nat]
      BY DEF Init
    <2>2. chat \in [Chats -> ChatType] /\ run \in [Chats -> RunType] /\ handler \in [Handlers -> HandlerType]
      BY <1>2, <1>3 DEF Init
    <2> QED BY <1>2, <2>1, <2>2 DEF Init, Types
  <1>5. /\ \A c \in Chats : /\ chat[c].pending = << >> /\ ~chat[c].made /\ ~chat[c].running
                            /\ ~chat[c].stopped
                            /\ run[c].at = "none" /\ run[c].inbox = << >>
        /\ \A h \in Handlers : handler[h].at = "idle" /\ handler[h].op = "none"
    BY <1>1 DEF NewChat, NoRun, Idle
  <1>6. Lifecycle /\ Requests
    BY <1>5 DEF Lifecycle, Requests
  <1>7. Deleting
    BY <1>5 DEF Init, Deleting
  <1>8. log = << >> /\ accepted = << >> /\ rejected = {}
    BY DEF Init
  <1>9. Owned
    BY <1>5, <1>8, EmptyFacts DEF Owned, ChatOwned
  <1>10. Kept
    BY <1>5, <1>8, EmptyFacts DEF Kept, AcceptedIsKept
  <1>11. InOrder
    BY <1>5, <1>8, EmptyFacts DEF InOrder, ChatOrdered
  <1> QED BY <1>4, <1>6, <1>7, <1>9, <1>10, <1>11 DEF IInv

LEMMA CountFacts ==
    ASSUME Types, NEW what \in {"failures", "deletes", "stops", "commands"}, Count(what)
    PROVE  /\ bounds' \in [failures : Nat, deletes : Nat, stops : Nat, commands : Nat]
           /\ what # "deletes" => bounds'.deletes = bounds.deletes
           /\ what = "deletes" => bounds'.deletes # 0
  <1>1. /\ bounds \in [failures : Nat, deletes : Nat, stops : Nat, commands : Nat]
        /\ bounds' = [bounds EXCEPT ![what] = @ + 1]
    BY DEF Types, Count
  <1>2. CASE what = "failures"
    BY <1>1, <1>2
  <1>3. CASE what = "deletes"
    BY <1>1, <1>3
  <1>4. CASE what = "stops"
    BY <1>1, <1>4
  <1>5. CASE what = "commands"
    BY <1>1, <1>5
  <1> QED BY <1>2, <1>3, <1>4, <1>5

LEMMA StartFailsFacts ==
    ASSUME Types, StartFails
    PROVE  /\ bounds' \in [failures : Nat, deletes : Nat, stops : Nat, commands : Nat]
           /\ bounds'.deletes = bounds.deletes
  BY CountFacts DEF StartFails, Types

(* Steps of a handler before it has its chat, or of one that deletes. *)
LEMMA MessagesUntouched ==
    ASSUME IInv, UNCHANGED <<log, chat, run, accepted, rejected, interrupted, late>>,
           bounds'.deletes = 0 => bounds.deletes = 0
    PROVE  Lifecycle' /\ Owned' /\ Kept' /\ (bounds'.deletes = 0 => InOrder')
  <1>1. Lifecycle'
    BY DEF IInv, Lifecycle
  <1>2. Owned'
    BY DEF IInv, Owned
  <1>3. Kept'
    BY DEF IInv, Kept, AcceptedIsKept, Held
  <1>4. bounds'.deletes = 0 => InOrder'
    BY DEF IInv, InOrder
  <1> QED BY <1>1, <1>2, <1>3, <1>4

(* Steps that change neither the chats that were made nor the session. *)
SameSession ==
    /\ UNCHANGED <<listed, file, current>>
    /\ \A c \in Chats : chat'[c].made = chat[c].made
    /\ bounds'.deletes = bounds.deletes

LEMMA HandlersUntouched ==
    ASSUME IInv, SameSession, UNCHANGED <<handler, accepted, rejected>>
    PROVE  Requests' /\ Deleting'
  <1>1. Requests'
    BY DEF IInv, Types, Requests, SameSession, HandlerType
  <1>2. Deleting'
    BY DEF IInv, Types, Deleting, SameSession, NobodyDrops
  <1> QED BY <1>1, <1>2

(* A handler has done its work; it alone may have settled its message. *)
LEMMA ReturnFacts ==
    ASSUME IInv, SameSession, NEW h \in Handlers, handler[h].at = "chat", Return(h),
           \/ UNCHANGED <<accepted, rejected>>
           \/ /\ handler[h].op = "send"
              /\ ToSet(accepted') \cup rejected' \subseteq ToSet(accepted) \cup rejected \cup {handler[h].text}
    PROVE  handler' \in [Handlers -> HandlerType] /\ Requests' /\ Deleting'
  <1>1. handler' \in [Handlers -> HandlerType]
    BY DEF IInv, Types, Return, Idle, HandlerType
  <1>2. /\ handler'[h].at = "idle" /\ handler'[h].op = "none"
        /\ \A k \in Handlers : k # h => handler'[k] = handler[k]
    BY DEF IInv, Types, Return, Idle
  <1>3. Requests'
    <2> SUFFICES ASSUME NEW k \in Handlers, k # h
                 PROVE  /\ handler'[k].at = "chat" => handler'[k].chat \in Chats /\ chat'[handler'[k].chat].made
                        /\ handler'[k].at \in {"dropped", "unlisted"} => handler'[k].op = "delete"
                        /\ handler'[k].op = "send" =>
                             /\ handler'[k].text \in Messages
                             /\ handler'[k].text \notin ToSet(accepted') \cup rejected'
                             /\ \A l \in Handlers : handler'[l].op = "send" /\ l # k
                                                      => handler'[l].text # handler'[k].text
      BY <1>2 DEF Requests
    <2>1. handler'[k] = handler[k]
      BY <1>2
    <2>2. handler[k].at = "chat" => handler[k].chat \in Chats /\ chat'[handler[k].chat].made
      BY DEF IInv, Requests, SameSession
    <2>3. ASSUME handler[k].op = "send"
          PROVE  /\ handler[k].text \in Messages
                 /\ handler[k].text \notin ToSet(accepted') \cup rejected'
                 /\ \A l \in Handlers : handler'[l].op = "send" /\ l # k
                                          => handler'[l].text # handler[k].text
      <3>1. /\ handler[k].text \in Messages
            /\ handler[k].text \notin ToSet(accepted) \cup rejected
            /\ \A l \in Handlers : handler[l].op = "send" /\ l # k => handler[l].text # handler[k].text
        BY <2>3 DEF IInv, Requests
      <3> QED BY <3>1, <1>2
    <2> QED BY <2>1, <2>2, <2>3 DEF IInv, Requests
  <1>4. Deleting'
    <2>1. NobodyDrops' => NobodyDrops
      BY <1>2 DEF NobodyDrops
    <2>2. (\A k \in Handlers : handler[k].op # "delete") => \A k \in Handlers : handler'[k].op # "delete"
      BY <1>2
    <2>3. current' # NoChat => chat'[current'].made
      BY DEF IInv, Types, Deleting, SameSession
    <2>4. listed' /\ NobodyDrops' => \A c \in Chats : chat'[c].made => c = current'
      BY <2>1 DEF IInv, Deleting, SameSession
    <2>5. bounds'.deletes = 0 => listed' /\ file' /\ \A k \in Handlers : handler'[k].op # "delete"
      BY <2>2 DEF IInv, Deleting, SameSession
    <2> QED BY <2>3, <2>4, <2>5 DEF Deleting
  <1> QED BY <1>1, <1>3, <1>4

(* One chat changes and nothing is recorded. *)
OneChat(c) ==
    /\ chat' \in [Chats -> ChatType] /\ run' \in [Chats -> RunType]
    /\ log' = log
    /\ \A d \in Chats : d # c => chat'[d] = chat[d] /\ run'[d] = run[d]

LEMMA OneChatAccepts ==
    ASSUME IInv, NEW c \in Chats, OneChat(c), NEW x \in Messages,
           x \notin ToSet(accepted), x \notin rejected,
           accepted' = Append(accepted, x), rejected' = rejected,
           ToSet(chat'[c].pending) = ToSet(chat[c].pending) \cup {x},
           ChatOwned(chat'[c], run'[c], log, accepted')
    PROVE  /\ Owned'
           /\ InOrder /\ ChatOrdered(chat'[c], run'[c], log, accepted') => InOrder'
  <1>0. /\ accepted \in Seq(Messages) /\ IsInjective(accepted) /\ IsInjective(log)
        /\ ToSet(accepted) \cap rejected = {} /\ ToSet(log) \subseteq ToSet(accepted)
        /\ \A d \in Chats : ChatOwned(chat[d], run[d], log, accepted)
        /\ \A d, e \in Chats : e # d => ToSet(chat[d].pending) \cap ToSet(chat[e].pending) = {}
    BY DEF IInv, Types, Owned
  <1>1. ToSet(accepted') = ToSet(accepted) \cup {x} /\ IsInjective(accepted')
    BY <1>0, SetOfAppend, InjectiveAppend
  <1>2. ASSUME NEW d \in Chats, d # c
        PROVE  /\ ChatOwned(chat'[d], run'[d], log, accepted')
               /\ ChatOrdered(chat[d], run[d], log, accepted) => ChatOrdered(chat'[d], run'[d], log, accepted')
    <2>1. chat'[d] = chat[d] /\ run'[d] = run[d] /\ chat[d] \in ChatType /\ run[d] \in RunType
      BY <1>2 DEF OneChat, IInv, Types
    <2>2. /\ ChatOwned(chat[d], run[d], log, Append(accepted, x))
          /\ ChatOrdered(chat[d], run[d], log, accepted) => ChatOrdered(chat[d], run[d], log, Append(accepted, x))
      BY <1>0, <2>1, AcceptElsewhere
    <2> QED BY <2>1, <2>2
  <1>3. \A d \in Chats : x \notin ToSet(chat[d].pending)
    BY <1>0 DEF ChatOwned
  <1>4. \A d, e \in Chats : e # d => ToSet(chat'[d].pending) \cap ToSet(chat'[e].pending) = {}
    <2> DEFINE P(d) == ToSet(chat[d].pending)
               Q(d) == ToSet(chat'[d].pending)
    <2>1. \A d \in Chats : d # c => Q(d) = P(d)
      BY DEF OneChat
    <2>2. Q(c) = P(c) \cup {x}
      OBVIOUS
    <2>3. \A d, e \in Chats : e # d => P(d) \cap P(e) = {}
      BY <1>0
    <2>4. \A d \in Chats : x \notin P(d)
      BY <1>3
    <2> HIDE DEF P, Q
    <2>5. \A d, e \in Chats : e # d => Q(d) \cap Q(e) = {}
      BY <2>1, <2>2, <2>3, <2>4
    <2> QED BY <2>5 DEF Q
  <1>5. Owned'
    <2>1. \A d \in Chats : ChatOwned(chat'[d], run'[d], log', accepted')
      BY <1>2 DEF OneChat
    <2>2. IsInjective(log') /\ ToSet(log') \subseteq ToSet(accepted') /\ ToSet(accepted') \cap rejected' = {}
      BY <1>0, <1>1 DEF OneChat
    <2> QED BY <1>1, <1>4, <2>1, <2>2 DEF Owned
  <1>6. ASSUME InOrder, ChatOrdered(chat'[c], run'[c], log, accepted') PROVE InOrder'
    <2>1. \A m, n : Before(accepted, m, n) => Before(accepted', m, n)
      BY <1>0, BeforeAppend
    <2>2. Sorted(log', accepted')
      BY <1>6, <2>1 DEF InOrder, Sorted, OneChat
    <2>3. \A d \in Chats : ChatOrdered(chat'[d], run'[d], log', accepted')
      BY <1>2, <1>6 DEF InOrder, OneChat
    <2> QED BY <2>2, <2>3 DEF InOrder
  <1> QED BY <1>5, <1>6

LEMMA OneChatKeeps ==
    ASSUME IInv, NEW c \in Chats, OneChat(c), accepted' = accepted,
           ToSet(accepted) \cap rejected' = {},
           ToSet(chat'[c].pending) \subseteq ToSet(chat[c].pending),
           ChatOwned(chat'[c], run'[c], log, accepted)
    PROVE  /\ Owned'
           /\ InOrder /\ ChatOrdered(chat'[c], run'[c], log, accepted) => InOrder'
  <1>0. /\ IsInjective(accepted) /\ IsInjective(log) /\ ToSet(log) \subseteq ToSet(accepted)
        /\ \A d \in Chats : ChatOwned(chat[d], run[d], log, accepted)
        /\ \A d, e \in Chats : e # d => ToSet(chat[d].pending) \cap ToSet(chat[e].pending) = {}
    BY DEF IInv, Owned
  <1>1. \A d \in Chats : ChatOwned(chat'[d], run'[d], log, accepted)
    BY <1>0 DEF OneChat
  <1>2. \A d, e \in Chats : e # d => ToSet(chat'[d].pending) \cap ToSet(chat'[e].pending) = {}
    <2>1. \A d \in Chats : ToSet(chat'[d].pending) \subseteq ToSet(chat[d].pending)
      BY DEF OneChat
    <2> QED BY <1>0, <2>1
  <1>3. Owned'
    BY <1>0, <1>1, <1>2 DEF Owned, OneChat
  <1>4. ASSUME InOrder, ChatOrdered(chat'[c], run'[c], log, accepted) PROVE InOrder'
    <2>1. \A d \in Chats : ChatOrdered(chat'[d], run'[d], log, accepted)
      BY <1>4 DEF InOrder, OneChat
    <2> QED BY <1>4, <2>1 DEF InOrder, OneChat
  <1> QED BY <1>3, <1>4

(* What a handler that sends knows of its message and its chat. *)
LEMMA SendKnows ==
    ASSUME IInv, NEW h \in Handlers, AtChat(h, "send")
    PROVE  /\ handler[h].at = "chat" /\ handler[h].op = "send"
           /\ handler[h].chat \in Chats /\ chat[handler[h].chat].made
           /\ handler[h].text \in Messages
           /\ handler[h].text \notin ToSet(accepted) /\ handler[h].text \notin rejected
           /\ handler[h].text \notin ToSet(log)
           /\ \A c \in Chats : handler[h].text \notin ToSet(chat[c].pending)
  <1>1. handler[h].at = "chat" /\ handler[h].op = "send"
    BY DEF AtChat
  <1>2. /\ handler[h].chat \in Chats /\ chat[handler[h].chat].made
        /\ handler[h].text \in Messages
        /\ handler[h].text \notin ToSet(accepted) \cup rejected
    BY <1>1 DEF IInv, Requests
  <1>3. ToSet(log) \subseteq ToSet(accepted) /\ \A c \in Chats : ToSet(chat[c].pending) \subseteq ToSet(accepted)
    BY DEF IInv, Owned, ChatOwned
  <1> QED BY <1>1, <1>2, <1>3

(* Held messages stay held. *)
LEMMA KeptFacts ==
    ASSUME IInv, accepted' = accepted \/ \E x \in Messages : accepted' = Append(accepted, x) /\ Held(x)',
           interrupted \subseteq interrupted', late \subseteq late',
           \A m : Held(m) => Held(m)' \/ m \in interrupted' \cup late',
           \A c \in Chats : chat'[c].stopped => ToSet(chat'[c].pending) \subseteq interrupted' \cup late'
    PROVE  Kept'
  <1>1. \A m \in ToSet(accepted) : Held(m)' \/ m \in interrupted' \cup late'
    BY DEF IInv, Kept, AcceptedIsKept
  <1>2. ASSUME NEW x \in Messages, accepted' = Append(accepted, x), Held(x)'
        PROVE  \A m \in ToSet(accepted') : Held(m)' \/ m \in interrupted' \cup late'
    <2>1. ToSet(accepted') = ToSet(accepted) \cup {x}
      BY <1>2, SetOfAppend DEF IInv, Types
    <2> QED BY <1>1, <1>2, <2>1
  <1>3. \A m \in ToSet(accepted') : Held(m)' \/ m \in interrupted' \cup late'
    BY <1>1, <1>2
  <1> QED BY <1>3 DEF Kept, AcceptedIsKept

-----------------------------------------------------------------------------
(* The steps of the handlers. *)

(* Requests, before and while they find their chat, and deletions. *)
LEMMA RequestIInv ==
    ASSUME IInv, NEW h \in Handlers, Request(h)
    PROVE  IInv'
  <1>0. PICK op \in {"send", "retry"}, m \in Messages \cup {"none"} :
          /\ handler' = [handler EXCEPT ![h] = [at |-> "listed", op |-> op, text |-> m, chat |-> NoChat]]
          /\ op = "send" => m \in Messages \ Known
    BY DEF Request, Asks
  <1>1. handler' \in [Handlers -> HandlerType]
    BY <1>0 DEF IInv, Types, HandlerType
  <1>2. /\ handler'[h].at = "listed" /\ handler'[h].op = op /\ handler'[h].text = m
        /\ \A k \in Handlers : k # h => handler'[k] = handler[k]
    BY <1>0 DEF IInv, Types
  <1>3. op = "send" => m \notin ToSet(accepted) \cup rejected /\ \A k \in Handlers : handler[k].text # m
    BY <1>0 DEF Known
  <1>4. Requests'
    <2>1. UNCHANGED <<chat, accepted, rejected>>
      BY DEF Request, history
    <2>2. ASSUME NEW k \in Handlers, k # h
          PROVE  /\ handler'[k].at = "chat" => handler'[k].chat \in Chats /\ chat'[handler'[k].chat].made
                 /\ handler'[k].at \in {"dropped", "unlisted"} => handler'[k].op = "delete"
                 /\ handler'[k].op = "send" =>
                      /\ handler'[k].text \in Messages
                      /\ handler'[k].text \notin ToSet(accepted') \cup rejected'
                      /\ \A l \in Handlers : handler'[l].op = "send" /\ l # k
                                               => handler'[l].text # handler'[k].text
      BY <1>2, <1>3, <2>1, <2>2 DEF IInv, Requests
    <2>3. op = "send" =>
            /\ m \in Messages /\ m \notin ToSet(accepted') \cup rejected'
            /\ \A l \in Handlers : handler'[l].op = "send" /\ l # h => handler'[l].text # m
      BY <1>0, <1>2, <1>3, <2>1
    <2> QED BY <1>2, <2>2, <2>3 DEF Requests
  <1>5. Deleting'
    <2>1. UNCHANGED <<listed, file, current, chat, bounds>> /\ handler[h].at = "idle"
      BY DEF Request, sessionVars, Idle
    <2>2. NobodyDrops' => NobodyDrops
      BY <1>2, <2>1 DEF NobodyDrops
    <2>3. bounds'.deletes = 0 => listed' /\ file' /\ \A k \in Handlers : handler'[k].op # "delete"
      BY <1>2, <2>1 DEF IInv, Deleting
    <2> QED BY <2>1, <2>2, <2>3 DEF IInv, Deleting
  <1>6. Types'
    BY <1>1 DEF IInv, Types, Request, sessionVars, history
  <1>7. Lifecycle' /\ Owned' /\ Kept' /\ (bounds'.deletes = 0 => InOrder')
    BY MessagesUntouched DEF Request, history
  <1> QED BY <1>4, <1>5, <1>6, <1>7 DEF IInv

(* A request without a message. *)
LEMMA AskIInv ==
    ASSUME IInv, NEW h \in Handlers, NEW op \in {"stop", "delete"}, handler[h] = Idle, Asks(h, op, "none"),
           bounds' \in [failures : Nat, deletes : Nat, stops : Nat, commands : Nat],
           bounds'.deletes = 0 => bounds.deletes = 0 /\ op # "delete",
           UNCHANGED <<listed, file, log, current, chat, run, accepted, rejected, interrupted, late>>
    PROVE  IInv'
  <1>1. handler' \in [Handlers -> HandlerType]
    BY DEF IInv, Types, HandlerType, Asks
  <1>2. /\ handler'[h].at = "listed" /\ handler'[h].op = op
        /\ \A k \in Handlers : k # h => handler'[k] = handler[k]
    BY DEF IInv, Types, Asks
  <1>4. Requests'
    BY <1>2 DEF IInv, Requests
  <1>5. Deleting'
    <2>1. handler[h].at = "idle"
      BY DEF Idle
    <2>2. NobodyDrops' => NobodyDrops
      BY <1>2, <2>1 DEF NobodyDrops
    <2>3. bounds'.deletes = 0 => listed' /\ file' /\ \A k \in Handlers : handler'[k].op # "delete"
      BY <1>2 DEF IInv, Deleting
    <2> QED BY <2>2, <2>3 DEF IInv, Deleting
  <1>6. Types'
    BY <1>1 DEF IInv, Types
  <1>7. Lifecycle' /\ Owned' /\ Kept' /\ (bounds'.deletes = 0 => InOrder')
    BY MessagesUntouched
  <1> QED BY <1>4, <1>5, <1>6, <1>7 DEF IInv

LEMMA RequestStopIInv ==
    ASSUME IInv, NEW h \in Handlers, RequestStop(h)
    PROVE  IInv'
  <1>1. Types
    BY DEF IInv
  <1>2. /\ bounds' \in [failures : Nat, deletes : Nat, stops : Nat, commands : Nat]
        /\ bounds'.deletes = bounds.deletes
    BY <1>1, CountFacts DEF RequestStop
  <1> QED BY <1>2, AskIInv DEF RequestStop, sessionVars, history

LEMMA RequestDeleteIInv ==
    ASSUME IInv, NEW h \in Handlers, RequestDelete(h)
    PROVE  IInv'
  <1>1. Types
    BY DEF IInv
  <1>2. /\ bounds' \in [failures : Nat, deletes : Nat, stops : Nat, commands : Nat]
        /\ bounds'.deletes # 0
    BY <1>1, CountFacts DEF RequestDelete
  <1> QED BY <1>2, AskIInv DEF RequestDelete, sessionVars, history

LEMMA GetChatIInv ==
    ASSUME IInv, NEW h \in Handlers, GetChat(h)
    PROVE  IInv'
  <1> DEFINE fresh == CHOOSE d \in Chats : ~chat[d].made
             c == IF current # NoChat THEN current ELSE fresh
  <1>0. UNCHANGED <<listed, file, log, run, bounds, accepted, rejected, interrupted, late>>
        /\ handler[h].at = "listed" /\ handler[h].op # "delete"
    BY DEF GetChat, sessionVars, history
  <1>1. /\ c \in Chats /\ current' = c
        /\ handler' = [handler EXCEPT ![h] = [@ EXCEPT !.at = "chat", !.chat = c]]
        /\ IF current # NoChat THEN c = current /\ chat' = chat
           ELSE ~chat[c].made /\ chat' = [chat EXCEPT ![c] = NewChat]
    BY DEF GetChat, Existing, IInv, Types
  <1> HIDE DEF c
  <1>2. chat' \in [Chats -> ChatType] /\ handler' \in [Handlers -> HandlerType]
    <2>1. NewChat \in ChatType
      BY DEF NewChat, ChatType
    <2>2. chat' \in [Chats -> ChatType]
      BY <1>1, <2>1 DEF IInv, Types
    <2>3. handler' \in [Handlers -> HandlerType]
      <3>1. handler \in [Handlers -> HandlerType]
        BY DEF IInv, Types
      <3>2. [handler[h] EXCEPT !.at = "chat", !.chat = c] \in HandlerType
        <4>1. handler[h] \in HandlerType
          BY <3>1
        <4> QED BY <1>1, <4>1 DEF HandlerType
      <3> QED BY <1>1, <3>1, <3>2
    <2> QED BY <2>2, <2>3
  <1>3. /\ handler'[h].at = "chat" /\ handler'[h].op = handler[h].op /\ handler'[h].text = handler[h].text
        /\ handler'[h].chat = c
        /\ \A k \in Handlers : k # h => handler'[k] = handler[k]
    BY <1>1 DEF IInv, Types, HandlerType
  <1>4. \A d \in Chats :
          /\ chat'[d].pending = chat[d].pending /\ chat'[d].running = chat[d].running
          /\ chat[d].made => chat'[d].made
          /\ d # c => chat'[d] = chat[d]
          /\ chat'[d].stopped => chat[d].stopped
    <2>1. CASE current # NoChat
      BY <1>1, <2>1
    <2>2. CASE current = NoChat
      <3>1. chat[c].pending = << >> /\ ~chat[c].running
        BY <1>1, <2>2 DEF IInv, Types, ChatType, Lifecycle
      <3>2. chat[c] \in ChatType /\ chat'[c] = NewChat
        BY <1>1, <2>2 DEF IInv, Types
      <3>3. \A d \in Chats : d # c => chat'[d] = chat[d]
        BY <1>1, <2>2 DEF IInv, Types
      <3>4. NewChat.pending = << >> /\ NewChat.running = FALSE /\ NewChat.made = TRUE /\ NewChat.stopped = FALSE
        BY DEF NewChat
      <3>5. chat[c].running = FALSE
        BY <3>1, <3>2 DEF ChatType
      <3> QED BY <3>1, <3>2, <3>3, <3>4, <3>5
    <2> QED BY <2>1, <2>2
  <1>5. chat'[c].made
    <2>1. CASE current # NoChat
      BY <1>1, <2>1 DEF IInv, Deleting
    <2>2. CASE current = NoChat
      BY <1>1, <2>2 DEF IInv, Types, NewChat
    <2> QED BY <2>1, <2>2
  <1>6. Types'
    BY <1>0, <1>1, <1>2 DEF IInv, Types
  <1>7. Lifecycle'
    <2> SUFFICES ASSUME NEW d \in Chats
                 PROVE  /\ chat'[d].running <=> run[d].at # "none"
                        /\ chat'[d].running => chat'[d].made
                        /\ ~chat'[d].made => chat'[d].pending = << >>
                        /\ run[d].at = "returned" => run[d].ctxDone
      BY <1>0 DEF Lifecycle
    <2> QED BY <1>4 DEF IInv, Lifecycle
  <1>8. Requests'
    <2>1. ASSUME NEW k \in Handlers, k # h
          PROVE  /\ handler'[k].at = "chat" => handler'[k].chat \in Chats /\ chat'[handler'[k].chat].made
                 /\ handler'[k].at \in {"dropped", "unlisted"} => handler'[k].op = "delete"
      BY <1>3, <1>4, <2>1 DEF IInv, Requests
    <2>2. ASSUME NEW k \in Handlers, handler'[k].op = "send"
          PROVE  /\ handler'[k].text \in Messages
                 /\ handler'[k].text \notin ToSet(accepted') \cup rejected'
                 /\ \A l \in Handlers : handler'[l].op = "send" /\ l # k
                                          => handler'[l].text # handler'[k].text
      <3>1. \A l \in Handlers : handler'[l].op = handler[l].op /\ handler'[l].text = handler[l].text
        BY <1>3
      <3> QED BY <2>2, <3>1, <1>0 DEF IInv, Requests
    <2> QED BY <1>1, <1>3, <1>5, <2>1, <2>2 DEF Requests
  <1>9. Deleting'
    <2>1. NobodyDrops' => NobodyDrops
      BY <1>0, <1>3 DEF NobodyDrops
    <2>2. ASSUME listed', NobodyDrops', NEW d \in Chats, chat'[d].made PROVE d = current'
      <3>1. \A e \in Chats : chat[e].made => e = current
        BY <1>0, <2>1, <2>2 DEF IInv, Deleting
      <3>2. CASE current # NoChat
        BY <1>1, <2>2, <3>1, <3>2
      <3>3. CASE current = NoChat
        <4>1. ~chat[d].made
          BY <3>1, <3>3, ChatsAssumption
        <4> QED BY <1>1, <1>4, <2>2, <4>1
      <3> QED BY <3>2, <3>3
    <2>3. bounds'.deletes = 0 => listed' /\ file' /\ \A k \in Handlers : handler'[k].op # "delete"
      BY <1>0, <1>3 DEF IInv, Deleting
    <2> QED BY <1>1, <1>5, <2>2, <2>3 DEF Deleting
  <1>10. Owned'
    BY <1>0, <1>4 DEF IInv, Owned, ChatOwned
  <1>11. Kept'
    BY <1>0, <1>4 DEF IInv, Kept, AcceptedIsKept, Held
  <1>12. bounds'.deletes = 0 => InOrder'
    BY <1>0, <1>4 DEF IInv, InOrder, ChatOrdered
  <1> QED BY <1>6, <1>7, <1>8, <1>9, <1>10, <1>11, <1>12 DEF IInv

(* The three steps of a deletion, one lock after the other. *)
LEMMA DeletionIInv ==
    ASSUME IInv, NEW h \in Handlers, DropChat(h) \/ Unlist(h) \/ RemoveFile(h)
    PROVE  IInv'
  <1>0. UNCHANGED <<log, chat, run, bounds, accepted, rejected, interrupted, late>>
    BY DEF DropChat, Unlist, RemoveFile, sessionVars, history
  <1>1. handler[h].op = "delete"
    BY DEF DropChat, Unlist, RemoveFile, IInv, Requests
  <1>2. bounds.deletes # 0
    BY <1>1 DEF IInv, Deleting
  <1>3. /\ handler' \in [Handlers -> HandlerType]
        /\ \A k \in Handlers : k # h => handler'[k] = handler[k]
        /\ handler'[h].op \in {"delete", "none"} /\ handler'[h].at \in {"dropped", "unlisted", "idle"}
        /\ handler'[h].at = "idle" \/ handler'[h].op = "delete"
    <2>1. PICK a \in {"dropped", "unlisted", "idle"} :
            handler' = IF a = "idle" THEN [handler EXCEPT ![h] = Idle] ELSE [handler EXCEPT ![h].at = a]
      BY DEF DropChat, Unlist, RemoveFile, Return
    <2>2. CASE a = "idle"
      BY <2>1, <2>2 DEF IInv, Types, HandlerType, Idle
    <2>3. CASE a # "idle"
      BY <1>1, <2>1, <2>3 DEF IInv, Types, HandlerType
    <2> QED BY <2>2, <2>3
  <1>4. Types'
    BY <1>0, <1>3 DEF IInv, Types, DropChat, Unlist, RemoveFile, sessionVars
  <1>5. Requests'
    BY <1>0, <1>3 DEF IInv, Requests
  <1>6. Lifecycle' /\ Owned' /\ Kept' /\ (bounds'.deletes = 0 => InOrder')
    BY <1>0, MessagesUntouched
  <1>7. CASE DropChat(h)
    <2>1. CASE Deletable
      <3>1. handler'[h].at = "dropped" /\ current' = NoChat
        BY <1>7, <2>1 DEF DropChat, IInv, Types, HandlerType
      <3>2. ~NobodyDrops'
        BY <3>1 DEF NobodyDrops
      <3>3. Deleting'
        BY <1>0, <1>2, <3>1, <3>2 DEF Deleting
      <3> QED BY <1>4, <1>5, <1>6, <3>3 DEF IInv
    <2>2. CASE ~Deletable
      <3>1. current' = current /\ listed' = listed /\ handler[h].at = "listed"
        BY <1>7, <2>2 DEF DropChat, sessionVars
      <3>2. NobodyDrops' => NobodyDrops
        BY <1>3, <3>1 DEF NobodyDrops
      <3>3. Deleting'
        BY <1>0, <1>2, <3>1, <3>2 DEF IInv, Deleting
      <3> QED BY <1>4, <1>5, <1>6, <3>3 DEF IInv
    <2> QED BY <2>1, <2>2
  <1>8. CASE Unlist(h)
    <2>1. listed' = FALSE /\ current' = current
      BY <1>8 DEF Unlist
    <2>2. Deleting'
      BY <1>0, <1>2, <2>1 DEF IInv, Deleting
    <2> QED BY <1>4, <1>5, <1>6, <2>2 DEF IInv
  <1>9. CASE RemoveFile(h)
    <2>1. listed' = listed /\ current' = current /\ handler[h].at = "unlisted"
      BY <1>9 DEF RemoveFile
    <2>2. NobodyDrops' => NobodyDrops
      BY <1>3, <2>1 DEF NobodyDrops
    <2>3. Deleting'
      BY <1>0, <1>2, <2>1, <2>2 DEF IInv, Deleting
    <2> QED BY <1>4, <1>5, <1>6, <2>3 DEF IInv
  <1> QED BY <1>7, <1>8, <1>9

(* A chat starts a run: with what was pending, or one message more. *)
LEMMA StartTypes ==
    ASSUME IInv, NEW c \in Chats, NEW p \in Seq(Messages), IsInjective(p), StartSucceeds(c, p)
    PROVE  /\ chat' \in [Chats -> ChatType] /\ run' \in [Chats -> RunType]
           /\ \A d \in Chats : d # c => chat'[d] = chat[d] /\ run'[d] = run[d]
           /\ chat'[c].pending = p /\ chat'[c].running = TRUE /\ chat'[c].made = chat[c].made
           /\ chat'[c].stopped = FALSE
           /\ run'[c] = Prepared(p) /\ run'[c].at = "running"
           /\ CanPrepare
  <1>1. Prepared(p) \in RunType /\ Prepared(p).at = "running"
    BY PreparedFacts DEF IInv, Types
  <1>2. /\ chat' = [chat EXCEPT ![c] = [@ EXCEPT !.running = TRUE, !.stopped = FALSE,
                                                 !.failed = FALSE, !.pending = p]]
        /\ run' = [run EXCEPT ![c] = Prepared(p)] /\ CanPrepare
    BY DEF StartSucceeds
  <1>3. chat \in [Chats -> ChatType] /\ run \in [Chats -> RunType]
    BY DEF IInv, Types
  <1>4. /\ run' \in [Chats -> RunType] /\ run'[c] = Prepared(p)
        /\ \A d \in Chats : d # c => run'[d] = run[d]
    BY <1>1, <1>2, <1>3
  <1>5. /\ chat' \in [Chats -> ChatType]
        /\ \A d \in Chats : d # c => chat'[d] = chat[d]
        /\ chat'[c].pending = p /\ chat'[c].running = TRUE /\ chat'[c].made = chat[c].made
        /\ chat'[c].stopped = FALSE
    BY <1>2, <1>3 DEF ChatType
  <1> QED BY <1>1, <1>2, <1>4, <1>5

LEMMA SendStartsIInv ==
    ASSUME IInv, NEW h \in Handlers, SendStarts(h)
    PROVE  IInv'
  <1> DEFINE c == handler[h].chat
             m == handler[h].text
             p == chat[c].pending
  <1>0. /\ UNCHANGED <<listed, file, log, current, interrupted, late>> /\ Return(h)
        /\ ~chat[c].running
        /\ \/ /\ StartSucceeds(c, Append(p, m))
              /\ accepted' = Append(accepted, m)
              /\ UNCHANGED <<bounds, rejected>>
           \/ /\ StartFails
              /\ chat' = [chat EXCEPT ![c].pending = TakenBack(c, m), ![c].failed = FALSE]
              /\ rejected' = rejected \cup {m}
              /\ UNCHANGED <<run, accepted>>
    BY DEF SendStarts, sessionVars
  <1>1. /\ handler[h].at = "chat" /\ handler[h].op = "send"
        /\ c \in Chats /\ chat[c].made
        /\ m \in Messages
        /\ m \notin ToSet(accepted) /\ m \notin rejected
        /\ m \notin ToSet(log)
        /\ \A d \in Chats : m \notin ToSet(chat[d].pending)
    BY SendKnows DEF SendStarts
  <1>2. /\ p \in Seq(Messages) /\ accepted \in Seq(Messages) /\ log \in Seq(Messages)
        /\ chat \in [Chats -> ChatType] /\ chat[c] \in ChatType /\ run \in [Chats -> RunType]
    BY <1>1 DEF IInv, Types, ChatType
  <1>3. /\ ToSet(p) \subseteq ToSet(accepted) /\ IsInjective(p) /\ IsInjective(accepted)
        /\ ToSet(log) \subseteq ToSet(accepted) /\ ToSet(accepted) \cap rejected = {}
        /\ ChatOwned(chat[c], run[c], log, accepted)
    BY <1>1 DEF IInv, Owned, ChatOwned
  <1> HIDE DEF c, m, p
  <1>4. CASE /\ StartSucceeds(c, Append(p, m)) /\ accepted' = Append(accepted, m)
             /\ UNCHANGED <<bounds, rejected>>
    <2> DEFINE q == Append(p, m)
    <2>1. /\ q \in Seq(Messages) /\ accepted' \in Seq(Messages)
          /\ ToSet(q) = ToSet(p) \cup {m} /\ ToSet(accepted') = ToSet(accepted) \cup {m}
          /\ IsInjective(q) /\ IsInjective(accepted')
          /\ Sorted(p, accepted) => Sorted(q, accepted')
      BY <1>1, <1>2, <1>3, <1>4, PendingMore, InjectiveAppend
    <2> HIDE DEF q
    <2>2. /\ chat' \in [Chats -> ChatType] /\ run' \in [Chats -> RunType]
          /\ \A d \in Chats : d # c => chat'[d] = chat[d] /\ run'[d] = run[d]
          /\ chat'[c].pending = q /\ chat'[c].running = TRUE /\ chat'[c].made = chat[c].made
          /\ chat'[c].stopped = FALSE
          /\ run'[c] = Prepared(q) /\ run'[c].at = "running"
      BY <1>1, <1>4, <2>1, StartTypes DEF q
    <2>3. SameSession
      BY <1>0, <1>4, <2>2 DEF SameSession
    <2>4. handler' \in [Handlers -> HandlerType] /\ Requests' /\ Deleting'
      <3>1. ToSet(accepted') \cup rejected' \subseteq ToSet(accepted) \cup rejected \cup {handler[h].text}
        BY <1>4, <2>1 DEF m
      <3> QED BY <1>0, <1>1, <2>3, <3>1, ReturnFacts
    <2>5. Types'
      BY <1>0, <1>4, <2>1, <2>2, <2>4 DEF IInv, Types
    <2>6. Lifecycle'
      <3> SUFFICES ASSUME NEW d \in Chats
                   PROVE  /\ chat'[d].running <=> run'[d].at # "none"
                          /\ chat'[d].running => chat'[d].made
                          /\ ~chat'[d].made => chat'[d].pending = << >>
                          /\ run'[d].at = "returned" => run'[d].ctxDone
        BY DEF Lifecycle
      <3>1. CASE d = c
        BY <1>1, <2>2, <3>1
      <3>2. CASE d # c
        BY <2>2, <3>2 DEF IInv, Lifecycle
      <3> QED BY <3>1, <3>2
    <2>7. /\ ChatOwned(chat'[c], run'[c], log, accepted')
          /\ Sorted(q, accepted') /\ (\A n \in ToSet(log), r \in ToSet(q) : Before(accepted', n, r))
                => ChatOrdered(chat'[c], run'[c], log, accepted')
      <3>1. chat'[c] \in ChatType
        BY <1>1, <2>2
      <3>2. ToSet(q) \subseteq ToSet(accepted')
        BY <1>3, <2>1
      <3> QED BY <1>2, <2>1, <2>2, <3>1, <3>2, StartFacts
    <2>8. InOrder => ChatOrdered(chat'[c], run'[c], log, accepted')
      <3> SUFFICES ASSUME InOrder
                   PROVE  Sorted(q, accepted') /\ \A n \in ToSet(log), r \in ToSet(q) : Before(accepted', n, r)
        BY <2>7
      <3>1. /\ Sorted(p, accepted)
            /\ \A n \in ToSet(log), r \in ToSet(p) : Before(accepted, n, r)
        BY <1>1 DEF InOrder, ChatOrdered, p
      <3>2. /\ \A n, r : Before(accepted, n, r) => Before(accepted', n, r)
            /\ \A n \in ToSet(accepted) : Before(accepted', n, m)
        BY <1>1, <1>2, <1>4, BeforeAppend
      <3> QED BY <1>3, <2>1, <3>1, <3>2
    <2>9. Owned' /\ (InOrder => InOrder')
      <3>1. OneChat(c)
        BY <1>0, <2>2 DEF OneChat
      <3>2. ToSet(chat'[c].pending) = ToSet(chat[c].pending) \cup {m}
        BY <2>1, <2>2 DEF p
      <3> QED BY <1>1, <1>4, <2>7, <2>8, <3>1, <3>2, OneChatAccepts
    <2>10. Kept'
      <3>1. ToSet(chat'[c].pending) = ToSet(chat[c].pending) \cup {m}
        BY <2>1, <2>2 DEF p
      <3>2. \A n : Held(n) => Held(n)'
        BY <1>0, <1>1, <2>2, <3>1 DEF Held
      <3>3. PICK x \in Messages : x = m
        BY <1>1
      <3>5. Held(x)'
        BY <1>1, <3>1, <3>3 DEF Held
      <3>4. \A d \in Chats : chat'[d].stopped => ToSet(chat'[d].pending) \subseteq interrupted' \cup late'
        BY <1>0, <2>2 DEF IInv, Kept
      <3> QED BY <1>0, <1>4, <3>2, <3>3, <3>4, <3>5, KeptFacts
    <2> QED BY <1>4, <2>4, <2>5, <2>6, <2>9, <2>10 DEF IInv
  <1>5. CASE /\ StartFails
             /\ chat' = [chat EXCEPT ![c].pending = TakenBack(c, m), ![c].failed = FALSE]
             /\ rejected' = rejected \cup {m}
             /\ UNCHANGED <<run, accepted>>
    <2>1. /\ bounds' \in [failures : Nat, deletes : Nat, stops : Nat, commands : Nat]
          /\ bounds'.deletes = bounds.deletes
      BY <1>5, StartFailsFacts DEF IInv
    <2>2. /\ chat' \in [Chats -> ChatType]
          /\ \A d \in Chats : /\ d # c => chat'[d] = chat[d]
                              /\ chat'[d].pending = chat[d].pending /\ chat'[d].made = chat[d].made
                              /\ chat'[d].running = chat[d].running /\ chat'[d].stopped = chat[d].stopped
      BY <1>1, <1>2, <1>5 DEF ChatType, TakenBack
    <2>3. SameSession
      BY <1>0, <2>1, <2>2 DEF SameSession
    <2>4. handler' \in [Handlers -> HandlerType] /\ Requests' /\ Deleting'
      <3>1. ToSet(accepted') \cup rejected' \subseteq ToSet(accepted) \cup rejected \cup {handler[h].text}
        BY <1>5 DEF m
      <3> QED BY <1>0, <1>1, <2>3, <3>1, ReturnFacts
    <2>5. Types'
      BY <1>0, <1>5, <2>1, <2>2, <2>4 DEF IInv, Types
    <2>6. Lifecycle'
      BY <1>5, <2>2 DEF IInv, Lifecycle
    <2>7. Owned'
      <3>1. \A d \in Chats : ChatOwned(chat[d], run[d], log, accepted)
                            => ChatOwned(chat'[d], run'[d], log', accepted')
        BY <1>0, <1>5, <2>2 DEF ChatOwned
      <3>2. ToSet(accepted') \cap rejected' = {}
        BY <1>1, <1>5 DEF IInv, Owned
      <3> QED BY <1>0, <1>5, <2>2, <3>1, <3>2 DEF IInv, Owned
    <2>8. Kept'
      BY <1>0, <1>5, <2>2 DEF IInv, Kept, AcceptedIsKept, Held
    <2>9. InOrder => InOrder'
      BY <1>0, <1>5, <2>2 DEF InOrder, ChatOrdered
    <2> QED BY <2>1, <2>4, <2>5, <2>6, <2>7, <2>8, <2>9 DEF IInv
  <1> QED BY <1>0, <1>4, <1>5

LEMMA SendJoinsIInv ==
    ASSUME IInv, NEW h \in Handlers, SendJoins(h)
    PROVE  IInv'
  <1> DEFINE c == handler[h].chat
             m == handler[h].text
             p == chat[c].pending
             b == run[c].inbox
             q == Append(p, m)
  <1>0. /\ UNCHANGED <<listed, file, log, current, bounds, rejected, interrupted>> /\ Return(h)
        /\ chat[c].running
        /\ chat' = [chat EXCEPT ![c].pending = Append(@, m), ![c].failed = FALSE]
        /\ run' = [run EXCEPT ![c].inbox = IF run[c].ctxDone THEN @ ELSE Append(@, m)]
        /\ accepted' = Append(accepted, m)
        /\ late' = IF chat[c].stopped THEN late \cup {m} ELSE late
    BY DEF SendJoins, sessionVars
  <1>1. /\ handler[h].at = "chat" /\ handler[h].op = "send"
        /\ c \in Chats /\ chat[c].made
        /\ m \in Messages
        /\ m \notin ToSet(accepted) /\ m \notin rejected
        /\ m \notin ToSet(log)
        /\ \A d \in Chats : m \notin ToSet(chat[d].pending)
    BY SendKnows DEF SendJoins
  <1>2. /\ p \in Seq(Messages) /\ accepted \in Seq(Messages) /\ log \in Seq(Messages)
        /\ chat \in [Chats -> ChatType] /\ chat[c] \in ChatType
        /\ run \in [Chats -> RunType] /\ run[c] \in RunType /\ b \in Seq(Inputs)
    BY <1>1 DEF IInv, Types, ChatType, RunType
  <1>3. /\ ToSet(p) \subseteq ToSet(accepted) /\ IsInjective(p) /\ IsInjective(accepted)
        /\ ToSet(log) \subseteq ToSet(accepted) /\ ToSet(accepted) \cap rejected = {}
        /\ InboxOwned(b, p, log)
    BY <1>1 DEF IInv, Owned, ChatOwned
  <1>4. m \in Inputs /\ Append(b, m) \in Seq(Inputs)
    BY <1>1, <1>2 DEF Inputs
  <1> HIDE DEF c, m, p, b
  <1>5. /\ q \in Seq(Messages) /\ accepted' \in Seq(Messages)
        /\ ToSet(q) = ToSet(p) \cup {m} /\ ToSet(accepted') = ToSet(accepted) \cup {m}
        /\ IsInjective(q)
        /\ Sorted(p, accepted) => Sorted(q, accepted')
    BY <1>0, <1>1, <1>2, <1>3, PendingMore
  <1>6. /\ chat' \in [Chats -> ChatType]
        /\ \A d \in Chats : d # c => chat'[d] = chat[d]
        /\ chat'[c].pending = q /\ chat'[c].running = chat[c].running /\ chat'[c].made = chat[c].made
        /\ chat'[c].stopped = chat[c].stopped
    <2>1. chat' = [chat EXCEPT ![c] = [[chat[c] EXCEPT !.pending = q] EXCEPT !.failed = FALSE]]
      BY <1>0, <1>1, <1>2 DEF p
    <2> HIDE DEF q
    <2>2. [[chat[c] EXCEPT !.pending = q] EXCEPT !.failed = FALSE] \in ChatType
      BY <1>2, <1>5 DEF ChatType
    <2> QED BY <1>1, <1>2, <1>5, <2>1, <2>2 DEF ChatType
  <1>7. /\ run' \in [Chats -> RunType]
        /\ \A d \in Chats : d # c => run'[d] = run[d]
        /\ run'[c].at = run[c].at /\ run'[c].ctxDone = run[c].ctxDone
        /\ run'[c].inbox = IF run[c].ctxDone THEN b ELSE Append(b, m)
    <2>1. run' = [run EXCEPT ![c] = [run[c] EXCEPT !.inbox = IF run[c].ctxDone THEN b ELSE Append(b, m)]]
      BY <1>0, <1>1, <1>2 DEF b
    <2> QED BY <1>1, <1>2, <1>4, <2>1 DEF RunType
  <1>8. SameSession
    BY <1>0, <1>1, <1>6 DEF SameSession
  <1>9. handler' \in [Handlers -> HandlerType] /\ Requests' /\ Deleting'
    <2>1. ToSet(accepted') \cup rejected' \subseteq ToSet(accepted) \cup rejected \cup {handler[h].text}
      BY <1>0, <1>5 DEF m
    <2> QED BY <1>0, <1>1, <1>8, <2>1, ReturnFacts
  <1>10. Types'
    BY <1>0, <1>5, <1>6, <1>7, <1>9 DEF IInv, Types
  <1>11. Lifecycle'
    <2> SUFFICES ASSUME NEW d \in Chats
                 PROVE  /\ chat'[d].running <=> run'[d].at # "none"
                        /\ chat'[d].running => chat'[d].made
                        /\ ~chat'[d].made => chat'[d].pending = << >>
                        /\ run'[d].at = "returned" => run'[d].ctxDone
      BY DEF Lifecycle
    <2>1. CASE d = c
      BY <1>0, <1>1, <1>6, <1>7, <2>1 DEF IInv, Lifecycle
    <2>2. CASE d # c
      BY <1>6, <1>7, <2>2 DEF IInv, Lifecycle
    <2> QED BY <2>1, <2>2
  <1>12. ChatOwned(chat'[c], run'[c], log, accepted')
    <2>1. InboxOwned(b, q, log) /\ InboxOwned(Append(b, m), q, log)
      BY <1>1, <1>2, <1>3, AppendMessage DEF p
    <2>2. ToSet(q) \subseteq ToSet(accepted')
      BY <1>3, <1>5
    <2> QED BY <1>5, <1>6, <1>7, <2>1, <2>2 DEF ChatOwned
  <1>13. InOrder => ChatOrdered(chat'[c], run'[c], log, accepted')
    <2> SUFFICES ASSUME InOrder PROVE ChatOrdered(chat'[c], run'[c], log, accepted')
      OBVIOUS
    <2>1. /\ Sorted(p, accepted) /\ InboxFirst(b, p, accepted)
          /\ \A n \in ToSet(log), r \in ToSet(p) : Before(accepted, n, r)
          /\ run[c].at # "none" /\ ~run[c].ctxDone => ToSet(p) \subseteq ToSet(b)
      BY <1>1 DEF InOrder, ChatOrdered, p, b
    <2>2. /\ \A n, r : Before(accepted, n, r) => Before(accepted', n, r)
          /\ \A n \in ToSet(accepted) : Before(accepted', n, m)
      BY <1>0, <1>1, <1>2, BeforeAppend
    <2>3. \A n \in ToSet(log), r \in ToSet(q) : Before(accepted', n, r)
      BY <1>3, <1>5, <2>1, <2>2
    <2>4. /\ InboxFirst(b, q, accepted')
          /\ ToSet(p) \subseteq ToSet(b) =>
               /\ InboxFirst(Append(b, m), q, accepted')
               /\ ToSet(q) \subseteq ToSet(Append(b, m))
      BY <1>0, <1>1, <1>2, <1>3, <1>5, <2>1, JoinFacts
    <2>5. run[c].at # "none"
      BY <1>0, <1>1 DEF IInv, Lifecycle
    <2> QED BY <1>5, <1>6, <1>7, <2>1, <2>3, <2>4, <2>5 DEF ChatOrdered
  <1>14. ToSet(chat'[c].pending) = ToSet(chat[c].pending) \cup {m}
    BY <1>5, <1>6 DEF p
  <1>15. Owned' /\ (InOrder => InOrder')
    <2>1. OneChat(c)
      BY <1>0, <1>6, <1>7 DEF OneChat
    <2> QED BY <1>0, <1>1, <1>12, <1>13, <1>14, <2>1, OneChatAccepts
  <1>16. Kept'
    <2>1. \A n : Held(n) => Held(n)'
      BY <1>0, <1>1, <1>6, <1>14 DEF Held
    <2>2. PICK x \in Messages : x = m
      BY <1>1
    <2>5. Held(x)'
      BY <1>1, <1>14, <2>2 DEF Held
    <2>3. \A d \in Chats : chat'[d].stopped => ToSet(chat'[d].pending) \subseteq interrupted' \cup late'
      <3> SUFFICES ASSUME NEW d \in Chats, chat'[d].stopped
                   PROVE  ToSet(chat'[d].pending) \subseteq interrupted' \cup late'
        OBVIOUS
      <3>1. chat[d].stopped /\ ToSet(chat[d].pending) \subseteq interrupted \cup late
        BY <1>6 DEF IInv, Kept
      <3>2. late \subseteq late' /\ interrupted' = interrupted
        BY <1>0
      <3>3. CASE d = c
        BY <1>0, <1>14, <3>1, <3>2, <3>3
      <3>4. CASE d # c
        BY <1>6, <3>1, <3>2, <3>4
      <3> QED BY <3>3, <3>4
    <2>4. late \subseteq late'
      BY <1>0
    <2> QED BY <1>0, <2>1, <2>2, <2>3, <2>4, <2>5, KeptFacts
  <1> QED BY <1>0, <1>9, <1>10, <1>11, <1>15, <1>16 DEF IInv

(* A chat that starts a run with what is left of its pending messages. *)
LEMMA RestartFacts ==
    ASSUME IInv, NEW c \in Chats, NEW p \in Seq(Messages), p = chat[c].pending \/ p = << >>,
           StartSucceeds(c, p), chat[c].made, UNCHANGED <<log, accepted, rejected>>
    PROVE  /\ chat' \in [Chats -> ChatType] /\ run' \in [Chats -> RunType]
           /\ \A d \in Chats : d # c => chat'[d] = chat[d]
           /\ \A d \in Chats : chat'[d].made = chat[d].made
           /\ chat'[c].pending = p /\ chat'[c].stopped = FALSE
           /\ Lifecycle' /\ Owned' /\ (InOrder => InOrder')
  <1>1. /\ ToSet(p) \subseteq ToSet(chat[c].pending) /\ ToSet(chat[c].pending) \subseteq ToSet(accepted)
        /\ IsInjective(p) /\ IsInjective(accepted)
        /\ log \in Seq(Messages) /\ accepted \in Seq(Messages)
    BY EmptyFacts DEF IInv, Types, Owned, ChatOwned
  <1>2. /\ chat' \in [Chats -> ChatType] /\ run' \in [Chats -> RunType]
        /\ \A d \in Chats : d # c => chat'[d] = chat[d] /\ run'[d] = run[d]
        /\ chat'[c].pending = p /\ chat'[c].running = TRUE /\ chat'[c].made = chat[c].made
        /\ chat'[c].stopped = FALSE
        /\ run'[c] = Prepared(p) /\ run'[c].at = "running"
    BY <1>1, StartTypes
  <1>3. Lifecycle'
    <2> SUFFICES ASSUME NEW d \in Chats
                 PROVE  /\ chat'[d].running <=> run'[d].at # "none"
                        /\ chat'[d].running => chat'[d].made
                        /\ ~chat'[d].made => chat'[d].pending = << >>
                        /\ run'[d].at = "returned" => run'[d].ctxDone
      BY DEF Lifecycle
    <2>1. CASE d = c
      BY <1>2, <2>1
    <2>2. CASE d # c
      BY <1>2, <2>2 DEF IInv, Lifecycle
    <2> QED BY <2>1, <2>2
  <1>4. /\ ChatOwned(chat'[c], run'[c], log, accepted)
        /\ Sorted(p, accepted) /\ (\A n \in ToSet(log), r \in ToSet(p) : Before(accepted, n, r))
              => ChatOrdered(chat'[c], run'[c], log, accepted)
    <2>1. chat'[c] \in ChatType
      BY <1>2
    <2>2. ToSet(p) \subseteq ToSet(accepted)
      BY <1>1
    <2> QED BY <1>1, <1>2, <2>1, <2>2, StartFacts
  <1>5. InOrder => ChatOrdered(chat'[c], run'[c], log, accepted)
    <2> SUFFICES ASSUME InOrder
                 PROVE  Sorted(p, accepted) /\ \A n \in ToSet(log), r \in ToSet(p) : Before(accepted, n, r)
      BY <1>4
    <2>1. /\ Sorted(chat[c].pending, accepted)
          /\ \A n \in ToSet(log), r \in ToSet(chat[c].pending) : Before(accepted, n, r)
      BY DEF InOrder, ChatOrdered
    <2> QED BY <1>1, <2>1, EmptyFacts
  <1>6. Owned' /\ (InOrder => InOrder')
    <2>1. OneChat(c)
      BY <1>2 DEF OneChat
    <2>2. ToSet(accepted) \cap rejected' = {}
      BY DEF IInv, Owned
    <2>3. ToSet(chat'[c].pending) \subseteq ToSet(chat[c].pending)
      BY <1>1, <1>2
    <2> QED BY <1>4, <1>5, <2>1, <2>2, <2>3, OneChatKeeps
  <1> QED BY <1>2, <1>3, <1>6

LEMMA RetryIInv ==
    ASSUME IInv, NEW h \in Handlers, Retry(h)
    PROVE  IInv'
  <1> DEFINE c == handler[h].chat
  <1>0. /\ UNCHANGED <<listed, file, log, current, accepted, rejected, interrupted, late>> /\ Return(h)
        /\ handler[h].at = "chat"
        /\ \/ UNCHANGED <<chat, run, bounds>>
           \/ StartSucceeds(c, chat[c].pending) /\ UNCHANGED bounds
           \/ StartFails /\ chat' = [chat EXCEPT ![c].failed = FALSE] /\ UNCHANGED run
    BY DEF Retry, sessionVars, history, AtChat
  <1>1. c \in Chats /\ chat[c].made /\ chat[c].pending \in Seq(Messages)
    BY <1>0 DEF IInv, Requests, Types, ChatType
  <1> HIDE DEF c
  <1>2. CASE StartSucceeds(c, chat[c].pending) /\ UNCHANGED bounds
    <2>1. /\ chat' \in [Chats -> ChatType] /\ run' \in [Chats -> RunType]
          /\ \A d \in Chats : d # c => chat'[d] = chat[d]
          /\ \A d \in Chats : chat'[d].made = chat[d].made
          /\ chat'[c].pending = chat[c].pending /\ chat'[c].stopped = FALSE
          /\ Lifecycle' /\ Owned' /\ (InOrder => InOrder')
      BY <1>0, <1>1, <1>2, RestartFacts
    <2>2. SameSession
      BY <1>0, <1>2, <2>1 DEF SameSession
    <2>3. handler' \in [Handlers -> HandlerType] /\ Requests' /\ Deleting'
      BY <1>0, <2>2, ReturnFacts
    <2>4. Types'
      BY <1>0, <1>2, <2>1, <2>3 DEF IInv, Types
    <2>5. Kept'
      <3>1. \A n : Held(n) => Held(n)'
        BY <1>0, <2>1 DEF Held
      <3>2. \A d \in Chats : chat'[d].stopped => ToSet(chat'[d].pending) \subseteq interrupted' \cup late'
        BY <1>0, <2>1 DEF IInv, Kept
      <3> QED BY <1>0, <3>1, <3>2, KeptFacts
    <2> QED BY <1>2, <2>1, <2>3, <2>4, <2>5 DEF IInv
  <1>3. CASE \/ UNCHANGED <<chat, run, bounds>>
             \/ StartFails /\ chat' = [chat EXCEPT ![c].failed = FALSE] /\ UNCHANGED run
    <2>1. /\ bounds' \in [failures : Nat, deletes : Nat, stops : Nat, commands : Nat]
          /\ bounds'.deletes = bounds.deletes
      BY <1>3, StartFailsFacts DEF IInv, Types
    <2>2. /\ chat' \in [Chats -> ChatType] /\ run' = run
          /\ \A d \in Chats : /\ chat'[d].pending = chat[d].pending /\ chat'[d].made = chat[d].made
                              /\ chat'[d].running = chat[d].running /\ chat'[d].stopped = chat[d].stopped
      <3>1. chat \in [Chats -> ChatType]
        BY DEF IInv, Types
      <3>2. CASE chat' = [chat EXCEPT ![c].failed = FALSE] /\ UNCHANGED run
        BY <1>1, <3>1, <3>2 DEF ChatType
      <3> QED BY <1>3, <3>1, <3>2
    <2>3. SameSession
      BY <1>0, <2>1, <2>2 DEF SameSession
    <2>4. handler' \in [Handlers -> HandlerType] /\ Requests' /\ Deleting'
      BY <1>0, <2>3, ReturnFacts
    <2>5. Types'
      BY <1>0, <2>1, <2>2, <2>4 DEF IInv, Types
    <2>6. Lifecycle'
      BY <2>2 DEF IInv, Lifecycle
    <2>7. Owned'
      BY <1>0, <2>2 DEF IInv, Owned, ChatOwned
    <2>8. Kept'
      BY <1>0, <2>2 DEF IInv, Kept, AcceptedIsKept, Held
    <2>9. InOrder => InOrder'
      BY <1>0, <2>2 DEF InOrder, ChatOrdered
    <2> QED BY <2>1, <2>4, <2>5, <2>6, <2>7, <2>8, <2>9 DEF IInv
  <1> QED BY <1>0, <1>2, <1>3

(* stop adds a request to the inbox or cancels the run, and drops nothing. *)
LEMMA StopIInv ==
    ASSUME IInv, NEW h \in Handlers, Stop(h)
    PROVE  IInv'
  <1> DEFINE c == handler[h].chat
             b == run[c].inbox
  <1>0. /\ UNCHANGED <<listed, file, log, current, bounds, accepted, rejected, late>> /\ Return(h)
        /\ handler[h].at = "chat"
        /\ chat' = [chat EXCEPT ![c].stopped = @ \/ chat[c].running]
        /\ run' = [run EXCEPT ![c] = Interrupt(chat[c], run[c])]
        /\ interrupted' = IF chat[c].running THEN interrupted \cup ToSet(chat[c].pending) ELSE interrupted
    BY DEF Stop, sessionVars, AtChat
  <1>1. c \in Chats /\ chat[c].made
    BY <1>0 DEF IInv, Requests
  <1>2. /\ chat \in [Chats -> ChatType] /\ chat[c] \in ChatType
        /\ run \in [Chats -> RunType] /\ run[c] \in RunType /\ b \in Seq(Inputs)
    BY <1>1 DEF IInv, Types, RunType
  <1>3. StopHard \in Inputs /\ StopHard \notin Messages /\ Append(b, StopHard) \in Seq(Inputs)
    BY <1>2, NotMessages DEF Inputs
  <1> HIDE DEF c
  <1>4. /\ chat' \in [Chats -> ChatType]
        /\ \A d \in Chats : /\ d # c => chat'[d] = chat[d]
                            /\ chat'[d].pending = chat[d].pending /\ chat'[d].made = chat[d].made
                            /\ chat'[d].running = chat[d].running
        /\ chat'[c].stopped => chat[c].stopped \/ chat[c].running
    <2>1. chat' = [chat EXCEPT ![c] = [chat[c] EXCEPT !.stopped = chat[c].stopped \/ chat[c].running]]
      BY <1>0, <1>1, <1>2
    <2>2. (chat[c].stopped \/ chat[c].running) \in BOOLEAN
      OBVIOUS
    <2> QED BY <1>1, <1>2, <2>1, <2>2 DEF ChatType
  <1>5. PICK r \in RunType :
          /\ run' = [run EXCEPT ![c] = r]
          /\ r.at = run[c].at
          /\ \/ r.inbox = b /\ (run[c].ctxDone => r.ctxDone)
             \/ r.inbox = Append(b, StopHard) /\ ~run[c].ctxDone
    <2> DEFINE r == Interrupt(chat[c], run[c])
    <2>1. CASE ~chat[c].running \/ (chat[c].running /\ ~chat[c].stopped /\ run[c].ctxDone)
      BY <1>0, <1>2, <2>1 DEF Interrupt
    <2>2. CASE chat[c].running /\ chat[c].stopped
      <3>1. r = [run[c] EXCEPT !.ctxDone = TRUE]
        BY <2>2 DEF Interrupt
      <3>2. r \in RunType /\ r.at = run[c].at /\ r.inbox = b /\ r.ctxDone = TRUE
        BY <1>2, <3>1 DEF RunType
      <3> HIDE DEF r
      <3> QED BY <1>0, <3>2 DEF r
    <2>3. CASE chat[c].running /\ ~chat[c].stopped /\ ~run[c].ctxDone
      <3>1. r = [run[c] EXCEPT !.inbox = Append(b, StopHard)]
        BY <2>3 DEF Interrupt
      <3>2. r \in RunType /\ r.at = run[c].at /\ r.inbox = Append(b, StopHard)
        BY <1>2, <1>3, <3>1 DEF RunType
      <3> HIDE DEF r
      <3> QED BY <1>0, <2>3, <3>2 DEF r
    <2> QED BY <2>1, <2>2, <2>3
  <1>6. /\ run' \in [Chats -> RunType] /\ run'[c] = r
        /\ \A d \in Chats : d # c => run'[d] = run[d]
    BY <1>1, <1>2, <1>5
  <1>7. SameSession
    BY <1>0, <1>4 DEF SameSession
  <1>8. handler' \in [Handlers -> HandlerType] /\ Requests' /\ Deleting'
    BY <1>0, <1>7, ReturnFacts
  <1>9. Types'
    BY <1>0, <1>4, <1>6, <1>8 DEF IInv, Types
  <1>10. Lifecycle'
    <2> SUFFICES ASSUME NEW d \in Chats
                 PROVE  /\ chat'[d].running <=> run'[d].at # "none"
                        /\ chat'[d].running => chat'[d].made
                        /\ ~chat'[d].made => chat'[d].pending = << >>
                        /\ run'[d].at = "returned" => run'[d].ctxDone
      BY DEF Lifecycle
    <2>1. CASE d = c
      BY <1>1, <1>4, <1>5, <1>6, <2>1 DEF IInv, Lifecycle
    <2>2. CASE d # c
      BY <1>4, <1>6, <2>2 DEF IInv, Lifecycle
    <2> QED BY <2>1, <2>2
  <1>11. /\ InboxOwned(b, chat[c].pending, log) => InboxOwned(Append(b, StopHard), chat[c].pending, log)
         /\ \A o : InboxFirst(b, chat[c].pending, o) => InboxFirst(Append(b, StopHard), chat[c].pending, o)
         /\ ToSet(b) \subseteq ToSet(Append(b, StopHard))
    BY <1>2, <1>3, AppendRequest
  <1>12. ChatOwned(chat'[c], run'[c], log, accepted)
    <2>1. ChatOwned(chat[c], run[c], log, accepted)
      BY <1>1 DEF IInv, Owned
    <2> QED BY <1>1, <1>4, <1>5, <1>6, <1>11, <2>1 DEF ChatOwned
  <1>13. InOrder => ChatOrdered(chat'[c], run'[c], log, accepted)
    <2> SUFFICES ASSUME InOrder PROVE ChatOrdered(chat'[c], run'[c], log, accepted)
      OBVIOUS
    <2>1. ChatOrdered(chat[c], run[c], log, accepted)
      BY <1>1 DEF InOrder
    <2> QED BY <1>1, <1>4, <1>5, <1>6, <1>11, <2>1 DEF ChatOrdered
  <1>14. Owned' /\ (InOrder => InOrder')
    <2>1. OneChat(c)
      BY <1>0, <1>4, <1>6 DEF OneChat
    <2>2. ToSet(accepted) \cap rejected' = {}
      BY <1>0 DEF IInv, Owned
    <2> QED BY <1>0, <1>1, <1>4, <1>12, <1>13, <2>1, <2>2, OneChatKeeps
  <1>15. Kept'
    <2>1. \A n : Held(n) => Held(n)'
      BY <1>0, <1>4 DEF Held
    <2>2. interrupted \subseteq interrupted' /\ late' = late
      BY <1>0
    <2>3. \A d \in Chats : chat'[d].stopped => ToSet(chat'[d].pending) \subseteq interrupted' \cup late'
      <3> SUFFICES ASSUME NEW d \in Chats, chat'[d].stopped
                   PROVE  ToSet(chat[d].pending) \subseteq interrupted' \cup late'
        BY <1>4
      <3>1. CASE chat[d].stopped
        BY <2>2, <3>1 DEF IInv, Kept
      <3>2. CASE ~chat[d].stopped
        <4>1. d = c /\ chat[c].running
          BY <1>4, <3>2
        <4> QED BY <1>0, <4>1
      <3> QED BY <3>1, <3>2
    <2> QED BY <1>0, <2>1, <2>2, <2>3, KeptFacts
  <1> QED BY <1>0, <1>8, <1>9, <1>10, <1>14, <1>15 DEF IInv

-----------------------------------------------------------------------------
(* The steps of the coordinator's goroutine, and shutting down. *)

(* A run returns, or the program's context is cancelled. *)
LEMMA RunEndsIInv ==
    ASSUME IInv, run' \in [Chats -> RunType],
           \A c \in Chats : /\ run'[c].inbox = run[c].inbox
                            /\ run'[c].at = "none" <=> run[c].at = "none"
                            /\ run[c].ctxDone => run'[c].ctxDone
                            /\ run'[c].at = "returned" => run'[c].ctxDone,
           bounds' \in [failures : Nat, deletes : Nat, stops : Nat, commands : Nat],
           bounds'.deletes = bounds.deletes,
           UNCHANGED <<listed, file, log, current, chat, handler, accepted, rejected, interrupted, late>>
    PROVE  IInv'
  <1>1. Types'
    BY DEF IInv, Types
  <1>2. Lifecycle'
    BY DEF IInv, Lifecycle
  <1>3. Requests' /\ Deleting'
    <2>1. SameSession
      BY DEF SameSession
    <2> QED BY <2>1, HandlersUntouched
  <1>4. Owned'
    BY DEF IInv, Owned, ChatOwned
  <1>5. Kept'
    BY DEF IInv, Kept, AcceptedIsKept, Held
  <1>6. InOrder => InOrder'
    BY DEF InOrder, ChatOrdered
  <1> QED BY <1>1, <1>2, <1>3, <1>4, <1>5, <1>6 DEF IInv

LEMMA RunReturnsIInv ==
    ASSUME IInv, NEW c \in Chats, RunReturns(c)
    PROVE  IInv'
  <1>0. /\ run[c].at = "running"
        /\ \E err \in {"nil", "canceled", "failed"} : Returns(c, err)
        /\ UNCHANGED bounds \/ Count("failures")
        /\ UNCHANGED <<listed, file, log, current, chat, handler, accepted, rejected, interrupted, late>>
    BY DEF RunReturns, sessionVars, history
  <1>1. PICK err \in {"nil", "canceled", "failed"} :
          run' = [run EXCEPT ![c] = [@ EXCEPT !.at = "returned", !.err = err, !.ctxDone = TRUE]]
    BY <1>0 DEF Returns
  <1>2. run \in [Chats -> RunType]
    BY DEF IInv, Types
  <1>3. /\ run' \in [Chats -> RunType]
        /\ \A d \in Chats : d # c => run'[d] = run[d]
        /\ run'[c].inbox = run[c].inbox /\ run'[c].at = "returned" /\ run'[c].ctxDone = TRUE
    BY <1>1, <1>2 DEF RunType
  <1>4. \A d \in Chats : /\ run'[d].inbox = run[d].inbox
                         /\ run'[d].at = "none" <=> run[d].at = "none"
                         /\ run[d].ctxDone => run'[d].ctxDone
                         /\ run'[d].at = "returned" => run'[d].ctxDone
    <2> SUFFICES ASSUME NEW d \in Chats
                 PROVE  /\ run'[d].inbox = run[d].inbox
                        /\ run'[d].at = "none" <=> run[d].at = "none"
                        /\ run[d].ctxDone => run'[d].ctxDone
                        /\ run'[d].at = "returned" => run'[d].ctxDone
      OBVIOUS
    <2>1. CASE d = c
      BY <1>0, <1>3, <2>1
    <2>2. CASE d # c
      BY <1>3, <2>2 DEF IInv, Lifecycle
    <2> QED BY <2>1, <2>2
  <1>5. /\ bounds' \in [failures : Nat, deletes : Nat, stops : Nat, commands : Nat]
        /\ bounds'.deletes = bounds.deletes
    BY <1>0, CountFacts DEF IInv, Types
  <1> QED BY <1>0, <1>3, <1>4, <1>5, RunEndsIInv

LEMMA ShutdownIInv ==
    ASSUME IInv, Shutdown
    PROVE  IInv'
  <1>0. UNCHANGED <<listed, file, log, current, chat, handler, bounds, accepted, rejected, interrupted, late>>
    BY DEF Shutdown, sessionVars, history
  <1>1. run \in [Chats -> RunType]
    BY DEF IInv, Types
  <1>2. ASSUME NEW d \in Chats
        PROVE  /\ run'[d] \in RunType /\ run'[d].inbox = run[d].inbox /\ run'[d].at = run[d].at
               /\ run[d].ctxDone => run'[d].ctxDone
    <2>1. run'[d] = [run[d] EXCEPT !.ctxDone = run[d].ctxDone \/ run[d].at = "running"]
      BY DEF Shutdown
    <2>2. (run[d].ctxDone \/ run[d].at = "running") \in BOOLEAN
      OBVIOUS
    <2> QED BY <1>1, <2>1, <2>2 DEF RunType
  <1>3. run' \in [Chats -> RunType]
    BY <1>2 DEF Shutdown
  <1>4. \A d \in Chats : run'[d].at = "returned" => run'[d].ctxDone
    BY <1>2 DEF IInv, Lifecycle
  <1>5. bounds' \in [failures : Nat, deletes : Nat, stops : Nat, commands : Nat]
    BY <1>0 DEF IInv, Types
  <1> QED BY <1>0, <1>2, <1>3, <1>4, <1>5, RunEndsIInv

(* finished: only a stop lets go of what is pending. *)
LEMMA FinishedIInv ==
    ASSUME IInv, NEW c \in Chats, Finished(c)
    PROVE  IInv'
  <1> DEFINE left == Leftover(c)
             idle == [chat[c] EXCEPT !.running = FALSE, !.pending = left,
                                     !.failed = @ \/ run[c].err = "failed"]
  <1>0. /\ run[c].at = "returned"
        /\ \/ StartSucceeds(c, left) /\ UNCHANGED bounds
           \/ /\ StartFails
              /\ chat' = [chat EXCEPT ![c] = [idle EXCEPT !.failed = TRUE]]
              /\ run' = [run EXCEPT ![c] = NoRun]
           \/ /\ chat' = [chat EXCEPT ![c] = idle]
              /\ run' = [run EXCEPT ![c] = NoRun]
              /\ UNCHANGED bounds
        /\ UNCHANGED <<listed, file, log, current, handler, accepted, rejected, interrupted, late>>
    BY DEF Finished, sessionVars, history
  <1>1. /\ chat \in [Chats -> ChatType] /\ chat[c] \in ChatType /\ run \in [Chats -> RunType]
        /\ chat[c].pending \in Seq(Messages)
    BY DEF IInv, Types, ChatType
  <1>2. /\ left \in Seq(Messages)
        /\ left = chat[c].pending \/ left = << >>
        /\ ~chat[c].stopped => left = chat[c].pending
        /\ left = << >> \/ ~chat[c].stopped
    BY <1>1 DEF Leftover
  <1> HIDE DEF left
  <1>3. chat[c].made
    BY <1>0 DEF IInv, Lifecycle
  <1>4. CASE StartSucceeds(c, left) /\ UNCHANGED bounds
    <2>1. /\ chat' \in [Chats -> ChatType] /\ run' \in [Chats -> RunType]
          /\ \A d \in Chats : d # c => chat'[d] = chat[d]
          /\ \A d \in Chats : chat'[d].made = chat[d].made
          /\ chat'[c].pending = left /\ chat'[c].stopped = FALSE
          /\ Lifecycle' /\ Owned' /\ (InOrder => InOrder')
      BY <1>0, <1>2, <1>3, <1>4, RestartFacts
    <2>2. SameSession
      BY <1>0, <1>4, <2>1 DEF SameSession
    <2>3. Requests' /\ Deleting'
      BY <1>0, <2>2, HandlersUntouched
    <2>4. Types'
      BY <1>0, <1>4, <2>1 DEF IInv, Types
    <2>5. Kept'
      <3>1. ASSUME NEW n, Held(n) PROVE Held(n)' \/ n \in interrupted' \cup late'
        <4>1. CASE n \in ToSet(chat[c].pending)
          <5>1. CASE chat[c].stopped
            BY <1>0, <4>1, <5>1 DEF IInv, Kept
          <5>2. CASE ~chat[c].stopped
            BY <1>2, <2>1, <4>1, <5>2 DEF Held
          <5> QED BY <5>1, <5>2
        <4>2. CASE n \notin ToSet(chat[c].pending)
          BY <1>0, <2>1, <3>1, <4>2 DEF Held
        <4> QED BY <4>1, <4>2
      <3>2. \A d \in Chats : chat'[d].stopped => ToSet(chat'[d].pending) \subseteq interrupted' \cup late'
        BY <1>0, <2>1 DEF IInv, Kept
      <3> QED BY <1>0, <3>1, <3>2, KeptFacts
    <2> QED BY <1>4, <2>1, <2>3, <2>4, <2>5 DEF IInv
  <1>5. CASE /\ \/ chat' = [chat EXCEPT ![c] = [idle EXCEPT !.failed = TRUE]]
                \/ chat' = [chat EXCEPT ![c] = idle]
             /\ run' = [run EXCEPT ![c] = NoRun]
             /\ UNCHANGED bounds \/ StartFails
    <2>1. /\ bounds' \in [failures : Nat, deletes : Nat, stops : Nat, commands : Nat]
          /\ bounds'.deletes = bounds.deletes
      BY <1>5, StartFailsFacts DEF IInv, Types
    <2>2. /\ NoRun \in RunType /\ NoRun.inbox = << >> /\ NoRun.at = "none"
      <3>1. << >> \in Seq(Inputs)
        OBVIOUS
      <3> QED BY <3>1 DEF NoRun, RunType
    <2>3. /\ run' \in [Chats -> RunType] /\ run'[c] = NoRun
          /\ \A d \in Chats : d # c => run'[d] = run[d]
      BY <1>1, <1>5, <2>2
    <2>4. /\ idle \in ChatType
          /\ idle.pending = left /\ idle.running = FALSE /\ idle.made = chat[c].made
          /\ idle.stopped = chat[c].stopped
      <3> DEFINE f == chat[c].failed \/ run[c].err = "failed"
      <3>1. f \in BOOLEAN
        OBVIOUS
      <3>2. idle = [chat[c] EXCEPT !.running = FALSE, !.pending = left, !.failed = f]
        OBVIOUS
      <3> HIDE DEF f, idle
      <3> QED BY <1>1, <1>2, <3>1, <3>2 DEF ChatType
    <2> HIDE DEF idle
    <2> DEFINE failed == [idle EXCEPT !.failed = TRUE]
    <2>14. /\ failed \in ChatType
           /\ failed.pending = left /\ failed.running = FALSE /\ failed.made = chat[c].made
           /\ failed.stopped = chat[c].stopped
      BY <2>4 DEF ChatType
    <2> HIDE DEF failed
    <2>5. /\ chat' \in [Chats -> ChatType]
          /\ \A d \in Chats : d # c => chat'[d] = chat[d]
          /\ chat'[c].pending = left /\ chat'[c].running = FALSE /\ chat'[c].made = chat[c].made
          /\ chat'[c].stopped = chat[c].stopped
      <3>1. PICK t \in ChatType : /\ chat' = [chat EXCEPT ![c] = t]
                                  /\ t.pending = left /\ t.running = FALSE /\ t.made = chat[c].made
                                  /\ t.stopped = chat[c].stopped
        BY <1>5, <2>4, <2>14 DEF failed
      <3> QED BY <1>1, <3>1
    <2>6. SameSession
      BY <1>0, <2>1, <2>5 DEF SameSession
    <2>7. Requests' /\ Deleting'
      BY <1>0, <2>6, HandlersUntouched
    <2>8. Types'
      BY <1>0, <2>1, <2>3, <2>5 DEF IInv, Types
    <2>9. Lifecycle'
      <3> SUFFICES ASSUME NEW d \in Chats
                   PROVE  /\ chat'[d].running <=> run'[d].at # "none"
                          /\ chat'[d].running => chat'[d].made
                          /\ ~chat'[d].made => chat'[d].pending = << >>
                          /\ run'[d].at = "returned" => run'[d].ctxDone
        BY DEF Lifecycle
      <3>1. CASE d = c
        BY <1>3, <2>2, <2>3, <2>5, <3>1
      <3>2. CASE d # c
        BY <2>3, <2>5, <3>2 DEF IInv, Lifecycle
      <3> QED BY <3>1, <3>2
    <2>10. ChatOwned(chat'[c], run'[c], log, accepted) /\ ToSet(left) \subseteq ToSet(chat[c].pending)
      <3>1. ToSet(chat[c].pending) \subseteq ToSet(accepted) /\ IsInjective(chat[c].pending)
        BY DEF IInv, Owned, ChatOwned
      <3>2. ToSet(left) \subseteq ToSet(chat[c].pending) /\ IsInjective(left)
        BY <1>2, <3>1, EmptyFacts
      <3> QED BY <2>2, <2>3, <2>5, <3>1, <3>2, EmptyFacts DEF ChatOwned
    <2>11. InOrder => ChatOrdered(chat'[c], run'[c], log, accepted)
      <3> SUFFICES ASSUME InOrder PROVE ChatOrdered(chat'[c], run'[c], log, accepted)
        OBVIOUS
      <3>1. ChatOrdered(chat[c], run[c], log, accepted)
        BY DEF InOrder
      <3>2. Sorted(left, accepted)
        BY <1>2, <3>1, EmptyFacts DEF ChatOrdered
      <3> QED BY <2>2, <2>3, <2>5, <2>10, <3>1, <3>2, EmptyFacts DEF ChatOrdered
    <2>12. Owned' /\ (InOrder => InOrder')
      <3>1. OneChat(c)
        BY <1>0, <2>3, <2>5 DEF OneChat
      <3>2. ToSet(accepted) \cap rejected' = {}
        BY <1>0 DEF IInv, Owned
      <3> QED BY <1>0, <2>5, <2>10, <2>11, <3>1, <3>2, OneChatKeeps
    <2>13. Kept'
      <3>1. ASSUME NEW n, Held(n) PROVE Held(n)' \/ n \in interrupted' \cup late'
        <4>1. CASE n \in ToSet(chat[c].pending)
          <5>1. CASE chat[c].stopped
            BY <1>0, <4>1, <5>1 DEF IInv, Kept
          <5>2. CASE ~chat[c].stopped
            BY <1>2, <2>5, <4>1, <5>2 DEF Held
          <5> QED BY <5>1, <5>2
        <4>2. CASE n \notin ToSet(chat[c].pending)
          BY <1>0, <2>5, <3>1, <4>2 DEF Held
        <4> QED BY <4>1, <4>2
      <3>2. \A d \in Chats : chat'[d].stopped => ToSet(chat'[d].pending) \subseteq interrupted' \cup late'
        <4> SUFFICES ASSUME NEW d \in Chats, chat'[d].stopped
                     PROVE  ToSet(chat'[d].pending) \subseteq interrupted' \cup late'
          OBVIOUS
        <4>1. CASE d = c
          BY <1>2, <2>5, <4>1, EmptyFacts
        <4>2. CASE d # c
          BY <1>0, <2>5, <4>2 DEF IInv, Kept
        <4> QED BY <4>1, <4>2
      <3> QED BY <1>0, <3>1, <3>2, KeptFacts
    <2> QED BY <2>1, <2>7, <2>8, <2>9, <2>12, <2>13 DEF IInv
  <1> QED BY <1>0, <1>4, <1>5

(* An input that is no message. *)
LEMMA ReadRequestIInv ==
    ASSUME IInv, NEW c \in Chats, ReadInput(c), Head(run[c].inbox) \notin Messages
    PROVE  IInv'
  <1> DEFINE b == run[c].inbox
             p == chat[c].pending
  <1>0. /\ b # << >> /\ run[c].at = "running"
        /\ \E i, j \in BOOLEAN : run' = [run EXCEPT ![c].inbox = Tail(@), ![c].idle = i, ![c].hard = j]
        /\ UNCHANGED <<listed, file, log, current, chat, handler, bounds, accepted, rejected, interrupted, late>>
    BY DEF ReadInput, sessionVars, history, IInv, Types, RunType
  <1>1. /\ run \in [Chats -> RunType] /\ run[c] \in RunType /\ b \in Seq(Inputs)
        /\ p \in Seq(Messages)
    BY DEF IInv, Types, RunType, ChatType
  <1>2. /\ Tail(b) \in Seq(Inputs) /\ 1 \in DOMAIN b /\ Head(b) = b[1]
        /\ \A i \in DOMAIN b : i # 1 => i - 1 \in DOMAIN Tail(b) /\ Tail(b)[i - 1] = b[i]
    BY <1>0, <1>1, TailFacts
  <1>3. /\ run' \in [Chats -> RunType]
        /\ \A d \in Chats : d # c => run'[d] = run[d]
        /\ run'[c].inbox = Tail(b) /\ run'[c].at = run[c].at /\ run'[c].ctxDone = run[c].ctxDone
    <2>1. PICK i \in BOOLEAN, j \in BOOLEAN :
            run' = [run EXCEPT ![c] = [run[c] EXCEPT !.inbox = Tail(b), !.idle = i, !.hard = j]]
      BY <1>0, <1>1
    <2> QED BY <1>1, <1>2, <2>1 DEF RunType
  <1>4. Types'
    BY <1>0, <1>3 DEF IInv, Types
  <1>5. Lifecycle'
    <2>1. \A d \in Chats : run'[d].at = run[d].at /\ run'[d].ctxDone = run[d].ctxDone
      BY <1>3
    <2> QED BY <1>0, <2>1 DEF IInv, Lifecycle
  <1>6. Requests' /\ Deleting'
    <2>1. SameSession
      BY <1>0 DEF SameSession
    <2> QED BY <1>0, <2>1, HandlersUntouched
  <1>7. InboxOwned(Tail(b), p, log)
    BY <1>0, <1>1, TailOwned DEF IInv, Owned, ChatOwned
  <1>8. ChatOwned(chat'[c], run'[c], log, accepted)
    BY <1>0, <1>3, <1>7 DEF IInv, Owned, ChatOwned
  <1>9. InOrder => ChatOrdered(chat'[c], run'[c], log, accepted)
    <2> SUFFICES ASSUME InOrder PROVE ChatOrdered(chat'[c], run'[c], log, accepted)
      OBVIOUS
    <2>1. ChatOrdered(chat[c], run[c], log, accepted)
      BY DEF InOrder
    <2>2. Head(b) \notin ToSet(p) /\ ToSet(p) \subseteq ToSet(p)
      BY <1>1 DEF ToSet
    <2>3. InboxFirst(Tail(b), p, accepted)
      BY <1>0, <1>1, <2>1, <2>2, TailFirst DEF ChatOrdered
    <2>4. ToSet(p) \subseteq ToSet(b) => ToSet(p) \subseteq ToSet(Tail(b))
      <3> SUFFICES ASSUME ToSet(p) \subseteq ToSet(b), NEW n \in ToSet(p)
                   PROVE  n \in ToSet(Tail(b))
        OBVIOUS
      <3>1. PICK i \in DOMAIN b : b[i] = n
        BY DEF ToSet
      <3>2. i - 1 \in DOMAIN Tail(b) /\ Tail(b)[i - 1] = n
        BY <1>2, <2>2, <3>1
      <3> QED BY <3>2 DEF ToSet
    <2> QED BY <1>0, <1>3, <2>1, <2>3, <2>4 DEF ChatOrdered
  <1>10. Owned' /\ (InOrder => InOrder')
    <2>1. OneChat(c)
      BY <1>0, <1>3 DEF OneChat, IInv, Types
    <2>2. ToSet(accepted) \cap rejected' = {} /\ ToSet(chat'[c].pending) \subseteq ToSet(chat[c].pending)
      BY <1>0 DEF IInv, Owned
    <2> QED BY <1>0, <1>8, <1>9, <2>1, <2>2, OneChatKeeps
  <1>11. Kept'
    BY <1>0 DEF IInv, Kept, AcceptedIsKept, Held
  <1> QED BY <1>0, <1>4, <1>5, <1>6, <1>10, <1>11 DEF IInv

(* A message is recorded, and no longer pending for the chat in the table. *)
LEMMA RecordIInv ==
    ASSUME IInv, NEW c \in Chats, ReadInput(c), Head(run[c].inbox) \in Messages
    PROVE  IInv'
  <1> DEFINE b == run[c].inbox
             x == Head(b)
             p(d) == chat[d].pending
             q(d) == chat'[d].pending
  <1>0. /\ b # << >> /\ run[c].at = "running"
        /\ \E i, j \in BOOLEAN : run' = [run EXCEPT ![c].inbox = Tail(@), ![c].idle = i, ![c].hard = j]
        /\ log' = Append(log, x)
        /\ chat' = IF current = NoChat THEN chat
                   ELSE [chat EXCEPT ![current].pending = Published(@, x)]
        /\ UNCHANGED <<listed, file, current, handler, bounds, accepted, rejected, interrupted, late>>
    BY DEF ReadInput, sessionVars, history, IInv, Types, RunType
  <1>1. /\ run \in [Chats -> RunType] /\ run[c] \in RunType /\ b \in Seq(Inputs)
        /\ chat \in [Chats -> ChatType] /\ \A d \in Chats : p(d) \in Seq(Messages)
        /\ log \in Seq(Messages) /\ accepted \in Seq(Messages) /\ x \in Messages
    BY DEF IInv, Types, RunType, ChatType
  <1>2. /\ Tail(b) \in Seq(Inputs) /\ 1 \in DOMAIN b /\ x = b[1] /\ DOMAIN b \subseteq Nat
        /\ \A i \in DOMAIN b : i # 1 => i - 1 \in DOMAIN Tail(b) /\ Tail(b)[i - 1] = b[i]
    BY <1>0, <1>1, TailFacts
  <1>3. /\ run' \in [Chats -> RunType]
        /\ \A d \in Chats : d # c => run'[d] = run[d]
        /\ run'[c].inbox = Tail(b)
        /\ \A d \in Chats : run'[d].at = run[d].at /\ run'[d].ctxDone = run[d].ctxDone
    <2>1. PICK i \in BOOLEAN, j \in BOOLEAN :
            run' = [run EXCEPT ![c] = [run[c] EXCEPT !.inbox = Tail(b), !.idle = i, !.hard = j]]
      BY <1>0, <1>1
    <2> QED BY <1>1, <1>2, <2>1 DEF RunType
  <1>4. /\ chat' \in [Chats -> ChatType]
        /\ \A d \in Chats : /\ chat'[d].made = chat[d].made /\ chat'[d].running = chat[d].running
                            /\ chat'[d].stopped = chat[d].stopped
                            /\ d # current => q(d) = p(d)
                            /\ d = current => q(d) = Without(p(d), {x})
    <2>1. CASE current = NoChat
      BY <1>0, <1>1, <2>1, ChatsAssumption
    <2>2. CASE current # NoChat
      <3>1. current \in Chats
        BY <2>2 DEF IInv, Types
      <3> DEFINE w == Without(p(current), {x})
      <3>2. w \in Seq(Messages)
        BY <1>1, <3>1, WithoutFacts
      <3> HIDE DEF w
      <3>3. chat' = [chat EXCEPT ![current] = [chat[current] EXCEPT !.pending = w]]
        BY <1>0, <1>1, <2>2, <3>1 DEF Published, w
      <3> QED BY <1>1, <3>1, <3>2, <3>3 DEF ChatType, w
    <2> QED BY <2>1, <2>2
  <1> HIDE DEF x
  <1>5. ASSUME NEW d \in Chats
        PROVE  /\ q(d) \in Seq(Messages)
               /\ ToSet(q(d)) \subseteq ToSet(p(d)) /\ ToSet(p(d)) \ {x} \subseteq ToSet(q(d))
               /\ IsInjective(p(d)) => IsInjective(q(d))
               /\ \A o : Sorted(p(d), o) => Sorted(q(d), o)
               /\ d = current => x \notin ToSet(q(d))
    <2>1. CASE d # current
      <3>1. q(d) = p(d) /\ p(d) \in Seq(Messages)
        BY <1>1, <1>4, <2>1
      <3> QED BY <2>1, <3>1
    <2>2. CASE d = current
      <3> DEFINE w == Without(p(d), {x})
      <3>1. w \in Seq(Messages) /\ Thins(w, p(d), {x})
        BY <1>1, WithoutFacts
      <3> HIDE DEF w
      <3>2. /\ \A o : Sorted(p(d), o) => Sorted(w, o)
            /\ IsInjective(p(d)) => IsInjective(w)
        BY <1>1, <3>1, ThinFacts
      <3>3. ToSet(w) = ToSet(p(d)) \ {x}
        BY <3>1 DEF Thins
      <3>4. q(d) = w
        BY <1>4, <2>2 DEF w
      <3> QED BY <3>1, <3>2, <3>3, <3>4
    <2> QED BY <2>1, <2>2
  <1>6. /\ IsInjective(accepted) /\ IsInjective(log) /\ ToSet(accepted) \cap rejected = {}
        /\ ToSet(log) \subseteq ToSet(accepted)
        /\ \A d \in Chats : ChatOwned(chat[d], run[d], log, accepted)
        /\ \A d, e \in Chats : e # d => ToSet(p(d)) \cap ToSet(p(e)) = {}
    BY DEF IInv, Owned
  <1>7. x \in ToSet(p(c)) /\ x \notin ToSet(log) /\ x \in ToSet(accepted)
    BY <1>1, <1>2, <1>6 DEF ChatOwned, InboxOwned
  <1>8. log' \in Seq(Messages) /\ ToSet(log') = ToSet(log) \cup {x} /\ IsInjective(log')
    BY <1>0, <1>1, <1>6, <1>7, SetOfAppend, InjectiveAppend, AppendFacts
  <1>9. Types'
    BY <1>0, <1>3, <1>4, <1>8 DEF IInv, Types
  <1>10. Lifecycle'
    <2>1. ASSUME NEW d \in Chats, p(d) = << >> PROVE q(d) = << >>
      <3>1. ToSet(q(d)) = {} /\ q(d) \in Seq(Messages)
        BY <1>5, <2>1, EmptyFacts
      <3>2. DOMAIN q(d) = {}
        BY <3>1 DEF ToSet
      <3> HIDE DEF q
      <3>3. Len(q(d)) = 0
        BY <3>1, <3>2
      <3> QED BY <3>1, <3>3
    <2> QED BY <1>3, <1>4, <2>1 DEF IInv, Lifecycle
  <1>11. Requests' /\ Deleting'
    <2>1. SameSession
      BY <1>0, <1>4 DEF SameSession
    <2> QED BY <1>0, <2>1, HandlersUntouched
  <1>12. Owned'
    <2>1. ASSUME NEW d \in Chats PROVE ChatOwned(chat'[d], run'[d], log', accepted)
      <3> DEFINE a == run'[d].inbox
      <3>1. InboxOwned(a, p(d), log) /\ \A i \in DOMAIN a : a[i] # x
        <4>1. CASE d = c
          <5>1. /\ InboxOwned(Tail(b), p(c), log)
                /\ \A i \in DOMAIN Tail(b) : Tail(b)[i] # x
            BY <1>0, <1>1, <1>6, TailOwned DEF ChatOwned, x
          <5> QED BY <1>3, <4>1, <5>1
        <4>2. CASE d # c
          <5>1. InboxOwned(a, p(d), log)
            BY <1>3, <1>6, <4>2 DEF ChatOwned
          <5>2. x \notin ToSet(p(d))
            BY <1>6, <1>7, <4>2
          <5> QED BY <1>1, <5>1, <5>2 DEF InboxOwned
        <4> QED BY <4>1, <4>2
      <3>2. InboxOwned(a, q(d), Append(log, x))
        <4>1. ToSet(p(d)) \ {x} \subseteq ToSet(q(d))
          BY <1>5
        <4> HIDE DEF a, p, q
        <4> QED BY <1>1, <3>1, <4>1, RecordedElsewhere
      <3>3. ToSet(q(d)) \subseteq ToSet(accepted) /\ IsInjective(q(d))
        BY <1>5, <1>6 DEF ChatOwned
      <3> QED BY <1>0, <3>2, <3>3 DEF ChatOwned
    <2>2. \A d, e \in Chats : e # d => ToSet(q(d)) \cap ToSet(q(e)) = {}
      BY <1>5, <1>6
    <2>3. ToSet(log') \subseteq ToSet(accepted)
      BY <1>6, <1>7, <1>8
    <2> QED BY <1>0, <1>6, <1>8, <2>1, <2>2, <2>3 DEF Owned
  <1>13. Kept'
    <2>1. ASSUME NEW n, Held(n) PROVE Held(n)'
      <3>1. CASE n \in ToSet(log) \/ n = x
        BY <1>8, <3>1 DEF Held
      <3>2. CASE n \notin ToSet(log) /\ n # x
        <4>1. PICK d \in Chats : n \in ToSet(p(d))
          BY <2>1, <3>2 DEF Held
        <4>2. n \in ToSet(q(d))
          BY <1>5, <3>2, <4>1
        <4> QED BY <4>2 DEF Held
      <3> QED BY <3>1, <3>2
    <2>2. \A d \in Chats : chat'[d].stopped => ToSet(chat'[d].pending) \subseteq interrupted' \cup late'
      BY <1>0, <1>4, <1>5 DEF IInv, Kept
    <2> QED BY <1>0, <2>1, <2>2, KeptFacts
  <1>14. ASSUME bounds.deletes = 0, InOrder PROVE InOrder'
    <2>1. \A d \in Chats : chat[d].made => d = current
      BY <1>14 DEF IInv, Deleting, Requests, NobodyDrops
    <2>2. chat[c].made
      BY <1>0 DEF IInv, Lifecycle
    <2>3. c = current /\ x \notin ToSet(q(c))
      BY <1>5, <2>1, <2>2
    <2>4. ChatOrdered(chat[c], run[c], log, accepted) /\ Sorted(log, accepted)
      BY <1>14 DEF InOrder
    <2>5. \A m \in ToSet(log) : Before(accepted, m, x)
      BY <1>7, <2>4 DEF ChatOrdered
    <2>6. Sorted(log', accepted)
      BY <1>0, <1>1, <2>4, <2>5, SortedAppend
    <2>7. ASSUME NEW n \in ToSet(q(c)) PROVE Before(accepted, x, n)
      <3>1. n \in ToSet(p(c)) /\ n # x
        BY <1>5, <2>3
      <3>2. n \in ToSet(accepted)
        BY <1>6, <3>1 DEF ChatOwned
      <3>3. Before(accepted, x, n) \/ Before(accepted, n, x)
        BY <1>1, <1>6, <1>7, <3>1, <3>2, BeforeFacts
      <3>4. ~Before(accepted, n, x)
        <4> SUFFICES ASSUME Before(accepted, n, x) PROVE FALSE
          OBVIOUS
        <4>1. InboxFirst(b, p(c), accepted)
          BY <2>4 DEF ChatOrdered
        <4>2. \E j \in DOMAIN b : j < 1 /\ b[j] = n
          BY <1>1, <1>2, <3>1, <4>1 DEF InboxFirst
        <4>3. \A j \in DOMAIN b : ~(j < 1)
          BY <1>1
        <4> QED BY <4>2, <4>3
      <3> QED BY <3>3, <3>4
    <2>8. ChatOrdered(chat'[c], run'[c], log', accepted)
      <3>1. Sorted(q(c), accepted)
        BY <1>5, <2>4 DEF ChatOrdered
      <3>2. \A m \in ToSet(log'), n \in ToSet(q(c)) : Before(accepted, m, n)
        BY <1>5, <1>8, <2>4, <2>7 DEF ChatOrdered
      <3>3. InboxFirst(Tail(b), q(c), accepted)
        <4>1. InboxFirst(b, p(c), accepted) /\ ToSet(q(c)) \subseteq ToSet(p(c)) /\ Head(b) \notin ToSet(q(c))
          BY <1>5, <2>3, <2>4 DEF ChatOrdered, x
        <4>2. b \in Seq(Inputs) /\ b # << >> /\ p(c) \in Seq(Messages)
          BY <1>0, <1>1
        <4> HIDE DEF b, p, q
        <4> QED BY <4>1, <4>2, TailFirst
      <3>4. ToSet(p(c)) \subseteq ToSet(b) => ToSet(q(c)) \subseteq ToSet(Tail(b))
        <4> SUFFICES ASSUME ToSet(p(c)) \subseteq ToSet(b), NEW n \in ToSet(q(c))
                     PROVE  n \in ToSet(Tail(b))
          OBVIOUS
        <4>1. n \in ToSet(b) /\ n # x
          BY <1>5, <2>3
        <4>2. PICK i \in DOMAIN b : b[i] = n
          BY <4>1 DEF ToSet
        <4>3. i - 1 \in DOMAIN Tail(b) /\ Tail(b)[i - 1] = n
          BY <1>2, <4>1, <4>2
        <4> QED BY <4>3 DEF ToSet
      <3> QED BY <1>3, <2>4, <3>1, <3>2, <3>3, <3>4 DEF ChatOrdered
    <2>9. ASSUME NEW d \in Chats, d # c PROVE ChatOrdered(chat'[d], run'[d], log', accepted)
      <3>1. ~chat[d].made
        BY <2>1, <2>3, <2>9
      <3>2. q(d) = << >>
        BY <1>4, <2>3, <2>9, <3>1 DEF IInv, Lifecycle
      <3>3. ToSet(q(d)) = {} /\ Sorted(q(d), accepted)
        BY <3>2, EmptyFacts
      <3> QED BY <3>3 DEF ChatOrdered, InboxFirst
    <2> QED BY <1>0, <2>6, <2>8, <2>9 DEF InOrder
  <1> QED BY <1>0, <1>9, <1>10, <1>11, <1>12, <1>13, <1>14 DEF IInv

-----------------------------------------------------------------------------

(* Commands, and what leaves the chats alone. *)
LEMMA QuietIInv ==
    ASSUME IInv, bounds' \in [failures : Nat, deletes : Nat, stops : Nat, commands : Nat],
           bounds'.deletes = bounds.deletes,
           UNCHANGED <<listed, file, log, current, chat, run, handler, accepted, rejected, interrupted, late>>
    PROVE  IInv'
  <1>1. run' \in [Chats -> RunType]
    BY DEF IInv, Types
  <1>2. \A c \in Chats : run'[c].at = "returned" => run'[c].ctxDone
    BY DEF IInv, Lifecycle
  <1> QED BY <1>1, <1>2, RunEndsIInv

LEMMA NextIInv == IInv /\ [Next]_vars => IInv'
  <1> SUFFICES ASSUME IInv, [Next]_vars PROVE IInv'
    OBVIOUS
  <1>0. Types
    BY DEF IInv
  <1>1. ASSUME NEW h \in Handlers, HandlerSteps(h) PROVE IInv'
    BY <1>1, GetChatIInv, SendStartsIInv, SendJoinsIInv, RetryIInv, StopIInv, DeletionIInv
       DEF HandlerSteps
  <1>2. ASSUME NEW h \in Handlers, Request(h) \/ RequestStop(h) \/ RequestDelete(h) PROVE IInv'
    BY <1>2, RequestIInv, RequestStopIInv, RequestDeleteIInv
  <1>3. ASSUME NEW c \in Chats, ReadInput(c) PROVE IInv'
    BY <1>3, ReadRequestIInv, RecordIInv
  <1>4. ASSUME NEW c \in Chats, CommandStarts(c) PROVE IInv'
    <2>1. /\ bounds' \in [failures : Nat, deletes : Nat, stops : Nat, commands : Nat]
          /\ bounds'.deletes = bounds.deletes
      BY <1>0, <1>4, CountFacts DEF CommandStarts
    <2> QED BY <1>4, <2>1, QuietIInv DEF CommandStarts, sessionVars, history
  <1>5. ASSUME NEW c \in Chats, RunReturns(c) \/ Finished(c) PROVE IInv'
    BY <1>5, RunReturnsIInv, FinishedIInv
  <1>6. CASE Shutdown
    BY <1>6, ShutdownIInv
  <1>7. ASSUME UNCHANGED <<listed, file, log, current, chat, run, handler, bounds, accepted, rejected,
                           interrupted, late>>
        PROVE  IInv'
    <2>1. /\ bounds' \in [failures : Nat, deletes : Nat, stops : Nat, commands : Nat]
          /\ bounds'.deletes = bounds.deletes
      BY <1>0, <1>7 DEF Types
    <2> QED BY <1>7, <2>1, QuietIInv
  <1>8. ASSUME NEW c \in Chats, CommandEnds(c) PROVE IInv'
    BY <1>7, <1>8 DEF CommandEnds, sessionVars, history
  <1>9. CASE ShutdownWaited \/ ShutdownTimesOut
    BY <1>7, <1>9 DEF ShutdownWaited, ShutdownTimesOut, sessionVars, history
  <1>10. CASE UNCHANGED vars
    BY <1>7, <1>10 DEF vars
  <1> QED BY <1>1, <1>2, <1>3, <1>4, <1>5, <1>6, <1>8, <1>9, <1>10 DEF Next

(* Every state that can be reached satisfies the inductive invariant: the   *)
(* messages of the log, of the inboxes and of the pending lists are those   *)
(* accepted, each with one chat and in the order of acceptance, whichever   *)
(* way handlers and runs interleave (gui/chat.go, gui/app.go).              *)
THEOREM ChatInvariant == Spec => []IInv
  BY InitIInv, NextIInv, PTL DEF Spec

LEMMA IInvImplies == IInv => MessagesAreKept
  <1> SUFFICES ASSUME IInv PROVE MessagesAreKept
    OBVIOUS
  <1>1. TypeOK
    BY DEF IInv, Types, Lifecycle, TypeOK, ToSet, ChatType
  <1>2. RecordedOnce
    BY DEF IInv, Owned, RecordedOnce
  <1>3. OneCoordinator
    <2> SUFFICES ASSUME \A h \in Handlers : handler[h].op # "delete", listed
                 PROVE  Cardinality({c \in Chats : chat[c].running}) <= 1
      BY DEF OneCoordinator
    <2> DEFINE S == {c \in Chats : chat[c].running}
    <2>1. NobodyDrops
      BY DEF IInv, Requests, NobodyDrops
    <2>2. S \subseteq {current}
      BY <2>1 DEF IInv, Deleting, Lifecycle
    <2>3. IsFiniteSet({current}) /\ Cardinality({current}) = 1
      BY FS_Singleton
    <2>4. Cardinality(S) <= Cardinality({current})
      BY <2>2, <2>3, FS_Subset
    <2> QED BY <2>3, <2>4
  <1>4. AcceptedIsKept
    BY DEF IInv, Kept
  <1>5. RejectedIsGone
    BY DEF IInv, Owned, ChatOwned, RejectedIsGone, Held
  <1>6. bounds.deletes = 0 => RecordedInOrder
    <2> SUFFICES ASSUME bounds.deletes = 0,
                        NEW i \in DOMAIN accepted, NEW j \in DOMAIN accepted, i < j,
                        accepted[i] \in ToSet(log), accepted[j] \in ToSet(log)
                 PROVE  \E a, b \in DOMAIN log : a < b /\ log[a] = accepted[i] /\ log[b] = accepted[j]
      BY DEF RecordedInOrder
    <2>1. PICK a \in DOMAIN log : log[a] = accepted[i]
      BY DEF ToSet
    <2>2. PICK b \in DOMAIN log : log[b] = accepted[j]
      BY DEF ToSet
    <2>3. Before(accepted, log[a], log[b])
      BY <2>1, <2>2 DEF Before
    <2>4. /\ log \in Seq(Messages) /\ accepted \in Seq(Messages) /\ IsInjective(accepted)
          /\ Sorted(log, accepted)
      BY DEF IInv, Types, Owned, InOrder
    <2>5. a < b
      BY <2>3, <2>4, SortedAhead
    <2> QED BY <2>1, <2>2, <2>5
  <1> QED BY <1>1, <1>2, <1>3, <1>4, <1>5, <1>6 DEF MessagesAreKept

(* For any number of chats, requests, failures, stops and deletions: what   *)
(* the user was told of a message stays true, a message is recorded once    *)
(* and in its order, and a session that nobody deletes has one coordinator  *)
(* (gui/chat.go, send, start and finished; gui/app.go, deleteSession).      *)
THEOREM MessagesStayKept == Spec => []MessagesAreKept
  BY ChatInvariant, IInvImplies, PTL
=============================================================================
