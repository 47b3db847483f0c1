--------------------------- MODULE SessionStoreProofs ---------------------------
(***************************************************************************)
(* Theorems about the session store, for any sessions, records and bounds: *)
(* acknowledged appends are durable, every file decodes in every state,    *)
(* the cache agrees with the file, a fork owns only what is its own, what  *)
(* Resume returns is complete, and history only grows.                     *)
(*                                                                         *)
(* The inductive invariant says of each session on its own what its file,  *)
(* cache and append in progress have to do with each other.  It is stated  *)
(* over their values, so that what an action does to one session is a fact *)
(* about values too.                                                       *)
(***************************************************************************)
EXTENDS SessionStore, HistoryProofs

IsFile(f) ==
    /\ f \in [exists : BOOLEAN, lines : {f.lines}, torn : BOOLEAN]
    /\ IsSequence(f.lines)

IsCall(a) ==
    a \in [pc : {"idle", "truncate", "write", "sync"}, record : {a.record},
           head : {a.head}, size : {a.size}]

(* What every caller may try is faithful. *)
CallersFaithful ==
    \A s \in Sessions : \A head : \A record \in Records(s, head) :
      CanAppend(head, record) => Faithful(head, record)

(* Responses and statuses follow their turn, a fork starts at its turn,    *)
(* and faithful callers leave a faithful log.                              *)
LogSound(l) ==
    TurnsFirst(l) /\ ForkPoint(l) /\ (CallersFaithful => FaithfulLog(l))

(* The file is sound, and at least what it inherited is on disk. *)
LogOK(f, y) ==
    /\ IsFile(f) /\ Decode(f.lines).ok /\ LogSound(f.lines)
    /\ y \in Inherited(f.lines)..Len(f.lines)

(* Nothing is known of a session that has no file. *)
AbsentOK(f, c, a) ==
    ~f.exists => f.lines = << >> /\ ~c.valid /\ a.pc = "idle"

(* Between calls the cache is what reading the file would give. *)
CacheOK(f, c, a) ==
    c.valid /\ a.pc = "idle" => c = Cached(Decode(f.lines).head, Len(f.lines))

(* Before its line is written, an append knows the file's head and size;   *)
(* afterwards its line is the last, and its head is the file's.            *)
PreparedFor(l, a) ==
    /\ a.size = Len(l)
    /\ \E r : /\ CanAppend(Decode(l).head, r)
              /\ CallersFaithful => Faithful(Decode(l).head, r)
              /\ a.record = Line(Decode(l).head, r)
              /\ a.head = AppendTo(Decode(l).head, r)

CallOK(f, a) ==
    /\ IsCall(a)
    /\ a.pc \in {"truncate", "write"} => PreparedFor(f.lines, a)
    /\ a.pc = "write" => ~f.torn
    /\ a.pc = "sync" => /\ a.size \in Nat /\ a.size + 1 = Len(f.lines)
                        /\ f.lines[Len(f.lines)] = a.record
                        /\ a.head = Decode(f.lines).head

(* What was acknowledged is on disk. *)
AckedOK(f, y, w) ==
    \A entry \in w : entry[1] \in 1..y /\ f.lines[entry[1]] = entry[2]

SessionOK(f, y, c, a, w) ==
    /\ LogOK(f, y) /\ AbsentOK(f, c, a) /\ CacheOK(f, c, a)
    /\ CallOK(f, a) /\ AckedOK(f, y, w)

Maps ==
    /\ IsMap(file) /\ DOMAIN file = Sessions
    /\ IsMap(synced) /\ DOMAIN synced = Sessions
    /\ IsMap(cache) /\ DOMAIN cache = Sessions
    /\ IsMap(call) /\ DOMAIN call = Sessions
    /\ IsMap(acked) /\ DOMAIN acked = Sessions

SessionInv ==
    /\ Maps
    /\ \A s \in Sessions :
         SessionOK(file[s], synced[s], cache[s], call[s], acked[s])
    /\ faults \in 0..MaxFaults /\ boots \in Nat

(* The directory: an entry that is on disk is of a file that is there, and *)
(* the entry of a session whose Create or Fork returned nil is on disk.    *)
DirectoryInv ==
    /\ linked \in [Sessions -> BOOLEAN] /\ created \in [Sessions -> BOOLEAN]
    /\ \A s \in Sessions : /\ created[s] => linked[s]
                           /\ linked[s] => file[s].exists

-----------------------------------------------------------------------------
(* Steps of one session, as facts about its values. *)

(* The log of a new session, of a fork, and what is left of a log. *)
LEMMA SoundEmpty == LogSound(<< >>)
  <1>1. IsSequence(<< >>) /\ Len(<< >>) = 0
    BY EmptyIsSequence
  <1>2. Inherited(<< >>) = 0
    BY <1>1, InheritedFacts
  <1>3. TurnsFirst(<< >>)
    BY <1>1 DEF TurnsFirst
  <1>4. ForkPoint(<< >>)
    BY <1>2 DEF ForkPoint
  <1>5. FaithfulLog(<< >>)
    BY <1>1, <1>2 DEF FaithfulLog
  <1> QED BY <1>3, <1>4, <1>5 DEF LogSound

LEMMA SoundFork ==
    ASSUME NEW l, IsSequence(l), Decode(l).ok, LogSound(l), NEW parent, NEW previous,
           ForkBoundary(Items(l), previous) # 0
    PROVE  LogSound(ForkLines(l, parent, previous))
  <1> DEFINE m == ForkLines(l, parent, previous)
  <1>1. TurnsFirst(m) /\ ForkPoint(m)
    BY ForkPointFacts DEF LogSound
  <1>2. Inherited(m) = Len(m) /\ Len(m) \in Nat
    BY ForkFacts
  <1> HIDE DEF m
  <1>3. FaithfulLog(m)
    BY <1>2 DEF FaithfulLog
  <1> QED BY <1>1, <1>3 DEF LogSound, m

LEMMA SoundPrefix ==
    ASSUME NEW l, IsSequence(l), LogSound(l), NEW n \in Inherited(l)..Len(l)
    PROVE  LogSound(SubSeq(l, 1, n))
  <1> DEFINE m == SubSeq(l, 1, n)
             f == Inherited(l)
  <1>1. f \in 0..Len(l) /\ Len(l) \in Nat /\ n \in Nat /\ n <= Len(l)
    BY InheritedFacts DEF IsSequence
  <1>2. TurnsFirst(m) /\ ForkPoint(m)
    BY <1>1, TurnsFirstPrefix, ForkPointPrefix DEF LogSound
  <1>3. Inherited(m) = f /\ Len(m) = n /\ \A i \in 1..n : m[i] = l[i]
    BY <1>1, InheritedPrefix, PrefixFacts
  <1>4. \A i \in 0..n : SubSeq(m, 1, i) = SubSeq(l, 1, i)
    BY <1>1, PrefixOfPrefix
  <1> HIDE DEF m, f
  <1>5. ASSUME FaithfulLog(l)
        PROVE  FaithfulLog(m)
    <2> SUFFICES ASSUME NEW k \in (f + 1)..n
                 PROVE  Faithful(Decode(SubSeq(m, 1, k - 1)).head, m[k].record)
      BY <1>3 DEF FaithfulLog
    <2>1. k \in (f + 1)..Len(l) /\ k \in 1..n /\ k - 1 \in 0..n
      BY <1>1
    <2>2. Faithful(Decode(SubSeq(l, 1, k - 1)).head, l[k].record)
      BY <1>5, <2>1 DEF FaithfulLog, f
    <2> QED BY <1>3, <1>4, <2>1, <2>2
  <1> QED BY <1>2, <1>5 DEF LogSound, m

(* One more record that passed its checks. *)
LEMMA SoundAppend ==
    ASSUME NEW l, IsSequence(l), Decode(l).ok, LogSound(l), NEW x,
           CanAppend(Decode(l).head, x.record),
           CallersFaithful => Faithful(Decode(l).head, x.record)
    PROVE  LogSound(Append(l, x))
  <1> DEFINE m == Append(l, x)
  <1>1. ~IsFork(x)
    BY DEF CanAppend, IsFork
  <1>2. TurnsFirst(m) /\ ForkPoint(m)
    BY <1>1, PreparedTurnsFirst, ForkPointAppend DEF LogSound
  <1>3. CallersFaithful => FaithfulLog(m)
    BY <1>1, FaithfulAppend DEF LogSound
  <1> QED BY <1>2, <1>3 DEF LogSound

LEMMA NoCallFacts ==
    /\ IsCall(NoCall) /\ NoCall.pc = "idle"
    /\ NotCached.valid = FALSE
    /\ IsFile(NoFile) /\ NoFile.exists = FALSE /\ NoFile.lines = << >>
  BY EmptyIsSequence DEF IsCall, NoCall, NotCached, IsFile, NoFile

(* A session that was never created. *)
LEMMA AbsentFacts == SessionOK(NoFile, 0, NotCached, NoCall, {})
  <1>1. Decode(<< >>).ok
    BY DecodeEmpty DEF Fresh
  <1>2. Inherited(<< >>) = 0 /\ Len(<< >>) = 0
    BY EmptyIsSequence, InheritedFacts
  <1>3. 0 \in Inherited(<< >>)..Len(<< >>)
    BY <1>2
  <1> QED BY <1>1, <1>3, NoCallFacts, SoundEmpty
          DEF SessionOK, LogOK, AbsentOK, CacheOK, CallOK, AckedOK

(* An append that failed, or died with the process, leaves the file as it  *)
(* is but for its torn tail, and nothing in memory.                        *)
LEMMA AbandonFacts ==
    ASSUME NEW f, NEW y, NEW c, NEW a, NEW w, SessionOK(f, y, c, a, w),
           NEW torn \in BOOLEAN
    PROVE  SessionOK([f EXCEPT !.torn = torn], y, NotCached, NoCall, w)
  <1> DEFINE g == [f EXCEPT !.torn = torn]
  <1>1. IsFile(g) /\ g.lines = f.lines /\ g.exists = f.exists
    BY DEF SessionOK, LogOK, IsFile
  <1> HIDE DEF g
  <1>2. LogOK(g, y) /\ AckedOK(g, y, w)
    BY <1>1 DEF SessionOK, LogOK, AckedOK
  <1>3. AbsentOK(g, NotCached, NoCall)
    BY <1>1, NoCallFacts DEF SessionOK, AbsentOK
  <1>4. CacheOK(g, NotCached, NoCall) /\ CallOK(g, NoCall)
    BY NoCallFacts DEF CacheOK, CallOK
  <1> QED BY <1>2, <1>3, <1>4 DEF SessionOK, g

LEMMA TornAsIs ==
    ASSUME NEW f, IsFile(f)
    PROVE  [f EXCEPT !.torn = f.torn] = f /\ f.torn \in BOOLEAN
  BY DEF IsFile

(* A file that appears whole: its log is sound and the head fits it. *)
LEMMA PublishFacts ==
    ASSUME NEW l, IsSequence(l), Decode(l).ok, LogSound(l), NEW head, head = Decode(l).head,
           NEW c, c = Cached(head, Len(l)) \/ c = NotCached
    PROVE  SessionOK([exists |-> TRUE, lines |-> l, torn |-> FALSE], Len(l), c, NoCall, {})
  <1> DEFINE f == [exists |-> TRUE, lines |-> l, torn |-> FALSE]
  <1>1. f.exists = TRUE /\ f.lines = l /\ IsFile(f)
    BY DEF IsFile
  <1>2. Inherited(l) \in 0..Len(l) /\ Len(l) \in Nat
    BY InheritedFacts DEF IsSequence
  <1>3. Len(l) \in Inherited(l)..Len(l)
    BY <1>2
  <1>4. CacheOK(f, c, NoCall)
    BY <1>1, NoCallFacts DEF CacheOK
  <1> HIDE DEF f
  <1> QED BY <1>1, <1>3, <1>4, NoCallFacts
          DEF SessionOK, LogOK, AbsentOK, CallOK, AckedOK, f

(* The machine crash: a part of what was not synced is lost. *)
LEMMA CutFacts ==
    ASSUME NEW f, NEW y, NEW c, NEW a, NEW w, SessionOK(f, y, c, a, w),
           NEW kept \in y..Len(f.lines), NEW torn \in BOOLEAN
    PROVE  SessionOK([f EXCEPT !.lines = SubSeq(f.lines, 1, kept), !.torn = torn], kept,
                     NotCached, NoCall, w)
  <1> DEFINE l == f.lines
             m == SubSeq(l, 1, kept)
             g == [f EXCEPT !.lines = m, !.torn = torn]
  <1>1. /\ IsSequence(l) /\ Decode(l).ok /\ LogSound(l) /\ y \in Inherited(l)..Len(l)
        /\ Inherited(l) \in 0..Len(l) /\ Len(l) \in Nat
    BY InheritedFacts DEF SessionOK, LogOK, IsFile, IsSequence
  <1>2. y \in Nat /\ kept \in Nat /\ kept <= Len(l) /\ kept \in Inherited(l)..Len(l) /\ y <= kept
    BY <1>1
  <1>3. IsSequence(m) /\ Len(m) = kept /\ \A i \in 1..kept : m[i] = l[i]
    BY <1>1, <1>2, PrefixFacts
  <1>4. Decode(m).ok /\ LogSound(m)
    BY <1>1, <1>2, DecodePrefix, SoundPrefix DEF PrefixDecodes
  <1>5. Inherited(m) = Inherited(l)
    BY <1>1, <1>2, InheritedPrefix
  <1> HIDE DEF m
  <1>6. g.lines = m /\ g.exists = f.exists /\ IsFile(g)
    BY <1>3 DEF SessionOK, LogOK, IsFile
  <1> HIDE DEF g
  <1>7. LogOK(g, kept)
    BY <1>1, <1>2, <1>3, <1>4, <1>5, <1>6 DEF LogOK
  <1>8. AbsentOK(g, NotCached, NoCall)
    <2> SUFFICES ASSUME ~f.exists PROVE m = << >>
      BY <1>6, NoCallFacts DEF AbsentOK
    <2>1. Len(l) = 0
      BY EmptyIsSequence DEF SessionOK, AbsentOK
    <2> QED BY <1>2, <1>3, <2>1, LengthZero
  <1>9. AckedOK(g, kept, w)
    <2> SUFFICES ASSUME NEW entry \in w
                 PROVE  entry[1] \in 1..kept /\ g.lines[entry[1]] = entry[2]
      BY DEF AckedOK
    <2>1. entry[1] \in 1..y /\ l[entry[1]] = entry[2]
      BY DEF SessionOK, AckedOK
    <2> QED BY <1>2, <1>3, <1>6, <2>1
  <1>10. SessionOK(g, kept, NotCached, NoCall, w)
    BY <1>7, <1>8, <1>9, NoCallFacts DEF SessionOK, CacheOK, CallOK
  <1> QED BY <1>10 DEF g, m

(* The write state of a session between calls is what its file says. *)
LEMMA WriteStateFacts ==
    ASSUME NEW f, NEW y, NEW c, NEW a, NEW w, SessionOK(f, y, c, a, w),
           a.pc = "idle"
    PROVE  (IF c.valid THEN c ELSE Cached(Decode(f.lines).head, Len(f.lines)))
             = Cached(Decode(f.lines).head, Len(f.lines))
  BY DEF SessionOK, CacheOK

(* The checks pass: the append is prepared for the file as it is. *)
LEMMA BeginFacts ==
    ASSUME NEW f, NEW y, NEW c, NEW a, NEW w, SessionOK(f, y, c, a, w),
           a.pc = "idle", f.exists, NEW r, CanAppend(Decode(f.lines).head, r),
           CallersFaithful => Faithful(Decode(f.lines).head, r), NEW d
    PROVE  SessionOK(f, y, d,
             [pc |-> "truncate", record |-> Line(Decode(f.lines).head, r),
              head |-> AppendTo(Decode(f.lines).head, r), size |-> Len(f.lines)], w)
  <1> DEFINE b == [pc |-> "truncate", record |-> Line(Decode(f.lines).head, r),
                   head |-> AppendTo(Decode(f.lines).head, r), size |-> Len(f.lines)]
  <1>1. /\ IsCall(b) /\ b.pc = "truncate" /\ b.size = Len(f.lines)
        /\ b.record = Line(Decode(f.lines).head, r)
        /\ b.head = AppendTo(Decode(f.lines).head, r)
    BY DEF IsCall
  <1> HIDE DEF b
  <1>2. PreparedFor(f.lines, b)
    BY <1>1 DEF PreparedFor
  <1>3. CallOK(f, b) /\ CacheOK(f, d, b)
    BY <1>1, <1>2 DEF CallOK, CacheOK
  <1>4. LogOK(f, y) /\ AbsentOK(f, d, b) /\ AckedOK(f, y, w)
    BY DEF SessionOK, AbsentOK
  <1> QED BY <1>3, <1>4 DEF SessionOK, b

(* A refused record only fills the cache. *)
LEMMA RefuseFacts ==
    ASSUME NEW f, NEW y, NEW c, NEW a, NEW w, SessionOK(f, y, c, a, w),
           f.exists
    PROVE  SessionOK(f, y, Cached(Decode(f.lines).head, Len(f.lines)), a, w)
  BY DEF SessionOK, AbsentOK, CacheOK

(* Truncating to the known size removes the torn tail and no line. *)
LEMMA TruncateFacts ==
    ASSUME NEW f, NEW y, NEW c, NEW a, NEW w, SessionOK(f, y, c, a, w),
           a.pc = "truncate"
    PROVE  /\ SubSeq(f.lines, 1, a.size) = f.lines
           /\ (IF y < a.size THEN y ELSE a.size) = y
           /\ SessionOK([f EXCEPT !.torn = FALSE], y, c, [a EXCEPT !.pc = "write"], w)
  <1> DEFINE g == [f EXCEPT !.torn = FALSE]
             b == [a EXCEPT !.pc = "write"]
  <1>1. /\ IsFile(f) /\ IsSequence(f.lines) /\ Len(f.lines) \in Nat
        /\ Inherited(f.lines) \in 0..Len(f.lines) /\ y \in Inherited(f.lines)..Len(f.lines)
    BY InheritedFacts DEF SessionOK, LogOK, IsFile, IsSequence
  <1>2. a.size = Len(f.lines) /\ PreparedFor(f.lines, a)
    BY DEF SessionOK, CallOK, PreparedFor
  <1>3. SubSeq(f.lines, 1, a.size) = f.lines
    BY <1>1, <1>2, WholePrefix
  <1>4. (IF y < a.size THEN y ELSE a.size) = y
    BY <1>1, <1>2
  <1>5. IsFile(g) /\ g.lines = f.lines /\ g.exists = f.exists /\ g.torn = FALSE
    BY <1>1 DEF IsFile
  <1>6. IsCall(b) /\ b.pc = "write" /\ b.size = a.size /\ b.record = a.record /\ b.head = a.head
    BY DEF SessionOK, CallOK, IsCall
  <1> HIDE DEF g, b
  <1>7. CallOK(g, b)
    BY <1>2, <1>5, <1>6 DEF CallOK, PreparedFor
  <1>8. LogOK(g, y) /\ AckedOK(g, y, w) /\ CacheOK(g, c, b)
    BY <1>5, <1>6 DEF SessionOK, LogOK, AckedOK, CacheOK
  <1>9. AbsentOK(g, c, b)
    <2>1. f.exists
      BY DEF SessionOK, AbsentOK, LogOK, IsFile
    <2> QED BY <1>5, <2>1 DEF AbsentOK
  <1>10. SessionOK(g, y, c, b, w)
    BY <1>7, <1>8, <1>9 DEF SessionOK
  <1> QED BY <1>3, <1>4, <1>10 DEF g, b

(* The line that a prepared append writes keeps the log sound, and the     *)
(* append's head is the file's from then on.                               *)
LEMMA PreparedDecodes ==
    ASSUME NEW l, IsSequence(l), Decode(l).ok, LogSound(l), NEW a, PreparedFor(l, a)
    PROVE  /\ Decode(Append(l, a.record)).ok
           /\ Decode(Append(l, a.record)).head = a.head
           /\ Inherited(Append(l, a.record)) = Inherited(l)
           /\ LogSound(Append(l, a.record))
  <1> DEFINE h == Decode(l).head
             x == a.record
  <1>1. PICK r : /\ CanAppend(h, r) /\ x = Line(h, r) /\ a.head = AppendTo(h, r)
                 /\ CallersFaithful => Faithful(h, r)
    BY DEF PreparedFor
  <1>2. x.record = r /\ (IsItem(r) => x.seq = h.sequence + 1)
    BY <1>1 DEF Line
  <1>3. r.type # "fork"
    BY <1>1 DEF CanAppend
  <1>4. ~IsFork(x)
    BY <1>2, <1>3 DEF IsFork
  <1> HIDE DEF x
  <1>5. Decode(Append(l, x)) = ReplayOwned(Decode(l), x)
    BY <1>4, DecodeAppend
  <1>6. ReplayOwned(Decode(l), x).ok /\ ReplayOwned(Decode(l), x).head = AppendTo(h, r)
    BY <1>1, <1>2 DEF ReplayOwned
  <1>7. Inherited(Append(l, x)) = Inherited(l)
    BY <1>4, InheritedAppend
  <1>8. LogSound(Append(l, x))
    BY <1>1, <1>2, SoundAppend
  <1> QED BY <1>1, <1>5, <1>6, <1>7, <1>8 DEF x

(* Writing the line. *)
LEMMA WriteFacts ==
    ASSUME NEW f, NEW y, NEW c, NEW a, NEW w, SessionOK(f, y, c, a, w),
           a.pc = "write"
    PROVE  /\ ~f.torn
           /\ SessionOK([f EXCEPT !.torn = FALSE, !.lines = Append(f.lines, a.record)],
                        y, c, [a EXCEPT !.pc = "sync"], w)
  <1> DEFINE l == f.lines
             m == Append(l, a.record)
             g == [f EXCEPT !.torn = FALSE, !.lines = m]
             b == [a EXCEPT !.pc = "sync"]
  <1>1. /\ IsFile(f) /\ IsSequence(l) /\ Len(l) \in Nat /\ Decode(l).ok /\ LogSound(l)
        /\ Inherited(l) \in 0..Len(l) /\ y \in Inherited(l)..Len(l)
    BY InheritedFacts DEF SessionOK, LogOK, IsFile, IsSequence
  <1>2. ~f.torn /\ PreparedFor(l, a) /\ a.size = Len(l) /\ f.exists
    BY DEF SessionOK, CallOK, PreparedFor, AbsentOK, LogOK, IsFile
  <1>3. /\ IsSequence(m) /\ Len(m) = Len(l) + 1 /\ m[Len(l) + 1] = a.record
        /\ \A i \in 1..Len(l) : m[i] = l[i]
    BY <1>1, AppendFacts
  <1>4. /\ Decode(m).ok /\ Decode(m).head = a.head /\ Inherited(m) = Inherited(l)
        /\ LogSound(m)
    BY <1>1, <1>2, PreparedDecodes
  <1> HIDE DEF m
  <1>5. IsFile(g) /\ g.lines = m /\ g.exists = f.exists /\ g.torn = FALSE
    BY <1>1, <1>3 DEF IsFile
  <1>6. IsCall(b) /\ b.pc = "sync" /\ b.size = a.size /\ b.record = a.record /\ b.head = a.head
    BY DEF SessionOK, CallOK, IsCall
  <1> HIDE DEF g, b
  <1>7. CallOK(g, b)
    BY <1>1, <1>2, <1>3, <1>4, <1>5, <1>6 DEF CallOK
  <1>8. LogOK(g, y)
    BY <1>1, <1>3, <1>4, <1>5 DEF LogOK
  <1>9. AckedOK(g, y, w)
    <2> SUFFICES ASSUME NEW entry \in w
                 PROVE  entry[1] \in 1..y /\ g.lines[entry[1]] = entry[2]
      BY DEF AckedOK
    <2>1. entry[1] \in 1..y /\ l[entry[1]] = entry[2]
      BY DEF SessionOK, AckedOK
    <2> QED BY <1>1, <1>3, <1>5, <2>1
  <1>10. CacheOK(g, c, b) /\ AbsentOK(g, c, b)
    BY <1>2, <1>5, <1>6 DEF CacheOK, AbsentOK
  <1>11. SessionOK(g, y, c, b, w)
    BY <1>7, <1>8, <1>9, <1>10 DEF SessionOK
  <1> QED BY <1>2, <1>11 DEF g, b, m

(* Sync puts every line on disk; Close, and the append is acknowledged. *)
LEMMA SyncFacts ==
    ASSUME NEW f, NEW y, NEW c, NEW a, NEW w, SessionOK(f, y, c, a, w),
           a.pc = "sync"
    PROVE  /\ SessionOK(f, Len(f.lines), Cached(a.head, a.size + 1), NoCall,
                        w \cup {<<Len(f.lines), a.record>>})
           /\ SessionOK(f, Len(f.lines), NotCached, NoCall, w)
  <1> DEFINE l == f.lines
             n == Len(l)
             v == w \cup {<<n, a.record>>}
             d == Cached(a.head, a.size + 1)
  <1>1. /\ IsFile(f) /\ IsSequence(l) /\ n \in Nat /\ Decode(l).ok /\ LogSound(l)
        /\ Inherited(l) \in 0..n /\ y \in Inherited(l)..n
    BY InheritedFacts DEF SessionOK, LogOK, IsFile, IsSequence
  <1>2. f.exists /\ a.size + 1 = n /\ l[n] = a.record /\ a.head = Decode(l).head
    BY DEF SessionOK, CallOK, AbsentOK, LogOK, IsFile
  <1>3. n \in 1..n
    <2>1. n # 0
      BY <1>1, <1>2 DEF SessionOK, CallOK
    <2> QED BY <1>1, <2>1
  <1>4. LogOK(f, n) /\ CallOK(f, NoCall) /\ AbsentOK(f, d, NoCall)
        /\ AbsentOK(f, NotCached, NoCall) /\ CacheOK(f, NotCached, NoCall)
    BY <1>1, <1>2, NoCallFacts DEF LogOK, CallOK, AbsentOK, CacheOK
  <1>5. CacheOK(f, d, NoCall)
    BY <1>2 DEF CacheOK
  <1>6. AckedOK(f, n, v)
    <2> SUFFICES ASSUME NEW entry \in v
                 PROVE  entry[1] \in 1..n /\ l[entry[1]] = entry[2]
      BY DEF AckedOK
    <2>1. CASE entry \in w
      <3>1. entry[1] \in 1..y /\ l[entry[1]] = entry[2]
        BY <2>1 DEF SessionOK, AckedOK
      <3> QED BY <1>1, <3>1
    <2>2. CASE entry = <<n, a.record>>
      BY <1>2, <1>3, <2>2
    <2> QED BY <2>1, <2>2
  <1>7. AckedOK(f, n, w)
    BY <1>6 DEF AckedOK
  <1> QED BY <1>4, <1>5, <1>6, <1>7 DEF SessionOK
-----------------------------------------------------------------------------
(* The invariant is inductive. *)

(* A step of one session leaves the others alone. *)
Elsewhere(s) ==
    \A t \in Sessions \ {s} :
      /\ file'[t] = file[t] /\ synced'[t] = synced[t]
      /\ cache'[t] = cache[t] /\ call'[t] = call[t] /\ acked'[t] = acked[t]

LEMMA LocalStep ==
    ASSUME SessionInv, NEW s \in Sessions, Elsewhere(s), Maps',
           SessionOK(file'[s], synced'[s], cache'[s], call'[s], acked'[s]),
           faults' \in 0..MaxFaults, UNCHANGED boots
    PROVE  SessionInv'
  BY DEF SessionInv, Elsewhere

(* One entry of a map. *)
LEMMA UpdateFacts ==
    ASSUME NEW f, IsMap(f), NEW s \in DOMAIN f, NEW v
    PROVE  LET g == [f EXCEPT ![s] = v]
           IN IsMap(g) /\ DOMAIN g = DOMAIN f /\ g[s] = v /\ \A t \in DOMAIN f \ {s} : g[t] = f[t]
  BY DEF IsMap

LEMMA FaultFacts ==
    ASSUME SessionInv, Fault
    PROVE  faults' \in 0..MaxFaults
  BY BoundsAssumption DEF SessionInv, Fault

LEMMA InitInv == Init => SessionInv
  <1> SUFFICES ASSUME Init PROVE SessionInv
    OBVIOUS
  <1>1. Maps
    BY DEF Init, Maps, IsMap
  <1>2. \A s \in Sessions : SessionOK(file[s], synced[s], cache[s], call[s], acked[s])
    BY AbsentFacts DEF Init
  <1>3. faults \in 0..MaxFaults /\ boots \in Nat
    BY BoundsAssumption DEF Init
  <1> QED BY <1>1, <1>2, <1>3 DEF SessionInv

(* Publishing a sound log under a session that has no file. *)
LEMMA PublishInv ==
    ASSUME SessionInv, NEW s \in Sessions, ~file[s].exists,
           NEW l, IsSequence(l), Decode(l).ok, LogSound(l), NEW head, head = Decode(l).head,
           Publish(s, l, head), UNCHANGED <<call, acked, boots>>
    PROVE  SessionInv'
  <1> DEFINE f == [exists |-> TRUE, lines |-> l, torn |-> FALSE]
  <1>1. /\ SessionOK(file[s], synced[s], cache[s], call[s], acked[s])
        /\ Maps /\ faults \in 0..MaxFaults
    BY DEF SessionInv
  <1>2. /\ file[s].lines = << >> /\ ~cache[s].valid /\ call[s].pc = "idle"
        /\ acked[s] = {}
    <2>1. file[s].lines = << >> /\ ~cache[s].valid /\ call[s].pc = "idle"
      BY <1>1 DEF SessionOK, AbsentOK
    <2>2. synced[s] \in 0..0
      <3>1. Len(<< >>) = 0 /\ Inherited(<< >>) = 0
        BY EmptyIsSequence, InheritedFacts
      <3> QED BY <1>1, <2>1, <3>1 DEF SessionOK, LogOK
    <2> QED BY <1>1, <2>1, <2>2 DEF SessionOK, AckedOK
  <1>3. /\ IsMap(file) /\ s \in DOMAIN file /\ IsMap(synced) /\ s \in DOMAIN synced
        /\ IsMap(cache) /\ s \in DOMAIN cache
    BY <1>1 DEF Maps
  <1>4. CASE /\ file' = [file EXCEPT ![s] = f]
             /\ synced' = [synced EXCEPT ![s] = Len(l)]
             /\ \/ cache' = [cache EXCEPT ![s] = Cached(head, Len(l))] /\ UNCHANGED faults
                \/ cache' = [cache EXCEPT ![s] = NotCached] /\ Fault
    <2> HIDE DEF f
    <2>a. /\ file'[s] = f /\ IsMap(file') /\ DOMAIN file' = DOMAIN file
          /\ \A t \in DOMAIN file \ {s} : file'[t] = file[t]
      BY <1>3, <1>4, UpdateFacts
    <2>b. /\ synced'[s] = Len(l) /\ IsMap(synced') /\ DOMAIN synced' = DOMAIN synced
          /\ \A t \in DOMAIN synced \ {s} : synced'[t] = synced[t]
      BY <1>3, <1>4, UpdateFacts
    <2>c. /\ cache'[s] \in {Cached(head, Len(l)), NotCached}
          /\ IsMap(cache') /\ DOMAIN cache' = DOMAIN cache
          /\ \A t \in DOMAIN cache \ {s} : cache'[t] = cache[t]
      BY <1>3, <1>4, UpdateFacts
    <2>1. Elsewhere(s) /\ Maps'
      BY <1>1, <2>a, <2>b, <2>c DEF Maps, Elsewhere
    <2>2. faults' \in 0..MaxFaults
      BY <1>1, <1>4, FaultFacts
    <2>3. SessionOK(f, Len(l), cache'[s], NoCall, {})
      BY <2>c, PublishFacts DEF f
    <2>4. CallOK(f, call[s])
      BY <1>1, <1>2 DEF SessionOK, CallOK
    <2>5. SessionOK(f, Len(l), cache'[s], call[s], {})
      BY <1>2, <2>3, <2>4, NoCallFacts DEF SessionOK, AbsentOK, CacheOK
    <2> QED BY <1>2, <2>a, <2>b, <2>1, <2>2, <2>5, LocalStep
  <1>5. CASE Fault /\ cache' = [cache EXCEPT ![s] = NotCached] /\ UNCHANGED <<file, synced>>
    <2>1. cache'[s] = NotCached /\ Elsewhere(s) /\ Maps'
      BY <1>1, <1>3, <1>5, UpdateFacts DEF Maps, Elsewhere
    <2>2. faults' \in 0..MaxFaults
      BY <1>5, FaultFacts
    <2>3. SessionOK(file[s], synced[s], NotCached, call[s], acked[s])
      BY <1>1, NoCallFacts DEF SessionOK, AbsentOK, CacheOK
    <2> QED BY <1>5, <2>1, <2>2, <2>3, LocalStep
  <1> QED BY <1>4, <1>5 DEF Publish

LEMMA CreateInv ==
    ASSUME SessionInv, NEW s \in Sessions, Create(s)
    PROVE  SessionInv'
  <1>1. Decode(<< >>).ok /\ Decode(<< >>).head = NewHead
    BY DecodeEmpty DEF Fresh
  <1> QED BY <1>1, EmptyIsSequence, SoundEmpty, PublishInv DEF Create

LEMMA ForkInv ==
    ASSUME SessionInv, NEW s \in Sessions, NEW parent \in Sessions, NEW previous,
           Fork(s, parent, previous)
    PROVE  SessionInv'
  <1> DEFINE l == file[parent].lines
             m == ForkLines(l, parent, previous)
  <1>1. IsSequence(l) /\ Decode(l).ok /\ LogSound(l) /\ ForkBoundary(Items(l), previous) # 0
    BY DEF SessionInv, SessionOK, LogOK, IsFile, Fork
  <1>2. IsSequence(m) /\ Decode(m).ok /\ Decode(m).head = ForkHead(m) /\ LogSound(m)
    BY <1>1, ForkFacts, SoundFork
  <1>3. ~file[s].exists /\ Publish(s, m, ForkHead(m)) /\ UNCHANGED <<call, acked, boots>>
    BY DEF Fork
  <1> HIDE DEF m
  <1> QED BY <1>2, <1>3, PublishInv

LEMMA BeginAppendInv ==
    ASSUME SessionInv, NEW s \in Sessions, NEW r \in Records(s, WriteState(s).head),
           BeginAppend(s, r)
    PROVE  SessionInv'
  <1> DEFINE l == file[s].lines
             h == Decode(l).head
             st == Cached(h, Len(l))
             b == [pc |-> "truncate", record |-> Line(h, r), head |-> AppendTo(h, r),
                   size |-> Len(l)]
  <1>1. /\ SessionOK(file[s], synced[s], cache[s], call[s], acked[s])
        /\ Maps /\ faults \in 0..MaxFaults
    BY DEF SessionInv
  <1>2. /\ IsMap(cache) /\ s \in DOMAIN cache /\ IsMap(call) /\ s \in DOMAIN call
    BY <1>1 DEF Maps
  <1>3. call[s].pc = "idle" /\ file[s].exists
    BY <1>1 DEF BeginAppend, Idle, Readable, SessionOK, AbsentOK, LogOK, IsFile
  <1>4. WriteState(s) = st /\ st.head = h /\ st.size = Len(l)
    BY <1>1, <1>3, WriteStateFacts DEF WriteState, Cached
  <1>5. CASE CanAppend(h, r)
    <2> DEFINE d == Cached(Aliased(h, AppendTo(h, r)), Len(l))
    <2>1. /\ cache' = [cache EXCEPT ![s] = d] /\ call' = [call EXCEPT ![s] = b]
          /\ UNCHANGED <<file, synced, acked, faults, boots>>
      BY <1>4, <1>5 DEF BeginAppend
    <2>2. SessionOK(file[s], synced[s], d, b, acked[s])
      <3>1. CallersFaithful => Faithful(h, r)
        BY <1>4, <1>5 DEF CallersFaithful
      <3> QED BY <1>1, <1>3, <1>5, <3>1, BeginFacts
    <2> HIDE DEF d, b
    <2>3. cache'[s] = d /\ call'[s] = b /\ Elsewhere(s) /\ Maps'
      BY <1>1, <1>2, <2>1, UpdateFacts DEF Maps, Elsewhere
    <2> QED BY <1>1, <2>1, <2>2, <2>3, LocalStep
  <1>6. CASE ~CanAppend(h, r)
    <2>1. /\ cache' = [cache EXCEPT ![s] = st]
          /\ UNCHANGED <<call, file, synced, acked, faults, boots>>
      BY <1>4, <1>6 DEF BeginAppend
    <2>2. SessionOK(file[s], synced[s], st, call[s], acked[s])
      BY <1>1, <1>3, RefuseFacts
    <2> HIDE DEF st
    <2>3. cache'[s] = st /\ Elsewhere(s) /\ Maps'
      BY <1>1, <1>2, <2>1, UpdateFacts DEF Maps, Elsewhere
    <2> QED BY <1>1, <2>1, <2>2, <2>3, LocalStep
  <1> QED BY <1>5, <1>6

(* A failing system call of an append. *)
LEMMA FailInv ==
    ASSUME SessionInv, NEW s \in Sessions, Fail(s), NEW torn \in BOOLEAN,
           file' = [file EXCEPT ![s] = [file[s] EXCEPT !.torn = torn]],
           UNCHANGED <<synced, acked, boots>>
    PROVE  SessionInv'
  <1> DEFINE g == [file[s] EXCEPT !.torn = torn]
  <1>1. /\ SessionOK(file[s], synced[s], cache[s], call[s], acked[s]) /\ Maps
    BY DEF SessionInv
  <1>2. /\ IsMap(file) /\ s \in DOMAIN file /\ IsMap(call) /\ s \in DOMAIN call
        /\ IsMap(cache) /\ s \in DOMAIN cache
    BY <1>1 DEF Maps
  <1>3. /\ call' = [call EXCEPT ![s] = NoCall] /\ cache' = [cache EXCEPT ![s] = NotCached]
        /\ faults' \in 0..MaxFaults
    BY FaultFacts DEF Fail
  <1>4. SessionOK(g, synced[s], NotCached, NoCall, acked[s])
    BY <1>1, AbandonFacts
  <1> HIDE DEF g
  <1>5. /\ file'[s] = g /\ IsMap(file') /\ DOMAIN file' = DOMAIN file
        /\ \A t \in DOMAIN file \ {s} : file'[t] = file[t]
    BY <1>2, UpdateFacts DEF g
  <1>6. /\ call'[s] = NoCall /\ IsMap(call') /\ DOMAIN call' = DOMAIN call
        /\ \A t \in DOMAIN call \ {s} : call'[t] = call[t]
    BY <1>2, <1>3, UpdateFacts
  <1>7. /\ cache'[s] = NotCached /\ IsMap(cache') /\ DOMAIN cache' = DOMAIN cache
        /\ \A t \in DOMAIN cache \ {s} : cache'[t] = cache[t]
    BY <1>2, <1>3, UpdateFacts
  <1>8. Elsewhere(s) /\ Maps'
    BY <1>1, <1>5, <1>6, <1>7 DEF Maps, Elsewhere
  <1> QED BY <1>3, <1>4, <1>5, <1>6, <1>7, <1>8, LocalStep

LEMMA TruncateInv ==
    ASSUME SessionInv, NEW s \in Sessions, Truncate(s)
    PROVE  SessionInv'
  <1> DEFINE f == file[s]
             a == call[s]
             g == [f EXCEPT !.torn = FALSE]
             b == [a EXCEPT !.pc = "write"]
  <1>1. /\ SessionOK(f, synced[s], cache[s], a, acked[s])
        /\ Maps /\ faults \in 0..MaxFaults /\ a.pc = "truncate" /\ IsFile(f)
        /\ UNCHANGED <<acked, boots>>
    BY DEF SessionInv, Truncate, SessionOK, LogOK
  <1>2. /\ IsMap(file) /\ s \in DOMAIN file /\ IsMap(synced) /\ s \in DOMAIN synced
        /\ IsMap(call) /\ s \in DOMAIN call /\ IsMap(cache) /\ s \in DOMAIN cache
    BY <1>1 DEF Maps
  <1>3. CASE /\ file' = [file EXCEPT ![s].lines = SubSeq(@, 1, call[s].size), ![s].torn = FALSE]
             /\ synced' = [synced EXCEPT ![s] = IF @ < call[s].size THEN @ ELSE call[s].size]
             /\ call' = [call EXCEPT ![s].pc = "write"]
             /\ UNCHANGED <<cache, faults>>
    <2>1. /\ SubSeq(f.lines, 1, a.size) = f.lines
          /\ (IF synced[s] < a.size THEN synced[s] ELSE a.size) = synced[s]
          /\ SessionOK(g, synced[s], cache[s], b, acked[s])
      BY <1>1, TruncateFacts
    <2>2. file' = [file EXCEPT ![s] = [f EXCEPT !.lines = SubSeq(f.lines, 1, a.size), !.torn = FALSE]]
      BY <1>2, <1>3 DEF IsMap
    <2>3. [f EXCEPT !.lines = SubSeq(f.lines, 1, a.size), !.torn = FALSE] = g
      BY <1>1, <2>1 DEF IsFile
    <2>4. file' = [file EXCEPT ![s] = g]
      BY <2>2, <2>3
    <2>5. synced' = [synced EXCEPT ![s] = synced[s]] /\ call' = [call EXCEPT ![s] = b]
      BY <1>3, <2>1
    <2> HIDE DEF g, b
    <2>6. /\ file'[s] = g /\ IsMap(file') /\ DOMAIN file' = DOMAIN file
          /\ \A t \in DOMAIN file \ {s} : file'[t] = file[t]
      BY <1>2, <2>4, UpdateFacts
    <2>7. /\ synced'[s] = synced[s] /\ IsMap(synced') /\ DOMAIN synced' = DOMAIN synced
          /\ \A t \in DOMAIN synced \ {s} : synced'[t] = synced[t]
      BY <1>2, <2>5, UpdateFacts
    <2>8. /\ call'[s] = b /\ IsMap(call') /\ DOMAIN call' = DOMAIN call
          /\ \A t \in DOMAIN call \ {s} : call'[t] = call[t]
      BY <1>2, <2>5, UpdateFacts
    <2>9. Elsewhere(s) /\ Maps'
      BY <1>1, <1>3, <2>6, <2>7, <2>8 DEF Maps, Elsewhere
    <2> QED BY <1>1, <1>3, <2>1, <2>6, <2>7, <2>8, <2>9, LocalStep
  <1>4. CASE Fail(s) /\ UNCHANGED <<file, synced>>
    <2>1. file' = [file EXCEPT ![s] = f]
      BY <1>2, <1>4 DEF IsMap
    <2>2. [f EXCEPT !.torn = f.torn] = f /\ f.torn \in BOOLEAN
      BY <1>1, TornAsIs
    <2> QED BY <1>1, <1>4, <2>1, <2>2, FailInv
  <1> QED BY <1>1, <1>3, <1>4 DEF Truncate

LEMMA WriteInv ==
    ASSUME SessionInv, NEW s \in Sessions, Write(s)
    PROVE  SessionInv'
  <1> DEFINE f == file[s]
             a == call[s]
             g == [f EXCEPT !.torn = FALSE, !.lines = Append(f.lines, a.record)]
             b == [a EXCEPT !.pc = "sync"]
  <1>1. /\ SessionOK(f, synced[s], cache[s], a, acked[s])
        /\ Maps /\ faults \in 0..MaxFaults /\ a.pc = "write" /\ IsFile(f)
        /\ UNCHANGED <<synced, acked, boots>>
    BY DEF SessionInv, Write, SessionOK, LogOK
  <1>2. /\ IsMap(file) /\ s \in DOMAIN file /\ IsMap(call) /\ s \in DOMAIN call
    BY <1>1 DEF Maps
  <1>3. CASE /\ file' = [file EXCEPT ![s].torn = FALSE, ![s].lines =
                  Append(@, IF file[s].torn THEN Garbled ELSE call[s].record)]
             /\ call' = [call EXCEPT ![s].pc = "sync"]
             /\ UNCHANGED <<cache, faults>>
    <2>1. /\ ~f.torn
          /\ SessionOK(g, synced[s], cache[s], b, acked[s])
      BY <1>1, WriteFacts
    <2>2. file' = [file EXCEPT ![s].torn = FALSE, ![s].lines = Append(@, a.record)]
      BY <1>3, <2>1
    <2>3. file' = [file EXCEPT ![s] = g]
      BY <1>1, <1>2, <2>2 DEF IsMap, IsFile
    <2>4. call' = [call EXCEPT ![s] = b]
      BY <1>3
    <2> HIDE DEF g, b
    <2>5. /\ file'[s] = g /\ IsMap(file') /\ DOMAIN file' = DOMAIN file
          /\ \A t \in DOMAIN file \ {s} : file'[t] = file[t]
      BY <1>2, <2>3, UpdateFacts
    <2>6. /\ call'[s] = b /\ IsMap(call') /\ DOMAIN call' = DOMAIN call
          /\ \A t \in DOMAIN call \ {s} : call'[t] = call[t]
      BY <1>2, <2>4, UpdateFacts
    <2>7. Elsewhere(s) /\ Maps'
      BY <1>1, <1>3, <2>5, <2>6 DEF Maps, Elsewhere
    <2> QED BY <1>1, <1>3, <2>1, <2>5, <2>6, <2>7, LocalStep
  <1>4. ASSUME NEW torn \in {file[s].torn, TRUE},
               file' = [file EXCEPT ![s].torn = torn], Fail(s)
        PROVE  SessionInv'
    <2>1. file' = [file EXCEPT ![s] = [f EXCEPT !.torn = torn]]
      BY <1>4
    <2>2. torn \in BOOLEAN
      BY <1>1, TornAsIs
    <2> QED BY <1>1, <1>4, <2>1, <2>2, FailInv
  <1> QED BY <1>3, <1>4 DEF Write

LEMMA SyncAndCloseInv ==
    ASSUME SessionInv, NEW s \in Sessions, SyncAndClose(s)
    PROVE  SessionInv'
  <1> DEFINE f == file[s]
             a == call[s]
             n == Len(f.lines)
             d == Cached(a.head, a.size + 1)
             v == acked[s] \cup {<<n, a.record>>}
  <1>1. /\ SessionOK(f, synced[s], cache[s], a, acked[s])
        /\ Maps /\ faults \in 0..MaxFaults /\ a.pc = "sync" /\ IsFile(f)
        /\ UNCHANGED <<file, boots>>
    BY DEF SessionInv, SyncAndClose, SessionOK, LogOK
  <1>2. /\ IsMap(file) /\ s \in DOMAIN file /\ IsMap(synced) /\ s \in DOMAIN synced
        /\ IsMap(cache) /\ s \in DOMAIN cache
        /\ IsMap(call) /\ s \in DOMAIN call /\ IsMap(acked) /\ s \in DOMAIN acked
    BY <1>1 DEF Maps
  <1>3. /\ SessionOK(f, n, d, NoCall, v) /\ SessionOK(f, n, NotCached, NoCall, acked[s])
    BY <1>1, SyncFacts
  <1>4. CASE synced' = [synced EXCEPT ![s] = n]
    <2>1. /\ synced'[s] = n /\ IsMap(synced') /\ DOMAIN synced' = DOMAIN synced
          /\ \A t \in DOMAIN synced \ {s} : synced'[t] = synced[t]
      BY <1>2, <1>4, UpdateFacts
    <2>3. ASSUME NEW c, NEW w, call' = [call EXCEPT ![s] = NoCall],
                 cache' = [cache EXCEPT ![s] = c], acked' = [acked EXCEPT ![s] = w],
                 SessionOK(f, n, c, NoCall, w), faults' \in 0..MaxFaults
          PROVE  SessionInv'
      <3>1. /\ call'[s] = NoCall /\ IsMap(call') /\ DOMAIN call' = DOMAIN call
            /\ \A t \in DOMAIN call \ {s} : call'[t] = call[t]
        BY <1>2, <2>3, UpdateFacts
      <3>2. /\ cache'[s] = c /\ IsMap(cache') /\ DOMAIN cache' = DOMAIN cache
            /\ \A t \in DOMAIN cache \ {s} : cache'[t] = cache[t]
        BY <1>2, <2>3, UpdateFacts
      <3>3. /\ acked'[s] = w /\ IsMap(acked') /\ DOMAIN acked' = DOMAIN acked
            /\ \A t \in DOMAIN acked \ {s} : acked'[t] = acked[t]
        BY <1>2, <2>3, UpdateFacts
      <3> HIDE DEF n
      <3>4. Elsewhere(s) /\ Maps'
        BY <1>1, <2>1, <3>1, <3>2, <3>3 DEF Maps, Elsewhere
      <3>5. SessionOK(file'[s], synced'[s], cache'[s], call'[s], acked'[s])
        BY <1>1, <2>1, <2>3, <3>1, <3>2, <3>3
      <3> QED BY <1>1, <2>3, <3>4, <3>5, LocalStep
    <2>4. CASE /\ call' = [call EXCEPT ![s] = NoCall]
               /\ cache' = [cache EXCEPT ![s] = d]
               /\ acked' = [acked EXCEPT ![s] = v]
               /\ UNCHANGED faults
      BY <1>1, <1>3, <2>3, <2>4
    <2>5. CASE Fail(s) /\ UNCHANGED acked
      <3>1. acked' = [acked EXCEPT ![s] = acked[s]]
        BY <1>2, <2>5 DEF IsMap
      <3>2. faults' \in 0..MaxFaults
        BY <2>5, FaultFacts DEF Fail
      <3> QED BY <1>3, <2>3, <2>5, <3>1, <3>2 DEF Fail
    <2>6. \/ /\ call' = [call EXCEPT ![s] = NoCall]
             /\ cache' = [cache EXCEPT ![s] = d]
             /\ acked' = [acked EXCEPT ![s] = v]
             /\ UNCHANGED faults
          \/ Fail(s) /\ UNCHANGED acked
          \/ Fail(s) /\ UNCHANGED <<synced, acked>>
      BY DEF SyncAndClose
    <2> QED BY <2>4, <2>5, <2>6
  <1>5. CASE Fail(s) /\ UNCHANGED <<synced, acked>>
    <2>1. file' = [file EXCEPT ![s] = f]
      BY <1>1, <1>2 DEF IsMap
    <2>2. [f EXCEPT !.torn = f.torn] = f /\ f.torn \in BOOLEAN
      BY <1>1, TornAsIs
    <2> QED BY <1>1, <1>5, <2>1, <2>2, FailInv
  <1> QED BY <1>4, <1>5 DEF SyncAndClose

LEMMA ProcessCrashInv ==
    ASSUME SessionInv, ProcessCrash
    PROVE  SessionInv'
  <1>1. PICK torn \in [Sessions -> BOOLEAN] :
          file' = [s \in Sessions |-> [file[s] EXCEPT !.torn = torn[s]]]
    BY DEF ProcessCrash
  <1>2. /\ call' = [s \in Sessions |-> NoCall] /\ cache' = [s \in Sessions |-> NotCached]
        /\ UNCHANGED <<synced, acked, boots>> /\ Fault
    BY DEF ProcessCrash
  <1>3. faults' \in 0..MaxFaults
    BY <1>2, FaultFacts
  <1>4. Maps'
    BY <1>1, <1>2 DEF SessionInv, Maps, IsMap
  <1>5. ASSUME NEW s \in Sessions
        PROVE  SessionOK(file'[s], synced'[s], cache'[s], call'[s], acked'[s])
    <2>1. SessionOK(file[s], synced[s], cache[s], call[s], acked[s])
      BY DEF SessionInv
    <2>2. file'[s] = [file[s] EXCEPT !.torn = torn[s]] /\ torn[s] \in BOOLEAN
      BY <1>1
    <2>3. call'[s] = NoCall /\ cache'[s] = NotCached
      BY <1>2
    <2>4. SessionOK([file[s] EXCEPT !.torn = torn[s]], synced[s], NotCached, NoCall, acked[s])
      BY <2>1, <2>2, AbandonFacts
    <2> QED BY <1>2, <2>2, <2>3, <2>4
  <1> QED BY <1>2, <1>3, <1>4, <1>5 DEF SessionInv

LEMMA MachineCrashInv ==
    ASSUME SessionInv, MachineCrash
    PROVE  SessionInv'
  <1>1. PICK kept \in [Sessions -> 0..MaxLines], torn \in [Sessions -> BOOLEAN],
             lost \in SUBSET {s \in Sessions : file[s].exists /\ ~linked[s]} :
          /\ \A s \in Sessions : kept[s] \in synced[s]..Len(file[s].lines)
          /\ \A s \in Sessions :
               torn[s] => \/ file[s].torn
                          \/ call[s].pc = "write"
                          \/ kept[s] < Len(file[s].lines)
          /\ file' = [s \in Sessions |->
               IF s \in lost THEN NoFile
               ELSE [file[s] EXCEPT !.lines = SubSeq(@, 1, kept[s]), !.torn = torn[s]]]
          /\ synced' = [s \in Sessions |-> IF s \in lost THEN 0 ELSE kept[s]]
          /\ linked' = [s \in Sessions |-> s \notin lost /\ file[s].exists]
          /\ acked' = [s \in Sessions |-> IF s \in lost THEN {} ELSE acked[s]]
    BY Zenon DEF MachineCrash
  <1>2. /\ call' = [s \in Sessions |-> NoCall] /\ cache' = [s \in Sessions |-> NotCached]
        /\ Fault /\ boots' = boots + 1
    BY DEF MachineCrash
  <1>3. faults' \in 0..MaxFaults
    BY <1>2, FaultFacts
  <1>4. Maps'
    <2>1. /\ IsMap(file') /\ DOMAIN file' = Sessions /\ IsMap(synced') /\ DOMAIN synced' = Sessions
      BY <1>1 DEF IsMap
    <2>2. /\ IsMap(acked') /\ DOMAIN acked' = Sessions
      BY <1>1 DEF IsMap
    <2>3. /\ IsMap(call') /\ DOMAIN call' = Sessions /\ IsMap(cache') /\ DOMAIN cache' = Sessions
      BY <1>2 DEF SessionInv, Maps, IsMap
    <2> QED BY <2>1, <2>2, <2>3 DEF Maps
  <1>5. ASSUME NEW s \in Sessions
        PROVE  SessionOK(file'[s], synced'[s], cache'[s], call'[s], acked'[s])
    <2>1. SessionOK(file[s], synced[s], cache[s], call[s], acked[s])
      BY DEF SessionInv
    <2>2. call'[s] = NoCall /\ cache'[s] = NotCached
      BY <1>2
    <2>3. CASE s \in lost
      <3>1. file'[s] = NoFile /\ synced'[s] = 0 /\ acked'[s] = {}
        BY <1>1, <2>3
      <3> QED BY <2>2, <3>1, AbsentFacts
    <2>4. CASE s \notin lost
      <3> DEFINE g == [file[s] EXCEPT !.lines = SubSeq(file[s].lines, 1, kept[s]), !.torn = torn[s]]
      <3>1. file'[s] = g /\ synced'[s] = kept[s] /\ acked'[s] = acked[s]
        BY <1>1, <2>4
      <3>2. kept[s] \in synced[s]..Len(file[s].lines) /\ torn[s] \in BOOLEAN
        BY <1>1
      <3>3. SessionOK(g, kept[s], NotCached, NoCall, acked[s])
        BY <2>1, <3>2, CutFacts
      <3> QED BY <2>2, <3>1, <3>3
    <2> QED BY <2>3, <2>4
  <1>6. boots' \in Nat
    BY <1>2 DEF SessionInv
  <1> QED BY <1>3, <1>4, <1>5, <1>6 DEF SessionInv

LEMMA NextInv ==
    ASSUME SessionInv, [Next]_vars
    PROVE  SessionInv'
  <1>1. CASE UNCHANGED vars
    BY <1>1 DEF vars, SessionInv, Maps
  <1>2. ASSUME NEW s \in Sessions, Create(s) PROVE SessionInv'
    BY <1>2, CreateInv
  <1>3. ASSUME NEW s \in Sessions, NEW parent \in Sessions, NEW previous, Fork(s, parent, previous)
        PROVE  SessionInv'
    BY <1>3, ForkInv
  <1>4. ASSUME NEW s \in Sessions, NEW r \in Records(s, WriteState(s).head), BeginAppend(s, r)
        PROVE  SessionInv'
    BY <1>4, BeginAppendInv
  <1>5. ASSUME NEW s \in Sessions, Truncate(s) PROVE SessionInv'
    BY <1>5, TruncateInv
  <1>6. ASSUME NEW s \in Sessions, Write(s) PROVE SessionInv'
    BY <1>6, WriteInv
  <1>7. ASSUME NEW s \in Sessions, SyncAndClose(s) PROVE SessionInv'
    BY <1>7, SyncAndCloseInv
  <1>8. CASE ProcessCrash
    BY <1>8, ProcessCrashInv
  <1>9. CASE MachineCrash
    BY <1>9, MachineCrashInv
  <1> QED BY <1>1, <1>2, <1>3, <1>4, <1>5, <1>6, <1>7, <1>8, <1>9 DEF Next

(* The invariant holds in every reachable state of the store, for every    *)
(* set of sessions, whatever its callers append (store.go:94-433).         *)
THEOREM StoreInvariant == Spec => []SessionInv
  <1>1. Init => SessionInv
    BY InitInv
  <1>2. SessionInv /\ [Next]_vars => SessionInv'
    BY NextInv
  <1> QED BY <1>1, <1>2, PTL DEF Spec

-----------------------------------------------------------------------------
(* What is synced is part of the file, and a call is at one of its steps   *)
(* (store.go:336-433).                                                     *)
THEOREM StoreTypeCorrect == Spec => []TypeOK
  <1>1. SessionInv => TypeOK
    <2> SUFFICES ASSUME SessionInv, NEW s \in Sessions
                 PROVE  /\ file[s].exists \in BOOLEAN
                        /\ synced[s] \in 0..Len(file[s].lines)
                        /\ call[s].pc \in {"idle", "truncate", "write", "sync"}
      BY DEF SessionInv, TypeOK
    <2>1. LogOK(file[s], synced[s]) /\ IsCall(call[s])
      BY DEF SessionInv, SessionOK, CallOK
    <2>2. Inherited(file[s].lines) \in 0..Len(file[s].lines) /\ Len(file[s].lines) \in Nat
      BY <2>1, InheritedFacts DEF LogOK, IsFile, IsSequence
    <2> QED BY <2>1, <2>2 DEF LogOK, IsFile, IsCall
  <1> QED BY <1>1, StoreInvariant, PTL

(* The directory, after every step. *)
LEMMA DirectoryStep ==
    ASSUME SessionInv, DirectoryInv, [Next]_vars
    PROVE  DirectoryInv'
  <1>1. /\ IsMap(file) /\ DOMAIN file = Sessions
        /\ \A t \in Sessions : IsFile(file[t]) /\ file[t].exists \in BOOLEAN
    BY DEF SessionInv, Maps, SessionOK, LogOK, IsFile
  <1>2. ASSUME UNCHANGED <<linked, created>>,
               \A t \in Sessions : file[t].exists => file'[t].exists
        PROVE  DirectoryInv'
    BY <1>2 DEF DirectoryInv
  <1>3. ASSUME NEW s \in Sessions, NEW l, NEW head, ~file[s].exists, Publish(s, l, head)
        PROVE  DirectoryInv'
    <2> DEFINE f == [exists |-> TRUE, lines |-> l, torn |-> FALSE]
    <2>1. CASE file' = [file EXCEPT ![s] = f]
      <3> HIDE DEF f
      <3>1. file'[s] = f /\ \A t \in Sessions \ {s} : file'[t] = file[t]
        BY <1>1, <2>1, UpdateFacts
      <3>2. \A t \in Sessions : file[t].exists \/ t = s => file'[t].exists
        BY <3>1 DEF f
      <3>3. CASE /\ linked' = [t \in Sessions |-> t = s \/ file[t].exists]
                 /\ created' = [created EXCEPT ![s] = TRUE]
        <4>1. \A t \in Sessions : linked'[t] = (t = s \/ file[t].exists)
          BY <3>3
        <4>2. linked' \in [Sessions -> BOOLEAN] /\ created' \in [Sessions -> BOOLEAN]
          BY <1>1, <3>3 DEF DirectoryInv
        <4>3. \A t \in Sessions : created'[t] => created[t] \/ t = s
          BY <3>3 DEF DirectoryInv
        <4> QED BY <3>2, <4>1, <4>2, <4>3 DEF DirectoryInv
      <3>4. CASE UNCHANGED <<linked, created>>
        BY <1>2, <3>2, <3>4
      <3> QED BY <1>3, <3>3, <3>4 DEF Publish
    <2>2. CASE UNCHANGED <<file, linked, created>>
      BY <1>2, <2>2
    <2> QED BY <1>3, <2>1, <2>2 DEF Publish
  <1>4. CASE UNCHANGED vars
    BY <1>2, <1>4 DEF vars
  <1>5. ASSUME NEW s \in Sessions, Create(s) PROVE DirectoryInv'
    BY <1>3, <1>5 DEF Create
  <1>6. ASSUME NEW s \in Sessions, NEW parent \in Sessions, NEW previous, Fork(s, parent, previous)
        PROVE  DirectoryInv'
    BY <1>3, <1>6 DEF Fork
  <1>7. ASSUME NEW s \in Sessions, NEW r, BeginAppend(s, r) PROVE DirectoryInv'
    BY <1>2, <1>7 DEF BeginAppend
  <1>8. ASSUME NEW s \in Sessions, NEW l, NEW torn,
               file' = [file EXCEPT ![s] = [file[s] EXCEPT !.lines = l, !.torn = torn]],
               UNCHANGED <<linked, created>>
        PROVE  DirectoryInv'
    <2> DEFINE g == [file[s] EXCEPT !.lines = l, !.torn = torn]
    <2>1. g.exists = file[s].exists
      BY <1>1 DEF IsFile
    <2> HIDE DEF g
    <2>2. file'[s] = g /\ \A t \in Sessions \ {s} : file'[t] = file[t]
      BY <1>1, <1>8, UpdateFacts DEF g
    <2> QED BY <1>2, <1>8, <2>1, <2>2
  <1>9. ASSUME NEW s \in Sessions, Truncate(s) PROVE DirectoryInv'
    <2>1. CASE UNCHANGED file
      BY <1>2, <1>9, <2>1 DEF Truncate
    <2>2. CASE file' = [file EXCEPT ![s].lines = SubSeq(@, 1, call[s].size), ![s].torn = FALSE]
      <3>1. file' = [file EXCEPT ![s] =
                       [file[s] EXCEPT !.lines = SubSeq(file[s].lines, 1, call[s].size), !.torn = FALSE]]
        BY <1>1, <2>2 DEF IsMap, IsFile
      <3> QED BY <1>8, <1>9, <3>1 DEF Truncate
    <2> QED BY <1>9, <2>1, <2>2 DEF Truncate
  <1>10. ASSUME NEW s \in Sessions, Write(s) PROVE DirectoryInv'
    <2>1. ASSUME NEW torn, file' = [file EXCEPT ![s].torn = torn]
          PROVE  DirectoryInv'
      <3>1. file' = [file EXCEPT ![s] = [file[s] EXCEPT !.lines = file[s].lines, !.torn = torn]]
        BY <1>1, <2>1 DEF IsMap, IsFile
      <3> QED BY <1>8, <1>10, <3>1 DEF Write
    <2>2. ASSUME NEW x, file' = [file EXCEPT ![s].torn = FALSE, ![s].lines = Append(@, x)]
          PROVE  DirectoryInv'
      <3>1. file' = [file EXCEPT ![s] =
                       [file[s] EXCEPT !.lines = Append(file[s].lines, x), !.torn = FALSE]]
        BY <1>1, <2>2 DEF IsMap, IsFile
      <3> QED BY <1>8, <1>10, <3>1 DEF Write
    <2> QED BY <1>10, <2>1, <2>2 DEF Write
  <1>11. ASSUME NEW s \in Sessions, SyncAndClose(s) PROVE DirectoryInv'
    BY <1>2, <1>11 DEF SyncAndClose
  <1>12. CASE ProcessCrash
    <2>1. PICK torn : file' = [s \in Sessions |-> [file[s] EXCEPT !.torn = torn[s]]]
      BY <1>12 DEF ProcessCrash
    <2>2. \A t \in Sessions : file'[t].exists = file[t].exists
      BY <1>1, <2>1 DEF IsFile
    <2> QED BY <1>2, <1>12, <2>2 DEF ProcessCrash
  <1>13. CASE MachineCrash
    <2>1. PICK kept \in [Sessions -> 0..MaxLines], torn \in [Sessions -> BOOLEAN],
               lost \in SUBSET {s \in Sessions : file[s].exists /\ ~linked[s]} :
            /\ \A s \in Sessions : kept[s] \in synced[s]..Len(file[s].lines)
            /\ \A s \in Sessions :
                 torn[s] => \/ file[s].torn
                            \/ call[s].pc = "write"
                            \/ kept[s] < Len(file[s].lines)
            /\ file' = [s \in Sessions |->
                 IF s \in lost THEN NoFile
                 ELSE [file[s] EXCEPT !.lines = SubSeq(@, 1, kept[s]), !.torn = torn[s]]]
            /\ synced' = [s \in Sessions |-> IF s \in lost THEN 0 ELSE kept[s]]
            /\ linked' = [s \in Sessions |-> s \notin lost /\ file[s].exists]
            /\ acked' = [s \in Sessions |-> IF s \in lost THEN {} ELSE acked[s]]
      BY <1>13, Zenon DEF MachineCrash
    <2>2. linked' \in [Sessions -> BOOLEAN] /\ created' = created
      BY <1>13, <2>1 DEF MachineCrash
    <2>3. ASSUME NEW s \in Sessions
          PROVE  (created[s] => linked'[s]) /\ (linked'[s] => file'[s].exists)
      <3>1. linked'[s] = (s \notin lost /\ file[s].exists)
        BY <2>1
      <3>2. s \notin lost => file'[s].exists = file[s].exists
        BY <1>1, <2>1 DEF IsFile
      <3>3. created[s] => linked[s] /\ file[s].exists
        BY DEF DirectoryInv
      <3>4. s \in lost => ~linked[s]
        BY <2>1
      <3> QED BY <3>1, <3>2, <3>3, <3>4
    <2> QED BY <2>2, <2>3 DEF DirectoryInv
  <1> QED BY <1>4, <1>5, <1>6, <1>7, <1>9, <1>10, <1>11, <1>12, <1>13 DEF Next

(* A session whose Create or Fork returned nil is never lost, and an       *)
(* append that returned nil survives, in its place, every later append,    *)
(* failed write, retry and crash of the process or the machine, unless     *)
(* its session had never been acknowledged and goes with it (store.go:     *)
(* 336-433).                                                               *)
THEOREM AppendsAreDurable == Spec => []AcknowledgedIsDurable
  <1>1. Init => DirectoryInv
    BY DEF Init, DirectoryInv
  <1>2. SessionInv /\ DirectoryInv /\ [Next]_vars => DirectoryInv'
    BY DirectoryStep
  <1>3. SessionInv /\ DirectoryInv => AcknowledgedIsDurable
    <2> SUFFICES ASSUME SessionInv, DirectoryInv, NEW s \in Sessions
                 PROVE  /\ created[s] => linked[s] /\ file[s].exists
                        /\ \A entry \in acked[s] : /\ entry[1] <= synced[s]
                                                   /\ file[s].lines[entry[1]] = entry[2]
      BY DEF AcknowledgedIsDurable
    <2>1. \A entry \in acked[s] : /\ entry[1] \in 1..synced[s]
                                  /\ file[s].lines[entry[1]] = entry[2]
      BY DEF SessionInv, SessionOK, AckedOK
    <2> QED BY <2>1 DEF DirectoryInv
  <1> QED BY <1>1, <1>2, <1>3, StoreInvariant, PTL DEF Spec

(* Every session can be opened again in every state: its file decodes,     *)
(* whatever was torn off, left behind or forked from it (codec.go:87-206). *)
THEOREM FilesAlwaysDecode == Spec => []AlwaysDecodes
  <1>1. SessionInv => AlwaysDecodes
    BY DEF SessionInv, SessionOK, LogOK, AlwaysDecodes
  <1> QED BY <1>1, StoreInvariant, PTL

(* Between calls the cached write state is what reading the file would     *)
(* give, also after failed appends and for a fork (store.go:24-27,302-321).*)
THEOREM CacheIsTrue == Spec => []CacheAgrees
  <1>1. SessionInv => CacheAgrees
    BY DEF SessionInv, SessionOK, CacheOK, CacheAgrees, Idle
  <1> QED BY <1>1, StoreInvariant, PTL

(* A forked session starts at its turn, and its turns, statuses and        *)
(* operations are all its own (state.go:320-420, store.go:239-264).        *)
THEOREM ForksAreSound == Spec => []ForkIsSound
  <1>1. SessionInv => ForkOwnsOnlyItsOwn
    <2> SUFFICES ASSUME SessionInv, NEW s \in Sessions, Inherited(file[s].lines) # 0
                 PROVE  LET l == file[s].lines
                            fork == Inherited(l)
                            head == Decode(l).head
                            own == OwnTurns(l)
                        IN /\ head.owned = own
                           /\ \A key \in head.statuses : key[1] \in own
                           /\ \A op \in DOMAIN head.ops : InOwnStatus(l, op)
                           /\ \A k \in (fork + 1)..Len(l) :
                                (/\ l[k].record.type = "turn"
                                 /\ \A j \in (fork + 1)..(k - 1) : l[j].record.type # "turn")
                                  => l[k].record.prev = l[fork].record.prev
      BY DEF ForkOwnsOnlyItsOwn, OwnTurns, InOwnStatus
    <2> DEFINE l == file[s].lines
    <2>1. IsSequence(l) /\ Decode(l).ok /\ ForkPoint(l)
      BY DEF SessionInv, SessionOK, LogOK, LogSound, IsFile
    <2>2. OwnsOwn(l)
      BY <2>1, OwnFacts
    <2>3. \A k \in (Inherited(l) + 1)..Len(l) :
            (/\ l[k].record.type = "turn"
             /\ \A j \in (Inherited(l) + 1)..(k - 1) : l[j].record.type # "turn")
              => l[k].record.prev = l[Inherited(l)].record.prev
      BY <2>1, FirstTurnFacts
    <2> QED BY <2>1, <2>2, <2>3 DEF OwnsOwn
  <1> QED BY <1>1, StoreTypeCorrect, CacheIsTrue, StoreInvariant, PTL DEF ForkIsSound

-----------------------------------------------------------------------------
(* What Resume returns is complete. *)

Overlays == INSTANCE FoldInduction WITH Op <- Overlay

LEMMA OverlaysFold ==
    /\ SnapshotOperations(<< >>) = << >>
    /\ \A l, x : IsSequence(l) =>
         SnapshotOperations(Append(l, x)) = Overlay(SnapshotOperations(l), x)
  <1>1. \A l : Overlays!Fold(<< >>, l) = SnapshotOperations(l)
    BY Zenon DEF Overlays!Fold, SnapshotOperations, FoldLeft, Overlays!FoldLeft,
       MapThenFoldSet, Overlays!MapThenFoldSet, Max, Overlays!Max
  <1>2. ASSUME NEW l, NEW x, IsSequence(l)
        PROVE  Overlays!Fold(<< >>, Append(l, x)) = Overlay(Overlays!Fold(<< >>, l), x)
    <2> DEFINE T == Elements(l) \cup {x}
    <2>1. l \in Seq(T) /\ x \in T
      BY <1>2, AppendTyped
    <2> HIDE DEF T
    <2> QED BY <2>1, Overlays!FoldAppend
  <1> QED BY <1>1, <1>2, Overlays!FoldEmpty

(* How the snapshots in the items relate to the stored operations: they    *)
(* are of the same ones, the unrecorded ones are those whose snapshot is   *)
(* not terminal, and a terminal snapshot is the stored state.              *)
SnapshotsFit(ops, snaps, unrecorded) ==
    /\ IsMap(ops) /\ IsMap(snaps) /\ DOMAIN snaps = DOMAIN ops
    /\ unrecorded = {op \in DOMAIN snaps : snaps[op] \notin TerminalStatuses}
    /\ \A op \in DOMAIN snaps : snaps[op] \in TerminalStatuses => snaps[op] = ops[op]

Fits(l) == SnapshotsFit(Decode(l).head.ops, SnapshotOperations(l), UnrecordedOperations(l))

LEMMA NothingFits == SnapshotsFit(<< >>, << >>, {})
  BY EmptyMap DEF SnapshotsFit

(* Inherited history has no snapshots. *)
LEMMA InheritedSnapshots ==
    ASSUME NEW l, IsSequence(l), InheritAll(l).ok
    PROVE  SnapshotOperations(l) = << >> /\ UnrecordedOperations(l) = {}
  <1> DEFINE Empty(s) == SnapshotOperations(s) = << >> /\ UnrecordedOperations(s) = {}
             S == {n \in Nat : \A s : IsSequence(s) /\ Len(s) = n /\ InheritAll(s).ok => Empty(s)}
  <1>1. 0 \in S
    BY LengthZero, OverlaysFold, ScanFold
  <1>2. ASSUME NEW n \in Nat, n \in S
        PROVE  n + 1 \in S
    <2> SUFFICES ASSUME NEW s, IsSequence(s), Len(s) = n + 1, InheritAll(s).ok PROVE Empty(s)
      OBVIOUS
    <2> DEFINE p == SubSeq(s, 1, n)
               x == s[n + 1]
    <2>1. IsSequence(p) /\ Len(p) = n /\ s = Append(p, x)
      BY FrontAndLast
    <2> HIDE DEF p, x
    <2>2. InheritAll(p).ok /\ (x.record.type = "status" => DOMAIN x.record.ops = {})
      BY <2>1, InheritFold DEF ReplayInherited
    <2>3. SnapshotOperations(p) = << >> /\ UnrecordedOperations(p) = {}
      BY <1>2, <2>1, <2>2
    <2> HIDE DEF S
    <2>4. SnapshotOperations(s) = Overlay(<< >>, x) /\ UnrecordedOperations(s) = ScanUnrecorded({}, x)
      BY <2>1, <2>3, OverlaysFold, ScanFold
    <2>5. ScanUnrecorded({}, x) = {}
      BY <2>2 DEF ScanUnrecorded, StillUnrecorded
    <2>6. CASE x.record.type = "status"
      <3>1. Override(x.record.ops, << >>) = << >>
        <4> DEFINE e == x.record.ops
                   o == Override(e, << >>)
        <4>0. DOMAIN e = {}
          BY <2>2, <2>6
        <4> HIDE DEF e, o
        <4>1. IsMap(o) /\ DOMAIN o = DOMAIN e \cup DOMAIN << >>
          BY OverrideFacts DEF o
        <4>2. DOMAIN o = {}
          BY <4>0, <4>1, EmptyMap
        <4>3. o = << >>
          BY <4>1, <4>2, EmptyMap, MapEqual
        <4> QED BY <4>3 DEF o, e
      <3> QED BY <2>4, <2>5, <2>6, <3>1 DEF Overlay
    <2>7. CASE x.record.type # "status"
      BY <2>4, <2>5, <2>7 DEF Overlay
    <2> QED BY <2>6, <2>7
  <1>3. \A n \in Nat : n \in S
    <2> HIDE DEF S
    <2> QED BY <1>1, <1>2, KeepItems!Induction
  <1>4. Len(l) \in Nat
    BY DEF IsSequence
  <1> QED BY <1>3, <1>4

(* A fresh log, and one that ends with its fork line, has no operations. *)
LEMMA ForkFits ==
    ASSUME NEW l, IsSequence(l), Decode(l).ok, Inherited(l) = Len(l)
    PROVE  Fits(l)
  <1>1. CASE Len(l) = 0
    <2>1. l = << >>
      BY <1>1, LengthZero
    <2>2. Decode(l).head.ops = << >>
      <3>1. Fresh.head.ops = << >>
        BY DEF Fresh, NewHead
      <3>2. Decode(l) = Fresh
        BY <2>1, DecodeEmpty
      <3> QED BY <3>1, <3>2
    <2> QED BY <2>1, <2>2, OverlaysFold, ScanFold, NothingFits DEF Fits
  <1>2. CASE Len(l) # 0
    <2> DEFINE n == Len(l) - 1
               p == SubSeq(l, 1, n)
               x == l[n + 1]
    <2>1. n \in Nat /\ Len(l) = n + 1
      BY <1>2 DEF IsSequence
    <2> HIDE DEF n
    <2>2. IsSequence(p) /\ l = Append(p, x)
      BY <2>1, FrontAndLast
    <2>3. IsFork(x)
      BY <1>2, <2>1, InheritedFacts
    <2> HIDE DEF p, x
    <2>4. Decode(l) = ReplayInherited(InheritAll(p), x)
      BY <2>2, <2>3, DecodeFork
    <2>5. InheritAll(p).ok
      BY <2>4 DEF ReplayInherited
    <2>6. HeadShape(InheritAll(p).head)
      BY <2>2, <2>5, InheritAllFacts DEF InheritsWell, IsHead
    <2>7. Decode(l).head = InheritTo(InheritAll(p).head, x)
      BY <2>4 DEF ReplayInherited
    <2>8. Decode(l).head.ops = << >>
      <3> DEFINE h == InheritAll(p).head
      <3> HIDE DEF h
      <3>1. InheritTo(h, x).ops = << >>
        BY <2>3, <2>6, InheritFields DEF h
      <3> QED BY <2>7, <3>1 DEF h
    <2>9. SnapshotOperations(p) = << >> /\ UnrecordedOperations(p) = {}
      BY <2>2, <2>5, InheritedSnapshots
    <2>10. SnapshotOperations(l) = << >> /\ UnrecordedOperations(l) = {}
      BY <2>2, <2>3, <2>9, OverlaysFold, ScanFold
         DEF IsFork, Overlay, ScanUnrecorded, StillUnrecorded
    <2> QED BY <2>8, <2>10, NothingFits DEF Fits
  <1> QED BY <1>1, <1>2

(* One more record keeps the fit. *)
LEMMA AppendFits ==
    ASSUME NEW h, IsHead(h), NEW r, CanAppend(h, r), Faithful(h, r), NEW snaps, NEW unrecorded,
           SnapshotsFit(h.ops, snaps, unrecorded)
    PROVE  SnapshotsFit(AppendTo(h, r).ops,
                        IF r.type = "status" THEN Override(r.ops, snaps) ELSE snaps,
                        StillUnrecorded(unrecorded, r))
  <1> DEFINE g == AppendTo(h, r)
  <1>0. HeadShape(h) /\ IsMap(h.ops)
    BY DEF IsHead
  <1>1. CASE r.type \in {"input", "turn", "response"}
    <2>1. g.ops = h.ops
      BY <1>0, <1>1, AppendCountedFacts, AppendTurnFacts, AppendResponseFacts DEF Unchanged
    <2>2. StillUnrecorded(unrecorded, r) = unrecorded
      BY <1>1 DEF StillUnrecorded
    <2> QED BY <1>1, <2>1, <2>2
  <1>2. CASE r.type = "operation"
    <2>1. r.op \in DOMAIN h.ops
      BY <1>2 DEF CanAppend
    <2>2. /\ IsMap(g.ops) /\ DOMAIN g.ops = DOMAIN h.ops
          /\ \A op \in DOMAIN h.ops : op # r.op => g.ops[op] = h.ops[op]
      BY <1>0, <1>2, <2>1, AppendOperationFacts
    <2>3. h.ops[r.op] \notin TerminalStatuses
      BY <1>2 DEF Faithful
    <2>4. StillUnrecorded(unrecorded, r) = unrecorded
      BY <1>2 DEF StillUnrecorded
    <2> HIDE DEF g
    <2>5. SnapshotsFit(g.ops, snaps, unrecorded)
      <3> SUFFICES ASSUME NEW op \in DOMAIN snaps, snaps[op] \in TerminalStatuses
                   PROVE  snaps[op] = g.ops[op]
        BY <2>2 DEF SnapshotsFit
      <3>1. snaps[op] = h.ops[op] /\ op \in DOMAIN h.ops
        BY DEF SnapshotsFit
      <3> QED BY <2>2, <2>3, <3>1
    <2> QED BY <1>2, <2>4, <2>5 DEF g
  <1>3. CASE r.type = "status"
    <2> DEFINE o == Override(r.ops, snaps)
               u == StillUnrecorded(unrecorded, r)
    <2>1. /\ IsMap(o) /\ DOMAIN o = DOMAIN r.ops \cup DOMAIN snaps
          /\ \A x \in DOMAIN r.ops : o[x] = r.ops[x]
          /\ \A x \in DOMAIN snaps \ DOMAIN r.ops : o[x] = snaps[x]
      BY OverrideFacts
    <2>2. u = {op \in DOMAIN o : o[op] \notin TerminalStatuses}
      <3>1. u = (unrecorded \cup {op \in DOMAIN r.ops : r.ops[op] \notin TerminalStatuses})
                  \ {op \in DOMAIN r.ops : r.ops[op] \in TerminalStatuses}
        BY <1>3 DEF StillUnrecorded
      <3>2. unrecorded = {op \in DOMAIN snaps : snaps[op] \notin TerminalStatuses}
        BY DEF SnapshotsFit
      <3> HIDE DEF o, u
      <3>3. \A op : op \in u <=> op \in DOMAIN o /\ o[op] \notin TerminalStatuses
        BY <2>1, <3>1, <3>2
      <3> QED BY <3>3
    <2>3. DOMAIN snaps = DOMAIN h.ops
          /\ \A op \in DOMAIN snaps : snaps[op] \in TerminalStatuses => snaps[op] = h.ops[op]
      BY DEF SnapshotsFit
    <2>4. CASE StatusKey(r) \in h.statuses
      <3>1. g.ops = h.ops
        BY <1>0, <1>3, <2>4, AppendCountedFacts DEF Unchanged
      <3>2. \A op \in DOMAIN r.ops : op \in DOMAIN h.ops /\ r.ops[op] = h.ops[op]
        BY <1>3, <2>4 DEF Faithful
      <3> HIDE DEF o, u, g
      <3>3. DOMAIN o = DOMAIN h.ops
        BY <2>1, <2>3, <3>2
      <3>4. \A op \in DOMAIN o : o[op] \in TerminalStatuses => o[op] = h.ops[op]
        BY <2>1, <2>3, <3>2
      <3>5. SnapshotsFit(g.ops, o, u)
        BY <1>0, <2>1, <2>2, <3>1, <3>3, <3>4 DEF SnapshotsFit
      <3> QED BY <1>3, <3>5 DEF o, u, g
    <2>5. CASE StatusKey(r) \notin h.statuses
      <3>1. g.ops = Override(h.ops, r.ops)
        BY <1>0, <1>3, <2>5, AppendFirstStatusFacts
      <3>2. DOMAIN r.ops \cap DOMAIN h.ops = {}
        BY <1>3, <2>5 DEF CanAppend
      <3> HIDE DEF o, u, g
      <3>3. /\ IsMap(g.ops) /\ DOMAIN g.ops = DOMAIN h.ops \cup DOMAIN r.ops
            /\ \A x \in DOMAIN h.ops : g.ops[x] = h.ops[x]
            /\ \A x \in DOMAIN r.ops \ DOMAIN h.ops : g.ops[x] = r.ops[x]
        <4> DEFINE v == Override(h.ops, r.ops)
        <4>1. /\ IsMap(v) /\ DOMAIN v = DOMAIN h.ops \cup DOMAIN r.ops
              /\ \A x \in DOMAIN h.ops : v[x] = h.ops[x]
              /\ \A x \in DOMAIN r.ops \ DOMAIN h.ops : v[x] = r.ops[x]
          BY OverrideFacts
        <4> HIDE DEF v
        <4> QED BY <3>1, <4>1 DEF v
      <3>4. DOMAIN o = DOMAIN g.ops
        BY <2>1, <2>3, <3>3
      <3>5. \A op \in DOMAIN o : o[op] \in TerminalStatuses => o[op] = g.ops[op]
        BY <2>1, <2>3, <3>2, <3>3
      <3>6. SnapshotsFit(g.ops, o, u)
        BY <2>1, <2>2, <3>3, <3>4, <3>5 DEF SnapshotsFit
      <3> QED BY <1>3, <3>6 DEF o, u, g
    <2> QED BY <2>4, <2>5
  <1> QED BY <1>1, <1>2, <1>3 DEF CanAppend

LEMMA LogFits ==
    ASSUME NEW l, IsSequence(l), Decode(l).ok, FaithfulLog(l)
    PROVE  Fits(l)
  <1> DEFINE f == Inherited(l)
             P(n) == SubSeq(l, 1, n)
             S == {n \in Nat : f <= n /\ n <= Len(l) => Fits(P(n))}
  <1>0. Len(l) \in Nat /\ f \in 0..Len(l)
    BY InheritedFacts DEF IsSequence
  <1>1. Fits(P(f))
    <2>1. f \in f..Len(l) /\ f \in Nat /\ f <= Len(l)
      BY <1>0
    <2>2. IsSequence(P(f)) /\ Len(P(f)) = f /\ Inherited(P(f)) = f
      BY <2>1, PrefixFacts, InheritedPrefix
    <2>3. Decode(P(f)).ok
      BY <2>1, DecodePrefix DEF PrefixDecodes
    <2> HIDE DEF P, f
    <2> QED BY <2>2, <2>3, ForkFits
  <1>2. 0 \in S
    <2> SUFFICES ASSUME f <= 0 PROVE Fits(P(0))
      OBVIOUS
    <2>1. f = 0
      BY <1>0
    <2> HIDE DEF P, f
    <2> QED BY <1>1, <2>1
  <1>3. ASSUME NEW n \in Nat, n \in S
        PROVE  n + 1 \in S
    <2> SUFFICES ASSUME f <= n + 1, n + 1 <= Len(l) PROVE Fits(P(n + 1))
      OBVIOUS
    <2>1. CASE f = n + 1
      <3> HIDE DEF P, f
      <3> QED BY <1>1, <2>1
    <2>2. CASE f # n + 1
      <3> DEFINE p == P(n)
                 x == l[n + 1]
                 q == P(n + 1)
      <3>1. /\ n \in f..Len(l) /\ n + 1 \in f..Len(l) /\ n <= Len(l) /\ n < Len(l) /\ f <= n
            /\ n + 1 \in (f + 1)..Len(l) /\ n + 1 \in 1..Len(l) /\ (n + 1) - 1 = n
        BY <1>0, <2>2
      <3>2. Decode(p).ok /\ Decode(q).ok
        BY <3>1, DecodePrefix DEF PrefixDecodes
      <3>3. q = Append(p, x) /\ IsSequence(p)
        BY <3>1, PrefixAppend, PrefixFacts
      <3>4. ~IsFork(x)
        <4>1. \A i \in 1..Len(l) : IsFork(l[i]) => i <= f
          BY InheritedFacts
        <4> QED BY <1>0, <3>1, <4>1
      <3>5. Faithful(Decode(p).head, x.record)
        <4>1. Faithful(Decode(SubSeq(l, 1, (n + 1) - 1)).head, l[n + 1].record)
          BY <3>1 DEF FaithfulLog
        <4> QED BY <3>1, <4>1
      <3>6. Fits(p)
        BY <1>3, <3>1
      <3> HIDE DEF p, x, q
      <3>7. Decode(q) = ReplayOwned(Decode(p), x)
        BY <3>3, <3>4, DecodeAppend
      <3>8. CanAppend(Decode(p).head, x.record) /\ Decode(q).head = AppendTo(Decode(p).head, x.record)
        BY <3>2, <3>7 DEF ReplayOwned
      <3>9. IsHead(Decode(p).head)
        BY <3>2, <3>3, DecodeFacts DEF DecodesWell
      <3>10. /\ SnapshotOperations(q) = Overlay(SnapshotOperations(p), x)
             /\ UnrecordedOperations(q) = ScanUnrecorded(UnrecordedOperations(p), x)
        BY <3>3, OverlaysFold, ScanFold
      <3> DEFINE h == Decode(p).head
                 snaps == SnapshotOperations(p)
                 un == UnrecordedOperations(p)
      <3>11. SnapshotsFit(h.ops, snaps, un)
        BY <3>6 DEF Fits
      <3> HIDE DEF h, snaps, un
      <3>12. SnapshotsFit(AppendTo(h, x.record).ops,
                IF x.record.type = "status" THEN Override(x.record.ops, snaps) ELSE snaps,
                StillUnrecorded(un, x.record))
        BY <3>5, <3>8, <3>9, <3>11, AppendFits DEF h
      <3>13. Fits(q)
        BY <3>8, <3>10, <3>12 DEF Fits, Overlay, ScanUnrecorded, h, snaps, un
      <3> QED BY <3>13 DEF q
    <2> QED BY <2>1, <2>2
  <1>4. \A n \in Nat : n \in S
    <2> HIDE DEF S
    <2> QED BY <1>2, <1>3, KeepItems!Induction
  <1>5. Fits(P(Len(l)))
    BY <1>0, <1>4
  <1> QED BY <1>5, WholePrefix

(* When callers save nothing of an operation that has ended, and a call's  *)
(* later statuses carry stored states, what Resume returns, over the       *)
(* snapshots in the items, is the stored state of every operation,         *)
(* whatever failed or crashed before (state.go:286-318).                   *)
THEOREM ResumeCompletes ==
    ASSUME CallersFaithful
    PROVE  Spec => []ResumeIsComplete
  <1>1. SessionInv => ResumeIsComplete
    <2> SUFFICES ASSUME SessionInv, NEW s \in Sessions
                 PROVE  Override(ResumeOperations(file[s].lines), SnapshotOperations(file[s].lines))
                          = Decode(file[s].lines).head.ops
      BY DEF ResumeIsComplete
    <2> DEFINE l == file[s].lines
               ops == Decode(l).head.ops
               snaps == SnapshotOperations(l)
               un == UnrecordedOperations(l)
               r == ResumeOperations(l)
    <2>1. IsSequence(l) /\ Decode(l).ok /\ FaithfulLog(l)
      BY DEF SessionInv, SessionOK, LogOK, LogSound, IsFile
    <2>2. SnapshotsFit(ops, snaps, un)
      BY <2>1, LogFits DEF Fits
    <2>3. r = [op \in {o \in DOMAIN ops : ops[o] \notin TerminalStatuses \/ o \in un} |-> ops[op]]
      BY DEF ResumeOperations, ToResume
    <2> HIDE DEF l, ops, snaps, un, r
    <2>4. /\ IsMap(Override(r, snaps)) /\ DOMAIN Override(r, snaps) = DOMAIN r \cup DOMAIN snaps
          /\ \A x \in DOMAIN r : Override(r, snaps)[x] = r[x]
          /\ \A x \in DOMAIN snaps \ DOMAIN r : Override(r, snaps)[x] = snaps[x]
      BY OverrideFacts
    <2>5. DOMAIN Override(r, snaps) = DOMAIN ops
      BY <2>2, <2>3, <2>4 DEF SnapshotsFit
    <2>6. ASSUME NEW op \in DOMAIN ops
          PROVE  Override(r, snaps)[op] = ops[op]
      <3>1. CASE op \in DOMAIN r
        BY <2>3, <2>4, <3>1
      <3>2. CASE op \notin DOMAIN r
        <4>1. op \in DOMAIN snaps /\ op \notin un
          BY <2>2, <2>3, <3>2 DEF SnapshotsFit
        <4>2. snaps[op] \in TerminalStatuses
          BY <2>2, <4>1 DEF SnapshotsFit
        <4>3. snaps[op] = ops[op]
          BY <2>2, <4>1, <4>2 DEF SnapshotsFit
        <4> QED BY <2>4, <3>2, <4>1, <4>3
      <3> QED BY <3>1, <3>2
    <2>7. IsMap(ops)
      BY <2>2 DEF SnapshotsFit
    <2>8. Override(r, snaps) = ops
      BY <2>4, <2>5, <2>6, <2>7, MapEqual
    <2> QED BY <2>8 DEF l, ops, snaps, r
  <1> QED BY <1>1, StoreInvariant, PTL

-----------------------------------------------------------------------------
(* History only grows. *)

LEMMA PrefixRefl ==
    ASSUME NEW l, IsSequence(l)
    PROVE  IsPrefix(l, l)
  <1>1. Len(l) \in Nat
    BY DEF IsSequence
  <1> QED BY <1>1 DEF IsPrefix

LEMMA PrefixOfAppend ==
    ASSUME NEW l, IsSequence(l), NEW x
    PROVE  IsPrefix(l, Append(l, x))
  <1>1. Len(l) \in Nat /\ Len(Append(l, x)) = Len(l) + 1
    BY AppendFacts
  <1>2. SubSeq(Append(l, x), 1, Len(l)) = SubSeq(l, 1, Len(l))
    BY <1>1, CutAppend
  <1> QED BY <1>1, <1>2 DEF IsPrefix

LEMMA PrefixOfAny ==
    ASSUME NEW l, IsSequence(l)
    PROVE  IsPrefix(<< >>, l)
  <1>1. Len(l) \in Nat /\ Len(<< >>) = 0
    BY DEF IsSequence
  <1>2. SubSeq(l, 1, 0) = << >> /\ SubSeq(<< >>, 1, 0) = << >>
    BY <1>1, EmptyIsSequence, PrefixFacts, LengthZero
  <1> QED BY <1>1, <1>2 DEF IsPrefix

(* What an action does to the lines of the session it is about. *)
GrowsAt(s) ==
    \/ file'[s].lines = file[s].lines
    \/ file[s].lines = << >>
    \/ \E x : file'[s].lines = Append(file[s].lines, x)

LEMMA StepsGrow ==
    ASSUME SessionInv, SessionInv', Next, boots' = boots, NEW t \in Sessions
    PROVE  GrowsAt(t)
  <1>1. /\ IsMap(file) /\ DOMAIN file = Sessions /\ IsFile(file[t])
        /\ SessionOK(file[t], synced[t], cache[t], call[t], acked[t])
    BY DEF SessionInv, Maps, SessionOK, LogOK
  <1>2. ASSUME NEW s \in Sessions, NEW l, NEW head, Publish(s, l, head), ~file[s].exists
        PROVE  GrowsAt(t)
    <2>1. CASE s = t
      BY <1>1, <1>2, <2>1 DEF SessionOK, AbsentOK, GrowsAt
    <2>2. CASE s # t
      BY <1>1, <1>2, <2>2 DEF Publish, IsMap, GrowsAt
    <2> QED BY <2>1, <2>2
  <1>3. ASSUME NEW s \in Sessions, Create(s) PROVE GrowsAt(t)
    BY <1>2, <1>3 DEF Create
  <1>4. ASSUME NEW s \in Sessions, NEW parent \in Sessions, NEW previous, Fork(s, parent, previous)
        PROVE  GrowsAt(t)
    BY <1>2, <1>4 DEF Fork
  <1>5. ASSUME NEW s \in Sessions, NEW r, BeginAppend(s, r) PROVE GrowsAt(t)
    BY <1>5 DEF BeginAppend, GrowsAt
  <1>6. ASSUME NEW s \in Sessions, Truncate(s) PROVE GrowsAt(t)
    <2>1. CASE UNCHANGED file
      BY <2>1 DEF GrowsAt
    <2>2. CASE file' = [file EXCEPT ![s].lines = SubSeq(@, 1, call[s].size), ![s].torn = FALSE]
      <3>1. CASE s # t
        BY <1>1, <2>2, <3>1 DEF IsMap, GrowsAt
      <3>2. CASE s = t
        <4>1. call[t].pc = "truncate"
          BY <1>6, <3>2 DEF Truncate
        <4>2. SubSeq(file[t].lines, 1, call[t].size) = file[t].lines
          <5>1. call[t].size = Len(file[t].lines) /\ IsSequence(file[t].lines)
            BY <1>1, <4>1 DEF SessionOK, CallOK, PreparedFor, IsFile
          <5> QED BY <5>1, WholePrefix
        <4>3. file'[t].lines = SubSeq(file[t].lines, 1, call[t].size)
          BY <1>1, <2>2, <3>2 DEF IsMap, IsFile
        <4> QED BY <4>2, <4>3 DEF GrowsAt
      <3> QED BY <3>1, <3>2
    <2> QED BY <1>6, <2>1, <2>2 DEF Truncate
  <1>7. ASSUME NEW s \in Sessions, Write(s) PROVE GrowsAt(t)
    <2>1. ASSUME NEW torn, file' = [file EXCEPT ![s].torn = torn] PROVE GrowsAt(t)
      <3>1. file'[t].lines = file[t].lines
        BY <1>1, <2>1 DEF IsMap, IsFile
      <3> QED BY <3>1 DEF GrowsAt
    <2>2. ASSUME NEW x, file' = [file EXCEPT ![s].torn = FALSE, ![s].lines = Append(@, x)]
          PROVE  GrowsAt(t)
      <3>1. CASE s # t
        BY <1>1, <2>2, <3>1 DEF IsMap, GrowsAt
      <3>2. CASE s = t
        <4>1. file'[t].lines = Append(file[t].lines, x)
          BY <1>1, <2>2, <3>2 DEF IsMap, IsFile
        <4> QED BY <4>1 DEF GrowsAt
      <3> QED BY <3>1, <3>2
    <2> QED BY <1>7, <2>1, <2>2 DEF Write
  <1>8. ASSUME NEW s \in Sessions, SyncAndClose(s) PROVE GrowsAt(t)
    BY <1>8 DEF SyncAndClose, GrowsAt
  <1>9. CASE ProcessCrash
    <2>1. PICK torn : file' = [s \in Sessions |-> [file[s] EXCEPT !.torn = torn[s]]]
      BY <1>9 DEF ProcessCrash
    <2>2. file'[t].lines = file[t].lines
      BY <1>1, <2>1 DEF IsFile
    <2> QED BY <2>2 DEF GrowsAt
  <1>10. CASE MachineCrash
    <2>1. boots' = boots + 1 /\ boots \in Nat
      BY <1>10 DEF MachineCrash, SessionInv
    <2> QED BY <2>1
  <1> QED BY <1>3, <1>4, <1>5, <1>6, <1>7, <1>8, <1>9, <1>10 DEF Next

(* Without a machine crash a reader never sees history shrink or change,   *)
(* even while an append retries after a failed one (store.go:94-120, 413). *)
THEOREM HistoryGrows == Spec => HistoryOnlyGrows
  <1>1. ASSUME SessionInv, SessionInv', [Next]_vars
        PROVE  [boots' = boots =>
                  \A s \in Sessions : IsPrefix(file[s].lines, file'[s].lines)]_vars
    <2>1. CASE UNCHANGED vars
      BY <2>1
    <2>2. ASSUME Next, boots' = boots, NEW s \in Sessions
          PROVE  IsPrefix(file[s].lines, file'[s].lines)
      <3>1. GrowsAt(s)
        BY <1>1, <2>2, StepsGrow
      <3>2. IsSequence(file[s].lines) /\ IsSequence(file'[s].lines)
        BY <1>1 DEF SessionInv, SessionOK, LogOK, IsFile
      <3> QED BY <3>1, <3>2, PrefixRefl, PrefixOfAppend, PrefixOfAny DEF GrowsAt
    <2> QED BY <1>1, <2>1, <2>2
  <1> QED BY <1>1, StoreInvariant, PTL DEF Spec, HistoryOnlyGrows
=============================================================================
