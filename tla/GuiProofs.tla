----------------------------- MODULE GuiProofs -----------------------------
(***************************************************************************)
(* The parts of the GUI around its chats, for any number of commands,       *)
(* connections, windows, requests, files and processes, of crashes and of   *)
(* failures: what MCGui checks of each of them on a small instance.         *)
(***************************************************************************)
EXTENDS MCGui, FiniteSetTheorems, TLAPS

(* The approval gate. *)

ManagerStates == {"absent", "running", "canceling", "ended", "reported"}

CoOK ==
    /\ co.at \in {"free", "changed", "hold", "pass", "cancel held", "cancel next"}
    /\ co.at \in {"hold", "pass", "cancel held", "cancel next"} => co.op \in added

ThreadStates ==
    [at : {"idle", "changed", "acting", "approve all"}, chosen : SUBSET Commands, approve : BOOLEAN]

Shape ==
    /\ permission \in {"ask", "auto"} /\ ctxDone \in BOOLEAN /\ stopping \in BOOLEAN
    /\ CoOK
    /\ added \subseteq Commands /\ held \subseteq added /\ toCancel \subseteq added
    /\ shown \subseteq added /\ reports \subseteq added
    /\ threads \in [Threads -> ThreadStates]
    /\ \A t \in Threads : /\ threads[t].chosen \subseteq added
                          /\ threads[t].at \in {"idle", "approve all"} => threads[t].chosen = {}
    /\ manager \in [Commands -> ManagerStates]
    /\ forwarding \in Commands \cup {Nothing}
    /\ received \in [Commands -> Nat]

(* Who may start a command has been allowed to. *)
Allowed ==
    /\ RunsOnlyApproved
    /\ co.at = "pass" => co.op \in sawAuto
    /\ \A t \in Threads : threads[t].approve = TRUE => threads[t].chosen \subseteq approved \cup sawAuto

(* Whoever has changed the list has yet to show it, or has shown it. *)
Showing ==
    (/\ co.at \notin {"changed", "cancel held"}
     /\ \A t \in Threads : threads[t].at # "changed") => shown = held

(* A command is nowhere before it is submitted and after its end has been  *)
(* received, and in one place in between.                                  *)
Placed ==
    ~ctxDone =>
      \A o \in Commands :
        IF o \notin added THEN Places(o) = {} /\ received[o] = 0
        ELSE \/ received[o] = 1 /\ Places(o) = {}
             \/ received[o] = 0 /\ \E p : Places(o) = {p}

GateInv == Shape /\ Allowed /\ Showing /\ Placed

-----------------------------------------------------------------------------

(* Before the first command nothing is held, started or shown. *)
LEMMA InitGate == ASSUME NamesDiffer PROVE Init => GateInv
  <1> SUFFICES ASSUME Init PROVE GateInv
    OBVIOUS
  <1> USE DEF Init, Free, Idle
  <1>1. Shape
    BY DEF Shape, CoOK, ThreadStates, ManagerStates
  <1>2. Allowed
    BY DEF Allowed, RunsOnlyApproved
  <1>3. Showing
    BY DEF Showing
  <1>4. Placed
    <2>1. ASSUME NEW o \in Commands PROVE Places(o) = {}
      BY DEF Places, InHand, NamesDiffer
    <2> QED BY <2>1 DEF Placed
  <1> QED BY <1>1, <1>2, <1>3, <1>4 DEF GateInv

(* The properties follow. *)
LEMMA GateInvTight == GateInv => GateIsTight
  <1> SUFFICES ASSUME GateInv PROVE GateIsTight
    OBVIOUS
  <1>1. TypeOK
    BY DEF GateInv, Shape, TypeOK, ManagerStates
  <1>2. RunsOnlyApproved
    BY DEF GateInv, Allowed
  <1>3. AccountedFor
    <2> SUFFICES ASSUME ~ctxDone, NEW o \in added PROVE Cardinality(Places(o)) + received[o] = 1
      BY DEF AccountedFor
    <2>1. o \in Commands
      BY DEF GateInv, Shape
    <2>2. CASE received[o] = 1 /\ Places(o) = {}
      BY <2>2, FS_EmptySet
    <2>3. CASE received[o] = 0 /\ \E p : Places(o) = {p}
      <3>1. PICK p : Places(o) = {p}
        BY <2>3
      <3>2. Cardinality(Places(o)) = 1
        BY <3>1, FS_Singleton
      <3> QED BY <2>3, <3>2
    <2> QED BY <2>1, <2>2, <2>3 DEF GateInv, Placed
  <1>4. ShownIsHeld
    BY DEF GateInv, Showing, ShownIsHeld, Free, Idle
  <1> QED BY <1>1, <1>2, <1>3, <1>4 DEF GateIsTight
-----------------------------------------------------------------------------
(* Where commands go *)

Live(o) == manager[o] \in {"running", "canceling", "ended"}

(* What it means to be in a place, one line per place. *)
LEMMA PlacesFacts ==
    ASSUME NamesDiffer, NEW o, NEW p
    PROVE  p \in Places(o) <=>
             \/ p = "hand" /\ InHand(o)
             \/ p = "held" /\ o \in held
             \/ p = "manager" /\ Live(o)
             \/ p = "forwarding" /\ forwarding = o
             \/ p = "report" /\ o \in reports
             \/ p \in Threads /\ o \in threads[p].chosen
  BY DEF Places, Live

(* The same after a step. *)
LEMMA PlacesFactsPrimed ==
    ASSUME NamesDiffer, NEW o, NEW p
    PROVE  p \in Places(o)' <=>
             \/ p = "hand" /\ InHand(o)'
             \/ p = "held" /\ o \in held'
             \/ p = "manager" /\ Live(o)'
             \/ p = "forwarding" /\ forwarding' = o
             \/ p = "report" /\ o \in reports'
             \/ p \in Threads /\ o \in threads'[p].chosen
  BY DEF Places, Live

(* Some commands move from one place to another. *)
Moves(S, p, q) ==
    \A o \in Commands :
      /\ o \in S => p \in Places(o)
      /\ \A x : x \in Places(o)' <=> IF o \in S THEN x = q \/ (x \in Places(o) /\ x # p)
                                                ELSE x \in Places(o)

(* Moving commands between two places keeps each in one place. *)
LEMMA Moved ==
    ASSUME Placed, UNCHANGED <<added, received, ctxDone>>,
           NEW S, NEW p, NEW q, ~ctxDone => Moves(S, p, q)
    PROVE  Placed'
  <1> SUFFICES ASSUME ~ctxDone', NEW o \in Commands
               PROVE  IF o \notin added THEN Places(o)' = {} /\ received[o] = 0
                      ELSE \/ received[o] = 1 /\ Places(o)' = {}
                           \/ received[o] = 0 /\ \E x : Places(o)' = {x}
    BY DEF Placed
  <1>1. IF o \notin added THEN Places(o) = {} /\ received[o] = 0
        ELSE \/ received[o] = 1 /\ Places(o) = {}
             \/ received[o] = 0 /\ \E x : Places(o) = {x}
    BY DEF Placed
  <1>2. CASE o \notin S
    <2>1. Places(o)' = Places(o)
      BY <1>2 DEF Moves
    <2> QED BY <1>1, <2>1
  <1>3. CASE o \in S
    <2>1. /\ p \in Places(o)
          /\ \A x : x \in Places(o)' <=> x = q \/ (x \in Places(o) /\ x # p)
      BY <1>3 DEF Moves
    <2>2. Places(o) = {p} /\ received[o] = 0 /\ o \in added
      BY <1>1, <2>1
    <2>3. Places(o)' = {q}
      BY <2>1, <2>2
    <2> QED BY <2>2, <2>3
  <1> QED BY <1>2, <1>3

(* Add puts a command under approval: from the caller's hand to the list. *)
LEMMA HoldGate == ASSUME NamesDiffer, GateInv, Hold PROVE GateInv'
  <1>1. Shape'
    BY DEF GateInv, Hold, Shape, CoOK, ThreadStates, ManagerStates, coordinatorVars, historyVars
  <1>2. Allowed'
    BY DEF GateInv, Hold, Shape, CoOK, Allowed, RunsOnlyApproved, coordinatorVars, historyVars
  <1>3. Showing'
    BY DEF GateInv, Hold, Shape, Showing, coordinatorVars, historyVars
  <1>4. Placed'
    <2> SUFFICES ASSUME ~ctxDone PROVE Placed'
      BY DEF Hold, Placed
    <2>1. \A c \in Commands : InHand(c)' <=> InHand(c) /\ c # co.op
      BY DEF Hold, InHand, GateInv, Shape, CoOK
    <2>2. \A c \in Commands : Live(c)' <=> Live(c)
      BY DEF Hold, Live, GateInv, Shape, CoOK, ManagerStates
    <2>3. \A c \in Commands, u \in Threads : c \in threads'[u].chosen <=> c \in threads[u].chosen
      BY DEF Hold, GateInv, Shape, ThreadStates
    <2>4. \A c \in Commands :
            /\ c \in held' <=> (c \in held \/ c = co.op)
            /\ forwarding' = c <=> forwarding = c
            /\ c \in reports' <=> c \in reports
      BY DEF Hold, GateInv, Shape, NamesDiffer
    <2>5. Moves({co.op}, "hand", "held")
      <3>1. \A c \in {co.op} \cap Commands : "hand" \in Places(c)
        BY PlacesFacts DEF Hold, InHand, Live
      <3>2. ASSUME NEW c \in Commands, NEW x
            PROVE  x \in Places(c)' <=> IF c \in {co.op} THEN x = "held" \/ (x \in Places(c) /\ x # "hand")
                                              ELSE x \in Places(c)
        BY <2>1, <2>2, <2>3, <2>4, <3>1, PlacesFacts, PlacesFactsPrimed DEF NamesDiffer
      <3> QED BY <3>1, <3>2 DEF Moves
    <2>6. UNCHANGED <<added, received, ctxDone>>
      BY DEF Hold, coordinatorVars
    <2> QED BY <2>5, <2>6, Moved DEF GateInv
  <1> QED BY <1>1, <1>2, <1>3, <1>4 DEF GateInv

(* The coordinator tells the page; no command moves. *)
LEMMA ChangedGate == ASSUME NamesDiffer, GateInv, CoordinatorChanged PROVE GateInv'
  <1>1. Shape'
    BY DEF GateInv, CoordinatorChanged, Snapshot, Free, Shape, CoOK, ThreadStates,
           ManagerStates, coordinatorVars, historyVars
  <1>2. Allowed'
    BY DEF GateInv, CoordinatorChanged, Snapshot, Free, Shape, CoOK, Allowed, RunsOnlyApproved,
           coordinatorVars, historyVars
  <1>3. Showing'
    BY DEF GateInv, CoordinatorChanged, Snapshot, Free, Shape, Showing, coordinatorVars, historyVars
  <1>4. Placed'
    <2> SUFFICES ASSUME ~ctxDone PROVE Placed'
      BY DEF CoordinatorChanged, Snapshot, Free, Placed
    <2>1. \A c \in Commands : InHand(c)' <=> InHand(c)
      BY DEF CoordinatorChanged, Snapshot, Free, InHand, GateInv, Shape, CoOK
    <2>2. \A c \in Commands : Live(c)' <=> Live(c)
      BY DEF CoordinatorChanged, Snapshot, Free, Live, GateInv, Shape, CoOK, ManagerStates
    <2>3. \A c \in Commands, u \in Threads : c \in threads'[u].chosen <=> c \in threads[u].chosen
      BY DEF CoordinatorChanged, Snapshot, Free, GateInv, Shape, ThreadStates
    <2>4. \A c \in Commands :
            /\ c \in held' <=> c \in held
            /\ forwarding' = c <=> forwarding = c
            /\ c \in reports' <=> c \in reports
      BY DEF CoordinatorChanged, Snapshot, Free, GateInv, Shape, NamesDiffer
    <2>5. Moves({}, "hand", "hand")
      <3>1. \A c \in {} \cap Commands : "hand" \in Places(c)
        BY PlacesFacts DEF CoordinatorChanged, Snapshot, Free, InHand, Live
      <3>2. ASSUME NEW c \in Commands, NEW x
            PROVE  x \in Places(c)' <=> IF c \in {} THEN x = "hand" \/ (x \in Places(c) /\ x # "hand")
                                              ELSE x \in Places(c)
        BY <2>1, <2>2, <2>3, <2>4, <3>1, PlacesFacts, PlacesFactsPrimed DEF NamesDiffer
      <3> QED BY <3>1, <3>2 DEF Moves
    <2>6. UNCHANGED <<added, received, ctxDone>>
      BY DEF CoordinatorChanged, Snapshot, Free, coordinatorVars
    <2> QED BY <2>5, <2>6, Moved DEF GateInv
  <1> QED BY <1>1, <1>2, <1>3, <1>4 DEF GateInv

(* Add hands an approved command on: from the caller's hand to the manager. *)
LEMMA PassGate == ASSUME NamesDiffer, GateInv, Pass PROVE GateInv'
  <1>1. Shape'
    BY DEF GateInv, Pass, StartIn, Free, Shape, CoOK, ThreadStates, ManagerStates,
           coordinatorVars, historyVars
  <1>2. Allowed'
    BY DEF GateInv, Pass, StartIn, Free, Shape, CoOK, Allowed, RunsOnlyApproved,
           coordinatorVars, historyVars
  <1>3. Showing'
    BY DEF GateInv, Pass, StartIn, Free, Shape, Showing, coordinatorVars, historyVars
  <1>4. Placed'
    <2> SUFFICES ASSUME ~ctxDone PROVE Placed'
      BY DEF Pass, StartIn, Free, Placed
    <2>1. \A c \in Commands : InHand(c)' <=> InHand(c) /\ c # co.op
      BY DEF Pass, StartIn, Free, InHand, GateInv, Shape, CoOK
    <2>2. \A c \in Commands : Live(c)' <=> Live(c) \/ c = co.op
      BY DEF Pass, StartIn, Free, Live, GateInv, Shape, CoOK, ManagerStates
    <2>3. \A c \in Commands, u \in Threads : c \in threads'[u].chosen <=> c \in threads[u].chosen
      BY DEF Pass, StartIn, Free, GateInv, Shape, ThreadStates
    <2>4. \A c \in Commands :
            /\ c \in held' <=> c \in held
            /\ forwarding' = c <=> forwarding = c
            /\ c \in reports' <=> c \in reports
      BY DEF Pass, StartIn, Free, GateInv, Shape, NamesDiffer
    <2>5. Moves({co.op}, "hand", "manager")
      <3>1. \A c \in {co.op} \cap Commands : "hand" \in Places(c)
        BY PlacesFacts DEF Pass, StartIn, Free, InHand, Live
      <3>2. ASSUME NEW c \in Commands, NEW x
            PROVE  x \in Places(c)' <=> IF c \in {co.op} THEN x = "manager" \/ (x \in Places(c) /\ x # "hand")
                                              ELSE x \in Places(c)
        BY <2>1, <2>2, <2>3, <2>4, <3>1, PlacesFacts, PlacesFactsPrimed DEF NamesDiffer
      <3> QED BY <3>1, <3>2 DEF Moves
    <2>6. UNCHANGED <<added, received, ctxDone>>
      BY DEF Pass, StartIn, Free, coordinatorVars
    <2> QED BY <2>5, <2>6, Moved DEF GateInv
  <1> QED BY <1>1, <1>2, <1>3, <1>4 DEF GateInv

(* A hard stop begins; no command moves. *)
LEMMA HardStopGate == ASSUME NamesDiffer, GateInv, HardStop PROVE GateInv'
  <1>1. Shape'
    BY DEF GateInv, HardStop, Free, Shape, CoOK, ThreadStates, ManagerStates, coordinatorVars,
           historyVars
  <1>2. Allowed'
    BY DEF GateInv, HardStop, Free, Shape, CoOK, Allowed, RunsOnlyApproved, coordinatorVars, historyVars
  <1>3. Showing'
    BY DEF GateInv, HardStop, Free, Shape, Showing, coordinatorVars, historyVars
  <1>4. Placed'
    <2> SUFFICES ASSUME ~ctxDone PROVE Placed'
      BY DEF HardStop, Free, Placed
    <2>1. \A c \in Commands : InHand(c)' <=> InHand(c)
      BY DEF HardStop, Free, InHand, GateInv, Shape, CoOK
    <2>2. \A c \in Commands : Live(c)' <=> Live(c)
      BY DEF HardStop, Free, Live, GateInv, Shape, CoOK, ManagerStates
    <2>3. \A c \in Commands, u \in Threads : c \in threads'[u].chosen <=> c \in threads[u].chosen
      BY DEF HardStop, Free, GateInv, Shape, ThreadStates
    <2>4. \A c \in Commands :
            /\ c \in held' <=> c \in held
            /\ forwarding' = c <=> forwarding = c
            /\ c \in reports' <=> c \in reports
      BY DEF HardStop, Free, GateInv, Shape, NamesDiffer
    <2>5. Moves({}, "hand", "hand")
      <3>1. \A c \in {} \cap Commands : "hand" \in Places(c)
        BY PlacesFacts DEF HardStop, Free, InHand, Live
      <3>2. ASSUME NEW c \in Commands, NEW x
            PROVE  x \in Places(c)' <=> IF c \in {} THEN x = "hand" \/ (x \in Places(c) /\ x # "hand")
                                              ELSE x \in Places(c)
        BY <2>1, <2>2, <2>3, <2>4, <3>1, PlacesFacts, PlacesFactsPrimed DEF NamesDiffer
      <3> QED BY <3>1, <3>2 DEF Moves
    <2>6. UNCHANGED <<added, received, ctxDone>>
      BY DEF HardStop, Free, coordinatorVars
    <2> QED BY <2>5, <2>6, Moved DEF GateInv
  <1> QED BY <1>1, <1>2, <1>3, <1>4 DEF GateInv

(* A canceled command passes from the caller's hand to its report. *)
LEMMA CancelHeldGate == ASSUME NamesDiffer, GateInv, CancelHeld PROVE GateInv'
  <1>1. Shape'
    BY DEF GateInv, CancelHeld, Snapshot, Reported, Free, Shape, CoOK, ThreadStates,
           ManagerStates, coordinatorVars, historyVars
  <1>2. Allowed'
    BY DEF GateInv, CancelHeld, Snapshot, Reported, Free, Shape, CoOK, Allowed,
           RunsOnlyApproved, coordinatorVars, historyVars
  <1>3. Showing'
    BY DEF GateInv, CancelHeld, Snapshot, Reported, Free, Shape, Showing, coordinatorVars, historyVars
  <1>4. Placed'
    <2> SUFFICES ASSUME ~ctxDone PROVE Placed'
      BY DEF CancelHeld, Snapshot, Reported, Free, Placed
    <2>1. \A c \in Commands : InHand(c)' <=> InHand(c) /\ c # co.op
      BY DEF CancelHeld, Snapshot, Reported, Free, InHand, GateInv, Shape, CoOK
    <2>2. \A c \in Commands : Live(c)' <=> Live(c)
      BY DEF CancelHeld, Snapshot, Reported, Free, Live, GateInv, Shape, CoOK, ManagerStates
    <2>3. \A c \in Commands, u \in Threads : c \in threads'[u].chosen <=> c \in threads[u].chosen
      BY DEF CancelHeld, Snapshot, Reported, Free, GateInv, Shape, ThreadStates
    <2>4. \A c \in Commands :
            /\ c \in held' <=> c \in held
            /\ forwarding' = c <=> forwarding = c
            /\ c \in reports' <=> (c \in reports \/ c = co.op)
      BY DEF CancelHeld, Snapshot, Reported, Free, GateInv, Shape, NamesDiffer
    <2>5. Moves({co.op}, "hand", "report")
      <3>1. \A c \in {co.op} \cap Commands : "hand" \in Places(c)
        BY PlacesFacts DEF CancelHeld, Snapshot, Reported, Free, InHand, Live
      <3>2. ASSUME NEW c \in Commands, NEW x
            PROVE  x \in Places(c)' <=> IF c \in {co.op} THEN x = "report" \/ (x \in Places(c) /\ x # "hand")
                                              ELSE x \in Places(c)
        BY <2>1, <2>2, <2>3, <2>4, <3>1, PlacesFacts, PlacesFactsPrimed DEF NamesDiffer
      <3> QED BY <3>1, <3>2 DEF Moves
    <2>6. UNCHANGED <<added, received, ctxDone>>
      BY DEF CancelHeld, Snapshot, Reported, Free, coordinatorVars
    <2> QED BY <2>5, <2>6, Moved DEF GateInv
  <1> QED BY <1>1, <1>2, <1>3, <1>4 DEF GateInv

(* A cancellation is passed on to the manager; no command moves. *)
LEMMA CancelNextGate == ASSUME NamesDiffer, GateInv, CancelNext PROVE GateInv'
  <1>1. Shape'
    BY DEF GateInv, CancelNext, Free, Shape, CoOK, ThreadStates, ManagerStates,
           coordinatorVars, historyVars
  <1>2. Allowed'
    BY DEF GateInv, CancelNext, Free, Shape, CoOK, Allowed, RunsOnlyApproved, coordinatorVars,
           historyVars
  <1>3. Showing'
    BY DEF GateInv, CancelNext, Free, Shape, Showing, coordinatorVars, historyVars
  <1>4. Placed'
    <2> SUFFICES ASSUME ~ctxDone PROVE Placed'
      BY DEF CancelNext, Free, Placed
    <2>1. \A c \in Commands : InHand(c)' <=> InHand(c)
      BY DEF CancelNext, Free, InHand, GateInv, Shape, CoOK
    <2>2. \A c \in Commands : Live(c)' <=> Live(c)
      BY DEF CancelNext, Free, Live, GateInv, Shape, CoOK, ManagerStates
    <2>3. \A c \in Commands, u \in Threads : c \in threads'[u].chosen <=> c \in threads[u].chosen
      BY DEF CancelNext, Free, GateInv, Shape, ThreadStates
    <2>4. \A c \in Commands :
            /\ c \in held' <=> c \in held
            /\ forwarding' = c <=> forwarding = c
            /\ c \in reports' <=> c \in reports
      BY DEF CancelNext, Free, GateInv, Shape, NamesDiffer
    <2>5. Moves({}, "hand", "hand")
      <3>1. \A c \in {} \cap Commands : "hand" \in Places(c)
        BY PlacesFacts DEF CancelNext, Free, InHand, Live
      <3>2. ASSUME NEW c \in Commands, NEW x
            PROVE  x \in Places(c)' <=> IF c \in {} THEN x = "hand" \/ (x \in Places(c) /\ x # "hand")
                                              ELSE x \in Places(c)
        BY <2>1, <2>2, <2>3, <2>4, <3>1, PlacesFacts, PlacesFactsPrimed DEF NamesDiffer
      <3> QED BY <3>1, <3>2 DEF Moves
    <2>6. UNCHANGED <<added, received, ctxDone>>
      BY DEF CancelNext, Free, coordinatorVars
    <2> QED BY <2>5, <2>6, Moved DEF GateInv
  <1> QED BY <1>1, <1>2, <1>3, <1>4 DEF GateInv

(* A command to cancel is taken; one that was held passes to the caller's hand. *)
LEMMA CancelTakeGate ==
    ASSUME NamesDiffer, GateInv, NEW o \in Commands, CancelTake(o)
    PROVE  GateInv'
  <1>1. Shape'
    BY DEF GateInv, CancelTake, Free, Shape, CoOK, ThreadStates, ManagerStates,
           coordinatorVars, historyVars
  <1>2. Allowed'
    BY DEF GateInv, CancelTake, Free, Shape, CoOK, Allowed, RunsOnlyApproved, coordinatorVars,
           historyVars
  <1>3. Showing'
    BY DEF GateInv, CancelTake, Free, Shape, Showing, coordinatorVars, historyVars
  <1>4. Placed'
    <2> SUFFICES ASSUME ~ctxDone PROVE Placed'
      BY DEF CancelTake, Free, Placed
    <2>1. \A c \in Commands : InHand(c)' <=> InHand(c) \/ (c = o /\ o \in held)
      BY DEF CancelTake, Free, InHand, GateInv, Shape, CoOK
    <2>2. \A c \in Commands : Live(c)' <=> Live(c)
      BY DEF CancelTake, Free, Live, GateInv, Shape, CoOK, ManagerStates
    <2>3. \A c \in Commands, u \in Threads : c \in threads'[u].chosen <=> c \in threads[u].chosen
      BY DEF CancelTake, Free, GateInv, Shape, ThreadStates
    <2>4. \A c \in Commands :
            /\ c \in held' <=> (c \in held /\ c # o)
            /\ forwarding' = c <=> forwarding = c
            /\ c \in reports' <=> c \in reports
      BY DEF CancelTake, Free, GateInv, Shape, NamesDiffer
    <2>5. Moves(({o} \cap held), "held", "hand")
      <3>1. \A c \in ({o} \cap held) \cap Commands : "held" \in Places(c)
        BY PlacesFacts DEF CancelTake, Free, InHand, Live
      <3>2. ASSUME NEW c \in Commands, NEW x
            PROVE  x \in Places(c)' <=> IF c \in ({o} \cap held) THEN x = "hand" \/ (x \in Places(c) /\ x # "held")
                                              ELSE x \in Places(c)
        BY <2>1, <2>2, <2>3, <2>4, <3>1, PlacesFacts, PlacesFactsPrimed DEF NamesDiffer
      <3> QED BY <3>1, <3>2 DEF Moves
    <2>6. UNCHANGED <<added, received, ctxDone>>
      BY DEF CancelTake, Free, coordinatorVars
    <2> QED BY <2>5, <2>6, Moved DEF GateInv
  <1> QED BY <1>1, <1>2, <1>3, <1>4 DEF GateInv

(* A handler tells the page and goes on to act; no command moves. *)
LEMMA ThreadChangedGate ==
    ASSUME NamesDiffer, GateInv, NEW t \in Threads, ThreadChanged(t)
    PROVE  GateInv'
  <1>0. /\ threads' \in [Threads -> ThreadStates]
        /\ \A u \in Threads : u # t => threads'[u] = threads[u]
        /\ t \in Threads /\ threads'[t] = [threads[t] EXCEPT !.at = "acting"]
        /\ threads'[t].chosen = threads[t].chosen /\ threads'[t].approve = threads[t].approve
        /\ threads'[t].at = "acting"
    BY DEF GateInv, Shape, ThreadStates, ThreadChanged, Snapshot
  <1>1. Shape'
    BY <1>0 DEF GateInv, ThreadChanged, Snapshot, Shape, CoOK, ManagerStates, coordinatorVars,
           historyVars
  <1>2. Allowed'
    BY <1>0 DEF GateInv, ThreadChanged, Snapshot, Shape, Allowed, RunsOnlyApproved,
           coordinatorVars, historyVars
  <1>3. Showing'
    BY <1>0 DEF GateInv, ThreadChanged, Snapshot, Showing, coordinatorVars, historyVars
  <1>4. Placed'
    <2> SUFFICES ASSUME ~ctxDone PROVE Placed'
      BY DEF ThreadChanged, Snapshot, Placed
    <2>1. \A c \in Commands : InHand(c)' <=> InHand(c)
      BY DEF ThreadChanged, Snapshot, InHand, GateInv, Shape, CoOK
    <2>2. \A c \in Commands : Live(c)' <=> Live(c)
      BY DEF ThreadChanged, Snapshot, Live, GateInv, Shape, CoOK, ManagerStates
    <2>3. \A c \in Commands, u \in Threads : c \in threads'[u].chosen <=> c \in threads[u].chosen
      BY DEF ThreadChanged, Snapshot, GateInv, Shape, ThreadStates
    <2>4. \A c \in Commands :
            /\ c \in held' <=> c \in held
            /\ forwarding' = c <=> forwarding = c
            /\ c \in reports' <=> c \in reports
      BY DEF ThreadChanged, Snapshot, GateInv, Shape, NamesDiffer
    <2>5. Moves({}, "hand", "hand")
      <3>1. \A c \in {} \cap Commands : "hand" \in Places(c)
        BY PlacesFacts DEF ThreadChanged, Snapshot, InHand, Live
      <3>2. ASSUME NEW c \in Commands, NEW x
            PROVE  x \in Places(c)' <=> IF c \in {} THEN x = "hand" \/ (x \in Places(c) /\ x # "hand")
                                              ELSE x \in Places(c)
        BY <2>1, <2>2, <2>3, <2>4, <3>1, PlacesFacts, PlacesFactsPrimed DEF NamesDiffer
      <3> QED BY <3>1, <3>2 DEF Moves
    <2>6. UNCHANGED <<added, received, ctxDone>>
      BY DEF ThreadChanged, Snapshot, coordinatorVars
    <2> QED BY <2>5, <2>6, Moved DEF GateInv
  <1> QED BY <1>1, <1>2, <1>3, <1>4 DEF GateInv

(* The permission level changes; the switch to auto has yet to approve. *)
LEMMA SetPermissionGate ==
    ASSUME NamesDiffer, GateInv, NEW level \in {"ask", "auto"}, SetPermission(level)
    PROVE  GateInv'
  <1>0. /\ threads' \in [Threads -> ThreadStates] /\ Switch \in Threads
        /\ \A u \in Threads : u # Switch => threads'[u] = threads[u]
        /\ threads'[Switch].chosen = {} /\ threads'[Switch].at \in {"idle", "approve all"}
        /\ threads'[Switch].approve = FALSE /\ threads[Switch].at = "idle" /\ threads[Switch].chosen = {}
    <2>1. /\ threads \in [Threads -> ThreadStates] /\ Switch \in Threads /\ threads[Switch] = Idle
          /\ Idle \in ThreadStates
      BY DEF GateInv, Shape, SetPermission, Threads, ThreadStates, Idle
    <2>0. threads[Switch].at = "idle" /\ threads[Switch].chosen = {} /\ threads[Switch].approve = FALSE
      BY <2>1 DEF Idle
    <2>2. CASE level = "auto"
      <3>1. threads' = [threads EXCEPT ![Switch] = [threads[Switch] EXCEPT !.at = "approve all"]]
        BY <2>2 DEF SetPermission
      <3>2. /\ threads'[Switch] \in ThreadStates /\ threads'[Switch].at = "approve all"
            /\ threads'[Switch].chosen = threads[Switch].chosen
            /\ threads'[Switch].approve = threads[Switch].approve
        BY <2>1, <3>1 DEF ThreadStates
      <3>3. threads' \in [Threads -> ThreadStates] /\ \A u \in Threads : u # Switch => threads'[u] = threads[u]
        BY <2>1, <3>1, <3>2
      <3> QED BY <2>0, <2>1, <3>2, <3>3
    <2>3. CASE level # "auto"
      <3>1. threads' = threads
        BY <2>3 DEF SetPermission
      <3> QED BY <2>0, <2>1, <3>1
    <2> QED BY <2>2, <2>3
  <1>1. Shape'
    BY <1>0 DEF GateInv, SetPermission, Shape, CoOK, ManagerStates, coordinatorVars, historyVars
  <1>2. Allowed'
    BY <1>0 DEF GateInv, SetPermission, Shape, Allowed, RunsOnlyApproved, coordinatorVars, historyVars
  <1>3. Showing'
    BY <1>0 DEF GateInv, SetPermission, Showing, coordinatorVars, historyVars
  <1>4. Placed'
    <2> SUFFICES ASSUME ~ctxDone PROVE Placed'
      BY DEF SetPermission, Placed
    <2>1. \A c \in Commands : InHand(c)' <=> InHand(c)
      BY DEF SetPermission, InHand, GateInv, Shape, CoOK
    <2>2. \A c \in Commands : Live(c)' <=> Live(c)
      BY DEF SetPermission, Live, GateInv, Shape, CoOK, ManagerStates
    <2>3. \A c \in Commands, u \in Threads : c \in threads'[u].chosen <=> c \in threads[u].chosen
      BY <1>0
    <2>4. \A c \in Commands :
            /\ c \in held' <=> c \in held
            /\ forwarding' = c <=> forwarding = c
            /\ c \in reports' <=> c \in reports
      BY DEF SetPermission, GateInv, Shape, NamesDiffer
    <2>5. Moves({}, "hand", "hand")
      <3>1. \A c \in {} \cap Commands : "hand" \in Places(c)
        BY PlacesFacts DEF SetPermission, InHand, Live
      <3>2. ASSUME NEW c \in Commands, NEW x
            PROVE  x \in Places(c)' <=> IF c \in {} THEN x = "hand" \/ (x \in Places(c) /\ x # "hand")
                                              ELSE x \in Places(c)
        BY <2>1, <2>2, <2>3, <2>4, <3>1, PlacesFacts, PlacesFactsPrimed DEF NamesDiffer
      <3> QED BY <3>1, <3>2 DEF Moves
    <2>6. UNCHANGED <<added, received, ctxDone>>
      BY DEF SetPermission, coordinatorVars
    <2> QED BY <2>5, <2>6, Moved DEF GateInv
  <1> QED BY <1>1, <1>2, <1>3, <1>4 DEF GateInv

(* What is held passes to the switch, approved since the user chose auto. *)
LEMMA ApproveAllGate == ASSUME NamesDiffer, GateInv, ApproveAll PROVE GateInv'
  <1>0. /\ threads' \in [Threads -> ThreadStates]
        /\ \A u \in Threads : u # Switch => threads'[u] = threads[u]
        /\ Switch \in Threads
        /\ threads'[Switch] = IF held = {} THEN Idle
                              ELSE [at |-> "changed", chosen |-> held, approve |-> TRUE]
    BY DEF GateInv, Shape, ThreadStates, ApproveAll, Idle, Threads
  <1>1. Shape'
    BY <1>0 DEF GateInv, ApproveAll, Idle, Threads, Shape, CoOK, ManagerStates,
           coordinatorVars, historyVars
  <1>2. Allowed'
    BY <1>0 DEF GateInv, ApproveAll, Idle, Threads, Shape, Allowed, RunsOnlyApproved,
           coordinatorVars, historyVars
  <1>3. Showing'
    BY <1>0 DEF GateInv, ApproveAll, Idle, Threads, Showing, coordinatorVars, historyVars
  <1>4. Placed'
    <2> SUFFICES ASSUME ~ctxDone PROVE Placed'
      BY DEF ApproveAll, Idle, Threads, Placed
    <2>1. \A c \in Commands : InHand(c)' <=> InHand(c)
      BY DEF ApproveAll, Idle, Threads, InHand, GateInv, Shape, CoOK
    <2>2. \A c \in Commands : Live(c)' <=> Live(c)
      BY DEF ApproveAll, Idle, Threads, Live, GateInv, Shape, CoOK, ManagerStates
    <2>3. \A c \in Commands, u \in Threads :
            c \in threads'[u].chosen <=> c \in threads[u].chosen \/ (u = Switch /\ c \in held)
      BY DEF ApproveAll, Idle, Threads, GateInv, Shape, ThreadStates
    <2>4. \A c \in Commands :
            /\ c \in held' <=> FALSE
            /\ forwarding' = c <=> forwarding = c
            /\ c \in reports' <=> c \in reports
      BY DEF ApproveAll, Idle, Threads, GateInv, Shape, NamesDiffer
    <2>5. Moves(held, "held", Switch)
      <3>1. \A c \in held \cap Commands : "held" \in Places(c)
        BY PlacesFacts DEF ApproveAll, Idle, Threads, InHand, Live
      <3>2. ASSUME NEW c \in Commands, NEW x
            PROVE  x \in Places(c)' <=> IF c \in held THEN x = Switch \/ (x \in Places(c) /\ x # "held")
                                              ELSE x \in Places(c)
        BY <2>1, <2>2, <2>3, <2>4, <3>1, PlacesFacts, PlacesFactsPrimed DEF NamesDiffer, Threads
      <3> QED BY <3>1, <3>2 DEF Moves
    <2>6. UNCHANGED <<added, received, ctxDone>>
      BY DEF ApproveAll, Idle, Threads, coordinatorVars
    <2> QED BY <2>5, <2>6, Moved DEF GateInv
  <1> QED BY <1>1, <1>2, <1>3, <1>4 DEF GateInv

(* A command ends where it ran. *)
LEMMA CommandEndsGate ==
    ASSUME NamesDiffer, GateInv, NEW o \in Commands, CommandEnds(o)
    PROVE  GateInv'
  <1>1. Shape'
    BY DEF GateInv, CommandEnds, Shape, CoOK, ThreadStates, ManagerStates, coordinatorVars, historyVars
  <1>2. Allowed'
    BY DEF GateInv, CommandEnds, Shape, CoOK, Allowed, RunsOnlyApproved, coordinatorVars, historyVars
  <1>3. Showing'
    BY DEF GateInv, CommandEnds, Shape, Showing, coordinatorVars, historyVars
  <1>4. Placed'
    <2> SUFFICES ASSUME ~ctxDone PROVE Placed'
      BY DEF CommandEnds, Placed
    <2>1. \A c \in Commands : InHand(c)' <=> InHand(c)
      BY DEF CommandEnds, InHand, GateInv, Shape, CoOK
    <2>2. \A c \in Commands : Live(c)' <=> Live(c)
      BY DEF CommandEnds, Live, GateInv, Shape, CoOK, ManagerStates
    <2>3. \A c \in Commands, u \in Threads : c \in threads'[u].chosen <=> c \in threads[u].chosen
      BY DEF CommandEnds, GateInv, Shape, ThreadStates
    <2>4. \A c \in Commands :
            /\ c \in held' <=> c \in held
            /\ forwarding' = c <=> forwarding = c
            /\ c \in reports' <=> c \in reports
      BY DEF CommandEnds, GateInv, Shape, NamesDiffer
    <2>5. Moves({}, "hand", "hand")
      <3>1. \A c \in {} \cap Commands : "hand" \in Places(c)
        BY PlacesFacts DEF CommandEnds, InHand, Live
      <3>2. ASSUME NEW c \in Commands, NEW x
            PROVE  x \in Places(c)' <=> IF c \in {} THEN x = "hand" \/ (x \in Places(c) /\ x # "hand")
                                              ELSE x \in Places(c)
        BY <2>1, <2>2, <2>3, <2>4, <3>1, PlacesFacts, PlacesFactsPrimed DEF NamesDiffer
      <3> QED BY <3>1, <3>2 DEF Moves
    <2>6. UNCHANGED <<added, received, ctxDone>>
      BY DEF CommandEnds, coordinatorVars
    <2> QED BY <2>5, <2>6, Moved DEF GateInv
  <1> QED BY <1>1, <1>2, <1>3, <1>4 DEF GateInv

(* The end of a command passes from the manager to the forwarder. *)
LEMMA ForwardGate ==
    ASSUME NamesDiffer, GateInv, NEW o \in Commands, Forward(o)
    PROVE  GateInv'
  <1>1. Shape'
    BY DEF GateInv, Forward, Shape, CoOK, ThreadStates, ManagerStates, coordinatorVars, historyVars
  <1>2. Allowed'
    BY DEF GateInv, Forward, Shape, CoOK, Allowed, RunsOnlyApproved, coordinatorVars, historyVars
  <1>3. Showing'
    BY DEF GateInv, Forward, Shape, Showing, coordinatorVars, historyVars
  <1>4. Placed'
    <2> SUFFICES ASSUME ~ctxDone PROVE Placed'
      BY DEF Forward, Placed
    <2>1. \A c \in Commands : InHand(c)' <=> InHand(c)
      BY DEF Forward, InHand, GateInv, Shape, CoOK
    <2>2. \A c \in Commands : Live(c)' <=> Live(c) /\ c # o
      BY DEF Forward, Live, GateInv, Shape, CoOK, ManagerStates
    <2>3. \A c \in Commands, u \in Threads : c \in threads'[u].chosen <=> c \in threads[u].chosen
      BY DEF Forward, GateInv, Shape, ThreadStates
    <2>4. \A c \in Commands :
            /\ c \in held' <=> c \in held
            /\ forwarding' = c <=> (forwarding = c \/ c = o)
            /\ c \in reports' <=> c \in reports
      BY DEF Forward, GateInv, Shape, NamesDiffer
    <2>5. Moves({o}, "manager", "forwarding")
      <3>1. \A c \in {o} \cap Commands : "manager" \in Places(c)
        BY PlacesFacts DEF Forward, InHand, Live
      <3>2. ASSUME NEW c \in Commands, NEW x
            PROVE  x \in Places(c)' <=> IF c \in {o} THEN x = "forwarding" \/ (x \in Places(c) /\ x # "manager")
                                              ELSE x \in Places(c)
        BY <2>1, <2>2, <2>3, <2>4, <3>1, PlacesFacts, PlacesFactsPrimed DEF NamesDiffer
      <3> QED BY <3>1, <3>2 DEF Moves
    <2>6. UNCHANGED <<added, received, ctxDone>>
      BY DEF Forward, coordinatorVars
    <2> QED BY <2>5, <2>6, Moved DEF GateInv
  <1> QED BY <1>1, <1>2, <1>3, <1>4 DEF GateInv

(* A new command enters by the caller's hand. *)
LEMMA BeginAddGate ==
    ASSUME NamesDiffer, GateInv, NEW o \in Commands, BeginAdd(o)
    PROVE  GateInv'
  <1>1. Shape'
    BY DEF GateInv, BeginAdd, Shape, CoOK, Free
  <1>2. Allowed'
    BY DEF GateInv, BeginAdd, Allowed, RunsOnlyApproved, Ask
  <1>3. Showing'
    BY DEF GateInv, BeginAdd, Showing, Free
  <1>4. Placed'
    <2> SUFFICES ASSUME ~ctxDone, NEW c \in Commands
                 PROVE  IF c \notin added' THEN Places(c)' = {} /\ received'[c] = 0
                        ELSE \/ received'[c] = 1 /\ Places(c)' = {}
                             \/ received'[c] = 0 /\ \E p : Places(c)' = {p}
      BY DEF BeginAdd, Placed
    <2>1. InHand(c)' <=> c = o
      BY DEF BeginAdd, InHand
    <2>2. ~InHand(c)
      BY DEF BeginAdd, InHand, Free
    <2>3. Live(c)' <=> Live(c)
      BY DEF BeginAdd, Live
    <2>4. UNCHANGED <<held, forwarding, reports, threads, received>> /\ added' = added \cup {o} /\ o \notin added
      BY DEF BeginAdd
    <2>5. \A x : x \in Places(c)' <=> x \in Places(c) \/ (x = "hand" /\ c = o)
      BY <2>1, <2>2, <2>3, <2>4, PlacesFacts, PlacesFactsPrimed
    <2>6. IF c \notin added THEN Places(c) = {} /\ received[c] = 0
          ELSE \/ received[c] = 1 /\ Places(c) = {}
               \/ received[c] = 0 /\ \E p : Places(c) = {p}
      BY DEF GateInv, Placed
    <2>7. CASE c = o
      <3>1. Places(c)' = {"hand"}
        BY <2>4, <2>5, <2>6, <2>7
      <3> QED BY <2>4, <2>6, <2>7, <3>1
    <2>8. CASE c # o
      <3>1. Places(c)' = Places(c)
        BY <2>5, <2>8
      <3> QED BY <2>4, <2>6, <2>8, <3>1
    <2> QED BY <2>7, <2>8
  <1> QED BY <1>1, <1>2, <1>3, <1>4 DEF GateInv

(* A decision about held commands (approvals.go, decide). *)
LEMMA UserDecidesGate ==
    ASSUME NamesDiffer, GateInv, NEW t \in Handlers, UserDecides(t)
    PROVE  GateInv'
  <1>1. PICK approve \in BOOLEAN, chosen \in {held} \cup {{o} : o \in held} :
          /\ Decide(t, chosen, approve)
          /\ approved' = IF approve THEN approved \cup chosen ELSE approved
          /\ declined' = IF approve THEN declined ELSE declined \cup chosen
          /\ UNCHANGED sawAuto
    BY DEF UserDecides
  <1>2. chosen \subseteq held /\ held \subseteq added /\ added \subseteq Commands /\ t \in Threads
    <2>1. chosen \subseteq held
      <3>1. CASE chosen = held
        BY <3>1
      <3>2. CASE \E o \in held : chosen = {o}
        BY <3>2
      <3> QED BY <3>1, <3>2
    <2> QED BY <2>1 DEF GateInv, Shape, Threads
  <1>3. /\ held' = held \ chosen /\ threads[t].chosen = {}
        /\ threads' = [threads EXCEPT ![t] = [at |-> "changed", chosen |-> chosen, approve |-> approve]]
        /\ UNCHANGED <<permission, switches, co, added, toCancel, stopping, manager, forwarding, reports,
                       received, shown, ctxDone>>
    BY <1>1 DEF Decide, Remaining, Idle, coordinatorVars
  <1>4. /\ threads' \in [Threads -> ThreadStates]
        /\ \A u \in Threads : u # t => threads'[u] = threads[u]
        /\ threads'[t].at = "changed" /\ threads'[t].chosen = chosen /\ threads'[t].approve = approve
    <2>1. [at |-> "changed", chosen |-> chosen, approve |-> approve] \in ThreadStates
      BY <1>2 DEF ThreadStates
    <2> QED BY <1>2, <1>3, <2>1 DEF GateInv, Shape
  <1>5. Shape'
    BY <1>2, <1>3, <1>4 DEF GateInv, Shape, CoOK
  <1>6. Allowed'
    <2>1. RunsOnlyApproved'
      BY <1>1, <1>3 DEF GateInv, Allowed, RunsOnlyApproved
    <2>2. ASSUME NEW u \in Threads, threads'[u].approve = TRUE
          PROVE  threads'[u].chosen \subseteq approved' \cup sawAuto'
      <3>1. CASE u = t
        BY <1>1, <1>4, <2>2, <3>1
      <3>2. CASE u # t
        BY <1>1, <1>4, <2>2, <3>2 DEF GateInv, Allowed
      <3> QED BY <3>1, <3>2
    <2> QED BY <1>1, <1>3, <2>1, <2>2 DEF GateInv, Allowed
  <1>7. Showing'
    BY <1>2, <1>4 DEF Showing
  <1>8. Placed'
    <2>1. \A c \in Commands, u \in Threads :
            c \in threads'[u].chosen <=> c \in threads[u].chosen \/ (u = t /\ c \in chosen)
      BY <1>3, <1>4
    <2>2. \A c \in Commands : (InHand(c)' <=> InHand(c)) /\ (Live(c)' <=> Live(c))
      BY <1>3 DEF InHand, Live
    <2>3. Moves(chosen, "held", t)
      <3>1. \A c \in chosen : "held" \in Places(c)
        BY <1>2, PlacesFacts
      <3>2. ASSUME NEW c \in Commands, NEW x
            PROVE  x \in Places(c)' <=> IF c \in chosen THEN x = t \/ (x \in Places(c) /\ x # "held")
                                                       ELSE x \in Places(c)
        BY <1>2, <1>3, <2>1, <2>2, PlacesFacts, PlacesFactsPrimed DEF NamesDiffer
      <3> QED BY <3>1, <3>2 DEF Moves
    <2>4. UNCHANGED <<added, received, ctxDone>>
      BY <1>3
    <2> QED BY <2>3, <2>4, Moved DEF GateInv
  <1> QED BY <1>5, <1>6, <1>7, <1>8 DEF GateInv

(* One round of the loop of decide, when the manager is asked or the end   *)
(* of a command not run is reported (approvals.go, decide).                *)
LEMMA ActGate ==
    ASSUME NamesDiffer, GateInv, NEW t \in Threads, NEW o \in Commands, Act(t, o)
    PROVE  GateInv'
  <1> DEFINE rest == RestAfter(t, o)
             new == IF rest = {} THEN Idle ELSE [threads[t] EXCEPT !.chosen = rest]
  <1>1. /\ threads[t].at = "acting" /\ o \in threads[t].chosen
        /\ threads' = [threads EXCEPT ![t] = new]
        /\ UNCHANGED <<permission, switches, co, added, toCancel, stopping, held, forwarding,
                       received, shown, ctxDone, approved, sawAuto, declined>>
    BY DEF Act, coordinatorVars, historyVars
  <1>2. /\ threads[t].chosen \subseteq added /\ o \in added /\ threads[t] \in ThreadStates
        /\ threads[t].chosen \subseteq Commands
    BY <1>1 DEF GateInv, Shape
  <1>3. rest \subseteq threads[t].chosen /\ (~ctxDone => rest = threads[t].chosen \ {o})
    BY DEF RestAfter
  <1>4. /\ new \in ThreadStates /\ new.chosen = rest /\ new.at \in {"idle", "acting"}
        /\ new.at = "idle" => new.chosen = {}
        /\ new.approve = TRUE => threads[t].approve = TRUE
    <2> HIDE DEF rest
    <2>1. CASE rest = {}
      BY <2>1 DEF Idle, ThreadStates
    <2>2. CASE rest # {}
      <3>1. new = [at |-> "acting", chosen |-> rest, approve |-> threads[t].approve]
        BY <1>1, <1>2, <2>2 DEF ThreadStates
      <3> QED BY <1>2, <1>3, <3>1, <2>2 DEF ThreadStates
    <2> QED BY <2>1, <2>2
  <1> HIDE DEF new, rest
  <1>5. /\ threads' \in [Threads -> ThreadStates] /\ threads'[t] = new
        /\ \A u \in Threads : u # t => threads'[u] = threads[u]
    BY <1>1, <1>4 DEF GateInv, Shape
  <1>6. \/ /\ threads[t].approve = TRUE /\ reports' = reports
           /\ manager' = IF ctxDone THEN manager ELSE [manager EXCEPT ![o] = "running"]
        \/ /\ threads[t].approve = FALSE /\ manager' = manager /\ reports' = reports \cup {o}
    BY <1>2 DEF Act, StartIn, Reported, ThreadStates
  <1>7. Shape'
    <2>1. manager' \in [Commands -> ManagerStates] /\ reports' \subseteq added
      BY <1>2, <1>6 DEF GateInv, Shape, ManagerStates
    <2>2. \A u \in Threads : /\ threads'[u].chosen \subseteq added
                             /\ threads'[u].at \in {"idle", "approve all"} => threads'[u].chosen = {}
      BY <1>2, <1>3, <1>4, <1>5 DEF GateInv, Shape
    <2> QED BY <1>1, <1>5, <2>1, <2>2 DEF GateInv, Shape, CoOK
  <1>8. Allowed'
    <2>1. RunsOnlyApproved'
      <3>1. threads[t].approve = TRUE => o \in approved \cup sawAuto
        BY <1>1 DEF GateInv, Allowed
      <3> QED BY <1>1, <1>6, <3>1 DEF GateInv, Shape, Allowed, RunsOnlyApproved
    <2>2. ASSUME NEW u \in Threads, threads'[u].approve = TRUE
          PROVE  threads'[u].chosen \subseteq approved \cup sawAuto
      <3>1. CASE u = t
        BY <1>3, <1>4, <1>5, <2>2, <3>1 DEF GateInv, Allowed
      <3>2. CASE u # t
        BY <1>5, <2>2, <3>2 DEF GateInv, Allowed
      <3> QED BY <3>1, <3>2
    <2> QED BY <1>1, <2>1, <2>2 DEF GateInv, Allowed
  <1>9. Showing'
    BY <1>1, <1>4, <1>5 DEF GateInv, Showing
  <1>10. Placed'
    <2> SUFFICES ASSUME ~ctxDone PROVE Placed'
      BY <1>1 DEF Placed
    <2>1. \A c \in Commands, u \in Threads :
            c \in threads'[u].chosen <=> c \in threads[u].chosen /\ ~(u = t /\ c = o)
      BY <1>3, <1>4, <1>5
    <2>2. \A c \in Commands : InHand(c)' <=> InHand(c)
      BY <1>1 DEF InHand
    <2>3. t \in Places(o)
      BY <1>1, PlacesFacts
    <2>4. CASE threads[t].approve = TRUE
      <3>1. \A c \in Commands : Live(c)' <=> Live(c) \/ c = o
        BY <1>6, <2>4 DEF Live, GateInv, Shape
      <3>2. reports' = reports
        BY <1>6, <2>4
      <3>3. ASSUME NEW c \in Commands, NEW x
            PROVE  x \in Places(c)' <=> IF c \in {o} THEN x = "manager" \/ (x \in Places(c) /\ x # t)
                                                    ELSE x \in Places(c)
        BY <1>1, <2>1, <2>2, <3>1, <3>2, PlacesFacts, PlacesFactsPrimed DEF NamesDiffer
      <3>4. Moves({o}, t, "manager")
        BY <2>3, <3>3 DEF Moves
      <3> QED BY <1>1, <3>4, Moved DEF GateInv
    <2>5. CASE threads[t].approve = FALSE
      <3>1. \A c \in Commands : Live(c)' <=> Live(c)
        BY <1>6, <2>5 DEF Live
      <3>2. reports' = reports \cup {o}
        BY <1>6, <2>5
      <3>3. ASSUME NEW c \in Commands, NEW x
            PROVE  x \in Places(c)' <=> IF c \in {o} THEN x = "report" \/ (x \in Places(c) /\ x # t)
                                                    ELSE x \in Places(c)
        BY <1>1, <2>1, <2>2, <3>1, <3>2, PlacesFacts, PlacesFactsPrimed DEF NamesDiffer
      <3>4. Moves({o}, t, "report")
        BY <2>3, <3>3 DEF Moves
      <3> QED BY <1>1, <3>4, Moved DEF GateInv
    <2> QED BY <1>2, <2>4, <2>5 DEF ThreadStates
  <1> QED BY <1>7, <1>8, <1>9, <1>10 DEF GateInv

(* The end of a command reaches the coordinator: it has been in one place, *)
(* which was the one that offered it.                                      *)
LEMMA ReceiveGate ==
    ASSUME NamesDiffer, GateInv, NEW o \in Commands, Receive(o)
    PROVE  GateInv'
  <1>1. Shape'
    <2>1. received' \in [Commands -> Nat]
      <3>1. received' = [received EXCEPT ![o] = received[o] + 1] /\ received \in [Commands -> Nat]
        BY DEF GateInv, Shape, Receive
      <3>2. received[o] + 1 \in Nat
        BY <3>1
      <3> QED BY <3>1, <3>2
    <2>2. forwarding' \in Commands \cup {Nothing} /\ reports' \subseteq added
      BY DEF GateInv, Shape, Receive
    <2> QED BY <2>1, <2>2 DEF GateInv, Receive, Shape, CoOK, coordinatorVars
  <1>2. Allowed'
    BY DEF GateInv, Receive, Allowed, RunsOnlyApproved, historyVars
  <1>3. Showing'
    BY DEF GateInv, Receive, Showing
  <1>4. Placed'
    <2> SUFFICES ASSUME ~ctxDone, NEW c \in Commands
                 PROVE  IF c \notin added' THEN Places(c)' = {} /\ received'[c] = 0
                        ELSE \/ received'[c] = 1 /\ Places(c)' = {}
                             \/ received'[c] = 0 /\ \E p : Places(c)' = {p}
      BY DEF Receive, Placed
    <2>1. PICK offer \in {"forwarding", "report"} :
            /\ offer \in Places(o)
            /\ forwarding' = IF offer = "forwarding" THEN Nothing ELSE forwarding
            /\ reports' = IF offer = "report" THEN reports \ {o} ELSE reports
            /\ offer = "forwarding" => forwarding = o
      <3>1. CASE forwarding = o /\ forwarding' = Nothing /\ UNCHANGED reports
        BY <3>1, PlacesFacts
      <3>2. CASE o \in reports /\ reports' = reports \ {o} /\ UNCHANGED forwarding
        BY <3>2, PlacesFacts
      <3> QED BY <3>1, <3>2 DEF Receive
    <2>2. /\ UNCHANGED <<held, threads, added>> /\ received' = [received EXCEPT ![o] = @ + 1]
          /\ (InHand(c)' <=> InHand(c)) /\ (Live(c)' <=> Live(c)) /\ received \in [Commands -> Nat]
      BY DEF Receive, coordinatorVars, InHand, Live, GateInv, Shape
    <2>3. \A x : x \in Places(c)' <=> x \in Places(c) /\ ~(c = o /\ x = offer)
      BY <2>1, <2>2, PlacesFacts, PlacesFactsPrimed DEF NamesDiffer
    <2>4. IF c \notin added THEN Places(c) = {} /\ received[c] = 0
          ELSE \/ received[c] = 1 /\ Places(c) = {}
               \/ received[c] = 0 /\ \E p : Places(c) = {p}
      BY DEF GateInv, Placed
    <2>5. CASE c = o
      <3>1. received[c] = 0 /\ Places(c) = {offer} /\ c \in added
        BY <2>1, <2>4, <2>5
      <3>2. Places(c)' = {} /\ received'[c] = 1
        BY <2>2, <2>3, <2>5, <3>1
      <3> QED BY <2>2, <3>1, <3>2
    <2>6. CASE c # o
      <3>1. Places(c)' = Places(c) /\ received'[c] = received[c]
        BY <2>2, <2>3, <2>6
      <3> QED BY <2>2, <2>4, <3>1
    <2> QED BY <2>5, <2>6
  <1> QED BY <1>1, <1>2, <1>3, <1>4 DEF GateInv

(* Once the context is done nothing is promised about places. *)
LEMMA CancelContextGate == ASSUME GateInv, CancelContext PROVE GateInv'
  <1>1. Shape'
    BY DEF GateInv, CancelContext, Shape, CoOK, ManagerStates, coordinatorVars
  <1>2. Allowed'
    BY DEF GateInv, CancelContext, Shape, Allowed, RunsOnlyApproved, historyVars
  <1>3. Showing'
    BY DEF GateInv, CancelContext, Showing
  <1>4. Placed'
    BY DEF CancelContext, Placed
  <1> QED BY <1>1, <1>2, <1>3, <1>4 DEF GateInv

(* Every step keeps the invariant. *)
LEMMA NextGate == ASSUME NamesDiffer PROVE GateInv /\ [Next]_vars => GateInv'
  <1> SUFFICES ASSUME GateInv, [Next]_vars PROVE GateInv'
    OBVIOUS
  <1>1. CASE CoordinatorSteps
    BY <1>1, HoldGate, PassGate, ChangedGate, CancelHeldGate, CancelNextGate, CancelTakeGate,
           ReceiveGate
       DEF CoordinatorSteps
  <1>2. CASE HardStop \/ CancelContext \/ ApproveAll
    BY <1>2, HardStopGate, CancelContextGate, ApproveAllGate
  <1>3. ASSUME NEW o \in Commands, BeginAdd(o) \/ CommandEnds(o) \/ Forward(o)
        PROVE  GateInv'
    BY <1>3, BeginAddGate, CommandEndsGate, ForwardGate
  <1>4. ASSUME NEW t \in Threads, ThreadSteps(t)
        PROVE  GateInv'
    BY <1>4, ThreadChangedGate, ActGate DEF ThreadSteps
  <1>5. ASSUME NEW t \in Handlers, UserDecides(t)
        PROVE  GateInv'
    BY <1>5, UserDecidesGate
  <1>6. ASSUME NEW level \in {"ask", "auto"}, SetPermission(level)
        PROVE  GateInv'
    BY <1>6, SetPermissionGate
  <1>7. CASE UNCHANGED vars
    <2>1. Shape'
      BY <1>7 DEF vars, GateInv, Shape, CoOK
    <2>2. Allowed' /\ Showing'
      BY <1>7 DEF vars, GateInv, Allowed, RunsOnlyApproved, Showing
    <2>3. \A o : Places(o)' = Places(o)
      BY <1>7 DEF vars, Places, InHand
    <2>4. Placed'
      BY <1>7, <2>3 DEF vars, GateInv, Placed
    <2> QED BY <2>1, <2>2, <2>4 DEF GateInv
  <1> QED BY <1>1, <1>2, <1>3, <1>4, <1>5, <1>6, <1>7 DEF Next

(* The gate is tight, however many commands are submitted and however      *)
(* users, the permission switch, hard stops and ends of commands           *)
(* interleave: nothing runs without approval, a submitted command is in    *)
(* exactly one place until its end has been received once, and the user    *)
(* sees what waits (approvals.go, app.go:approveAll).                      *)
THEOREM GateAlwaysTight == Spec => []GateIsTight
  <1>1. Init => GateInv
    BY NamesAssumption, InitGate
  <1>2. GateInv /\ [Next]_vars => GateInv'
    BY NamesAssumption, NextGate
  <1> QED BY <1>1, <1>2, GateInvTight, PTL DEF Spec

-----------------------------------------------------------------------------
(* The event stream. *)

Events == [name : {"item", "status"}, id : Nat]

ConnType == [at : {"unused", "backlog", "events", "gone", "returned"},
             channel : Seq(Events), backlog : Seq(Events), wire : Seq(Events)]

(* The items of s are m+1..n, in order: f counts them. *)
Counts(f, s, m, n) ==
    /\ f[0] = m /\ f[Len(s)] = n
    /\ \A i \in 0..Len(s) : f[i] \in Nat /\ f[i] <= n
    /\ \A i \in 1..Len(s) : IF s[i].name = "item" THEN f[i] = f[i - 1] + 1 /\ s[i].id = f[i]
                                                  ELSE f[i] = f[i - 1]

Carries(s, m, n) == \E f : Counts(f, s, m, n)

(* What a connection has for its client before the events of its channel. *)
Ahead(c) == IF c.at = "backlog" THEN c.backlog ELSE c.wire

(* The connection carries what follows the item m, and, while its channel   *)
(* is registered, everything up to the last item there is.                  *)
Feeds(c, m, registered, last) ==
    \E n \in Nat, t \in Nat :
        /\ Carries(Ahead(c), m, n) /\ Carries(c.channel, n, t)
        /\ t <= last
        /\ registered => t = last

Connections ==
    /\ subs \subseteq Conns
    /\ conn \in [Conns -> ConnType]
    /\ closes \in [Conns -> {0, 1}]
    /\ \A k \in Conns :
        /\ Len(conn[k].channel) <= Capacity
        /\ conn[k].at = "unused" => k \notin subs /\ closes[k] = 0
        /\ k \in subs => conn[k].at \in {"backlog", "events", "gone"} /\ closes[k] = 0
        /\ conn[k].at = "backlog" => conn[k].wire = << >>

Reading ==
    /\ items \in Nat /\ status \in Nat /\ lastId \in Nat /\ lastId <= items
    /\ pageShown = [i \in 1..lastId |-> i]
    /\ \A k \in Conns : page = k => /\ conn[k].at # "unused"
                                    /\ Feeds(conn[k], lastId, k \in subs, items)

StreamInv == Connections /\ Reading

(* What the steps of a handler, and a cut, make of a connection. *)
Wrote(c, w, s) == [c EXCEPT !.at = "events", !.wire = w, !.backlog = s]

LEMMA ConnWrote ==
    ASSUME NEW c \in ConnType, NEW w \in Seq(Events), NEW s \in Seq(Events)
    PROVE  /\ Wrote(c, w, s) \in ConnType
           /\ Wrote(c, w, s).at = "events"
           /\ Wrote(c, w, s).wire = w
           /\ Wrote(c, w, s).channel = c.channel
  <1> DEFINE d == Wrote(c, w, s)
  <1>0. d = [c EXCEPT !.at = "events", !.wire = w, !.backlog = s]
    BY DEF Wrote
  <1> HIDE DEF d
  <1>1. d = [at |-> "events", channel |-> c.channel, backlog |-> s, wire |-> w]
    BY <1>0 DEF ConnType
  <1>2. d \in ConnType /\ d.at = "events" /\ d.wire = w /\ d.channel = c.channel
    BY <1>1 DEF ConnType
  <1> QED BY <1>2 DEF d

Sent(c, w, s) == [c EXCEPT !.channel = s, !.wire = w]

LEMMA ConnSent ==
    ASSUME NEW c \in ConnType, NEW w \in Seq(Events), NEW s \in Seq(Events)
    PROVE  /\ Sent(c, w, s) \in ConnType
           /\ Sent(c, w, s).at = c.at
           /\ Sent(c, w, s).wire = w
           /\ Sent(c, w, s).channel = s
  <1> DEFINE d == Sent(c, w, s)
  <1>0. d = [c EXCEPT !.channel = s, !.wire = w]
    BY DEF Sent
  <1> HIDE DEF d
  <1>1. d = [at |-> c.at, channel |-> s, backlog |-> c.backlog, wire |-> w]
    BY <1>0 DEF ConnType
  <1>2. d \in ConnType /\ d.at = c.at /\ d.wire = w /\ d.channel = s
    BY <1>1 DEF ConnType
  <1> QED BY <1>2 DEF d

CutOff(c, w, a) == [c EXCEPT !.at = a, !.wire = w]

LEMMA ConnCut ==
    ASSUME NEW c \in ConnType, NEW w \in Seq(Events), NEW a \in {"gone", "returned"}
    PROVE  /\ CutOff(c, w, a) \in ConnType
           /\ CutOff(c, w, a).at = a
           /\ CutOff(c, w, a).wire = w
           /\ CutOff(c, w, a).channel = c.channel
  <1> DEFINE d == CutOff(c, w, a)
  <1>0. d = [c EXCEPT !.at = a, !.wire = w]
    BY DEF CutOff
  <1> HIDE DEF d
  <1>1. d = [at |-> a, channel |-> c.channel, backlog |-> c.backlog, wire |-> w]
    BY <1>0 DEF ConnType
  <1>2. d \in ConnType /\ d.at = a /\ d.wire = w /\ d.channel = c.channel
    BY <1>1 DEF ConnType
  <1> QED BY <1>2 DEF d

LEMMA CarriesNothing ==
    ASSUME NEW m \in Nat
    PROVE  Carries(<< >>, m, m)
  <1>1. Counts([i \in {0} |-> m], << >>, m, m)
    BY DEF Counts
  <1> QED BY <1>1 DEF Carries

LEMMA CarriesStatus ==
    ASSUME NEW s \in Seq(Events), NEW m \in Nat, NEW n \in Nat, Carries(s, m, n),
           NEW e \in Events, e.name = "status"
    PROVE  Carries(Append(s, e), m, n)
  <1>1. PICK f : Counts(f, s, m, n)
    BY DEF Carries
  <1> DEFINE L == Len(s)
             t == Append(s, e)
             g == [i \in 0..(L + 1) |-> IF i = L + 1 THEN n ELSE f[i]]
  <1>2. L \in Nat /\ t \in Seq(Events) /\ Len(t) = L + 1 /\ t[L + 1] = e /\ \A i \in 1..L : t[i] = s[i]
    OBVIOUS
  <1>3. /\ f[0] = m /\ f[L] = n
        /\ \A i \in 0..L : f[i] \in Nat /\ f[i] <= n
        /\ \A i \in 1..L : IF s[i].name = "item" THEN f[i] = f[i - 1] + 1 /\ s[i].id = f[i]
                                                 ELSE f[i] = f[i - 1]
    BY <1>1 DEF Counts
  <1> HIDE DEF L, t
  <1>4. g[0] = m /\ g[L + 1] = n /\ g[L] = n /\ \A i \in 0..L : g[i] = f[i]
    BY <1>2, <1>3
  <1>5. \A i \in 0..(L + 1) : g[i] \in Nat /\ g[i] <= n
    BY <1>2, <1>3, <1>4
  <1> HIDE DEF g
  <1>6. ASSUME NEW i \in 1..(L + 1)
        PROVE  IF t[i].name = "item" THEN g[i] = g[i - 1] + 1 /\ t[i].id = g[i] ELSE g[i] = g[i - 1]
    <2>1. CASE i = L + 1
      <3>1. i - 1 = L
        BY <1>2, <2>1
      <3> QED BY <1>2, <1>4, <2>1, <3>1
    <2>2. CASE i # L + 1
      <3>1. i \in 1..L /\ i - 1 \in 0..L /\ i \in 0..L
        BY <1>2, <2>2
      <3> QED BY <1>2, <1>3, <1>4, <3>1
    <2> QED BY <2>1, <2>2
  <1>7. Counts(g, t, m, n)
    BY <1>2, <1>4, <1>5, <1>6 DEF Counts
  <1> QED BY <1>7 DEF Carries, t

LEMMA CarriesItem ==
    ASSUME NEW s \in Seq(Events), NEW m \in Nat, NEW n \in Nat, Carries(s, m, n),
           NEW e \in Events, e.name = "item", e.id = n + 1
    PROVE  Carries(Append(s, e), m, n + 1)
  <1>1. PICK f : Counts(f, s, m, n)
    BY DEF Carries
  <1> DEFINE L == Len(s)
             t == Append(s, e)
             g == [i \in 0..(L + 1) |-> IF i = L + 1 THEN n + 1 ELSE f[i]]
  <1>2. L \in Nat /\ t \in Seq(Events) /\ Len(t) = L + 1 /\ t[L + 1] = e /\ \A i \in 1..L : t[i] = s[i]
    OBVIOUS
  <1>3. /\ f[0] = m /\ f[L] = n
        /\ \A i \in 0..L : f[i] \in Nat /\ f[i] <= n
        /\ \A i \in 1..L : IF s[i].name = "item" THEN f[i] = f[i - 1] + 1 /\ s[i].id = f[i]
                                                 ELSE f[i] = f[i - 1]
    BY <1>1 DEF Counts
  <1> HIDE DEF L, t
  <1>4. g[0] = m /\ g[L + 1] = n + 1 /\ g[L] = n /\ \A i \in 0..L : g[i] = f[i]
    BY <1>2, <1>3
  <1>5. \A i \in 0..(L + 1) : g[i] \in Nat /\ g[i] <= n + 1
    BY <1>2, <1>3, <1>4
  <1> HIDE DEF g
  <1>6. ASSUME NEW i \in 1..(L + 1)
        PROVE  IF t[i].name = "item" THEN g[i] = g[i - 1] + 1 /\ t[i].id = g[i] ELSE g[i] = g[i - 1]
    <2>1. CASE i = L + 1
      <3>1. i - 1 = L
        BY <1>2, <2>1
      <3> QED BY <1>2, <1>4, <2>1, <3>1
    <2>2. CASE i # L + 1
      <3>1. i \in 1..L /\ i - 1 \in 0..L /\ i \in 0..L
        BY <1>2, <2>2
      <3> QED BY <1>2, <1>3, <1>4, <3>1
    <2> QED BY <2>1, <2>2
  <1>7. Counts(g, t, m, n + 1)
    BY <1>2, <1>4, <1>5, <1>6 DEF Counts
  <1> QED BY <1>7 DEF Carries, t

(* The first event of a sequence, and the others. *)
LEMMA CarriesTail ==
    ASSUME NEW s \in Seq(Events), s # << >>, NEW m \in Nat, NEW n \in Nat, Carries(s, m, n)
    PROVE  /\ Head(s).name = "item" => Head(s).id = m + 1 /\ m + 1 <= n /\ Carries(Tail(s), m + 1, n)
           /\ Head(s).name # "item" => Carries(Tail(s), m, n)
  <1>1. PICK f : Counts(f, s, m, n)
    BY DEF Carries
  <1> DEFINE L == Len(s)
             t == Tail(s)
             g == [i \in 0..(L - 1) |-> f[i + 1]]
             b == f[1]
  <1>2. /\ L \in Nat /\ L >= 1 /\ t \in Seq(Events) /\ Len(t) = L - 1 /\ Head(s) = s[1]
        /\ \A i \in 1..(L - 1) : t[i] = s[i + 1]
    OBVIOUS
  <1>3. /\ f[0] = m /\ f[L] = n
        /\ \A i \in 0..L : f[i] \in Nat /\ f[i] <= n
        /\ \A i \in 1..L : IF s[i].name = "item" THEN f[i] = f[i - 1] + 1 /\ s[i].id = f[i]
                                                 ELSE f[i] = f[i - 1]
    BY <1>1 DEF Counts
  <1> HIDE DEF L, t
  <1>4. b <= n /\ IF s[1].name = "item" THEN b = m + 1 /\ s[1].id = m + 1 ELSE b = m
    BY <1>2, <1>3
  <1>5. g[0] = b /\ g[L - 1] = n
    BY <1>2, <1>3
  <1>6. ASSUME NEW i \in 0..(L - 1)
        PROVE  g[i] \in Nat /\ g[i] <= n
    <2>1. i + 1 \in 0..L
      BY <1>2
    <2> QED BY <1>3, <2>1
  <1>7. ASSUME NEW i \in 1..(L - 1)
        PROVE  IF t[i].name = "item" THEN g[i] = g[i - 1] + 1 /\ t[i].id = g[i] ELSE g[i] = g[i - 1]
    <2>1. i + 1 \in 1..L /\ i - 1 \in 0..(L - 1) /\ i \in 0..(L - 1) /\ (i - 1) + 1 = i /\ (i + 1) - 1 = i
      BY <1>2
    <2>2. g[i] = f[i + 1] /\ g[i - 1] = f[i]
      BY <2>1
    <2> QED BY <1>2, <1>3, <2>1, <2>2
  <1> HIDE DEF g, b
  <1>8. Counts(g, t, b, n)
    BY <1>2, <1>5, <1>6, <1>7 DEF Counts
  <1>9. Carries(t, b, n)
    BY <1>8 DEF Carries
  <1> QED BY <1>2, <1>4, <1>9 DEF t

(* What is taken for a new client (chat.go:subscribe). *)
LEMMA BacklogCarries ==
    ASSUME NEW m \in Nat, NEW n \in Nat, m <= n, NEW e \in Events, e.name = "status",
           NEW s, s = [i \in 1..(n + 1 - (m + 1)) |-> Stream!Item((m + 1) + i - 1)]
    PROVE  s \o <<e>> \in Seq(Events) /\ Carries(s \o <<e>>, m, n)
  <1> DEFINE L == n - m
  <1>1. L \in Nat /\ n + 1 - (m + 1) = L /\ m + L = n
    OBVIOUS
  <1> HIDE DEF L
  <1>2. s = [i \in 1..L |-> Stream!Item((m + 1) + i - 1)]
    BY <1>1
  <1>3. ASSUME NEW i \in 1..L
        PROVE  s[i] \in Events /\ s[i].name = "item" /\ s[i].id = m + i
    <2>1. (m + 1) + i - 1 = m + i /\ m + i \in Nat
      BY <1>1
    <2>2. s[i] = Stream!Item(m + i)
      BY <1>2, <2>1
    <2> QED BY <2>1, <2>2 DEF Stream!Item, Events
  <1>4. s \in Seq(Events) /\ Len(s) = L
    <2>1. s \in [1..L -> Events]
      BY <1>2, <1>3
    <2> QED BY <1>1, <2>1
  <1>5. s \o <<e>> = Append(s, e)
    BY <1>4
  <1>6. Carries(s, m, n)
    <2> DEFINE f == [i \in 0..L |-> m + i]
    <2>1. f[0] = m /\ f[L] = n /\ \A i \in 0..L : f[i] \in Nat /\ f[i] <= n
      BY <1>1
    <2>2. ASSUME NEW i \in 1..L
          PROVE  f[i] = f[i - 1] + 1 /\ s[i].id = f[i]
      <3>1. i - 1 \in 0..L /\ i \in 0..L
        BY <1>1
      <3>2. f[i] = m + i /\ f[i - 1] = m + (i - 1)
        BY <3>1
      <3>3. f[i] = f[i - 1] + 1
        BY <1>1, <3>2
      <3>4. s[i].id = m + i
        BY <1>3
      <3> QED BY <3>2, <3>3, <3>4
    <2> HIDE DEF f
    <2>3. Counts(f, s, m, n)
      BY <1>3, <1>4, <2>1, <2>2 DEF Counts
    <2> QED BY <2>3 DEF Carries
  <1>7. s \o <<e>> \in Seq(Events)
    BY <1>4, <1>5
  <1>8. Carries(Append(s, e), m, n)
    BY <1>4, <1>6, CarriesStatus
  <1> QED BY <1>5, <1>7, <1>8

-----------------------------------------------------------------------------
(* Steps. *)

LEMMA StreamStarts == Stream!Init => StreamInv
  <1> SUFFICES ASSUME Stream!Init PROVE StreamInv
    OBVIOUS
  <1>1. Stream!Unused \in ConnType /\ Stream!Unused.at = "unused" /\ Stream!Unused.channel = << >>
    BY DEF Stream!Unused, ConnType
  <1>2. /\ subs = {} /\ page = Stream!NoConn /\ items = 0 /\ status = 0 /\ lastId = 0 /\ pageShown = << >>
        /\ conn = [k \in Conns |-> Stream!Unused] /\ closes = [k \in Conns |-> 0]
    BY DEF Stream!Init
  <1>3. Connections
    BY <1>1, <1>2, StreamAssumption DEF Connections
  <1>4. << >> = [i \in 1..0 |-> i]
    OBVIOUS
  <1>5. Reading
    BY <1>2, <1>4, StreamAssumption DEF Reading
  <1> QED BY <1>3, <1>5 DEF StreamInv

(* What stays true of a connection's client when nothing changes for it.   *)
LEMMA SameFeed ==
    ASSUME NEW c, NEW d, d.channel = c.channel, Ahead(d) = Ahead(c), NEW m, NEW last \in Nat,
           NEW more \in Nat, last <= more, NEW r, NEW q, Feeds(c, m, r, last), q => r /\ more = last
    PROVE  Feeds(d, m, q, more)
  <1>1. PICK n \in Nat, t \in Nat : /\ Carries(Ahead(c), m, n) /\ Carries(c.channel, n, t)
                                    /\ t <= last /\ (r => t = last)
    BY DEF Feeds
  <1>2. t <= more /\ (q => t = more)
    BY <1>1
  <1> QED BY <1>1, <1>2 DEF Feeds

(* broadcastLocked: who is registered and has room is given the event, who *)
(* has none is closed (chat.go:broadcastLocked).                           *)
LEMMA BroadcastFacts ==
    ASSUME Connections, NEW e \in Events, Stream!Broadcast(e)
    PROVE  /\ Connections'
           /\ \A k \in Conns :
                /\ conn'[k].at = conn[k].at /\ Ahead(conn'[k]) = Ahead(conn[k])
                /\ \/ k \in subs /\ conn'[k].channel = Append(conn[k].channel, e)
                   \/ k \notin subs' /\ conn'[k].channel = conn[k].channel
                /\ k \notin subs => k \notin subs' /\ conn'[k] = conn[k]
  <1>1. /\ subs' = subs \ {k \in subs : Stream!Full(k)}
        /\ closes' = [k \in Conns |-> IF k \in subs /\ Stream!Full(k) THEN closes[k] + 1 ELSE closes[k]]
        /\ conn' = [k \in Conns |->
                      IF k \in subs /\ ~Stream!Full(k)
                      THEN [conn[k] EXCEPT !.channel = Append(@, e)] ELSE conn[k]]
    BY DEF Stream!Broadcast, Stream!CloseWhenFull
  <1>2. ASSUME NEW k \in Conns
        PROVE  /\ conn'[k] \in ConnType
               /\ conn'[k].at = conn[k].at /\ conn'[k].wire = conn[k].wire /\ conn'[k].backlog = conn[k].backlog
               /\ conn'[k].channel = IF k \in subs /\ ~Stream!Full(k) THEN Append(conn[k].channel, e)
                                     ELSE conn[k].channel
               /\ Len(conn'[k].channel) <= Capacity
               /\ k \notin subs => conn'[k] = conn[k]
    <2>1. conn[k] \in ConnType /\ Len(conn[k].channel) <= Capacity
      BY DEF Connections
    <2>2. CASE k \in subs /\ ~Stream!Full(k)
      <3>1. conn'[k] = [conn[k] EXCEPT !.channel = Append(conn[k].channel, e)]
        BY <1>1, <2>2
      <3>2. Len(conn[k].channel) < Capacity
        BY <2>1, <2>2, StreamAssumption DEF Stream!Full, ConnType
      <3>3. Append(conn[k].channel, e) \in Seq(Events) /\ Len(Append(conn[k].channel, e)) <= Capacity
        BY <2>1, <3>2, StreamAssumption DEF ConnType
      <3> QED BY <2>1, <2>2, <3>1, <3>3 DEF ConnType
    <2>3. CASE ~(k \in subs /\ ~Stream!Full(k))
      BY <1>1, <2>1, <2>3
    <2> QED BY <2>2, <2>3
  <1>3. closes' \in [Conns -> {0, 1}] /\ \A k \in Conns : k \in subs' \/ k \notin subs => closes'[k] = closes[k]
    BY <1>1 DEF Connections
  <1>4. conn' \in [Conns -> ConnType]
    BY <1>1, <1>2
  <1>5. \A k \in Conns : k \in subs' => k \in subs
    BY <1>1
  <1>6. subs' \subseteq Conns
    BY <1>1 DEF Connections
  <1>7. Connections'
    BY <1>2, <1>3, <1>4, <1>5, <1>6 DEF Connections
  <1>8. ASSUME NEW k \in Conns
        PROVE  /\ Ahead(conn'[k]) = Ahead(conn[k])
               /\ \/ k \in subs /\ conn'[k].channel = Append(conn[k].channel, e)
                  \/ k \notin subs' /\ conn'[k].channel = conn[k].channel
    BY <1>1, <1>2 DEF Ahead
  <1> QED BY <1>2, <1>5, <1>7, <1>8

(* What a broadcast does for the page. *)
LEMMA FedOn ==
    ASSUME NEW c, NEW d, NEW e \in Events, c.channel \in Seq(Events), Ahead(d) = Ahead(c),
           d.channel = Append(c.channel, e), NEW m, NEW last \in Nat, NEW q,
           Feeds(c, m, TRUE, last)
    PROVE  /\ e.name = "item" /\ e.id = last + 1 => Feeds(d, m, q, last + 1)
           /\ e.name = "status" => Feeds(d, m, q, last)
  <1>1. PICK n \in Nat, t \in Nat : Carries(Ahead(c), m, n) /\ Carries(c.channel, n, t) /\ t = last
    BY DEF Feeds
  <1>2. ASSUME e.name = "item" /\ e.id = last + 1 PROVE Feeds(d, m, q, last + 1)
    <2>1. Carries(d.channel, n, last + 1)
      BY <1>1, <1>2, CarriesItem
    <2>2. last + 1 \in Nat /\ last + 1 <= last + 1
      OBVIOUS
    <2> QED BY <1>1, <2>1, <2>2 DEF Feeds
  <1>3. ASSUME e.name = "status" PROVE Feeds(d, m, q, last)
    <2>1. Carries(d.channel, n, last)
      BY <1>1, <1>3, CarriesStatus
    <2>2. last <= last
      OBVIOUS
    <2> QED BY <1>1, <2>1, <2>2 DEF Feeds
  <1> QED BY <1>2, <1>3

LEMMA PublishStream == ASSUME StreamInv, Stream!Publish PROVE StreamInv'
  <1> DEFINE e == Stream!Item(items + 1)
  <1>1. items \in Nat /\ e \in Events /\ e.name = "item" /\ e.id = items + 1
    BY DEF StreamInv, Reading, Stream!Item, Events
  <1>2. /\ items' = items + 1 /\ Stream!Broadcast(e)
        /\ UNCHANGED <<status, page, lastId, pageShown>>
    BY DEF Stream!Publish
  <1> HIDE DEF e
  <1>3. /\ Connections'
        /\ \A k \in Conns :
             /\ conn'[k].at = conn[k].at /\ Ahead(conn'[k]) = Ahead(conn[k])
             /\ \/ k \in subs /\ conn'[k].channel = Append(conn[k].channel, e)
                \/ k \notin subs' /\ conn'[k].channel = conn[k].channel
             /\ k \notin subs => k \notin subs' /\ conn'[k] = conn[k]
    BY <1>1, <1>2, BroadcastFacts DEF StreamInv
  <1>4. ASSUME NEW k \in Conns, page = k
        PROVE  Feeds(conn'[k], lastId, k \in subs', items + 1)
    <2>1. Feeds(conn[k], lastId, k \in subs, items) /\ conn[k].channel \in Seq(Events)
      BY <1>4 DEF StreamInv, Reading, Connections, ConnType
    <2>2. CASE k \in subs /\ conn'[k].channel = Append(conn[k].channel, e)
      <3>1. Feeds(conn[k], lastId, TRUE, items)
        BY <2>1, <2>2 DEF Feeds
      <3> QED BY <1>1, <1>3, <2>1, <2>2, <3>1, FedOn
    <2>3. CASE k \notin subs' /\ conn'[k].channel = conn[k].channel
      <3>1. items + 1 \in Nat /\ items <= items + 1
        BY <1>1
      <3> QED BY <1>1, <1>3, <2>1, <2>3, <3>1, SameFeed
    <2> QED BY <1>3, <2>2, <2>3
  <1>5. Reading'
    <2>1. items' \in Nat /\ lastId <= items'
      BY <1>1, <1>2 DEF StreamInv, Reading
    <2> QED BY <1>2, <1>3, <1>4, <2>1 DEF StreamInv, Reading
  <1> QED BY <1>3, <1>5 DEF StreamInv

LEMMA StatusChangesStream == ASSUME StreamInv, Stream!StatusChanges PROVE StreamInv'
  <1> DEFINE e == Stream!Status(status + 1)
  <1>1. items \in Nat /\ status + 1 \in Nat /\ e \in Events /\ e.name = "status"
    BY DEF StreamInv, Reading, Stream!Status, Events
  <1>2. /\ status' = status + 1 /\ Stream!Broadcast(e)
        /\ UNCHANGED <<items, page, lastId, pageShown>>
    BY DEF Stream!StatusChanges
  <1> HIDE DEF e
  <1>3. /\ Connections'
        /\ \A k \in Conns :
             /\ conn'[k].at = conn[k].at /\ Ahead(conn'[k]) = Ahead(conn[k])
             /\ \/ k \in subs /\ conn'[k].channel = Append(conn[k].channel, e)
                \/ k \notin subs' /\ conn'[k].channel = conn[k].channel
             /\ k \notin subs => k \notin subs' /\ conn'[k] = conn[k]
    BY <1>1, <1>2, BroadcastFacts DEF StreamInv
  <1>4. ASSUME NEW k \in Conns, page = k
        PROVE  Feeds(conn'[k], lastId, k \in subs', items)
    <2>1. Feeds(conn[k], lastId, k \in subs, items) /\ conn[k].channel \in Seq(Events)
      BY <1>4 DEF StreamInv, Reading, Connections, ConnType
    <2>2. CASE k \in subs /\ conn'[k].channel = Append(conn[k].channel, e)
      <3>1. Feeds(conn[k], lastId, TRUE, items)
        BY <2>1, <2>2 DEF Feeds
      <3> QED BY <1>1, <1>3, <2>1, <2>2, <3>1, FedOn
    <2>3. CASE k \notin subs' /\ conn'[k].channel = conn[k].channel
      <3>1. items <= items
        BY <1>1
      <3> QED BY <1>1, <1>3, <2>1, <2>3, <3>1, SameFeed
    <2> QED BY <1>3, <2>2, <2>3
  <1>5. Reading'
    BY <1>1, <1>2, <1>3, <1>4 DEF StreamInv, Reading
  <1> QED BY <1>3, <1>5 DEF StreamInv

(* The items a client lacks, taken in one step with the registration       *)
(* (chat.go:subscribe).                                                    *)
LEMMA ConnectStream ==
    ASSUME StreamInv, NEW k \in Conns, Stream!Connect(k)
    PROVE  StreamInv'
  <1> DEFINE missing == [i \in 1..(items + 1 - (lastId + 1)) |-> Stream!Item((lastId + 1) + i - 1)]
             e == Stream!Status(status)
             new == [at |-> "backlog", channel |-> << >>, wire |-> << >>, backlog |-> missing \o <<e>>]
  <1>1. /\ conn[k] = Stream!Unused /\ page' = k /\ subs' = subs \cup {k} /\ conn' = [conn EXCEPT ![k] = new]
        /\ UNCHANGED <<items, status, closes, lastId, pageShown>>
    BY DEF Stream!Connect, Stream!FirstAfter
  <1>2. e \in Events /\ e.name = "status" /\ lastId \in Nat /\ items \in Nat /\ lastId <= items
    BY DEF StreamInv, Reading, Stream!Status, Events
  <1>3. missing \o <<e>> \in Seq(Events) /\ Carries(missing \o <<e>>, lastId, items)
    <2> HIDE DEF e
    <2> QED BY <1>2, BacklogCarries
  <1> HIDE DEF missing, e
  <1>4. /\ new \in ConnType /\ new.at = "backlog" /\ new.wire = << >> /\ new.channel = << >>
        /\ Ahead(new) = missing \o <<e>>
    BY <1>3 DEF ConnType, Ahead
  <1> HIDE DEF new
  <1>5. /\ conn' \in [Conns -> ConnType] /\ conn'[k] = new
        /\ \A j \in Conns : j # k => conn'[j] = conn[j]
    BY <1>1, <1>4 DEF StreamInv, Connections
  <1>6. conn[k].at = "unused"
    BY <1>1 DEF Stream!Unused
  <1>7. Len(new.channel) <= Capacity
    BY <1>4, StreamAssumption
  <1>8. Connections'
    BY <1>1, <1>4, <1>5, <1>6, <1>7 DEF StreamInv, Connections
  <1>9. Feeds(new, lastId, k \in subs', items)
    <2>1. Carries(<< >>, items, items) /\ items <= items
      BY <1>2, CarriesNothing
    <2> QED BY <1>2, <1>3, <1>4, <2>1 DEF Feeds
  <1>10. Reading'
    BY <1>1, <1>4, <1>5, <1>9 DEF StreamInv, Reading
  <1> QED BY <1>8, <1>10 DEF StreamInv

(* A handler's write moves events from the backlog or the channel to the   *)
(* wire: the client is fed the same (server.go:handleEvents).              *)
LEMMA WriteBacklogStream ==
    ASSUME StreamInv, NEW k \in Conns, Stream!WriteBacklog(k)
    PROVE  StreamInv'
  <1> DEFINE new == Wrote(conn[k], conn[k].backlog, << >>)
  <1>1. /\ conn[k].at = "backlog" /\ conn' = [conn EXCEPT ![k] = new]
        /\ UNCHANGED <<items, status, subs, closes, page, lastId, pageShown>>
    BY DEF Stream!WriteBacklog, Wrote
  <1>2. conn[k] \in ConnType
    BY DEF StreamInv, Connections
  <1>3. new \in ConnType /\ new.at = "events" /\ new.channel = conn[k].channel /\ Ahead(new) = Ahead(conn[k])
    <2>1. conn[k].backlog \in Seq(Events) /\ << >> \in Seq(Events)
      BY <1>2 DEF ConnType
    <2>2. /\ new \in ConnType /\ new.at = "events" /\ new.wire = conn[k].backlog
          /\ new.channel = conn[k].channel
      BY <1>2, <2>1, ConnWrote
    <2> HIDE DEF new
    <2> QED BY <1>1, <2>2 DEF Ahead
  <1> HIDE DEF new
  <1>4. /\ conn' \in [Conns -> ConnType] /\ conn'[k] = new
        /\ \A j \in Conns : j # k => conn'[j] = conn[j]
    BY <1>1, <1>3 DEF StreamInv, Connections
  <1>5. Connections'
    BY <1>1, <1>3, <1>4 DEF StreamInv, Connections
  <1>6. \A m, r, last : Feeds(conn[k], m, r, last) => Feeds(new, m, r, last)
    BY <1>3 DEF Feeds
  <1>7. Reading'
    BY <1>1, <1>3, <1>4, <1>6 DEF StreamInv, Reading
  <1> QED BY <1>5, <1>7 DEF StreamInv

LEMMA WriteEventStream ==
    ASSUME StreamInv, NEW k \in Conns, Stream!WriteEvent(k)
    PROVE  StreamInv'
  <1> DEFINE c == conn[k]
             w == Append(c.wire, Head(c.channel))
             s == Tail(c.channel)
             new == Sent(c, w, s)
  <1>1. /\ c.at = "events" /\ c.channel # << >> /\ conn' = [conn EXCEPT ![k] = new]
        /\ UNCHANGED <<items, status, subs, closes, page, lastId, pageShown>>
    BY DEF Stream!WriteEvent, Sent
  <1>2. c \in ConnType /\ Len(c.channel) <= Capacity
    BY DEF StreamInv, Connections
  <1> HIDE DEF c
  <1>3. /\ c.channel \in Seq(Events) /\ c.wire \in Seq(Events) /\ Head(c.channel) \in Events
        /\ Tail(c.channel) \in Seq(Events) /\ Len(Tail(c.channel)) <= Capacity
    BY <1>1, <1>2, StreamAssumption DEF ConnType
  <1>4. /\ new \in ConnType /\ new.at = "events" /\ new.channel = Tail(c.channel)
        /\ new.wire = Append(c.wire, Head(c.channel))
    <2>1. w \in Seq(Events) /\ s \in Seq(Events)
      BY <1>3
    <2>2. new \in ConnType /\ new.at = c.at /\ new.channel = s /\ new.wire = w
      <3> HIDE DEF w, s
      <3> QED BY <1>2, <2>1, ConnSent
    <2> QED BY <1>1, <2>2
  <1> HIDE DEF new
  <1>5. /\ conn' \in [Conns -> ConnType] /\ conn'[k] = new
        /\ \A j \in Conns : j # k => conn'[j] = conn[j]
    BY <1>1, <1>4 DEF StreamInv, Connections
  <1>6. Connections'
    BY <1>1, <1>3, <1>4, <1>5 DEF StreamInv, Connections, c
  <1>7. ASSUME NEW m \in Nat, NEW r, NEW last, Feeds(c, m, r, last)
        PROVE  Feeds(new, m, r, last)
    <2>1. PICK n \in Nat, t \in Nat : /\ Carries(c.wire, m, n) /\ Carries(c.channel, n, t)
                                      /\ t <= last /\ (r => t = last)
      BY <1>1, <1>7 DEF Feeds, Ahead
    <2>2. CASE Head(c.channel).name = "item"
      <3>1. Head(c.channel).id = n + 1 /\ Carries(Tail(c.channel), n + 1, t)
        BY <1>1, <1>3, <2>1, <2>2, CarriesTail
      <3>2. Carries(Append(c.wire, Head(c.channel)), m, n + 1)
        BY <1>3, <2>1, <2>2, <3>1, CarriesItem
      <3> QED BY <1>4, <2>1, <3>1, <3>2 DEF Feeds, Ahead
    <2>3. CASE Head(c.channel).name = "status"
      <3>1. Carries(Tail(c.channel), n, t)
        BY <1>1, <1>3, <2>1, <2>3, CarriesTail
      <3>2. Carries(Append(c.wire, Head(c.channel)), m, n)
        BY <1>3, <2>1, <2>3, CarriesStatus
      <3> QED BY <1>4, <2>1, <3>1, <3>2 DEF Feeds, Ahead
    <2> QED BY <1>3, <2>2, <2>3 DEF Events
  <1>8. Reading'
    <2>1. lastId \in Nat
      BY DEF StreamInv, Reading
    <2> QED BY <1>1, <1>4, <1>5, <1>7, <2>1 DEF StreamInv, Reading, c
  <1> QED BY <1>6, <1>8 DEF StreamInv

(* unsubscribe closes a channel that no broadcast has closed               *)
(* (chat.go:unsubscribe).                                                  *)
LEMMA HandlerReturnsStream ==
    ASSUME StreamInv, NEW k \in Conns, Stream!HandlerReturns(k)
    PROVE  StreamInv'
  <1> DEFINE new == [conn[k] EXCEPT !.at = "returned"]
  <1>1. /\ conn[k].at \in {"events", "gone"} /\ conn' = [conn EXCEPT ![k] = new] /\ subs' = subs \ {k}
        /\ closes' = [closes EXCEPT ![k] = IF k \in subs THEN closes[k] + 1 ELSE closes[k]]
        /\ UNCHANGED <<items, status, page, lastId, pageShown>>
    BY DEF Stream!HandlerReturns, Stream!ClosesOnUnsubscribe
  <1>2. conn[k] \in ConnType
    BY DEF StreamInv, Connections
  <1>3. new \in ConnType /\ new.at = "returned" /\ new.channel = conn[k].channel /\ Ahead(new) = Ahead(conn[k])
    BY <1>1, <1>2 DEF ConnType, Ahead
  <1> HIDE DEF new
  <1>4. /\ conn' \in [Conns -> ConnType] /\ conn'[k] = new
        /\ \A j \in Conns : j # k => conn'[j] = conn[j]
    BY <1>1, <1>3 DEF StreamInv, Connections
  <1>5. closes' \in [Conns -> {0, 1}] /\ \A j \in Conns : j # k => closes'[j] = closes[j]
    BY <1>1 DEF StreamInv, Connections
  <1>6. Connections'
    BY <1>1, <1>3, <1>4, <1>5 DEF StreamInv, Connections
  <1>7. \A m, r, last : Feeds(conn[k], m, r, last) => Feeds(new, m, FALSE, last)
    BY <1>3 DEF Feeds
  <1>8. Reading'
    <2>1. k \notin subs' /\ \A j \in Conns : j # k => (j \in subs' <=> j \in subs)
      BY <1>1
    <2>2. ASSUME NEW j \in Conns, page = j
          PROVE  conn'[j].at # "unused" /\ Feeds(conn'[j], lastId, j \in subs', items)
      <3>1. conn[j].at # "unused" /\ Feeds(conn[j], lastId, j \in subs, items)
        BY <2>2 DEF StreamInv, Reading
      <3>2. CASE j = k
        <4>1. Feeds(new, lastId, FALSE, items)
          BY <1>7, <3>1, <3>2
        <4> QED BY <1>3, <1>4, <2>1, <3>2, <4>1 DEF Feeds
      <3>3. CASE j # k
        BY <1>4, <2>1, <3>1, <3>3 DEF Feeds
      <3> QED BY <3>2, <3>3
    <2> QED BY <1>1, <2>2 DEF StreamInv, Reading
  <1> QED BY <1>6, <1>8 DEF StreamInv

(* The page shows the item after the last it has shown (app.js).           *)
LEMMA ReadStream ==
    ASSUME StreamInv, NEW k \in Conns, Stream!Read(k)
    PROVE  StreamInv'
  <1> DEFINE c == conn[k]
             new == [c EXCEPT !.wire = Tail(c.wire)]
             ev == Head(c.wire)
             last == IF pageShown = << >> THEN 0 ELSE Stream!Last(pageShown)
  <1>1. /\ page = k /\ c.wire # << >> /\ conn' = [conn EXCEPT ![k] = new]
        /\ UNCHANGED <<items, status, subs, closes, page>>
        /\ IF ev.name = "item"
           THEN lastId' = ev.id /\ pageShown' = IF ev.id <= last THEN pageShown ELSE Append(pageShown, ev.id)
           ELSE UNCHANGED <<lastId, pageShown>>
    BY DEF Stream!Read
  <1>2. /\ c \in ConnType /\ Len(c.channel) <= Capacity /\ c.at # "backlog" /\ c.at # "unused"
        /\ Feeds(c, lastId, k \in subs, items)
        /\ lastId \in Nat /\ items \in Nat /\ lastId <= items /\ pageShown = [i \in 1..lastId |-> i]
    BY <1>1 DEF StreamInv, Connections, Reading
  <1>3. pageShown \in Seq(Nat) /\ Len(pageShown) = lastId
    <2>1. pageShown \in [1..lastId -> Nat]
      BY <1>2
    <2> QED BY <1>2, <2>1
  <1>4. last = lastId
    BY <1>2, <1>3 DEF Stream!Last
  <1> HIDE DEF c, last
  <1>5. c.wire \in Seq(Events) /\ ev \in Events /\ Tail(c.wire) \in Seq(Events)
    BY <1>1, <1>2 DEF ConnType
  <1>6. new \in ConnType /\ new.at = c.at /\ new.channel = c.channel /\ new.wire = Tail(c.wire)
    BY <1>2, <1>5 DEF ConnType
  <1> HIDE DEF new, ev
  <1>7. /\ conn' \in [Conns -> ConnType] /\ conn'[k] = new
        /\ \A j \in Conns : j # k => conn'[j] = conn[j]
    BY <1>1, <1>6 DEF StreamInv, Connections
  <1>8. Connections'
    BY <1>1, <1>2, <1>6, <1>7 DEF StreamInv, Connections, c
  <1>9. PICK n \in Nat, t \in Nat : /\ Carries(c.wire, lastId, n) /\ Carries(c.channel, n, t)
                                    /\ t <= items /\ (k \in subs => t = items)
    BY <1>2 DEF Feeds, Ahead
  <1>10. /\ ev.name = "item" => ev.id = lastId + 1 /\ lastId + 1 <= n /\ Carries(Tail(c.wire), lastId + 1, n)
         /\ ev.name # "item" => Carries(Tail(c.wire), lastId, n)
    BY <1>1, <1>2, <1>5, <1>9, CarriesTail DEF ev
  <1>11. n <= t
    BY <1>9 DEF Carries, Counts
  <1>12. CASE ev.name = "item"
    <2>1. lastId' = lastId + 1 /\ pageShown' = Append(pageShown, lastId + 1) /\ lastId + 1 <= items
      BY <1>1, <1>2, <1>4, <1>9, <1>10, <1>11, <1>12
    <2>2. Append(pageShown, lastId + 1) = [i \in 1..(lastId + 1) |-> i]
      BY <1>2, <1>3
    <2>3. Feeds(new, lastId + 1, k \in subs, items)
      BY <1>2, <1>6, <1>9, <1>10, <1>12 DEF Feeds, Ahead
    <2>4. Reading'
      BY <1>1, <1>2, <1>6, <1>7, <2>1, <2>2, <2>3 DEF StreamInv, Reading
    <2> QED BY <1>8, <2>4 DEF StreamInv
  <1>13. CASE ev.name # "item"
    <2>1. Feeds(new, lastId, k \in subs, items)
      BY <1>2, <1>6, <1>9, <1>10, <1>13 DEF Feeds, Ahead
    <2>2. Reading'
      BY <1>1, <1>2, <1>6, <1>7, <1>13, <2>1 DEF StreamInv, Reading
    <2> QED BY <1>8, <2>2 DEF StreamInv
  <1> QED BY <1>12, <1>13

(* The page has no connection. *)
LEMMA CutStream ==
    ASSUME StreamInv, NEW k \in Conns, Stream!Cut(k) \/ Stream!StreamEnds(k)
    PROVE  StreamInv'
  <1>1. page' = Stream!NoConn /\ UNCHANGED <<items, status, subs, closes, lastId, pageShown>>
    BY DEF Stream!Cut, Stream!StreamEnds
  <1>2. Reading'
    BY <1>1, StreamAssumption DEF StreamInv, Reading
  <1>3. CASE Stream!StreamEnds(k)
    <2>1. UNCHANGED conn
      BY <1>3 DEF Stream!StreamEnds
    <2>2. Connections'
      BY <1>1, <2>1 DEF StreamInv, Connections
    <2> QED BY <1>2, <2>2 DEF StreamInv
  <1>4. CASE Stream!Cut(k)
    <2> DEFINE at == IF conn[k].at = "returned" THEN "returned" ELSE "gone"
               w == << >>
               new == CutOff(conn[k], w, at)
    <2>1. page = k /\ conn' = [conn EXCEPT ![k] = new]
      BY <1>4 DEF Stream!Cut, CutOff
    <2>2. conn[k] \in ConnType /\ conn[k].at # "unused"
      BY <2>1 DEF StreamInv, Connections, Reading
    <2>3. new \in ConnType /\ new.at = at /\ new.channel = conn[k].channel /\ new.wire = w
      <3>1. w \in Seq(Events) /\ at \in {"gone", "returned"}
        OBVIOUS
      <3> HIDE DEF at, w
      <3> QED BY <2>2, <3>1, ConnCut
    <2> HIDE DEF new
    <2>4. /\ conn' \in [Conns -> ConnType] /\ conn'[k] = new
          /\ \A j \in Conns : j # k => conn'[j] = conn[j]
      BY <2>1, <2>3 DEF StreamInv, Connections
    <2>5. Connections'
      BY <1>1, <2>2, <2>3, <2>4 DEF StreamInv, Connections
    <2> QED BY <1>2, <2>5 DEF StreamInv
  <1> QED BY <1>3, <1>4

LEMMA NextStream == StreamInv /\ [Stream!Next]_(Stream!vars) => StreamInv'
  <1> SUFFICES ASSUME StreamInv, [Stream!Next]_(Stream!vars) PROVE StreamInv'
    OBVIOUS
  <1>1. ASSUME NEW k \in Conns, \/ Stream!Connect(k) \/ Stream!WriteBacklog(k) \/ Stream!WriteEvent(k)
                                \/ Stream!HandlerReturns(k) \/ Stream!Read(k) \/ Stream!StreamEnds(k)
                                \/ Stream!Cut(k)
        PROVE  StreamInv'
    BY <1>1, ConnectStream, WriteBacklogStream, WriteEventStream, HandlerReturnsStream, ReadStream, CutStream
  <1>2. CASE UNCHANGED Stream!vars
    <2>1. Connections' /\ Reading'
      BY <1>2 DEF Stream!vars, StreamInv, Connections, Reading
    <2> QED BY <2>1 DEF StreamInv
  <1> QED BY <1>1, <1>2, PublishStream, StatusChangesStream DEF Stream!Next

LEMMA StreamFollows == StreamInv => NothingIsSkipped
  <1> SUFFICES ASSUME StreamInv PROVE NothingIsSkipped
    OBVIOUS
  <1>1. Stream!TypeOK
    BY DEF StreamInv, Connections, Stream!TypeOK
  <1>2. lastId \in Nat /\ pageShown = [i \in 1..lastId |-> i]
    BY DEF StreamInv, Reading
  <1>3. Len(pageShown) = lastId
    BY <1>2
  <1> QED BY <1>1, <1>2, <1>3 DEF NothingIsSkipped, Stream!NoItemSkipped

(* Whatever the capacity, the number of connections, items and cuts: the   *)
(* page has shown the items up to the last, each once and in order; no     *)
(* channel is closed twice, or overfilled (chat.go, server.go:handleEvents,*)
(* ui/app.js).                                                             *)
THEOREM NothingEverSkipped == Stream!Spec => []NothingIsSkipped
  BY StreamFollows, StreamStarts, NextStream, PTL DEF Stream!Spec

-----------------------------------------------------------------------------
(* Uploads. *)

IsSequence(s) == \E S : s \in Seq(S)

UploadRecord(r) ==
    /\ r \in [at : {r.at}, part : {r.part}, attempt : {r.attempt}, file : {r.file}, saved : {r.saved}]
    /\ IsSequence(r.saved)

(* A file that is not whole has the excuse that it is being copied, or that *)
(* its request was refused and it could not be removed.                     *)
Excused(n, d, ups, left) ==
    \/ ups[d[n].owner].at = "copy" /\ ups[d[n].owner].file = n
    \/ ups[d[n].owner].at = "refused" /\ n \in left

(* A file that is being copied is its upload's, and is known not to be      *)
(* whole; those that were saved are.                                        *)
UploadsOwn ==
    /\ DOMAIN upload = Uploads /\ upload = [u \in Uploads |-> upload[u]]
    /\ \A u \in Uploads : UploadRecord(upload[u])
    /\ dir = [n \in DOMAIN dir |-> dir[n]]
    /\ \A n \in DOMAIN dir : dir[n] = [owner |-> dir[n].owner, part |-> dir[n].part, state |-> dir[n].state]
    /\ \A u \in Uploads : upload[u].at = "copy" =>
         /\ upload[u].file \in DOMAIN dir
         /\ dir[upload[u].file] = [owner |-> u, part |-> upload[u].part, state |-> "partial"]
    /\ \A n \in DOMAIN dir : dir[n].state = "partial" => dir[n].owner \in Uploads

UploadInv == UploadsOwn /\ Upload!ReportedIsWhole /\ Upload!NoPartialLeft

LEMMA PartialFacts ==
    ASSUME UploadInv, NEW n \in DOMAIN dir, dir[n].state = "partial"
    PROVE  dir[n].owner \in Uploads /\ Excused(n, dir, upload, orphans)
  BY DEF UploadInv, UploadsOwn, Upload!NoPartialLeft, Excused

LEMMA UploadStarts == Upload!Init => UploadInv
  <1> SUFFICES ASSUME Upload!Init PROVE UploadInv
    OBVIOUS
  <1> DEFINE r == [at |-> "next", part |-> 0, attempt |-> 0, file |-> NoFile, saved |-> << >>]
  <1>1. PICK S : dir = [n \in S |-> Upload!Others]
    BY DEF Upload!Init
  <1>2. upload = [u \in Uploads |-> r]
    BY DEF Upload!Init
  <1>3. UploadRecord(r) /\ r.at = "next" /\ r.saved = << >>
    BY DEF UploadRecord, IsSequence
  <1> HIDE DEF r
  <1>4. \A n \in DOMAIN dir : dir[n] = [owner |-> NoName, part |-> 0, state |-> "whole"]
    BY <1>1 DEF Upload!Others
  <1>5. UploadsOwn
    BY <1>1, <1>2, <1>3, <1>4 DEF UploadsOwn
  <1>6. Upload!ReportedIsWhole
    BY <1>2, <1>3 DEF Upload!ReportedIsWhole
  <1>7. Upload!NoPartialLeft
    BY <1>4 DEF Upload!NoPartialLeft
  <1> QED BY <1>5, <1>6, <1>7 DEF UploadInv

(* A request that is not copying goes on, and nothing is written. *)
LEMMA UploadMoves ==
    ASSUME UploadInv, NEW u \in Uploads, upload[u].at \in {"next", "create"}, UNCHANGED <<dir, orphans>>,
           NEW r, UploadRecord(r), r.at # "copy", r.saved = upload[u].saved,
           upload' = [upload EXCEPT ![u] = r]
    PROVE  UploadInv'
  <1>1. /\ DOMAIN upload' = Uploads /\ upload' = [w \in Uploads |-> upload'[w]]
        /\ upload'[u] = r /\ \A w \in Uploads : w # u => upload'[w] = upload[w]
    BY DEF UploadInv, UploadsOwn
  <1>2. UploadsOwn'
    BY <1>1 DEF UploadInv, UploadsOwn
  <1>3. Upload!ReportedIsWhole'
    <2>1. \A w \in Uploads : upload'[w].saved = upload[w].saved
      BY <1>1
    <2> QED BY <2>1 DEF UploadInv, Upload!ReportedIsWhole
  <1>4. Upload!NoPartialLeft'
    BY <1>1, PartialFacts DEF Excused, Upload!NoPartialLeft
  <1> QED BY <1>2, <1>3, <1>4 DEF UploadInv

(* The records the steps make. *)
NextAsked(r, a) == [r EXCEPT !.part = r.part + 1, !.attempt = 0, !.at = a]

LEMMA NextAskedFacts ==
    ASSUME NEW r, UploadRecord(r), NEW a
    PROVE  /\ UploadRecord(NextAsked(r, a)) /\ NextAsked(r, a).at = a /\ NextAsked(r, a).part = r.part + 1
           /\ NextAsked(r, a).file = r.file /\ NextAsked(r, a).saved = r.saved
  <1> DEFINE d == NextAsked(r, a)
  <1>1. d = [r EXCEPT !.part = r.part + 1, !.attempt = 0, !.at = a]
    BY DEF NextAsked
  <1> HIDE DEF d
  <1>2. d = [at |-> a, part |-> r.part + 1, attempt |-> 0, file |-> r.file, saved |-> r.saved]
    BY <1>1 DEF UploadRecord
  <1>3. UploadRecord(d) /\ d.at = a /\ d.part = r.part + 1 /\ d.file = r.file /\ d.saved = r.saved
    BY <1>2 DEF UploadRecord, IsSequence
  <1> QED BY <1>3 DEF d

StepTo(r, a) == [r EXCEPT !.at = a]

LEMMA StepToFacts ==
    ASSUME NEW r, UploadRecord(r), NEW a
    PROVE  /\ UploadRecord(StepTo(r, a)) /\ StepTo(r, a).at = a /\ StepTo(r, a).part = r.part
           /\ StepTo(r, a).file = r.file /\ StepTo(r, a).saved = r.saved
  <1> DEFINE d == StepTo(r, a)
  <1>1. d = [r EXCEPT !.at = a]
    BY DEF StepTo
  <1> HIDE DEF d
  <1>2. d = [at |-> a, part |-> r.part, attempt |-> r.attempt, file |-> r.file, saved |-> r.saved]
    BY <1>1 DEF UploadRecord
  <1>3. UploadRecord(d) /\ d.at = a /\ d.part = r.part /\ d.file = r.file /\ d.saved = r.saved
    BY <1>2 DEF UploadRecord, IsSequence
  <1> QED BY <1>3 DEF d

TriedAgain(r) == [r EXCEPT !.attempt = r.attempt + 1]

LEMMA TriedAgainFacts ==
    ASSUME NEW r, UploadRecord(r), TRUE
    PROVE  /\ UploadRecord(TriedAgain(r)) /\ TriedAgain(r).at = r.at /\ TriedAgain(r).part = r.part
           /\ TriedAgain(r).file = r.file /\ TriedAgain(r).saved = r.saved
  <1> DEFINE d == TriedAgain(r)
  <1>1. d = [r EXCEPT !.attempt = r.attempt + 1]
    BY DEF TriedAgain
  <1> HIDE DEF d
  <1>2. d = [at |-> r.at, part |-> r.part, attempt |-> r.attempt + 1, file |-> r.file, saved |-> r.saved]
    BY <1>1 DEF UploadRecord
  <1>3. UploadRecord(d) /\ d.at = r.at /\ d.part = r.part /\ d.file = r.file /\ d.saved = r.saved
    BY <1>2 DEF UploadRecord, IsSequence
  <1> QED BY <1>3 DEF d

FileOpened(r, n) == [r EXCEPT !.at = "copy", !.file = n]

LEMMA FileOpenedFacts ==
    ASSUME NEW r, UploadRecord(r), NEW n
    PROVE  /\ UploadRecord(FileOpened(r, n)) /\ FileOpened(r, n).at = "copy" /\ FileOpened(r, n).part = r.part
           /\ FileOpened(r, n).file = n /\ FileOpened(r, n).saved = r.saved
  <1> DEFINE d == FileOpened(r, n)
  <1>1. d = [r EXCEPT !.at = "copy", !.file = n]
    BY DEF FileOpened
  <1> HIDE DEF d
  <1>2. d = [at |-> "copy", part |-> r.part, attempt |-> r.attempt, file |-> n, saved |-> r.saved]
    BY <1>1 DEF UploadRecord
  <1>3. UploadRecord(d) /\ d.at = "copy" /\ d.part = r.part /\ d.file = n /\ d.saved = r.saved
    BY <1>2 DEF UploadRecord, IsSequence
  <1> QED BY <1>3 DEF d

FileDropped(r, f) == [r EXCEPT !.at = "refused", !.file = f]

LEMMA FileDroppedFacts ==
    ASSUME NEW r, UploadRecord(r), NEW f
    PROVE  /\ UploadRecord(FileDropped(r, f)) /\ FileDropped(r, f).at = "refused" /\ FileDropped(r, f).part = r.part
           /\ FileDropped(r, f).file = f /\ FileDropped(r, f).saved = r.saved
  <1> DEFINE d == FileDropped(r, f)
  <1>1. d = [r EXCEPT !.at = "refused", !.file = f]
    BY DEF FileDropped
  <1> HIDE DEF d
  <1>2. d = [at |-> "refused", part |-> r.part, attempt |-> r.attempt, file |-> f, saved |-> r.saved]
    BY <1>1 DEF UploadRecord
  <1>3. UploadRecord(d) /\ d.at = "refused" /\ d.part = r.part /\ d.file = f /\ d.saved = r.saved
    BY <1>2 DEF UploadRecord, IsSequence
  <1> QED BY <1>3 DEF d

FileStored(r, f, e) == [r EXCEPT !.at = "next", !.file = f, !.saved = Append(r.saved, e)]

LEMMA FileStoredFacts ==
    ASSUME NEW r, UploadRecord(r), NEW f, NEW e
    PROVE  /\ UploadRecord(FileStored(r, f, e)) /\ FileStored(r, f, e).at = "next" /\ FileStored(r, f, e).part = r.part
           /\ FileStored(r, f, e).file = f /\ FileStored(r, f, e).saved = Append(r.saved, e)
  <1> DEFINE d == FileStored(r, f, e)
  <1>1. d = [r EXCEPT !.at = "next", !.file = f, !.saved = Append(r.saved, e)]
    BY DEF FileStored
  <1> HIDE DEF d
  <1>2. d = [at |-> "next", part |-> r.part, attempt |-> r.attempt, file |-> f, saved |-> Append(r.saved, e)]
    BY <1>1 DEF UploadRecord
  <1>3. UploadRecord(d) /\ d.at = "next" /\ d.part = r.part /\ d.file = f /\ d.saved = Append(r.saved, e)
    <2>1. PICK S : r.saved \in Seq(S)
      BY DEF UploadRecord, IsSequence
    <2>2. Append(r.saved, e) \in Seq(S \cup {e})
      BY <2>1
    <2> QED BY <1>2, <2>2 DEF UploadRecord, IsSequence
  <1> QED BY <1>3 DEF d


LEMMA NextPartUploads ==
    ASSUME UploadInv, NEW u \in Uploads, Upload!NextPart(u)
    PROVE  UploadInv'
  <1> DEFINE r == upload[u]
             a == IF Parts[u][r.part + 1] = NoName THEN "next" ELSE "create"
  <1>1. UploadRecord(r) /\ r.at = "next" /\ UNCHANGED <<dir, orphans>>
    BY DEF UploadInv, UploadsOwn, Upload!NextPart
  <1>2. \/ upload' = [upload EXCEPT ![u] = NextAsked(r, a)]
        \/ upload' = [upload EXCEPT ![u] = StepTo(r, "answered")]
        \/ upload' = [upload EXCEPT ![u] = StepTo(r, "refused")]
    BY DEF Upload!NextPart, NextAsked, StepTo
  <1>3. a # "copy"
    OBVIOUS
  <1> HIDE DEF r, a
  <1>4. ASSUME NEW d, UploadRecord(d), d.at # "copy", d.saved = r.saved, upload' = [upload EXCEPT ![u] = d]
        PROVE  UploadInv'
    BY <1>1, <1>4, UploadMoves DEF r
  <1>5. CASE upload' = [upload EXCEPT ![u] = NextAsked(r, a)]
    BY <1>1, <1>3, <1>4, <1>5, NextAskedFacts
  <1>6. CASE upload' = [upload EXCEPT ![u] = StepTo(r, "answered")]
    <2>1. UploadRecord(StepTo(r, "answered")) /\ StepTo(r, "answered").at # "copy"
          /\ StepTo(r, "answered").saved = r.saved
      BY <1>1, StepToFacts
    <2> QED BY <1>4, <1>6, <2>1
  <1>7. CASE upload' = [upload EXCEPT ![u] = StepTo(r, "refused")]
    <2>1. UploadRecord(StepTo(r, "refused")) /\ StepTo(r, "refused").at # "copy"
          /\ StepTo(r, "refused").saved = r.saved
      BY <1>1, StepToFacts
    <2> QED BY <1>4, <1>7, <2>1
  <1> QED BY <1>2, <1>5, <1>6, <1>7

LEMMA CreateFailsUploads ==
    ASSUME UploadInv, NEW u \in Uploads, Upload!CreateFails(u)
    PROVE  UploadInv'
  <1> DEFINE r == upload[u]
  <1>1. UploadRecord(r) /\ r.at = "create" /\ UNCHANGED <<dir, orphans>>
        /\ upload' = [upload EXCEPT ![u] = StepTo(r, "refused")]
    BY DEF UploadInv, UploadsOwn, Upload!CreateFails, StepTo
  <1> HIDE DEF r
  <1>2. UploadRecord(StepTo(r, "refused")) /\ StepTo(r, "refused").at # "copy"
        /\ StepTo(r, "refused").saved = r.saved
    BY <1>1, StepToFacts
  <1> QED BY <1>1, <1>2, UploadMoves DEF r

(* createUnique opens a file that nobody has (server.go:createUnique).     *)
LEMMA TryNameUploads ==
    ASSUME UploadInv, NEW u \in Uploads, Upload!TryName(u)
    PROVE  UploadInv'
  <1> DEFINE r == upload[u]
             n == Upload!Tried(u)
             e == [owner |-> u, part |-> r.part, state |-> "partial"]
  <1>1. UploadRecord(r) /\ r.at = "create"
    BY DEF UploadInv, UploadsOwn, Upload!TryName
  <1>2. CASE n \in DOMAIN dir
    <2>1. upload' = [upload EXCEPT ![u] = TriedAgain(r)] /\ UNCHANGED <<dir, orphans>>
      BY <1>2 DEF Upload!TryName, Upload!Taken, TriedAgain
    <2> HIDE DEF r
    <2>2. UploadRecord(TriedAgain(r)) /\ TriedAgain(r).at # "copy" /\ TriedAgain(r).saved = r.saved
      BY <1>1, TriedAgainFacts
    <2> QED BY <1>1, <2>1, <2>2, UploadMoves DEF r
  <1>3. CASE n \notin DOMAIN dir
    <2>1. /\ upload' = [upload EXCEPT ![u] = FileOpened(r, n)]
          /\ dir' = [m \in DOMAIN dir \cup {n} |-> IF m = n THEN e ELSE dir[m]]
          /\ UNCHANGED orphans
      BY <1>3 DEF Upload!TryName, Upload!Taken, FileOpened, Upload!With
    <2> HIDE DEF n
    <2>2. /\ DOMAIN dir' = DOMAIN dir \cup {n} /\ dir'[n] = e /\ \A m \in DOMAIN dir : dir'[m] = dir[m]
          /\ dir' = [m \in DOMAIN dir' |-> dir'[m]]
          /\ \A m \in DOMAIN dir' : dir'[m] = [owner |-> dir'[m].owner, part |-> dir'[m].part,
                                               state |-> dir'[m].state]
      <3>1. /\ DOMAIN dir' = DOMAIN dir \cup {n} /\ dir'[n] = e /\ \A m \in DOMAIN dir : dir'[m] = dir[m]
            /\ dir' = [m \in DOMAIN dir' |-> dir'[m]]
        BY <1>3, <2>1
      <3>2. e = [owner |-> e.owner, part |-> e.part, state |-> e.state]
        OBVIOUS
      <3> HIDE DEF e
      <3> QED BY <3>1, <3>2 DEF UploadInv, UploadsOwn
    <2>3. UploadRecord(FileOpened(r, n)) /\ FileOpened(r, n).at = "copy" /\ FileOpened(r, n).file = n
          /\ FileOpened(r, n).part = r.part /\ FileOpened(r, n).saved = r.saved
      <3> HIDE DEF r
      <3> QED BY <1>1, FileOpenedFacts
    <2>4. /\ DOMAIN upload' = Uploads /\ upload' = [w \in Uploads |-> upload'[w]]
          /\ upload'[u] = FileOpened(r, n) /\ \A w \in Uploads : w # u => upload'[w] = upload[w]
      BY <2>1 DEF UploadInv, UploadsOwn
    <2>5. UploadsOwn'
      <3>1. ASSUME NEW w \in Uploads, upload'[w].at = "copy"
            PROVE  /\ upload'[w].file \in DOMAIN dir'
                   /\ dir'[upload'[w].file] = [owner |-> w, part |-> upload'[w].part, state |-> "partial"]
        <4>1. CASE w = u
          BY <2>2, <2>3, <2>4, <4>1
        <4>2. CASE w # u
          BY <2>2, <2>4, <3>1, <4>2 DEF UploadInv, UploadsOwn
        <4> QED BY <4>1, <4>2
      <3>2. \A w \in Uploads : UploadRecord(upload'[w])
        BY <2>3, <2>4 DEF UploadInv, UploadsOwn
      <3>3. \A m \in DOMAIN dir' : dir'[m].state = "partial" => dir'[m].owner \in Uploads
        BY <2>2 DEF UploadInv, UploadsOwn
      <3> QED BY <2>2, <2>4, <3>1, <3>2, <3>3 DEF UploadsOwn
    <2>6. Upload!ReportedIsWhole'
      <3>1. \A w \in Uploads : upload'[w].saved = upload[w].saved
        BY <2>3, <2>4
      <3> QED BY <2>2, <3>1 DEF UploadInv, Upload!ReportedIsWhole
    <2>7. Upload!NoPartialLeft'
      <3> SUFFICES ASSUME NEW m \in DOMAIN dir', dir'[m].state = "partial"
                   PROVE  Excused(m, dir', upload', orphans')
        BY DEF Upload!NoPartialLeft, Excused
      <3>1. CASE m = n
        BY <2>2, <2>3, <2>4, <3>1 DEF Excused
      <3>2. CASE m # n
        <4>1. m \in DOMAIN dir /\ dir[m].state = "partial" /\ dir'[m] = dir[m]
          BY <2>2, <3>2
        <4>2. dir[m].owner \in Uploads /\ Excused(m, dir, upload, orphans)
          BY <4>1, PartialFacts
        <4> QED BY <1>1, <2>1, <2>4, <4>1, <4>2 DEF Excused
      <3> QED BY <3>1, <3>2
    <2> QED BY <2>5, <2>6, <2>7 DEF UploadInv
  <1> QED BY <1>2, <1>3

(* While u copies, its file is nobody else's: no one reports it, and no    *)
(* other request copies to it.                                             *)
LEMMA CopyIsAlone ==
    ASSUME UploadInv, NEW u \in Uploads, upload[u].at = "copy"
    PROVE  /\ upload[u].file \in DOMAIN dir /\ dir[upload[u].file].state = "partial"
           /\ dir[upload[u].file].owner = u /\ dir[upload[u].file].part = upload[u].part
           /\ \A w \in Uploads : \A i \in DOMAIN upload[w].saved : upload[w].saved[i].name # upload[u].file
           /\ \A w \in Uploads : w # u /\ upload[w].at = "copy" => upload[w].file # upload[u].file
  <1>1. /\ upload[u].file \in DOMAIN dir
        /\ dir[upload[u].file] = [owner |-> u, part |-> upload[u].part, state |-> "partial"]
    BY DEF UploadInv, UploadsOwn
  <1>2. ASSUME NEW w \in Uploads, NEW i \in DOMAIN upload[w].saved
        PROVE  upload[w].saved[i].name # upload[u].file
    <2> DEFINE n == upload[w].saved[i].name
               p == upload[w].saved[i].part
    <2>0. dir[n] = [owner |-> w, part |-> p, state |-> "whole"]
      BY DEF UploadInv, Upload!ReportedIsWhole
    <2> HIDE DEF n, p
    <2>1. dir[n].state = "whole"
      BY <2>0
    <2> QED BY <1>1, <2>1 DEF n
  <1>3. ASSUME NEW w \in Uploads, w # u, upload[w].at = "copy"
        PROVE  upload[w].file # upload[u].file
    <2> DEFINE n == upload[w].file
               p == upload[w].part
    <2>0. dir[n] = [owner |-> w, part |-> p, state |-> "partial"]
      BY <1>3 DEF UploadInv, UploadsOwn
    <2> HIDE DEF n, p
    <2>1. dir[n].owner = w
      BY <2>0
    <2> QED BY <1>1, <1>3, <2>1 DEF n
  <1> QED BY <1>1, <1>2, <1>3

LEMMA CopyUploads ==
    ASSUME UploadInv, NEW u \in Uploads, Upload!Copy(u)
    PROVE  UploadInv'
  <1> DEFINE r == upload[u]
             f == r.file
             e == [name |-> f, part |-> r.part]
             new == FileStored(r, NoFile, e)
  <1>1. /\ UploadRecord(r) /\ r.at = "copy" /\ upload' = [upload EXCEPT ![u] = new]
        /\ dir' = [dir EXCEPT ![f].state = "whole"] /\ UNCHANGED orphans
    BY DEF UploadInv, UploadsOwn, Upload!Copy, FileStored
  <1>2. /\ f \in DOMAIN dir /\ dir[f].state = "partial" /\ dir[f].owner = u /\ dir[f].part = r.part
        /\ \A w \in Uploads : \A i \in DOMAIN upload[w].saved : upload[w].saved[i].name # f
        /\ \A w \in Uploads : w # u /\ upload[w].at = "copy" => upload[w].file # f
    BY <1>1, CopyIsAlone
  <1>3. /\ UploadRecord(new) /\ new.at = "next" /\ new.saved = Append(r.saved, e)
    <2> HIDE DEF r, e
    <2> QED BY <1>1, FileStoredFacts
  <1> HIDE DEF new
  <1>4. /\ DOMAIN upload' = Uploads /\ upload' = [w \in Uploads |-> upload'[w]]
        /\ upload'[u] = new /\ \A w \in Uploads : w # u => upload'[w] = upload[w]
    BY <1>1 DEF UploadInv, UploadsOwn
  <1>5. /\ DOMAIN dir' = DOMAIN dir /\ dir' = [m \in DOMAIN dir' |-> dir'[m]]
        /\ \A m \in DOMAIN dir : m # f => dir'[m] = dir[m]
        /\ dir'[f] = [owner |-> u, part |-> r.part, state |-> "whole"]
    <2>1. dir[f] = [owner |-> u, part |-> r.part, state |-> "partial"]
      BY <1>1 DEF UploadInv, UploadsOwn
    <2>2. dir' = [dir EXCEPT ![f] = [dir[f] EXCEPT !.state = "whole"]]
      BY <1>1
    <2>3. [dir[f] EXCEPT !.state = "whole"] = [owner |-> u, part |-> r.part, state |-> "whole"]
      BY <2>1
    <2> HIDE DEF f, r
    <2> QED BY <1>2, <2>2, <2>3 DEF UploadInv, UploadsOwn
  <1>6. UploadsOwn'
    <2>1. \A m \in DOMAIN dir' : dir'[m] = [owner |-> dir'[m].owner, part |-> dir'[m].part, state |-> dir'[m].state]
      <3>1. ASSUME NEW m \in DOMAIN dir'
            PROVE  dir'[m] = [owner |-> dir'[m].owner, part |-> dir'[m].part, state |-> dir'[m].state]
        <4>1. CASE m = f
          BY <1>5, <4>1
        <4>2. CASE m # f
          BY <1>5, <4>2 DEF UploadInv, UploadsOwn
        <4> QED BY <4>1, <4>2
      <3> QED BY <3>1
    <2>2. ASSUME NEW w \in Uploads, upload'[w].at = "copy"
          PROVE  /\ upload'[w].file \in DOMAIN dir'
                 /\ dir'[upload'[w].file] = [owner |-> w, part |-> upload'[w].part, state |-> "partial"]
      <3>1. w # u /\ upload'[w] = upload[w]
        BY <1>3, <1>4, <2>2
      <3> QED BY <1>2, <1>5, <2>2, <3>1 DEF UploadInv, UploadsOwn
    <2>3. \A w \in Uploads : UploadRecord(upload'[w])
      BY <1>3, <1>4 DEF UploadInv, UploadsOwn
    <2>4. \A m \in DOMAIN dir' : dir'[m].state = "partial" => dir'[m].owner \in Uploads
      BY <1>5 DEF UploadInv, UploadsOwn
    <2> QED BY <1>4, <1>5, <2>1, <2>2, <2>3, <2>4 DEF UploadsOwn
  <1>7. Upload!ReportedIsWhole'
    <2> SUFFICES ASSUME NEW w \in Uploads, NEW i \in DOMAIN upload'[w].saved
                 PROVE  /\ upload'[w].saved[i].name \in DOMAIN dir'
                        /\ dir'[upload'[w].saved[i].name]
                             = [owner |-> w, part |-> upload'[w].saved[i].part, state |-> "whole"]
      BY DEF Upload!ReportedIsWhole
    <2>1. ASSUME i \in DOMAIN upload[w].saved, upload'[w].saved[i] = upload[w].saved[i]
          PROVE  /\ upload'[w].saved[i].name \in DOMAIN dir'
                 /\ dir'[upload'[w].saved[i].name]
                      = [owner |-> w, part |-> upload'[w].saved[i].part, state |-> "whole"]
      BY <1>2, <1>5, <2>1 DEF UploadInv, Upload!ReportedIsWhole
    <2>2. CASE w # u
      BY <1>4, <2>1, <2>2
    <2>3. CASE w = u
      <3>1. PICK S : r.saved \in Seq(S)
        BY <1>1 DEF UploadRecord, IsSequence
      <3>2. /\ DOMAIN r.saved = 1..Len(r.saved) /\ Len(r.saved) \in Nat
            /\ DOMAIN new.saved = 1..(Len(r.saved) + 1)
            /\ \A j \in 1..Len(r.saved) : new.saved[j] = r.saved[j]
            /\ new.saved[Len(r.saved) + 1] = e
        BY <1>3, <3>1
      <3>3. CASE i \in DOMAIN r.saved
        BY <1>4, <2>1, <2>3, <3>2, <3>3
      <3>4. CASE i = Len(r.saved) + 1
        BY <1>2, <1>4, <1>5, <2>3, <3>2, <3>4
      <3> QED BY <1>4, <2>3, <3>2, <3>3, <3>4
    <2> QED BY <2>2, <2>3
  <1>8. Upload!NoPartialLeft'
    <2> SUFFICES ASSUME NEW m \in DOMAIN dir', dir'[m].state = "partial"
                 PROVE  Excused(m, dir', upload', orphans')
      BY DEF Upload!NoPartialLeft, Excused
    <2>1. m # f /\ m \in DOMAIN dir /\ dir[m].state = "partial" /\ dir'[m] = dir[m]
      BY <1>5
    <2>2. dir[m].owner \in Uploads /\ Excused(m, dir, upload, orphans)
      BY <2>1, PartialFacts
    <2> QED BY <1>1, <1>4, <2>1, <2>2 DEF Excused
  <1> QED BY <1>6, <1>7, <1>8 DEF UploadInv

(* Requests end, and what they were copying stays behind. *)
LEMMA DroppedUploads ==
    ASSUME UploadInv, UNCHANGED dir, orphans \subseteq orphans',
           upload' = [w \in Uploads |-> upload'[w]],
           \A w \in Uploads :
             \/ upload'[w] = upload[w]
             \/ /\ upload'[w] = FileDropped(upload[w], NoFile)
                /\ upload[w].at = "copy" => upload[w].file \in orphans'
    PROVE  UploadInv'
  <1>1. ASSUME NEW w \in Uploads
        PROVE  /\ UploadRecord(upload'[w]) /\ upload'[w].saved = upload[w].saved
               /\ \/ upload'[w] = upload[w]
                  \/ /\ upload'[w].at = "refused"
                     /\ upload[w].at = "copy" => upload[w].file \in orphans'
    <2>1. UploadRecord(upload[w])
      BY DEF UploadInv, UploadsOwn
    <2> QED BY <2>1, FileDroppedFacts
  <1>2. DOMAIN upload' = Uploads
    OBVIOUS
  <1>3. UploadsOwn'
    BY <1>1, <1>2 DEF UploadInv, UploadsOwn
  <1>4. Upload!ReportedIsWhole'
    BY <1>1 DEF UploadInv, Upload!ReportedIsWhole
  <1>5. Upload!NoPartialLeft'
    <2> SUFFICES ASSUME NEW m \in DOMAIN dir, dir[m].state = "partial"
                 PROVE  Excused(m, dir, upload', orphans')
      BY DEF Upload!NoPartialLeft, Excused
    <2>1. dir[m].owner \in Uploads /\ Excused(m, dir, upload, orphans)
      BY PartialFacts
    <2> QED BY <1>1, <2>1 DEF Excused
  <1> QED BY <1>3, <1>4, <1>5 DEF UploadInv

LEMMA CrashUploads ==
    ASSUME UploadInv, Upload!Crash
    PROVE  UploadInv'
  <1>1. /\ UNCHANGED dir /\ upload' = [w \in Uploads |-> upload'[w]]
        /\ orphans' = orphans \cup {upload[u].file : u \in {u \in Uploads : upload[u].at = "copy"}}
        /\ \A w \in Uploads : upload'[w] \in {upload[w], FileDropped(upload[w], NoFile)}
    BY DEF Upload!Crash, FileDropped
  <1> QED BY <1>1, DroppedUploads

(* The file of a failed copy is removed, or stays behind. *)
LEMMA CopyFailsUploads ==
    ASSUME UploadInv, NEW u \in Uploads, Upload!CopyFails(u)
    PROVE  UploadInv'
  <1> DEFINE r == upload[u]
             f == r.file
             new == FileDropped(r, NoFile)
  <1>0. /\ UploadRecord(r) /\ r.at = "copy" /\ upload' = [upload EXCEPT ![u] = new]
        /\ \/ dir' = [m \in DOMAIN dir \ {f} |-> dir[m]] /\ UNCHANGED orphans
           \/ UNCHANGED dir /\ orphans' = orphans \cup {f}
    BY DEF UploadInv, UploadsOwn, Upload!CopyFails, FileDropped, Upload!Removed, Upload!Without
  <1>s. CASE UNCHANGED dir /\ orphans' = orphans \cup {f}
    <2>1. /\ upload' = [w \in Uploads |-> upload'[w]] /\ upload'[u] = FileDropped(upload[u], NoFile)
          /\ \A w \in Uploads : w # u => upload'[w] = upload[w]
      BY <1>0 DEF UploadInv, UploadsOwn
    <2> QED BY <1>s, <2>1, DroppedUploads
  <1> SUFFICES ASSUME dir' = [m \in DOMAIN dir \ {f} |-> dir[m]], UNCHANGED orphans
               PROVE  UploadInv'
    BY <1>0, <1>s
  <1>1. UploadRecord(r) /\ r.at = "copy" /\ upload' = [upload EXCEPT ![u] = new]
    BY <1>0
  <1>2. /\ f \in DOMAIN dir
        /\ \A w \in Uploads : \A i \in DOMAIN upload[w].saved : upload[w].saved[i].name # f
        /\ \A w \in Uploads : w # u /\ upload[w].at = "copy" => upload[w].file # f
    BY <1>1, CopyIsAlone
  <1>3. /\ UploadRecord(new) /\ new.at = "refused" /\ new.saved = r.saved
    <2> HIDE DEF r
    <2> QED BY <1>1, FileDroppedFacts
  <1> HIDE DEF new
  <1>4. /\ DOMAIN upload' = Uploads /\ upload' = [w \in Uploads |-> upload'[w]]
        /\ upload'[u] = new /\ \A w \in Uploads : w # u => upload'[w] = upload[w]
    BY <1>1 DEF UploadInv, UploadsOwn
  <1> HIDE DEF f
  <1>5. /\ DOMAIN dir' = DOMAIN dir \ {f} /\ dir' = [m \in DOMAIN dir' |-> dir'[m]]
        /\ \A m \in DOMAIN dir' : dir'[m] = dir[m]
    OBVIOUS
  <1>6. UploadsOwn'
    <2>1. ASSUME NEW w \in Uploads, upload'[w].at = "copy"
          PROVE  /\ upload'[w].file \in DOMAIN dir'
                 /\ dir'[upload'[w].file] = [owner |-> w, part |-> upload'[w].part, state |-> "partial"]
      <3>1. w # u /\ upload'[w] = upload[w]
        BY <1>3, <1>4, <2>1
      <3> QED BY <1>2, <1>5, <2>1, <3>1 DEF UploadInv, UploadsOwn
    <2>2. \A w \in Uploads : UploadRecord(upload'[w])
      BY <1>3, <1>4 DEF UploadInv, UploadsOwn
    <2>3. \A m \in DOMAIN dir' : dir'[m] = [owner |-> dir'[m].owner, part |-> dir'[m].part, state |-> dir'[m].state]
      BY <1>5 DEF UploadInv, UploadsOwn
    <2>4. \A m \in DOMAIN dir' : dir'[m].state = "partial" => dir'[m].owner \in Uploads
      BY <1>5 DEF UploadInv, UploadsOwn
    <2> QED BY <1>4, <1>5, <2>1, <2>2, <2>3, <2>4 DEF UploadsOwn
  <1>7. Upload!ReportedIsWhole'
    <2>1. \A w \in Uploads : upload'[w].saved = upload[w].saved
      BY <1>3, <1>4
    <2> QED BY <1>2, <1>5, <2>1 DEF UploadInv, Upload!ReportedIsWhole
  <1>8. Upload!NoPartialLeft'
    <2> SUFFICES ASSUME NEW m \in DOMAIN dir', dir'[m].state = "partial"
                 PROVE  Excused(m, dir', upload', orphans')
      BY DEF Upload!NoPartialLeft, Excused
    <2>1. m # f /\ m \in DOMAIN dir /\ dir[m].state = "partial" /\ dir'[m] = dir[m]
      BY <1>5
    <2>2. dir[m].owner \in Uploads /\ Excused(m, dir, upload, orphans)
      BY <2>1, PartialFacts
    <2> QED BY <1>1, <1>4, <2>1, <2>2 DEF Excused, f
  <1> QED BY <1>6, <1>7, <1>8 DEF UploadInv

LEMMA NextUploads == UploadInv /\ [Upload!Next]_(Upload!vars) => UploadInv'
  <1> SUFFICES ASSUME UploadInv, [Upload!Next]_(Upload!vars) PROVE UploadInv'
    OBVIOUS
  <1>1. CASE UNCHANGED Upload!vars
    <2>1. UploadsOwn' /\ Upload!ReportedIsWhole' /\ Upload!NoPartialLeft'
      BY <1>1 DEF Upload!vars, UploadInv, UploadsOwn, Upload!ReportedIsWhole, Upload!NoPartialLeft
    <2> QED BY <2>1 DEF UploadInv
  <1> QED BY <1>1, NextPartUploads, TryNameUploads, CreateFailsUploads, CopyUploads, CopyFailsUploads,
             CrashUploads DEF Upload!Next

-----------------------------------------------------------------------------
(* The list of sessions. *)

ThreadRecord(r) ==
    r \in [op : {"create", "touch", "delete"}, id : {r.id},
           at : {"file", "list", "touch", "entry", "remove"}, errors : {r.errors}]

(* The sessions there is something about: an id that is being created is    *)
(* not among them.                                                          *)
Seen == DOMAIN sessions \cup DOMAIN saved \cup removed \cup deleted \cup unsaved \cup created

(* What a request of the list knows about its session: of the ids that were *)
(* taken, those that are seen, listed and saved, those with a file, those   *)
(* that were removed, and those no list was saved without.                  *)
Serving(r, taken, seen, listed, stored, kept, gone, not) ==
    /\ ThreadRecord(r) /\ r.id \in taken
    /\ r.op = "create" => r.id \notin seen /\ (r.at = "list" => r.id \in kept)
    /\ r.op = "delete" /\ r.at = "remove" =>
         r.id \in gone /\ r.id \notin listed /\ (r.id \in stored => r.id \in not)

ServingAll ==
    \A t \in Servers : thread[t] # idle =>
        Serving(thread[t], ids, Seen, DOMAIN sessions, DOMAIN saved, files, removed, unsaved)

Served ==
    /\ DOMAIN thread = Servers /\ ServingAll
    /\ \A t, w \in Servers : t # w /\ thread[t] # idle /\ thread[w] # idle /\ thread[t].op = "create"
                             => thread[w].id # thread[t].id
    /\ ~tableUp => \A t \in Servers : thread[t] = idle

Listing ==
    /\ Seen \subseteq ids
    /\ Table!ListedHasFile
    /\ created \ removed \subseteq DOMAIN sessions \cap DOMAIN saved
    /\ Table!DeletedIsGone

TableInv == Served /\ Listing

LEMMA TableStarts == Table!Init => TableInv
  <1> SUFFICES ASSUME Table!Init PROVE TableInv
    OBVIOUS
  <1>1. DOMAIN sessions = {} /\ DOMAIN saved = {}
    BY DEF Table!Init
  <1>2. Served
    BY DEF Table!Init, Served, ServingAll
  <1>3. Listing
    BY <1>1 DEF Table!Init, Listing, Seen, Table!ListedHasFile, Table!DeletedIsGone
  <1> QED BY <1>2, <1>3 DEF TableInv

(* A request that is being served, at a step of an operation. *)
LEMMA AtFacts ==
    ASSUME TableInv, NEW t \in Servers, NEW op, NEW where, Table!At(t, op, where)
    PROVE  /\ tableUp /\ thread[t] # idle /\ thread[t].op = op /\ thread[t].at = where
           /\ Serving(thread[t], ids, Seen, DOMAIN sessions, DOMAIN saved, files, removed, unsaved)
  BY DEF Table!At, TableInv, Served, ServingAll

(* The request t has changed, to r, and for the others nothing they rely   *)
(* on has.                                                                 *)
Takes(t, r) ==
    /\ thread' = [thread EXCEPT ![t] = r] /\ tableUp /\ tableUp'
    /\ r = idle \/ Serving(r, ids', Seen', DOMAIN sessions', DOMAIN saved', files', removed', unsaved')
    /\ r = idle \/ (thread[t] # idle /\ r.id = thread[t].id /\ r.op = thread[t].op)
         \/ \A w \in Servers : w # t /\ thread[w] # idle =>
              /\ r.op = "create" => thread[w].id # r.id
              /\ thread[w].op = "create" => thread[w].id # r.id

OthersGoOn(t) ==
    /\ ids \subseteq ids' /\ removed \subseteq removed'
    /\ \A w \in Servers : w # t /\ thread[w] # idle =>
              /\ thread[w].op = "create" => thread[w].id \notin Seen'
              /\ thread[w].op = "create" /\ thread[w].id \in files => thread[w].id \in files'
    /\ \A x \in removed : x \notin DOMAIN sessions =>
         /\ x \notin DOMAIN sessions'
         /\ (x \in DOMAIN saved => x \in unsaved) => (x \in DOMAIN saved' => x \in unsaved')

LEMMA ServesOn ==
    ASSUME TableInv, NEW t \in Servers, NEW r, Takes(t, r), OthersGoOn(t)
    PROVE  Served'
  <1>1. /\ DOMAIN thread' = Servers /\ thread'[t] = r
        /\ \A w \in Servers : w # t => thread'[w] = thread[w]
    BY DEF TableInv, Served, Takes
  <1>2. ASSUME NEW w \in Servers, w # t, thread[w] # idle
        PROVE  Serving(thread[w], ids', Seen', DOMAIN sessions', DOMAIN saved', files', removed', unsaved')
    <2>1. Serving(thread[w], ids, Seen, DOMAIN sessions, DOMAIN saved, files, removed, unsaved)
      BY <1>2 DEF TableInv, Served, ServingAll
    <2> QED BY <1>2, <2>1 DEF Serving, OthersGoOn
  <1>3. ServingAll'
    BY <1>1, <1>2 DEF ServingAll, Takes
  <1>4. ASSUME NEW v \in Servers, NEW w \in Servers, v # w, thread'[v] # idle, thread'[w] # idle,
               thread'[v].op = "create"
        PROVE  thread'[w].id # thread'[v].id
    <2>1. CASE v # t /\ w # t
      BY <1>1, <1>4, <2>1 DEF TableInv, Served
    <2>2. CASE v = t
      BY <1>1, <1>4, <2>2 DEF TableInv, Served, Takes
    <2>3. CASE w = t
      BY <1>1, <1>4, <2>3 DEF TableInv, Served, Takes
    <2> QED BY <2>1, <2>2, <2>3
  <1> QED BY <1>1, <1>3, <1>4 DEF Served, Takes

LEMMA BeginServed ==
    ASSUME TableInv, NEW t \in Servers, NEW op \in {"touch", "delete"}, NEW id \in DOMAIN sessions,
           NEW where \in {"touch", "entry"}, Table!Begin(t, op, id, where),
           UNCHANGED <<sessions, saved, files, tableUp, ids, created, deleted, removed, unsaved>>
    PROVE  TableInv'
  <1> DEFINE r == [op |-> op, id |-> id, at |-> where, errors |-> {}]
  <1>1. /\ tableUp /\ thread' = [thread EXCEPT ![t] = r] /\ id \in ids /\ id \in Seen
    BY DEF Table!Begin, TableInv, Listing, Seen
  <1>2. ThreadRecord(r) /\ r.op # "create" /\ r.at # "remove" /\ r.id = id
    BY <1>1 DEF ThreadRecord
  <1> HIDE DEF r
  <1>3. Seen' = Seen
    BY DEF Seen
  <1>4. Serving(r, ids', Seen', DOMAIN sessions', DOMAIN saved', files', removed', unsaved')
    BY <1>1, <1>2 DEF Serving
  <1>5. ASSUME NEW w \in Servers, thread[w] # idle, thread[w].op = "create"
        PROVE  thread[w].id # id /\ thread[w].id \notin Seen'
    BY <1>1, <1>3, <1>5 DEF TableInv, Served, ServingAll, Serving
  <1>6. Takes(t, r) /\ OthersGoOn(t)
    BY <1>1, <1>2, <1>4, <1>5 DEF Takes, OthersGoOn
  <1>s. Served'
    BY <1>6, ServesOn
  <1>7. Listing'
    BY <1>3 DEF TableInv, Listing, Table!ListedHasFile, Table!DeletedIsGone
  <1> QED BY <1>s, <1>7 DEF TableInv

LEMMA BeginCreateTable ==
    ASSUME TableInv, NEW t \in Servers, Table!BeginCreate(t)
    PROVE  TableInv'
  <1>1. PICK id \in IDs \ ids : Table!Begin(t, "create", id, "file") /\ ids' = ids \cup {id}
    BY DEF Table!BeginCreate
  <1> DEFINE r == [op |-> "create", id |-> id, at |-> "file", errors |-> {}]
  <1>2. /\ tableUp /\ thread' = [thread EXCEPT ![t] = r] /\ id \notin ids
        /\ UNCHANGED <<sessions, saved, files, tableUp, created, deleted, removed, unsaved>>
    BY <1>1 DEF Table!Begin, Table!BeginCreate
  <1>3. ThreadRecord(r) /\ r.op = "create" /\ r.at = "file" /\ r.id = id
    BY DEF ThreadRecord
  <1> HIDE DEF r
  <1>4. Seen' = Seen /\ id \notin Seen
    BY <1>2 DEF Seen, TableInv, Listing
  <1>5. Serving(r, ids', Seen', DOMAIN sessions', DOMAIN saved', files', removed', unsaved')
    BY <1>1, <1>3, <1>4 DEF Serving
  <1>6. ASSUME NEW w \in Servers, thread[w] # idle
        PROVE  thread[w].id # id /\ (thread[w].op = "create" => thread[w].id \notin Seen')
    BY <1>2, <1>4, <1>6 DEF TableInv, Served, ServingAll, Serving
  <1>7. Takes(t, r) /\ OthersGoOn(t)
    BY <1>1, <1>2, <1>3, <1>5, <1>6 DEF Takes, OthersGoOn
  <1>s. Served'
    BY <1>7, ServesOn
  <1>8. Listing'
    BY <1>1, <1>2, <1>4 DEF TableInv, Listing, Table!ListedHasFile, Table!DeletedIsGone
  <1> QED BY <1>s, <1>8 DEF TableInv

(* A request goes to another step. *)
GoesTo(r, where, errors) == [r EXCEPT !.at = where, !.errors = errors]

LEMMA GoesToFacts ==
    ASSUME NEW r, ThreadRecord(r), NEW where \in {"list", "remove"}, NEW errors
    PROVE  /\ ThreadRecord(GoesTo(r, where, errors)) /\ GoesTo(r, where, errors).op = r.op
           /\ GoesTo(r, where, errors).id = r.id /\ GoesTo(r, where, errors).at = where
           /\ GoesTo(r, where, errors).errors = errors
  <1> DEFINE d == GoesTo(r, where, errors)
  <1>1. d = [r EXCEPT !.at = where, !.errors = errors]
    BY DEF GoesTo
  <1> HIDE DEF d
  <1>2. d = [op |-> r.op, id |-> r.id, at |-> where, errors |-> errors]
    BY <1>1 DEF ThreadRecord
  <1>3. ThreadRecord(d) /\ d.op = r.op /\ d.id = r.id /\ d.at = where /\ d.errors = errors
    BY <1>2 DEF ThreadRecord
  <1> QED BY <1>3 DEF d
LEMMA GotoIs ==
    ASSUME TableInv, NEW t \in Servers, NEW where, NEW errors, thread[t] # idle, Table!Goto(t, where, errors)
    PROVE  thread' = [thread EXCEPT ![t] = GoesTo(thread[t], where, errors)]
  <1>1. thread' = [thread EXCEPT ![t].at = where, ![t].errors = errors]
    BY DEF Table!Goto
  <1>2. DOMAIN thread = Servers /\ ThreadRecord(thread[t])
    BY DEF TableInv, Served, ServingAll, Serving
  <1> QED BY <1>1, <1>2 DEF GoesTo, ThreadRecord

LEMMA CreateFileTable ==
    ASSUME TableInv, NEW t \in Servers, Table!CreateFile(t)
    PROVE  TableInv'
  <1> DEFINE r == thread[t]
  <1>1. /\ tableUp /\ r # idle /\ r.op = "create" /\ r.at = "file"
        /\ Serving(r, ids, Seen, DOMAIN sessions, DOMAIN saved, files, removed, unsaved)
    BY AtFacts DEF Table!CreateFile
  <1>2. UNCHANGED <<sessions, saved, tableUp, ids, created, deleted, removed, unsaved>>
    BY DEF Table!CreateFile, Table!history
  <1>3. Seen' = Seen
    BY <1>2 DEF Seen
  <1>4. ASSUME NEW w \in Servers, thread[w] # idle, thread[w].op = "create"
        PROVE  thread[w].id \notin Seen
    BY <1>4 DEF TableInv, Served, ServingAll, Serving
  <1>5. files \subseteq files'
    BY DEF Table!CreateFile
  <1>6. OthersGoOn(t)
    BY <1>2, <1>3, <1>4, <1>5 DEF OthersGoOn
  <1>7. Listing'
    BY <1>2, <1>3, <1>5 DEF TableInv, Listing, Table!ListedHasFile, Table!DeletedIsGone
  <1>8. CASE files' = files \cup {r.id} /\ Table!Goto(t, "list", {})
    <2> DEFINE n == GoesTo(r, "list", {})
    <2>1. ThreadRecord(n) /\ n.op = r.op /\ n.id = r.id /\ n.at = "list"
      BY <1>1, GoesToFacts DEF Serving
    <2>2. thread' = [thread EXCEPT ![t] = n]
      BY <1>1, <1>8, GotoIs
    <2> HIDE DEF n
    <2>3. Serving(n, ids', Seen', DOMAIN sessions', DOMAIN saved', files', removed', unsaved')
      BY <1>1, <1>2, <1>3, <1>8, <2>1 DEF Serving
    <2>4. Takes(t, n)
      BY <1>1, <1>2, <2>1, <2>2, <2>3 DEF Takes
    <2> QED BY <1>6, <1>7, <2>4, ServesOn DEF TableInv
  <1>9. CASE Table!Return(t)
    <2>1. Takes(t, idle)
      BY <1>1, <1>2, <1>9 DEF Takes, Table!Return
    <2> QED BY <1>6, <1>7, <2>1, ServesOn DEF TableInv
  <1> QED BY <1>8, <1>9 DEF Table!CreateFile

LEMMA CreateEntryTable ==
    ASSUME TableInv, NEW t \in Servers, Table!CreateEntry(t)
    PROVE  TableInv'
  <1> DEFINE r == thread[t]
  <1>1. /\ tableUp /\ r # idle /\ r.op = "create" /\ r.at = "list"
        /\ Serving(r, ids, Seen, DOMAIN sessions, DOMAIN saved, files, removed, unsaved)
    BY AtFacts DEF Table!CreateEntry
  <1>2. UNCHANGED <<files, tableUp, ids, deleted, removed>> /\ thread' = [thread EXCEPT ![t] = idle]
    BY DEF Table!CreateEntry, Table!Return
  <1>3. DOMAIN sessions' = DOMAIN sessions \cup {r.id}
    BY DEF Table!CreateEntry, Table!With
  <1>4. \/ /\ DOMAIN saved' = DOMAIN sessions' /\ created' = created \cup {r.id}
           /\ unsaved' = unsaved \cap DOMAIN sessions'
        \/ DOMAIN saved' = DOMAIN saved /\ created' = created /\ unsaved' = unsaved
    BY DEF Table!CreateEntry, Table!Save, Table!SaveFails, Table!AckedIf
  <1>5. r.id \in ids /\ r.id \notin Seen /\ r.id \in files
    BY <1>1 DEF Serving
  <1>6. Seen' \subseteq Seen \cup {r.id}
    BY <1>2, <1>3, <1>4 DEF Seen
  <1>7. ASSUME NEW w \in Servers, w # t, thread[w] # idle, thread[w].op = "create"
        PROVE  thread[w].id \notin Seen'
    BY <1>1, <1>6, <1>7 DEF TableInv, Served, ServingAll, Serving
  <1>8. OthersGoOn(t)
    BY <1>2, <1>3, <1>4, <1>5, <1>7 DEF OthersGoOn, Seen
  <1>9. Takes(t, idle)
    BY <1>1, <1>2 DEF Takes
  <1>10. Listing'
    <2>1. Seen' \subseteq ids'
      BY <1>2, <1>5, <1>6 DEF TableInv, Listing
    <2>2. Table!ListedHasFile'
      BY <1>2, <1>3, <1>4, <1>5 DEF TableInv, Listing, Table!ListedHasFile
    <2>3. created' \ removed' \subseteq DOMAIN sessions' \cap DOMAIN saved'
      BY <1>2, <1>3, <1>4 DEF TableInv, Listing
    <2>4. Table!DeletedIsGone'
      BY <1>2, <1>3, <1>4, <1>5 DEF TableInv, Listing, Table!DeletedIsGone, Seen
    <2> QED BY <2>1, <2>2, <2>3, <2>4 DEF Listing
  <1> QED BY <1>8, <1>9, <1>10, ServesOn DEF TableInv

LEMMA BeginTouchTable ==
    ASSUME TableInv, NEW t \in Servers, Table!BeginTouch(t)
    PROVE  TableInv'
  <1>1. PICK id \in DOMAIN sessions : Table!Begin(t, "touch", id, "touch")
    BY DEF Table!BeginTouch
  <1> QED BY <1>1, BeginServed DEF Table!BeginTouch, Table!history

LEMMA BeginDeleteTable ==
    ASSUME TableInv, NEW t \in Servers, Table!BeginDelete(t)
    PROVE  TableInv'
  <1>1. PICK id \in DOMAIN sessions : Table!Begin(t, "delete", id, "entry") /\ files' = files
    BY DEF Table!BeginDelete, Table!FilesWhileListed
  <1> QED BY <1>1, BeginServed DEF Table!BeginDelete, Table!history

LEMMA TouchTable ==
    ASSUME TableInv, NEW t \in Servers, Table!Touch(t)
    PROVE  TableInv'
  <1>1. tableUp /\ UNCHANGED <<files, tableUp, ids, created, deleted, removed>>
          /\ thread' = [thread EXCEPT ![t] = idle]
    BY DEF Table!Touch, Table!At, Table!Return
  <1>2. DOMAIN sessions' = DOMAIN sessions
    BY DEF Table!Touch, Table!Touched
  <1>3. \/ DOMAIN saved' = DOMAIN sessions /\ unsaved' = unsaved \cap DOMAIN sessions
        \/ DOMAIN saved' = DOMAIN saved /\ unsaved' = unsaved
    BY <1>2 DEF Table!Touch, Table!Save, Table!SaveFails
  <1>4. Seen' \subseteq Seen
    BY <1>1, <1>2, <1>3 DEF Seen
  <1>5. ASSUME NEW w \in Servers, thread[w] # idle, thread[w].op = "create"
        PROVE  thread[w].id \notin Seen'
    BY <1>4, <1>5 DEF TableInv, Served, ServingAll, Serving
  <1>6. OthersGoOn(t)
    BY <1>1, <1>2, <1>3, <1>5 DEF OthersGoOn
  <1>7. Takes(t, idle)
    BY <1>1 DEF Takes
  <1>8. Listing'
    BY <1>1, <1>2, <1>3, <1>4 DEF TableInv, Listing, Table!ListedHasFile, Table!DeletedIsGone
  <1> QED BY <1>6, <1>7, <1>8, ServesOn DEF TableInv

LEMMA DeleteEntryTable ==
    ASSUME TableInv, NEW t \in Servers, Table!DeleteEntry(t)
    PROVE  TableInv'
  <1> DEFINE r == thread[t]
  <1>1. /\ tableUp /\ r # idle /\ r.op = "delete"
        /\ Serving(r, ids, Seen, DOMAIN sessions, DOMAIN saved, files, removed, unsaved)
    BY AtFacts DEF Table!DeleteEntry
  <1>2. UNCHANGED <<files, tableUp, ids, created, deleted>> /\ removed' = removed \cup {r.id}
    BY DEF Table!DeleteEntry
  <1>3. DOMAIN sessions' = DOMAIN sessions \ {r.id}
    BY DEF Table!DeleteEntry, Table!Without
  <1>4. PICK errors :
           /\ Table!Goto(t, "remove", errors)
           /\ \/ DOMAIN saved' = DOMAIN saved /\ unsaved' = unsaved \cup {r.id}
              \/ DOMAIN saved' = DOMAIN sessions' /\ unsaved' = unsaved \cap DOMAIN sessions'
    BY DEF Table!DeleteEntry, Table!Save
  <1>5. Seen' \subseteq Seen \cup {r.id} /\ r.id \in ids
    BY <1>1, <1>2, <1>3, <1>4 DEF Seen, Serving
  <1>6. ASSUME NEW w \in Servers, w # t, thread[w] # idle, thread[w].op = "create"
        PROVE  thread[w].id \notin Seen'
    BY <1>1, <1>5, <1>6 DEF TableInv, Served, ServingAll, Serving
  <1>7. OthersGoOn(t)
    BY <1>2, <1>3, <1>4, <1>6 DEF OthersGoOn
  <1> DEFINE n == GoesTo(r, "remove", errors)
  <1>8. ThreadRecord(n) /\ n.op = r.op /\ n.id = r.id /\ n.at = "remove"
    BY <1>1, GoesToFacts DEF Serving
  <1>9. thread' = [thread EXCEPT ![t] = n]
    BY <1>1, <1>4, GotoIs
  <1> HIDE DEF n
  <1>10. Serving(n, ids', Seen', DOMAIN sessions', DOMAIN saved', files', removed', unsaved')
    BY <1>1, <1>2, <1>3, <1>4, <1>5, <1>8 DEF Serving
  <1>11. Takes(t, n)
    BY <1>1, <1>2, <1>8, <1>9, <1>10 DEF Takes
  <1>12. Listing'
    <2>1. Seen' \subseteq ids'
      BY <1>2, <1>5 DEF TableInv, Listing
    <2>2. Table!ListedHasFile'
      BY <1>2, <1>3, <1>4 DEF TableInv, Listing, Table!ListedHasFile
    <2>3. created' \ removed' \subseteq DOMAIN sessions' \cap DOMAIN saved'
      BY <1>2, <1>3, <1>4 DEF TableInv, Listing
    <2>4. Table!DeletedIsGone'
      BY <1>2, <1>3, <1>4 DEF TableInv, Listing, Table!DeletedIsGone
    <2> QED BY <2>1, <2>2, <2>3, <2>4 DEF Listing
  <1> QED BY <1>7, <1>11, <1>12, ServesOn DEF TableInv

LEMMA DeleteFileTable ==
    ASSUME TableInv, NEW t \in Servers, Table!DeleteFile(t)
    PROVE  TableInv'
  <1> DEFINE r == thread[t]
  <1>1. /\ tableUp /\ r # idle /\ r.op = "delete" /\ r.at = "remove"
        /\ Serving(r, ids, Seen, DOMAIN sessions, DOMAIN saved, files, removed, unsaved)
    BY AtFacts DEF Table!DeleteFile
  <1>2. UNCHANGED <<sessions, saved, tableUp, ids, created, removed, unsaved>>
          /\ thread' = [thread EXCEPT ![t] = idle]
    BY DEF Table!DeleteFile, Table!Return
  <1>3. files \ {r.id} \subseteq files' /\ deleted' \subseteq deleted \cup {r.id}
    BY DEF Table!DeleteFile, Table!DeletedIf
  <1>4. /\ r.id \in removed /\ r.id \notin DOMAIN sessions
        /\ r.id \in DOMAIN saved => r.id \in unsaved
    BY <1>1 DEF Serving
  <1>5. Seen' \subseteq Seen
    BY <1>2, <1>3, <1>4 DEF Seen
  <1>6. ASSUME NEW w \in Servers, w # t, thread[w] # idle, thread[w].op = "create"
        PROVE  thread[w].id \notin Seen' /\ thread[w].id # r.id
    BY <1>1, <1>5, <1>6 DEF TableInv, Served, ServingAll, Serving
  <1>7. OthersGoOn(t)
    BY <1>2, <1>3, <1>6 DEF OthersGoOn
  <1>8. Takes(t, idle)
    BY <1>1, <1>2 DEF Takes
  <1>9. Listing'
    <2>1. Seen' \subseteq ids'
      BY <1>2, <1>5 DEF TableInv, Listing
    <2>2. Table!ListedHasFile'
      BY <1>2, <1>3, <1>4 DEF TableInv, Listing, Table!ListedHasFile
    <2>3. created' \ removed' \subseteq DOMAIN sessions' \cap DOMAIN saved'
      BY <1>2 DEF TableInv, Listing
    <2>4. Table!DeletedIsGone'
      BY <1>2, <1>3, <1>4 DEF TableInv, Listing, Table!DeletedIsGone
    <2> QED BY <2>1, <2>2, <2>3, <2>4 DEF Listing
  <1> QED BY <1>7, <1>8, <1>9, ServesOn DEF TableInv

LEMMA CrashTable ==
    ASSUME TableInv, Table!Crash
    PROVE  TableInv'
  <1>1. /\ UNCHANGED <<sessions, saved, files, ids, created, deleted, removed, unsaved>>
        /\ thread' = [t \in Servers |-> idle] /\ ~tableUp'
    BY DEF Table!Crash, Table!history
  <1>2. Served'
    BY <1>1 DEF Served, ServingAll
  <1>3. Listing'
    BY <1>1 DEF TableInv, Listing, Seen, Table!ListedHasFile, Table!DeletedIsGone
  <1> QED BY <1>2, <1>3 DEF TableInv

LEMMA StartTable ==
    ASSUME TableInv, Table!Start
    PROVE  TableInv'
  <1>1. /\ UNCHANGED <<saved, files, thread, ids, created, deleted, removed, unsaved>>
        /\ sessions' = saved /\ ~tableUp /\ tableUp'
    BY DEF Table!Start, Table!history
  <1>2. Served'
    BY <1>1 DEF TableInv, Served, ServingAll
  <1>3. Seen' \subseteq Seen
    BY <1>1 DEF Seen
  <1>4. Listing'
    BY <1>1, <1>3 DEF TableInv, Listing, Table!ListedHasFile, Table!DeletedIsGone
  <1> QED BY <1>2, <1>4 DEF TableInv

LEMMA NextTable == TableInv /\ [Table!Next]_(Table!vars) => TableInv'
  <1> SUFFICES ASSUME TableInv, [Table!Next]_(Table!vars) PROVE TableInv'
    OBVIOUS
  <1>1. CASE UNCHANGED Table!vars
    <2>1. UNCHANGED <<sessions, saved, files, thread, tableUp, ids, created, deleted, removed, unsaved>>
      BY <1>1 DEF Table!vars
    <2>2. Seen' = Seen
      BY <2>1 DEF Seen
    <2>3. Served'
      BY <2>1, <2>2 DEF TableInv, Served, ServingAll
    <2>4. Listing'
      BY <2>1, <2>2 DEF TableInv, Listing, Table!ListedHasFile, Table!DeletedIsGone
    <2> QED BY <2>3, <2>4 DEF TableInv
  <1> QED BY <1>1, BeginCreateTable, CreateFileTable, CreateEntryTable, BeginTouchTable, TouchTable,
             BeginDeleteTable, DeleteEntryTable, DeleteFileTable, CrashTable, StartTable DEF Table!Next

TableIsRight == Table!ListedHasFile /\ Table!AcknowledgedIsListed /\ Table!DeletedIsGone

LEMMA TableKeeps == TableInv => TableIsRight
  BY DEF TableInv, Listing, TableIsRight, Table!AcknowledgedIsListed

-----------------------------------------------------------------------------
(* The settings. *)

LEMMA MapFacts ==
    ASSUME NEW D, NEW R, NEW f \in Settings!Maps(D, R)
    PROVE  /\ DOMAIN f \subseteq D /\ f = [x \in DOMAIN f |-> f[x]]
           /\ \A x \in DOMAIN f : f[x] \in R
  <1>1. PICK S \in SUBSET D : f \in [S -> R]
    BY DEF Settings!Maps
  <1> QED BY <1>1

LEMMA IsMap ==
    ASSUME NEW D, NEW R, NEW S, S \subseteq D, NEW f, f \in [S -> R]
    PROVE  f \in Settings!Maps(D, R)
  BY DEF Settings!Maps

LEMMA EmptyMap == ASSUME NEW D, NEW R PROVE <<>> \in Settings!Maps(D, R) /\ DOMAIN <<>> = {}
  <1>1. <<>> \in [{} -> R]
    OBVIOUS
  <1> QED BY <1>1, IsMap

LEMMA ConfigFacts ==
    ASSUME NEW c \in Settings!Configs
    PROVE  /\ c.provider \in DOMAIN KeyEnv /\ c.enabled \subseteq DOMAIN KeyEnv
           /\ c.keys \in Settings!Maps(DOMAIN KeyEnv, Values) /\ c.env \in Settings!Maps(Variables, Settings!Stored)
           /\ DOMAIN c.env \subseteq Variables /\ \A n \in DOMAIN c.env : c.env[n] \in Settings!Stored
           /\ DOMAIN c.keys \subseteq DOMAIN KeyEnv /\ \A p \in DOMAIN c.keys : c.keys[p] \in Values
  <1>1. /\ c.provider \in DOMAIN KeyEnv /\ c.enabled \subseteq DOMAIN KeyEnv
        /\ c.keys \in Settings!Maps(DOMAIN KeyEnv, Values) /\ c.env \in Settings!Maps(Variables, Settings!Stored)
    BY DEF Settings!Configs, Settings!ProviderNames
  <1> QED BY <1>1, MapFacts

(* The configurations, what is being written, and what runs read. *)
SettingsTyped ==
    /\ cfg \in Settings!Configs /\ acked \in Settings!Configs /\ file \in Settings!Configs
    /\ DOMAIN form = Windows /\ \A w \in Windows : form[w] \subseteq Variables
    /\ writing = Nobody \/ writing \in Settings!Pending
    /\ run # Nobody => /\ run.cfg \in Settings!Configs
                       /\ "provider" \in DOMAIN run => run.provider \in DOMAIN KeyEnv

(* The file is the configuration until the update that holds the lock has   *)
(* renamed its own over it.                                                 *)
SettingsWritten ==
    /\ ~up => writing = Nobody
    /\ up => acked = cfg
    /\ up /\ (writing = Nobody \/ writing.at # "export") => file = cfg
    /\ writing # Nobody /\ writing.at = "export" => file = writing.next
    /\ writing # Nobody /\ ~writing.env => writing.next.env = cfg.env

(* What the process is left with: no longer configured, it was unset. *)
SettingsExported ==
    /\ process \in [Variables -> Settings!Stored \cup {Unset}]
    /\ envSet \subseteq Variables
    /\ up => /\ envSet = DOMAIN cfg.env /\ envSet \subseteq exported
             /\ \A n \in Variables :
                  process[n] = IF n \in DOMAIN cfg.env THEN cfg.env[n]
                               ELSE IF n \in exported THEN Unset ELSE Started[n]

SettingsInv == SettingsTyped /\ SettingsWritten /\ SettingsExported /\ Settings!UsedWithKey

LEMMA SettingsStart == Settings!Init => SettingsInv
  <1> SUFFICES ASSUME Settings!Init PROVE SettingsInv
    OBVIOUS
  <1>1. Head(Providers) \in DOMAIN KeyEnv
    BY SettingsAssumption
  <1>2. Settings!defaultConfig \in Settings!Configs /\ DOMAIN Settings!defaultConfig.env = {}
    BY <1>1, EmptyMap DEF Settings!defaultConfig, Settings!Configs, Settings!ProviderNames
  <1>3. SettingsTyped
    BY <1>2 DEF Settings!Init, SettingsTyped
  <1>4. SettingsWritten
    BY DEF Settings!Init, SettingsWritten
  <1>5. SettingsExported
    BY <1>2, SettingsAssumption DEF Settings!Init, SettingsExported, Settings!Stored
  <1>6. Settings!UsedWithKey
    BY DEF Settings!Init, Settings!UsedWithKey
  <1> QED BY <1>3, <1>4, <1>5, <1>6 DEF SettingsInv

(* What an update makes of the configuration is one; only the form of the  *)
(* variables changes those.                                                *)
LEMMA ApplyFacts ==
    ASSUME cfg \in Settings!Configs, NEW w, NEW u \in Settings!Updates(w)
    PROVE  Settings!Apply(u) \in Settings!Configs /\ (u.field # "env" => Settings!Apply(u).env = cfg.env)
  <1>c. cfg \in [provider : DOMAIN KeyEnv, keys : Settings!Maps(DOMAIN KeyEnv, Values),
                 enabled : SUBSET DOMAIN KeyEnv, env : Settings!Maps(Variables, Settings!Stored)]
    BY DEF Settings!Configs, Settings!ProviderNames
  <1>f. /\ DOMAIN cfg.env \subseteq Variables /\ \A n \in DOMAIN cfg.env : cfg.env[n] \in Settings!Stored
        /\ DOMAIN cfg.keys \subseteq DOMAIN KeyEnv /\ \A p \in DOMAIN cfg.keys : cfg.keys[p] \in Values
    BY ConfigFacts
  <1>1. CASE u \in [field : {"env"}, env : Settings!EnvUpdates(w)]
    <2>1. u.field = "env" /\ u.env \in Settings!Maps(Variables, Values \cup {Mask})
      BY <1>1 DEF Settings!EnvUpdates
    <2>2. DOMAIN u.env \subseteq Variables /\ \A n \in DOMAIN u.env : u.env[n] \in Values \cup {Mask}
      BY <2>1, MapFacts
    <2>3. Settings!NextEnv(u.env) \in [DOMAIN u.env -> Settings!Stored]
      BY <1>f, <2>2 DEF Settings!NextEnv, Settings!Unmasked, Settings!Stored
    <2>4. Settings!NextEnv(u.env) \in Settings!Maps(Variables, Settings!Stored)
      BY <2>2, <2>3, IsMap
    <2>5. Settings!Apply(u) = [cfg EXCEPT !.env = Settings!NextEnv(u.env)]
      BY <2>1 DEF Settings!Apply
    <2> QED BY <1>c, <2>1, <2>4, <2>5 DEF Settings!Configs, Settings!ProviderNames
  <1>2. CASE u \in [field : {"key"}, name : DOMAIN KeyEnv, key : Values \cup {Empty, Mask, Unset}]
    <2>1. u.field = "key" /\ u.name \in DOMAIN KeyEnv /\ u.key \in Values \cup {Empty, Mask, Unset}
      BY <1>2
    <2>2. Settings!NextKeys(u.name, u.key) \in Settings!Maps(DOMAIN KeyEnv, Values)
      <3>1. CASE u.key \in {Empty, Mask}
        BY <1>c, <3>1, SettingsAssumption DEF Settings!NextKeys
      <3>2. CASE u.key \notin {Empty, Mask} /\ u.key = Unset
        <4>1. Settings!NextKeys(u.name, u.key) \in [DOMAIN cfg.keys \ {u.name} -> Values]
          BY <1>f, <3>2 DEF Settings!NextKeys
        <4> QED BY <1>f, <4>1, IsMap
      <3>3. CASE u.key \notin {Empty, Mask} /\ u.key # Unset
        <4>1. Settings!NextKeys(u.name, u.key) \in [DOMAIN cfg.keys \cup {u.name} -> Values]
          BY <1>f, <2>1, <3>3 DEF Settings!NextKeys
        <4> QED BY <1>f, <2>1, <4>1, IsMap
      <3> QED BY <3>1, <3>2, <3>3
    <2>3. Settings!Apply(u) = [cfg EXCEPT !.keys = Settings!NextKeys(u.name, u.key)]
      BY <2>1 DEF Settings!Apply
    <2> QED BY <1>c, <2>2, <2>3 DEF Settings!Configs, Settings!ProviderNames
  <1>3. CASE u \in [field : {"enabled"}, name : DOMAIN KeyEnv, on : BOOLEAN]
    <2>1. u.field = "enabled" /\ u.name \in DOMAIN KeyEnv
      BY <1>3
    <2>2. PICK e \in SUBSET DOMAIN KeyEnv : Settings!Apply(u) = [cfg EXCEPT !.enabled = e]
      BY <1>c, <2>1 DEF Settings!Apply
    <2> QED BY <1>c, <2>2 DEF Settings!Configs, Settings!ProviderNames
  <1>4. CASE u \in [field : {"provider"}, name : DOMAIN KeyEnv]
    <2>1. u.field = "provider" /\ u.name \in DOMAIN KeyEnv
      BY <1>4
    <2>2. Settings!Apply(u) = [cfg EXCEPT !.provider = u.name]
      BY <2>1 DEF Settings!Apply
    <2> QED BY <1>c, <2>1, <2>2 DEF Settings!Configs, Settings!ProviderNames
  <1> QED BY <1>1, <1>2, <1>3, <1>4 DEF Settings!Updates, Settings!ProviderNames

LEMMA BeginUpdateSettings ==
    ASSUME SettingsInv, NEW w \in Windows, Settings!BeginUpdate(w)
    PROVE  SettingsInv'
  <1>1. PICK u \in Settings!Updates(w) :
          writing' = [next |-> Settings!Apply(u), window |-> w, env |-> u.field = "env", at |-> "create"]
    BY DEF Settings!BeginUpdate
  <1>2. /\ UNCHANGED <<run, used, cfg, file, process, envSet, up, form, acked, exported>>
        /\ up /\ writing = Nobody
    BY DEF Settings!BeginUpdate, Settings!runVars, Settings!diskVars
  <1> DEFINE c == Settings!Apply(u)
  <1>3. c \in Settings!Configs /\ (u.field # "env" => c.env = cfg.env)
    BY ApplyFacts DEF SettingsInv, SettingsTyped
  <1> HIDE DEF c
  <1>4. writing' \in Settings!Pending /\ writing'.next = c /\ writing'.at = "create" /\ writing'.env = (u.field = "env")
    BY <1>1, <1>3 DEF Settings!Pending, c
  <1>5. SettingsTyped'
    BY <1>2, <1>4 DEF SettingsInv, SettingsTyped
  <1>6. SettingsWritten'
    BY <1>2, <1>3, <1>4 DEF SettingsInv, SettingsWritten
  <1>7. SettingsExported' /\ Settings!UsedWithKey'
    BY <1>2 DEF SettingsInv, SettingsExported, Settings!UsedWithKey
  <1> QED BY <1>5, <1>6, <1>7 DEF SettingsInv

(* The update that holds the lock goes to another step. *)
LEMMA PendingMoves ==
    ASSUME NEW p \in Settings!Pending, NEW where \in {"rename", "export"}
    PROVE  LET n == [p EXCEPT !.at = where]
           IN  /\ n \in Settings!Pending /\ n # Nobody /\ n.next = p.next /\ n.env = p.env /\ n.at = where
               /\ p.next \in Settings!Configs
  BY SettingsAssumption DEF Settings!Pending

LEMMA WriteTempSettings ==
    ASSUME SettingsInv, Settings!WriteTemp
    PROVE  SettingsInv'
  <1>1. /\ UNCHANGED <<run, used, cfg, file, process, envSet, up, form, acked, exported>>
        /\ up /\ writing # Nobody /\ writing.at = "create" /\ writing' = [writing EXCEPT !.at = "rename"]
    BY DEF Settings!WriteTemp, Settings!runVars, Settings!history, Settings!DuringWrite
  <1>2. writing \in Settings!Pending
    BY <1>1 DEF SettingsInv, SettingsTyped
  <1>3. /\ writing' \in Settings!Pending /\ writing' # Nobody /\ writing'.next = writing.next
        /\ writing'.env = writing.env /\ writing'.at = "rename"
    BY <1>1, <1>2, PendingMoves
  <1>5. SettingsTyped'
    BY <1>1, <1>3 DEF SettingsInv, SettingsTyped
  <1>6. SettingsWritten'
    BY <1>1, <1>3 DEF SettingsInv, SettingsWritten
  <1>7. SettingsExported' /\ Settings!UsedWithKey'
    BY <1>1 DEF SettingsInv, SettingsExported, Settings!UsedWithKey
  <1> QED BY <1>5, <1>6, <1>7 DEF SettingsInv

LEMMA RenameTempSettings ==
    ASSUME SettingsInv, Settings!RenameTemp
    PROVE  SettingsInv'
  <1>1. /\ UNCHANGED <<run, used, cfg, process, envSet, up, form, acked, exported>> /\ file' = writing.next
        /\ up /\ writing # Nobody /\ writing.at = "rename" /\ writing' = [writing EXCEPT !.at = "export"]
    BY DEF Settings!RenameTemp, Settings!runVars, Settings!history
  <1>2. writing \in Settings!Pending
    BY <1>1 DEF SettingsInv, SettingsTyped
  <1>3. /\ writing' \in Settings!Pending /\ writing' # Nobody /\ writing'.next = writing.next
        /\ writing'.env = writing.env /\ writing'.at = "export" /\ file' \in Settings!Configs
    BY <1>1, <1>2, PendingMoves
  <1>5. SettingsTyped'
    BY <1>1, <1>3 DEF SettingsInv, SettingsTyped
  <1>6. SettingsWritten'
    BY <1>1, <1>3 DEF SettingsInv, SettingsWritten
  <1>7. SettingsExported' /\ Settings!UsedWithKey'
    BY <1>1 DEF SettingsInv, SettingsExported, Settings!UsedWithKey
  <1> QED BY <1>5, <1>6, <1>7 DEF SettingsInv

LEMMA SaveFailsSettings ==
    ASSUME SettingsInv, Settings!SaveFails
    PROVE  SettingsInv'
  <1>1. /\ UNCHANGED <<run, used, cfg, file, process, envSet, up, form, acked, exported>>
        /\ up /\ writing # Nobody /\ writing.at # "export" /\ writing' = Nobody
    BY DEF Settings!SaveFails, Settings!runVars, Settings!history
  <1>5. SettingsTyped'
    BY <1>1 DEF SettingsInv, SettingsTyped
  <1>6. SettingsWritten'
    BY <1>1 DEF SettingsInv, SettingsWritten
  <1>7. SettingsExported' /\ Settings!UsedWithKey'
    BY <1>1 DEF SettingsInv, SettingsExported, Settings!UsedWithKey
  <1> QED BY <1>5, <1>6, <1>7 DEF SettingsInv

LEMMA FinishUpdateSettings ==
    ASSUME SettingsInv, Settings!FinishUpdate
    PROVE  SettingsInv'
  <1> DEFINE c == writing.next
  <1>1. /\ UNCHANGED <<run, used, file, up>>
        /\ up /\ writing # Nobody /\ writing.at = "export" /\ writing' = Nobody
        /\ cfg' = c /\ acked' = c /\ form' = [form EXCEPT ![writing.window] = DOMAIN c.env]
    BY DEF Settings!FinishUpdate, Settings!runVars, Settings!diskVars, Settings!View
  <1>2. writing \in Settings!Pending
    BY <1>1 DEF SettingsInv, SettingsTyped
  <1>3. c \in Settings!Configs /\ file = c
    BY <1>1, <1>2 DEF Settings!Pending, SettingsInv, SettingsWritten
  <1>4. DOMAIN c.env \subseteq Variables /\ \A n \in DOMAIN c.env : c.env[n] \in Settings!Stored
    BY <1>3, ConfigFacts
  <1>5. SettingsTyped'
    BY <1>1, <1>3, <1>4 DEF SettingsInv, SettingsTyped
  <1>6. SettingsWritten'
    BY <1>1, <1>3 DEF SettingsInv, SettingsWritten
  <1>7. SettingsExported'
    <2>1. CASE writing.env
      <3>1. /\ process' = Settings!Applied(c.env, process) /\ envSet' = DOMAIN c.env
            /\ exported' = exported \cup DOMAIN c.env
        BY <2>1 DEF Settings!FinishUpdate
      <3>2. process' = [n \in Variables |-> IF n \in DOMAIN c.env THEN c.env[n]
                                            ELSE IF n \in envSet THEN Unset ELSE process[n]]
        BY <3>1 DEF Settings!Applied
      <3>3. \A n \in Variables :
              process'[n] = IF n \in DOMAIN c.env THEN c.env[n]
                            ELSE IF n \in exported' THEN Unset ELSE Started[n]
        BY <1>1, <3>1, <3>2 DEF SettingsInv, SettingsExported
      <3>4. process' \in [Variables -> Settings!Stored \cup {Unset}]
        BY <1>4, <3>2 DEF SettingsInv, SettingsExported
      <3> QED BY <1>1, <1>4, <3>1, <3>3, <3>4 DEF SettingsExported
    <2>2. CASE ~writing.env
      <3>1. UNCHANGED <<process, envSet, exported>> /\ c.env = cfg.env
        BY <1>1, <2>2 DEF Settings!FinishUpdate, SettingsInv, SettingsWritten
      <3> QED BY <1>1, <3>1 DEF SettingsInv, SettingsExported
    <2>3. writing.env \in BOOLEAN
      BY <1>2 DEF Settings!Pending
    <2> QED BY <2>1, <2>2, <2>3
  <1>8. Settings!UsedWithKey'
    BY <1>1 DEF SettingsInv, Settings!UsedWithKey
  <1> QED BY <1>5, <1>6, <1>7, <1>8 DEF SettingsInv

LEMMA LoadSettings ==
    ASSUME SettingsInv, NEW w \in Windows, Settings!Load(w)
    PROVE  SettingsInv'
  <1>1. /\ UNCHANGED <<run, used, cfg, file, process, envSet, up, writing, acked, exported>>
        /\ form' = [form EXCEPT ![w] = DOMAIN cfg.env]
    BY DEF Settings!Load, Settings!runVars, Settings!diskVars, Settings!history, Settings!View
  <1>2. DOMAIN cfg.env \subseteq Variables
    BY ConfigFacts DEF SettingsInv, SettingsTyped
  <1>5. SettingsTyped'
    BY <1>1, <1>2 DEF SettingsInv, SettingsTyped
  <1>6. SettingsWritten'
    BY <1>1 DEF SettingsInv, SettingsWritten
  <1>7. SettingsExported' /\ Settings!UsedWithKey'
    BY <1>1 DEF SettingsInv, SettingsExported, Settings!UsedWithKey
  <1> QED BY <1>5, <1>6, <1>7 DEF SettingsInv

LEMMA CrashSettings ==
    ASSUME SettingsInv, Settings!Crash
    PROVE  SettingsInv'
  <1>1. /\ UNCHANGED <<used, cfg, file, process, envSet, form, acked, exported>>
        /\ ~up' /\ writing' = Nobody /\ run' = Nobody
    BY DEF Settings!Crash, Settings!diskVars, Settings!history
  <1>5. SettingsTyped'
    BY <1>1 DEF SettingsInv, SettingsTyped
  <1>6. SettingsWritten'
    BY <1>1 DEF SettingsInv, SettingsWritten
  <1>7. SettingsExported' /\ Settings!UsedWithKey'
    BY <1>1 DEF SettingsInv, SettingsExported, Settings!UsedWithKey
  <1> QED BY <1>5, <1>6, <1>7 DEF SettingsInv

LEMMA StartSettings ==
    ASSUME SettingsInv, Settings!Start
    PROVE  SettingsInv'
  <1>1. /\ UNCHANGED <<run, used, file, writing, form>>
        /\ ~up /\ up' /\ cfg' = file /\ acked' = file /\ envSet' = DOMAIN file.env /\ exported' = DOMAIN file.env
        /\ process' = [n \in Variables |-> IF n \in DOMAIN file.env THEN file.env[n] ELSE Started[n]]
    BY DEF Settings!Start, Settings!diskVars, Settings!runVars, Settings!Fresh
  <1>2. DOMAIN file.env \subseteq Variables /\ \A n \in DOMAIN file.env : file.env[n] \in Settings!Stored
    BY ConfigFacts DEF SettingsInv, SettingsTyped
  <1>5. SettingsTyped'
    BY <1>1 DEF SettingsInv, SettingsTyped
  <1>6. SettingsWritten'
    BY <1>1 DEF SettingsInv, SettingsWritten
  <1>7. SettingsExported'
    BY <1>1, <1>2, SettingsAssumption DEF SettingsExported, Settings!Stored
  <1>8. Settings!UsedWithKey'
    BY <1>1 DEF SettingsInv, Settings!UsedWithKey
  <1> QED BY <1>5, <1>6, <1>7, <1>8 DEF SettingsInv

(* The steps of a run leave the rest alone. *)
LEMMA RunOnly ==
    ASSUME SettingsInv, UNCHANGED <<cfg, file, process, envSet, up, writing, form, acked, exported>>,
           run' # Nobody => /\ run'.cfg \in Settings!Configs
                            /\ "provider" \in DOMAIN run' => run'.provider \in DOMAIN KeyEnv,
           Settings!UsedWithKey'
    PROVE  SettingsInv'
  <1>5. SettingsTyped'
    BY DEF SettingsInv, SettingsTyped
  <1>6. SettingsWritten'
    BY DEF SettingsInv, SettingsWritten
  <1>7. SettingsExported'
    BY DEF SettingsInv, SettingsExported
  <1> QED BY <1>5, <1>6, <1>7 DEF SettingsInv

LEMMA BeginRunSettings ==
    ASSUME SettingsInv, Settings!BeginRun
    PROVE  SettingsInv'
  <1>1. /\ UNCHANGED <<used, cfg, file, process, envSet, up, writing, form, acked, exported>>
        /\ run' = [cfg |-> cfg]
    BY DEF Settings!BeginRun, Settings!diskVars, Settings!history
  <1>2. run'.cfg \in Settings!Configs /\ "provider" \notin DOMAIN run'
    BY <1>1 DEF SettingsInv, SettingsTyped
  <1> QED BY <1>1, <1>2, RunOnly DEF SettingsInv, Settings!UsedWithKey

LEMMA SelectProviderSettings ==
    ASSUME SettingsInv, Settings!SelectProvider
    PROVE  SettingsInv'
  <1>1. /\ UNCHANGED <<used, cfg, file, process, envSet, up, writing, form, acked, exported>>
        /\ run # Nobody
        /\ run' = Nobody \/ \E p \in Settings!Selectable(run.cfg) : run' = [cfg |-> run.cfg, provider |-> p]
    BY DEF Settings!SelectProvider, Settings!diskVars, Settings!history
  <1>2. run.cfg \in Settings!Configs
    BY <1>1 DEF SettingsInv, SettingsTyped
  <1>3. Settings!Selectable(run.cfg) \subseteq DOMAIN KeyEnv
    BY <1>2, ConfigFacts, SettingsAssumption DEF Settings!Selectable
  <1>4. run' # Nobody => run'.cfg \in Settings!Configs /\ run'.provider \in DOMAIN KeyEnv
    BY <1>1, <1>2, <1>3
  <1> QED BY <1>1, <1>4, RunOnly DEF SettingsInv, Settings!UsedWithKey

LEMMA ConnectSettings ==
    ASSUME SettingsInv, Settings!Connect
    PROVE  SettingsInv'
  <1> DEFINE p == run.provider
             key == Settings!ApiKey(p, run.cfg)
  <1>1. /\ UNCHANGED <<cfg, file, process, envSet, up, writing, form, acked, exported>>
        /\ run # Nobody /\ "provider" \in DOMAIN run /\ run' = Nobody
        /\ used' = IF Settings!Refused(p, key) THEN used ELSE used \cup {<<p, key>>}
    BY DEF Settings!Connect, Settings!diskVars, Settings!history
  <1>2. run.cfg \in Settings!Configs /\ p \in DOMAIN KeyEnv
    BY <1>1 DEF SettingsInv, SettingsTyped
  <1>3. key \in Values \cup {Empty}
    <2>1. CASE p \in DOMAIN run.cfg.keys
      BY <1>2, <2>1, ConfigFacts DEF Settings!ApiKey
    <2>2. CASE p \notin DOMAIN run.cfg.keys /\ KeyEnv[p] # NoVariable /\ process[KeyEnv[p]] # Unset
      <3>1. KeyEnv[p] \in Variables
        BY <1>2, <2>2, SettingsAssumption
      <3>2. process[KeyEnv[p]] \in Values \cup {Empty}
        BY <2>2, <3>1 DEF SettingsInv, SettingsExported, Settings!Stored
      <3> QED BY <2>2, <3>2 DEF Settings!ApiKey
    <2>3. CASE p \notin DOMAIN run.cfg.keys /\ ~(KeyEnv[p] # NoVariable /\ process[KeyEnv[p]] # Unset)
      BY <2>3 DEF Settings!ApiKey
    <2> QED BY <2>1, <2>2, <2>3
  <1> HIDE DEF key
  <1>4. Settings!UsedWithKey'
    BY <1>1, <1>3 DEF SettingsInv, Settings!UsedWithKey, Settings!Refused
  <1> QED BY <1>1, <1>4, RunOnly

LEMMA NextSettings == SettingsInv /\ [Settings!Next]_(Settings!vars) => SettingsInv'
  <1> SUFFICES ASSUME SettingsInv, [Settings!Next]_(Settings!vars) PROVE SettingsInv'
    OBVIOUS
  <1>1. CASE UNCHANGED Settings!vars
    <2>1. UNCHANGED <<run, used, cfg, file, process, envSet, up, writing, form, acked, exported>>
      BY <1>1 DEF Settings!vars
    <2>2. Settings!UsedWithKey'
      BY <2>1 DEF SettingsInv, Settings!UsedWithKey
    <2>3. run' # Nobody => /\ run'.cfg \in Settings!Configs
                           /\ "provider" \in DOMAIN run' => run'.provider \in DOMAIN KeyEnv
      BY <2>1 DEF SettingsInv, SettingsTyped
    <2> QED BY <2>1, <2>2, <2>3, RunOnly
  <1> QED BY <1>1, BeginUpdateSettings, LoadSettings, WriteTempSettings, RenameTempSettings,
             SaveFailsSettings, FinishUpdateSettings, CrashSettings, StartSettings, BeginRunSettings,
             SelectProviderSettings, ConnectSettings DEF Settings!Next

SettingsAreRight ==
    Settings!TypeOK /\ Settings!CrashKeepsConfig /\ Settings!ExportedIsConfigured /\ Settings!UsedWithKey

LEMMA SettingsKeep == SettingsInv => SettingsAreRight
  <1> SUFFICES ASSUME SettingsInv PROVE SettingsAreRight
    OBVIOUS
  <1>1. Settings!TypeOK
    BY DEF SettingsInv, SettingsTyped, SettingsExported, Settings!TypeOK
  <1>2. Settings!CrashKeepsConfig
    BY DEF SettingsInv, SettingsTyped, SettingsWritten, Settings!CrashKeepsConfig
  <1>3. Settings!ExportedIsConfigured
    BY DEF SettingsInv, SettingsExported, Settings!ExportedIsConfigured
  <1> QED BY <1>1, <1>2, <1>3 DEF SettingsInv, SettingsAreRight

-----------------------------------------------------------------------------
(* The start and the end of the app, and the models it offers. *)

Phases ==
    {"off", "lock", "load", "token", "skills", "installing", "store", "listen", "serving", "draining",
     "closing", "unlock", "exiting"}

(* Those in which it has nothing of the data directory to itself. *)
Out == {"off", "lock", "exiting"}

(* The phases in which the app has its token, and those in which it has     *)
(* written its skills.                                                      *)
WithToken == {"skills", "installing", "store", "listen", "serving"}
WithSkills == {"store", "listen", "serving"}

StartTyped ==
    /\ phase \in [Instances -> Phases] /\ DOMAIN token = Instances /\ minted \in Nat

(* Who uses the data directory holds its lock. *)
LockHeld == \A i \in Instances : phase[i] \notin Out => lock = i

(* Unless a token was lost, the cookie and the token that is served are the *)
(* one in the file.                                                         *)
TokenHeld ==
    ~lost => /\ ~refused
             /\ cookie # 0 => cookie = tokenFile
             /\ \A i \in Instances : phase[i] \in WithToken => token[i] = tokenFile /\ tokenFile # 0

SkillsHeld == \A i \in Instances : phase[i] \in WithSkills => skills = "whole"

StartInv == StartTyped /\ LockHeld /\ TokenHeld /\ SkillsHeld

LEMMA StartStarts == Startup!Init => StartInv
  <1> SUFFICES ASSUME Startup!Init PROVE StartInv
    OBVIOUS
  <1>1. \A i \in Instances : phase[i] = "off"
    BY DEF Startup!Init
  <1>2. StartTyped
    BY DEF Startup!Init, StartTyped, Phases
  <1>3. LockHeld /\ TokenHeld /\ SkillsHeld
    BY <1>1 DEF Startup!Init, LockHeld, TokenHeld, SkillsHeld, WithToken, WithSkills, Out
  <1> QED BY <1>2, <1>3 DEF StartInv

LEMMA NextPhaseFacts ==
    LET n == Startup!NextPhase
    IN  /\ n["lock"] = "load" /\ n["load"] = "token" /\ n["token"] = "skills" /\ n["skills"] = "installing"
        /\ n["installing"] = "store" /\ n["store"] = "listen" /\ n["listen"] = "serving"
        /\ n["serving"] = "draining" /\ n["draining"] = "closing" /\ n["closing"] = "unlock"
        /\ n["unlock"] = "exiting"
  BY DEF Startup!NextPhase

(* A process goes to another phase, in which it may have what it had; the   *)
(* data directory is as it was.                                             *)
LEMMA PhaseMoves ==
    ASSUME StartInv, NEW i \in Instances, NEW p \in Phases, phase' = [phase EXCEPT ![i] = p],
           phase[i] \notin Out \/ p \in Out,
           p \in WithToken => phase[i] \in WithToken,
           p \in WithSkills => phase[i] \in WithSkills,
           UNCHANGED <<lock, token, tokenFile, minted, skills, cookie, refused, lost>>
    PROVE  StartInv'
  <1>1. phase'[i] = p /\ \A j \in Instances : j # i => phase'[j] = phase[j]
    BY DEF StartInv, StartTyped
  <1>2. StartTyped'
    BY DEF StartInv, StartTyped
  <1>3. LockHeld'
    BY <1>1 DEF StartInv, LockHeld, Out
  <1>4. TokenHeld'
    BY <1>1 DEF StartInv, TokenHeld
  <1>5. SkillsHeld'
    BY <1>1 DEF StartInv, SkillsHeld
  <1> QED BY <1>2, <1>3, <1>4, <1>5 DEF StartInv

LEMMA GoneKeeps ==
    ASSUME StartInv, NEW i \in Instances, Startup!Gone(i), UNCHANGED Startup!kept
    PROVE  StartInv'
  <1>1. /\ phase' = [phase EXCEPT ![i] = "off"] /\ lock' = IF lock = i THEN Nobody ELSE lock
        /\ token' = [token EXCEPT ![i] = 0]
        /\ UNCHANGED <<tokenFile, minted, skills, cookie, refused, lost>>
    BY DEF Startup!Gone, Startup!Goto, Startup!kept
  <1>2. /\ phase'[i] = "off" /\ \A j \in Instances : j # i => phase'[j] = phase[j] /\ token'[j] = token[j]
    BY <1>1 DEF StartInv, StartTyped
  <1>3. StartTyped'
    BY <1>1 DEF StartInv, StartTyped, Phases
  <1>4. LockHeld'
    BY <1>1, <1>2 DEF StartInv, LockHeld, Out
  <1>5. TokenHeld'
    BY <1>1, <1>2 DEF StartInv, TokenHeld, WithToken, Out
  <1>6. SkillsHeld'
    BY <1>1, <1>2 DEF StartInv, SkillsHeld, WithSkills, Out
  <1> QED BY <1>3, <1>4, <1>5, <1>6 DEF StartInv

(* Steps of one process that leave the data directory as it is. *)
LEMMA QuietSteps ==
    ASSUME StartInv, NEW i \in Instances,
           \/ Startup!Start(i) \/ Startup!StepDone(i) \/ Startup!Quit(i) \/ Startup!Drained(i)
           \/ Startup!ServerClosed(i)
    PROVE  StartInv'
  <1>0. UNCHANGED <<lock, token, tokenFile, minted, skills, cookie, refused, lost>>
    BY DEF Startup!Start, Startup!StepDone, Startup!Quit, Startup!Drained, Startup!ServerClosed, Startup!kept
  <1>1. CASE phase' = phase
    BY <1>0, <1>1 DEF StartInv, StartTyped, LockHeld, TokenHeld, SkillsHeld, Out
  <1>2. CASE Startup!Start(i) /\ phase' # phase
    <2>1. phase[i] = "off" /\ phase' = [phase EXCEPT ![i] = "lock"]
      BY <1>2 DEF Startup!Start, Startup!Goto
    <2> QED BY <1>0, <2>1, PhaseMoves DEF Phases, WithToken, WithSkills, Out
  <1>3. CASE Startup!StepDone(i)
    <2>1. PICK p \in {"token", "listen", "serving"} :
             /\ phase' = [phase EXCEPT ![i] = p]
             /\ \/ phase[i] = "load" /\ p = "token"
                \/ phase[i] = "store" /\ p = "listen"
                \/ phase[i] = "listen" /\ p = "serving"
      BY <1>3, NextPhaseFacts DEF Startup!StepDone, Startup!Advance, Startup!Goto
    <2> QED BY <1>0, <2>1, PhaseMoves DEF Phases, WithToken, WithSkills, Out
  <1>4. CASE Startup!Quit(i) \/ Startup!Drained(i) \/ Startup!ServerClosed(i)
    <2>1. PICK p \in {"draining", "closing", "unlock"} :
             phase' = [phase EXCEPT ![i] = p] /\ phase[i] \in {"serving", "draining", "closing"}
      BY <1>4, NextPhaseFacts DEF Startup!Quit, Startup!Drained, Startup!ServerClosed, Startup!Advance, Startup!Goto
    <2> QED BY <1>0, <2>1, PhaseMoves DEF Phases, WithToken, WithSkills, Out
  <1> QED BY <1>1, <1>2, <1>3, <1>4

LEMMA LockDataDirKeeps ==
    ASSUME StartInv, NEW i \in Instances, Startup!LockDataDir(i)
    PROVE  StartInv'
  <1>1. CASE ~(lock = Nobody)
    BY <1>1, GoneKeeps DEF Startup!LockDataDir, Startup!LockFree
  <1>2. CASE lock = Nobody
    <2>1. /\ phase[i] = "lock" /\ phase' = [phase EXCEPT ![i] = "load"] /\ lock' = i
          /\ UNCHANGED <<token, tokenFile, minted, skills, cookie, refused, lost>>
      BY <1>2, NextPhaseFacts DEF Startup!LockDataDir, Startup!LockFree, Startup!Advance, Startup!Goto, Startup!kept
    <2>2. \A j \in Instances : phase[j] \in Out
      BY <1>2, StartupAssumption DEF StartInv, LockHeld, Out
    <2>3. phase'[i] = "load" /\ \A j \in Instances : j # i => phase'[j] = phase[j]
      BY <2>1 DEF StartInv, StartTyped
    <2>4. StartTyped' 
      BY <2>1 DEF StartInv, StartTyped, Phases
    <2>5. LockHeld' /\ SkillsHeld'
      BY <2>1, <2>2, <2>3 DEF LockHeld, SkillsHeld, WithSkills, Out
    <2>6. TokenHeld'
      BY <2>1, <2>2, <2>3 DEF StartInv, TokenHeld, WithToken, Out
    <2> QED BY <2>4, <2>5, <2>6 DEF StartInv
  <1> QED BY <1>1, <1>2

(* The others have nothing of the data directory open. *)
LEMMA OthersOut ==
    ASSUME StartInv, NEW i \in Instances, phase[i] \notin Out
    PROVE  \A j \in Instances : j # i => phase[j] \in Out
  BY DEF StartInv, LockHeld, Out

LEMMA LoadTokenKeeps ==
    ASSUME StartInv, NEW i \in Instances, Startup!LoadToken(i)
    PROVE  StartInv'
  <1>1. /\ phase[i] = "token" /\ phase' = [phase EXCEPT ![i] = "skills"]
        /\ UNCHANGED <<lock, skills, cookie, refused>>
    BY NextPhaseFacts DEF Startup!LoadToken, Startup!Advance, Startup!Goto
  <1>2. PICK readable \in BOOLEAN :
          /\ lost' = (lost \/ (tokenFile # 0 /\ ~readable))
          /\ IF tokenFile # 0 /\ readable
             THEN token' = [token EXCEPT ![i] = tokenFile] /\ UNCHANGED <<tokenFile, minted>>
             ELSE minted' = minted + 1 /\ tokenFile' = minted' /\ token' = [token EXCEPT ![i] = minted']
    BY DEF Startup!LoadToken, Startup!TokenKept
  <1>3. \A j \in Instances : j # i => phase[j] \in Out
    BY <1>1, OthersOut DEF Out
  <1>4. phase'[i] = "skills" /\ \A j \in Instances : j # i => phase'[j] = phase[j]
    BY <1>1 DEF StartInv, StartTyped
  <1>5. minted' \in Nat /\ DOMAIN token' = Instances /\ token'[i] = tokenFile' /\ tokenFile' # 0
    BY <1>2 DEF StartInv, StartTyped
  <1>6. StartTyped'
    BY <1>1, <1>5 DEF StartInv, StartTyped, Phases
  <1>7. LockHeld' /\ SkillsHeld'
    BY <1>1, <1>3, <1>4 DEF StartInv, LockHeld, SkillsHeld, WithSkills, Out
  <1>8. ~lost' => ~lost /\ (tokenFile # 0 => tokenFile' = tokenFile)
    BY <1>2
  <1>9. TokenHeld'
    BY <1>1, <1>3, <1>4, <1>5, <1>8 DEF StartInv, TokenHeld, WithToken, Out
  <1> QED BY <1>6, <1>7, <1>9 DEF StartInv

LEMMA InstallKeeps ==
    ASSUME StartInv, NEW i \in Instances, Startup!InstallBegins(i) \/ Startup!InstallEnds(i)
    PROVE  StartInv'
  <1>1. PICK p \in {"installing", "store"} :
          /\ phase' = [phase EXCEPT ![i] = p] /\ phase[i] \in {"skills", "installing"}
          /\ p = "store" => skills' = "whole"
          /\ UNCHANGED <<lock, token, tokenFile, minted, cookie, refused, lost>>
    BY NextPhaseFacts DEF Startup!InstallBegins, Startup!InstallEnds, Startup!Advance, Startup!Goto
  <1>2. \A j \in Instances : j # i => phase[j] \in Out
    BY <1>1, OthersOut DEF Out
  <1>3. phase'[i] = p /\ \A j \in Instances : j # i => phase'[j] = phase[j]
    BY <1>1 DEF StartInv, StartTyped
  <1>4. StartTyped'
    BY <1>1 DEF StartInv, StartTyped, Phases
  <1>5. LockHeld' /\ SkillsHeld'
    BY <1>1, <1>2, <1>3 DEF StartInv, LockHeld, SkillsHeld, WithSkills, Out
  <1>6. TokenHeld'
    BY <1>1, <1>2, <1>3 DEF StartInv, TokenHeld, WithToken, Out
  <1> QED BY <1>4, <1>5, <1>6 DEF StartInv

LEMMA ServingKeeps ==
    ASSUME StartInv, NEW i \in Instances, Startup!OpenLink(i) \/ Startup!Request(i)
    PROVE  StartInv'
  <1>1. /\ phase[i] = "serving" /\ UNCHANGED <<phase, lock, token, tokenFile, minted, skills, lost>>
        /\ \/ cookie' = token[i] /\ refused' = refused
           \/ /\ cookie' = cookie
              /\ refused' = refused \/ (cookie # token[i] /\ refused' = (refused \/ cookie # 0))
    BY DEF Startup!OpenLink, Startup!Request, Startup!Admitted
  <1>2. TokenHeld'
    BY <1>1 DEF StartInv, TokenHeld, WithToken, Out
  <1>3. StartTyped' /\ LockHeld' /\ SkillsHeld'
    BY <1>1 DEF StartInv, StartTyped, LockHeld, SkillsHeld, Out
  <1> QED BY <1>2, <1>3 DEF StartInv

LEMMA UnlockKeeps ==
    ASSUME StartInv, NEW i \in Instances, Startup!Unlock(i)
    PROVE  StartInv'
  <1>1. /\ phase[i] = "unlock" /\ phase' = [phase EXCEPT ![i] = "exiting"]
        /\ UNCHANGED <<token, tokenFile, minted, skills, cookie, refused, lost>>
    BY NextPhaseFacts DEF Startup!Unlock, Startup!Advance, Startup!Goto, Startup!kept
  <1>2. \A j \in Instances : j # i => phase[j] \in Out
    BY <1>1, OthersOut DEF Out
  <1>3. phase'[i] = "exiting" /\ \A j \in Instances : j # i => phase'[j] = phase[j]
    BY <1>1 DEF StartInv, StartTyped
  <1>4. StartTyped'
    BY <1>1 DEF StartInv, StartTyped, Phases
  <1>5. LockHeld' /\ SkillsHeld'
    BY <1>1, <1>2, <1>3 DEF LockHeld, SkillsHeld, WithSkills, Out
  <1>6. TokenHeld'
    BY <1>1, <1>2, <1>3 DEF StartInv, TokenHeld, WithToken, Out
  <1> QED BY <1>4, <1>5, <1>6 DEF StartInv

LEMMA NextStartup == StartInv /\ [Startup!Next]_(Startup!vars) => StartInv'
  <1> SUFFICES ASSUME StartInv, [Startup!Next]_(Startup!vars) PROVE StartInv'
    OBVIOUS
  <1>1. CASE UNCHANGED Startup!vars
    BY <1>1 DEF Startup!vars, StartInv, StartTyped, LockHeld, TokenHeld, SkillsHeld
  <1>2. ASSUME NEW i \in Instances, Startup!StepFails(i) \/ Startup!Exit(i) \/ Startup!Die(i)
        PROVE  StartInv'
    BY <1>2, GoneKeeps DEF Startup!StepFails, Startup!Exit, Startup!Die
  <1> QED BY <1>1, <1>2, QuietSteps, LockDataDirKeeps, LoadTokenKeeps, InstallKeeps, ServingKeeps,
             UnlockKeeps
          DEF Startup!Next, Startup!Ending

StartIsRight == Startup!OneUser /\ Startup!CookieStaysValid /\ Startup!SkillsAreWhole

LEMMA StartKeeps == StartInv => StartIsRight
  BY DEF StartInv, LockHeld, TokenHeld, SkillsHeld, WithSkills, Out, StartIsRight, Startup!OneUser,
         Startup!UsesData, Startup!CookieStaysValid, Startup!SkillsAreWhole

-----------------------------------------------------------------------------
(* An answer without an error is a list the provider gave, not too long     *)
(* ago, or the picks of a provider that gives none.                         *)
AnswerRight(a) ==
    IF ~a.catalog THEN a.models = Picks
    ELSE IF a.error THEN a.models = Recommended
    ELSE /\ a.models = Catalog!Offered(a.from)
         /\ a.at \in Nat /\ a.listed \in Nat /\ a.at - a.listed <= TTL + Timeout

CacheRight ==
    cache # nothing =>
        /\ cache.models = Catalog!Offered(cache.from)
        /\ cache.fetched \in Nat /\ cache.listed \in Nat
        /\ cache.fetched <= now /\ cache.fetched - cache.listed <= Timeout

FetchRight(r) ==
    request[r].at = "fetching" =>
        request[r].asked \in Nat /\ request[r].asked <= now /\ now - request[r].asked <= Timeout

CatalogInv ==
    /\ now \in Nat /\ CacheRight
    /\ DOMAIN request = Requests /\ \A r \in Requests : FetchRight(r)
    /\ DOMAIN answer = Requests /\ \A r \in Requests : answer[r] # nothing => AnswerRight(answer[r])

LEMMA CatalogStarts == Catalog!Init => CatalogInv
  BY DEF Catalog!Init, Catalog!Idle, CatalogInv, CacheRight, FetchRight

(* A request is answered. *)
LEMMA Answered ==
    ASSUME CatalogInv, NEW r \in Requests, NEW a, AnswerRight(a), answer' = [answer EXCEPT ![r] = a],
           UNCHANGED now, CacheRight', request' = [request EXCEPT ![r] = Catalog!Idle] \/ request' = request
    PROVE  CatalogInv'
  <1>1. DOMAIN answer' = Requests /\ \A q \in Requests : answer'[q] # nothing => AnswerRight(answer'[q])
    BY DEF CatalogInv
  <1>2. DOMAIN request' = Requests /\ \A q \in Requests : FetchRight(q)'
    BY DEF CatalogInv, FetchRight, Catalog!Idle
  <1> QED BY <1>1, <1>2 DEF CatalogInv

LEMMA AskPicksKeeps ==
    ASSUME CatalogInv, NEW r \in Requests, Catalog!AskPicks(r)
    PROVE  CatalogInv'
  <1> DEFINE a == [models |-> Picks, error |-> FALSE, catalog |-> FALSE, from |-> url, listed |-> now,
                   at |-> now, asked |-> url]
  <1>1. answer' = [answer EXCEPT ![r] = a] /\ UNCHANGED <<cache, request, now>>
    BY DEF Catalog!AskPicks
  <1>2. AnswerRight(a)
    BY DEF AnswerRight
  <1>3. CacheRight'
    BY <1>1 DEF CatalogInv, CacheRight
  <1> HIDE DEF a
  <1> QED BY <1>1, <1>2, <1>3, Answered

LEMMA AskCachedKeeps ==
    ASSUME CatalogInv, NEW r \in Requests, Catalog!AskCached(r)
    PROVE  CatalogInv'
  <1> DEFINE a == [models |-> cache.models, error |-> FALSE, catalog |-> TRUE, from |-> cache.from,
                   listed |-> cache.listed, at |-> now, asked |-> url]
  <1>1. /\ cache # nothing /\ now - cache.fetched < TTL
        /\ answer' = [answer EXCEPT ![r] = a] /\ UNCHANGED <<cache, request, now>>
    BY DEF Catalog!AskCached, Catalog!FreshEntry, Catalog!Answer
  <1>2. AnswerRight(a)
    BY <1>1, CatalogAssumption DEF AnswerRight, CatalogInv, CacheRight
  <1>3. CacheRight'
    BY <1>1 DEF CatalogInv, CacheRight
  <1> HIDE DEF a
  <1> QED BY <1>1, <1>2, <1>3, Answered

LEMMA AskFetchKeeps ==
    ASSUME CatalogInv, NEW r \in Requests, Catalog!AskFetch(r)
    PROVE  CatalogInv'
  <1>1. /\ request' = [request EXCEPT ![r] = [at |-> "fetching", url |-> url, asked |-> now]]
        /\ UNCHANGED <<cache, answer, now>>
    BY DEF Catalog!AskFetch
  <1>2. DOMAIN request' = Requests /\ \A q \in Requests : FetchRight(q)'
    BY <1>1, CatalogAssumption DEF CatalogInv, FetchRight
  <1>3. CacheRight'
    BY <1>1 DEF CatalogInv, CacheRight
  <1> QED BY <1>1, <1>2, <1>3 DEF CatalogInv

LEMMA FetchedKeeps ==
    ASSUME CatalogInv, NEW r \in Requests, Catalog!Fetched(r)
    PROVE  CatalogInv'
  <1> DEFINE u == request[r].url
  <1>1. /\ request[r].at = "fetching" /\ request' = [request EXCEPT ![r] = Catalog!Idle] /\ UNCHANGED now
    BY DEF Catalog!Fetched
  <1>2. PICK listed \in request[r].asked .. now :
          /\ cache' = [models |-> Catalog!Offered(u), fetched |-> now, from |-> u, listed |-> listed]
          /\ answer' = [answer EXCEPT ![r] = [models |-> Catalog!Offered(u), error |-> FALSE, catalog |-> TRUE,
                                              from |-> u, listed |-> listed, at |-> now, asked |-> u]]
    BY DEF Catalog!Fetched, Catalog!Answer
  <1> DEFINE a == [models |-> Catalog!Offered(u), error |-> FALSE, catalog |-> TRUE, from |-> u, listed |-> listed,
                   at |-> now, asked |-> u]
  <1>3. listed \in Nat /\ listed <= now /\ now - listed <= Timeout
    BY <1>1, <1>2, CatalogAssumption DEF CatalogInv, FetchRight
  <1>4. AnswerRight(a)
    BY <1>3, CatalogAssumption DEF AnswerRight, CatalogInv
  <1>5. CacheRight'
    BY <1>1, <1>2, <1>3, CatalogAssumption DEF CatalogInv, CacheRight
  <1>6. answer' = [answer EXCEPT ![r] = a]
    BY <1>2
  <1> HIDE DEF a
  <1> QED BY <1>1, <1>4, <1>5, <1>6, Answered

LEMMA FetchFailsKeeps ==
    ASSUME CatalogInv, NEW r \in Requests, Catalog!FetchFails(r)
    PROVE  CatalogInv'
  <1> DEFINE a == [models |-> Recommended, error |-> TRUE, catalog |-> TRUE, from |-> request[r].url,
                   listed |-> now, at |-> now, asked |-> request[r].url]
  <1>1. /\ request' = [request EXCEPT ![r] = Catalog!Idle] /\ UNCHANGED <<now, cache>>
        /\ answer' = [answer EXCEPT ![r] = a]
    BY DEF Catalog!FetchFails, Catalog!CacheAfterFailure, Catalog!Answer
  <1>2. AnswerRight(a)
    BY DEF AnswerRight
  <1>3. CacheRight'
    BY <1>1 DEF CatalogInv, CacheRight
  <1> HIDE DEF a
  <1> QED BY <1>1, <1>2, <1>3, Answered

LEMMA TickKeeps ==
    ASSUME CatalogInv, Catalog!Tick
    PROVE  CatalogInv'
  <1>1. now' = now + 1 /\ UNCHANGED <<cache, request, answer>>
    BY DEF Catalog!Tick
  <1>2. \A r \in Requests : FetchRight(r)'
    BY <1>1, CatalogAssumption DEF Catalog!Tick, CatalogInv, FetchRight
  <1>3. CacheRight'
    BY <1>1, CatalogAssumption DEF CatalogInv, CacheRight
  <1> QED BY <1>1, <1>2, <1>3 DEF CatalogInv

LEMMA NextCatalog == CatalogInv /\ [Catalog!Next]_(Catalog!vars) => CatalogInv'
  <1> SUFFICES ASSUME CatalogInv, [Catalog!Next]_(Catalog!vars) PROVE CatalogInv'
    OBVIOUS
  <1>1. ASSUME UNCHANGED <<cache, request, now>>,
               \/ UNCHANGED answer
               \/ \E r \in Requests : answer' = [answer EXCEPT ![r] = nothing]
        PROVE  CatalogInv'
    <2>1. CacheRight' /\ \A r \in Requests : FetchRight(r)'
      BY <1>1 DEF CatalogInv, CacheRight, FetchRight
    <2>2. DOMAIN answer' = Requests /\ \A r \in Requests : answer'[r] # nothing => AnswerRight(answer'[r])
      BY <1>1 DEF CatalogInv
    <2> QED BY <1>1, <2>1, <2>2 DEF CatalogInv
  <1>2. CASE UNCHANGED Catalog!vars \/ Catalog!ChangeURL \/ \E r \in Requests : Catalog!Take(r)
    BY <1>1, <1>2 DEF Catalog!vars, Catalog!ChangeURL, Catalog!Take
  <1> QED BY <1>2, AskPicksKeeps, AskCachedKeeps, AskFetchKeeps, FetchedKeeps, FetchFailsKeeps, TickKeeps DEF Catalog!Next

CatalogIsRight == Catalog!AnswerIsFresh /\ Catalog!OffersOnlyToolModels

LEMMA CatalogKeeps == CatalogInv => CatalogIsRight
  <1> SUFFICES ASSUME CatalogInv, NEW a \in Catalog!Answers
               PROVE  /\ a.catalog /\ ~a.error => a.at - a.listed <= TTL + Timeout
                      /\ IF ~a.catalog THEN a.models = Picks
                         ELSE IF a.error THEN a.models = Recommended
                         ELSE a.models = {e.id : e \in {e \in Listed[a.from] : e.tools # "no" /\ ~e.batch}}
    BY DEF CatalogIsRight, Catalog!AnswerIsFresh, Catalog!OffersOnlyToolModels
  <1>1. AnswerRight(a)
    BY DEF CatalogInv, Catalog!Answers
  <1>2. Catalog!Offered(a.from) = {e.id : e \in {e \in Listed[a.from] : e.tools # "no" /\ ~e.batch}}
    BY DEF Catalog!Offered
  <1> QED BY <1>1, <1>2 DEF AnswerRight

-----------------------------------------------------------------------------
(* The files of a workspace. *)

Ind == INSTANCE FoldInduction WITH Op <- +

Views == [name : Files!NameSet, dir : BOOLEAN]

(* Entries of different names. *)
Different(V) == V \subseteq Views /\ \A u, v \in V : u.name = v.name => u = v

LEMMA RankFacts ==
    ASSUME NEW n \in Files!NameSet
    PROVE  Files!Rank(n) \in 1 .. Len(FileNames) /\ FileNames[Files!Rank(n)] = n
  <1>1. \E i \in DOMAIN FileNames : FileNames[i] = n
    BY DEF Files!NameSet
  <1>2. Files!Rank(n) \in DOMAIN FileNames /\ FileNames[Files!Rank(n)] = n
    BY <1>1 DEF Files!Rank
  <1> QED BY <1>2, FilesAssumption

(* The place of an entry in a full listing. *)
Weight(v) == (IF v.dir THEN 0 ELSE Len(FileNames)) + Files!Rank(v.name)

LEMMA WeightFacts ==
    /\ Len(FileNames) \in Nat
    /\ \A v \in Views : Weight(v) \in Nat /\ Weight(v) >= 1 /\ Weight(v) <= 2 * Len(FileNames)
    /\ \A u, v \in Views : Weight(u) < Weight(v) <=> Files!Before(u, v)
    /\ \A u, v \in Views : Weight(u) = Weight(v) => u.name = v.name
  <1>1. Len(FileNames) \in Nat
    BY FilesAssumption
  <1>2. ASSUME NEW v \in Views
        PROVE  /\ v.dir \in BOOLEAN /\ v.name \in Files!NameSet
               /\ Files!Rank(v.name) \in 1 .. Len(FileNames) /\ FileNames[Files!Rank(v.name)] = v.name
    BY RankFacts DEF Views
  <1>3. \A v \in Views : Weight(v) \in Nat /\ Weight(v) >= 1 /\ Weight(v) <= 2 * Len(FileNames)
    BY <1>1, <1>2 DEF Weight
  <1>4. ASSUME NEW u \in Views, NEW v \in Views
        PROVE  Weight(u) < Weight(v) <=> Files!Before(u, v)
    BY <1>1, <1>2 DEF Weight, Files!Before
  <1>5. ASSUME NEW u \in Views, NEW v \in Views, Weight(u) = Weight(v)
        PROVE  u.name = v.name
    <2>1. Files!Rank(u.name) = Files!Rank(v.name)
      BY <1>1, <1>2, <1>5 DEF Weight
    <2> QED BY <1>2, <2>1
  <1> QED BY <1>1, <1>3, <1>4, <1>5

(* A listing of V: every entry once, in order. *)
IsListing(s, V) ==
    s \in [1 .. Cardinality(V) -> V] /\ Files!InListing(s, V)

LEMMA CanBeListed ==
    ASSUME NEW V, Different(V)
    PROVE  \E s : IsListing(s, V)
  <1> DEFINE Upto(m) == \A T : Different(T) /\ (\A v \in T : Weight(v) <= m)
                               => IsFiniteSet(T) /\ \E s : IsListing(s, T)
             S == {m \in Nat : Upto(m)}
  <1>1. 0 \in S
    <2> SUFFICES ASSUME NEW T, Different(T), \A v \in T : Weight(v) <= 0
                 PROVE  IsFiniteSet(T) /\ \E s : IsListing(s, T)
      OBVIOUS
    <2>1. T = {}
      BY WeightFacts DEF Different
    <2>2. IsFiniteSet(T) /\ Cardinality(T) = 0
      BY <2>1, FS_EmptySet
    <2>3. IsListing(<<>>, T)
      <3>1. <<>> \in [1 .. 0 -> T] /\ DOMAIN <<>> = {}
        BY <2>1
      <3> QED BY <2>1, <2>2, <3>1 DEF IsListing, Files!InListing
    <2> QED BY <2>2, <2>3
  <1>2. ASSUME NEW m \in Nat, m \in S
        PROVE  m + 1 \in S
    <2> SUFFICES ASSUME NEW T, Different(T), \A v \in T : Weight(v) <= m + 1
                 PROVE  IsFiniteSet(T) /\ \E s : IsListing(s, T)
      OBVIOUS
    <2>0. Upto(m)
      BY <1>2
    <2>1. CASE \A v \in T : Weight(v) # m + 1
      <3>1. \A v \in T : Weight(v) <= m
        BY <2>1, WeightFacts DEF Different
      <3> QED BY <2>0, <3>1
    <2>2. CASE \E v \in T : Weight(v) = m + 1
      <3>1. PICK v \in T : Weight(v) = m + 1
        BY <2>2
      <3> DEFINE Y == T \ {v}
      <3>2. Different(Y) /\ T = Y \cup {v} /\ v \notin Y /\ Y \subseteq Views /\ v \in Views
        BY DEF Different
      <3>3. \A u \in Y : Weight(u) <= m /\ Weight(u) < Weight(v)
        BY <3>1, WeightFacts DEF Different
      <3> HIDE DEF Y
      <3>4. IsFiniteSet(Y) /\ \E s : IsListing(s, Y)
        BY <2>0, <3>2, <3>3
      <3>5. PICK s : IsListing(s, Y)
        BY <3>4
      <3> DEFINE n == Cardinality(Y)
      <3>6. n \in Nat /\ IsFiniteSet(T) /\ Cardinality(T) = n + 1
        BY <3>2, <3>4, FS_AddElement, FS_CardinalityType
      <3> DEFINE t == [i \in 1 .. n + 1 |-> IF i = n + 1 THEN v ELSE s[i]]
      <3> HIDE DEF n
      <3>7. s \in [1 .. n -> Y] /\ DOMAIN s = 1 .. n
        BY <3>5 DEF IsListing, Files!InListing, n
      <3>8. t \in [1 .. n + 1 -> T] /\ DOMAIN t = 1 .. n + 1 /\ t[n + 1] = v /\ \A i \in 1 .. n : t[i] = s[i]
        BY <3>2, <3>6, <3>7
      <3> HIDE DEF t
      <3>9. \A u \in T : \E i \in DOMAIN t : t[i] = u
        <4> SUFFICES ASSUME NEW u \in T PROVE \E i \in DOMAIN t : t[i] = u
          OBVIOUS
        <4>1. CASE u = v
          BY <3>6, <3>8, <4>1
        <4>2. CASE u # v
          <5>1. PICK i \in 1 .. n : s[i] = u
            BY <3>2, <3>5, <3>7, <4>2 DEF IsListing, Files!InListing
          <5> QED BY <3>6, <3>8, <5>1
        <4> QED BY <4>1, <4>2
      <3>10. ASSUME NEW i \in DOMAIN t, NEW j \in DOMAIN t, i < j
             PROVE  Files!Before(t[i], t[j])
        <4>1. i \in 1 .. n /\ t[i] = s[i] /\ s[i] \in Y
          BY <3>6, <3>7, <3>8, <3>10
        <4>2. CASE j = n + 1
          BY <3>2, <3>3, <3>8, <4>1, <4>2, WeightFacts
        <4>3. CASE j # n + 1
          <5>1. j \in 1 .. n /\ t[j] = s[j]
            BY <3>6, <3>8, <4>3
          <5> QED BY <3>5, <3>7, <3>10, <4>1, <5>1 DEF IsListing, Files!InListing
        <4> QED BY <4>2, <4>3
      <3>11. IsListing(t, T)
        BY <3>6, <3>8, <3>9, <3>10 DEF IsListing, Files!InListing
      <3> QED BY <3>6, <3>11
    <2> QED BY <2>1, <2>2
  <1>3. \A m \in Nat : m \in S
    <2> HIDE DEF S
    <2> QED BY <1>1, <1>2, Ind!Induction
  <1>4. 2 * Len(FileNames) \in Nat /\ \A v \in V : Weight(v) <= 2 * Len(FileNames)
    BY WeightFacts DEF Different
  <1>5. Upto(2 * Len(FileNames))
    BY <1>3, <1>4
  <1> QED BY <1>4, <1>5

-----------------------------------------------------------------------------
RequestShape(q) ==
    q \in [at : {"idle", "open", "inspect", "found"}, kind : {q.kind}, session : {q.session}, root : {q.root},
           hidden : {q.hidden}, name : {q.name}, types : {q.types}, pending : SUBSET Files!NameSet,
           views : SUBSET Views, steady : SUBSET Files!NameSet]

(* A request knows the workspace of its session; what was there all the     *)
(* time is still there, and is seen or will be.                             *)
RequestRight(q, of, there) ==
    /\ RequestShape(q)
    /\ q.session # nothing => q.session \in Sessions /\ of[q.session] # nothing /\ q.root = of[q.session]
    /\ q.at # "idle" => q.root \in Workspaces
    /\ q.at = "idle" => q.steady = {}
    /\ \A n \in q.steady : there[q.root][n] # "none"
    /\ q.at = "found" /\ q.name \in q.steady => there[q.root][q.name] # "outside"
    /\ q.at # "inspect" => q.views = {}
    /\ Different(q.views) /\ \A v \in q.views : v.name \notin q.pending
    /\ q.at = "inspect" =>
         \A n \in q.steady : \/ n \in q.pending \/ (n \in Hidden /\ ~q.hidden)
                             \/ \E v \in q.views : v.name = n

FilesTyped ==
    /\ DOMAIN disk = Workspaces /\ \A w \in Workspaces : DOMAIN disk[w] = Files!NameSet
    /\ workspace \in Workspaces
    /\ own = meta /\ meta \in [Sessions -> Workspaces \cup {nothing}]

FilesAreRight == Files!OwnWorkspace /\ Files!SteadyIsListed /\ Files!InOrder

FilesInv == FilesTyped /\ RequestRight(req, meta, disk) /\ FilesAreRight

LEMMA IdleRight == \A of, there : RequestRight(Files!Idle, of, there)
  BY DEF Files!Idle, RequestRight, RequestShape, Different

LEMMA NoAnswerFacts ==
    /\ Files!NoAnswer.session = nothing /\ Files!NoAnswer.status = 0 /\ Files!NoAnswer.entries = <<>>
    /\ Files!NoAnswer.away = {}
  BY DEF Files!NoAnswer

LEMMA FilesStart == Files!Init => FilesInv
  <1> SUFFICES ASSUME Files!Init PROVE FilesInv
    OBVIOUS
  <1>1. FilesTyped
    BY DEF Files!Init, FilesTyped
  <1>2. RequestRight(req, meta, disk)
    BY IdleRight DEF Files!Init
  <1>3. FilesAreRight
    BY NoAnswerFacts DEF Files!Init, FilesAreRight, Files!OwnWorkspace, Files!SteadyIsListed, Files!InOrder
  <1> QED BY <1>1, <1>2, <1>3 DEF FilesInv

(* An answer is given. *)
Ordered(s) ==
    \A i, j \in DOMAIN s : i < j =>
        \/ s[i].dir = s[j].dir /\ Files!Rank(s[i].name) < Files!Rank(s[j].name)
        \/ s[i].dir /\ ~s[j].dir

(* What an answer shows is in the workspace, or was put there meanwhile. *)
InPlace(entries) ==
    Files!Away(entries) \cap req.steady = {} /\ (req.kind # "text" => Files!Away(entries) = {})

LEMMA Replied ==
    ASSUME FilesInv, NEW code, NEW entries, Files!Reply(code, entries), Ordered(entries), InPlace(entries),
           req.kind = "files" /\ code = 200 =>
               \A n \in req.steady \ (IF req.hidden THEN {} ELSE Hidden) :
                   \E i \in DOMAIN entries : entries[i].name = n,
           UNCHANGED <<disk, present, workspace, meta, own>>
    PROVE  FilesInv'
  <1>1. /\ listing'.session = req.session /\ listing'.root = req.root /\ listing'.kind = req.kind
        /\ listing'.status = code /\ listing'.hidden = req.hidden /\ listing'.steady = req.steady
        /\ listing'.entries = entries /\ listing'.away = Files!Away(entries) /\ req' = Files!Idle
    BY DEF Files!Reply
  <1>2. FilesTyped'
    BY DEF FilesInv, FilesTyped
  <1>3. RequestRight(req', meta', disk')
    BY <1>1, IdleRight
  <1>4. Files!OwnWorkspace'
    BY <1>1 DEF FilesInv, FilesTyped, RequestRight, Files!OwnWorkspace, InPlace
  <1>5. Files!SteadyIsListed'
    BY <1>1 DEF Files!SteadyIsListed
  <1>6. Files!InOrder'
    BY <1>1 DEF Files!InOrder, Ordered, Files!Rank
  <1> QED BY <1>2, <1>3, <1>4, <1>5, <1>6 DEF FilesInv, FilesAreRight

(* The request goes on. *)
LEMMA GoesOn ==
    ASSUME FilesInv, RequestRight(req', meta, disk), UNCHANGED <<disk, workspace, meta, own, listing>>
    PROVE  FilesInv'
  BY DEF FilesInv, FilesTyped, FilesAreRight, Files!OwnWorkspace, Files!SteadyIsListed, Files!InOrder, Files!Rank

LEMMA ChangeKeeps ==
    ASSUME FilesInv, NEW w \in Workspaces, NEW n \in Files!NameSet, Files!Change(w, n)
    PROVE  FilesInv'
  <1>1. PICK k \in Files!Kinds : disk' = [disk EXCEPT ![w][n] = k]
    BY DEF Files!Change
  <1>2. /\ UNCHANGED <<workspace, meta, own, listing>>
        /\ req' = IF req.root = w THEN [req EXCEPT !.steady = @ \ {n}] ELSE req
    BY DEF Files!Change
  <1>3. /\ DOMAIN disk' = Workspaces /\ \A x \in Workspaces : DOMAIN disk'[x] = Files!NameSet
        /\ \A x \in Workspaces, m \in Files!NameSet : x # w \/ m # n => disk'[x][m] = disk[x][m]
    BY <1>1 DEF FilesInv, FilesTyped
  <1>4. FilesTyped'
    BY <1>2, <1>3 DEF FilesInv, FilesTyped
  <1>5. FilesAreRight'
    BY <1>2 DEF FilesInv, FilesAreRight, Files!OwnWorkspace, Files!SteadyIsListed, Files!InOrder, Files!Rank
  <1>6. RequestRight(req', meta, disk')
    <2>0. RequestRight(req, meta, disk) /\ RequestShape(req)
      BY DEF FilesInv, RequestRight
    <2>1. CASE req.root # w
      BY <1>2, <1>3, <2>0, <2>1 DEF RequestRight, RequestShape
    <2>2. CASE req.root = w
      <3> DEFINE q == [req EXCEPT !.steady = @ \ {n}]
      <3>1. /\ RequestShape(q) /\ q.at = req.at /\ q.session = req.session /\ q.root = req.root /\ q.name = req.name
            /\ q.hidden = req.hidden /\ q.pending = req.pending /\ q.views = req.views
            /\ q.steady = req.steady \ {n}
        BY <2>0 DEF RequestShape
      <3>2. req' = q
        BY <1>2, <2>2
      <3> HIDE DEF q
      <3>3. \A m \in q.steady : m \in req.steady /\ m \in Files!NameSet /\ m # n
        BY <2>0, <3>1 DEF RequestShape
      <3>4. \A m \in q.steady : disk'[q.root][m] # "none"
        BY <1>3, <2>0, <2>2, <3>1, <3>3 DEF RequestRight
      <3>5. q.at = "found" /\ q.name \in q.steady => disk'[q.root][q.name] # "outside"
        BY <1>3, <2>0, <2>2, <3>1, <3>3 DEF RequestRight
      <3>6. RequestRight(q, meta, disk')
        BY <2>0, <3>1, <3>3, <3>4, <3>5 DEF RequestRight
      <3> QED BY <3>2, <3>6
    <2> QED BY <2>1, <2>2
  <1> QED BY <1>2, <1>4, <1>5, <1>6 DEF FilesInv

LEMMA CreateSessionKeeps ==
    ASSUME FilesInv, NEW s \in Sessions, Files!CreateSession(s)
    PROVE  FilesInv'
  <1>1. /\ listing = Files!NoAnswer /\ meta[s] = nothing /\ UNCHANGED <<disk, workspace, req, listing>>
        /\ meta' = [meta EXCEPT ![s] = workspace] /\ own' = [own EXCEPT ![s] = workspace]
    BY DEF Files!CreateSession
  <1>2. FilesTyped'
    BY <1>1 DEF FilesInv, FilesTyped
  <1>3. RequestRight(req, meta', disk)
    <2>1. \A x \in Sessions : x # s => meta'[x] = meta[x]
      BY <1>1 DEF FilesInv, FilesTyped
    <2> QED BY <1>1, <2>1 DEF FilesInv, RequestRight
  <1>4. FilesAreRight'
    BY <1>1, NoAnswerFacts DEF FilesAreRight, Files!OwnWorkspace, Files!SteadyIsListed, Files!InOrder
  <1> QED BY <1>1, <1>2, <1>3, <1>4 DEF FilesInv

LEMMA ConfigureKeeps ==
    ASSUME FilesInv, NEW w \in Workspaces, Files!Configure(w) \/ Files!RemoveWorkspace(w)
    PROVE  FilesInv'
  <1>1. UNCHANGED <<disk, meta, own, req, listing>> /\ workspace' \in Workspaces
    BY DEF Files!Configure, Files!RemoveWorkspace, FilesInv, FilesTyped
  <1> QED BY <1>1 DEF FilesInv, FilesTyped, FilesAreRight, Files!OwnWorkspace, Files!SteadyIsListed, Files!InOrder,
                      Files!Rank

(* A request is refused at once. *)
LEMMA RefusedKeeps ==
    ASSUME FilesInv, NEW kind, listing' = [Files!NoAnswer EXCEPT !.status = 400, !.kind = kind]
                                 \/ listing' = [Files!NoAnswer EXCEPT !.status = 400]
                                 \/ listing' = Files!NoAnswer,
           UNCHANGED <<disk, workspace, meta, own, req>>
    PROVE  FilesInv'
  <1> DEFINE a == [Files!NoAnswer EXCEPT !.status = 400, !.kind = kind]
             b == [Files!NoAnswer EXCEPT !.status = 400]
  <1>a. a.session = nothing /\ a.status # 200 /\ a.entries = <<>> /\ a.away = {}
    BY DEF Files!NoAnswer
  <1>b. b.session = nothing /\ b.status # 200 /\ b.entries = <<>> /\ b.away = {}
    BY DEF Files!NoAnswer
  <1>c. listing' = a \/ listing' = b \/ listing' = Files!NoAnswer
    OBVIOUS
  <1> HIDE DEF a, b
  <1>1. listing'.session = nothing /\ listing'.status # 200 /\ listing'.entries = <<>> /\ listing'.away = {}
    BY <1>a, <1>b, <1>c, NoAnswerFacts
  <1>2. FilesAreRight'
    BY <1>1 DEF FilesAreRight, Files!OwnWorkspace, Files!SteadyIsListed, Files!InOrder
  <1> QED BY <1>2 DEF FilesInv, FilesTyped

LEMMA AskKeeps ==
    ASSUME FilesInv, NEW kind, NEW s \in Sessions \cup {nothing}, NEW n, NEW hidden, Files!Ask(kind, s, n, hidden)
    PROVE  FilesInv'
  <1> DEFINE w == Files!WorkspaceOf(s)
             there == {m \in Files!NameSet : disk[w][m] # "none"}
             q == [Files!Idle EXCEPT !.at = "open", !.kind = kind, !.session = s, !.root = w,
                                     !.hidden = hidden, !.name = n, !.steady = there]
  <1>1. /\ UNCHANGED <<disk, workspace, meta, own>> /\ (s # nothing => meta[s] # nothing)
        /\ \/ req' = q /\ listing' = listing
           \/ listing' = [Files!NoAnswer EXCEPT !.status = 400, !.kind = kind] /\ req' = req
    BY DEF Files!Ask
  <1>2. CASE req' = q /\ listing' = listing
    <2>1. w \in Workspaces /\ (s # nothing => s \in Sessions /\ w = meta[s])
      BY <1>1 DEF Files!WorkspaceOf, FilesInv, FilesTyped
    <2> HIDE DEF w
    <2>2. there \subseteq Files!NameSet /\ \A m \in there : disk[w][m] # "none"
      OBVIOUS
    <2> HIDE DEF there
    <2>e. q = [Files!Idle EXCEPT !.at = "open", !.kind = kind, !.session = s, !.root = w,
                                 !.hidden = hidden, !.name = n, !.steady = there]
      OBVIOUS
    <2> HIDE DEF q
    <2>3. q = [at |-> "open", kind |-> kind, session |-> s, root |-> w, hidden |-> hidden, name |-> n,
               types |-> <<>>, pending |-> {}, views |-> {}, steady |-> there]
      BY <2>e DEF Files!Idle
    <2>4. RequestShape(q)
      BY <2>2, <2>3 DEF RequestShape
    <2>5. /\ q.at = "open" /\ q.session = s /\ q.root = w /\ q.pending = {} /\ q.views = {} /\ q.steady = there
      BY <2>3
    <2>6. RequestRight(q, meta, disk)
      BY <1>1, <2>1, <2>2, <2>4, <2>5 DEF RequestRight, Different
    <2> QED BY <1>1, <1>2, <2>6, GoesOn
  <1>3. CASE listing' = [Files!NoAnswer EXCEPT !.status = 400, !.kind = kind] /\ req' = req
    BY <1>1, <1>3, RefusedKeeps
  <1> QED BY <1>1, <1>2, <1>3

LEMMA ReadDirKeeps ==
    ASSUME FilesInv, Files!ReadDir
    PROVE  FilesInv'
  <1> DEFINE there == {n \in Files!NameSet : disk[req.root][n] # "none"}
             q == [req EXCEPT !.at = "inspect", !.types = disk[req.root], !.pending = there]
  <1>1. req.at = "open" /\ req' = q /\ UNCHANGED <<disk, workspace, meta, own, listing>>
    BY DEF Files!ReadDir
  <1>2. RequestRight(req, meta, disk) /\ RequestShape(req)
    BY DEF FilesInv, RequestRight
  <1>3. there \subseteq Files!NameSet /\ \A n \in req.steady : n \in there
    BY <1>2 DEF RequestRight, RequestShape
  <1> HIDE DEF there
  <1>e. q = [req EXCEPT !.at = "inspect", !.types = disk[req.root], !.pending = there]
    OBVIOUS
  <1> HIDE DEF q
  <1>4. q = [at |-> "inspect", kind |-> req.kind, session |-> req.session, root |-> req.root,
             hidden |-> req.hidden, name |-> req.name, types |-> disk[req.root], pending |-> there,
             views |-> req.views, steady |-> req.steady]
    BY <1>2, <1>e DEF RequestShape
  <1>5. RequestShape(q)
    BY <1>2, <1>3, <1>4 DEF RequestShape
  <1>6. /\ q.at = "inspect" /\ q.session = req.session /\ q.root = req.root /\ q.hidden = req.hidden
        /\ q.pending = there /\ q.views = req.views /\ q.steady = req.steady
    BY <1>4
  <1>7. RequestRight(q, meta, disk)
    BY <1>1, <1>2, <1>3, <1>5, <1>6 DEF RequestRight
  <1> QED BY <1>1, <1>7, GoesOn

LEMMA InspectKeeps ==
    ASSUME FilesInv, NEW n \in Files!NameSet, Files!Inspect(n)
    PROVE  FilesInv'
  <1> DEFINE gone == disk[req.root][n] = "none"
             isDir == IF req.types[n] \in Files!Links THEN Files!Found(n) /\ Files!IsDir(disk[req.root][n])
                     ELSE Files!IsDir(req.types[n])
             skip == gone \/ (n \in Hidden /\ ~req.hidden)
             seen == IF skip THEN req.views ELSE req.views \cup {[name |-> n, dir |-> isDir]}
             left == req.pending \ {n}
             q == [req EXCEPT !.views = seen, !.pending = left]
  <1>1. req.at = "inspect" /\ n \in req.pending /\ req' = q /\ UNCHANGED <<disk, workspace, meta, own, listing>>
    BY DEF Files!Inspect, Files!Remaining
  <1>2. RequestRight(req, meta, disk) /\ RequestShape(req)
    BY DEF FilesInv, RequestRight
  <1>3. isDir \in BOOLEAN
    <2>1. Files!IsDir(req.types[n]) \in BOOLEAN
      BY DEF Files!IsDir
    <2>2. (Files!Found(n) /\ Files!IsDir(disk[req.root][n])) \in BOOLEAN
      OBVIOUS
    <2> QED BY <2>1, <2>2
  <1>4. [name |-> n, dir |-> isDir] \in Views /\ [name |-> n, dir |-> isDir].name = n
    BY <1>3 DEF Views
  <1> HIDE DEF isDir
  <1>5. Different(seen) /\ seen \subseteq Views /\ \A v \in seen : v.name \notin left
    BY <1>1, <1>2, <1>4 DEF RequestRight, Different
  <1>6. \A m \in req.steady : \/ m \in left \/ (m \in Hidden /\ ~req.hidden) \/ \E v \in seen : v.name = m
    BY <1>1, <1>2, <1>4 DEF RequestRight
  <1> HIDE DEF seen
  <1>e. q = [req EXCEPT !.views = seen, !.pending = left]
    OBVIOUS
  <1> HIDE DEF q, left
  <1>7. q = [at |-> req.at, kind |-> req.kind, session |-> req.session, root |-> req.root,
             hidden |-> req.hidden, name |-> req.name, types |-> req.types, pending |-> left,
             views |-> seen, steady |-> req.steady]
    BY <1>2, <1>e DEF RequestShape
  <1>8. RequestShape(q)
    BY <1>2, <1>5, <1>7 DEF RequestShape, left
  <1>9. /\ q.at = req.at /\ q.session = req.session /\ q.root = req.root /\ q.hidden = req.hidden
        /\ q.pending = left /\ q.views = seen /\ q.steady = req.steady
    BY <1>7
  <1>10. RequestRight(q, meta, disk)
    BY <1>1, <1>2, <1>5, <1>6, <1>8, <1>9 DEF RequestRight
  <1> QED BY <1>1, <1>10, GoesOn

LEMMA AnswerFilesKeeps ==
    ASSUME FilesInv, Files!AnswerFiles
    PROVE  FilesInv'
  <1>1. /\ req.at = "inspect" /\ req.kind = "files" /\ req.pending = {} /\ Files!Reply(200, Files!Sorted)
        /\ UNCHANGED <<disk, present, workspace, meta, own>>
    BY DEF Files!AnswerFiles
  <1>2. RequestRight(req, meta, disk)
    BY DEF FilesInv
  <1> DEFINE s == Files!Sorted
  <1>3. IsListing(s, req.views)
    <2>1. \E t : IsListing(t, req.views)
      BY <1>2, CanBeListed DEF RequestRight
    <2> DEFINE F == [1 .. Cardinality(req.views) -> req.views]
    <2>2. \E t \in F : Files!InListing(t, req.views)
      BY <2>1 DEF IsListing
    <2>3. s = CHOOSE t \in F : Files!InListing(t, req.views)
      BY Zenon DEF Files!Sorted, Files!Cardinality, Cardinality
    <2> HIDE DEF F, s
    <2>4. s \in F /\ Files!InListing(s, req.views)
      BY <2>2, <2>3, Zenon
    <2> QED BY <2>4 DEF IsListing, F
  <1> HIDE DEF s
  <1>4. \A i \in DOMAIN s : s[i] \in Views
    BY <1>2, <1>3 DEF IsListing, Files!InListing, RequestRight, Different
  <1>5. Ordered(s)
    BY <1>3, <1>4 DEF IsListing, Files!InListing, Ordered, Files!Before, Views
  <1>6. \A n \in req.steady \ (IF req.hidden THEN {} ELSE Hidden) : \E i \in DOMAIN s : s[i].name = n
    <2> SUFFICES ASSUME NEW n \in req.steady \ (IF req.hidden THEN {} ELSE Hidden)
                 PROVE  \E i \in DOMAIN s : s[i].name = n
      OBVIOUS
    <2>1. PICK v \in req.views : v.name = n
      BY <1>1, <1>2 DEF RequestRight
    <2>2. PICK i \in DOMAIN s : s[i] = v
      BY <1>3 DEF IsListing, Files!InListing
    <2> QED BY <2>1, <2>2
  <1>7. Files!Reply(200, s)
    BY <1>1 DEF s
  <1>8. InPlace(s)
    BY <1>1 DEF InPlace, Files!Away
  <1> QED BY <1>1, <1>5, <1>6, <1>7, <1>8, Replied

(* The answers that show one file, or none. *)
LEMMA ShortAnswers ==
    ASSUME FilesInv, req.kind # "files", NEW code, NEW entries, Files!Reply(code, entries),
           entries = <<>> \/ (InPlace(entries) /\ \E e : entries = <<e>>), UNCHANGED <<disk, present, workspace, meta, own>>
    PROVE  FilesInv'
  <1>1. Ordered(entries)
    <2>1. DOMAIN entries \subseteq {1}
      OBVIOUS
    <2> QED BY <2>1 DEF Ordered
  <1>2. InPlace(entries)
    BY DEF InPlace, Files!Away
  <1> QED BY <1>1, <1>2, Replied

LEMMA ShowsKeep ==
    ASSUME FilesInv, Files!Raw \/ Files!Look \/ Files!AnswerText \/ Files!StartProgram
    PROVE  FilesInv'
  <1> DEFINE one == <<[name |-> req.name, dir |-> FALSE]>>
             Short == \E code : Files!Reply(code, <<>>) \/ (Files!Reply(code, one) /\ InPlace(one))
  <1>0. req.kind # "files" /\ UNCHANGED <<disk, present, workspace, meta, own>>
    BY DEF Files!Raw, Files!Look, Files!AnswerText, Files!StartProgram
  <1>a. \E e : one = <<e>>
    OBVIOUS
  <1>b. Files!Away(one) \subseteq {req.name} /\ (disk[req.root][req.name] # "outside" => Files!Away(one) = {})
    BY DEF Files!Away
  <1>c. RequestRight(req, meta, disk) /\ RequestShape(req)
    BY DEF FilesInv, RequestRight
  <1> HIDE DEF one
  <1>1. CASE Short
    BY <1>0, <1>1, <1>a, ShortAnswers
  <1>2. CASE /\ req.at = "open" /\ disk[req.root][req.name] # "outside"
             /\ req' = [req EXCEPT !.at = "found"] /\ UNCHANGED listing
    <2> DEFINE q == [req EXCEPT !.at = "found"]
    <2>2. /\ RequestShape(q) /\ q.at = "found" /\ q.session = req.session /\ q.root = req.root /\ q.name = req.name
          /\ q.pending = req.pending /\ q.views = req.views /\ q.steady = req.steady
      BY <1>c DEF RequestShape
    <2> HIDE DEF q
    <2>3. RequestRight(q, meta, disk)
      BY <1>2, <1>c, <2>2 DEF RequestRight
    <2>4. req' = q
      BY <1>2 DEF q
    <2> QED BY <1>0, <1>2, <2>3, <2>4, GoesOn
  <1>3. Files!Raw => Short
    BY <1>b DEF Files!Raw, Files!Found, InPlace, one
  <1>4. Files!AnswerText => Short
    <2> SUFFICES ASSUME Files!AnswerText PROVE Short
      OBVIOUS
    <2>1. req.kind = "text" /\ req.at = "found" /\ (Files!Reply(422, <<>>) \/ Files!Reply(200, one))
      BY DEF Files!AnswerText, one
    <2>2. InPlace(one)
      BY <1>b, <1>c, <2>1 DEF RequestRight, InPlace
    <2> QED BY <2>1, <2>2
  <1>5. Files!StartProgram => Short
    BY DEF Files!StartProgram
  <1>6. Files!Look => \/ Short
                      \/ /\ req.at = "open" /\ disk[req.root][req.name] # "outside"
                         /\ req' = [req EXCEPT !.at = "found"] /\ UNCHANGED listing
    BY DEF Files!Look, Files!Found
  <1> HIDE DEF Short
  <1> QED BY <1>1, <1>2, <1>3, <1>4, <1>5, <1>6

LEMMA NextFiles == FilesInv /\ [Files!Next]_(Files!vars) => FilesInv'
  <1> SUFFICES ASSUME FilesInv, [Files!Next]_(Files!vars) PROVE FilesInv'
    OBVIOUS
  <1>1. CASE UNCHANGED Files!vars
    BY <1>1, GoesOn DEF Files!vars, FilesInv
  <1>2. ASSUME NEW s \in Sessions, Files!AskUnknown(s) PROVE FilesInv'
    BY <1>2, RefusedKeeps DEF Files!AskUnknown
  <1>3. CASE Files!Take
    BY <1>3, RefusedKeeps DEF Files!Take
  <1>4. ASSUME NEW s \in Sessions \cup {nothing},
               \/ \E hidden \in BOOLEAN : Files!Ask("files", s, nothing, hidden)
               \/ \E kind \in {"raw", "text", "open"}, n \in Files!NameSet : Files!Ask(kind, s, n, FALSE)
        PROVE  FilesInv'
    BY <1>4, AskKeeps
  <1>5. CASE \E w \in Workspaces : \/ Files!Configure(w) \/ Files!RemoveWorkspace(w)
                                   \/ \E n \in Files!NameSet : Files!Change(w, n)
    BY <1>5, ConfigureKeeps, ChangeKeeps
  <1>6. CASE \E n \in Files!NameSet : Files!Inspect(n)
    BY <1>6, InspectKeeps
  <1> QED BY <1>1, <1>2, <1>3, <1>4, <1>5, <1>6, CreateSessionKeeps, ReadDirKeeps, AnswerFilesKeeps, ShowsKeep
          DEF Files!Next

LEMMA FilesKeep == FilesInv => FilesAreRight
  BY DEF FilesInv

-----------------------------------------------------------------------------
(* The parts together. *)

LEMMA DataFollows == SettingsInv /\ TableInv /\ UploadInv => DataIsKept
  BY SettingsKeep, TableKeeps DEF SettingsAreRight, TableIsRight, UploadInv, DataIsKept

LEMMA ServedFollows == StartInv /\ CatalogInv /\ FilesInv => ServedIsRight
  BY StartKeeps, CatalogKeeps DEF StartIsRight, CatalogIsRight, FilesInv, FilesAreRight, ServedIsRight

(* Whatever crashes, saves that fail and requests that overlap: the saved  *)
(* configuration is the acknowledged one and the process has its           *)
(* variables, listed sessions have their files, created ones stay and      *)
(* deleted ones are gone once a list without them was saved (a deletion is *)
(* also acknowledged without, if the file is missing), and a reported      *)
(* upload is whole and its own, parts being left only by unanswered        *)
(* requests (config.go, app.go, server.go:handleDelete, handleUpload).     *)
THEOREM DataAlwaysKept == Settings!Spec /\ Table!Spec /\ Upload!Spec => []DataIsKept
  BY DataFollows, SettingsStart, NextSettings, TableStarts, NextTable, UploadStarts, NextUploads, PTL
     DEF Settings!Spec, Table!Spec, Upload!Spec

(* However often the app is started, twice at a time or after it died: one *)
(* process uses the data directory, but for coordinators that outlast its  *)
(* shutdown, a cookie stays valid and the skills are whole; the models of  *)
(* a catalog are fresh, however requests overlap; and the files shown are  *)
(* those of the chat's workspace, none missing and in order, whatever      *)
(* changes meanwhile, but for the text of a file that is replaced by a     *)
(* link while it is read (main.go, config.go:models, server.go:            *)
(* handleFiles, handleText).                                               *)
THEOREM ServedAlwaysRight == Startup!Spec /\ Catalog!Spec /\ Files!Spec => []ServedIsRight
  BY ServedFollows, StartStarts, NextStartup, CatalogStarts, NextCatalog, FilesStart, NextFiles, PTL
     DEF Startup!Spec, Catalog!Spec, Files!Spec

GuiInv ==
    /\ GateInv /\ StreamInv /\ SettingsInv /\ CatalogInv /\ TableInv /\ UploadInv /\ StartInv /\ FilesInv

(* A step of the GUI is one, or none, of each part. *)
LEMMA StepsOfParts ==
    ASSUME [GuiNext]_guiVars
    PROVE  /\ [Next]_vars /\ [Stream!Next]_(Stream!vars) /\ [Settings!Next]_(Settings!vars)
           /\ [Catalog!Next]_(Catalog!vars) /\ [Table!Next]_(Table!vars) /\ [Upload!Next]_(Upload!vars)
           /\ [Startup!Next]_(Startup!vars) /\ [Files!Next]_(Files!vars)
  BY DEF GuiNext, guiVars, gateVars, streamVars, settingsVars, catalogVars, tableVars, uploadVars, startVars,
         filesVars, Stream!vars, Settings!vars, Catalog!vars, Table!vars, Upload!vars, Startup!vars, Files!vars

(* The invariants of the GUI hold of the specification whose small         *)
(* instance is model-checked, for every other instance too.                *)
THEOREM GuiAlwaysRight == GuiSpec => [](GateIsTight /\ NothingIsSkipped /\ DataIsKept /\ ServedIsRight)
  <1>1. GuiInit => GuiInv
    BY NamesAssumption, InitGate, StreamStarts, SettingsStart, CatalogStarts, TableStarts, UploadStarts,
       StartStarts, FilesStart DEF GuiInit, GuiInv
  <1>2. GuiInv /\ [GuiNext]_guiVars => GuiInv'
    BY StepsOfParts, NamesAssumption, NextGate, NextStream, NextSettings, NextCatalog, NextTable, NextUploads,
       NextStartup, NextFiles DEF GuiInv
  <1>3. GuiInv => GateIsTight /\ NothingIsSkipped /\ DataIsKept /\ ServedIsRight
    BY NamesAssumption, GateInvTight, StreamFollows, DataFollows, ServedFollows DEF GuiInv
  <1> QED BY <1>1, <1>2, <1>3, PTL DEF GuiSpec
=============================================================================
