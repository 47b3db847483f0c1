---------------------------- MODULE ApprovalGate ----------------------------
(***************************************************************************)
(* The approval gate of the GUI (gui/approvals.go) between a coordinator    *)
(* and its operation manager, with the handlers that decide about held      *)
(* commands and the switch between the two permission levels                *)
(* (gui/server.go, handleApprove and handleConfig; gui/app.go, approveAll). *)
(*                                                                          *)
(* The coordinator, each HTTP handler, the goroutine that forwards the      *)
(* manager's updates and the ones that report a command that was not run    *)
(* interleave wherever one of them takes or releases the gate's lock, calls *)
(* the manager or waits on a channel.                                       *)
(***************************************************************************)
EXTENDS Naturals, FiniteSets

CONSTANTS
    Commands,   \* shell operations the coordinator submits
    Handlers,   \* HTTP handlers that approve or decline
    MaxSwitches \* bound: changes of the permission level

VARIABLES
    permission, \* cfg.Permission: "ask" or "auto"
    switches,   \* history: changes of the permission level
    co,         \* what the coordinator is doing
    added,      \* commands the coordinator has begun to add
    toCancel,   \* commands a hard stop has not cancelled yet
    stopping,   \* the coordinator is handling a hard stop
    held,       \* pending: commands waiting for a decision
    threads,    \* what each handler, and the permission switch, is doing
    manager,    \* the operation manager's view of each command
    forwarding, \* the update the forwarding goroutine offers, if any
    reports,    \* commands whose finish goroutine offers an update
    received,   \* history: ends the coordinator has received, per command
    shown,      \* the held commands of the last status event
    ctxDone,    \* the run's context is cancelled
    approved,   \* history: commands the user approved
    sawAuto,    \* history: commands for which the permission was found to be auto
    declined    \* history: commands the user declined

vars == <<permission, switches, co, added, toCancel, stopping, held, threads, manager,
          forwarding, reports, received, shown, ctxDone, approved, sawAuto, declined>>

coordinatorVars == <<added, toCancel, stopping>>
historyVars == <<approved, sawAuto, declined>>

Switch == "switch"
Threads == Handlers \cup {Switch}
Nothing == "nothing"
Idle == [at |-> "idle", chosen |-> {}, approve |-> FALSE]
Free == [at |-> "free"]

(* Names of goroutines and places are told apart. *)
NamesDiffer ==
    /\ Nothing \notin Commands
    /\ Threads \cap {"hand", "held", "manager", "forwarding", "report"} = {}
    /\ Switch \notin Handlers

ASSUME NamesAssumption == NamesDiffer

Init ==
    /\ permission \in {"ask", "auto"}
    /\ switches = 0
    /\ co = Free
    /\ added = {} /\ toCancel = {} /\ stopping = FALSE
    /\ held = {}
    /\ threads = [t \in Threads |-> Idle]
    /\ manager = [o \in Commands |-> "absent"]
    /\ forwarding = Nothing
    /\ reports = {}
    /\ received = [o \in Commands |-> 0]
    /\ shown = {}
    /\ ctxDone = FALSE
    /\ approved = {} /\ sawAuto = {} /\ declined = {}

-----------------------------------------------------------------------------
(* The coordinator's calls. *)

(* gate.ask: whether a new command needs approval, read before the lock. *)
Ask == permission # "auto"

(* Add reads the permission level, and acts on it later. *)
BeginAdd(o) ==
    /\ co = Free /\ ~stopping /\ ~ctxDone
    /\ o \notin added
    /\ added' = added \cup {o}
    /\ co' = [at |-> IF Ask THEN "hold" ELSE "pass", op |-> o]
    /\ sawAuto' = IF permission = "auto" THEN sawAuto \cup {o} ELSE sawAuto
    /\ UNCHANGED <<permission, switches, toCancel, stopping, held, threads, manager, forwarding,
                   reports, received, shown, ctxDone, approved, declined>>

Hold ==
    /\ co.at = "hold"
    /\ held' = held \cup {co.op}
    /\ co' = [at |-> "changed"]
    /\ UNCHANGED <<permission, switches, coordinatorVars, threads, manager, forwarding, reports,
                   received, shown, ctxDone, historyVars>>

(* gate.snapshot: the held commands as they are now, for a status event.    *)
Snapshot == held

(* gate.changed: the chat broadcasts its status.                            *)
CoordinatorChanged ==
    /\ co.at = "changed"
    /\ shown' = Snapshot
    /\ co' = Free
    /\ UNCHANGED <<permission, switches, coordinatorVars, held, threads, manager, forwarding,
                   reports, received, ctxDone, historyVars>>

(* Manager.Add starts a command it has not seen, and fails once its context *)
(* is done.                                                                 *)
StartIn(o) == manager' = IF ctxDone THEN manager ELSE [manager EXCEPT ![o] = "running"]

Pass ==
    /\ co.at = "pass"
    /\ StartIn(co.op)
    /\ co' = Free
    /\ UNCHANGED <<permission, switches, coordinatorVars, held, threads, forwarding, reports,
                   received, shown, ctxDone, historyVars>>

(* A hard stop cancels, one after the other, the commands that have not     *)
(* ended, and then waits for them to end.                                   *)
HardStop ==
    /\ co = Free /\ ~stopping
    /\ stopping' = TRUE
    /\ toCancel' = {o \in added : received[o] = 0}
    /\ UNCHANGED <<permission, switches, co, added, held, threads, manager, forwarding, reports,
                   received, shown, ctxDone, historyVars>>

(* Cancel: a held command is taken off the list; for any other the          *)
(* cancellation is passed on to the manager.                                *)
CancelTake(o) ==
    /\ co = Free /\ o \in toCancel
    /\ toCancel' = toCancel \ {o}
    /\ held' = held \ {o}
    /\ co' = [at |-> IF o \in held THEN "cancel held" ELSE "cancel next", op |-> o]
    /\ UNCHANGED <<permission, switches, added, stopping, threads, manager, forwarding, reports,
                   received, shown, ctxDone, historyVars>>

(* finish: a goroutine of its own offers the end of a command not run.      *)
Reported(o) == reports \cup {o}

CancelHeld ==
    /\ co.at = "cancel held"
    /\ shown' = Snapshot
    /\ reports' = Reported(co.op)
    /\ co' = Free
    /\ UNCHANGED <<permission, switches, coordinatorVars, held, threads, manager, forwarding,
                   received, ctxDone, historyVars>>

CancelNext ==
    /\ co.at = "cancel next"
    /\ manager' = [manager EXCEPT ![co.op] = IF @ = "running" THEN "canceling" ELSE @]
    /\ co' = Free
    /\ UNCHANGED <<permission, switches, coordinatorVars, held, threads, forwarding, reports,
                   received, shown, ctxDone, historyVars>>

-----------------------------------------------------------------------------
(* Deciding. *)

(* Faulty variant: the decided commands stay on the list. *)
Undecided(chosen) == held

(* The list without the commands a decision is about. *)
Remaining(chosen) == held \ chosen

(* decide takes what it is about off the list; with none there it returns.  *)
Decide(t, chosen, approve) ==
    /\ threads[t] = Idle
    /\ chosen # {}
    /\ held' = Remaining(chosen)
    /\ threads' = [threads EXCEPT ![t] = [at |-> "changed", chosen |-> chosen, approve |-> approve]]
    /\ UNCHANGED <<permission, switches, co, coordinatorVars, manager, forwarding, reports,
                   received, shown, ctxDone>>

(* handleApprove: one held command, or all of them. *)
UserDecides(t) ==
    \E approve \in BOOLEAN, chosen \in {held} \cup {{o} : o \in held} :
        /\ Decide(t, chosen, approve)
        /\ approved' = IF approve THEN approved \cup chosen ELSE approved
        /\ declined' = IF approve THEN declined ELSE declined \cup chosen
        /\ UNCHANGED sawAuto

ThreadChanged(t) ==
    /\ threads[t].at = "changed"
    /\ shown' = Snapshot
    /\ threads' = [threads EXCEPT ![t].at = "acting"]
    /\ UNCHANGED <<permission, switches, co, coordinatorVars, held, manager, forwarding, reports,
                   received, ctxDone, historyVars>>

(* What decide has left to do after o: nothing after a failed Add. *)
RestAfter(t, o) ==
    IF threads[t].approve /\ ctxDone THEN {} ELSE threads[t].chosen \ {o}

(* One round of decide's loop: the manager is given an approved command,    *)
(* and the end of a declined one is reported.                               *)
Act(t, o) ==
    /\ threads[t].at = "acting" /\ o \in threads[t].chosen
    /\ IF threads[t].approve
       THEN StartIn(o) /\ UNCHANGED reports
       ELSE reports' = Reported(o) /\ UNCHANGED manager
    /\ LET rest == RestAfter(t, o)
       IN  threads' = [threads EXCEPT ![t] = IF rest = {} THEN Idle ELSE [@ EXCEPT !.chosen = rest]]
    /\ UNCHANGED <<permission, switches, co, coordinatorVars, held, forwarding, received, shown,
                   ctxDone, historyVars>>

(* handleConfig saves the level; when it is auto, approveAll follows. *)
SetPermission(level) ==
    /\ switches < MaxSwitches
    /\ threads[Switch] = Idle
    /\ level # permission
    /\ permission' = level
    /\ switches' = switches + 1
    /\ threads' = IF level = "auto"
                  THEN [threads EXCEPT ![Switch].at = "approve all"] ELSE threads
    /\ UNCHANGED <<co, coordinatorVars, held, manager, forwarding, reports, received, shown,
                   ctxDone, historyVars>>

ApproveAll ==
    /\ threads[Switch].at = "approve all"
    /\ held' = {}
    /\ threads' = [threads EXCEPT ![Switch] =
                     IF held = {} THEN Idle
                     ELSE [at |-> "changed", chosen |-> held, approve |-> TRUE]]
    /\ sawAuto' = sawAuto \cup held
    /\ UNCHANGED <<permission, switches, co, coordinatorVars, manager, forwarding, reports,
                   received, shown, ctxDone, approved, declined>>

-----------------------------------------------------------------------------
(* Updates. *)

(* A command ends, on its own or because it is being cancelled, and the     *)
(* forwarding goroutine, when it is free, takes the manager's update.       *)
CommandEnds(o) ==
    /\ manager[o] \in {"running", "canceling"}
    /\ manager' = [manager EXCEPT ![o] = "ended"]
    /\ UNCHANGED <<permission, switches, co, coordinatorVars, held, threads, forwarding, reports,
                   received, shown, ctxDone, historyVars>>

Forward(o) ==
    /\ ~ctxDone
    /\ forwarding = Nothing /\ manager[o] = "ended"
    /\ forwarding' = o
    /\ manager' = [manager EXCEPT ![o] = "reported"]
    /\ UNCHANGED <<permission, switches, co, coordinatorVars, held, threads, reports, received,
                   shown, ctxDone, historyVars>>

(* The coordinator, back in its select, takes an update somebody offers. *)
Receive(o) ==
    /\ co = Free /\ (stopping => toCancel = {}) /\ ~ctxDone
    /\ \/ /\ forwarding = o
          /\ forwarding' = Nothing /\ UNCHANGED reports
       \/ /\ o \in reports
          /\ reports' = reports \ {o} /\ UNCHANGED forwarding
    /\ received' = [received EXCEPT ![o] = @ + 1]
    /\ UNCHANGED <<permission, switches, co, coordinatorVars, held, threads, manager, shown,
                   ctxDone, historyVars>>

(* The run is cancelled outright: offers are dropped, the manager cancels   *)
(* what it runs.                                                            *)
CancelContext ==
    /\ ~ctxDone
    /\ ctxDone' = TRUE
    /\ manager' = [o \in Commands |-> IF manager[o] = "running" THEN "canceling" ELSE manager[o]]
    /\ UNCHANGED <<permission, switches, co, coordinatorVars, held, threads, forwarding, reports,
                   received, shown, historyVars>>

CoordinatorSteps ==
    \/ Hold \/ Pass \/ CoordinatorChanged \/ CancelHeld \/ CancelNext
    \/ \E o \in Commands : CancelTake(o) \/ Receive(o)

ThreadSteps(t) == ThreadChanged(t) \/ \E o \in Commands : Act(t, o)

Next ==
    \/ CoordinatorSteps \/ HardStop \/ CancelContext \/ ApproveAll
    \/ \E o \in Commands : BeginAdd(o) \/ CommandEnds(o) \/ Forward(o)
    \/ \E t \in Threads : ThreadSteps(t)
    \/ \E t \in Handlers : UserDecides(t)
    \/ \E level \in {"ask", "auto"} : SetPermission(level)

(* The goroutines run; users need not decide and commands need not end. *)
CoordinatorGoesOn == Hold \/ Pass \/ CoordinatorChanged \/ CancelHeld \/ CancelNext

Fairness ==
    /\ WF_vars(CoordinatorGoesOn)
    /\ \A o \in Commands : WF_vars(CancelTake(o)) /\ SF_vars(Receive(o)) /\ SF_vars(Forward(o))
    /\ \A t \in Threads : WF_vars(ThreadSteps(t))
    /\ WF_vars(ApproveAll)

Spec == Init /\ [][Next]_vars /\ Fairness

-----------------------------------------------------------------------------
(* Properties. *)

TypeOK ==
    /\ permission \in {"ask", "auto"}
    /\ held \subseteq added /\ toCancel \subseteq added /\ shown \subseteq added
    /\ \A t \in Threads : threads[t].chosen \subseteq added
    /\ manager \in [Commands -> {"absent", "running", "canceling", "ended", "reported"}]
    /\ reports \subseteq added
    /\ received \in [Commands -> Nat]

(* .github/README.md: "In Ask first mode nothing runs until you approve it".*)
(* A command is in the manager only if the user approved it, or if the      *)
(* level was full auto when the gate looked or when all were released.      *)
RunsOnlyApproved ==
    \A o \in Commands : manager[o] # "absent" => o \in approved \cup sawAuto

InHand(o) == co.at \in {"hold", "pass", "cancel held"} /\ co.op = o

(* Where a submitted command is. *)
Places(o) ==
    {p \in ({"hand", "held", "manager", "forwarding", "report"} \cup Threads) :
        \/ p = "hand" /\ InHand(o)
        \/ p = "held" /\ o \in held
        \/ p = "manager" /\ manager[o] \in {"running", "canceling", "ended"}
        \/ p = "forwarding" /\ forwarding = o
        \/ p = "report" /\ o \in reports
        \/ p \in Threads /\ o \in threads[p].chosen}

(* However decisions, cancellations and the permission switch interleave, a *)
(* submitted command is in exactly one place until its end has been         *)
(* received, and its end is received once: it is never lost (the            *)
(* coordinator would wait for ever) and never both declined and run.        *)
AccountedFor ==
    ~ctxDone => \A o \in added : Cardinality(Places(o)) + received[o] = 1

(* When nobody is at work the user sees exactly the commands that wait.     *)
ShownIsHeld == co = Free /\ (\A t \in Threads : threads[t] = Idle) => shown = held

(* The approval gate (gui/approvals.go): nothing runs without approval, a   *)
(* submitted command is in exactly one place until its end has been told    *)
(* once, and the user sees what waits.                                      *)
GateIsTight == TypeOK /\ RunsOnlyApproved /\ AccountedFor /\ ShownIsHeld

(* A declined command is reported back, so that the model learns of it.     *)
DeclineIsReported ==
    \A o \in Commands : (o \in declined) ~> (received[o] = 1 \/ ctxDone)
=============================================================================
