---------------------------- MODULE MCCoordinator ----------------------------
(* Small instances of the coordinator. *)
EXTENDS Coordinator

CONSTANTS m1, m2, h1, i1, s1, c1, c2

NewSession == << >>

(* A session forked from a parent whose first turn was answered with a     *)
(* tool call that had not been scheduled yet.                              *)
ForkedSession ==
    LET parent == << [seq |-> 1, record |-> Input("p", "external")],
                     [seq |-> 2, record |-> [type |-> "turn", turn |-> 1, prev |-> NoTurn]],
                     [seq |-> 3, record |-> [type |-> "response", turn |-> 1, calls |-> {"c0"}]] >>
    IN ForkLines(parent, "parent", 1)

(* What has been submitted and called so far. *)
Used == seen \cup issued

Operations == DOMAIN image.head.ops

(* The scenarios that are explored; what they share is explored once.      *)
(*   a message and a call, with a heartbeat and both kinds of stop         *)
(*   two messages, of which one may interrupt, and a call of two operations *)
(*   two calls; a call and an update of the settings                        *)
InScenario ==
    \/ Used \subseteq {m1, h1, i1, c1} \cup HeartbeatIDs /\ Operations \subseteq {<<c1, 1>>}
    \/ Used \subseteq {m1, m2, c1}
    \/ Used \subseteq {m1, c1, c2} /\ Operations \subseteq {<<c1, 1>>, <<c2, 1>>}
    \/ Used \subseteq {m1, s1, c1} /\ Operations \subseteq {<<c1, 1>>}

(* For liveness: two messages and a crash, or the stops without a crash. *)
InLiveScenario ==
    \/ Used \subseteq {m1, m2, c1}
    \/ Used \subseteq {m1, h1, i1, c1} \cup HeartbeatIDs /\ starts <= 1
=============================================================================
