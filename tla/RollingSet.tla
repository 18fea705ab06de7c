----------------------------- MODULE RollingSet -----------------------------
(***************************************************************************)
(* What internal/noderotation promises those who depend on a MachineSet    *)
(* that it rotates: a set whose members leave and are replaced.            *)
(* In a surge cycle the set is asked for one member more, then for one     *)
(* less again, and no member leaves that the floor cannot spare.           *)
(* NodeRotation implements this with annotations, a lock, reads that are   *)
(* not a snapshot and ticks that may end anywhere; here there are none,    *)
(* and neither are generations: which member leaves is left open.          *)
(***************************************************************************)
EXTENDS Integers

CONSTANTS
    Floor,     \* how many members have to go on serving when one leaves
    Nominal    \* how many members the set is meant to have

VARIABLES
    cycle,     \* where the surge cycle is, if there is one
    asked,     \* how many members the set is asked to have
    members,   \* how many it has
    serving    \* how many of them serve

vars == <<cycle, asked, members, serving>>

Init ==
    /\ cycle = "none"
    /\ asked = Nominal /\ members = Nominal /\ serving = Nominal

(* A cycle begins while the floor stands, ...                               *)
Begin ==
    /\ cycle = "none" /\ cycle' = "wait-up"
    /\ serving >= Floor
    /\ asked' = asked + 1
    /\ UNCHANGED <<members, serving>>

(* ... gives a member up when more of them serve than the floor takes, ...  *)
GiveUp ==
    /\ cycle = "wait-up" /\ cycle' = "wait-down"
    /\ serving > Floor
    /\ asked' = asked - 1
    /\ UNCHANGED <<members, serving>>

(* ... and is over when that member has left.                               *)
End ==
    /\ cycle = "wait-down" /\ cycle' = "none"
    /\ members <= asked
    /\ UNCHANGED <<asked, members, serving>>

Join ==
    /\ members < asked
    /\ members' = members + 1
    /\ UNCHANGED <<cycle, asked, serving>>

Serve ==
    /\ serving < members
    /\ serving' = serving + 1
    /\ UNCHANGED <<cycle, asked, members>>

(* A member leaves: the one that was given up, or one that is to be         *)
(* replaced in its place.                                                   *)
Leave ==
    /\ cycle = "wait-down" => members > asked
    /\ members' = members - 1
    /\ serving' \in {serving, serving - 1}
    /\ serving' >= Floor
    /\ UNCHANGED <<cycle, asked>>

Next == Begin \/ GiveUp \/ End \/ Join \/ Serve \/ Leave

Spec == Init /\ [][Next]_vars
=============================================================================
