------------------------------- MODULE Lease -------------------------------
(***************************************************************************)
(* What internal/singleton promises the rest of the provider: a lease that *)
(* is granted, given up and passed on.  A process works under the lease    *)
(* only while it is recorded as its owner, and the record goes to anyone   *)
(* else only when no process works under it.  Singleton implements this    *)
(* with heartbeats, compare-and-swap and clocks; here there are none.      *)
(***************************************************************************)
CONSTANTS
    Process,   \* who may work under the lease
    Recorded   \* who may be recorded as its owner: a process, or none of them

VARIABLES
    owner,     \* who is recorded as the owner
    active     \* the processes that work under the lease

vars == <<owner, active>>

Init == owner \in Recorded \ Process /\ active = {}

(* A process gets the lease, and with it the record.                        *)
Grant(p) ==
    /\ active = {}
    /\ active' = {p}
    /\ owner' = p

(* The process stops working; the record stays as it is.                    *)
Resign(p) ==
    /\ p \in active
    /\ active' = active \ {p}
    /\ UNCHANGED owner

(* While nobody works, the record may change: a release, or the claim of a  *)
(* process that does not live to use it.                                    *)
Reassign ==
    /\ active = {}
    /\ owner' \in Recorded
    /\ UNCHANGED active

Next ==
    \/ \E p \in Process : Grant(p) \/ Resign(p)
    \/ Reassign

Spec == Init /\ [][Next]_vars
=============================================================================
