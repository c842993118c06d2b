------------------------------- MODULE Mission --------------------------------
(***************************************************************************)
(* What backend-B promises about the orders it takes from backend-A, with  *)
(* no thread, lock or goal in sight: at most one order at a time, its      *)
(* actions taken up one by one and never again, nothing after the last,    *)
(* and an order that was revoked or has ended stays so.  The one weakness  *)
(* of the code that shows here: an order that stopped at its first action  *)
(* may still be moved on to the next one.                                  *)
(***************************************************************************)
EXTENDS Naturals

VARIABLES
    issued,  \* calls received
    order,   \* the call whose plan is in hand, 0 when there is none
    len,     \* the number of its actions
    step,    \* how many of them have been left behind
    phase    \* idle, flying or hovering

vars == <<issued, order, len, step, phase>>

Init ==
    /\ issued = 0
    /\ order = 0
    /\ len = 0
    /\ step = 0
    /\ phase = "idle"

Accept ==
    /\ issued' = issued + 1
    /\ order' = issued + 1
    /\ len' \in Nat \ {0}
    /\ step' = 0
    /\ phase' \in {"flying", "idle"}

Refuse ==
    /\ issued' = issued + 1
    /\ UNCHANGED <<order, len, step, phase>>

Revoke ==
    /\ issued' = issued + 1
    /\ order' = 0
    /\ len' = 0
    /\ step' = 0
    /\ phase' \in {"idle", "hovering"}

Advance ==
    /\ step < len
    /\ phase = "flying" \/ (phase = "idle" /\ step = 0)
    /\ step' = step + 1
    /\ phase' \in IF step' = len THEN {"idle"} ELSE {"flying", "idle"}
    /\ UNCHANGED <<issued, order, len>>

Next == Accept \/ Refuse \/ Revoke \/ Advance

Spec == Init /\ [][Next]_vars
===============================================================================
