-------------------------------- MODULE Store ---------------------------------
(***************************************************************************)
(* The frontend's store (state.js) as functions: what a batch of set()     *)
(* calls leaves in the state and whom it notifies.  A path is a sequence   *)
(* of keys; a subscription to a path hears of every path below it.  A set  *)
(* is a record of a path and a value; one call of set() outside a batch is *)
(* a batch of one.  A notification is the index of the set it is for.      *)
(*                                                                         *)
(* A handler runs to its end before the next event, and no subscriber of   *)
(* the application calls set() or batch() from its notification: a batch   *)
(* and its notifications are one step of the modules that use them.        *)
(***************************************************************************)
EXTENDS Integers, Sequences, SequencesExt

(* What the sets with these indices leave in a path.                       *)
Latest(state, sets, p, mine) == IF mine = {} THEN state[p] ELSE sets[Max(mine)].value

(* The value of a path before the i-th of the sets.                        *)
Before(state, sets, i) ==
    Latest(state, sets, sets[i].path, {j \in 1 .. i - 1 : sets[j].path = sets[i].path})

(* set() returns early when the value is the one there already.            *)
Changes(state, sets) == {i \in 1 .. Len(sets) : sets[i].value # Before(state, sets, i)}

(* The state when the batch is over, which is what a subscriber that reads *)
(* the store finds at every notification of it.                            *)
After(state, sets) ==
    [p \in DOMAIN state |-> Latest(state, sets, p, {i \in 1 .. Len(sets) : sets[i].path = p})]

(* _flushBatch: every path once, with the value of its first change.       *)
Flushed(state, sets) ==
    {i \in Changes(state, sets) :
        \A j \in Changes(state, sets) : j < i => sets[j].path # sets[i].path}

(* _notify: the notifications that a subscription to a prefix receives.    *)
Notified(prefix, state, sets) == {i \in Flushed(state, sets) : IsPrefix(prefix, sets[i].path)}
===============================================================================
