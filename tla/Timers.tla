------------------------------- MODULE Timers -------------------------------
(***************************************************************************)
(* What the scheduler promises to its clients: one-shot timers.  An armed  *)
(* timer fires once, not before it is due, unless it is cancelled first; a *)
(* cancelled timer never fires; while the service is open an armed timer   *)
(* whose time has come fires.  Threads, heaps and identifiers do not       *)
(* appear here.                                                            *)
(***************************************************************************)
EXTENDS Naturals

CONSTANT Events

VARIABLES
    state,   \* what has become of each timer
    due,     \* when it is due
    now,     \* the clock
    open     \* timers are still accepted and fired

vars == <<state, due, now, open>>

States == {"idle", "armed", "cancelled", "fired", "dropped"}

Init == /\ state = [e \in Events |-> "idle"]
        /\ due \in [Events -> Nat]
        /\ now \in Nat
        /\ open = TRUE

Become(e, s) == state' = [state EXCEPT ![e] = s]

\* A client chooses the time at which a timer it has not armed yet is due.
Prepare(e) == /\ state[e] = "idle"
              /\ due' \in [Events -> Nat]
              /\ \A f \in Events \ {e} : due'[f] = due[f]
              /\ UNCHANGED <<state, now, open>>

Arm(e)    == open /\ state[e] = "idle"  /\ Become(e, "armed")     /\ UNCHANGED <<due, now, open>>
Refuse(e) == ~open /\ state[e] = "idle" /\ Become(e, "dropped")   /\ UNCHANGED <<due, now, open>>
Cancel(e) == state[e] = "armed"         /\ Become(e, "cancelled") /\ UNCHANGED <<due, now, open>>

Fire(e) == /\ state[e] = "armed"
           /\ now >= due[e]
           /\ Become(e, "fired")
           /\ UNCHANGED <<due, now, open>>

Close == open /\ open' = FALSE /\ UNCHANGED <<state, due, now>>

\* The end of the service takes every timer that is still armed with it.
Clear == /\ ~open
         /\ state' = [e \in Events |-> IF state[e] = "armed" THEN "dropped" ELSE state[e]]
         /\ UNCHANGED <<due, now, open>>

Tick == now' > now /\ UNCHANGED <<state, due, open>>

Next == \/ \E e \in Events : Prepare(e) \/ Arm(e) \/ Refuse(e) \/ Cancel(e) \/ Fire(e)
        \/ Close
        \/ Clear
        \/ Tick

SafeSpec == Init /\ [][Next]_vars
Spec     == SafeSpec /\ \A e \in Events : WF_vars(open /\ Fire(e))
=============================================================================
