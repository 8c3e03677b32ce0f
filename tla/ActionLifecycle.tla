--------------------------- MODULE ActionLifecycle --------------------------
(***************************************************************************)
(* What an engine of infrastructure actions promises its callers: an action *)
(* is registered once, its command is first started when the action is      *)
(* ready, no more than MaxRuns times in all, and never again after a        *)
(* restart, which loses every action that was registered.                   *)
(***************************************************************************)
EXTENDS Naturals

CONSTANTS
    Actions,
    MaxRuns     \* how often the command of one action may be started

VARIABLES
    phase,      \* absent, waiting for an approval, ready, running, over, lost
    runs        \* commands started for the action

vars == <<phase, runs>>

Init ==
    /\ phase = [a \in Actions |-> "absent"]
    /\ runs = [a \in Actions |-> 0]

Register(a) ==
    /\ phase[a] = "absent"
    /\ \E p \in {"waiting", "ready"} : phase' = [phase EXCEPT ![a] = p]
    /\ UNCHANGED runs

Start(a) ==
    /\ \/ phase[a] = "ready"
       \/ phase[a] \in {"running", "over"} /\ runs[a] > 0
    /\ runs[a] < MaxRuns
    /\ phase' = [phase EXCEPT ![a] = "running"]
    /\ runs' = [runs EXCEPT ![a] = @ + 1]

End(a) ==
    /\ phase[a] = "running"
    /\ phase' = [phase EXCEPT ![a] = "over"]
    /\ UNCHANGED runs

Restart ==
    /\ phase' = [a \in Actions |-> IF phase[a] = "absent" THEN "absent" ELSE "lost"]
    /\ UNCHANGED runs

Next == (\E a \in Actions : Register(a) \/ Start(a) \/ End(a)) \/ Restart

Spec == Init /\ [][Next]_vars
=============================================================================
