---------------------------- MODULE ScanLifecycle ---------------------------
(***************************************************************************)
(* What the table of scan jobs promises to whoever reads it: a job waits,   *)
(* runs and ends, in this order and once; its results appear once it runs,  *)
(* and they go with it when it is deleted.                                  *)
(***************************************************************************)
CONSTANTS Jobs

VARIABLES
    phase,      \* none, pending, running, ended, deleted
    results     \* whether results of the job can be read

vars == <<phase, results>>

Init ==
    /\ phase = [j \in Jobs |-> "none"]
    /\ results = [j \in Jobs |-> FALSE]

Move(j, from, to) ==
    /\ phase[j] \in from
    /\ phase' = [phase EXCEPT ![j] = to]
    /\ UNCHANGED results

Create(j) == Move(j, {"none"}, "pending")
Run(j)    == Move(j, {"pending"}, "running")
End(j)    == Move(j, {"pending", "running"}, "ended")

(* Results come while the job runs; a job that a client ended in the meantime *)
(* may still receive them.                                                    *)
Publish(j) ==
    /\ phase[j] \in {"running", "ended"}
    /\ results' = [results EXCEPT ![j] = TRUE]
    /\ UNCHANGED phase

Delete(js) ==
    /\ \A j \in js : phase[j] \in {"pending", "running", "ended"}
    /\ phase' = [j \in Jobs |-> IF j \in js THEN "deleted" ELSE phase[j]]
    /\ results' = [j \in Jobs |-> results[j] /\ j \notin js]

Next ==
    \/ \E j \in Jobs : Create(j) \/ Run(j) \/ End(j) \/ Publish(j)
    \/ \E js \in SUBSET Jobs : Delete(js)

Spec == Init /\ [][Next]_vars
=============================================================================
