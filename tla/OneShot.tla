------------------------------ MODULE OneShot ------------------------------
(***************************************************************************)
(* What the timer facility promises its callers: a timer that is set runs  *)
(* its handler at most once, and not at all once it has been dropped.      *)
(***************************************************************************)
CONSTANT Timers

VARIABLE status

Init == status = [t \in Timers |-> "unset"]

Set(t) == status[t] = "unset" /\ status' = [status EXCEPT ![t] = "set"]
Run(t) == status[t] = "set" /\ status' = [status EXCEPT ![t] = "ran"]
Drop(t) == status[t] = "set" /\ status' = [status EXCEPT ![t] = "dropped"]

Next == \E t \in Timers : Set(t) \/ Run(t) \/ Drop(t)

Spec == Init /\ [][Next]_status
=============================================================================
