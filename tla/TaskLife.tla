------------------------------ MODULE TaskLife ------------------------------
(***************************************************************************)
(* What rg promises about the life of a task, whatever thread it runs on:  *)
(* it is dispatched, it runs and waits by turns, it comes to its end once, *)
(* and what it waits for has happened when it goes on.  It waits for other *)
(* tasks to be over (their results are there) or gone (taken off their     *)
(* resources): before it runs at all, for the earlier tasks it conflicts   *)
(* with; later, for a task it awaits or for all it has dispatched.         *)
(***************************************************************************)
CONSTANT Task

VARIABLES
    phase,     \* "none", "waits", "runs", "over", "gone"
    waitsFor   \* the events a task waits for

Event == Task \X {"over", "gone"}

Happened(e) == phase[e[1]] \in {e[2], "gone"}

Init ==
    /\ phase \in [Task -> {"none", "waits"}]
    /\ waitsFor = [t \in Task |-> {}]

\* Task t becomes p, and waits for the events of w.
Becomes(t, p, w) == phase'[t] = p /\ waitsFor'[t] = w

WaitsFrom(t) == Becomes(t, "waits", waitsFor'[t]) /\ waitsFor'[t] \subseteq Event

\* A task that nothing holds up may run at once.
Dispatch(t) == phase[t] = "none" /\ (WaitsFrom(t) \/ Becomes(t, "runs", {}))

Suspend(t) == phase[t] = "runs" /\ WaitsFrom(t)

GoOn(t) ==
    /\ phase[t] = "waits" /\ \A e \in waitsFor[t] : Happened(e)'
    /\ Becomes(t, "runs", {})

End(t) == phase[t] = "runs" /\ (Becomes(t, "over", {}) \/ Becomes(t, "gone", {}))

Leave(t) == phase[t] = "over" /\ Becomes(t, "gone", {})

\* One step of the program may take several tasks further: the end of one lets
\* those go on that wait for it.
Next ==
    \A t \in Task :
        \/ Becomes(t, phase[t], waitsFor[t])
        \/ Dispatch(t) \/ Suspend(t) \/ GoOn(t) \/ End(t) \/ Leave(t)

Spec == Init /\ [][Next]_<<phase, waitsFor>>
=============================================================================
