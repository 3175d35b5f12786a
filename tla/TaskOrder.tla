----------------------------- MODULE TaskOrder -----------------------------
(***************************************************************************)
(* What the scheduler promises the programmer: tasks that use a common     *)
(* resource in conflicting modes run one after the other, in the order in  *)
(* which they were dispatched; everything else may run at any time.        *)
(***************************************************************************)
EXTENDS Naturals, Sequences

CONSTANTS NumTasks, AccessLists

Task == 1..NumTasks

VARIABLES accesses,  \* what each task was dispatched with
          phase      \* "new", "submitted", "running" or "done"

vars == <<accesses, phase>>

\* Two accesses of one resource may overlap: the same mode, and not writing.
MayOverlap(a, b) == a = b /\ a # "Write"

Conflict(u, t) ==
    \E i \in DOMAIN accesses[u], j \in DOMAIN accesses[t] :
        /\ accesses[u][i].node = accesses[t][j].node
        /\ ~ MayOverlap(accesses[u][i].mode, accesses[t][j].mode)

Init ==
    /\ accesses = [t \in Task |-> <<>>]
    /\ phase = [t \in Task |-> "new"]

\* The next task of the program order is dispatched.
Submit(t) ==
    /\ phase[t] = "new"
    /\ \A u \in Task : u < t => phase[u] # "new"
    /\ \E acc \in AccessLists : accesses' = [accesses EXCEPT ![t] = acc]
    /\ phase' = [phase EXCEPT ![t] = "submitted"]

\* A task starts once every conflicting task dispatched before it is done.
Start(t) ==
    /\ phase[t] = "submitted"
    /\ \A u \in Task : u < t /\ Conflict(u, t) => phase[u] = "done"
    /\ phase' = [phase EXCEPT ![t] = "running"]
    /\ UNCHANGED accesses

Finish(t) ==
    /\ phase[t] = "running"
    /\ phase' = [phase EXCEPT ![t] = "done"]
    /\ UNCHANGED accesses

Next == \E t \in Task : Submit(t) \/ Start(t) \/ Finish(t)

Spec == Init /\ [][Next]_vars

\* The fair version: what may start does, and what runs ends.
FairSpec == Spec /\ \A t \in Task : WF_vars(Start(t)) /\ WF_vars(Finish(t))
=============================================================================
