----------------------------- MODULE FrameHeap -----------------------------
(***************************************************************************)
(* What operator new and operator delete of the promises owe the           *)
(* coroutines: a frame gets memory that no other live frame has, and has   *)
(* it until it is deleted.                                                 *)
(***************************************************************************)
CONSTANTS Frames, Address

VARIABLE memory  \* what each frame occupies, {} if it does not exist

Init == memory = [f \in Frames |-> {}]

Allocate(f) ==
    /\ memory[f] = {}
    /\ \E m \in SUBSET Address :
          /\ m # {} /\ \A g \in Frames : m \cap memory[g] = {}
          /\ memory' = [memory EXCEPT ![f] = m]

Deallocate(f) == memory[f] # {} /\ memory' = [memory EXCEPT ![f] = {}]

Next == \E f \in Frames : Allocate(f) \/ Deallocate(f)

Spec == Init /\ [][Next]_memory
=============================================================================
