------------------------------ MODULE WorkDeque ------------------------------
(***************************************************************************)
(* What a work-stealing deque promises: its owner pushes and pops at one   *)
(* end, thieves take from the other, and every operation takes effect at   *)
(* one instant.                                                            *)
(***************************************************************************)
EXTENDS Naturals, Sequences

CONSTANT Items

VARIABLES queue,  \* the items, the oldest first
          taken   \* every item handed out so far, in that order

vars == <<queue, taken>>

Init == queue = <<>> /\ taken = <<>>

\* The owner adds an item that was never there before.
Push(x) ==
    /\ \A i \in DOMAIN queue : queue[i] # x
    /\ \A i \in DOMAIN taken : taken[i] # x
    /\ queue' = Append(queue, x)
    /\ UNCHANGED taken

\* The owner takes the newest item.
Pop ==
    /\ queue # <<>>
    /\ taken' = Append(taken, queue[Len(queue)])
    /\ queue' = SubSeq(queue, 1, Len(queue) - 1)

\* A thief takes the oldest item.
Steal ==
    /\ queue # <<>>
    /\ taken' = Append(taken, Head(queue))
    /\ queue' = Tail(queue)

Next == (\E x \in Items : Push(x)) \/ Pop \/ Steal

Spec == Init /\ [][Next]_vars
=============================================================================
