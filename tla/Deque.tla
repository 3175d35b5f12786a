-------------------------------- MODULE Deque --------------------------------
(***************************************************************************)
(* The Chase-Lev work-stealing deque of dequeue.hpp: one owner pushes and  *)
(* pops at the bottom, any number of thieves steal at the top.  A step is  *)
(* one access to _top, _bottom or _buffer, or to a cell of a ring buffer.  *)
(* The seq_cst fences of pop and steal make the interleaving of these      *)
(* accesses sequentially consistent.  Writing a cell takes two steps, and  *)
(* a thief that reads it between them gets garbage: the race the comment   *)
(* in steal() allows.                                                      *)
(***************************************************************************)
EXTENDS Integers, Sequences

CONSTANTS
    Thieves,   \* the other threads
    MaxItems,  \* bound: items pushed; item i is the i-th one
    InitCap    \* capacity of the first ring buffer (64 in the pool)

Items == 1..MaxItems
Garbage == 0

ASSUME MaxItemsAssumption == MaxItems \in Nat
ASSUME InitCapAssumption == InitCap \in Nat \ {0}

VARIABLES
    top, bottom,
    buffer,        \* _buffer: the number of the current ring buffer
    rings,         \* all ring buffers: the current one and _garbage
    \* the owner: where it is, and what it loaded from _top
    opc, ot,
    \* every thief: where it is, and its t, buffer and x
    spc, st, sbuf, sx,
    \* history: the number of items pushed, and what was taken, in order
    pushed, taken

ownerVars == <<opc, ot, pushed>>
thiefVars == <<spc, st, sbuf, sx>>
vars == <<top, bottom, buffer, rings, ownerVars, thiefVars, taken>>

-----------------------------------------------------------------------------
(* Ring buffers.                                                           *)

\* make_unique_for_overwrite: the cells of a new buffer are uninitialized.
NewRing(cap) == [cap |-> cap, cells |-> [i \in 0..(cap - 1) |-> Garbage]]

\* load(i): the mask is the capacity minus one, a power of two.
Load(ring, i) == ring.cells[i % ring.cap]

Store(ring, i, x) == [ring EXCEPT !.cells[i % ring.cap] = x]

\* The mutant does not copy the oldest element.
CopiesFromNext(ring, b, t) ==
    [cap |-> 2 * ring.cap,
     cells |-> [c \in 0..(2 * ring.cap - 1) |->
        IF \E i \in (t + 1)..(b - 1) : i % (2 * ring.cap) = c
        THEN Load(ring, CHOOSE i \in (t + 1)..(b - 1) : i % (2 * ring.cap) = c)
        ELSE Garbage]]

\* resize(b, t): twice the size, with the elements t..b-1.
Resized(ring, b, t) ==
    [cap |-> 2 * ring.cap,
     cells |-> [c \in 0..(2 * ring.cap - 1) |->
        IF \E i \in t..(b - 1) : i % (2 * ring.cap) = c
        THEN Load(ring, CHOOSE i \in t..(b - 1) : i % (2 * ring.cap) = c)
        ELSE Garbage]]

\* The mutant lets the buffer hold one element more than it has cells.
FullOffByOne(ring, b, t) == ring.cap < b - t

\* emplace: no room for one more.
Full(ring, b, t) == ring.cap < (b - t) + 1

-----------------------------------------------------------------------------
Init ==
    /\ top = 0 /\ bottom = 0
    /\ buffer = 1 /\ rings = <<NewRing(InitCap)>>
    /\ opc = "idle" /\ ot = 0 /\ pushed = 0
    /\ spc = [s \in Thieves |-> "idle"]
    /\ st = [s \in Thieves |-> 0]
    /\ sbuf = [s \in Thieves |-> 1]
    /\ sx = [s \in Thieves |-> Garbage]
    /\ taken = <<>>

(* emplace                                                                 *)

\* Load bottom and top: is there room?
PushLoadTop ==
    /\ opc = "idle" /\ pushed < MaxItems
    /\ ot' = top
    /\ opc' = IF Full(rings[buffer], bottom, top) THEN "grow" ELSE "store"
    /\ UNCHANGED <<top, bottom, buffer, rings, pushed, thiefVars, taken>>

\* Copy into a new buffer and publish it; the old one joins _garbage.
PushGrow ==
    /\ opc = "grow"
    /\ rings' = Append(rings, Resized(rings[buffer], bottom, ot))
    /\ buffer' = Len(rings) + 1
    /\ opc' = "store"
    /\ UNCHANGED <<top, bottom, ot, pushed, thiefVars, taken>>

\* The write of the cell begins and ends.
PushStore ==
    /\ opc = "store"
    /\ rings' = [rings EXCEPT ![buffer] = Store(@, bottom, Garbage)]
    /\ opc' = "stored"
    /\ UNCHANGED <<top, bottom, buffer, ot, pushed, thiefVars, taken>>

PushStored ==
    /\ opc = "stored"
    /\ rings' = [rings EXCEPT ![buffer] = Store(@, bottom, pushed + 1)]
    /\ opc' = "publish"
    /\ UNCHANGED <<top, bottom, buffer, ot, pushed, thiefVars, taken>>

PushPublish ==
    /\ opc = "publish"
    /\ bottom' = bottom + 1
    /\ pushed' = pushed + 1
    /\ opc' = "idle" /\ ot' = 0
    /\ UNCHANGED <<top, buffer, rings, thiefVars, taken>>

(* pop                                                                     *)

\* Take the bottom element away from the thieves.
PopDec ==
    /\ opc = "idle"
    /\ bottom' = bottom - 1
    /\ opc' = "popTop"
    /\ UNCHANGED <<top, buffer, rings, ot, pushed, thiefVars, taken>>

\* The mutant takes the last element without a race for it.
PopLast(t, b) == FALSE

\* The element popped is the only one: a thief may have seen it.
RaceForLast(t, b) == t = b

\* Load top: several elements, exactly one, or none.
PopLoadTop ==
    /\ opc = "popTop"
    /\ \/ /\ top <= bottom /\ ~ RaceForLast(top, bottom)
          /\ taken' = Append(taken, Load(rings[buffer], bottom))
          /\ opc' = "idle" /\ UNCHANGED ot
       \/ /\ top <= bottom /\ RaceForLast(top, bottom)
          /\ opc' = "popCas" /\ ot' = top /\ UNCHANGED taken
       \/ /\ top > bottom
          /\ opc' = "popFix" /\ UNCHANGED <<ot, taken>>
    /\ UNCHANGED <<top, bottom, buffer, rings, pushed, thiefVars>>

\* The race for the last element, against the thieves.
PopCAS ==
    /\ opc = "popCas"
    /\ IF top = ot
       THEN /\ top' = ot + 1
            /\ taken' = Append(taken, Load(rings[buffer], bottom))
       ELSE UNCHANGED <<top, taken>>
    /\ opc' = "popFix" /\ ot' = 0
    /\ UNCHANGED <<bottom, buffer, rings, pushed, thiefVars>>

\* The deque is empty now: bottom back to top.
PopFix ==
    /\ opc = "popFix"
    /\ bottom' = bottom + 1
    /\ opc' = "idle"
    /\ UNCHANGED <<top, buffer, rings, ot, pushed, thiefVars, taken>>

OwnerStep ==
    \/ PushGrow \/ PushStore \/ PushStored \/ PushPublish
    \/ PopLoadTop \/ PopCAS \/ PopFix

-----------------------------------------------------------------------------
(* steal                                                                   *)

StealLoadTop(s) ==
    /\ spc[s] = "idle"
    /\ st' = [st EXCEPT ![s] = top]
    /\ spc' = [spc EXCEPT ![s] = "bottom"]
    /\ UNCHANGED <<top, bottom, buffer, rings, ownerVars, sbuf, sx, taken>>

\* A steal that found nothing, or lost its race, forgets what it read.
StealEnd(s) ==
    /\ spc' = [spc EXCEPT ![s] = "idle"]
    /\ st' = [st EXCEPT ![s] = 0]
    /\ sbuf' = [sbuf EXCEPT ![s] = 1]
    /\ sx' = [sx EXCEPT ![s] = Garbage]

StealLoadBottom(s) ==
    /\ spc[s] = "bottom"
    /\ IF st[s] < bottom
       THEN spc' = [spc EXCEPT ![s] = "buffer"] /\ UNCHANGED <<st, sbuf, sx>>
       ELSE StealEnd(s)
    /\ UNCHANGED <<top, bottom, buffer, rings, ownerVars, taken>>

StealLoadBuffer(s) ==
    /\ spc[s] = "buffer"
    /\ sbuf' = [sbuf EXCEPT ![s] = buffer]
    /\ spc' = [spc EXCEPT ![s] = "cell"]
    /\ UNCHANGED <<top, bottom, buffer, rings, ownerVars, st, sx, taken>>

\* Read the element before acquiring it.
StealLoadCell(s) ==
    /\ spc[s] = "cell"
    /\ sx' = [sx EXCEPT ![s] = Load(rings[sbuf[s]], st[s])]
    /\ spc' = [spc EXCEPT ![s] = "cas"]
    /\ UNCHANGED <<top, bottom, buffer, rings, ownerVars, st, sbuf, taken>>

\* The mutant returns what it read whether it won the race or not.
StealAlwaysWins(s) == TRUE

StealWins(s) == top = st[s]

StealCAS(s) ==
    /\ spc[s] = "cas"
    /\ IF StealWins(s)
       THEN top' = st[s] + 1 /\ taken' = Append(taken, sx[s])
       ELSE UNCHANGED <<top, taken>>
    /\ StealEnd(s)
    /\ UNCHANGED <<bottom, buffer, rings, ownerVars>>

StealStep(s) ==
    StealLoadBottom(s) \/ StealLoadBuffer(s) \/ StealLoadCell(s) \/ StealCAS(s)

-----------------------------------------------------------------------------
Next ==
    \/ PushLoadTop \/ PopDec \/ OwnerStep
    \/ \E s \in Thieves : StealLoadTop(s) \/ StealStep(s)

Spec == Init /\ [][Next]_vars

\* An operation that has begun goes on, and idle workers keep stealing.
FairSpec ==
    /\ Spec
    /\ WF_vars(OwnerStep)
    /\ \A s \in Thieves : WF_vars(StealLoadTop(s) \/ StealStep(s))

-----------------------------------------------------------------------------
(* Properties.                                                             *)

\* Every variable has its type; thieves know only buffers there are.
TypeOK ==
    /\ top \in Nat /\ bottom \in Int /\ bottom >= -1
    /\ buffer = Len(rings)
    /\ \A r \in DOMAIN rings :
          /\ rings[r].cap \in Nat \ {0}
          /\ rings[r].cells \in [0..(rings[r].cap - 1) -> Items \cup {Garbage}]
    /\ opc \in {"idle", "grow", "store", "stored", "publish", "popTop", "popCas", "popFix"}
    /\ ot \in Nat
    /\ spc \in [Thieves -> {"idle", "bottom", "buffer", "cell", "cas"}]
    /\ st \in [Thieves -> Nat]
    /\ sbuf \in [Thieves -> DOMAIN rings]
    /\ sx \in [Thieves -> Items \cup {Garbage}]
    /\ pushed \in 0..MaxItems
    /\ taken \in Seq(Items)

\* One past the newest element; pop has lowered bottom before it has decided.
End == IF opc \in {"popTop", "popCas"} THEN bottom + 1 ELSE bottom

\* The elements between top and the end, in the current buffer.
Contents == {Load(rings[buffer], i) : i \in top..(End - 1)}

\* Nobody takes an item twice, and none gets lost: what was pushed was taken
\* or is still in the deque, though owner and thieves race for the last item
\* and the ring grows under them.
EveryItemOnce ==
    /\ \A i, j \in DOMAIN taken : i # j => taken[i] # taken[j]
    /\ Contents \cup {taken[i] : i \in DOMAIN taken} = 1..pushed
    /\ \A i \in DOMAIN taken : taken[i] \notin Contents

\* "We only return the value if we win the race below garanteeing we had no
\* race during our read" (dequeue.hpp:240): what a thief holds when its exchange
\* would succeed is the oldest item, whatever pushes, pops and resizes came
\* between its reads.
WinnerReadsOldest ==
    \A s \in Thieves : spc[s] = "cas" /\ st[s] = top =>
        top < End /\ sx[s] = Load(rings[buffer], top)

\* What the deque stands for.
Abstract == INSTANCE WorkDeque WITH
    queue <- [i \in 1..(End - top) |-> Load(rings[buffer], top + i - 1)]

\* Emplace, pop and steal take effect at one instant each, at the two ends.
ImplementsWorkDeque == Abstract!Spec

\* An item that was pushed is taken in the end, as long as thieves come by.
EventuallyTaken ==
    \A x \in Items : (pushed >= x) ~> (\E i \in DOMAIN taken : taken[i] = x)
=============================================================================
