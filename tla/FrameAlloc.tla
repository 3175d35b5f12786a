----------------------------- MODULE FrameAlloc -----------------------------
(***************************************************************************)
(* The allocator of coroutine frames, CoroAllocator:                       *)
(*   Segregator<894, SlabTLSAllocator<FreeListTLS<OpNewAllocator, 8192>,   *)
(*                                    894, 8>, OpNewAllocator>             *)
(* A small frame gets the next chunk of a block that its thread carves up; *)
(* blocks come from a free list of the thread or from operator new.  Any   *)
(* thread deletes a frame: it counts up the word in front of the chunk,    *)
(* and only the thread that finds Capacity - 1 there lets go of the block. *)
(* The word is the chunk's own, not that of the metadata in front of the   *)
(* block, and nobody writes it before: it holds whatever was left there.   *)
(* Thread-locals need no synchronisation, so that a call is one step.      *)
(***************************************************************************)
EXTENDS Naturals

CONSTANTS
    Thread,     \* the threads that allocate frames
    Frames,     \* bound: frames alive at a time
    Region,     \* bound: pieces of memory that operator new has to give
    Capacity,   \* chunks of a block (8 in the code)
    Threshold,  \* the largest size that is small (894 in the code)
    Sizes,      \* the sizes of frames
    Leftover,   \* words that new memory may hold
    Null

Chunk   == 0..(Capacity - 1)
Address == Region \X Chunk

ASSUME CapacityAssumption == Capacity \in Nat \ {0, 1}
ASSUME SizesAssumption == Threshold \in Nat /\ Sizes \subseteq Nat
ASSUME LeftoverAssumption == Leftover \subseteq Nat
ASSUME NullAssumption == Null \notin Address

VARIABLES
    region,     \* whether operator new has given it away, and what for
    ptr, size,  \* where a frame is, and its size
    header,     \* the word in front of each chunk
    userPtr, unusedIdx,  \* CurrentBlock
    list,       \* FreeListTLS::stack
    gone,       \* the thread-locals that have been destroyed at its end
    undefined   \* deallocate has let go of an address inside a block

slabVars == <<userPtr, unusedIdx>>
vars == <<region, ptr, size, header, slabVars, list, gone, undefined>>

Init ==
    /\ region = [r \in Region |-> "free"]
    /\ ptr = [f \in Frames |-> Null] /\ size = [f \in Frames |-> 0]
    /\ header = [a \in Address |-> 0]
    /\ userPtr = [t \in Thread |-> Null] /\ unusedIdx = [t \in Thread |-> 0]
    /\ list = [t \in Thread |-> {}]
    /\ gone = [t \in Thread |-> {}]
    /\ undefined = FALSE

Exists(f) == ptr[f] # Null
Runs(t) == gone[t] = {}

\* OpNewAllocator: memory nobody has.
OperatorNew(r, use) ==
    region[r] = "free" /\ region' = [region EXCEPT ![r] = use]

OperatorDelete(r) == region' = [region EXCEPT ![r] = "free"]

\* FreeListTLS::allocate: a block of the list of this thread, else a new one,
\* with whatever its words hold.
NewBlock(t, r) ==
    IF list[t] # {}
    THEN /\ <<r, 0>> \in list[t] /\ list' = [list EXCEPT ![t] = @ \ {<<r, 0>>}]
         /\ UNCHANGED <<region, header>>
    ELSE /\ OperatorNew(r, "block") /\ UNCHANGED list
         /\ \E left \in [Chunk -> Leftover] :
               header' = [a \in Address |-> IF a[1] = r THEN left[a[2]] ELSE header[a]]

\* The mutant starts the next block one chunk too late.
FullLate(idx) == idx > Capacity

\* The last chunk has been handed out.
Full(idx) == idx = Capacity

\* The mutant does not move on.
SameChunk(p) == p

NextChunk(p) == <<p[1], p[2] + 1>>

\* The chunk at p is handed out; what CurrentBlock holds afterwards.
Carve(t, p) ==
    IF Full(unusedIdx[t] + 1)
    THEN /\ unusedIdx' = [unusedIdx EXCEPT ![t] = 0]
         /\ userPtr' = [userPtr EXCEPT ![t] = Null]
    ELSE /\ unusedIdx' = [unusedIdx EXCEPT ![t] = @ + 1]
         /\ userPtr' = [userPtr EXCEPT ![t] = NextChunk(p)]

\* SlabTLSAllocator::allocate.
AllocateChunk(t, f) ==
    /\ IF unusedIdx[t] = 0
       THEN \E r \in Region : NewBlock(t, r) /\ ptr' = [ptr EXCEPT ![f] = <<r, 0>>]
       ELSE ptr' = [ptr EXCEPT ![f] = userPtr[t]] /\ UNCHANGED <<region, header, list>>
    /\ Carve(t, ptr'[f])

AllocateLarge(f) ==
    /\ \E r \in Region : OperatorNew(r, "frame") /\ ptr' = [ptr EXCEPT ![f] = <<r, 0>>]
    /\ UNCHANGED <<header, slabVars, list>>

\* Segregator::allocate.
Small(n) == n <= Threshold

Allocate(t, f, n) ==
    /\ ~ undefined /\ Runs(t) /\ ~ Exists(f)
    /\ size' = [size EXCEPT ![f] = n]
    /\ IF Small(n) THEN AllocateChunk(t, f) ELSE AllocateLarge(f)
    /\ UNCHANGED <<gone, undefined>>

\* The mutant takes the limit for a large one.
BelowThreshold(n) == n < Threshold

\* Segregator::deallocate; operator delete is told the size operator new was.
SmallBlock(n) == n <= Threshold

\* SlabTLSAllocator::deallocate: the word in front of the chunk counts up.  If
\* it held Capacity - 1, the address of the chunk goes to FreeListTLS, which
\* takes the bytes before it for the address of a free list.
DeallocateChunk(f) ==
    /\ undefined' = (header[ptr[f]] = Capacity - 1)
    /\ header' = [header EXCEPT ![ptr[f]] = @ + 1]
    /\ UNCHANGED region

DeallocateLarge(f) ==
    OperatorDelete(ptr[f][1]) /\ UNCHANGED <<header, undefined>>

Deallocate(f) ==
    /\ ~ undefined /\ Exists(f)
    /\ IF SmallBlock(size[f]) THEN DeallocateChunk(f) ELSE DeallocateLarge(f)
    /\ ptr' = [ptr EXCEPT ![f] = Null] /\ size' = [size EXCEPT ![f] = 0]
    /\ UNCHANGED <<slabVars, list, gone>>

-----------------------------------------------------------------------------
(* The end of a thread.  A worker ends in ~ThreadPool, the main thread     *)
(* after it.  Frames may exist then, and other threads delete them later:  *)
(* ~InitTask does not wait for the tasks of temporary dispatches, nor for  *)
(* the memory of the others, whose count drops before operator delete.     *)

\* The mutant lets the thread-locals go in either order.
EitherOrder(t) == TRUE

\* They are destroyed in the reverse order of their construction, and stack is
\* first used after currentBlock.
StackFirst(t) == "stack" \in gone[t]

\* ~Stack gives its blocks back ...
DestroyStack(t) ==
    /\ "stack" \notin gone[t]
    /\ gone' = [gone EXCEPT ![t] = @ \cup {"stack"}]
    /\ region' = [r \in Region |-> IF <<r, 0>> \in list[t] THEN "free" ELSE region[r]]
    /\ list' = [list EXCEPT ![t] = {}]
    /\ UNCHANGED <<ptr, size, header, slabVars, undefined>>

\* rawPtr = userPtr - chunkHeaderSize - unusedIdx * chunkSize
RawPtr(t) == <<userPtr[t][1], userPtr[t][2] - unusedIdx[t]>>

\* ... and ~CurrentBlock pushes the rest of its block to the destroyed list,
\* which keeps it for ever.
DestroyCurrentBlock(t) ==
    /\ StackFirst(t) /\ "currentBlock" \notin gone[t]
    /\ gone' = [gone EXCEPT ![t] = @ \cup {"currentBlock"}]
    /\ list' = IF userPtr[t] = Null THEN list
               ELSE [list EXCEPT ![t] = @ \cup {RawPtr(t)}]
    /\ UNCHANGED <<region, ptr, size, header, slabVars, undefined>>

-----------------------------------------------------------------------------
Next ==
    \/ \E t \in Thread :
          \/ \E f \in Frames, n \in Sizes : Allocate(t, f, n)
          \/ DestroyStack(t) \/ DestroyCurrentBlock(t)
    \/ \E f \in Frames : Deallocate(f)

Spec == Init /\ [][Next]_vars

-----------------------------------------------------------------------------
(* Properties.                                                             *)

TypeOK ==
    /\ region \in [Region -> {"free", "block", "frame"}]
    /\ ptr \in [Frames -> Address \cup {Null}]
    /\ size \in [Frames -> Sizes \cup {0}]
    /\ header \in [Address -> Nat]
    /\ userPtr \in [Thread -> Address \cup {Null}]
    /\ unusedIdx \in [Thread -> Chunk]
    /\ list \in [Thread -> SUBSET Address]
    /\ gone \in [Thread -> SUBSET {"stack", "currentBlock"}]
    /\ undefined \in BOOLEAN

\* The bytes a frame uses: its chunk, or a piece of memory of its own.
Memory(f) ==
    IF ~ Exists(f) THEN {}
    ELSE IF size[f] <= Threshold THEN {ptr[f]} ELSE {ptr[f][1]} \X Chunk

Heap == INSTANCE FrameHeap WITH memory <- [f \in Frames |-> Memory(f)]

\* The allocators together keep what operator new promises: no two coroutines
\* that exist share memory, whichever threads made and deleted them, and
\* wherever the memory was before.
ImplementsHeap == Heap!Spec

\* A frame is in memory of the kind its size sends operator delete to
\* (Segregator.hpp:37), and that memory has not been given back meanwhile.
FrameInOwnMemory ==
    \A f \in Frames : Exists(f) =>
        region[ptr[f][1]] = IF SmallBlock(size[f]) THEN "block" ELSE "frame"

\* A block outlives the thread that carved it up: while a frame made there still
\* exists when the thread has ended, the block is neither given back nor carved
\* up further; it lies whole, from its first byte on, in the thread's list, which
\* nobody takes from any more.
BlockOutlivesThread ==
    \A t \in Thread, f \in Frames :
        /\ "currentBlock" \in gone[t] /\ userPtr[t] # Null
        /\ Exists(f) /\ ptr[f][1] = userPtr[t][1]
        => /\ region[ptr[f][1]] = "block" /\ list[t] = {<<ptr[f][1], 0>>}
           /\ ptr[f][2] < unusedIdx[t]
           /\ \A u \in Thread : u # t /\ userPtr[u] # Null => userPtr[u][1] # ptr[f][1]

\* "If it hits capacity, call deallocate on the block" (SlabTLS.hpp:104): a block
\* that was handed out chunk by chunk and holds no frame any more is given back,
\* to a free list or to operator delete.
FullBlockComesBack ==
    \A r \in Region : region[r] = "block" =>
        \/ \E t \in Thread : <<r, 0>> \in list[t] \/ (userPtr[t] # Null /\ userPtr[t][1] = r)
        \/ \E f \in Frames : Exists(f) /\ ptr[f][1] = r
=============================================================================
