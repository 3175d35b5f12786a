-------------------------- MODULE FrameAllocProofs --------------------------
(***************************************************************************)
(* Proofs about FrameAlloc, for any number of threads, frames and pieces   *)
(* of memory, any sizes and whatever new memory holds: frames that exist   *)
(* share no memory, and a block outlives the thread that carved it up.     *)
(***************************************************************************)
EXTENDS FrameAlloc, TLAPS

USE DEF vars, slabVars, Exists, Runs

-----------------------------------------------------------------------------
(* The inductive invariant.                                                *)

\* What CurrentBlock holds is the next chunk of a block of its own.
CurrentBlockInv ==
    /\ \A t \in Thread :
          /\ userPtr[t] = Null <=> unusedIdx[t] = 0
          /\ userPtr[t] # Null => /\ userPtr[t][2] = unusedIdx[t]
                                  /\ region[userPtr[t][1]] = "block"
    /\ \A t, u \in Thread :
          t # u /\ userPtr[t] # Null /\ userPtr[u] # Null => userPtr[t][1] # userPtr[u][1]

\* Where frames are: small ones in chunks that were handed out, large ones in
\* memory of their own.
FrameInv ==
    \A f \in Frames : Exists(f) =>
        /\ region[ptr[f][1]] = IF SmallBlock(size[f]) THEN "block" ELSE "frame"
        /\ size[f] \in Sizes
        /\ \A g \in Frames : g # f /\ Exists(g) =>
              /\ ptr[g] # ptr[f]
              /\ ~ SmallBlock(size[f]) => ptr[g][1] # ptr[f][1]
        /\ \A t \in Thread : userPtr[t] # Null /\ userPtr[t][1] = ptr[f][1] =>
              ptr[f][2] < unusedIdx[t]

\* Free lists are empty until their thread ends; then its block is put there, after
\* ~Stack, and stays.
ListInv ==
    \A t \in Thread :
        /\ "currentBlock" \in gone[t] => "stack" \in gone[t]
        /\ list[t] = IF "currentBlock" \in gone[t] /\ userPtr[t] # Null
                     THEN {<<userPtr[t][1], 0>>} ELSE {}

IInv == TypeOK /\ CurrentBlockInv /\ FrameInv /\ ListInv

-----------------------------------------------------------------------------
(* Allocation.                                                             *)

\* AllocateChunk hands out the chunk at p: the first of new memory, or the next
\* one of the block of this thread, which then moves on or lets the block go.
Handed(t, f, p) ==
    /\ p \in Address /\ ptr' = [ptr EXCEPT ![f] = p]
    /\ p[2] = unusedIdx[t]
    /\ region'[p[1]] = "block"
    /\ \A r \in Region : r # p[1] => region'[r] = region[r]
    /\ \/ userPtr[t] = Null /\ region[p[1]] = "free"
       \/ userPtr[t] = p /\ region[p[1]] = "block"
    /\ \/ userPtr' = [userPtr EXCEPT ![t] = Null] /\ unusedIdx' = [unusedIdx EXCEPT ![t] = 0]
       \/ /\ p[2] + 1 \in Chunk
          /\ userPtr' = [userPtr EXCEPT ![t] = <<p[1], p[2] + 1>>]
          /\ unusedIdx' = [unusedIdx EXCEPT ![t] = p[2] + 1]
    /\ list' = list
    /\ region' \in [Region -> {"free", "block", "frame"}]
    /\ header' \in [Address -> Nat]

\* A thread that runs has an empty free list, so that a block comes from
\* operator new, with whatever its words hold.
LEMMA NewBlockFacts ==
  ASSUME IInv, NEW t \in Thread, Runs(t), NEW r \in Region, NewBlock(t, r)
  PROVE  /\ region[r] = "free" /\ region' = [region EXCEPT ![r] = "block"]
         /\ list' = list /\ header' \in [Address -> Nat]
<1>1. list[t] = {} BY DEF IInv, ListInv
<1>2. OperatorNew(r, "block") /\ UNCHANGED list BY <1>1 DEF NewBlock
<1>3. PICK left \in [Chunk -> Leftover] :
         header' = [a \in Address |-> IF a[1] = r THEN left[a[2]] ELSE header[a]]
  BY <1>1 DEF NewBlock
<1>4. ASSUME NEW a \in Address PROVE left[a[2]] \in Nat /\ header[a] \in Nat
  BY LeftoverAssumption DEF Address, IInv, TypeOK
<1> QED BY <1>2, <1>3, <1>4 DEF OperatorNew

LEMMA AllocateChunkFacts ==
  ASSUME IInv, NEW t \in Thread, Runs(t), NEW f \in Frames, AllocateChunk(t, f)
  PROVE  \E p : Handed(t, f, p)
<1> USE CapacityAssumption
<1>t. /\ region \in [Region -> {"free", "block", "frame"}]
      /\ ptr \in [Frames -> Address \cup {Null}] /\ header \in [Address -> Nat]
      /\ userPtr \in [Thread -> Address \cup {Null}] /\ unusedIdx \in [Thread -> Chunk]
  BY DEF IInv, TypeOK
<1>c. ASSUME NEW p, ptr'[f] = p, p[2] = unusedIdx[t]
      PROVE  \/ userPtr' = [userPtr EXCEPT ![t] = Null] /\ unusedIdx' = [unusedIdx EXCEPT ![t] = 0]
             \/ /\ p[2] + 1 \in Chunk
                /\ userPtr' = [userPtr EXCEPT ![t] = <<p[1], p[2] + 1>>]
                /\ unusedIdx' = [unusedIdx EXCEPT ![t] = p[2] + 1]
  BY <1>c, <1>t DEF AllocateChunk, Carve, Full, NextChunk, Chunk
<1>1. CASE unusedIdx[t] = 0
  <2>1. PICK r \in Region : NewBlock(t, r) /\ ptr' = [ptr EXCEPT ![f] = <<r, 0>>]
    BY <1>1 DEF AllocateChunk
  <2>2. /\ region[r] = "free" /\ region' = [region EXCEPT ![r] = "block"]
        /\ list' = list /\ header' \in [Address -> Nat]
    BY <2>1, NewBlockFacts
  <2>3. <<r, 0>> \in Address /\ userPtr[t] = Null
    BY <1>1 DEF Address, Chunk, IInv, CurrentBlockInv
  <2>4. ptr'[f] = <<r, 0>> BY <2>1, <1>t
  <2>5. Handed(t, f, <<r, 0>>) BY <1>1, <1>t, <1>c, <2>1, <2>2, <2>3, <2>4 DEF Handed
  <2> QED BY <2>5
<1>2. CASE unusedIdx[t] # 0
  <2>1. ptr' = [ptr EXCEPT ![f] = userPtr[t]] /\ UNCHANGED <<region, header, list>>
    BY <1>2 DEF AllocateChunk
  <2>2. /\ userPtr[t] \in Address /\ userPtr[t][2] = unusedIdx[t]
        /\ region[userPtr[t][1]] = "block"
    BY <1>2, <1>t DEF IInv, CurrentBlockInv
  <2>3. Handed(t, f, userPtr[t]) BY <1>t, <1>c, <2>1, <2>2 DEF Handed
  <2> QED BY <2>3
<1> QED BY <1>1, <1>2

\* The chunk that is handed out is nobody's: no frame is there, and no other
\* thread has the block for its current one.
LEMMA HandedIsFresh ==
  ASSUME IInv, NEW t \in Thread, NEW f \in Frames, NEW p, Handed(t, f, p)
  PROVE  /\ \A g \in Frames : Exists(g) =>
               /\ ptr[g] # p
               /\ ptr[g][1] = p[1] => SmallBlock(size[g]) /\ ptr[g][2] < p[2]
         /\ \A u \in Thread : u # t /\ userPtr[u] # Null => userPtr[u][1] # p[1]
<1>1. CASE userPtr[t] = Null /\ region[p[1]] = "free"
  BY <1>1 DEF Handed, IInv, FrameInv, CurrentBlockInv
<1>2. CASE userPtr[t] = p /\ region[p[1]] = "block"
  <2>1. p # Null BY NullAssumption DEF Handed
  <2>2. ASSUME NEW g \in Frames, Exists(g), ptr[g][1] = p[1]
        PROVE  SmallBlock(size[g]) /\ ptr[g][2] < p[2]
    BY <1>2, <2>1, <2>2 DEF Handed, IInv, FrameInv
  <2>3. \A u \in Thread : u # t /\ userPtr[u] # Null => userPtr[u][1] # p[1]
    BY <1>2, <2>1 DEF IInv, CurrentBlockInv
  <2>4. p[2] \in Nat BY DEF Handed, Address, Chunk
  <2> QED BY <2>2, <2>3, <2>4
<1> QED BY <1>1, <1>2 DEF Handed

LEMMA AllocateSmall ==
  ASSUME IInv, NEW t \in Thread, NEW f \in Frames, NEW n \in Sizes, Allocate(t, f, n), Small(n)
  PROVE  IInv'
<1>1. PICK p : Handed(t, f, p) BY AllocateChunkFacts DEF Allocate
<1>2. /\ Runs(t) /\ ~ Exists(f) /\ size' = [size EXCEPT ![f] = n]
      /\ UNCHANGED <<gone, undefined>>
  BY DEF Allocate
<1>3. TypeOK'
  BY <1>1, <1>2, CapacityAssumption DEF IInv, TypeOK, Handed, Address, Chunk
<1>t. /\ ptr \in [Frames -> Address \cup {Null}] /\ size \in [Frames -> Sizes \cup {0}]
      /\ userPtr \in [Thread -> Address \cup {Null}] /\ unusedIdx \in [Thread -> Chunk]
      /\ p \in Address /\ p # Null /\ p[2] \in Nat
  BY <1>1, NullAssumption DEF IInv, TypeOK, Handed, Address, Chunk
<1>4. CurrentBlockInv'
  <2>1. ASSUME NEW u \in Thread, u # t
        PROVE  userPtr'[u] = userPtr[u] /\ unusedIdx'[u] = unusedIdx[u]
    BY <1>1, <1>t, <2>1 DEF Handed
  <2>2. \/ userPtr'[t] = Null /\ unusedIdx'[t] = 0
        \/ /\ userPtr'[t] = <<p[1], p[2] + 1>> /\ unusedIdx'[t] = p[2] + 1
           /\ userPtr'[t] # Null
    BY <1>1, <1>t, NullAssumption DEF Handed, Address
  <2>3. \A u \in Thread : userPtr[u] # Null => userPtr[u][1] \in Region BY <1>t DEF Address
  <2>4. \A u \in Thread : u # t /\ userPtr[u] # Null => userPtr[u][1] # p[1]
    BY <1>1, HandedIsFresh
  <2>5. \A r \in Region : r # p[1] => region'[r] = region[r] BY <1>1 DEF Handed
  <2>6. region'[p[1]] = "block" BY <1>1 DEF Handed
  <2> QED BY <2>1, <2>2, <2>3, <2>4, <2>5, <2>6, <1>t DEF IInv, CurrentBlockInv
<1>5. FrameInv'
  <2>1. /\ ptr'[f] = p /\ size'[f] = n
        /\ \A g \in Frames : g # f => ptr'[g] = ptr[g] /\ size'[g] = size[g]
    BY <1>1, <1>2, <1>t DEF Handed
  <2>2. \A g \in Frames : Exists(g) =>
           ptr[g] # p /\ (ptr[g][1] = p[1] => SmallBlock(size[g]) /\ ptr[g][2] < p[2])
    BY <1>1, HandedIsFresh
  <2>3. \A u \in Thread : u # t /\ userPtr[u] # Null => userPtr[u][1] # p[1]
    BY <1>1, HandedIsFresh
  <2>4. \A u \in Thread : u # t => userPtr'[u] = userPtr[u] /\ unusedIdx'[u] = unusedIdx[u]
    BY <1>1, <1>t DEF Handed
  <2>5. \A g \in Frames : Exists(g) => ptr[g] \in Address /\ ptr[g][1] \in Region /\ ptr[g][2] \in Nat
    BY <1>t DEF Address, Chunk
  <2>6. SmallBlock(n) BY DEF Small, SmallBlock
  <2>7. \/ userPtr'[t] = Null
        \/ userPtr'[t][1] = p[1] /\ unusedIdx'[t] = p[2] + 1
    BY <1>1, <1>t DEF Handed
  <2>8. userPtr[t] # Null => userPtr[t][1] = p[1] /\ unusedIdx[t] = p[2]
    BY <1>1, <1>t DEF Handed
  <2>9. region'[p[1]] = "block" /\ \A r \in Region : r # p[1] => region'[r] = region[r]
    BY <1>1 DEF Handed
  <2>10. ASSUME NEW g \in Frames, Exists(g)'
         PROVE  /\ region'[ptr'[g][1]] = IF SmallBlock(size'[g]) THEN "block" ELSE "frame"
                /\ size'[g] \in Sizes
    <3>1. CASE g = f BY <2>1, <2>6, <2>9, <3>1
    <3>2. CASE g # f
      <4>1. Exists(g) /\ ptr'[g] = ptr[g] /\ size'[g] = size[g] BY <2>1, <2>10, <3>2
      <4>2. region[ptr[g][1]] = (IF SmallBlock(size[g]) THEN "block" ELSE "frame") /\ size[g] \in Sizes
        BY <4>1 DEF IInv, FrameInv
      <4> QED BY <2>2, <2>5, <2>9, <4>1, <4>2
    <3> QED BY <3>1, <3>2
  <2>11. ASSUME NEW g \in Frames, Exists(g)', NEW h \in Frames, h # g, Exists(h)'
         PROVE  ptr'[h] # ptr'[g] /\ (~ SmallBlock(size'[g]) => ptr'[h][1] # ptr'[g][1])
    BY <2>1, <2>2, <2>6, <2>11 DEF IInv, FrameInv
  <2>12. ASSUME NEW g \in Frames, Exists(g)', NEW u \in Thread, userPtr'[u] # Null,
                userPtr'[u][1] = ptr'[g][1]
         PROVE  ptr'[g][2] < unusedIdx'[u]
    <3>1. CASE u = t BY <1>2, <1>t, <2>1, <2>2, <2>5, <2>7, <2>12, <3>1
    <3>2. CASE u # t BY <1>2, <2>1, <2>3, <2>4, <2>12, <3>2 DEF IInv, FrameInv
    <3> QED BY <3>1, <3>2
  <2> QED BY <2>10, <2>11, <2>12 DEF FrameInv
<1>6. ListInv'
  <2>1. list' = list /\ \A u \in Thread : u # t => userPtr'[u] = userPtr[u]
    BY <1>1, <1>t DEF Handed
  <2>2. list[t] = {} BY <1>2 DEF IInv, ListInv
  <2> QED BY <1>2, <2>1, <2>2 DEF IInv, ListInv
<1> QED BY <1>3, <1>4, <1>5, <1>6 DEF IInv

LEMMA AllocateLargeStep ==
  ASSUME IInv, NEW t \in Thread, NEW f \in Frames, NEW n \in Sizes, Allocate(t, f, n), ~ Small(n)
  PROVE  IInv'
<1>1. PICK r \in Region : OperatorNew(r, "frame") /\ ptr' = [ptr EXCEPT ![f] = <<r, 0>>]
  BY DEF Allocate, AllocateLarge
<1>2. /\ ~ Exists(f) /\ size' = [size EXCEPT ![f] = n]
      /\ UNCHANGED <<gone, undefined, header, userPtr, unusedIdx, list>>
  BY DEF Allocate, AllocateLarge
<1>3. /\ ptr \in [Frames -> Address \cup {Null}] /\ size \in [Frames -> Sizes \cup {0}]
      /\ region \in [Region -> {"free", "block", "frame"}] /\ <<r, 0>> \in Address
      /\ userPtr \in [Thread -> Address \cup {Null}]
  BY CapacityAssumption DEF IInv, TypeOK, Address, Chunk
<1>4. /\ ptr'[f] = <<r, 0>> /\ size'[f] = n /\ ~ SmallBlock(n)
      /\ \A g \in Frames : g # f => ptr'[g] = ptr[g] /\ size'[g] = size[g]
      /\ region[r] = "free" /\ region'[r] = "frame"
      /\ \A q \in Region : q # r => region'[q] = region[q]
  BY <1>1, <1>2, <1>3 DEF OperatorNew, Small, SmallBlock
<1>5. TypeOK' BY <1>1, <1>2, <1>3 DEF OperatorNew, IInv, TypeOK
<1>6. /\ \A t1 \in Thread : userPtr[t1] # Null => userPtr[t1][1] # r /\ userPtr[t1][1] \in Region
      /\ \A g \in Frames : Exists(g) => ptr[g][1] # r /\ ptr[g][1] \in Region
  BY <1>3, <1>4 DEF IInv, CurrentBlockInv, FrameInv, Address
<1>7. CurrentBlockInv' BY <1>2, <1>4, <1>6 DEF IInv, CurrentBlockInv
<1>8. FrameInv'
  <2>1. ASSUME NEW g \in Frames, Exists(g)'
        PROVE  /\ region'[ptr'[g][1]] = IF SmallBlock(size'[g]) THEN "block" ELSE "frame"
               /\ size'[g] \in Sizes
    BY <1>2, <1>4, <1>6, <2>1 DEF IInv, FrameInv
  <2>2. ASSUME NEW g \in Frames, Exists(g)', NEW h \in Frames, h # g, Exists(h)'
        PROVE  ptr'[h] # ptr'[g] /\ (~ SmallBlock(size'[g]) => ptr'[h][1] # ptr'[g][1])
    BY <1>4, <1>6, <2>2 DEF IInv, FrameInv
  <2>3. ASSUME NEW g \in Frames, Exists(g)', NEW u \in Thread, userPtr'[u] # Null,
               userPtr'[u][1] = ptr'[g][1]
        PROVE  ptr'[g][2] < unusedIdx'[u]
    BY <1>2, <1>4, <1>6, <2>3 DEF IInv, FrameInv
  <2> QED BY <2>1, <2>2, <2>3 DEF FrameInv
<1>9. ListInv' BY <1>2 DEF IInv, ListInv
<1> QED BY <1>5, <1>7, <1>8, <1>9 DEF IInv

-----------------------------------------------------------------------------
(* Deallocation and the end of a thread.                                   *)

LEMMA DeallocateStep ==
  ASSUME IInv, NEW f \in Frames, Deallocate(f)
  PROVE  IInv'
<1>1. /\ Exists(f) /\ ptr' = [ptr EXCEPT ![f] = Null] /\ size' = [size EXCEPT ![f] = 0]
      /\ UNCHANGED <<userPtr, unusedIdx, list, gone>>
  BY DEF Deallocate
<1>2. /\ ptr \in [Frames -> Address \cup {Null}] /\ size \in [Frames -> Sizes \cup {0}]
      /\ region \in [Region -> {"free", "block", "frame"}] /\ header \in [Address -> Nat]
      /\ ptr[f] \in Address /\ ptr[f][1] \in Region
      /\ undefined \in BOOLEAN
  BY <1>1 DEF IInv, TypeOK, Address
<1>3. /\ ~ Exists(f)' /\ \A g \in Frames : g # f => ptr'[g] = ptr[g] /\ size'[g] = size[g]
  BY <1>1, <1>2
\* Only the memory of a large frame goes back.
<1>4. \/ region' = region
      \/ ~ SmallBlock(size[f]) /\ region' = [region EXCEPT ![ptr[f][1]] = "free"]
  BY DEF Deallocate, DeallocateChunk, DeallocateLarge, OperatorDelete
<1>5. header' \in [Address -> Nat] /\ undefined' \in BOOLEAN
  <2>1. CASE DeallocateChunk(f) BY <1>2, <2>1 DEF DeallocateChunk
  <2>2. CASE DeallocateLarge(f) BY <1>2, <2>2 DEF DeallocateLarge
  <2> QED BY <2>1, <2>2 DEF Deallocate
<1>6. TypeOK' BY <1>1, <1>2, <1>4, <1>5 DEF IInv, TypeOK
<1>7. \A r \in Region : region'[r] = region[r] \/ (region[r] = "frame" /\ r = ptr[f][1] /\ ~ SmallBlock(size[f]))
  BY <1>1, <1>2, <1>4 DEF IInv, FrameInv
<1>8. CurrentBlockInv'
  <2>1. \A t \in Thread : userPtr[t] # Null => userPtr[t][1] \in Region
    BY DEF IInv, TypeOK, Address
  <2> QED BY <1>1, <1>7, <2>1 DEF IInv, CurrentBlockInv
<1>9. FrameInv'
  <2>1. \A g \in Frames : Exists(g) => ptr[g][1] \in Region BY <1>2 DEF Address
  <2> QED BY <1>1, <1>3, <1>7, <2>1 DEF IInv, FrameInv
<1>10. ListInv' BY <1>1 DEF IInv, ListInv
<1> QED BY <1>6, <1>8, <1>9, <1>10 DEF IInv

\* The free list of a thread is empty until then: ~Stack has nothing to give back.
LEMMA DestroyStackStep ==
  ASSUME IInv, NEW t \in Thread, DestroyStack(t)
  PROVE  IInv'
<1>1. /\ "stack" \notin gone[t] /\ gone' = [gone EXCEPT ![t] = @ \cup {"stack"}]
      /\ UNCHANGED <<ptr, size, header, userPtr, unusedIdx, undefined>>
  BY DEF DestroyStack
<1>2. /\ gone \in [Thread -> SUBSET {"stack", "currentBlock"}]
      /\ region \in [Region -> {"free", "block", "frame"}] /\ list \in [Thread -> SUBSET Address]
  BY DEF IInv, TypeOK
<1>3. list[t] = {} BY <1>1 DEF IInv, ListInv
<1>4. region' = region /\ list' = list BY <1>2, <1>3 DEF DestroyStack
<1>5. TypeOK' BY <1>1, <1>2, <1>4 DEF IInv, TypeOK
<1>6. CurrentBlockInv' BY <1>1, <1>4 DEF IInv, CurrentBlockInv
<1>7. FrameInv' BY <1>1, <1>4 DEF IInv, FrameInv
<1>8. ListInv' BY <1>1, <1>2, <1>3, <1>4 DEF IInv, ListInv
<1> QED BY <1>5, <1>6, <1>7, <1>8 DEF IInv

\* The address that ~CurrentBlock computes is that of its block.
LEMMA DestroyCurrentBlockStep ==
  ASSUME IInv, NEW t \in Thread, DestroyCurrentBlock(t)
  PROVE  IInv'
<1>1. /\ "stack" \in gone[t] /\ "currentBlock" \notin gone[t]
      /\ gone' = [gone EXCEPT ![t] = @ \cup {"currentBlock"}]
      /\ UNCHANGED <<region, ptr, size, header, userPtr, unusedIdx, undefined>>
  BY DEF DestroyCurrentBlock, StackFirst
<1>2. /\ gone \in [Thread -> SUBSET {"stack", "currentBlock"}]
      /\ userPtr \in [Thread -> Address \cup {Null}] /\ list \in [Thread -> SUBSET Address]
      /\ unusedIdx \in [Thread -> Chunk]
  BY DEF IInv, TypeOK
<1>3. userPtr[t] # Null => RawPtr(t) = <<userPtr[t][1], 0>> /\ RawPtr(t) \in Address
  BY <1>2, CapacityAssumption DEF RawPtr, IInv, CurrentBlockInv, Address, Chunk
<1>4. \/ userPtr[t] = Null /\ list' = list
      \/ userPtr[t] # Null /\ list' = [list EXCEPT ![t] = @ \cup {RawPtr(t)}]
  BY DEF DestroyCurrentBlock
<1>5. TypeOK' BY <1>1, <1>2, <1>3, <1>4 DEF IInv, TypeOK
<1>6. CurrentBlockInv' BY <1>1 DEF IInv, CurrentBlockInv
<1>7. FrameInv' BY <1>1, <1>2 DEF IInv, FrameInv
<1>8. ListInv'
  <2>1. list[t] = {} BY <1>1 DEF IInv, ListInv
  <2>2. list'[t] = IF userPtr[t] # Null THEN {<<userPtr[t][1], 0>>} ELSE {}
    BY <1>2, <1>3, <1>4, <2>1
  <2>3. \A u \in Thread : u # t => list'[u] = list[u] /\ gone'[u] = gone[u]
    BY <1>1, <1>2, <1>4
  <2>4. "stack" \in gone'[t] /\ "currentBlock" \in gone'[t] BY <1>1, <1>2
  <2> QED BY <1>1, <2>2, <2>3, <2>4 DEF IInv, ListInv
<1> QED BY <1>5, <1>6, <1>7, <1>8 DEF IInv

-----------------------------------------------------------------------------
(* The theorems.                                                           *)

LEMMA InitIInv == Init => IInv
<1>. SUFFICES ASSUME Init PROVE IInv
  OBVIOUS
<1>1. 0 \in Chunk BY CapacityAssumption DEF Chunk
<1>2. TypeOK BY <1>1 DEF Init, TypeOK
<1>3. CurrentBlockInv /\ FrameInv /\ ListInv
  BY DEF Init, CurrentBlockInv, FrameInv, ListInv
<1> QED BY <1>2, <1>3 DEF IInv

LEMMA NextIInv == IInv /\ [Next]_vars => IInv'
<1>. SUFFICES ASSUME IInv, [Next]_vars PROVE IInv'
  OBVIOUS
<1>1. ASSUME NEW t \in Thread, NEW f \in Frames, NEW n \in Sizes, Allocate(t, f, n) PROVE IInv'
  BY <1>1, AllocateSmall, AllocateLargeStep
<1>2. ASSUME NEW f \in Frames, Deallocate(f) PROVE IInv' BY <1>2, DeallocateStep
<1>3. ASSUME NEW t \in Thread, DestroyStack(t) PROVE IInv' BY <1>3, DestroyStackStep
<1>4. ASSUME NEW t \in Thread, DestroyCurrentBlock(t) PROVE IInv' BY <1>4, DestroyCurrentBlockStep
<1>5. CASE UNCHANGED vars
  BY <1>5 DEF IInv, TypeOK, CurrentBlockInv, FrameInv, ListInv
<1> QED BY <1>1, <1>2, <1>3, <1>4, <1>5 DEF Next

\* The inductive invariant of the allocators.
THEOREM Invariance == Spec => []IInv
BY InitIInv, NextIInv, PTL DEF Spec

\* Type correctness of the allocators.
THEOREM TypeCorrect == Spec => []TypeOK
BY Invariance, PTL DEF IInv

\* A frame is in memory of the kind its size sends operator delete to, whichever
\* thread deletes it (Segregator.hpp:37).
THEOREM FrameInOwnMemoryHolds == Spec => []FrameInOwnMemory
<1>1. IInv => FrameInOwnMemory BY DEF IInv, FrameInv, FrameInOwnMemory
<1> QED BY <1>1, Invariance, PTL

\* A block outlives the thread that carved it up, for the frames that still exist
\* there when the thread has ended (SlabTLS.hpp:56).
THEOREM BlockOutlivesThreadHolds == Spec => []BlockOutlivesThread
<1>1. ASSUME IInv, NEW t \in Thread, NEW f \in Frames, "currentBlock" \in gone[t],
             userPtr[t] # Null, Exists(f), ptr[f][1] = userPtr[t][1]
      PROVE  /\ region[ptr[f][1]] = "block" /\ list[t] = {<<ptr[f][1], 0>>}
             /\ ptr[f][2] < unusedIdx[t]
             /\ \A u \in Thread : u # t /\ userPtr[u] # Null => userPtr[u][1] # ptr[f][1]
  <2>1. region[ptr[f][1]] = "block" /\ ptr[f][2] < unusedIdx[t]
    BY <1>1 DEF IInv, CurrentBlockInv, FrameInv
  <2>2. list[t] = {<<ptr[f][1], 0>>} BY <1>1 DEF IInv, ListInv
  <2>3. \A u \in Thread : u # t /\ userPtr[u] # Null => userPtr[u][1] # ptr[f][1]
    BY <1>1 DEF IInv, CurrentBlockInv
  <2> QED BY <2>1, <2>2, <2>3
<1>2. IInv => BlockOutlivesThread BY <1>1 DEF BlockOutlivesThread
<1> QED BY <1>2, Invariance, PTL

-----------------------------------------------------------------------------
(* Together they keep what operator new promises.                          *)

\* Frames that exist share no memory: two small ones have chunks of their own, a
\* large one its region.
LEMMA MemoryDisjoint ==
  IInv => \A f, g \in Frames : f # g => Memory(f) \cap Memory(g) = {}
<1>. SUFFICES ASSUME IInv, NEW f \in Frames, NEW g \in Frames, f # g
              PROVE  Memory(f) \cap Memory(g) = {}
  OBVIOUS
<1>1. CASE ~ Exists(f) \/ ~ Exists(g) BY <1>1 DEF Memory
<1>2. CASE Exists(f) /\ Exists(g)
  <2>1. ptr[f] \in Address /\ ptr[g] \in Address BY <1>2 DEF IInv, TypeOK
  <2>2. /\ ptr[f] # ptr[g]
        /\ ~ SmallBlock(size[f]) \/ ~ SmallBlock(size[g]) => ptr[f][1] # ptr[g][1]
    BY <1>2 DEF IInv, FrameInv
  <2> QED BY <1>2, <2>1, <2>2 DEF Memory, Address, SmallBlock
<1> QED BY <1>1, <1>2

\* A frame has memory just while it exists.
LEMMA MemoryType ==
  IInv => \A f \in Frames : Memory(f) \in SUBSET Address /\ (Memory(f) = {} <=> ~ Exists(f))
<1>. SUFFICES ASSUME IInv, NEW f \in Frames
              PROVE  Memory(f) \in SUBSET Address /\ (Memory(f) = {} <=> ~ Exists(f))
  OBVIOUS
<1>1. CASE ~ Exists(f) BY <1>1 DEF Memory
<1>2. CASE Exists(f)
  <2>1. ptr[f] \in Address /\ 0 \in Chunk
    BY <1>2, CapacityAssumption DEF IInv, TypeOK, Chunk
  <2>2. <<ptr[f][1], 0>> \in {ptr[f][1]} \X Chunk BY <2>1
  <2> QED BY <1>2, <2>1, <2>2 DEF Memory, Address
<1> QED BY <1>1, <1>2

\* The allocators implement FrameHeap: whichever threads make and delete frames,
\* no two that exist share memory.
THEOREM Refinement == Spec => ImplementsHeap
<1> DEFINE memory == [f \in Frames |-> Memory(f)]
<1>1. Init => Heap!Init BY DEF Init, Heap!Init, Memory
<1>2. IInv /\ [Next]_vars => [Heap!Next]_memory
  <2>. SUFFICES ASSUME IInv, [Next]_vars PROVE Heap!Next \/ memory' = memory
    OBVIOUS
  <2>i. IInv' BY NextIInv
  <2>d. (\A f, g \in Frames : f # g => Memory(f) \cap Memory(g) = {})'
    BY <2>i, MemoryDisjoint, PTL
  <2>m. (\A f \in Frames : Memory(f) \in SUBSET Address /\ (Memory(f) = {} <=> ~ Exists(f)))'
    BY <2>i, MemoryType, PTL
  <2>t. ptr \in [Frames -> Address \cup {Null}] /\ size \in [Frames -> Sizes \cup {0}]
    BY DEF IInv, TypeOK
  <2>1. ASSUME NEW t \in Thread, NEW f \in Frames, NEW n \in Sizes, Allocate(t, f, n)
        PROVE  Heap!Next
    <3>1. PICK p : ptr' = [ptr EXCEPT ![f] = p] /\ p # Null
      <4>1. CASE Small(n)
        <5>1. PICK p : Handed(t, f, p) BY <2>1, <4>1, AllocateChunkFacts DEF Allocate
        <5> QED BY <5>1, NullAssumption DEF Handed
      <4>2. CASE ~ Small(n)
        <5>1. PICK r \in Region : ptr' = [ptr EXCEPT ![f] = <<r, 0>>]
          BY <2>1, <4>2 DEF Allocate, AllocateLarge
        <5>2. <<r, 0>> \in Address BY CapacityAssumption DEF Address, Chunk
        <5> QED BY <5>1, <5>2, NullAssumption
      <4> QED BY <4>1, <4>2
    <3>2. ~ Exists(f) /\ size' = [size EXCEPT ![f] = n] BY <2>1 DEF Allocate
    <3>3. Exists(f)' BY <3>1, <2>t
    <3>4. \A g \in Frames : g # f => Memory(g)' = Memory(g) BY <3>1, <3>2, <2>t DEF Memory
    <3>5. memory' = [memory EXCEPT ![f] = Memory(f)'] BY <3>4
    <3>6. memory[f] = {} BY <3>2 DEF Memory
    <3>7. Memory(f)' \in SUBSET Address /\ Memory(f)' # {} BY <3>3, <2>m
    <3>8. \A g \in Frames : Memory(f)' \cap memory[g] = {}
      BY <3>4, <3>6, <2>d
    <3>9. Heap!Allocate(f) BY <3>5, <3>6, <3>7, <3>8 DEF Heap!Allocate
    <3> QED BY <3>9 DEF Heap!Next
  <2>2. ASSUME NEW f \in Frames, Deallocate(f) PROVE Heap!Next
    <3>1. Exists(f) /\ ptr' = [ptr EXCEPT ![f] = Null] /\ size' = [size EXCEPT ![f] = 0]
      BY <2>2 DEF Deallocate
    <3>2. ~ Exists(f)' /\ \A g \in Frames : g # f => Memory(g)' = Memory(g)
      BY <3>1, <2>t DEF Memory
    <3>3. memory' = [memory EXCEPT ![f] = {}] BY <3>2 DEF Memory
    <3>4. memory[f] # {} BY <3>1, MemoryType
    <3>5. Heap!Deallocate(f) BY <3>3, <3>4 DEF Heap!Deallocate
    <3> QED BY <3>5 DEF Heap!Next
  <2>3. ASSUME NEW t \in Thread, DestroyStack(t) \/ DestroyCurrentBlock(t) PROVE memory' = memory
    BY <2>3 DEF DestroyStack, DestroyCurrentBlock, Memory
  <2>4. CASE UNCHANGED vars BY <2>4 DEF Memory
  <2> QED BY <2>1, <2>2, <2>3, <2>4 DEF Next
<1> QED BY <1>1, <1>2, Invariance, PTL DEF Spec, ImplementsHeap, Heap!Spec
=============================================================================
