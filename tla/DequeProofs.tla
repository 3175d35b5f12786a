----------------------------- MODULE DequeProofs -----------------------------
(***************************************************************************)
(* Proofs about Deque, for any number of thieves and items and any first   *)
(* capacity: every item is taken once, and the deque implements WorkDeque. *)
(***************************************************************************)
EXTENDS Deque, TLAPS

USE DEF vars, ownerVars, thiefVars

-----------------------------------------------------------------------------
(* The inductive invariant.                                                *)

Cap == rings[buffer].cap
Cell(i) == Load(rings[buffer], i)

\* The positions of the elements.
Live == top..(End - 1)

\* The buffers are records with the two fields of a ring, and there is one.
RingsInv ==
    /\ Len(rings) \in Nat \ {0}
    /\ rings = [k \in 1..Len(rings) |-> [cap |-> rings[k].cap, cells |-> rings[k].cells]]

\* Where top and bottom are while the owner is busy, and that there is room.
OwnerInv ==
    /\ opc \in {"idle", "grow", "store", "stored", "publish"} => top <= bottom
    /\ opc = "popTop" => top <= bottom + 1
    /\ opc = "popCas" => ot = bottom /\ top \in {bottom, bottom + 1}
    /\ opc = "popFix" => top = bottom + 1
    /\ opc \in {"grow", "store", "stored", "publish"} => ot <= top /\ pushed < MaxItems
    /\ opc = "grow" => bottom - ot = Cap
    /\ opc \in {"store", "stored", "publish"} => bottom - ot < Cap
    /\ opc = "publish" => Cell(bottom) = pushed + 1
    /\ End - top <= Cap

\* The elements are items that were pushed and that nobody has taken.
ContentsInv ==
    /\ \A i \in Live : Cell(i) \in 1..pushed /\ \A k \in DOMAIN taken : taken[k] # Cell(i)
    /\ \A i, j \in Live : i # j => Cell(i) # Cell(j)

TakenInv ==
    /\ \A k \in DOMAIN taken : taken[k] \in 1..pushed
    /\ \A k, l \in DOMAIN taken : k # l => taken[k] # taken[l]
    /\ \A x \in 1..pushed : (\E i \in Live : Cell(i) = x) \/ (\E k \in DOMAIN taken : taken[k] = x)

\* What a thief has seen, and what of it holds still when top is where it was.
ThiefInv ==
    \A s \in Thieves :
        /\ st[s] <= top
        /\ spc[s] \in {"buffer", "cell", "cas"} /\ st[s] = top => top < End
        /\ spc[s] = "cell" /\ st[s] = top => Load(rings[sbuf[s]], top) = Cell(top)
        /\ spc[s] = "cas" /\ st[s] = top => sx[s] = Cell(top)

IInv == TypeOK /\ RingsInv /\ OwnerInv /\ ContentsInv /\ TakenInv /\ ThiefInv

-----------------------------------------------------------------------------
(* Remainders, and what the operations on a ring do to its elements.       *)

\* Division with remainder.
LEMMA DivMod ==
    ASSUME NEW m \in Nat \ {0}, NEW i \in Nat
    PROVE  i = m * (i \div m) + (i % m) /\ i \div m \in Nat /\ i % m \in Int
        /\ i % m \in 0..(m - 1)
OBVIOUS

\* Two multiples of m with the same remainder are m apart at least.
LEMMA Apart ==
    ASSUME NEW m \in Nat \ {0}, NEW p \in Int, NEW q \in Int, NEW r \in Int,
           m * p + r < m * q + r, (m * q + r) - (m * p + r) < m
    PROVE  FALSE
OBVIOUS

\* Positions less than m apart fall into different cells.
LEMMA Less ==
    ASSUME NEW m \in Nat \ {0}, NEW i \in Nat, NEW j \in Nat, i < j, j - i < m
    PROVE  i % m # j % m
<1> SUFFICES ASSUME i % m = j % m PROVE FALSE
    OBVIOUS
<1>1. i = m * (i \div m) + (i % m) /\ i \div m \in Nat /\ i % m \in Int
    BY DivMod, Zenon
<1>2. j = m * (j \div m) + (j % m) /\ j \div m \in Nat
    BY DivMod, Zenon
<1> DEFINE p == i \div m
           q == j \div m
           r == i % m
<1>3. p \in Int /\ q \in Int /\ r \in Int /\ i = m * p + r /\ j = m * q + r
    BY <1>1, <1>2
<1> HIDE DEF p, q, r
<1>4. m * p + r < m * q + r /\ (m * q + r) - (m * p + r) < m
    BY <1>3
<1> QED
    BY <1>3, <1>4, Apart

LEMMA Distinct ==
    ASSUME NEW m \in Nat \ {0}, NEW i \in Nat, NEW j \in Nat,
           i # j, j - i < m, i - j < m
    PROVE  i % m # j % m
<1>1. CASE i < j
    BY <1>1, Less
<1>2. CASE j < i
    BY <1>2, Less
<1> QED
    BY <1>1, <1>2

Ring == UNION {[cap : {c}, cells : [0..(c - 1) -> Items \cup {Garbage}]] : c \in Nat \ {0}}

LEMMA RingFields ==
    ASSUME NEW r \in Ring
    PROVE  /\ r.cap \in Nat \ {0}
           /\ r.cells \in [0..(r.cap - 1) -> Items \cup {Garbage}]
           /\ r = [cap |-> r.cap, cells |-> r.cells]
BY DEF Ring

LEMMA RingOf ==
    ASSUME NEW c \in Nat \ {0}, NEW f \in [0..(c - 1) -> Items \cup {Garbage}]
    PROVE  [cap |-> c, cells |-> f] \in Ring
BY DEF Ring

LEMMA LoadType ==
    ASSUME NEW r \in Ring, NEW i \in Nat
    PROVE  Load(r, i) \in Items \cup {Garbage}
BY RingFields, DivMod DEF Load

\* A store changes the cell of its position and of no other one nearby.
LEMMA StoreLoad ==
    ASSUME NEW r \in Ring, NEW i \in Nat, NEW x \in Items \cup {Garbage}
    PROVE  /\ Store(r, i, x) \in Ring
           /\ Store(r, i, x).cap = r.cap
           /\ Load(Store(r, i, x), i) = x
           /\ \A j \in Nat : j # i /\ j - i < r.cap /\ i - j < r.cap
                 => Load(Store(r, i, x), j) = Load(r, j)
<1> DEFINE f == [r.cells EXCEPT ![i % r.cap] = x]
<1>1. /\ r.cap \in Nat \ {0} /\ r.cells \in [0..(r.cap - 1) -> Items \cup {Garbage}]
      /\ i % r.cap \in 0..(r.cap - 1)
    BY RingFields, DivMod
<1>2. Store(r, i, x) = [cap |-> r.cap, cells |-> f]
    <2>1. Store(r, i, x) = [r EXCEPT !.cells = f]
        BY DEF Store
    <2> HIDE DEF f
    <2>2. r = [cap |-> r.cap, cells |-> r.cells]
        BY RingFields
    <2>3. \A c, g : [[cap |-> c, cells |-> g] EXCEPT !.cells = f] = [cap |-> c, cells |-> f]
        OBVIOUS
    <2> QED
        BY <2>1, <2>2, <2>3, Zenon
<1>3. f \in [0..(r.cap - 1) -> Items \cup {Garbage}] /\ f[i % r.cap] = x
    BY <1>1
<1>4. ASSUME NEW j \in Nat, j # i, j - i < r.cap, i - j < r.cap
      PROVE  f[j % r.cap] = r.cells[j % r.cap]
    <2>1. j % r.cap # i % r.cap
        BY <1>1, <1>4, Distinct
    <2>2. j % r.cap \in 0..(r.cap - 1)
        BY <1>1, DivMod
    <2> QED
        BY <1>1, <2>1, <2>2
<1> HIDE DEF f
<1> QED
    BY <1>1, <1>2, <1>3, <1>4, RingOf DEF Load

\* resize keeps every element, at its position.
LEMMA ResizedLoad ==
    ASSUME NEW r \in Ring, NEW b \in Nat, NEW t \in Nat, b - t <= 2 * r.cap
    PROVE  /\ Resized(r, b, t) \in Ring
           /\ Resized(r, b, t).cap = 2 * r.cap
           /\ \A i \in t..(b - 1) : Load(Resized(r, b, t), i) = Load(r, i)
<1> DEFINE m == 2 * r.cap
           At(c) == IF \E i \in t..(b - 1) : i % m = c
                    THEN Load(r, CHOOSE i \in t..(b - 1) : i % m = c)
                    ELSE Garbage
           f == [c \in 0..(m - 1) |-> At(c)]
<1>1. m \in Nat \ {0}
    BY RingFields
<1>2. Resized(r, b, t) = [cap |-> m, cells |-> f]
    BY DEF Resized
<1>3. ASSUME NEW c \in 0..(m - 1)
      PROVE  At(c) \in Items \cup {Garbage}
    <2>1. CASE \E i \in t..(b - 1) : i % m = c
        <3>1. (CHOOSE i \in t..(b - 1) : i % m = c) \in Nat
            BY <2>1
        <3> QED
            BY <2>1, <3>1, LoadType
    <2> QED
        BY <2>1
<1>4. ASSUME NEW i \in t..(b - 1)
      PROVE  At(i % m) = Load(r, i) /\ i % m \in 0..(m - 1)
    <2>1. PICK j \in t..(b - 1) : j = CHOOSE k \in t..(b - 1) : k % m = i % m
        OBVIOUS
    <2>2. j % m = i % m
        BY <2>1
    <2>3. j = i
        <3> SUFFICES ASSUME j # i PROVE FALSE
            OBVIOUS
        <3>1. j \in Nat /\ i \in Nat /\ j - i < m /\ i - j < m
            BY <1>1
        <3> QED
            BY <1>1, <2>2, <3>1, Distinct
    <2>4. i \in Nat
        OBVIOUS
    <2>5. i % m \in 0..(m - 1)
        BY <1>1, <2>4, DivMod, Zenon
    <2>6. At(i % m) = Load(r, j)
        BY <2>1
    <2> QED
        BY <2>3, <2>5, <2>6
<1> HIDE DEF At, m
<1>5. f \in [0..(m - 1) -> Items \cup {Garbage}]
    BY <1>3
<1>6. \A i \in t..(b - 1) : f[i % m] = Load(r, i)
    BY <1>4
<1> HIDE DEF f
<1>7. Resized(r, b, t).cap = m
    BY <1>2
<1> QED
    BY <1>1, <1>2, <1>5, <1>6, <1>7, RingOf DEF Load, m

-----------------------------------------------------------------------------
(* The four effects a step can have on what the deque contains.            *)

SameCells == \A i \in Live : Load(rings'[buffer'], i) = Cell(i)

\* Nothing changes: top and the end stay, or the deque is and stays empty.
Quiet ==
    /\ (top' = top /\ End' = End) \/ (End <= top /\ End' <= top')
    /\ SameCells
    /\ UNCHANGED <<pushed, taken>>

\* emplace: one more element at the end.
Added ==
    /\ top' = top /\ top <= End /\ End' = End + 1
    /\ SameCells
    /\ pushed < MaxItems /\ pushed' = pushed + 1
    /\ Load(rings'[buffer'], End) = pushed + 1
    /\ taken' = taken

\* pop of one of several elements: the newest one goes.
NewestTaken ==
    /\ top' = top /\ top < End /\ End' = End - 1
    /\ SameCells
    /\ taken' = Append(taken, Cell(End - 1))
    /\ pushed' = pushed

\* steal, or pop of the last element: the oldest one goes.
OldestTaken ==
    /\ top' = top + 1 /\ top < End
    /\ End' = End \/ (End = top + 1 /\ End' <= top')
    /\ SameCells
    /\ taken' = Append(taken, Cell(top))
    /\ pushed' = pushed

Effect == Quiet \/ Added \/ NewestTaken \/ OldestTaken

\* The elements stay and nothing is taken.
LEMMA QuietKeeps ==
    ASSUME TypeOK, OwnerInv, ContentsInv, TakenInv, TypeOK', OwnerInv', Quiet
    PROVE  ContentsInv' /\ TakenInv'
<1>1. Live' = Live
    <2>1. top \in Int /\ End \in Int /\ top' \in Int /\ End' \in Int
        BY DEF TypeOK, End
    <2> QED
        BY <2>1 DEF Quiet, Live
<1>2. \A i \in Live : Load(rings'[buffer'], i) = Cell(i)
    BY DEF Quiet, SameCells
<1>3. pushed' = pushed /\ taken' = taken
    BY DEF Quiet
<1>4. ContentsInv'
    BY <1>1, <1>2, <1>3 DEF ContentsInv, Cell
<1>5. TakenInv'
    BY <1>1, <1>2, <1>3 DEF TakenInv, Cell
<1> QED
    BY <1>4, <1>5

LEMMA AddedKeeps ==
    ASSUME TypeOK, OwnerInv, ContentsInv, TakenInv, TypeOK', OwnerInv', Added
    PROVE  ContentsInv' /\ TakenInv'
<1>1. Live' = Live \cup {End} /\ End \notin Live
    <2>1. top \in Int /\ End \in Int /\ top' \in Int /\ End' \in Int
        BY DEF TypeOK, End
    <2> QED
        BY <2>1 DEF Added, Live
<1>2. \A i \in Live : Load(rings'[buffer'], i) = Cell(i)
    BY DEF Added, SameCells
<1>3. pushed \in Nat /\ pushed' = pushed + 1 /\ taken' = taken
    BY MaxItemsAssumption DEF Added, TypeOK
<1>4. Load(rings'[buffer'], End) = pushed + 1
    BY DEF Added
<1>5. \A i \in Live : Cell(i) \in 1..pushed /\ Cell(i) # pushed + 1
    BY <1>3 DEF ContentsInv
<1>6. \A k \in DOMAIN taken : taken[k] \in 1..pushed /\ taken[k] # pushed + 1
    BY <1>3 DEF TakenInv
<1>7. 1..pushed' = 1..pushed \cup {pushed + 1}
    BY <1>3
<1>8. ContentsInv'
    BY <1>1, <1>2, <1>3, <1>4, <1>5, <1>6, <1>7 DEF ContentsInv, Cell
<1>9. TakenInv'
    BY <1>1, <1>2, <1>3, <1>4, <1>6, <1>7 DEF TakenInv, Cell
<1> QED
    BY <1>8, <1>9

\* One element moves from the deque to what was taken.
LEMMA TakingKeeps ==
    ASSUME TypeOK, OwnerInv, ContentsInv, TakenInv,
           NEW p \in Live, Live' = Live \ {p}, SameCells,
           taken' = Append(taken, Cell(p)), pushed' = pushed
    PROVE  ContentsInv' /\ TakenInv'
<1>1. taken \in Seq(Items) /\ Len(taken) \in Nat /\ DOMAIN taken = 1..Len(taken)
    BY DEF TypeOK
<1>2. /\ DOMAIN taken' = DOMAIN taken \cup {Len(taken) + 1}
      /\ Len(taken) + 1 \notin DOMAIN taken
      /\ \A k \in DOMAIN taken : taken'[k] = taken[k]
      /\ taken'[Len(taken) + 1] = Cell(p)
    BY <1>1
<1>3. \A i \in Live : Load(rings'[buffer'], i) = Cell(i)
    BY DEF SameCells
<1> DEFINE n == Len(taken) + 1
<1> HIDE DEF n
<1>4. /\ DOMAIN taken' = DOMAIN taken \cup {n} /\ n \notin DOMAIN taken
      /\ taken'[n] = Cell(p)
    BY <1>2 DEF n
<1>5. ContentsInv'
    BY <1>2, <1>3, <1>4 DEF ContentsInv, Cell
<1>6. TakenInv'
    <2>1. \A k \in DOMAIN taken' : taken'[k] \in 1..pushed
        BY <1>2, <1>4 DEF ContentsInv, TakenInv
    <2>2. \A k, l \in DOMAIN taken' : k # l => taken'[k] # taken'[l]
        BY <1>2, <1>4 DEF ContentsInv, TakenInv
    <2>3. ASSUME NEW x \in 1..pushed
          PROVE  \/ \E i \in Live' : Load(rings'[buffer'], i) = x
                 \/ \E k \in DOMAIN taken' : taken'[k] = x
        BY <1>2, <1>3, <1>4 DEF TakenInv
    <2> QED
        BY <2>1, <2>2, <2>3 DEF TakenInv, Cell
<1> QED
    BY <1>5, <1>6

LEMMA NewestTakenKeeps ==
    ASSUME TypeOK, OwnerInv, ContentsInv, TakenInv, TypeOK', OwnerInv', NewestTaken
    PROVE  ContentsInv' /\ TakenInv'
<1>1. top \in Int /\ End \in Int /\ top' \in Int /\ End' \in Int
    BY DEF TypeOK, End
<1>2. End - 1 \in Live /\ Live' = Live \ {End - 1}
    BY <1>1 DEF NewestTaken, Live
<1> QED
    BY <1>2, TakingKeeps DEF NewestTaken

LEMMA OldestTakenKeeps ==
    ASSUME TypeOK, OwnerInv, ContentsInv, TakenInv, TypeOK', OwnerInv', OldestTaken
    PROVE  ContentsInv' /\ TakenInv'
<1>1. top \in Int /\ End \in Int /\ top' \in Int /\ End' \in Int
    BY DEF TypeOK, End
<1>2. top \in Live /\ Live' = Live \ {top}
    BY <1>1 DEF OldestTaken, Live
<1> QED
    BY <1>2, TakingKeeps DEF OldestTaken

LEMMA EffectKeeps ==
    ASSUME TypeOK, OwnerInv, ContentsInv, TakenInv, TypeOK', OwnerInv', Effect
    PROVE  ContentsInv' /\ TakenInv'
BY QuietKeeps, AddedKeeps, NewestTakenKeeps, OldestTakenKeeps DEF Effect

-----------------------------------------------------------------------------
(* What every step starts from.                                            *)

LEMMA Facts ==
    ASSUME IInv
    PROVE  /\ rings \in Seq(Ring) /\ DOMAIN rings = 1..Len(rings)
           /\ Len(rings) \in Nat \ {0} /\ buffer = Len(rings)
           /\ rings[buffer] \in Ring /\ Cap \in Nat \ {0}
           /\ top \in Nat /\ bottom \in Int /\ ot \in Nat /\ End \in Int
           /\ pushed \in Nat
<1>1. /\ Len(rings) \in Nat \ {0} /\ buffer = Len(rings)
      /\ rings = [k \in 1..Len(rings) |-> [cap |-> rings[k].cap, cells |-> rings[k].cells]]
    BY DEF IInv, TypeOK, RingsInv
<1>2. DOMAIN rings = 1..Len(rings)
    BY <1>1
<1>3. \A k \in 1..Len(rings) : rings[k] \in Ring
    <2> TAKE k \in 1..Len(rings)
    <2>1. rings[k].cap \in Nat \ {0}
        /\ rings[k].cells \in [0..(rings[k].cap - 1) -> Items \cup {Garbage}]
        BY <1>2 DEF IInv, TypeOK
    <2>2. rings[k] = [cap |-> rings[k].cap, cells |-> rings[k].cells]
        BY <1>1
    <2> QED
        BY <2>1, <2>2, RingOf
<1>4. rings \in Seq(Ring)
    BY <1>1, <1>3
<1>5. rings[buffer] \in Ring
    BY <1>1, <1>3
<1>6. Cap \in Nat \ {0}
    BY <1>5, RingFields DEF Cap
<1>7. top \in Nat /\ bottom \in Int /\ ot \in Nat /\ End \in Int /\ pushed \in Nat
    BY MaxItemsAssumption DEF IInv, TypeOK, End
<1> QED
    BY <1>1, <1>2, <1>4, <1>5, <1>6, <1>7

\* Rings of the right type are a legal value of rings.
LEMMA RingsType ==
    ASSUME NEW q \in Seq(Ring), Len(q) # 0
    PROVE  /\ Len(q) \in Nat \ {0}
           /\ q = [k \in 1..Len(q) |-> [cap |-> q[k].cap, cells |-> q[k].cells]]
           /\ \A k \in DOMAIN q : /\ q[k].cap \in Nat \ {0}
                                  /\ q[k].cells \in [0..(q[k].cap - 1) -> Items \cup {Garbage}]
<1>1. Len(q) \in Nat \ {0} /\ DOMAIN q = 1..Len(q) /\ q = [k \in 1..Len(q) |-> q[k]]
    OBVIOUS
<1>2. \A k \in 1..Len(q) : q[k] \in Ring
    OBVIOUS
<1>3. \A k \in 1..Len(q) :
          /\ q[k].cap \in Nat \ {0}
          /\ q[k].cells \in [0..(q[k].cap - 1) -> Items \cup {Garbage}]
          /\ q[k] = [cap |-> q[k].cap, cells |-> q[k].cells]
    BY <1>2, RingFields
<1>4. q = [k \in 1..Len(q) |-> [cap |-> q[k].cap, cells |-> q[k].cells]]
    BY <1>1, <1>3, Zenon
<1> QED
    BY <1>1, <1>3, <1>4

\* The elements are items.
LEMMA CellType ==
    ASSUME IInv, NEW i \in Live
    PROVE  Cell(i) \in Items
<1>1. Cell(i) \in 1..pushed /\ pushed \in 0..MaxItems
    BY DEF IInv, ContentsInv, TypeOK
<1> QED
    BY <1>1, MaxItemsAssumption DEF Items

\* Thieves that stand still, while top does and the cells they look at do.
LEMMA ThievesStand ==
    ASSUME ThiefInv, UNCHANGED thiefVars, top' = top, top < End => top < End',
           top < End => Load(rings'[buffer'], top) = Cell(top),
           \A s \in Thieves : spc[s] = "cell" => rings'[sbuf[s]] = rings[sbuf[s]]
    PROVE  ThiefInv'
BY DEF ThiefInv, Cell

\* Where top has moved on, nothing a thief has read matters.
LEMMA ThievesLate ==
    ASSUME IInv, UNCHANGED thiefVars, top' = top + 1
    PROVE  ThiefInv'
<1>1. \A s \in Thieves : st[s] \in Nat /\ st[s] <= top
    BY DEF IInv, TypeOK, ThiefInv
<1> QED
    BY <1>1, Facts DEF ThiefInv

Keeps == TypeOK' /\ RingsInv' /\ OwnerInv' /\ ThiefInv' /\ Effect

-----------------------------------------------------------------------------
(* The owner's steps.                                                      *)

LEMMA PushLoadTopKeeps ==
    ASSUME IInv, PushLoadTop
    PROVE  Keeps
<1> USE DEF PushLoadTop
<1>1. TypeOK' /\ RingsInv'
    BY DEF IInv, TypeOK, RingsInv
<1>2. End' = End
    BY DEF End
<1>3. OwnerInv'
    <2>1. top <= bottom /\ bottom - top <= Cap
        BY DEF IInv, OwnerInv, End
    <2>2. opc' = "grow" <=> Cap < (bottom - top) + 1
        BY DEF Full, Cap
    <2>3. opc' \in {"grow", "store"} /\ ot' = top /\ pushed' < MaxItems
        BY Zenon
    <2> QED
        BY <1>2, <2>1, <2>2, <2>3, Facts DEF OwnerInv, Cap, End
<1>4. SameCells
    BY DEF SameCells, Cell
<1>5. ThiefInv'
    BY <1>2, ThievesStand DEF IInv, Cell
<1>6. Quiet
    BY <1>2, <1>4 DEF Quiet
<1> QED
    BY <1>1, <1>3, <1>5, <1>6 DEF Keeps, Effect

\* The new buffer holds the elements of the old one.
LEMMA PushGrowKeeps ==
    ASSUME IInv, PushGrow
    PROVE  Keeps
<1> USE DEF PushGrow
<1> DEFINE new == Resized(rings[buffer], bottom, ot)
<1>1. /\ bottom - ot = Cap /\ ot <= top /\ top <= bottom /\ ot \in Nat /\ bottom \in Nat
      /\ pushed < MaxItems
    BY Facts DEF IInv, OwnerInv
<1>2. bottom - ot <= 2 * rings[buffer].cap
    BY <1>1, Facts DEF Cap
<1>3. /\ new \in Ring /\ new.cap = 2 * Cap
      /\ \A i \in ot..(bottom - 1) : Load(new, i) = Cell(i)
    BY <1>1, <1>2, Facts, ResizedLoad DEF Cap, Cell
<1> HIDE DEF new
<1>4. rings' = Append(rings, new) /\ buffer' = Len(rings) + 1
    BY DEF new
<1>5. /\ rings' \in Seq(Ring) /\ Len(rings') = Len(rings) + 1
      /\ rings'[buffer'] = new /\ buffer' = Len(rings')
      /\ DOMAIN rings \subseteq DOMAIN rings'
      /\ \A k \in DOMAIN rings : rings'[k] = rings[k]
    BY <1>3, <1>4, Facts
<1>6. RingsInv'
    <2>1. Len(rings') # 0
        BY <1>5, Facts
    <2> QED
        BY <1>5, <2>1, RingsType DEF RingsInv
<1>7. TypeOK'
    <2>1. \A r \in DOMAIN rings' :
              /\ rings'[r].cap \in Nat \ {0}
              /\ rings'[r].cells \in [0..(rings'[r].cap - 1) -> Items \cup {Garbage}]
        <3>1. Len(rings') # 0
            BY <1>5, Facts
        <3> QED
            BY <1>5, <3>1, RingsType
    <2>2. sbuf' \in [Thieves -> DOMAIN rings']
        BY <1>5 DEF IInv, TypeOK
    <2> QED
        BY <1>5, <2>1, <2>2 DEF IInv, TypeOK
<1>8. opc' = "store" /\ End = bottom /\ End' = bottom
    BY DEF End
<1>9. SameCells
    BY <1>1, <1>3, <1>5, <1>8, Facts DEF SameCells, Live
<1>10. OwnerInv'
    BY <1>1, <1>3, <1>5, <1>8, Facts DEF OwnerInv, Cap
<1>11. ThiefInv'
    <2>1. \A s \in Thieves : rings'[sbuf[s]] = rings[sbuf[s]]
        BY <1>5 DEF IInv, TypeOK
    <2>2. top < End => Load(rings'[buffer'], top) = Cell(top)
        BY <1>9, Facts DEF SameCells, Live
    <2> QED
        BY <1>8, <2>1, <2>2, ThievesStand DEF IInv
<1> QED
    BY <1>6, <1>7, <1>8, <1>9, <1>10, <1>11 DEF Keeps, Effect, Quiet

\* There is room for the cell of bottom: it is not that of an element.
LEMMA StoreKeeps ==
    ASSUME IInv, NEW x \in Items \cup {Garbage}, opc \in {"store", "stored"},
           rings' = [rings EXCEPT ![buffer] = Store(@, bottom, x)],
           opc' \in {"stored", "publish"}, opc' = "publish" => x = pushed + 1,
           UNCHANGED <<top, bottom, buffer, ot, pushed, thiefVars, taken>>
    PROVE  Keeps
<1> DEFINE new == Store(rings[buffer], bottom, x)
<1>1. bottom - ot < Cap /\ ot <= top /\ top <= bottom /\ bottom \in Nat /\ pushed < MaxItems
    BY Facts DEF IInv, OwnerInv
<1>2. /\ new \in Ring /\ new.cap = Cap /\ Load(new, bottom) = x
      /\ \A j \in Nat : j # bottom /\ j - bottom < Cap /\ bottom - j < Cap
            => Load(new, j) = Cell(j)
    <2>1. rings[buffer] \in Ring
        BY Facts
    <2> QED
        BY <1>1, <2>1, StoreLoad, Zenon DEF Cap, Cell
<1> HIDE DEF new
<1>3. rings' = [rings EXCEPT ![buffer] = new]
    BY DEF new
<1>4. /\ rings' \in Seq(Ring) /\ Len(rings') = Len(rings)
      /\ DOMAIN rings' = DOMAIN rings /\ rings'[buffer] = new
      /\ \A k \in DOMAIN rings : k # buffer => rings'[k] = rings[k]
    BY <1>2, <1>3, Facts
<1>5. RingsInv'
    BY <1>4, RingsType, Facts DEF RingsInv
<1>6. TypeOK'
    <2>1. \A r \in DOMAIN rings' :
              /\ rings'[r].cap \in Nat \ {0}
              /\ rings'[r].cells \in [0..(rings'[r].cap - 1) -> Items \cup {Garbage}]
        BY <1>4, RingsType, Facts
    <2> QED
        BY <1>4, <2>1 DEF IInv, TypeOK
<1>7. End = bottom /\ End' = bottom
    BY DEF End
<1>8. \A i \in top..(bottom - 1) : Load(new, i) = Cell(i)
    BY <1>1, <1>2, Facts
<1>9. SameCells
    BY <1>4, <1>7, <1>8 DEF SameCells, Live
<1>10. OwnerInv'
    BY <1>1, <1>2, <1>4, <1>7, Facts DEF OwnerInv, Cap, Cell
<1>11. ThiefInv'
    <2>1. ASSUME NEW s \in Thieves, spc[s] = "cell", st[s] = top
          PROVE  Load(rings'[sbuf[s]], top) = Load(rings'[buffer], top)
        <3>1. /\ Load(rings[sbuf[s]], top) = Cell(top) /\ sbuf[s] \in DOMAIN rings
              /\ top < bottom
            BY <1>7, <2>1 DEF IInv, ThiefInv, TypeOK
        <3>2. top \in top..(bottom - 1)
            BY <3>1, Facts
        <3>3. CASE sbuf[s] = buffer
            BY <3>3
        <3>4. CASE sbuf[s] # buffer
            BY <1>4, <1>8, <3>1, <3>2, <3>4
        <3> QED
            BY <3>3, <3>4
    <2>2. top < End => Load(rings'[buffer'], top) = Cell(top)
        BY <1>9, Facts DEF SameCells, Live
    <2> QED
        BY <1>7, <2>1, <2>2 DEF IInv, ThiefInv, Cell
<1> QED
    BY <1>5, <1>6, <1>7, <1>9, <1>10, <1>11 DEF Keeps, Effect, Quiet

LEMMA PushStoreKeeps ==
    ASSUME IInv, PushStore
    PROVE  Keeps
BY StoreKeeps DEF PushStore

LEMMA PushStoredKeeps ==
    ASSUME IInv, PushStored
    PROVE  Keeps
<1>1. pushed + 1 \in Items
    BY Facts, MaxItemsAssumption DEF PushStored, IInv, OwnerInv, Items
<1> QED
    BY <1>1, StoreKeeps DEF PushStored

LEMMA PushPublishKeeps ==
    ASSUME IInv, PushPublish
    PROVE  Keeps
<1> USE DEF PushPublish
<1>1. /\ bottom - ot < Cap /\ ot <= top /\ top <= bottom /\ pushed < MaxItems
      /\ Cell(bottom) = pushed + 1
    BY DEF IInv, OwnerInv
<1>2. End = bottom /\ End' = bottom + 1 /\ opc' = "idle"
    BY DEF End
<1>3. TypeOK' /\ RingsInv'
    <2>1. bottom' \in Int /\ bottom' >= -1 /\ pushed' \in 0..MaxItems
        BY <1>1, Facts, MaxItemsAssumption DEF IInv, TypeOK
    <2> QED
        BY <2>1 DEF IInv, TypeOK, RingsInv
<1>4. OwnerInv'
    BY <1>1, <1>2, Facts DEF OwnerInv, Cap
<1>5. SameCells
    BY DEF SameCells, Cell
<1>6. ThiefInv'
    BY <1>2, Facts, ThievesStand DEF IInv, Cell
<1>7. Added
    BY <1>1, <1>2, <1>5 DEF Added, Cell
<1> QED
    BY <1>3, <1>4, <1>6, <1>7 DEF Keeps, Effect

LEMMA PopDecKeeps ==
    ASSUME IInv, PopDec
    PROVE  Keeps
<1> USE DEF PopDec
<1>1. top <= bottom
    BY DEF IInv, OwnerInv
<1>2. End = bottom /\ End' = bottom /\ bottom' = bottom - 1 /\ opc' = "popTop"
    BY Facts DEF End
<1>3. TypeOK' /\ RingsInv'
    <2>1. bottom' \in Int /\ bottom' >= -1
        BY <1>1, Facts
    <2> QED
        BY <2>1 DEF IInv, TypeOK, RingsInv
<1>4. OwnerInv'
    <2>1. bottom - top <= Cap /\ Cap' = Cap
        BY <1>2 DEF IInv, OwnerInv, Cap
    <2> QED
        BY <1>1, <1>2, <2>1, Facts DEF OwnerInv
<1>5. SameCells
    BY DEF SameCells, Cell
<1>6. ThiefInv'
    BY <1>2, ThievesStand DEF IInv, Cell
<1>7. Quiet
    BY <1>2, <1>5 DEF Quiet
<1> QED
    BY <1>3, <1>4, <1>6, <1>7 DEF Keeps, Effect

\* One more item in what was taken.
LEMMA TakenType ==
    ASSUME IInv, NEW p \in Live
    PROVE  Append(taken, Cell(p)) \in Seq(Items)
<1>1. Cell(p) \in Items
    BY CellType
<1> QED
    BY <1>1 DEF IInv, TypeOK

LEMMA PopLoadTopKeeps ==
    ASSUME IInv, PopLoadTop
    PROVE  Keeps
<1> USE DEF PopLoadTop, RaceForLast
<1>1. /\ top <= bottom + 1 /\ End = bottom + 1 /\ End - top <= Cap
      /\ UNCHANGED <<top, bottom, buffer, rings, pushed>> /\ UNCHANGED thiefVars
          /\ Cap' = Cap
    BY DEF IInv, OwnerInv, End, Cap
<1>2. SameCells
    BY DEF SameCells, Cell
<1>3. CASE top <= bottom /\ top # bottom
    <2>1. opc' = "idle" /\ ot' = ot /\ taken' = Append(taken, Cell(bottom))
        BY <1>3, Facts DEF Cell
    <2>2. End' = bottom /\ top < bottom
        BY <1>1, <1>3, <2>1, Facts DEF End
    <2>3. bottom \in Live
        BY <1>1, <2>2, Facts DEF Live
    <2>4. TypeOK' /\ RingsInv'
        BY <1>1, <2>1, <2>3, TakenType DEF IInv, TypeOK, RingsInv
    <2>5. OwnerInv'
        BY <1>1, <2>1, <2>2, Facts DEF OwnerInv
    <2>6. ThiefInv'
        BY <1>1, <2>2, ThievesStand DEF IInv, Cell
    <2>7. NewestTaken
        <3>1. End - 1 = bottom
            BY <1>1, Facts
        <3> QED
            BY <1>1, <1>2, <2>1, <2>2, <3>1, Facts DEF NewestTaken
    <2> QED
        BY <2>4, <2>5, <2>6, <2>7 DEF Keeps, Effect
<1>4. CASE top = bottom
    <2>1. opc' = "popCas" /\ ot' = top /\ taken' = taken
        BY <1>4, Facts
    <2>2. End' = End
        BY <1>1, <2>1 DEF End
    <2>3. TypeOK' /\ RingsInv'
        BY <1>1, <2>1 DEF IInv, TypeOK, RingsInv
    <2>4. OwnerInv'
        BY <1>1, <1>4, <2>1, <2>2, Facts DEF OwnerInv
    <2>5. ThiefInv'
        BY <1>1, <2>2, ThievesStand DEF IInv, Cell
    <2> QED
        BY <1>1, <1>2, <2>1, <2>2, <2>3, <2>4, <2>5 DEF Keeps, Effect, Quiet
<1>5. CASE top > bottom
    <2>1. opc' = "popFix" /\ ot' = ot /\ taken' = taken
        BY <1>5, Facts
    <2>2. End' = bottom /\ top = bottom + 1
        BY <1>1, <1>5, <2>1, Facts DEF End
    <2>3. TypeOK' /\ RingsInv'
        BY <1>1, <2>1 DEF IInv, TypeOK, RingsInv
    <2>4. OwnerInv'
        BY <1>1, <2>1, <2>2, Facts DEF OwnerInv
    <2>5. ThiefInv'
        BY <1>1, <2>2, Facts, ThievesStand DEF IInv, Cell
    <2>6. Quiet
        BY <1>1, <1>2, <2>1, <2>2, Facts DEF Quiet
    <2> QED
        BY <2>3, <2>4, <2>5, <2>6 DEF Keeps, Effect
<1> QED
    BY <1>1, <1>3, <1>4, <1>5, Facts

LEMMA PopCASKeeps ==
    ASSUME IInv, PopCAS
    PROVE  Keeps
<1> USE DEF PopCAS
<1>1. /\ ot = bottom /\ top \in {bottom, bottom + 1} /\ End = bottom + 1
      /\ UNCHANGED <<bottom, buffer, rings, pushed>> /\ UNCHANGED thiefVars /\ Cap' = Cap
      /\ opc' = "popFix" /\ ot' = 0 /\ End' = bottom
    BY DEF IInv, OwnerInv, End, Cap
<1>2. SameCells
    BY DEF SameCells, Cell
<1>3. CASE top = ot
    <2>1. top' = top + 1 /\ taken' = Append(taken, Cell(top)) /\ top = bottom
        BY <1>1, <1>3 DEF Cell
    <2>2. top \in Live
        BY <1>1, <2>1, Facts DEF Live
    <2>3. TypeOK' /\ RingsInv'
        <3>1. top' \in Nat /\ taken' \in Seq(Items)
            BY <2>1, <2>2, TakenType, Facts
        <3> QED
            BY <1>1, <3>1 DEF IInv, TypeOK, RingsInv
    <2>4. OwnerInv'
        BY <1>1, <2>1, Facts DEF OwnerInv
    <2>5. ThiefInv'
        BY <1>1, <2>1, ThievesLate
    <2>6. OldestTaken
        BY <1>1, <1>2, <2>1, Facts DEF OldestTaken
    <2> QED
        BY <2>3, <2>4, <2>5, <2>6 DEF Keeps, Effect
<1>4. CASE top # ot
    <2>1. top' = top /\ taken' = taken /\ top = bottom + 1
        BY <1>1, <1>4
    <2>2. TypeOK' /\ RingsInv'
        BY <1>1, <2>1 DEF IInv, TypeOK, RingsInv
    <2>3. OwnerInv'
        BY <1>1, <2>1, Facts DEF OwnerInv
    <2>4. ThiefInv'
        BY <1>1, <2>1, Facts, ThievesStand DEF IInv, Cell
    <2>5. Quiet
        BY <1>1, <1>2, <2>1, Facts DEF Quiet
    <2> QED
        BY <2>2, <2>3, <2>4, <2>5 DEF Keeps, Effect
<1> QED
    BY <1>3, <1>4

LEMMA PopFixKeeps ==
    ASSUME IInv, PopFix
    PROVE  Keeps
<1> USE DEF PopFix
<1>1. /\ top = bottom + 1 /\ End = bottom /\ End' = bottom + 1 /\ bottom' = bottom + 1
      /\ opc' = "idle" /\ Cap' = Cap
    BY DEF IInv, OwnerInv, End, Cap
<1>2. TypeOK' /\ RingsInv'
    <2>1. bottom' \in Int /\ bottom' >= -1
        BY <1>1, Facts
    <2> QED
        BY <2>1 DEF IInv, TypeOK, RingsInv
<1>3. OwnerInv'
    BY <1>1, Facts DEF OwnerInv
<1>4. SameCells
    BY DEF SameCells, Cell
<1>5. ThiefInv'
    BY <1>1, Facts, ThievesStand DEF IInv, Cell
<1>6. Quiet
    BY <1>1, <1>4, Facts DEF Quiet
<1> QED
    BY <1>2, <1>3, <1>5, <1>6 DEF Keeps, Effect

-----------------------------------------------------------------------------
(* The thieves' steps.                                                     *)

\* Steps of a thief that write nothing the others read.
LEMMA OnlyThief ==
    ASSUME IInv, UNCHANGED <<top, bottom, buffer, rings, ownerVars, taken>>
    PROVE  RingsInv' /\ OwnerInv' /\ Quiet
<1>1. End' = End /\ SameCells
    BY DEF End, SameCells, Cell
<1>2. OwnerInv'
    BY <1>1 DEF IInv, OwnerInv, Cap, Cell
<1> QED
    BY <1>1, <1>2 DEF IInv, RingsInv, Quiet

LEMMA StealLoadTopKeeps ==
    ASSUME IInv, NEW s \in Thieves, StealLoadTop(s)
    PROVE  Keeps
<1> USE DEF StealLoadTop
<1>1. RingsInv' /\ OwnerInv' /\ Quiet
    BY OnlyThief
<1>2. TypeOK'
    BY DEF IInv, TypeOK
<1>3. /\ st'[s] = top /\ spc'[s] = "bottom" /\ End' = End
      /\ \A u \in Thieves : u # s => st'[u] = st[u] /\ spc'[u] = spc[u]
    BY DEF IInv, TypeOK, End
<1>4. ThiefInv'
    BY <1>3, Facts DEF IInv, ThiefInv, Cell
<1> QED
    BY <1>1, <1>2, <1>4 DEF Keeps, Effect

\* A thief that starts again has seen nothing.
LEMMA StealEndTypes ==
    ASSUME IInv, NEW s \in Thieves, StealEnd(s)
    PROVE  /\ spc' \in [Thieves -> {"idle", "bottom", "buffer", "cell", "cas"}]
           /\ st' \in [Thieves -> Nat]
           /\ sbuf' \in [Thieves -> DOMAIN rings]
           /\ sx' \in [Thieves -> Items \cup {Garbage}]
           /\ spc'[s] = "idle" /\ st'[s] = 0
           /\ \A u \in Thieves : u # s =>
                 spc'[u] = spc[u] /\ st'[u] = st[u] /\ sbuf'[u] = sbuf[u] /\ sx'[u] = sx[u]
<1>1. 1 \in DOMAIN rings
    BY Facts
<1> QED
    BY <1>1 DEF IInv, TypeOK, StealEnd

LEMMA StealLoadBottomKeeps ==
    ASSUME IInv, NEW s \in Thieves, StealLoadBottom(s)
    PROVE  Keeps
<1>1. UNCHANGED <<top, bottom, buffer, rings, ownerVars, taken>> /\ End' = End
    BY DEF StealLoadBottom, End
<1>2. RingsInv' /\ OwnerInv' /\ Quiet
    BY <1>1, OnlyThief
<1>3. CASE st[s] < bottom
    <2>1. spc' = [spc EXCEPT ![s] = "buffer"] /\ UNCHANGED <<st, sbuf, sx>>
        BY <1>3 DEF StealLoadBottom
    <2>2. TypeOK'
        BY <1>1, <2>1 DEF IInv, TypeOK
    <2>3. spc'[s] = "buffer" /\ \A u \in Thieves : u # s => spc'[u] = spc[u]
        BY <2>1 DEF IInv, TypeOK
    <2>4. bottom <= End
        BY Facts DEF End
    <2>5. ThiefInv'
        BY <1>1, <1>3, <2>1, <2>3, <2>4, Facts DEF IInv, ThiefInv, Cell
    <2> QED
        BY <1>2, <2>2, <2>5 DEF Keeps, Effect
<1>4. CASE ~ (st[s] < bottom)
    <2>1. StealEnd(s)
        BY <1>4 DEF StealLoadBottom
    <2>2. TypeOK'
        BY <1>1, <2>1, StealEndTypes DEF IInv, TypeOK
    <2>3. /\ spc'[s] = "idle" /\ st'[s] = 0
          /\ \A u \in Thieves : u # s =>
                spc'[u] = spc[u] /\ st'[u] = st[u] /\ sbuf'[u] = sbuf[u] /\ sx'[u] = sx[u]
        BY <2>1, StealEndTypes
    <2>4. ThiefInv'
        BY <1>1, <2>3, Facts DEF IInv, ThiefInv, Cell
    <2> QED
        BY <1>2, <2>2, <2>4 DEF Keeps, Effect
<1> QED
    BY <1>3, <1>4

LEMMA StealLoadBufferKeeps ==
    ASSUME IInv, NEW s \in Thieves, StealLoadBuffer(s)
    PROVE  Keeps
<1> USE DEF StealLoadBuffer
<1>1. RingsInv' /\ OwnerInv' /\ Quiet
    BY OnlyThief
<1>2. TypeOK'
    BY Facts DEF IInv, TypeOK
<1>3. /\ spc'[s] = "cell" /\ sbuf'[s] = buffer /\ End' = End
      /\ \A u \in Thieves : u # s => sbuf'[u] = sbuf[u] /\ spc'[u] = spc[u]
    BY DEF IInv, TypeOK, End
<1>4. ThiefInv'
    BY <1>3 DEF IInv, ThiefInv, Cell
<1> QED
    BY <1>1, <1>2, <1>4 DEF Keeps, Effect

LEMMA StealLoadCellKeeps ==
    ASSUME IInv, NEW s \in Thieves, StealLoadCell(s)
    PROVE  Keeps
<1> USE DEF StealLoadCell
<1>1. RingsInv' /\ OwnerInv' /\ Quiet
    BY OnlyThief
<1> DEFINE x == Load(rings[sbuf[s]], st[s])
<1>2. x \in Items \cup {Garbage}
    <2>1. rings[sbuf[s]] \in Ring /\ st[s] \in Nat
        BY Facts DEF IInv, TypeOK
    <2> QED
        BY <2>1, LoadType
<1> HIDE DEF x
<1>3. sx' = [sx EXCEPT ![s] = x]
    BY DEF x
<1>4. TypeOK'
    BY <1>2, <1>3 DEF IInv, TypeOK
<1>5. /\ spc'[s] = "cas" /\ sx'[s] = x /\ End' = End
      /\ \A u \in Thieves : u # s => sx'[u] = sx[u] /\ spc'[u] = spc[u]
    BY <1>3 DEF IInv, TypeOK, End
<1>6. st[s] = top => x = Cell(top)
    BY DEF IInv, ThiefInv, x
<1>7. ThiefInv'
    BY <1>5, <1>6 DEF IInv, ThiefInv, Cell
<1> QED
    BY <1>1, <1>4, <1>7 DEF Keeps, Effect

LEMMA StealCASKeeps ==
    ASSUME IInv, NEW s \in Thieves, StealCAS(s)
    PROVE  Keeps
<1>1. /\ spc[s] = "cas" /\ StealEnd(s) /\ UNCHANGED <<bottom, buffer, rings, ownerVars>>
      /\ End' = End /\ Cap' = Cap
    BY DEF StealCAS, End, Cap
<1>2. SameCells
    BY <1>1 DEF SameCells, Cell
<1>3. /\ spc'[s] = "idle" /\ st'[s] = 0
      /\ \A u \in Thieves : u # s =>
            spc'[u] = spc[u] /\ st'[u] = st[u] /\ sbuf'[u] = sbuf[u] /\ sx'[u] = sx[u]
    BY <1>1, StealEndTypes
<1>4. CASE top = st[s]
    <2>1. top < End /\ sx[s] = Cell(top)
        BY <1>1, <1>4 DEF IInv, ThiefInv
    <2>2. top' = top + 1 /\ taken' = Append(taken, Cell(top))
        BY <1>4, <2>1 DEF StealCAS, StealWins
    <2>3. top \in Live
        BY <2>1, Facts DEF Live
    <2>4. TypeOK' /\ RingsInv'
        <3>1. top' \in Nat /\ taken' \in Seq(Items)
            BY <2>2, <2>3, TakenType, Facts
        <3> QED
            BY <1>1, <3>1, StealEndTypes DEF IInv, TypeOK, RingsInv
    <2>5. OwnerInv'
        <3>1. /\ Cell(bottom)' = Cell(bottom) /\ Cap' = Cap /\ End' = End
              /\ opc' = opc /\ ot' = ot /\ pushed' = pushed /\ bottom' = bottom
            BY <1>1 DEF Cell
        <3>2. OwnerInv
            BY DEF IInv
        <3>3. opc \in {"idle", "grow", "store", "stored", "publish"} => top + 1 <= bottom
            BY <2>1, Facts DEF End
        <3>4. opc = "popTop" => top + 1 <= bottom + 1
            BY <2>1, Facts DEF End
        <3>5. opc = "popCas" => ot = bottom /\ top + 1 \in {bottom, bottom + 1}
            BY <2>1, <3>2, Facts DEF End, OwnerInv
        <3>6. opc # "popFix"
            BY <2>1, <3>2, Facts DEF End, OwnerInv
        <3>7. opc \in {"grow", "store", "stored", "publish"} => ot <= top + 1 /\ pushed < MaxItems
            BY <3>2, Facts DEF OwnerInv
        <3>8. End - (top + 1) <= Cap
            BY <3>2, Facts DEF OwnerInv
        <3> QED
            BY <2>2, <3>1, <3>2, <3>3, <3>4, <3>5, <3>6, <3>7, <3>8 DEF OwnerInv
    <2>6. ThiefInv'
        <3>1. \A u \in Thieves : st[u] \in Nat /\ st[u] <= top
            BY DEF IInv, TypeOK, ThiefInv
        <3>2. \A u \in Thieves : st'[u] \in Nat /\ st'[u] <= top
            BY <1>3, <3>1, Facts
        <3> QED
            BY <2>2, <3>2, Facts DEF ThiefInv
    <2>7. OldestTaken
        BY <1>1, <1>2, <2>1, <2>2 DEF OldestTaken
    <2> QED
        BY <2>4, <2>5, <2>6, <2>7 DEF Keeps, Effect
<1>5. CASE top # st[s]
    <2>1. UNCHANGED <<top, bottom, buffer, rings, ownerVars, taken>>
        BY <1>1, <1>5 DEF StealCAS, StealWins
    <2>2. RingsInv' /\ OwnerInv' /\ Quiet
        BY <2>1, OnlyThief
    <2>3. TypeOK'
        BY <1>1, <2>1, StealEndTypes DEF IInv, TypeOK
    <2>4. ThiefInv'
        BY <1>1, <1>3, <2>1, Facts DEF IInv, ThiefInv, Cell
    <2> QED
        BY <2>2, <2>3, <2>4 DEF Keeps, Effect
<1> QED
    BY <1>4, <1>5

-----------------------------------------------------------------------------
(* Invariance.                                                             *)

\* The first ring is there, and the deque is empty.
LEMMA InitKeeps == Init => IInv
<1> SUFFICES ASSUME Init PROVE IInv
    OBVIOUS
<1> USE DEF Init
<1>1. NewRing(InitCap) \in Ring /\ NewRing(InitCap).cap = InitCap
    BY InitCapAssumption, RingOf DEF NewRing
<1>2. /\ rings \in Seq(Ring) /\ Len(rings) = 1 /\ Len(rings) # 0 /\ DOMAIN rings = {1}
          /\ buffer = 1
      /\ rings[1] = NewRing(InitCap)
    BY <1>1
<1>3. RingsInv
    BY <1>2, RingsType, Zenon DEF RingsInv
<1>4. TypeOK
    <2>1. \A r \in DOMAIN rings :
              /\ rings[r].cap \in Nat \ {0}
              /\ rings[r].cells \in [0..(rings[r].cap - 1) -> Items \cup {Garbage}]
        BY <1>2, RingsType, Zenon
    <2>2. 0 \in 0..MaxItems
        BY MaxItemsAssumption
    <2> QED
        BY <1>2, <2>1, <2>2 DEF TypeOK
<1>5. End = 0 /\ Live = {}
    BY DEF End, Live
<1>6. OwnerInv
    BY <1>1, <1>2, <1>5, InitCapAssumption DEF OwnerInv, Cap
<1>7. ContentsInv /\ TakenInv
    BY <1>5 DEF ContentsInv, TakenInv
<1>8. ThiefInv
    <2>1. top = 0 /\ \A s \in Thieves : st[s] = 0 /\ spc[s] = "idle"
        OBVIOUS
    <2>2. 0 <= 0
        OBVIOUS
    <2>3. "idle" \notin {"buffer", "cell", "cas"} /\ "idle" # "cell" /\ "idle" # "cas"
        OBVIOUS
    <2> QED
        BY <2>1, <2>2, <2>3, Zenon DEF ThiefInv
<1> QED
    BY <1>3, <1>4, <1>6, <1>7, <1>8 DEF IInv

LEMMA NextKeeps == IInv /\ Next => Keeps
<1> SUFFICES ASSUME IInv, Next PROVE Keeps
    OBVIOUS
<1>1. CASE PushLoadTop \/ PopDec
    BY <1>1, PushLoadTopKeeps, PopDecKeeps
<1>2. CASE OwnerStep
    BY <1>2, PushGrowKeeps, PushStoreKeeps, PushStoredKeeps, PushPublishKeeps,
       PopLoadTopKeeps, PopCASKeeps, PopFixKeeps DEF OwnerStep
<1>3. ASSUME NEW s \in Thieves, StealLoadTop(s) \/ StealStep(s)
      PROVE  Keeps
    BY <1>3, StealLoadTopKeeps, StealLoadBottomKeeps, StealLoadBufferKeeps,
       StealLoadCellKeeps, StealCASKeeps DEF StealStep
<1> QED
    BY <1>1, <1>2, <1>3 DEF Next

LEMMA StepKeeps == IInv /\ [Next]_vars => IInv'
<1> SUFFICES ASSUME IInv, [Next]_vars PROVE IInv'
    OBVIOUS
<1>1. CASE Next
    <2>1. Keeps
        BY <1>1, NextKeeps
    <2>2. ContentsInv' /\ TakenInv'
        BY <2>1, EffectKeeps DEF IInv, Keeps
    <2> QED
        BY <2>1, <2>2 DEF IInv, Keeps
<1>2. CASE UNCHANGED vars
    <2>1. TypeOK' /\ RingsInv' /\ OwnerInv' /\ ThiefInv'
        BY <1>2 DEF IInv, TypeOK, RingsInv, OwnerInv, ThiefInv, End, Cap, Cell
    <2>2. ContentsInv' /\ TakenInv'
        BY <1>2 DEF IInv, ContentsInv, TakenInv, Live, End, Cell
    <2> QED
        BY <2>1, <2>2 DEF IInv
<1> QED
    BY <1>1, <1>2

\* The invariant holds throughout, for any number of thieves and items and any
\* first capacity: what owner and thieves have read is what it says.
THEOREM Invariance == Spec => []IInv
<1>1. Init => IInv
    BY InitKeeps
<1>2. IInv /\ [Next]_vars => IInv'
    BY StepKeeps
<1> QED
    BY <1>1, <1>2, PTL DEF Spec

\* bottom, which pop lowers before it looks at top, is never below -1, and no
\* thief holds a buffer that is not there (dequeue.hpp keeps the old ones).
THEOREM TypeCorrect == Spec => []TypeOK
<1>1. IInv => TypeOK
    BY DEF IInv
<1> QED
    BY <1>1, Invariance, PTL

\* No item is taken twice and none is lost: emplace, pop, steal and resize of
\* dequeue.hpp, at every capacity and however they are interleaved.
THEOREM EveryItemOnceHolds == Spec => []EveryItemOnce
<1>1. IInv => EveryItemOnce
    <2> SUFFICES ASSUME IInv PROVE EveryItemOnce
        OBVIOUS
    <2>1. Contents = {Cell(i) : i \in Live}
        BY DEF Contents, Live, Cell
    <2>2. \A i, j \in DOMAIN taken : i # j => taken[i] # taken[j]
        BY DEF IInv, TakenInv
    <2>3. \A x \in Contents : x \in 1..pushed /\ \A k \in DOMAIN taken : taken[k] # x
        BY <2>1 DEF IInv, ContentsInv
    <2>4. \A k \in DOMAIN taken : taken[k] \in 1..pushed
        BY DEF IInv, TakenInv
    <2>5. \A x \in 1..pushed : x \in Contents \/ \E k \in DOMAIN taken : taken[k] = x
        BY <2>1 DEF IInv, TakenInv
    <2> QED
        BY <2>2, <2>3, <2>4, <2>5 DEF EveryItemOnce
<1> QED
    BY <1>1, Invariance, PTL

\* A thief whose exchange is about to succeed holds the oldest item, however
\* long ago it read it and from whichever ring (dequeue.hpp:240).
THEOREM WinnerReadsOldestHolds == Spec => []WinnerReadsOldest
<1>1. IInv => WinnerReadsOldest
    BY DEF IInv, ThiefInv, WinnerReadsOldest, Cell
<1> QED
    BY <1>1, Invariance, PTL

-----------------------------------------------------------------------------
(* Refinement.                                                             *)

\* The queue of WorkDeque.
Queue == [i \in 1..(End - top) |-> Cell(top + i - 1)]

LEMMA QueueFacts ==
    ASSUME IInv
    PROVE  /\ Queue \in Seq(Items)
           /\ top <= End => Len(Queue) = End - top
           /\ End <= top => Queue = <<>>
           /\ taken \in Seq(Items)
<1>1. top \in Int /\ End \in Int
    BY Facts
<1>2. \A i \in 1..(End - top) : Cell(top + i - 1) \in Items
    <2> TAKE i \in 1..(End - top)
    <2>1. top + i - 1 \in Live
        BY <1>1 DEF Live
    <2> QED
        BY <2>1, CellType
<1> DEFINE n == IF top <= End THEN End - top ELSE 0
<1>3. n \in Nat /\ 1..(End - top) = 1..n /\ (End <= top => n = 0) /\ (top <= End =>
          n = End - top)
    BY <1>1
<1> HIDE DEF n
<1>4. Queue = [i \in 1..n |-> Cell(top + i - 1)]
          /\ \A i \in 1..n : Cell(top + i - 1) \in Items
    BY <1>2, <1>3 DEF Queue
<1>5. Queue \in Seq(Items) /\ Len(Queue) = n
    BY <1>3, <1>4
<1> QED
    BY <1>3, <1>5 DEF IInv, TypeOK

\* A sequence is a function on its positions.
LEMMA Whole ==
    ASSUME NEW S, NEW q \in Seq(S)
    PROVE  q = [i \in 1..Len(q) |-> q[i]]
OBVIOUS

LEMMA QuietMaps ==
    ASSUME IInv, IInv', Quiet
    PROVE  UNCHANGED Abstract!vars
<1>1. top \in Int /\ End \in Int /\ top' \in Int /\ End' \in Int
    BY Facts DEF IInv, TypeOK, End
<1>2. Queue' = Queue
    <2>1. CASE top' = top /\ End' = End
        <3>1. \A i \in 1..(End - top) : top + i - 1 \in Live
            BY <1>1 DEF Live
        <3>2. \A i \in 1..(End - top) : Load(rings'[buffer'],
            top + i - 1) = Cell(top + i - 1)
            BY <3>1 DEF Quiet, SameCells
        <3> QED
            BY <2>1, <3>2 DEF Queue, Cell
    <2>2. CASE End <= top /\ End' <= top'
        <3>1. \A a, b \in Int : a <= b => 1..(a - b) = {}
            OBVIOUS
        <3>2. 1..(End - top) = {} /\ 1..(End' - top') = {}
            BY <1>1, <2>2, <3>1, Zenon
        <3> QED
            BY <3>2, Zenon DEF Queue
    <2> QED
        BY <2>1, <2>2 DEF Quiet
<1> QED
    BY <1>2 DEF Quiet, Abstract!vars, Queue, Cell

LEMMA AddedMaps ==
    ASSUME IInv, IInv', Added
    PROVE  Abstract!Next
<1> DEFINE x == pushed + 1
           n == End - top
<1>1. top \in Nat /\ End \in Int /\ n \in Nat /\ x \in Items
    BY Facts, MaxItemsAssumption DEF Added, Items
<1>2. Queue \in Seq(Items) /\ Len(Queue) = n /\ DOMAIN Queue = 1..n
    BY <1>1, QueueFacts DEF Added, Queue
<1>3. \A i \in 1..n : Queue[i] = Cell(top + i - 1) /\ top + i - 1 \in Live
    BY <1>1 DEF Queue, Live
<1>4. \A i \in DOMAIN Queue : Queue[i] # x
    BY <1>2, <1>3, Facts DEF IInv, ContentsInv
<1>5. \A k \in DOMAIN taken : taken[k] # x
    BY Facts DEF IInv, TakenInv
<1>6. Queue' = Append(Queue, x)
    <2>1. Queue' = [i \in 1..(n + 1) |-> Load(rings'[buffer'], top + i - 1)]
        BY <1>1 DEF Queue, Cell, Added
    <2>2. \A i \in 1..n : Load(rings'[buffer'], top + i - 1) = Queue[i]
        BY <1>3 DEF Added, SameCells
    <2>3. Load(rings'[buffer'], top + (n + 1) - 1) = x
        BY <1>1 DEF Added
    <2> HIDE DEF n, x
    <2>4. Append(Queue, x) = [i \in 1..(n + 1) |-> IF i \in 1..n THEN Queue[i] ELSE x]
        <3>1. /\ Append(Queue, x) \in Seq(Items) /\ Len(Append(Queue, x)) = n + 1
              /\ Append(Queue, x)[n + 1] = x
              /\ \A i \in 1..n : Append(Queue, x)[i] = Queue[i]
            BY <1>1, <1>2
        <3>2. Append(Queue, x) = [i \in 1..(n + 1) |-> Append(Queue, x)[i]]
            BY <3>1, Whole
        <3>3. \A i \in 1..(n + 1) : i \in 1..n \/ i = n + 1
            BY <1>1
        <3>4. n + 1 \notin 1..n
            BY <1>1
        <3> QED
            BY <3>1, <3>2, <3>3, <3>4, Zenon
    <2>5. \A i \in 1..(n + 1) : i \in 1..n \/ i = n + 1
        BY <1>1
    <2>6. n + 1 \notin 1..n
        BY <1>1
    <2> QED
        BY <2>1, <2>2, <2>3, <2>4, <2>5, <2>6, Zenon
<1> HIDE DEF x
<1>7. taken' = taken
    BY DEF Added
<1>8. Abstract!Push(x)
    BY <1>4, <1>5, <1>6, <1>7 DEF Abstract!Push, Queue, Cell
<1> QED
    BY <1>1, <1>8 DEF Abstract!Next

\* The elements that stay keep their places in the queue, m places further on.
LEMMA QueueShift ==
    ASSUME IInv, SameCells, NEW m \in Nat, NEW n \in Nat, top' = top + m, m + n <= End - top
    PROVE  /\ Queue \in Seq(Items) /\ Len(Queue) = End - top
           /\ \A i \in 1..n : Queue[i + m] = Load(rings'[buffer'], top' + i - 1)
<1>1. top \in Nat /\ End \in Int
    BY Facts
<1>2. Queue \in Seq(Items) /\ Len(Queue) = End - top
    BY <1>1, QueueFacts
<1>3. ASSUME NEW i \in 1..n
      PROVE  Queue[i + m] = Load(rings'[buffer'], top' + i - 1)
    <2>1. i + m \in 1..(End - top) /\ top + (i + m) - 1 \in Live
        /\ top' + i - 1 = top + (i + m) - 1
        BY <1>1 DEF Live
    <2>2. Queue[i + m] = Cell(top + (i + m) - 1)
        BY <2>1, Zenon DEF Queue
    <2> QED
        BY <2>1, <2>2, Zenon DEF SameCells
<1> QED
    BY <1>2, <1>3

LEMMA NewestTakenMaps ==
    ASSUME IInv, IInv', NewestTaken
    PROVE  Abstract!Next
<1> DEFINE n == (End - top) - 1
           q == Queue
<1>1. top \in Nat /\ End \in Int /\ n \in Nat /\ top' = top /\ n + 1 = End - top
    BY Facts DEF NewestTaken
<1>2. q \in Seq(Items) /\ Len(q) = n + 1 /\ \A i \in 1..n : q[i] = Load(rings'[buffer'],
          top' + i - 1)
    <2>1. SameCells /\ 0 \in Nat /\ top' = top + 0 /\ 0 + n <= End - top
        BY <1>1 DEF NewestTaken
    <2> HIDE DEF n
    <2>2. /\ q \in Seq(Items) /\ Len(q) = End - top
          /\ \A i \in 1..n : q[i + 0] = Load(rings'[buffer'], top' + i - 1)
        BY <1>1, <2>1, QueueShift, Zenon
    <2>3. \A i \in 1..n : i + 0 = i
        BY <1>1
    <2> QED
        BY <1>1, <2>2, <2>3, Zenon
<1>3. q[n + 1] = Cell(End - 1)
    BY <1>1 DEF Queue
<1>4. Queue' = [i \in 1..n |-> Load(rings'[buffer'], top' + i - 1)]
    <2>1. End' - top' = n
        BY <1>1 DEF NewestTaken
    <2> QED
        BY <2>1, Zenon DEF Queue, Cell
<1> HIDE DEF n, q
<1>5. SubSeq(q, 1, Len(q) - 1) = [i \in 1..n |-> q[i]]
    <2>1. SubSeq(q, 1, Len(q) - 1) \in Seq(Items) /\ Len(SubSeq(q, 1, Len(q) - 1)) = n
          /\ \A i \in 1..n : SubSeq(q, 1, Len(q) - 1)[i] = q[i]
        BY <1>1, <1>2
    <2> QED
        BY <2>1, Whole, Zenon
<1>6. Queue' = SubSeq(q, 1, Len(q) - 1)
    BY <1>2, <1>4, <1>5, Zenon
<1>7. taken' = Append(taken, q[Len(q)])
    BY <1>2, <1>3 DEF NewestTaken
<1>8. q # <<>>
    BY <1>1, <1>2
<1>9. Abstract!Pop
    BY <1>6, <1>7, <1>8, Zenon DEF Abstract!Pop, Queue, Cell, q
<1> QED
    BY <1>9, Zenon DEF Abstract!Next

LEMMA OldestTakenMaps ==
    ASSUME IInv, IInv', OldestTaken
    PROVE  Abstract!Next
<1> DEFINE n == (End - top) - 1
           q == Queue
<1>1. top \in Nat /\ End \in Int /\ n \in Nat /\ top' = top + 1 /\ n + 1 = End - top
    BY Facts DEF OldestTaken
<1>2. /\ q \in Seq(Items) /\ Len(q) = n + 1
      /\ \A i \in 1..n : q[i + 1] = Load(rings'[buffer'], top' + i - 1)
    <2>1. SameCells /\ 1 \in Nat /\ 1 + n <= End - top
        BY <1>1 DEF OldestTaken
    <2> HIDE DEF n
    <2> QED
        BY <1>1, <2>1, QueueShift, Zenon
<1>3. q[1] = Cell(top)
    <2>1. 1 \in 1..(End - top) /\ top + 1 - 1 = top
        BY <1>1
    <2> QED
        BY <2>1, Zenon DEF Queue
<1>4. Queue' = [i \in 1..n |-> Load(rings'[buffer'], top' + i - 1)]
    <2>1. 1..(End' - top') = 1..n
        <3>1. CASE End' = End
            <4>1. End' - top' = n
                BY <1>1, <3>1
            <4> QED
                BY <4>1
        <3>2. CASE End = top + 1 /\ End' <= top'
            <4>1. \A a, b \in Int : a <= b => 1..(a - b) = {}
                OBVIOUS
            <4>2. n = 0 /\ 1..0 = {} /\ End' \in Int /\ top' \in Int
                BY <1>1, <3>2 DEF IInv, TypeOK, End
            <4> QED
                BY <3>2, <4>1, <4>2, Zenon
        <3> QED
            BY <3>1, <3>2 DEF OldestTaken
    <2> QED
        BY <2>1, Zenon DEF Queue, Cell
<1> HIDE DEF n, q
<1>5. Tail(q) = [i \in 1..n |-> q[i + 1]]
    <2>1. Tail(q) \in Seq(Items) /\ Len(Tail(q)) = n
        /\ \A i \in 1..n : Tail(q)[i] = q[i + 1]
        BY <1>1, <1>2
    <2> QED
        BY <2>1, Whole, Zenon
<1>6. Queue' = Tail(q)
    BY <1>2, <1>4, <1>5, Zenon
<1>7. Head(q) = q[1]
    BY <1>1, <1>2
<1>8. q # <<>>
    BY <1>1, <1>2
<1>9. taken' = Append(taken, Head(q))
    BY <1>3, <1>7 DEF OldestTaken
<1>10. Abstract!Steal
    BY <1>6, <1>8, <1>9, Zenon DEF Abstract!Steal, Queue, Cell, q
<1> QED
    BY <1>10, Zenon DEF Abstract!Next

\* Every step is a step of WorkDeque, or changes nothing it shows.
LEMMA StepMaps == IInv /\ IInv' /\ [Next]_vars => [Abstract!Next]_(Abstract!vars)
<1> SUFFICES ASSUME IInv, IInv', [Next]_vars
             PROVE  Abstract!Next \/ UNCHANGED Abstract!vars
    OBVIOUS
<1>1. CASE Next
    <2>1. Effect
        BY <1>1, NextKeeps DEF Keeps
    <2> QED
        BY <2>1, QuietMaps, AddedMaps, NewestTakenMaps, OldestTakenMaps DEF Effect
<1>2. CASE UNCHANGED vars
    BY <1>2 DEF Abstract!vars, End
<1> QED
    BY <1>1, <1>2

LEMMA InitMaps == Init => Abstract!Init
<1> SUFFICES ASSUME Init PROVE Abstract!Init
    OBVIOUS
<1>1. IInv
    BY InitKeeps
<1>2. End = 0 /\ top = 0 /\ taken = <<>>
    BY DEF Init, End
<1>3. Queue = <<>>
    BY <1>1, <1>2, QueueFacts
<1> QED
    BY <1>2, <1>3, Zenon DEF Abstract!Init, Queue, Cell

\* Emplace, pop and steal of dequeue.hpp take effect at one instant each, at the
\* two ends of the queue WorkDeque describes: the deque is linearizable.
THEOREM Refinement == Spec => ImplementsWorkDeque
<1>1. Init => Abstract!Init
    BY InitMaps
<1>2. IInv /\ IInv' /\ [Next]_vars => [Abstract!Next]_(Abstract!vars)
    BY StepMaps
<1> QED
    BY <1>1, <1>2, Invariance, PTL DEF Spec, Abstract!Spec, ImplementsWorkDeque
=============================================================================
