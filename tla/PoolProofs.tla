----------------------------- MODULE PoolProofs -----------------------------
(***************************************************************************)
(* Proofs about Pool, for any number of workers, jobs and attempts: every  *)
(* handle is in one place, none that counts is left when the pool stops,   *)
(* workers share no core, and the jobs live as TaskLife says.              *)
(***************************************************************************)
EXTENDS Pool, FiniteSetTheorems, WellFoundedInduction, TLAPS

USE DEF vars, jobVars, frameVars, mainVars, Main, NoJob, NoCore

-----------------------------------------------------------------------------
(* The inductive invariant.                                                *)

\* The jobs whose handles a deque holds, and that it holds none of them twice.
In(q) == {q[i] : i \in DOMAIN q}
NoneTwice(q) == \A i, k \in DOMAIN q : i # k => q[i] # q[k]

\* The handle of a job that can go on is in one deque or on one worker.
HandleInv ==
    /\ \A t \in Threads : NoneTwice(queue[t])
    /\ \A t, u \in Threads, j \in Jobs : j \in In(queue[t]) /\ j \in In(queue[u]) => t = u
    /\ \A v, w \in Workers : h[v] = h[w] /\ h[v] # NoJob => v = w
    /\ \A t \in Threads, w \in Workers : h[w] \notin In(queue[t])
    /\ \A j \in Jobs : state[j] = "ready"
          <=> (\E t \in Threads : j \in In(queue[t])) \/ (\E w \in Workers : h[w] = j)
    /\ \A j \in Jobs : j \in barrier_queue <=> state[j] = "barrier"

\* Jobs are dispatched in the order of their numbers, each by an older one, and
\* a job awaits one that it has dispatched.
JobInv ==
    /\ \A j \in Jobs : state[j] = "new" <=> next <= j
    /\ \A j \in Jobs : creator[j] # NoJob => creator[j] < j /\ j < next
    /\ \A j \in Jobs : state[j] = "blocked" => creator[j] # NoJob
    /\ \A j \in Jobs : state[j] = "awaits" => awaits[j] \in Jobs /\ creator[awaits[j]] = j

\* The handles of a frame: that of its own coroutine until it is over, that of the
\* InitTask, and one in every frame that is left of those it dispatched by name.
Own(j) == IF state[j] \in {"new", "done"} THEN 0 ELSE 1
Outside(j) == IF j = 1 /\ mpc = "waits" THEN 1 ELSE 0
Kids(j) == {c \in Jobs \ freed : parent[c] = j}

\* uses counts them, and the last one frees the frame.
RefsInv ==
    /\ \A j \in Jobs : uses[j] = Own(j) + Outside(j) + Cardinality(Kids(j))
    /\ \A j \in freed : state[j] = "done" /\ uses[j] = 0
    /\ \A j \in Jobs : parent[j] # NoJob => parent[j] = creator[j]
    /\ \A j \in rooted : state[j] # "new"
    /\ \A j \in rooted : j # 1 => creator[j] \in rooted /\ parent[j] = creator[j]

\* Where the main thread is while there are no jobs yet, and when those that count
\* for the init coroutine are over.
MainInv ==
    /\ mpc \in {"starts", "refused", "creates"} => next = 1
    /\ mpc \in {"starts", "stops", "joins"} => mi \in Workers
    /\ mpc \in {"waits", "stops", "joins", "destroyed"} => 1 \in rooted
    /\ mpc \in {"stops", "joins", "destroyed"} => \A j \in rooted : state[j] = "done"

\* A worker is pinned to the core of its number, of which the machine has one
\* for each.
WorkerInv ==
    /\ \A w \in Workers : wpc[w] # "none" => num_cores = NumWorkers
    /\ \A w \in Workers : core[w] # NoCore => core[w] = w - 1

IInv == TypeOK /\ HandleInv /\ JobInv /\ RefsInv /\ MainInv /\ WorkerInv

-----------------------------------------------------------------------------
(* The operations on a deque, as sets of handles.                          *)

LEMMA InAppend ==
    ASSUME NEW q \in Seq(Jobs), NoneTwice(q), NEW j \in Jobs, j \notin In(q)
    PROVE  /\ Append(q, j) \in Seq(Jobs)
           /\ In(Append(q, j)) = In(q) \cup {j}
           /\ NoneTwice(Append(q, j))
<1> DEFINE r == Append(q, j)
           n == Len(q) + 1
<1>1. /\ r \in Seq(Jobs) /\ DOMAIN r = DOMAIN q \cup {n} /\ n \notin DOMAIN q
      /\ r[n] = j /\ \A i \in DOMAIN q : r[i] = q[i]
    OBVIOUS
<1> HIDE DEF r, n
<1>2. In(r) = In(q) \cup {j}
    BY <1>1 DEF In
<1>3. NoneTwice(r)
    BY <1>1 DEF NoneTwice, In
<1> QED
    BY <1>1, <1>2, <1>3 DEF r

LEMMA Front ==
    ASSUME NEW q \in Seq(Jobs), NEW m \in Nat, m < Len(q)
    PROVE  /\ SubSeq(q, 1, m) \in Seq(Jobs)
           /\ Len(SubSeq(q, 1, m)) = m
           /\ \A i \in 1..m : SubSeq(q, 1, m)[i] = q[i]
OBVIOUS

\* The newest entry goes.
LEMMA InFront ==
    ASSUME NEW q \in Seq(Jobs), NoneTwice(q), q # <<>>
    PROVE  /\ SubSeq(q, 1, Len(q) - 1) \in Seq(Jobs)
           /\ q[Len(q)] \in Jobs /\ q[Len(q)] \in In(q)
           /\ In(SubSeq(q, 1, Len(q) - 1)) = In(q) \ {q[Len(q)]}
           /\ NoneTwice(SubSeq(q, 1, Len(q) - 1))
<1> DEFINE r == SubSeq(q, 1, Len(q) - 1)
           n == Len(q)
<1>1. n \in Nat \ {0} /\ n - 1 \in Nat /\ n - 1 < Len(q)
    OBVIOUS
<1>2. r \in Seq(Jobs) /\ Len(r) = n - 1 /\ \A i \in 1..(n - 1) : r[i] = q[i]
    BY <1>1, Front, Zenon
<1>3. /\ n \in DOMAIN q /\ DOMAIN r = DOMAIN q \ {n}
      /\ \A i \in DOMAIN r : r[i] = q[i]
    BY <1>1, <1>2
<1>4. q[n] \in Jobs
    BY <1>3
<1> HIDE DEF r, n
<1>5. In(r) = In(q) \ {q[n]}
    BY <1>3 DEF In, NoneTwice
<1>6. NoneTwice(r)
    BY <1>3 DEF NoneTwice
<1>7. q[n] \in In(q)
    BY <1>3 DEF In
<1> QED
    BY <1>2, <1>4, <1>5, <1>6, <1>7 DEF r, n

\* The oldest entry goes.
LEMMA InTail ==
    ASSUME NEW q \in Seq(Jobs), NoneTwice(q), q # <<>>
    PROVE  /\ Tail(q) \in Seq(Jobs)
           /\ Head(q) \in Jobs /\ Head(q) \in In(q)
           /\ In(Tail(q)) = In(q) \ {Head(q)}
           /\ NoneTwice(Tail(q))
<1> DEFINE r == Tail(q)
           n == Len(q)
<1>1. n \in Nat \ {0} /\ n - 1 \in Nat
    OBVIOUS
<1>2. /\ r \in Seq(Jobs) /\ Len(r) = n - 1 /\ Head(q) = q[1]
      /\ \A i \in 1..(n - 1) : r[i] = q[i + 1]
    BY <1>1
<1>3. DOMAIN q = 1..n /\ DOMAIN r = 1..(n - 1)
    BY <1>2
<1>4. q[1] \in Jobs /\ 1 \in DOMAIN q
    BY <1>1, <1>3
<1> HIDE DEF r, n
<1>5. In(r) = In(q) \ {q[1]}
    <2>1. ASSUME NEW i \in DOMAIN r
          PROVE  r[i] \in In(q) /\ r[i] # q[1]
        <3>1. i + 1 \in DOMAIN q /\ i + 1 # 1 /\ r[i] = q[i + 1]
            BY <1>1, <1>2, <1>3
        <3> QED
            BY <1>4, <3>1 DEF In, NoneTwice
    <2>2. ASSUME NEW i \in DOMAIN q, q[i] # q[1]
          PROVE  \E k \in DOMAIN r : r[k] = q[i]
        <3>1. i - 1 \in 1..(n - 1) /\ (i - 1) + 1 = i
            BY <1>1, <1>3, <2>2
        <3> QED
            BY <1>2, <1>3, <3>1
    <2> QED
        BY <2>1, <2>2 DEF In
<1>6. NoneTwice(r)
    <2> SUFFICES ASSUME NEW i \in DOMAIN r, NEW k \in DOMAIN r, i # k
                 PROVE  r[i] # r[k]
        BY DEF NoneTwice
    <2>1. i + 1 \in DOMAIN q /\ k + 1 \in DOMAIN q /\ i + 1 # k + 1
        BY <1>1, <1>3
    <2>2. r[i] = q[i + 1] /\ r[k] = q[k + 1]
        BY <1>2, <1>3
    <2> QED
        BY <2>1, <2>2 DEF NoneTwice
<1>7. q[1] \in In(q)
    BY <1>4 DEF In
<1> QED
    BY <1>2, <1>4, <1>5, <1>6, <1>7 DEF r

\* No job is no job, and no worker is the main thread.
LEMMA Names ==
    /\ NoJob \notin Jobs /\ Main \notin Workers /\ Main \in Threads
    /\ \A w \in Workers : w \in Threads
    /\ \A j \in Jobs : j \in Nat /\ j # 0
    /\ 1 \in Jobs /\ 1 \in Workers /\ NumWorkers \in Workers
BY SizeAssumption DEF Jobs, Workers, Threads

LEMMA Facts ==
    ASSUME IInv
    PROVE  /\ \A t \in Threads : queue[t] \in Seq(Jobs) /\ NoneTwice(queue[t])
           /\ \A w \in Workers : h[w] \in Jobs <=> wpc[w] = "runs"
           /\ \A w \in Workers : h[w] \in Jobs => state[h[w]] = "ready"
           /\ \A t \in Threads : \A j \in In(queue[t]) : j \in Jobs /\ state[j] = "ready"
           /\ next \in Nat /\ next \in 1..(NumJobs + 1)
<1>1. \A t \in Threads : queue[t] \in Seq(Jobs) /\ NoneTwice(queue[t])
    BY DEF IInv, TypeOK, HandleInv
<1>2. \A w \in Workers : h[w] \in Jobs <=> wpc[w] = "runs"
    BY Names DEF IInv, TypeOK
<1>3. \A w \in Workers : h[w] \in Jobs => state[h[w]] = "ready"
    BY DEF IInv, HandleInv
<1>4. \A t \in Threads : \A j \in In(queue[t]) : j \in Jobs
    BY <1>1 DEF In
<1>5. \A t \in Threads : \A j \in In(queue[t]) : state[j] = "ready"
    BY <1>4 DEF IInv, HandleInv
<1>6. next \in 1..(NumJobs + 1)
    BY DEF IInv, TypeOK
<1> QED
    BY <1>1, <1>2, <1>3, <1>4, <1>5, <1>6, SizeAssumption

\* What addTask does to the deques.
LEMMA Added ==
    ASSUME IInv, NEW t \in Threads, NEW j \in Jobs, AddTask(t, j), j \notin In(queue[t])
    PROVE  /\ queue' \in [Threads -> Seq(Jobs)]
           /\ \A u \in Threads : NoneTwice(queue'[u])
           /\ In(queue'[t]) = In(queue[t]) \cup {j}
           /\ \A u \in Threads : u # t => In(queue'[u]) = In(queue[u])
<1>1. /\ Append(queue[t], j) \in Seq(Jobs) /\ NoneTwice(Append(queue[t], j))
      /\ In(Append(queue[t], j)) = In(queue[t]) \cup {j}
    BY Facts, InAppend
<1>2. queue \in [Threads -> Seq(Jobs)] /\ queue' = [queue EXCEPT ![t] = Append(queue[t], j)]
    BY DEF IInv, TypeOK, AddTask
<1>3. queue'[t] = Append(queue[t], j) /\ \A u \in Threads : u # t => queue'[u] = queue[u]
    BY <1>2
<1>4. queue' \in [Threads -> Seq(Jobs)]
    BY <1>1, <1>2
<1>5. \A u \in Threads : NoneTwice(queue'[u])
    BY <1>1, <1>3, Facts
<1> QED
    BY <1>1, <1>3, <1>4, <1>5

\* Jobs that are neither new nor over: there is a pool, and if they count, the main
\* thread waits.
LEMMA Busy ==
    ASSUME IInv, NEW j \in Jobs, state[j] \notin {"new", "done"}
    PROVE  /\ mpc \in {"waits", "stops", "joins", "destroyed"} /\ j < next
           /\ j \in rooted => mpc = "waits"
<1>1. j < next
    BY Facts, Names DEF IInv, JobInv
<1>2. next # 1
    BY <1>1, SizeAssumption DEF Jobs
<1> QED
    BY <1>1, <1>2 DEF IInv, MainInv, TypeOK

-----------------------------------------------------------------------------
(* Counting handles.                                                       *)

LEMMA JobSets ==
    \A S \in SUBSET Jobs :
        /\ Cardinality(S) \in Nat
        /\ S = {} <=> Cardinality(S) = 0
        /\ \A j \in Jobs \ S : Cardinality(S \cup {j}) = Cardinality(S) + 1
        /\ \A j \in S : Cardinality(S \ {j}) = Cardinality(S) - 1
<1>1. IsFiniteSet(Jobs)
    BY SizeAssumption, FS_Interval DEF Jobs
<1> SUFFICES ASSUME NEW S \in SUBSET Jobs
             PROVE  /\ Cardinality(S) \in Nat
                    /\ S = {} <=> Cardinality(S) = 0
                    /\ \A j \in Jobs \ S : Cardinality(S \cup {j}) = Cardinality(S) + 1
                    /\ \A j \in S : Cardinality(S \ {j}) = Cardinality(S) - 1
    OBVIOUS
<1>2. IsFiniteSet(S)
    BY <1>1, FS_Subset
<1>3. Cardinality(S) \in Nat /\ (S = {} <=> Cardinality(S) = 0)
    BY <1>2, FS_CardinalityType, FS_EmptySet
<1>4. \A j \in Jobs \ S : Cardinality(S \cup {j}) = Cardinality(S) + 1
    BY <1>2, FS_AddElement
<1>5. \A j \in S : Cardinality(S \ {j}) = Cardinality(S) - 1
    BY <1>2, FS_RemoveElement
<1> QED
    BY <1>3, <1>4, <1>5

\* What is known of the frames that are gone and of the jobs that count.
LEMMA Framed ==
    ASSUME IInv
    PROVE  /\ \A j \in freed : j \in Jobs /\ state[j] = "done" /\ uses[j] = 0
           /\ \A j \in Jobs : parent[j] # NoJob => parent[j] = creator[j]
           /\ \A j \in rooted : j \in Jobs /\ state[j] # "new"
           /\ \A j \in rooted : j # 1 => creator[j] \in rooted /\ parent[j] = creator[j]
<1>1. freed \subseteq Jobs /\ rooted \subseteq Jobs
    BY DEF IInv, TypeOK
<1>2. /\ \A j \in freed : state[j] = "done" /\ uses[j] = 0
      /\ \A j \in Jobs : parent[j] # NoJob => parent[j] = creator[j]
      /\ \A j \in rooted : state[j] # "new"
      /\ \A j \in rooted : j # 1 => creator[j] \in rooted /\ parent[j] = creator[j]
    <2>1. RefsInv
        BY DEF IInv
    <2> QED
        BY <2>1 DEF RefsInv
<1> QED
    BY <1>1, <1>2

\* What the count says of the handles.
LEMMA Counted ==
    ASSUME IInv, NEW j \in Jobs
    PROVE  /\ uses[j] \in Nat /\ Kids(j) \in SUBSET Jobs
           /\ uses[j] = Own(j) + Outside(j) + Cardinality(Kids(j))
           /\ Own(j) \in {0, 1} /\ Outside(j) \in {0, 1} /\ Cardinality(Kids(j)) \in Nat
           /\ Kids(j) = {} <=> Cardinality(Kids(j)) = 0
           /\ Kids(j) # {} => uses[j] > 0
<1>1. Kids(j) \in SUBSET Jobs
    BY DEF Kids
<1>2. Cardinality(Kids(j)) \in Nat /\ (Kids(j) = {} <=> Cardinality(Kids(j)) = 0)
    BY <1>1, JobSets
<1>3. uses[j] = Own(j) + Outside(j) + Cardinality(Kids(j)) /\ uses[j] \in Nat
    BY DEF IInv, TypeOK, RefsInv
<1>4. Own(j) \in {0, 1} /\ Outside(j) \in {0, 1}
    BY DEF Own, Outside
<1> QED
    BY <1>1, <1>2, <1>3, <1>4

\* A set of jobs has a first one.
LEMMA FirstOf ==
    ASSUME NEW S \in SUBSET Jobs, S # {}
    PROVE  \E j \in S : \A i \in S : ~ (i < j)
<1> DEFINE UpTo(j) == {i \in S : i <= j}
           T == {UpTo(j) : j \in S}
<1>1. IsFiniteSet(Jobs)
    BY SizeAssumption, FS_Interval DEF Jobs
<1>2. IsWellFoundedOn(StrictSubsetOrdering(Jobs), FiniteSubsetsOf(Jobs))
    BY FS_StrictSubsetOrderingWellFounded
<1>3. T \subseteq FiniteSubsetsOf(Jobs)
    BY <1>1, FS_Subset DEF FiniteSubsetsOf
<1>4. PICK X \in T : \A Y \in T : ~ (<<Y, X>> \in StrictSubsetOrdering(Jobs))
    <2>1. T # {}
        OBVIOUS
    <2> HIDE DEF T
    <2> QED
        BY <1>2, <1>3, <2>1, WFMin
<1>5. PICK j \in S : X = UpTo(j)
    BY <1>4
<1>6. ASSUME NEW i \in S, i < j
      PROVE  FALSE
    <2>1. i \in Nat /\ j \in Nat /\ \A k \in S : k \in Nat
        BY Names
    <2>2. \A k \in S : k <= i => k <= j
        BY <1>6, <2>1
    <2>3. j <= j /\ ~ (j <= i)
        BY <1>6, <2>1
    <2>4. UpTo(i) \subseteq UpTo(j) /\ UpTo(i) # UpTo(j)
        BY <2>2, <2>3
    <2>5. <<UpTo(i), UpTo(j)>> \in StrictSubsetOrdering(Jobs)
        BY <2>4 DEF StrictSubsetOrdering
    <2> QED
        BY <1>4, <1>5, <2>5
<1> QED
    BY <1>6

\* When only the InitTask holds the frame of the init coroutine, every job that
\* counts for it is over: the first whose frame is left would be held by none.
LEMMA CountedAreOver ==
    ASSUME IInv, mpc = "waits", uses[1] <= 1
    PROVE  uses[1] = 1 /\ \A j \in rooted : state[j] = "done"
<1>1. 1 \in rooted /\ 1 \in Jobs /\ Outside(1) = 1
    BY Names DEF IInv, MainInv, Outside
<1>2. uses[1] = 1 /\ Own(1) = 0 /\ Kids(1) = {}
    BY <1>1, Counted
<1>3. state[1] = "done"
    BY <1>1, <1>2, Framed DEF Own
<1> DEFINE Left == rooted \ (freed \cup {1})
<1>4. Left = {}
    <2> SUFFICES ASSUME Left # {} PROVE FALSE
        OBVIOUS
    <2>1. Left \in SUBSET Jobs
        BY DEF IInv, TypeOK
    <2>2. PICK j \in Left : \A i \in Left : ~ (i < j)
        BY <2>1, FirstOf
    <2> DEFINE p == creator[j]
    <2>3. j \in Jobs /\ p \in rooted /\ p \in Jobs /\ parent[j] = p
        BY Framed
    <2>4. j \in Kids(p) /\ p < j
        BY <2>2, <2>3, Names DEF Kids, IInv, JobInv
    <2>5. p # 1 /\ p \notin freed
        BY <1>2, <2>3, <2>4, Counted, Framed
    <2> QED
        BY <2>2, <2>3, <2>4, <2>5
<1> QED
    BY <1>2, <1>3, <1>4, Framed

\* The counts of a step that neither starts nor ends a job.
LEMMA RefsStay ==
    ASSUME IInv, UNCHANGED <<creator, frameVars>>, mpc' = "waits" <=> mpc = "waits",
           \A j \in Jobs : state'[j] = "new" <=> state[j] = "new",
           \A j \in Jobs : state'[j] = "done" <=> state[j] = "done"
    PROVE  RefsInv'
<1>1. \A j \in Jobs : Own(j)' = Own(j) /\ Outside(j)' = Outside(j) /\ Kids(j)' = Kids(j)
    BY DEF Own, Outside, Kids
<1>2. freed \subseteq Jobs /\ rooted \subseteq Jobs
    BY DEF IInv, TypeOK
<1> QED
    BY <1>1, <1>2 DEF IInv, RefsInv

\* Invariants of what a step leaves alone.
LEMMA HandlesStay ==
    ASSUME HandleInv, UNCHANGED <<queue, h, state, barrier_queue>>
    PROVE  HandleInv'
BY DEF HandleInv, In, NoneTwice

LEMMA JobsStay ==
    ASSUME JobInv, UNCHANGED jobVars
    PROVE  JobInv'
BY DEF JobInv

\* A step of a thread for a job that is under way.
LEMMA MainWaits ==
    ASSUME IInv, NEW j \in Jobs, state[j] \notin {"new", "done"}, UNCHANGED <<mpc, mi>>,
           rooted \subseteq rooted', j \notin rooted => rooted' = rooted,
           \A i \in rooted : state[i] = "done" => state'[i] = "done"
    PROVE  MainInv'
BY Busy DEF IInv, MainInv

\* A step of worker w: the jobs of P are pushed to the deque of t, and w goes on
\* with job g, or with none.
Move(w, t, P, g) ==
    /\ \A u \in Threads : NoneTwice(queue'[u])
    /\ In(queue'[t]) = In(queue[t]) \cup P
    /\ \A u \in Threads : u # t => In(queue'[u]) = In(queue[u])
    /\ h' = [h EXCEPT ![w] = g]
    /\ \A i \in P : state[i] # "ready" \/ i = h[w]
    /\ g \notin P /\ (g \in Jobs => state[g] # "ready" \/ g = h[w])
    /\ \A i \in Jobs : state'[i] = "ready"
          <=> i \in P \/ i = g \/ (state[i] = "ready" /\ i # h[w])
    /\ \A i \in Jobs : i \in barrier_queue' <=> state'[i] = "barrier"

LEMMA Moved ==
    ASSUME IInv, NEW w \in Workers, NEW t \in Threads, NEW P \in SUBSET Jobs,
           NEW g \in Jobs \cup {NoJob}, Move(w, t, P, g)
    PROVE  HandleInv'
<1> USE DEF Move
<1>1. h'[w] = g /\ \A x \in Workers : x # w => h'[x] = h[x]
    BY DEF IInv, TypeOK
<1>2. \A u \in Threads : \A i \in In(queue'[u]) : i \in In(queue[u]) \/ (i \in P /\ u = t)
    OBVIOUS
<1>3. \A u \in Threads : \A i \in In(queue[u]) : i \in In(queue'[u])
    OBVIOUS
<1>4. \A i \in P : i \in In(queue'[t])
    OBVIOUS
<1>5. \A i \in P, u \in Threads : i \notin In(queue[u])
    BY Facts DEF IInv, HandleInv
<1>6. \A i \in P, x \in Workers : x # w => h[x] # i
    BY Names, Facts DEF IInv, HandleInv
<1>7. \A u \in Threads : g \notin In(queue[u])
    BY Names, Facts DEF IInv, HandleInv
<1>8. g # NoJob => \A x \in Workers : x # w => h[x] # g
    BY Names, Facts DEF IInv, HandleInv
<1>9. \A u, v \in Threads, i \in Jobs : i \in In(queue'[u]) /\ i \in In(queue'[v]) => u = v
    BY <1>2, <1>5 DEF IInv, HandleInv
<1>10. \A x, y \in Workers : h'[x] = h'[y] /\ h'[x] # NoJob => x = y
    BY <1>1, <1>8 DEF IInv, HandleInv
<1>11. \A u \in Threads, x \in Workers : h'[x] \notin In(queue'[u])
    BY <1>1, <1>2, <1>6, <1>7 DEF IInv, HandleInv
<1>12. \A i \in Jobs : state'[i] = "ready"
          <=> (\E u \in Threads : i \in In(queue'[u])) \/ (\E x \in Workers : h'[x] = i)
    <2> TAKE i \in Jobs
    <2>1. (\E u \in Threads : i \in In(queue'[u]))
            <=> i \in P \/ \E u \in Threads : i \in In(queue[u])
        BY <1>2, <1>3, <1>4
    <2>2. (\E x \in Workers : h'[x] = i) <=> i = g \/ \E x \in Workers : x # w /\ h[x] = i
        BY <1>1
    <2>3. state[i] = "ready" /\ i # h[w]
            <=> (\E u \in Threads : i \in In(queue[u])) \/ (\E x \in Workers : x # w
                /\ h[x] = i)
        <3>1. i # NoJob
            BY Names
        <3>2. (\E u \in Threads : i \in In(queue[u])) => i # h[w]
            BY DEF IInv, HandleInv
        <3>3. (\E x \in Workers : x # w /\ h[x] = i) => i # h[w]
            BY <3>1 DEF IInv, HandleInv
        <3> QED
            BY <3>2, <3>3 DEF IInv, HandleInv
    <2> QED
        BY <2>1, <2>2, <2>3
<1> QED
    BY <1>9, <1>10, <1>11, <1>12 DEF HandleInv

-----------------------------------------------------------------------------
(* The main thread's steps.                                                *)

LEMMA RefuseKeeps ==
    ASSUME IInv, Refuse
    PROVE  IInv'
<1> USE DEF Refuse
<1>1. TypeOK'
    BY DEF IInv, TypeOK
<1>2. HandleInv' /\ JobInv' /\ RefsInv'
    BY HandlesStay, JobsStay, RefsStay DEF IInv
<1>3. MainInv' /\ WorkerInv'
    BY DEF IInv, MainInv, WorkerInv
<1> QED
    BY <1>1, <1>2, <1>3 DEF IInv

LEMMA StartThreadKeeps ==
    ASSUME IInv, StartThread
    PROVE  IInv'
<1> USE DEF StartThread
<1>1. /\ mi \in Workers /\ next = 1 /\ num_cores = NumWorkers
      /\ wpc' = [wpc EXCEPT ![mi] = "pins"] /\ wpc[mi] # "runs"
      /\ mpc' \in {"starts", "creates"} /\ (mpc' = "starts" => mi' \in Workers)
          /\ mi' \in 0..NumWorkers
    <2>1. mi \in Workers /\ next = 1
        BY DEF IInv, MainInv
    <2>2. num_cores = NumWorkers
        BY SizeAssumption DEF TooFewCores, IInv, TypeOK
    <2>3. wpc[mi] # "runs"
        <3> SUFFICES ASSUME wpc[mi] = "runs" PROVE FALSE
            OBVIOUS
        <3>1. h[mi] \in Jobs /\ state[h[mi]] = "ready"
            BY <2>1, Facts
        <3> QED
            BY <3>1, Busy
    <2>4. /\ mpc' \in {"starts", "creates"} /\ (mpc' = "starts" => mi' \in Workers)
          /\ mi' \in 0..NumWorkers
        BY <2>1, SizeAssumption DEF Workers
    <2> QED
        BY <2>1, <2>2, <2>3, <2>4
<1>2. TypeOK'
    <2>1. \A w \in Workers : wpc'[w] = "runs" <=> h[w] # NoJob
        BY <1>1 DEF IInv, TypeOK
    <2> QED
        BY <1>1, <2>1 DEF IInv, TypeOK
<1>3. HandleInv' /\ JobInv' /\ RefsInv'
    BY <1>1, HandlesStay, JobsStay, RefsStay DEF IInv
<1>4. MainInv'
    BY <1>1 DEF MainInv
<1>5. WorkerInv'
    BY <1>1 DEF IInv, WorkerInv, TypeOK
<1> QED
    BY <1>2, <1>3, <1>4, <1>5 DEF IInv

LEMMA CreateInitKeeps ==
    ASSUME IInv, CreateInit
    PROVE  IInv'
<1> USE DEF CreateInit
<1>1. next = 1 /\ \A j \in Jobs : state[j] = "new"
    <2>1. next = 1
        BY DEF IInv, MainInv
    <2>2. \A j \in Jobs : next <= j
        BY <2>1, SizeAssumption DEF Jobs
    <2> QED
        BY <2>1, <2>2 DEF IInv, JobInv
<1>2. /\ \A t \in Threads : In(queue[t]) = {}
      /\ \A w \in Workers : h[w] \notin Jobs
    BY <1>1, Facts
<1>3. /\ queue' \in [Threads -> Seq(Jobs)]
      /\ \A u \in Threads : NoneTwice(queue'[u])
      /\ In(queue'[Main]) = {1}
      /\ \A u \in Threads : u # Main => In(queue'[u]) = {}
    BY <1>2, Added, Names
<1>4. state'[1] = "ready" /\ \A j \in Jobs : j # 1 => state'[j] = "new"
    BY <1>1, Names DEF IInv, TypeOK
<1>5. TypeOK'
    <2>1. state' \in [Jobs -> {"new", "ready", "blocked", "awaits", "barrier", "done"}]
        BY DEF IInv, TypeOK
    <2>2. uses' \in [Jobs -> Nat] /\ rooted' \subseteq Jobs /\ next' \in 1..(NumJobs + 1)
        BY SizeAssumption DEF IInv, TypeOK, Jobs
    <2> QED
        BY <1>3, <2>1, <2>2 DEF IInv, TypeOK
<1>9. RefsInv'
    <2>1. \A j \in Jobs : uses[j] = 0 /\ Kids(j) = {}
        <3> TAKE j \in Jobs
        <3>1. Own(j) = 0 /\ Outside(j) = 0
            BY <1>1 DEF Own, Outside
        <3>2. \A c \in Jobs : parent[c] # j
            BY <1>1, Names DEF IInv, RefsInv, JobInv, TypeOK
        <3>3. Kids(j) = {}
            BY <3>2 DEF Kids
        <3> QED
            BY <3>1, <3>3, Counted
    <2>2. \A j \in Jobs : /\ uses'[j] = IF j = 1 THEN 2 ELSE 0
                          /\ Own(j)' = IF j = 1 THEN 1 ELSE 0
                          /\ Outside(j)' = IF j = 1 THEN 1 ELSE 0
                          /\ Kids(j)' = {}
        BY <1>4, <2>1, Names DEF Own, Outside, Kids, IInv, TypeOK
    <2>3. freed = {}
        BY <1>1 DEF IInv, RefsInv, TypeOK
    <2>4. Cardinality({}) = 0
        BY FS_EmptySet
    <2>5. \A j \in Jobs : uses'[j] = Own(j)' + Outside(j)' + Cardinality(Kids(j)')
        BY <2>2, <2>4
    <2> QED
        BY <1>4, <2>3, <2>5 DEF IInv, RefsInv
<1>6. HandleInv'
    <2>1. h[1] = NoJob /\ h' = [h EXCEPT ![1] = NoJob]
        BY <1>2, Names DEF IInv, TypeOK
    <2>2. /\ In(queue'[Main]) = In(queue[Main]) \cup {1}
          /\ \A u \in Threads : u # Main => In(queue'[u]) = In(queue[u])
        BY <1>2, <1>3, Names
    <2>3. {1} \in SUBSET Jobs /\ NoJob \notin {1} /\ NoJob \notin Jobs
        BY Names
    <2>4. \A i \in Jobs : state'[i] = "ready"
            <=> i \in {1} \/ i = NoJob \/ (state[i] = "ready" /\ i # h[1])
        BY <1>1, <1>4, Names
    <2>5. \A i \in {1} : state[i] # "ready"
        BY <1>1, Names
    <2>6. \A i \in Jobs : i \in barrier_queue' <=> state'[i] = "barrier"
        BY <1>1, <1>4 DEF IInv, HandleInv
    <2> HIDE DEF CreateInit
    <2>7. Move(1, Main, {1}, NoJob)
        BY <1>3, <2>1, <2>2, <2>3, <2>4, <2>5, <2>6 DEF Move
    <2> QED
        BY <2>3, <2>7, Moved, Names
<1>7. JobInv'
    <2>1. \A j \in Jobs : 2 <= j <=> j # 1
        BY SizeAssumption DEF Jobs
    <2>2. \A j \in Jobs : creator[j] = NoJob
        BY <1>1, Names DEF IInv, JobInv, TypeOK
    <2> QED
        BY <1>4, <2>1, <2>2 DEF JobInv
<1>8. MainInv' /\ WorkerInv'
    BY DEF IInv, MainInv, WorkerInv
<1> QED
    BY <1>5, <1>6, <1>7, <1>8, <1>9 DEF IInv

LEMMA LeaveKeeps ==
    ASSUME IInv, Leave
    PROVE  IInv'
<1> USE DEF Leave
<1>1. uses[1] = 1 /\ (\A j \in rooted : state[j] = "done") /\ 1 \in Jobs
    BY CountedAreOver, Counted, Names DEF OthersHold
<1>2. uses' = [uses EXCEPT ![1] = 0]
    BY <1>1
<1>3. TypeOK'
    <2>1. uses \in [Jobs -> Nat]
        BY DEF IInv, TypeOK
    <2>2. uses' \in [Jobs -> Nat]
        <3> HIDE DEF Leave
        <3> QED
            BY <1>1, <1>2, <2>1
    <2> QED
        BY <2>2, SizeAssumption DEF IInv, TypeOK
<1>4. HandleInv' /\ JobInv'
    BY HandlesStay, JobsStay DEF IInv
<1>5. RefsInv'
    <2>1. \A j \in Jobs : /\ uses'[j] = uses[j] - Outside(j) /\ Outside(j)' = 0
                          /\ Own(j)' = Own(j) /\ Kids(j)' = Kids(j)
        BY <1>1, <1>2 DEF Own, Outside, Kids, IInv, TypeOK
    <2>2. \A j \in Jobs : uses'[j] = Own(j)' + Outside(j)' + Cardinality(Kids(j)')
        BY <2>1, Counted
    <2>3. \A j \in freed : state'[j] = "done" /\ uses'[j] = 0
        BY <1>2 DEF IInv, RefsInv, TypeOK
    <2> QED
        BY <2>2, <2>3 DEF IInv, RefsInv
<1>6. MainInv' /\ WorkerInv'
    BY <1>1, Names DEF IInv, MainInv, WorkerInv
<1> QED
    BY <1>3, <1>4, <1>5, <1>6 DEF IInv

LEMMA StopThreadKeeps ==
    ASSUME IInv, StopThread
    PROVE  IInv'
<1> USE DEF StopThread
<1>1. TypeOK'
    BY DEF IInv, TypeOK
<1>2. HandleInv' /\ JobInv' /\ RefsInv'
    BY HandlesStay, JobsStay, RefsStay DEF IInv
<1>3. MainInv' /\ WorkerInv'
    BY DEF IInv, MainInv, WorkerInv
<1> QED
    BY <1>1, <1>2, <1>3 DEF IInv

LEMMA JoinThreadKeeps ==
    ASSUME IInv, JoinThread
    PROVE  IInv'
<1> USE DEF JoinThread
<1>1. mi' \in Workers /\ mi' \in 0..NumWorkers /\ mpc' \in {"destroyed", "stops"}
    BY SizeAssumption DEF IInv, MainInv, Workers
<1>2. TypeOK'
    BY <1>1 DEF IInv, TypeOK
<1>3. HandleInv' /\ JobInv' /\ RefsInv'
    BY <1>1, HandlesStay, JobsStay, RefsStay DEF IInv
<1>4. MainInv' /\ WorkerInv'
    BY <1>1 DEF IInv, MainInv, WorkerInv
<1> QED
    BY <1>2, <1>3, <1>4 DEF IInv

-----------------------------------------------------------------------------
(* A worker's steps between the jobs it runs.                              *)

LEMMA MainStays ==
    ASSUME MainInv, UNCHANGED <<mpc, mi, next, state, rooted>>
    PROVE  MainInv'
BY DEF MainInv

LEMMA PinKeeps ==
    ASSUME IInv, NEW w \in Workers, Pin(w)
    PROVE  IInv'
<1> USE DEF Pin
<1>1. num_cores = NumWorkers
    BY DEF IInv, WorkerInv
<1>2. (w - 1) % NumWorkers = w - 1 /\ w - 1 \in 0..NumWorkers
    BY SizeAssumption DEF Workers
<1>3. core' = [core EXCEPT ![w] = w - 1]
    BY <1>1, <1>2
<1>4. TypeOK'
    BY <1>2, <1>3 DEF IInv, TypeOK
<1>5. HandleInv' /\ JobInv' /\ RefsInv' /\ MainInv'
    BY HandlesStay, JobsStay, RefsStay, MainStays DEF IInv
<1>6. WorkerInv'
    BY <1>1, <1>3 DEF IInv, WorkerInv, TypeOK
<1> QED
    BY <1>4, <1>5, <1>6 DEF IInv

LEMMA LoopKeeps ==
    ASSUME IInv, NEW w \in Workers, Loop(w)
    PROVE  IInv'
<1> USE DEF Loop
<1>1. TypeOK'
    BY DEF IInv, TypeOK
<1>2. HandleInv' /\ JobInv' /\ RefsInv' /\ MainInv'
    BY HandlesStay, JobsStay, RefsStay, MainStays DEF IInv
<1>3. WorkerInv'
    BY DEF IInv, WorkerInv, TypeOK
<1> QED
    BY <1>1, <1>2, <1>3 DEF IInv

LEMMA StealNothingKeeps ==
    ASSUME IInv, NEW w \in Workers, StealNothing(w)
    PROVE  IInv'
<1> USE DEF StealNothing
<1>1. /\ tries' \in [Workers -> 0..(Attempts - 1)]
      /\ wpc' = [wpc EXCEPT ![w] = "barriers"] \/ wpc' = wpc
      /\ wpc[w] = "steal"
    <2>1. tries[w] \in 0..(Attempts - 1) /\ tries \in [Workers -> 0..(Attempts - 1)]
        BY DEF IInv, TypeOK
    <2>2. CASE tries[w] + 1 = Attempts
        <3>1. 0 \in 0..(Attempts - 1)
            BY AttemptsAssumption
        <3> QED
            BY <2>1, <2>2, <3>1
    <2>3. CASE tries[w] + 1 # Attempts
        <3>1. tries[w] + 1 \in 0..(Attempts - 1)
            BY <2>1, <2>3, AttemptsAssumption
        <3> QED
            BY <2>1, <2>3, <3>1
    <2> QED
        BY <2>2, <2>3
<1>2. TypeOK'
    BY <1>1 DEF IInv, TypeOK
<1>3. HandleInv' /\ JobInv' /\ RefsInv' /\ MainInv'
    BY HandlesStay, JobsStay, RefsStay, MainStays DEF IInv
<1>4. WorkerInv'
    BY <1>1 DEF IInv, WorkerInv, TypeOK
<1> QED
    BY <1>2, <1>3, <1>4 DEF IInv

\* A worker takes job j, the oldest or the newest, from deque v.
LEMMA Taken ==
    ASSUME IInv, NEW w \in Workers, NEW v \in Threads, NEW j \in In(queue[v]), h[w] = NoJob,
           queue' \in [Threads -> Seq(Jobs)], \A u \in Threads : NoneTwice(queue'[u]),
           In(queue'[v]) = In(queue[v]) \ {j},
           \A u \in Threads : u # v => In(queue'[u]) = In(queue[u]),
           h' = [h EXCEPT ![w] = j], UNCHANGED <<state, barrier_queue>>
    PROVE  HandleInv'
<1>1. j \in Jobs /\ state[j] = "ready"
    BY Facts
<1>2. h'[w] = j /\ \A x \in Workers : x # w => h'[x] = h[x]
    BY DEF IInv, TypeOK
<1>3. \A x \in Workers : h[x] # j
    BY DEF IInv, HandleInv
<1>4. \A u \in Threads : j \notin In(queue'[u])
    BY <1>1 DEF IInv, HandleInv
<1>5. \A u \in Threads : \A i \in In(queue'[u]) : i \in In(queue[u])
    OBVIOUS
<1>6. \A u \in Threads : \A i \in In(queue[u]) : i = j \/ i \in In(queue'[u])
    OBVIOUS
<1>7. \A t, u \in Threads, i \in Jobs : i \in In(queue'[t]) /\ i \in In(queue'[u]) => t = u
    BY <1>5 DEF IInv, HandleInv
<1>8. \A x, y \in Workers : h'[x] = h'[y] /\ h'[x] # NoJob => x = y
    BY <1>2, <1>3 DEF IInv, HandleInv
<1>9. \A t \in Threads, x \in Workers : h'[x] \notin In(queue'[t])
    BY <1>2, <1>4, <1>5 DEF IInv, HandleInv
<1>10. \A i \in Jobs : state[i] = "ready"
          <=> (\E t \in Threads : i \in In(queue'[t])) \/ (\E x \in Workers : h'[x] = i)
    <2> TAKE i \in Jobs
    <2>1. CASE i = j
        BY <1>1, <1>2, <2>1
    <2>2. CASE i # j
        <3>1. (\E t \in Threads : i \in In(queue'[t]))
                <=> (\E t \in Threads : i \in In(queue[t]))
            BY <1>5, <1>6, <2>2
        <3>2. (\E x \in Workers : h'[x] = i) <=> (\E x \in Workers : h[x] = i)
            BY <1>2, <2>2, Names
        <3> QED
            BY <3>1, <3>2 DEF IInv, HandleInv
    <2> QED
        BY <2>1, <2>2
<1>11. \A i \in Jobs : i \in barrier_queue' <=> state'[i] = "barrier"
    BY DEF IInv, HandleInv
<1> QED
    BY <1>7, <1>8, <1>9, <1>10, <1>11 DEF HandleInv

LEMMA PopKeeps ==
    ASSUME IInv, NEW w \in Workers, Pop(w)
    PROVE  IInv'
<1> USE DEF Pop
<1>1. w \in Threads /\ h[w] = NoJob /\ wpc[w] = "pop"
    BY Names DEF IInv, TypeOK
<1>2. tries' \in [Workers -> 0..(Attempts - 1)]
    BY DEF IInv, TypeOK
<1>3. JobInv' /\ RefsInv' /\ MainInv'
    BY JobsStay, RefsStay, MainStays DEF IInv
<1>4. CASE queue[w] = <<>>
    <2>1. wpc' = [wpc EXCEPT ![w] = "steal"] /\ UNCHANGED <<queue, h>>
        BY <1>4
    <2>2. TypeOK'
        BY <1>1, <1>2, <2>1 DEF IInv, TypeOK
    <2>3. HandleInv'
        BY <2>1, HandlesStay DEF IInv
    <2>4. WorkerInv'
        BY <1>1, <1>2, <2>1 DEF IInv, WorkerInv, TypeOK
    <2> QED
        BY <1>3, <2>2, <2>3, <2>4 DEF IInv
<1>5. CASE queue[w] # <<>>
    <2> DEFINE q == queue[w]
               j == q[Len(q)]
               r == SubSeq(q, 1, Len(q) - 1)
    <2>1. h' = [h EXCEPT ![w] = j] /\ queue' = [queue EXCEPT ![w] = r]
          /\ wpc' = [wpc EXCEPT ![w] = "runs"]
        BY <1>5
    <2>2. r \in Seq(Jobs) /\ j \in Jobs /\ j \in In(q) /\ In(r) = In(q) \ {j}
        /\ NoneTwice(r)
        BY <1>1, <1>5, Facts, InFront
    <2> HIDE DEF j, r
    <2>3. queue' \in [Threads -> Seq(Jobs)] /\ queue'[w] = r
          /\ \A u \in Threads : u # w => queue'[u] = queue[u]
        BY <1>1, <2>1, <2>2 DEF IInv, TypeOK
    <2>4. HandleInv'
        <3>1. \A u \in Threads : NoneTwice(queue'[u])
            BY <2>2, <2>3, Facts
        <3> QED
            BY <1>1, <2>1, <2>2, <2>3, <3>1, Taken
    <2>5. TypeOK'
        <3>1. \A x \in Workers : wpc'[x] = "runs" <=> h'[x] # NoJob
            BY <2>1, <2>2, Names DEF IInv, TypeOK
        <3> QED
            BY <1>2, <2>1, <2>2, <2>3, <3>1 DEF IInv, TypeOK
    <2>6. WorkerInv'
        BY <1>1, <1>2, <2>1 DEF IInv, WorkerInv, TypeOK
    <2> QED
        BY <1>3, <2>4, <2>5, <2>6 DEF IInv
<1> QED
    BY <1>4, <1>5

LEMMA StealKeeps ==
    ASSUME IInv, NEW w \in Workers, NEW victim \in Workers, Steal(w, victim)
    PROVE  IInv'
<1> USE DEF Steal
<1> DEFINE v == Victim(w, victim)
           q == queue[v]
           j == Head(q)
           r == Tail(q)
<1>1. v \in Threads /\ h[w] = NoJob /\ wpc[w] = "steal"
    BY Names DEF IInv, TypeOK, Victim
<1>2. q # <<>> /\ h' = [h EXCEPT ![w] = j] /\ queue' = [queue EXCEPT ![v] = r]
      /\ wpc' = [wpc EXCEPT ![w] = "runs"]
    OBVIOUS
<1>3. JobInv' /\ RefsInv' /\ MainInv' /\ tries' \in [Workers -> 0..(Attempts - 1)]
    BY JobsStay, RefsStay, MainStays, AttemptsAssumption DEF IInv, TypeOK
<1>4. r \in Seq(Jobs) /\ j \in Jobs /\ j \in In(q) /\ In(r) = In(q) \ {j} /\ NoneTwice(r)
    BY <1>1, <1>2, Facts, InTail
<1> HIDE DEF j, r, v
<1>5. queue' \in [Threads -> Seq(Jobs)] /\ queue'[v] = r
      /\ \A u \in Threads : u # v => queue'[u] = queue[u]
    <2>1. queue \in [Threads -> Seq(Jobs)]
        BY DEF IInv, TypeOK
    <2> HIDE DEF Steal
    <2> QED
        BY <1>1, <1>2, <1>4, <2>1
<1>6. HandleInv'
    <2>1. \A u \in Threads : NoneTwice(queue'[u])
        BY <1>4, <1>5, Facts
    <2> QED
        BY <1>1, <1>2, <1>4, <1>5, <2>1, Taken
<1>7. TypeOK'
    <2>1. /\ wpc'[w] = "runs" /\ h'[w] = j
          /\ \A x \in Workers : x # w => wpc'[x] = wpc[x] /\ h'[x] = h[x]
        BY <1>2 DEF IInv, TypeOK
    <2>2. \A x \in Workers : wpc'[x] = "runs" <=> h'[x] # NoJob
        BY <1>4, <2>1, Names DEF IInv, TypeOK
    <2>3. /\ h' \in [Workers -> Jobs \cup {NoJob}]
          /\ wpc' \in [Workers -> {"none", "pins", "loop", "pop", "steal", "barriers",
              "runs", "exited"}]
        BY <1>2, <1>4 DEF IInv, TypeOK
    <2>4. UNCHANGED <<core, barrier_queue, jobVars, frameVars, mainVars>>
        OBVIOUS
    <2> HIDE DEF Steal
    <2> QED
        BY <1>3, <1>5, <2>2, <2>3, <2>4 DEF IInv, TypeOK
<1>8. WorkerInv'
    BY <1>1, <1>2 DEF IInv, WorkerInv, TypeOK
<1> QED
    BY <1>3, <1>6, <1>7, <1>8 DEF IInv

LEMMA BarriersKeeps ==
    ASSUME IInv, NEW w \in Workers, Barriers(w)
    PROVE  IInv'
<1>1. /\ wpc[w] = "barriers" /\ h[w] = NoJob /\ w \in Threads
      /\ UNCHANGED <<core, h, tries, creator, awaits, next, frameVars, mainVars>>
    BY Names DEF Barriers, IInv, TypeOK
<1>2. ASSUME NEW j \in barrier_queue, barrier_queue' = barrier_queue \ {j}, AddTask(w, j),
             state' = [state EXCEPT ![j] = "ready"], UNCHANGED wpc
      PROVE  IInv'
    <2>1. j \in Jobs /\ state[j] = "barrier"
        BY DEF IInv, TypeOK, HandleInv
    <2>2. state'[j] = "ready" /\ \A i \in Jobs : i # j => state'[i] = state[i]
        BY <1>2, <2>1 DEF IInv, TypeOK
    <2>3. j \notin In(queue[w])
        BY <1>1, <2>1, Facts
    <2>4. /\ queue' \in [Threads -> Seq(Jobs)]
          /\ \A u \in Threads : NoneTwice(queue'[u])
          /\ In(queue'[w]) = In(queue[w]) \cup {j}
          /\ \A u \in Threads : u # w => In(queue'[u]) = In(queue[u])
        BY <1>1, <1>2, <2>1, <2>3, Added
    <2>5. HandleInv'
        <3>1. {j} \in SUBSET Jobs /\ NoJob \in Jobs \cup {NoJob} /\ NoJob \notin {j}
            /\ NoJob \notin Jobs
            BY <2>1, Names
        <3>2. h' = [h EXCEPT ![w] = NoJob]
            BY <1>1 DEF IInv, TypeOK
        <3>3. \A i \in {j} : state[i] # "ready" \/ i = h[w]
            BY <2>1
        <3>4. \A i \in Jobs : state'[i] = "ready"
                <=> i \in {j} \/ i = NoJob \/ (state[i] = "ready" /\ i # h[w])
            BY <1>1, <2>2, Names
        <3>5. \A i \in Jobs : i \in barrier_queue' <=> state'[i] = "barrier"
            BY <1>2, <2>2 DEF IInv, HandleInv
        <3>6. Move(w, w, {j}, NoJob)
            BY <2>4, <3>1, <3>2, <3>3, <3>4, <3>5 DEF Move
        <3> QED
            BY <1>1, <3>1, <3>6, Moved
    <2>6. TypeOK'
        BY <1>1, <1>2, <2>4 DEF IInv, TypeOK
    <2>7. JobInv'
        BY <1>1, <2>1, <2>2 DEF IInv, JobInv
    <2>8. MainInv' /\ RefsInv'
        BY <1>1, <2>1, <2>2, MainWaits, RefsStay DEF IInv, TypeOK
    <2>9. WorkerInv'
        BY <1>1, <1>2 DEF IInv, WorkerInv
    <2> QED
        BY <2>5, <2>6, <2>7, <2>8, <2>9 DEF IInv
<1>3. ASSUME wpc' = [wpc EXCEPT ![w] = "loop"], UNCHANGED <<barrier_queue, queue, state>>
      PROVE  IInv'
    <2>1. TypeOK'
        BY <1>1, <1>3 DEF IInv, TypeOK
    <2>2. HandleInv' /\ JobInv' /\ RefsInv' /\ MainInv'
        BY <1>1, <1>3, HandlesStay, JobsStay, RefsStay, MainStays DEF IInv
    <2>3. WorkerInv'
        BY <1>1, <1>3 DEF IInv, WorkerInv, TypeOK
    <2> QED
        BY <2>1, <2>2, <2>3 DEF IInv
<1> QED
    BY <1>2, <1>3 DEF Barriers

-----------------------------------------------------------------------------
(* The steps of the job on a worker.                                       *)

LEMMA Running ==
    ASSUME IInv, NEW w \in Workers, Runs(w)
    PROVE  /\ h[w] \in Jobs /\ state[h[w]] = "ready" /\ wpc[w] = "runs" /\ w \in Threads
           /\ h[w] < next
           /\ \A t \in Threads : h[w] \notin In(queue[t])
<1>1. h[w] \in Jobs /\ state[h[w]] = "ready" /\ wpc[w] = "runs" /\ w \in Threads
    BY Facts, Names DEF Runs
<1> QED
    BY <1>1, Busy DEF IInv, HandleInv

\* The next job is a new one, and nobody has its handle.
LEMMA NextJob ==
    ASSUME IInv, next <= NumJobs
    PROVE  /\ next \in Jobs /\ state[next] = "new"
           /\ creator[next] = NoJob /\ parent[next] = NoJob /\ next \notin freed
           /\ \A t \in Threads : next \notin In(queue[t])
           /\ \A w \in Workers : h[w] # next
           /\ next + 1 \in 1..(NumJobs + 1)
<1>1. next \in Jobs /\ next + 1 \in 1..(NumJobs + 1)
    BY Facts, SizeAssumption DEF Jobs
<1>2. state[next] = "new"
    BY <1>1, Facts DEF IInv, JobInv
<1>3. creator[next] = NoJob /\ parent[next] = NoJob /\ next \notin freed
    BY <1>1, <1>2, Facts DEF IInv, JobInv, RefsInv
<1> QED
    BY <1>1, <1>2, <1>3, Facts

\* Jobs change, but none of them becomes or ceases to be new.
LEMMA JobsKnown ==
    ASSUME IInv, UNCHANGED <<creator, next>>,
           \A i \in Jobs : state'[i] = "new" <=> state[i] = "new",
           \A i \in Jobs : state'[i] = "blocked" => state[i] = "blocked",
           \A i \in Jobs : state'[i] = "awaits" =>
               awaits'[i] \in Jobs /\ creator[awaits'[i]] = i
    PROVE  JobInv'
BY DEF IInv, JobInv

\* The next job is dispatched, by a job that is on a worker and may await it.
LEMMA JobsNext ==
    ASSUME IInv, NEW w \in Workers, NEW j \in Jobs, j = h[w], Runs(w), Create(j),
           state'[next] \in {"ready", "blocked"},
           \A i \in Jobs : i # next =>
               \/ state'[i] = state[i] /\ awaits'[i] = awaits[i]
               \/ i = j /\ state'[i] = "awaits" /\ awaits'[i] = next
    PROVE  JobInv'
<1>1. /\ next \in Jobs /\ j < next /\ creator'[next] = j /\ next' = next + 1
      /\ state[j] = "ready" /\ \A i \in Jobs : i # next => creator'[i] = creator[i]
    BY NextJob, Running DEF Create, IInv, TypeOK
<1>2. next \in Nat /\ \A i \in Jobs : i \in Nat
    BY Facts, Names
<1>3. \A i \in Jobs : state'[i] = "new" <=> next' <= i
    BY <1>1, <1>2 DEF IInv, JobInv
<1>4. \A i \in Jobs : creator'[i] # NoJob => creator'[i] < i /\ i < next'
    BY <1>1, <1>2 DEF IInv, JobInv
<1>5. \A i \in Jobs : state'[i] = "blocked" => creator'[i] # NoJob
    BY <1>1, Names DEF IInv, JobInv
<1>6. ASSUME NEW i \in Jobs, state'[i] = "awaits"
      PROVE  awaits'[i] \in Jobs /\ creator'[awaits'[i]] = i
    <2>1. i # next
        BY <1>6
    <2>2. CASE i = j /\ awaits'[i] = next
        BY <1>1, <2>2
    <2>3. CASE state'[i] = state[i] /\ awaits'[i] = awaits[i]
        <3>1. awaits[i] \in Jobs /\ creator[awaits[i]] = i
            BY <1>6, <2>3 DEF IInv, JobInv
        <3>2. awaits[i] # next
            BY <3>1, NextJob, Names DEF Create
        <3> QED
            BY <1>1, <2>3, <3>1, <3>2
    <2> QED
        BY <2>1, <2>2, <2>3
<1> QED
    BY <1>3, <1>4, <1>5, <1>6 DEF JobInv

\* Whether the new job holds the frame of its creator or not, it is counted.
LEMMA RefsNext ==
    ASSUME IInv, NEW w \in Workers, NEW j \in Jobs, j = h[w], Runs(w), Create(j),
           mpc' = mpc, state'[next] \in {"ready", "blocked"},
           \A i \in Jobs : i # next =>
               state'[i] = state[i] \/ (i = j /\ state'[i] = "awaits")
    PROVE  /\ RefsInv'
           /\ rooted \subseteq rooted' /\ (j \notin rooted => rooted' = rooted)
           /\ rooted' \subseteq Jobs /\ freed' = freed
           /\ uses' \in [Jobs -> Nat] /\ parent' \in [Jobs -> Jobs \cup {NoJob}]
           /\ creator' \in [Jobs -> Jobs \cup {NoJob}] /\ next' \in 1..(NumJobs + 1)
<1>1. /\ next \in Jobs /\ state[next] = "new" /\ parent[next] = NoJob /\ next \notin freed
      /\ creator[next] = NoJob /\ next' \in 1..(NumJobs + 1) /\ next \notin rooted
    <2>1. next <= NumJobs /\ next' = next + 1
        BY DEF Create
    <2> QED
        BY <2>1, NextJob, Framed
<1>2. state[j] = "ready" /\ j # next /\ j \notin freed
    BY <1>1, Running, Framed
<1>3. PICK counts \in Counting :
          /\ parent' = [parent EXCEPT ![next] = IF counts THEN j ELSE NoJob]
          /\ uses' = [uses EXCEPT ![next] = 1, ![j] = IF counts THEN @ + 1 ELSE @]
          /\ rooted' = IF counts /\ j \in rooted THEN rooted \cup {next} ELSE rooted
    BY DEF Create
<1>4. counts \in BOOLEAN
    BY CountingAssumption
<1> DEFINE k == IF counts THEN 1 ELSE 0
<1>5. /\ uses'[next] = 1 /\ uses'[j] = uses[j] + k
      /\ \A i \in Jobs : i \notin {next, j} => uses'[i] = uses[i]
      /\ uses' \in [Jobs -> Nat] /\ parent' \in [Jobs -> Jobs \cup {NoJob}]
    <2>1. uses \in [Jobs -> Nat] /\ parent \in [Jobs -> Jobs \cup {NoJob}]
        BY DEF IInv, TypeOK
    <2>2. CASE counts
        BY <1>1, <1>2, <1>3, <2>1, <2>2
    <2>3. CASE ~ counts
        BY <1>1, <1>2, <1>3, <2>1, <2>3
    <2> QED
        BY <2>2, <2>3
<1>6. /\ creator'[next] = j /\ \A i \in Jobs : i # next => creator'[i] = creator[i]
      /\ creator' \in [Jobs -> Jobs \cup {NoJob}] /\ freed' = freed
      /\ parent'[next] = IF counts THEN j ELSE NoJob
      /\ \A i \in Jobs : i # next => parent'[i] = parent[i]
    BY <1>1, <1>3 DEF Create, IInv, TypeOK
<1>0. PICK n \in Jobs : n = next
    BY <1>1
<1>7. /\ Kids(n) = {} /\ Own(n) = 0 /\ Own(n)' = 1
      /\ \A i \in Jobs : i # n => Own(i)' = Own(i)
      /\ \A i \in Jobs : Outside(i)' = Outside(i)
    <2>1. \A c \in Jobs : parent[c] # n
        BY <1>0, <1>1, Facts, Names, Framed DEF IInv, JobInv
    <2>2. Kids(n) = {}
        BY <2>1 DEF Kids
    <2>3. Own(n) = 0 /\ Own(n)' = 1 /\ \A i \in Jobs : Outside(i)' = Outside(i)
        BY <1>0, <1>1 DEF Own, Outside
    <2>4. ASSUME NEW i \in Jobs, i # n
          PROVE  Own(i)' = Own(i)
        <3>1. state'[i] = state[i] \/ (state[i] = "ready" /\ state'[i] = "awaits")
            BY <1>0, <1>2, <2>4
        <3> QED
            BY <3>1 DEF Own
    <2> QED
        BY <2>2, <2>3, <2>4
<1>8. /\ Kids(j)' = IF counts THEN Kids(j) \cup {n} ELSE Kids(j)
      /\ n \notin Kids(j)
      /\ \A i \in Jobs : i # j => Kids(i)' = Kids(i)
    BY <1>0, <1>1, <1>6, Names DEF Kids
<1>9. Cardinality(Kids(j)') = Cardinality(Kids(j)) + k
    BY <1>0, <1>1, <1>8, Counted, JobSets
<1>10. Outside(n) = 0
    BY <1>0, <1>1 DEF Outside, IInv, MainInv
<1> HIDE DEF k
<1>11. \A i \in Jobs : uses'[i] = Own(i)' + Outside(i)' + Cardinality(Kids(i)')
    <2> TAKE i \in Jobs
    <2>1. CASE i = n
        <3>1. Kids(n)' = {} /\ Outside(n)' = 0 /\ Own(n)' = 1 /\ uses'[n] = 1
            BY <1>0, <1>1, <1>2, <1>5, <1>7, <1>8, <1>10
        <3> QED
            BY <2>1, <3>1, FS_EmptySet
    <2>2. CASE i = j
        <3>1. k \in {0, 1}
            BY DEF k
        <3> QED
            BY <1>0, <1>2, <1>5, <1>7, <1>9, <2>2, <3>1, Counted
    <2>3. CASE i \notin {n, j}
        BY <1>0, <1>5, <1>7, <1>8, <2>3, Counted
    <2> QED
        BY <2>1, <2>2, <2>3
<1>12. \A i \in freed : state'[i] = "done" /\ uses'[i] = 0 /\ i \in Jobs
    <2> TAKE i \in freed
    <2>1. i \in Jobs /\ state[i] = "done" /\ uses[i] = 0 /\ i \notin {n, j}
        BY <1>0, <1>1, <1>2, Framed
    <2> QED
        BY <1>0, <1>5, <2>1
<1>13. \A i \in Jobs : parent'[i] # NoJob => parent'[i] = creator'[i]
    BY <1>0, <1>1, <1>6, Framed
<1>14. ASSUME NEW i \in rooted'
       PROVE  /\ i \in Jobs /\ state'[i] # "new"
              /\ i # 1 => creator'[i] \in rooted' /\ parent'[i] = creator'[i]
    <2>1. i \in rooted \/ (i = n /\ counts /\ j \in rooted)
        BY <1>0, <1>3
    <2>2. rooted \subseteq rooted' /\ rooted \subseteq Jobs
        BY <1>0, <1>3 DEF IInv, TypeOK
    <2>3. CASE i \in rooted
        <3>1. i \in Jobs /\ i # n /\ state[i] # "new"
            BY <1>0, <1>1, <2>3, Framed
        <3>2. i # 1 => creator[i] \in rooted /\ parent[i] = creator[i]
            BY <2>3, Framed
        <3>3. state'[i] # "new"
            BY <3>1
        <3> QED
            BY <1>0, <1>6, <2>2, <3>1, <3>2, <3>3
    <2>4. CASE i = n /\ counts /\ j \in rooted
        BY <1>0, <1>1, <1>6, <2>2, <2>4
    <2> QED
        BY <2>1, <2>3, <2>4
<1>15. RefsInv'
    BY <1>0, <1>6, <1>11, <1>12, <1>13, <1>14 DEF RefsInv
<1> QED
    BY <1>0, <1>1, <1>3, <1>5, <1>6, <1>14, <1>15 DEF IInv, TypeOK

LEMMA DispatchReadyKeeps ==
    ASSUME IInv, NEW w \in Workers, DispatchReady(w)
    PROVE  IInv'
<1> USE DEF DispatchReady, PushContinuation
<1> DEFINE j == h[w]
<1>1. /\ j \in Jobs /\ state[j] = "ready" /\ wpc[w] = "runs" /\ w \in Threads
      /\ \A t \in Threads : j \notin In(queue[t])
    BY Running
<1>2. next \in Jobs /\ state[next] = "new" /\ \A t \in Threads : next \notin In(queue[t])
    BY NextJob DEF Create
<1>3. /\ queue' \in [Threads -> Seq(Jobs)]
      /\ \A u \in Threads : NoneTwice(queue'[u])
      /\ In(queue'[w]) = In(queue[w]) \cup {j}
      /\ \A u \in Threads : u # w => In(queue'[u]) = In(queue[u])
    BY <1>1, Added
<1>4. /\ state'[next] = "ready" /\ \A i \in Jobs : i # next => state'[i] = state[i]
      /\ state' \in [Jobs -> {"new", "ready", "blocked", "awaits", "barrier", "done"}]
    BY <1>2 DEF IInv, TypeOK
<1>5. HandleInv'
    <2>1. \A i \in Jobs : state'[i] = "ready"
            <=> i \in {j} \/ i = next \/ (state[i] = "ready" /\ i # j)
        BY <1>1, <1>4
    <2>2. \A i \in Jobs : i \in barrier_queue' <=> state'[i] = "barrier"
        BY <1>2, <1>4 DEF IInv, HandleInv
    <2>3. next \notin {j}
        BY <1>1, <1>2
    <2>4. h' = [h EXCEPT ![w] = next]
        OBVIOUS
    <2> HIDE DEF DispatchReady
    <2>5. Move(w, w, {j}, next)
        BY <1>2, <1>3, <2>1, <2>2, <2>3, <2>4 DEF Move
    <2> QED
        BY <1>1, <1>2, <2>5, Moved
<1>6. /\ RefsInv'
      /\ rooted \subseteq rooted' /\ (j \notin rooted => rooted' = rooted)
      /\ rooted' \subseteq Jobs /\ freed' = freed
      /\ uses' \in [Jobs -> Nat] /\ parent' \in [Jobs -> Jobs \cup {NoJob}]
      /\ creator' \in [Jobs -> Jobs \cup {NoJob}] /\ next' \in 1..(NumJobs + 1)
    BY <1>1, <1>4, RefsNext
<1>7. JobInv'
    BY <1>1, <1>4, JobsNext
<1>8. MainInv'
    <2>1. \A i \in rooted : state[i] = "done" => state'[i] = "done"
        BY <1>2, <1>4 DEF IInv, TypeOK
    <2> QED
        BY <1>1, <1>6, <2>1, MainWaits
<1>9. TypeOK'
    <2>1. \A x \in Workers : wpc'[x] = "runs" <=> h'[x] # NoJob
        BY <1>1, <1>2, Names DEF IInv, TypeOK
    <2> QED
        BY <1>2, <1>3, <1>4, <1>6, <2>1 DEF IInv, TypeOK
<1>10. WorkerInv'
    BY DEF IInv, WorkerInv
<1> QED
    BY <1>5, <1>6, <1>7, <1>8, <1>9, <1>10 DEF IInv

LEMMA DispatchSyncKeeps ==
    ASSUME IInv, NEW w \in Workers, DispatchSync(w)
    PROVE  IInv'
<1> USE DEF DispatchSync
<1> DEFINE j == h[w]
<1>1. j \in Jobs /\ state[j] = "ready" /\ wpc[w] = "runs" /\ w \in Threads
    BY Running
<1>2. next \in Jobs /\ state[next] = "new" /\ next # j
    BY <1>1, NextJob DEF Create
<1>3. /\ state'[next] = "ready" /\ state'[j] = "awaits" /\ awaits'[j] = next
      /\ \A i \in Jobs : i \notin {next, j} => state'[i] = state[i]
      /\ \A i \in Jobs : i # j => awaits'[i] = awaits[i]
      /\ state' \in [Jobs -> {"new", "ready", "blocked", "awaits", "barrier", "done"}]
      /\ awaits' \in [Jobs -> Jobs \cup {NoJob}]
    BY <1>1, <1>2 DEF IInv, TypeOK
<1>4. HandleInv'
    <2>1. \A i \in Jobs : state'[i] = "ready"
            <=> i \in {} \/ i = next \/ (state[i] = "ready" /\ i # j)
        BY <1>1, <1>2, <1>3
    <2>2. \A i \in Jobs : i \in barrier_queue' <=> state'[i] = "barrier"
        BY <1>1, <1>2, <1>3 DEF IInv, HandleInv
    <2>3. \A u \in Threads : NoneTwice(queue'[u]) /\ In(queue'[u]) = In(queue[u])
        BY Facts
    <2>4. h' = [h EXCEPT ![w] = next] /\ In(queue'[w]) = In(queue[w]) \cup {}
        BY <1>1, <2>3
    <2> HIDE DEF DispatchSync
    <2>5. Move(w, w, {}, next)
        BY <1>2, <2>1, <2>2, <2>3, <2>4 DEF Move
    <2> QED
        BY <1>1, <1>2, <2>5, Moved
<1>5. /\ RefsInv'
      /\ rooted \subseteq rooted' /\ (j \notin rooted => rooted' = rooted)
      /\ rooted' \subseteq Jobs /\ freed' = freed
      /\ uses' \in [Jobs -> Nat] /\ parent' \in [Jobs -> Jobs \cup {NoJob}]
      /\ creator' \in [Jobs -> Jobs \cup {NoJob}] /\ next' \in 1..(NumJobs + 1)
    BY <1>1, <1>3, RefsNext
<1>6. JobInv'
    BY <1>1, <1>3, JobsNext
<1>7. MainInv'
    <2>1. \A i \in rooted : state[i] = "done" => state'[i] = "done"
        BY <1>1, <1>2, <1>3 DEF IInv, TypeOK
    <2> QED
        BY <1>1, <1>5, <2>1, MainWaits
<1>8. TypeOK'
    <2>1. \A x \in Workers : wpc'[x] = "runs" <=> h'[x] # NoJob
        BY <1>1, <1>2, Names DEF IInv, TypeOK
    <2> QED
        BY <1>2, <1>3, <1>5, <2>1 DEF IInv, TypeOK
<1>9. WorkerInv'
    BY DEF IInv, WorkerInv
<1> QED
    BY <1>4, <1>5, <1>6, <1>7, <1>8, <1>9 DEF IInv

LEMMA DispatchBlockedKeeps ==
    ASSUME IInv, NEW w \in Workers, DispatchBlocked(w)
    PROVE  IInv'
<1> USE DEF DispatchBlocked
<1> DEFINE j == h[w]
<1>1. j \in Jobs /\ state[j] = "ready" /\ w \in Threads
    BY Running
<1>2. next \in Jobs /\ state[next] = "new"
    BY NextJob DEF Create
<1>3. /\ state'[next] = "blocked" /\ \A i \in Jobs : i # next => state'[i] = state[i]
      /\ state' \in [Jobs -> {"new", "ready", "blocked", "awaits", "barrier", "done"}]
    BY <1>2 DEF IInv, TypeOK
<1>4. HandleInv'
    <2>1. \A i \in Jobs : state'[i] = "ready" <=> state[i] = "ready"
        BY <1>2, <1>3
    <2>2. \A i \in Jobs : i \in barrier_queue' <=> state'[i] = "barrier"
        BY <1>2, <1>3 DEF IInv, HandleInv
    <2> HIDE DEF DispatchBlocked
    <2>3. queue' = queue /\ h' = h
        BY DEF DispatchBlocked
    <2> QED
        BY <2>1, <2>2, <2>3 DEF IInv, HandleInv
<1>5. /\ RefsInv'
      /\ rooted \subseteq rooted' /\ (j \notin rooted => rooted' = rooted)
      /\ rooted' \subseteq Jobs /\ freed' = freed
      /\ uses' \in [Jobs -> Nat] /\ parent' \in [Jobs -> Jobs \cup {NoJob}]
      /\ creator' \in [Jobs -> Jobs \cup {NoJob}] /\ next' \in 1..(NumJobs + 1)
    BY <1>1, <1>3, RefsNext
<1>6. JobInv'
    BY <1>1, <1>3, JobsNext
<1>7. MainInv'
    <2>1. \A i \in rooted : state[i] = "done" => state'[i] = "done"
        BY <1>2, <1>3 DEF IInv, TypeOK
    <2> QED
        BY <1>1, <1>5, <2>1, MainWaits
<1>8. TypeOK' /\ WorkerInv'
    BY <1>3, <1>5 DEF IInv, TypeOK, WorkerInv
<1> QED
    BY <1>4, <1>5, <1>6, <1>7, <1>8 DEF IInv

\* The job on a worker waits, and the worker goes on without it.
LEMMA Waits ==
    ASSUME IInv, NEW w \in Workers, Runs(w), NEW s \in {"awaits", "barrier"},
           state' = [state EXCEPT ![h[w]] = s], h' = [h EXCEPT ![w] = NoJob],
           barrier_queue' = barrier_queue \cup {i \in {h[w]} : s = "barrier"},
           wpc' = [wpc EXCEPT ![w] = "loop"],
           UNCHANGED <<core, queue, tries, creator, next, frameVars, mainVars>>,
           awaits' \in [Jobs -> Jobs \cup {NoJob}],
           s = "awaits" => awaits'[h[w]] \in Jobs /\ creator[awaits'[h[w]]] = h[w],
           \A i \in Jobs : i # h[w] => awaits'[i] = awaits[i]
    PROVE  IInv'
<1> DEFINE j == h[w]
<1>1. j \in Jobs /\ state[j] = "ready" /\ w \in Threads /\ wpc[w] = "runs"
    BY Running
<1>2. state'[j] = s /\ \A i \in Jobs : i # j => state'[i] = state[i]
    BY <1>1 DEF IInv, TypeOK
<1>3. HandleInv'
    <2>1. \A i \in Jobs : state'[i] = "ready"
            <=> i \in {} \/ i = NoJob \/ (state[i] = "ready" /\ i # j)
        BY <1>1, <1>2, Names
    <2>2. \A i \in Jobs : i \in barrier_queue' <=> state'[i] = "barrier"
        BY <1>1, <1>2 DEF IInv, HandleInv
    <2>3. \A u \in Threads : NoneTwice(queue'[u]) /\ In(queue'[u]) = In(queue[u])
        BY Facts
    <2>4. NoJob \notin Jobs
        BY Names
    <2>5. In(queue'[w]) = In(queue[w]) \cup {}
        BY <1>1, <2>3
    <2>6. Move(w, w, {}, NoJob)
        BY <2>1, <2>2, <2>3, <2>4, <2>5 DEF Move
    <2> QED
        BY <1>1, <2>6, Moved
<1>4. TypeOK'
    <2>1. \A x \in Workers : wpc'[x] = "runs" <=> h'[x] # NoJob
        BY <1>1 DEF IInv, TypeOK
    <2> QED
        BY <1>1, <2>1 DEF IInv, TypeOK
<1>5. JobInv'
    <2>1. \A i \in Jobs : state'[i] = "awaits" => awaits'[i] \in Jobs
        /\ creator[awaits'[i]] = i
        BY <1>2 DEF IInv, JobInv
    <2> QED
        BY <1>1, <1>2, <2>1, JobsKnown
<1>6. MainInv' /\ RefsInv'
    BY <1>1, <1>2, MainWaits, RefsStay DEF IInv, TypeOK
<1>7. WorkerInv'
    BY <1>1 DEF IInv, WorkerInv, TypeOK
<1> QED
    BY <1>3, <1>4, <1>5, <1>6, <1>7 DEF IInv

LEMMA AwaitKeeps ==
    ASSUME IInv, NEW w \in Workers, NEW c \in Jobs, Await(w, c)
    PROVE  IInv'
<1>1. h[w] \in Jobs
    BY Running DEF Await
<1>2. /\ awaits' \in [Jobs -> Jobs \cup {NoJob}] /\ awaits'[h[w]] = c
      /\ \A i \in Jobs : i # h[w] => awaits'[i] = awaits[i]
    BY <1>1 DEF Await, IInv, TypeOK
<1> DEFINE s == "awaits"
<1>3. s \in {"awaits", "barrier"}
    OBVIOUS
<1>4. barrier_queue' = barrier_queue \cup {i \in {h[w]} : s = "barrier"}
    BY DEF Await
<1> QED
    BY <1>2, <1>3, <1>4, Waits DEF Await

LEMMA EnterBarrierKeeps ==
    ASSUME IInv, NEW w \in Workers, EnterBarrier(w)
    PROVE  IInv'
<1> DEFINE s == "barrier"
<1>1. barrier_queue' = barrier_queue \cup {i \in {h[w]} : s = "barrier"}
    BY DEF EnterBarrier
<1>2. awaits' = awaits /\ awaits' \in [Jobs -> Jobs \cup {NoJob}]
    BY DEF EnterBarrier, IInv, TypeOK
<1>3. s \in {"awaits", "barrier"} /\ s # "awaits"
    OBVIOUS
<1> HIDE DEF s
<1> QED
    BY <1>1, <1>2, <1>3, Waits DEF EnterBarrier, s

\* The end of a job: whom it wakes and who awaits it.
Woken(j) == {b \in Jobs : state[b] = "blocked" /\ Holders(b) = {j}}
Awaiting(j) == {p \in Jobs : state[p] = "awaits" /\ awaits[p] = j}

\* There is at most one of each: the older of two blocked siblings holds the
\* younger, and only its creator awaits a job.
LEMMA OneEach ==
    ASSUME IInv, NEW j \in Jobs, state[j] = "ready"
    PROVE  /\ \A b, c \in Woken(j) : b = c
           /\ \A p, q \in Awaiting(j) : p = q
           /\ j \notin Woken(j) /\ j \notin Awaiting(j)
           /\ \A b \in Woken(j) : b \notin Awaiting(j)
<1>1. ASSUME NEW b \in Woken(j), NEW c \in Woken(j), b < c
      PROVE  FALSE
    <2>1. j \in Holders(b) /\ j \in Holders(c) /\ b \in Jobs /\ c \in Jobs
        BY DEF Woken
    <2>2. creator[b] = creator[c]
        BY <2>1 DEF Holders
    <2>3. b \in Holders(c)
        BY <1>1, <2>1, <2>2 DEF Woken, Holders
    <2> QED
        BY <2>3 DEF Woken
<1>2. \A b, c \in Woken(j) : b = c
    <2>1. \A b \in Woken(j) : b \in Nat
        BY Names DEF Woken
    <2>2. \A b, c \in Woken(j) : b < c \/ c < b \/ b = c
        BY <2>1
    <2> QED
        BY <1>1, <2>2
<1>3. \A p \in Awaiting(j) : creator[j] = p
    BY DEF Awaiting, IInv, JobInv
<1> QED
    BY <1>2, <1>3 DEF Woken, Awaiting

\* What the end of the job on w changes, in the words of a Move.
LEMMA EndEffect ==
    ASSUME IInv, NEW w \in Workers, End(w)
    PROVE  \E g \in Jobs \cup {NoJob} :
              /\ g = NoJob <=> Awaiting(h[w]) = {}
              /\ g \in Jobs => Awaiting(h[w]) = {g}
              /\ h' = [h EXCEPT ![w] = g]
              /\ wpc' = IF g = NoJob THEN [wpc EXCEPT ![w] = "loop"] ELSE wpc
<1>1. Runs(w) /\ h[w] \in Jobs /\ state[h[w]] = "ready"
    BY Running DEF End
<1>2. Awaiting(h[w]) = {p \in Jobs : state[p] = "awaits" /\ awaits[p] = h[w]}
    BY DEF Awaiting
<1>3. \/ /\ Awaiting(h[w]) = {}
         /\ h' = [h EXCEPT ![w] = NoJob]
         /\ wpc' = [wpc EXCEPT ![w] = "loop"]
      \/ \E p \in Awaiting(h[w]) : h' = [h EXCEPT ![w] = p] /\ UNCHANGED wpc
    BY <1>2 DEF End
<1>4. CASE /\ Awaiting(h[w]) = {}
           /\ h' = [h EXCEPT ![w] = NoJob]
           /\ wpc' = [wpc EXCEPT ![w] = "loop"]
    BY <1>4, Names
<1>5. ASSUME NEW p \in Awaiting(h[w]), h' = [h EXCEPT ![w] = p], UNCHANGED wpc
      PROVE  \E g \in Jobs \cup {NoJob} :
              /\ g = NoJob <=> Awaiting(h[w]) = {}
              /\ g \in Jobs => Awaiting(h[w]) = {g}
              /\ h' = [h EXCEPT ![w] = g]
              /\ wpc' = IF g = NoJob THEN [wpc EXCEPT ![w] = "loop"] ELSE wpc
    <2>1. p \in Jobs /\ Awaiting(h[w]) = {p}
        BY <1>1, OneEach DEF Awaiting
    <2> QED
        BY <1>5, <2>1, Names
<1> QED
    BY <1>3, <1>4, <1>5

LEMMA EndKeeps ==
    ASSUME IInv, NEW w \in Workers, End(w)
    PROVE  IInv'
<1> DEFINE j == h[w]
           W == Woken(j)
           C == Awaiting(j)
<1>1. j \in Jobs /\ state[j] = "ready" /\ wpc[w] = "runs" /\ w \in Threads
    BY Running DEF End
<1>2. /\ \A b, c \in W : b = c
      /\ \A p, q \in C : p = q
      /\ j \notin W /\ j \notin C /\ \A b \in W : b \notin C
    BY <1>1, OneEach
<1>3. /\ \A b \in W : b \in Jobs /\ state[b] = "blocked"
      /\ \A p \in C : p \in Jobs /\ state[p] = "awaits"
    BY DEF Woken, Awaiting
<1>4. /\ state' = [i \in Jobs |-> IF i = j THEN "done"
          ELSE IF i \in W \cup C THEN "ready" ELSE state[i]]
      /\ awaits' = [i \in Jobs |-> IF i \in C THEN NoJob ELSE awaits[i]]
      /\ (W = {} /\ UNCHANGED queue) \/ \E b \in W : AddTask(w, b)
      /\ uses' = [uses EXCEPT ![j] = @ - 1]
      /\ UNCHANGED <<core, barrier_queue, tries, creator, next, parent, freed, rooted,
                     mainVars>>
    BY DEF End, Woken, Awaiting
<1>5. PICK g \in Jobs \cup {NoJob} :
              /\ g = NoJob <=> C = {}
              /\ g \in Jobs => C = {g}
              /\ h' = [h EXCEPT ![w] = g]
              /\ wpc' = IF g = NoJob THEN [wpc EXCEPT ![w] = "loop"] ELSE wpc
    BY EndEffect
<1>6. /\ state'[j] = "done"
      /\ \A i \in Jobs : i # j /\ i \in W \cup C => state'[i] = "ready"
      /\ \A i \in Jobs : i # j /\ i \notin W \cup C => state'[i] = state[i]
    BY <1>1, <1>4
<1>7. /\ queue' \in [Threads -> Seq(Jobs)]
      /\ \A u \in Threads : NoneTwice(queue'[u])
      /\ In(queue'[w]) = In(queue[w]) \cup W
      /\ \A u \in Threads : u # w => In(queue'[u]) = In(queue[u])
    <2>1. CASE W = {} /\ UNCHANGED queue
        BY <2>1, Facts DEF IInv, TypeOK
    <2>2. ASSUME NEW b \in W, AddTask(w, b)
          PROVE  /\ queue' \in [Threads -> Seq(Jobs)]
                 /\ \A u \in Threads : NoneTwice(queue'[u])
                 /\ In(queue'[w]) = In(queue[w]) \cup W
                 /\ \A u \in Threads : u # w => In(queue'[u]) = In(queue[u])
        <3>1. W = {b}
            BY <1>2
        <3>2. b \in Jobs /\ b \notin In(queue[w])
            BY <1>1, <1>3, Facts
        <3> QED
            BY <1>1, <2>2, <3>1, <3>2, Added
    <2> QED
        BY <1>4, <2>1, <2>2
<1> HIDE DEF W, C
<1>8. HandleInv'
    <2>1. \A i \in Jobs : i \in C <=> i = g
        BY <1>5, Names
    <2>2. \A i \in Jobs : state'[i] = "ready"
            <=> i \in W \/ i = g \/ (state[i] = "ready" /\ i # j)
        BY <1>2, <1>6, <2>1
    <2>3. \A i \in Jobs : i \in barrier_queue' <=> state'[i] = "barrier"
        BY <1>1, <1>3, <1>4, <1>6 DEF IInv, HandleInv
    <2>4. /\ g \notin W /\ (g \in Jobs => state[g] # "ready")
          /\ \A i \in W : state[i] # "ready"
        BY <1>2, <1>3, <2>1, Names
    <2>5. Move(w, w, W, g)
        BY <1>5, <1>7, <2>2, <2>3, <2>4 DEF Move
    <2>6. W \in SUBSET Jobs
        BY <1>3
    <2> QED
        BY <1>1, <2>5, <2>6, Moved
<1>13. RefsInv' /\ uses' \in [Jobs -> Nat]
    <2> PICK k \in Jobs : k = j
        BY <1>1
    <2>1. /\ Own(k) = 1 /\ Own(k)' = 0
          /\ \A i \in Jobs : i # k => Own(i)' = Own(i)
          /\ \A i \in Jobs : Outside(i)' = Outside(i) /\ Kids(i)' = Kids(i)
        <3>1. \A i \in Jobs : Outside(i)' = Outside(i) /\ Kids(i)' = Kids(i)
            BY <1>4 DEF Outside, Kids
        <3>2. Own(k) = 1 /\ Own(k)' = 0
            BY <1>1, <1>6 DEF Own
        <3>3. ASSUME NEW i \in Jobs, i # k
              PROVE  Own(i)' = Own(i)
            <4>1. \/ state'[i] = state[i]
                  \/ state'[i] = "ready" /\ state[i] \in {"blocked", "awaits"}
                BY <1>3, <1>6, <3>3
            <4> QED
                BY <4>1 DEF Own
        <3> QED
            BY <3>1, <3>2, <3>3
    <2>2. uses[k] - 1 \in Nat
        BY <1>1, <2>1, Counted
    <2>3. /\ uses'[k] = uses[k] - 1 /\ \A i \in Jobs : i # k => uses'[i] = uses[i]
          /\ uses' \in [Jobs -> Nat]
        BY <1>1, <1>4, <2>2 DEF IInv, TypeOK
    <2>4. \A i \in Jobs : uses'[i] = Own(i)' + Outside(i)' + Cardinality(Kids(i)')
        <3> TAKE i \in Jobs
        <3>1. CASE i = k
            BY <2>1, <2>3, <3>1, Counted
        <3>2. CASE i # k
            BY <2>1, <2>3, <3>2, Counted
        <3> QED
            BY <3>1, <3>2
    <2>5. \A i \in freed : state'[i] = "done" /\ uses'[i] = 0
        BY <1>1, <1>3, <1>6, <2>3, Framed
    <2>6. \A i \in rooted : state'[i] # "new"
        BY <1>6, Framed
    <2>7. /\ \A i \in Jobs : parent'[i] # NoJob => parent'[i] = creator'[i]
          /\ \A i \in rooted' : i # 1 => creator'[i] \in rooted' /\ parent'[i] = creator'[i]
        BY <1>4, Framed
    <2>8. freed' = freed /\ rooted' = rooted
        BY <1>4
    <2> QED
        BY <2>3, <2>4, <2>5, <2>6, <2>7, <2>8 DEF RefsInv
<1>9. TypeOK'
    <2>1. \A x \in Workers : wpc'[x] = "runs" <=> h'[x] # NoJob
        BY <1>1, <1>5 DEF IInv, TypeOK
    <2>2. state' \in [Jobs -> {"new", "ready", "blocked", "awaits", "barrier", "done"}]
          /\ awaits' \in [Jobs -> Jobs \cup {NoJob}]
        BY <1>4 DEF IInv, TypeOK
    <2>3. h' \in [Workers -> Jobs \cup {NoJob}]
          /\ wpc' \in [Workers -> {"none", "pins", "loop", "pop", "steal", "barriers",
              "runs", "exited"}]
        BY <1>5 DEF IInv, TypeOK
    <2> QED
        BY <1>4, <1>7, <1>13, <2>1, <2>2, <2>3 DEF IInv, TypeOK
<1>10. JobInv'
    <2>1. /\ \A i \in Jobs : state'[i] = "new" <=> state[i] = "new"
          /\ \A i \in Jobs : state'[i] = "blocked" => state[i] = "blocked"
        BY <1>1, <1>3, <1>6
    <2>2. ASSUME NEW i \in Jobs, state'[i] = "awaits"
          PROVE  awaits'[i] \in Jobs /\ creator[awaits'[i]] = i
        <3>1. i \notin C /\ state[i] = "awaits"
            BY <1>6, <2>2
        <3>2. awaits'[i] = awaits[i]
            BY <1>4, <3>1
        <3> QED
            BY <3>1, <3>2 DEF IInv, JobInv
    <2> QED
        BY <1>4, <2>1, <2>2, JobsKnown
<1>11. MainInv'
    <2>1. \A i \in rooted : state[i] = "done" => state'[i] = "done"
        BY <1>3, <1>6 DEF IInv, TypeOK
    <2> QED
        BY <1>1, <1>4, <2>1, MainWaits
<1>12. WorkerInv'
    <2>1. \A x \in Workers : wpc'[x] = wpc[x] \/ (x = w /\ wpc'[x] = "loop")
        BY <1>5 DEF IInv, TypeOK
    <2> QED
        BY <1>1, <1>4, <2>1 DEF IInv, WorkerInv
<1> QED
    BY <1>8, <1>9, <1>10, <1>11, <1>12, <1>13 DEF IInv

LEMMA FreeKeeps ==
    ASSUME IInv, NEW j \in Jobs, Free(j)
    PROVE  IInv'
<1> DEFINE p == parent[j]
<1>1. /\ state[j] = "done" /\ uses[j] = 0 /\ j \notin freed /\ freed' = freed \cup {j}
      /\ uses' = IF p = NoJob THEN uses ELSE [uses EXCEPT ![p] = @ - 1]
      /\ UNCHANGED <<queue, barrier_queue, wpc, h, tries, core, jobVars, parent, rooted,
                     mainVars>>
    BY DEF Free
<1>2. p \in Jobs \cup {NoJob} /\ (p # NoJob => p < j)
    BY DEF IInv, TypeOK, RefsInv, JobInv
<1>3. \A i \in Jobs : /\ Own(i)' = Own(i) /\ Outside(i)' = Outside(i)
                      /\ i # p => Kids(i)' = Kids(i) /\ uses'[i] = uses[i]
                      /\ i = p => /\ j \in Kids(i) /\ Kids(i)' = Kids(i) \ {j}
                                  /\ uses'[i] = uses[i] - 1
    <2>1. \A i \in Jobs : Own(i)' = Own(i) /\ Outside(i)' = Outside(i)
        BY <1>1 DEF Own, Outside
    <2>2. \A i \in Jobs : /\ i # p => Kids(i)' = Kids(i)
                          /\ i = p => j \in Kids(i) /\ Kids(i)' = Kids(i) \ {j}
        BY <1>1 DEF Kids
    <2>3. \A i \in Jobs : /\ i # p => uses'[i] = uses[i]
                          /\ i = p => uses'[i] = uses[i] - 1
        BY <1>1, <1>2, Names DEF IInv, TypeOK
    <2> QED
        BY <2>1, <2>2, <2>3
<1>4. \A i \in Jobs : /\ uses'[i] = Own(i)' + Outside(i)' + Cardinality(Kids(i)')
                      /\ uses'[i] \in Nat
    <2> TAKE i \in Jobs
    <2>1. CASE i # p
        BY <1>3, <2>1, Counted
    <2>2. CASE i = p
        <3>1. Cardinality(Kids(i)') = Cardinality(Kids(i)) - 1 /\ uses[i] > 0
            BY <1>3, <2>2, Counted, JobSets
        <3> QED
            BY <1>3, <2>2, <3>1, Counted
    <2> QED
        BY <2>1, <2>2
<1>5. uses' \in [Jobs -> Nat]
    <2>1. DOMAIN uses' = Jobs /\ uses' = [i \in DOMAIN uses' |-> uses'[i]]
        BY <1>1 DEF IInv, TypeOK
    <2> QED
        BY <1>4, <2>1
<1>6. \A i \in freed' : state'[i] = "done" /\ uses'[i] = 0
    <2>1. \A i \in freed \cup {j} : i \in Jobs /\ state[i] = "done" /\ uses[i] = 0
        BY <1>1 DEF IInv, RefsInv, TypeOK
    <2>2. \A i \in freed \cup {j} : i # p
        BY <1>3, <2>1, Counted
    <2> QED
        BY <1>1, <1>3, <2>1, <2>2
<1>7. RefsInv'
    BY <1>1, <1>4, <1>6 DEF IInv, RefsInv
<1>8. HandleInv' /\ JobInv' /\ MainInv'
    BY <1>1, HandlesStay, JobsStay, MainStays DEF IInv
<1>9. TypeOK' /\ WorkerInv'
    BY <1>1, <1>5 DEF IInv, TypeOK, WorkerInv
<1> QED
    BY <1>7, <1>8, <1>9 DEF IInv

-----------------------------------------------------------------------------
(* Invariance.                                                             *)

LEMMA InitHolds == Init => IInv
<1> SUFFICES ASSUME Init PROVE IInv
    OBVIOUS
<1> USE DEF Init
<1>1. TypeOK
    BY SizeAssumption, AttemptsAssumption DEF TypeOK, Jobs, Workers
<1>2. HandleInv
    <2>1. \A t \in Threads : In(queue[t]) = {} /\ NoneTwice(queue[t])
        BY DEF In, NoneTwice
    <2> QED
        BY <2>1, Names DEF HandleInv
<1>3. JobInv
    BY DEF JobInv, Jobs
<1>4. MainInv /\ WorkerInv
    BY SizeAssumption DEF MainInv, WorkerInv, Workers
<1>5. RefsInv
    <2>1. \A j \in Jobs : Own(j) = 0 /\ Outside(j) = 0 /\ Kids(j) = {}
        BY Names DEF Own, Outside, Kids
    <2>2. \A j \in Jobs : uses[j] = 0 /\ parent[j] = NoJob
        OBVIOUS
    <2>3. \A j \in Jobs : uses[j] = Own(j) + Outside(j) + Cardinality(Kids(j))
        <3> HIDE DEF Init
        <3>1. Cardinality({}) = 0
            BY FS_EmptySet
        <3>2. \A j \in Jobs : Cardinality(Kids(j)) = 0
            BY <2>1, <3>1
        <3> QED
            BY <2>1, <2>2, <3>2
    <2>4. freed = {} /\ rooted = {}
        OBVIOUS
    <2> HIDE DEF Init
    <2> QED
        BY <2>2, <2>3, <2>4 DEF RefsInv
<1> QED
    BY <1>1, <1>2, <1>3, <1>4, <1>5 DEF IInv

LEMMA StepKeeps == IInv /\ [Next]_vars => IInv'
<1> SUFFICES ASSUME IInv, [Next]_vars PROVE IInv'
    OBVIOUS
<1>1. CASE MainStep
    BY <1>1, RefuseKeeps, StartThreadKeeps, CreateInitKeeps, LeaveKeeps, StopThreadKeeps,
       JoinThreadKeeps DEF MainStep
<1>2. ASSUME NEW w \in Workers, Work(w)
      PROVE  IInv'
    BY <1>2, PinKeeps, LoopKeeps, PopKeeps, StealNothingKeeps, BarriersKeeps,
       DispatchReadyKeeps, DispatchSyncKeeps, DispatchBlockedKeeps, EnterBarrierKeeps,
       EndKeeps, AwaitKeeps DEF Work
<1>3. ASSUME NEW w \in Workers, NEW victim \in Workers, Steal(w, victim)
      PROVE  IInv'
    BY <1>3, StealKeeps
<1>4. CASE UNCHANGED vars
    <2>1. HandleInv' /\ JobInv' /\ RefsInv' /\ MainInv'
        BY <1>4, HandlesStay, JobsStay, RefsStay, MainStays DEF IInv
    <2> QED
        BY <1>4, <2>1 DEF IInv, TypeOK, WorkerInv
<1>5. ASSUME NEW j \in Jobs, Free(j)
      PROVE  IInv'
    BY <1>5, FreeKeeps
<1> QED
    BY <1>1, <1>2, <1>3, <1>4, <1>5 DEF Next, Terminated

\* The invariant holds throughout, for any number of workers, jobs and attempts.
THEOREM Invariance == Spec => []IInv
<1>1. Init => IInv
    BY InitHolds
<1>2. IInv /\ [Next]_vars => IInv'
    BY StepKeeps
<1> QED
    BY <1>1, <1>2, PTL DEF Spec

\* A worker holds a handle just while it runs a job (Worker of ThreadPool.hpp).
THEOREM TypeCorrect == Spec => []TypeOK
<1>1. IInv => TypeOK
    BY DEF IInv
<1> QED
    BY <1>1, Invariance, PTL

\* Entries of a deque that holds nothing twice are no more than the jobs.
LEMMA Short ==
    ASSUME NEW q \in Seq(Jobs), NoneTwice(q)
    PROVE  Len(q) <= NumJobs
<1> SUFFICES ASSUME Len(q) > NumJobs PROVE FALSE
    BY SizeAssumption
<1>1. /\ IsFiniteSet(1..NumJobs) /\ Cardinality(1..NumJobs) = NumJobs
      /\ IsFiniteSet(1..Len(q)) /\ Cardinality(1..Len(q)) = Len(q)
    <2>1. NumJobs \in Nat /\ Len(q) \in Nat /\ 1 <= NumJobs /\ 1 <= Len(q)
        BY SizeAssumption
    <2> QED
        BY <2>1, FS_Interval
<1>2. q \in [1..Len(q) -> 1..NumJobs]
    <2>1. q = [i \in 1..Len(q) |-> q[i]] /\ \A i \in 1..Len(q) : q[i] \in Jobs
        OBVIOUS
    <2> QED
        BY <2>1, Zenon DEF Jobs
<1>3. \E i, k \in 1..Len(q) : i # k /\ q[i] = q[k]
    BY <1>1, <1>2, FS_PigeonHole
<1> QED
    BY <1>3 DEF NoneTwice

\* A coroutine that can go on is in one deque entry or on one worker, one that
\* waits is in none: no resumption is lost and none happens twice, wherever the
\* handle is pushed, popped or stolen (ThreadPool.hpp, Task.hpp).
THEOREM HandleInOnePlaceHolds == Spec => []HandleInOnePlace
<1>1. IInv => HandleInOnePlace
    <2> SUFFICES ASSUME IInv, NEW j \in Jobs
                 PROVE  /\ Cardinality(Entries(j)) + Cardinality({w \in Workers : h[w] = j})
                              = IF state[j] = "ready" THEN 1 ELSE 0
                        /\ j \in barrier_queue <=> state[j] = "barrier"
        BY DEF HandleInOnePlace
    <2> DEFINE E == Entries(j)
               H == {w \in Workers : h[w] = j}
    <2>1. ASSUME NEW t \in Threads, NEW i \in DOMAIN queue[t]
          PROVE  i \in 1..(NumJobs + 1) /\ i <= Len(queue[t])
        BY Facts, Short, SizeAssumption
    <2>2. \A e \in E : /\ e = <<e[1], e[2]>> /\ e[1] \in Threads
        /\ e[2] \in DOMAIN queue[e[1]]
                       /\ queue[e[1]][e[2]] = j
        BY Facts DEF Entries
    <2>3. \A t \in Threads : \A i \in DOMAIN queue[t] : queue[t][i] = j => <<t, i>> \in E
        BY <2>1 DEF Entries
    <2> HIDE DEF E
    <2>4. \A d, e \in E : d = e
        <3> SUFFICES ASSUME NEW d \in E, NEW e \in E PROVE d = e
            OBVIOUS
        <3>1. j \in In(queue[d[1]]) /\ j \in In(queue[e[1]])
            BY <2>2 DEF In
        <3>2. d[1] = e[1]
            BY <2>2, <3>1 DEF IInv, HandleInv
        <3>3. d[2] = e[2]
            BY <2>2, <3>2, Facts DEF NoneTwice
        <3> QED
            BY <2>2, <3>2, <3>3
    <2>5. \A v, w \in H : v = w
        BY Names DEF IInv, HandleInv
    <2>6. \A e \in E, w \in H : FALSE
        BY <2>2 DEF IInv, HandleInv, In
    <2>7. E # {} \/ H # {} <=> state[j] = "ready"
        <3>1. \A e \in E : e[1] \in Threads /\ j \in In(queue[e[1]])
            BY <2>2 DEF In
        <3>2. \A t \in Threads : j \in In(queue[t]) => E # {}
            BY <2>3 DEF In
        <3>3. E # {} <=> \E t \in Threads : j \in In(queue[t])
            BY <3>1, <3>2
        <3> QED
            BY <3>3 DEF IInv, HandleInv
    <2>8. (E = {} \/ \E e : E = {e}) /\ (H = {} \/ \E w : H = {w})
        BY <2>4, <2>5
    <2>9. Cardinality({}) = 0 /\ \A e : Cardinality({e}) = 1
        BY FS_EmptySet, FS_Singleton
    <2>10. Cardinality(E) + Cardinality(H) = IF state[j] = "ready" THEN 1 ELSE 0
        <3> HIDE DEF H
        <3>1. CASE E = {} /\ H = {}
            BY <2>7, <2>9, <3>1
        <3>2. CASE E # {} /\ H = {}
            <4>1. Cardinality(E) = 1 /\ Cardinality(H) = 0
                BY <2>8, <2>9, <3>2
            <4> QED
                BY <2>7, <3>2, <4>1
        <3>3. CASE E = {} /\ H # {}
            <4>1. Cardinality(E) = 0 /\ Cardinality(H) = 1
                BY <2>8, <2>9, <3>3
            <4> QED
                BY <2>7, <3>3, <4>1
        <3> QED
            BY <2>6, <3>1, <3>2, <3>3
    <2> QED
        BY <2>10 DEF IInv, HandleInv, E
<1> QED
    BY <1>1, Invariance, PTL

\* What ~ThreadPool leaves behind when it stops the workers, which do not look at
\* their deques again, counts for nobody up to the init coroutine: the use count
\* that ~InitTask reads (initTask.hpp) covers every job that does.
THEOREM NothingLeftToRunHolds == Spec => []NothingLeftToRun
<1>1. IInv => NothingLeftToRun
    <2> SUFFICES ASSUME IInv, mpc \in {"stops", "joins", "destroyed"}, NEW j \in rooted
                 PROVE  /\ \A t \in Threads : \A i \in DOMAIN queue[t] : queue[t][i] # j
                        /\ j \notin barrier_queue
                        /\ \A w \in Workers : h[w] # j
        BY DEF NothingLeftToRun
    <2>1. j \in Jobs /\ state[j] = "done"
        BY DEF IInv, MainInv, TypeOK
    <2>2. \A t \in Threads : \A i \in DOMAIN queue[t] : queue[t][i] \in In(queue[t])
        BY DEF In
    <2> QED
        BY <2>1, <2>2, Facts DEF IInv, HandleInv
<1> QED
    BY <1>1, Invariance, PTL

\* Workers share no core: pinThreadToCore(idx % num_cores) is idx, since a pool
\* with more workers than the machine has cores is refused (ThreadPool.hpp).
THEOREM OwnCoreHolds == Spec => []OwnCore
<1>1. IInv => OwnCore
    <2> SUFFICES ASSUME IInv, NEW v \in Workers, NEW w \in Workers, v # w, core[v] # NoCore,
                        core[v] = core[w]
                 PROVE  FALSE
        BY DEF OwnCore
    <2>1. core[v] = v - 1 /\ core[w] = w - 1
        BY DEF IInv, WorkerInv
    <2>2. v \in Int /\ w \in Int
        BY SizeAssumption DEF Workers
    <2>3. v - 1 = w - 1
        BY <2>1
    <2> QED
        BY <2>2, <2>3
<1> QED
    BY <1>1, Invariance, PTL

-----------------------------------------------------------------------------
(* Refinement: the jobs live as TaskLife says.                             *)

\* phase and waitsFor of TaskLife.
Phases == [j \in Jobs |-> CASE state[j] = "new" -> "none"
                            [] state[j] = "ready" -> "runs"
                            [] state[j] = "done" -> "gone"
                            [] OTHER -> "waits"]

Events == [j \in Jobs |->
    CASE state[j] = "blocked" -> {b \in 1..(j - 1) : creator[b] = creator[j]} \X {"gone"}
      [] state[j] = "awaits" -> {<<awaits[j], "over">>}
      [] state[j] = "barrier" -> {c \in Jobs : parent[c] = j} \X {"gone"}
      [] OTHER -> {}]

LEMMA Shown ==
    ASSUME NEW j \in Jobs
    PROVE  /\ state[j] = "new" => Phases[j] = "none"
           /\ state[j] = "ready" => Phases[j] = "runs"
           /\ state[j] = "done" => Phases[j] = "gone"
           /\ state[j] \in {"blocked", "awaits", "barrier"} => Phases[j] = "waits"
           /\ state[j] \in {"new", "ready", "done"} => Events[j] = {}
BY DEF Phases, Events

LEMMA ShownNext ==
    ASSUME NEW j \in Jobs
    PROVE  /\ state'[j] = "new" => Phases'[j] = "none"
           /\ state'[j] = "ready" => Phases'[j] = "runs"
           /\ state'[j] = "done" => Phases'[j] = "gone"
           /\ state'[j] \in {"blocked", "awaits", "barrier"} => Phases'[j] = "waits"
           /\ state'[j] \in {"new", "ready", "done"} => Events'[j] = {}
BY DEF Phases, Events

LEMMA WaitsForEvents ==
    ASSUME IInv, NEW j \in Jobs
    PROVE  Events[j] \subseteq Life!Event
<1>1. \A b \in 1..(j - 1) : b \in Jobs
    BY SizeAssumption DEF Jobs
<1>2. state[j] = "awaits" => awaits[j] \in Jobs
    BY DEF IInv, JobInv
<1> QED
    BY <1>1, <1>2 DEF Events, Life!Event

\* What a step does to one job.
Stays(t) == state'[t] = state[t] /\ Events'[t] = Events[t]
Starts(t) == state[t] = "new" /\ state'[t] \in {"ready", "blocked"}
StopsRunning(t) == state[t] = "ready" /\ state'[t] \in {"awaits", "barrier"}
GoesOn(t) ==
    /\ state[t] \in {"blocked", "awaits", "barrier"} /\ state'[t] = "ready"
    /\ \A e \in Events[t] : state'[e[1]] = "done"
Ends(t) == state[t] = "ready" /\ state'[t] = "done"

Lives(t) == Stays(t) \/ Starts(t) \/ StopsRunning(t) \/ GoesOn(t) \/ Ends(t)

LEMMA LifeNext ==
    ASSUME IInv, IInv', \A t \in Jobs : Lives(t)
    PROVE  Life!Next
<1> SUFFICES ASSUME NEW t \in Jobs
             PROVE  \/ Life!Becomes(t, Phases[t], Events[t])
                    \/ Life!Dispatch(t) \/ Life!Suspend(t) \/ Life!GoOn(t) \/ Life!End(t)
    BY Zenon DEF Life!Next, Phases, Events
<1>1. Events[t] \subseteq Life!Event /\ Events'[t] \subseteq Life!Event
    <2>1. Events[t] \subseteq Life!Event
        BY WaitsForEvents
    <2>2. Events'[t] \subseteq Life!Event
        <3>1. \A b \in 1..(t - 1) : b \in Jobs
            BY SizeAssumption DEF Jobs
        <3>2. state'[t] = "awaits" => awaits'[t] \in Jobs
            BY DEF IInv, JobInv
        <3> QED
            BY <3>1, <3>2 DEF Events, Life!Event
    <2> QED
        BY <2>1, <2>2
<1>2. CASE Stays(t)
    <2>1. Phases'[t] = Phases[t] /\ Events'[t] = Events[t]
        BY <1>2 DEF Stays, Phases
    <2> QED
        BY <2>1, Zenon DEF Life!Becomes, Phases, Events
<1>3. CASE Starts(t)
    <2>1. Phases[t] = "none"
        BY <1>3, Shown DEF Starts
    <2>2. CASE state'[t] = "ready"
        <3>1. Phases'[t] = "runs" /\ Events'[t] = {}
            BY <2>2, ShownNext
        <3> QED
            BY <2>1, <3>1, Zenon DEF Life!Dispatch, Life!Becomes, Phases, Events
    <2>3. CASE state'[t] = "blocked"
        <3>1. Phases'[t] = "waits"
            BY <2>3, ShownNext
        <3> QED
            BY <1>1, <2>1, <3>1, Zenon
               DEF Life!Dispatch, Life!WaitsFrom, Life!Becomes, Phases, Events
    <2> QED
        BY <1>3, <2>2, <2>3 DEF Starts
<1>4. CASE StopsRunning(t)
    <2>1. Phases[t] = "runs" /\ Phases'[t] = "waits"
        BY <1>4, Shown, ShownNext DEF StopsRunning
    <2> QED
        BY <1>1, <2>1, Zenon DEF Life!Suspend, Life!WaitsFrom, Life!Becomes, Phases, Events
<1>5. CASE GoesOn(t)
    <2>1. Phases[t] = "waits" /\ Phases'[t] = "runs" /\ Events'[t] = {}
        BY <1>5, Shown, ShownNext DEF GoesOn
    <2>2. \A e \in Events[t] : Phases'[e[1]] = "gone"
        <3>1. \A e \in Events[t] : e[1] \in Jobs
            BY <1>1 DEF Life!Event
        <3> QED
            BY <1>5, <3>1, ShownNext DEF GoesOn
    <2>3. \A e \in Events[t] : Life!Happened(e)'
        BY <2>2 DEF Life!Happened, Phases
    <2> QED
        BY <2>1, <2>3, Zenon DEF Life!GoOn, Life!Becomes, Phases, Events
<1>6. CASE Ends(t)
    <2>1. Phases[t] = "runs" /\ Phases'[t] = "gone" /\ Events'[t] = {}
        BY <1>6, Shown, ShownNext DEF Ends
    <2> QED
        BY <2>1, Zenon DEF Life!End, Life!Becomes, Phases, Events
<1> QED
    BY <1>2, <1>3, <1>4, <1>5, <1>6 DEF Lives

\* A job that keeps its state waits for what it did: a new sibling is younger.
LEMMA Staying ==
    ASSUME IInv, NEW t \in Jobs, state'[t] = state[t], awaits'[t] = awaits[t],
           \A b \in Jobs : creator'[b] = creator[b] \/ b = next,
           \A b \in Jobs : \/ parent'[b] = parent[b]
                           \/ parent[b] = NoJob /\ state[parent'[b]] = "ready"
    PROVE  Stays(t)
<1>1. CASE state[t] = "blocked"
    <2>1. t < next /\ creator[t] \in Jobs /\ t \in Nat /\ next \in Nat
        BY <1>1, Busy, Facts, Names DEF IInv, JobInv, TypeOK
    <2>2. creator'[t] = creator[t] /\ \A b \in 1..(t - 1) : b \in Jobs
        /\ creator'[b] = creator[b]
        BY <2>1, SizeAssumption DEF Jobs
    <2>3. {b \in 1..(t - 1) : creator'[b] = creator'[t]}
              = {b \in 1..(t - 1) : creator[b] = creator[t]}
        BY <2>2
    <2> QED
        BY <1>1, <2>3 DEF Stays, Events
<1>2. CASE state[t] = "awaits"
    BY <1>2 DEF Stays, Events
<1>3. CASE state[t] = "barrier"
    <2>1. \A c \in Jobs : parent'[c] = t <=> parent[c] = t
        BY <1>3, Names
    <2>2. {c \in Jobs : parent'[c] = t} = {c \in Jobs : parent[c] = t}
        BY <2>1
    <2> QED
        BY <1>3, <2>2 DEF Stays, Events
<1>4. CASE state[t] \in {"new", "ready", "done"}
    BY <1>4, Shown, ShownNext DEF Stays
<1> QED
    BY <1>1, <1>2, <1>3, <1>4 DEF IInv, TypeOK

LEMMA JobsRest ==
    ASSUME IInv, UNCHANGED jobVars, UNCHANGED parent
    PROVE  \A t \in Jobs : Lives(t)
BY Staying DEF Lives

LEMMA CreateInitLives ==
    ASSUME IInv, CreateInit
    PROVE  \A t \in Jobs : Lives(t)
<1>1. /\ state' = [state EXCEPT ![1] = "ready"]
      /\ UNCHANGED <<creator, awaits, parent>>
    BY DEF CreateInit
<1>2. state[1] = "new" /\ state'[1] = "ready" /\ \A t \in Jobs : t # 1 =>
          state'[t] = state[t]
    <2>1. next = 1
        BY DEF CreateInit, IInv, MainInv
    <2> QED
        BY <1>1, <2>1, Names DEF IInv, TypeOK, JobInv
<1>3. \A t \in Jobs : t # 1 => Stays(t)
    BY <1>1, <1>2, Staying
<1> QED
    BY <1>2, <1>3 DEF Lives, Starts

LEMMA BarriersLives ==
    ASSUME IInv, NEW w \in Workers, Barriers(w)
    PROVE  \A t \in Jobs : Lives(t)
<1>1. UNCHANGED <<creator, awaits, next, parent>>
    BY DEF Barriers
<1>2. ASSUME NEW j \in barrier_queue, ChildrenDone(j),
          state' = [state EXCEPT ![j] = "ready"]
      PROVE  \A t \in Jobs : Lives(t)
    <2>1. j \in Jobs /\ state[j] = "barrier"
        BY DEF IInv, TypeOK, HandleInv
    <2>2. state'[j] = "ready" /\ \A t \in Jobs : t # j => state'[t] = state[t]
        BY <1>2, <2>1 DEF IInv, TypeOK
    <2>3. \A e \in Events[j] : e[1] \in Jobs /\ parent[e[1]] = j
        BY <2>1 DEF Events
    <2>4. Own(j) = 1 /\ Outside(j) = IF j = 1 THEN 1 ELSE 0
        BY <2>1, Busy DEF Own, Outside, IInv, MainInv
    <2>5. Kids(j) = {}
        BY <1>2, <2>1, <2>4, Counted DEF ChildrenDone
    <2>6. \A c \in Jobs : parent[c] = j => state[c] = "done"
        BY <2>5 DEF Kids, IInv, RefsInv
    <2>7. \A c \in Jobs : parent[c] = j => state'[c] = "done"
        BY <2>1, <2>2, <2>6
    <2>8. GoesOn(j)
        BY <2>1, <2>2, <2>3, <2>7 DEF GoesOn
    <2>9. \A t \in Jobs : t # j => Stays(t)
        BY <1>1, <2>2, Staying
    <2> QED
        BY <2>8, <2>9 DEF Lives
<1>3. CASE state' = state
    BY <1>1, <1>3, JobsRest
<1> QED
    BY <1>2, <1>3 DEF Barriers

\* A job is dispatched, by one that runs and may await it.
LEMMA DispatchLives ==
    ASSUME IInv, NEW w \in Workers, NEW j \in Jobs, j = h[w], Runs(w), Create(j),
           state'[next] \in {"ready", "blocked"},
           \A i \in Jobs : i # next =>
               \/ state'[i] = state[i] /\ awaits'[i] = awaits[i]
               \/ i = j /\ state'[i] = "awaits" /\ awaits'[i] = next
    PROVE  \A t \in Jobs : Lives(t)
<1>1. next \in Jobs /\ state[next] = "new" /\ parent[next] = NoJob /\ state[j] = "ready"
    BY NextJob, Running DEF Create
<1>2. /\ \A t \in Jobs : t # next => creator'[t] = creator[t] /\ parent'[t] = parent[t]
      /\ parent'[next] \in {j, NoJob}
    BY <1>1 DEF Create, IInv, TypeOK
<1>3. \A b \in Jobs : \/ parent'[b] = parent[b]
                      \/ parent[b] = NoJob /\ state[parent'[b]] = "ready"
    BY <1>1, <1>2
<1>4. \A t \in Jobs : t # next /\ state'[t] = state[t] /\ awaits'[t] = awaits[t] => Stays(t)
    BY <1>2, <1>3, Staying
<1> QED
    BY <1>1, <1>4 DEF Lives, Starts, StopsRunning

\* The job on a worker waits.
LEMMA WaitsLives ==
    ASSUME IInv, NEW w \in Workers, Runs(w), NEW s \in {"awaits", "barrier"},
           state' = [state EXCEPT ![h[w]] = s], UNCHANGED <<creator, parent>>,
           \A i \in Jobs : i # h[w] => awaits'[i] = awaits[i]
    PROVE  \A t \in Jobs : Lives(t)
<1>1. h[w] \in Jobs /\ state[h[w]] = "ready"
    BY Running
<1>2. state'[h[w]] = s /\ \A t \in Jobs : t # h[w] => state'[t] = state[t]
    BY <1>1 DEF IInv, TypeOK
<1>3. \A t \in Jobs : t # h[w] => Stays(t)
    BY <1>2, Staying
<1> QED
    BY <1>1, <1>2, <1>3 DEF Lives, StopsRunning

LEMMA EndLives ==
    ASSUME IInv, NEW w \in Workers, End(w)
    PROVE  \A t \in Jobs : Lives(t)
<1> DEFINE j == h[w]
           W == Woken(j)
           C == Awaiting(j)
<1>1. j \in Jobs /\ state[j] = "ready"
    BY Running DEF End
<1>2. /\ state' = [i \in Jobs |-> IF i = j THEN "done"
          ELSE IF i \in W \cup C THEN "ready" ELSE state[i]]
      /\ awaits' = [i \in Jobs |-> IF i \in C THEN NoJob ELSE awaits[i]]
      /\ UNCHANGED <<creator, parent>>
    BY DEF End, Woken, Awaiting
<1>3. j \notin W /\ j \notin C
    BY <1>1, OneEach
<1>4. /\ state'[j] = "done"
      /\ \A i \in Jobs : i \in W \cup C => state'[i] = "ready"
      /\ \A i \in Jobs : i # j /\ i \notin W \cup C => state'[i] = state[i]
          /\ awaits'[i] = awaits[i]
    BY <1>1, <1>2, <1>3
<1>5. Ends(j)
    BY <1>1, <1>4 DEF Ends
<1>6. ASSUME NEW t \in W
      PROVE  t \in Jobs /\ GoesOn(t)
    <2>1. t \in Jobs /\ state[t] = "blocked" /\ Holders(t) = {j}
        BY DEF Woken
    <2>2. \A b \in 1..(t - 1) : b \in Jobs /\ b < t
        BY <2>1, SizeAssumption DEF Jobs
    <2>3. ASSUME NEW b \in 1..(t - 1), creator[b] = creator[t]
          PROVE  state'[b] = "done"
        <3>1. b \in Jobs /\ (state[b] = "done" \/ b = j)
            BY <2>1, <2>2, <2>3 DEF Holders
        <3>2. state[b] = "done" => b # j /\ b \notin W \cup C
            BY <1>1 DEF Woken, Awaiting
        <3> QED
            BY <1>4, <3>1, <3>2
    <2>4. \A e \in Events[t] : e[1] \in 1..(t - 1) /\ creator[e[1]] = creator[t]
        BY <2>1 DEF Events
    <2> QED
        BY <1>4, <2>1, <2>3, <2>4 DEF GoesOn
<1>7. ASSUME NEW t \in C
      PROVE  t \in Jobs /\ GoesOn(t)
    <2>1. t \in Jobs /\ state[t] = "awaits" /\ awaits[t] = j
        BY DEF Awaiting
    <2>2. \A e \in Events[t] : e[1] = j
        BY <2>1 DEF Events
    <2> QED
        BY <1>4, <2>1, <2>2 DEF GoesOn
<1>8. \A t \in Jobs : t # j /\ t \notin W \cup C => Stays(t)
    BY <1>2, <1>4, Staying
<1> QED
    BY <1>5, <1>6, <1>7, <1>8 DEF Lives

\* Every step is a step of TaskLife, or changes nothing it shows.
LEMMA NextLives == IInv /\ Next => \A t \in Jobs : Lives(t)
<1> SUFFICES ASSUME IInv, Next PROVE \A t \in Jobs : Lives(t)
    OBVIOUS
<1>1. CASE MainStep
    <2>1. CASE CreateInit
        BY <2>1, CreateInitLives
    <2>2. CASE ~ CreateInit
        <3>1. UNCHANGED jobVars /\ UNCHANGED parent
            BY <1>1, <2>2 DEF MainStep, Refuse, StartThread, Leave, StopThread, JoinThread
        <3> QED
            BY <3>1, JobsRest
    <2> QED
        BY <2>1, <2>2
<1>2. ASSUME NEW w \in Workers, Work(w)
      PROVE  \A t \in Jobs : Lives(t)
    <2>1. CASE Pin(w) \/ Loop(w) \/ Pop(w) \/ StealNothing(w)
        <3>1. UNCHANGED jobVars /\ UNCHANGED parent
            BY <2>1 DEF Pin, Loop, Pop, StealNothing
        <3> QED
            BY <3>1, JobsRest
    <2>2. CASE Barriers(w)
        BY <2>2, BarriersLives
    <2>3. CASE DispatchReady(w) \/ DispatchBlocked(w)
        <3> DEFINE j == h[w]
        <3>1. /\ Runs(w) /\ Create(j) /\ awaits' = awaits
              /\ \/ state' = [state EXCEPT ![next] = "ready"]
                 \/ state' = [state EXCEPT ![next] = "blocked"]
            BY <2>3 DEF DispatchReady, DispatchBlocked
        <3>2. next \in Jobs /\ j \in Jobs
            BY <3>1, NextJob, Running DEF Create
        <3>3. /\ state'[next] \in {"ready", "blocked"}
              /\ \A i \in Jobs : i # next => state'[i] = state[i] /\ awaits'[i] = awaits[i]
            BY <3>1, <3>2 DEF IInv, TypeOK
        <3> QED
            BY <3>1, <3>2, <3>3, DispatchLives
    <2>4. CASE DispatchSync(w)
        <3> DEFINE j == h[w]
        <3>1. /\ Runs(w) /\ Create(j) /\ awaits' = [awaits EXCEPT ![j] = next]
              /\ state' = [state EXCEPT ![next] = "ready", ![j] = "awaits"]
            BY <2>4 DEF DispatchSync
        <3>2. next \in Jobs /\ j \in Jobs /\ state[next] = "new" /\ state[j] = "ready"
            BY <3>1, NextJob, Running DEF Create
        <3>3. /\ state'[next] = "ready" /\ state'[j] = "awaits" /\ awaits'[j] = next
              /\ \A i \in Jobs : i \notin {next, j} =>
                    state'[i] = state[i] /\ awaits'[i] = awaits[i]
            BY <3>1, <3>2 DEF IInv, TypeOK
        <3> QED
            BY <3>1, <3>2, <3>3, DispatchLives
    <2>5. CASE EnterBarrier(w)
        BY <2>5, WaitsLives DEF EnterBarrier
    <2>6. CASE End(w)
        BY <2>6, EndLives
    <2>7. ASSUME NEW c \in Jobs, Await(w, c)
          PROVE  \A t \in Jobs : Lives(t)
        <3>1. \A i \in Jobs : i # h[w] => awaits'[i] = awaits[i]
            BY <2>7 DEF Await, IInv, TypeOK
        <3> QED
            BY <2>7, <3>1, WaitsLives DEF Await
    <2> QED
        BY <1>2, <2>1, <2>2, <2>3, <2>4, <2>5, <2>6, <2>7 DEF Work
<1>3. ASSUME NEW w \in Workers, NEW victim \in Workers, Steal(w, victim)
      PROVE  \A t \in Jobs : Lives(t)
    BY <1>3, JobsRest DEF Steal
<1>4. CASE UNCHANGED vars
    BY <1>4, JobsRest
<1>5. ASSUME NEW j \in Jobs, Free(j)
      PROVE  \A t \in Jobs : Lives(t)
    BY <1>5, JobsRest DEF Free
<1> QED
    BY <1>1, <1>2, <1>3, <1>4, <1>5 DEF Next, Terminated

LEMMA InitLife == Init => Life!Init
<1> SUFFICES ASSUME Init PROVE Life!Init
    OBVIOUS
<1>1. \A j \in Jobs : Phases[j] = "none" /\ Events[j] = {}
    BY Shown DEF Init
<1>2. Phases \in [Jobs -> {"none", "waits"}] /\ Events = [j \in Jobs |-> {}]
    BY <1>1 DEF Phases, Events
<1> QED
    BY <1>2, Zenon DEF Life!Init, Phases, Events

\* A coroutine of the pool is dispatched, runs and waits by turns and ends once;
\* what it waits for has happened when its handle is pushed or it is resumed.
THEOREM LifeRefinement == Spec => ImplementsLife
<1>1. Init => Life!Init
    BY InitLife
<1>2. IInv /\ IInv' /\ [Next]_vars => Life!Next
    <2> SUFFICES ASSUME IInv, IInv', [Next]_vars PROVE Life!Next
        OBVIOUS
    <2>1. \A t \in Jobs : Lives(t)
        BY NextLives, JobsRest
    <2> QED
        BY <2>1, LifeNext
<1> QED
    BY <1>1, <1>2, Invariance, PTL DEF Spec, Life!Spec, ImplementsLife
=============================================================================
