-------------------------------- MODULE Pool --------------------------------
(***************************************************************************)
(* The thread pool of ThreadPool.hpp: its construction, the loop of its    *)
(* workers and its destruction.  Every thread has a deque of its own       *)
(* (thread_queue_p; the main thread has master_queue), whose operations    *)
(* take effect at once, as WorkDeque promises and Deque implements.  The   *)
(* coroutines that run on the workers are jobs: a job may dispatch another *)
(* (which runs at once while its own continuation is pushed, or is blocked *)
(* and pushed later by a job that ends), await one, or wait in the barrier *)
(* queue for all that count.  Of the frames only what the main thread and  *)
(* the barrier queue read is here: a job that was dispatched by name holds *)
(* the frame of its creator, one through a temporary does not.             *)
(***************************************************************************)
EXTENDS Naturals, Sequences, FiniteSets

CONSTANTS
    NumWorkers,  \* size of the pool
    NumJobs,     \* bound: coroutines of the program; job 1 is the init task
    Attempts,    \* randomStealAttempts (64 in the code)
    Counting     \* may dispatches count for their creator, and may they not?

Workers == 1..NumWorkers
Main    == 0
Threads == Workers \cup {Main}
Jobs    == 1..NumJobs
NoJob   == 0
NoCore  == NumWorkers

ASSUME SizeAssumption == NumWorkers \in Nat \ {0} /\ NumJobs \in Nat \ {0}
ASSUME AttemptsAssumption == Attempts \in Nat \ {0}
ASSUME CountingAssumption == Counting \subseteq BOOLEAN

VARIABLES
    queue,          \* the deque of every thread, the oldest entry first
    barrier_queue,
    wpc, h, tries,  \* the workers: where each is, the handle it holds, attempts
    state,          \* the jobs: "new", "ready", "blocked", "awaits", "barrier", "done"
    creator,        \* which job dispatched it
    awaits,         \* which job it awaits
    next,           \* the next job dispatched
    parent,         \* the job whose frame it holds
    uses,           \* sharedOwnerCounter, without the handles of the creators
    freed,          \* the jobs whose frames are gone
    rooted,         \* history: the jobs that count for the init coroutine, down a
                    \* line of jobs each of which holds the frame of its creator
    stop,           \* the stop state of every jthread
    num_cores,      \* the cores of the machine
    core,           \* the one a worker is pinned to
    mpc, mi         \* the main thread, and the thread it starts, stops or joins

jobVars == <<state, creator, awaits, next>>
frameVars == <<parent, uses, freed, rooted>>
mainVars == <<stop, num_cores, mpc, mi>>
vars == <<queue, barrier_queue, wpc, h, tries, core, jobVars, frameVars, mainVars>>

-----------------------------------------------------------------------------
Init ==
    /\ queue = [t \in Threads |-> <<>>]
    /\ barrier_queue = {}
    /\ wpc = [w \in Workers |-> "none"]
    /\ h = [w \in Workers |-> NoJob]
    /\ tries = [w \in Workers |-> 0]
    /\ state = [j \in Jobs |-> "new"]
    /\ creator = [j \in Jobs |-> NoJob]
    /\ awaits = [j \in Jobs |-> NoJob]
    /\ next = 1
    /\ parent = [j \in Jobs |-> NoJob]
    /\ uses = [j \in Jobs |-> 0]
    /\ freed = {} /\ rooted = {}
    /\ stop = [w \in Workers |-> FALSE]
    /\ num_cores \in {NumWorkers - 1, NumWorkers}
    /\ core = [w \in Workers |-> NoCore]
    /\ mpc = "starts" /\ mi = 1

\* addTask: thread_queue_p is the deque of the thread that calls it.
AddTask(t, j) == queue' = [queue EXCEPT ![t] = Append(@, j)]

-----------------------------------------------------------------------------
(* The main thread.                                                        *)

\* The mutant takes any machine.
AnyMachine == FALSE

TooFewCores == num_cores < NumWorkers

\* "Insufficient cores for thread pool size.": there will be no pool.
Refuse ==
    /\ mpc = "starts" /\ TooFewCores
    /\ mpc' = "refused"
    /\ UNCHANGED <<queue, barrier_queue, wpc, h, tries, core, jobVars, frameVars, stop, num_cores, mi>>

\* The constructor starts the workers one by one, after all deques exist.
StartThread ==
    /\ mpc = "starts" /\ ~ TooFewCores
    /\ wpc' = [wpc EXCEPT ![mi] = "pins"]
    /\ IF mi = NumWorkers THEN mpc' = "creates" /\ mi' = 0 ELSE mi' = mi + 1 /\ UNCHANGED mpc
    /\ UNCHANGED <<queue, barrier_queue, h, tries, core, jobVars, frameVars, stop, num_cores>>

\* The init coroutine is created and detached to the pool.  Its frame is held by
\* itself and by the InitTask.
CreateInit ==
    /\ mpc = "creates"
    /\ state' = [state EXCEPT ![1] = "ready"]
    /\ next' = 2
    /\ AddTask(Main, 1)
    /\ uses' = [uses EXCEPT ![1] = 2]
    /\ rooted' = {1}
    /\ mpc' = "waits"
    /\ UNCHANGED <<barrier_queue, wpc, h, tries, core, creator, awaits, parent, freed,
                   stop, num_cores, mi>>

\* The mutant takes the handle of the last child for that of the InitTask.
OthersHoldTwo == uses[1] > 2

OthersHold == uses[1] > 1

\* ~InitTask yields until nobody else holds the frame, and drops it.
Leave ==
    /\ mpc = "waits" /\ ~ OthersHold
    /\ uses' = [uses EXCEPT ![1] = @ - 1]
    /\ mpc' = "stops" /\ mi' = 1
    /\ UNCHANGED <<queue, barrier_queue, wpc, h, tries, core, jobVars, parent, freed,
                   rooted, stop, num_cores>>

\* threads.clear() destroys the jthreads in order: each is told to stop, and
\* joined before the next is told.  (stop_source is connected to none of them.)
StopThread ==
    /\ mpc = "stops"
    /\ stop' = [stop EXCEPT ![mi] = TRUE]
    /\ mpc' = "joins"
    /\ UNCHANGED <<queue, barrier_queue, wpc, h, tries, core, jobVars, frameVars, num_cores, mi>>

JoinThread ==
    /\ mpc = "joins" /\ wpc[mi] = "exited"
    /\ IF mi = NumWorkers THEN mpc' = "destroyed" /\ UNCHANGED mi
       ELSE mpc' = "stops" /\ mi' = mi + 1
    /\ UNCHANGED <<queue, barrier_queue, wpc, h, tries, core, jobVars, frameVars, stop, num_cores>>

-----------------------------------------------------------------------------
(* The loop of a worker.                                                   *)

\* pinThreadToCore(idx % num_cores)
Pin(w) ==
    /\ wpc[w] = "pins"
    /\ core' = [core EXCEPT ![w] = (w - 1) % num_cores]
    /\ wpc' = [wpc EXCEPT ![w] = "loop"]
    /\ UNCHANGED <<queue, barrier_queue, h, tries, jobVars, frameVars, mainVars>>

\* while(!stoken.stop_requested())
Loop(w) ==
    /\ wpc[w] = "loop"
    /\ wpc' = [wpc EXCEPT ![w] = IF stop[w] THEN "exited" ELSE "pop"]
    /\ UNCHANGED <<core, queue, barrier_queue, h, tries, jobVars, frameVars, mainVars>>

\* The newest entry of the worker's own deque.
Pop(w) ==
    /\ wpc[w] = "pop"
    /\ IF queue[w] = <<>>
       THEN /\ wpc' = [wpc EXCEPT ![w] = "steal"]
            /\ UNCHANGED <<queue, h>>
       ELSE /\ h' = [h EXCEPT ![w] = queue[w][Len(queue[w])]]
            /\ queue' = [queue EXCEPT ![w] = SubSeq(@, 1, Len(@) - 1)]
            /\ wpc' = [wpc EXCEPT ![w] = "runs"]
    /\ UNCHANGED <<core, tries, barrier_queue, jobVars, frameVars, mainVars>>

\* The mutant tries only the deques of the workers.
WorkersOnly(w, victim) == victim

\* The deque a draw of `victim' leads to: drawing itself, a worker turns to
\* the master queue.
Victim(w, victim) == IF victim = w THEN Main ELSE victim

\* An attempt takes the oldest entry of another deque,
Steal(w, victim) ==
    /\ wpc[w] = "steal"
    /\ LET v == Victim(w, victim) IN
          /\ queue[v] # <<>>
          /\ h' = [h EXCEPT ![w] = Head(queue[v])]
          /\ queue' = [queue EXCEPT ![v] = Tail(@)]
    /\ wpc' = [wpc EXCEPT ![w] = "runs"]
    /\ tries' = [tries EXCEPT ![w] = 0]
    /\ UNCHANGED <<core, barrier_queue, jobVars, frameVars, mainVars>>

\* or returns nothing: the deque is empty, or another thread was faster.
StealNothing(w) ==
    /\ wpc[w] = "steal"
    /\ IF tries[w] + 1 = Attempts
       THEN /\ wpc' = [wpc EXCEPT ![w] = "barriers"]
            /\ tries' = [tries EXCEPT ![w] = 0]
       ELSE tries' = [tries EXCEPT ![w] = @ + 1] /\ UNCHANGED wpc
    /\ UNCHANGED <<core, queue, h, barrier_queue, jobVars, frameVars, mainVars>>

\* The mutant takes every return object for one that exists.
AsIfOutside(j) == uses[j] <= 2

\* use count - num handles = 1: nobody holds the frame of a job at a barrier but
\* itself and, for the init coroutine, the InitTask.
ChildrenDone(j) == uses[j] = IF j = 1 THEN 2 ELSE 1

\* process_and_extract: the coroutines whose barrier is over are pushed to
\* the deque of this worker, in any order.
Barriers(w) ==
    /\ wpc[w] = "barriers"
    /\ \/ \E j \in barrier_queue :
             /\ ChildrenDone(j)
             /\ barrier_queue' = barrier_queue \ {j}
             /\ AddTask(w, j)
             /\ state' = [state EXCEPT ![j] = "ready"]
             /\ UNCHANGED wpc
       \/ /\ \A j \in barrier_queue : ~ ChildrenDone(j)
          /\ wpc' = [wpc EXCEPT ![w] = "loop"]
          /\ UNCHANGED <<barrier_queue, queue, state>>
    /\ UNCHANGED <<core, h, tries, creator, awaits, next, frameVars, mainVars>>

-----------------------------------------------------------------------------
(* What a job does on its worker.                                          *)

Runs(w) == wpc[w] = "runs"

\* The mutant resumes the new job and leaves its creator to nobody.
KeepsContinuation(w, j) == UNCHANGED queue
\* The mutant pushes it to the deque of no thread.
DropsHandle(w, j) == queue' = [queue EXCEPT ![w] = Append(@, NoJob)]
PushContinuation(w, j) == AddTask(w, j)

\* The next job is made by job p; await_transform gives it the frame of p to
\* hold, if it sees the awaiter.
Create(p) ==
    /\ next <= NumJobs
    /\ next' = next + 1
    /\ creator' = [creator EXCEPT ![next] = p]
    /\ \E counts \in Counting :
          /\ parent' = [parent EXCEPT ![next] = IF counts THEN p ELSE NoJob]
          /\ uses' = [uses EXCEPT ![next] = 1, ![p] = IF counts THEN @ + 1 ELSE @]
          /\ rooted' = IF counts /\ p \in rooted THEN rooted \cup {next} ELSE rooted
    /\ UNCHANGED freed

\* DispatchAwaiter::await_suspend: the continuation is pushed, the new job
\* runs on this worker.
DispatchReady(w) ==
    /\ Runs(w) /\ Create(h[w])
    /\ PushContinuation(w, h[w])
    /\ state' = [state EXCEPT ![next] = "ready"]
    /\ h' = [h EXCEPT ![w] = next]
    /\ UNCHANGED <<core, barrier_queue, wpc, tries, awaits, mainVars>>

\* The synchronous one: the new job runs on this worker, and its end resumes the
\* continuation.  (A blocked one is DispatchBlocked and Await.)
DispatchSync(w) ==
    /\ Runs(w) /\ Create(h[w])
    /\ state' = [state EXCEPT ![next] = "ready", ![h[w]] = "awaits"]
    /\ awaits' = [awaits EXCEPT ![h[w]] = next]
    /\ h' = [h EXCEPT ![w] = next]
    /\ UNCHANGED <<core, queue, barrier_queue, wpc, tries, mainVars>>

\* A task is dispatched that waits for a resource of a job that is not over.
DispatchBlocked(w) ==
    /\ Runs(w) /\ Create(h[w])
    /\ \E b \in Jobs : creator[b] = h[w] /\ state[b] # "done"
    /\ state' = [state EXCEPT ![next] = "blocked"]
    /\ UNCHANGED <<core, queue, barrier_queue, wpc, h, tries, awaits, mainVars>>

\* co_await get() of a job that is not over: the worker returns to its loop.
Await(w, c) ==
    /\ Runs(w) /\ creator[c] = h[w] /\ state[c] # "done"
    /\ state' = [state EXCEPT ![h[w]] = "awaits"]
    /\ awaits' = [awaits EXCEPT ![h[w]] = c]
    /\ h' = [h EXCEPT ![w] = NoJob]
    /\ wpc' = [wpc EXCEPT ![w] = "loop"]
    /\ UNCHANGED <<core, queue, barrier_queue, tries, creator, next, frameVars, mainVars>>

\* A barrier: the job enters the barrier queue.
EnterBarrier(w) ==
    /\ Runs(w)
    /\ state' = [state EXCEPT ![h[w]] = "barrier"]
    /\ barrier_queue' = barrier_queue \cup {h[w]}
    /\ h' = [h EXCEPT ![w] = NoJob]
    /\ wpc' = [wpc EXCEPT ![w] = "loop"]
    /\ UNCHANGED <<core, queue, tries, creator, awaits, next, frameVars, mainVars>>

\* Older siblings that hold the resource a blocked job waits for.
Holders(j) == {b \in Jobs : b < j /\ creator[b] = creator[j] /\ state[b] # "done"}

\* The end of a job (a body ends after everything it awaits): it drops the handle
\* of its own frame, what it blocked is pushed here, the job that awaits it is
\* resumed by transfer.  (Its creator is taken to have dropped it by now.)
End(w) ==
    /\ Runs(w)
    /\ LET j == h[w]
           woken == {b \in Jobs : state[b] = "blocked" /\ Holders(b) = {j}}
           cont == {p \in Jobs : state[p] = "awaits" /\ awaits[p] = j}
       IN /\ state' = [i \in Jobs |-> IF i = j THEN "done"
                          ELSE IF i \in woken \cup cont THEN "ready" ELSE state[i]]
          /\ awaits' = [i \in Jobs |-> IF i \in cont THEN NoJob ELSE awaits[i]]
          /\ \/ /\ woken = {} /\ UNCHANGED queue
             \/ \E b \in woken : AddTask(w, b)
          /\ \/ /\ cont = {}
                /\ h' = [h EXCEPT ![w] = NoJob]
                /\ wpc' = [wpc EXCEPT ![w] = "loop"]
             \/ \E p \in cont : h' = [h EXCEPT ![w] = p] /\ UNCHANGED wpc
    /\ uses' = [uses EXCEPT ![h[w]] = @ - 1]
    /\ UNCHANGED <<core, barrier_queue, tries, creator, next, parent, freed, rooted,
                   mainVars>>

\* The last handle went: the frame lets go of that of its creator.
Free(j) ==
    /\ state[j] = "done" /\ uses[j] = 0 /\ j \notin freed
    /\ freed' = freed \cup {j}
    /\ uses' = IF parent[j] = NoJob THEN uses ELSE [uses EXCEPT ![parent[j]] = @ - 1]
    /\ UNCHANGED <<queue, barrier_queue, wpc, h, tries, core, jobVars, parent, rooted,
                   mainVars>>

-----------------------------------------------------------------------------
Work(w) ==
    \/ Pin(w) \/ Loop(w) \/ Pop(w) \/ StealNothing(w) \/ Barriers(w)
    \/ DispatchReady(w) \/ DispatchSync(w) \/ DispatchBlocked(w) \/ EnterBarrier(w) \/ End(w)
    \/ \E c \in Jobs : Await(w, c)

MainStep == Refuse \/ StartThread \/ CreateInit \/ Leave \/ StopThread \/ JoinThread

Terminated == mpc \in {"destroyed", "refused"} /\ UNCHANGED vars

Next ==
    \/ MainStep
    \/ \E w \in Workers : Work(w) \/ (\E victim \in Workers : Steal(w, victim))
    \/ \E j \in Jobs : Free(j)
    \/ Terminated

Spec == Init /\ [][Next]_vars

EndOf(j) == \E w \in Workers : h[w] = j /\ End(w)

\* Threads go on; a body has finitely many barriers and ends; a worker that
\* keeps drawing victims draws each of them again,
\* and cannot lose every race, since each loss is the gain of another thread.
FairSpec ==
    /\ Spec
    /\ WF_vars(MainStep)
    /\ \A w \in Workers :
          /\ WF_vars(Work(w))
          /\ \A victim \in Workers : SF_vars(Steal(w, victim))
    /\ \A j \in Jobs : SF_vars(EndOf(j))
    /\ WF_vars(\E j \in Jobs : Free(j))

-----------------------------------------------------------------------------
(* Properties.                                                             *)

\* Every variable has its type; a worker holds a handle just while it runs one.
TypeOK ==
    /\ queue \in [Threads -> Seq(Jobs)]
    /\ barrier_queue \subseteq Jobs
    /\ wpc \in [Workers -> {"none", "pins", "loop", "pop", "steal", "barriers", "runs", "exited"}]
    /\ h \in [Workers -> Jobs \cup {NoJob}]
    /\ \A w \in Workers : wpc[w] = "runs" <=> h[w] # NoJob
    /\ tries \in [Workers -> 0..(Attempts - 1)]
    /\ state \in [Jobs -> {"new", "ready", "blocked", "awaits", "barrier", "done"}]
    /\ creator \in [Jobs -> Jobs \cup {NoJob}]
    /\ awaits \in [Jobs -> Jobs \cup {NoJob}]
    /\ next \in 1..(NumJobs + 1)
    /\ parent \in [Jobs -> Jobs \cup {NoJob}] /\ uses \in [Jobs -> Nat]
    /\ freed \subseteq Jobs /\ rooted \subseteq Jobs
    /\ stop \in [Workers -> BOOLEAN]
    /\ num_cores \in {NumWorkers - 1, NumWorkers} /\ core \in [Workers -> 0..NoCore]
    /\ mpc \in {"starts", "refused", "creates", "waits", "stops", "joins", "destroyed"}
    /\ mi \in 0..NumWorkers

\* Workers that are pinned share no core: a pool is refused before it has more
\* workers than the machine has cores.
OwnCore == \A v, w \in Workers : v # w /\ core[v] # NoCore => core[v] # core[w]

\* The entries of the deques that are job j.
Entries(j) == {e \in Threads \X (1..(NumJobs + 1)) :
                  e[2] <= Len(queue[e[1]]) /\ queue[e[1]][e[2]] = j}

\* A coroutine that can go on is in one deque entry or on one worker, never
\* in two places (it would be resumed twice) and never in none (it would be
\* lost); one that waits is in no deque, and in the barrier queue just when
\* it waits for a barrier.
HandleInOnePlace ==
    \A j \in Jobs :
        /\ Cardinality(Entries(j)) + Cardinality({w \in Workers : h[w] = j})
              = IF state[j] = "ready" THEN 1 ELSE 0
        /\ j \in barrier_queue <=> state[j] = "barrier"

\* When ~ThreadPool tells the workers to stop, whatever is left in a deque, in
\* the barrier queue or on a worker counts for nobody up to the init coroutine: it
\* was dispatched through a temporary, or below a job that was.  A worker leaves
\* its loop without looking at its deque again, so that it may never run.
NothingLeftToRun ==
    mpc \in {"stops", "joins", "destroyed"} =>
        \A j \in rooted :
            /\ \A t \in Threads : \A i \in DOMAIN queue[t] : queue[t][i] # j
            /\ j \notin barrier_queue
            /\ \A w \in Workers : h[w] # j

\* What TaskLife says of every coroutine: a blocked one waits for the older
\* siblings, one at a barrier for all it has dispatched that hold its frame.
Life == INSTANCE TaskLife WITH Task <- Jobs,
            phase <- [j \in Jobs |-> CASE state[j] = "new" -> "none"
                                       [] state[j] = "ready" -> "runs"
                                       [] state[j] = "done" -> "gone"
                                       [] OTHER -> "waits"],
            waitsFor <- [j \in Jobs |->
                CASE state[j] = "blocked" -> {b \in 1..(j - 1) : creator[b] = creator[j]} \X {"gone"}
                  [] state[j] = "awaits" -> {<<awaits[j], "over">>}
                  [] state[j] = "barrier" -> {c \in Jobs : parent[c] = j} \X {"gone"}
                  [] OTHER -> {}]

ImplementsLife == Life!Spec

\* Whatever counts for the init coroutine comes to its end, wherever its handle was
\* pushed: also in the master queue, which no worker owns, and also when all but
\* one worker find nothing to do, or what it waits for does not count.
EveryJobEnds == <>[](\A j \in rooted : state[j] = "done")

\* The pool comes to its end: ~InitTask lets the main thread go, and every
\* worker meets its stop request although the others go on stealing.
PoolStops == <>[](mpc \in {"destroyed", "refused"})
=============================================================================
