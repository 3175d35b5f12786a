------------------------------ MODULE TaskTree ------------------------------
(***************************************************************************)
(* The life of coroutine frames: Task.hpp, initTask.hpp, FinalDelete.hpp,  *)
(* SharedCoroutineHandle.hpp, the awaiters of dispatchTask.hpp, barrier.hpp*)
(* and BarrierQueue.hpp.                                                   *)
(*                                                                         *)
(* Task 0 is the coroutine of the InitTask that the main thread holds; the *)
(* others are dispatched by tasks.  A frame is owned by counted handles:   *)
(* the one in its own promise (self, dropped in final_suspend), the one of *)
(* its creator (in an awaiter, a Task object or a GetAwaiter), and the     *)
(* `parent' of every child that got one.  A coroutine is resumed by        *)
(* whoever takes one of its tokens: an entry of a queue of the pool or a   *)
(* symmetric transfer.  The nodes of the resources are abstracted to       *)
(* TaskOrder: a task is ready when every earlier task it conflicts with    *)
(* has been taken off.                                                     *)
(*                                                                         *)
(* A step is one access to workingState, sharedOwnerCounter or another     *)
(* variable of a promise that two threads use.                             *)
(***************************************************************************)
EXTENDS Naturals, FiniteSets

CONSTANTS
    NumTasks,     \* bound: tasks dispatched by the whole program
    Forms,        \* what a program may dispatch, a set of records of Form
    Assigns,      \* may a body assign to a Task object that holds, or has held, a task?
    MainGets,     \* may main call get() of the InitTask?
    Nested,       \* may other tasks than the init coroutine name resources?
    Resources

Task  == 1..NumTasks
Frame == 0..NumTasks
None  == NumTasks + 1

\* kind: asynchronous or synchronous dispatch, or the barrierTask of a barrier;
\* void: Task<void>; fin: the finishedOnReturn parameter; named: the awaiter is a
\* variable, so that await_transform(DispatchAwaiter&) is called, else it is a
\* temporary, as in all tests; acc: the resources it names, and how it accesses
\* each (adding and multiplying are like reading: parallel among themselves).
Form == [kind: {"async", "sync", "barrier"}, void: BOOLEAN, fin: BOOLEAN,
         named: BOOLEAN, acc: SUBSET (Resources \X {"Read", "Write"})]
RootForm == [kind |-> "async", void |-> FALSE, fin |-> FALSE, named |-> FALSE, acc |-> {}]

ASSUME NumTasksAssumption == NumTasks \in Nat
\* A barrier writes to the resources it is given, one or a container of them.
ASSUME FormsAssumption ==
    /\ Forms \subseteq Form
    /\ \A f \in Forms : f.kind = "barrier" => \A a \in f.acc : a[2] = "Write"
ASSUME OptionsAssumption == {Assigns, MainGets, Nested} \subseteq BOOLEAN

VARIABLES
    next,          \* the next task dispatched
    form, par,     \* how and by whom a task was dispatched
    resReady,      \* DispatchAwaiter::resourcesReady
    \* the promise
    workingState, continuationHandle, refs, coroOutsideTask, result, parent, pool_p,
    frame,         \* "none", "alive", "dying", "released" (of its nodes), "freed"
    holder,        \* where the creator's handle of a task is
    \* the coroutines: where each one is, and the task it is busy with
    co, at,
    tokens,        \* how many resumptions of it are under way
    tail,          \* the thread in await_suspend of a synchronous dispatch
    barrier_queue, \* the coroutines that wait for their children
    checking,      \* process_and_extract: the entry looked at and its use count
    mpc            \* the main thread

treeVars    == <<next, form, par, resReady>>
promiseVars == <<workingState, continuationHandle, coroOutsideTask, result, parent, pool_p>>
ownVars     == <<refs, frame, holder>>
runVars     == <<co, at, tokens, tail>>
poolVars    == <<barrier_queue, checking>>
vars == <<treeVars, promiseVars, ownVars, runVars, poolVars, mpc>>

-----------------------------------------------------------------------------
(* Handles.                                                                *)

\* The mutant returns a Task that does not count.
UncountedReturnObject == 1

\* The handle in the promise and its copy in the return object.
InitialRefs == 2

\* ~promise_type begins: it has a task to take off its nodes, if there are any.
Dying(t) == IF form[t].acc = {} THEN "released" ELSE "dying"

\* decrement_ref: the last handle destroys the coroutine.
DropRef(t) ==
    /\ refs' = [refs EXCEPT ![t] = @ - 1]
    /\ frame' = IF refs[t] = 1 THEN [frame EXCEPT ![t] = Dying(t)] ELSE frame

\* await_transform of a Task<void> matches DispatchAwaiter<U, Synchronous>, and
\* takes its argument for finishedOnReturn.
HoldsParent(p, t) ==
    form[t].named /\ IF form[p].void THEN form[t].kind # "sync" ELSE ~ form[t].fin

Serial(a, b) == a # "Read" \/ b # "Read"

\* The earlier tasks that t, with accesses acc, must not overlap with.
Ahead(t, acc) == {u \in Task : u < t /\ \E a \in acc, b \in form[u].acc :
                                              a[1] = b[1] /\ Serial(a[2], b[2])}

\* All of them were taken off their nodes.
Ready(t, acc) == \A u \in Ahead(t, acc) : frame[u] \in {"released", "freed"}

\* What the body of p still holds.
Objects(p) == {c \in Task : par[c] = p /\ holder[c] = "object"}

Running(p) == co[p] = "running"

\* Where a coroutine goes on after it has dropped a handle.
BodyOf(p) == IF result[p] THEN "returned" ELSE "running"

-----------------------------------------------------------------------------
Init ==
    /\ next = 1
    /\ form = [t \in Frame |-> RootForm]
    /\ par = [t \in Frame |-> None]
    /\ resReady = [t \in Frame |-> FALSE]
    /\ workingState = [t \in Frame |-> 1]
    /\ continuationHandle = [t \in Frame |-> FALSE]
    /\ coroOutsideTask = [t \in Frame |-> TRUE]
    /\ result = [t \in Frame |-> FALSE]
    /\ parent = [t \in Frame |-> None]
    /\ pool_p = [t \in Frame |-> t = 0]
    /\ refs = [t \in Frame |-> IF t = 0 THEN 2 ELSE 0]
    /\ frame = [t \in Frame |-> IF t = 0 THEN "alive" ELSE "none"]
    /\ holder = [t \in Frame |-> IF t = 0 THEN "main" ELSE "none"]
    /\ co = [t \in Frame |-> IF t = 0 THEN "waiting" ELSE "none"]
    /\ at = [t \in Frame |-> None]
    \* DetachToPoolAwaiter has pushed the init coroutine.
    /\ tokens = [t \in Frame |-> IF t = 0 THEN 1 ELSE 0]
    /\ tail = [t \in Frame |-> "none"]
    /\ barrier_queue = {} /\ checking = <<None, 0>>
    /\ mpc = "holds"

-----------------------------------------------------------------------------
(* Dispatch.                                                               *)

\* dispatch_task, or await_suspend of a barrier up to its fetch_sub: the frame
\* is made and registered; from here on a blocked task may be handed out.
Create(p, f) ==
    /\ Running(p) /\ next <= NumTasks
    /\ f.acc # {} => Nested \/ p = 0
    /\ f.kind = "barrier" => pool_p[p]  \* else it dereferences null
    /\ LET t == next IN
       \E rr \in BOOLEAN :
          /\ rr => Ready(t, f.acc)
          /\ (\A u \in Ahead(t, f.acc) : frame[u] = "freed") => rr
          /\ next' = t + 1
          /\ form' = [form EXCEPT ![t] = f]
          /\ par' = [par EXCEPT ![t] = p]
          /\ resReady' = [resReady EXCEPT ![t] = rr]
          /\ refs' = [refs EXCEPT ![t] = InitialRefs]
          /\ frame' = [frame EXCEPT ![t] = "alive"]
          /\ holder' = [holder EXCEPT ![t] = "awaiter"]
          /\ co' = [co EXCEPT ![t] = "waiting",
                              ![p] = IF f.kind = "barrier" THEN "waitsBarrier"
                                      ELSE "transform"]
          /\ at' = [at EXCEPT ![p] = t]
    /\ UNCHANGED <<promiseVars, tokens, tail, poolVars, mpc>>

\* The node hands a task that was blocked to an executor.
Hand(t) ==
    /\ co[t] = "waiting" /\ ~ resReady[t] /\ tokens[t] = 0 /\ t # 0
    /\ Ready(t, form[t].acc)
    /\ tokens' = [tokens EXCEPT ![t] = 1]
    /\ UNCHANGED <<treeVars, promiseVars, ownVars, co, at, tail, poolVars, mpc>>

\* The mutant stores the parent without counting it.
UncountedParent(p, t) == UNCHANGED refs

CountParent(p, t) ==
    refs' = IF HoldsParent(p, t) THEN [refs EXCEPT ![p] = @ + 1] ELSE refs

\* The mutant passes the pool on with the parent only.
PoolWithParent(p, t) ==
    pool_p' = IF HoldsParent(p, t) THEN [pool_p EXCEPT ![t] = pool_p[p]] ELSE pool_p

PassPool(p, t) ==
    pool_p' = IF form[t].named THEN [pool_p EXCEPT ![t] = pool_p[p]] ELSE pool_p

\* await_transform: the overload for DispatchAwaiter& passes on pool_p and
\* parent; a temporary takes the forwarding overload, which does nothing.
Transform(p) ==
    /\ co[p] = "transform"
    /\ LET t == at[p] IN
       /\ PassPool(p, t)
       /\ parent' = IF HoldsParent(p, t) THEN [parent EXCEPT ![t] = p] ELSE parent
       /\ CountParent(p, t)
       /\ co' = [co EXCEPT ![p] = IF form[t].kind = "async" THEN "dispatch" ELSE "syncStore"]
    /\ UNCHANGED <<treeVars, workingState, continuationHandle, coroOutsideTask, result,
                   frame, holder, at, tokens, tail, poolVars, mpc>>

\* The asynchronous awaiter: if the task is ready, the body is pushed and the
\* task resumed; else the body goes on.  The Task object ends up with the body.
DispatchAsync(p) ==
    /\ co[p] = "dispatch"
    /\ LET t == at[p] IN
       /\ holder' = [holder EXCEPT ![t] = "object"]
       /\ IF resReady[t]
          THEN /\ tokens' = [tokens EXCEPT ![t] = @ + 1, ![p] = @ + 1]
               /\ co' = [co EXCEPT ![p] = "pushed"]
          ELSE /\ co' = [co EXCEPT ![p] = "running"]
               /\ UNCHANGED tokens
    /\ at' = [at EXCEPT ![p] = None]
    /\ UNCHANGED <<treeVars, promiseVars, refs, frame, tail, poolVars, mpc>>

\* compare_exchange_strong(1, 2) on the workingState of the awaited task.
PublishContinuation(t) ==
    workingState' = IF workingState[t] = 1 THEN [workingState EXCEPT ![t] = 2]
                    ELSE workingState

\* The synchronous awaiter stores the continuation ...
SyncStore(p) ==
    /\ co[p] = "syncStore"
    /\ continuationHandle' = [continuationHandle EXCEPT ![at[p]] = TRUE]
    /\ co' = [co EXCEPT ![p] = "syncCas"]
    /\ UNCHANGED <<treeVars, workingState, coroOutsideTask, result, parent, pool_p,
                   ownVars, at, tokens, tail, poolVars, mpc>>

\* ... and publishes it.  From here on the body can be resumed while this
\* thread is still in await_suspend.
SyncCas(p) ==
    /\ co[p] = "syncCas"
    /\ PublishContinuation(at[p])
    /\ tail' = [tail EXCEPT ![at[p]] = IF workingState[at[p]] = 0 THEN "done" ELSE "waits"]
    /\ co' = [co EXCEPT ![p] = "waitsSync"]
    /\ UNCHANGED <<treeVars, continuationHandle, coroOutsideTask, result, parent, pool_p,
                   ownVars, at, tokens, poolVars, mpc>>

\* It reads resourcesReady and handle from the awaiter: start the task, or go
\* on with a body nobody else will resume, or let the task resume it.  (What a
\* read of an awaiter that no longer exists gives is undefined; here it gives
\* what was last in it, see AwaiterOutlivesSuspend.)
SyncTail(t) ==
    /\ tail[t] # "none"
    /\ tail' = [tail EXCEPT ![t] = "none"]
    /\ tokens' = IF resReady[t] THEN [tokens EXCEPT ![t] = @ + 1]
                 ELSE IF tail[t] = "done" THEN [tokens EXCEPT ![par[t]] = @ + 1]
                 ELSE tokens
    /\ UNCHANGED <<treeVars, promiseVars, ownVars, co, at, poolVars, mpc>>

-----------------------------------------------------------------------------
(* Waiting for a task.                                                     *)

\* An executor resumes the coroutine.
Resume(t) ==
    /\ tokens[t] > 0
    /\ co[t] \in {"waiting", "pushed", "waitsBarrier", "waitsSync", "waitsGet"}
    /\ form[t].kind = "barrier" => holder[t] = "none" \/ ~ resReady[t]
    /\ tokens' = [tokens EXCEPT ![t] = @ - 1]
    /\ co' = [co EXCEPT ![t] = IF @ \in {"waitsSync", "waitsGet"} THEN "take" ELSE "running"]
    /\ UNCHANGED <<treeVars, promiseVars, ownVars, at, tail, poolVars, mpc>>

\* The mutant takes the negation for the state.
NotWorking(c) == workingState[c] = 1

\* GetAwaiter::await_ready.
TaskDone(c) == workingState[c] = 0

\* co_await c.get() of a Task object: the handle moves into a GetAwaiter,
\* await_ready.
Get(p, c) ==
    /\ Running(p) /\ c \in Objects(p) /\ form[c].kind = "async" /\ ~ form[c].void
    /\ holder' = [holder EXCEPT ![c] = "get"]
    /\ at' = [at EXCEPT ![p] = c]
    /\ co' = [co EXCEPT ![p] = IF TaskDone(c) THEN "take" ELSE "getStore"]
    /\ UNCHANGED <<treeVars, promiseVars, refs, frame, tokens, tail, poolVars, mpc>>

GetStore(p) ==
    /\ co[p] = "getStore"
    /\ continuationHandle' = [continuationHandle EXCEPT ![at[p]] = TRUE]
    /\ co' = [co EXCEPT ![p] = "getCas"]
    /\ UNCHANGED <<treeVars, workingState, coroOutsideTask, result, parent, pool_p,
                   ownVars, at, tokens, tail, poolVars, mpc>>

\* The mutant suspends whatever the exchange found.
SuspendsAlways(c) == TRUE

\* "return true to suspend if expected state is 1".
Suspends(c) == workingState[c] # 0

GetCas(p) ==
    /\ co[p] = "getCas"
    /\ PublishContinuation(at[p])
    /\ co' = [co EXCEPT ![p] = IF Suspends(at[p]) THEN "waitsGet" ELSE "take"]
    /\ UNCHANGED <<treeVars, continuationHandle, coroOutsideTask, result, parent, pool_p,
                   ownVars, at, tokens, tail, poolVars, mpc>>

\* The awaiter of a synchronous dispatch, if it is a variable, stays to the end of
\* its scope, and with it the handle.
Kept(t) == form[t].kind = "sync" /\ form[t].named

\* await_resume reads the result; the body goes on with the awaiter ...
Keep(p) ==
    /\ co[p] = "take" /\ Kept(at[p])
    /\ holder' = [holder EXCEPT ![at[p]] = "object"]
    /\ co' = [co EXCEPT ![p] = "running"]
    /\ at' = [at EXCEPT ![p] = None]
    /\ UNCHANGED <<treeVars, promiseVars, refs, frame, tokens, tail, poolVars, mpc>>

\* ... or it was a temporary, and the handle goes with it: coroOutsideTask is
\* cleared first.
Take(p) ==
    /\ co[p] = "take" /\ ~ Kept(at[p])
    /\ coroOutsideTask' = [coroOutsideTask EXCEPT ![at[p]] = FALSE]
    /\ holder' = [holder EXCEPT ![at[p]] = "cleared"]
    /\ co' = [co EXCEPT ![p] = "release"]
    /\ UNCHANGED <<treeVars, workingState, continuationHandle, result, parent, pool_p,
                   refs, frame, at, tokens, tail, poolVars, mpc>>

\* ~Task of an object of the body, while it runs or when it is left.
Clear(p, c) ==
    /\ co[p] \in {"running", "returned"} /\ c \in Objects(p)
    /\ coroOutsideTask' = [coroOutsideTask EXCEPT ![c] = FALSE]
    /\ holder' = [holder EXCEPT ![c] = "cleared"]
    /\ co' = [co EXCEPT ![p] = "release"]
    /\ at' = [at EXCEPT ![p] = c]
    /\ UNCHANGED <<treeVars, workingState, continuationHandle, result, parent, pool_p,
                   refs, frame, tokens, tail, poolVars, mpc>>

\* The handle of an object is dropped without ~Task clearing the flag: operator=
\* puts another one in its place, or the object was moved from before c was
\* assigned to it, and isMoved stays set.
Assign(p, c) ==
    /\ Assigns /\ co[p] \in {"running", "returned"} /\ c \in Objects(p)
    /\ holder' = [holder EXCEPT ![c] = "cleared"]
    /\ co' = [co EXCEPT ![p] = "release"]
    /\ at' = [at EXCEPT ![p] = c]
    /\ UNCHANGED <<treeVars, promiseVars, refs, frame, tokens, tail, poolVars, mpc>>

\* The handle counts down.  If it was the last one, this thread destroys the
\* frame before it goes on.
Release(p) ==
    /\ co[p] = "release"
    /\ DropRef(at[p])
    /\ holder' = [holder EXCEPT ![at[p]] = "none"]
    /\ co' = [co EXCEPT ![p] = IF refs[at[p]] = 1 THEN "destroys" ELSE BodyOf(p)]
    /\ UNCHANGED <<treeVars, promiseVars, at, tokens, tail, poolVars, mpc>>

Destroyed(p) ==
    /\ co[p] = "destroys" /\ frame[at[p]] = "freed"
    /\ co' = [co EXCEPT ![p] = BodyOf(p)]
    /\ UNCHANGED <<treeVars, promiseVars, ownVars, at, tokens, tail, poolVars, mpc>>

-----------------------------------------------------------------------------
(* Barriers.                                                               *)

\* await_suspend of the barrier returns: its local Task goes away; a ready
\* barrierTask is resumed next.
BarrierClear(t) ==
    /\ form[t].kind = "barrier" /\ holder[t] = "awaiter"
    /\ coroOutsideTask' = [coroOutsideTask EXCEPT ![t] = FALSE]
    /\ holder' = [holder EXCEPT ![t] = "cleared"]
    /\ UNCHANGED <<treeVars, workingState, continuationHandle, result, parent, pool_p,
                   refs, frame, runVars, poolVars, mpc>>

BarrierDrop(t) ==
    /\ form[t].kind = "barrier" /\ holder[t] = "cleared"
    /\ DropRef(t)
    /\ holder' = [holder EXCEPT ![t] = "none"]
    /\ tokens' = IF resReady[t] THEN [tokens EXCEPT ![t] = @ + 1] ELSE tokens
    /\ UNCHANGED <<treeVars, promiseVars, co, at, tail, poolVars, mpc>>

\* The body of barrierTask: the waiting coroutine enters the barrier queue.
EnterBarrier(t) ==
    /\ Running(t) /\ form[t].kind = "barrier" /\ checking[1] = None
    /\ barrier_queue' = barrier_queue \cup {par[t]}
    /\ result' = [result EXCEPT ![t] = TRUE]
    /\ co' = [co EXCEPT ![t] = "returned"]
    /\ UNCHANGED <<treeVars, workingState, continuationHandle, coroOutsideTask, parent,
                   pool_p, ownVars, at, tokens, tail, checking, mpc>>

\* process_and_extract, under the mutex: the use count of one entry ...
CheckBarrier(p) ==
    /\ checking[1] = None /\ p \in barrier_queue
    /\ checking' = <<p, refs[p]>>
    /\ UNCHANGED <<treeVars, promiseVars, ownVars, runVars, barrier_queue, mpc>>

\* The mutant forgets that the return object may be gone.
IgnoresOutside(p, count) == count = 2

\* use count - num handles = 1
ChildrenDone(p, count) == count - (IF coroOutsideTask[p] THEN 1 ELSE 0) = 1

\* ... and whether its return object exists.
PassBarrier ==
    /\ checking[1] # None
    /\ LET p == checking[1] IN
       IF ChildrenDone(p, checking[2])
       THEN /\ tokens' = [tokens EXCEPT ![p] = @ + 1]
            /\ barrier_queue' = barrier_queue \ {p}
       ELSE UNCHANGED <<tokens, barrier_queue>>
    /\ checking' = <<None, 0>>
    /\ UNCHANGED <<treeVars, promiseVars, ownVars, co, at, tail, mpc>>

-----------------------------------------------------------------------------
(* The end of a task.                                                      *)

\* co_return: the result, then the objects of the body go.
Return(p) ==
    /\ Running(p) /\ form[p].kind # "barrier"
    /\ result' = [result EXCEPT ![p] = TRUE]
    /\ co' = [co EXCEPT ![p] = "returned"]
    /\ UNCHANGED <<treeVars, workingState, continuationHandle, coroOutsideTask, parent,
                   pool_p, ownVars, at, tokens, tail, poolVars, mpc>>

\* final_suspend: compare_exchange_strong(1, 0); task_done of the init promise.
FinalSuspend(p) ==
    /\ co[p] = "returned" /\ Objects(p) = {}
    /\ workingState' = IF workingState[p] = 1 THEN [workingState EXCEPT ![p] = 0]
                       ELSE workingState
    /\ co' = [co EXCEPT ![p] = "final"]
    /\ UNCHANGED <<treeVars, continuationHandle, coroOutsideTask, result, parent, pool_p,
                   ownVars, at, tokens, tail, poolVars, mpc>>

\* The mutant hands over whatever is in continuationHandle.
ContinuesAlways(p) == continuationHandle[p]

\* The exchange found 2: "contHandle has been pushed already".
Continues(p) == workingState[p] = 2

\* FinalDelete: copy the continuation, drop self ...
FinalDelete(p) ==
    /\ co[p] = "final"
    /\ DropRef(p)
    /\ co' = [co EXCEPT ![p] = IF Continues(p) THEN "transfer" ELSE "done"]
    /\ UNCHANGED <<treeVars, promiseVars, holder, at, tokens, tail, poolVars, mpc>>

\* ... and resume it.
Transfer(p) ==
    /\ co[p] = "transfer"
    /\ tokens' = [tokens EXCEPT ![par[p]] = @ + 1]
    /\ co' = [co EXCEPT ![p] = "done"]
    /\ UNCHANGED <<treeVars, promiseVars, ownVars, at, tail, poolVars, mpc>>

\* ~promise_type takes the task off its nodes ...
Deregister(t) ==
    /\ frame[t] = "dying"
    /\ frame' = [frame EXCEPT ![t] = "released"]
    /\ UNCHANGED <<treeVars, promiseVars, refs, holder, runVars, poolVars, mpc>>

\* ... and lets go of the parent.  Nobody has a handle or a pointer to the frame
\* then; that its memory is deleted nobody waits for (FrameAlloc).
Free(t) ==
    /\ frame[t] = "released"
    /\ LET p == parent[t] IN
       /\ refs' = IF p = None THEN refs ELSE [refs EXCEPT ![p] = @ - 1]
       /\ frame' = [u \in Frame |-> IF u = t THEN "freed"
                       ELSE IF u = p /\ refs[p] = 1 THEN Dying(p) ELSE frame[u]]
    /\ UNCHANGED <<treeVars, promiseVars, holder, runVars, poolVars, mpc>>

-----------------------------------------------------------------------------
(* The main thread.                                                        *)

\* InitTask::get: if the task is not done, wait on a condition variable ...
MainGet ==
    /\ MainGets /\ mpc = "holds"
    /\ mpc' = IF workingState[0] = 0 THEN "got" ELSE "asleep"
    /\ UNCHANGED <<treeVars, promiseVars, ownVars, runVars, poolVars>>

\* ... which nobody notifies: only a spurious wakeup ends the wait.
SpuriousWakeup ==
    /\ mpc = "asleep" /\ workingState[0] = 0
    /\ mpc' = "got"
    /\ UNCHANGED <<treeVars, promiseVars, ownVars, runVars, poolVars>>

\* The mutant does not count the handle of the InitTask itself.
OthersHoldTwo(count) == count > 2

OthersHold(count) == count > 1

\* ~InitTask: yield while others hold the frame, then drop it.
MainSpin ==
    /\ mpc \in {"holds", "got"} /\ ~ OthersHold(refs[0])
    /\ coroOutsideTask' = [coroOutsideTask EXCEPT ![0] = FALSE]
    /\ mpc' = "reset"
    /\ UNCHANGED <<treeVars, workingState, continuationHandle, result, parent, pool_p,
                   ownVars, runVars, poolVars>>

MainReset ==
    /\ mpc = "reset"
    /\ DropRef(0)
    /\ holder' = [holder EXCEPT ![0] = "none"]
    /\ mpc' = "gone"
    /\ UNCHANGED <<treeVars, promiseVars, runVars, poolVars>>

-----------------------------------------------------------------------------
\* What a body does; which of it is up to the program.
Body(p) ==
    /\ form[p].kind # "barrier"
    /\ \/ \E f \in Forms : Create(p, f)
       \/ \E c \in Task : Get(p, c) \/ Clear(p, c) \/ Assign(p, c)
       \/ Return(p)

\* What follows from it, on whatever thread.
Step(t) ==
    \/ Resume(t) \/ Hand(t) \/ Transform(t) \/ DispatchAsync(t)
    \/ SyncStore(t) \/ SyncCas(t) \/ GetStore(t) \/ GetCas(t)
    \/ Keep(t) \/ Take(t) \/ Release(t) \/ Destroyed(t)
    \/ EnterBarrier(t) \/ FinalSuspend(t) \/ FinalDelete(t) \/ Transfer(t)

Finish(t) ==
    SyncTail(t) \/ BarrierClear(t) \/ BarrierDrop(t) \/ Deregister(t) \/ Free(t)

Terminated ==
    /\ mpc = "gone" /\ \A t \in Frame : frame[t] \in {"none", "freed"}
    /\ UNCHANGED vars

Next ==
    \/ \E t \in Frame : Body(t) \/ Step(t) \/ Finish(t) \/ CheckBarrier(t)
    \/ PassBarrier
    \/ MainGet \/ SpuriousWakeup \/ MainSpin \/ MainReset
    \/ Terminated

Spec == Init /\ [][Next]_vars

\* Every thread goes on, executors take what they find, the barrier queue is
\* looked at again and again (its mutex starves nobody), and a body ends.
Fairness ==
    /\ \A t \in Frame :
          /\ WF_vars(Body(t)) /\ WF_vars(Step(t)) /\ WF_vars(Finish(t))
          /\ SF_vars(EnterBarrier(t)) /\ SF_vars(CheckBarrier(t))
    /\ WF_vars(PassBarrier)
    /\ WF_vars(MainSpin) /\ WF_vars(MainReset)

FairSpec == Spec /\ Fairness

-----------------------------------------------------------------------------
(* Properties.                                                             *)

Waits == {"waiting", "pushed", "waitsSync", "waitsGet", "waitsBarrier"}
Busy == {"transform", "dispatch", "syncStore", "syncCas", "getStore", "getCas",
         "take", "release", "destroys"}
Label == {"none", "running", "returned", "final", "transfer", "done"} \cup Waits \cup Busy

TypeOK ==
    /\ next \in 1..(NumTasks + 1)
    /\ form \in [Frame -> Form] /\ par \in [Frame -> Frame \cup {None}]
    /\ resReady \in [Frame -> BOOLEAN]
    /\ workingState \in [Frame -> 0..2]
    /\ continuationHandle \in [Frame -> BOOLEAN]
    /\ refs \in [Frame -> 0..(NumTasks + 2)]
    /\ coroOutsideTask \in [Frame -> BOOLEAN] /\ result \in [Frame -> BOOLEAN]
    /\ parent \in [Frame -> Frame \cup {None}] /\ pool_p \in [Frame -> BOOLEAN]
    /\ frame \in [Frame -> {"none", "alive", "dying", "released", "freed"}]
    /\ holder \in [Frame -> {"none", "main", "awaiter", "object", "get", "cleared"}]
    /\ co \in [Frame -> Label] /\ at \in [Frame -> Task \cup {None}]
    /\ tokens \in [Frame -> 0..2] /\ tail \in [Frame -> {"none", "done", "waits"}]
    /\ barrier_queue \subseteq Frame
    /\ checking \in (Frame \cup {None}) \X (0..(NumTasks + 2))
    /\ mpc \in {"holds", "got", "asleep", "reset", "gone"}

Alive(t) == frame[t] = "alive"

\* A task that was blocked is done, and its dispatcher still in await_suspend: the
\* task has resumed the body, which may have ended, and with it the awaiter.
Overtaken(t) == tail[t] = "waits" /\ ~ resReady[t] /\ co[t] = "done"

\* No thread touches a frame after its last handle went: not the body, which
\* runs until self is dropped, not whoever resumes it, not the task that
\* awaits it, not the barrier queue, not a child that has it for a parent; nor
\* the thread in await_suspend of a synchronous dispatch, which reads the awaiter,
\* in the frame of the body, and may start the task, unless it was overtaken (it
\* reads freed memory then, see AwaiterOutlivesSuspend).
NoUseAfterFree ==
    \A t \in Frame :
        /\ co[t] \in Waits \cup Busy \cup {"running", "returned", "final"} => Alive(t)
        /\ co[t] \in Busy \ {"destroys"} => Alive(at[t])
        /\ co[t] = "transfer" => Alive(par[t])
        /\ tokens[t] > 0 => Alive(t)
        /\ tail[t] # "none" /\ ~ Overtaken(t) =>
              Alive(t) /\ Alive(par[t]) /\ holder[t] = "awaiter"
        /\ t \in barrier_queue => Alive(t)
        /\ parent[t] # None /\ frame[t] # "freed" => Alive(parent[t])

\* A coroutine is resumed once for each time it suspends: nobody owes it a
\* resumption unless it waits, and never two; a task it awaits is over then.
ResumedOnce ==
    \A t \in Frame : tokens[t] > 0 =>
        /\ tokens[t] = 1 /\ co[t] \in Waits
        /\ co[t] \in {"waitsSync", "waitsGet"} =>
              /\ result[at[t]] /\ co[at[t]] \in {"final", "transfer", "done"}
              /\ \A c \in Task : par[c] = t => co[c] # "transfer"

\* await_resume "will only be called after the task is done" (Task.hpp:48),
\* and reads a result that was written, in a frame that still exists.
ResultBeforeUse ==
    \A t \in Frame : co[t] = "take" => result[at[t]] /\ Alive(at[t])

\* sharedOwnerCounter counts the handles there are: the frame's own until
\* final_suspend, the creator's, and one of every child that has a parent.
RefsExact ==
    \A t \in Frame : frame[t] # "none" =>
        refs[t] = (IF co[t] \in {"transfer", "done"} THEN 0 ELSE 1)
                    + (IF holder[t] = "none" THEN 0 ELSE 1)
                    + Cardinality({c \in Task : parent[c] = t /\ frame[c] # "freed"})

\* ~InitTask waits "for task end, wait for root space to finish"
\* (initTask.hpp:185): when it is through, no task of the program is left, but
\* for memory that is still to be deleted.  (A barrierTask, which has no parent, may
\* be on its way out.)
RootWaits ==
    mpc \in {"reset", "gone"} =>
        \A t \in Task : form[t].kind = "barrier" \/ frame[t] \in {"none", "freed"}

\* What p dispatched before it came to its barrier.
Children(p) == {c \in Task : par[c] = p /\ form[c].kind # "barrier"}

\* The return object of p is gone, and the flag says that it exists.
Adrift(p) == coroOutsideTask[p] /\ holder[p] \in {"cleared", "none"}

\* "All children are done if use count - num handles = 1" (BarrierQueue.hpp:39):
\* a coroutine leaves a barrier when every task it dispatched is gone, though
\* count and flag are read one after the other while others write both.  Just
\* the tasks whose own Task object was assigned over may leave early.
BarrierWaits ==
    \A p \in Frame : co[p] = "waitsBarrier" /\ tokens[p] > 0 =>
        Adrift(p) \/ \A c \in Children(p) : frame[c] = "freed"

\* No task was blocked, or dispatched through a temporary, from the init coroutine
\* down to p.
StraightLine(p) ==
    \E line \in SUBSET Frame :
        /\ p \in line
        /\ \A t \in line \ {0} : form[t].named /\ resReady[t] /\ par[t] \in line

\* "initialized in await_transform of parent coroutine" (Task.hpp:95): pool_p is set
\* before the body uses it, in a dispatch or a barrier of its own.  A blocked task
\* may be handed out, and run, before the await_transform of its parent.
PoolKnown ==
    \A p \in Frame : co[p] = "running" /\ form[p].kind # "barrier" /\ StraightLine(p) =>
        pool_p[p]

\* await_suspend uses its awaiter after it has published the continuation;
\* "after dispatching self to the threadpool, this awaiter object (holding
\* handle) may be destroyed" (dispatchTask.hpp:105).
AwaiterOutlivesSuspend ==
    \A t \in Task : tail[t] # "none" => holder[t] \in {"awaiter", "object"}

\* p waits for what cannot happen before it drops an object it holds.  A Task
\* object keeps the frame of an ended task, which leaves its nodes in ~promise_type
\* and not, as dispatchTask.hpp:231 has it, in final_suspend; and the frame of a
\* child counts at a barrier.
SelfWait(p) ==
    \E b \in Objects(p) :
        \/ co[p] \in {"waitsSync", "waitsGet", "waitsBarrier"}
           /\ b \in Ahead(at[p], form[at[p]].acc)
        \/ co[p] = "waitsBarrier" /\ parent[b] = p

\* What TaskLife says of every task: it waits for the earlier tasks it conflicts
\* with, for the one it awaits, or for its children, and goes on when they are
\* through.  (Of the tasks of a barrier, those that count; no assignments.)
Phase == [t \in Frame |->
    CASE co[t] = "none" -> "none"
      [] co[t] \in Waits \ {"pushed"} -> "waits"
      [] co[t] \in {"final", "transfer", "done"} ->
            IF frame[t] \in {"released", "freed"} THEN "gone" ELSE "over"
      [] OTHER -> "runs"]

WaitsFor == [t \in Frame |->
    CASE co[t] = "waiting" -> Ahead(t, form[t].acc) \X {"gone"}
      [] co[t] \in {"waitsSync", "waitsGet"} -> {<<at[t], "over">>}
      [] co[t] = "waitsBarrier" -> {c \in Task : parent[c] = t} \X {"gone"}
      [] OTHER -> {}]

Life == INSTANCE TaskLife WITH Task <- Frame, phase <- Phase, waitsFor <- WaitsFor

ImplementsLife == Life!Spec

\* Every task ends, every frame is freed and the main thread gets out of
\* ~InitTask, unless a body waits for itself; when main sleeps in get(), where
\* nobody wakes it, all tasks end still.
AllEnds ==
    <>(\/ mpc = "gone" /\ \A t \in Frame : frame[t] \in {"none", "freed"}
       \/ mpc = "asleep" /\ \A t \in Task : frame[t] \in {"none", "freed"}
       \/ \E p \in Frame : SelfWait(p))
=============================================================================
