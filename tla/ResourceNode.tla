---------------------------- MODULE ResourceNode ----------------------------
(***************************************************************************)
(* The registration and release of tasks on resources: ResourceNode.hpp    *)
(* (add_task, remove_task) with the part of dispatchTask.hpp that calls    *)
(* add_task and the destructor of Task.hpp that calls remove_task.         *)
(*                                                                         *)
(* Every resource owns one node: an append-only array `tasks' and three    *)
(* atomic cursors; removed[n] are the slots whose remove_state is 1.       *)
(* Slots below first are popped, slots in first..firstNotReady-1 belong to *)
(* tasks this node no longer holds back, slots in firstNotReady..last-1    *)
(* wait.  A task that waits for n nodes has a waitCounter of n, plus       *)
(* InvalidWaitState until it is registered at all of them; the thread      *)
(* whose decrement brings the counter to zero hands the task to an         *)
(* executor.                                                               *)
(*                                                                         *)
(* One process dispatches (add_task "can only be called by one thread at a *)
(* time"); every finished task is a process that removes itself.  A step   *)
(* is one access to an atomic variable, with the thread-local computation  *)
(* and the accesses to slots nobody else can see changing around it.       *)
(* Memory is sequentially consistent.                                      *)
(***************************************************************************)
EXTENDS Integers, Sequences, FiniteSets

CONSTANTS
    NumTasks,          \* tasks of the program; task t is the t-th dispatched
    Nodes,             \* the resources
    AccessLists,       \* what one dispatch may register: sequences of accesses
    Handles,           \* addresses of coroutine frames
    AllocatorChoices,  \* [Task -> SUBSET Handles]: where a frame may be put
    NoHandle,          \* the null handle of a slot never written
    Capacity,          \* length of the tasks array (1024 in the code)
    InvalidWaitState   \* 2^31 in the code

Task  == 1..NumTasks
Modes == {"Read", "Write", "AAdd", "AMul"}
Access == [node: Nodes, mode: Modes]

ASSUME NumTasksAssumption == NumTasks \in Nat
ASSUME CapacityAssumption == Capacity \in Nat \ {0}
ASSUME HandleAssumption ==
    /\ NoHandle \notin Handles
    /\ AllocatorChoices \in [Task -> SUBSET Handles]
ASSUME AccessListsAssumption == AccessLists \subseteq Seq(Access)
\* The sentinel is larger than any number of accesses of one task.
ASSUME SentinelAssumption ==
    /\ InvalidWaitState \in Nat
    /\ \A acc \in AccessLists : Len(acc) < InvalidWaitState

VARIABLES
    \* the nodes
    first, firstNotReady, last, tasks, removed,
    \* the promise of every task
    accesses, handle, waitCounter,
    \* history: how often a task was handed to an executor, and which of its
    \* accesses its waitCounter still counts
    handed, owed,
    \* the dispatching thread: dtask is the task it registers, dk the access
    dpc, dtask, dk, old_last,
    \* the life of every task, and the locals of its remove_task calls
    pc, k, cur, fnr, temp_last, newMode, parallel_exit, mid

nodeVars   == <<first, firstNotReady, last, tasks, removed>>
taskVars   == <<accesses, handle>>
countVars  == <<waitCounter, handed, owed>>
dispVars   == <<dpc, dtask, dk, old_last>>
scanVars   == <<k, cur, mid>>
readyVars  == <<fnr, temp_last, newMode, parallel_exit>>
vars == <<nodeVars, taskVars, countVars, dispVars, pc, scanVars, readyVars>>

-----------------------------------------------------------------------------
(* Slots and cursors.                                                      *)

SlotIndex == 0..(Capacity - 1)
Slot == [task: Task \cup {0}, pos: Nat, handle: Handles \cup {NoHandle},
         mode: Modes \cup {"None"}]

\* task_access(): a null handle; task and pos say whose waitCounter_p it holds.
EmptySlot == [task |-> 0, pos |-> 0, handle |-> NoHandle, mode |-> "None"]

\* The mutant orders nothing between two writers.
SerialUnlessEqual(a, b) == a # b

\* is_serial_access: two accesses may overlap only if both read, both add or
\* both multiply.
Serial(a, b) ==
    /\ a # "Read" \/ b # "Read"
    /\ a # "AAdd" \/ b # "AAdd"
    /\ a # "AMul" \/ b # "AMul"

\* compare_exchange_strong(cur, ++cur): the expected value is bound to cur by
\* reference, and cur is incremented before the call, so that the exchange
\* expects the incremented value, the one it would store.
CasExpectedByValue(c) == c
CasExpected(c) == c + 1

\* What dispatch_task leaves in a new task's counter before it registers it;
\* the mutant forgets that the promise starts with INVALID_WAIT_STATE.
CountWithoutSentinel(acc) == Len(acc)
InitialCount(acc) == InvalidWaitState + Len(acc)

\* The mutant frees the frame before ~promise_type.
LiveUntilFinished(t) == pc[t] \in {"waiting", "running"}

\* A live task owns its frame address; the frame is freed after the last
\* remove_task of ~promise_type.
Live(t) == pc[t] \notin {"idle", "destroyed"}

\* The node whose remove_task the destructor of t is in.
NodeOf(t) == accesses[t][k[t]].node

-----------------------------------------------------------------------------
Init ==
    /\ first = [n \in Nodes |-> 0]
    /\ firstNotReady = [n \in Nodes |-> 0]
    /\ last = [n \in Nodes |-> 0]
    /\ tasks = [n \in Nodes |-> [i \in SlotIndex |-> EmptySlot]]
    /\ removed = [n \in Nodes |-> {}]
    /\ accesses = [t \in Task |-> <<>>]
    /\ handle = [t \in Task |-> NoHandle]
    /\ waitCounter = [t \in Task |-> InvalidWaitState]
    /\ handed = [t \in Task |-> 0]
    /\ owed = [t \in Task |-> {}]
    /\ dpc = "idle" /\ dtask = 0 /\ dk = 0 /\ old_last = 0
    /\ pc = [t \in Task |-> "idle"]
    /\ k = [t \in Task |-> 0]
    /\ cur = [t \in Task |-> 0]
    /\ mid = [t \in Task |-> FALSE]
    /\ fnr = [t \in Task |-> 0]
    /\ temp_last = [t \in Task |-> 0]
    /\ newMode = [t \in Task |-> "None"]
    /\ parallel_exit = [t \in Task |-> FALSE]

-----------------------------------------------------------------------------
(* The dispatching thread.                                                 *)

\* dispatch_task up to the registration: a new frame, its counter raised by
\* the number of accesses.
Dispatch ==
    /\ dpc = "idle" /\ dtask < NumTasks
    /\ LET t == dtask + 1 IN
       \E acc \in AccessLists :
       \E h \in AllocatorChoices[t] \ {handle[u] : u \in {v \in Task : Live(v)}} :
          /\ accesses' = [accesses EXCEPT ![t] = acc]
          /\ handle' = [handle EXCEPT ![t] = h]
          /\ waitCounter' = [waitCounter EXCEPT ![t] = InitialCount(acc)]
          /\ owed' = [owed EXCEPT ![t] = 1..Len(acc)]
          /\ pc' = [pc EXCEPT ![t] = "waiting"]
          /\ dtask' = t
          /\ dk' = 1
          /\ dpc' = IF acc = <<>> THEN "finish" ELSE "publish"
    /\ UNCHANGED <<nodeVars, handed, old_last, scanVars, readyVars>>

\* The access being registered.
DAccess == accesses[dtask][dk]
DNode   == DAccess.node

\* add_task returned: the next access of the fold, or the end of it.
AddReturn ==
    /\ dk' = dk + 1
    /\ dpc' = IF dk = Len(accesses[dtask]) THEN "finish" ELSE "publish"

\* The array is never reused and never checked: one more slot must exist
\* after this one, which a sweep may read.  A bound of the model.
SlotBound(n) == last[n] + 1 < Capacity

\* add_task: write the slot at last and publish it.  Nobody else writes last,
\* and a slot at or above last is read for its remove_state only, which the
\* write does not change.
AddPublish ==
    /\ dpc = "publish"
    /\ SlotBound(DNode)
    /\ tasks' = [tasks EXCEPT ![DNode][last[DNode]] =
                    [task |-> dtask, pos |-> dk, handle |-> handle[dtask],
                     mode |-> DAccess.mode]]
    /\ last' = [last EXCEPT ![DNode] = @ + 1]
    /\ old_last' = last[DNode]
    /\ dpc' = "loadFnr"
    /\ UNCHANGED <<first, firstNotReady, removed, taskVars, countVars, dtask, dk,
                   pc, scanVars, readyVars>>

\* add_task: only if everything before the new slot is ready may it be.
AddLoadFNR ==
    /\ dpc = "loadFnr"
    /\ IF firstNotReady[DNode] = old_last
       THEN dpc' = "loadFirst" /\ dk' = dk
       ELSE AddReturn
    /\ UNCHANGED <<nodeVars, taskVars, countVars, dtask, old_last, pc,
                   scanVars, readyVars>>

\* The mutant compares the new slot with itself.
ReadyComparedWithItself(f) ==
    \/ f = old_last
    \/ ~ Serial(DAccess.mode, tasks[DNode][old_last].mode)

\* Nothing is ahead of the new slot (first is f), or its predecessor is
\* parallel with it.
ReadyOnArrival(f) ==
    \/ f = old_last
    \/ ~ Serial(DAccess.mode, tasks[DNode][old_last - 1].mode)

AddLoadFirst ==
    /\ dpc = "loadFirst"
    /\ IF ReadyOnArrival(first[DNode])
       THEN dpc' = "cas" /\ dk' = dk
       ELSE AddReturn
    /\ UNCHANGED <<nodeVars, taskVars, countVars, dtask, old_last, pc,
                   scanVars, readyVars>>

\* add_task's compare_exchange of firstNotReady from old_last to its
\* successor; on failure another thread has taken charge of the slot.
AddCAS ==
    /\ dpc = "cas"
    /\ IF firstNotReady[DNode] = old_last
       THEN /\ firstNotReady' = [firstNotReady EXCEPT ![DNode] = old_last + 1]
            /\ dpc' = "dec" /\ dk' = dk
       ELSE AddReturn /\ UNCHANGED firstNotReady
    /\ UNCHANGED <<first, last, tasks, removed, taskVars, countVars, dtask,
                   old_last, pc, scanVars, readyVars>>

\* waitCounter_p->fetch_sub(1): no test, the sentinel is still in the counter.
AddDec ==
    /\ dpc = "dec"
    /\ waitCounter' = [waitCounter EXCEPT ![dtask] = @ - 1]
    /\ owed' = [owed EXCEPT ![dtask] = @ \ {dk}]
    /\ AddReturn
    /\ UNCHANGED <<nodeVars, taskVars, handed, dtask, old_last, pc, scanVars,
                   readyVars>>

\* The end of dispatch_task: drop the sentinel; if nothing else was left in
\* the counter, this thread runs the task.
FinishRegistration ==
    /\ dpc = "finish"
    /\ waitCounter' = [waitCounter EXCEPT ![dtask] = @ - InvalidWaitState]
    /\ handed' = IF waitCounter[dtask] = InvalidWaitState
                 THEN [handed EXCEPT ![dtask] = @ + 1] ELSE handed
    /\ dpc' = "idle"
    /\ UNCHANGED <<nodeVars, taskVars, owed, dtask, dk, old_last, pc, scanVars,
                   readyVars>>

DispatcherStep ==
    \/ AddPublish \/ AddLoadFNR \/ AddLoadFirst \/ AddCAS \/ AddDec
    \/ FinishRegistration

-----------------------------------------------------------------------------
(* The life of a task, and remove_task.                                    *)

\* An executor resumes the coroutine.
Run(t) ==
    /\ pc[t] = "waiting" /\ handed[t] > 0
    /\ pc' = [pc EXCEPT ![t] = "running"]
    /\ UNCHANGED <<nodeVars, taskVars, countVars, dispVars, scanVars, readyVars>>

\* The body is done and the last owner of the frame lets go of it:
\* ~promise_type calls remove_task on every node of the task, in order.
Finish(t) ==
    /\ pc[t] = "running"
    /\ pc' = [pc EXCEPT ![t] = IF accesses[t] = <<>> THEN "destroyed" ELSE "load"]
    /\ k' = [k EXCEPT ![t] = IF accesses[t] = <<>> THEN 0 ELSE 1]
    /\ UNCHANGED <<nodeVars, taskVars, countVars, dispVars, cur, mid, readyVars>>

\* remove_task returns: its locals are gone, the next node's turn.
Return(t) ==
    /\ pc' = [pc EXCEPT ![t] = IF k[t] = Len(accesses[t]) THEN "destroyed" ELSE "load"]
    /\ k' = [k EXCEPT ![t] = IF k[t] = Len(accesses[t]) THEN 0 ELSE k[t] + 1]
    /\ cur' = [cur EXCEPT ![t] = 0]
    /\ mid' = [mid EXCEPT ![t] = FALSE]
    /\ fnr' = [fnr EXCEPT ![t] = 0]
    /\ temp_last' = [temp_last EXCEPT ![t] = 0]
    /\ newMode' = [newMode EXCEPT ![t] = "None"]
    /\ parallel_exit' = [parallel_exit EXCEPT ![t] = FALSE]

Goto(t, label) == pc' = [pc EXCEPT ![t] = label]

\* cur = first.load(), and the test whether the first slot is the task's own.
RemoveLoadFirst(t) ==
    /\ pc[t] = "load"
    /\ cur' = [cur EXCEPT ![t] = first[NodeOf(t)]]
    /\ Goto(t, IF tasks[NodeOf(t)][first[NodeOf(t)]].handle = handle[t]
               THEN "pop" ELSE "scan")
    /\ UNCHANGED <<nodeVars, taskVars, countVars, dispVars, k, mid, readyVars>>

\* first.fetch_add(1): the task's slot leaves the list.
RemovePop(t) ==
    /\ pc[t] = "pop"
    /\ first' = [first EXCEPT ![NodeOf(t)] = @ + 1]
    /\ cur' = [cur EXCEPT ![t] = first[NodeOf(t)] + 1]
    /\ Goto(t, "sweep")
    /\ UNCHANGED <<firstNotReady, last, tasks, removed, taskVars, countVars,
                   dispVars, k, mid, readyVars>>

\* The slots a scan from cur up to the ready cursor f takes for t's own: the
\* ones with its address.
MatchingSlots(t, f) ==
    {i \in (cur[t] + 1)..(f - 1) : tasks[NodeOf(t)][i].handle = handle[t]}

\* The first slot is another task's: look for the own one up to the loaded
\* firstNotReady and mark removed the first that matches.  The handles of slots below
\* firstNotReady never change.
Scan(t) ==
    /\ pc[t] = "scan"
    /\ LET n        == NodeOf(t)
           matching == MatchingSlots(t, firstNotReady[n])
       IN IF matching # {}
          THEN \E i \in matching :
                  /\ \A j \in matching : i <= j
                  /\ removed' = [removed EXCEPT ![n] = @ \cup {i}]
                  /\ cur' = [cur EXCEPT ![t] = i]
                  /\ Goto(t, "midCas")
          ELSE /\ cur' = [cur EXCEPT ![t] = firstNotReady[n]]
               /\ Goto(t, "ready")
               /\ UNCHANGED removed
    /\ UNCHANGED <<first, firstNotReady, last, tasks, taskVars, countVars,
                   dispVars, k, mid, readyVars>>

\* The exchange after the own slot was marked.  Success means "we have taken
\* over updating"; failure leaves the list to the thread that pops first.
MidCAS(t) ==
    /\ pc[t] = "midCas"
    /\ IF first[NodeOf(t)] = CasExpected(cur[t])
       THEN /\ first' = [first EXCEPT ![NodeOf(t)] = cur[t] + 1]
            /\ cur' = [cur EXCEPT ![t] = cur[t] + 1]
            /\ mid' = [mid EXCEPT ![t] = TRUE]
            /\ Goto(t, "sweep")
            /\ UNCHANGED <<k, readyVars>>
       ELSE Return(t) /\ UNCHANGED first
    /\ UNCHANGED <<firstNotReady, last, tasks, removed, taskVars, countVars,
                   dispVars>>

\* found_completed_task_exit = (tasks[cur].remove_state == 1): go on sweeping,
\* turn to the waiting tasks, or (after a takeover) return.
Sweep(t) ==
    /\ pc[t] = "sweep"
    /\ IF cur[t] \in removed[NodeOf(t)]
       THEN Goto(t, "sweepFnr") /\ UNCHANGED <<scanVars, readyVars>>
       ELSE IF mid[t] THEN Return(t)
       ELSE Goto(t, "ready") /\ UNCHANGED <<scanVars, readyVars>>
    /\ UNCHANGED <<nodeVars, taskVars, countVars, dispVars>>

\* cur != firstNotReady.load()
SweepLoadFNR(t) ==
    /\ pc[t] = "sweepFnr"
    /\ Goto(t, IF cur[t] # firstNotReady[NodeOf(t)] THEN "sweepCas" ELSE "ready")
    /\ UNCHANGED <<nodeVars, taskVars, countVars, dispVars, scanVars, readyVars>>

\* The exchange that should move first over a slot marked removed.
SweepCAS(t) ==
    /\ pc[t] = "sweepCas"
    /\ IF first[NodeOf(t)] = CasExpected(cur[t])
       THEN /\ first' = [first EXCEPT ![NodeOf(t)] = cur[t] + 1]
            /\ cur' = [cur EXCEPT ![t] = cur[t] + 1]
            /\ Goto(t, "sweep")
            /\ UNCHANGED <<k, mid, readyVars>>
       ELSE Return(t) /\ UNCHANGED first
    /\ UNCHANGED <<firstNotReady, last, tasks, removed, taskVars, countVars,
                   dispVars>>

\* fnr = firstNotReady.load()
LoadReady(t) ==
    /\ pc[t] = "ready"
    /\ fnr' = [fnr EXCEPT ![t] = firstNotReady[NodeOf(t)]]
    /\ Goto(t, "readyLast")
    /\ UNCHANGED <<nodeVars, taskVars, countVars, dispVars, scanVars, temp_last,
                   newMode, parallel_exit>>

\* temp_last = last.load(): is the next slot a waiting one?
ReadyLast(t) ==
    /\ pc[t] = "readyLast"
    /\ IF fnr[t] = cur[t] /\ last[NodeOf(t)] # cur[t]
       THEN Goto(t, "readyCas") /\ UNCHANGED <<scanVars, readyVars>>
       ELSE Return(t)
    /\ UNCHANGED <<nodeVars, taskVars, countVars, dispVars>>

\* The mutant does not look at the outcome of the exchange.
ClaimedBlindly(t) == TRUE

\* firstNotReady.compare_exchange_strong(fnr, fnr + 1) would succeed.
Claimed(t) == firstNotReady[NodeOf(t)] = fnr[t]

\* The exchange that makes the first waiting task ready.
ReadyCAS(t) ==
    /\ pc[t] = "readyCas"
    /\ IF Claimed(t)
       THEN /\ firstNotReady' = [firstNotReady EXCEPT ![NodeOf(t)] = fnr[t] + 1]
            /\ newMode' = [newMode EXCEPT ![t] = tasks[NodeOf(t)][fnr[t]].mode]
            /\ Goto(t, "wake")
            /\ UNCHANGED <<scanVars, fnr, temp_last, parallel_exit>>
       ELSE Return(t) /\ UNCHANGED firstNotReady
    /\ UNCHANGED <<first, last, tasks, removed, taskVars, countVars, dispVars>>

\* The slot a waking thread has claimed.
WakeSlot(t) == tasks[NodeOf(t)][fnr[t]]

\* The mutant takes the value fetch_sub returns for the new one.
TakesNoCount(u) == waitCounter[u] = 0

\* fetch_sub(1) == 1.
TakesLastCount(u) == waitCounter[u] = 1

\* waitCounter_p->fetch_sub(1) of the claimed slot; the thread that takes the
\* last count pushes the handle (addTask), then ++fnr.
Wake(t) ==
    /\ pc[t] = "wake"
    /\ LET u == WakeSlot(t).task IN
       /\ waitCounter' = [waitCounter EXCEPT ![u] = @ - 1]
       /\ owed' = [owed EXCEPT ![u] = @ \ {WakeSlot(t).pos}]
       /\ handed' = IF TakesLastCount(u)
                    THEN [handed EXCEPT ![u] = @ + 1] ELSE handed
    /\ fnr' = [fnr EXCEPT ![t] = @ + 1]
    /\ Goto(t, IF parallel_exit[t] THEN "extend" ELSE "loadLast")
    /\ UNCHANGED <<nodeVars, taskVars, dispVars, scanVars, temp_last, newMode,
                   parallel_exit>>

\* temp_last = last.load() at the head of the do loop.
LoadLast(t) ==
    /\ pc[t] = "loadLast"
    /\ temp_last' = [temp_last EXCEPT ![t] = last[NodeOf(t)]]
    /\ Goto(t, "extend")
    /\ UNCHANGED <<nodeVars, taskVars, countVars, dispVars, scanVars, fnr,
                   newMode, parallel_exit>>

\* The condition of the inner loop, and what follows when it fails.
Extend(t) ==
    /\ pc[t] = "extend"
    /\ IF fnr[t] = temp_last[t]
       THEN IF parallel_exit[t]
            THEN Goto(t, "recheck") /\ UNCHANGED <<scanVars, readyVars>>
            ELSE Return(t)
       ELSE IF Serial(newMode[t], tasks[NodeOf(t)][fnr[t]].mode)
            THEN Return(t)
            ELSE /\ parallel_exit' = [parallel_exit EXCEPT ![t] = TRUE]
                 /\ Goto(t, "extendCas")
                 /\ UNCHANGED <<scanVars, fnr, temp_last, newMode>>
    /\ UNCHANGED <<nodeVars, taskVars, countVars, dispVars>>

\* The exchange that makes one more parallel task ready.
ExtendCAS(t) ==
    /\ pc[t] = "extendCas"
    /\ IF Claimed(t)
       THEN /\ firstNotReady' = [firstNotReady EXCEPT ![NodeOf(t)] = fnr[t] + 1]
            /\ Goto(t, "wake")
            /\ UNCHANGED <<scanVars, readyVars>>
       ELSE Return(t) /\ UNCHANGED firstNotReady
    /\ UNCHANGED <<first, last, tasks, removed, taskVars, countVars, dispVars>>

\* while(temp_last != last.load()): tasks were added meanwhile.
Recheck(t) ==
    /\ pc[t] = "recheck"
    /\ IF temp_last[t] # last[NodeOf(t)]
       THEN Goto(t, "loadLast") /\ UNCHANGED <<scanVars, readyVars>>
       ELSE Return(t)
    /\ UNCHANGED <<nodeVars, taskVars, countVars, dispVars>>

RemoveStep(t) ==
    \/ RemoveLoadFirst(t) \/ RemovePop(t) \/ Scan(t) \/ MidCAS(t)
    \/ Sweep(t) \/ SweepLoadFNR(t) \/ SweepCAS(t)
    \/ LoadReady(t) \/ ReadyLast(t) \/ ReadyCAS(t) \/ Wake(t)
    \/ LoadLast(t) \/ Extend(t) \/ ExtendCAS(t) \/ Recheck(t)

\* Every task was dispatched and is gone.
Terminated ==
    /\ dpc = "idle" /\ dtask = NumTasks
    /\ \A t \in Task : pc[t] = "destroyed"
    /\ UNCHANGED vars

Next ==
    \/ Dispatch
    \/ DispatcherStep
    \/ \E t \in Task : Run(t) \/ Finish(t) \/ RemoveStep(t)
    \/ Terminated

Spec == Init /\ [][Next]_vars

\* A thread inside add_task or remove_task is not suspended for ever, an
\* executor takes the tasks it was handed, and every body ends.  Dispatching
\* one more task is never owed.
Fairness ==
    /\ WF_vars(DispatcherStep)
    /\ \A t \in Task : WF_vars(Run(t)) /\ WF_vars(Finish(t)) /\ WF_vars(RemoveStep(t))

FairSpec == Spec /\ Fairness
-----------------------------------------------------------------------------
(* Properties.                                                             *)

Label == {"idle", "waiting", "running", "load", "pop", "scan", "midCas",
          "sweep", "sweepFnr", "sweepCas", "ready", "readyLast", "readyCas",
          "wake", "loadLast", "extend", "extendCas", "recheck", "destroyed"}
DLabel == {"idle", "publish", "loadFnr", "loadFirst", "cas", "dec", "finish"}

\* The types of the nodes, the promises, the dispatcher and the removers.
NodeType ==
    /\ first \in [Nodes -> Nat]
    /\ firstNotReady \in [Nodes -> Nat]
    /\ last \in [Nodes -> SlotIndex]
    /\ tasks \in [Nodes -> [SlotIndex -> Slot]]
    /\ removed \in [Nodes -> SUBSET SlotIndex]

PromiseType ==
    /\ accesses \in [Task -> Seq(Access)]
    /\ handle \in [Task -> Handles \cup {NoHandle}]
    /\ waitCounter \in [Task -> Nat]
    /\ handed \in [Task -> Nat]
    /\ owed \in [Task -> SUBSET Nat]

DispatcherType == dpc \in DLabel /\ dtask \in Nat /\ dk \in Nat /\ old_last \in Nat

LocalsType ==
    /\ pc \in [Task -> Label]
    /\ k \in [Task -> Nat]
    /\ cur \in [Task -> Nat]
    /\ mid \in [Task -> BOOLEAN]
    /\ fnr \in [Task -> Nat]
    /\ temp_last \in [Task -> Nat]
    /\ newMode \in [Task -> Modes \cup {"None"}]
    /\ parallel_exit \in [Task -> BOOLEAN]

\* Every variable has its type; the unsigned waitCounter never wraps below 0
\* and no cursor leaves the array.
TypeOK == NodeType /\ PromiseType /\ DispatcherType /\ LocalsType

Started(t)  == pc[t] \notin {"idle", "waiting"}
Finished(t) == pc[t] \notin {"idle", "waiting", "running"}

\* Tasks t and u name a common node, in modes that must not overlap.
Conflicts(t, u) ==
    \E i \in DOMAIN accesses[t], j \in DOMAIN accesses[u] :
        /\ accesses[t][i].node = accesses[u][j].node
        /\ Serial(accesses[t][i].mode, accesses[u][j].mode)

\* The purpose of the program: a task starts only after every task that was
\* dispatched before it and conflicts with it has run to its end, whatever the
\* interleaving of add_task and of the concurrent remove_tasks.
ProgramOrder ==
    \A t, u \in Task : t < u /\ Started(u) /\ Conflicts(t, u) => Finished(t)

\* dispatch_task is done with the task.
Registered(t) == pc[t] # "idle" /\ (dtask # t \/ dpc = "idle")

\* A task is handed to an executor at most once, and exactly when its
\* registration is over and no node holds it back: the dispatcher dropping
\* the sentinel and the wakers race for the last decrement of waitCounter.
HandedOnce ==
    \A t \in Task :
        handed[t] = IF Registered(t) /\ waitCounter[t] = 0 THEN 1 ELSE 0

\* A thread about to decrement a waitCounter finds it positive and the promise
\* it lives in still waiting: neither underflow nor use after destruction.
NoLateWake ==
    /\ \A t \in Task : pc[t] = "wake" =>
          /\ WakeSlot(t).task \in Task
          /\ pc[WakeSlot(t).task] = "waiting"
          /\ waitCounter[WakeSlot(t).task] > 0
    /\ dpc = "dec" => pc[dtask] = "waiting" /\ waitCounter[dtask] > 0

\* "remove will definitely find the task before fnr" (ResourceNode.hpp:155):
\* a scan has the entry of its own task ahead of it, below the firstNotReady it
\* loads, and neither scan nor pop takes the entry of another task that still
\* exists for it.  The entry of a freed frame at the same address may come
\* first: the scan stops there, and the own entry is never marked.
RemoveFindsTask ==
    \A t \in Task :
        LET n == NodeOf(t)
            OwnOrStale(i) == tasks[n][i].task = t \/ pc[tasks[n][i].task] = "destroyed"
        IN /\ pc[t] = "scan" =>
                 /\ \E i \in MatchingSlots(t, firstNotReady[n]) : tasks[n][i].task = t
                 /\ \A i \in MatchingSlots(t, firstNotReady[n]) : OwnOrStale(i)
           /\ pc[t] = "pop" => OwnOrStale(first[n])

\* The exchange after a slot is marked removed in the middle of the list never
\* succeeds: what follows "we have taken over" is dead code, because the
\* expected value is the incremented cur.
TakeoverNeverSucceeds ==
    \A t \in Task : pc[t] = "midCas" => first[NodeOf(t)] # CasExpected(cur[t])

\* Two threads never hold a claim on the same slot: every count of a
\* waitCounter is taken back by one thread.
OneWakerPerSlot ==
    \A t, u \in Task :
        /\ t # u /\ pc[t] = "wake" /\ pc[u] = "wake" /\ NodeOf(t) = NodeOf(u)
              => fnr[t] # fnr[u]
        /\ pc[t] = "wake" /\ dpc = "dec" /\ NodeOf(t) = DNode => fnr[t] # old_last

\* A dispatched task gets to run: "once all resources are ready, coro handle
\* will be pushed to ready queue" (ThreadPool.hpp:267).
EveryTaskRuns == \A t \in Task : pc[t] = "waiting" ~> pc[t] = "running"

\* What an observer of the program sees of a task; a task inside remove_task
\* has run to its end.
Phase(label) ==
    IF label = "idle" THEN "new"
    ELSE IF label = "waiting" THEN "submitted"
    ELSE IF label = "running" THEN "running"
    ELSE "done"

\* Seen from outside, the nodes implement the order promised by TaskOrder.
Order == INSTANCE TaskOrder WITH phase <- [t \in Task |-> Phase(pc[t])]

ImplementsOrder == Order!Spec
=============================================================================
