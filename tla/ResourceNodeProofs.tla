------------------------- MODULE ResourceNodeProofs -------------------------
(***************************************************************************)
(* Proofs about ResourceNode, for every program in which no task names a   *)
(* node twice: IInv of ResourceNodeInv is inductive, and the safety        *)
(* properties follow from it.                                              *)
(***************************************************************************)
EXTENDS ResourceNodeInv, FiniteSetTheorems, TLAPS

USE DEF nodeVars, taskVars, countVars, dispVars, scanVars, readyVars, vars

TaskStep(t) == Run(t) \/ Finish(t) \/ RemoveStep(t)

-----------------------------------------------------------------------------
(* Which step changes what.                                                *)

\* Steps of tasks leave the arrays and the dispatcher alone.
LEMMA TaskFrame ==
  ASSUME NEW t \in Task, TaskStep(t)
  PROVE  UNCHANGED <<last, tasks, accesses, handle, dpc, dtask, dk, old_last>>
BY DEF TaskStep, Run, Finish, RemoveStep, RemoveLoadFirst, RemovePop, Scan, MidCAS,
       Sweep, SweepLoadFNR, SweepCAS, LoadReady, ReadyLast, ReadyCAS, Wake,
       LoadLast, Extend, ExtendCAS, Recheck, Return, Goto

\* Steps of a task leave the locals of the others alone.
LEMMA OthersFrame ==
  ASSUME TypeOK, NEW t \in Task, TaskStep(t), NEW u \in Task, u # t
  PROVE  /\ pc'[u] = pc[u] /\ k'[u] = k[u] /\ cur'[u] = cur[u] /\ mid'[u] = mid[u]
         /\ fnr'[u] = fnr[u] /\ temp_last'[u] = temp_last[u]
         /\ newMode'[u] = newMode[u] /\ parallel_exit'[u] = parallel_exit[u]
<1>. /\ pc \in [Task -> Label] /\ k \in [Task -> Nat] /\ cur \in [Task -> Nat]
     /\ mid \in [Task -> BOOLEAN] /\ fnr \in [Task -> Nat] /\ temp_last \in [Task -> Nat]
     /\ newMode \in [Task -> Modes \cup {"None"}] /\ parallel_exit \in [Task -> BOOLEAN]
  BY DEF TypeOK, NodeType, PromiseType, DispatcherType, LocalsType
<1>1. CASE Run(t) \/ Finish(t) \/ Scan(t) \/ RemoveLoadFirst(t) \/ RemovePop(t)
  BY <1>1 DEF Run, Finish, Scan, RemoveLoadFirst, RemovePop, Goto
<1>2. CASE MidCAS(t) \/ Sweep(t) \/ SweepLoadFNR(t) \/ SweepCAS(t)
  BY <1>2 DEF MidCAS, Sweep, SweepLoadFNR, SweepCAS, Return, Goto
<1>3. CASE LoadReady(t) \/ ReadyLast(t) \/ ReadyCAS(t) \/ Wake(t)
  BY <1>3 DEF LoadReady, ReadyLast, ReadyCAS, Wake, Return, Goto
<1>4. CASE LoadLast(t) \/ Extend(t) \/ ExtendCAS(t) \/ Recheck(t)
  BY <1>4 DEF LoadLast, Extend, ExtendCAS, Recheck, Return, Goto
<1> QED BY <1>1, <1>2, <1>3, <1>4 DEF TaskStep, RemoveStep

\* Steps of the dispatcher inside dispatch_task leave the tasks alone.
LEMMA DispatcherFrame ==
  ASSUME DispatcherStep
  PROVE  UNCHANGED <<first, removed, accesses, handle, dtask, pc, k, cur, mid, fnr,
                     temp_last, newMode, parallel_exit>>
BY DEF DispatcherStep, AddPublish, AddLoadFNR, AddLoadFirst, AddCAS, AddDec,
       FinishRegistration, AddReturn
-----------------------------------------------------------------------------
(* Facts of a state.                                                       *)

\* The accesses of a dispatched task are well typed.
LEMMA AccessType ==
  ASSUME IInv, NEW t \in Task, NEW p \in DOMAIN accesses[t]
  PROVE  /\ p \in Nat /\ 0 < p /\ p <= Len(accesses[t])
         /\ ANode(t, p) \in Nodes /\ AMode(t, p) \in Modes
<1>1. accesses[t] \in Seq(Access) BY DEF IInv, TypeOK, NodeType, PromiseType, DispatcherType, LocalsType
<1>2. accesses[t][p] \in Access BY <1>1
<1> QED BY <1>1, <1>2 DEF Access, ANode, AMode

\* A parallel pair has one mode, so that being parallel is transitive.
LEMMA ParallelModes ==
  ASSUME NEW a, NEW b
  PROVE  Parallel(a, b) <=> a = b /\ a \in {"Read", "AAdd", "AMul"}
BY DEF Parallel, Serial

\* A task dispatch_task is done with is registered at all its nodes.
LEMMA RegisteredFacts ==
  ASSUME IInv, NEW t \in Task, Registered(t), NEW p \in DOMAIN accesses[t]
  PROVE  t <= dtask /\ Published(t, p)
<1>1. pc[t] # "idle" BY DEF Registered
<1>2. dtask \in Nat /\ dk \in Nat /\ t \in Nat /\ p \in Nat /\ p <= Len(accesses[t])
  <2>1. dtask \in Nat /\ dk \in Nat BY DEF IInv, TypeOK, NodeType, PromiseType, DispatcherType, LocalsType
  <2>2. t \in Nat BY NumTasksAssumption DEF Task
  <2> QED BY <2>1, <2>2, AccessType
<1>3. t <= dtask BY <1>1, <1>2 DEF IInv, DispatcherInv
<1>4. CASE t < dtask BY <1>1, <1>2, <1>4 DEF Published
<1>5. CASE t = dtask
  <2>1. dpc = "idle" BY <1>1, <1>5 DEF Registered
  <2>2. dk = Len(accesses[t]) + 1
    BY <2>1, <1>5, <1>2 DEF IInv, DispatcherInv, Task
  <2>3. Len(accesses[t]) \in Nat BY DEF IInv, TypeOK, NodeType, PromiseType, DispatcherType, LocalsType
  <2> QED BY <1>1, <1>2, <1>3, <1>5, <2>2, <2>3 DEF Published
<1> QED BY <1>2, <1>3, <1>4, <1>5

\* What a written slot says about its task.
LEMMA SlotFacts ==
  ASSUME IInv, NEW n \in Nodes, NEW i \in SlotIndex, i < last[n]
  PROVE  /\ tasks[n][i].task \in Task /\ tasks[n][i].task <= dtask
         /\ tasks[n][i].pos \in DOMAIN accesses[tasks[n][i].task]
         /\ Published(tasks[n][i].task, tasks[n][i].pos)
         /\ tasks[n][i].handle = handle[tasks[n][i].task]
         /\ ANode(tasks[n][i].task, tasks[n][i].pos) = n
         /\ AMode(tasks[n][i].task, tasks[n][i].pos) = tasks[n][i].mode
         /\ pc[tasks[n][i].task] # "idle"
<1>1. /\ tasks[n][i].task \in Task /\ tasks[n][i].task <= dtask
      /\ tasks[n][i].pos \in DOMAIN accesses[tasks[n][i].task]
      /\ Published(tasks[n][i].task, tasks[n][i].pos)
      /\ tasks[n][i].handle = handle[tasks[n][i].task]
      /\ ANode(tasks[n][i].task, tasks[n][i].pos) = n
      /\ AMode(tasks[n][i].task, tasks[n][i].pos) = tasks[n][i].mode
  BY DEF IInv, SlotInv
<1>2. pc[tasks[n][i].task] # "idle"
  BY <1>1, NumTasksAssumption DEF IInv, DispatcherInv, TypeOK, NodeType, PromiseType, DispatcherType, LocalsType, Task
<1> QED BY <1>1, <1>2

\* A task names a node once.
LEMMA AccessUnique ==
  ASSUME IInv, NEW t \in Task, NEW p \in DOMAIN accesses[t], NEW q \in DOMAIN accesses[t],
         ANode(t, p) = ANode(t, q)
  PROVE  p = q
BY DistinctNodesAssumption DEF IInv, DispatcherInv, ANode

\* The cursors are indexes of the array.
LEMMA CursorFacts ==
  ASSUME IInv, NEW n \in Nodes
  PROVE  /\ first[n] \in Nat /\ firstNotReady[n] \in Nat /\ last[n] \in Nat
         /\ first[n] <= firstNotReady[n] /\ firstNotReady[n] <= last[n]
         /\ last[n] < Capacity /\ Capacity \in Nat
         /\ \A i \in Nat : i < last[n] => i \in SlotIndex
BY CapacityAssumption DEF IInv, TypeOK, NodeType, PromiseType, DispatcherType, LocalsType, CursorInv, SlotIndex

\* The slot of a task that looks for itself lies in the window.
LEMMA OwnSlot ==
  ASSUME IInv, NEW t \in Task, pc[t] \in {"load", "pop", "scan", "midCas"}
  PROVE  \E i \in SlotIndex :
           /\ first[NodeOf(t)] <= i /\ i < firstNotReady[NodeOf(t)] /\ i < last[NodeOf(t)]
           /\ tasks[NodeOf(t)][i].task = t /\ tasks[NodeOf(t)][i].pos = k[t]
           /\ tasks[NodeOf(t)][i].handle = handle[t]
<1>1. Started(t) /\ Removing(t) BY DEF Started, Removing, Finished
<1>2. k[t] \in DOMAIN accesses[t] BY <1>1 DEF IInv, RemoveInv
<1>3. t <= dtask /\ Published(t, k[t]) /\ owed[t] = {}
  BY <1>1, <1>2, RegisteredFacts DEF IInv, CountInv
<1>4. NodeOf(t) = ANode(t, k[t]) /\ NodeOf(t) \in Nodes BY <1>2, AccessType DEF NodeOf, ANode
<1>5. PICK i \in SlotIndex : i < last[NodeOf(t)] /\ tasks[NodeOf(t)][i].task = t
  BY <1>2, <1>3, <1>4 DEF IInv, RegisteredInv
<1>6. /\ tasks[NodeOf(t)][i].pos \in DOMAIN accesses[t]
      /\ tasks[NodeOf(t)][i].handle = handle[t]
      /\ ANode(t, tasks[NodeOf(t)][i].pos) = NodeOf(t)
  BY <1>4, <1>5, SlotFacts
<1>7. tasks[NodeOf(t)][i].pos = k[t] BY <1>2, <1>4, <1>6, AccessUnique
<1>8. i \in Nat BY DEF SlotIndex
<1>9. i < firstNotReady[NodeOf(t)]
  BY <1>3, <1>4, <1>5, <1>8, CursorFacts DEF IInv, OwedInv
<1>10. ~ PastPop(t, k[t])
  BY <1>2, AccessType DEF PastPop
<1>11. first[NodeOf(t)] <= i
  BY <1>4, <1>5, <1>7, <1>8, <1>10, CursorFacts DEF IInv, PoppedInv
<1> QED BY <1>5, <1>6, <1>7, <1>9, <1>11

\* A slot with the handle of a live task is its own, or a dead task's.
LEMMA HandleOwner ==
  ASSUME IInv, NEW n \in Nodes, NEW i \in SlotIndex, i < last[n],
         NEW t \in Task, Live(t), tasks[n][i].handle = handle[t]
  PROVE  tasks[n][i].task = t \/ pc[tasks[n][i].task] = "destroyed"
BY SlotFacts DEF IInv, HandleInv, Live

\* The slot a waking thread has claimed.
LEMMA WakeFacts ==
  ASSUME IInv, NEW t \in Task, pc[t] = "wake"
  PROVE  /\ NodeOf(t) \in Nodes /\ fnr[t] \in SlotIndex
         /\ fnr[t] < firstNotReady[NodeOf(t)] /\ fnr[t] < last[NodeOf(t)]
         /\ WakeSlot(t).task \in Task /\ WakeSlot(t).pos \in owed[WakeSlot(t).task]
         /\ ANode(WakeSlot(t).task, WakeSlot(t).pos) = NodeOf(t)
         /\ WakeSlot(t).pos \in DOMAIN accesses[WakeSlot(t).task]
         /\ pc[WakeSlot(t).task] = "waiting"
<1>1. NodeOf(t) \in Nodes
  BY AccessType DEF IInv, RemoveInv, Removing, Finished, NodeOf, ANode
<1>2. fnr[t] \in Nat /\ fnr[t] < firstNotReady[NodeOf(t)]
  BY DEF IInv, ExtendInv, TypeOK, NodeType, PromiseType, DispatcherType, LocalsType
<1>3. fnr[t] \in SlotIndex /\ fnr[t] < last[NodeOf(t)] BY <1>1, <1>2, CursorFacts
<1>4. WakeSlot(t).pos \in owed[WakeSlot(t).task] BY DEF IInv, OwedInv
<1>5. /\ WakeSlot(t).task \in Task /\ pc[WakeSlot(t).task] # "idle"
      /\ ANode(WakeSlot(t).task, WakeSlot(t).pos) = NodeOf(t)
      /\ WakeSlot(t).pos \in DOMAIN accesses[WakeSlot(t).task]
  BY <1>1, <1>3, SlotFacts DEF WakeSlot
<1>6. ~ Started(WakeSlot(t).task) BY <1>4, <1>5 DEF IInv, CountInv
<1> QED BY <1>1, <1>2, <1>3, <1>4, <1>5, <1>6 DEF Started

\* A waitCounter is what it counts.
LEMMA CountFacts ==
  ASSUME IInv, NEW t \in Task
  PROVE  /\ IsFiniteSet(owed[t]) /\ Cardinality(owed[t]) \in Nat
         /\ (Cardinality(owed[t]) = 0 <=> owed[t] = {})
         /\ InvalidWaitState \in Nat /\ (owed[t] # {} => InvalidWaitState > 0)
<1>1. owed[t] \subseteq 1..Len(accesses[t]) /\ Len(accesses[t]) \in Nat
  BY DEF IInv, CountInv, TypeOK, NodeType, PromiseType, DispatcherType, LocalsType
<1>2. IsFiniteSet(owed[t])
  <2>1. IsFiniteSet(1..Len(accesses[t])) BY <1>1, FS_Interval
  <2> QED BY <1>1, <2>1, FS_Subset
<1>3. Cardinality(owed[t]) \in Nat /\ (Cardinality(owed[t]) = 0 <=> owed[t] = {})
  BY <1>2, FS_CardinalityType, FS_EmptySet
<1>4. ASSUME owed[t] # {} PROVE InvalidWaitState > 0
  <2>1. accesses[t] \in AccessLists BY <1>1, <1>4 DEF IInv, DispatcherInv
  <2> QED BY <1>1, <2>1, SentinelAssumption
<1> QED BY <1>2, <1>3, <1>4, SentinelAssumption

-----------------------------------------------------------------------------
(* What a step does.                                                       *)

LEMMA NextCases ==
  ASSUME Next
  PROVE  Dispatch \/ DispatcherStep \/ (\E t \in Task : TaskStep(t)) \/ UNCHANGED vars
BY DEF Next, TaskStep, Terminated

\* A dispatch begins the registration of the next task of the program.
LEMMA DispatchFacts ==
  ASSUME IInv, Dispatch
  PROVE  /\ dpc = "idle" /\ dtask' = dtask + 1 /\ dtask' \in Task /\ dtask' \in Nat
         /\ dk' = 1 /\ pc[dtask'] = "idle" /\ pc'[dtask'] = "waiting"
         /\ accesses'[dtask'] \in AccessLists
         /\ dpc' = IF accesses'[dtask'] = <<>> THEN "finish" ELSE "publish"
         /\ owed'[dtask'] = 1..Len(accesses'[dtask'])
         /\ waitCounter'[dtask'] = InvalidWaitState + Len(accesses'[dtask'])
         /\ handle'[dtask'] \in Handles
         /\ \A u \in Task : Live(u) => handle[u] # handle'[dtask']
         /\ \A u \in Task : u # dtask' =>
               /\ accesses'[u] = accesses[u] /\ handle'[u] = handle[u]
               /\ waitCounter'[u] = waitCounter[u] /\ owed'[u] = owed[u]
               /\ pc'[u] = pc[u]
         /\ UNCHANGED <<nodeVars, handed, old_last, scanVars, readyVars>>
<1>. /\ accesses \in [Task -> Seq(Access)] /\ handle \in [Task -> Handles \cup {NoHandle}]
     /\ waitCounter \in [Task -> Nat] /\ owed \in [Task -> SUBSET Nat]
     /\ pc \in [Task -> Label] /\ dtask \in Nat
  BY DEF IInv, TypeOK, NodeType, PromiseType, DispatcherType, LocalsType
<1>1. dtask + 1 \in Task BY NumTasksAssumption DEF Dispatch, Task
<1>2. pc[dtask + 1] = "idle" BY <1>1 DEF IInv, DispatcherInv
<1>3. PICK acc \in AccessLists,
           h \in AllocatorChoices[dtask + 1] \ {handle[u] : u \in {v \in Task : Live(v)}} :
          /\ accesses' = [accesses EXCEPT ![dtask + 1] = acc]
          /\ handle' = [handle EXCEPT ![dtask + 1] = h]
          /\ waitCounter' = [waitCounter EXCEPT ![dtask + 1] = InitialCount(acc)]
          /\ owed' = [owed EXCEPT ![dtask + 1] = 1..Len(acc)]
          /\ pc' = [pc EXCEPT ![dtask + 1] = "waiting"]
          /\ dtask' = dtask + 1
          /\ dk' = 1
          /\ dpc' = IF acc = <<>> THEN "finish" ELSE "publish"
  BY DEF Dispatch
<1>4. h \in Handles BY <1>1, HandleAssumption
<1>5. \A u \in Task : Live(u) => handle[u] # h OBVIOUS
<1>6. dpc = "idle" /\ UNCHANGED <<nodeVars, handed, old_last, scanVars, readyVars>>
  BY DEF Dispatch
<1> QED BY <1>1, <1>2, <1>3, <1>4, <1>5, <1>6 DEF InitialCount

\* The access being registered.
LEMMA AddFacts ==
  ASSUME IInv, dpc \in {"publish", "loadFnr", "loadFirst", "cas", "dec"}
  PROVE  /\ dtask \in Task /\ dtask \in Nat /\ dk \in DOMAIN accesses[dtask]
         /\ dk \in Nat /\ 0 < dk /\ dk <= Len(accesses[dtask])
         /\ DNode \in Nodes /\ DNode = ANode(dtask, dk)
         /\ DAccess.mode = AMode(dtask, dk) /\ DAccess.mode \in Modes
         /\ pc[dtask] = "waiting" /\ ~ Registered(dtask)
<1>1. dtask \in Task /\ dk \in DOMAIN accesses[dtask] /\ pc[dtask] = "waiting" /\ dtask \in Nat
  BY DEF IInv, DispatcherInv, Adding, TypeOK, NodeType, PromiseType, DispatcherType, LocalsType
<1>2. ~ Registered(dtask) BY DEF Registered
<1> QED BY <1>1, <1>2, AccessType DEF DNode, DAccess, ANode, AMode

\* The slot add_task works on.
LEMMA AddingFacts ==
  ASSUME IInv, Adding
  PROVE  /\ old_last \in SlotIndex /\ old_last \in Nat /\ last[DNode] = old_last + 1
         /\ tasks[DNode][old_last].task = dtask /\ tasks[DNode][old_last].pos = dk
         /\ tasks[DNode][old_last].mode = DAccess.mode
<1>1. last[DNode] = old_last + 1 /\ tasks[DNode][old_last].task = dtask
  BY DEF IInv, AddInv
<1>2. DNode \in Nodes /\ dk \in DOMAIN accesses[dtask] /\ DNode = ANode(dtask, dk)
      /\ dtask \in Task /\ DAccess.mode = AMode(dtask, dk)
  BY AddFacts DEF Adding
<1>3. old_last \in Nat BY DEF IInv, TypeOK, NodeType, PromiseType, DispatcherType, LocalsType
<1>4. old_last \in SlotIndex /\ old_last < last[DNode] BY <1>1, <1>2, <1>3, CursorFacts
<1>5. /\ tasks[DNode][old_last].pos \in DOMAIN accesses[dtask]
      /\ ANode(dtask, tasks[DNode][old_last].pos) = DNode
      /\ AMode(dtask, tasks[DNode][old_last].pos) = tasks[DNode][old_last].mode
  BY <1>1, <1>2, <1>4, SlotFacts
<1>6. tasks[DNode][old_last].pos = dk BY <1>2, <1>5, AccessUnique
<1> QED BY <1>1, <1>2, <1>3, <1>4, <1>5, <1>6

\* The node a remove_task works on.
LEMMA RemoveFacts ==
  ASSUME IInv, NEW t \in Task, Removing(t)
  PROVE  /\ k[t] \in DOMAIN accesses[t] /\ k[t] \in Nat /\ 0 < k[t]
         /\ k[t] <= Len(accesses[t]) /\ Len(accesses[t]) \in Nat
         /\ NodeOf(t) \in Nodes /\ NodeOf(t) = ANode(t, k[t])
<1>1. k[t] \in DOMAIN accesses[t] /\ Len(accesses[t]) \in Nat
  BY DEF IInv, RemoveInv, TypeOK, NodeType, PromiseType, DispatcherType, LocalsType
<1> QED BY <1>1, AccessType DEF NodeOf, ANode

\* first moves by a pop only: an exchange that succeeds stores what it found.
LEMMA FirstStep ==
  ASSUME IInv, Next
  PROVE  first' = first \/ \E t \in Task : RemovePop(t)
<1>. first \in [Nodes -> Nat] BY DEF IInv, TypeOK, NodeType, PromiseType, DispatcherType, LocalsType
<1>1. CASE Dispatch BY <1>1 DEF Dispatch
<1>2. CASE DispatcherStep BY <1>2, DispatcherFrame
<1>3. ASSUME NEW t \in Task, TaskStep(t) PROVE first' = first \/ RemovePop(t)
  <2>1. CASE MidCAS(t) BY <2>1 DEF MidCAS, CasExpected
  <2>2. CASE SweepCAS(t) BY <2>2 DEF SweepCAS, CasExpected
  <2>3. CASE Run(t) \/ Finish(t) \/ RemoveLoadFirst(t) \/ Scan(t) \/ Sweep(t)
             \/ SweepLoadFNR(t) \/ LoadReady(t) \/ ReadyLast(t) \/ ReadyCAS(t)
             \/ Wake(t) \/ LoadLast(t) \/ Extend(t) \/ ExtendCAS(t) \/ Recheck(t)
    BY <2>3 DEF Run, Finish, RemoveLoadFirst, Scan, Sweep, SweepLoadFNR, LoadReady,
                ReadyLast, ReadyCAS, Wake, LoadLast, Extend, ExtendCAS, Recheck
  <2> QED BY <1>3, <2>1, <2>2, <2>3 DEF TaskStep, RemoveStep
<1>4. CASE UNCHANGED vars BY <1>4
<1> QED BY <1>1, <1>2, <1>3, <1>4, NextCases

\* A slot becomes ready by the dispatcher's exchange or a remover's.
LEMMA ReadyStep ==
  ASSUME IInv, Next
  PROVE  \/ firstNotReady' = firstNotReady
         \/ AddCAS /\ firstNotReady[DNode] = old_last
         \/ \E t \in Task : (ReadyCAS(t) \/ ExtendCAS(t)) /\ Claimed(t)
<1>1. CASE Dispatch BY <1>1 DEF Dispatch
<1>2. CASE DispatcherStep
  BY <1>2 DEF DispatcherStep, AddPublish, AddLoadFNR, AddLoadFirst, AddCAS, AddDec,
              FinishRegistration
<1>3. ASSUME NEW t \in Task, TaskStep(t)
      PROVE  firstNotReady' = firstNotReady \/ ((ReadyCAS(t) \/ ExtendCAS(t)) /\ Claimed(t))
  <2>1. CASE ReadyCAS(t) \/ ExtendCAS(t) BY <2>1 DEF ReadyCAS, ExtendCAS
  <2>2. CASE Run(t) \/ Finish(t) \/ RemoveLoadFirst(t) \/ RemovePop(t) \/ Scan(t)
             \/ MidCAS(t) \/ Sweep(t) \/ SweepLoadFNR(t) \/ SweepCAS(t) \/ LoadReady(t)
             \/ ReadyLast(t) \/ Wake(t) \/ LoadLast(t) \/ Extend(t) \/ Recheck(t)
    BY <2>2 DEF Run, Finish, RemoveLoadFirst, RemovePop, Scan, MidCAS, Sweep,
                SweepLoadFNR, SweepCAS, LoadReady, ReadyLast, Wake, LoadLast, Extend, Recheck
  <2> QED BY <1>3, <2>1, <2>2 DEF TaskStep, RemoveStep
<1>4. CASE UNCHANGED vars BY <1>4
<1> QED BY <1>1, <1>2, <1>3, <1>4, NextCases

\* The slot a thread makes ready is a waiting one, at the edge of the window,
\* and parallel with everything in the window.
LEMMA ClaimFacts ==
  ASSUME IInv, NEW t \in Task, pc[t] \in {"readyCas", "extendCas"}, Claimed(t)
  PROVE  /\ NodeOf(t) \in Nodes /\ fnr[t] \in Nat /\ fnr[t] < last[NodeOf(t)]
         /\ fnr[t] = firstNotReady[NodeOf(t)]
         /\ \A i \in SlotIndex : first[NodeOf(t)] <= i /\ i < fnr[t]
               => Parallel(tasks[NodeOf(t)][i].mode, tasks[NodeOf(t)][fnr[t]].mode)
<1>1. NodeOf(t) \in Nodes BY RemoveFacts DEF Removing, Finished
<1>2. fnr[t] \in Nat /\ cur[t] \in Nat /\ temp_last[t] \in Nat BY DEF IInv, TypeOK, NodeType, PromiseType, DispatcherType, LocalsType
<1>3. fnr[t] = firstNotReady[NodeOf(t)] BY DEF Claimed
<1>4. CASE pc[t] = "readyCas"
  <2>1. cur[t] <= first[NodeOf(t)] /\ fnr[t] = cur[t] /\ cur[t] < last[NodeOf(t)]
    BY <1>4 DEF IInv, ReadyInv, Readying
  <2> QED BY <1>1, <1>2, <1>3, <2>1, CursorFacts DEF SlotIndex
<1>5. CASE pc[t] = "extendCas"
  <2>1. /\ 0 < fnr[t] /\ fnr[t] < temp_last[t] /\ temp_last[t] <= last[NodeOf(t)]
        /\ newMode[t] = tasks[NodeOf(t)][fnr[t] - 1].mode
        /\ Parallel(newMode[t], tasks[NodeOf(t)][fnr[t]].mode)
    BY <1>5 DEF IInv, ExtendInv, Extending, WakeSlot
  <2>2. fnr[t] < last[NodeOf(t)] BY <1>1, <1>2, <2>1, CursorFacts
  <2>3. ASSUME NEW i \in SlotIndex, first[NodeOf(t)] <= i, i < fnr[t]
        PROVE  Parallel(tasks[NodeOf(t)][i].mode, tasks[NodeOf(t)][fnr[t]].mode)
    <3>1. i \in Nat /\ fnr[t] - 1 \in Nat /\ fnr[t] - 1 \in SlotIndex
      BY <1>1, <1>2, <2>1, <2>2, CursorFacts DEF SlotIndex
    <3>2. CASE i = fnr[t] - 1 BY <2>1, <3>2
    <3>3. CASE i < fnr[t] - 1
      <4>1. Parallel(tasks[NodeOf(t)][i].mode, tasks[NodeOf(t)][fnr[t] - 1].mode)
        BY <1>1, <1>2, <1>3, <2>3, <3>1, <3>3, CursorFacts DEF IInv, WindowInv
      <4> QED BY <2>1, <4>1, ParallelModes
    <3> QED BY <1>2, <2>3, <3>1, <3>2, <3>3
  <2> QED BY <1>1, <1>2, <1>3, <2>2, <2>3
<1> QED BY <1>4, <1>5

\* The same for the slot add_task makes ready.
LEMMA AddClaimFacts ==
  ASSUME IInv, dpc = "cas", firstNotReady[DNode] = old_last
  PROVE  \A i \in SlotIndex : first[DNode] <= i /\ i < old_last
            => Parallel(tasks[DNode][i].mode, tasks[DNode][old_last].mode)
<1>1. /\ DNode \in Nodes /\ old_last \in Nat /\ old_last \in SlotIndex
      /\ tasks[DNode][old_last].mode = DAccess.mode /\ last[DNode] = old_last + 1
  BY AddFacts, AddingFacts DEF Adding
<1>2. SUFFICES ASSUME NEW i \in SlotIndex, first[DNode] <= i, i < old_last
               PROVE  Parallel(tasks[DNode][i].mode, DAccess.mode)
  BY <1>1
<1>3. i \in Nat /\ first[DNode] \in Nat /\ old_last - 1 \in SlotIndex
  BY <1>1, <1>2, CursorFacts DEF SlotIndex
<1>4. Parallel(DAccess.mode, tasks[DNode][old_last - 1].mode)
  BY <1>1, <1>2, <1>3 DEF IInv, AddInv
<1>5. CASE i = old_last - 1 BY <1>4, <1>5, ParallelModes
<1>6. CASE i < old_last - 1
  <2>1. Parallel(tasks[DNode][i].mode, tasks[DNode][old_last - 1].mode)
    BY <1>1, <1>2, <1>3, <1>6 DEF IInv, WindowInv
  <2> QED BY <1>4, <2>1, ParallelModes
<1> QED BY <1>1, <1>2, <1>3, <1>5, <1>6

\* The slot a task pops is its own, or a dead task's.
LEMMA PopFacts ==
  ASSUME IInv, NEW t \in Task, RemovePop(t)
  PROVE  LET n == NodeOf(t) IN
         /\ n \in Nodes /\ pc[t] = "pop" /\ first[n] < firstNotReady[n]
         /\ first' = [first EXCEPT ![n] = first[n] + 1] /\ cur'[t] = first[n] + 1
         /\ first[n] \in SlotIndex /\ first[n] < last[n]
         /\ tasks[n][first[n]].handle = handle[t]
         /\ \/ pc[tasks[n][first[n]].task] = "destroyed"
            \/ tasks[n][first[n]].task = t /\ tasks[n][first[n]].pos = k[t]
<1> DEFINE n == NodeOf(t)
<1>1. pc[t] = "pop" /\ n \in Nodes /\ k[t] \in DOMAIN accesses[t] /\ n = ANode(t, k[t])
  BY RemoveFacts DEF RemovePop, Removing, Finished
<1>2. first[n] < firstNotReady[n] /\ tasks[n][first[n]].handle = handle[t]
  BY <1>1 DEF IInv, PopInv
<1>3. first[n] \in SlotIndex /\ first[n] < last[n] BY <1>1, <1>2, CursorFacts
<1>4. tasks[n][first[n]].task = t \/ pc[tasks[n][first[n]].task] = "destroyed"
  BY <1>1, <1>2, <1>3, HandleOwner DEF Live
<1>5. ASSUME tasks[n][first[n]].task = t PROVE tasks[n][first[n]].pos = k[t]
  <2>1. /\ tasks[n][first[n]].pos \in DOMAIN accesses[t]
        /\ ANode(t, tasks[n][first[n]].pos) = n
    BY <1>1, <1>3, <1>5, SlotFacts
  <2> QED BY <1>1, <2>1, AccessUnique
<1>6. first' = [first EXCEPT ![n] = first[n] + 1] /\ cur'[t] = first[n] + 1
  BY DEF RemovePop, IInv, TypeOK, NodeType, PromiseType, DispatcherType, LocalsType
<1> QED BY <1>1, <1>2, <1>3, <1>4, <1>5, <1>6

-----------------------------------------------------------------------------
(* Every step keeps every part of the invariant.                           *)

\* Taking back a count that is owed leaves a natural number.
LEMMA TakeBack ==
  ASSUME IInv, NEW t \in Task, NEW p \in owed[t]
  PROVE  /\ waitCounter[t] \in Nat /\ waitCounter[t] > 0 /\ waitCounter[t] - 1 \in Nat
         /\ waitCounter[t] - 1 = (IF Registered(t) THEN 0 ELSE InvalidWaitState)
                                   + Cardinality(owed[t] \ {p})
         /\ (waitCounter[t] = 1 <=> Registered(t) /\ owed[t] \ {p} = {})
<1>1. /\ IsFiniteSet(owed[t]) /\ Cardinality(owed[t]) \in Nat /\ Cardinality(owed[t]) # 0
      /\ InvalidWaitState \in Nat /\ InvalidWaitState > 0
  BY CountFacts
<1>2. waitCounter[t] = (IF Registered(t) THEN 0 ELSE InvalidWaitState) + Cardinality(owed[t])
  BY DEF IInv, CountInv
<1>3. Cardinality(owed[t] \ {p}) = Cardinality(owed[t]) - 1
  BY <1>1, FS_RemoveElement
<1>4. IsFiniteSet(owed[t] \ {p}) BY <1>1, FS_RemoveElement
<1>5. Cardinality(owed[t] \ {p}) = 0 <=> owed[t] \ {p} = {}
  BY <1>4, FS_EmptySet
<1> QED BY <1>1, <1>2, <1>3, <1>5

LEMMA TypeOKStep == IInv /\ Next => TypeOK'
<1>. SUFFICES ASSUME IInv, Next PROVE TypeOK' OBVIOUS
<1>. NodeType /\ PromiseType /\ DispatcherType /\ LocalsType BY DEF IInv, TypeOK
<1>1. CASE Dispatch
  <2>1. NodeType' BY <1>1 DEF Dispatch, NodeType
  <2>2. PromiseType'
    <3>1. PICK acc \in AccessLists,
               h \in AllocatorChoices[dtask + 1] \ {handle[u] : u \in {v \in Task : Live(v)}} :
              /\ accesses' = [accesses EXCEPT ![dtask + 1] = acc]
              /\ handle' = [handle EXCEPT ![dtask + 1] = h]
              /\ waitCounter' = [waitCounter EXCEPT ![dtask + 1] = InitialCount(acc)]
              /\ owed' = [owed EXCEPT ![dtask + 1] = 1..Len(acc)]
      BY <1>1 DEF Dispatch
    <3>2. dtask + 1 \in Task BY <1>1, DispatchFacts
    <3>3. h \in Handles BY <3>2, HandleAssumption
    <3>4. acc \in Seq(Access) /\ InitialCount(acc) \in Nat
      BY AccessListsAssumption, SentinelAssumption DEF InitialCount
    <3>5. UNCHANGED handed BY <1>1 DEF Dispatch
    <3>6. (1..Len(acc)) \in SUBSET Nat BY <3>4
    <3> QED BY <3>1, <3>3, <3>4, <3>5, <3>6 DEF PromiseType
  <2>3. DispatcherType'
    BY <1>1, DispatchFacts DEF DispatcherType, DLabel
  <2>4. LocalsType' BY <1>1 DEF Dispatch, LocalsType, Label
  <2> QED BY <2>1, <2>2, <2>3, <2>4 DEF TypeOK
<1>2. CASE DispatcherStep
  <2>. /\ UNCHANGED <<first, removed, accesses, handle, dtask, pc, k, cur, mid, fnr,
                      temp_last, newMode, parallel_exit>>
    BY <1>2, DispatcherFrame
  <2>1. LocalsType' BY DEF LocalsType
  <2>2. CASE AddPublish
    <3>1. DNode \in Nodes /\ DAccess.mode \in Modes /\ dtask \in Task /\ dk \in Nat
      BY <2>2, AddFacts DEF AddPublish
    <3>2. last[DNode] \in SlotIndex /\ last[DNode] \in Nat /\ last[DNode] + 1 \in SlotIndex
      BY <2>2, <3>1, CursorFacts DEF AddPublish, SlotBound, NodeType, SlotIndex
    <3>3. [task |-> dtask, pos |-> dk, handle |-> handle[dtask],
           mode |-> DAccess.mode] \in Slot
      BY <3>1 DEF Slot, PromiseType
    <3>4. tasks' \in [Nodes -> [SlotIndex -> Slot]]
      BY <2>2, <3>1, <3>2, <3>3 DEF AddPublish, NodeType
    <3>5. last' \in [Nodes -> SlotIndex] BY <2>2, <3>1, <3>2 DEF AddPublish, NodeType
    <3>6. NodeType' /\ PromiseType' /\ DispatcherType'
      BY <2>2, <3>2, <3>4, <3>5
      DEF AddPublish, NodeType, PromiseType, DispatcherType, DLabel
    <3> QED BY <2>1, <3>6 DEF TypeOK
  <2>3. CASE AddLoadFNR \/ AddLoadFirst
    <3>1. NodeType' /\ PromiseType'
      BY <2>3 DEF AddLoadFNR, AddLoadFirst, NodeType, PromiseType
    <3>2. DispatcherType'
      BY <2>3 DEF AddLoadFNR, AddLoadFirst, AddReturn, DispatcherType, DLabel
    <3> QED BY <2>1, <3>1, <3>2 DEF TypeOK
  <2>4. CASE AddCAS
    <3>1. firstNotReady' \in [Nodes -> Nat] BY <2>4 DEF AddCAS, NodeType, DispatcherType
    <3>2. NodeType' /\ PromiseType' BY <2>4, <3>1 DEF AddCAS, NodeType, PromiseType
    <3>3. DispatcherType' BY <2>4 DEF AddCAS, AddReturn, DispatcherType, DLabel
    <3> QED BY <2>1, <3>2, <3>3 DEF TypeOK
  <2>5. CASE AddDec
    <3>1. dtask \in Task /\ dk \in owed[dtask]
      BY <2>5, AddFacts DEF AddDec, IInv, AddInv
    <3>2. waitCounter[dtask] - 1 \in Nat BY <3>1, TakeBack
    <3>3. NodeType' /\ PromiseType' BY <2>5, <3>2 DEF AddDec, NodeType, PromiseType
    <3>4. DispatcherType' BY <2>5 DEF AddDec, AddReturn, DispatcherType, DLabel
    <3> QED BY <2>1, <3>3, <3>4 DEF TypeOK
  <2>6. CASE FinishRegistration
    <3>1. dtask \in Task /\ ~ Registered(dtask)
      BY <2>6 DEF FinishRegistration, IInv, DispatcherInv, Registered
    <3>2. waitCounter[dtask] - InvalidWaitState \in Nat
      BY <3>1, CountFacts DEF IInv, CountInv
    <3>3. NodeType' /\ PromiseType'
      <4>1. waitCounter' \in [Task -> Nat] BY <2>6, <3>2 DEF FinishRegistration, PromiseType
      <4>2. handed' \in [Task -> Nat]
        <5>1. CASE handed' = handed BY <5>1 DEF PromiseType
        <5>2. CASE handed' = [handed EXCEPT ![dtask] = @ + 1]
          BY <3>1, <5>2 DEF PromiseType
        <5> QED BY <2>6, <5>1, <5>2 DEF FinishRegistration
      <4>3. NodeType' BY <2>6 DEF FinishRegistration, NodeType
      <4> QED BY <2>6, <4>1, <4>2, <4>3 DEF FinishRegistration, PromiseType
    <3>4. DispatcherType' BY <2>6 DEF FinishRegistration, DispatcherType, DLabel
    <3> QED BY <2>1, <3>3, <3>4 DEF TypeOK
  <2> QED BY <1>2, <2>2, <2>3, <2>4, <2>5, <2>6 DEF DispatcherStep
<1>3. ASSUME NEW t \in Task, TaskStep(t) PROVE TypeOK'
  <2>. UNCHANGED <<last, tasks, accesses, handle, dpc, dtask, dk, old_last>>
    BY <1>3, TaskFrame
  <2>1. DispatcherType' BY DEF DispatcherType
  <2>2. firstNotReady' \in [Nodes -> Nat]
    BY ReadyStep DEF NodeType, AddCAS, ReadyCAS, ExtendCAS, LocalsType, DispatcherType
  <2>3. first' \in [Nodes -> Nat]
    BY FirstStep, PopFacts DEF NodeType
  <2>4. CASE Scan(t)
    <3>1. NodeOf(t) \in Nodes BY <2>4, RemoveFacts DEF Scan, Removing, Finished
    <3>2. firstNotReady[NodeOf(t)] \in Nat /\ cur[t] \in Nat
      BY <3>1 DEF NodeType, LocalsType
    <3>3. MatchingSlots(t, firstNotReady[NodeOf(t)]) \subseteq SlotIndex
      BY <3>1, <3>2, CursorFacts DEF MatchingSlots, SlotIndex
    <3>4. removed' \in [Nodes -> SUBSET SlotIndex]
      BY <2>4, <3>3 DEF Scan, NodeType
    <3>5. LocalsType'
      BY <2>4, <3>2, <3>3 DEF Scan, Goto, LocalsType, Label, SlotIndex
    <3>6. PromiseType' /\ NodeType'
      BY <2>2, <2>3, <2>4, <3>4 DEF Scan, PromiseType, NodeType
    <3> QED BY <2>1, <3>5, <3>6 DEF TypeOK
  <2>5. CASE Wake(t)
    <3>1. WakeSlot(t).task \in Task /\ WakeSlot(t).pos \in owed[WakeSlot(t).task]
      BY <2>5, WakeFacts DEF Wake
    <3>2. waitCounter[WakeSlot(t).task] - 1 \in Nat BY <3>1, TakeBack
    <3>3. PromiseType'
      <4>1. waitCounter' \in [Task -> Nat] BY <2>5, <3>2 DEF Wake, PromiseType
      <4>2. owed' \in [Task -> SUBSET Nat] BY <2>5 DEF Wake, PromiseType
      <4>3. handed' \in [Task -> Nat]
        <5>1. CASE handed' = handed BY <5>1 DEF PromiseType
        <5>2. CASE handed' = [handed EXCEPT ![WakeSlot(t).task] = @ + 1]
          BY <3>1, <5>2 DEF PromiseType
        <5> QED BY <2>5, <5>1, <5>2 DEF Wake
      <4> QED BY <2>5, <4>1, <4>2, <4>3 DEF Wake, PromiseType
    <3>4. LocalsType' BY <2>5 DEF Wake, Goto, LocalsType, Label
    <3>5. NodeType' BY <2>5 DEF Wake, NodeType
    <3> QED BY <2>1, <3>3, <3>4, <3>5 DEF TypeOK
  <2>6. CASE ~ Scan(t) /\ ~ Wake(t)
    <3>1. UNCHANGED <<removed, waitCounter, owed, handed>>
      BY <1>3, <2>6 DEF TaskStep, Run, Finish, RemoveStep, RemoveLoadFirst, RemovePop,
           MidCAS, Sweep, SweepLoadFNR, SweepCAS, LoadReady, ReadyLast, ReadyCAS,
           LoadLast, Extend, ExtendCAS, Recheck
    <3>2. NodeType' /\ PromiseType' BY <2>2, <2>3, <3>1 DEF NodeType, PromiseType
    <3>3. LocalsType'
      <4>1. ASSUME Return(t) PROVE LocalsType'
        BY <4>1 DEF Return, LocalsType, Label
      <4>2. ASSUME Removing(t)
            PROVE  /\ first[NodeOf(t)] \in Nat /\ firstNotReady[NodeOf(t)] \in Nat
                   /\ last[NodeOf(t)] \in Nat
        BY <4>2, RemoveFacts, CursorFacts
      <4>3. CASE Run(t) BY <4>3 DEF Run, LocalsType, Label
      <4>4. CASE Finish(t) BY <4>4 DEF Finish, LocalsType, Label
      <4>5. CASE RemoveLoadFirst(t)
        BY <4>2, <4>5 DEF RemoveLoadFirst, Goto, LocalsType, Label, Removing, Finished
      <4>6. CASE RemovePop(t)
        BY <4>2, <4>6 DEF RemovePop, Goto, LocalsType, Label, Removing, Finished
      <4>7. CASE MidCAS(t)
        <5>1. CASE first[NodeOf(t)] = CasExpected(cur[t])
          <6>1. pc' \in [Task -> Label] /\ cur' \in [Task -> Nat]
            BY <4>7, <5>1 DEF MidCAS, Goto, LocalsType, Label
          <6>2. mid' \in [Task -> BOOLEAN] BY <4>7, <5>1 DEF MidCAS, LocalsType
          <6> QED BY <4>7, <5>1, <6>1, <6>2 DEF MidCAS, LocalsType
        <5> QED BY <4>1, <4>7, <5>1 DEF MidCAS
      <4>8. CASE Sweep(t) BY <4>1, <4>8 DEF Sweep, Goto, LocalsType, Label
      <4>9. CASE SweepLoadFNR(t) BY <4>9 DEF SweepLoadFNR, Goto, LocalsType, Label
      <4>10. CASE SweepCAS(t) BY <4>1, <4>10 DEF SweepCAS, Goto, LocalsType, Label
      <4>11. CASE LoadReady(t)
        BY <4>2, <4>11 DEF LoadReady, Goto, LocalsType, Label, Removing, Finished
      <4>12. CASE ReadyLast(t) BY <4>1, <4>12 DEF ReadyLast, Goto, LocalsType, Label
      <4>13. CASE ReadyCAS(t)
        <5>1. CASE Claimed(t)
          <6>1. NodeOf(t) \in Nodes /\ fnr[t] \in SlotIndex
            BY <4>13, <5>1, ClaimFacts, CursorFacts DEF ReadyCAS
          <6>2. tasks[NodeOf(t)][fnr[t]].mode \in Modes \cup {"None"}
            BY <6>1 DEF NodeType, Slot
          <6> QED BY <4>13, <5>1, <6>2 DEF ReadyCAS, Goto, LocalsType, Label
        <5>2. CASE ~ Claimed(t) BY <4>1, <4>13, <5>2 DEF ReadyCAS
        <5> QED BY <5>1, <5>2
      <4>14. CASE LoadLast(t)
        BY <4>2, <4>14 DEF LoadLast, Goto, LocalsType, Label, Removing, Finished
      <4>15. CASE Extend(t) BY <4>1, <4>15 DEF Extend, Goto, LocalsType, Label
      <4>16. CASE ExtendCAS(t) BY <4>1, <4>16 DEF ExtendCAS, Goto, LocalsType, Label
      <4>17. CASE Recheck(t) BY <4>1, <4>17 DEF Recheck, Goto, LocalsType, Label
      <4> QED
        BY <1>3, <2>6, <4>3, <4>4, <4>5, <4>6, <4>7, <4>8, <4>9, <4>10, <4>11, <4>12,
           <4>13, <4>14, <4>15, <4>16, <4>17 DEF TaskStep, RemoveStep
    <3> QED BY <2>1, <3>2, <3>3 DEF TypeOK
  <2> QED BY <2>4, <2>5, <2>6
<1>4. CASE UNCHANGED vars
  BY <1>4 DEF TypeOK, NodeType, PromiseType, DispatcherType, LocalsType
<1> QED BY <1>1, <1>2, <1>3, <1>4, NextCases

\* How a step moves the dispatcher through the accesses of its task.
LEMMA AddReturnFacts ==
  ASSUME IInv, dpc \in {"loadFnr", "loadFirst", "cas", "dec"}, AddReturn
  PROVE  /\ dk' = dk + 1 /\ dpc' \in {"publish", "finish"}
         /\ dpc' = "publish" => dk' \in DOMAIN accesses[dtask]
         /\ dpc' = "finish" => dk' = Len(accesses[dtask]) + 1
<1>1. /\ dtask \in Task /\ accesses[dtask] \in Seq(Access)
      /\ dk \in Nat /\ 0 < dk /\ dk <= Len(accesses[dtask])
  BY AddFacts DEF IInv, TypeOK, PromiseType
<1> QED BY <1>1 DEF AddReturn

\* What the steps inside dispatch_task do to the dispatcher's own state.
LEMMA RegistrationSteps ==
  ASSUME IInv, DispatcherStep
  PROVE  /\ dpc # "idle" /\ dtask' = dtask
         /\ dpc = "finish" <=> FinishRegistration
         /\ dpc = "finish" => dpc' = "idle" /\ dk' = dk
         /\ dpc = "publish" <=> AddPublish
         /\ dpc = "publish" => dpc' = "loadFnr" /\ dk' = dk
         /\ Adding => \/ dpc' \in {"loadFirst", "cas", "dec"} /\ dk' = dk
                      \/ AddReturn
BY DEF DispatcherStep, AddPublish, AddLoadFNR, AddLoadFirst, AddCAS, AddDec,
       FinishRegistration, Adding

\* Only Run moves a task out of "waiting", and none becomes idle again.
LEMMA TaskPc ==
  ASSUME IInv, NEW t \in Task, TaskStep(t), NEW u \in Task
  PROVE  /\ pc'[u] = "idle" <=> pc[u] = "idle"
         /\ pc[u] = "waiting" /\ pc'[u] # "waiting" => Run(t) /\ u = t
         /\ pc'[u] = "waiting" => pc[u] = "waiting"
         /\ Started(u) => Started(u)'
<1>. pc \in [Task -> Label] BY DEF IInv, TypeOK, LocalsType
<1>1. CASE u # t BY <1>1, OthersFrame DEF IInv, Started
<1>2. CASE u = t
  <2>1. CASE Run(t) BY <1>2, <2>1 DEF Run, Started
  <2>2. CASE Finish(t) BY <1>2, <2>2 DEF Finish, Started
  <2>3. CASE RemoveStep(t)
    <3>1. Removing(t) BY <2>3 DEF RemoveStep, RemoveLoadFirst, RemovePop, Scan, MidCAS,
            Sweep, SweepLoadFNR, SweepCAS, LoadReady, ReadyLast, ReadyCAS, Wake,
            LoadLast, Extend, ExtendCAS, Recheck, Removing, Finished
    <3>2. pc'[t] \notin {"idle", "waiting"}
      <4>1. ASSUME Return(t) PROVE pc'[t] \notin {"idle", "waiting"} BY <4>1 DEF Return
      <4>2. CASE RemoveLoadFirst(t) \/ RemovePop(t) \/ Scan(t) \/ MidCAS(t) \/ Sweep(t)
                 \/ SweepLoadFNR(t) \/ SweepCAS(t)
        BY <4>1, <4>2 DEF RemoveLoadFirst, RemovePop, Scan, MidCAS, Sweep, SweepLoadFNR,
                          SweepCAS, Goto
      <4>3. CASE LoadReady(t) \/ ReadyLast(t) \/ ReadyCAS(t) \/ Wake(t) \/ LoadLast(t)
                 \/ Extend(t) \/ ExtendCAS(t) \/ Recheck(t)
        BY <4>1, <4>3 DEF LoadReady, ReadyLast, ReadyCAS, Wake, LoadLast, Extend,
                          ExtendCAS, Recheck, Goto
      <4> QED BY <2>3, <4>2, <4>3 DEF RemoveStep
    <3> QED BY <1>2, <3>1, <3>2 DEF Removing, Finished, Started
  <2> QED BY <1>2, <2>1, <2>2, <2>3 DEF TaskStep
<1> QED BY <1>1, <1>2

\* A task that is being registered does not run.
LEMMA RunFacts ==
  ASSUME IInv, NEW t \in Task, Run(t)
  PROVE  Registered(t) /\ owed[t] = {}
BY DEF IInv, CountInv, Run

LEMMA DispatcherInvStep == IInv /\ Next => DispatcherInv'
<1>. SUFFICES ASSUME IInv, Next PROVE DispatcherInv' OBVIOUS
<1>. DispatcherInv BY DEF IInv
<1>. dtask \in Nat /\ dk \in Nat /\ NumTasks \in Nat
  BY NumTasksAssumption DEF IInv, TypeOK, DispatcherType
<1>1. CASE Dispatch
  <2>1. dtask' <= NumTasks BY <1>1, DispatchFacts DEF Task
  <2>2. \A t \in Task : pc'[t] = "idle" <=> t > dtask'
    BY <1>1, DispatchFacts DEF Task, DispatcherInv
  <2>3. \A t \in Task : accesses'[t] = <<>> \/ accesses'[t] \in AccessLists
    BY <1>1, DispatchFacts DEF DispatcherInv
  <2>4. \A t \in Task : t <= dtask' => handle'[t] \in Handles
    BY <1>1, DispatchFacts DEF Task, DispatcherInv
  <2>5. accesses'[dtask'] \in Seq(Access)
    BY <1>1, DispatchFacts, AccessListsAssumption
  <2>6. CASE accesses'[dtask'] = <<>>
    BY <1>1, <2>1, <2>2, <2>3, <2>4, <2>6, DispatchFacts DEF DispatcherInv, Adding
  <2>7. CASE accesses'[dtask'] # <<>>
    <3>1. 1 \in DOMAIN accesses'[dtask'] BY <2>5, <2>7
    <3> QED BY <1>1, <2>1, <2>2, <2>3, <2>4, <2>7, <3>1, DispatchFacts
            DEF DispatcherInv, Adding
  <2> QED BY <2>6, <2>7
<1>2. CASE DispatcherStep
  <2>. UNCHANGED <<accesses, handle, dtask, pc>> BY <1>2, DispatcherFrame
  <2>1. dpc \in DLabel BY DEF IInv, TypeOK, DispatcherType
  <2>2. CASE dpc = "finish"
    BY <1>2, <2>2, RegistrationSteps DEF DispatcherInv, Adding
  <2>3. CASE dpc = "publish"
    BY <1>2, <2>3, RegistrationSteps DEF DispatcherInv, Adding
  <2>4. CASE Adding /\ AddReturn
    BY <1>2, <2>4, AddReturnFacts, RegistrationSteps DEF DispatcherInv, Adding
  <2>5. CASE Adding /\ ~ AddReturn
    BY <1>2, <2>5, RegistrationSteps DEF DispatcherInv, Adding
  <2> QED BY <1>2, <2>1, <2>2, <2>3, <2>4, <2>5, RegistrationSteps DEF DLabel, Adding
<1>3. ASSUME NEW t \in Task, TaskStep(t) PROVE DispatcherInv'
  <2>. UNCHANGED <<accesses, handle, dpc, dtask, dk>> BY <1>3, TaskFrame
  <2>1. \A u \in Task : pc'[u] = "idle" <=> u > dtask'
    BY <1>3, TaskPc DEF DispatcherInv
  <2>2. dpc' # "idle" => pc'[dtask'] = "waiting"
    BY <1>3, TaskPc, RunFacts DEF DispatcherInv, Registered
  <2> QED BY <2>1, <2>2 DEF DispatcherInv, Adding
<1>4. CASE UNCHANGED vars BY <1>4 DEF DispatcherInv, Adding
<1> QED BY <1>1, <1>2, <1>3, <1>4, NextCases

\* The arrays grow at their end only.
LEMMA ArrayStep ==
  ASSUME IInv, Next
  PROVE  (last' = last /\ tasks' = tasks) \/ AddPublish
<1>1. CASE DispatcherStep
  BY <1>1 DEF DispatcherStep, AddLoadFNR, AddLoadFirst, AddCAS, AddDec, FinishRegistration
<1>2. CASE Dispatch BY <1>2 DEF Dispatch
<1> QED BY <1>1, <1>2, NextCases, TaskFrame

LEMMA PublishFacts ==
  ASSUME IInv, AddPublish
  PROVE  /\ DNode \in Nodes /\ last[DNode] \in Nat /\ last[DNode] \in SlotIndex
         /\ \A n \in Nodes : last'[n] = IF n = DNode THEN last[n] + 1 ELSE last[n]
         /\ tasks'[DNode][last[DNode]] = [task |-> dtask, pos |-> dk,
              handle |-> handle[dtask], mode |-> AMode(dtask, dk)]
         /\ \A n \in Nodes, i \in SlotIndex :
               n # DNode \/ i # last[DNode] => tasks'[n][i] = tasks[n][i]
         /\ UNCHANGED <<first, firstNotReady, accesses, handle, waitCounter, owed, handed,
                        dtask, dk, pc, k, cur, mid, fnr, temp_last, newMode, parallel_exit>>
         /\ dpc = "publish" /\ dpc' = "loadFnr" /\ old_last' = last[DNode]
<1>1. DNode \in Nodes /\ DAccess.mode = AMode(dtask, dk) BY AddFacts DEF AddPublish
<1>2. last[DNode] \in Nat /\ last[DNode] \in SlotIndex /\ last \in [Nodes -> SlotIndex]
      /\ tasks \in [Nodes -> [SlotIndex -> Slot]]
  BY <1>1, CursorFacts DEF IInv, TypeOK, NodeType
<1> QED BY <1>1, <1>2 DEF AddPublish

LEMMA CursorInvStep == IInv /\ Next => CursorInv'
<1>. SUFFICES ASSUME IInv, Next, NEW n \in Nodes
              PROVE  first'[n] <= firstNotReady'[n] /\ firstNotReady'[n] <= last'[n]
  BY DEF CursorInv
<1>1. /\ first[n] \in Nat /\ firstNotReady[n] \in Nat /\ last[n] \in Nat
      /\ first[n] <= firstNotReady[n] /\ firstNotReady[n] <= last[n]
  BY CursorFacts
<1>. first \in [Nodes -> Nat] /\ firstNotReady \in [Nodes -> Nat] /\ last \in [Nodes -> SlotIndex]
  BY DEF IInv, TypeOK, NodeType
<1>2. ASSUME NEW t \in Task, RemovePop(t)
      PROVE  /\ first'[n] <= firstNotReady[n] /\ last' = last
             /\ firstNotReady' = firstNotReady
  <2>1. first[NodeOf(t)] < firstNotReady[NodeOf(t)]
        /\ first' = [first EXCEPT ![NodeOf(t)] = first[NodeOf(t)] + 1]
    BY <1>2, PopFacts
  <2>2. last' = last /\ firstNotReady' = firstNotReady BY <1>2 DEF RemovePop
  <2> QED BY <1>1, <2>1, <2>2
<1>3. CASE AddCAS /\ firstNotReady[DNode] = old_last
  BY <1>1, <1>3, AddingFacts DEF AddCAS, Adding
<1>4. ASSUME NEW t \in Task, ReadyCAS(t) \/ ExtendCAS(t), Claimed(t)
      PROVE  firstNotReady'[n] <= last[n] /\ first'[n] <= firstNotReady'[n] /\ last' = last
  BY <1>1, <1>4, ClaimFacts DEF ReadyCAS, ExtendCAS
<1>5. CASE firstNotReady' = firstNotReady /\ first' = first
  <2>1. CASE AddPublish BY <1>1, <1>5, <2>1, PublishFacts
  <2> QED BY <1>1, <1>5, <2>1, ArrayStep
<1> QED BY <1>1, <1>2, <1>3, <1>4, <1>5, FirstStep, ReadyStep

\* Published accesses stay published; only AddPublish publishes one.
LEMMA PublishedStep ==
  ASSUME IInv, Next, NEW t \in Task, t <= dtask, NEW p \in DOMAIN accesses[t]
  PROVE  /\ accesses'[t] = accesses[t] /\ t <= dtask'
         /\ Published(t, p) => Published(t, p)'
         /\ Published(t, p)' /\ ~ Published(t, p) => AddPublish /\ t = dtask /\ p = dk
<1>1. dtask \in Nat /\ dk \in Nat /\ t \in Nat /\ p \in Nat /\ p <= Len(accesses[t])
      /\ Len(accesses[t]) \in Nat
  BY AccessType, NumTasksAssumption DEF Task, IInv, TypeOK, DispatcherType, PromiseType
<1>2. CASE Dispatch
  <2>1. t # dtask' /\ t <= dtask' /\ accesses'[t] = accesses[t] /\ t < dtask'
    BY <1>1, <1>2, DispatchFacts
  <2>2. Published(t, p)' BY <2>1 DEF Published
  <2>3. Published(t, p)
    <3>1. CASE t < dtask BY <3>1 DEF Published
    <3>2. CASE t = dtask
      <4>1. dk = Len(accesses[t]) + 1
        BY <1>1, <1>2, <3>2, DispatchFacts DEF IInv, DispatcherInv, Task
      <4> QED BY <1>1, <3>2, <4>1 DEF Published
    <3> QED BY <1>1, <3>1, <3>2
  <2> QED BY <2>1, <2>2, <2>3
<1>3. CASE DispatcherStep
  <2>. UNCHANGED <<accesses, dtask>> BY <1>3, DispatcherFrame
  <2>1. CASE dpc = "publish"
    BY <1>1, <1>3, <2>1, RegistrationSteps, PublishFacts DEF Published
  <2>2. CASE dpc = "finish"
    BY <1>1, <1>3, <2>2, RegistrationSteps DEF Published
  <2>3. CASE Adding /\ AddReturn
    BY <1>1, <1>3, <2>3, RegistrationSteps, AddReturnFacts DEF Published, Adding
  <2>4. CASE Adding /\ ~ AddReturn
    BY <1>1, <1>3, <2>4, RegistrationSteps DEF Published, Adding
  <2>5. dpc \in DLabel BY DEF IInv, TypeOK, DispatcherType
  <2> QED BY <1>3, <2>1, <2>2, <2>3, <2>4, <2>5, RegistrationSteps DEF DLabel, Adding
<1>4. ASSUME NEW u \in Task, TaskStep(u)
      PROVE  UNCHANGED <<accesses, dtask, dk, dpc>>
  BY <1>4, TaskFrame
<1>5. CASE UNCHANGED <<accesses, dtask, dk, dpc>> BY <1>5 DEF Published
<1> QED BY <1>2, <1>3, <1>4, <1>5, NextCases

\* A dispatched task keeps its frame and its accesses.
LEMMA HandleStep ==
  ASSUME IInv, Next, NEW t \in Task, t <= dtask
  PROVE  handle'[t] = handle[t] /\ accesses'[t] = accesses[t]
<1>1. t \in Nat /\ dtask \in Nat
  BY NumTasksAssumption DEF Task, IInv, TypeOK, DispatcherType
<1>2. CASE Dispatch BY <1>1, <1>2, DispatchFacts
<1> QED BY <1>2, NextCases, DispatcherFrame, TaskFrame

LEMMA SlotInvStep == IInv /\ Next => SlotInv'
<1>. SUFFICES ASSUME IInv, Next, NEW n \in Nodes, NEW i \in SlotIndex, i < last'[n],
                     NEW o, o = tasks'[n][i].task, NEW p, p = tasks'[n][i].pos
     PROVE  /\ o \in Task /\ o <= dtask'
            /\ p \in DOMAIN accesses'[o] /\ Published(o, p)'
            /\ tasks'[n][i].handle = handle'[o]
            /\ ANode(o, p)' = n /\ AMode(o, p)' = tasks'[n][i].mode
  BY DEF SlotInv, Published, ANode, AMode
<1>1. CASE i < last[n] /\ tasks'[n][i] = tasks[n][i]
  <2>1. /\ o \in Task /\ o <= dtask /\ p \in DOMAIN accesses[o] /\ Published(o, p)
        /\ tasks[n][i].handle = handle[o] /\ ANode(o, p) = n /\ AMode(o, p) = tasks[n][i].mode
    BY <1>1, SlotFacts
  <2>2. accesses'[o] = accesses[o] /\ o <= dtask' /\ Published(o, p)'
    BY <2>1, PublishedStep
  <2>3. handle'[o] = handle[o] BY <2>1, HandleStep
  <2> QED BY <1>1, <2>1, <2>2, <2>3 DEF ANode, AMode
<1>2. CASE AddPublish /\ n = DNode /\ i = last[n]
  <2>1. /\ tasks'[n][i] = [task |-> dtask, pos |-> dk, handle |-> handle[dtask],
                           mode |-> AMode(dtask, dk)]
        /\ UNCHANGED <<accesses, handle, dtask, dk>> /\ dpc' = "loadFnr"
    BY <1>2, PublishFacts
  <2>2. dtask \in Task /\ dtask \in Nat /\ dk \in DOMAIN accesses[dtask] /\ DNode = ANode(dtask, dk)
    BY <1>2, AddFacts DEF AddPublish
  <2>3. o = dtask /\ p = dk BY <2>1
  <2> QED BY <1>2, <2>1, <2>2, <2>3 DEF Published, ANode, AMode
<1>3. CASE AddPublish /\ ~ (n = DNode /\ i = last[n])
  <2>1. i \in Nat /\ last[n] \in Nat BY CursorFacts DEF SlotIndex
  <2>2. i < last[n] /\ tasks'[n][i] = tasks[n][i] BY <1>3, <2>1, PublishFacts
  <2> QED BY <1>1, <2>2
<1> QED BY <1>1, <1>2, <1>3, ArrayStep

\* Nothing on a node belongs to the task about to be published there.
LEMMA NewestTask ==
  ASSUME IInv, AddPublish, NEW i \in SlotIndex, i < last[DNode]
  PROVE  tasks[DNode][i].task < dtask
<1> DEFINE o == tasks[DNode][i].task
           p == tasks[DNode][i].pos
<1>1. /\ DNode \in Nodes /\ dtask \in Task /\ dtask \in Nat /\ dk \in Nat
      /\ dk \in DOMAIN accesses[dtask] /\ DNode = ANode(dtask, dk) /\ dpc = "publish"
  BY AddFacts DEF AddPublish
<1>2. o \in Task /\ o <= dtask /\ p \in DOMAIN accesses[o] /\ Published(o, p) /\ ANode(o, p) = DNode
  BY <1>1, SlotFacts
<1>3. o \in Nat BY <1>2, NumTasksAssumption DEF Task
<1>4. ASSUME o = dtask PROVE FALSE
  <2>1. p = dk BY <1>1, <1>2, <1>4, AccessUnique
  <2> QED BY <1>1, <1>2, <1>4, <2>1 DEF Published
<1> QED BY <1>1, <1>2, <1>3, <1>4

LEMMA SortedInvStep == IInv /\ Next => SortedInv'
<1>. SUFFICES ASSUME IInv, Next, NEW n \in Nodes, NEW i \in SlotIndex, NEW j \in SlotIndex,
                     i < j, j < last'[n]
              PROVE  tasks'[n][i].task < tasks'[n][j].task
  BY DEF SortedInv
<1>. i \in Nat /\ j \in Nat /\ last[n] \in Nat BY CursorFacts DEF SlotIndex
<1>1. CASE last' = last /\ tasks' = tasks BY <1>1 DEF IInv, SortedInv
<1>2. CASE AddPublish
  <2>1. CASE n = DNode /\ j = last[n]
    <3>1. tasks'[n][j].task = dtask /\ tasks'[n][i] = tasks[n][i]
      BY <1>2, <2>1, PublishFacts
    <3>2. tasks[n][i].task < dtask BY <1>2, <2>1, NewestTask
    <3> QED BY <3>1, <3>2
  <2>2. CASE ~ (n = DNode /\ j = last[n])
    <3>1. j < last[n] /\ tasks'[n][i] = tasks[n][i] /\ tasks'[n][j] = tasks[n][j]
      BY <1>2, <2>2, PublishFacts
    <3> QED BY <3>1 DEF IInv, SortedInv
  <2> QED BY <2>1, <2>2
<1> QED BY <1>1, <1>2, ArrayStep

LEMMA RegisteredInvStep == IInv /\ Next => RegisteredInv'
<1>. SUFFICES ASSUME IInv, Next, NEW t \in Task, t <= dtask', NEW p \in DOMAIN accesses'[t],
                     Published(t, p)', NEW n, n = ANode(t, p)'
     PROVE  \E i \in SlotIndex : i < last'[n] /\ tasks'[n][i].task = t
  BY DEF RegisteredInv
<1>. t \in Nat /\ dtask \in Nat
  BY NumTasksAssumption DEF Task, IInv, TypeOK, DispatcherType
<1>1. CASE t <= dtask
  <2>1. accesses'[t] = accesses[t] /\ n = ANode(t, p) /\ p \in DOMAIN accesses[t]
    BY <1>1, HandleStep DEF ANode
  <2>2. n \in Nodes BY <2>1, AccessType
  <2>3. CASE Published(t, p)
    <3>1. PICK i \in SlotIndex : i < last[n] /\ tasks[n][i].task = t
      BY <1>1, <2>1, <2>3 DEF IInv, RegisteredInv
    <3>2. i < last'[n] /\ tasks'[n][i] = tasks[n][i]
      <4>1. CASE last' = last /\ tasks' = tasks BY <3>1, <4>1
      <4>2. CASE AddPublish
        <5>1. i \in Nat /\ last[n] \in Nat BY <2>2, CursorFacts DEF SlotIndex
        <5> QED BY <2>2, <3>1, <4>2, <5>1, PublishFacts
      <4> QED BY <4>1, <4>2, ArrayStep
    <3> QED BY <2>1, <3>1, <3>2
  <2>4. CASE ~ Published(t, p)
    <3>1. AddPublish /\ t = dtask /\ p = dk BY <1>1, <2>1, <2>4, PublishedStep
    <3>2. n = DNode BY <2>1, <3>1, AddFacts DEF AddPublish
    <3>3. last[DNode] \in SlotIndex /\ last[DNode] < last'[DNode]
          /\ tasks'[DNode][last[DNode]].task = t
      BY <3>1, PublishFacts
    <3> QED BY <2>1, <3>2, <3>3
  <2> QED BY <2>3, <2>4
<1>2. CASE t > dtask
  <2>1. Dispatch /\ t = dtask'
    <3>1. dtask' # dtask BY <1>2
    <3>2. Dispatch BY <3>1, NextCases, DispatcherFrame, TaskFrame
    <3> QED BY <1>2, <3>2, DispatchFacts
  <2>2. /\ dk' = 1 /\ dpc' \in {"finish", "publish"} /\ p \in Nat /\ p > 0
        /\ dpc' = "finish" => accesses'[t] = <<>>
    <3>1. accesses'[t] \in Seq(Access) BY <2>1, DispatchFacts, AccessListsAssumption
    <3> QED BY <2>1, <3>1, DispatchFacts
  <2> QED BY <2>1, <2>2 DEF Published
<1> QED BY <1>1, <1>2

\* No two slots hold the same access.
LEMMA SlotUnique ==
  ASSUME IInv, NEW n \in Nodes, NEW i \in SlotIndex, i < last[n],
         NEW m \in Nodes, NEW j \in SlotIndex, j < last[m],
         tasks[n][i].task = tasks[m][j].task, tasks[n][i].pos = tasks[m][j].pos
  PROVE  n = m /\ i = j
<1>1. n = m BY SlotFacts
<1>2. /\ tasks[n][i].task \in Nat /\ i \in Nat /\ j \in Nat
  BY SlotFacts, NumTasksAssumption DEF Task, SlotIndex
<1>3. ~ (i < j) /\ ~ (j < i)
  <2>1. ~ (tasks[n][i].task < tasks[n][i].task) BY <1>2
  <2> QED BY <1>1, <2>1 DEF IInv, SortedInv
<1> QED BY <1>1, <1>2, <1>3

\* The cursors never go back.
LEMMA Monotone ==
  ASSUME IInv, Next, NEW n \in Nodes
  PROVE  /\ first[n] <= first'[n] /\ firstNotReady[n] <= firstNotReady'[n]
         /\ last[n] <= last'[n]
<1>. /\ first[n] \in Nat /\ firstNotReady[n] \in Nat /\ last[n] \in Nat
     /\ first \in [Nodes -> Nat] /\ firstNotReady \in [Nodes -> Nat]
  BY CursorFacts DEF IInv, TypeOK, NodeType
<1>1. first[n] <= first'[n]
  <2>1. ASSUME NEW t \in Task, RemovePop(t) PROVE first[n] <= first'[n]
    <3>1. first' = [first EXCEPT ![NodeOf(t)] = first[NodeOf(t)] + 1] BY <2>1, PopFacts
    <3> QED BY <3>1
  <2> QED BY <2>1, FirstStep
<1>2. firstNotReady[n] <= firstNotReady'[n]
  <2>1. CASE AddCAS /\ firstNotReady[DNode] = old_last BY <2>1 DEF AddCAS
  <2>2. ASSUME NEW t \in Task, ReadyCAS(t) \/ ExtendCAS(t), Claimed(t)
        PROVE  firstNotReady[n] <= firstNotReady'[n]
    BY <2>2 DEF ReadyCAS, ExtendCAS, Claimed
  <2> QED BY <2>1, <2>2, ReadyStep
<1>3. last[n] <= last'[n] BY ArrayStep, PublishFacts
<1> QED BY <1>1, <1>2, <1>3

\* A written slot keeps its contents.
LEMMA SlotStep ==
  ASSUME IInv, Next, NEW n \in Nodes, NEW i \in SlotIndex, i < last[n]
  PROVE  tasks'[n][i] = tasks[n][i] /\ i < last'[n]
<1>1. i \in Nat /\ last[n] \in Nat BY CursorFacts DEF SlotIndex
<1> QED BY <1>1, ArrayStep, PublishFacts

\* A waking thread takes back one access, which is none of the others.
LEMMA WakeStep ==
  ASSUME IInv, NEW t \in Task, Wake(t)
  PROVE  /\ \A u \in Task : owed'[u] = IF u = WakeSlot(t).task
                                       THEN owed[u] \ {WakeSlot(t).pos} ELSE owed[u]
         /\ \A n \in Nodes, i \in SlotIndex :
               i < last[n] /\ (n # NodeOf(t) \/ i # fnr[t])
                  /\ tasks[n][i].pos \in owed[tasks[n][i].task]
                     => tasks[n][i].pos \in owed'[tasks[n][i].task]
<1>1. pc[t] = "wake" /\ owed \in [Task -> SUBSET Nat]
  BY DEF Wake, IInv, TypeOK, PromiseType
<1>2. /\ NodeOf(t) \in Nodes /\ fnr[t] \in SlotIndex /\ fnr[t] < last[NodeOf(t)]
      /\ WakeSlot(t).task \in Task
  BY <1>1, WakeFacts
<1>3. \A u \in Task : owed'[u] = IF u = WakeSlot(t).task
                                 THEN owed[u] \ {WakeSlot(t).pos} ELSE owed[u]
  BY <1>1, <1>2 DEF Wake
<1>4. ASSUME NEW n \in Nodes, NEW i \in SlotIndex, i < last[n], n # NodeOf(t) \/ i # fnr[t],
             tasks[n][i].pos \in owed[tasks[n][i].task]
      PROVE  tasks[n][i].pos \in owed'[tasks[n][i].task]
  <2>1. tasks[n][i].task \in Task BY <1>4, SlotFacts
  <2>2. ~ (tasks[n][i].task = WakeSlot(t).task /\ tasks[n][i].pos = WakeSlot(t).pos)
    BY <1>2, <1>4, SlotUnique DEF WakeSlot
  <2> QED BY <1>3, <1>4, <2>1, <2>2
<1> QED BY <1>3, <1>4

\* Only a waker takes anything back in a step of a task.
LEMMA TaskCounts ==
  ASSUME NEW t \in Task, TaskStep(t)
  PROVE  UNCHANGED <<owed, waitCounter, handed>> \/ Wake(t)
BY DEF TaskStep, Run, Finish, RemoveStep, RemoveLoadFirst, RemovePop, Scan, MidCAS,
       Sweep, SweepLoadFNR, SweepCAS, LoadReady, ReadyLast, ReadyCAS,
       LoadLast, Extend, ExtendCAS, Recheck

LEMMA AddInvStep == IInv /\ Next => AddInv'
<1>. SUFFICES ASSUME IInv, Next PROVE AddInv' OBVIOUS
<1>. dpc \in DLabel /\ firstNotReady \in [Nodes -> Nat] /\ old_last \in Nat
  BY DEF IInv, TypeOK, DispatcherType, NodeType
<1>1. CASE Dispatch
  BY <1>1, DispatchFacts DEF AddInv, Adding
<1>2. CASE DispatcherStep
  <2>. UNCHANGED <<first, accesses, dtask>> BY <1>2, DispatcherFrame
  <2>1. CASE AddPublish
    <3>1. DNode' = DNode BY <2>1, PublishFacts DEF DNode, DAccess
    <3> QED BY <2>1, <3>1, PublishFacts DEF AddInv
  <2>2. CASE AddLoadFNR
    <3>1. CASE dpc' = "loadFirst"
      <4>1. UNCHANGED <<last, tasks, dk, old_last>> /\ Adding
        BY <2>2, <3>1 DEF AddLoadFNR, AddReturn, Adding
      <4> QED BY <3>1, <4>1 DEF IInv, AddInv, DNode, DAccess
    <3>2. CASE dpc' # "loadFirst" BY <2>2, <3>2 DEF AddLoadFNR, AddReturn, AddInv, Adding
    <3> QED BY <3>1, <3>2
  <2>3. CASE AddLoadFirst
    <3>1. CASE dpc' = "cas"
      <4>1. /\ UNCHANGED <<last, tasks, dk, old_last>> /\ Adding
            /\ ReadyOnArrival(first[DNode])
        BY <2>3, <3>1 DEF AddLoadFirst, AddReturn, Adding
      <4>2. first[DNode] >= old_last
              \/ Parallel(DAccess.mode, tasks[DNode][old_last - 1].mode)
        BY <4>1 DEF ReadyOnArrival, Parallel
      <4>3. UNCHANGED <<DNode, DAccess>> BY <4>1 DEF DNode, DAccess
      <4> QED BY <3>1, <4>1, <4>2, <4>3 DEF IInv, AddInv
    <3>2. CASE dpc' # "cas" BY <2>3, <3>2 DEF AddLoadFirst, AddReturn, AddInv, Adding
    <3> QED BY <3>1, <3>2
  <2>4. CASE AddCAS
    <3>1. CASE dpc' = "dec"
      <4>1. /\ UNCHANGED <<last, tasks, dk, old_last, owed>> /\ Adding
            /\ firstNotReady[DNode] = old_last /\ dpc = "cas"
            /\ firstNotReady' = [firstNotReady EXCEPT ![DNode] = old_last + 1]
        BY <2>4, <3>1 DEF AddCAS, AddReturn, Adding
      <4>2. DNode \in Nodes BY <4>1, AddFacts DEF Adding
      <4>3. /\ old_last \in SlotIndex /\ last[DNode] = old_last + 1
            /\ tasks[DNode][old_last].task = dtask /\ tasks[DNode][old_last].pos = dk
        BY <4>1, AddingFacts
      <4>4. dk \in owed[dtask] BY <4>1, <4>2, <4>3 DEF IInv, OwedInv
      <4>5. DNode' = DNode BY <4>1 DEF DNode, DAccess
      <4> QED BY <3>1, <4>1, <4>2, <4>3, <4>4, <4>5 DEF AddInv
    <3>2. CASE dpc' # "dec" BY <2>4, <3>2 DEF AddCAS, AddReturn, AddInv, Adding
    <3> QED BY <3>1, <3>2
  <2>5. CASE AddDec BY <2>5 DEF AddDec, AddReturn, AddInv, Adding
  <2>6. CASE FinishRegistration BY <2>6 DEF FinishRegistration, AddInv, Adding
  <2> QED BY <1>2, <2>1, <2>2, <2>3, <2>4, <2>5, <2>6 DEF DispatcherStep
<1>3. ASSUME NEW t \in Task, TaskStep(t), Adding PROVE AddInv'
  <2>1. UNCHANGED <<last, tasks, accesses, dpc, dtask, dk, old_last>>
    BY <1>3, TaskFrame
  <2>2. UNCHANGED <<DNode, DAccess>> BY <2>1 DEF DNode, DAccess
  <2>3. /\ DNode \in Nodes /\ last[DNode] = old_last + 1
        /\ tasks[DNode][old_last].task = dtask /\ tasks[DNode][old_last].pos = dk
        /\ old_last \in SlotIndex /\ dtask \in Task
    BY <1>3, AddFacts, AddingFacts DEF Adding
  <2>4. /\ first[DNode] \in Nat /\ first'[DNode] \in Nat /\ first[DNode] <= first'[DNode]
        /\ firstNotReady[DNode] \in Nat /\ firstNotReady'[DNode] \in Nat
        /\ firstNotReady[DNode] <= firstNotReady'[DNode]
    BY <2>3, Monotone, TypeOKStep DEF IInv, TypeOK, NodeType
  <2>5. dpc = "dec" => dk \in owed'[dtask]
    <3>1. SUFFICES ASSUME dpc = "dec" PROVE dk \in owed'[dtask] OBVIOUS
    <3>2. dk \in owed[dtask] BY <3>1 DEF IInv, AddInv
    <3>3. CASE Wake(t)
      <4>1. NodeOf(t) # DNode \/ fnr[t] # old_last
        BY <3>1, <3>3 DEF Wake, IInv, OneWakerPerSlot
      <4>2. tasks[DNode][old_last].pos \in owed'[tasks[DNode][old_last].task]
        BY <2>3, <3>2, <3>3, <4>1, WakeStep
      <4> QED BY <2>3, <4>2
    <3> QED BY <1>3, <3>2, <3>3, TaskCounts
  <2> QED BY <2>1, <2>2, <2>3, <2>4, <2>5 DEF IInv, AddInv, Adding
<1>4. ASSUME NEW t \in Task, TaskStep(t), ~ Adding PROVE AddInv'
  BY <1>4, TaskFrame DEF AddInv, Adding
<1>5. CASE UNCHANGED vars BY <1>5 DEF IInv, AddInv, Adding, DNode, DAccess
<1> QED BY <1>1, <1>2, <1>3, <1>4, <1>5, NextCases

\* A destroyed task stays destroyed, so that a step makes no task live but the
\* one being dispatched.
LEMMA HandleInvStep == IInv /\ Next => HandleInv'
<1>. SUFFICES ASSUME IInv, Next, NEW t \in Task, NEW u \in Task, Live(t)', Live(u)',
                     handle'[t] = handle'[u]
              PROVE  t = u
  BY DEF HandleInv
<1>1. CASE Dispatch
  <2>1. \A v \in Task : v # dtask' => (Live(v)' => Live(v)) /\ handle'[v] = handle[v]
    BY <1>1, DispatchFacts DEF Live
  <2> QED BY <1>1, <2>1, DispatchFacts DEF IInv, HandleInv
<1>2. CASE DispatcherStep BY <1>2, DispatcherFrame DEF IInv, HandleInv, Live
<1>3. ASSUME NEW v \in Task, TaskStep(v) PROVE t = u
  <2>1. pc[v] # "destroyed"
    BY <1>3 DEF TaskStep, Run, Finish, RemoveStep, RemoveLoadFirst, RemovePop, Scan, MidCAS,
       Sweep, SweepLoadFNR, SweepCAS, LoadReady, ReadyLast, ReadyCAS, Wake,
       LoadLast, Extend, ExtendCAS, Recheck
  <2>2. \A w \in Task : Live(w)' => Live(w)
    BY <1>3, <2>1, OthersFrame, TaskPc DEF Live, IInv
  <2> QED BY <1>3, <2>2, TaskFrame DEF IInv, HandleInv
<1>4. CASE UNCHANGED vars BY <1>4 DEF IInv, HandleInv, Live
<1> QED BY <1>1, <1>2, <1>3, <1>4, NextCases

\* A remove_task that returns turns to the next node or ends the task.
LEMMA ReturnFacts ==
  ASSUME IInv, NEW t \in Task, Removing(t), Return(t)
  PROVE  /\ \/ pc'[t] = "destroyed"
            \/ pc'[t] = "load" /\ k'[t] = k[t] + 1 /\ k[t] < Len(accesses[t])
         /\ temp_last'[t] = 0 /\ ~ parallel_exit'[t]
<1>1. LocalsType BY DEF IInv, TypeOK
<1> QED BY <1>1, RemoveFacts DEF Return, LocalsType

\* A step of remove_task returns, or stays at its node and goes forward.
LEMMA RemoveShape ==
  ASSUME IInv, NEW t \in Task, RemoveStep(t)
  PROVE  /\ Removing(t)
         /\ \/ Return(t)
            \/ /\ k'[t] = k[t] /\ Removing(t)' /\ NodeOf(t)' = NodeOf(t)
               /\ pc[t] \notin {"load", "pop", "scan", "midCas"}
                     => pc'[t] \notin {"load", "pop", "scan", "midCas"}
<1>. LocalsType BY DEF IInv, TypeOK
<1>1. Removing(t)
  BY DEF RemoveStep, RemoveLoadFirst, RemovePop, Scan, MidCAS, Sweep, SweepLoadFNR,
         SweepCAS, LoadReady, ReadyLast, ReadyCAS, Wake, LoadLast, Extend, ExtendCAS,
         Recheck, Removing, Finished
<1>2. UNCHANGED accesses BY TaskFrame DEF TaskStep
<1>3. k'[t] = k[t] => NodeOf(t)' = NodeOf(t) BY <1>2 DEF NodeOf
<1>4. CASE RemoveLoadFirst(t) \/ RemovePop(t) \/ Scan(t)
  BY <1>1, <1>3, <1>4
  DEF RemoveLoadFirst, RemovePop, Scan, Goto, LocalsType, Removing, Finished
<1>5. CASE MidCAS(t) \/ Sweep(t) \/ SweepLoadFNR(t) \/ SweepCAS(t)
  BY <1>1, <1>3, <1>5
  DEF MidCAS, Sweep, SweepLoadFNR, SweepCAS, Goto, LocalsType, Removing, Finished
<1>6. CASE LoadReady(t) \/ ReadyLast(t) \/ ReadyCAS(t) \/ Wake(t)
  BY <1>1, <1>3, <1>6
  DEF LoadReady, ReadyLast, ReadyCAS, Wake, Goto, LocalsType, Removing, Finished
<1>7. CASE LoadLast(t) \/ Extend(t) \/ ExtendCAS(t) \/ Recheck(t)
  BY <1>1, <1>3, <1>7
  DEF LoadLast, Extend, ExtendCAS, Recheck, Goto, LocalsType, Removing, Finished
<1> QED BY <1>4, <1>5, <1>6, <1>7 DEF RemoveStep

\* What a step of the dispatcher or of another task leaves alone.
LEMMA TaskKept ==
  ASSUME IInv, Next, NEW t \in Task, ~ TaskStep(t), Removing(t) \/ Removing(t)'
  PROVE  /\ Removing(t) /\ pc'[t] = pc[t] /\ k'[t] = k[t] /\ cur'[t] = cur[t]
         /\ fnr'[t] = fnr[t] /\ temp_last'[t] = temp_last[t] /\ newMode'[t] = newMode[t]
         /\ parallel_exit'[t] = parallel_exit[t]
         /\ handle'[t] = handle[t] /\ accesses'[t] = accesses[t]
         /\ NodeOf(t)' = NodeOf(t)
<1>1. /\ pc'[t] = pc[t] /\ k'[t] = k[t] /\ cur'[t] = cur[t]
      /\ fnr'[t] = fnr[t] /\ temp_last'[t] = temp_last[t] /\ newMode'[t] = newMode[t]
      /\ parallel_exit'[t] = parallel_exit[t]
  <2>1. CASE Dispatch BY <2>1, DispatchFacts DEF Removing, Finished
  <2>2. CASE DispatcherStep BY <2>2, DispatcherFrame
  <2>3. ASSUME NEW u \in Task, TaskStep(u), u # t
        PROVE  /\ pc'[t] = pc[t] /\ k'[t] = k[t] /\ cur'[t] = cur[t]
               /\ fnr'[t] = fnr[t] /\ temp_last'[t] = temp_last[t]
               /\ newMode'[t] = newMode[t] /\ parallel_exit'[t] = parallel_exit[t]
    BY <2>3, OthersFrame DEF IInv
  <2> QED BY <2>1, <2>2, <2>3, NextCases
<1>2. Removing(t) BY <1>1 DEF Removing, Finished
<1>3. t <= dtask
  BY <1>2, NumTasksAssumption
  DEF IInv, DispatcherInv, TypeOK, DispatcherType, Removing, Finished, Task
<1>4. handle'[t] = handle[t] /\ accesses'[t] = accesses[t] BY <1>3, HandleStep
<1> QED BY <1>1, <1>2, <1>4 DEF NodeOf

LEMMA WindowInvStep == IInv /\ Next => WindowInv'
<1>. SUFFICES ASSUME IInv, Next, NEW n \in Nodes, NEW i \in SlotIndex, NEW j \in SlotIndex,
                     first'[n] <= i, i < j, j < firstNotReady'[n]
              PROVE  Parallel(tasks'[n][i].mode, tasks'[n][j].mode)
  BY DEF WindowInv, Parallel, Serial
<1>. i \in Nat /\ j \in Nat BY DEF SlotIndex
<1>1. /\ first[n] \in Nat /\ firstNotReady[n] \in Nat /\ last[n] \in Nat /\ first'[n] \in Nat
      /\ first[n] <= i /\ firstNotReady[n] <= last[n]
  BY CursorFacts, Monotone, TypeOKStep DEF TypeOK, NodeType
<1>2. CASE j < firstNotReady[n]
  BY <1>1, <1>2, SlotStep DEF IInv, WindowInv
<1>3. CASE j >= firstNotReady[n]
  <2>1. firstNotReady \in [Nodes -> Nat] /\ firstNotReady'[n] # firstNotReady[n]
    BY <1>1, <1>3 DEF IInv, TypeOK, NodeType
  <2>2. CASE AddCAS /\ firstNotReady[DNode] = old_last
    <3>1. n = DNode /\ j = old_last /\ dpc = "cas" BY <1>1, <1>3, <2>1, <2>2 DEF AddCAS
    <3>2. j < last[n] BY <3>1, AddingFacts DEF Adding
    <3> QED BY <1>1, <2>2, <3>1, <3>2, AddClaimFacts, SlotStep
  <2>3. ASSUME NEW t \in Task, ReadyCAS(t) \/ ExtendCAS(t), Claimed(t)
        PROVE  Parallel(tasks'[n][i].mode, tasks'[n][j].mode)
    <3>1. pc[t] \in {"readyCas", "extendCas"}
          /\ firstNotReady' = [firstNotReady EXCEPT ![NodeOf(t)] = fnr[t] + 1]
      BY <2>3 DEF ReadyCAS, ExtendCAS
    <3>2. n = NodeOf(t) /\ j = fnr[t] /\ j < last[n]
      BY <1>1, <1>3, <2>1, <2>3, <3>1, ClaimFacts
    <3>3. Parallel(tasks[n][i].mode, tasks[n][j].mode)
      BY <1>1, <2>3, <3>1, <3>2, ClaimFacts
    <3> QED BY <1>1, <3>2, <3>3, SlotStep
  <2> QED BY <2>1, <2>2, <2>3, ReadyStep
<1> QED BY <1>1, <1>2, <1>3

\* Once past the pop, always past the pop.
LEMMA PastPopStep ==
  ASSUME IInv, Next, NEW t \in Task, NEW p \in Nat, PastPop(t, p)
  PROVE  PastPop(t, p)'
<1>. k \in [Task -> Nat] BY DEF IInv, TypeOK, LocalsType
<1>1. CASE pc[t] = "destroyed"
  <2>1. pc'[t] = "destroyed"
    <3>1. CASE Dispatch BY <1>1, <3>1, DispatchFacts
    <3>2. ASSUME NEW u \in Task, TaskStep(u) PROVE pc'[t] = "destroyed"
      <4>1. u # t
        BY <1>1, <3>2, RemoveShape DEF TaskStep, Run, Finish, Removing
      <4> QED BY <1>1, <3>2, <4>1, OthersFrame DEF IInv
    <3> QED BY <1>1, <3>1, <3>2, NextCases, DispatcherFrame
  <2> QED BY <2>1 DEF PastPop
<1>2. CASE Removing(t) /\ TaskStep(t)
  <2>1. RemoveStep(t) BY <1>2 DEF TaskStep, Run, Finish, Removing, Finished
  <2>2. CASE Return(t)
    BY <1>2, <2>1, <2>2, ReturnFacts, RemoveFacts DEF PastPop, Removing, Finished
  <2>3. CASE ~ Return(t)
    BY <1>2, <2>1, <2>3, RemoveShape DEF PastPop, Removing
  <2> QED BY <2>2, <2>3
<1>3. CASE Removing(t) /\ ~ TaskStep(t)
  BY <1>3, TaskKept DEF PastPop, Removing, Finished
<1> QED BY <1>1, <1>2, <1>3 DEF PastPop

LEMMA PoppedInvStep == IInv /\ Next => PoppedInv'
<1>. SUFFICES ASSUME IInv, Next, NEW n \in Nodes, NEW i \in SlotIndex, i < first'[n],
                     NEW o, o = tasks'[n][i].task, NEW p, p = tasks'[n][i].pos
              PROVE  PastPop(o, p)'
  BY DEF PoppedInv, PastPop, Removing, Finished
<1>. i \in Nat /\ first[n] \in Nat BY CursorFacts DEF SlotIndex
<1>1. first \in [Nodes -> Nat] BY DEF IInv, TypeOK, NodeType
<1>2. ASSUME i < last[n]
      PROVE  /\ o = tasks[n][i].task /\ p = tasks[n][i].pos /\ o \in Task /\ p \in Nat
             /\ p \in DOMAIN accesses[o]
  <2>1. o = tasks[n][i].task /\ p = tasks[n][i].pos BY <1>2, SlotStep
  <2>2. o \in Task /\ p \in DOMAIN accesses[o] BY <1>2, <2>1, SlotFacts
  <2> QED BY <2>1, <2>2, AccessType
<1>3. CASE i < first[n]
  <2>1. i < last[n] BY <1>3, CursorFacts
  <2>2. PastPop(o, p) BY <1>2, <1>3, <2>1 DEF IInv, PoppedInv
  <2> QED BY <1>2, <2>1, <2>2, PastPopStep
<1>4. ASSUME NEW t \in Task, RemovePop(t), i >= first[n] PROVE PastPop(o, p)'
  <2>1. n = NodeOf(t) /\ i = first[n] /\ i < last[n] BY <1>1, <1>4, PopFacts
  <2>2. CASE pc[o] = "destroyed"
    BY <1>2, <2>1, <2>2, PastPopStep DEF PastPop
  <2>3. CASE o = t /\ p = k[t]
    <3>1. pc'[t] = "sweep" /\ k'[t] = k[t]
      BY <1>4 DEF RemovePop, Goto, IInv, TypeOK, LocalsType
    <3> QED BY <2>3, <3>1 DEF PastPop, Removing, Finished
  <2> QED BY <1>2, <1>4, <2>1, <2>2, <2>3, PopFacts
<1> QED BY <1>3, <1>4, FirstStep

\* While a task is not moving, first passes no slot with the task's handle.
LEMMA PopOther ==
  ASSUME IInv, Next, NEW t \in Task, Removing(t), ~ TaskStep(t), NEW n \in Nodes
  PROVE  \/ first'[n] = first[n]
         \/ /\ first'[n] = first[n] + 1 /\ first[n] < last[n] /\ first[n] \in SlotIndex
            /\ tasks[n][first[n]].handle # handle[t]
<1>. first \in [Nodes -> Nat] BY DEF IInv, TypeOK, NodeType
<1>1. ASSUME NEW u \in Task, RemovePop(u), n = NodeOf(u)
      PROVE  /\ first'[n] = first[n] + 1 /\ first[n] < last[n] /\ first[n] \in SlotIndex
             /\ tasks[n][first[n]].handle # handle[t]
  <2>1. /\ first' = [first EXCEPT ![n] = first[n] + 1]
        /\ first[n] < last[n] /\ first[n] \in SlotIndex
        /\ tasks[n][first[n]].handle = handle[u] /\ pc[u] = "pop"
    BY <1>1, PopFacts
  <2>2. u # t BY <1>1 DEF TaskStep, RemoveStep
  <2>3. handle[u] # handle[t]
    BY <2>1, <2>2 DEF IInv, HandleInv, Live, Removing, Finished
  <2> QED BY <2>1, <2>3
<1>2. ASSUME NEW u \in Task, RemovePop(u), n # NodeOf(u) PROVE first'[n] = first[n]
  BY <1>2, PopFacts
<1> QED BY <1>1, <1>2, FirstStep

LEMMA RemoveInvStep == IInv /\ Next => RemoveInv'
<1>. SUFFICES ASSUME IInv, Next, NEW t \in Task, Removing(t)' PROVE k'[t] \in DOMAIN accesses'[t]
  BY DEF RemoveInv
<1>. k \in [Task -> Nat] /\ accesses \in [Task -> Seq(Access)] /\ pc \in [Task -> Label]
  BY DEF IInv, TypeOK, LocalsType, PromiseType
<1>1. CASE ~ TaskStep(t) BY <1>1, TaskKept DEF IInv, RemoveInv
<1>2. CASE Run(t) BY <1>2 DEF Run, Removing, Finished
<1>3. CASE Finish(t) BY <1>3, TaskFrame DEF Finish, TaskStep, Removing, Finished
<1>4. CASE RemoveStep(t)
  <2>1. accesses' = accesses BY <1>4, TaskFrame DEF TaskStep
  <2>2. CASE Return(t)
    BY <1>4, <2>1, <2>2, RemoveShape, RemoveFacts, ReturnFacts DEF Removing, Finished
  <2>3. CASE ~ Return(t) BY <1>4, <2>1, <2>3, RemoveShape, RemoveFacts
  <2> QED BY <2>2, <2>3
<1> QED BY <1>1, <1>2, <1>3, <1>4 DEF TaskStep

\* Facts that hold at a node before and after a step.
LEMMA NodeStep ==
  ASSUME IInv, Next, NEW n \in Nodes
  PROVE  /\ first[n] \in Nat /\ firstNotReady[n] \in Nat /\ last[n] \in Nat
         /\ first'[n] \in Nat /\ firstNotReady'[n] \in Nat /\ last'[n] \in Nat
         /\ first[n] <= first'[n] /\ firstNotReady[n] <= firstNotReady'[n]
         /\ last[n] <= last'[n] /\ first[n] <= firstNotReady[n]
         /\ firstNotReady[n] <= last[n]
         /\ first'[n] <= firstNotReady'[n] /\ firstNotReady'[n] <= last'[n]
<1>1. TypeOK' /\ CursorInv' BY TypeOKStep, CursorInvStep
<1>2. first'[n] \in Nat /\ firstNotReady'[n] \in Nat /\ last'[n] \in Nat
  BY <1>1 DEF TypeOK, NodeType, SlotIndex
<1> QED BY <1>1, <1>2, CursorFacts, Monotone DEF CursorInv

LEMMA PopInvStep == IInv /\ Next => PopInv'
<1>. SUFFICES ASSUME IInv, Next, NEW t \in Task, pc'[t] = "pop", NEW n, n = NodeOf(t)'
     PROVE  /\ cur'[t] = first'[n] /\ tasks'[n][first'[n]].handle = handle'[t]
            /\ first'[n] < firstNotReady'[n]
  BY DEF PopInv, NodeOf
<1>. LocalsType BY DEF IInv, TypeOK
<1>1. CASE ~ TaskStep(t)
  <2>1. /\ Removing(t) /\ pc[t] = "pop" /\ n = NodeOf(t) /\ cur'[t] = cur[t]
        /\ handle'[t] = handle[t]
    BY <1>1, TaskKept DEF Removing, Finished
  <2>2. n \in Nodes BY <2>1, RemoveFacts
  <2>3. /\ cur[t] = first[n] /\ tasks[n][first[n]].handle = handle[t]
        /\ first[n] < firstNotReady[n]
    BY <2>1 DEF IInv, PopInv
  <2>4. first'[n] = first[n] BY <1>1, <2>1, <2>2, <2>3, PopOther
  <2>5. first[n] \in SlotIndex /\ first[n] < last[n] BY <2>2, <2>3, CursorFacts
  <2>6. tasks'[n][first[n]] = tasks[n][first[n]] BY <2>2, <2>5, SlotStep
  <2> QED BY <2>1, <2>2, <2>3, <2>4, <2>6, NodeStep
<1>2. CASE RemoveLoadFirst(t)
  <2>1. pc[t] = "load" /\ Removing(t) BY <1>2 DEF RemoveLoadFirst, Removing, Finished
  <2>2. n = NodeOf(t) /\ n \in Nodes
    BY <1>2, <2>1, RemoveFacts DEF RemoveLoadFirst, NodeOf
  <2>3. /\ UNCHANGED <<first, firstNotReady, tasks, handle>> /\ cur'[t] = first[n]
        /\ tasks[n][first[n]].handle = handle[t]
    BY <1>2, <2>2 DEF RemoveLoadFirst, Goto, LocalsType
  <2>4. first[n] < firstNotReady[n]
    BY <2>1, <2>2, OwnSlot, CursorFacts DEF SlotIndex
  <2> QED BY <2>3, <2>4
<1>3. CASE TaskStep(t) /\ ~ RemoveLoadFirst(t)
  <2>1. CASE RemoveStep(t) /\ Return(t)
    BY <2>1, RemoveShape, ReturnFacts
  <2>2. CASE RemoveStep(t) /\ ~ Return(t)
    BY <1>3, <2>2 DEF RemoveStep, RemovePop, Scan, MidCAS, Sweep, SweepLoadFNR, SweepCAS,
         LoadReady, ReadyLast, ReadyCAS, Wake, LoadLast, Extend, ExtendCAS, Recheck, Goto,
         LocalsType
  <2>3. CASE Run(t) \/ Finish(t) BY <2>3 DEF Run, Finish, LocalsType
  <2> QED BY <1>3, <2>1, <2>2, <2>3 DEF TaskStep
<1> QED BY <1>1, <1>2, <1>3 DEF TaskStep, RemoveStep

LEMMA ScanInvStep == IInv /\ Next => ScanInv'
<1>. SUFFICES ASSUME IInv, Next, NEW t \in Task, NEW n, n = NodeOf(t)'
     PROVE  /\ pc'[t] = "scan" =>
                 /\ cur'[t] <= first'[n] /\ cur'[t] < firstNotReady'[n]
                 /\ \A i \in SlotIndex : cur'[t] <= i /\ (i < first'[n] \/ i = cur'[t])
                       => tasks'[n][i].handle # handle'[t]
            /\ pc'[t] = "midCas" =>
                 /\ first'[n] <= cur'[t] /\ cur'[t] < firstNotReady'[n]
                 /\ tasks'[n][cur'[t]].handle = handle'[t]
  BY DEF ScanInv, NodeOf
<1>. LocalsType BY DEF IInv, TypeOK
<1>1. CASE ~ TaskStep(t) /\ pc'[t] = "scan"
  <2>1. /\ Removing(t) /\ pc[t] = "scan" /\ n = NodeOf(t) /\ cur'[t] = cur[t]
        /\ handle'[t] = handle[t] /\ cur[t] \in Nat
    BY <1>1, TaskKept DEF Removing, Finished, LocalsType
  <2>2. n \in Nodes BY <2>1, RemoveFacts
  <2>3. /\ cur[t] <= first[n] /\ cur[t] < firstNotReady[n]
        /\ \A i \in SlotIndex : cur[t] <= i /\ (i < first[n] \/ i = cur[t])
              => tasks[n][i].handle # handle[t]
    BY <2>1 DEF IInv, ScanInv
  <2>4. ASSUME NEW i \in SlotIndex, cur[t] <= i, i < first'[n] \/ i = cur[t]
        PROVE  tasks'[n][i].handle # handle[t]
    <3>1. i \in Nat BY DEF SlotIndex
    <3>2. i < last[n]
      <4>1. CASE i = cur[t] BY <2>2, <2>3, <4>1, NodeStep, <3>1
      <4>2. CASE i < first'[n] /\ first'[n] = first[n] BY <2>2, <4>2, NodeStep, <3>1
      <4>3. CASE i < first'[n] /\ first'[n] # first[n]
        BY <1>1, <2>1, <2>2, <4>3, NodeStep, PopOther, <3>1
      <4> QED BY <2>4, <4>1, <4>2, <4>3
    <3>3. tasks'[n][i] = tasks[n][i] BY <2>2, <3>2, SlotStep
    <3>4. tasks[n][i].handle # handle[t]
      BY <1>1, <2>1, <2>2, <2>3, <2>4, <3>1, NodeStep, PopOther
    <3> QED BY <3>3, <3>4
  <2> QED BY <1>1, <2>1, <2>2, <2>3, <2>4, NodeStep
<1>2. CASE ~ TaskStep(t) /\ pc'[t] = "midCas"
  <2>1. /\ Removing(t) /\ pc[t] = "midCas" /\ n = NodeOf(t) /\ cur'[t] = cur[t]
        /\ handle'[t] = handle[t] /\ cur[t] \in Nat
    BY <1>2, TaskKept DEF Removing, Finished, LocalsType
  <2>2. n \in Nodes BY <2>1, RemoveFacts
  <2>3. /\ first[n] <= cur[t] /\ cur[t] < firstNotReady[n]
        /\ tasks[n][cur[t]].handle = handle[t]
    BY <2>1 DEF IInv, ScanInv
  <2>4. cur[t] \in SlotIndex /\ cur[t] < last[n] BY <2>1, <2>2, <2>3, CursorFacts
  <2>5. tasks'[n][cur[t]] = tasks[n][cur[t]] BY <2>2, <2>4, SlotStep
  <2>6. first'[n] <= cur[t] BY <1>2, <2>1, <2>2, <2>3, NodeStep, PopOther
  <2> QED BY <1>2, <2>1, <2>2, <2>3, <2>5, <2>6, NodeStep
<1>3. CASE RemoveLoadFirst(t)
  <2>1. pc[t] = "load" /\ Removing(t) BY <1>3 DEF RemoveLoadFirst, Removing, Finished
  <2>2. n = NodeOf(t) /\ n \in Nodes
    BY <1>3, <2>1, RemoveFacts DEF RemoveLoadFirst, NodeOf
  <2>3. /\ UNCHANGED <<first, firstNotReady, tasks, handle>> /\ cur'[t] = first[n]
        /\ pc'[t] # "midCas" /\ (pc'[t] = "scan" => tasks[n][first[n]].handle # handle[t])
    BY <1>3, <2>2 DEF RemoveLoadFirst, Goto, LocalsType
  <2>4. first[n] < firstNotReady[n] /\ first[n] \in Nat
    BY <2>1, <2>2, OwnSlot, CursorFacts DEF SlotIndex
  <2>5. \A i \in SlotIndex : first[n] <= i /\ (i < first[n] \/ i = first[n]) => i = first[n]
    BY <2>4 DEF SlotIndex
  <2> QED BY <2>3, <2>4, <2>5
<1>4. CASE Scan(t)
  <2>1. pc[t] = "scan" /\ Removing(t) BY <1>4 DEF Scan, Removing, Finished
  <2>2. n = NodeOf(t) /\ n \in Nodes BY <1>4, <2>1, RemoveFacts DEF Scan, NodeOf
  <2>3. pc'[t] \in {"midCas", "ready"} BY <1>4 DEF Scan, Goto, LocalsType
  <2>4. CASE pc'[t] = "midCas"
    <3>1. PICK i \in MatchingSlots(t, firstNotReady[n]) : cur'[t] = i
      BY <1>4, <2>2, <2>4 DEF Scan, Goto, LocalsType
    <3>2. /\ cur[t] \in Nat /\ first[n] \in Nat /\ firstNotReady[n] \in Nat
      BY <2>2, CursorFacts DEF LocalsType
    <3>3. i \in Nat /\ cur[t] < i /\ i < firstNotReady[n] /\ tasks[n][i].handle = handle[t]
      BY <2>2, <3>1, <3>2 DEF MatchingSlots
    <3>4. i \in SlotIndex BY <2>2, <3>2, <3>3, CursorFacts
    <3>5. first[n] <= i BY <2>1, <2>2, <3>2, <3>3, <3>4 DEF IInv, ScanInv
    <3>6. UNCHANGED <<first, firstNotReady, tasks, handle>> BY <1>4 DEF Scan
    <3> QED BY <2>4, <3>1, <3>3, <3>5, <3>6
  <2> QED BY <2>3, <2>4
<1>5. CASE TaskStep(t) /\ ~ RemoveLoadFirst(t) /\ ~ Scan(t)
  <2>1. pc'[t] \notin {"scan", "midCas"}
    <3>1. CASE RemoveStep(t) /\ Return(t)
      BY <3>1, RemoveShape, ReturnFacts
    <3>2. CASE RemoveStep(t) /\ ~ Return(t)
      BY <1>5, <3>2 DEF RemoveStep, RemovePop, MidCAS, Sweep, SweepLoadFNR, SweepCAS,
           LoadReady, ReadyLast, ReadyCAS, Wake, LoadLast, Extend, ExtendCAS, Recheck, Goto,
           LocalsType
    <3>3. CASE Run(t) \/ Finish(t) BY <3>3 DEF Run, Finish, LocalsType
    <3> QED BY <1>5, <3>1, <3>2, <3>3 DEF TaskStep
  <2> QED BY <2>1
<1> QED BY <1>1, <1>2, <1>3, <1>4, <1>5 DEF TaskStep, RemoveStep

\* The slots a scan looks at have been written.
LEMMA ScanWindow ==
  ASSUME IInv, NEW t \in Task, pc[t] = "scan",
         NEW i \in MatchingSlots(t, firstNotReady[NodeOf(t)])
  PROVE  /\ i \in SlotIndex /\ i < last[NodeOf(t)]
         /\ tasks[NodeOf(t)][i].handle = handle[t]
<1>1. NodeOf(t) \in Nodes BY RemoveFacts DEF Removing, Finished
<1>2. cur[t] \in Nat BY DEF IInv, TypeOK, LocalsType
<1>3. i \in (cur[t] + 1)..(firstNotReady[NodeOf(t)] - 1) /\ tasks[NodeOf(t)][i].handle = handle[t]
  BY DEF MatchingSlots
<1>4. i \in Nat /\ i < last[NodeOf(t)] BY <1>1, <1>2, <1>3, CursorFacts
<1> QED BY <1>1, <1>3, <1>4, CursorFacts

\* The scan has the task's own slot ahead of it.
LEMMA ScanFinds ==
  ASSUME IInv, NEW t \in Task, pc[t] = "scan"
  PROVE  \E i \in MatchingSlots(t, firstNotReady[NodeOf(t)]) : tasks[NodeOf(t)][i].task = t
<1> DEFINE n == NodeOf(t)
<1>1. PICK i \in SlotIndex : /\ first[n] <= i /\ i < firstNotReady[n]
                             /\ tasks[n][i].handle = handle[t] /\ tasks[n][i].task = t
  BY OwnSlot
<1>2. n \in Nodes BY RemoveFacts DEF Removing, Finished
<1>3. /\ i \in Nat /\ first[n] \in Nat /\ firstNotReady[n] \in Nat /\ cur[t] \in Nat
  BY <1>2, CursorFacts DEF SlotIndex, IInv, TypeOK, LocalsType
<1>4. cur[t] <= first[n] /\ i # cur[t] BY <1>1, <1>3 DEF IInv, ScanInv
<1>5. i \in (cur[t] + 1)..(firstNotReady[n] - 1) BY <1>1, <1>3, <1>4
<1>6. i \in MatchingSlots(t, firstNotReady[n]) BY <1>1, <1>5 DEF MatchingSlots
<1> QED BY <1>1, <1>6

LEMMA ReadyInvStep == IInv /\ Next => ReadyInv'
<1>. SUFFICES ASSUME IInv, Next, NEW t \in Task, NEW n, n = NodeOf(t)'
     PROVE  /\ (Sweeping(t) \/ Readying(t))' => cur'[t] <= first'[n]
            /\ pc'[t] = "readyCas" => fnr'[t] = cur'[t] /\ cur'[t] < last'[n]
  BY DEF ReadyInv, NodeOf, Sweeping, Readying
<1>. LocalsType BY DEF IInv, TypeOK
<1>1. CASE ~ TaskStep(t)
  <2>1. SUFFICES ASSUME (Sweeping(t) \/ Readying(t))'
        PROVE  /\ cur'[t] <= first'[n]
               /\ pc'[t] = "readyCas" => fnr'[t] = cur'[t] /\ cur'[t] < last'[n]
    BY DEF Sweeping, Readying
  <2>2. Removing(t)' BY <2>1 DEF Sweeping, Readying, Removing, Finished
  <2>3. /\ Removing(t) /\ pc'[t] = pc[t] /\ n = NodeOf(t) /\ cur'[t] = cur[t]
        /\ fnr'[t] = fnr[t] /\ cur[t] \in Nat
    BY <1>1, <2>2, TaskKept DEF LocalsType
  <2>4. n \in Nodes BY <2>3, RemoveFacts
  <2>5. /\ cur[t] <= first[n]
        /\ pc[t] = "readyCas" => fnr[t] = cur[t] /\ cur[t] < last[n]
    BY <2>1, <2>3 DEF IInv, ReadyInv, Sweeping, Readying
  <2> QED BY <2>3, <2>4, <2>5, NodeStep
<1>2. CASE RemovePop(t)
  <2>1. /\ NodeOf(t) \in Nodes /\ cur'[t] = first[NodeOf(t)] + 1
        /\ first' = [first EXCEPT ![NodeOf(t)] = first[NodeOf(t)] + 1]
    BY <1>2, PopFacts
  <2>2. pc'[t] = "sweep" /\ n = NodeOf(t)
    BY <1>2, TaskFrame DEF RemovePop, Goto, LocalsType, NodeOf, TaskStep, RemoveStep
  <2>3. first \in [Nodes -> Nat] BY DEF IInv, TypeOK, NodeType
  <2> QED BY <2>1, <2>2, <2>3 DEF Sweeping, Readying
<1>3. CASE MidCAS(t) /\ ~ Return(t)
  <2>1. /\ first[NodeOf(t)] = cur[t] + 1 /\ pc'[t] = "sweep" /\ cur'[t] = cur[t] + 1
        /\ first' = [first EXCEPT ![NodeOf(t)] = cur[t] + 1] /\ n = NodeOf(t)
    BY <1>3 DEF MidCAS, CasExpected, Goto, LocalsType, NodeOf
  <2>2. NodeOf(t) \in Nodes BY <1>3, RemoveFacts DEF MidCAS, Removing, Finished
  <2>3. first \in [Nodes -> Nat] BY DEF IInv, TypeOK, NodeType
  <2> QED BY <2>1, <2>2, <2>3
<1>4. CASE SweepCAS(t) /\ ~ Return(t)
  <2>1. /\ first[NodeOf(t)] = cur[t] + 1 /\ pc'[t] = "sweep" /\ cur'[t] = cur[t] + 1
        /\ first' = [first EXCEPT ![NodeOf(t)] = cur[t] + 1] /\ n = NodeOf(t)
    BY <1>4 DEF SweepCAS, CasExpected, Goto, LocalsType, NodeOf
  <2>2. NodeOf(t) \in Nodes BY <1>4, RemoveFacts DEF SweepCAS, Removing, Finished
  <2>3. first \in [Nodes -> Nat] BY DEF IInv, TypeOK, NodeType
  <2> QED BY <2>1, <2>2, <2>3
<1>5. CASE Scan(t)
  <2>1. pc'[t] = "midCas"
    BY <1>5, ScanFinds DEF Scan, Goto, LocalsType
  <2> QED BY <2>1 DEF Sweeping, Readying
<1>6. CASE (Sweep(t) \/ SweepLoadFNR(t) \/ LoadReady(t)) /\ ~ Return(t)
  <2>1. /\ Sweeping(t) \/ Readying(t)
        /\ UNCHANGED <<first, accesses>> /\ cur'[t] = cur[t] /\ k'[t] = k[t]
        /\ pc'[t] # "readyCas"
    BY <1>6 DEF Sweep, SweepLoadFNR, LoadReady, Goto, LocalsType, Sweeping, Readying
  <2>2. n = NodeOf(t) BY <2>1 DEF NodeOf
  <2> QED BY <2>1, <2>2 DEF IInv, ReadyInv
<1>7. CASE ReadyLast(t) /\ ~ Return(t)
  <2>1. /\ Readying(t) /\ UNCHANGED <<first, last, accesses, cur, fnr, k>>
        /\ fnr[t] = cur[t] /\ last[NodeOf(t)] # cur[t]
    BY <1>7 DEF ReadyLast, Goto, Readying
  <2>2. n = NodeOf(t) BY <2>1 DEF NodeOf
  <2>3. cur[t] <= first[n] BY <2>1, <2>2 DEF IInv, ReadyInv
  <2>4. n \in Nodes /\ cur[t] \in Nat
    BY <2>1, <2>2, RemoveFacts DEF Readying, Removing, Finished, LocalsType
  <2> QED BY <2>1, <2>2, <2>3, <2>4, CursorFacts
<1>8. CASE RemoveStep(t) /\ Return(t)
  <2>1. pc'[t] \in {"load", "destroyed"} BY <1>8, RemoveShape, ReturnFacts
  <2> QED BY <2>1 DEF Sweeping, Readying
<1>9. CASE (ReadyCAS(t) \/ Wake(t) \/ LoadLast(t) \/ Extend(t) \/ ExtendCAS(t) \/ Recheck(t))
           /\ ~ Return(t)
  BY <1>9 DEF ReadyCAS, Wake, LoadLast, Extend, ExtendCAS, Recheck, Goto, LocalsType,
              Sweeping, Readying
<1>10. CASE Run(t) \/ Finish(t) \/ RemoveLoadFirst(t)
  BY <1>10 DEF Run, Finish, RemoveLoadFirst, Goto, LocalsType, Sweeping, Readying
<1> QED BY <1>1, <1>2, <1>3, <1>4, <1>5, <1>6, <1>7, <1>8, <1>9, <1>10
        DEF TaskStep, RemoveStep

\* A task that is waking after a step was waking before it, or has claimed the
\* slot at the edge of the window in it.
LEMMA WakerCases ==
  ASSUME IInv, Next, NEW u \in Task, pc'[u] = "wake"
  PROVE  /\ Removing(u) /\ NodeOf(u)' = NodeOf(u) /\ fnr'[u] = fnr[u]
         /\ \/ ~ TaskStep(u) /\ pc[u] = "wake"
            \/ TaskStep(u) /\ (ReadyCAS(u) \/ ExtendCAS(u)) /\ Claimed(u)
<1>. LocalsType BY DEF IInv, TypeOK
<1>1. CASE ~ TaskStep(u) BY <1>1, TaskKept DEF Removing, Finished
<1>2. CASE RemoveStep(u) /\ Return(u) BY <1>2, RemoveShape, ReturnFacts
<1>3. CASE RemoveStep(u) /\ ~ Return(u)
  <2>1. CASE (ReadyCAS(u) \/ ExtendCAS(u)) /\ Claimed(u)
    BY <1>3, <2>1, RemoveShape DEF ReadyCAS, ExtendCAS, TaskStep
  <2>2. CASE ~ ((ReadyCAS(u) \/ ExtendCAS(u)) /\ Claimed(u))
    BY <1>3, <2>2 DEF RemoveStep, RemoveLoadFirst, RemovePop, Scan, MidCAS, Sweep,
       SweepLoadFNR, SweepCAS, LoadReady, ReadyLast, ReadyCAS, Wake, LoadLast, Extend,
       ExtendCAS, Recheck, Goto, LocalsType
  <2> QED BY <2>1, <2>2
<1>4. CASE Run(u) \/ Finish(u) BY <1>4 DEF Run, Finish, LocalsType
<1> QED BY <1>1, <1>2, <1>3, <1>4 DEF TaskStep

LEMMA OneWakerStep == IInv /\ Next => OneWakerPerSlot'
<1>. SUFFICES ASSUME IInv, Next, NEW t \in Task, pc'[t] = "wake", NEW n, n = NodeOf(t)'
     PROVE  /\ \A u \in Task : t # u /\ pc'[u] = "wake" /\ n = NodeOf(u)' => fnr'[t] # fnr'[u]
            /\ dpc' = "dec" /\ n = DNode' => fnr'[t] # old_last'
  BY DEF OneWakerPerSlot, NodeOf, DNode, DAccess
<1>. LocalsType BY DEF IInv, TypeOK
<1> DEFINE Before(u) == /\ ~ TaskStep(u) /\ pc[u] = "wake" /\ NodeOf(u)' = NodeOf(u)
                        /\ fnr'[u] = fnr[u] /\ Removing(u)
           Now(u) == /\ TaskStep(u) /\ (ReadyCAS(u) \/ ExtendCAS(u))
                     /\ Claimed(u) /\ NodeOf(u)' = NodeOf(u)
                     /\ fnr'[u] = fnr[u] /\ Removing(u)
<1>1. ASSUME NEW u \in Task, pc'[u] = "wake" PROVE Before(u) \/ Now(u)
  BY <1>1, WakerCases
<1>2. ASSUME NEW u \in Task, Before(u), NEW m, m = NodeOf(u)'
      PROVE  fnr'[u] < firstNotReady[m] /\ fnr'[u] \in Nat /\ firstNotReady[m] \in Nat
  <2>1. m = NodeOf(u) /\ fnr'[u] = fnr[u] /\ pc[u] = "wake" BY <1>2
  <2> QED BY <2>1, WakeFacts, CursorFacts DEF LocalsType
<1>3. ASSUME NEW u \in Task, Now(u), NEW m, m = NodeOf(u)' PROVE fnr'[u] = firstNotReady[m]
  BY <1>3 DEF Claimed
<1>4. ASSUME NEW u \in Task, NEW v \in Task, Now(u), Now(v) PROVE u = v
  <2>1. CASE u # v
    <3>1. pc'[v] = pc[v] BY <1>4, <2>1, OthersFrame DEF IInv
    <3>2. pc'[v] = "wake" /\ pc[v] # "wake" BY <1>4 DEF ReadyCAS, ExtendCAS, Goto, LocalsType
    <3> QED BY <3>1, <3>2
  <2> QED BY <2>1
<1>5. ASSUME NEW u \in Task, t # u, pc'[u] = "wake", n = NodeOf(u)'
      PROVE  fnr'[t] # fnr'[u]
  <2>1. CASE Before(t) /\ Before(u)
    BY <1>5, <2>1 DEF IInv, OneWakerPerSlot
  <2>2. CASE Before(t) /\ Now(u)
    <3>1. fnr'[u] = firstNotReady[n] BY <1>3, <1>5, <2>2
    <3>2. fnr'[t] < firstNotReady[n] /\ fnr'[t] \in Nat /\ firstNotReady[n] \in Nat
      BY <1>2, <2>2
    <3> QED BY <3>1, <3>2
  <2>3. CASE Now(t) /\ Before(u)
    <3>1. fnr'[t] = firstNotReady[n] BY <1>3, <2>3
    <3>2. fnr'[u] < firstNotReady[n] /\ fnr'[u] \in Nat /\ firstNotReady[n] \in Nat
      BY <1>2, <1>5, <2>3
    <3> QED BY <3>1, <3>2
  <2>4. CASE Now(t) /\ Now(u) BY <1>4, <1>5, <2>4
  <2> QED BY <1>1, <1>5, <2>1, <2>2, <2>3, <2>4
<1>6. ASSUME dpc' = "dec", n = DNode' PROVE fnr'[t] # old_last'
  <2>1. CASE Now(t)
    <3>1. dpc = "dec" /\ UNCHANGED <<old_last, DNode>>
      BY <1>6, <2>1, TaskFrame DEF DNode, DAccess
    <3>2. /\ old_last < firstNotReady[DNode] /\ old_last \in Nat
          /\ DNode \in Nodes /\ firstNotReady[DNode] \in Nat
      BY <3>1, AddFacts, CursorFacts DEF IInv, AddInv, TypeOK, DispatcherType
    <3>3. fnr'[t] = firstNotReady[n] /\ n = DNode /\ old_last' = old_last
      BY <1>3, <1>6, <2>1, <3>1
    <3> QED BY <3>2, <3>3
  <2>2. CASE Before(t) /\ dpc = "dec" /\ UNCHANGED <<old_last, DNode>>
    BY <1>6, <2>2 DEF IInv, OneWakerPerSlot
  <2>3. CASE Before(t) /\ AddCAS
    <3>1. firstNotReady[DNode] = old_last /\ UNCHANGED <<old_last, DNode>>
      BY <1>6, <2>3 DEF AddCAS, AddReturn, DNode, DAccess
    <3>2. fnr'[t] < firstNotReady[n] /\ fnr'[t] \in Nat /\ firstNotReady[n] \in Nat
      BY <1>2, <2>3
    <3> QED BY <1>6, <3>1, <3>2
  <2>4. AddCAS \/ (dpc = "dec" /\ UNCHANGED <<old_last, DNode>>)
    <3>1. CASE Dispatch BY <1>6, <3>1, DispatchFacts
    <3>2. CASE DispatcherStep
      BY <1>6, <3>2 DEF DispatcherStep, AddPublish, AddLoadFNR, AddLoadFirst, AddCAS, AddDec,
         FinishRegistration, AddReturn
    <3>3. ASSUME NEW u \in Task, TaskStep(u)
          PROVE  dpc = "dec" /\ UNCHANGED <<old_last, DNode>>
      BY <1>6, <3>3, TaskFrame DEF DNode, DAccess
    <3>4. CASE UNCHANGED vars BY <1>6, <3>4 DEF DNode, DAccess
    <3> QED BY <3>1, <3>2, <3>3, <3>4, NextCases
  <2> QED BY <1>1, <2>1, <2>2, <2>3, <2>4
<1> QED BY <1>5, <1>6

\* The loop that makes tasks ready keeps its place.
LEMMA ExtendInvStep == IInv /\ Next => ExtendInv'
<1>. SUFFICES ASSUME IInv, Next, NEW t \in Task, NEW n, n = NodeOf(t)'
     PROVE  /\ pc'[t] = "wake" =>
                 /\ fnr'[t] < firstNotReady'[n]
                 /\ newMode'[t] = tasks'[n][fnr'[t]].mode
                 /\ parallel_exit'[t] => fnr'[t] < temp_last'[t]
            /\ Extending(t)' =>
                 /\ 0 < fnr'[t] /\ fnr'[t] <= firstNotReady'[n]
                 /\ newMode'[t] = tasks'[n][fnr'[t] - 1].mode
            /\ pc'[t] \in {"extend", "extendCas", "recheck"} => fnr'[t] <= temp_last'[t]
            /\ pc'[t] = "extendCas" => /\ fnr'[t] < temp_last'[t]
                                       /\ Parallel(newMode'[t], tasks'[n][fnr'[t]].mode)
                                       /\ parallel_exit'[t]
            /\ IF Extending(t)' \/ pc'[t] = "wake" THEN temp_last'[t] <= last'[n]
               ELSE temp_last'[t] = 0 /\ ~ parallel_exit'[t]
  BY DEF ExtendInv, NodeOf, Extending, WakeSlot, Parallel, Serial
<1>. LocalsType BY DEF IInv, TypeOK
<1>. ExtendInv BY DEF IInv
<1>. fnr[t] \in Nat /\ temp_last[t] \in Nat BY DEF LocalsType
<1>1. CASE ~ TaskStep(t) /\ Removing(t)
  <2>1. /\ pc'[t] = pc[t] /\ fnr'[t] = fnr[t] /\ temp_last'[t] = temp_last[t]
        /\ newMode'[t] = newMode[t] /\ parallel_exit'[t] = parallel_exit[t] /\ n = NodeOf(t)
    BY <1>1, TaskKept
  <2>2. n \in Nodes BY <1>1, <2>1, RemoveFacts
  <2>3. ASSUME NEW i \in Nat, i < last[n] PROVE tasks'[n][i] = tasks[n][i]
    BY <2>2, <2>3, CursorFacts, SlotStep
  <2>4. ASSUME pc[t] = "wake"
        PROVE  /\ fnr'[t] < firstNotReady'[n] /\ newMode'[t] = tasks'[n][fnr'[t]].mode
               /\ parallel_exit'[t] => fnr'[t] < temp_last'[t]
               /\ temp_last'[t] <= last'[n]
    BY <2>1, <2>2, <2>3, <2>4, NodeStep DEF ExtendInv, WakeSlot
  <2>5. ASSUME Extending(t)
        PROVE  /\ 0 < fnr'[t] /\ fnr'[t] <= firstNotReady'[n]
               /\ newMode'[t] = tasks'[n][fnr'[t] - 1].mode /\ temp_last'[t] <= last'[n]
    <3>1. /\ 0 < fnr[t] /\ fnr[t] <= firstNotReady[n] /\ temp_last[t] <= last[n]
          /\ newMode[t] = tasks[n][fnr[t] - 1].mode
      BY <2>1, <2>5 DEF ExtendInv
    <3>2. fnr[t] - 1 \in Nat /\ fnr[t] - 1 < last[n] BY <2>2, <3>1, NodeStep
    <3> QED BY <2>1, <2>2, <2>3, <3>1, <3>2, NodeStep
  <2>6. ASSUME pc[t] = "extendCas"
        PROVE  /\ fnr'[t] < temp_last'[t] /\ parallel_exit'[t]
               /\ Parallel(newMode'[t], tasks'[n][fnr'[t]].mode)
    <3>1. /\ fnr[t] < temp_last[t] /\ temp_last[t] <= last[n] /\ parallel_exit[t]
          /\ Parallel(newMode[t], tasks[n][fnr[t]].mode)
      BY <2>1, <2>6 DEF ExtendInv, Extending, WakeSlot
    <3>2. fnr[t] < last[n] BY <2>2, <3>1, NodeStep
    <3> QED BY <2>1, <2>3, <3>1, <3>2
  <2>9. Extending(t)' <=> Extending(t) BY <2>1 DEF Extending
  <2>10. ~ (Extending(t) \/ pc[t] = "wake") => temp_last[t] = 0 /\ ~ parallel_exit[t]
    BY DEF ExtendInv
  <2>11. pc[t] \in {"extend", "extendCas", "recheck"} => fnr[t] <= temp_last[t]
    BY DEF ExtendInv
  <2> QED BY <2>1, <2>4, <2>5, <2>6, <2>9, <2>10, <2>11
<1>2. CASE ~ TaskStep(t) /\ ~ Removing(t)
  <2>1. ~ Removing(t)' BY <1>2, TaskKept
  <2>2. temp_last'[t] = temp_last[t] /\ parallel_exit'[t] = parallel_exit[t]
    <3>1. CASE Dispatch BY <3>1 DEF Dispatch
    <3>2. ASSUME NEW u \in Task, TaskStep(u)
          PROVE  temp_last'[t] = temp_last[t] /\ parallel_exit'[t] = parallel_exit[t]
      BY <1>2, <3>2, OthersFrame DEF IInv
    <3> QED BY <3>1, <3>2, NextCases, DispatcherFrame
  <2> QED BY <1>2, <2>1, <2>2 DEF ExtendInv, Extending, Removing, Finished
<1>3. CASE RemoveStep(t) /\ Return(t)
  <2>1. pc'[t] \in {"load", "destroyed"} /\ temp_last'[t] = 0 /\ ~ parallel_exit'[t]
    BY <1>3, RemoveShape, ReturnFacts
  <2> QED BY <2>1 DEF Extending
<1>4. CASE Run(t) \/ Finish(t)
  BY <1>4 DEF Run, Finish, ExtendInv, Extending, LocalsType
<1>5. CASE (RemoveLoadFirst(t) \/ RemovePop(t) \/ Scan(t) \/ MidCAS(t) \/ Sweep(t)
             \/ SweepLoadFNR(t) \/ SweepCAS(t)) /\ ~ Return(t)
  <2>1. /\ ~ Extending(t) /\ pc[t] # "wake" /\ ~ Extending(t)' /\ pc'[t] # "wake"
        /\ UNCHANGED readyVars /\ pc'[t] # "extendCas"
        /\ pc'[t] \notin {"extend", "extendCas", "recheck"}
    BY <1>5 DEF RemoveLoadFirst, RemovePop, Scan, MidCAS, Sweep, SweepLoadFNR, SweepCAS,
                Goto, LocalsType, Extending
  <2> QED BY <2>1 DEF ExtendInv
<1>6. CASE (LoadReady(t) \/ ReadyLast(t)) /\ ~ Return(t)
  <2>1. /\ ~ Extending(t) /\ pc[t] # "wake" /\ ~ Extending(t)' /\ pc'[t] # "wake"
        /\ UNCHANGED <<temp_last, parallel_exit>> /\ pc'[t] # "extendCas"
        /\ pc'[t] \notin {"extend", "extendCas", "recheck"}
    BY <1>6 DEF LoadReady, ReadyLast, Goto, LocalsType, Extending
  <2> QED BY <2>1 DEF ExtendInv
\* The remaining steps are inside the loop.
<1>7. ASSUME RemoveStep(t), ~ Return(t)
      PROVE  n = NodeOf(t) /\ n \in Nodes /\ first[n] \in Nat
             /\ firstNotReady[n] \in Nat /\ last[n] \in Nat /\ firstNotReady[n] <= last[n]
             /\ last' = last /\ tasks' = tasks
  BY <1>7, RemoveShape, RemoveFacts, CursorFacts, TaskFrame DEF TaskStep
<1>8. CASE ReadyCAS(t) /\ ~ Return(t)
  <2>1. /\ Claimed(t) /\ pc[t] = "readyCas" /\ pc'[t] = "wake"
        /\ firstNotReady' = [firstNotReady EXCEPT ![NodeOf(t)] = fnr[t] + 1]
        /\ newMode'[t] = tasks[NodeOf(t)][fnr[t]].mode
        /\ UNCHANGED <<fnr, temp_last, parallel_exit>>
    BY <1>8 DEF ReadyCAS, Goto, LocalsType
  <2>2. temp_last[t] = 0 /\ ~ parallel_exit[t] BY <2>1 DEF ExtendInv, Extending
  <2>3. firstNotReady'[n] = fnr[t] + 1
    BY <1>7, <1>8, <2>1 DEF RemoveStep, IInv, TypeOK, NodeType
  <2> QED BY <1>7, <1>8, <2>1, <2>2, <2>3 DEF RemoveStep, Extending
<1>9. CASE Wake(t) /\ ~ Return(t)
  <2>1. /\ pc[t] = "wake" /\ pc'[t] = (IF parallel_exit[t] THEN "extend" ELSE "loadLast")
        /\ fnr'[t] = fnr[t] + 1 /\ UNCHANGED <<firstNotReady, newMode, temp_last, parallel_exit>>
    BY <1>9 DEF Wake, Goto, LocalsType
  <2>2. /\ fnr[t] < firstNotReady[n] /\ newMode[t] = tasks[n][fnr[t]].mode
        /\ parallel_exit[t] => fnr[t] < temp_last[t]
        /\ temp_last[t] <= last[n]
    BY <1>7, <1>9, <2>1 DEF RemoveStep, ExtendInv, WakeSlot
  <2>3. fnr'[t] - 1 = fnr[t] BY <2>1
  <2> QED BY <1>7, <1>9, <2>1, <2>2, <2>3 DEF RemoveStep, Extending
<1>10. CASE LoadLast(t) /\ ~ Return(t)
  <2>1. /\ pc[t] = "loadLast" /\ pc'[t] = "extend" /\ temp_last'[t] = last[NodeOf(t)]
        /\ UNCHANGED <<firstNotReady, newMode, fnr, parallel_exit>>
    BY <1>10 DEF LoadLast, Goto, LocalsType
  <2>2. 0 < fnr[t] /\ fnr[t] <= firstNotReady[n] /\ newMode[t] = tasks[n][fnr[t] - 1].mode
    BY <1>7, <1>10, <2>1 DEF RemoveStep, ExtendInv, Extending
  <2>3. fnr'[t] <= temp_last'[t] BY <1>7, <1>10, <2>1, <2>2 DEF RemoveStep, LocalsType
  <2>4. Extending(t)' BY <2>1 DEF Extending
  <2> QED BY <1>7, <1>10, <2>1, <2>2, <2>3, <2>4 DEF RemoveStep
<1>11. CASE (Extend(t) \/ Recheck(t)) /\ ~ Return(t)
  <2>1. /\ Extending(t) /\ UNCHANGED <<firstNotReady, newMode, fnr, temp_last>>
        /\ pc'[t] \in {"recheck", "extendCas", "loadLast"}
        /\ pc'[t] = "recheck" => fnr[t] = temp_last[t]
        /\ pc'[t] = "extendCas" => /\ pc[t] = "extend" /\ fnr[t] # temp_last[t]
                                   /\ Parallel(newMode[t], tasks[NodeOf(t)][fnr[t]].mode)
                                   /\ parallel_exit'[t]
    BY <1>11 DEF Extend, Recheck, Goto, LocalsType, Extending, Parallel
  <2>2. /\ 0 < fnr[t] /\ fnr[t] <= firstNotReady[n] /\ newMode[t] = tasks[n][fnr[t] - 1].mode
        /\ temp_last[t] <= last[n]
    BY <1>7, <1>11, <2>1 DEF RemoveStep, ExtendInv
  <2>3. pc[t] = "extend" => fnr[t] <= temp_last[t] BY DEF ExtendInv
  <2> QED BY <1>7, <1>11, <2>1, <2>2, <2>3 DEF RemoveStep, Extending
<1>12. CASE ExtendCAS(t) /\ ~ Return(t)
  <2>1. /\ pc[t] = "extendCas" /\ pc'[t] = "wake"
        /\ firstNotReady' = [firstNotReady EXCEPT ![NodeOf(t)] = fnr[t] + 1]
        /\ UNCHANGED <<fnr, temp_last, newMode, parallel_exit>>
    BY <1>12 DEF ExtendCAS, Goto, LocalsType
  <2>2. /\ fnr[t] < temp_last[t] /\ temp_last[t] <= last[n]
        /\ Parallel(newMode[t], tasks[n][fnr[t]].mode)
    BY <1>7, <1>12, <2>1 DEF RemoveStep, ExtendInv, Extending, WakeSlot
  <2>3. newMode[t] = tasks[n][fnr[t]].mode BY <2>2, ParallelModes
  <2>4. firstNotReady'[n] = fnr[t] + 1
    BY <1>7, <1>12, <2>1 DEF RemoveStep, IInv, TypeOK, NodeType
  <2> QED BY <1>7, <1>12, <2>1, <2>2, <2>3, <2>4 DEF RemoveStep, Extending
<1> QED BY <1>1, <1>2, <1>3, <1>4, <1>5, <1>6, <1>8, <1>9, <1>10, <1>11, <1>12
        DEF TaskStep, RemoveStep

\* A task becomes registered when dispatch_task is done with it, and stays so.
LEMMA RegisteredStep ==
  ASSUME IInv, Next, NEW t \in Task
  PROVE  /\ Registered(t)' <=> Registered(t) \/ (FinishRegistration /\ t = dtask)
         /\ FinishRegistration => dpc = "finish" /\ dtask \in Task
                                  /\ pc[dtask] = "waiting" /\ ~ Registered(dtask)
<1>1. ASSUME FinishRegistration
      PROVE  dpc = "finish" /\ dtask \in Task /\ pc[dtask] = "waiting" /\ ~ Registered(dtask)
  BY <1>1 DEF FinishRegistration, IInv, DispatcherInv, Registered
<1>2. CASE Dispatch
  <2>1. ~ FinishRegistration BY <1>2, <1>1, DispatchFacts
  <2>2. CASE t = dtask'
    BY <1>2, <2>1, <2>2, DispatchFacts DEF Registered
  <2>3. CASE t # dtask' BY <1>2, <2>1, <2>3, DispatchFacts DEF Registered
  <2> QED BY <1>1, <2>2, <2>3
<1>3. CASE DispatcherStep
  <2>. UNCHANGED <<pc, dtask>> BY <1>3, DispatcherFrame
  <2>1. CASE FinishRegistration
    BY <1>1, <2>1 DEF FinishRegistration, Registered
  <2>2. CASE ~ FinishRegistration
    <3>1. dpc # "idle" /\ dpc' # "idle"
      BY <1>3, <2>2 DEF DispatcherStep, AddPublish, AddLoadFNR, AddLoadFirst, AddCAS, AddDec,
                        AddReturn
    <3> QED BY <2>2, <3>1 DEF Registered
  <2> QED BY <1>1, <2>1, <2>2
<1>4. ASSUME NEW u \in Task, TaskStep(u)
      PROVE  (Registered(t)' <=> Registered(t)) /\ ~ FinishRegistration
  <2>1. UNCHANGED <<dpc, dtask>> BY <1>4, TaskFrame
  <2>2. ~ FinishRegistration BY <1>1, <2>1 DEF FinishRegistration
  <2> QED BY <1>4, <2>1, <2>2, TaskPc DEF Registered
<1>5. CASE UNCHANGED vars
  <2>1. ~ FinishRegistration BY <1>1, <1>5 DEF FinishRegistration
  <2> QED BY <1>5, <2>1 DEF Registered
<1> QED BY <1>1, <1>2, <1>3, <1>4, <1>5, NextCases

\* What the counters of the promises count.
LEMMA CountInvStep == IInv /\ Next => CountInv'
<1>. SUFFICES ASSUME IInv, Next, NEW t \in Task, NEW o, o = owed'[t]
     PROVE  /\ o \subseteq DOMAIN accesses'[t]
            /\ waitCounter'[t] = (IF Registered(t)' THEN 0 ELSE InvalidWaitState)
                                   + Cardinality(o)
            /\ handed'[t] = IF Registered(t)' /\ o = {} THEN 1 ELSE 0
            /\ Started(t)' => Registered(t)' /\ o = {}
  BY DEF CountInv, Started, Registered
<1>. /\ waitCounter \in [Task -> Nat] /\ handed \in [Task -> Nat] /\ pc \in [Task -> Label]
     /\ owed \in [Task -> SUBSET Nat] /\ InvalidWaitState \in Nat
     /\ accesses[t] \in Seq(Access)
  BY SentinelAssumption DEF IInv, TypeOK, PromiseType, LocalsType
<1>1. /\ owed[t] \subseteq DOMAIN accesses[t]
      /\ waitCounter[t] = (IF Registered(t) THEN 0 ELSE InvalidWaitState)
                            + Cardinality(owed[t])
      /\ handed[t] = IF Registered(t) /\ owed[t] = {} THEN 1 ELSE 0
      /\ Started(t) => Registered(t) /\ owed[t] = {}
  BY DEF IInv, CountInv
<1>2. CASE Dispatch
  <2>1. ~ FinishRegistration BY <1>2, RegisteredStep, DispatchFacts
  <2>2. CASE t = dtask'
    <3>1. ~ Registered(t) /\ ~ Registered(t)' /\ handed'[t] = 0 /\ ~ Started(t)'
      BY <1>1, <1>2, <2>1, <2>2, DispatchFacts, RegisteredStep DEF Registered, Started
    <3>2. /\ accesses'[t] \in Seq(Access) /\ o = 1..Len(accesses'[t])
          /\ waitCounter'[t] = InvalidWaitState + Len(accesses'[t])
      BY <1>2, <2>2, DispatchFacts, AccessListsAssumption
    <3>3. Len(accesses'[t]) \in Nat /\ o \subseteq DOMAIN accesses'[t] BY <3>2
    <3>4. ASSUME NEW N \in Nat PROVE Cardinality(1..N) = N
      <4>1. Cardinality(1..N) = IF 1 > N THEN 0 ELSE N - 1 + 1 BY FS_Interval
      <4> QED BY <4>1
    <3>5. PICK N \in Nat : N = Len(accesses'[t]) BY <3>3
    <3>6. Cardinality(o) = N BY <3>2, <3>4, <3>5
    <3> QED BY <3>1, <3>2, <3>3, <3>5, <3>6
  <2>3. CASE t # dtask'
    <3>1. /\ accesses'[t] = accesses[t] /\ waitCounter'[t] = waitCounter[t]
          /\ o = owed[t] /\ handed'[t] = handed[t] /\ (Started(t)' <=> Started(t))
      BY <1>2, <2>3, DispatchFacts DEF Started
    <3> QED BY <1>1, <2>1, <3>1, RegisteredStep
  <2> QED BY <2>2, <2>3
<1>3. CASE DispatcherStep
  <2>. UNCHANGED <<pc, dtask, accesses>> BY <1>3, DispatcherFrame
  <2>0. Started(t)' <=> Started(t) BY DEF Started
  <2>1. CASE FinishRegistration
    <3>1. UNCHANGED owed /\ waitCounter' = [waitCounter EXCEPT ![dtask] = @ - InvalidWaitState]
      BY <2>1 DEF FinishRegistration
    <3>2. CASE t = dtask
      <4>1. ~ Registered(t) /\ Registered(t)' /\ ~ Started(t) /\ handed[t] = 0
        BY <1>1, <2>1, <3>2, RegisteredStep DEF Started
      <4>2. Cardinality(o) \in Nat /\ (Cardinality(o) = 0 <=> o = {})
        BY <3>1, CountFacts
      <4>3. waitCounter[t] = InvalidWaitState + Cardinality(o) BY <1>1, <3>1, <4>1
      <4>4. waitCounter'[t] = Cardinality(o) BY <3>1, <3>2, <4>2, <4>3
      <4>5. waitCounter[t] = InvalidWaitState <=> o = {} BY <4>2, <4>3
      <4>6. CASE o = {}
        <5>1. handed'[t] = handed[t] + 1 BY <2>1, <3>2, <4>5, <4>6 DEF FinishRegistration
        <5> QED BY <1>1, <2>0, <3>1, <4>1, <4>4, <4>6, <5>1
      <4>7. CASE o # {}
        <5>1. handed'[t] = handed[t] BY <2>1, <3>2, <4>5, <4>7 DEF FinishRegistration
        <5> QED BY <1>1, <2>0, <3>1, <4>1, <4>4, <4>7, <5>1
      <4> QED BY <4>6, <4>7
    <3>3. CASE t # dtask
      <4>1. waitCounter'[t] = waitCounter[t] BY <3>1, <3>3
      <4>2. handed'[t] = handed[t] BY <2>1, <3>3 DEF FinishRegistration
      <4> QED BY <1>1, <2>0, <3>1, <3>3, <4>1, <4>2, RegisteredStep
    <3> QED BY <3>2, <3>3
  <2>2. CASE AddDec
    <3>0. ~ FinishRegistration BY <2>2, RegisteredStep DEF AddDec
    <3>1. /\ waitCounter' = [waitCounter EXCEPT ![dtask] = @ - 1]
          /\ owed' = [owed EXCEPT ![dtask] = @ \ {dk}] /\ UNCHANGED handed
          /\ dk \in owed[dtask] /\ dtask \in Task /\ ~ Registered(dtask)
          /\ pc[dtask] = "waiting"
      BY <2>2, AddFacts DEF AddDec, IInv, AddInv
    <3>2. CASE t = dtask
      <4>1. o = owed[t] \ {dk} /\ waitCounter'[t] = waitCounter[t] - 1 BY <3>1, <3>2
      <4>2. waitCounter'[t] = InvalidWaitState + Cardinality(o)
        BY <3>1, <3>2, <4>1, TakeBack
      <4> QED BY <1>1, <2>0, <3>0, <3>1, <3>2, <4>1, <4>2, RegisteredStep DEF Started
    <3>3. CASE t # dtask BY <1>1, <2>0, <3>0, <3>1, <3>3, RegisteredStep
    <3> QED BY <3>2, <3>3
  <2>3. CASE AddPublish \/ AddLoadFNR \/ AddLoadFirst \/ AddCAS
    <3>1. UNCHANGED <<waitCounter, owed, handed>>
      BY <2>3 DEF AddPublish, AddLoadFNR, AddLoadFirst, AddCAS
    <3>2. ~ FinishRegistration
      BY <2>3, RegisteredStep DEF AddPublish, AddLoadFNR, AddLoadFirst, AddCAS
    <3> QED BY <1>1, <2>0, <3>1, <3>2, RegisteredStep
  <2> QED BY <1>3, <2>1, <2>2, <2>3 DEF DispatcherStep
<1>4. ASSUME NEW u \in Task, TaskStep(u)
      PROVE  /\ o \subseteq DOMAIN accesses'[t]
             /\ waitCounter'[t] = (IF Registered(t)' THEN 0 ELSE InvalidWaitState)
                                    + Cardinality(o)
             /\ handed'[t] = IF Registered(t)' /\ o = {} THEN 1 ELSE 0
             /\ Started(t)' => Registered(t)' /\ o = {}
  <2>. UNCHANGED accesses BY <1>4, TaskFrame
  <2>0. ~ FinishRegistration BY <1>4, TaskFrame, RegisteredStep DEF FinishRegistration
  <2>1. Registered(t)' <=> Registered(t) BY <2>0, RegisteredStep
  <2>2. o \subseteq owed[t]
    <3>1. CASE o = owed[t] BY <3>1
    <3>2. CASE Wake(u) BY <3>2, WakeStep
    <3> QED BY <1>4, <3>1, <3>2, TaskCounts
  <2>3. Started(t)' => Registered(t)' /\ o = {}
    <3>1. CASE Started(t) BY <1>1, <2>1, <2>2, <3>1
    <3>2. CASE ~ Started(t) /\ Started(t)'
      <4>1. Run(u) /\ u = t BY <1>4, <3>2, TaskPc DEF Started
      <4> QED BY <2>1, <2>2, <4>1, RunFacts
    <3> QED BY <3>1, <3>2
  <2>4. CASE UNCHANGED <<owed, waitCounter, handed>> BY <1>1, <2>1, <2>3, <2>4
  <2>5. CASE Wake(u)
    <3> DEFINE v == WakeSlot(u).task
               p == WakeSlot(u).pos
    <3>1. v \in Task /\ p \in owed[v] BY <2>5, WakeFacts DEF Wake
    <3>2. /\ waitCounter' = [waitCounter EXCEPT ![v] = @ - 1]
          /\ handed' = IF TakesLastCount(v) THEN [handed EXCEPT ![v] = @ + 1] ELSE handed
      BY <2>5 DEF Wake
    <3> HIDE DEF v, p
    <3>3. CASE t = v
      <4>1. o = owed[t] \ {p} BY <2>5, <3>3, WakeStep DEF v, p
      <4>2. waitCounter'[t] = waitCounter[t] - 1 BY <3>2, <3>3
      <4>3. waitCounter[t] = 1 <=> Registered(t) /\ o = {} BY <3>1, <3>3, <4>1, TakeBack
      <4>4. waitCounter'[t] = (IF Registered(t) THEN 0 ELSE InvalidWaitState) + Cardinality(o)
        BY <3>1, <3>3, <4>1, <4>2, TakeBack
      <4>5. handed[t] = 0 BY <1>1, <3>1, <3>3
      <4>6. CASE waitCounter[t] = 1
        <5>1. handed'[t] = handed[t] + 1 BY <3>2, <3>3, <4>6 DEF TakesLastCount
        <5> QED BY <1>1, <2>1, <2>2, <2>3, <4>3, <4>4, <4>5, <4>6, <5>1
      <4>7. CASE waitCounter[t] # 1
        <5>1. handed'[t] = handed[t] BY <3>2, <3>3, <4>7 DEF TakesLastCount
        <5> QED BY <1>1, <2>1, <2>2, <2>3, <4>3, <4>4, <4>5, <4>7, <5>1
      <4> QED BY <4>6, <4>7
    <3>4. CASE t # v
      <4>1. o = owed[t] BY <2>5, <3>4, WakeStep DEF v
      <4>2. waitCounter'[t] = waitCounter[t] BY <3>2, <3>4
      <4>3. handed'[t] = handed[t] BY <3>2, <3>4
      <4> QED BY <1>1, <2>1, <2>3, <4>1, <4>2, <4>3
    <3> QED BY <3>3, <3>4
  <2> QED BY <1>4, <2>4, <2>5, TaskCounts
<1>5. CASE UNCHANGED vars
  <2>1. UNCHANGED Registered(t) /\ UNCHANGED Started(t) BY <1>5 DEF Registered, Started
  <2> QED BY <1>1, <1>5, <2>1
<1> QED BY <1>2, <1>3, <1>4, <1>5, NextCases

\* An access stays owed unless its count is taken back in the step.
LEMMA OwedStep ==
  ASSUME IInv, Next, NEW t \in Task, t <= dtask, NEW p \in owed[t]
  PROVE  \/ p \in owed'[t]
         \/ AddDec /\ t = dtask /\ p = dk
         \/ \E u \in Task : /\ Wake(u) /\ TaskStep(u)
                            /\ t = WakeSlot(u).task /\ p = WakeSlot(u).pos
<1>1. CASE Dispatch
  <2>1. t # dtask'
    BY <1>1, DispatchFacts, NumTasksAssumption DEF Task, IInv, TypeOK, DispatcherType
  <2> QED BY <1>1, <2>1, DispatchFacts
<1>2. CASE DispatcherStep
  <2>1. CASE AddDec BY <2>1 DEF AddDec, IInv, TypeOK, PromiseType
  <2> QED BY <1>2, <2>1 DEF DispatcherStep, AddPublish, AddLoadFNR, AddLoadFirst, AddCAS,
                            FinishRegistration
<1>3. ASSUME NEW u \in Task, TaskStep(u)
      PROVE  p \in owed'[t] \/ (Wake(u) /\ t = WakeSlot(u).task /\ p = WakeSlot(u).pos)
  <2>1. CASE Wake(u) BY <2>1, WakeStep
  <2> QED BY <1>3, <2>1, TaskCounts
<1> QED BY <1>1, <1>2, <1>3, NextCases

\* The slot of the access add_task takes back is no waiting slot, and nobody
\* else's.
LEMMA AddDecSlot ==
  ASSUME IInv, AddDec, NEW n \in Nodes, NEW i \in SlotIndex, i < last[n],
         tasks[n][i].task = dtask, tasks[n][i].pos = dk
  PROVE  n = DNode /\ i = old_last /\ i < firstNotReady[n]
<1>1. dpc = "dec" /\ Adding BY DEF AddDec, Adding
<1>2. DNode \in Nodes /\ old_last < firstNotReady[DNode]
  BY <1>1, AddFacts DEF IInv, AddInv
<1>3. /\ old_last \in SlotIndex /\ old_last < last[DNode]
      /\ tasks[DNode][old_last].task = dtask /\ tasks[DNode][old_last].pos = dk
  BY <1>1, AddingFacts
<1> QED BY <1>2, <1>3, SlotUnique

\* What is owed: accesses that are not published, that wait, or whose waker is
\* on its way.
LEMMA OwedInvStep == IInv /\ Next => OwedInv'
<1>. SUFFICES ASSUME IInv, Next PROVE OwedInv' OBVIOUS
<1>1. ASSUME NEW t \in Task, t <= dtask', NEW p \in DOMAIN accesses'[t], ~ Published(t, p)'
      PROVE  p \in owed'[t]
  <2>1. CASE Dispatch /\ t = dtask'
    <3>1. accesses'[t] \in Seq(Access) /\ owed'[t] = 1..Len(accesses'[t])
      BY <2>1, DispatchFacts, AccessListsAssumption
    <3> QED BY <1>1, <3>1
  <2>2. CASE t <= dtask
    <3>1. p \in DOMAIN accesses[t] BY <1>1, <2>2, HandleStep
    <3>2. ~ Published(t, p) BY <1>1, <2>2, <3>1, PublishedStep
    <3>3. p \in owed[t] BY <2>2, <3>1, <3>2 DEF IInv, OwedInv
    <3>4. ~ (AddDec /\ t = dtask /\ p = dk) BY <3>2 DEF AddDec, Published
    <3>5. ASSUME NEW u \in Task, Wake(u), t = WakeSlot(u).task, p = WakeSlot(u).pos
          PROVE  FALSE
      <4>1. /\ NodeOf(u) \in Nodes /\ fnr[u] \in SlotIndex /\ fnr[u] < last[NodeOf(u)]
        BY <3>5, WakeFacts DEF Wake
      <4> QED BY <3>2, <3>5, <4>1, SlotFacts DEF WakeSlot
    <3> QED BY <2>2, <3>3, <3>4, <3>5, OwedStep
  <2>3. (Dispatch /\ t = dtask') \/ t <= dtask
    <3>1. t \in Nat /\ dtask \in Nat
      BY NumTasksAssumption DEF Task, IInv, TypeOK, DispatcherType
    <3>2. CASE Dispatch BY <1>1, <3>1, <3>2, DispatchFacts
    <3> QED BY <1>1, <3>2, NextCases, DispatcherFrame, TaskFrame
  <2> QED BY <2>1, <2>2, <2>3
<1>2. ASSUME NEW n \in Nodes, NEW i \in SlotIndex, firstNotReady'[n] <= i, i < last'[n]
      PROVE  tasks'[n][i].pos \in owed'[tasks'[n][i].task]
  <2>1. /\ i \in Nat /\ last[n] \in Nat /\ firstNotReady[n] \in Nat /\ firstNotReady'[n] \in Nat
    BY CursorFacts, TypeOKStep DEF SlotIndex, TypeOK, NodeType
  <2>2. CASE i < last[n]
    <3>1. tasks'[n][i] = tasks[n][i] BY <2>2, SlotStep
    <3>2. firstNotReady[n] <= i BY <1>2, <2>1, Monotone
    <3>3. tasks[n][i].pos \in owed[tasks[n][i].task] BY <2>2, <3>2 DEF IInv, OwedInv
    <3>4. tasks[n][i].task \in Task /\ tasks[n][i].task <= dtask BY <2>2, SlotFacts
    <3>5. CASE AddDec /\ tasks[n][i].task = dtask /\ tasks[n][i].pos = dk
      BY <2>1, <2>2, <3>2, <3>5, AddDecSlot
    <3>6. ASSUME NEW u \in Task, Wake(u)
          PROVE  tasks[n][i].pos \in owed'[tasks[n][i].task]
      <4>1. fnr[u] < firstNotReady[NodeOf(u)] /\ fnr[u] \in Nat
        BY <3>6, WakeFacts DEF Wake, SlotIndex
      <4>2. n # NodeOf(u) \/ i # fnr[u] BY <2>1, <3>2, <4>1
      <4> QED BY <2>2, <3>3, <3>6, <4>2, WakeStep
    <3> QED BY <3>1, <3>3, <3>4, <3>5, <3>6, OwedStep
  <2>3. CASE ~ (i < last[n])
    <3>1. AddPublish BY <1>2, <2>3, ArrayStep
    <3>2. n = DNode /\ i = last[n] BY <1>2, <2>1, <2>3, <3>1, PublishFacts
    <3>3. tasks'[n][i].task = dtask /\ tasks'[n][i].pos = dk /\ UNCHANGED owed
      BY <3>1, <3>2, PublishFacts
    <3>4. dtask \in Task /\ dk \in DOMAIN accesses[dtask] /\ dtask \in Nat /\ dk \in Nat
      BY <3>1, AddFacts DEF AddPublish
    <3>5. ~ Published(dtask, dk) BY <3>1, <3>4 DEF Published, AddPublish
    <3> QED BY <3>3, <3>4, <3>5 DEF IInv, OwedInv
  <2> QED BY <2>2, <2>3
<1>3. ASSUME NEW t \in Task, pc'[t] = "wake", NEW s, s = WakeSlot(t)'
      PROVE  s.pos \in owed'[s.task]
  <2> DEFINE n == NodeOf(t)
  <2>1. NodeOf(t)' = n /\ fnr'[t] = fnr[t] BY <1>3, WakerCases
  <2>2. CASE ~ TaskStep(t) /\ pc[t] = "wake"
    <3>1. /\ n \in Nodes /\ fnr[t] \in SlotIndex /\ fnr[t] < last[n]
          /\ tasks[n][fnr[t]].pos \in owed[tasks[n][fnr[t]].task]
          /\ tasks[n][fnr[t]].task \in Task /\ tasks[n][fnr[t]].task <= dtask
      BY <2>2, WakeFacts, SlotFacts DEF WakeSlot
    <3>2. s = tasks[n][fnr[t]] BY <1>3, <2>1, <3>1, SlotStep DEF WakeSlot
    <3>3. CASE AddDec /\ tasks[n][fnr[t]].task = dtask /\ tasks[n][fnr[t]].pos = dk
      <4>1. n = DNode /\ fnr[t] = old_last BY <3>1, <3>3, AddDecSlot
      <4>2. dpc = "dec" BY <3>3 DEF AddDec
      <4> QED BY <2>2, <4>1, <4>2 DEF IInv, OneWakerPerSlot
    <3>4. ASSUME NEW u \in Task, Wake(u), TaskStep(u)
          PROVE  tasks[n][fnr[t]].pos \in owed'[tasks[n][fnr[t]].task]
      <4>1. u # t /\ pc[u] = "wake" BY <2>2, <3>4 DEF Wake
      <4>2. n # NodeOf(u) \/ fnr[t] # fnr[u] BY <2>2, <4>1 DEF IInv, OneWakerPerSlot
      <4> QED BY <3>1, <3>4, <4>2, WakeStep
    <3> QED BY <3>1, <3>2, <3>3, <3>4, OwedStep
  <2>3. CASE TaskStep(t) /\ (ReadyCAS(t) \/ ExtendCAS(t)) /\ Claimed(t)
    <3>1. pc[t] \in {"readyCas", "extendCas"} /\ UNCHANGED owed
      BY <2>3 DEF ReadyCAS, ExtendCAS
    <3>2. n \in Nodes /\ fnr[t] \in Nat /\ fnr[t] < last[n] /\ fnr[t] = firstNotReady[n]
      BY <2>3, <3>1, ClaimFacts
    <3>3. fnr[t] \in SlotIndex /\ firstNotReady[n] <= fnr[t] BY <3>2, CursorFacts
    <3>4. s = tasks[n][fnr[t]] BY <1>3, <2>1, <3>2, <3>3, SlotStep DEF WakeSlot
    <3> QED BY <3>1, <3>2, <3>3, <3>4 DEF IInv, OwedInv
  <2> QED BY <1>3, <2>2, <2>3, WakerCases
<1> QED BY <1>1, <1>2, <1>3 DEF OwedInv

\* The invariant holds of the empty program state.
LEMMA InitIInv == Init => IInv
<1>. SUFFICES ASSUME Init PROVE IInv OBVIOUS
<1>1. TypeOK
  <2>1. NodeType BY CapacityAssumption DEF Init, NodeType, SlotIndex, Slot, EmptySlot
  <2>2. PromiseType BY SentinelAssumption DEF Init, PromiseType
  <2>3. DispatcherType BY DEF Init, DispatcherType, DLabel
  <2>4. LocalsType BY DEF Init, LocalsType, Label
  <2> QED BY <2>1, <2>2, <2>3, <2>4 DEF TypeOK
<1>2. DispatcherInv
  BY NumTasksAssumption DEF Init, DispatcherInv, Adding, Task
<1>3. CursorInv /\ SlotInv /\ SortedInv /\ WindowInv /\ PoppedInv
  BY DEF Init, CursorInv, SlotInv, SortedInv, WindowInv, PoppedInv, SlotIndex
<1>4. RegisteredInv BY DEF Init, RegisteredInv
<1>5. AddInv BY DEF Init, AddInv, Adding
<1>6. HandleInv BY DEF Init, HandleInv, Live
<1>7. RemoveInv /\ PopInv /\ ScanInv /\ ReadyInv /\ ExtendInv /\ OneWakerPerSlot
  BY DEF Init, RemoveInv, PopInv, ScanInv, ReadyInv, ExtendInv, OneWakerPerSlot,
         Removing, Finished, Sweeping, Readying, Extending
<1>8. CountInv
  BY FS_EmptySet, SentinelAssumption DEF Init, CountInv, Registered, Started
<1>9. OwedInv BY CapacityAssumption DEF Init, OwedInv, SlotIndex
<1> QED BY <1>1, <1>2, <1>3, <1>4, <1>5, <1>6, <1>7, <1>8, <1>9 DEF IInv

\* A step that changes nothing keeps the invariant.
LEMMA StutterIInv == IInv /\ UNCHANGED vars => IInv'
<1>. SUFFICES ASSUME IInv, UNCHANGED vars PROVE IInv' OBVIOUS
<1>1. TypeOK'
  BY DEF IInv, TypeOK, NodeType, PromiseType, DispatcherType, LocalsType
<1>2. DispatcherInv' BY DEF IInv, DispatcherInv, Adding
<1>3. CursorInv' BY DEF IInv, CursorInv
<1>4. SlotInv' BY DEF IInv, SlotInv, Published, ANode, AMode
<1>5. SortedInv' BY DEF IInv, SortedInv, ANode
<1>6. RegisteredInv' BY DEF IInv, RegisteredInv, Published, ANode, AMode
<1>7. AddInv' BY DEF IInv, AddInv, Adding, DNode, DAccess
<1>8. HandleInv' BY DEF IInv, HandleInv, Live
<1>9. WindowInv' /\ PoppedInv'
  BY DEF IInv, WindowInv, PoppedInv, Parallel, Serial, PastPop, Removing, Finished
<1>10. RemoveInv' BY DEF IInv, RemoveInv, Removing, Finished
<1>11. PopInv' /\ ScanInv' /\ ReadyInv'
  BY DEF IInv, PopInv, ScanInv, ReadyInv, NodeOf, Sweeping, Readying
<1>12. ExtendInv' /\ OneWakerPerSlot'
  BY DEF IInv, ExtendInv, OneWakerPerSlot, NodeOf, WakeSlot, Parallel, Serial, Extending,
         DNode, DAccess
<1>13. CountInv' /\ OwedInv'
  BY DEF IInv, CountInv, OwedInv, Registered, Started, Published, WakeSlot, NodeOf
<1> QED
  BY <1>1, <1>2, <1>3, <1>4, <1>5, <1>6, <1>7, <1>8, <1>9, <1>10, <1>11, <1>12, <1>13
  DEF IInv

-----------------------------------------------------------------------------
(* The theorems.                                                           *)

\* IInv is an invariant of every execution of the dispatcher and the removers.
THEOREM Invariance == Spec => []IInv
<1>1. IInv /\ [Next]_vars => IInv'
  <2>1. IInv /\ Next => IInv'
    BY TypeOKStep, DispatcherInvStep, CursorInvStep, SlotInvStep, SortedInvStep,
       RegisteredInvStep, AddInvStep, HandleInvStep, WindowInvStep, PoppedInvStep,
       RemoveInvStep, PopInvStep, ScanInvStep, ReadyInvStep, ExtendInvStep, OneWakerStep,
       CountInvStep, OwedInvStep
    DEF IInv
  <2> QED BY <2>1, StutterIInv
<1> QED BY InitIInv, <1>1, PTL DEF Spec

\* Type correctness: in particular no waitCounter is ever decremented below
\* zero and no cursor leaves the array, as long as the array has room.
THEOREM TypeCorrect == Spec => []TypeOK
<1>1. IInv => TypeOK BY DEF IInv
<1> QED BY <1>1, Invariance, PTL

\* A task that is registered and waits for nothing follows its conflicting
\* predecessors: their slots come before its own at a common node, its own is
\* in the window, and so theirs are popped.
LEMMA OrderOfSlots ==
  ASSUME IInv, NEW t \in Task, NEW u \in Task, t < u, Conflicts(t, u),
         Registered(u), owed[u] = {}
  PROVE  Finished(t)
<1>1. PICK i \in DOMAIN accesses[t], j \in DOMAIN accesses[u] :
        ANode(t, i) = ANode(u, j) /\ Serial(AMode(t, i), AMode(u, j))
  BY DEF Conflicts, ANode, AMode
<1> DEFINE n == ANode(t, i)
<1>2. n \in Nodes /\ t \in Nat /\ u \in Nat /\ dtask \in Nat
  BY AccessType, NumTasksAssumption DEF Task, IInv, TypeOK, DispatcherType
<1>3. u <= dtask /\ Published(u, j) BY <1>1, RegisteredFacts
<1>4. t < dtask /\ Published(t, i) BY <1>2, <1>3 DEF Published
<1>5. PICK a \in SlotIndex : a < last[n] /\ tasks[n][a].task = t
  BY <1>1, <1>2, <1>4 DEF IInv, RegisteredInv
<1>6. PICK b \in SlotIndex : b < last[n] /\ tasks[n][b].task = u
  BY <1>1, <1>3 DEF IInv, RegisteredInv
<1>7. tasks[n][a].pos = i /\ tasks[n][a].mode = AMode(t, i)
  BY <1>1, <1>2, <1>5, SlotFacts, AccessUnique
<1>8. tasks[n][b].pos = j /\ tasks[n][b].mode = AMode(u, j)
  BY <1>1, <1>2, <1>6, SlotFacts, AccessUnique
<1>9. a \in Nat /\ b \in Nat BY DEF SlotIndex
<1>10. a < b
  <2>1. ~ (b < a) BY <1>2, <1>5, <1>6 DEF IInv, SortedInv
  <2>2. a # b BY <1>2, <1>5, <1>6
  <2> QED BY <1>9, <2>1, <2>2
<1>11. b < firstNotReady[n] /\ first[n] \in Nat /\ firstNotReady[n] \in Nat
  BY <1>2, <1>3, <1>6, <1>9, CursorFacts DEF IInv, OwedInv
<1>12. CASE first[n] <= a
  BY <1>1, <1>2, <1>7, <1>8, <1>10, <1>11, <1>12 DEF IInv, WindowInv, Parallel
<1>13. CASE a < first[n]
  BY <1>2, <1>5, <1>7, <1>13 DEF IInv, PoppedInv, PastPop, Removing, Finished
<1> QED BY <1>9, <1>11, <1>12, <1>13

\* Program order of conflicting tasks: a task starts only after all the tasks
\* dispatched before it that conflict with it have run to their end.
THEOREM ProgramOrderHolds == Spec => []ProgramOrder
<1>1. IInv => ProgramOrder BY OrderOfSlots DEF ProgramOrder, IInv, CountInv
<1> QED BY <1>1, Invariance, PTL

\* A task is handed to an executor exactly once, when its registration is over
\* and its counter is down to zero.
THEOREM HandedOnceHolds == Spec => []HandedOnce
<1>1. IInv => HandedOnce
  <2>. SUFFICES ASSUME IInv, NEW t \in Task
       PROVE handed[t] = IF Registered(t) /\ waitCounter[t] = 0 THEN 1 ELSE 0
    BY DEF HandedOnce
  <2>1. /\ waitCounter[t] = (IF Registered(t) THEN 0 ELSE InvalidWaitState)
                              + Cardinality(owed[t])
        /\ handed[t] = IF Registered(t) /\ owed[t] = {} THEN 1 ELSE 0
    BY DEF IInv, CountInv
  <2> QED BY <2>1, CountFacts
<1> QED BY <1>1, Invariance, PTL

\* No thread decrements a counter that is zero, or one of a promise that may
\* already be destroyed.
THEOREM NoLateWakeHolds == Spec => []NoLateWake
<1>1. IInv => NoLateWake
  <2>. SUFFICES ASSUME IInv PROVE NoLateWake OBVIOUS
  <2>1. ASSUME NEW t \in Task, pc[t] = "wake"
        PROVE  /\ WakeSlot(t).task \in Task /\ pc[WakeSlot(t).task] = "waiting"
               /\ waitCounter[WakeSlot(t).task] > 0
    <3>1. WakeSlot(t).task \in Task /\ pc[WakeSlot(t).task] = "waiting"
          /\ WakeSlot(t).pos \in owed[WakeSlot(t).task]
      BY <2>1, WakeFacts
    <3> QED BY <3>1, TakeBack
  <2>2. ASSUME dpc = "dec" PROVE pc[dtask] = "waiting" /\ waitCounter[dtask] > 0
    <3>1. dtask \in Task /\ pc[dtask] = "waiting" BY <2>2, AddFacts
    <3>2. dk \in owed[dtask] BY <2>2 DEF IInv, AddInv
    <3> QED BY <3>1, <3>2, TakeBack
  <2> QED BY <2>1, <2>2 DEF NoLateWake
<1> QED BY <1>1, Invariance, PTL

\* Every count of a waitCounter is taken back by one thread.
THEOREM OneWakerHolds == Spec => []OneWakerPerSlot
<1>1. IInv => OneWakerPerSlot BY DEF IInv
<1> QED BY <1>1, Invariance, PTL

\* remove_task has the entry of its own task ahead of it, and takes no entry of
\* another task that still exists for it (ResourceNode.hpp:119, :155-160).
THEOREM RemoveFindsTaskHolds == Spec => []RemoveFindsTask
<1>1. IInv => RemoveFindsTask
  <2>. SUFFICES ASSUME IInv, NEW t \in Task
       PROVE /\ pc[t] = "scan" =>
                   /\ \E i \in MatchingSlots(t, firstNotReady[NodeOf(t)]) :
                          tasks[NodeOf(t)][i].task = t
                   /\ \A i \in MatchingSlots(t, firstNotReady[NodeOf(t)]) :
                          \/ tasks[NodeOf(t)][i].task = t
                          \/ pc[tasks[NodeOf(t)][i].task] = "destroyed"
             /\ pc[t] = "pop" =>
                   \/ tasks[NodeOf(t)][first[NodeOf(t)]].task = t
                   \/ pc[tasks[NodeOf(t)][first[NodeOf(t)]].task] = "destroyed"
    BY DEF RemoveFindsTask
  <2>1. pc[t] \in {"scan", "pop"} => NodeOf(t) \in Nodes /\ Live(t)
    BY RemoveFacts DEF Removing, Finished, Live
  <2>2. ASSUME pc[t] = "scan", NEW i \in MatchingSlots(t, firstNotReady[NodeOf(t)])
        PROVE  \/ tasks[NodeOf(t)][i].task = t
               \/ pc[tasks[NodeOf(t)][i].task] = "destroyed"
    BY <2>1, <2>2, ScanWindow, HandleOwner
  <2>3. ASSUME pc[t] = "pop"
        PROVE  \/ tasks[NodeOf(t)][first[NodeOf(t)]].task = t
               \/ pc[tasks[NodeOf(t)][first[NodeOf(t)]].task] = "destroyed"
    <3>1. /\ tasks[NodeOf(t)][first[NodeOf(t)]].handle = handle[t]
          /\ first[NodeOf(t)] < firstNotReady[NodeOf(t)]
      BY <2>3 DEF IInv, PopInv
    <3>2. first[NodeOf(t)] \in SlotIndex /\ first[NodeOf(t)] < last[NodeOf(t)]
      BY <2>1, <2>3, <3>1, CursorFacts
    <3> QED BY <2>1, <2>3, <3>1, <3>2, HandleOwner
  <2> QED BY <2>2, <2>3, ScanFinds
<1> QED BY <1>1, Invariance, PTL

\* The branch after "we have taken over" is unreachable.
THEOREM TakeoverIsDeadCode == Spec => []TakeoverNeverSucceeds
<1>1. IInv => TakeoverNeverSucceeds
  <2>. SUFFICES ASSUME IInv, NEW t \in Task, pc[t] = "midCas"
       PROVE first[NodeOf(t)] # CasExpected(cur[t])
    BY DEF TakeoverNeverSucceeds
  <2>1. NodeOf(t) \in Nodes BY RemoveFacts DEF Removing, Finished
  <2>2. first[NodeOf(t)] <= cur[t] BY DEF IInv, ScanInv
  <2>3. first[NodeOf(t)] \in Nat /\ cur[t] \in Nat
    BY <2>1, CursorFacts DEF IInv, TypeOK, LocalsType
  <2> QED BY <2>2, <2>3 DEF CasExpected
<1> QED BY <1>1, Invariance, PTL

\* The two descriptions of what may overlap agree.
LEMMA ConflictsAgree ==
  ASSUME IInv, NEW t \in Task, NEW u \in Task
  PROVE  Order!Conflict(t, u) <=> Conflicts(t, u)
<1>1. ASSUME NEW i \in DOMAIN accesses[t], NEW j \in DOMAIN accesses[u]
      PROVE  Serial(accesses[t][i].mode, accesses[u][j].mode)
                <=> ~ Order!MayOverlap(accesses[t][i].mode, accesses[u][j].mode)
  BY AccessType DEF AMode, Modes, Serial, Order!MayOverlap
<1> QED BY <1>1 DEF Order!Conflict, Conflicts

\* Seen from outside, add_task and remove_task implement TaskOrder: every step
\* of the detailed system is one of its steps or invisible.
THEOREM Refinement == Spec => ImplementsOrder
<1> USE DEF Phase
<1> DEFINE phase == [t \in Task |-> Phase(pc[t])]
<1>1. Init => Order!Init BY DEF Init, Order!Init, Task, Order!Task
<1>2. IInv /\ [Next]_vars => [Order!Next]_(Order!vars)
  <2>. SUFFICES ASSUME IInv, [Next]_vars PROVE Order!Next \/ UNCHANGED Order!vars
    OBVIOUS
  <2>. pc \in [Task -> Label] BY DEF IInv, TypeOK, LocalsType
  <2>. Order!Task = Task BY DEF Order!Task, Task
  <2>1. CASE Dispatch
    <3>1. dtask' \in Task /\ pc[dtask'] = "idle" BY <2>1, DispatchFacts
    <3>2. \A u \in Task : u < dtask' => pc[u] # "idle"
      BY <2>1, DispatchFacts, NumTasksAssumption
         DEF Task, IInv, DispatcherInv, TypeOK, DispatcherType
    <3>3. phase' = [phase EXCEPT ![dtask'] = "submitted"] BY <2>1, <3>1 DEF Dispatch
    <3>4. phase[dtask'] = "new" /\ \A u \in Task : u < dtask' => phase[u] # "new"
      BY <3>1, <3>2
    <3>5. \E acc \in AccessLists : accesses' = [accesses EXCEPT ![dtask'] = acc]
      BY <2>1 DEF Dispatch
    <3>6. Order!Submit(dtask') BY <3>3, <3>4, <3>5 DEF Order!Submit
    <3>7. PICK t \in Task : t = dtask' BY <3>1
    <3>8. Order!Submit(t) BY <3>6, <3>7 DEF Order!Submit
    <3> QED BY <3>8 DEF Order!Next
  <2>2. ASSUME NEW t \in Task, Run(t) PROVE Order!Next
    <3>1. phase' = [phase EXCEPT ![t] = "running"] /\ UNCHANGED accesses
      BY <2>2 DEF Run
    <3>2. phase[t] = "submitted" BY <2>2 DEF Run
    <3>3. ASSUME NEW u \in Task, u < t, Conflicts(u, t) PROVE phase[u] = "done"
      <4>1. Finished(u) BY <2>2, <3>3, OrderOfSlots, RunFacts
      <4> QED BY <4>1 DEF Finished
    <3>4. Order!Start(t) BY <3>1, <3>2, <3>3, ConflictsAgree DEF Order!Start
    <3> QED BY <3>4 DEF Order!Next
  <2>3. ASSUME NEW t \in Task, Finish(t) PROVE Order!Next
    <3>1. phase' = [phase EXCEPT ![t] = "done"] /\ UNCHANGED accesses
      BY <2>3 DEF Finish
    <3>2. phase[t] = "running" BY <2>3 DEF Finish
    <3>3. Order!Finish(t) BY <3>1, <3>2 DEF Order!Finish
    <3> QED BY <3>3 DEF Order!Next
  <2>4. ASSUME NEW t \in Task, RemoveStep(t) PROVE UNCHANGED Order!vars
    <3>1. UNCHANGED accesses BY <2>4, TaskFrame DEF TaskStep
    <3>2. Removing(t) BY <2>4, RemoveShape
    <3>3. pc'[t] \notin {"idle", "waiting", "running"}
      BY <2>4, <3>2, RemoveShape, ReturnFacts DEF Removing, Finished
    <3>4. \A u \in Task : u # t => pc'[u] = pc[u]
      BY <2>4, OthersFrame DEF TaskStep, IInv
    <3>5. phase' = phase BY <3>2, <3>3, <3>4 DEF Removing, Finished
    <3> QED BY <3>1, <3>5 DEF Order!vars
  <2>5. CASE DispatcherStep
    BY <2>5, DispatcherFrame DEF Order!vars
  <2>6. CASE UNCHANGED vars BY <2>6 DEF Order!vars
  <2> QED BY <2>1, <2>2, <2>3, <2>4, <2>5, <2>6, NextCases DEF TaskStep
<1> QED BY <1>1, <1>2, Invariance, PTL DEF Spec, ImplementsOrder, Order!Spec

=============================================================================
