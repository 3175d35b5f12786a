-------------------------- MODULE ResourceNodeInv --------------------------
(***************************************************************************)
(* The inductive invariant of ResourceNode, for programs in which no task  *)
(* names a node twice.  TLC checks it (MCResourceNode), and                *)
(* ResourceNodeProofs proves it and derives the safety properties from it. *)
(***************************************************************************)
EXTENDS ResourceNode

\* One dispatch registers a node once: a task that names a resource twice, in
\* conflicting modes, would wait for itself.
ASSUME DistinctNodesAssumption ==
    \A acc \in AccessLists : \A i, j \in DOMAIN acc :
        acc[i].node = acc[j].node => i = j

\* The node and the mode of access p of task t.
ANode(t, p) == accesses[t][p].node
AMode(t, p) == accesses[t][p].mode

Parallel(a, b) == ~ Serial(a, b)

Adding == dpc \in {"loadFnr", "loadFirst", "cas", "dec"}

\* Access p of task t is in its node's array.
Published(t, p) ==
    \/ t < dtask
    \/ t = dtask /\ p < dk
    \/ t = dtask /\ p = dk /\ dpc # "publish"

Removing(t) == Finished(t) /\ pc[t] # "destroyed"

\* The remove_task of t for its access p is past the pop, or past the failed
\* exchange that follows the mark.
PastPop(t, p) ==
    \/ pc[t] = "destroyed"
    \/ /\ Removing(t)
       /\ \/ k[t] > p
          \/ k[t] = p /\ pc[t] \notin {"load", "pop", "scan", "midCas"}

Sweeping(t)  == pc[t] \in {"sweep", "sweepFnr", "sweepCas"}
Readying(t)  == pc[t] \in {"ready", "readyLast", "readyCas"}
Extending(t) == pc[t] \in {"loadLast", "extend", "extendCas", "recheck"}

-----------------------------------------------------------------------------
\* The dispatcher registers one access of the newest task at a time.
DispatcherInv ==
    /\ dtask <= NumTasks
    /\ \A t \in Task : pc[t] = "idle" <=> t > dtask
    /\ \A t \in Task : accesses[t] = <<>> \/ accesses[t] \in AccessLists
    /\ \A t \in Task : t <= dtask => handle[t] \in Handles
    /\ dpc # "idle" => dtask \in Task /\ pc[dtask] = "waiting"
    /\ dpc \in {"publish"} \/ Adding => dk \in DOMAIN accesses[dtask]
    /\ dpc = "finish" => dk = Len(accesses[dtask]) + 1
    /\ dpc = "idle" => dtask = 0 \/ dk = Len(accesses[dtask]) + 1

\* The cursors never cross.
CursorInv ==
    \A n \in Nodes : first[n] <= firstNotReady[n] /\ firstNotReady[n] <= last[n]

\* A written slot is a published access of a dispatched task.
SlotInv ==
    \A n \in Nodes, i \in SlotIndex : i < last[n] =>
        LET s == tasks[n][i] IN
        /\ s.task \in Task /\ s.task <= dtask
        /\ s.pos \in DOMAIN accesses[s.task]
        /\ Published(s.task, s.pos)
        /\ s.handle = handle[s.task]
        /\ ANode(s.task, s.pos) = n
        /\ AMode(s.task, s.pos) = s.mode

\* A node holds its tasks in program order.
SortedInv ==
    \A n \in Nodes, i, j \in SlotIndex :
        i < j /\ j < last[n] => tasks[n][i].task < tasks[n][j].task

\* A published access has its slot.
RegisteredInv ==
    \A t \in Task : t <= dtask => \A p \in DOMAIN accesses[t] :
        Published(t, p) =>
            \E i \in SlotIndex : i < last[ANode(t, p)] /\ tasks[ANode(t, p)][i].task = t

\* add_task works on the newest slot of its node.
AddInv ==
    /\ Adding => /\ last[DNode] = old_last + 1
                 /\ tasks[DNode][old_last].task = dtask
    /\ dpc = "cas" => \/ first[DNode] >= old_last
                      \/ Parallel(DAccess.mode, tasks[DNode][old_last - 1].mode)
    /\ dpc = "dec" => old_last < firstNotReady[DNode] /\ dk \in owed[dtask]

\* Two live frames have two addresses.
HandleInv ==
    \A t, u \in Task : Live(t) /\ Live(u) /\ handle[t] = handle[u] => t = u

\* The tasks a node lets run together are pairwise parallel.
WindowInv ==
    \A n \in Nodes, i, j \in SlotIndex :
        first[n] <= i /\ i < j /\ j < firstNotReady[n]
            => Parallel(tasks[n][i].mode, tasks[n][j].mode)

\* A popped slot belongs to a task that has taken itself off the node.
PoppedInv ==
    \A n \in Nodes, i \in SlotIndex :
        i < first[n] => PastPop(tasks[n][i].task, tasks[n][i].pos)

\* The access a remove_task works on.
RemoveInv ==
    \A t \in Task : Removing(t) => k[t] \in DOMAIN accesses[t]

\* The task at the head of the list is the only one that may pop it.
PopInv ==
    \A t \in Task :
        pc[t] = "pop" => /\ cur[t] = first[NodeOf(t)]
                         /\ tasks[NodeOf(t)][first[NodeOf(t)]].handle = handle[t]
                         /\ first[NodeOf(t)] < firstNotReady[NodeOf(t)]

\* No slot with the task's handle was popped since the scan started, and none
\* will be while the task waits to exchange first.
ScanInv ==
    \A t \in Task :
        /\ pc[t] = "scan" =>
              /\ cur[t] <= first[NodeOf(t)] /\ cur[t] < firstNotReady[NodeOf(t)]
              /\ \A i \in SlotIndex :
                    cur[t] <= i /\ (i < first[NodeOf(t)] \/ i = cur[t])
                        => tasks[NodeOf(t)][i].handle # handle[t]
        /\ pc[t] = "midCas" =>
              /\ first[NodeOf(t)] <= cur[t]
              /\ cur[t] < firstNotReady[NodeOf(t)]
              /\ tasks[NodeOf(t)][cur[t]].handle = handle[t]

\* A task that turns to the waiting tasks has seen everything before cur popped.
ReadyInv ==
    \A t \in Task :
        /\ Sweeping(t) \/ Readying(t) => cur[t] <= first[NodeOf(t)]
        /\ pc[t] = "readyCas" => fnr[t] = cur[t] /\ cur[t] < last[NodeOf(t)]

\* The loop that makes tasks ready knows the mode of the last one it made ready.
ExtendInv ==
    \A t \in Task :
        /\ pc[t] = "wake" =>
              /\ fnr[t] < firstNotReady[NodeOf(t)]
              /\ newMode[t] = WakeSlot(t).mode
              /\ parallel_exit[t] => fnr[t] < temp_last[t]
        /\ Extending(t) =>
              /\ 0 < fnr[t] /\ fnr[t] <= firstNotReady[NodeOf(t)]
              /\ newMode[t] = tasks[NodeOf(t)][fnr[t] - 1].mode
        /\ pc[t] \in {"extend", "extendCas", "recheck"} => fnr[t] <= temp_last[t]
        /\ pc[t] = "extendCas" => /\ fnr[t] < temp_last[t]
                                  /\ Parallel(newMode[t], WakeSlot(t).mode)
                                  /\ parallel_exit[t]
        /\ IF Extending(t) \/ pc[t] = "wake" THEN temp_last[t] <= last[NodeOf(t)]
           ELSE temp_last[t] = 0 /\ ~ parallel_exit[t]

\* What a waitCounter counts: the accesses nobody has taken back, and the
\* sentinel as long as the task is being registered.
CountInv ==
    \A t \in Task :
        /\ owed[t] \subseteq DOMAIN accesses[t]
        /\ waitCounter[t] = (IF Registered(t) THEN 0 ELSE InvalidWaitState)
                              + Cardinality(owed[t])
        /\ handed[t] = IF Registered(t) /\ owed[t] = {} THEN 1 ELSE 0
        /\ Started(t) => Registered(t) /\ owed[t] = {}

\* Which accesses are owed: the ones not published, the ones that wait, and
\* the ones whose waker is about to take the count back.
OwedInv ==
    /\ \A t \in Task : t <= dtask =>
          \A p \in DOMAIN accesses[t] : ~ Published(t, p) => p \in owed[t]
    /\ \A n \in Nodes, i \in SlotIndex :
          firstNotReady[n] <= i /\ i < last[n] => tasks[n][i].pos \in owed[tasks[n][i].task]
    /\ \A t \in Task : pc[t] = "wake" => WakeSlot(t).pos \in owed[WakeSlot(t).task]

IInv ==
    /\ TypeOK
    /\ DispatcherInv
    /\ CursorInv
    /\ SlotInv
    /\ SortedInv
    /\ RegisteredInv
    /\ AddInv
    /\ HandleInv
    /\ WindowInv
    /\ PoppedInv
    /\ RemoveInv
    /\ PopInv
    /\ ScanInv
    /\ ReadyInv
    /\ ExtendInv
    /\ OneWakerPerSlot
    /\ CountInv
    /\ OwedInv
=============================================================================
