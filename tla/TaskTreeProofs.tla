--------------------------- MODULE TaskTreeProofs ---------------------------
(***************************************************************************)
(* Proofs of the safety properties of TaskTree, for any number of tasks    *)
(* and any set of dispatches.                                              *)
(***************************************************************************)
EXTENDS TaskTree, FiniteSetTheorems, WellFoundedInduction, TLAPS

USE DEF treeVars, promiseVars, ownVars, runVars, poolVars, vars

-----------------------------------------------------------------------------
(* The inductive invariant.                                                *)

Dispatched(t) == t < next
Kids(p) == {c \in Task : parent[c] = p /\ frame[c] # "freed"}
Ended == {"final", "transfer", "done"}
Before == {"transform", "dispatch", "syncStore", "syncCas"}

\* The handles of a frame, one by one.
Self(t) == IF co[t] \in {"transfer", "done"} THEN 0 ELSE 1
Outside(t) == IF holder[t] = "none" THEN 0 ELSE 1

\* A frame that is not there yet.
FreshInv ==
    \A t \in Frame : ~ Dispatched(t) =>
        /\ par[t] = None /\ parent[t] = None /\ frame[t] = "none" /\ holder[t] = "none"
        /\ co[t] = "none" /\ workingState[t] = 1 /\ ~ result[t]
        /\ tokens[t] = 0 /\ tail[t] = "none"

\* The frame of the init coroutine.
RootInv ==
    /\ par[0] = None /\ parent[0] = None /\ form[0] = RootForm
    /\ holder[0] = IF mpc = "gone" THEN "none" ELSE "main"
    /\ frame[0] # "none" /\ co[0] # "none" /\ workingState[0] # 2 /\ tail[0] = "none"

\* The tree of the others.
TreeInv ==
    \A t \in Task : Dispatched(t) =>
        /\ par[t] \in Frame /\ par[t] < t /\ Dispatched(par[t])
        /\ form[par[t]].kind # "barrier"
        /\ parent[t] \in {None, par[t]}
        /\ frame[t] # "none" /\ co[t] # "none" /\ holder[t] # "main"
        /\ form[t] \in Forms

\* The task a coroutine is busy with is one of its own, whose handle is in one of hs.
With(p, hs, ks) ==
    /\ at[p] \in Task /\ Dispatched(at[p]) /\ par[at[p]] = p
    /\ holder[at[p]] \in hs /\ form[at[p]].kind \in ks

BusyInv ==
    \A p \in Frame :
        /\ co[p] = "transform" => With(p, {"awaiter"}, {"async", "sync"})
            /\ parent[at[p]] = None
        /\ co[p] = "dispatch" => With(p, {"awaiter"}, {"async"})
        /\ co[p] \in {"syncStore", "syncCas", "waitsSync"} => With(p, {"awaiter"}, {"sync"})
        /\ co[p] \in {"getStore", "getCas", "waitsGet"} => With(p, {"get"}, {"async"})
        /\ co[p] = "take" => With(p, {"awaiter"}, {"sync"}) \/ With(p, {"get"}, {"async"})
        /\ co[p] = "release" => With(p, {"cleared"}, {"async", "sync"})
        /\ co[p] = "destroys" => With(p, {"none"}, {"async", "sync"}) /\ refs[at[p]] = 0
        /\ co[p] = "waitsBarrier" => With(p, {"awaiter", "cleared", "none"}, {"barrier"})

\* The handle of the creator, if it is not that of a barrier, is where it is.
At(t, cs) == at[par[t]] = t /\ co[par[t]] \in cs

HolderInv ==
    \A t \in Task : Dispatched(t) =>
        /\ form[t].kind = "barrier" => /\ holder[t] \in {"awaiter", "cleared", "none"}
                                       /\ parent[t] = None
                                       /\ co[t] \in {"waiting", "running", "returned",
                                           "final", "done"}
        /\ form[t].kind # "barrier" =>
              /\ holder[t] = "awaiter" => At(t, Before \cup {"waitsSync", "take"})
              /\ holder[t] = "object" => co[par[t]] \in Waits \cup Busy \cup {"running",
                                           "returned"}
              /\ holder[t] = "get" => At(t, {"getStore", "getCas", "waitsGet", "take"})
              /\ holder[t] = "cleared" => At(t, {"release"})

\* workingState and the result.
WorkInv ==
    \A t \in Frame : Dispatched(t) =>
        /\ workingState[t] = 0 => co[t] \in {"final", "done"}
        /\ workingState[t] = 1 => co[t] \notin Ended
        /\ co[t] = "transfer" => workingState[t] = 2
        /\ co[t] \in Ended \cup {"returned"} => result[t]

\* Who is resumed by a task, if anybody.
ContinuationInv ==
    \A t \in Task : Dispatched(t) /\ workingState[t] = 2 =>
        /\ form[t].kind # "barrier" /\ (holder[t] = "object" => form[t].kind = "sync")
        /\ ~ At(t, Before \cup {"getStore", "getCas"})
        /\ co[t] # "done" => At(t, {"waitsSync", "waitsGet"}) /\ tokens[par[t]] = 0

TokenInv ==
    \A t \in Frame :
        /\ tokens[t] > 0 => tokens[t] = 1 /\ co[t] \in Waits
        /\ \/ tokens[t] > 0 /\ co[t] \in {"waitsSync", "waitsGet"}
           \/ co[t] = "take"
           => result[at[t]] /\ co[at[t]] \in Ended

\* A task that is ready and that its dispatcher has still to start.
Unstarted(t) ==
    \/ form[t].kind = "async" /\ holder[t] = "awaiter"
    \/ form[t].kind = "sync" /\ At(t, Before)
    \/ form[t].kind = "barrier" /\ holder[t] \in {"awaiter", "cleared"}
    \/ tail[t] # "none"

StartInv ==
    \A t \in Task : Dispatched(t) /\ resReady[t] /\ Unstarted(t) =>
        co[t] = "waiting" /\ tokens[t] = 0

\* The thread in await_suspend of a synchronous dispatch.
TailInv ==
    \A t \in Task : Dispatched(t) =>
        /\ tail[t] # "none" => form[t].kind = "sync"
        /\ tail[t] = "waits" => workingState[t] = 2
        /\ tail[t] = "done" => /\ workingState[t] = 0 /\ ~ resReady[t]
                               /\ At(t, {"waitsSync"}) /\ tokens[par[t]] = 0

\* Counts.
RefsInv ==
    \A t \in Frame : Dispatched(t) =>
        refs[t] = Self(t) + Outside(t) + Cardinality(Kids(t))

AliveInv == \A t \in Frame : Dispatched(t) => (Alive(t) <=> refs[t] > 0)

\* Barriers.
QueueInv ==
    /\ \A p \in barrier_queue : co[p] = "waitsBarrier" /\ tokens[p] = 0
    /\ \A t \in Task : Dispatched(t) /\ form[t].kind = "barrier"
                          /\ co[t] \in {"waiting", "running"} =>
          /\ At(t, {"waitsBarrier"}) /\ tokens[par[t]] = 0
          /\ par[t] \notin barrier_queue

\* The count that was read is one too many for a child that is there still.
CheckInv ==
    checking[1] # None =>
        /\ checking[1] \in barrier_queue /\ checking[2] \in Nat
        /\ Kids(checking[1]) # {} => checking[2] >= 2 + Outside(checking[1])

PassedInv ==
    \A p \in Frame : co[p] = "waitsBarrier" /\ tokens[p] > 0 => Adrift(p) \/ Kids(p) = {}

\* Tasks that count for their parent.
ParentInv ==
    \A t \in Task : Dispatched(t) /\ form[t].kind # "barrier" /\ HoldsParent(par[t], t) =>
        parent[t] = par[t] \/ At(t, {"transform"})

MainInv == mpc \in {"reset", "gone"} => co[0] = "done" /\ Kids(0) = {}

ProtocolInv == BusyInv /\ HolderInv /\ WorkInv /\ ContinuationInv /\ TokenInv
                 /\ StartInv /\ TailInv
CountInv == RefsInv /\ AliveInv
BarrierInv == QueueInv /\ CheckInv /\ PassedInv /\ ParentInv /\ MainInv

IInv == TypeOK /\ FreshInv /\ RootInv /\ TreeInv /\ ProtocolInv /\ CountInv /\ BarrierInv

-----------------------------------------------------------------------------
(* Frames and tasks.                                                       *)

LEMMA Frames ==
  /\ 0 \in Frame /\ 0 \notin Task /\ Task \subseteq Frame
  /\ \A t \in Frame : t # 0 => t \in Task
  /\ \A t \in Frame : t # None /\ t \in Nat
BY NumTasksAssumption DEF Frame, Task, None

\* Sets of tasks are finite, as big as their elements make them.
LEMMA TaskSets ==
  \A S \in SUBSET Task :
     /\ Cardinality(S) \in 0..NumTasks
     /\ S = {} <=> Cardinality(S) = 0
     /\ \A t \in Task \ S : Cardinality(S \cup {t}) = Cardinality(S) + 1
     /\ \A t \in S : Cardinality(S \ {t}) = Cardinality(S) - 1
<1>1. IsFiniteSet(Task) /\ Cardinality(Task) = NumTasks
  BY NumTasksAssumption, FS_Interval DEF Task
<1>2. SUFFICES ASSUME NEW S \in SUBSET Task
               PROVE  /\ Cardinality(S) \in 0..NumTasks
                      /\ S = {} <=> Cardinality(S) = 0
                      /\ \A t \in Task \ S : Cardinality(S \cup {t}) = Cardinality(S) + 1
                      /\ \A t \in S : Cardinality(S \ {t}) = Cardinality(S) - 1
  OBVIOUS
<1>3. IsFiniteSet(S) /\ Cardinality(S) <= NumTasks BY <1>1, FS_Subset
<1>4. Cardinality(S) \in Nat BY <1>3, FS_CardinalityType
<1>5. Cardinality(S) \in 0..NumTasks BY <1>3, <1>4, NumTasksAssumption
<1>6. S = {} <=> Cardinality(S) = 0 BY <1>3, FS_EmptySet
<1>7. \A t \in Task \ S : Cardinality(S \cup {t}) = Cardinality(S) + 1
  BY <1>3, FS_AddElement
<1>8. \A t \in S : Cardinality(S \ {t}) = Cardinality(S) - 1
  BY <1>3, FS_RemoveElement
<1> QED BY <1>5, <1>6, <1>7, <1>8

LEMMA KidsNat == \A p : Kids(p) \subseteq Task /\ Cardinality(Kids(p)) \in Nat
<1>1. \A p : Kids(p) \in SUBSET Task BY DEF Kids
<1>2. 0..NumTasks \subseteq Nat BY NumTasksAssumption
<1> QED BY <1>1, <1>2, TaskSets

\* What the count says of the handles, and any handle of the count.
LEMMA Counted ==
  ASSUME IInv, NEW p \in Frame, Dispatched(p)
  PROVE  /\ refs[p] \in Nat
         /\ refs[p] = Self(p) + Outside(p) + Cardinality(Kids(p))
         /\ Kids(p) = {} <=> Cardinality(Kids(p)) = 0
         /\ Alive(p) <=> refs[p] > 0
         /\ \/ co[p] \notin {"transfer", "done"} \/ holder[p] # "none" \/ Kids(p) # {}
            => refs[p] > 0 /\ frame[p] = "alive"
<1>1. Kids(p) \in SUBSET Task BY DEF Kids
<1>2. /\ Cardinality(Kids(p)) \in Nat
      /\ Kids(p) = {} <=> Cardinality(Kids(p)) = 0
  BY <1>1, TaskSets, KidsNat
<1>3. refs[p] = Self(p) + Outside(p) + Cardinality(Kids(p)) /\ (Alive(p) <=> refs[p] > 0)
  BY DEF IInv, CountInv, RefsInv, AliveInv
<1>4. Self(p) \in {0, 1} /\ Outside(p) \in {0, 1} BY DEF Self, Outside
<1>5. \/ co[p] \notin {"transfer", "done"} \/ holder[p] # "none" \/ Kids(p) # {}
      => Self(p) = 1 \/ Outside(p) = 1 \/ Cardinality(Kids(p)) # 0
  BY <1>2 DEF Self, Outside
<1>6. refs[p] \in Nat BY <1>2, <1>3, <1>4
<1>7. Self(p) = 1 \/ Outside(p) = 1 \/ Cardinality(Kids(p)) # 0 => refs[p] > 0
  BY <1>2, <1>3, <1>4
<1> QED BY <1>2, <1>3, <1>5, <1>6, <1>7 DEF Alive

-----------------------------------------------------------------------------
(* Every action keeps it.                                                  *)

USE DEF IInv, ProtocolInv, CountInv, BarrierInv

\* The node hands out a task that was blocked, which has no token yet.
LEMMA HandKeeps ==
  ASSUME IInv, NEW t \in Frame, Hand(t)
  PROVE  IInv'
<1>1. /\ tokens \in [Frame -> 0..2]
      /\ barrier_queue \subseteq Frame
  BY DEF TypeOK
<1>2. /\ co[t] = "waiting" /\ ~ resReady[t] /\ tokens[t] = 0 /\ tokens'[t] = 1
      /\ \A u \in Frame : u # t => tokens'[u] = tokens[u]
      /\ UNCHANGED <<next, form, par, resReady, workingState, continuationHandle, refs,
          coroOutsideTask, result, parent, pool_p, frame, holder, co, at, tail,
              barrier_queue, checking, mpc>>
  BY <1>1, Frames DEF Hand
<1>3. TypeOK' BY Frames DEF Hand, TypeOK, Label, Waits, Busy
<1>4. FreshInv' BY <1>2, Frames DEF FreshInv, TreeInv, Dispatched
<1>5. ContinuationInv'
  BY <1>2, Frames DEF ContinuationInv, TreeInv, At, Dispatched, Before, Ended
<1>6. TokenInv'
  BY <1>2, Frames DEF TokenInv, TreeInv, BusyInv, Ended, Waits, Dispatched, With
<1>7. StartInv' BY <1>2, Frames DEF StartInv, TreeInv, At, Unstarted, Dispatched, Before
<1>8. TailInv' BY <1>2, Frames DEF TailInv, TreeInv, At, Dispatched
<1>9. QueueInv'
  BY <1>2, Frames, <1>1 DEF QueueInv, TreeInv, HolderInv, At, Dispatched, Before,
    Waits, Busy
<1>10. PassedInv' BY <1>2, Frames DEF PassedInv, Adrift, Kids
<1>11. RootInv' /\ TreeInv' /\ BusyInv' /\ HolderInv' /\ WorkInv'
  BY DEF Hand, RootInv, TreeInv, BusyInv, HolderInv, WorkInv, Dispatched, With, At,
    Before, Waits, Busy, Ended
<1>12. RefsInv' /\ AliveInv' /\ CheckInv' /\ ParentInv' /\ MainInv'
  BY DEF Hand, RefsInv, AliveInv, CheckInv, ParentInv, MainInv, Dispatched, Self,
    Outside, Kids, Alive, At, HoldsParent
<1> QED BY <1>3, <1>4, <1>5, <1>6, <1>7, <1>8, <1>9, <1>10, <1>11, <1>12

\* The continuation of a synchronous dispatch is stored.
LEMMA SyncStoreKeeps ==
  ASSUME IInv, NEW p \in Frame, SyncStore(p)
  PROVE  IInv'
<1>1. /\ continuationHandle \in [Frame -> BOOLEAN]
      /\ co \in [Frame -> Label]
      /\ barrier_queue \subseteq Frame
  BY DEF TypeOK
<1>2. /\ co[p] = "syncStore" /\ co'[p] = "syncCas"
      /\ \A u \in Frame : u # p => co'[u] = co[u]
      /\ at[p] \in Task => continuationHandle' \in [Frame -> BOOLEAN]
      /\ UNCHANGED <<next, form, par, resReady, workingState, refs, coroOutsideTask,
          result, parent, pool_p, frame, holder, at, tokens, tail, barrier_queue, checking,
              mpc>>
  BY <1>1, Frames DEF SyncStore
<1>3. TypeOK' BY Frames DEF SyncStore, TypeOK, Label, Waits, Busy
<1>4. FreshInv' BY <1>2, Frames DEF FreshInv, TreeInv, Dispatched
<1>5. RootInv' BY <1>2, Frames DEF RootInv
<1>6. TreeInv' BY <1>2, Frames DEF TreeInv, Dispatched
<1>7. BusyInv' BY <1>2, Frames DEF BusyInv, TreeInv, With, Dispatched
<1>8. HolderInv' BY <1>2, Frames DEF HolderInv, TreeInv, At, Dispatched, Before, Waits, Busy
<1>9. WorkInv' BY <1>2, Frames DEF WorkInv, Dispatched, Ended
<1>10. ContinuationInv'
  BY <1>2, Frames DEF ContinuationInv, TreeInv, At, Dispatched, Before, Ended
<1>11. TokenInv'
  BY <1>2, Frames DEF TokenInv, TreeInv, BusyInv, Ended, Waits, Dispatched, With
<1>12. StartInv' BY <1>2, Frames DEF StartInv, TreeInv, At, Unstarted, Dispatched, Before
<1>13. TailInv' BY <1>2, Frames DEF TailInv, TreeInv, At, Dispatched
<1>14. RefsInv' BY <1>2, Frames DEF RefsInv, Dispatched, Self, Outside, Kids
<1>15. QueueInv'
  BY <1>2, Frames, <1>1 DEF QueueInv, TreeInv, HolderInv, At, Dispatched, Before,
    Waits, Busy
<1>16. PassedInv' BY <1>2, Frames DEF PassedInv, Adrift, Kids
<1>17. ParentInv' BY <1>2, Frames DEF ParentInv, TreeInv, At, HoldsParent, Dispatched
<1>18. MainInv' BY <1>2, Frames DEF MainInv, Kids
<1>19. AliveInv' /\ CheckInv'
  BY DEF SyncStore, AliveInv, CheckInv, Dispatched, Alive, Kids, Outside
<1> QED BY <1>3, <1>4, <1>5, <1>6, <1>7, <1>8, <1>9, <1>10, <1>11, <1>12, <1>13, <1>14,
  <1>15, <1>16, <1>17, <1>18, <1>19

\* A token is taken: the coroutine runs, or takes the result it waited for.
LEMMA ResumeKeeps ==
  ASSUME IInv, NEW t \in Frame, Resume(t)
  PROVE  IInv'
<1>1. /\ tokens \in [Frame -> 0..2]
      /\ co \in [Frame -> Label]
      /\ barrier_queue \subseteq Frame
  BY DEF TypeOK
<1>2. /\ tokens[t] > 0 /\ tokens'[t] = tokens[t] - 1
      /\ co[t] \in {"waiting", "pushed", "waitsBarrier", "waitsSync", "waitsGet"}
      /\ co'[t] = IF co[t] \in {"waitsSync", "waitsGet"} THEN "take" ELSE "running"
      /\ \A u \in Frame : u # t => co'[u] = co[u] /\ tokens'[u] = tokens[u]
      /\ UNCHANGED <<next, form, par, resReady, workingState, continuationHandle, refs,
          coroOutsideTask, result, parent, pool_p, frame, holder, at, tail, barrier_queue,
              checking, mpc>>
  BY <1>1, Frames DEF Resume
<1>3. TypeOK' BY Frames DEF Resume, TypeOK, Label, Waits, Busy
<1>4. FreshInv' BY <1>2, Frames DEF FreshInv, TreeInv, Dispatched
<1>5. RootInv' BY <1>2, Frames DEF RootInv
<1>6. TreeInv' BY <1>2, Frames DEF TreeInv, Dispatched
<1>7. BusyInv' BY <1>2, Frames DEF BusyInv, TreeInv, With, Dispatched
<1>8. HolderInv' BY <1>2, Frames DEF HolderInv, TreeInv, At, Dispatched, Before, Waits, Busy
<1>9. WorkInv' BY <1>2, Frames DEF WorkInv, Dispatched, Ended
<1>10. ContinuationInv'
  BY <1>2, Frames DEF ContinuationInv, TreeInv, At, Dispatched, Before, Ended
<1>11. TokenInv'
  BY <1>2, Frames DEF TokenInv, TreeInv, BusyInv, Ended, Waits, Dispatched, With
<1>12. StartInv' BY <1>2, Frames DEF StartInv, TreeInv, At, Unstarted, Dispatched, Before
<1>13. TailInv' BY <1>2, Frames DEF TailInv, TreeInv, At, Dispatched
<1>14. RefsInv' BY <1>2, Frames DEF RefsInv, Dispatched, Self, Outside, Kids
<1>15. QueueInv'
  BY <1>2, Frames, <1>1 DEF QueueInv, TreeInv, HolderInv, At, Dispatched, Before,
    Waits, Busy
<1>16. PassedInv' BY <1>2, Frames DEF PassedInv, Adrift, Kids
<1>17. ParentInv' BY <1>2, Frames DEF ParentInv, TreeInv, At, HoldsParent, Dispatched
<1>18. MainInv' BY <1>2, Frames DEF MainInv, Kids
<1>19. AliveInv' /\ CheckInv'
  BY DEF Resume, AliveInv, CheckInv, Dispatched, Alive, Kids, Outside
<1> QED BY <1>3, <1>4, <1>5, <1>6, <1>7, <1>8, <1>9, <1>10, <1>11, <1>12, <1>13, <1>14,
  <1>15, <1>16, <1>17, <1>18, <1>19

\* The body goes on after its thread has destroyed a frame.
LEMMA DestroyedKeeps ==
  ASSUME IInv, NEW p \in Frame, Destroyed(p)
  PROVE  IInv'
<1>1. /\ co \in [Frame -> Label]
      /\ barrier_queue \subseteq Frame
  BY DEF TypeOK
<1>2. /\ co[p] = "destroys" /\ co'[p] = IF result[p] THEN "returned" ELSE "running"
      /\ \A u \in Frame : u # p => co'[u] = co[u]
      /\ UNCHANGED <<next, form, par, resReady, workingState, continuationHandle, refs,
          coroOutsideTask, result, parent, pool_p, frame, holder, at, tokens, tail,
              barrier_queue, checking, mpc>>
  BY <1>1, Frames DEF Destroyed, BodyOf
<1>3. TypeOK' BY Frames DEF Destroyed, TypeOK, BodyOf, Label, Waits, Busy
<1>4. FreshInv' BY <1>2, Frames DEF FreshInv, TreeInv, Dispatched
<1>5. RootInv' BY <1>2, Frames DEF RootInv
<1>6. TreeInv' BY <1>2, Frames DEF TreeInv, Dispatched
<1>7. BusyInv' BY <1>2, Frames DEF BusyInv, TreeInv, With, Dispatched
<1>8. HolderInv' BY <1>2, Frames DEF HolderInv, TreeInv, At, Dispatched, Before, Waits, Busy
<1>9. WorkInv' BY <1>2, Frames DEF WorkInv, Dispatched, Ended
<1>10. ContinuationInv'
  BY <1>2, Frames DEF ContinuationInv, TreeInv, At, Dispatched, Before, Ended
<1>11. TokenInv'
  BY <1>2, Frames DEF TokenInv, TreeInv, BusyInv, Ended, Waits, Dispatched, With
<1>12. StartInv' BY <1>2, Frames DEF StartInv, TreeInv, At, Unstarted, Dispatched, Before
<1>13. TailInv' BY <1>2, Frames DEF TailInv, TreeInv, At, Dispatched
<1>14. RefsInv' BY <1>2, Frames DEF RefsInv, Dispatched, Self, Outside, Kids
<1>15. QueueInv'
  BY <1>2, Frames, <1>1 DEF QueueInv, TreeInv, HolderInv, At, Dispatched, Before,
    Waits, Busy
<1>16. PassedInv' BY <1>2, Frames DEF PassedInv, Adrift, Kids
<1>17. ParentInv' BY <1>2, Frames DEF ParentInv, TreeInv, At, HoldsParent, Dispatched
<1>18. MainInv' BY <1>2, Frames DEF MainInv, Kids
<1>19. AliveInv' /\ CheckInv'
  BY DEF Destroyed, AliveInv, CheckInv, Dispatched, Alive, Kids, Outside
<1> QED BY <1>3, <1>4, <1>5, <1>6, <1>7, <1>8, <1>9, <1>10, <1>11, <1>12, <1>13, <1>14,
  <1>15, <1>16, <1>17, <1>18, <1>19

\* The continuation of a get() is stored.
LEMMA GetStoreKeeps ==
  ASSUME IInv, NEW p \in Frame, GetStore(p)
  PROVE  IInv'
<1>1. /\ continuationHandle \in [Frame -> BOOLEAN]
      /\ co \in [Frame -> Label]
      /\ barrier_queue \subseteq Frame
  BY DEF TypeOK
<1>2. /\ co[p] = "getStore" /\ co'[p] = "getCas"
      /\ \A u \in Frame : u # p => co'[u] = co[u]
      /\ at[p] \in Task => continuationHandle' \in [Frame -> BOOLEAN]
      /\ UNCHANGED <<next, form, par, resReady, workingState, refs, coroOutsideTask,
          result, parent, pool_p, frame, holder, at, tokens, tail, barrier_queue, checking,
              mpc>>
  BY <1>1, Frames DEF GetStore
<1>3. TypeOK' BY Frames DEF GetStore, TypeOK, Label, Waits, Busy
<1>4. FreshInv' BY <1>2, Frames DEF FreshInv, TreeInv, Dispatched
<1>5. RootInv' BY <1>2, Frames DEF RootInv
<1>6. TreeInv' BY <1>2, Frames DEF TreeInv, Dispatched
<1>7. BusyInv' BY <1>2, Frames DEF BusyInv, TreeInv, With, Dispatched
<1>8. HolderInv' BY <1>2, Frames DEF HolderInv, TreeInv, At, Dispatched, Before, Waits, Busy
<1>9. WorkInv' BY <1>2, Frames DEF WorkInv, Dispatched, Ended
<1>10. ContinuationInv'
  BY <1>2, Frames DEF ContinuationInv, TreeInv, At, Dispatched, Before, Ended
<1>11. TokenInv'
  BY <1>2, Frames DEF TokenInv, TreeInv, BusyInv, Ended, Waits, Dispatched, With
<1>12. StartInv' BY <1>2, Frames DEF StartInv, TreeInv, At, Unstarted, Dispatched, Before
<1>13. TailInv' BY <1>2, Frames DEF TailInv, TreeInv, At, Dispatched
<1>14. RefsInv' BY <1>2, Frames DEF RefsInv, Dispatched, Self, Outside, Kids
<1>15. QueueInv'
  BY <1>2, Frames, <1>1 DEF QueueInv, TreeInv, HolderInv, At, Dispatched, Before,
    Waits, Busy
<1>16. PassedInv' BY <1>2, Frames DEF PassedInv, Adrift, Kids
<1>17. ParentInv' BY <1>2, Frames DEF ParentInv, TreeInv, At, HoldsParent, Dispatched
<1>18. MainInv' BY <1>2, Frames DEF MainInv, Kids
<1>19. AliveInv' /\ CheckInv'
  BY DEF GetStore, AliveInv, CheckInv, Dispatched, Alive, Kids, Outside
<1> QED BY <1>3, <1>4, <1>5, <1>6, <1>7, <1>8, <1>9, <1>10, <1>11, <1>12, <1>13, <1>14,
  <1>15, <1>16, <1>17, <1>18, <1>19

\* The continuation is published, or the task is found to be over.
LEMMA GetCasKeeps ==
  ASSUME IInv, NEW p \in Frame, GetCas(p)
  PROVE  IInv'
<1>1. /\ workingState \in [Frame -> 0..2]
      /\ co \in [Frame -> Label]
      /\ barrier_queue \subseteq Frame
  BY DEF TypeOK
<1>2. /\ co[p] = "getCas"
      /\ at[p] \in Frame => workingState'[at[p]] = IF workingState[at[p]] = 1 THEN 2
          ELSE workingState[at[p]]
      /\ co'[p] = IF workingState[at[p]] = 0 THEN "take" ELSE "waitsGet"
      /\ \A u \in Frame : u # p => co'[u] = co[u]
      /\ \A u \in Frame : u # at[p] => workingState'[u] = workingState[u]
      /\ UNCHANGED <<next, form, par, resReady, continuationHandle, refs, coroOutsideTask,
          result, parent, pool_p, frame, holder, at, tokens, tail, barrier_queue, checking,
              mpc>>
  BY <1>1, Frames DEF GetCas, PublishContinuation, Suspends
<1>3. /\ at[p] \in Task /\ at[p] < next /\ par[at[p]] = p /\ at[p] # p
          /\ holder[at[p]] = "get" /\ form[at[p]].kind = "async"
      /\ workingState[at[p]] # 2 /\ tokens[p] = 0
  BY <1>2, Frames DEF TypeOK, TreeInv, Dispatched, BusyInv, With, ContinuationInv,
    At, Before, Ended, TokenInv, Waits
<1>4. TypeOK'
  BY <1>3, Frames DEF GetCas, TypeOK, PublishContinuation, Suspends, Label, Waits, Busy
<1>5. FreshInv' BY <1>2, <1>3, Frames DEF FreshInv, TreeInv, Dispatched
<1>6. RootInv' BY <1>2, <1>3, Frames DEF RootInv
<1>7. TreeInv' BY <1>2, <1>3, Frames DEF TreeInv, Dispatched
<1>8. BusyInv' BY <1>2, <1>3, Frames DEF BusyInv, TreeInv, With, Dispatched
<1>9. HolderInv'
  BY <1>2, <1>3, Frames DEF HolderInv, TreeInv, At, Dispatched, Before, Waits, Busy
<1>10. WorkInv' BY <1>2, <1>3, Frames DEF WorkInv, Dispatched, Ended
<1>11. ContinuationInv'
  BY <1>2, <1>3, Frames DEF ContinuationInv, TreeInv, At, Dispatched, Before, Ended
<1>12. TokenInv'
  BY <1>2, <1>3, Frames DEF TokenInv, TreeInv, BusyInv, WorkInv, Ended, Waits,
    Dispatched, With
<1>13. StartInv'
  BY <1>2, <1>3, Frames DEF StartInv, TreeInv, At, Unstarted, Dispatched, Before
<1>14. TailInv' BY <1>2, <1>3, Frames DEF TailInv, TreeInv, At, Dispatched
<1>15. RefsInv' BY <1>2, <1>3, Frames DEF RefsInv, Dispatched, Self, Outside, Kids
<1>16. QueueInv'
  BY <1>2, <1>3, Frames, <1>1 DEF QueueInv, TreeInv, HolderInv, At, Dispatched,
    Before, Waits, Busy
<1>17. PassedInv' BY <1>2, <1>3, Frames DEF PassedInv, Adrift, Kids
<1>18. ParentInv' BY <1>2, <1>3, Frames DEF ParentInv, TreeInv, At, HoldsParent, Dispatched
<1>19. MainInv' BY <1>2, <1>3, Frames DEF MainInv, Kids
<1>20. AliveInv' /\ CheckInv'
  BY DEF GetCas, AliveInv, CheckInv, Dispatched, Alive, Kids, Outside
<1> QED BY <1>4, <1>5, <1>6, <1>7, <1>8, <1>9, <1>10, <1>11, <1>12, <1>13, <1>14, <1>15,
  <1>16, <1>17, <1>18, <1>19, <1>20

\* The same in a synchronous dispatch, whose thread stays in await_suspend.
LEMMA SyncCasKeeps ==
  ASSUME IInv, NEW p \in Frame, SyncCas(p)
  PROVE  IInv'
<1>1. /\ workingState \in [Frame -> 0..2]
      /\ tail \in [Frame -> {"none", "done", "waits"}]
      /\ co \in [Frame -> Label]
      /\ barrier_queue \subseteq Frame
  BY DEF TypeOK
<1>2. /\ co[p] = "syncCas" /\ co'[p] = "waitsSync"
      /\ at[p] \in Frame => workingState'[at[p]] = IF workingState[at[p]] = 1 THEN 2
          ELSE workingState[at[p]]
      /\ at[p] \in Frame => tail'[at[p]] = IF workingState[at[p]] = 0 THEN "done"
          ELSE "waits"
      /\ \A u \in Frame : u # p => co'[u] = co[u]
      /\ \A u \in Frame : u # at[p] => workingState'[u] = workingState[u]
          /\ tail'[u] = tail[u]
      /\ UNCHANGED <<next, form, par, resReady, continuationHandle, refs, coroOutsideTask,
          result, parent, pool_p, frame, holder, at, tokens, barrier_queue, checking, mpc>>
  BY <1>1, Frames DEF SyncCas, PublishContinuation
<1>3. /\ at[p] \in Task /\ at[p] < next /\ par[at[p]] = p /\ at[p] # p
          /\ holder[at[p]] = "awaiter" /\ form[at[p]].kind = "sync"
      /\ workingState[at[p]] \in {0, 1} /\ tokens[p] = 0
  BY <1>2, Frames DEF TypeOK, TreeInv, Dispatched, BusyInv, With, ContinuationInv,
    At, Before, Ended, TokenInv, Waits
<1>4. TypeOK' BY <1>3, Frames DEF SyncCas, TypeOK, PublishContinuation, Label, Waits, Busy
<1>5. FreshInv' BY <1>2, <1>3, Frames DEF FreshInv, TreeInv, Dispatched
<1>6. RootInv' BY <1>2, <1>3, Frames DEF RootInv
<1>7. TreeInv' BY <1>2, <1>3, Frames DEF TreeInv, Dispatched
<1>8. BusyInv' BY <1>2, <1>3, Frames DEF BusyInv, TreeInv, With, Dispatched
<1>9. HolderInv'
  BY <1>2, <1>3, Frames DEF HolderInv, TreeInv, At, Dispatched, Before, Waits, Busy
<1>10. WorkInv' BY <1>2, <1>3, Frames DEF WorkInv, Dispatched, Ended
<1>11. ContinuationInv'
  BY <1>2, <1>3, Frames DEF ContinuationInv, TreeInv, At, Dispatched, Before, Ended
<1>12. TokenInv'
  BY <1>2, <1>3, Frames DEF TokenInv, TreeInv, BusyInv, WorkInv, Ended, Waits,
    Dispatched, With
<1>13. StartInv'
  BY <1>2, <1>3, Frames DEF StartInv, TreeInv, At, Unstarted, Dispatched, Before
<1>14. TailInv'
  BY <1>2, <1>3, Frames DEF TailInv, TreeInv, WorkInv, StartInv, At, Dispatched,
    Ended, Unstarted, Before
<1>15. RefsInv' BY <1>2, <1>3, Frames DEF RefsInv, Dispatched, Self, Outside, Kids
<1>16. QueueInv'
  BY <1>2, <1>3, Frames, <1>1 DEF QueueInv, TreeInv, HolderInv, At, Dispatched,
    Before, Waits, Busy
<1>17. PassedInv' BY <1>2, <1>3, Frames DEF PassedInv, Adrift, Kids
<1>18. ParentInv' BY <1>2, <1>3, Frames DEF ParentInv, TreeInv, At, HoldsParent, Dispatched
<1>19. MainInv' BY <1>2, <1>3, Frames DEF MainInv, Kids
<1>20. AliveInv' /\ CheckInv'
  BY DEF SyncCas, AliveInv, CheckInv, Dispatched, Alive, Kids, Outside
<1> QED BY <1>4, <1>5, <1>6, <1>7, <1>8, <1>9, <1>10, <1>11, <1>12, <1>13, <1>14, <1>15,
  <1>16, <1>17, <1>18, <1>19, <1>20

\* That thread starts the task, or resumes the body nobody else will.
LEMMA SyncTailKeeps ==
  ASSUME IInv, NEW t \in Frame, SyncTail(t)
  PROVE  IInv'
<1>1. /\ tail \in [Frame -> {"none", "done", "waits"}]
      /\ tokens \in [Frame -> 0..2]
      /\ barrier_queue \subseteq Frame
  BY DEF TypeOK
<1>2. /\ tail[t] # "none" /\ tail'[t] = "none"
      /\ \A u \in Frame : u # t => tail'[u] = tail[u]
      /\ resReady[t] => tokens'[t] = tokens[t] + 1 /\ (\A u \in Frame : u # t =>
          tokens'[u] = tokens[u])
      /\ ~ resReady[t] /\ tail[t] = "done" /\ par[t] \in Frame =>
          tokens'[par[t]] = tokens[par[t]] + 1 /\ (\A u \in Frame : u # par[t] =>
              tokens'[u] = tokens[u])
      /\ ~ resReady[t] /\ tail[t] # "done" => tokens' = tokens
      /\ UNCHANGED <<next, form, par, resReady, workingState, continuationHandle, refs,
          coroOutsideTask, result, parent, pool_p, frame, holder, co, at, barrier_queue,
              checking, mpc>>
  BY <1>1, Frames DEF SyncTail
<1>3. /\ t \in Task /\ t < next /\ par[t] \in Frame /\ par[t] # t /\ par[t] < next
          /\ form[t].kind = "sync"
      /\ resReady[t] => co[t] = "waiting" /\ tokens[t] = 0 /\ workingState[t] = 2
      /\ ~ resReady[t] /\ tail[t] = "done" => /\ co[par[t]] = "waitsSync"
          /\ at[par[t]] = t /\ tokens[par[t]] = 0
                                            /\ result[t] /\ co[t] \in Ended
                                                /\ workingState[t] = 0
  BY <1>2, Frames DEF TypeOK, FreshInv, Dispatched, RootInv, TreeInv, StartInv, At,
    Unstarted, Before, TailInv, WorkInv, Ended
<1>4. TypeOK' BY <1>3, Frames DEF SyncTail, TypeOK, Label, Waits, Busy
<1>5. FreshInv' BY <1>2, <1>3, Frames DEF FreshInv, TreeInv, Dispatched
<1>6. RootInv' BY <1>2, <1>3, Frames DEF RootInv
<1>7. ContinuationInv'
  BY <1>2, <1>3, Frames DEF ContinuationInv, TreeInv, At, Dispatched, Before, Ended
<1>8. TokenInv'
  BY <1>2, <1>3, Frames DEF TokenInv, TreeInv, BusyInv, Ended, Waits, Dispatched,
    With
<1>9. StartInv'
  BY <1>2, <1>3, Frames DEF StartInv, TreeInv, ContinuationInv, At, Unstarted,
    Dispatched, Before, Ended
<1>10. TailInv' BY <1>2, <1>3, Frames DEF TailInv, TreeInv, At, Dispatched
<1>11. QueueInv'
  BY <1>2, <1>3, Frames, <1>1 DEF QueueInv, TreeInv, HolderInv, At, Dispatched,
    Before, Waits, Busy
<1>12. PassedInv' BY <1>2, <1>3, Frames DEF PassedInv, Adrift, Kids
<1>13. TreeInv' /\ BusyInv' /\ HolderInv' /\ WorkInv' /\ RefsInv'
  BY DEF SyncTail, TreeInv, BusyInv, HolderInv, WorkInv, RefsInv, Dispatched, With,
    At, Before, Waits, Busy, Ended, Self, Outside, Kids
<1>14. AliveInv' /\ CheckInv' /\ ParentInv' /\ MainInv'
  BY DEF SyncTail, AliveInv, CheckInv, ParentInv, MainInv, Dispatched, Alive, Kids,
    Outside, At, HoldsParent
<1> QED BY <1>4, <1>5, <1>6, <1>7, <1>8, <1>9, <1>10, <1>11, <1>12, <1>13, <1>14

\* An asynchronous dispatch pushes the body and starts the task.
LEMMA DispatchAsyncKeeps ==
  ASSUME IInv, NEW p \in Frame, DispatchAsync(p)
  PROVE  IInv'
<1>1. /\ holder \in [Frame -> {"none", "main", "awaiter", "object", "get", "cleared"}]
      /\ tokens \in [Frame -> 0..2]
      /\ co \in [Frame -> Label]
      /\ at \in [Frame -> Task \cup {None}]
      /\ barrier_queue \subseteq Frame
  BY DEF TypeOK
<1>2. /\ co[p] = "dispatch" /\ at'[p] = None
      /\ \A u \in Frame : u # p => co'[u] = co[u] /\ at'[u] = at[u]
      /\ at[p] \in Frame => holder'[at[p]] = "object"
      /\ \A u \in Frame : u # at[p] => holder'[u] = holder[u]
      /\ co'[p] = IF resReady[at[p]] THEN "pushed" ELSE "running"
      /\ resReady[at[p]] /\ at[p] \in Frame /\ at[p] # p =>
          tokens'[at[p]] = tokens[at[p]] + 1 /\ tokens'[p] = tokens[p] + 1
      /\ resReady[at[p]] => \A u \in Frame : u # p /\ u # at[p] => tokens'[u] = tokens[u]
      /\ ~ resReady[at[p]] => tokens' = tokens
      /\ UNCHANGED <<next, form, par, resReady, workingState, continuationHandle, refs,
          coroOutsideTask, result, parent, pool_p, frame, tail, barrier_queue, checking,
              mpc>>
  BY <1>1, Frames DEF DispatchAsync
<1>3. /\ at[p] \in Task /\ at[p] < next /\ par[at[p]] = p /\ at[p] # p
          /\ holder[at[p]] = "awaiter" /\ form[at[p]].kind = "async"
      /\ workingState[at[p]] # 2 /\ tokens[p] = 0 /\ tail[at[p]] = "none"
      /\ resReady[at[p]] => co[at[p]] = "waiting" /\ tokens[at[p]] = 0
  BY <1>2, Frames DEF TypeOK, TreeInv, Dispatched, BusyInv, With, ContinuationInv,
    At, Before, Ended, TokenInv, Waits, TailInv, StartInv, Unstarted
<1>4. TypeOK'
  <2>1. holder' \in [Frame -> {"none", "main", "awaiter", "object", "get", "cleared"}]
    BY DEF DispatchAsync, TypeOK
  <2>2. tokens' \in [Frame -> 0..2] BY <1>3, Frames DEF DispatchAsync, TypeOK
  <2>3. co' \in [Frame -> Label] /\ at' \in [Frame -> Task \cup {None}]
    BY DEF DispatchAsync, TypeOK, Label, Waits
  <2> QED BY <1>2, <2>1, <2>2, <2>3 DEF TypeOK
<1>5. FreshInv' BY <1>2, <1>3, Frames DEF FreshInv, TreeInv, Dispatched
<1>6. RootInv' BY <1>2, <1>3, Frames DEF RootInv
<1>7. TreeInv' BY <1>2, <1>3, Frames DEF TreeInv, Dispatched
<1>8. BusyInv' BY <1>2, <1>3, Frames DEF BusyInv, TreeInv, With, Dispatched
<1>9. HolderInv'
  BY <1>2, <1>3, Frames DEF HolderInv, TreeInv, At, Dispatched, Before, Waits, Busy
<1>10. WorkInv' BY <1>2, <1>3, Frames DEF WorkInv, Dispatched, Ended
<1>11. ContinuationInv'
  BY <1>2, <1>3, Frames DEF ContinuationInv, TreeInv, At, Dispatched, Before, Ended
<1>12. TokenInv'
  BY <1>2, <1>3, Frames DEF TokenInv, TreeInv, BusyInv, Ended, Waits, Dispatched,
    With
<1>13. StartInv'
  BY <1>2, <1>3, Frames DEF StartInv, TreeInv, At, Unstarted, Dispatched, Before
<1>14. TailInv' BY <1>2, <1>3, Frames DEF TailInv, TreeInv, At, Dispatched
<1>15. RefsInv' BY <1>2, <1>3, Frames DEF RefsInv, Dispatched, Self, Outside, Kids
<1>16. QueueInv'
  BY <1>2, <1>3, Frames, <1>1 DEF QueueInv, TreeInv, HolderInv, At, Dispatched,
    Before, Waits, Busy
<1>17. CheckInv' BY <1>2, <1>3, Frames, <1>1 DEF CheckInv, Kids, Outside
<1>18. PassedInv' BY <1>2, <1>3, Frames DEF PassedInv, Adrift, Kids
<1>19. ParentInv' BY <1>2, <1>3, Frames DEF ParentInv, TreeInv, At, HoldsParent, Dispatched
<1>20. MainInv' BY <1>2, <1>3, Frames DEF MainInv, Kids
<1>21. AliveInv' BY DEF DispatchAsync, AliveInv, Dispatched, Alive
<1> QED BY <1>4, <1>5, <1>6, <1>7, <1>8, <1>9, <1>10, <1>11, <1>12, <1>13, <1>14, <1>15,
  <1>16, <1>17, <1>18, <1>19, <1>20, <1>21

\* await_transform counts the child: one more of Kids, and one more in refs.
LEMMA TransformKeeps ==
  ASSUME IInv, NEW p \in Frame, Transform(p)
  PROVE  IInv'
<1>1. /\ pool_p \in [Frame -> BOOLEAN]
      /\ parent \in [Frame -> Frame \cup {None}]
      /\ refs \in [Frame -> 0..(NumTasks + 2)]
      /\ co \in [Frame -> Label]
      /\ barrier_queue \subseteq Frame
  BY DEF TypeOK
<1>2. /\ co[p] = "transform"
      /\ co'[p] = IF form[at[p]].kind = "async" THEN "dispatch" ELSE "syncStore"
      /\ \A u \in Frame : u # p => co'[u] = co[u]
      /\ HoldsParent(p, at[p]) => refs'[p] = refs[p] + 1 /\ (at[p] \in Frame =>
          parent'[at[p]] = p)
      /\ ~ HoldsParent(p, at[p]) => refs' = refs /\ parent' = parent
      /\ \A u \in Frame : u # p => refs'[u] = refs[u]
      /\ \A u \in Frame : u # at[p] => parent'[u] = parent[u]
      /\ UNCHANGED <<next, form, par, resReady, workingState, continuationHandle,
          coroOutsideTask, result, frame, holder, at, tokens, tail, barrier_queue,
              checking, mpc>>
  BY <1>1, Frames DEF Transform, CountParent, PassPool
<1>3. /\ at[p] \in Task /\ at[p] < next /\ par[at[p]] = p /\ at[p] # p
          /\ holder[at[p]] = "awaiter" /\ form[at[p]].kind \in {"async", "sync"}
      /\ parent[at[p]] = None /\ frame[at[p]] # "freed" /\ p < next /\ tokens[p] = 0
      /\ refs[p] \in Nat /\ refs[p] > 0 /\ frame[p] = "alive"
          /\ refs[p] + 1 \in 0..(NumTasks + 2)
  <2>1. /\ at[p] \in Task /\ at[p] < next /\ par[at[p]] = p /\ at[p] # p
      /\ holder[at[p]] = "awaiter" /\ form[at[p]].kind \in {"async", "sync"}
        /\ parent[at[p]] = None /\ p < next /\ tokens[p] = 0
    BY <1>2, Frames DEF TypeOK, FreshInv, TreeInv, BusyInv, TokenInv, With, Dispatched,
        Waits
  <2>2. frame[at[p]] = "alive" BY <2>1, Frames, Counted DEF Dispatched
  <2>3. /\ refs[p] = Self(p) + Outside(p) + Cardinality(Kids(p)) /\ refs[p] \in Nat
        /\ refs[p] > 0 /\ frame[p] = "alive"
    BY <2>1, <1>2, Counted DEF Dispatched
  <2>4. Self(p) \in {0, 1} /\ Outside(p) \in {0, 1} BY DEF Self, Outside
  <2>5. at[p] \notin Kids(p) /\ Kids(p) \in SUBSET Task
      /\ Kids(p) \cup {at[p]} \in SUBSET Task
    BY <2>1, Frames DEF Kids
  <2>6. Cardinality(Kids(p)) + 1 \in 0..NumTasks BY <2>5, <2>1, TaskSets
  <2>7. refs[p] + 1 \in 0..(NumTasks + 2) BY <2>3, <2>4, <2>6, KidsNat, NumTasksAssumption
  <2> QED BY <2>1, <2>2, <2>3, <2>7
<1>4. \A q \in Frame : Kids(q)' = IF q = p /\ HoldsParent(p,
          at[p]) THEN Kids(q) \cup {at[p]} ELSE Kids(q)
  <2>1. frame' = frame BY <1>2
  <2>2. \A c \in Task : parent'[c] = IF c = at[p] /\ HoldsParent(p, c) THEN p ELSE parent[c]
    BY <1>2, <1>3, Frames
  <2> QED BY <2>1, <2>2, <1>3, Frames DEF Kids
<1>5. TypeOK'
  <2>1. pool_p' \in [Frame -> BOOLEAN]
    BY <1>1, <1>3, Frames, NumTasksAssumption DEF Transform, CountParent, PassPool
  <2>2. parent' \in [Frame -> Frame \cup {None}]
    BY <1>1, <1>3, Frames, NumTasksAssumption DEF Transform, CountParent, PassPool
  <2>3. refs' \in [Frame -> 0..(NumTasks + 2)]
    BY <1>1, <1>3, Frames, NumTasksAssumption DEF Transform, CountParent, PassPool
  <2>4. co' \in [Frame -> Label]
    BY <1>1, <1>3, Frames, NumTasksAssumption DEF Transform, CountParent, PassPool, Label,
        Waits, Busy
  <2> QED BY <1>2, <2>1, <2>2, <2>3, <2>4 DEF TypeOK
<1>6. FreshInv' BY <1>2, <1>3, Frames DEF FreshInv, TreeInv, Dispatched
<1>7. RootInv' BY <1>2, <1>3, Frames DEF RootInv
<1>8. TreeInv' BY <1>2, <1>3, Frames DEF TreeInv, Dispatched
<1>9. BusyInv' BY <1>2, <1>3, Frames DEF BusyInv, TreeInv, With, Dispatched
<1>10. HolderInv'
  BY <1>2, <1>3, Frames DEF HolderInv, TreeInv, At, Dispatched, Before, Waits, Busy
<1>11. WorkInv' BY <1>2, <1>3, Frames DEF WorkInv, Dispatched, Ended
<1>12. ContinuationInv'
  BY <1>2, <1>3, Frames DEF ContinuationInv, TreeInv, At, Dispatched, Before, Ended
<1>13. TokenInv'
  BY <1>2, <1>3, Frames DEF TokenInv, TreeInv, BusyInv, Ended, Waits, Dispatched,
    With
<1>14. StartInv'
  BY <1>2, <1>3, Frames DEF StartInv, TreeInv, At, Unstarted, Dispatched, Before
<1>15. TailInv' BY <1>2, <1>3, Frames DEF TailInv, TreeInv, At, Dispatched
<1>16. RefsInv'
  <2> SUFFICES ASSUME NEW q \in Frame, q < next
               PROVE  refs'[q] = Self(q) + Outside(q) + Cardinality(Kids(q)')
    BY <1>2 DEF RefsInv, Dispatched, Self, Outside
  <2>1. refs[q] = Self(q) + Outside(q) + Cardinality(Kids(q))
      /\ Cardinality(Kids(q)) \in Nat
    BY KidsNat DEF RefsInv, Dispatched
  <2>2. Self(q) \in {0, 1} /\ Outside(q) \in {0, 1} BY DEF Self, Outside
  <2>3. CASE q = p /\ HoldsParent(p, at[p])
    <3>1. at[p] \in Task \ Kids(q) /\ Kids(q) \in SUBSET Task BY <2>3, <1>3, Frames,
        KidsNat DEF Kids
    <3>2. Cardinality(Kids(q)') = Cardinality(Kids(q)) + 1 BY <3>1, <2>3, <1>4, TaskSets
    <3>3. refs'[q] = refs[q] + 1 BY <2>3, <1>2
    <3> QED BY <2>1, <2>2, <3>2, <3>3
  <2>4. CASE ~ (q = p /\ HoldsParent(p, at[p])) BY <2>1, <2>4, <1>2, <1>4
  <2> QED BY <2>3, <2>4
<1>17. AliveInv' BY <1>2, <1>3, Frames DEF AliveInv, Dispatched, Alive
<1>18. QueueInv'
  BY <1>2, <1>3, Frames, <1>1 DEF QueueInv, TreeInv, HolderInv, At, Dispatched,
    Before, Waits, Busy
<1>19. CheckInv'
  BY <1>2, <1>3, <1>4, Frames, <1>1 DEF CheckInv, QueueInv, Outside, At, Dispatched
<1>20. PassedInv' BY <1>2, <1>3, <1>4, Frames DEF PassedInv, Adrift
<1>21. ParentInv' BY <1>2, <1>3, Frames DEF ParentInv, TreeInv, At, HoldsParent, Dispatched
<1>22. MainInv' BY <1>2, <1>3, <1>4, Frames DEF MainInv
<1> QED BY <1>5, <1>6, <1>7, <1>8, <1>9, <1>10, <1>11, <1>12, <1>13, <1>14, <1>15, <1>16,
  <1>17, <1>18, <1>19, <1>20, <1>21, <1>22

\* A new frame, with the handles of its promise and of its creator.
LEMMA CreateKeeps ==
  ASSUME IInv, NEW p \in Frame, NEW f \in Forms, form[p].kind # "barrier", Create(p, f)
  PROVE  IInv'
<1>1. /\ form \in [Frame -> Form]
      /\ par \in [Frame -> Frame \cup {None}]
      /\ resReady \in [Frame -> BOOLEAN]
      /\ refs \in [Frame -> 0..(NumTasks + 2)]
      /\ frame \in [Frame -> {"none", "alive", "dying", "released", "freed"}]
      /\ holder \in [Frame -> {"none", "main", "awaiter", "object", "get", "cleared"}]
      /\ co \in [Frame -> Label]
      /\ at \in [Frame -> Task \cup {None}]
      /\ barrier_queue \subseteq Frame
  BY DEF TypeOK
<1>2. /\ co[p] = "running" /\ next <= NumTasks /\ next' = next + 1
      /\ next \in Frame => /\ form'[next] = f /\ par'[next] = p /\ refs'[next] = 2
          /\ frame'[next] = "alive"
      /\ next \in Frame => holder'[next] = "awaiter" /\ (next # p => co'[next] = "waiting")
      /\ at'[p] = next
      /\ next # p => co'[p] = IF f.kind = "barrier" THEN "waitsBarrier" ELSE "transform"
      /\ \A u \in Frame : u # next => form'[u] = form[u] /\ par'[u] = par[u]
          /\ resReady'[u] = resReady[u] /\ refs'[u] = refs[u] /\ frame'[u] = frame[u]
              /\ holder'[u] = holder[u]
      /\ \A u \in Frame : u # next /\ u # p => co'[u] = co[u]
      /\ \A u \in Frame : u # p => at'[u] = at[u]
      /\ UNCHANGED <<workingState, continuationHandle, coroOutsideTask, result, parent,
          pool_p, tokens, tail, barrier_queue, checking, mpc>>
  BY <1>1, Frames DEF Create, Running, InitialRefs
<1>3. /\ f.kind \in {"async", "sync", "barrier"}
      /\ next \in Task /\ next # p /\ p < next /\ tokens[p] = 0
      /\ par[next] = None /\ parent[next] = None /\ frame[next] = "none"
          /\ co[next] = "none"
      /\ workingState[next] = 1 /\ ~ result[next] /\ tokens[next] = 0 /\ tail[next] = "none"
      /\ \A u \in Frame : u < next' <=> u < next \/ u = next
      /\ \A c \in Task : par[c] # next /\ parent[c] # next
  <2>1. next \in Task BY <1>2, NumTasksAssumption DEF TypeOK, Task
  <2>2. ~ Dispatched(next) /\ next \in Nat BY <2>1, Frames DEF Dispatched
  <2>3. /\ par[next] = None /\ parent[next] = None /\ frame[next] = "none"
      /\ co[next] = "none"
        /\ workingState[next] = 1 /\ ~ result[next] /\ tokens[next] = 0
            /\ tail[next] = "none"
    BY <2>1, <2>2, Frames DEF FreshInv
  <2>4. p < next /\ next # p BY <1>2, <2>3 DEF FreshInv, Dispatched
  <2>5. tokens[p] = 0 BY <1>2 DEF TypeOK, TokenInv, Waits
  <2>6. \A u \in Frame : u < next' <=> u < next \/ u = next BY <1>2, <2>2, Frames
  <2>7. \A c \in Task : par[c] # next /\ parent[c] # next
    <3> SUFFICES ASSUME NEW c \in Task PROVE par[c] # next /\ parent[c] # next OBVIOUS
    <3>1. CASE Dispatched(c)
      BY <3>1, <2>1, <2>2, Frames DEF TreeInv, Dispatched
    <3>2. CASE ~ Dispatched(c) BY <3>2, <2>1, Frames DEF FreshInv
    <3> QED BY <3>1, <3>2
  <2>8. f.kind \in {"async", "sync", "barrier"} BY FormsAssumption DEF Form
  <2> QED BY <2>1, <2>3, <2>4, <2>5, <2>6, <2>7, <2>8
<1>4. \A q \in Frame : Kids(q)' = Kids(q) /\ (q = next => Kids(q) = {})
  <2>1. \A c \in Task : parent'[c] = parent[c] /\ (parent[c] # None => frame'[c] = frame[c])
    BY <1>2, <1>3, Frames
  <2>2. \A q \in Frame : Kids(q)' = Kids(q) BY <2>1, Frames DEF Kids
  <2>3. Kids(next) = {} BY <1>3 DEF Kids
  <2> QED BY <2>2, <2>3
<1>5. TypeOK'
  <2>1. PICK rr \in BOOLEAN :
            /\ form' = [form EXCEPT ![next] = f] /\ par' = [par EXCEPT ![next] = p]
            /\ resReady' = [resReady EXCEPT ![next] = rr]
                /\ refs' = [refs EXCEPT ![next] = 2]
            /\ frame' = [frame EXCEPT ![next] = "alive"]
            /\ holder' = [holder EXCEPT ![next] = "awaiter"]
            /\ co' = [co EXCEPT ![next] = "waiting",
                                ![p] = IF f.kind = "barrier" THEN "waitsBarrier"
                                    ELSE "transform"]
            /\ at' = [at EXCEPT ![p] = next]
    BY DEF Create, InitialRefs
  <2>2. next' \in 1..(NumTasks + 1) BY <1>2, NumTasksAssumption DEF TypeOK
  <2>3. /\ form' \in [Frame -> Form] /\ par' \in [Frame -> Frame \cup {None}]
        /\ resReady' \in [Frame -> BOOLEAN]
    BY <1>1, <2>1, FormsAssumption
  <2>4. refs' \in [Frame -> 0..(NumTasks + 2)]
    <3>1. 2 \in 0..(NumTasks + 2) BY NumTasksAssumption
    <3> QED BY <1>1, <2>1, <3>1
  <2>5. /\ frame' \in [Frame -> {"none", "alive", "dying", "released", "freed"}]
        /\ holder' \in [Frame -> {"none", "main", "awaiter", "object", "get", "cleared"}]
        /\ at' \in [Frame -> Task \cup {None}]
    BY <1>1, <1>3, <2>1
  <2>6. co' \in [Frame -> Label] BY <1>1, <2>1 DEF Label, Waits, Busy
  <2> QED BY <1>2, <2>2, <2>3, <2>4, <2>5, <2>6 DEF TypeOK
<1>6. FreshInv' BY <1>2, <1>3, Frames DEF FreshInv, TreeInv, Dispatched
<1>7. RootInv' BY <1>2, <1>3, Frames DEF RootInv
<1>8. TreeInv' BY <1>2, <1>3, Frames DEF TreeInv, Dispatched
<1>9. BusyInv' BY <1>2, <1>3, Frames DEF BusyInv, TreeInv, With, Dispatched
<1>10. HolderInv'
  BY <1>2, <1>3, Frames DEF HolderInv, TreeInv, At, Dispatched, Before, Waits, Busy
<1>11. WorkInv' BY <1>2, <1>3, Frames DEF WorkInv, Dispatched, Ended
<1>12. ContinuationInv'
  BY <1>2, <1>3, Frames DEF ContinuationInv, TreeInv, At, Dispatched, Before, Ended
<1>13. TokenInv'
  BY <1>2, <1>3, Frames DEF TokenInv, TreeInv, BusyInv, Ended, Waits, Dispatched,
    With
<1>14. StartInv'
  BY <1>2, <1>3, Frames DEF StartInv, TreeInv, At, Unstarted, Dispatched, Before
<1>15. TailInv' BY <1>2, <1>3, Frames DEF TailInv, TreeInv, At, Dispatched
<1>16. RefsInv'
  <2> SUFFICES ASSUME NEW q \in Frame, q < next \/ q = next
               PROVE  refs'[q] = Self(q)' + Outside(q)' + Cardinality(Kids(q))
    BY <1>3, <1>4 DEF RefsInv, Dispatched
  <2>1. CASE q = next
    <3>1. Self(q)' = 1 /\ Outside(q)' = 1 /\ refs'[q] = 2
      BY <2>1, <1>2, <1>3, Frames DEF Self, Outside
    <3>2. Cardinality(Kids(q)) = 0 BY <2>1, <1>4, TaskSets, KidsNat
    <3> QED BY <3>1, <3>2
  <2>2. CASE q # next
    <3>1. refs[q] = Self(q) + Outside(q) + Cardinality(Kids(q))
      BY <2>2 DEF RefsInv, Dispatched
    <3>2. Self(q)' = Self(q) /\ Outside(q)' = Outside(q) /\ refs'[q] = refs[q]
      BY <2>2, <1>2 DEF Self, Outside
    <3> QED BY <3>1, <3>2
  <2> QED BY <2>1, <2>2
<1>17. AliveInv' BY <1>2, <1>3, Frames DEF AliveInv, Dispatched, Alive
<1>18. QueueInv'
  BY <1>2, <1>3, Frames, <1>1 DEF QueueInv, TreeInv, HolderInv, At, Dispatched,
    Before, Waits, Busy
<1>19. CheckInv' BY <1>2, <1>3, <1>4, Frames, <1>1 DEF CheckInv, Outside
<1>20. PassedInv' BY <1>2, <1>3, <1>4, Frames DEF PassedInv, Adrift
<1>21. ParentInv' BY <1>2, <1>3, Frames DEF ParentInv, TreeInv, At, HoldsParent, Dispatched
<1>22. MainInv' BY <1>2, <1>3, <1>4, Frames DEF MainInv
<1> QED BY <1>5, <1>6, <1>7, <1>8, <1>9, <1>10, <1>11, <1>12, <1>13, <1>14, <1>15, <1>16,
  <1>17, <1>18, <1>19, <1>20, <1>21, <1>22

\* The handle moves into a GetAwaiter, in a body that nobody resumes now.
LEMMA GetKeeps ==
  ASSUME IInv, NEW p \in Frame, NEW c \in Task, Get(p,c)
  PROVE  IInv'
<1>1. /\ holder \in [Frame -> {"none", "main", "awaiter", "object", "get", "cleared"}]
      /\ at \in [Frame -> Task \cup {None}]
      /\ co \in [Frame -> Label]
      /\ barrier_queue \subseteq Frame
  BY DEF TypeOK
<1>2. /\ co[p] = "running" /\ par[c] = p /\ holder[c] = "object" /\ holder'[c] = "get"
      /\ at'[p] = c
      /\ co'[p] = IF workingState[c] = 0 THEN "take" ELSE "getStore"
      /\ \A u \in Frame : u # p => co'[u] = co[u] /\ at'[u] = at[u]
      /\ \A u \in Frame : u # c => holder'[u] = holder[u]
      /\ UNCHANGED <<next, form, par, resReady, workingState, continuationHandle, refs,
          coroOutsideTask, result, parent, pool_p, frame, tokens, tail, barrier_queue,
              checking, mpc>>
  BY <1>1, Frames DEF Get, Running, TaskDone, Objects
<1>3. /\ c < next /\ c # p /\ form[c].kind = "async" /\ form[p].kind # "barrier"
          /\ workingState[c] # 2 /\ tokens[p] = 0
  <2>1. c < next BY <1>2, Frames DEF FreshInv, Dispatched
  <2>2. c # p /\ form[p].kind # "barrier" BY <1>2, <2>1, Frames DEF TreeInv, Dispatched
  <2>3. form[c].kind = "async" BY DEF Get
  <2>4. workingState[c] # 2 BY <1>2, <2>1, <2>3 DEF ContinuationInv, Dispatched
  <2>5. tokens[p] = 0 BY <1>2 DEF TypeOK, TokenInv, Waits
  <2> QED BY <2>1, <2>2, <2>3, <2>4, <2>5
<1>4. TypeOK' BY <1>3, Frames DEF Get, TypeOK, Running, TaskDone, Objects, Label, Waits, Busy
<1>5. FreshInv' BY <1>2, <1>3, Frames DEF FreshInv, TreeInv, Dispatched
<1>6. RootInv' BY <1>2, <1>3, Frames DEF RootInv
<1>7. TreeInv' BY <1>2, <1>3, Frames DEF TreeInv, Dispatched
<1>8. BusyInv' BY <1>2, <1>3, Frames DEF BusyInv, TreeInv, With, Dispatched
<1>9. HolderInv'
  BY <1>2, <1>3, Frames DEF HolderInv, TreeInv, At, Dispatched, Before, Waits, Busy
<1>10. WorkInv' BY <1>2, <1>3, Frames DEF WorkInv, Dispatched, Ended
<1>11. ContinuationInv'
  BY <1>2, <1>3, Frames DEF ContinuationInv, TreeInv, At, Dispatched, Before, Ended
<1>12. TokenInv'
  BY <1>2, <1>3, Frames DEF TokenInv, TreeInv, BusyInv, WorkInv, Ended, Waits,
    Dispatched, With
<1>13. StartInv'
  BY <1>2, <1>3, Frames DEF StartInv, TreeInv, At, Unstarted, Dispatched, Before
<1>14. TailInv' BY <1>2, <1>3, Frames DEF TailInv, TreeInv, At, Dispatched
<1>15. RefsInv' BY <1>2, <1>3, Frames DEF RefsInv, Dispatched, Self, Outside, Kids
<1>16. QueueInv'
  BY <1>2, <1>3, Frames, <1>1 DEF QueueInv, TreeInv, HolderInv, At, Dispatched,
    Before, Waits, Busy
<1>17. CheckInv' BY <1>2, <1>3, Frames, <1>1 DEF CheckInv, Kids, Outside
<1>18. PassedInv' BY <1>2, <1>3, Frames DEF PassedInv, Adrift, Kids
<1>19. ParentInv' BY <1>2, <1>3, Frames DEF ParentInv, TreeInv, At, HoldsParent, Dispatched
<1>20. MainInv' BY <1>2, <1>3, Frames DEF MainInv, Kids
<1>21. AliveInv' BY DEF Get, AliveInv, Dispatched, Alive
<1> QED BY <1>4, <1>5, <1>6, <1>7, <1>8, <1>9, <1>10, <1>11, <1>12, <1>13, <1>14, <1>15,
  <1>16, <1>17, <1>18, <1>19, <1>20, <1>21

\* The awaited task is over, and its handle stays in the awaiter of the body.
LEMMA KeepKeeps ==
  ASSUME IInv, NEW p \in Frame, Keep(p)
  PROVE  IInv'
<1>1. /\ holder \in [Frame -> {"none", "main", "awaiter", "object", "get", "cleared"}]
      /\ co \in [Frame -> Label] /\ at \in [Frame -> Task \cup {None}]
      /\ barrier_queue \subseteq Frame
  BY DEF TypeOK
<1>2. /\ co[p] = "take" /\ co'[p] = "running"
      /\ \A u \in Frame : u # p => co'[u] = co[u]
      /\ at[p] \in Frame => holder'[at[p]] = "object"
      /\ \A u \in Frame : u # at[p] => holder'[u] = holder[u]
      /\ at'[p] = None /\ \A u \in Frame : u # p => at'[u] = at[u]
      /\ UNCHANGED <<next, form, par, resReady, workingState, continuationHandle, refs,
          coroOutsideTask, result, parent, pool_p, frame, tokens, tail, barrier_queue,
              checking, mpc>>
  BY <1>1, Frames DEF Keep
<1>3. /\ at[p] \in Task /\ at[p] < next /\ par[at[p]] = p /\ at[p] # p
          /\ holder[at[p]] \in {"awaiter", "get"} /\ form[at[p]].kind = "sync"
      /\ result[at[p]] /\ co[at[p]] \in Ended /\ tokens[p] = 0
  BY <1>2, Frames DEF TypeOK, TreeInv, Dispatched, BusyInv, With, TokenInv, Ended,
    Waits, Keep, Kept
<1>4. TypeOK' BY <1>3, Frames DEF Keep, TypeOK, Label, Waits, Busy
<1>5. FreshInv' BY <1>2, <1>3, Frames DEF FreshInv, TreeInv, Dispatched
<1>6. RootInv' BY <1>2, <1>3, Frames DEF RootInv
<1>7. TreeInv' BY <1>2, <1>3, Frames DEF TreeInv, Dispatched
<1>8. BusyInv' BY <1>2, <1>3, Frames DEF BusyInv, TreeInv, With, Dispatched
<1>9. HolderInv'
  BY <1>2, <1>3, Frames DEF HolderInv, TreeInv, At, Dispatched, Before, Waits, Busy
<1>10. WorkInv' BY <1>2, <1>3, Frames DEF WorkInv, Dispatched, Ended
<1>11. ContinuationInv'
  BY <1>2, <1>3, Frames DEF ContinuationInv, TreeInv, At, Dispatched, Before, Ended
<1>12. TokenInv'
  BY <1>2, <1>3, Frames DEF TokenInv, TreeInv, BusyInv, Ended, Waits, Dispatched,
    With
<1>13. StartInv'
  BY <1>2, <1>3, Frames DEF StartInv, TreeInv, At, Unstarted, Dispatched, Before
<1>14. TailInv' BY <1>2, <1>3, Frames DEF TailInv, TreeInv, At, Dispatched
<1>15. RefsInv' BY <1>2, <1>3, Frames DEF RefsInv, Dispatched, Self, Outside, Kids
<1>16. QueueInv'
  BY <1>2, <1>3, Frames, <1>1 DEF QueueInv, TreeInv, HolderInv, At, Dispatched,
    Before, Waits, Busy
<1>17. CheckInv' BY <1>2, <1>3, Frames, <1>1 DEF CheckInv, Kids, Outside
<1>18. PassedInv' BY <1>2, <1>3, Frames DEF PassedInv, Adrift, Kids
<1>19. ParentInv' BY <1>2, <1>3, Frames DEF ParentInv, TreeInv, At, HoldsParent, Dispatched
<1>20. MainInv' BY <1>2, <1>3, Frames DEF MainInv, Kids
<1>21. AliveInv' BY DEF Keep, AliveInv, Dispatched, Alive
<1> QED BY <1>4, <1>5, <1>6, <1>7, <1>8, <1>9, <1>10, <1>11, <1>12, <1>13, <1>14, <1>15,
  <1>16, <1>17, <1>18, <1>19, <1>20, <1>21

\* The awaited task is over, and its handle is about to go.
LEMMA TakeKeeps ==
  ASSUME IInv, NEW p \in Frame, Take(p)
  PROVE  IInv'
<1>1. /\ coroOutsideTask \in [Frame -> BOOLEAN]
      /\ holder \in [Frame -> {"none", "main", "awaiter", "object", "get", "cleared"}]
      /\ co \in [Frame -> Label]
      /\ barrier_queue \subseteq Frame
  BY DEF TypeOK
<1>2. /\ co[p] = "take" /\ co'[p] = "release"
      /\ \A u \in Frame : u # p => co'[u] = co[u]
      /\ at[p] \in Frame => holder'[at[p]] = "cleared" /\ coroOutsideTask'[at[p]] = FALSE
      /\ \A u \in Frame : u # at[p] => holder'[u] = holder[u]
          /\ coroOutsideTask'[u] = coroOutsideTask[u]
      /\ UNCHANGED <<next, form, par, resReady, workingState, continuationHandle, refs,
          result, parent, pool_p, frame, at, tokens, tail, barrier_queue, checking, mpc>>
  BY <1>1, Frames DEF Take
<1>3. /\ at[p] \in Task /\ at[p] < next /\ par[at[p]] = p /\ at[p] # p
          /\ holder[at[p]] \in {"awaiter", "get"} /\ form[at[p]].kind \in {"async", "sync"}
      /\ result[at[p]] /\ co[at[p]] \in Ended /\ tokens[p] = 0
  BY <1>2, Frames DEF TypeOK, TreeInv, Dispatched, BusyInv, With, TokenInv, Ended,
    Waits
<1>4. TypeOK' BY <1>3, Frames DEF Take, TypeOK, Label, Waits, Busy
<1>5. FreshInv' BY <1>2, <1>3, Frames DEF FreshInv, TreeInv, Dispatched
<1>6. RootInv' BY <1>2, <1>3, Frames DEF RootInv
<1>7. TreeInv' BY <1>2, <1>3, Frames DEF TreeInv, Dispatched
<1>8. BusyInv' BY <1>2, <1>3, Frames DEF BusyInv, TreeInv, With, Dispatched
<1>9. HolderInv'
  BY <1>2, <1>3, Frames DEF HolderInv, TreeInv, At, Dispatched, Before, Waits, Busy
<1>10. WorkInv' BY <1>2, <1>3, Frames DEF WorkInv, Dispatched, Ended
<1>11. ContinuationInv'
  BY <1>2, <1>3, Frames DEF ContinuationInv, TreeInv, At, Dispatched, Before, Ended
<1>12. TokenInv'
  BY <1>2, <1>3, Frames DEF TokenInv, TreeInv, BusyInv, Ended, Waits, Dispatched,
    With
<1>13. StartInv'
  BY <1>2, <1>3, Frames DEF StartInv, TreeInv, At, Unstarted, Dispatched, Before
<1>14. TailInv' BY <1>2, <1>3, Frames DEF TailInv, TreeInv, At, Dispatched
<1>15. RefsInv' BY <1>2, <1>3, Frames DEF RefsInv, Dispatched, Self, Outside, Kids
<1>16. QueueInv'
  BY <1>2, <1>3, Frames, <1>1 DEF QueueInv, TreeInv, HolderInv, At, Dispatched,
    Before, Waits, Busy
<1>17. CheckInv' BY <1>2, <1>3, Frames, <1>1 DEF CheckInv, Kids, Outside
<1>18. PassedInv' BY <1>2, <1>3, Frames DEF PassedInv, Adrift, Kids
<1>19. ParentInv' BY <1>2, <1>3, Frames DEF ParentInv, TreeInv, At, HoldsParent, Dispatched
<1>20. MainInv' BY <1>2, <1>3, Frames DEF MainInv, Kids
<1>21. AliveInv' BY DEF Take, AliveInv, Dispatched, Alive
<1> QED BY <1>4, <1>5, <1>6, <1>7, <1>8, <1>9, <1>10, <1>11, <1>12, <1>13, <1>14, <1>15,
  <1>16, <1>17, <1>18, <1>19, <1>20, <1>21

\* ~Task of an object of the body clears the flag.
LEMMA ClearKeeps ==
  ASSUME IInv, NEW p \in Frame, NEW c \in Task, Clear(p,c)
  PROVE  IInv'
<1>1. /\ coroOutsideTask \in [Frame -> BOOLEAN]
      /\ holder \in [Frame -> {"none", "main", "awaiter", "object", "get", "cleared"}]
      /\ co \in [Frame -> Label]
      /\ at \in [Frame -> Task \cup {None}]
      /\ barrier_queue \subseteq Frame
  BY DEF TypeOK
<1>2. /\ co[p] \in {"running", "returned"} /\ co'[p] = "release" /\ par[c] = p
          /\ holder[c] = "object"
      /\ at'[p] = c /\ holder'[c] = "cleared" /\ ~ coroOutsideTask'[c]
      /\ \A u \in Frame : u # p => co'[u] = co[u] /\ at'[u] = at[u]
      /\ \A u \in Frame : u # c => holder'[u] = holder[u]
          /\ coroOutsideTask'[u] = coroOutsideTask[u]
      /\ UNCHANGED <<next, form, par, resReady, workingState, continuationHandle, refs,
          result, parent, pool_p, frame, tokens, tail, barrier_queue, checking, mpc>>
  BY <1>1, Frames DEF Clear, Objects
<1>3. /\ c < next /\ c # p /\ form[c].kind \in {"async", "sync"}
      /\ form[p].kind # "barrier" /\ tokens[p] = 0 /\ (workingState[c] = 2 => co[c] = "done")
  <2>1. c < next BY <1>2, Frames DEF FreshInv, Dispatched
  <2>2. c # p /\ form[p].kind # "barrier" BY <1>2, <2>1, Frames DEF TreeInv, Dispatched
  <2>3. form[c].kind \in {"async", "sync"}
    <3>1. form[c] \in Form BY Frames DEF TypeOK
    <3>2. form[c].kind # "barrier" BY <1>2, <2>1 DEF HolderInv, Dispatched
    <3> QED BY <3>1, <3>2 DEF Form
  <2>4. workingState[c] = 2 => co[c] = "done" BY <1>2, <2>1 DEF ContinuationInv, At, Dispatched
  <2>5. tokens[p] = 0 BY <1>2 DEF TypeOK, TokenInv, Waits
  <2> QED BY <2>1, <2>2, <2>3, <2>4, <2>5
<1>4. TypeOK' BY <1>3, Frames DEF Clear, TypeOK, Objects, Label, Waits, Busy
<1>5. FreshInv' BY <1>2, <1>3, Frames DEF FreshInv, TreeInv, Dispatched
<1>6. RootInv' BY <1>2, <1>3, Frames DEF RootInv
<1>7. TreeInv' BY <1>2, <1>3, Frames DEF TreeInv, Dispatched
<1>8. BusyInv' BY <1>2, <1>3, Frames DEF BusyInv, TreeInv, With, Dispatched
<1>9. HolderInv'
  BY <1>2, <1>3, Frames DEF HolderInv, TreeInv, At, Dispatched, Before, Waits, Busy
<1>10. WorkInv' BY <1>2, <1>3, Frames DEF WorkInv, Dispatched, Ended
<1>11. ContinuationInv'
  BY <1>2, <1>3, Frames DEF ContinuationInv, TreeInv, At, Dispatched, Before, Ended
<1>12. TokenInv'
  BY <1>2, <1>3, Frames DEF TokenInv, TreeInv, BusyInv, Ended, Waits, Dispatched,
    With
<1>13. StartInv'
  BY <1>2, <1>3, Frames DEF StartInv, TreeInv, At, Unstarted, Dispatched, Before
<1>14. TailInv' BY <1>2, <1>3, Frames DEF TailInv, TreeInv, At, Dispatched
<1>15. RefsInv' BY <1>2, <1>3, Frames DEF RefsInv, Dispatched, Self, Outside, Kids
<1>16. QueueInv'
  BY <1>2, <1>3, Frames, <1>1 DEF QueueInv, TreeInv, HolderInv, At, Dispatched,
    Before, Waits, Busy
<1>17. CheckInv' BY <1>2, <1>3, Frames, <1>1 DEF CheckInv, Kids, Outside
<1>18. PassedInv' BY <1>2, <1>3, Frames DEF PassedInv, Adrift, Kids
<1>19. ParentInv' BY <1>2, <1>3, Frames DEF ParentInv, TreeInv, At, HoldsParent, Dispatched
<1>20. MainInv' BY <1>2, <1>3, Frames DEF MainInv, Kids
<1>21. AliveInv' BY DEF Clear, AliveInv, Dispatched, Alive
<1> QED BY <1>4, <1>5, <1>6, <1>7, <1>8, <1>9, <1>10, <1>11, <1>12, <1>13, <1>14, <1>15,
  <1>16, <1>17, <1>18, <1>19, <1>20, <1>21

\* operator= is about to drop the handle of an object, and leaves the flag.
LEMMA AssignKeeps ==
  ASSUME IInv, NEW p \in Frame, NEW c \in Task, Assign(p,c)
  PROVE  IInv'
<1>1. /\ holder \in [Frame -> {"none", "main", "awaiter", "object", "get", "cleared"}]
      /\ co \in [Frame -> Label]
      /\ at \in [Frame -> Task \cup {None}]
      /\ barrier_queue \subseteq Frame
  BY DEF TypeOK
<1>2. /\ co[p] \in {"running", "returned"} /\ co'[p] = "release" /\ par[c] = p
          /\ holder[c] = "object"
      /\ at'[p] = c /\ holder'[c] = "cleared"
      /\ \A u \in Frame : u # p => co'[u] = co[u] /\ at'[u] = at[u]
      /\ \A u \in Frame : u # c => holder'[u] = holder[u]
      /\ UNCHANGED <<next, form, par, resReady, workingState, continuationHandle, refs,
          coroOutsideTask, result, parent, pool_p, frame, tokens, tail, barrier_queue,
              checking, mpc>>
  BY <1>1, Frames DEF Assign, Objects
<1>3. /\ c < next /\ c # p /\ form[c].kind \in {"async", "sync"}
      /\ form[p].kind # "barrier" /\ tokens[p] = 0 /\ (workingState[c] = 2 => co[c] = "done")
  <2>1. c < next BY <1>2, Frames DEF FreshInv, Dispatched
  <2>2. c # p /\ form[p].kind # "barrier" BY <1>2, <2>1, Frames DEF TreeInv, Dispatched
  <2>3. form[c].kind \in {"async", "sync"}
    <3>1. form[c] \in Form BY Frames DEF TypeOK
    <3>2. form[c].kind # "barrier" BY <1>2, <2>1 DEF HolderInv, Dispatched
    <3> QED BY <3>1, <3>2 DEF Form
  <2>4. workingState[c] = 2 => co[c] = "done" BY <1>2, <2>1 DEF ContinuationInv, At, Dispatched
  <2>5. tokens[p] = 0 BY <1>2 DEF TypeOK, TokenInv, Waits
  <2> QED BY <2>1, <2>2, <2>3, <2>4, <2>5
<1>4. TypeOK' BY <1>3, Frames DEF Assign, TypeOK, Objects, Label, Waits, Busy
<1>5. FreshInv' BY <1>2, <1>3, Frames DEF FreshInv, TreeInv, Dispatched
<1>6. RootInv' BY <1>2, <1>3, Frames DEF RootInv
<1>7. TreeInv' BY <1>2, <1>3, Frames DEF TreeInv, Dispatched
<1>8. BusyInv' BY <1>2, <1>3, Frames DEF BusyInv, TreeInv, With, Dispatched
<1>9. HolderInv'
  BY <1>2, <1>3, Frames DEF HolderInv, TreeInv, At, Dispatched, Before, Waits, Busy
<1>10. WorkInv' BY <1>2, <1>3, Frames DEF WorkInv, Dispatched, Ended
<1>11. ContinuationInv'
  BY <1>2, <1>3, Frames DEF ContinuationInv, TreeInv, At, Dispatched, Before, Ended
<1>12. TokenInv'
  BY <1>2, <1>3, Frames DEF TokenInv, TreeInv, BusyInv, Ended, Waits, Dispatched,
    With
<1>13. StartInv'
  BY <1>2, <1>3, Frames DEF StartInv, TreeInv, At, Unstarted, Dispatched, Before
<1>14. TailInv' BY <1>2, <1>3, Frames DEF TailInv, TreeInv, At, Dispatched
<1>15. RefsInv' BY <1>2, <1>3, Frames DEF RefsInv, Dispatched, Self, Outside, Kids
<1>16. QueueInv'
  BY <1>2, <1>3, Frames, <1>1 DEF QueueInv, TreeInv, HolderInv, At, Dispatched,
    Before, Waits, Busy
<1>17. CheckInv' BY <1>2, <1>3, Frames, <1>1 DEF CheckInv, Kids, Outside
<1>18. PassedInv' BY <1>2, <1>3, Frames DEF PassedInv, Adrift, Kids
<1>19. ParentInv' BY <1>2, <1>3, Frames DEF ParentInv, TreeInv, At, HoldsParent, Dispatched
<1>20. MainInv' BY <1>2, <1>3, Frames DEF MainInv, Kids
<1>21. AliveInv' BY DEF Assign, AliveInv, Dispatched, Alive
<1> QED BY <1>4, <1>5, <1>6, <1>7, <1>8, <1>9, <1>10, <1>11, <1>12, <1>13, <1>14, <1>15,
  <1>16, <1>17, <1>18, <1>19, <1>20, <1>21

\* The handle goes: refs counts Outside down, to 0 only if nothing else is left.
LEMMA ReleaseKeeps ==
  ASSUME IInv, NEW p \in Frame, Release(p)
  PROVE  IInv'
<1>1. /\ refs \in [Frame -> 0..(NumTasks + 2)]
      /\ frame \in [Frame -> {"none", "alive", "dying", "released", "freed"}]
      /\ holder \in [Frame -> {"none", "main", "awaiter", "object", "get", "cleared"}]
      /\ co \in [Frame -> Label]
      /\ barrier_queue \subseteq Frame
  BY DEF TypeOK
<1>2. /\ co[p] = "release" /\ co'[p] = IF refs[at[p]] = 1 THEN "destroys"
          ELSE IF result[p] THEN "returned" ELSE "running"
      /\ \A u \in Frame : u # p => co'[u] = co[u]
      /\ at[p] \in Frame => /\ refs'[at[p]] = refs[at[p]] - 1 /\ holder'[at[p]] = "none"
                          /\ IF refs[at[p]] = 1 THEN frame'[at[p]] \in {"dying",
                              "released"} ELSE frame'[at[p]] = frame[at[p]]
      /\ \A u \in Frame : u # at[p] => refs'[u] = refs[u] /\ holder'[u] = holder[u]
          /\ frame'[u] = frame[u]
      /\ UNCHANGED <<next, form, par, resReady, workingState, continuationHandle,
          coroOutsideTask, result, parent, pool_p, at, tokens, tail, barrier_queue,
              checking, mpc>>
  BY <1>1, Frames DEF Release, DropRef, Dying, BodyOf
<1>3. /\ at[p] \in Task /\ at[p] < next /\ par[at[p]] = p /\ at[p] # p
          /\ holder[at[p]] = "cleared" /\ form[at[p]].kind \in {"async", "sync"}
      /\ refs[at[p]] \in Nat /\ refs[at[p]] > 0 /\ frame[at[p]] = "alive" /\ tokens[p] = 0
  BY <1>2, Frames, Counted DEF TypeOK, TreeInv, Dispatched, BusyInv, With, TokenInv,
    Ended, Waits, Alive, Outside, Self
<1>4. \A q \in Frame : Kids(q)' = Kids(q) /\ Cardinality(Kids(q)) \in Nat
  <2>1. \A c \in Task : frame'[c] = "freed" <=> frame[c] = "freed" BY <1>2, <1>3, Frames
  <2>2. \A q \in Frame : Kids(q)' = Kids(q) BY <2>1, <1>2 DEF Kids
  <2> QED BY <2>2, KidsNat
<1>5. TypeOK'
  <2>1. refs' \in [Frame -> 0..(NumTasks + 2)]
    BY <1>1, <1>3, Frames, NumTasksAssumption DEF Release, DropRef, Dying, BodyOf
  <2>2. frame' \in [Frame -> {"none", "alive", "dying", "released", "freed"}]
    BY <1>1, <1>3, Frames, NumTasksAssumption DEF Release, DropRef, Dying, BodyOf
  <2>3. holder' \in [Frame -> {"none", "main", "awaiter", "object", "get", "cleared"}]
    BY <1>1, <1>3, Frames, NumTasksAssumption DEF Release, DropRef, Dying, BodyOf
  <2>4. co' \in [Frame -> Label]
    BY <1>1, <1>3, Frames, NumTasksAssumption DEF Release, DropRef, Dying, BodyOf, Label,
        Waits, Busy
  <2> QED BY <1>2, <2>1, <2>2, <2>3, <2>4 DEF TypeOK
<1>6. FreshInv' BY <1>2, <1>3, Frames DEF FreshInv, TreeInv, Dispatched
<1>7. RootInv' BY <1>2, <1>3, Frames DEF RootInv
<1>8. TreeInv' BY <1>2, <1>3, Frames DEF TreeInv, Dispatched
<1>9. BusyInv' BY <1>2, <1>3, Frames DEF BusyInv, TreeInv, With, Dispatched
<1>10. HolderInv'
  BY <1>2, <1>3, Frames DEF HolderInv, TreeInv, At, Dispatched, Before, Waits, Busy
<1>11. WorkInv' BY <1>2, <1>3, Frames DEF WorkInv, Dispatched, Ended
<1>12. ContinuationInv'
  BY <1>2, <1>3, Frames DEF ContinuationInv, TreeInv, At, Dispatched, Before, Ended
<1>13. TokenInv'
  BY <1>2, <1>3, Frames DEF TokenInv, TreeInv, BusyInv, Ended, Waits, Dispatched,
    With
<1>14. StartInv'
  BY <1>2, <1>3, Frames DEF StartInv, TreeInv, At, Unstarted, Dispatched, Before
<1>15. TailInv' BY <1>2, <1>3, Frames DEF TailInv, TreeInv, At, Dispatched
<1>16. RefsInv'
  <2> SUFFICES ASSUME NEW q \in Frame, q < next
               PROVE  refs'[q] = Self(q)' + Outside(q)' + Cardinality(Kids(q))
    BY <1>2, <1>4 DEF RefsInv, Dispatched
  <2>2. refs[q] = Self(q) + Outside(q) + Cardinality(Kids(q))
      /\ Cardinality(Kids(q)) \in Nat
    BY KidsNat DEF RefsInv, Dispatched
  <2>3. Self(q)' = Self(q) /\ Self(q) \in {0, 1} /\ Outside(q) \in {0, 1}
    BY <1>2 DEF Self, Outside
  <2>4. CASE q = at[p]
    <3>1. Outside(q) = 1 /\ Outside(q)' = 0 /\ refs'[q] = refs[q] - 1
      BY <2>4, <1>2, <1>3, Frames DEF Outside
    <3> QED BY <3>1, <2>2, <2>3
  <2>5. CASE q # at[p]
    <3>1. Outside(q)' = Outside(q) /\ refs'[q] = refs[q] BY <2>5, <1>2 DEF Outside
    <3> QED BY <3>1, <2>2, <2>3
  <2> QED BY <2>4, <2>5
<1>17. AliveInv' BY <1>2, <1>3, Frames DEF AliveInv, Dispatched, Alive
<1>18. QueueInv'
  BY <1>2, <1>3, Frames, <1>1 DEF QueueInv, TreeInv, HolderInv, At, Dispatched,
    Before, Waits, Busy
<1>19. CheckInv' BY <1>2, <1>3, <1>4, Frames, <1>1 DEF CheckInv, Outside
<1>20. PassedInv' BY <1>2, <1>3, <1>4, Frames DEF PassedInv, Adrift
<1>21. ParentInv' BY <1>2, <1>3, Frames DEF ParentInv, TreeInv, At, HoldsParent, Dispatched
<1>22. MainInv' BY <1>2, <1>3, <1>4, Frames DEF MainInv
<1> QED BY <1>5, <1>6, <1>7, <1>8, <1>9, <1>10, <1>11, <1>12, <1>13, <1>14, <1>15, <1>16,
  <1>17, <1>18, <1>19, <1>20, <1>21, <1>22

\* The Task object of await_suspend of a barrier clears the flag.
LEMMA BarrierClearKeeps ==
  ASSUME IInv, NEW t \in Frame, BarrierClear(t)
  PROVE  IInv'
<1>1. /\ coroOutsideTask \in [Frame -> BOOLEAN]
      /\ holder \in [Frame -> {"none", "main", "awaiter", "object", "get", "cleared"}]
      /\ barrier_queue \subseteq Frame
  BY DEF TypeOK
<1>2. /\ form[t].kind = "barrier" /\ holder[t] = "awaiter" /\ holder'[t] = "cleared"
      /\ coroOutsideTask'[t] = FALSE
      /\ \A u \in Frame : u # t => holder'[u] = holder[u]
          /\ coroOutsideTask'[u] = coroOutsideTask[u]
      /\ UNCHANGED <<next, form, par, resReady, workingState, continuationHandle, refs,
          result, parent, pool_p, frame, co, at, tokens, tail, barrier_queue, checking,
              mpc>>
  BY <1>1, Frames DEF BarrierClear
<1>3. /\ t \in Task /\ t < next /\ form[t].kind = "barrier" /\ tail[t] = "none"
          /\ co[t] \in {"waiting", "running", "returned", "final", "done"}
  BY <1>2, Frames DEF FreshInv, Dispatched, RootInv, TreeInv, HolderInv, At, Before,
    Waits, Busy, TailInv, RootForm
<1>4. TypeOK' BY <1>3, Frames DEF BarrierClear, TypeOK, Label, Waits, Busy
<1>5. FreshInv' BY <1>2, <1>3, Frames DEF FreshInv, TreeInv, Dispatched
<1>6. RootInv' BY <1>2, <1>3, Frames DEF RootInv
<1>7. TreeInv' BY <1>2, <1>3, Frames DEF TreeInv, Dispatched
<1>8. BusyInv' BY <1>2, <1>3, Frames DEF BusyInv, TreeInv, With, Dispatched
<1>9. HolderInv'
  BY <1>2, <1>3, Frames DEF HolderInv, TreeInv, At, Dispatched, Before, Waits, Busy
<1>10. ContinuationInv'
  BY <1>2, <1>3, Frames DEF ContinuationInv, TreeInv, At, Dispatched, Before, Ended
<1>11. StartInv'
  BY <1>2, <1>3, Frames DEF StartInv, TreeInv, At, Unstarted, Dispatched, Before
<1>12. RefsInv' BY <1>2, <1>3, Frames DEF RefsInv, Dispatched, Self, Outside, Kids
<1>13. CheckInv' BY <1>2, <1>3, Frames, <1>1 DEF CheckInv, Kids, Outside
<1>14. PassedInv' BY <1>2, <1>3, Frames DEF PassedInv, Adrift, Kids
<1>15. WorkInv' /\ TokenInv' /\ TailInv' /\ AliveInv' /\ QueueInv'
  BY DEF BarrierClear, WorkInv, TokenInv, TailInv, AliveInv, QueueInv, Dispatched,
    Ended, Waits, At, Alive
<1>16. ParentInv' /\ MainInv'
  BY DEF BarrierClear, ParentInv, MainInv, At, HoldsParent, Dispatched, Kids
<1> QED BY <1>4, <1>5, <1>6, <1>7, <1>8, <1>9, <1>10, <1>11, <1>12, <1>13, <1>14, <1>15,
  <1>16

\* It drops its handle, and a ready barrierTask is started.
LEMMA BarrierDropKeeps ==
  ASSUME IInv, NEW t \in Frame, BarrierDrop(t)
  PROVE  IInv'
<1>1. /\ refs \in [Frame -> 0..(NumTasks + 2)]
      /\ frame \in [Frame -> {"none", "alive", "dying", "released", "freed"}]
      /\ holder \in [Frame -> {"none", "main", "awaiter", "object", "get", "cleared"}]
      /\ tokens \in [Frame -> 0..2]
      /\ barrier_queue \subseteq Frame
  BY DEF TypeOK
<1>2. /\ form[t].kind = "barrier" /\ holder[t] = "cleared" /\ holder'[t] = "none"
      /\ refs'[t] = refs[t] - 1 /\ IF refs[t] = 1 THEN frame'[t] \in {"dying",
          "released"} ELSE frame'[t] = frame[t]
      /\ tokens'[t] = IF resReady[t] THEN tokens[t] + 1 ELSE tokens[t]
      /\ \A u \in Frame : u # t => refs'[u] = refs[u] /\ holder'[u] = holder[u]
          /\ frame'[u] = frame[u] /\ tokens'[u] = tokens[u]
      /\ UNCHANGED <<next, form, par, resReady, workingState, continuationHandle,
          coroOutsideTask, result, parent, pool_p, co, at, tail, barrier_queue, checking,
              mpc>>
  BY <1>1, Frames DEF BarrierDrop, DropRef, Dying
<1>3. /\ t \in Task /\ t < next /\ form[t].kind = "barrier" /\ tail[t] = "none"
          /\ co[t] \in {"waiting", "running", "returned", "final", "done"}
      /\ refs[t] \in Nat /\ refs[t] > 0 /\ frame[t] = "alive"
      /\ resReady[t] => co[t] = "waiting" /\ tokens[t] = 0
  BY <1>2, Frames, Counted DEF TypeOK, FreshInv, Dispatched, RootInv, TreeInv,
    HolderInv, At, Before, Waits, Busy, TailInv, StartInv, Unstarted, RootForm, Alive,
    Outside, Self
<1>4. \A q \in Frame : Kids(q)' = Kids(q) /\ Cardinality(Kids(q)) \in Nat
  <2>1. \A c \in Task : frame'[c] = "freed" <=> frame[c] = "freed" BY <1>2, <1>3, Frames
  <2>2. \A q \in Frame : Kids(q)' = Kids(q) BY <2>1, <1>2 DEF Kids
  <2> QED BY <2>2, KidsNat
<1>5. TypeOK'
  <2>1. refs' \in [Frame -> 0..(NumTasks + 2)]
    BY <1>1, <1>3, Frames, NumTasksAssumption DEF BarrierDrop, DropRef, Dying
  <2>2. frame' \in [Frame -> {"none", "alive", "dying", "released", "freed"}]
    BY <1>1, <1>3, Frames, NumTasksAssumption DEF BarrierDrop, DropRef, Dying
  <2>3. holder' \in [Frame -> {"none", "main", "awaiter", "object", "get", "cleared"}]
    BY <1>1, <1>3, Frames, NumTasksAssumption DEF BarrierDrop, DropRef, Dying
  <2>4. tokens' \in [Frame -> 0..2]
    BY <1>1, <1>3, Frames, NumTasksAssumption DEF BarrierDrop, DropRef, Dying
  <2> QED BY <1>2, <2>1, <2>2, <2>3, <2>4 DEF TypeOK
<1>6. FreshInv' BY <1>2, <1>3, Frames DEF FreshInv, TreeInv, Dispatched
<1>7. RootInv' BY <1>2, <1>3, Frames DEF RootInv
<1>8. TreeInv' BY <1>2, <1>3, Frames DEF TreeInv, Dispatched
<1>9. BusyInv' BY <1>2, <1>3, Frames DEF BusyInv, TreeInv, With, Dispatched
<1>10. HolderInv'
  BY <1>2, <1>3, Frames DEF HolderInv, TreeInv, At, Dispatched, Before, Waits, Busy
<1>11. ContinuationInv'
  BY <1>2, <1>3, Frames DEF ContinuationInv, TreeInv, At, Dispatched, Before, Ended
<1>12. TokenInv'
  BY <1>2, <1>3, Frames DEF TokenInv, TreeInv, BusyInv, Ended, Waits, Dispatched,
    With
<1>13. StartInv'
  BY <1>2, <1>3, Frames DEF StartInv, TreeInv, At, Unstarted, Dispatched, Before
<1>14. TailInv' BY <1>2, <1>3, Frames DEF TailInv, TreeInv, At, Dispatched
<1>15. RefsInv' BY <1>2, <1>3, <1>4, Frames DEF RefsInv, Dispatched, Self, Outside
<1>16. AliveInv' BY <1>2, <1>3, Frames DEF AliveInv, Dispatched, Alive
<1>17. QueueInv'
  BY <1>2, <1>3, Frames, <1>1 DEF QueueInv, TreeInv, HolderInv, At, Dispatched,
    Before, Waits, Busy
<1>18. CheckInv' BY <1>2, <1>3, <1>4, Frames, <1>1 DEF CheckInv, Outside
<1>19. PassedInv' BY <1>2, <1>3, <1>4, Frames DEF PassedInv, Adrift
<1>20. MainInv' BY <1>2, <1>3, <1>4, Frames DEF MainInv
<1>21. WorkInv' /\ ParentInv'
  BY DEF BarrierDrop, WorkInv, ParentInv, Dispatched, Ended, At, HoldsParent
<1> QED BY <1>5, <1>6, <1>7, <1>8, <1>9, <1>10, <1>11, <1>12, <1>13, <1>14, <1>15, <1>16,
  <1>17, <1>18, <1>19, <1>20, <1>21

\* barrierTask puts the coroutine that waits for it into the queue.
LEMMA EnterBarrierKeeps ==
  ASSUME IInv, NEW t \in Frame, EnterBarrier(t)
  PROVE  IInv'
<1>1. /\ result \in [Frame -> BOOLEAN]
      /\ co \in [Frame -> Label]
      /\ barrier_queue \subseteq Frame
  BY DEF TypeOK
<1>2. /\ co[t] = "running" /\ form[t].kind = "barrier" /\ checking[1] = None
          /\ co'[t] = "returned"
      /\ result'[t] = TRUE
      /\ barrier_queue' = barrier_queue \cup {par[t]}
      /\ \A u \in Frame : u # t => co'[u] = co[u] /\ result'[u] = result[u]
      /\ UNCHANGED <<next, form, par, resReady, workingState, continuationHandle, refs,
          coroOutsideTask, parent, pool_p, frame, holder, at, tokens, tail, checking, mpc>>
  BY <1>1, Frames DEF EnterBarrier, Running
<1>3. /\ t \in Task /\ t < next /\ form[t].kind = "barrier" /\ tail[t] = "none"
          /\ co[t] \in {"waiting", "running", "returned", "final", "done"}
      /\ par[t] \in Frame /\ par[t] # t /\ at[par[t]] = t /\ co[par[t]] = "waitsBarrier"
          /\ tokens[par[t]] = 0 /\ tokens[t] = 0
  <2>1. t \in Task /\ t < next
    BY <1>2, Frames DEF FreshInv, RootInv, RootForm, Dispatched
  <2>2. tail[t] = "none" /\ co[t] \in {"waiting", "running", "returned", "final", "done"}
    BY <1>2, <2>1 DEF TailInv, HolderInv, Dispatched
  <2>3. par[t] \in Frame /\ par[t] # t BY <2>1, Frames DEF TreeInv, Dispatched
  <2>4. at[par[t]] = t /\ co[par[t]] = "waitsBarrier" /\ tokens[par[t]] = 0
    BY <1>2, <2>1 DEF QueueInv, At, Dispatched
  <2>5. tokens[t] = 0 BY <1>2 DEF TypeOK, TokenInv, Waits
  <2> QED BY <1>2, <2>1, <2>2, <2>3, <2>4, <2>5
<1>4. TypeOK' BY <1>3, Frames DEF EnterBarrier, TypeOK, Running, Label, Waits, Busy
<1>5. FreshInv' BY <1>2, <1>3, Frames DEF FreshInv, TreeInv, Dispatched
<1>6. RootInv' BY <1>2, <1>3, Frames DEF RootInv
<1>7. TreeInv' BY <1>2, <1>3, Frames DEF TreeInv, Dispatched
<1>8. BusyInv' BY <1>2, <1>3, Frames DEF BusyInv, TreeInv, With, Dispatched
<1>9. HolderInv'
  BY <1>2, <1>3, Frames DEF HolderInv, TreeInv, At, Dispatched, Before, Waits, Busy
<1>10. WorkInv' BY <1>2, <1>3, Frames DEF WorkInv, Dispatched, Ended
<1>11. ContinuationInv'
  BY <1>2, <1>3, Frames DEF ContinuationInv, TreeInv, At, Dispatched, Before, Ended
<1>12. TokenInv'
  BY <1>2, <1>3, Frames DEF TokenInv, TreeInv, BusyInv, Ended, Waits, Dispatched,
    With
<1>13. StartInv'
  BY <1>2, <1>3, Frames DEF StartInv, TreeInv, At, Unstarted, Dispatched, Before
<1>14. TailInv' BY <1>2, <1>3, Frames DEF TailInv, TreeInv, At, Dispatched
<1>15. RefsInv' BY <1>2, <1>3, Frames DEF RefsInv, Dispatched, Self, Outside, Kids
<1>16. QueueInv'
  BY <1>2, <1>3, Frames, <1>1 DEF QueueInv, TreeInv, HolderInv, At, Dispatched,
    Before, Waits, Busy
<1>17. CheckInv' BY <1>2, <1>3, Frames, <1>1 DEF CheckInv, Kids, Outside
<1>18. PassedInv' BY <1>2, <1>3, Frames DEF PassedInv, Adrift, Kids
<1>19. ParentInv' BY <1>2, <1>3, Frames DEF ParentInv, TreeInv, At, HoldsParent, Dispatched
<1>20. MainInv' BY <1>2, <1>3, Frames DEF MainInv, Kids
<1>21. AliveInv' BY DEF EnterBarrier, AliveInv, Dispatched, Alive
<1> QED BY <1>4, <1>5, <1>6, <1>7, <1>8, <1>9, <1>10, <1>11, <1>12, <1>13, <1>14, <1>15,
  <1>16, <1>17, <1>18, <1>19, <1>20, <1>21

\* The use count is read: at least 2, if a child is left, beside the return object.
LEMMA CheckBarrierKeeps ==
  ASSUME IInv, NEW p \in Frame, CheckBarrier(p)
  PROVE  IInv'
<1>1. /\ barrier_queue \subseteq Frame
  BY DEF TypeOK
<1>2. /\ checking[1] = None /\ p \in barrier_queue
      /\ checking'[1] = p /\ checking'[2] = refs[p]
      /\ UNCHANGED <<next, form, par, resReady, workingState, continuationHandle, refs,
          coroOutsideTask, result, parent, pool_p, frame, holder, co, at, tokens, tail,
              barrier_queue, mpc>>
  BY <1>1, Frames DEF CheckBarrier
<1>3. /\ p < next /\ co[p] = "waitsBarrier" /\ refs[p] \in Nat
      /\ Kids(p) # {} => refs[p] >= 2 + Outside(p)
  <2>1. p < next /\ co[p] = "waitsBarrier"
    BY <1>1, <1>2, Frames DEF QueueInv, FreshInv, Dispatched
  <2>2. /\ refs[p] \in Nat /\ refs[p] = Self(p) + Outside(p) + Cardinality(Kids(p))
        /\ Kids(p) = {} <=> Cardinality(Kids(p)) = 0
    BY <2>1, Counted DEF Dispatched
  <2>3. Self(p) = 1 /\ Outside(p) \in {0, 1} BY <2>1 DEF Self, Outside
  <2> QED BY <2>1, <2>2, <2>3, KidsNat
<1>4. TypeOK' BY <1>3, Frames DEF CheckBarrier, TypeOK, Label, Waits, Busy
<1>5. CheckInv'
  BY <1>2, <1>3, Frames, <1>1 DEF CheckInv, QueueInv, Kids, Outside, At, Dispatched
<1>6. FreshInv' /\ RootInv' /\ TreeInv' /\ BusyInv' /\ HolderInv'
  BY DEF CheckBarrier, FreshInv, RootInv, TreeInv, BusyInv, HolderInv, Dispatched,
    With, At, Before, Waits, Busy
<1>7. WorkInv' /\ ContinuationInv' /\ TokenInv' /\ StartInv' /\ TailInv'
  BY DEF CheckBarrier, WorkInv, ContinuationInv, TokenInv, StartInv, TailInv,
    Dispatched, Ended, At, Before, Waits, Unstarted
<1>8. RefsInv' /\ AliveInv' /\ QueueInv' /\ PassedInv' /\ ParentInv'
  BY DEF CheckBarrier, RefsInv, AliveInv, QueueInv, PassedInv, ParentInv, Dispatched,
    Self, Outside, Kids, Alive, At, Adrift, HoldsParent
<1>9. MainInv' BY DEF CheckBarrier, MainInv, Kids
<1> QED BY <1>4, <1>5, <1>6, <1>7, <1>8, <1>9

\* Count and flag let a coroutine go on: no child is left, or the flag was left set.
LEMMA PassBarrierKeeps ==
  ASSUME IInv, PassBarrier
  PROVE  IInv'
<1>1. /\ tokens \in [Frame -> 0..2]
      /\ barrier_queue \subseteq Frame
  BY DEF TypeOK
<1>2. /\ checking[1] # None /\ checking'[1] = None
      /\ checking[1] \in Frame /\ ChildrenDone(checking[1], checking[2]) =>
          tokens'[checking[1]] = tokens[checking[1]] + 1
              /\ barrier_queue' = barrier_queue \ {checking[1]}
      /\ ~ ChildrenDone(checking[1], checking[2]) => tokens' = tokens
          /\ barrier_queue' = barrier_queue
      /\ \A u \in Frame : u # checking[1] => tokens'[u] = tokens[u]
      /\ UNCHANGED <<next, form, par, resReady, workingState, continuationHandle, refs,
          coroOutsideTask, result, parent, pool_p, frame, holder, co, at, tail, mpc>>
  BY <1>1, Frames DEF PassBarrier
<1>3. /\ checking[1] \in barrier_queue /\ checking[1] \in Frame
          /\ co[checking[1]] = "waitsBarrier" /\ tokens[checking[1]] = 0
              /\ checking[2] \in Nat
  BY <1>2, Frames DEF TypeOK, CheckInv, Kids, Outside, QueueInv, At, Dispatched
<1>4. TypeOK'
  <2>1. tokens' \in [Frame -> 0..2] BY <1>1, <1>3 DEF PassBarrier
  <2>2. barrier_queue' \subseteq Frame BY <1>1 DEF PassBarrier
  <2>3. checking' \in (Frame \cup {None}) \X (0..(NumTasks + 2))
    BY NumTasksAssumption DEF PassBarrier
  <2> QED BY <1>2, <2>1, <2>2, <2>3 DEF TypeOK
<1>5. FreshInv' BY <1>2, <1>3, Frames DEF FreshInv, TreeInv, Dispatched
<1>6. ContinuationInv'
  BY <1>2, <1>3, Frames DEF ContinuationInv, TreeInv, At, Dispatched, Before, Ended
<1>7. TokenInv'
  BY <1>2, <1>3, Frames DEF TokenInv, TreeInv, BusyInv, Ended, Waits, Dispatched,
    With
<1>8. StartInv'
  BY <1>2, <1>3, Frames DEF StartInv, TreeInv, At, Unstarted, Dispatched, Before
<1>9. TailInv' BY <1>2, <1>3, Frames DEF TailInv, TreeInv, At, Dispatched
<1>10. QueueInv'
  BY <1>2, <1>3, Frames, <1>1 DEF QueueInv, TreeInv, HolderInv, At, Dispatched,
    Before, Waits, Busy
<1>11. CheckInv' BY <1>2, <1>3, Frames, <1>1 DEF CheckInv, Kids, Outside
<1>12. PassedInv'
  BY <1>2, <1>3, Frames DEF PassedInv, CheckInv, Adrift, Kids, Outside, ChildrenDone
<1>13. RootInv' /\ TreeInv' /\ BusyInv' /\ HolderInv' /\ WorkInv'
  BY DEF PassBarrier, RootInv, TreeInv, BusyInv, HolderInv, WorkInv, Dispatched, With,
    At, Before, Waits, Busy, Ended
<1>14. RefsInv' /\ AliveInv' /\ ParentInv' /\ MainInv'
  BY DEF PassBarrier, RefsInv, AliveInv, ParentInv, MainInv, Dispatched, Self,
    Outside, Kids, Alive, At, HoldsParent
<1> QED BY <1>4, <1>5, <1>6, <1>7, <1>8, <1>9, <1>10, <1>11, <1>12, <1>13, <1>14

\* A body writes its result.
LEMMA ReturnKeeps ==
  ASSUME IInv, NEW p \in Frame, Return(p)
  PROVE  IInv'
<1>1. /\ result \in [Frame -> BOOLEAN]
      /\ co \in [Frame -> Label]
      /\ barrier_queue \subseteq Frame
  BY DEF TypeOK
<1>2. /\ co[p] = "running" /\ form[p].kind # "barrier" /\ co'[p] = "returned"
      /\ result'[p] = TRUE
      /\ \A u \in Frame : u # p => co'[u] = co[u] /\ result'[u] = result[u]
      /\ UNCHANGED <<next, form, par, resReady, workingState, continuationHandle, refs,
          coroOutsideTask, parent, pool_p, frame, holder, at, tokens, tail, barrier_queue,
              checking, mpc>>
  BY <1>1, Frames DEF Return, Running
<1>3. TypeOK' BY Frames DEF Return, TypeOK, Running, Label, Waits, Busy
<1>4. FreshInv' BY <1>2, Frames DEF FreshInv, TreeInv, Dispatched
<1>5. RootInv' BY <1>2, Frames DEF RootInv
<1>6. TreeInv' BY <1>2, Frames DEF TreeInv, Dispatched
<1>7. BusyInv' BY <1>2, Frames DEF BusyInv, TreeInv, With, Dispatched
<1>8. HolderInv' BY <1>2, Frames DEF HolderInv, TreeInv, At, Dispatched, Before, Waits, Busy
<1>9. WorkInv' BY <1>2, Frames DEF WorkInv, Dispatched, Ended
<1>10. ContinuationInv'
  BY <1>2, Frames DEF ContinuationInv, TreeInv, At, Dispatched, Before, Ended
<1>11. TokenInv'
  BY <1>2, Frames DEF TokenInv, TreeInv, BusyInv, Ended, Waits, Dispatched, With
<1>12. StartInv' BY <1>2, Frames DEF StartInv, TreeInv, At, Unstarted, Dispatched, Before
<1>13. TailInv' BY <1>2, Frames DEF TailInv, TreeInv, At, Dispatched
<1>14. RefsInv' BY <1>2, Frames DEF RefsInv, Dispatched, Self, Outside, Kids
<1>15. QueueInv'
  BY <1>2, Frames, <1>1 DEF QueueInv, TreeInv, HolderInv, At, Dispatched, Before,
    Waits, Busy
<1>16. PassedInv' BY <1>2, Frames DEF PassedInv, Adrift, Kids
<1>17. ParentInv' BY <1>2, Frames DEF ParentInv, TreeInv, At, HoldsParent, Dispatched
<1>18. MainInv' BY <1>2, Frames DEF MainInv, Kids
<1>19. AliveInv' /\ CheckInv'
  BY DEF Return, AliveInv, CheckInv, Dispatched, Alive, Kids, Outside
<1> QED BY <1>3, <1>4, <1>5, <1>6, <1>7, <1>8, <1>9, <1>10, <1>11, <1>12, <1>13, <1>14,
  <1>15, <1>16, <1>17, <1>18, <1>19

\* A task that nobody awaits is marked as done.
LEMMA FinalSuspendKeeps ==
  ASSUME IInv, NEW p \in Frame, FinalSuspend(p)
  PROVE  IInv'
<1>1. /\ workingState \in [Frame -> 0..2]
      /\ co \in [Frame -> Label]
      /\ barrier_queue \subseteq Frame
  BY DEF TypeOK
<1>2. /\ co[p] = "returned" /\ Objects(p) = {} /\ co'[p] = "final"
      /\ workingState'[p] = IF workingState[p] = 1 THEN 0 ELSE workingState[p]
      /\ \A u \in Frame : u # p => co'[u] = co[u] /\ workingState'[u] = workingState[u]
      /\ UNCHANGED <<next, form, par, resReady, continuationHandle, refs, coroOutsideTask,
          result, parent, pool_p, frame, holder, at, tokens, tail, barrier_queue, checking,
              mpc>>
  BY <1>1, Frames DEF FinalSuspend
<1>3. TypeOK' BY Frames DEF FinalSuspend, TypeOK, Label, Waits, Busy
<1>4. FreshInv' BY <1>2, Frames DEF FreshInv, TreeInv, Dispatched
<1>5. RootInv' BY <1>2, Frames DEF RootInv
<1>6. TreeInv' BY <1>2, Frames DEF TreeInv, Dispatched
<1>7. BusyInv' BY <1>2, Frames DEF BusyInv, TreeInv, With, Dispatched
<1>8. HolderInv'
  BY <1>2, Frames DEF HolderInv, TreeInv, At, Dispatched, Before, Waits, Busy,
    Objects
<1>9. WorkInv' BY <1>2, Frames DEF WorkInv, Dispatched, Ended
<1>10. ContinuationInv'
  BY <1>2, Frames DEF ContinuationInv, TreeInv, At, Dispatched, Before, Ended
<1>11. TokenInv'
  BY <1>2, Frames DEF TokenInv, TreeInv, BusyInv, Ended, Waits, Dispatched, With
<1>12. StartInv' BY <1>2, Frames DEF StartInv, TreeInv, At, Unstarted, Dispatched, Before
<1>13. TailInv' BY <1>2, Frames DEF TailInv, TreeInv, At, Dispatched
<1>14. RefsInv' BY <1>2, Frames DEF RefsInv, Dispatched, Self, Outside, Kids
<1>15. QueueInv'
  BY <1>2, Frames, <1>1 DEF QueueInv, TreeInv, HolderInv, At, Dispatched, Before,
    Waits, Busy
<1>16. PassedInv' BY <1>2, Frames DEF PassedInv, Adrift, Kids
<1>17. ParentInv' BY <1>2, Frames DEF ParentInv, TreeInv, At, HoldsParent, Dispatched
<1>18. MainInv' BY <1>2, Frames DEF MainInv, Kids
<1>19. AliveInv' /\ CheckInv'
  BY DEF FinalSuspend, AliveInv, CheckInv, Dispatched, Alive, Kids, Outside
<1> QED BY <1>3, <1>4, <1>5, <1>6, <1>7, <1>8, <1>9, <1>10, <1>11, <1>12, <1>13, <1>14,
  <1>15, <1>16, <1>17, <1>18, <1>19

\* self goes, and with it the last of what the coroutine itself counts for.
LEMMA FinalDeleteKeeps ==
  ASSUME IInv, NEW p \in Frame, FinalDelete(p)
  PROVE  IInv'
<1>1. /\ refs \in [Frame -> 0..(NumTasks + 2)]
      /\ frame \in [Frame -> {"none", "alive", "dying", "released", "freed"}]
      /\ co \in [Frame -> Label]
      /\ barrier_queue \subseteq Frame
  BY DEF TypeOK
<1>2. /\ co[p] = "final" /\ co'[p] = IF workingState[p] = 2 THEN "transfer" ELSE "done"
      /\ refs'[p] = refs[p] - 1 /\ IF refs[p] = 1 THEN frame'[p] \in {"dying",
          "released"} ELSE frame'[p] = frame[p]
      /\ \A u \in Frame : u # p => co'[u] = co[u] /\ refs'[u] = refs[u]
          /\ frame'[u] = frame[u]
      /\ UNCHANGED <<next, form, par, resReady, workingState, continuationHandle,
          coroOutsideTask, result, parent, pool_p, holder, at, tokens, tail, barrier_queue,
              checking, mpc>>
  BY <1>1, Frames DEF FinalDelete, DropRef, Dying, Continues
<1>3. /\ p < next /\ refs[p] \in Nat /\ refs[p] > 0 /\ frame[p] = "alive"
          /\ tokens[p] = 0 /\ workingState[p] # 1
  <2>1. p < next BY <1>2 DEF FreshInv, Dispatched
  <2>2. refs[p] \in Nat /\ refs[p] > 0 /\ frame[p] = "alive"
    BY <1>2, <2>1, Counted DEF Dispatched
  <2>3. tokens[p] = 0 BY <1>2 DEF TypeOK, TokenInv, Waits
  <2>4. workingState[p] # 1 BY <1>2, <2>1 DEF WorkInv, Dispatched, Ended
  <2> QED BY <2>1, <2>2, <2>3, <2>4
<1>4. \A q \in Frame : Kids(q)' = Kids(q) /\ Cardinality(Kids(q)) \in Nat
  <2>1. \A c \in Task : frame'[c] = "freed" <=> frame[c] = "freed" BY <1>2, <1>3, Frames
  <2>2. \A q \in Frame : Kids(q)' = Kids(q) BY <2>1, <1>2 DEF Kids
  <2> QED BY <2>2, KidsNat
<1>5. TypeOK'
  <2>1. refs' \in [Frame -> 0..(NumTasks + 2)]
    BY <1>1, <1>3, Frames, NumTasksAssumption DEF FinalDelete, DropRef, Dying, Continues
  <2>2. frame' \in [Frame -> {"none", "alive", "dying", "released", "freed"}]
    BY <1>1, <1>3, Frames, NumTasksAssumption DEF FinalDelete, DropRef, Dying, Continues
  <2>3. co' \in [Frame -> Label]
    BY <1>1, <1>3, Frames, NumTasksAssumption DEF FinalDelete, DropRef, Dying, Continues,
        Label, Waits, Busy
  <2> QED BY <1>2, <2>1, <2>2, <2>3 DEF TypeOK
<1>6. FreshInv' BY <1>2, <1>3, Frames DEF FreshInv, TreeInv, Dispatched
<1>7. RootInv' BY <1>2, <1>3, Frames DEF RootInv
<1>8. TreeInv' BY <1>2, <1>3, Frames DEF TreeInv, Dispatched
<1>9. BusyInv' BY <1>2, <1>3, Frames DEF BusyInv, TreeInv, With, Dispatched
<1>10. HolderInv'
  BY <1>2, <1>3, Frames DEF HolderInv, TreeInv, ContinuationInv, At, Dispatched,
    Before, Waits, Busy, Ended
<1>11. WorkInv' BY <1>2, <1>3, Frames DEF WorkInv, Dispatched, Ended
<1>12. ContinuationInv'
  BY <1>2, <1>3, Frames DEF ContinuationInv, TreeInv, At, Dispatched, Before, Ended
<1>13. TokenInv'
  BY <1>2, <1>3, Frames DEF TokenInv, TreeInv, BusyInv, Ended, Waits, Dispatched,
    With
<1>14. StartInv'
  BY <1>2, <1>3, Frames DEF StartInv, TreeInv, At, Unstarted, Dispatched, Before
<1>15. TailInv' BY <1>2, <1>3, Frames DEF TailInv, TreeInv, At, Dispatched
<1>16. RefsInv' BY <1>2, <1>3, <1>4, Frames DEF RefsInv, Dispatched, Self, Outside
<1>17. AliveInv' BY <1>2, <1>3, Frames DEF AliveInv, Dispatched, Alive
<1>18. QueueInv'
  BY <1>2, <1>3, Frames, <1>1 DEF QueueInv, TreeInv, HolderInv, At, Dispatched,
    Before, Waits, Busy
<1>19. CheckInv' BY <1>2, <1>3, <1>4, Frames, <1>1 DEF CheckInv, Outside
<1>20. PassedInv' BY <1>2, <1>3, <1>4, Frames DEF PassedInv, Adrift
<1>21. ParentInv' BY <1>2, <1>3, Frames DEF ParentInv, TreeInv, At, HoldsParent, Dispatched
<1>22. MainInv' BY <1>2, <1>3, <1>4, Frames DEF MainInv
<1> QED BY <1>5, <1>6, <1>7, <1>8, <1>9, <1>10, <1>11, <1>12, <1>13, <1>14, <1>15, <1>16,
  <1>17, <1>18, <1>19, <1>20, <1>21, <1>22

\* The task resumes the one coroutine that waits for it.
LEMMA TransferKeeps ==
  ASSUME IInv, NEW p \in Frame, Transfer(p)
  PROVE  IInv'
<1>1. /\ tokens \in [Frame -> 0..2]
      /\ co \in [Frame -> Label]
      /\ barrier_queue \subseteq Frame
  BY DEF TypeOK
<1>2. /\ co[p] = "transfer" /\ co'[p] = "done"
      /\ \A u \in Frame : u # p => co'[u] = co[u]
      /\ par[p] \in Frame => tokens'[par[p]] = tokens[par[p]] + 1
      /\ \A u \in Frame : u # par[p] => tokens'[u] = tokens[u]
      /\ UNCHANGED <<next, form, par, resReady, workingState, continuationHandle, refs,
          coroOutsideTask, result, parent, pool_p, frame, holder, at, tail, barrier_queue,
              checking, mpc>>
  BY <1>1, Frames DEF Transfer
<1>3. /\ p \in Task /\ p < next /\ par[p] \in Frame /\ par[p] < next /\ par[p] # p
          /\ result[p] /\ workingState[p] = 2
      /\ co[par[p]] \in {"waitsSync", "waitsGet"} /\ at[par[p]] = p
          /\ tokens[par[p]] = 0 /\ tokens[p] = 0
  BY <1>2, Frames DEF FreshInv, Dispatched, RootInv, TreeInv, TypeOK, WorkInv, Ended,
    ContinuationInv, At, Before, TokenInv, Waits
<1>4. TypeOK' BY <1>3, Frames DEF Transfer, TypeOK, Label, Waits, Busy
<1>5. FreshInv' BY <1>2, <1>3, Frames DEF FreshInv, TreeInv, Dispatched
<1>6. RootInv' BY <1>2, <1>3, Frames DEF RootInv
<1>7. TreeInv' BY <1>2, <1>3, Frames DEF TreeInv, Dispatched
<1>8. BusyInv' BY <1>2, <1>3, Frames DEF BusyInv, TreeInv, With, Dispatched
<1>9. HolderInv'
  BY <1>2, <1>3, Frames DEF HolderInv, TreeInv, At, Dispatched, Before, Waits, Busy
<1>10. WorkInv' BY <1>2, <1>3, Frames DEF WorkInv, Dispatched, Ended
<1>11. ContinuationInv'
  BY <1>2, <1>3, Frames DEF ContinuationInv, TreeInv, At, Dispatched, Before, Ended
<1>12. TokenInv'
  BY <1>2, <1>3, Frames DEF TokenInv, TreeInv, BusyInv, Ended, Waits, Dispatched,
    With
<1>13. StartInv'
  BY <1>2, <1>3, Frames DEF StartInv, TreeInv, At, Unstarted, Dispatched, Before
<1>14. TailInv' BY <1>2, <1>3, Frames DEF TailInv, TreeInv, At, Dispatched
<1>15. RefsInv' BY <1>2, <1>3, Frames DEF RefsInv, Dispatched, Self, Outside, Kids
<1>16. QueueInv'
  BY <1>2, <1>3, Frames, <1>1 DEF QueueInv, TreeInv, HolderInv, At, Dispatched,
    Before, Waits, Busy
<1>17. PassedInv' BY <1>2, <1>3, Frames DEF PassedInv, Adrift, Kids
<1>18. ParentInv' BY <1>2, <1>3, Frames DEF ParentInv, TreeInv, At, HoldsParent, Dispatched
<1>19. MainInv' BY <1>2, <1>3, Frames DEF MainInv, Kids
<1>20. AliveInv' /\ CheckInv'
  BY DEF Transfer, AliveInv, CheckInv, Dispatched, Alive, Kids, Outside
<1> QED BY <1>4, <1>5, <1>6, <1>7, <1>8, <1>9, <1>10, <1>11, <1>12, <1>13, <1>14, <1>15,
  <1>16, <1>17, <1>18, <1>19, <1>20

\* A task is taken off its nodes.
LEMMA DeregisterKeeps ==
  ASSUME IInv, NEW t \in Frame, Deregister(t)
  PROVE  IInv'
<1>1. /\ frame \in [Frame -> {"none", "alive", "dying", "released", "freed"}]
      /\ barrier_queue \subseteq Frame
  BY DEF TypeOK
<1>2. /\ frame[t] = "dying" /\ frame'[t] = "released"
      /\ \A u \in Frame : u # t => frame'[u] = frame[u]
      /\ UNCHANGED <<next, form, par, resReady, workingState, continuationHandle, refs,
          coroOutsideTask, result, parent, pool_p, holder, co, at, tokens, tail,
              barrier_queue, checking, mpc>>
  BY <1>1, Frames DEF Deregister
<1>3. /\ t < next
  BY <1>2, Frames DEF FreshInv, Dispatched
<1>4. \A q \in Frame : Kids(q)' = Kids(q) /\ Cardinality(Kids(q)) \in Nat
  <2>1. \A c \in Task : frame'[c] = "freed" <=> frame[c] = "freed" BY <1>2, <1>3, Frames
  <2>2. \A q \in Frame : Kids(q)' = Kids(q) BY <2>1, <1>2 DEF Kids
  <2> QED BY <2>2, KidsNat
<1>5. TypeOK' BY <1>3, Frames DEF Deregister, TypeOK, Label, Waits, Busy
<1>6. FreshInv' BY <1>2, <1>3, Frames DEF FreshInv, TreeInv, Dispatched
<1>7. RootInv' BY <1>2, <1>3, Frames DEF RootInv
<1>8. TreeInv' BY <1>2, <1>3, Frames DEF TreeInv, Dispatched
<1>9. RefsInv' BY <1>2, <1>3, <1>4, Frames DEF RefsInv, Dispatched, Self, Outside
<1>10. AliveInv' BY <1>2, <1>3, Frames DEF AliveInv, Dispatched, Alive
<1>11. CheckInv' BY <1>2, <1>3, <1>4, Frames, <1>1 DEF CheckInv, Outside
<1>12. PassedInv' BY <1>2, <1>3, <1>4, Frames DEF PassedInv, Adrift
<1>13. MainInv' BY <1>2, <1>3, <1>4, Frames DEF MainInv
<1>14. BusyInv' /\ HolderInv' /\ WorkInv' /\ ContinuationInv' /\ TokenInv'
  BY DEF Deregister, BusyInv, HolderInv, WorkInv, ContinuationInv, TokenInv, With,
    Dispatched, At, Before, Waits, Busy, Ended
<1>15. StartInv' /\ TailInv' /\ QueueInv' /\ ParentInv'
  BY DEF Deregister, StartInv, TailInv, QueueInv, ParentInv, At, Unstarted,
    Dispatched, Before, HoldsParent
<1> QED BY <1>5, <1>6, <1>7, <1>8, <1>9, <1>10, <1>11, <1>12, <1>13, <1>14, <1>15

\* The frame goes, and with it the handle of the parent: one less of Kids.
LEMMA FreeKeeps ==
  ASSUME IInv, NEW t \in Frame, Free(t)
  PROVE  IInv'
<1>1. /\ refs \in [Frame -> 0..(NumTasks + 2)]
      /\ frame \in [Frame -> {"none", "alive", "dying", "released", "freed"}]
      /\ barrier_queue \subseteq Frame
  BY DEF TypeOK
<1>2. /\ frame[t] = "released" /\ frame'[t] = "freed"
      /\ parent[t] = None => refs' = refs /\ (\A u \in Frame : u # t =>
          frame'[u] = frame[u])
      /\ parent[t] \in Frame => refs'[parent[t]] = refs[parent[t]] - 1
      /\ parent[t] \in Frame \ {t} =>
          IF refs[parent[t]] = 1 THEN frame'[parent[t]] \in {"dying", "released"}
              ELSE frame'[parent[t]] = frame[parent[t]]
      /\ \A u \in Frame : u # parent[t] => refs'[u] = refs[u] /\ (u # t =>
          frame'[u] = frame[u])
      /\ UNCHANGED <<next, form, par, resReady, workingState, continuationHandle,
          coroOutsideTask, result, parent, pool_p, holder, co, at, tokens, tail,
              barrier_queue, checking, mpc>>
  BY <1>1, Frames DEF Free, Dying
<1>3. /\ t < next /\ parent[t] \in Frame \cup {None}
      /\ parent[t] # None => /\ t \in Kids(parent[t]) /\ parent[t] < next /\ parent[t] # t
                          /\ refs[parent[t]] \in Nat /\ refs[parent[t]] > 0
                              /\ frame[parent[t]] = "alive"
  <2>1. t < next BY <1>2 DEF FreshInv, Dispatched
  <2>2. CASE parent[t] = None BY <2>1, <2>2
  <2>3. CASE parent[t] # None
    <3>1. t \in Task /\ parent[t] \in Frame /\ parent[t] < next /\ parent[t] # t
      BY <2>1, <2>3, Frames DEF RootInv, TreeInv, Dispatched
    <3>2. t \in Kids(parent[t]) BY <3>1, <1>2 DEF Kids
    <3> QED BY <2>1, <3>1, <3>2, Counted DEF Dispatched
  <2> QED BY <2>2, <2>3
<1>4. \A q \in Frame : Kids(q)' = IF q = parent[t] THEN Kids(q) \ {t} ELSE Kids(q)
  <2>1. \A c \in Task : frame'[c] = "freed" <=> c = t \/ frame[c] = "freed"
    BY <1>2, <1>3, Frames
  <2>2. parent' = parent BY <1>2
  <2> QED BY <2>1, <2>2, <1>2, <1>3 DEF Kids
<1>5. TypeOK'
  <2>1. refs' \in [Frame -> 0..(NumTasks + 2)]
    BY <1>1, <1>3, Frames, NumTasksAssumption DEF Free, Dying
  <2>2. frame' \in [Frame -> {"none", "alive", "dying", "released", "freed"}]
    BY <1>1, <1>3, Frames, NumTasksAssumption DEF Free, Dying
  <2> QED BY <1>2, <2>1, <2>2 DEF TypeOK
<1>6. FreshInv' BY <1>2, <1>3, Frames DEF FreshInv, TreeInv, Dispatched
<1>7. RootInv' BY <1>2, <1>3, Frames DEF RootInv
<1>8. TreeInv' BY <1>2, <1>3, Frames DEF TreeInv, Dispatched
<1>9. BusyInv' BY <1>2, <1>3, Frames DEF BusyInv, TreeInv, With, Dispatched
<1>10. RefsInv'
  <2> SUFFICES ASSUME NEW q \in Frame, q < next
               PROVE  refs'[q] = Self(q) + Outside(q) + Cardinality(Kids(q)')
    BY <1>2 DEF RefsInv, Dispatched, Self, Outside
  <2>1. refs[q] = Self(q) + Outside(q) + Cardinality(Kids(q))
      /\ Cardinality(Kids(q)) \in Nat
    BY KidsNat DEF RefsInv, Dispatched
  <2>2. Self(q) \in {0, 1} /\ Outside(q) \in {0, 1} BY DEF Self, Outside
  <2>3. CASE q = parent[t]
    <3>1. t \in Kids(q) /\ Kids(q) \in SUBSET Task BY <2>3, <1>3, Frames, KidsNat
    <3>2. Cardinality(Kids(q)') = Cardinality(Kids(q)) - 1 BY <3>1, <2>3, <1>4, TaskSets
    <3>3. refs'[q] = refs[q] - 1 BY <2>3, <1>2
    <3> QED BY <2>1, <2>2, <3>2, <3>3
  <2>4. CASE q # parent[t] BY <2>1, <2>4, <1>2, <1>4
  <2> QED BY <2>3, <2>4
<1>11. AliveInv' BY <1>2, <1>3, Frames DEF AliveInv, Dispatched, Alive
<1>12. CheckInv' BY <1>2, <1>3, <1>4, Frames, <1>1 DEF CheckInv, Outside
<1>13. PassedInv' BY <1>2, <1>3, <1>4, Frames DEF PassedInv, Adrift
<1>14. MainInv' BY <1>2, <1>3, <1>4, Frames DEF MainInv
<1>15. HolderInv' /\ WorkInv' /\ ContinuationInv' /\ TokenInv' /\ StartInv'
  BY DEF Free, HolderInv, WorkInv, ContinuationInv, TokenInv, StartInv, At,
    Dispatched, Before, Waits, Busy, Ended, Unstarted
<1>16. TailInv' /\ QueueInv' /\ ParentInv'
  BY DEF Free, TailInv, QueueInv, ParentInv, At, Dispatched, HoldsParent
<1> QED BY <1>5, <1>6, <1>7, <1>8, <1>9, <1>10, <1>11, <1>12, <1>13, <1>14, <1>15, <1>16

\* get() of the InitTask looks at the state.
LEMMA MainGetKeeps ==
  ASSUME IInv, MainGet
  PROVE  IInv'
<1>1. /\ barrier_queue \subseteq Frame
  BY DEF TypeOK
<1>2. /\ mpc = "holds" /\ mpc' \in {"got", "asleep"}
      /\ UNCHANGED <<next, form, par, resReady, workingState, continuationHandle, refs,
          coroOutsideTask, result, parent, pool_p, frame, holder, co, at, tokens, tail,
              barrier_queue, checking>>
  BY <1>1, Frames DEF MainGet
<1>3. TypeOK' BY Frames DEF MainGet, TypeOK, Label, Waits, Busy
<1>4. RootInv' BY <1>2, Frames DEF RootInv
<1>5. MainInv' BY <1>2, Frames DEF MainInv, Kids
<1>6. FreshInv' /\ TreeInv' /\ BusyInv' /\ HolderInv' /\ WorkInv'
  BY DEF MainGet, FreshInv, TreeInv, BusyInv, HolderInv, WorkInv, Dispatched, With,
    At, Before, Waits, Busy, Ended
<1>7. ContinuationInv' /\ TokenInv' /\ StartInv' /\ TailInv' /\ RefsInv'
  BY DEF MainGet, ContinuationInv, TokenInv, StartInv, TailInv, RefsInv, At,
    Dispatched, Before, Ended, Waits, Unstarted, Self, Outside, Kids
<1>8. AliveInv' /\ QueueInv' /\ CheckInv' /\ PassedInv' /\ ParentInv'
  BY DEF MainGet, AliveInv, QueueInv, CheckInv, PassedInv, ParentInv, Dispatched,
    Alive, At, Kids, Outside, Adrift, HoldsParent
<1> QED BY <1>3, <1>4, <1>5, <1>6, <1>7, <1>8

\* The main thread wakes up.
LEMMA SpuriousWakeupKeeps ==
  ASSUME IInv, SpuriousWakeup
  PROVE  IInv'
<1>1. /\ barrier_queue \subseteq Frame
  BY DEF TypeOK
<1>2. /\ mpc = "asleep" /\ mpc' = "got"
      /\ UNCHANGED <<next, form, par, resReady, workingState, continuationHandle, refs,
          coroOutsideTask, result, parent, pool_p, frame, holder, co, at, tokens, tail,
              barrier_queue, checking>>
  BY <1>1, Frames DEF SpuriousWakeup
<1>3. TypeOK' BY Frames DEF SpuriousWakeup, TypeOK, Label, Waits, Busy
<1>4. RootInv' BY <1>2, Frames DEF RootInv
<1>5. MainInv' BY <1>2, Frames DEF MainInv, Kids
<1>6. FreshInv' /\ TreeInv' /\ BusyInv' /\ HolderInv' /\ WorkInv'
  BY DEF SpuriousWakeup, FreshInv, TreeInv, BusyInv, HolderInv, WorkInv, Dispatched,
    With, At, Before, Waits, Busy, Ended
<1>7. ContinuationInv' /\ TokenInv' /\ StartInv' /\ TailInv' /\ RefsInv'
  BY DEF SpuriousWakeup, ContinuationInv, TokenInv, StartInv, TailInv, RefsInv, At,
    Dispatched, Before, Ended, Waits, Unstarted, Self, Outside, Kids
<1>8. AliveInv' /\ QueueInv' /\ CheckInv' /\ PassedInv' /\ ParentInv'
  BY DEF SpuriousWakeup, AliveInv, QueueInv, CheckInv, PassedInv, ParentInv,
    Dispatched, Alive, At, Kids, Outside, Adrift, HoldsParent
<1> QED BY <1>3, <1>4, <1>5, <1>6, <1>7, <1>8

\* The main thread sees that nobody else holds the init coroutine.
LEMMA MainSpinKeeps ==
  ASSUME IInv, MainSpin
  PROVE  IInv'
<1>1. /\ coroOutsideTask \in [Frame -> BOOLEAN]
      /\ barrier_queue \subseteq Frame
  BY DEF TypeOK
<1>2. /\ mpc \in {"holds", "got"} /\ ~ (refs[0] > 1) /\ mpc' = "reset"
      /\ coroOutsideTask'[0] = FALSE
      /\ \A u \in Frame : u # 0 => coroOutsideTask'[u] = coroOutsideTask[u]
      /\ UNCHANGED <<next, form, par, resReady, workingState, continuationHandle, refs,
          result, parent, pool_p, frame, holder, co, at, tokens, tail, barrier_queue,
              checking>>
  BY <1>1, Frames DEF MainSpin, OthersHold
<1>3. /\ co[0] = "done" /\ Kids(0) = {} /\ holder[0] = "main"
  <2>1. 0 < next /\ co[0] # "none" /\ holder[0] = "main" /\ co[0] # "transfer"
    BY <1>2, Frames DEF TypeOK, RootInv, FreshInv, WorkInv, Dispatched
  <2>2. /\ refs[0] = Self(0) + Outside(0) + Cardinality(Kids(0)) /\ refs[0] \in Nat
        /\ Kids(0) = {} <=> Cardinality(Kids(0)) = 0
    BY <2>1, Counted, Frames DEF Dispatched
  <2>3. Outside(0) = 1 /\ Self(0) \in {0, 1} BY <2>1 DEF Outside, Self
  <2>4. Self(0) = 0 /\ Cardinality(Kids(0)) = 0 BY <1>2, <2>2, <2>3, KidsNat
  <2> QED BY <2>1, <2>2, <2>4 DEF Self
<1>4. TypeOK' BY <1>3, Frames DEF MainSpin, TypeOK, OthersHold, Label, Waits, Busy
<1>5. RootInv' BY <1>2, <1>3, Frames DEF RootInv
<1>6. PassedInv' BY <1>2, <1>3, Frames DEF PassedInv, Adrift, Kids
<1>7. MainInv' BY <1>2, <1>3, Frames DEF MainInv, Kids
<1>8. FreshInv' /\ TreeInv' /\ BusyInv' /\ HolderInv' /\ WorkInv'
  BY DEF MainSpin, FreshInv, TreeInv, BusyInv, HolderInv, WorkInv, Dispatched, With,
    At, Before, Waits, Busy, Ended
<1>9. ContinuationInv' /\ TokenInv' /\ StartInv' /\ TailInv' /\ RefsInv'
  BY DEF MainSpin, ContinuationInv, TokenInv, StartInv, TailInv, RefsInv, At,
    Dispatched, Before, Ended, Waits, Unstarted, Self, Outside, Kids
<1>10. AliveInv' /\ QueueInv' /\ CheckInv' /\ ParentInv'
  BY DEF MainSpin, AliveInv, QueueInv, CheckInv, ParentInv, Dispatched, Alive, At,
    Kids, Outside, HoldsParent
<1> QED BY <1>4, <1>5, <1>6, <1>7, <1>8, <1>9, <1>10

\* It drops the frame.
LEMMA MainResetKeeps ==
  ASSUME IInv, MainReset
  PROVE  IInv'
<1>1. /\ refs \in [Frame -> 0..(NumTasks + 2)]
      /\ frame \in [Frame -> {"none", "alive", "dying", "released", "freed"}]
      /\ holder \in [Frame -> {"none", "main", "awaiter", "object", "get", "cleared"}]
      /\ barrier_queue \subseteq Frame
  BY DEF TypeOK
<1>2. /\ mpc = "reset" /\ mpc' = "gone" /\ holder'[0] = "none"
      /\ refs'[0] = refs[0] - 1 /\ IF refs[0] = 1 THEN frame'[0] \in {"dying",
          "released"} ELSE frame'[0] = frame[0]
      /\ \A u \in Frame : u # 0 => refs'[u] = refs[u] /\ holder'[u] = holder[u]
          /\ frame'[u] = frame[u]
      /\ UNCHANGED <<next, form, par, resReady, workingState, continuationHandle,
          coroOutsideTask, result, parent, pool_p, co, at, tokens, tail, barrier_queue,
              checking>>
  BY <1>1, Frames DEF MainReset, DropRef, Dying
<1>3. /\ refs[0] \in Nat /\ refs[0] > 0 /\ frame[0] = "alive" /\ co[0] = "done"
          /\ holder[0] = "main"
      /\ 0 < next
  BY <1>2, Frames, Counted DEF TypeOK, RootInv, MainInv, Kids, FreshInv, Dispatched,
    Alive, Outside, Self
<1>4. \A q \in Frame : Kids(q)' = Kids(q) /\ Cardinality(Kids(q)) \in Nat
  <2>1. \A c \in Task : frame'[c] = "freed" <=> frame[c] = "freed" BY <1>2, <1>3, Frames
  <2>2. \A q \in Frame : Kids(q)' = Kids(q) BY <2>1, <1>2 DEF Kids
  <2> QED BY <2>2, KidsNat
<1>5. TypeOK'
  <2>1. refs' \in [Frame -> 0..(NumTasks + 2)]
    BY <1>1, <1>3, Frames, NumTasksAssumption DEF MainReset, DropRef, Dying
  <2>2. frame' \in [Frame -> {"none", "alive", "dying", "released", "freed"}]
    BY <1>1, <1>3, Frames, NumTasksAssumption DEF MainReset, DropRef, Dying
  <2>3. holder' \in [Frame -> {"none", "main", "awaiter", "object", "get", "cleared"}]
    BY <1>1, <1>3, Frames, NumTasksAssumption DEF MainReset, DropRef, Dying
  <2> QED BY <1>2, <2>1, <2>2, <2>3 DEF TypeOK
<1>6. FreshInv' BY <1>2, <1>3, Frames DEF FreshInv, TreeInv, Dispatched
<1>7. RootInv' BY <1>2, <1>3, Frames DEF RootInv
<1>8. TreeInv' BY <1>2, <1>3, Frames DEF TreeInv, Dispatched
<1>9. BusyInv' BY <1>2, <1>3, Frames DEF BusyInv, TreeInv, With, Dispatched
<1>10. HolderInv'
  BY <1>2, <1>3, Frames DEF HolderInv, TreeInv, At, Dispatched, Before, Waits, Busy
<1>11. ContinuationInv'
  BY <1>2, <1>3, Frames DEF ContinuationInv, TreeInv, At, Dispatched, Before, Ended
<1>12. StartInv'
  BY <1>2, <1>3, Frames DEF StartInv, TreeInv, At, Unstarted, Dispatched, Before
<1>13. RefsInv'
  <2> SUFFICES ASSUME NEW q \in Frame, q < next
               PROVE  refs'[q] = Self(q)' + Outside(q)' + Cardinality(Kids(q))
    BY <1>2, <1>4 DEF RefsInv, Dispatched
  <2>2. refs[q] = Self(q) + Outside(q) + Cardinality(Kids(q))
      /\ Cardinality(Kids(q)) \in Nat
    BY KidsNat DEF RefsInv, Dispatched
  <2>3. Self(q)' = Self(q) /\ Self(q) \in {0, 1} /\ Outside(q) \in {0, 1}
    BY <1>2 DEF Self, Outside
  <2>4. CASE q = 0
    <3>1. Outside(q) = 1 /\ Outside(q)' = 0 /\ refs'[q] = refs[q] - 1
      BY <2>4, <1>2, <1>3, Frames DEF Outside
    <3> QED BY <3>1, <2>2, <2>3
  <2>5. CASE q # 0
    <3>1. Outside(q)' = Outside(q) /\ refs'[q] = refs[q] BY <2>5, <1>2 DEF Outside
    <3> QED BY <3>1, <2>2, <2>3
  <2> QED BY <2>4, <2>5
<1>14. AliveInv' BY <1>2, <1>3, Frames DEF AliveInv, Dispatched, Alive
<1>15. CheckInv' BY <1>2, <1>3, <1>4, Frames, <1>1 DEF CheckInv, Outside
<1>16. PassedInv' BY <1>2, <1>3, <1>4, Frames DEF PassedInv, Adrift
<1>17. MainInv' BY <1>2, <1>3, <1>4, Frames DEF MainInv
<1>18. WorkInv' /\ TokenInv' /\ TailInv' /\ QueueInv' /\ ParentInv'
  BY DEF MainReset, WorkInv, TokenInv, TailInv, QueueInv, ParentInv, Dispatched,
    Ended, Waits, At, HoldsParent
<1> QED BY <1>5, <1>6, <1>7, <1>8, <1>9, <1>10, <1>11, <1>12, <1>13, <1>14, <1>15, <1>16,
  <1>17, <1>18

-----------------------------------------------------------------------------
(* The specification.                                                      *)

LEMMA InitHolds == Init => IInv
<1> SUFFICES ASSUME Init PROVE IInv OBVIOUS
<1> USE DEF Init
<1>1. next = 1 /\ \A t \in Frame : Dispatched(t) <=> t = 0
  BY NumTasksAssumption DEF Dispatched, Frame
<1>2. \A t \in Task : ~ Dispatched(t) BY <1>1, Frames
<1>3. RootForm \in Form BY DEF RootForm, Form
<1>4. /\ 2 \in 0..(NumTasks + 2) /\ 0 \in 0..(NumTasks + 2) /\ 1 \in 1..(NumTasks + 1)
      /\ 1 \in 0..2
  BY NumTasksAssumption
<1>5. TypeOK BY <1>3, <1>4, Frames DEF TypeOK, Label, Waits
<1>6. FreshInv /\ RootInv /\ TreeInv
  BY <1>1, <1>2, Frames DEF FreshInv, RootInv, TreeInv
<1>7. ProtocolInv
  <2>1. BusyInv BY DEF BusyInv
  <2>2. HolderInv /\ ContinuationInv /\ StartInv /\ TailInv
    BY <1>2 DEF HolderInv, ContinuationInv, StartInv, TailInv
  <2>3. WorkInv BY DEF WorkInv, Ended
  <2>4. TokenInv BY Frames DEF TokenInv, Waits
  <2> QED BY <2>1, <2>2, <2>3, <2>4
<1>8. CountInv
  <2>1. Kids(0) = {} BY Frames DEF Kids
  <2>2. Cardinality(Kids(0)) = 0 BY <2>1, TaskSets
  <2>3. Self(0) = 1 /\ Outside(0) = 1 /\ refs[0] = 2 BY Frames DEF Self, Outside
  <2>4. RefsInv BY <1>1, <2>2, <2>3 DEF RefsInv
  <2>5. AliveInv BY <1>1, <2>3, Frames DEF AliveInv, Alive
  <2> QED BY <2>4, <2>5
<1>9. BarrierInv
  BY <1>2 DEF QueueInv, CheckInv, PassedInv, ParentInv, MainInv
<1> QED BY <1>5, <1>6, <1>7, <1>8, <1>9

LEMMA StutterKeeps == IInv /\ UNCHANGED vars => IInv'
<1> SUFFICES ASSUME IInv, UNCHANGED vars PROVE IInv' OBVIOUS
<1>1. TypeOK' BY DEF TypeOK
<1>2. FreshInv' /\ RootInv' /\ TreeInv' BY DEF FreshInv, RootInv, TreeInv, Dispatched
<1>3. BusyInv' /\ HolderInv' /\ WorkInv' BY DEF BusyInv, HolderInv, WorkInv, With, At,
          Dispatched
<1>4. ContinuationInv' /\ TokenInv' /\ StartInv' /\ TailInv'
  BY DEF ContinuationInv, TokenInv, StartInv, TailInv, Unstarted, At, Dispatched
<1>5. CountInv' BY DEF RefsInv, AliveInv, Self, Outside, Kids, Alive, Dispatched
<1>6. BarrierInv'
  BY DEF QueueInv, CheckInv, PassedInv, ParentInv, MainInv, Kids, Outside, Adrift, At,
         HoldsParent, Dispatched
<1> QED BY <1>1, <1>2, <1>3, <1>4, <1>5, <1>6

LEMMA BodyKeeps == ASSUME IInv, NEW p \in Frame, Body(p) PROVE IInv'
<1>1. CASE \E f \in Forms : Create(p, f) BY <1>1, CreateKeeps DEF Body
<1>2. CASE \E c \in Task : Get(p, c) \/ Clear(p, c) \/ Assign(p, c)
  BY <1>2, GetKeeps, ClearKeeps, AssignKeeps
<1>3. CASE Return(p) BY <1>3, ReturnKeeps
<1> QED BY <1>1, <1>2, <1>3 DEF Body

LEMMA NextKeeps == IInv /\ [Next]_vars => IInv'
<1> SUFFICES ASSUME IInv, [Next]_vars PROVE IInv' OBVIOUS
<1>1. ASSUME NEW t \in Frame, Body(t) PROVE IInv' BY <1>1, BodyKeeps
<1>2. ASSUME NEW t \in Frame, Step(t) PROVE IInv'
  BY <1>2, ResumeKeeps, HandKeeps, TransformKeeps, DispatchAsyncKeeps, SyncStoreKeeps,
     SyncCasKeeps, GetStoreKeeps, GetCasKeeps, KeepKeeps, TakeKeeps, ReleaseKeeps, DestroyedKeeps,
     EnterBarrierKeeps, FinalSuspendKeeps, FinalDeleteKeeps, TransferKeeps DEF Step
<1>3. ASSUME NEW t \in Frame, Finish(t) \/ CheckBarrier(t) PROVE IInv'
  BY <1>3, SyncTailKeeps, BarrierClearKeeps, BarrierDropKeeps, DeregisterKeeps, FreeKeeps,
     CheckBarrierKeeps DEF Finish
<1>4. CASE PassBarrier BY <1>4, PassBarrierKeeps
<1>5. CASE MainGet \/ SpuriousWakeup \/ MainSpin \/ MainReset
  BY <1>5, MainGetKeeps, SpuriousWakeupKeeps, MainSpinKeeps, MainResetKeeps
<1>6. CASE Terminated \/ UNCHANGED vars BY <1>6, StutterKeeps DEF Terminated
<1> QED BY <1>1, <1>2, <1>3, <1>4, <1>5, <1>6 DEF Next

\* The invariant holds for any number of tasks and any set of dispatches.
THEOREM Invariance == Spec => []IInv
<1>1. IInv /\ [Next]_vars => IInv' BY NextKeeps
<1> QED BY <1>1, InitHolds, PTL DEF Spec

\* Type correctness of the frames, handles and coroutines: no count goes below 0 or
\* beyond the handles there may be.
THEOREM TypeCorrect == Spec => []TypeOK
<1>1. IInv => TypeOK OBVIOUS
<1> QED BY <1>1, Invariance, PTL

-----------------------------------------------------------------------------
(* What follows from it.                                                   *)

\* sharedOwnerCounter is the number of handles there are, whatever the order in which
\* threads make, copy and drop them.
THEOREM RefsExactHolds == Spec => []RefsExact
<1>1. ASSUME IInv PROVE RefsExact
  <2>1. \A t \in Frame : frame[t] # "none" => Dispatched(t) BY <1>1 DEF FreshInv
  <2> QED BY <1>1, <2>1 DEF RefsExact, RefsInv, Self, Outside, Kids
<1> QED BY <1>1, Invariance, PTL

\* No thread touches a frame after its last handle went.
THEOREM NoUseAfterFreeHolds == Spec => []NoUseAfterFree
<1>1. ASSUME IInv PROVE NoUseAfterFree
  <2> USE <1>1
  <2>1. ASSUME NEW p \in Frame, co[p] \notin {"none", "transfer", "done"} PROVE Alive(p)
    BY <2>1, Counted DEF FreshInv, Alive
  <2>2. ASSUME NEW p \in Frame, Dispatched(p), holder[p] # "none" PROVE Alive(p)
    BY <2>2, Counted DEF Alive
  <2>3. ASSUME NEW t \in Frame
        PROVE  co[t] \in Waits \cup Busy \cup {"running", "returned", "final"} => Alive(t)
    BY <2>1 DEF Waits, Busy
  <2>4. ASSUME NEW t \in Frame, co[t] \in Busy \ {"destroys"} PROVE Alive(at[t])
    <3>1. at[t] \in Task /\ Dispatched(at[t]) /\ holder[at[t]] # "none"
      BY <2>4 DEF Busy, BusyInv, With
    <3> QED BY <3>1, <2>2, Frames
  <2>5. ASSUME NEW t \in Frame, co[t] = "transfer" PROVE Alive(par[t])
    <3>1. t \in Task /\ Dispatched(t) /\ workingState[t] = 2
      BY <2>5, Frames DEF FreshInv, RootInv, WorkInv
    <3>2. par[t] \in Frame /\ co[par[t]] \in {"waitsSync", "waitsGet"}
      BY <2>5, <3>1 DEF TreeInv, ContinuationInv, At
    <3> QED BY <3>2, <2>1
  <2>6. ASSUME NEW t \in Frame, tokens[t] > 0 PROVE Alive(t)
    BY <2>6, <2>1 DEF TokenInv, Waits
  <2>7. ASSUME NEW t \in Frame, tail[t] # "none", ~ Overtaken(t)
        PROVE  Alive(t) /\ Alive(par[t]) /\ holder[t] = "awaiter"
    <3>1. t \in Task /\ Dispatched(t) /\ form[t].kind = "sync"
      BY <2>7, Frames DEF FreshInv, RootInv, TailInv
    <3>2. tail[t] \in {"done", "waits"} BY <2>7 DEF TypeOK
    <3>3. At(t, {"waitsSync", "waitsGet"})
      <4>1. CASE tail[t] = "done"
        BY <3>1, <4>1 DEF TailInv, At
      <4>2. CASE tail[t] = "waits"
        <5>1. resReady[t] => co[t] = "waiting" BY <2>7, <3>1 DEF StartInv, Unstarted
        <5>2. co[t] # "done" BY <2>7, <4>2, <5>1 DEF Overtaken
        <5>3. workingState[t] = 2 BY <3>1, <4>2 DEF TailInv
        <5> QED BY <3>1, <5>2, <5>3 DEF ContinuationInv
      <4> QED BY <3>2, <4>1, <4>2
    <3>4. par[t] \in Frame BY <3>1 DEF TreeInv
    <3>5. holder[t] = "awaiter" BY <3>1, <3>3, <3>4 DEF At, BusyInv, With
    <3>6. Alive(par[t]) BY <2>1, <3>3, <3>4 DEF At
    <3> QED BY <2>2, <3>1, <3>5, <3>6
  <2>8. ASSUME NEW t \in Frame, t \in barrier_queue PROVE Alive(t)
    BY <2>8, <2>1 DEF QueueInv
  <2>9. ASSUME NEW t \in Frame, parent[t] # None, frame[t] # "freed" PROVE Alive(parent[t])
    <3>1. t \in Task /\ Dispatched(t) BY <2>9, Frames DEF FreshInv, RootInv
    <3>2. parent[t] \in Frame /\ Dispatched(parent[t]) BY <2>9, <3>1 DEF TreeInv
    <3>3. Kids(parent[t]) # {} BY <2>9, <3>1 DEF Kids
    <3> QED BY <3>2, <3>3, Counted DEF Alive
  <2> QED BY <2>3, <2>4, <2>5, <2>6, <2>7, <2>8, <2>9 DEF NoUseAfterFree
<1> QED BY <1>1, Invariance, PTL

\* Nobody resumes a coroutine that does not wait, or resumes it twice; and the task it
\* awaits is over then.
THEOREM ResumedOnceHolds == Spec => []ResumedOnce
<1>1. ASSUME IInv PROVE ResumedOnce
  <2>1. ASSUME NEW t \in Frame, tokens[t] > 0, NEW c \in Task,
      par[c] = t PROVE co[c] # "transfer"
    BY <1>1, <2>1, Frames DEF FreshInv, WorkInv, ContinuationInv, Ended, At
  <2> QED BY <1>1, <2>1 DEF ResumedOnce, TokenInv, Ended
<1> QED BY <1>1, Invariance, PTL

\* The result that await_resume reads was written, and its frame still exists.
THEOREM ResultBeforeUseHolds == Spec => []ResultBeforeUse
<1>1. ASSUME IInv PROVE ResultBeforeUse
  <2>1. ASSUME NEW t \in Frame, co[t] = "take" PROVE result[at[t]] /\ Alive(at[t])
    <3>1. at[t] \in Task /\ Dispatched(at[t]) /\ holder[at[t]] # "none"
      BY <1>1, <2>1 DEF BusyInv, With
    <3>2. Alive(at[t]) BY <1>1, <3>1, Counted, Frames DEF Alive
    <3> QED BY <1>1, <2>1, <3>2 DEF TokenInv
  <2> QED BY <2>1 DEF ResultBeforeUse
<1> QED BY <1>1, Invariance, PTL

\* Programs all of whose dispatches count for their parent: by name, and without what
\* await_transform takes for finishedOnReturn.
CountedForms ==
    \A f \in Forms \cup {RootForm}, g \in Forms :
        f.kind # "barrier" /\ g.kind # "barrier" =>
            g.named /\ IF f.void THEN g.kind # "sync" ELSE ~ g.fin

LEMMA ParentCounts ==
  ASSUME IInv, CountedForms, NEW t \in Task, Dispatched(t), form[t].kind # "barrier"
  PROVE  parent[t] = par[t] \/ At(t, {"transform"})
<1>1. form[t] \in Forms /\ form[par[t]].kind # "barrier" /\ par[t] \in Frame
          /\ Dispatched(par[t])
  BY DEF TreeInv
<1>2. form[par[t]] \in Forms \cup {RootForm} BY <1>1, Frames DEF TreeInv, RootInv
<1>3. HoldsParent(par[t], t) BY <1>1, <1>2 DEF CountedForms, HoldsParent
<1> QED BY <1>3 DEF ParentInv

\* A set of tasks has a first one.
LEMMA Minimum == ASSUME NEW S \in SUBSET Task,
    S # {} PROVE \E t \in S : \A u \in S : ~ (u < t)
<1> DEFINE UpTo(t) == {u \in S : u <= t}
<1> DEFINE T == {UpTo(t) : t \in S}
<1>1. IsFiniteSet(Task) BY NumTasksAssumption, FS_Interval DEF Task
<1>2. IsWellFoundedOn(StrictSubsetOrdering(Task), FiniteSubsetsOf(Task))
  BY FS_StrictSubsetOrderingWellFounded
<1>3. T \subseteq FiniteSubsetsOf(Task)
  BY <1>1, FS_Subset DEF FiniteSubsetsOf
<1>4. PICK X \in T : \A Y \in T : ~ (<<Y, X>> \in StrictSubsetOrdering(Task))
  <2>1. T # {} OBVIOUS
  <2> HIDE DEF T
  <2> QED BY <1>2, <1>3, <2>1, WFMin
<1>5. PICK t \in S : X = UpTo(t) BY <1>4
<1>6. ASSUME NEW u \in S, u < t PROVE FALSE
  <2>1. u \in Nat /\ t \in Nat /\ \A v \in S : v \in Nat BY Frames
  <2>2. \A v \in S : v <= u => v <= t BY <2>1, <1>6
  <2>3. t <= t /\ ~ (t <= u) BY <2>1, <1>6
  <2>4. UpTo(u) \subseteq UpTo(t) /\ UpTo(u) # UpTo(t) BY <2>2, <2>3
  <2>5. <<UpTo(u), UpTo(t)>> \in StrictSubsetOrdering(Task)
    BY <2>4 DEF StrictSubsetOrdering
  <2> QED BY <2>5, <1>4, <1>5
<1> QED BY <1>6

\* ~InitTask returns after the last of the tasks that count.
THEOREM RootWaitsHolds == ASSUME CountedForms PROVE Spec => []RootWaits
<1>1. ASSUME IInv PROVE RootWaits
  <2> USE <1>1
  <2> DEFINE Left == {t \in Task : form[t].kind # "barrier" /\ frame[t] \notin {"none",
      "freed"}}
  <2> SUFFICES ASSUME mpc \in {"reset", "gone"}, Left # {} PROVE FALSE BY DEF RootWaits
  <2>1. Left \subseteq Nat BY Frames
  <2>2. PICK t \in Left : \A u \in Left : ~ (u < t) BY Minimum, Frames
  <2>3. Dispatched(t) /\ par[t] \in Frame /\ par[t] < t /\ Dispatched(par[t])
    BY <2>2, Frames DEF FreshInv, TreeInv
  <2>4. t \in Kids(par[t]) \/ co[par[t]] = "transform"
    BY <2>2, <2>3, ParentCounts DEF Kids, At
  <2>5. par[t] # 0 BY <2>4 DEF MainInv
  <2>6. frame[par[t]] = "alive" BY <2>3, <2>4, Counted
  <2>7. par[t] \in Left BY <2>2, <2>3, <2>5, <2>6, Frames DEF TreeInv
  <2> QED BY <2>1, <2>2, <2>3, <2>7
<1> QED BY <1>1, Invariance, PTL

\* A coroutine leaves a barrier when every task it dispatched is gone, or, when its own
\* Task object was assigned over, perhaps before.
THEOREM BarrierWaitsHolds == ASSUME CountedForms PROVE Spec => []BarrierWaits
<1>1. ASSUME IInv PROVE BarrierWaits
  <2> USE <1>1
  <2> SUFFICES ASSUME NEW p \in Frame, co[p] = "waitsBarrier", tokens[p] > 0, ~ Adrift(p),
                      NEW c \in Children(p)
               PROVE  frame[c] = "freed"
    BY DEF BarrierWaits
  <2>1. Kids(p) = {} BY DEF PassedInv
  <2>2. c \in Task /\ par[c] = p /\ form[c].kind # "barrier" BY DEF Children
  <2>3. Dispatched(c) BY <2>2, Frames DEF FreshInv
  <2>4. parent[c] = p BY <2>2, <2>3, ParentCounts DEF At
  <2> QED BY <2>1, <2>2, <2>4 DEF Kids
<1> QED BY <1>1, Invariance, PTL
=============================================================================
