------------------------- MODULE TaskTreeLifeProofs -------------------------
(***************************************************************************)
(* More about TaskTree, for any number of tasks: it implements TaskLife,   *)
(* that is, what a task waits for has happened when it goes on, whichever  *)
(* thread resumes it and whatever else runs between the accesses to its    *)
(* promise; and down a line of tasks that were ready each knows the pool.  *)
(***************************************************************************)
EXTENDS TaskTreeProofs

USE DEF treeVars, promiseVars, ownVars, runVars, poolVars, vars
USE DEF IInv, ProtocolInv, CountInv, BarrierInv

\* A body that leaves a barrier early does so because its own Task object was
\* assigned over: the programs have no such assignments, or no barriers.
NeverAdrift == ~ Assigns \/ \A f \in Forms : f.kind # "barrier"

-----------------------------------------------------------------------------
(* What IInv has to be extended by.                                        *)

Gone == {"released", "freed"}
Granted(t) == tokens[t] > 0 /\ co[t] = "waiting"

\* A task that was found ready, or that was handed out, is ready for good.
ReadyInv ==
    \A t \in Task : Dispatched(t) /\ (resReady[t] \/ Granted(t)) => Ready(t, form[t].acc)

\* Without assignments the flag is cleared before the return object goes.
FlagInv ==
    ~ Assigns =>
        /\ \A t \in Frame : Dispatched(t) /\ holder[t] \in {"cleared", "none"} =>
              ~ coroOutsideTask[t]
        /\ mpc \in {"reset", "gone"} => ~ coroOutsideTask[0]

\* A task down a line of tasks that were ready knows the pool, or its dispatcher is
\* about to pass it on.
PoolInv ==
    \A t \in Frame : Dispatched(t) /\ form[t].kind # "barrier" /\ StraightLine(t) =>
        pool_p[t] \/ (t # 0 /\ At(t, {"transform"}))

-----------------------------------------------------------------------------
(* What every step leaves alone.                                           *)

FormsStay ==
    \A u \in Frame : Dispatched(u) =>
        /\ u < next' /\ form'[u] = form[u] /\ par'[u] = par[u]
        /\ resReady'[u] = resReady[u]
FramesGo == \A u \in Frame : frame[u] \in Gone => frame'[u] \in Gone
ParentsStay ==
    \A t \in Frame : co[t] = "waitsBarrier" =>
        \A c \in Task : parent'[c] = t <=> parent[c] = t
Steady == FormsStay /\ FramesGo /\ ParentsStay

\* What Create and the other actions leave alone of the tree.
LEMMA CreateForms ==
    ASSUME IInv, NEW p \in Frame, NEW f \in Forms, Create(p, f)
    PROVE  /\ FormsStay /\ next' = next + 1 /\ next \in Task
           /\ form'[next] = f /\ par'[next] = p /\ co'[next] = "waiting"
           /\ co'[p] \in {"waitsBarrier", "transform"} /\ p # next
           /\ \A u \in Frame : u # next /\ u # p => co'[u] = co[u]
           /\ \A u \in Frame : u # p => at'[u] = at[u]
           /\ \A u \in Frame : u # next => frame'[u] = frame[u]
           /\ frame[next] = "none" /\ co[next] = "none"
           /\ resReady'[next] => Ready(next, f.acc)
           /\ UNCHANGED <<parent, tokens, coroOutsideTask, mpc>>
           /\ \A u \in Frame : u # next => holder'[u] = holder[u]
           /\ holder'[next] = "awaiter"
<1>1. next \in Task /\ next \in Nat
    BY NumTasksAssumption DEF Create, TypeOK, Task
<1>2. next \in Frame /\ co[next] = "none" /\ frame[next] = "none"
    BY <1>1, Frames DEF FreshInv, Dispatched
<1>3. p # next
    BY <1>2 DEF Create, Running
<1>4. \A u \in Frame : Dispatched(u) => u # next /\ u < next + 1
    BY <1>1, Frames DEF Dispatched
<1> QED
    BY <1>1, <1>2, <1>3, <1>4 DEF Create, TypeOK, FormsStay

LEMMA Else ==
    ASSUME IInv, UNCHANGED treeVars
    PROVE  FormsStay
BY DEF FormsStay, Dispatched

\* A handle less.
LEMMA DropFacts ==
    ASSUME IInv, NEW t \in Frame, Dispatched(t), DropRef(t)
    PROVE  FramesGo
<1>1. frame \in [Frame -> {"none", "alive", "dying", "released", "freed"}]
    BY DEF TypeOK
<1>2. refs[t] = 1 => frame[t] = "alive"
    BY Counted DEF Alive
<1> QED
    BY <1>1, <1>2 DEF DropRef, FramesGo, Gone

LEMMA FreeFacts ==
    ASSUME IInv, NEW t \in Frame, Free(t)
    PROVE  FramesGo
<1>1. \A p \in Frame : Dispatched(p) /\ refs[p] = 1 => frame[p] = "alive"
    BY Counted DEF Alive
<1>2. Dispatched(t) /\ (parent[t] # None => parent[t] \in Frame /\ Dispatched(parent[t]))
    BY Frames DEF Free, FreshInv, TreeInv, RootInv
<1>3. \A u \in Frame : u # parent[t] => frame'[u] = IF u = t THEN "freed" ELSE frame[u]
    BY DEF Free
<1>4. \A u \in Frame : u = parent[t] => frame'[u] \in Gone \/ frame'[u] = frame[u]
          \/ frame[u] = "alive"
    BY <1>1, <1>2, Frames DEF Free, Gone
<1> QED
    BY <1>3, <1>4 DEF FramesGo, Gone

LEMMA StepSteady == IInv /\ [Next]_vars => Steady
<1> SUFFICES ASSUME IInv, [Next]_vars PROVE Steady
    OBVIOUS
<1>1. ASSUME NEW t \in Frame, Body(t)
      PROVE  Steady
    <2>1. ASSUME NEW f \in Forms, Create(t, f)
          PROVE  Steady
        <3>1. FormsStay
            BY <2>1, CreateForms
        <3>2. FramesGo
            BY <2>1, CreateForms DEF FramesGo, Gone
        <3>3. parent' = parent
            BY <2>1, CreateForms
        <3> QED
            BY <3>1, <3>2, <3>3 DEF Steady, ParentsStay
    <2>2. ASSUME UNCHANGED <<treeVars, parent, frame>>
          PROVE  Steady
        BY <2>2, Else DEF Steady, ParentsStay, FramesGo
    <2> QED
        BY <1>1, <2>1, <2>2 DEF Body, Get, Clear, Assign, Return
<1>2. ASSUME NEW t \in Frame, Step(t)
      PROVE  Steady
    <2>1. UNCHANGED treeVars
        BY <1>2 DEF Step, Resume, Hand, Transform, DispatchAsync, SyncStore, SyncCas,
            GetStore, GetCas, Keep, Take, Release, Destroyed, EnterBarrier, FinalSuspend,
            FinalDelete, Transfer
    <2>2. FormsStay
        BY <2>1, Else
    <2>3. CASE Transform(t)
        <3>1. at[t] \in Task /\ parent[at[t]] = None /\ t # None
            BY <2>3, Frames DEF Transform, BusyInv, With
        <3>2. frame' = frame /\ co[t] = "transform"
            BY <2>3 DEF Transform
        <3>3. parent' = parent \/ parent' = [parent EXCEPT ![at[t]] = t]
            BY <2>3 DEF Transform
        <3>4. \A c \in Task : parent'[c] = parent[c]
                  \/ (parent[c] = None /\ parent'[c] = t)
            BY <3>1, <3>3, Frames DEF TypeOK
        <3>5. FramesGo
            BY <3>2 DEF FramesGo
        <3>6. ParentsStay
            BY <3>2, <3>4, Frames DEF ParentsStay
        <3> QED
            BY <2>2, <3>5, <3>6 DEF Steady
    <2>4. CASE Release(t) \/ FinalDelete(t)
        <3>1. ASSUME Release(t) PROVE FramesGo
            <4>1. at[t] \in Frame /\ Dispatched(at[t])
                BY <3>1, Frames DEF Release, BusyInv, With
            <4> QED
                BY <3>1, <4>1, DropFacts DEF Release
        <3>2. ASSUME FinalDelete(t) PROVE FramesGo
            <4>1. Dispatched(t)
                BY <3>2 DEF FinalDelete, FreshInv
            <4> QED
                BY <3>2, <4>1, DropFacts DEF FinalDelete
        <3>3. parent' = parent
            BY <2>4 DEF Release, FinalDelete
        <3> QED
            BY <2>2, <2>4, <3>1, <3>2, <3>3 DEF Steady, ParentsStay
    <2>5. CASE UNCHANGED <<parent, frame>>
        BY <2>2, <2>5 DEF Steady, ParentsStay, FramesGo
    <2> QED
        BY <1>2, <2>3, <2>4, <2>5 DEF Step, Resume, Hand, DispatchAsync, SyncStore, SyncCas,
            GetStore, GetCas, Keep, Take, Destroyed, EnterBarrier, FinalSuspend, Transfer
<1>3. ASSUME NEW t \in Frame, Finish(t)
      PROVE  Steady
    <2>1. UNCHANGED <<treeVars, parent>>
        BY <1>3 DEF Finish, SyncTail, BarrierClear, BarrierDrop, Deregister, Free
    <2>2. FramesGo
        <3>1. CASE BarrierDrop(t)
            <4>1. Dispatched(t)
                BY <3>1 DEF BarrierDrop, FreshInv
            <4> QED
                BY <3>1, <4>1, DropFacts DEF BarrierDrop
        <3>2. CASE Free(t)
            BY <3>2, FreeFacts
        <3>3. CASE SyncTail(t) \/ BarrierClear(t)
            BY <3>3 DEF SyncTail, BarrierClear, FramesGo
        <3>4. CASE Deregister(t)
            BY <3>4 DEF Deregister, FramesGo, Gone, TypeOK
        <3> QED
            BY <1>3, <3>1, <3>2, <3>3, <3>4 DEF Finish
    <2> QED
        BY <2>1, <2>2, Else DEF Steady, ParentsStay
<1>4. CASE MainReset
    <2>1. Dispatched(0)
        BY Frames DEF RootInv, FreshInv
    <2>2. FramesGo
        BY <1>4, <2>1, DropFacts, Frames DEF MainReset
    <2> QED
        BY <1>4, <2>2, Else DEF MainReset, Steady, ParentsStay
<1>5. CASE UNCHANGED <<treeVars, parent, frame>>
    BY <1>5, Else DEF Steady, ParentsStay, FramesGo
<1>6. ASSUME NEW t \in Frame, CheckBarrier(t)
      PROVE  Steady
    BY <1>5, <1>6 DEF CheckBarrier
<1> QED
    BY <1>1, <1>2, <1>3, <1>4, <1>5, <1>6 DEF Next, PassBarrier, MainGet,
        SpuriousWakeup, MainSpin, Terminated

-----------------------------------------------------------------------------
(* Both invariants hold.                                                   *)

LEMMA Aheads ==
    ASSUME IInv, FormsStay, NEW t \in Frame, t <= next, NEW acc
    PROVE  Ahead(t, acc)' = Ahead(t, acc) /\ \A u \in Ahead(t, acc) : Dispatched(u)
<1>1. \A u \in Task : u < t => form'[u] = form[u] /\ u \in Frame /\ Dispatched(u)
    BY Frames DEF FormsStay, Dispatched, TypeOK
<1> QED
    BY <1>1 DEF Ahead

\* Who is ready remains so.
LEMMA StaysReady ==
    ASSUME IInv, Steady, NEW t \in Frame, t <= next, NEW acc, Ready(t, acc)
    PROVE  Ready(t, acc)'
<1>1. Ahead(t, acc)' = Ahead(t, acc)
    BY Aheads DEF Steady
<1>2. \A u \in Ahead(t, acc) : u \in Frame /\ frame[u] \in Gone
    BY Frames DEF Ready, Ahead, Gone
<1> QED
    BY <1>1, <1>2 DEF Ready, Steady, FramesGo, Gone

\* A coroutine that has not begun gets a token from the node that hands it out or
\* from its dispatcher, which has found it ready.
LEMMA Grants ==
    ASSUME IInv, [Next]_vars, NEW t \in Task, Granted(t)'
    PROVE  Dispatched(t) /\ (Granted(t) \/ resReady[t] \/ Ready(t, form[t].acc))
<1> USE DEF Granted
<1>1. \A u \in Frame : tokens[u] \in Nat
    BY DEF TypeOK
<1>2. tokens[t] = 0 \/ Granted(t) \/ co'[t] # "waiting" \/ co[t] # "waiting"
    BY <1>1, Frames
<1>3. tokens'[t] > 0 /\ co'[t] = "waiting" /\ t \in Frame
    BY Frames
<1>4. co[t] = "waiting" => Dispatched(t)
    BY <1>3 DEF FreshInv
<1>5. ASSUME NEW p \in Frame, Body(p)
      PROVE  Dispatched(t) /\ Granted(t)
    <2>1. ASSUME NEW f \in Forms, Create(p, f)
          PROVE  Dispatched(t) /\ Granted(t)
        <3>1. tokens[next] = 0 /\ tokens' = tokens /\ next \in Frame
            BY <2>1, CreateForms, Frames DEF FreshInv, Dispatched
        <3>2. t # next /\ t # p
            BY <1>3, <2>1, <3>1, CreateForms
        <3> QED
            BY <1>3, <1>4, <2>1, <3>1, <3>2, CreateForms
    <2>2. ASSUME tokens' = tokens,
                 \E x \in {"take", "getStore", "release", "returned"} :
                    co' = [co EXCEPT ![p] = x]
          PROVE  Dispatched(t) /\ Granted(t)
        BY <1>3, <1>4, <2>2 DEF TypeOK
    <2> QED
        BY <1>5, <2>1, <2>2 DEF Body, Get, Clear, Assign, Return
<1>6. ASSUME NEW p \in Frame, Step(p)
      PROVE  Dispatched(t) /\ (Granted(t) \/ resReady[t] \/ Ready(t, form[t].acc))
    <2>1. CASE Resume(p)
        <3>1. co'[p] # "waiting" /\ \A u \in Frame : u # p => co'[u] = co[u]
              /\ tokens'[u] = tokens[u]
            BY <2>1 DEF Resume, TypeOK
        <3> QED
            BY <1>3, <1>4, <3>1
    <2>2. CASE Hand(p)
        BY <1>3, <1>4, <2>2 DEF Hand, TypeOK
    <2>3. CASE DispatchAsync(p)
        <3>1. at[p] \in Task /\ co[p] = "dispatch" /\ co'[p] # "waiting"
            BY <2>3 DEF DispatchAsync, BusyInv, With, TypeOK
        <3>2. \A u \in Frame : u # p => co'[u] = co[u]
            BY <2>3 DEF DispatchAsync, TypeOK
        <3>3. resReady[at[p]] \/ tokens' = tokens
            BY <2>3 DEF DispatchAsync
        <3>4. \A u \in Frame : u # p /\ u # at[p] => tokens'[u] = tokens[u]
            BY <2>3, <3>1 DEF DispatchAsync, TypeOK
        <3> QED
            BY <1>3, <1>4, <3>1, <3>2, <3>3, <3>4
    <2>4. CASE Transfer(p)
        <3>1. workingState[p] = 2 /\ p # 0 /\ Dispatched(p)
            BY <2>4 DEF Transfer, WorkInv, RootInv, FreshInv
        <3>2. p \in Task /\ par[p] \in Frame /\ co[par[p]] \in {"waitsSync", "waitsGet"}
            BY <2>4, <3>1, Frames DEF Transfer, ContinuationInv, At, TreeInv
        <3>3. /\ \A u \in Frame : u # par[p] => tokens'[u] = tokens[u]
              /\ co' = [co EXCEPT ![p] = "done"]
            BY <2>4, <3>2 DEF Transfer, TypeOK
        <3> QED
            BY <1>3, <1>4, <3>2, <3>3 DEF TypeOK
    <2>5. ASSUME tokens' = tokens, \E x \in Label \ {"waiting"} : co' = [co EXCEPT ![p] = x]
          PROVE  Dispatched(t) /\ Granted(t)
        BY <1>3, <1>4, <2>5 DEF TypeOK
    <2>6. CASE Transform(p) \/ SyncStore(p) \/ SyncCas(p) \/ GetStore(p) \/ GetCas(p)
               \/ Keep(p) \/ Take(p) \/ Release(p) \/ Destroyed(p) \/ EnterBarrier(p)
               \/ FinalSuspend(p) \/ FinalDelete(p)
        <3>1. tokens' = tokens
            BY <2>6 DEF Transform, SyncStore, SyncCas, GetStore, GetCas, Keep, Take, Release,
                Destroyed, EnterBarrier, FinalSuspend, FinalDelete
        <3>2. \E x \in {"dispatch", "syncStore", "syncCas", "waitsSync", "getCas",
                        "waitsGet", "take", "release", "destroys", "running", "returned",
                        "final", "transfer", "done"} : co' = [co EXCEPT ![p] = x]
            BY <2>6 DEF Transform, SyncStore, SyncCas, GetStore, GetCas, Keep, Take, Release,
                Destroyed, EnterBarrier, FinalSuspend, FinalDelete, BodyOf
        <3> QED
            BY <2>5, <3>1, <3>2 DEF Label, Waits, Busy
    <2> QED
        BY <1>6, <2>1, <2>2, <2>3, <2>4, <2>6 DEF Step
<1>7. ASSUME NEW p \in Frame, Finish(p)
      PROVE  Dispatched(t) /\ (Granted(t) \/ resReady[t])
    <2>1. co' = co
        BY <1>7 DEF Finish, SyncTail, BarrierClear, BarrierDrop, Deregister, Free
    <2>2. CASE tokens' = tokens
        BY <1>3, <1>4, <2>1, <2>2
    <2>3. CASE SyncTail(p)
        <3>1. p \in Task /\ Dispatched(p)
            BY <2>3, Frames DEF SyncTail, FreshInv, RootInv
        <3>2. tail[p] = "done" => par[p] \in Frame /\ co[par[p]] = "waitsSync"
            BY <3>1, Frames DEF TailInv, At, TreeInv
        <3> QED
            BY <1>3, <1>4, <2>1, <2>3, <3>1, <3>2, Frames DEF SyncTail, TypeOK
    <2>4. CASE BarrierDrop(p)
        BY <1>3, <1>4, <2>1, <2>4 DEF BarrierDrop, TypeOK
    <2> QED
        BY <1>7, <2>2, <2>3, <2>4 DEF Finish, BarrierClear, Deregister, Free
<1>8. CASE PassBarrier
    <2>1. checking[1] \in Frame /\ co[checking[1]] = "waitsBarrier" /\ co' = co
        BY <1>8 DEF PassBarrier, CheckInv, QueueInv, TypeOK
    <2>2. \A u \in Frame : u # checking[1] => tokens'[u] = tokens[u]
        BY <1>8, <2>1 DEF PassBarrier, TypeOK
    <2> QED
        BY <1>3, <1>4, <2>1, <2>2
<1>9. CASE UNCHANGED <<co, tokens>>
    BY <1>3, <1>4, <1>9
<1> QED
    BY <1>5, <1>6, <1>7, <1>8, <1>9 DEF Next, CheckBarrier, MainGet, SpuriousWakeup,
        MainSpin, MainReset, Terminated

LEMMA ReadyKeeps == IInv /\ ReadyInv /\ [Next]_vars => ReadyInv'
<1> SUFFICES ASSUME IInv, ReadyInv, [Next]_vars, NEW t \in Task, Dispatched(t)',
                    resReady'[t] \/ Granted(t)'
             PROVE  Ready(t, form[t].acc)'
    BY DEF ReadyInv
<1>1. Steady /\ t \in Frame /\ next \in Nat /\ t \in Nat
    BY StepSteady, Frames DEF TypeOK
<1>2. CASE Dispatched(t)
    <2>1. PICK acc : acc = form[t].acc
        OBVIOUS
    <2>2. form'[t].acc = acc
        BY <1>1, <1>2, <2>1 DEF Steady, FormsStay
    <2>3. Ready(t, acc)
        BY <1>1, <1>2, <2>1, Grants DEF ReadyInv, Steady, FormsStay
    <2>4. Ready(t, acc)'
        BY <1>1, <1>2, <2>3, StaysReady DEF Dispatched
    <2> QED
        BY <2>2, <2>4 DEF Ready, Ahead
<1>3. CASE ~ Dispatched(t)
    <2>1. resReady'[t]
        BY <1>3, Grants
    <2>2. next' # next
        BY <1>1, <1>3 DEF Dispatched
    <2>3. PICK p \in Frame, f \in Forms : Create(p, f)
        <3>1. \A p \in Frame : Step(p) => next' = next
            BY DEF Step, Resume, Hand, Transform, DispatchAsync, SyncStore, SyncCas, GetStore,
                GetCas, Keep, Take, Release, Destroyed, EnterBarrier, FinalSuspend, FinalDelete,
                Transfer
        <3>2. \A p \in Frame : Finish(p) \/ CheckBarrier(p) => next' = next
            BY DEF Finish, SyncTail, BarrierClear, BarrierDrop, Deregister, Free, CheckBarrier
        <3>3. ASSUME NEW p \in Frame, Body(p) PROVE \E f \in Forms : Create(p, f)
            BY <2>2, <3>3 DEF Body, Get, Clear, Assign, Return
        <3>4. ~ UNCHANGED treeVars
            BY <2>2
        <3> QED
            BY <2>2, <3>1, <3>2, <3>3, <3>4 DEF Next, PassBarrier, MainGet, SpuriousWakeup,
                MainSpin, MainReset, Terminated
    <2>4. t = next
        BY <1>1, <1>3, <2>3, CreateForms DEF Dispatched
    <2>5. Ready(t, f.acc) /\ form'[t] = f
        BY <2>1, <2>3, <2>4, CreateForms
    <2>6. Ready(t, f.acc)'
        BY <1>1, <2>4, <2>5, StaysReady
    <2> QED
        BY <2>5, <2>6 DEF Ready, Ahead
<1> QED
    BY <1>2, <1>3

LEMMA Flags ==
    ASSUME FlagInv, next' = next,
           \A u \in Frame : coroOutsideTask'[u] => coroOutsideTask[u],
           \A u \in Frame : holder'[u] \in {"cleared", "none"} =>
               holder[u] \in {"cleared", "none"} \/ ~ coroOutsideTask'[u],
           mpc' \in {"reset", "gone"} => mpc \in {"reset", "gone"} \/ ~ coroOutsideTask'[0]
    PROVE  FlagInv'
BY Frames DEF FlagInv, Dispatched

LEMMA FlagKeeps == IInv /\ FlagInv /\ [Next]_vars => FlagInv'
<1> SUFFICES ASSUME IInv, FlagInv, [Next]_vars, ~ Assigns PROVE FlagInv'
    BY DEF FlagInv
<1>1. CASE UNCHANGED <<next, coroOutsideTask, holder, mpc>>
    BY <1>1, Flags
<1>2. ASSUME NEW u \in Task, UNCHANGED <<next, coroOutsideTask, mpc>>,
             \E x \in {"object", "get"} : holder' = [holder EXCEPT ![u] = x]
      PROVE  FlagInv'
    <2>1. \A w \in Frame : holder'[w] \in {"cleared", "none"} =>
              holder[w] \in {"cleared", "none"}
        BY <1>2, Frames DEF TypeOK
    <2> QED
        BY <1>2, <2>1, Flags
<1>3. ASSUME NEW u \in Task, UNCHANGED <<next, mpc>>,
             holder' = [holder EXCEPT ![u] = "cleared"],
             coroOutsideTask' = [coroOutsideTask EXCEPT ![u] = FALSE]
      PROVE  FlagInv'
    <2>1. \A w \in Frame : coroOutsideTask'[w] => coroOutsideTask[w]
        BY <1>3, Frames DEF TypeOK
    <2>2. \A w \in Frame : holder'[w] \in {"cleared", "none"} =>
              holder[w] \in {"cleared", "none"} \/ ~ coroOutsideTask'[w]
        BY <1>3, Frames DEF TypeOK
    <2> QED
        BY <1>3, <2>1, <2>2, Flags
<1>4. ASSUME NEW u \in Task, UNCHANGED <<next, mpc, coroOutsideTask>>,
             holder[u] = "cleared", holder' = [holder EXCEPT ![u] = "none"]
      PROVE  FlagInv'
    <2>1. \A w \in Frame : holder'[w] \in {"cleared", "none"} =>
              holder[w] \in {"cleared", "none"}
        BY <1>4, Frames DEF TypeOK
    <2> QED
        BY <1>4, <2>1, Flags
<1>5. ASSUME NEW p \in Frame, Body(p)
      PROVE  FlagInv'
    <2>1. ASSUME NEW f \in Forms, Create(p, f)
          PROVE  FlagInv'
        <3>1. \A u \in Frame : u < next + 1 => Dispatched(u) \/ u = next
            BY Frames DEF Dispatched, TypeOK
        <3> QED
            BY <2>1, <3>1, CreateForms, Frames DEF FlagInv, Dispatched
    <2>2. ASSUME NEW c \in Task, Get(p, c) \/ Clear(p, c)
          PROVE  FlagInv'
        BY <1>2, <1>3, <2>2 DEF Get, Clear
    <2> QED
        BY <1>1, <1>5, <2>1, <2>2 DEF Body, Assign, Return
<1>6. ASSUME NEW p \in Frame, Step(p)
      PROVE  FlagInv'
    <2>1. CASE DispatchAsync(p)
        <3>1. at[p] \in Task
            BY <2>1 DEF DispatchAsync, BusyInv, With
        <3> QED
            BY <1>2, <2>1, <3>1 DEF DispatchAsync
    <2>2. CASE Take(p)
        <3>1. at[p] \in Task
            BY <2>2 DEF Take, BusyInv, With
        <3> QED
            BY <1>3, <2>2, <3>1 DEF Take
    <2>3. CASE Release(p)
        <3>1. at[p] \in Task /\ holder[at[p]] = "cleared"
            BY <2>3 DEF Release, BusyInv, With
        <3> QED
            BY <1>4, <2>3, <3>1 DEF Release
    <2>4. CASE Keep(p)
        <3>1. at[p] \in Task
            BY <2>4 DEF Keep, BusyInv, With
        <3> QED
            BY <1>2, <2>4, <3>1 DEF Keep
    <2> QED
        BY <1>1, <1>6, <2>1, <2>2, <2>3, <2>4
           DEF Step, Resume, Hand, Transform, SyncStore, SyncCas, GetStore, GetCas,
             Destroyed, EnterBarrier, FinalSuspend, FinalDelete, Transfer
<1>7. ASSUME NEW p \in Frame, Finish(p)
      PROVE  FlagInv'
    <2>1. form[p].kind = "barrier" => p \in Task
        BY Frames DEF RootInv, RootForm
    <2> QED
        BY <1>1, <1>3, <1>4, <1>7, <2>1
           DEF Finish, SyncTail, BarrierClear, BarrierDrop, Deregister, Free
<1>8. CASE MainSpin
    <2>1. \A u \in Frame : coroOutsideTask'[u] => coroOutsideTask[u] /\ u # 0
        BY <1>8, Frames DEF MainSpin, TypeOK
    <2> QED
        BY <1>8, <2>1, Flags, Frames DEF MainSpin
<1>9. CASE MainReset
    <2>1. ~ coroOutsideTask[0]
        BY <1>9 DEF MainReset, FlagInv
    <2>2. \A u \in Frame : u # 0 => holder'[u] = holder[u]
        BY <1>9, Frames DEF MainReset, TypeOK
    <2>3. UNCHANGED <<next, coroOutsideTask>> /\ mpc = "reset"
        BY <1>9 DEF MainReset
    <2> QED
        BY <2>1, <2>2, <2>3, Flags
<1>10. CASE MainGet \/ SpuriousWakeup
    <2>1. UNCHANGED <<next, coroOutsideTask, holder>> /\ mpc' \notin {"reset", "gone"}
        BY <1>10 DEF MainGet, SpuriousWakeup
    <2> QED
        BY <2>1, Flags
<1> QED
    BY <1>1, <1>5, <1>6, <1>7, <1>8, <1>9, <1>10 DEF Next, CheckBarrier, PassBarrier,
        Terminated

\* Above a task in line there is another in line, and a step makes no line longer.
LEMMA LineUp ==
    ASSUME NEW t \in Frame, t # 0, StraightLine(t)
    PROVE  form[t].named /\ resReady[t] /\ StraightLine(par[t])
BY DEF StraightLine

LEMMA LineStays ==
    ASSUME IInv, FormsStay, NEW t \in Frame, Dispatched(t), StraightLine(t)'
    PROVE  StraightLine(t)
<1>1. PICK line \in SUBSET Frame :
          /\ t \in line
          /\ \A u \in line \ {0} : form'[u].named /\ resReady'[u] /\ par'[u] \in line
    BY DEF StraightLine
<1> DEFINE dispatched == {u \in line : Dispatched(u)}
<1>2. t \in dispatched /\ dispatched \in SUBSET Frame
    BY <1>1
<1>3. \A u \in dispatched \ {0} :
          form[u].named /\ resReady[u] /\ par[u] \in line /\ Dispatched(par[u])
    BY <1>1, Frames DEF FormsStay, TreeInv
<1> QED
    BY <1>2, <1>3 DEF StraightLine

\* A task that was ready is not started before its dispatcher is through with it.
LEMMA NotYet ==
    ASSUME IInv, NEW t \in Task, Dispatched(t), resReady[t], At(t, {"transform"})
    PROVE  co[t] = "waiting"
<1>1. With(par[t], {"awaiter"}, {"async", "sync"})
    BY DEF At, BusyInv, TreeInv
<1> QED
    BY <1>1 DEF With, At, StartInv, Unstarted, Before

LEMMA PoolKeeps == IInv /\ PoolInv /\ [Next]_vars => PoolInv'
<1> SUFFICES ASSUME IInv, PoolInv, [Next]_vars PROVE PoolInv'
    OBVIOUS
<1>1. FormsStay
    BY StepSteady DEF Steady
<1>2. ASSUME next' = next, pool_p' = pool_p,
             \A p \in Frame : co[p] = "transform" => co'[p] = co[p] /\ at'[p] = at[p]
      PROVE  PoolInv'
    <2> SUFFICES ASSUME NEW t \in Frame, Dispatched(t), form'[t].kind # "barrier",
                        StraightLine(t)'
                 PROVE  pool_p[t] \/ (t # 0 /\ At(t, {"transform"})')
        BY <1>2 DEF PoolInv, Dispatched
    <2>1. StraightLine(t) /\ form[t].kind # "barrier" /\ par'[t] = par[t]
        BY <1>1, LineStays DEF FormsStay
    <2>2. pool_p[t] \/ (t # 0 /\ par[t] \in Frame /\ At(t, {"transform"}))
        BY <2>1, Frames DEF PoolInv, TreeInv
    <2> QED
        BY <1>2, <2>1, <2>2 DEF At
<1>3. ASSUME NEW p \in Frame, Body(p)
      PROVE  PoolInv'
    <2>1. co[p] # "transform"
        BY <1>3 DEF Body, Create, Get, Clear, Assign, Return, Running
    <2>2. ASSUME NEW f \in Forms, Create(p, f)
          PROVE  PoolInv'
        <3> SUFFICES ASSUME NEW t \in Frame, Dispatched(t)', form'[t].kind # "barrier",
                            StraightLine(t)'
                     PROVE  pool_p'[t] \/ (t # 0 /\ At(t, {"transform"})')
            BY DEF PoolInv
        <3>1. Dispatched(t) \/ t = next
            BY <2>2, CreateForms, Frames DEF Dispatched, TypeOK
        <3>2. CASE t = next
            BY <2>2, <3>2, CreateForms DEF Create, At, TypeOK
        <3>3. CASE Dispatched(t)
            <4>1. StraightLine(t) /\ form[t].kind # "barrier" /\ par'[t] = par[t]
                BY <1>1, <3>3, LineStays DEF FormsStay
            <4>2. pool_p[t] \/ (t # 0 /\ par[t] \in Frame /\ At(t, {"transform"}))
                BY <3>3, <4>1, Frames DEF PoolInv, TreeInv
            <4>3. pool_p' = pool_p
                BY <2>2 DEF Create
            <4>4. \A u \in Frame : co[u] = "transform" => co'[u] = co[u] /\ at'[u] = at[u]
                BY <2>1, <2>2, CreateForms
            <4> QED
                BY <4>1, <4>2, <4>3, <4>4 DEF At
        <3> QED
            BY <3>1, <3>2, <3>3
    <2>3. ASSUME UNCHANGED <<next, pool_p>>,
                 \A u \in Frame : u # p => co'[u] = co[u] /\ at'[u] = at[u]
          PROVE  PoolInv'
        BY <1>2, <2>1, <2>3
    <2> QED
        BY <1>3, <2>2, <2>3 DEF Body, Get, Clear, Assign, Return, TypeOK
<1>4. ASSUME NEW p \in Frame, Step(p)
      PROVE  PoolInv'
    <2>1. CASE Transform(p)
        <3> SUFFICES ASSUME NEW t \in Frame, Dispatched(t), form'[t].kind # "barrier",
                            StraightLine(t)'
                     PROVE  pool_p'[t] \/ (t # 0 /\ At(t, {"transform"})')
            BY <2>1 DEF PoolInv, Transform, Dispatched
        <3>1. StraightLine(t) /\ form[t].kind # "barrier" /\ par'[t] = par[t]
            BY <1>1, LineStays DEF FormsStay
        <3>2. at[p] \in Task /\ Dispatched(p) /\ par[at[p]] = p /\ co[p] = "transform"
            BY <2>1 DEF Transform, BusyInv, With, FreshInv
        <3>3. /\ at' = at /\ \A u \in Frame : u # p => co'[u] = co[u]
              /\ \A u \in Frame : u # at[p] => pool_p'[u] = pool_p[u]
              /\ form[at[p]].named => pool_p'[at[p]] = pool_p[p]
            BY <2>1, <3>2, Frames DEF Transform, PassPool, TypeOK
        <3>4. CASE t = at[p]
            <4>1. form[t].named /\ StraightLine(p)
                BY <3>1, <3>2, <3>4, LineUp, Frames
            <4>2. form[p].kind # "barrier"
                BY <3>2, <3>4 DEF TreeInv
            <4>3. ~ (p # 0 /\ At(p, {"transform"}))
                BY <3>2, <4>1, LineUp, NotYet, Frames
            <4>4. pool_p[p]
                BY <3>2, <4>1, <4>2, <4>3 DEF PoolInv
            <4> QED
                BY <3>3, <3>4, <4>1, <4>4
        <3>5. CASE t # at[p]
            <4>1. pool_p[t] \/ (t # 0 /\ par[t] \in Frame /\ At(t, {"transform"}))
                BY <3>1, Frames DEF PoolInv, TreeInv
            <4>2. At(t, {"transform"}) => par[t] # p
                BY <3>5 DEF At
            <4> QED
                BY <3>1, <3>3, <3>5, <4>1, <4>2 DEF At
        <3> QED
            BY <3>4, <3>5
    <2>2. CASE ~ Transform(p)
        <3>1. UNCHANGED <<next, pool_p>>
            BY <1>4, <2>2 DEF Step, Resume, Hand, DispatchAsync, SyncStore, SyncCas, GetStore,
                GetCas, Keep, Take, Release, Destroyed, EnterBarrier, FinalSuspend, FinalDelete,
                Transfer
        <3>2. \A u \in Frame : u # p => co'[u] = co[u] /\ at'[u] = at[u]
            BY <1>4, <2>2 DEF Step, Resume, Hand, DispatchAsync, SyncStore, SyncCas, GetStore,
                GetCas, Keep, Take, Release, Destroyed, EnterBarrier, FinalSuspend, FinalDelete,
                Transfer, TypeOK
        <3>3. co[p] # "transform" \/ UNCHANGED <<co, at>>
            BY <1>4, <2>2 DEF Step, Resume, Hand, DispatchAsync, SyncStore, SyncCas, GetStore,
                GetCas, Keep, Take, Release, Destroyed, EnterBarrier, FinalSuspend, FinalDelete,
                Transfer, Running
        <3> QED
            BY <1>2, <3>1, <3>2, <3>3
    <2> QED
        BY <2>1, <2>2
<1>5. CASE UNCHANGED <<next, pool_p, co, at>>
    BY <1>2, <1>5
<1>6. ASSUME NEW p \in Frame, Finish(p) \/ CheckBarrier(p)
      PROVE  PoolInv'
    BY <1>5, <1>6 DEF Finish, SyncTail, BarrierClear, BarrierDrop, Deregister, Free,
        CheckBarrier
<1> QED
    BY <1>3, <1>4, <1>5, <1>6 DEF Next, PassBarrier, MainGet, SpuriousWakeup, MainSpin,
        MainReset, Terminated

LEMMA InitAll == Init => ReadyInv /\ FlagInv /\ PoolInv
<1> SUFFICES ASSUME Init PROVE ReadyInv /\ FlagInv /\ PoolInv
    OBVIOUS
<1>1. \A t \in Task : ~ Dispatched(t)
    BY NumTasksAssumption DEF Init, Dispatched, Task
<1>2. \A t \in Frame : Dispatched(t) => t = 0
    BY <1>1, Frames
<1> QED
    BY <1>1, <1>2, Frames DEF Init, ReadyInv, FlagInv, PoolInv

\* What a coroutine waits for stays true once it is, and the flag of a return object
\* says that it exists, as long as nothing is assigned to Task objects.
THEOREM Extended == Spec => [](IInv /\ ReadyInv /\ FlagInv /\ PoolInv)
<1>1. IInv /\ [Next]_vars => IInv'
    BY NextKeeps
<1> QED
    BY <1>1, InitHolds, InitAll, ReadyKeeps, FlagKeeps, PoolKeeps, PTL DEF Spec

\* A task, and a barrier of a task, finds the pool in its promise, if none of the tasks
\* from the init coroutine down to it was blocked or dispatched through a temporary
\* (Task.hpp:188).
THEOREM PoolKnownHolds == Spec => []PoolKnown
<1>1. ASSUME IInv, PoolInv PROVE PoolKnown
    <2> SUFFICES ASSUME NEW p \in Frame, co[p] = "running", form[p].kind # "barrier",
                        StraightLine(p)
                 PROVE  pool_p[p]
        BY DEF PoolKnown
    <2>1. Dispatched(p)
        BY <1>1 DEF FreshInv
    <2>2. p # 0 => p \in Task /\ resReady[p]
        BY LineUp, Frames
    <2>3. ~ (p # 0 /\ At(p, {"transform"}))
        BY <1>1, <2>1, <2>2, NotYet
    <2> QED
        BY <1>1, <2>1, <2>3 DEF PoolInv
<1> QED
    BY <1>1, Extended, PTL

-----------------------------------------------------------------------------
(* What TaskLife shows of a coroutine.                                     *)

Waiting == Waits \ {"pushed"}
Working == Busy \cup {"pushed", "running", "returned"}

\* The phase is a function of where the coroutine and its frame are.
PhaseOf(c, f) ==
    CASE c = "none" -> "none"
      [] c \in Waiting -> "waits"
      [] c \in Ended -> IF f \in Gone THEN "gone" ELSE "over"
      [] OTHER -> "runs"

LEMMA PhaseCases ==
    ASSUME NEW c, NEW f
    PROVE  /\ c = "none" => PhaseOf(c, f) = "none"
           /\ c \in Waiting => PhaseOf(c, f) = "waits"
           /\ c \in Working => PhaseOf(c, f) = "runs"
           /\ c \in Ended => PhaseOf(c, f) = IF f \in Gone THEN "gone" ELSE "over"
<1>1. "none" \notin Waiting \cup Working \cup Ended
      /\ Working \cap (Waiting \cup Ended) = {} /\ Ended \cap Waiting = {}
    BY DEF Waiting, Working, Waits, Busy, Ended
<1>2. c = "none" /\ c \notin Waiting /\ c \notin Ended => PhaseOf(c, f) = "none"
    BY Zenon DEF PhaseOf
<1>3. c # "none" /\ c \in Waiting /\ c \notin Ended => PhaseOf(c, f) = "waits"
    BY Zenon DEF PhaseOf
<1>4. c # "none" /\ c \notin Waiting /\ c \in Ended =>
          PhaseOf(c, f) = IF f \in Gone THEN "gone" ELSE "over"
    BY Zenon DEF PhaseOf
<1>5. c # "none" /\ c \notin Waiting /\ c \notin Ended => PhaseOf(c, f) = "runs"
    BY Zenon DEF PhaseOf
<1> QED
    BY <1>1, <1>2, <1>3, <1>4, <1>5

Shows ==
    /\ \A t \in Frame : Phase[t] = PhaseOf(co[t], frame[t])
    /\ \A t \in Frame : co[t] \notin Waiting => WaitsFor[t] = {}

LEMMA ShownNow == Shows
<1>1. Phase = [t \in Frame |-> PhaseOf(co[t], frame[t])]
    BY DEF Phase, PhaseOf, Waiting, Gone, Ended
<1>2. \A t \in Frame : co[t] \notin Waiting => WaitsFor[t] = {}
    BY DEF WaitsFor, Waiting, Waits, Ahead, Serial
<1> QED
    BY <1>1, <1>2 DEF Shows

LEMMA ShownNext == Shows'
BY ShownNow, PTL

EventsTyped == \A t \in Frame : WaitsFor[t] \subseteq Life!Event

LEMMA EventTypes == IInv => EventsTyped
<1> SUFFICES ASSUME IInv, NEW t \in Frame PROVE WaitsFor[t] \subseteq Life!Event
    BY DEF EventsTyped
<1>1. co[t] \in {"waitsSync", "waitsGet"} => at[t] \in Frame
    BY Frames DEF BusyInv, With
<1>2. Ahead(t, form[t].acc) \subseteq Frame /\ {c \in Task : parent[c] = t} \subseteq Frame
    BY Frames DEF Ahead
<1> HIDE DEF IInv
<1> QED
    BY <1>1, <1>2 DEF WaitsFor, Life!Event, Ahead, Serial

\* What a step does to one task.
Stays(t) == Phase'[t] = Phase[t] /\ WaitsFor'[t] = WaitsFor[t]
Starts(t) == co[t] = "none" /\ co'[t] \in Waiting
Works(t) == co[t] \in Working /\ co'[t] \in Working
StopsToWait(t) == co[t] \in Working /\ co'[t] \in Waiting
GoesOn(t) ==
    /\ co[t] \in Waiting /\ co'[t] \in Working
    /\ \A e \in WaitsFor[t] : Phase'[e[1]] \in {e[2], "gone"}
Ends(t) == co[t] \in Working /\ co'[t] \in Ended
Leaves(t) ==
    co[t] \in Ended /\ co'[t] \in Ended /\ (frame[t] \in Gone => frame'[t] \in Gone)

Lives(t) ==
    Stays(t) \/ Starts(t) \/ Works(t) \/ StopsToWait(t) \/ GoesOn(t) \/ Ends(t) \/ Leaves(t)

LEMMA LifeNext ==
    ASSUME EventsTyped', \A t \in Frame : Lives(t)
    PROVE  Life!Next
<1> SUFFICES ASSUME NEW t \in Frame
             PROVE  \/ Life!Becomes(t, Phase[t], WaitsFor[t])
                    \/ Life!Dispatch(t) \/ Life!Suspend(t) \/ Life!GoOn(t)
                    \/ Life!End(t) \/ Life!Leave(t)
    BY Zenon DEF Life!Next
<1>1. WaitsFor'[t] \subseteq Life!Event
    BY DEF EventsTyped
<1>2. /\ \A c \in Working : c \notin Waiting
      /\ \A c \in Ended : c \notin Waiting
    BY DEF Working, Waiting, Waits, Busy, Ended
<1>3. co[t] \in Working => Phase[t] = "runs" /\ WaitsFor[t] = {}
    BY <1>2, ShownNow, ShownNext, PhaseCases DEF Shows
<1>4. co'[t] \in Working => Phase'[t] = "runs" /\ WaitsFor'[t] = {}
    BY <1>2, ShownNow, ShownNext, PhaseCases DEF Shows
<1>5. /\ co[t] \in Waiting => Phase[t] = "waits"
      /\ co'[t] \in Waiting => Phase'[t] = "waits"
    BY ShownNow, ShownNext, PhaseCases DEF Shows
<1>6. /\ co[t] \in Ended => WaitsFor[t] = {}
         /\ Phase[t] = IF frame[t] \in Gone THEN "gone" ELSE "over"
      /\ co'[t] \in Ended => WaitsFor'[t] = {}
         /\ Phase'[t] = IF frame'[t] \in Gone THEN "gone" ELSE "over"
    BY <1>2, ShownNow, ShownNext, PhaseCases DEF Shows
<1>7. CASE Stays(t)
    BY <1>7, Zenon DEF Stays, Life!Becomes
<1>8. CASE Starts(t)
    <2>1. Phase[t] = "none" /\ Phase'[t] = "waits"
        BY <1>5, <1>8, ShownNow, ShownNext, PhaseCases DEF Shows, Starts
    <2> QED
        BY <1>1, <2>1, Zenon
           DEF Life!Dispatch, Life!WaitsFrom, Life!Becomes
<1>9. CASE Works(t)
    <2>1. Phase'[t] = Phase[t] /\ WaitsFor'[t] = WaitsFor[t]
        BY <1>3, <1>4, <1>9 DEF Works
    <2> QED
        BY <2>1, Zenon DEF Life!Becomes
<1>10. CASE StopsToWait(t)
    <2>1. Phase[t] = "runs" /\ Phase'[t] = "waits"
        BY <1>3, <1>5, <1>10 DEF StopsToWait
    <2> QED
        BY <1>1, <2>1, Zenon DEF Life!Suspend, Life!WaitsFrom, Life!Becomes
<1>11. CASE GoesOn(t)
    <2>1. Phase[t] = "waits" /\ Phase'[t] = "runs" /\ WaitsFor'[t] = {}
        BY <1>4, <1>5, <1>11 DEF GoesOn
    <2>2. \A e \in WaitsFor[t] : Life!Happened(e)'
        BY <1>11 DEF GoesOn, Life!Happened
    <2> QED
        BY <2>1, <2>2, Zenon DEF Life!GoOn, Life!Becomes
<1>12. CASE Ends(t)
    <2>1. Phase[t] = "runs" /\ Phase'[t] \in {"over", "gone"} /\ WaitsFor'[t] = {}
        BY <1>3, <1>6, <1>12 DEF Ends
    <2> QED
        BY <2>1, Zenon DEF Life!End, Life!Becomes
<1>13. CASE Leaves(t)
    <2>1. WaitsFor'[t] = {} /\ WaitsFor[t] = {}
        BY <1>6, <1>13 DEF Leaves
    <2>2. Phase'[t] = Phase[t] \/ (Phase[t] = "over" /\ Phase'[t] = "gone")
        BY <1>6, <1>13 DEF Leaves
    <2> QED
        BY <2>1, <2>2, Zenon DEF Life!Leave, Life!Becomes
<1> QED
    BY <1>7, <1>8, <1>9, <1>10, <1>11, <1>12, <1>13 DEF Lives

-----------------------------------------------------------------------------
(* Every step is a step of TaskLife.                                       *)

\* A coroutine that a step leaves where it is waits for what it did.
LEMMA Rests ==
    ASSUME IInv, Steady, NEW t \in Frame, co'[t] = co[t], at'[t] = at[t]
    PROVE  Lives(t)
<1>1. co[t] # "none" => Dispatched(t)
    BY DEF FreshInv
<1>2. t <= next \/ ~ Dispatched(t)
    BY Frames DEF Dispatched, TypeOK
<1>3. CASE co[t] = "none"
    <2>1. Phase'[t] = Phase[t] /\ WaitsFor'[t] = WaitsFor[t]
        BY <1>3, ShownNow, ShownNext, PhaseCases DEF Shows, Waiting, Waits
    <2> QED
        BY <2>1 DEF Lives, Stays
<1>4. CASE co[t] \in Waiting
    <2>1. Phase'[t] = Phase[t]
        BY <1>4, ShownNow, ShownNext, PhaseCases DEF Shows
    <2>2. PICK acc : acc = form[t].acc
        OBVIOUS
    <2>3. form'[t].acc = acc
        BY <1>1, <1>4, <2>2 DEF Steady, FormsStay, Waiting, Waits
    <2>4. Ahead(t, acc)' = Ahead(t, acc)
        BY <1>1, <1>2, <1>4, Aheads DEF Steady, Waiting, Waits
    <2>5. Ahead(t, form[t].acc)' = Ahead(t, form[t].acc)
        BY <2>2, <2>3, <2>4 DEF Ahead
    <2>6. co[t] = "waitsBarrier" =>
              {c \in Task : parent'[c] = t} = {c \in Task : parent[c] = t}
        BY DEF Steady, ParentsStay
    <2>7. WaitsFor'[t] = WaitsFor[t]
        <3>1. CASE co[t] = "waiting"
            BY <2>5, <3>1 DEF WaitsFor, Ahead, Serial
        <3>2. CASE co[t] \in {"waitsSync", "waitsGet"}
            BY <3>2 DEF WaitsFor, Ahead, Serial
        <3>3. CASE co[t] = "waitsBarrier"
            BY <2>6, <3>3 DEF WaitsFor, Ahead, Serial
        <3> QED
            BY <1>4, <3>1, <3>2, <3>3 DEF Waiting, Waits
    <2> QED
        BY <2>1, <2>7 DEF Lives, Stays
<1>5. CASE co[t] \in Working
    BY <1>5 DEF Lives, Works
<1>6. CASE co[t] \in Ended
    BY <1>6 DEF Lives, Leaves, Steady, FramesGo
<1> QED
    BY <1>3, <1>4, <1>5, <1>6 DEF TypeOK, Label, Waits, Waiting, Working, Ended

\* A step of one coroutine.
LEMMA Alone ==
    ASSUME IInv, Steady, NEW p \in Frame, Lives(p),
           \A u \in Frame : u # p => co'[u] = co[u] /\ at'[u] = at[u]
    PROVE  \A t \in Frame : Lives(t)
BY Rests

\* A body works on, whether it goes to the next access or into the next statement.
LEMMA WorksOn ==
    ASSUME IInv, Steady, NEW p \in Frame, co[p] \in Working,
           NEW x \in Working \cup Waiting \cup Ended, co' = [co EXCEPT ![p] = x],
           \A u \in Frame : u # p => at'[u] = at[u]
    PROVE  \A t \in Frame : Lives(t)
<1>1. co'[p] = x /\ \A u \in Frame : u # p => co'[u] = co[u]
    BY DEF TypeOK
<1>2. Lives(p)
    BY <1>1 DEF Lives, Works, StopsToWait, Ends
<1> QED
    BY <1>1, <1>2, Alone

LEMMA CreateLives ==
    ASSUME IInv, Steady, NEW p \in Frame, NEW f \in Forms, Create(p, f)
    PROVE  \A t \in Frame : Lives(t)
<1>1. co[p] = "running"
    BY DEF Create, Running
<1>2. Lives(p)
    BY <1>1, CreateForms DEF Lives, Works, StopsToWait, Working, Waiting, Waits, Busy
<1>3. Lives(next)
    BY CreateForms DEF Lives, Starts, Waiting, Waits
<1>4. \A u \in Frame : u # p /\ u # next => Lives(u)
    BY CreateForms, Rests
<1> QED
    BY <1>2, <1>3, <1>4

LEMMA BodyLives ==
    ASSUME IInv, Steady, NEW p \in Frame, Body(p)
    PROVE  \A t \in Frame : Lives(t)
<1>1. ASSUME NEW f \in Forms, Create(p, f)
      PROVE  \A t \in Frame : Lives(t)
    BY <1>1, CreateLives
<1>2. ASSUME NEW c \in Task, Get(p, c) \/ Clear(p, c) \/ Assign(p, c)
      PROVE  \A t \in Frame : Lives(t)
    <2>1. co[p] \in Working
        BY <1>2 DEF Get, Clear, Assign, Running, Working
    <2>2. \A u \in Frame : u # p => at'[u] = at[u]
        BY <1>2 DEF Get, Clear, Assign, TypeOK
    <2>3. PICK x \in {"take", "getStore", "release"} : co' = [co EXCEPT ![p] = x]
        BY <1>2 DEF Get, Clear, Assign
    <2> QED
        BY <2>1, <2>2, <2>3, WorksOn DEF Working, Busy
<1>3. CASE Return(p)
    <2>1. co[p] \in Working /\ "returned" \in Working
        BY <1>3 DEF Return, Running, Working
    <2> QED
        BY <1>3, <2>1, WorksOn DEF Return
<1> QED
    BY <1>1, <1>2, <1>3 DEF Body

LEMMA GoneNow ==
    ASSUME IInv, Steady, NEW u \in Frame, Dispatched(u), frame[u] \in Gone
    PROVE  co[u] \in {"transfer", "done"} /\ (co'[u] = co[u] => Phase'[u] = "gone")
<1>1. co[u] \in {"transfer", "done"}
    BY Counted DEF Gone
<1>2. frame'[u] \in Gone
    BY DEF Steady, FramesGo
<1> QED
    BY <1>1, <1>2, ShownNext, PhaseCases DEF Shows, Ended

\* What a coroutine waits for has happened when it is resumed.
LEMMA ResumeLives ==
    ASSUME IInv, ReadyInv, FlagInv, NeverAdrift, Steady, NEW t \in Frame, Resume(t)
    PROVE  \A u \in Frame : Lives(u)
<1>1. /\ tokens[t] > 0
      /\ co[t] \in {"waiting", "pushed", "waitsBarrier", "waitsSync", "waitsGet"}
      /\ co'[t] \in {"take", "running"} /\ \A u \in Frame : u # t => co'[u] = co[u]
      /\ at' = at
    BY DEF Resume, TypeOK
<1>2. Dispatched(t)
    BY <1>1 DEF FreshInv
<1>3. co'[t] \in Working
    BY <1>1 DEF Working, Busy
<1>4. ASSUME NEW u \in Frame, Dispatched(u), frame[u] \in Gone
      PROVE  Phase'[u] = "gone"
    <2>1. u # t
        BY <1>1, <1>4, GoneNow
    <2> QED
        BY <1>1, <1>4, <2>1, GoneNow
<1>5. CASE co[t] = "pushed"
    <2>1. Lives(t)
        BY <1>3, <1>5 DEF Lives, Works, Working
    <2> QED
        BY <1>1, <2>1, Alone
<1>6. CASE co[t] # "pushed"
    <2>1. co[t] \in Waiting
        BY <1>1, <1>6 DEF Waiting, Waits
    <2>2. ASSUME co[t] = "waiting"
          PROVE  \A e \in WaitsFor[t] : Phase'[e[1]] \in {e[2], "gone"}
        <3>1. \A e \in WaitsFor[t] : e[1] \in Ahead(t, form[t].acc) /\ e[2] = "gone"
            BY <2>2 DEF WaitsFor, Ahead, Serial
        <3>2. Ready(t, form[t].acc)
            BY <1>1, <1>2, <2>2, Frames
               DEF ReadyInv, Granted, Ready, Ahead, RootInv, RootForm
        <3>3. \A u \in Ahead(t, form[t].acc) :
                  u \in Frame /\ Dispatched(u) /\ frame[u] \in Gone
            BY <1>2, <3>2, Frames DEF Ready, Ahead, Gone, Dispatched, TypeOK
        <3> QED
            BY <1>4, <3>1, <3>3
    <2>3. ASSUME co[t] \in {"waitsSync", "waitsGet"}
          PROVE  \A e \in WaitsFor[t] : Phase'[e[1]] \in {e[2], "gone"}
        <3>1. \A e \in WaitsFor[t] : e = <<at[t], "over">>
            BY <2>3 DEF WaitsFor, Ahead, Serial
        <3>2. at[t] \in Frame /\ co[at[t]] \in Ended /\ at[t] # t
            BY <1>1, <2>3, Frames DEF TokenInv, BusyInv, With, Ended
        <3>3. Phase'[at[t]] \in {"over", "gone"}
            BY <1>1, <3>2, ShownNext, PhaseCases DEF Shows
        <3> QED
            BY <3>1, <3>3
    <2>4. ASSUME co[t] = "waitsBarrier"
          PROVE  \A e \in WaitsFor[t] : Phase'[e[1]] \in {e[2], "gone"}
        <3>1. \A e \in WaitsFor[t] : e[1] \in Task /\ parent[e[1]] = t /\ e[2] = "gone"
            BY <2>4 DEF WaitsFor, Ahead, Serial
        <3>2. \E f \in Forms : f.kind = "barrier"
            BY <2>4 DEF BusyInv, With, TreeInv
        <3>3. ~ Adrift(t)
            BY <1>2, <3>2 DEF NeverAdrift, FlagInv, Adrift
        <3>4. Kids(t) = {}
            BY <1>1, <2>4, <3>3 DEF PassedInv
        <3>5. \A c \in Task : parent[c] = t =>
                  c \in Frame /\ Dispatched(c) /\ frame[c] \in Gone
            BY <3>4, Frames DEF Kids, FreshInv, Gone
        <3> QED
            BY <1>4, <3>1, <3>5
    <2>5. GoesOn(t)
        BY <1>1, <1>3, <1>6, <2>1, <2>2, <2>3, <2>4 DEF GoesOn
    <2> QED
        BY <1>1, <2>5, Alone DEF Lives
<1> QED
    BY <1>5, <1>6

LEMMA StepLives ==
    ASSUME IInv, ReadyInv, FlagInv, NeverAdrift, Steady, NEW p \in Frame, Step(p)
    PROVE  \A t \in Frame : Lives(t)
<1>1. CASE Resume(p)
    BY <1>1, ResumeLives
<1>2. CASE Hand(p)
    BY <1>2, Rests DEF Hand
<1>3. CASE Transform(p) \/ SyncStore(p) \/ SyncCas(p) \/ GetStore(p) \/ GetCas(p)
           \/ Keep(p) \/ Take(p) \/ Release(p) \/ Destroyed(p) \/ DispatchAsync(p)
    <2>1. co[p] \in Working
        BY <1>3 DEF Transform, SyncStore, SyncCas, GetStore, GetCas, Keep, Take, Release,
            Destroyed, DispatchAsync, Working, Busy
    <2>2. \A u \in Frame : u # p => at'[u] = at[u]
        BY <1>3 DEF Transform, SyncStore, SyncCas, GetStore, GetCas, Keep, Take, Release,
            Destroyed, DispatchAsync, TypeOK
    <2>3. PICK x \in {"dispatch", "syncStore", "syncCas", "waitsSync", "getCas", "waitsGet",
                      "take", "release", "destroys", "running", "returned", "pushed"} :
              co' = [co EXCEPT ![p] = x]
        BY <1>3 DEF Transform, SyncStore, SyncCas, GetStore, GetCas, Keep, Take, Release,
            Destroyed, DispatchAsync, BodyOf
    <2> QED
        BY <2>1, <2>2, <2>3, WorksOn DEF Working, Busy, Waiting, Waits
<1>4. CASE EnterBarrier(p) \/ FinalSuspend(p)
    <2>1. co[p] \in Working /\ at' = at
        BY <1>4 DEF EnterBarrier, FinalSuspend, Running, Working
    <2>2. PICK x \in {"returned", "final"} : co' = [co EXCEPT ![p] = x]
        BY <1>4 DEF EnterBarrier, FinalSuspend
    <2> QED
        BY <2>1, <2>2, WorksOn DEF Working, Ended
<1>5. CASE FinalDelete(p) \/ Transfer(p)
    <2>1. co[p] \in Ended /\ co'[p] \in Ended /\ at' = at
          /\ \A u \in Frame : u # p => co'[u] = co[u]
        BY <1>5 DEF FinalDelete, Transfer, Ended, TypeOK
    <2>2. Lives(p)
        BY <2>1 DEF Lives, Leaves, Steady, FramesGo
    <2> QED
        BY <2>1, <2>2, Alone
<1> QED
    BY <1>1, <1>2, <1>3, <1>4, <1>5 DEF Step

LEMMA NextLives ==
    ASSUME IInv, ReadyInv, FlagInv, NeverAdrift, [Next]_vars
    PROVE  \A t \in Frame : Lives(t)
<1>1. Steady
    BY StepSteady
<1>2. CASE UNCHANGED <<co, at>>
    BY <1>1, <1>2, Rests
<1>3. ASSUME NEW p \in Frame, Body(p) \/ Step(p)
      PROVE  \A t \in Frame : Lives(t)
    BY <1>1, <1>3, BodyLives, StepLives
<1> QED
    BY <1>2, <1>3 DEF Next, Finish, SyncTail, BarrierClear, BarrierDrop, Deregister, Free,
        CheckBarrier, PassBarrier, MainGet, SpuriousWakeup, MainSpin, MainReset, Terminated

LEMMA InitLife == Init => Life!Init
<1> SUFFICES ASSUME Init PROVE Life!Init
    OBVIOUS
<1>1. \A t \in Frame : co[t] \in {"none", "waiting"} /\ form[t].acc = {}
    BY DEF Init, RootForm
<1>2. \A t \in Frame : Phase[t] \in {"none", "waits"}
    BY <1>1, ShownNow, PhaseCases DEF Shows, Waiting, Waits
<1>3. \A t \in Frame : WaitsFor[t] = {}
    <2>1. \A t \in Frame : Ahead(t, form[t].acc) = {}
        BY <1>1 DEF Ahead
    <2> QED
        BY <1>1, <2>1 DEF WaitsFor, Ahead, Serial
<1>4. Phase \in [Frame -> {"none", "waits"}] /\ WaitsFor = [t \in Frame |-> {}]
    BY <1>2, <1>3 DEF Phase, WaitsFor, Ahead, Serial
<1> QED
    BY <1>4, Zenon DEF Life!Init

\* A task is dispatched, runs and waits by turns, and ends once; what it waits for, the
\* earlier tasks on its resources, the task it awaits or all that count for it, has
\* happened when it goes on (Task.hpp, dispatchTask.hpp, BarrierQueue.hpp).
THEOREM LifeRefinement == ASSUME NeverAdrift PROVE Spec => ImplementsLife
<1>1. Init => Life!Init
    BY InitLife
<1>2. IInv => EventsTyped
    BY EventTypes
<1>3. IInv /\ [Next]_vars => IInv'
    BY NextKeeps
<1>4. IInv /\ ReadyInv /\ FlagInv /\ EventsTyped' /\ [Next]_vars => Life!Next
    BY NextLives, LifeNext
<1> QED
    BY <1>1, <1>2, <1>3, <1>4, Extended, PTL DEF Spec, Life!Spec, ImplementsLife
=============================================================================
