----------------------------- MODULE MCTaskTree -----------------------------
(***************************************************************************)
(* Instances of TaskTree: which dispatches the programs may contain.       *)
(***************************************************************************)
EXTENDS TaskTree

MCResources == {"R", "S"}
NoAccess == {}
Reads(r) == {<<r, "Read">>}
Writes(r) == {<<r, "Write">>}
Both == Writes("R") \cup Writes("S")

Dispatched(kind, acc) ==
    [kind |-> kind, void |-> FALSE, fin |-> FALSE, named |-> TRUE, acc |-> acc]

Async(acc) == Dispatched("async", acc)
Sync(acc) == Dispatched("sync", acc)
Barrier(acc) == [Dispatched("barrier", acc) EXCEPT !.void = TRUE, !.named = FALSE]
Temporary(f) == [f EXCEPT !.named = FALSE]

Void(f) == [f EXCEPT !.void = TRUE]

\* dispatch_task<.., true>, as in examples/fib.cpp.
Finished(f) == [f EXCEPT !.fin = TRUE]

\* Tasks that read together are awaited by get(), one that writes synchronously,
\* and others without a parent.
MCAwaits == {Async(Reads("R")), Sync(Writes("R")), Finished(Sync(NoAccess))}

\* Barriers after and between dispatches, at every level.
MCBarriers == {Async(NoAccess), Barrier(NoAccess)}

\* Everything that may wait: for a task, a resource or the tasks of a barrier.
MCWaits == {Async(Writes("R")), Void(Async(NoAccess)), Sync(NoAccess),
            Temporary(Sync(Writes("R"))), Barrier(Both)}

\* How the tests dispatch.
MCTemporaries == {Temporary(Async(Writes("R"))), Temporary(Async(NoAccess))}

\* Synchronous dispatches of a task that waits for another.
MCSync == {Async(Writes("R")), Sync(Writes("R"))}
=============================================================================
