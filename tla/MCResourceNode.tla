--------------------------- MODULE MCResourceNode ---------------------------
(***************************************************************************)
(* Instances of ResourceNode for TLC.  The sentinel is scaled down to a    *)
(* number no sum of counts reaches; every other constant keeps its meaning.*)
(***************************************************************************)
EXTENDS ResourceNodeInv

\* One access to one node.
OneNode(n, modes) == {<<[node |-> n, mode |-> m]>> : m \in modes}

\* One access to each of two nodes, in either order.
BothNodes(a, b, modes) ==
    {<<[node |-> a, mode |-> m], [node |-> b, mode |-> l]>> : m, l \in modes}

MCNodes1 == {"n1"}
MCNodes2 == {"n1", "n2"}

\* One node, read and written.
MCReadWrite == OneNode("n1", {"Read", "Write"})
MCWriteOnly == OneNode("n1", {"Write"}) \cup OneNode("n2", {"Write"})
                 \cup BothNodes("n1", "n2", {"Write"})

\* Two nodes: none, the first, or both in either order.  Adding tasks run together,
\* readers run together, and the two kinds exclude each other.
MCTwoNodes ==
    {<<>>} \cup OneNode("n1", {"AAdd", "Write"})
    \cup {<<[node |-> "n1", mode |-> "Read"], [node |-> "n2", mode |-> "Write"]>>}
    \cup BothNodes("n2", "n1", {"Write"})

MCHandles == 1..4
MCNoHandle == 0

\* A frame gets an address of its own, or that of the task before it, once
\* that one is freed.
MCReusedHandles == [t \in Task |-> {t, t - 1} \ {MCNoHandle}]

=============================================================================
