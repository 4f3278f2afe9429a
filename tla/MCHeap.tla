------------------------------- MODULE MCHeap -------------------------------
(* Two threads with a P and one without, for TLC. *)
EXTENDS Heap, TLC

CONSTANTS m1, m2, m3, p1, p2

MCThreads == {m1, m2, m3}
MCPs == {p1, p2}
MCPOf == m1 :> p1 @@ m2 :> p2 @@ m3 :> NoP
\* A small block, and one that is too large for a chunk.
MCRequests == {<<1, 2>>, <<4, 1>>}
\* Nothing else is mapped, or the place of the hint.
MCOthers == {{}, {8}}
MCHints == <<8>>
MCLevels == <<[chunks |-> 4, block |-> 1], [chunks |-> 1, block |-> 4]>>
\* The two threads with a P are alike.
MCSymmetry == {m1 :> m2 @@ m2 :> m1 @@ p1 :> p2 @@ p2 :> p1}
=============================================================================
