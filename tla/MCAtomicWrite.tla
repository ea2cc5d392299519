--------------------------- MODULE MCAtomicWrite ---------------------------
(***************************************************************************)
(* Instances of AtomicWrite: one process per writer, or all threads in     *)
(* one process.                                                            *)
(***************************************************************************)
EXTENDS AtomicWrite, TLC

CONSTANTS w1, w2, r1, p1, p2, t1, t2

\* Two writing processes, the reader a thread of the second one.
TwoPids == w1 :> p1 @@ w2 :> p2 @@ r1 :> p2

OnePid == [th \in Threads |-> p1]

\* A text that one WriteFile may write in part, and one that is shorter.
MCSmallSize == t1 :> 2 @@ t2 :> 1
=============================================================================
