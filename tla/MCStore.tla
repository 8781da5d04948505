------------------------------- MODULE MCStore -------------------------------
(***************************************************************************)
(* Small instances of CFGStore.  Right hand sides are the empty string and   *)
(* "AB" and "BA", whose hashes the code's commutative hash makes equal; the   *)
(* instances differ in whether Key tells them apart.                         *)
(***************************************************************************)
EXTENDS CFGStore, TLC

CONSTANTS eps, AB, BA, c1, c2, c3, P, Q, all, some

MCCells == {c1, c2, c3}
MCStrings == {eps, AB, BA}

\* The symbols of a string multiply: AB and BA collide.
Colliding == (eps :> 0) @@ (AB :> 2) @@ (BA :> 2)
Distinct == (eps :> 0) @@ (AB :> 2) @@ (BA :> 3)

\* search(~P) and search(1 --->* AB | BA): a generator over all the
\* productions that binds P, and one over some of those of variable 1.
MCBinder1 == all :> P
MCBound1 == all :> 0
MCShape1 == all :> MCStrings

MCBinderSome == some :> NoHandle
MCBoundSome == some :> 1
MCShapeSome == some :> {AB, BA}

MCCells2 == {c1, c2}
CellSymmetry == Permutations(MCCells)
=============================================================================
