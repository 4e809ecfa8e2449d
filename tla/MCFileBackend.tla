-------------------------- MODULE MCFileBackend --------------------------
(***************************************************************************)
(* FileBackend with three puts racing on one address and one on another.   *)
(***************************************************************************)
EXTENDS FileBackend, TLC

CONSTANTS a, b, p1, p2, p3, p4

MCIds  == {a, b}
MCPuts == {p1, p2, p3, p4}
MCIdOf == p1 :> a @@ p2 :> a @@ p3 :> a @@ p4 :> b
Racers == Permutations({p1, p2, p3})
============================================================================
