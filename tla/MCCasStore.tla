---------------------------- MODULE MCCasStore ----------------------------
(***************************************************************************)
(* CasStore on a small world: two leaves of different kinds, a node that   *)
(* references the first leaf, a node whose second reference declares the   *)
(* wrong kind, and one byte string that is not a canonical node.           *)
(***************************************************************************)
EXTENDS CasStore, TLC

CONSTANTS leaf, pair, wrong, odd, junk

MCIds   == {leaf, pair, wrong, odd, junk}
MCNodes == {leaf, pair, wrong, odd}
MCKnown == {leaf, pair, wrong}
MCTags  == {1, 2}
MCTagOf == leaf :> 1 @@ pair :> 2 @@ wrong :> 2 @@ odd :> 1
MCRefsOf ==
    leaf :> <<>>
    @@ pair :> <<[id |-> leaf, expectedTag |-> 1]>>
    @@ wrong :> <<[id |-> leaf, expectedTag |-> 1], [id |-> pair, expectedTag |-> 1]>>
    @@ odd :> <<>>

MCClosures == {{}, {leaf}}

CallerSymmetry == Permutations(Callers)
============================================================================
