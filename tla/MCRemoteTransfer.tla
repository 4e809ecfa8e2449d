-------------------------- MODULE MCRemoteTransfer --------------------------
(***************************************************************************)
(* RemoteTransfer on a leaf, a pair above it, and a leaf over the budget;  *)
(* or, in behaviours of their own, readers of proof documents: trees of    *)
(* none, one and three chunks, numbers of two bytes, bytes of three values.*)
(***************************************************************************)
EXTENDS RemoteTransfer, MerkleStream, TLC

VARIABLE audience

CONSTANTS leaf, pair, huge, alice, bob

MCIds      == {leaf, pair, huge}
MCRefs     == leaf :> {} @@ pair :> {leaf} @@ huge :> {}
MCListing  == leaf :> <<leaf>> @@ pair :> <<leaf, pair>> @@ huge :> <<huge>>
MCClosures == {{leaf}}
MCOps      == {alice, bob}
MCVerbs    == alice :> {"push", "load", "publish"} @@ bob :> {"put", "stream", "push", "missing"}
MCBounds   == {[keys |-> k, list |-> 2] : k \in 0..2} \cup {[keys |-> 2, list |-> 1]}
MCMirrors  == {{}, {leaf, pair}}
MCTrees    == {<<>>, <<<<<<2>>>>>>, <<<<<<1>>>>, <<>>, <<<<2>>>>>>}

\* Who there is: callers of the adapter, or a reader of proofs.
MCInit ==
    \/ audience = "callers" /\ Init /\ Unread
    \/ /\ audience = "reader" /\ ProofInit
       /\ mode = "local-authoritative" /\ local = {} /\ held = {}
       /\ bounds = [keys |-> 0, list |-> 2] /\ Init

MCNext == \/ audience = "callers" /\ Next /\ UNCHANGED <<audience, proofVars>>
          \/ audience = "reader" /\ ProofNext /\ UNCHANGED <<audience, vars>>

MCSpec == /\ MCInit /\ [][MCNext]_<<audience, vars, proofVars>>
          /\ \A c \in Ops : WF_vars(Adapter(c))
=============================================================================
