----------------------------- MODULE Admission -----------------------------
(***************************************************************************)
(* The pure laws both admission doors share: the read-verification law     *)
(* (Store.ts, verifyNodeBytes) and the admission judgment                  *)
(* (internal/admission.ts, judgeAdmission).                                *)
(*                                                                         *)
(* A byte string is identified with its content address: Ids holds one     *)
(* element per byte string the model tells apart, so "the digest of b is   *)
(* id" is b = id.  This is the collision-freedom of SHA-256 and is the     *)
(* only thing assumed of the address function.  Nodes are the byte strings *)
(* that are a canonical node encoding; Known those of scheme version 0;    *)
(* TagOf and RefsOf are what decoding a canonical node yields.             *)
(***************************************************************************)
EXTENDS Naturals, Sequences

CONSTANTS
    Ids,        \* content addresses, equivalently byte strings
    Nodes,      \* the byte strings that decode and re-encode to themselves
    Known,      \* the nodes whose kind version is CasSchemeVersion
    Tags,       \* kind tags
    TagOf,      \* the kind tag of each node
    RefsOf,     \* the reference list of each node, in declaration order
    NoTag,      \* Option.none() among the collected reference tags
    Absent      \* Option.none() as the answer of loadBytes

Reference == [id : Ids, expectedTag : Tags]

ASSUME AdmissionAssumption ==
    /\ Nodes \subseteq Ids
    /\ Known \subseteq Nodes
    /\ TagOf \in [Nodes -> Tags]
    /\ RefsOf \in [Nodes -> Seq(Reference)]
    /\ NoTag \notin Tags
    /\ Absent \notin Ids

(***************************************************************************)
(* verifyNodeBytes: the verdict on bytes b served at address id.  Canonical*)
(* form is judged before the kind, the kind before the recomputed address. *)
(***************************************************************************)
VerifyNodeBytes(id, b) ==
    IF b \notin Nodes THEN "NonCanonicalBytes"
    ELSE IF b \notin Known THEN "UnknownKind"
    ELSE IF b # id THEN "AddressMismatch"
    ELSE "Verified"

(***************************************************************************)
(* The references of n that the collected tags leave unresolved or at the  *)
(* wrong kind.                                                             *)
(***************************************************************************)
UnmetAbsence(n, tags) == {k \in DOMAIN RefsOf[n] : tags[k] = NoTag}

Unmet(n, tags) ==
    {k \in DOMAIN RefsOf[n] : tags[k] # RefsOf[n][k].expectedTag}

FirstUnmet(n, tags) ==
    CHOOSE k \in Unmet(n, tags) : \A j \in Unmet(n, tags) : k <= j

(***************************************************************************)
(* judgeAdmission: the check order is canonical form, known kind, the      *)
(* references in declaration order (absence before kind mismatch), and     *)
(* last what is resident at the candidate's own address.                   *)
(***************************************************************************)
JudgeAdmission(n, tags, resident) ==
    IF n \notin Nodes THEN "NonCanonical"
    ELSE IF n \notin Known THEN "UnknownKind"
    ELSE IF Unmet(n, tags) # {} THEN
        IF tags[FirstUnmet(n, tags)] = NoTag
        THEN "DanglingReference"
        ELSE "WrongKindReference"
    ELSE IF resident = n THEN "AlreadyResident"
    ELSE IF resident # Absent THEN "Collision"
    ELSE "Admit"
============================================================================
