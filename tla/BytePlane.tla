----------------------------- MODULE BytePlane -----------------------------
(***************************************************************************)
(* What a joining byte plane promises the store law above it (Backend.ts,  *)
(* ByteWriterShape: "one join"): an address is absent until one put        *)
(* makes it resident, whole and at once, and no put changes it again.      *)
(* Only damage at rest, which no put does, alters resident bytes.          *)
(***************************************************************************)
CONSTANTS Ids, Absent, Whole, Other

VARIABLE bytes      \* per address: Absent, the Whole object, or Other bytes

Init == bytes \in [Ids -> {Absent, Whole, Other}]

Join(id) ==
    /\ bytes[id] = Absent
    /\ bytes' = [bytes EXCEPT ![id] = Whole]

Damage(id) ==
    /\ bytes[id] = Whole
    /\ bytes' = [bytes EXCEPT ![id] = Other]

Next == \E id \in Ids : Join(id) \/ Damage(id)

Spec == Init /\ [][Next]_bytes
============================================================================
