---------------------------- MODULE FileBackend ----------------------------
(***************************************************************************)
(* The file backend's put (FileBackend.ts, putBytes): temp file, hard      *)
(* link, remove the scaffold.  Puts of one address race, in one process or *)
(* in several, and share nothing but the file system.  Every put of an     *)
(* address writes the same bytes, because the address is their digest.     *)
(*                                                                         *)
(* A put fails when a file system call of it fails, is interrupted between *)
(* calls, or is killed.  Objects at rest may be damaged.  Power loss is    *)
(* not modelled: no fsync is claimed.                                      *)
(***************************************************************************)
EXTENDS Naturals

CONSTANTS
    Ids,
    Puts,           \* the puts of one run, each run once
    IdOf,           \* the address each put is about
    Absent,         \* no file at the object's path, or no scaffold
    Whole,          \* the bytes that hash to the address
    Part,           \* some of those bytes
    Other,          \* other bytes
    MaxDamage       \* bound: objects damaged while puts run

ASSUME BackendAssumption ==
    /\ IdOf \in [Puts -> Ids]
    /\ MaxDamage \in Nat
    /\ Absent \notin {Whole, Part, Other}
    /\ Whole \notin {Part, Other}
    /\ Part # Other

VARIABLES
    object,     \* per address: what its path holds
    scaffold,   \* per put: what its temp file holds, in its own directory
    stage,      \* per put: where it stands
    outcome,    \* per put: what the use of the scaffold came to
    answer,     \* per put: what it answered
    damage

vars == <<object, scaffold, stage, outcome, answer, damage>>

Stages == {"new", "exists", "fresh", "write", "link", "compare",
           "lostRace", "release", "done"}

TypeOK ==
    /\ object \in [Ids -> {Absent, Whole, Other}]
    /\ scaffold \in [Puts -> {Absent, Part, Whole}]
    /\ stage \in [Puts -> Stages]
    /\ outcome \in [Puts -> {"none", "ok", "failed", "interrupted"}]
    /\ answer \in [Puts -> {"none", "ok", "failed"}]
    /\ damage \in 0..MaxDamage

Init ==
    /\ object \in [Ids -> {Absent, Whole, Other}]
    /\ scaffold = [p \in Puts |-> Absent]
    /\ stage = [p \in Puts |-> "new"]
    /\ outcome = [p \in Puts |-> "none"]
    /\ answer = [p \in Puts |-> "none"]
    /\ damage = 0

----------------------------------------------------------------------------
Target(p) == object[IdOf[p]]

Go(p, s) == stage' = [stage EXCEPT ![p] = s] /\ UNCHANGED <<outcome, answer>>

Answer(p, a) ==
    /\ stage' = [stage EXCEPT ![p] = "done"]
    /\ answer' = [answer EXCEPT ![p] = a]
    /\ UNCHANGED outcome

(* The use of the scaffold ends, and the release is owed.                  *)
Used(p, o) ==
    /\ stage' = [stage EXCEPT ![p] = "release"]
    /\ outcome' = [outcome EXCEPT ![p] = o]
    /\ UNCHANGED answer

Start(p) ==
    /\ stage[p] = "new"
    /\ Go(p, "exists")
    /\ UNCHANGED <<object, scaffold, damage>>

(* exists, then the compare or the fresh write.                            *)
Exists(p) ==
    /\ stage[p] = "exists"
    /\ \/ Go(p, IF Target(p) # Absent THEN "compare" ELSE "fresh")
       \/ Answer(p, "failed")
    /\ UNCHANGED <<object, scaffold, damage>>

(* compareResident: the bytes at the path are those the put would write.   *)
ResidentTrusted(p) == TRUE

CompareResident(p) == Target(p) = Whole

(* A repeated put: no scaffold is made.                                    *)
Compare(p) ==
    /\ stage[p] = "compare"
    /\ \/ CompareResident(p) /\ Answer(p, "ok")
       \/ Answer(p, "failed")
    /\ UNCHANGED <<object, scaffold, damage>>

(* makeDirectory and makeTempFile, which leaves an empty file.  The second *)
(* may fail after it made the directory: then nothing owns the scaffold.   *)
MakeTemp(p) ==
    /\ stage[p] = "fresh"
    /\ \/ scaffold' = [scaffold EXCEPT ![p] = Part] /\ Go(p, "write")
       \/ scaffold' \in {scaffold, [scaffold EXCEPT ![p] = Part]} /\ Answer(p, "failed")
    /\ UNCHANGED <<object, damage>>

(* writeFile: the temp file fills, and stays part-filled when it fails.    *)
WriteTemp(p) ==
    /\ stage[p] = "write"
    /\ \/ scaffold' = [scaffold EXCEPT ![p] = Whole] /\ Go(p, "link")
       \/ UNCHANGED scaffold /\ Used(p, "failed")
    /\ UNCHANGED <<object, damage>>

(* link: the object path appears with the temp file's content, and only    *)
(* where nothing is.  A lost race is settled by a compare.                 *)
RenameOver(p) ==
    /\ stage[p] = "link"
    /\ object' = [object EXCEPT ![IdOf[p]] = scaffold[p]]
    /\ Used(p, "ok")
    /\ UNCHANGED <<scaffold, damage>>

Link(p) ==
    /\ stage[p] = "link"
    /\ \/ /\ Target(p) = Absent
          /\ object' = [object EXCEPT ![IdOf[p]] = scaffold[p]]
          /\ Used(p, "ok")
       \/ Target(p) # Absent /\ UNCHANGED object /\ Go(p, "lostRace")
       \/ UNCHANGED object /\ Used(p, "failed")
    /\ UNCHANGED <<scaffold, damage>>

(* The winner's bytes decide the put that lost the race.                   *)
SettleRace(p) ==
    /\ stage[p] = "lostRace"
    /\ \/ CompareResident(p) /\ Used(p, "ok")
       \/ Used(p, "failed")
    /\ UNCHANGED <<object, scaffold, damage>>

(* The release runs on every exit.  One that cannot clean up fails the     *)
(* put, and an interrupted put answers nobody.                             *)
AnswerOf(o) == IF o = "interrupted" THEN "none" ELSE o

CleanupFailed(p) ==
    Answer(p, IF outcome[p] = "interrupted" THEN "none" ELSE "failed")

Release(p) ==
    /\ stage[p] = "release"
    /\ \/ /\ scaffold' = [scaffold EXCEPT ![p] = Absent]
          /\ Answer(p, AnswerOf(outcome[p]))
       \/ UNCHANGED scaffold /\ CleanupFailed(p)
    /\ UNCHANGED <<object, damage>>

(* Interrupted between two file system calls, or with the link under way,  *)
(* which may still land.  Making the temp file is the acquire and is not   *)
(* interruptible; its use is.                                              *)
Interrupt(p) ==
    /\ \/ /\ stage[p] \in {"exists", "compare", "fresh"}
          /\ Answer(p, "none") /\ UNCHANGED object
       \/ /\ stage[p] \in {"write", "link", "lostRace"}
          /\ Used(p, "interrupted") /\ UNCHANGED object
       \/ /\ stage[p] = "link" /\ Target(p) = Absent
          /\ object' = [object EXCEPT ![IdOf[p]] = scaffold[p]]
          /\ Used(p, "interrupted")
    /\ UNCHANGED <<scaffold, damage>>

(* Killed: no release runs.                                                *)
Kill(p) ==
    /\ stage[p] \notin {"new", "done"}
    /\ Answer(p, "none")
    /\ UNCHANGED <<object, scaffold, damage>>

Damage(id) ==
    /\ damage < MaxDamage
    /\ object[id] = Whole
    /\ object' = [object EXCEPT ![id] = Other]
    /\ damage' = damage + 1
    /\ UNCHANGED <<scaffold, stage, outcome, answer>>

Next ==
    \/ \E p \in Puts :
          \/ Start(p) \/ Exists(p) \/ Compare(p)
          \/ MakeTemp(p) \/ WriteTemp(p) \/ Link(p) \/ SettleRace(p) \/ Release(p)
          \/ Interrupt(p) \/ Kill(p)
    \/ \E id \in Ids : Damage(id)

Spec == Init /\ [][Next]_vars

----------------------------------------------------------------------------
(* What the backend promises.                                              *)

(***************************************************************************)
(* "A crashed write leaves only a temp file, never a half object, and the  *)
(* link creates the final path atomically without overwriting a concurrent *)
(* winner" (FileBackend.ts): the object paths are a joining byte plane.    *)
(***************************************************************************)
Plane == INSTANCE BytePlane WITH bytes <- object

RefinesPlane == Plane!Spec

(***************************************************************************)
(* "The winner's bytes are compared before a racing or repeated put        *)
(* succeeds": unless an object was damaged after the fact, a put that      *)
(* answered success has exactly its bytes at its address.                  *)
(***************************************************************************)
SucceededResident ==
    \A p \in Puts : answer[p] = "ok" /\ Target(p) # Whole => damage > 0

(***************************************************************************)
(* A put that answered success left no scaffold in the fanout: "a release  *)
(* that cannot clean up still fails the put rather than reporting a        *)
(* success it did not finish".                                             *)
(***************************************************************************)
SucceededClean == \A p \in Puts : answer[p] = "ok" => scaffold[p] = Absent

(***************************************************************************)
(* A success is finished: the bytes are in place and nothing is left over, *)
(* whoever won the race and whatever the removal of the temp file did.     *)
(***************************************************************************)
SuccessFinished == SucceededResident /\ SucceededClean
============================================================================
