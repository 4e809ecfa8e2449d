------------------------- MODULE FileBackendProofs -------------------------
(***************************************************************************)
(* Proofs about FileBackend, for every number of racing puts and every set *)
(* of addresses: the object paths are a joining byte plane, and a put that *)
(* answered success tells the truth.                                       *)
(***************************************************************************)
EXTENDS FileBackend, TLAPS

USE BackendAssumption

(* What a put knows at each stage.  A link is only tried on a whole temp   *)
(* file; before the temp file there is no scaffold to leave behind; and    *)
(* what came to success met the whole object at its address.               *)
PutSound(p) ==
    /\ stage[p] = "link" => scaffold[p] = Whole
    /\ stage[p] \in {"new", "exists", "compare", "fresh"} => scaffold[p] = Absent
    /\ stage[p] = "release" => outcome[p] # "none"
    /\ answer[p] # "none" => stage[p] = "done"
    /\ answer[p] = "ok" => scaffold[p] = Absent
    /\ (answer[p] = "ok" \/ outcome[p] = "ok") /\ Target(p) # Whole => damage > 0

IInv == TypeOK /\ \A p \in Puts : PutSound(p)

LEMMA InitIInv == Init => IInv
  BY DEF Init, IInv, TypeOK, PutSound, Stages

(* The steps of one put, and what each may do to the object paths.         *)
PutStep(p) ==
    \/ Start(p) \/ Exists(p) \/ Compare(p)
    \/ MakeTemp(p) \/ WriteTemp(p) \/ Link(p) \/ SettleRace(p) \/ Release(p)
    \/ Interrupt(p) \/ Kill(p)

LEMMA PutStepTypes ==
    ASSUME IInv, NEW p \in Puts, PutStep(p)
    PROVE  TypeOK'
<1> USE DEF IInv, TypeOK, Stages, Go, Answer, Used
<1>1. CASE Start(p) \/ Exists(p) \/ Compare(p)
  BY <1>1 DEF Start, Exists, Compare
<1>2. CASE MakeTemp(p) \/ WriteTemp(p)
  BY <1>2 DEF MakeTemp, WriteTemp
<1>3. CASE Link(p)
  <2>1. scaffold[p] = Whole
    BY <1>3 DEF Link, PutSound
  <2>2. object' \in [Ids -> {Absent, Whole, Other}]
    BY <1>3, <2>1 DEF Link
  <2>3. QED BY <1>3, <2>2 DEF Link
<1>4. CASE SettleRace(p)
  BY <1>4 DEF SettleRace
<1>5. CASE Release(p)
  <2>1. scaffold' \in [Puts -> {Absent, Part, Whole}]
    BY <1>5 DEF Release
  <2>2. outcome[p] \in {"ok", "failed", "interrupted"}
    BY <1>5 DEF Release, PutSound
  <2>3. QED BY <1>5, <2>1, <2>2 DEF Release, AnswerOf, CleanupFailed
<1>6. CASE Interrupt(p)
  <2>1. stage[p] = "link" => scaffold[p] = Whole
    BY DEF PutSound
  <2>2. object' \in [Ids -> {Absent, Whole, Other}]
    BY <1>6, <2>1 DEF Interrupt
  <2>3. QED BY <1>6, <2>2 DEF Interrupt
<1>7. CASE Kill(p)
  BY <1>7 DEF Kill
<1>8. QED BY <1>1, <1>2, <1>3, <1>4, <1>5, <1>6, <1>7 DEF PutStep

(* A put leaves the other puts' bookkeeping alone, the object paths too    *)
(* but for the whole object its link may add.                              *)
LEMMA PutStepFrame ==
    ASSUME IInv, NEW p \in Puts, PutStep(p)
    PROVE  /\ damage' = damage
           /\ \A q \in Puts \ {p} : /\ scaffold'[q] = scaffold[q]
                                   /\ stage'[q] = stage[q]
                                   /\ outcome'[q] = outcome[q]
                                   /\ answer'[q] = answer[q]
           /\ \/ object' = object
              \/ /\ Target(p) = Absent
                 /\ object' = [object EXCEPT ![IdOf[p]] = Whole]
<1> USE DEF IInv, TypeOK, Go, Answer, Used
<1>1. CASE Start(p) \/ Exists(p) \/ Compare(p) \/ SettleRace(p)
  BY <1>1 DEF Start, Exists, Compare, SettleRace
<1>2. CASE MakeTemp(p) \/ WriteTemp(p)
  BY <1>2 DEF MakeTemp, WriteTemp
<1>3. CASE Link(p)
  BY <1>3 DEF Link, PutSound
<1>4. CASE Release(p) \/ Kill(p)
  BY <1>4 DEF Release, CleanupFailed, Kill
<1>5. CASE Interrupt(p)
  <2>1. stage[p] = "link" => scaffold[p] = Whole
    BY DEF PutSound
  <2>2. \/ object' = object
        \/ Target(p) = Absent /\ object' = [object EXCEPT ![IdOf[p]] = Whole]
    BY <1>5, <2>1 DEF Interrupt
  <2>3. QED BY <1>5, <2>2 DEF Interrupt
<1>6. QED BY <1>1, <1>2, <1>3, <1>4, <1>5 DEF PutStep

LEMMA PutStepSound ==
    ASSUME IInv, NEW p \in Puts, PutStep(p), NEW q \in Puts
    PROVE  PutSound(q)'
<1> USE DEF IInv, TypeOK
<1>1. Target(q) = Whole => Target(q)' = Whole
  BY PutStepFrame DEF Target
<1>2. damage' = damage
  BY PutStepFrame
<1>3. CASE q # p
  BY <1>1, <1>2, <1>3, PutStepFrame DEF PutSound
<1>4. CASE q = p
  <2> USE <1>4, <1>1, <1>2 DEF PutSound, Go, Answer, Used
  <2>1. CASE Start(p) \/ Exists(p)
    BY <2>1 DEF Start, Exists
  <2>2. CASE Compare(p)
    BY <2>2 DEF Compare, CompareResident
  <2>3. CASE MakeTemp(p) \/ WriteTemp(p)
    BY <2>3 DEF MakeTemp, WriteTemp
  <2>4. CASE Link(p)
    BY <2>4 DEF Link, Target
  <2>5. CASE SettleRace(p)
    BY <2>5 DEF SettleRace, CompareResident
  <2>6. CASE Release(p)
    BY <2>6 DEF Release, CleanupFailed, AnswerOf
  <2>7. CASE Interrupt(p) \/ Kill(p)
    BY <2>7 DEF Interrupt, Kill
  <2>8. QED BY <2>1, <2>2, <2>3, <2>4, <2>5, <2>6, <2>7 DEF PutStep
<1>5. QED BY <1>3, <1>4

LEMMA DamageIInv ==
    ASSUME IInv, NEW id \in Ids, Damage(id)
    PROVE  IInv'
<1>1. TypeOK'
  BY DEF IInv, TypeOK, Damage
<1>2. ASSUME NEW q \in Puts PROVE PutSound(q)'
  BY DEF IInv, TypeOK, PutSound, Damage, Target
<1>3. QED BY <1>1, <1>2 DEF IInv

LEMMA NextIInv == IInv /\ [Next]_vars => IInv'
<1> SUFFICES ASSUME IInv, [Next]_vars PROVE IInv'
  OBVIOUS
<1>1. ASSUME NEW p \in Puts, PutStep(p) PROVE IInv'
  BY <1>1, PutStepTypes, PutStepSound DEF IInv
<1>2. CASE UNCHANGED vars
  BY <1>2 DEF IInv, TypeOK, PutSound, vars, Target
<1>3. QED BY <1>1, <1>2, DamageIInv DEF Next, PutStep

(* Every put knows what it needs to know at each of its stages.            *)
THEOREM Inductive == Spec => []IInv
  BY InitIInv, NextIInv, PTL DEF Spec

(* Every variable keeps its type: above all, an object path never holds    *)
(* part of an object.                                                      *)
THEOREM TypeCorrect == Spec => []TypeOK
<1>1. IInv => TypeOK
  BY DEF IInv
<1>2. QED BY <1>1, Inductive, PTL

(* A put that answered success has its bytes at its address, unless they   *)
(* were damaged since (FileBackend.ts, compareResident).                   *)
THEOREM SuccessIsResident == Spec => []SucceededResident
<1>1. IInv => SucceededResident
  BY DEF IInv, PutSound, SucceededResident
<1>2. QED BY <1>1, Inductive, PTL

(* A put that answered success left no scaffold behind.                    *)
THEOREM SuccessIsClean == Spec => []SucceededClean
<1>1. IInv => SucceededClean
  BY DEF IInv, PutSound, SucceededClean
<1>2. QED BY <1>1, Inductive, PTL

(* A put that answered success is finished.                                *)
THEOREM SuccessIsFinished == Spec => []SuccessFinished
<1>1. SucceededResident /\ SucceededClean => SuccessFinished
  BY DEF SuccessFinished
<1>2. QED BY <1>1, SuccessIsResident, SuccessIsClean, PTL

(* The object paths implement the joining byte plane: every step of every  *)
(* put joins one whole object where there was none, or changes nothing.    *)
THEOREM ImplementsPlane == Spec => RefinesPlane
<1>1. Init => Plane!Init
  BY DEF Init, Plane!Init
<1>2. ASSUME IInv, [Next]_vars PROVE [Plane!Next]_object
  <2>1. ASSUME NEW p \in Puts, PutStep(p) PROVE [Plane!Next]_object
    <3>1. IdOf[p] \in Ids
      OBVIOUS
    <3>2. QED BY <1>2, <2>1, <3>1, PutStepFrame DEF Target, Plane!Next, Plane!Join
  <2>2. ASSUME NEW id \in Ids, Damage(id) PROVE [Plane!Next]_object
    BY <2>2 DEF Damage, Plane!Next, Plane!Damage
  <2>3. CASE UNCHANGED vars
    BY <2>3 DEF vars
  <2>4. QED BY <1>2, <2>1, <2>2, <2>3 DEF Next, PutStep
<1>3. QED BY <1>1, <1>2, Inductive, PTL DEF Spec, RefinesPlane, Plane!Spec
============================================================================
