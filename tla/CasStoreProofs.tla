-------------------------- MODULE CasStoreProofs --------------------------
(***************************************************************************)
(* Proofs about CasStore, for every set of content, every reference graph, *)
(* any number of callers, any closures and any amount of damage.           *)
(***************************************************************************)
EXTENDS CasStore, SequenceTheorems, TLAPS

USE AdmissionAssumption, StoreAssumption

----------------------------------------------------------------------------
(* Lemmas on the judgment.                                                 *)

(* The judgment admits only a node of known kind whose references are all  *)
(* resident at their declared kinds.                                       *)
LEMMA AdmitMeansMet ==
    ASSUME NEW n, NEW collected, NEW resident,
           JudgeAdmission(n, collected, resident) = "Admit"
    PROVE  n \in Known /\ Unmet(n, collected) = {}
<1>1. n \in Nodes
  BY DEF JudgeAdmission
<1>2. n \in Known
  BY <1>1 DEF JudgeAdmission
<1>3. Unmet(n, collected) = {}
  BY <1>2 DEF JudgeAdmission
<1>4. QED BY <1>2, <1>3

(* Bytes that verify at an address are the node that hashes to it.         *)
LEMMA VerifiedIsNode ==
    ASSUME NEW i, NEW b, VerifyNodeBytes(i, b) = "Verified"
    PROVE  b = i /\ b \in Known
  BY DEF VerifyNodeBytes

----------------------------------------------------------------------------
(* Type correctness.                                                       *)

LEMMA InitTypeOK == Init => TypeOK
  BY DEF Init, TypeOK, Stages, Outcomes

(* The bookkeeping of one caller's step, in the shapes the actions share.  *)
CallTypes ==
    /\ pc \in [Callers -> Stages]
    /\ door \in [Callers -> {"none", "store", "server"}]
    /\ node \in [Callers -> Ids \union {Absent}]
    /\ tags \in [Callers -> Seq(Tags \union {NoTag})]
    /\ answer \in [Callers -> Outcomes]

LEMMA EndTypes ==
    ASSUME TypeOK, NEW c \in Callers, NEW outcome \in Outcomes,
           NEW i \in Ids \union {Absent}, End(c, outcome, i)
    PROVE  CallTypes'
  BY DEF TypeOK, End, Stages, CallTypes

LEMMA RefuseTypes ==
    ASSUME TypeOK, NEW c \in Callers, Refuse(c)
    PROVE  CallTypes'
  BY EndTypes DEF Refuse, Outcomes

LEMMA AcknowledgeTypes ==
    ASSUME TypeOK, NEW c \in Callers, NEW outcome \in Outcomes,
           Acknowledge(c, outcome)
    PROVE  CallTypes'
<1>1. node[c] \in Ids \union {Absent}
  BY DEF TypeOK
<1>2. QED BY <1>1, EndTypes DEF Acknowledge

LEMMA StartTypes ==
    ASSUME TypeOK, NEW c \in Callers, NEW d \in {"store", "server"},
           NEW i \in Ids, NEW stage \in Stages, Start(c, d, i, stage)
    PROVE  CallTypes'
  BY DEF TypeOK, Start, Go, CallTypes, Outcomes

LEMMA GoTypes ==
    ASSUME TypeOK, NEW c \in Callers, NEW stage \in Stages, Go(c, stage),
           UNCHANGED <<door, node, answer>>,
           tags' \in [Callers -> Seq(Tags \union {NoTag})]
    PROVE  CallTypes'
  BY DEF TypeOK, Go, CallTypes

LEMMA NextTypeOK == TypeOK /\ CallsSound /\ [Next]_vars => TypeOK'
<1> SUFFICES ASSUME TypeOK, CallsSound, [Next]_vars PROVE TypeOK'
  OBVIOUS
<1> USE DEF host
<1>1. ASSUME NEW c \in Callers, NEW n \in Nodes, PutNode(c, n) PROVE TypeOK'
  <2>1. AfterTags(n, <<>>) \in Stages
    BY DEF AfterTags, Stages
  <2>2. CallTypes'
    BY <1>1, <2>1, RefuseTypes, StartTypes DEF PutNode
  <2>3. QED BY <1>1, <2>2 DEF PutNode, TypeOK, CallTypes
<1>2. ASSUME NEW c \in Callers, NEW id \in Ids, NEW b \in Ids, UploadNode(c, id, b)
      PROVE  TypeOK'
  <2>1. AfterTags(b, <<>>) \in Stages
    BY DEF AfterTags, Stages
  <2>2. CallTypes'
    BY <1>2, <2>1, RefuseTypes, StartTypes DEF UploadNode
  <2>3. QED BY <1>2, <2>2 DEF UploadNode, TypeOK, CallTypes
<1>3. ASSUME NEW c \in Callers, ReadReference(c), CallSound(c) PROVE TypeOK'
  <2> DEFINE ref == RefsOf[node[c]][Len(tags[c]) + 1]
             collected == Append(tags[c], RefTag(ref.id))
  <2>1. CASE Refuse(c)
    <3>1. CallTypes'
      BY <2>1, RefuseTypes
    <3>2. QED BY <1>3, <3>1 DEF ReadReference, TypeOK, CallTypes
  <2>2. CASE ~Refuse(c)
    <3>1. node[c] \in Nodes /\ Len(tags[c]) < Len(RefsOf[node[c]])
      BY <1>3 DEF CallSound, ReadReference
    <3>2. tags[c] \in Seq(Tags \union {NoTag}) /\ RefsOf[node[c]] \in Seq(Reference)
      BY <3>1 DEF TypeOK
    <3>3. ref \in Reference
      BY <3>1, <3>2
    <3>4. ref.id \in Ids
      BY <3>3 DEF Reference
    <3>5. RefTag(ref.id) \in Tags \union {NoTag}
      <4>1. CASE bytes[ref.id] = Absent
        BY <4>1 DEF RefTag
      <4>2. CASE bytes[ref.id] # Absent
        <5>1. bytes[ref.id] \in Known
          BY <1>3, <2>2, <4>2, VerifiedIsNode DEF ReadReference
        <5>2. QED BY <4>2, <5>1 DEF RefTag
      <4>3. QED BY <4>1, <4>2
    <3>6. collected \in Seq(Tags \union {NoTag})
      BY <3>2, <3>5
    <3>7. /\ tags' = [tags EXCEPT ![c] = collected]
          /\ Go(c, AfterTags(node[c], collected))
          /\ UNCHANGED <<door, node, answer>>
      BY <1>3, <2>2 DEF ReadReference
    <3>8. AfterTags(node[c], collected) \in Stages
      BY DEF AfterTags, Stages
    <3>9. tags' \in [Callers -> Seq(Tags \union {NoTag})]
      BY <3>6, <3>7 DEF TypeOK
    <3>10. CallTypes'
      BY <3>7, <3>8, <3>9, GoTypes
    <3>11. QED BY <1>3, <3>10 DEF ReadReference, TypeOK, CallTypes
  <2>3. QED BY <2>1, <2>2
<1>4. ASSUME NEW c \in Callers, ReadOwnAndJudge(c) PROVE TypeOK'
  <2>1. CallTypes'
    <3>1. \/ Refuse(c)
          \/ \E outcome \in {"duplicate", "AlreadyAdmitted"} : Acknowledge(c, outcome)
          \/ Go(c, "write") /\ UNCHANGED <<door, node, tags, answer>>
      BY <1>4 DEF ReadOwnAndJudge
    <3>2. CASE Refuse(c)
      BY <3>2, RefuseTypes
    <3>3. CASE \E outcome \in {"duplicate", "AlreadyAdmitted"} : Acknowledge(c, outcome)
      BY <3>3, AcknowledgeTypes DEF Outcomes
    <3>4. CASE Go(c, "write") /\ UNCHANGED <<door, node, tags, answer>>
      BY <3>4 DEF Go, TypeOK, CallTypes, Stages
    <3>5. QED BY <3>1, <3>2, <3>3, <3>4
  <2>2. QED BY <1>4, <2>1 DEF ReadOwnAndJudge, TypeOK, CallTypes
<1>5. ASSUME NEW c \in Callers, PutBytes(c), CallSound(c) PROVE TypeOK'
  <2>1. node[c] \in Ids
    BY <1>5 DEF PutBytes, CallSound
  <2>2. bytes' \in [Ids -> Ids \union {Absent}]
    BY <1>5, <2>1 DEF PutBytes, WriteFailed, TypeOK
  <2>3. CallTypes'
    <3>1. Refuse(c) \/ AfterWrite(c)
      BY <1>5 DEF PutBytes, WriteFailed
    <3>2. CASE Refuse(c)
      BY <3>2, RefuseTypes
    <3>3. CASE AfterWrite(c) /\ door[c] = "store" /\ worded
      BY <3>3 DEF AfterWrite, Go, TypeOK, CallTypes, Stages
    <3>4. CASE AfterWrite(c) /\ ~(door[c] = "store" /\ worded)
      <4>1. \E outcome \in {"fresh", "Admitted"} : Acknowledge(c, outcome)
        BY <3>4 DEF AfterWrite
      <4>2. QED BY <4>1, AcknowledgeTypes DEF Outcomes
    <3>5. QED BY <3>1, <3>2, <3>3, <3>4
  <2>4. QED BY <1>5, <2>2, <2>3 DEF PutBytes, TypeOK, CallTypes
<1>6. ASSUME NEW c \in Callers, AppendReceipt(c), CallSound(c) PROVE TypeOK'
  <2>1. node[c] \in Ids
    BY <1>6 DEF AppendReceipt, CallSound
  <2>2. word' \in Seq(Ids)
    <3>1. word \in Seq(Ids)
      BY DEF TypeOK
    <3>2. Append(word, node[c]) \in Seq(Ids)
      BY <2>1, <3>1
    <3>3. word' \in {word, Append(word, node[c])}
      BY <1>6 DEF AppendReceipt, ReceiptFailed
    <3>4. QED BY <3>1, <3>2, <3>3
  <2>3. CallTypes'
    BY <1>6, RefuseTypes, AcknowledgeTypes
    DEF AppendReceipt, ReceiptFailed, Outcomes
  <2>4. QED BY <1>6, <2>2, <2>3 DEF AppendReceipt, TypeOK, CallTypes
<1>7. ASSUME NEW c \in Callers, NEW i \in Ids, LoadForPublish(c, i) PROVE TypeOK'
  <2>1. CallTypes'
    BY <1>7, RefuseTypes, StartTypes DEF LoadForPublish, Stages
  <2>2. QED BY <1>7, <2>1 DEF LoadForPublish, TypeOK, CallTypes
<1>8. ASSUME NEW c \in Callers, NEW i \in Ids, NEW closure \in Closures,
             CheckPresence(c, i, closure)
      PROVE  TypeOK'
  <2>1. CallTypes'
    BY <1>8, RefuseTypes, StartTypes DEF CheckPresence, Stages
  <2>2. QED BY <1>8, <2>1 DEF CheckPresence, TypeOK, CallTypes
<1>9. ASSUME NEW c \in Callers, PublishRoot(c), CallSound(c) PROVE TypeOK'
  <2>1. node[c] \in Ids
    BY <1>9 DEF PublishRoot, CallSound
  <2>2. CallTypes'
    BY <1>9, RefuseTypes, AcknowledgeTypes DEF PublishRoot, Outcomes
  <2>3. QED BY <1>9, <2>1, <2>2 DEF PublishRoot, TypeOK, CallTypes
<1>10. ASSUME NEW c \in Callers, Interrupt(c) PROVE TypeOK'
  <2>1. CallTypes'
    BY <1>10, EndTypes DEF Interrupt, Outcomes
  <2>2. QED BY <1>10, <2>1 DEF Interrupt, TypeOK, CallTypes
<1>11. ASSUME NEW i \in Ids, NEW b \in Damaged, Damage(i, b) PROVE TypeOK'
  BY <1>11 DEF Damage, TypeOK, call
<1>12. CASE UNCHANGED vars
  BY <1>12 DEF vars, call, TypeOK
<1>13. QED
  BY <1>1, <1>2, <1>3, <1>4, <1>5, <1>6, <1>7, <1>8, <1>9, <1>10, <1>11, <1>12
  DEF Next, CallsSound

----------------------------------------------------------------------------
(* How the byte plane may change, and what such a change keeps.            *)

(* A write puts a node at its own address; only damage does otherwise.     *)
WriteStep(c) ==
    /\ pc[c] = "write"
    /\ bytes' = [bytes EXCEPT ![node[c]] = node[c]]

DamageStep(i, b) == Present(i) /\ bytes' = [bytes EXCEPT ![i] = b]

LEMMA BytesSteps ==
    ASSUME [Next]_vars
    PROVE  \/ UNCHANGED bytes
           \/ \E c \in Callers : WriteStep(c)
           \/ \E i \in Ids, b \in Damaged : DamageStep(i, b) /\ damage' = damage + 1
<1>1. ASSUME NEW c \in Callers, PutBytes(c) PROVE UNCHANGED bytes \/ WriteStep(c)
  BY <1>1 DEF PutBytes, WriteFailed, WriteStep
<1>2. ASSUME NEW i \in Ids, NEW b \in Damaged, Damage(i, b)
      PROVE  DamageStep(i, b) /\ damage' = damage + 1
  BY <1>2 DEF Damage, DamageStep
<1>3. QED
  BY <1>1, <1>2
  DEF Next, vars, PutNode, UploadNode, ReadReference, ReadOwnAndJudge,
      AppendReceipt, LoadForPublish, CheckPresence, PublishRoot, Interrupt

(* Residence is stable: the byte plane only grows.                         *)
LEMMA PresentStays ==
    ASSUME TypeOK, CallsSound, [Next]_vars, NEW i \in Ids, Present(i)
    PROVE  Present(i)'
<1>1. CASE UNCHANGED bytes
  BY <1>1 DEF Present
<1>2. ASSUME NEW c \in Callers, WriteStep(c) PROVE Present(i)'
  <2>1. node[c] \in Ids
    BY <1>2 DEF WriteStep, CallsSound, CallSound
  <2>2. QED BY <1>2, <2>1 DEF WriteStep, Present, TypeOK
<1>3. ASSUME NEW j \in Ids, NEW b \in Damaged, DamageStep(j, b) PROVE Present(i)'
  BY <1>3 DEF DamageStep, Present, TypeOK
<1>4. QED BY <1>1, <1>2, <1>3, BytesSteps

LEMMA ResidentClosedStays ==
    ASSUME TypeOK, CallsSound, ResidentClosed, [Next]_vars
    PROVE  ResidentClosed'
<1>1. CASE UNCHANGED bytes
  BY <1>1 DEF ResidentClosed, ReferenceClosed, Resident, Present
<1>2. ASSUME NEW c \in Callers, WriteStep(c) PROVE ResidentClosed'
  <2>1. /\ node[c] \in Nodes
        /\ Len(tags[c]) = Len(RefsOf[node[c]])
        /\ Unmet(node[c], tags[c]) = {}
    BY <1>2 DEF WriteStep, CallsSound, CallSound
  <2>2. Resident' = Resident \union {node[c]}
    BY <1>2, <2>1 DEF WriteStep, Resident, Present, TypeOK
  <2>3. ASSUME NEW k \in DOMAIN RefsOf[node[c]]
        PROVE  /\ RefsOf[node[c]][k].id \in Resident
               /\ RefsOf[node[c]][k].id \in Nodes
               /\ TagOf[RefsOf[node[c]][k].id] = RefsOf[node[c]][k].expectedTag
    <3>1. RefsOf[node[c]] \in Seq(Reference) /\ tags[c] \in Seq(Tags \union {NoTag})
      BY <2>1 DEF TypeOK
    <3>2. k \in DOMAIN tags[c]
      BY <2>1, <3>1
    <3>3. tags[c][k] = RefsOf[node[c]][k].expectedTag
      BY <2>1 DEF Unmet
    <3>4. RefsOf[node[c]][k] \in Reference
      BY <3>1
    <3>5. tags[c][k] # NoTag
      BY <3>3, <3>4 DEF Reference
    <3>6. QED BY <1>2, <3>2, <3>3, <3>5 DEF WriteStep, CallsSound, CallSound, Resident
  <2>4. QED BY <2>1, <2>2, <2>3 DEF ResidentClosed, ReferenceClosed
<1>3. ASSUME NEW i \in Ids, NEW b \in Damaged, DamageStep(i, b) PROVE ResidentClosed'
  <2>1. Resident' = Resident
    BY <1>3 DEF DamageStep, Resident, Present, TypeOK
  <2>2. QED BY <2>1 DEF ResidentClosed, ReferenceClosed
<1>4. QED BY <1>1, <1>2, <1>3, BytesSteps

----------------------------------------------------------------------------
(* What a caller has learned stays true.                                   *)

(* Other callers' steps leave a call sound.                                *)
LEMMA CallKept ==
    ASSUME TypeOK, CallsSound, [Next]_vars, NEW c \in Callers,
           pc'[c] = pc[c], node'[c] = node[c], tags'[c] = tags[c]
    PROVE  CallSound(c)'
<1>1. CallSound(c)
  BY DEF CallsSound
<1>2. \A i \in Ids : Present(i) => Present(i)'
  BY PresentStays
<1>3. QED BY <1>1, <1>2 DEF CallSound

(* A finished call has nothing left to be wrong about.                     *)
LEMMA EndSound ==
    ASSUME TypeOK, NEW c \in Callers, NEW outcome, NEW i, End(c, outcome, i)
    PROVE  CallSound(c)'
  BY DEF End, CallSound, TypeOK

LEMMA StartSound ==
    ASSUME TypeOK, NEW c \in Callers, NEW d, NEW n \in Nodes,
           Start(c, d, n, AfterTags(n, <<>>))
    PROVE  CallSound(c)'
<1>1. /\ pc'[c] = AfterTags(n, <<>>) /\ node'[c] = n /\ tags'[c] = <<>>
  BY DEF Start, Go, TypeOK
<1>2. RefsOf[n] \in Seq(Reference)
  OBVIOUS
<1>3. QED BY <1>1, <1>2 DEF CallSound, AfterTags

(* Who moves: every step is one caller's, or damage, and leaves the calls  *)
(* of the others as they were.                                             *)
CallUnmoved(d) == pc'[d] = pc[d] /\ node'[d] = node[d] /\ tags'[d] = tags[d]

LEMMA OthersUnmoved ==
    ASSUME TypeOK, NEW c \in Callers, NEW d \in Callers, d # c,
           \/ \E n \in Nodes : PutNode(c, n)
           \/ \E id, b \in Ids : UploadNode(c, id, b)
           \/ ReadReference(c)
           \/ ReadOwnAndJudge(c)
           \/ PutBytes(c)
           \/ AppendReceipt(c)
           \/ \E i \in Ids : LoadForPublish(c, i)
           \/ \E i \in Ids : \E closure \in Closures : CheckPresence(c, i, closure)
           \/ PublishRoot(c)
           \/ Interrupt(c)
    PROVE  CallUnmoved(d)
<1> USE DEF CallUnmoved, TypeOK
<1>1. ASSUME NEW outcome, NEW i, End(c, outcome, i) PROVE CallUnmoved(d)
  BY <1>1 DEF End
<1>2. ASSUME NEW dr, NEW i, NEW stage, Start(c, dr, i, stage) PROVE CallUnmoved(d)
  BY <1>2 DEF Start, Go
<1>3. ASSUME NEW stage, Go(c, stage), UNCHANGED node,
             \/ UNCHANGED tags
             \/ \E collected : tags' = [tags EXCEPT ![c] = collected]
      PROVE CallUnmoved(d)
  BY <1>3 DEF Go
<1>4. CASE \E n \in Nodes : PutNode(c, n)
  BY <1>1, <1>2, <1>4 DEF PutNode, Refuse
<1>5. CASE \E id, b \in Ids : UploadNode(c, id, b)
  BY <1>1, <1>2, <1>5 DEF UploadNode, Refuse
<1>6. CASE ReadReference(c)
  BY <1>1, <1>3, <1>6 DEF ReadReference, Refuse
<1>7. CASE ReadOwnAndJudge(c)
  BY <1>1, <1>3, <1>7 DEF ReadOwnAndJudge, Refuse, Acknowledge
<1>8. CASE PutBytes(c)
  BY <1>1, <1>3, <1>8 DEF PutBytes, WriteFailed, AfterWrite, Refuse, Acknowledge
<1>9. CASE AppendReceipt(c)
  BY <1>1, <1>9 DEF AppendReceipt, ReceiptFailed, Refuse, Acknowledge
<1>10. CASE \E i \in Ids : LoadForPublish(c, i)
  BY <1>1, <1>2, <1>10 DEF LoadForPublish, Refuse
<1>11. CASE \E i \in Ids : \E closure \in Closures : CheckPresence(c, i, closure)
  BY <1>1, <1>2, <1>11 DEF CheckPresence, Refuse
<1>12. CASE PublishRoot(c)
  BY <1>1, <1>12 DEF PublishRoot, Refuse, Acknowledge
<1>13. CASE Interrupt(c)
  BY <1>1, <1>13 DEF Interrupt
<1>14. QED
  BY <1>4, <1>5, <1>6, <1>7, <1>8, <1>9, <1>10, <1>11, <1>12, <1>13

(* The caller that moves keeps its own call sound.                         *)
LEMMA ReadReferenceSound ==
    ASSUME TypeOK, CallsSound, NEW c \in Callers, ReadReference(c)
    PROVE  CallSound(c)'
<1> DEFINE ref == RefsOf[node[c]][Len(tags[c]) + 1]
           collected == Append(tags[c], RefTag(ref.id))
<1>1. CASE Refuse(c)
  BY <1>1, EndSound DEF Refuse
<1>2. CASE ~Refuse(c)
  <2>1. /\ pc[c] = "refs" /\ node[c] \in Nodes
        /\ Len(tags[c]) < Len(RefsOf[node[c]])
    BY DEF ReadReference, CallsSound, CallSound
  <2>2. /\ tags' = [tags EXCEPT ![c] = collected]
        /\ Go(c, AfterTags(node[c], collected))
        /\ UNCHANGED <<bytes, node>>
        /\ \/ bytes[ref.id] = Absent
           \/ VerifyNodeBytes(ref.id, bytes[ref.id]) = "Verified"
    BY <1>2 DEF ReadReference
  <2>3. /\ tags[c] \in Seq(Tags \union {NoTag})
        /\ RefsOf[node[c]] \in Seq(Reference)
    BY <2>1 DEF TypeOK
  <2>4. /\ tags'[c] = collected /\ node'[c] = node[c]
        /\ pc'[c] = AfterTags(node[c], collected)
    BY <2>2 DEF Go, TypeOK
  <2>5. /\ Len(collected) = Len(tags[c]) + 1
        /\ \A k \in 1..Len(tags[c]) : collected[k] = tags[c][k]
        /\ collected[Len(tags[c]) + 1] = RefTag(ref.id)
        /\ DOMAIN collected = 1..(Len(tags[c]) + 1)
        /\ DOMAIN tags[c] = 1..Len(tags[c])
    <3>1. DEFINE s == tags[c]
                 x == RefTag(ref.id)
    <3>2. s \in Seq(Tags \union {NoTag} \union {x})
      BY <2>3
    <3>3. x \in Tags \union {NoTag} \union {x}
      OBVIOUS
    <3>4. HIDE DEF s, x
    <3>5. /\ Len(Append(s, x)) = Len(s) + 1
          /\ \A k \in 1..Len(s) : Append(s, x)[k] = s[k]
          /\ Append(s, x)[Len(s) + 1] = x
          /\ DOMAIN Append(s, x) = 1..(Len(s) + 1)
          /\ DOMAIN s = 1..Len(s)
      BY <3>2, <3>3
    <3>6. QED BY <3>5 DEF s, x
  <2>6. ASSUME NEW k \in DOMAIN collected, collected[k] # NoTag
        PROVE  /\ Present(RefsOf[node[c]][k].id)
               /\ RefsOf[node[c]][k].id \in Nodes
               /\ collected[k] = TagOf[RefsOf[node[c]][k].id]
    <3>1. CASE k \in 1..Len(tags[c])
      BY <2>1, <2>5, <2>6, <3>1 DEF CallsSound, CallSound
    <3>2. CASE k = Len(tags[c]) + 1
      <4>1. bytes[ref.id] # Absent
        BY <2>5, <2>6, <3>2 DEF RefTag
      <4>2. bytes[ref.id] = ref.id /\ ref.id \in Known
        BY <2>2, <4>1, VerifiedIsNode
      <4>3. QED BY <2>5, <3>2, <4>1, <4>2 DEF RefTag, Present
    <3>3. QED BY <2>3, <2>5, <2>6, <3>1, <3>2
  <2>7. \A i : Present(i) => Present(i)'
    BY <2>2 DEF Present
  <2>8. Len(tags[c]) \in Nat /\ Len(RefsOf[node[c]]) \in Nat
    BY <2>3
  <2>9. /\ pc'[c] \in {"refs", "own"}
        /\ pc'[c] = "refs" => Len(collected) < Len(RefsOf[node[c]])
        /\ pc'[c] = "own" => Len(collected) = Len(RefsOf[node[c]])
    BY <2>1, <2>4, <2>5, <2>8 DEF AfterTags
  <2> HIDE DEF collected
  <2>10. QED BY <2>1, <2>4, <2>6, <2>7, <2>9 DEF CallSound
<1>3. QED BY <1>1, <1>2

LEMMA NextCallsSound ==
    ASSUME TypeOK, CallsSound, [Next]_vars
    PROVE  CallsSound'
<1> USE DEF CallsSound
<1>1. ASSUME NEW c \in Callers, CallSound(c)',
             \A d \in Callers \ {c} : CallUnmoved(d)
      PROVE  CallsSound'
  BY <1>1, CallKept DEF CallUnmoved
<1>2. ASSUME NEW c \in Callers, NEW n \in Nodes, PutNode(c, n) PROVE CallsSound'
  <2>1. CallSound(c)'
    BY <1>2, EndSound, StartSound DEF PutNode, Refuse
  <2>2. QED BY <1>1, <1>2, <2>1, OthersUnmoved
<1>3. ASSUME NEW c \in Callers, NEW id \in Ids, NEW b \in Ids, UploadNode(c, id, b)
      PROVE  CallsSound'
  <2>1. CallSound(c)'
    BY <1>3, EndSound, StartSound DEF UploadNode, Refuse
  <2>2. QED BY <1>1, <1>3, <2>1, OthersUnmoved
<1>4. ASSUME NEW c \in Callers, ReadReference(c) PROVE CallsSound'
  BY <1>1, <1>4, ReadReferenceSound, OthersUnmoved
<1>5. ASSUME NEW c \in Callers, ReadOwnAndJudge(c) PROVE CallsSound'
  <2>1. CASE \E outcome, i : End(c, outcome, i)
    BY <1>1, <1>5, <2>1, EndSound, OthersUnmoved
  <2>2. CASE /\ JudgeAdmission(node[c], tags[c], bytes[node[c]]) = "Admit"
             /\ Go(c, "write")
             /\ UNCHANGED <<door, node, tags, answer>>
    <3>1. Unmet(node[c], tags[c]) = {}
      BY <2>2, AdmitMeansMet
    <3>2. pc[c] = "own" /\ UNCHANGED bytes
      BY <1>5 DEF ReadOwnAndJudge
    <3>3. pc'[c] = "write"
      BY <2>2 DEF Go, TypeOK
    <3>4. \A i : Present(i) => Present(i)'
      BY <3>2 DEF Present
    <3>5. CallSound(c)'
      BY <2>2, <3>1, <3>2, <3>3, <3>4 DEF CallSound
    <3>6. QED BY <1>1, <1>5, <3>5, OthersUnmoved
  <2>3. QED BY <1>5, <2>1, <2>2 DEF ReadOwnAndJudge, Refuse, Acknowledge
<1>6. ASSUME NEW c \in Callers, PutBytes(c) PROVE CallsSound'
  <2>1. CASE \E outcome, i : End(c, outcome, i)
    BY <1>1, <1>6, <2>1, EndSound, OthersUnmoved
  <2>2. CASE /\ bytes' = [bytes EXCEPT ![node[c]] = node[c]]
             /\ Go(c, "receipt")
             /\ UNCHANGED <<door, node, tags, answer>>
    <3>1. node[c] \in Ids
      BY <1>6 DEF PutBytes, CallSound
    <3>2. Present(node[c])'
      BY <2>2, <3>1 DEF Present, TypeOK
    <3>3. pc'[c] = "receipt" /\ node'[c] = node[c]
      BY <2>2 DEF Go, TypeOK
    <3>4. CallSound(c)'
      BY <3>1, <3>2, <3>3 DEF CallSound, Present
    <3>5. QED BY <1>1, <1>6, <3>4, OthersUnmoved
  <2>3. QED
    BY <1>6, <2>1, <2>2 DEF PutBytes, WriteFailed, AfterWrite, Refuse, Acknowledge
<1>7. ASSUME NEW c \in Callers, AppendReceipt(c) PROVE CallsSound'
  <2>1. CallSound(c)'
    BY <1>7, EndSound DEF AppendReceipt, ReceiptFailed, Refuse, Acknowledge
  <2>2. QED BY <1>1, <1>7, <2>1, OthersUnmoved
<1>8. ASSUME NEW c \in Callers, NEW i \in Ids, Start(c, "store", i, "publish")
                                             \/ Start(c, "server", i, "publish"),
             Present(i), UNCHANGED bytes
      PROVE  CallSound(c)'
  BY <1>8 DEF Start, Go, CallSound, Present, TypeOK
<1>9. ASSUME NEW c \in Callers, NEW i \in Ids, LoadForPublish(c, i) PROVE CallsSound'
  <2>1. CallSound(c)'
    BY <1>8, <1>9, EndSound DEF LoadForPublish, Loads, Present, Refuse
  <2>2. QED BY <1>1, <1>9, <2>1, OthersUnmoved
<1>10. ASSUME NEW c \in Callers, NEW i \in Ids, NEW closure \in Closures,
              CheckPresence(c, i, closure)
       PROVE  CallsSound'
  <2>1. CallSound(c)'
    BY <1>8, <1>10, EndSound DEF CheckPresence, ClosureHeld, Refuse
  <2>2. QED BY <1>1, <1>10, <2>1, OthersUnmoved
<1>11. ASSUME NEW c \in Callers, PublishRoot(c) PROVE CallsSound'
  <2>1. CallSound(c)'
    BY <1>11, EndSound DEF PublishRoot, Refuse, Acknowledge
  <2>2. QED BY <1>1, <1>11, <2>1, OthersUnmoved
<1>12. ASSUME NEW c \in Callers, Interrupt(c) PROVE CallsSound'
  <2>1. CallSound(c)'
    BY <1>12, EndSound DEF Interrupt
  <2>2. QED BY <1>1, <1>12, <2>1, OthersUnmoved
<1>13. ASSUME NEW i \in Ids, NEW b \in Damaged, Damage(i, b) PROVE CallsSound'
  BY <1>13, CallKept DEF Damage, call
<1>14. CASE UNCHANGED vars
  BY <1>14, CallKept DEF vars, call
<1>15. QED
  BY <1>2, <1>3, <1>4, <1>5, <1>6, <1>7, <1>9, <1>10, <1>11, <1>12, <1>13, <1>14
  DEF Next

----------------------------------------------------------------------------
(* The inductive invariant.                                                *)

IInv == TypeOK /\ CallsSound /\ ResidentClosed

LEMMA InitIInv == Init => IInv
<1> SUFFICES ASSUME Init PROVE IInv
  OBVIOUS
<1>1. TypeOK
  BY InitTypeOK
<1>2. CallsSound
  BY DEF Init, CallsSound, CallSound
<1>3. ResidentClosed
  <2>1. PICK S \in SUBSET Known :
           ReferenceClosed(S) /\ bytes = [i \in Ids |-> IF i \in S THEN i ELSE Absent]
    BY DEF Init
  <2>2. Resident = S
    BY <2>1 DEF Resident, Present
  <2>3. QED BY <2>1, <2>2 DEF ResidentClosed
<1>4. QED BY <1>1, <1>2, <1>3 DEF IInv

LEMMA NextIInv == IInv /\ [Next]_vars => IInv'
  BY NextTypeOK, NextCallsSound, ResidentClosedStays DEF IInv

(* The state has its type, and what a call in flight has learned still     *)
(* holds when it acts on it.                                               *)
THEOREM Inductive == Spec => []IInv
  BY InitIInv, NextIInv, PTL DEF Spec

(* Every variable of the store law keeps its type.                         *)
THEOREM TypeCorrect == Spec => []TypeOK
<1>1. IInv => TypeOK
  BY DEF IInv
<1>2. QED BY <1>1, Inductive, PTL

(* Closure and kind-typing of the resident graph, for any reference graph  *)
(* and any number of unlocked callers at either door (Store.ts).           *)
THEOREM ClosureHolds == Spec => []ResidentClosed
<1>1. IInv => ResidentClosed
  BY DEF IInv
<1>2. QED BY <1>1, Inductive, PTL

(* A call acts only on what is still true: the check-then-insert argument. *)
THEOREM CheckThenInsert == Spec => []CallsSound
<1>1. IInv => CallsSound
  BY DEF IInv
<1>2. QED BY <1>1, Inductive, PTL

(* The byte plane only grows, and the doors write only what hashes to its  *)
(* address.                                                                *)
THEOREM PlaneGrows == Spec => GrowOnly
<1>1. ASSUME IInv, [Next]_vars, NEW i \in Ids
      PROVE  /\ bytes[i] # Absent => bytes'[i] # Absent
             /\ bytes'[i] # bytes[i] => bytes'[i] = i \/ damage' # damage
  <2>1. TypeOK /\ CallsSound
    BY <1>1 DEF IInv
  <2>2. bytes[i] # Absent => bytes'[i] # Absent
    BY <1>1, <2>1, PresentStays DEF Present
  <2>3. bytes'[i] # bytes[i] => bytes'[i] = i \/ damage' # damage
    <3>1. CASE UNCHANGED bytes
      BY <3>1
    <3>2. ASSUME NEW c \in Callers, WriteStep(c)
          PROVE  bytes'[i] # bytes[i] => bytes'[i] = i
      BY <2>1, <3>2 DEF WriteStep, TypeOK
    <3>3. CASE damage' = damage + 1
      BY <2>1, <3>3 DEF TypeOK
    <3>4. QED BY <1>1, <3>1, <3>2, <3>3, BytesSteps
  <2>4. QED BY <2>2, <2>3
<1>2. IInv /\ [Next]_vars =>
        \A i \in Ids :
          /\ bytes[i] # Absent => bytes'[i] # Absent
          /\ bytes'[i] # bytes[i] => bytes'[i] = i \/ damage' # damage
  BY <1>1
<1>3. QED BY <1>2, Inductive, PTL DEF Spec, GrowOnly

----------------------------------------------------------------------------
(* Roots, receipts and answers all name resident content.                  *)

RootsResident == roots \subseteq Resident

Named == RootsResident /\ ReceiptsResident /\ AcknowledgedResident

Acknowledgements ==
    {"fresh", "duplicate", "Admitted", "AlreadyAdmitted", "Published"}

(* How an answer comes to be, and what it names when it acknowledges.      *)
LEMMA AnswerSteps ==
    ASSUME TypeOK, CallsSound, [Next]_vars, NEW c \in Callers,
           answer'[c] \in Acknowledgements
    PROVE  \/ answer'[c] = answer[c] /\ node'[c] = node[c]
           \/ node'[c] \in Ids /\ bytes'[node'[c]] # Absent
<1> DEFINE Kept == answer'[c] = answer[c] /\ node'[c] = node[c]
           Fine == \/ Kept
                   \/ node'[c] \in Ids /\ bytes'[node'[c]] # Absent
<1> USE DEF Acknowledgements, TypeOK
<1>1. ASSUME NEW d \in Callers, NEW outcome, NEW i, End(d, outcome, i)
      PROVE  /\ answer'[d] = outcome /\ node'[d] = i
             /\ c # d => answer'[c] = answer[c] /\ node'[c] = node[c]
  BY <1>1 DEF End
<1>2. ASSUME NEW d \in Callers, NEW dr, NEW i, NEW stage, Start(d, dr, i, stage)
      PROVE  /\ answer'[d] = "none"
             /\ c # d => answer'[c] = answer[c] /\ node'[c] = node[c]
  BY <1>2 DEF Start
<1>3. ASSUME NEW d \in Callers, Refuse(d)
      PROVE  c # d /\ answer'[c] = answer[c] /\ node'[c] = node[c]
  BY <1>1, <1>3 DEF Refuse
<1>4. ASSUME NEW d \in Callers, \E outcome : Acknowledge(d, outcome),
             node[d] \in Ids, bytes'[node[d]] # Absent
      PROVE  Fine
  <2>1. c # d => answer'[c] = answer[c] /\ node'[c] = node[c]
    BY <1>1, <1>4 DEF Acknowledge
  <2>2. node'[d] = node[d]
    BY <1>1, <1>4 DEF Acknowledge
  <2>3. QED BY <1>4, <2>1, <2>2
<1>5. ASSUME NEW d \in Callers, NEW n \in Nodes, PutNode(d, n)
      PROVE  Kept
  BY <1>2, <1>3, <1>5 DEF PutNode
<1>6. ASSUME NEW d \in Callers, NEW id \in Ids, NEW b \in Ids, UploadNode(d, id, b)
      PROVE  Kept
  BY <1>2, <1>3, <1>6 DEF UploadNode
<1>7. ASSUME NEW d \in Callers, ReadReference(d)
      PROVE  Kept
  BY <1>3, <1>7 DEF ReadReference
<1>8. ASSUME NEW d \in Callers, ReadOwnAndJudge(d)
      PROVE  Fine
  <2>1. CASE Refuse(d)
    BY <1>3, <2>1
  <2>2. CASE Go(d, "write") /\ UNCHANGED <<door, node, tags, answer>>
    BY <2>2
  <2>3. CASE /\ JudgeAdmission(node[d], tags[d], bytes[node[d]]) = "AlreadyResident"
             /\ \E outcome : Acknowledge(d, outcome)
    <3>1. node[d] \in Ids
      BY <1>8 DEF ReadOwnAndJudge, CallsSound, CallSound
    <3>2. bytes[node[d]] = node[d]
      BY <2>3 DEF JudgeAdmission
    <3>3. bytes'[node[d]] # Absent
      BY <1>8, <3>1, <3>2 DEF ReadOwnAndJudge
    <3>4. QED BY <1>4, <2>3, <3>1, <3>3
  <2>4. QED BY <1>8, <2>1, <2>2, <2>3 DEF ReadOwnAndJudge
<1>9. ASSUME NEW d \in Callers, PutBytes(d)
      PROVE  Fine
  <2>1. CASE Refuse(d)
    BY <1>3, <2>1
  <2>2. CASE UNCHANGED <<node, answer>>
    BY <2>2
  <2>3. CASE /\ bytes' = [bytes EXCEPT ![node[d]] = node[d]]
             /\ \E outcome : Acknowledge(d, outcome)
    <3>1. node[d] \in Ids
      BY <1>9 DEF PutBytes, CallsSound, CallSound
    <3>2. bytes'[node[d]] # Absent
      BY <2>3, <3>1
    <3>3. QED BY <1>4, <2>3, <3>1, <3>2
  <2>4. QED BY <1>9, <2>1, <2>2, <2>3 DEF PutBytes, WriteFailed, AfterWrite
<1>10. ASSUME NEW d \in Callers, AppendReceipt(d) \/ PublishRoot(d)
       PROVE  Fine
  <2>1. node[d] \in Ids /\ Present(node[d])
    BY <1>10 DEF AppendReceipt, PublishRoot, CallsSound, CallSound
  <2>2. bytes'[node[d]] # Absent
    BY <2>1, <1>10 DEF AppendReceipt, PublishRoot, Present
  <2>3. Refuse(d) \/ \E outcome : Acknowledge(d, outcome)
    BY <1>10 DEF AppendReceipt, ReceiptFailed, PublishRoot
  <2>4. QED BY <1>3, <1>4, <2>1, <2>2, <2>3
<1>11. ASSUME NEW d \in Callers, NEW i \in Ids,
              \/ LoadForPublish(d, i)
              \/ \E closure \in Closures : CheckPresence(d, i, closure)
       PROVE  Kept
  BY <1>2, <1>3, <1>11 DEF LoadForPublish, CheckPresence
<1>12. ASSUME NEW d \in Callers, Interrupt(d)
       PROVE  Kept
  BY <1>1, <1>12 DEF Interrupt
<1>13. ASSUME NEW i \in Ids, NEW b \in Damaged, Damage(i, b)
       PROVE  Kept
  BY <1>13 DEF Damage, call
<1>14. ASSUME UNCHANGED vars PROVE Kept
  BY <1>14 DEF vars, call
<1>15. Kept => Fine
  OBVIOUS
<1> SUFFICES Fine
  OBVIOUS
<1> HIDE DEF Kept, Fine
<1>16. QED
  BY <1>5, <1>6, <1>7, <1>8, <1>9, <1>10, <1>11, <1>12, <1>13, <1>14, <1>15
  DEF Next

----------------------------------------------------------------------------
LEMMA InitNamed == Init => Named
  BY DEF Init, Named, RootsResident, ReceiptsResident, AcknowledgedResident

LEMMA NextNamed ==
    ASSUME IInv, Named, [Next]_vars
    PROVE  Named'
<1> USE DEF IInv
<1>1. \A i \in Ids : Present(i) => Present(i)'
  BY PresentStays
<1>2. RootsResident'
  <2>1. roots' = roots \/ \E c \in Callers : PublishRoot(c)
    BY DEF Next, vars, PutNode, UploadNode, ReadReference, ReadOwnAndJudge,
           PutBytes, AppendReceipt, LoadForPublish, CheckPresence, Interrupt, Damage
  <2>2. ASSUME NEW c \in Callers, PublishRoot(c)
        PROVE  roots' \subseteq roots \union {node[c]} /\ node[c] \in Ids /\ Present(node[c])
    BY <2>2 DEF PublishRoot, CallsSound, CallSound
  <2>3. QED BY <1>1, <2>1, <2>2 DEF Named, RootsResident, Resident
<1>3. ReceiptsResident'
  <2>1. word' = word
        \/ \E c \in Callers : AppendReceipt(c) /\ word' = Append(word, node[c])
    BY DEF Next, vars, PutNode, UploadNode, ReadReference, ReadOwnAndJudge,
           PutBytes, AppendReceipt, ReceiptFailed, LoadForPublish, CheckPresence,
           PublishRoot, Interrupt, Damage
  <2>2. word \in Seq(Ids)
    BY DEF TypeOK
  <2>3. \A k \in DOMAIN word : word[k] \in Ids /\ Present(word[k])
    BY <2>2 DEF Named, ReceiptsResident
  <2>4. CASE word' = word
    BY <1>1, <2>3, <2>4 DEF ReceiptsResident, Present
  <2>5. ASSUME NEW c \in Callers, AppendReceipt(c), word' = Append(word, node[c])
        PROVE  ReceiptsResident'
    <3>1. node[c] \in Ids /\ Present(node[c]) /\ UNCHANGED bytes
      BY <2>5 DEF AppendReceipt, CallsSound, CallSound
    <3>2. \A k \in DOMAIN word' : word'[k] \in Ids /\ Present(word'[k])
      BY <2>2, <2>3, <2>5, <3>1
    <3>3. QED BY <3>1, <3>2 DEF ReceiptsResident, Present
  <2>6. QED BY <2>1, <2>4, <2>5
<1>4. AcknowledgedResident'
  <2>1. ASSUME NEW c \in Callers, answer'[c] \in Acknowledgements
        PROVE  node'[c] \in Ids /\ bytes'[node'[c]] # Absent
    <3>1. CASE answer'[c] = answer[c] /\ node'[c] = node[c]
      <4>1. node[c] \in Resident
        BY <2>1, <3>1 DEF Named, AcknowledgedResident, Acknowledgements
      <4>2. QED BY <1>1, <3>1, <4>1 DEF Resident, Present
    <3>2. QED BY <2>1, <3>1, AnswerSteps
  <2>2. QED BY <2>1 DEF AcknowledgedResident, Acknowledgements, Resident, Present
<1>5. QED BY <1>2, <1>3, <1>4 DEF Named

LEMMA NamedHolds == Spec => []Named
<1>1. Init => Named
  BY InitNamed
<1>2. Named /\ IInv /\ [Next]_vars => Named'
  BY NextNamed
<1>3. QED BY <1>1, <1>2, Inductive, PTL DEF Spec

(* Whatever the word receipts is resident: bytes first, receipt second.    *)
THEOREM ReceiptsHold == Spec => []ReceiptsResident
<1>1. Named => ReceiptsResident
  BY DEF Named
<1>2. QED BY <1>1, NamedHolds, PTL

(* Whatever an answer acknowledged as stored or published stays resident.  *)
THEOREM AcknowledgementsHold == Spec => []AcknowledgedResident
<1>1. Named => AcknowledgedResident
  BY DEF Named
<1>2. QED BY <1>1, NamedHolds, PTL

(* A published root heads a complete graph, whichever door published it.   *)
THEOREM PublishedGraphsComplete == Spec => []PublishedComplete
<1>1. IInv /\ Named => PublishedComplete
  <2>1. ASSUME IInv, Named, NEW r \in roots
        PROVE  \E S \in SUBSET Resident : r \in S /\ ReferenceClosed(S)
    <3>1. r \in Resident /\ ReferenceClosed(Resident)
      BY <2>1 DEF IInv, ResidentClosed, Named, RootsResident
    <3>2. QED BY <3>1
  <2>2. QED BY <2>1 DEF PublishedComplete
<1>2. QED BY <1>1, Inductive, NamedHolds, PTL

----------------------------------------------------------------------------
(* Receipts of fresh admissions.                                           *)

(* A put answers fresh only after its receipt, or where there is no word.  *)
LEMMA FreshSteps ==
    ASSUME TypeOK, CallsSound, [Next]_vars, NEW c \in Callers,
           worded', answer'[c] = "fresh"
    PROVE  \/ answer'[c] = answer[c] /\ node'[c] = node[c]
           \/ \E d \in Callers : /\ AppendReceipt(d)
                                 /\ node'[c] = node[d]
                                 /\ word' = Append(word, node[d])
<1> DEFINE Kept == answer'[c] = answer[c] /\ node'[c] = node[c]
<1>1. ASSUME NEW d \in Callers, NEW outcome, NEW i, End(d, outcome, i), outcome # "fresh"
      PROVE  Kept
  BY <1>1 DEF End, TypeOK
<1>2. ASSUME NEW d \in Callers, NEW dr, NEW i, NEW stage, Start(d, dr, i, stage)
      PROVE  Kept
  BY <1>2 DEF Start, TypeOK
<1>3. ASSUME NEW d \in Callers, PutBytes(d) PROVE Kept
  BY <1>1, <1>3 DEF PutBytes, WriteFailed, AfterWrite, Refuse, Acknowledge, host
<1>4. ASSUME NEW d \in Callers, AppendReceipt(d), ~Kept
      PROVE  node'[c] = node[d] /\ word' = Append(word, node[d])
  <2>1. ~Refuse(d)
    BY <1>1, <1>4 DEF Refuse
  <2>2. End(d, "fresh", node[d]) /\ word' = Append(word, node[d])
    BY <1>4, <2>1 DEF AppendReceipt, ReceiptFailed, Acknowledge
  <2>3. c = d
    BY <1>4, <2>2 DEF End, TypeOK
  <2>4. QED BY <2>2, <2>3 DEF End, TypeOK
<1>5. ASSUME NEW d \in Callers, NEW n \in Nodes, PutNode(d, n) PROVE Kept
  BY <1>1, <1>2, <1>5 DEF PutNode, Refuse
<1>6. ASSUME NEW d \in Callers, NEW id \in Ids, NEW b \in Ids, UploadNode(d, id, b)
      PROVE  Kept
  BY <1>1, <1>2, <1>6 DEF UploadNode, Refuse
<1>7. ASSUME NEW d \in Callers,
             \/ ReadReference(d)
             \/ ReadOwnAndJudge(d)
             \/ PublishRoot(d)
             \/ Interrupt(d)
      PROVE  Kept
  BY <1>1, <1>7 DEF ReadReference, ReadOwnAndJudge, PublishRoot, Interrupt,
                    Refuse, Acknowledge
<1>8. ASSUME NEW d \in Callers, NEW i \in Ids,
             \/ LoadForPublish(d, i)
             \/ \E closure \in Closures : CheckPresence(d, i, closure)
      PROVE  Kept
  BY <1>1, <1>2, <1>8 DEF LoadForPublish, CheckPresence, Refuse
<1>9. ASSUME NEW i \in Ids, NEW b \in Damaged, Damage(i, b) PROVE Kept
  BY <1>9 DEF Damage, call
<1>10. ASSUME UNCHANGED vars PROVE Kept
  BY <1>10 DEF vars, call
<1> HIDE DEF Kept
<1>11. Kept \/ \E d \in Callers : AppendReceipt(d) /\ node'[c] = node[d]
                                  /\ word' = Append(word, node[d])
  BY <1>3, <1>4, <1>5, <1>6, <1>7, <1>8, <1>9, <1>10 DEF Next
<1>12. QED BY <1>11 DEF Kept

(* "Every FRESH admission is receipted" (Store.ts): a put that answered    *)
(* fresh under a word log has its receipt in the word.                     *)
THEOREM FreshAdmissionsReceipted == Spec => []FreshReceipted
<1>1. Init => FreshReceipted
  BY DEF Init, FreshReceipted
<1>2. ASSUME IInv, FreshReceipted, [Next]_vars PROVE FreshReceipted'
  <2>1. TypeOK /\ CallsSound
    BY <1>2 DEF IInv
  <2>2. word \in Seq(Ids)
    BY <2>1 DEF TypeOK
  <2>3. worded' = worded
    BY <1>2 DEF Next, vars, host, PutNode, UploadNode, ReadReference,
       ReadOwnAndJudge, PutBytes, AppendReceipt, LoadForPublish, CheckPresence,
       PublishRoot, Interrupt, Damage
  <2>4. word' = word \/ \E d \in Callers : node[d] \in Ids /\ word' = Append(word, node[d])
    BY <1>2, <2>1 DEF Next, vars, PutNode, UploadNode, ReadReference,
       ReadOwnAndJudge, PutBytes, AppendReceipt, ReceiptFailed, LoadForPublish,
       CheckPresence, PublishRoot, Interrupt, Damage, CallsSound, CallSound
  <2>5. \A i : Receipted(i) => \E k \in DOMAIN word' : word'[k] = i
    BY <2>2, <2>4 DEF Receipted
  <2>6. ASSUME NEW c \in Callers, worded', answer'[c] = "fresh"
        PROVE  \E k \in DOMAIN word' : word'[k] = node'[c]
    <3>1. CASE answer'[c] = answer[c] /\ node'[c] = node[c]
      BY <1>2, <2>3, <2>5, <2>6, <3>1 DEF FreshReceipted
    <3>2. ASSUME NEW d \in Callers, AppendReceipt(d), node'[c] = node[d],
                 word' = Append(word, node[d])
          PROVE  \E k \in DOMAIN word' : word'[k] = node'[c]
      <4>1. node[d] \in Ids
        BY <2>1, <3>2 DEF AppendReceipt, CallsSound, CallSound
      <4>2. Len(word) + 1 \in DOMAIN word' /\ word'[Len(word) + 1] = node[d]
        BY <2>2, <3>2, <4>1
      <4>3. QED BY <3>2, <4>2
    <3>3. QED BY <1>2, <2>1, <2>6, <3>1, <3>2, FreshSteps
  <2>7. QED BY <2>6 DEF FreshReceipted, Receipted
<1>3. QED BY <1>1, <1>2, Inductive, PTL DEF Spec

(* The store keeps what it has answered for.                               *)
THEOREM AnswersStay == Spec => []AnswersKept
<1>1. ReceiptsResident /\ AcknowledgedResident /\ FreshReceipted => AnswersKept
  BY DEF AnswersKept
<1>2. QED BY <1>1, ReceiptsHold, AcknowledgementsHold, FreshAdmissionsReceipted, PTL

----------------------------------------------------------------------------
(* The store admits in one step: CasStore implements AtomicStore.          *)

(* The address a caller's acknowledgement names.                           *)
Told == [c \in Callers |-> IF answer[c] \in Acknowledgements THEN node[c] ELSE Absent]

Atomic == INSTANCE AtomicStore WITH held <- Resident, about <- Told

(* A call writes what it may admit, and receipts where there is a word.    *)
Entitled(c) ==
    /\ pc[c] = "write" => node[c] \in Known
    /\ pc[c] = "receipt" => worded

AllEntitled == \A c \in Callers : Entitled(c)

(* No step changes the kind of plane or whether receipts are kept.         *)
LEMMA HostStays == [Next]_vars => UNCHANGED <<plane, worded>>
  BY DEF Next, vars, host, PutNode, UploadNode, ReadReference, ReadOwnAndJudge,
         PutBytes, AppendReceipt, LoadForPublish, CheckPresence, PublishRoot,
         Interrupt, Damage

(* A caller that does not go on to write or to receipt needs no title.     *)
LEMMA EndEntitled ==
    ASSUME TypeOK, NEW c \in Callers,
           \/ \E outcome, i : End(c, outcome, i)
           \/ \E d, i, stage : stage \notin {"write", "receipt"} /\ Start(c, d, i, stage)
           \/ \E stage : stage \notin {"write", "receipt"} /\ Go(c, stage)
    PROVE  Entitled(c)'
  BY DEF TypeOK, End, Start, Go, Entitled

(* Only the judgment sends a call to write, and only a word to receipt.    *)
LEMMA NextEntitled ==
    ASSUME TypeOK, CallsSound, AllEntitled, [Next]_vars
    PROVE  AllEntitled'
<1> USE DEF AllEntitled
<1>1. ASSUME NEW c \in Callers, Entitled(c)', \A d \in Callers \ {c} : CallUnmoved(d)
      PROVE  AllEntitled'
  BY <1>1, HostStays DEF CallUnmoved, Entitled
<1>2. \A n, collected : AfterTags(n, collected) \notin {"write", "receipt"}
  BY DEF AfterTags
<1>3. ASSUME NEW c \in Callers,
             \/ \E n \in Nodes : PutNode(c, n)
             \/ \E id, b \in Ids : UploadNode(c, id, b)
      PROVE  AllEntitled'
  <2>1. Entitled(c)'
    BY <1>2, <1>3, EndEntitled DEF PutNode, UploadNode, Refuse
  <2>2. QED BY <1>1, <1>3, <2>1, OthersUnmoved
<1>4. ASSUME NEW c \in Callers, ReadReference(c) PROVE AllEntitled'
  <2>1. Entitled(c)'
    BY <1>2, <1>4, EndEntitled DEF ReadReference, Refuse
  <2>2. QED BY <1>1, <1>4, <2>1, OthersUnmoved
<1>5. ASSUME NEW c \in Callers, ReadOwnAndJudge(c) PROVE AllEntitled'
  <2>1. CASE \E outcome, i : End(c, outcome, i)
    BY <1>1, <1>5, <2>1, EndEntitled, OthersUnmoved
  <2>2. CASE /\ JudgeAdmission(node[c], tags[c], bytes[node[c]]) = "Admit"
             /\ Go(c, "write") /\ UNCHANGED <<door, node, tags, answer>>
    <3>1. node[c] \in Known
      BY <2>2, AdmitMeansMet
    <3>2. pc'[c] = "write" /\ node'[c] = node[c]
      BY <2>2 DEF Go, TypeOK
    <3>3. Entitled(c)'
      BY <3>1, <3>2 DEF Entitled
    <3>4. QED BY <1>1, <1>5, <3>3, OthersUnmoved
  <2>3. QED BY <1>5, <2>1, <2>2 DEF ReadOwnAndJudge, Refuse, Acknowledge
<1>6. ASSUME NEW c \in Callers, PutBytes(c) PROVE AllEntitled'
  <2>1. CASE \E outcome, i : End(c, outcome, i)
    BY <1>1, <1>6, <2>1, EndEntitled, OthersUnmoved
  <2>2. CASE worded /\ Go(c, "receipt")
    <3>1. pc'[c] = "receipt" /\ worded'
      BY <2>2, HostStays DEF Go, TypeOK
    <3>2. Entitled(c)'
      BY <3>1 DEF Entitled
    <3>3. QED BY <1>1, <1>6, <3>2, OthersUnmoved
  <2>3. QED
    BY <1>6, <2>1, <2>2 DEF PutBytes, WriteFailed, AfterWrite, Refuse, Acknowledge
<1>7. ASSUME NEW c \in Callers, AppendReceipt(c) \/ PublishRoot(c) \/ Interrupt(c)
      PROVE  AllEntitled'
  <2>1. Entitled(c)'
    BY <1>7, EndEntitled
    DEF AppendReceipt, ReceiptFailed, PublishRoot, Interrupt, Refuse, Acknowledge
  <2>2. QED BY <1>1, <1>7, <2>1, OthersUnmoved
<1>8. ASSUME NEW c \in Callers,
             \/ \E i \in Ids : LoadForPublish(c, i)
             \/ \E i \in Ids : \E closure \in Closures : CheckPresence(c, i, closure)
      PROVE  AllEntitled'
  <2>1. Entitled(c)'
    BY <1>8, EndEntitled DEF LoadForPublish, CheckPresence, Refuse
  <2>2. QED BY <1>1, <1>8, <2>1, OthersUnmoved
<1>9. ASSUME NEW i \in Ids, NEW b \in Damaged, Damage(i, b) PROVE AllEntitled'
  BY <1>9, HostStays DEF Damage, call, Entitled
<1>10. CASE UNCHANGED vars
  BY <1>10 DEF vars, call, host, Entitled
<1>11. QED BY <1>3, <1>4, <1>5, <1>6, <1>7, <1>8, <1>9, <1>10 DEF Next

(* What the caller hears, as the abstract store says it.                   *)
LEMMA EndTold ==
    ASSUME TypeOK, NEW c \in Callers, NEW outcome, NEW i, End(c, outcome, i)
    PROVE  /\ outcome \in Acknowledgements => Atomic!Acknowledges(c, outcome, i)
           /\ outcome \in {"none", "refused"} => Atomic!Refuses(c)
<1>1. /\ answer' = [answer EXCEPT ![c] = outcome]
      /\ node' = [node EXCEPT ![c] = i]
      /\ answer \in [Callers -> Outcomes]
      /\ node \in [Callers -> Ids \union {Absent}]
  BY DEF End, TypeOK
<1>2. Told' = [d \in Callers |-> IF answer'[d] \in Acknowledgements THEN node'[d] ELSE Absent]
  BY DEF Told
<1>3. \A d \in Callers : IF d = c THEN answer'[d] = outcome /\ node'[d] = i
                         ELSE answer'[d] = answer[d] /\ node'[d] = node[d]
  BY <1>1
<1>4. Told' = [Told EXCEPT ![c] = IF outcome \in Acknowledgements THEN i ELSE Absent]
  BY <1>2, <1>3 DEF Told
<1>5. CASE outcome \in Acknowledgements
  <2>1. Told' = [Told EXCEPT ![c] = i]
    BY <1>4, <1>5
  <2>2. outcome \notin {"none", "refused"}
    BY <1>5 DEF Acknowledgements
  <2>3. QED BY <1>1, <2>1, <2>2 DEF Atomic!Acknowledges
<1>6. CASE outcome \notin Acknowledgements
  <2>1. Told' = [Told EXCEPT ![c] = Absent]
    BY <1>4, <1>6
  <2>2. QED BY <1>1, <1>6, <2>1 DEF Atomic!Acknowledges, Atomic!Refuses
<1>7. QED BY <1>5, <1>6

(* A call that starts has been told nothing yet.                           *)
LEMMA StartTold ==
    ASSUME TypeOK, NEW c \in Callers, NEW d, NEW i, NEW stage, Start(c, d, i, stage)
    PROVE  Atomic!Refuses(c)
<1>1. /\ answer' = [answer EXCEPT ![c] = "none"]
      /\ node' = [node EXCEPT ![c] = i]
      /\ answer \in [Callers -> Outcomes]
      /\ node \in [Callers -> Ids \union {Absent}]
  BY DEF Start, TypeOK
<1>2. Told' = [e \in Callers |-> IF answer'[e] \in Acknowledgements THEN node'[e] ELSE Absent]
  BY DEF Told
<1>3. \A e \in Callers : IF e = c THEN answer'[e] = "none"
                         ELSE answer'[e] = answer[e] /\ node'[e] = node[e]
  BY <1>1
<1>4. "none" \notin Acknowledgements
  BY DEF Acknowledgements
<1>5. Told' = [Told EXCEPT ![c] = Absent]
  BY <1>2, <1>3, <1>4 DEF Told
<1>6. QED BY <1>1, <1>5 DEF Atomic!Acknowledges, Atomic!Refuses

(* A refusal acknowledges nothing.                                         *)
LEMMA RefuseTold ==
    ASSUME TypeOK, NEW c \in Callers, Refuse(c)
    PROVE  Atomic!Quiet(c)
  BY EndTold DEF Refuse, Atomic!Quiet

(* An acknowledgement names the address of the call.                       *)
LEMMA AcknowledgeTold ==
    ASSUME TypeOK, NEW c \in Callers, NEW outcome \in Acknowledgements,
           Acknowledge(c, outcome)
    PROVE  Atomic!Acknowledges(c, outcome, node[c])
  BY EndTold DEF Acknowledge

(* A call that goes on tells its caller nothing.                           *)
LEMMA NothingTold ==
    ASSUME NEW c \in Callers, UNCHANGED <<node, answer>>
    PROVE  Atomic!Quiet(c)
  BY DEF Atomic!Quiet, Told

(* The write of a sound call is the admission: every reference is met in   *)
(* the plane as it stands at that instant.                                 *)
LEMMA WriteAdmits ==
    ASSUME TypeOK, CallsSound, AllEntitled, NEW c \in Callers, WriteStep(c),
           UNCHANGED <<roots, word>>
    PROVE  node[c] \in Ids /\ Atomic!Admit(node[c])
<1>1. /\ node[c] \in Known /\ node[c] \in Nodes /\ node[c] \in Ids
      /\ Len(tags[c]) = Len(RefsOf[node[c]])
      /\ Unmet(node[c], tags[c]) = {}
  BY DEF WriteStep, CallsSound, CallSound, AllEntitled, Entitled
<1>2. Resident' = Resident \union {node[c]}
  BY <1>1 DEF WriteStep, Resident, Present, TypeOK
<1>3. ASSUME NEW k \in DOMAIN RefsOf[node[c]]
      PROVE  /\ RefsOf[node[c]][k].id \in Resident \cap Nodes
             /\ TagOf[RefsOf[node[c]][k].id] = RefsOf[node[c]][k].expectedTag
  <2>1. RefsOf[node[c]] \in Seq(Reference) /\ tags[c] \in Seq(Tags \union {NoTag})
    BY <1>1 DEF TypeOK
  <2>2. k \in DOMAIN tags[c]
    BY <1>1, <2>1
  <2>3. tags[c][k] = RefsOf[node[c]][k].expectedTag
    BY <1>1 DEF Unmet
  <2>4. RefsOf[node[c]][k] \in Reference
    BY <2>1
  <2>5. tags[c][k] # NoTag
    BY <2>3, <2>4 DEF Reference
  <2>6. QED BY <2>2, <2>3, <2>4, <2>5 DEF WriteStep, CallsSound, CallSound, Resident, Reference
<1>4. Atomic!MetIn(node[c], Resident)
  BY <1>3 DEF Atomic!MetIn
<1>5. QED BY <1>1, <1>2, <1>4 DEF Atomic!Admit

(* A store opened over a closed plane is the abstract store's start.       *)
LEMMA InitAtomic == Init => Atomic!Init /\ AllEntitled
<1> SUFFICES ASSUME Init PROVE Atomic!Init /\ AllEntitled
  OBVIOUS
<1>1. PICK S \in SUBSET Known :
         ReferenceClosed(S) /\ bytes = [i \in Ids |-> IF i \in S THEN i ELSE Absent]
  BY DEF Init
<1>2. Resident = S
  BY <1>1 DEF Resident, Present
<1>3. \A i \in S : Atomic!MetIn(i, S)
  BY <1>1 DEF ReferenceClosed, Atomic!MetIn
<1>4. Told = [c \in Callers |-> Absent]
  BY DEF Init, Told, Acknowledgements
<1>5. Atomic!Init
  BY <1>2, <1>3, <1>4 DEF Init, Atomic!Init
<1>6. AllEntitled
  BY DEF Init, AllEntitled, Entitled
<1>7. QED BY <1>5, <1>6

(* Every step of a door is one step of the abstract store, or a stutter.   *)
LEMMA NextAtomic ==
    ASSUME IInv, AllEntitled, [Next]_vars
    PROVE  [Atomic!Next]_(Atomic!vars)
<1> USE DEF IInv
<1>1. worded' = worded
  BY HostStays
<1>2. UNCHANGED bytes => Resident' = Resident
  BY DEF Resident, Present
<1>3. ASSUME NEW c \in Callers,
             \/ Atomic!NoEffect /\ Atomic!Quiet(c)
             \/ \E i \in Ids : Atomic!Serve(c, i)
      PROVE  Atomic!Next
  BY <1>1, <1>3 DEF Atomic!Next
<1>4. ASSUME NEW c \in Callers, UNCHANGED <<bytes, roots, word>>, Atomic!Quiet(c)
      PROVE  Atomic!Next
  BY <1>2, <1>3, <1>4 DEF Atomic!NoEffect
<1>5. ASSUME NEW c \in Callers,
             \/ \E n \in Nodes : PutNode(c, n)
             \/ \E id, b \in Ids : UploadNode(c, id, b)
             \/ \E i \in Ids : LoadForPublish(c, i)
             \/ \E i \in Ids : \E closure \in Closures : CheckPresence(c, i, closure)
      PROVE  Atomic!Next
  <2>1. Refuse(c) \/ \E d, i, stage : Start(c, d, i, stage)
    BY <1>5 DEF PutNode, UploadNode, LoadForPublish, CheckPresence
  <2>2. Atomic!Quiet(c)
    BY <2>1, RefuseTold, StartTold DEF Atomic!Quiet
  <2>3. UNCHANGED <<bytes, roots, word>>
    BY <1>5 DEF PutNode, UploadNode, LoadForPublish, CheckPresence
  <2>4. QED BY <1>4, <2>2, <2>3
<1>6. ASSUME NEW c \in Callers, ReadReference(c) PROVE Atomic!Next
  <2>1. Atomic!Quiet(c)
    BY <1>6, RefuseTold, NothingTold DEF ReadReference
  <2>2. QED BY <1>4, <1>6, <2>1 DEF ReadReference
<1>7. ASSUME NEW c \in Callers, ReadOwnAndJudge(c) PROVE Atomic!Next
  <2>1. node[c] \in Ids /\ UNCHANGED <<bytes, roots, word>>
    BY <1>7 DEF ReadOwnAndJudge, CallsSound, CallSound
  <2>2. CASE Refuse(c)
    BY <1>4, <2>1, <2>2, RefuseTold
  <2>3. CASE UNCHANGED <<node, answer>>
    BY <1>4, <2>1, <2>3, NothingTold
  <2>4. ASSUME JudgeAdmission(node[c], tags[c], bytes[node[c]]) = "AlreadyResident",
               NEW outcome \in {"duplicate", "AlreadyAdmitted"}, Acknowledge(c, outcome)
        PROVE  Atomic!Next
    <3>1. bytes[node[c]] = node[c]
      BY <2>4 DEF JudgeAdmission
    <3>2. node[c] \in Resident
      BY <2>1, <3>1 DEF Resident, Present
    <3>3. Atomic!Acknowledges(c, outcome, node[c])
      BY <2>4, AcknowledgeTold DEF Acknowledgements
    <3>4. Atomic!Serve(c, node[c])
      BY <1>2, <2>1, <3>2, <3>3 DEF Atomic!Serve, Atomic!NoEffect
    <3>5. QED BY <1>3, <2>1, <3>4
  <2>5. QED BY <1>7, <2>2, <2>3, <2>4 DEF ReadOwnAndJudge
<1>8. ASSUME NEW c \in Callers, PutBytes(c) PROVE Atomic!Next
  <2>1. UNCHANGED <<roots, word>> /\ pc[c] = "write"
    BY <1>8 DEF PutBytes
  <2>2. CASE WriteFailed(c)
    BY <1>4, <2>1, <2>2, RefuseTold DEF WriteFailed
  <2>3. CASE bytes' = [bytes EXCEPT ![node[c]] = node[c]] /\ (Refuse(c) \/ AfterWrite(c))
    <3>1. node[c] \in Ids /\ Atomic!Admit(node[c])
      BY <2>1, <2>3, WriteAdmits DEF WriteStep
    <3>2. \/ Refuse(c)
          \/ UNCHANGED <<node, answer>>
          \/ Acknowledge(c, "Admitted")
          \/ ~worded /\ Acknowledge(c, "fresh")
      BY <2>3, <1>8 DEF AfterWrite, PutBytes, TypeOK
    <3>3. \/ Atomic!Quiet(c)
          \/ Atomic!Acknowledges(c, "Admitted", node[c])
          \/ ~worded /\ Atomic!Acknowledges(c, "fresh", node[c])
      BY <3>2, RefuseTold, NothingTold, AcknowledgeTold DEF Acknowledgements
    <3>4. Atomic!Serve(c, node[c])
      BY <3>1, <3>3 DEF Atomic!Serve
    <3>5. QED BY <1>3, <3>1, <3>4
  <2>4. QED BY <1>8, <2>2, <2>3 DEF PutBytes
<1>9. ASSUME NEW c \in Callers, AppendReceipt(c) PROVE Atomic!Next
  <2>1. /\ node[c] \in Ids /\ node[c] \in Resident /\ worded
        /\ UNCHANGED <<bytes, roots>>
    BY <1>9 DEF AppendReceipt, CallsSound, CallSound, AllEntitled, Entitled, Resident
  <2>2. CASE UNCHANGED word /\ Refuse(c)
    BY <1>4, <2>1, <2>2, RefuseTold
  <2>3. CASE word' = Append(word, node[c]) /\ (Refuse(c) \/ Acknowledge(c, "fresh"))
    <3>1. Atomic!Receipt(node[c])
      BY <1>2, <2>1, <2>3 DEF Atomic!Receipt
    <3>2. Atomic!Quiet(c) \/ Atomic!Acknowledges(c, "fresh", node[c])
      BY <2>3, RefuseTold, AcknowledgeTold DEF Acknowledgements
    <3>3. Atomic!Serve(c, node[c])
      BY <3>1, <3>2 DEF Atomic!Serve
    <3>4. QED BY <1>3, <2>1, <3>3
  <2>4. QED BY <1>9, <2>2, <2>3 DEF AppendReceipt, ReceiptFailed
<1>10. ASSUME NEW c \in Callers, PublishRoot(c) PROVE Atomic!Next
  <2>1. /\ node[c] \in Ids /\ node[c] \in Resident
        /\ UNCHANGED <<bytes, word>>
    BY <1>10 DEF PublishRoot, CallsSound, CallSound, Resident
  <2>2. CASE UNCHANGED roots /\ Refuse(c)
    BY <1>4, <2>1, <2>2, RefuseTold
  <2>3. CASE roots' = roots \union {node[c]} /\ Acknowledge(c, "Published")
    <3>1. Atomic!Publish(node[c])
      BY <1>2, <2>1, <2>3 DEF Atomic!Publish
    <3>2. Atomic!Acknowledges(c, "Published", node[c])
      BY <2>3, AcknowledgeTold DEF Acknowledgements
    <3>3. QED BY <1>3, <2>1, <3>1, <3>2 DEF Atomic!Serve
  <2>4. QED BY <1>10, <2>2, <2>3 DEF PublishRoot
<1>11. ASSUME NEW c \in Callers, Interrupt(c) PROVE Atomic!Next
  <2>1. Atomic!Quiet(c)
    BY <1>11, EndTold DEF Interrupt, Atomic!Quiet
  <2>2. QED BY <1>4, <1>11, <2>1 DEF Interrupt
<1>12. ASSUME NEW i \in Ids, NEW b \in Damaged, Damage(i, b)
       PROVE  UNCHANGED Atomic!vars
  <2>1. Resident' = Resident
    BY <1>12 DEF Damage, Resident, Present, TypeOK
  <2>2. Told' = Told
    BY <1>12 DEF Damage, call, Told
  <2>3. QED BY <1>1, <1>12, <2>1, <2>2 DEF Damage, call, Atomic!vars
<1>13. ASSUME UNCHANGED vars PROVE UNCHANGED Atomic!vars
  BY <1>2, <1>13 DEF vars, call, host, Told, Atomic!vars
<1>14. QED
  BY <1>5, <1>6, <1>7, <1>8, <1>9, <1>10, <1>11, <1>12, <1>13 DEF Next

(* The doors read and write one step at a time and hold no lock, and yet   *)
(* they are a store that admits in one step, at either plane, through      *)
(* interrupts, failures and damage: each write finds every reference met   *)
(* at that instant, and each acknowledgement comes with what it names.     *)
THEOREM ImplementsAtomicStore == Spec => Atomic!Spec
<1>1. Init => AllEntitled
  BY InitAtomic
<1>2. IInv /\ AllEntitled /\ [Next]_vars => AllEntitled'
  BY NextEntitled DEF IInv
<1>3. Spec => []AllEntitled
  BY <1>1, <1>2, Inductive, PTL DEF Spec
<1>4. Init => Atomic!Init
  BY InitAtomic
<1>5. IInv /\ AllEntitled /\ [Next]_vars => [Atomic!Next]_(Atomic!vars)
  BY NextAtomic
<1>6. QED BY <1>3, <1>4, <1>5, Inductive, PTL DEF Spec, Atomic!Spec
============================================================================
