-------------------------- MODULE GraphWalkProofs --------------------------
(***************************************************************************)
(* Proofs about GraphWalk, for every set of byte strings, every reference  *)
(* graph over them and every host: what closure lists over a host that     *)
(* does not lie is an upload order of the root's graph, and what verify    *)
(* lists over any host is the root's complete graph at the declared kinds. *)
(***************************************************************************)
EXTENDS GraphWalk, SequenceTheorems, FiniteSetTheorems, TLAPS

Depth      == Len(stack)
OnStack    == {stack[k].id : k \in 1..Depth}
OrderedIds == {ordered[k] : k \in 1..Len(ordered)}
IsLoaded(k) == stack[k].refs # NotLoaded

(* A host that does not lie holds known nodes at their own addresses, and  *)
(* with a node whatever it refers to, at the kind it declares.             *)
HostHonest ==
    lies = 0 => \A i \in Ids : bytes[i] # Absent =>
                   bytes[i] = i /\ i \in Known /\ Unmet(i, TagsNow(i)) = {}

(* The stack is a path from the root: each frame but the last followed its *)
(* last reference to the frame above, and no id has two frames.            *)
Path ==
    /\ stack = <<>> <=> walk = "none"
    /\ walk # "none" => stack[1].id = root
    /\ \A k \in 1..Depth :
          /\ stack[k].next >= 1
          /\ IsLoaded(k) => stack[k].next <= Len(stack[k].refs) + 1
          /\ ~IsLoaded(k) => k = Depth /\ stack[k].next = 1
    /\ \A k \in 1..(Depth - 1) :
          stack[k].next > 1 /\ stack[k].refs[stack[k].next - 1].id = stack[k + 1].id
    /\ \A j, k \in 1..Depth : stack[j].id = stack[k].id => j = k

(* What closure has pushed it has ordered or has on the stack, never both. *)
Sorted ==
    /\ pushed = OrderedIds \union OnStack
    /\ OrderedIds \intersect OnStack = {}
    /\ \A j, k \in 1..Len(ordered) : ordered[j] = ordered[k] => j = k
    /\ ~IsLoaded(1) => ordered = <<>>

(* What closure read from an honest host: every reference a frame has      *)
(* passed is ordered or leads to the frame above.                          *)
FrameRead(k) ==
    /\ k > 1 \/ IsLoaded(k) => bytes[stack[k].id] = stack[k].id
    /\ IsLoaded(k) =>
          /\ stack[k].id \in Known /\ stack[k].refs = RefsOf[stack[k].id]
          /\ \A m \in 1..(stack[k].next - 1) :
                \/ stack[k].refs[m].id \in OrderedIds
                \/ k < Depth /\ stack[k].refs[m].id = stack[k + 1].id

(* The reference the frame on top follows next.                            *)
NextChild == Top.refs[Top.next].id

RefersTo(n, c) == \E m \in DOMAIN RefsOf[n] : RefsOf[n][m].id = c

(* A listed id comes after all it refers to, and before one referring to   *)
(* it, or below such a one on the stack.                                   *)
Placed(k) ==
    /\ ordered[k] \in Nodes
    /\ \A m \in DOMAIN RefsOf[ordered[k]] :
          \E j \in 1..(k - 1) : ordered[j] = RefsOf[ordered[k]][m].id
    /\ \/ \E j \in (k + 1)..Len(ordered) : RefersTo(ordered[j], ordered[k])
       \/ \E j \in 1..Depth : IsLoaded(j) /\ RefersTo(stack[j].id, ordered[k])

ClosureInv ==
    walk = "closure" =>
       /\ Sorted
       /\ lies = 0 => /\ \A k \in 1..Depth : FrameRead(k)
                      /\ \A k \in 1..Len(ordered) : Placed(k)

(* The reference m of n was followed, at the kind it declares.             *)
Followed(E, n, m) ==
    /\ <<n, RefsOf[n][m].id>> \in E
    /\ TagOf[RefsOf[n][m].id] = RefsOf[n][m].expectedTag

(* What verify keeps is true of the bytes whatever the host serves: a      *)
(* frame that was pushed and is gone had all its references followed.      *)
Audited ==
    /\ verified \subseteq Known
    /\ root \in pushed /\ OnStack \subseteq pushed
    /\ \A k \in 1..Depth :
          /\ k > 1 => IsLoaded(k)
          /\ IsLoaded(k) =>
                /\ stack[k].id \in verified /\ stack[k].refs = RefsOf[stack[k].id]
                /\ \A m \in 1..(stack[k].next - 1) : Followed(edges, stack[k].id, m)
    /\ \A e \in edges : e[1] \in pushed /\ e[2] \in pushed /\ RefersTo(e[1], e[2])
    /\ \A p \in pushed : p = root \/ \E e \in edges : e[2] = p
    /\ \A p \in pushed \ OnStack :
          p \in verified /\ \A m \in DOMAIN RefsOf[p] : Followed(edges, p, m)
    /\ lies = 0 => \A i \in verified : bytes[i] = i

VerifyInv == walk = "verify" => Audited

WalkInv ==
    /\ TypeOK /\ IsFiniteSet(edges)
    /\ HostHonest /\ Path /\ ClosureInv /\ VerifyInv

AnswerInv == ClosureComplete /\ AuditSound /\ HonestHostPasses

IInv == WalkInv /\ AnswerInv

----------------------------------------------------------------------------
(* Lemmas on stacks.                                                       *)

LEMMA TopFrame ==
    ASSUME NEW s \in Seq(Frame), s # <<>>
    PROVE  /\ Len(s) \in Nat \ {0} /\ DOMAIN s = 1..Len(s)
           /\ \A k \in 1..Len(s) :
                 /\ s[k] \in Frame /\ s[k].id \in Ids /\ s[k].next \in Nat
                 /\ s[k].refs \in Seq(Reference) \union {NotLoaded}
  <1>1. Len(s) \in Nat \ {0} /\ DOMAIN s = 1..Len(s)
    BY LenProperties, EmptySeq
  <1>2. \A k \in 1..Len(s) : s[k] \in Frame
    BY ElementOfSeq
  <1> QED BY <1>1, <1>2 DEF Frame

(* The references of a frame, read or not.                                 *)
MaybeRead == Seq(Reference) \union {NotLoaded}

(* What becomes of a stack: its last frame moves on, gets its references,  *)
(* is followed by another, or is dropped.                                  *)
Moved(s)       == [s EXCEPT ![Len(s)].next = @ + 1]
Loaded(s, R)   == [s EXCEPT ![Len(s)].refs = R]
Pushed(s, c, R) == Append(Moved(s), FrameOf(c, R))

LEMMA MoveFrame ==
    ASSUME NEW s \in Seq(Frame), s # <<>>
    PROVE  /\ Moved(s) \in Seq(Frame) /\ Len(Moved(s)) = Len(s)
           /\ \A k \in 1..Len(s) : Moved(s)[k].id = s[k].id /\ Moved(s)[k].refs = s[k].refs
           /\ \A k \in 1..Len(s) :
                 Moved(s)[k].next = IF k = Len(s) THEN s[k].next + 1 ELSE s[k].next
  <1> DEFINE f == s[Len(s)]
             e == [id |-> f.id, refs |-> f.refs, next |-> f.next + 1]
  <1>1. Len(s) \in 1..Len(s) /\ DOMAIN s = 1..Len(s) /\ f \in Frame
    BY TopFrame
  <1>2. e \in Frame /\ e = [f EXCEPT !.next = f.next + 1]
    BY <1>1 DEF Frame
  <1>3. Moved(s) = [s EXCEPT ![Len(s)] = e]
    BY <1>1, <1>2 DEF Moved
  <1>4. \A k \in 1..Len(s) : Moved(s)[k] = IF k = Len(s) THEN e ELSE s[k]
    BY <1>1, <1>2, <1>3, ExceptSeq
  <1>5. Moved(s) \in Seq(Frame) /\ Len(Moved(s)) = Len(s)
    BY <1>1, <1>2, <1>3, ExceptSeq
  <1> QED BY <1>4, <1>5

LEMMA LoadFrame ==
    ASSUME NEW s \in Seq(Frame), s # <<>>, NEW R \in Seq(Reference)
    PROVE  /\ Loaded(s, R) \in Seq(Frame) /\ Len(Loaded(s, R)) = Len(s)
           /\ \A k \in 1..Len(s) : Loaded(s, R)[k].id = s[k].id /\ Loaded(s, R)[k].next = s[k].next
           /\ \A k \in 1..Len(s) : Loaded(s, R)[k].refs = IF k = Len(s) THEN R ELSE s[k].refs
  <1> DEFINE f == s[Len(s)]
             e == [id |-> f.id, refs |-> R, next |-> f.next]
  <1>1. Len(s) \in 1..Len(s) /\ DOMAIN s = 1..Len(s) /\ f \in Frame
    BY TopFrame
  <1>2. e \in Frame /\ e = [f EXCEPT !.refs = R]
    BY <1>1 DEF Frame
  <1>3. Loaded(s, R) = [s EXCEPT ![Len(s)] = e]
    BY <1>1, <1>2 DEF Loaded
  <1>4. \A k \in 1..Len(s) : Loaded(s, R)[k] = IF k = Len(s) THEN e ELSE s[k]
    BY <1>1, <1>2, <1>3, ExceptSeq
  <1>5. Loaded(s, R) \in Seq(Frame) /\ Len(Loaded(s, R)) = Len(s)
    BY <1>1, <1>2, <1>3, ExceptSeq
  <1> QED BY <1>4, <1>5

LEMMA PushFrame ==
    ASSUME NEW s \in Seq(Frame), s # <<>>, NEW c \in Ids,
           NEW R \in MaybeRead, NEW t,
           t = Pushed(s, c, R)
    PROVE  /\ t \in Seq(Frame) /\ t # <<>> /\ Len(t) = Len(s) + 1
           /\ \A k \in 1..Len(s) : t[k].id = s[k].id /\ t[k].refs = s[k].refs
           /\ \A k \in 1..Len(s) : t[k].next = IF k = Len(s) THEN s[k].next + 1 ELSE s[k].next
           /\ t[Len(s) + 1].id = c /\ t[Len(s) + 1].refs = R /\ t[Len(s) + 1].next = 1
  <1>1. FrameOf(c, R) \in Frame
    BY DEF Frame, FrameOf, MaybeRead
  <1>2. /\ t \in Seq(Frame) /\ t # <<>> /\ Len(t) = Len(Moved(s)) + 1
        /\ \A k \in 1..Len(Moved(s)) : t[k] = Moved(s)[k]
        /\ t[Len(Moved(s)) + 1] = FrameOf(c, R)
    BY <1>1, MoveFrame, AppendProperties DEF Pushed
  <1> QED BY <1>2, MoveFrame DEF FrameOf

LEMMA PopFrame ==
    ASSUME NEW s \in Seq(Frame), s # <<>>, Len(s) # 1
    PROVE  /\ Front(s) \in Seq(Frame) /\ Front(s) # <<>> /\ Len(Front(s)) = Len(s) - 1
           /\ \A k \in 1..(Len(s) - 1) : Front(s)[k] = s[k]
  <1>1. /\ Len(s) \in Nat /\ Len(s) # 0
        /\ \A k \in 1..Len(s) : s[k] \in Frame
    BY TopFrame
  <1> DEFINE n == Len(s) - 1
  <1>0. n \in Int /\ n >= 1 /\ n < Len(s)
    <2>1. n \in Int /\ n < Len(s)
      BY <1>1
    <2>2. \A l \in Nat : l # 0 /\ l # 1 => l - 1 >= 1
      OBVIOUS
    <2>3. Len(s) # 1
      OBVIOUS
    <2> QED BY <1>1, <2>1, <2>2, <2>3
  <1>5. n \in Int /\ n >= 1 /\ \A i \in 1..n : s[i] \in Frame
    <2>1. \A i \in 1..n : i \in 1..Len(s)
      BY <1>0, <1>1
    <2> QED BY <1>0, <1>1, <2>1
  <1> HIDE DEF n
  <1>6. /\ SubSeq(s, 1, n) \in Seq(Frame) /\ Len(SubSeq(s, 1, n)) = n
        /\ \A i \in 1..n : SubSeq(s, 1, n)[i] = s[i]
    BY <1>5, SubSeqProperties
  <1>2. /\ SubSeq(s, 1, Len(s) - 1) \in Seq(Frame)
        /\ Len(SubSeq(s, 1, Len(s) - 1)) = Len(s) - 1
        /\ \A i \in 1..(Len(s) - 1) : SubSeq(s, 1, Len(s) - 1)[i] = s[i]
    BY <1>6 DEF n
  <1>3. Front(s) = SubSeq(s, 1, Len(s) - 1)
    BY DEF Front
  <1>4. Front(s) # <<>>
    <2>1. Len(Front(s)) # 0
      BY <1>1, <1>2, <1>3
    <2> QED BY <2>1, EmptySeq
  <1> QED BY <1>2, <1>3, <1>4

----------------------------------------------------------------------------
(* Lemmas on references and on the host.                                   *)

LEMMA ReferenceTyped ==
    ASSUME NEW n \in Nodes
    PROVE  /\ n \in Ids /\ RefsOf[n] \in Seq(Reference) /\ Len(RefsOf[n]) \in Nat
           /\ DOMAIN RefsOf[n] = 1..Len(RefsOf[n]) /\ RefsOf[n] # NotLoaded
           /\ \A m \in DOMAIN RefsOf[n] :
                 RefsOf[n][m].id \in Ids /\ RefsOf[n][m].expectedTag \in Tags
  <1>1. n \in Ids /\ RefsOf[n] \in Seq(Reference)
    BY AdmissionAssumption
  <1>2. Len(RefsOf[n]) \in Nat /\ DOMAIN RefsOf[n] = 1..Len(RefsOf[n])
    BY <1>1, LenProperties
  <1>3. \A m \in DOMAIN RefsOf[n] : RefsOf[n][m] \in Reference
    BY <1>1, <1>2, ElementOfSeq
  <1> QED BY <1>1, <1>2, <1>3, WalkAssumption DEF Reference

(* What an honest host holds is known, and so is all it refers to.         *)
LEMMA HonestChild ==
    ASSUME TypeOK, HostHonest, lies = 0, NEW i \in Ids, bytes[i] # Absent,
           NEW m \in DOMAIN RefsOf[i]
    PROVE  /\ bytes[RefsOf[i][m].id] = RefsOf[i][m].id
           /\ RefsOf[i][m].id \in Known
           /\ TagOf[RefsOf[i][m].id] = RefsOf[i][m].expectedTag
  <1> DEFINE c == RefsOf[i][m].id
  <1>1. i \in Nodes /\ Unmet(i, TagsNow(i)) = {}
    BY AdmissionAssumption DEF HostHonest
  <1>2. c \in Ids /\ RefsOf[i][m].expectedTag \in Tags
    BY <1>1, ReferenceTyped
  <1>3. TagsNow(i)[m] = RefsOf[i][m].expectedTag
    BY <1>1 DEF Unmet
  <1>4. TagsNow(i)[m] = IF bytes[c] \in Nodes THEN TagOf[bytes[c]] ELSE NoTag
    BY DEF TagsNow
  <1>5. bytes[c] \in Nodes /\ TagOf[bytes[c]] = RefsOf[i][m].expectedTag
    BY <1>2, <1>3, <1>4, AdmissionAssumption
  <1>6. bytes[c] # Absent
    BY <1>5, AdmissionAssumption
  <1> QED BY <1>2, <1>5, <1>6 DEF HostHonest

(* Over an honest host, what the frame on top refers to next is not on the *)
(* stack: the path from there to here and back would be a cycle.           *)
LEMMA NoCycle ==
    ASSUME TypeOK, Path, \A k \in 1..Depth : FrameRead(k), stack # <<>>, HasNext
    PROVE  NextChild \notin OnStack
  <1> DEFINE c == NextChild
  <1> SUFFICES ASSUME NEW j \in 1..Depth, stack[j].id = c PROVE FALSE
    BY DEF OnStack
  <1> DEFINE S == {stack[k].id : k \in j..Depth}
  <1>1. Depth \in Nat \ {0} /\ \A k \in 1..Depth : stack[k].next \in Nat
    BY TopFrame DEF TypeOK, Depth
  <1>2. \A k \in 1..Depth : IsLoaded(k)
    BY <1>1 DEF HasNext, Top, Path, IsLoaded, Depth
  <1>3. \A k \in 1..Depth : stack[k].id \in Nodes /\ stack[k].refs = RefsOf[stack[k].id]
    BY <1>2, AdmissionAssumption DEF FrameRead
  <1>4. S \in SUBSET Nodes /\ S # {}
    BY <1>1, <1>3
  <1>5. PICK n \in S : \A m \in DOMAIN RefsOf[n] : RefsOf[n][m].id \notin S
    BY <1>4, ReferencesWellFounded
  <1>6. PICK k \in j..Depth : n = stack[k].id
    BY <1>5
  <1>7. k \in 1..Depth /\ DOMAIN RefsOf[n] = 1..Len(stack[k].refs) /\ Len(stack[k].refs) \in Nat
    BY <1>1, <1>3, <1>6, ReferenceTyped
  <1>8. CASE k = Depth
    <2>1. Top.next \in DOMAIN RefsOf[n] /\ RefsOf[n][Top.next].id = c
      BY <1>1, <1>3, <1>6, <1>7, <1>8 DEF HasNext, Top, Path, Depth, NextChild
    <2>2. c \in S
      BY <1>1
    <2> QED BY <1>5, <2>1, <2>2
  <1>9. CASE k # Depth
    <2> DEFINE m == stack[k].next - 1
    <2>1. k \in 1..(Depth - 1) /\ k + 1 \in j..Depth
      BY <1>1, <1>6, <1>9
    <2>2. m \in 1..Len(stack[k].refs)
      <3>1. stack[k].next > 1 /\ stack[k].next <= Len(stack[k].refs) + 1
        BY <1>2, <1>7, <2>1 DEF Path
      <3> QED BY <1>1, <1>7, <3>1
    <2>3. RefsOf[n][m].id = stack[k + 1].id
      BY <1>3, <1>6, <1>7, <2>1 DEF Path
    <2>4. stack[k + 1].id \in S
      BY <2>1
    <2> QED BY <1>5, <1>7, <2>2, <2>3, <2>4
  <1> QED BY <1>8, <1>9

----------------------------------------------------------------------------
(* The path, as the last frame is loaded, moves on, is followed or dropped.*)

LEMMA Standing ==
    ASSUME TypeOK, Path, walk # "none"
    PROVE  /\ stack \in Seq(Frame) /\ stack # <<>>
           /\ Depth \in Nat /\ Depth >= 1 /\ Len(stack) = Depth /\ Top = stack[Depth]
           /\ DOMAIN stack = 1..Depth
           /\ \A k \in 1..Depth : /\ stack[k].id \in Ids /\ stack[k].next \in Nat
                                  /\ stack[k].refs \in Seq(Reference) \union {NotLoaded}
           /\ stack[1].id = root
  BY TopFrame DEF TypeOK, Path, Depth, Top

LEMMA PathLoaded ==
    ASSUME TypeOK, Path, walk # "none", ~IsLoaded(Depth),
           NEW R \in Seq(Reference), stack' = Loaded(stack, R), UNCHANGED <<walk, root>>
    PROVE  /\ Path' /\ Depth' = Depth /\ OnStack' = OnStack /\ stack' \in Seq(Frame)
           /\ \A k \in 1..Depth : stack'[k].id = stack[k].id /\ stack'[k].next = stack[k].next
           /\ \A k \in 1..Depth : stack'[k].refs = IF k = Depth THEN R ELSE stack[k].refs
           /\ \A k \in 1..Depth : IsLoaded(k)'
  <1>1. /\ stack' \in Seq(Frame) /\ Depth' = Depth /\ Depth \in Nat /\ Depth >= 1
        /\ \A k \in 1..Depth : stack'[k].id = stack[k].id /\ stack'[k].next = stack[k].next
        /\ \A k \in 1..Depth : stack'[k].refs = IF k = Depth THEN R ELSE stack[k].refs
    BY Standing, LoadFrame DEF Depth
  <1>2. R # NotLoaded /\ Len(R) \in Nat
    BY WalkAssumption, LenProperties
  <1>3. \A k \in 1..Depth : IsLoaded(k)'
    BY <1>1, <1>2 DEF IsLoaded, Path
  <1>4. OnStack' = OnStack
    BY <1>1 DEF OnStack
  <1>5. stack' # <<>> /\ stack # <<>>
    BY <1>1, Standing, EmptySeq DEF Depth
  <1>6. stack'[1].id = root'
    BY <1>1, Standing
  <1>7. \A k \in 1..Depth' :
          /\ stack'[k].next >= 1
          /\ IsLoaded(k)' => stack'[k].next <= Len(stack'[k].refs) + 1
          /\ IsLoaded(k)'
    <2> SUFFICES ASSUME NEW k \in 1..Depth
                 PROVE  stack'[k].next >= 1 /\ stack'[k].next <= Len(stack'[k].refs) + 1
      BY <1>1, <1>3
    <2>1. CASE k = Depth
      BY <1>1, <1>2, <2>1 DEF Path
    <2>2. CASE k # Depth
      BY <1>1, <2>2 DEF Path, IsLoaded
    <2> QED BY <2>1, <2>2
  <1>8. \A k \in 1..(Depth' - 1) :
          stack'[k].next > 1 /\ stack'[k].refs[stack'[k].next - 1].id = stack'[k + 1].id
    <2> SUFFICES ASSUME NEW k \in 1..(Depth - 1)
                 PROVE  stack'[k].next > 1 /\ stack'[k].refs[stack'[k].next - 1].id = stack'[k + 1].id
      BY <1>1
    <2>1. k \in 1..Depth /\ k + 1 \in 1..Depth /\ k # Depth
      BY <1>1
    <2> QED BY <1>1, <2>1 DEF Path
  <1>9. \A j, k \in 1..Depth' : stack'[j].id = stack'[k].id => j = k
    BY <1>1 DEF Path
  <1>10. Path'
    BY <1>5, <1>6, <1>7, <1>8, <1>9 DEF Path
  <1> QED BY <1>1, <1>3, <1>4, <1>10

LEMMA PathMoved ==
    ASSUME TypeOK, Path, walk # "none", HasNext,
           stack' = Moved(stack), UNCHANGED <<walk, root>>
    PROVE  /\ Path' /\ Depth' = Depth /\ OnStack' = OnStack /\ stack' \in Seq(Frame)
           /\ \A k \in 1..Depth : stack'[k].id = stack[k].id /\ stack'[k].refs = stack[k].refs
           /\ \A k \in 1..Depth :
                 stack'[k].next = IF k = Depth THEN stack[k].next + 1 ELSE stack[k].next
  <1>1. /\ stack' \in Seq(Frame) /\ Depth' = Depth /\ Depth \in Nat /\ Depth >= 1
        /\ \A k \in 1..Depth : stack'[k].id = stack[k].id /\ stack'[k].refs = stack[k].refs
        /\ \A k \in 1..Depth :
              stack'[k].next = IF k = Depth THEN stack[k].next + 1 ELSE stack[k].next
    BY Standing, MoveFrame DEF Depth
  <1>2. IsLoaded(Depth) /\ stack[Depth].next \in Nat
        /\ Len(stack[Depth].refs) \in Nat /\ stack[Depth].next <= Len(stack[Depth].refs)
    <2>1. IsLoaded(Depth) /\ stack[Depth].next <= Len(stack[Depth].refs)
      BY Standing DEF HasNext, IsLoaded
    <2>2. stack[Depth].refs \in Seq(Reference)
      BY <1>1, <2>1, Standing DEF IsLoaded
    <2> QED BY <1>1, <2>1, <2>2, Standing, LenProperties
  <1>4. OnStack' = OnStack
    BY <1>1 DEF OnStack
  <1>5. stack' # <<>> /\ stack # <<>>
    BY <1>1, Standing, EmptySeq DEF Depth
  <1>6. stack'[1].id = root'
    BY <1>1, Standing
  <1>7. \A k \in 1..Depth' :
          /\ stack'[k].next >= 1
          /\ IsLoaded(k)' => stack'[k].next <= Len(stack'[k].refs) + 1
          /\ IsLoaded(k)'
    <2> SUFFICES ASSUME NEW k \in 1..Depth
                 PROVE  stack'[k].next >= 1 /\ stack'[k].next <= Len(stack'[k].refs) + 1 /\ IsLoaded(k)'
      BY <1>1
    <2>1. CASE k = Depth
      BY <1>1, <1>2, <2>1 DEF Path, IsLoaded
    <2>2. CASE k # Depth
      BY <1>1, <2>2 DEF Path, IsLoaded
    <2> QED BY <2>1, <2>2
  <1>8. \A k \in 1..(Depth' - 1) :
          stack'[k].next > 1 /\ stack'[k].refs[stack'[k].next - 1].id = stack'[k + 1].id
    <2> SUFFICES ASSUME NEW k \in 1..(Depth - 1)
                 PROVE  stack'[k].next > 1 /\ stack'[k].refs[stack'[k].next - 1].id = stack'[k + 1].id
      BY <1>1
    <2>1. k \in 1..Depth /\ k + 1 \in 1..Depth /\ k # Depth
      BY <1>1
    <2> QED BY <1>1, <2>1 DEF Path
  <1>9. \A j, k \in 1..Depth' : stack'[j].id = stack'[k].id => j = k
    BY <1>1 DEF Path
  <1>10. Path'
    BY <1>5, <1>6, <1>7, <1>8, <1>9 DEF Path
  <1> QED BY <1>1, <1>4, <1>10

LEMMA PathPushed ==
    ASSUME TypeOK, Path, walk # "none", HasNext,
           NEW c \in Ids, c = NextChild, c \notin OnStack,
           NEW R \in MaybeRead,
           stack' = Pushed(stack, c, R), UNCHANGED <<walk, root>>
    PROVE  /\ Path' /\ Depth' = Depth + 1 /\ OnStack' = OnStack \union {c}
           /\ stack' \in Seq(Frame)
           /\ \A k \in 1..Depth : stack'[k].id = stack[k].id /\ stack'[k].refs = stack[k].refs
           /\ \A k \in 1..Depth :
                 stack'[k].next = IF k = Depth THEN stack[k].next + 1 ELSE stack[k].next
           /\ stack'[Depth + 1].id = c /\ stack'[Depth + 1].refs = R
           /\ stack'[Depth + 1].next = 1
  <1>1. /\ stack' \in Seq(Frame) /\ Depth' = Depth + 1 /\ Depth \in Nat /\ Depth >= 1
        /\ \A k \in 1..Depth : stack'[k].id = stack[k].id /\ stack'[k].refs = stack[k].refs
        /\ \A k \in 1..Depth :
              stack'[k].next = IF k = Depth THEN stack[k].next + 1 ELSE stack[k].next
        /\ stack'[Depth + 1].id = c /\ stack'[Depth + 1].refs = R
        /\ stack'[Depth + 1].next = 1 /\ stack' # <<>>
    <2>1. stack \in Seq(Frame) /\ stack # <<>> /\ Depth \in Nat /\ Depth >= 1
      BY Standing
    <2> QED BY <2>1, PushFrame DEF Depth
  <1>2. /\ IsLoaded(Depth) /\ stack[Depth].next \in Nat
        /\ Len(stack[Depth].refs) \in Nat /\ stack[Depth].next <= Len(stack[Depth].refs)
    <2>1. IsLoaded(Depth) /\ stack[Depth].next <= Len(stack[Depth].refs)
      BY Standing DEF HasNext, IsLoaded
    <2>2. stack[Depth].refs \in Seq(Reference)
      BY <1>1, <2>1, Standing DEF IsLoaded
    <2> QED BY <1>1, <2>1, <2>2, Standing, LenProperties
  <1>3. R # NotLoaded => Len(R) \in Nat
    BY LenProperties DEF MaybeRead
  <1>4. \A k \in 1..Depth' : k \in 1..Depth \/ k = Depth + 1
    BY <1>1
  <1>5. OnStack' = OnStack \union {c}
    BY <1>1, <1>4 DEF OnStack
  <1>6. stack'[1].id = root'
    BY <1>1, Standing
  <1>7. \A k \in 1..Depth' :
          /\ stack'[k].next >= 1
          /\ IsLoaded(k)' => stack'[k].next <= Len(stack'[k].refs) + 1
          /\ ~IsLoaded(k)' => k = Depth' /\ stack'[k].next = 1
    <2> SUFFICES ASSUME NEW k \in 1..Depth'
                 PROVE  /\ stack'[k].next >= 1
                        /\ IsLoaded(k)' => stack'[k].next <= Len(stack'[k].refs) + 1
                        /\ ~IsLoaded(k)' => k = Depth' /\ stack'[k].next = 1
      OBVIOUS
    <2>0. \A j \in 1..Depth :
             /\ stack[j].next >= 1
             /\ IsLoaded(j) => stack[j].next <= Len(stack[j].refs) + 1
             /\ ~IsLoaded(j) => j = Depth /\ stack[j].next = 1
      BY DEF Path
    <2>1. CASE k = Depth
      <3>1. /\ stack'[k].next = stack[k].next + 1 /\ stack'[k].refs = stack[k].refs
            /\ stack[k].refs # NotLoaded
        BY <1>1, <1>2, <2>1 DEF IsLoaded
      <3>2. stack[k].next + 1 <= Len(stack[k].refs) + 1 /\ stack[k].next + 1 >= 1
        BY <1>1, <1>2, <2>0, <2>1
      <3> QED BY <3>1, <3>2 DEF IsLoaded
    <2>2. CASE k \in 1..Depth /\ k # Depth
      <3>1. stack'[k].next = stack[k].next /\ stack'[k].refs = stack[k].refs
        BY <1>1, <2>2
      <3>2. stack[k].next >= 1 /\ stack[k].refs # NotLoaded /\ stack[k].next <= Len(stack[k].refs) + 1
        BY <2>0, <2>2 DEF IsLoaded
      <3> QED BY <3>1, <3>2 DEF IsLoaded
    <2>3. CASE k = Depth + 1
      BY <1>1, <1>3, <2>3 DEF IsLoaded
    <2> QED BY <1>4, <2>1, <2>2, <2>3
  <1>8. \A k \in 1..(Depth' - 1) :
          stack'[k].next > 1 /\ stack'[k].refs[stack'[k].next - 1].id = stack'[k + 1].id
    <2> SUFFICES ASSUME NEW k \in 1..Depth
                 PROVE  stack'[k].next > 1 /\ stack'[k].refs[stack'[k].next - 1].id = stack'[k + 1].id
      BY <1>1
    <2>1. CASE k = Depth
      <3>1. stack[k].refs[stack[k].next].id = c
        BY <2>1, Standing DEF NextChild
      <3>2. stack[k].next >= 1 /\ (stack[k].next + 1) - 1 = stack[k].next
        BY <1>1, <1>2, <2>1 DEF Path
      <3>3. /\ stack'[k].next = stack[k].next + 1 /\ stack'[k].refs = stack[k].refs
            /\ stack'[k + 1].id = c
        BY <1>1, <2>1
      <3>4. stack'[k].next > 1
        BY <1>2, <2>1, <3>2, <3>3
      <3>5. stack'[k].refs[stack'[k].next - 1] = stack[k].refs[stack[k].next]
        BY <3>2, <3>3
      <3> QED BY <3>1, <3>3, <3>4, <3>5
    <2>2. CASE k # Depth
      <3>1. k \in 1..(Depth - 1) /\ k + 1 \in 1..Depth
        BY <1>1, <2>2
      <3>2. /\ stack'[k].next = stack[k].next /\ stack'[k].refs = stack[k].refs
            /\ stack'[k + 1].id = stack[k + 1].id
        BY <1>1, <2>2, <3>1
      <3>3. stack[k].next > 1 /\ stack[k].refs[stack[k].next - 1].id = stack[k + 1].id
        BY <3>1 DEF Path
      <3> QED BY <3>2, <3>3
    <2> QED BY <2>1, <2>2
  <1>9. \A j, k \in 1..Depth' : stack'[j].id = stack'[k].id => j = k
    <2>1. \A k \in 1..Depth : stack'[k].id # c
      BY <1>1 DEF OnStack
    <2>2. \A j, k \in 1..Depth : stack'[j].id = stack'[k].id => j = k
      BY <1>1 DEF Path
    <2>3. \A k \in 1..Depth : stack'[k].id # stack'[Depth + 1].id
      BY <1>1, <2>1
    <2> SUFFICES ASSUME NEW j \in 1..Depth', NEW k \in 1..Depth', stack'[j].id = stack'[k].id
                 PROVE  j = k
      OBVIOUS
    <2>4. CASE j \in 1..Depth /\ k \in 1..Depth
      BY <2>2, <2>4
    <2>5. CASE j = Depth + 1 \/ k = Depth + 1
      BY <1>4, <2>3, <2>5
    <2> QED BY <1>4, <2>4, <2>5
  <1>10. Path'
    BY <1>1, <1>6, <1>7, <1>8, <1>9 DEF Path
  <1> QED BY <1>1, <1>5, <1>10

LEMMA PathPopped ==
    ASSUME TypeOK, Path, walk # "none", Exhausted, Len(stack) # 1,
           stack' = Front(stack), UNCHANGED <<walk, root>>
    PROVE  /\ Path' /\ Depth' = Depth - 1 /\ Depth >= 2
           /\ stack' \in Seq(Frame)
           /\ \A k \in 1..(Depth - 1) : stack'[k] = stack[k]
           /\ OnStack' = OnStack \ {Top.id} /\ Top.id \in OnStack
           /\ \A k \in 1..Depth : IsLoaded(k)
  <1>1. /\ stack' \in Seq(Frame) /\ stack' # <<>> /\ Depth' = Depth - 1 /\ Depth \in Nat
        /\ Depth >= 1 /\ \A k \in 1..(Depth - 1) : stack'[k] = stack[k]
    BY Standing, PopFrame DEF Depth
  <1>2. Depth >= 2 /\ 1 \in 1..(Depth - 1)
    <2>1. Depth # 1
      BY DEF Depth
    <2>2. \A l \in Nat : l >= 1 /\ l # 1 => l >= 2 /\ 1 \in 1..(l - 1)
      OBVIOUS
    <2> QED BY <1>1, <2>1, <2>2
  <1>3. \A k \in 1..Depth : k \in 1..(Depth - 1) \/ k = Depth
    BY <1>1
  <1>4. \A k \in 1..Depth : IsLoaded(k)
    BY <1>3, Standing DEF Path, Exhausted, IsLoaded
  <1>5. OnStack' = OnStack \ {Top.id} /\ Top.id \in OnStack
    <2>1. \A k \in 1..(Depth - 1) : k \in 1..Depth /\ k # Depth
      BY <1>1
    <2>2. Top = stack[Depth] /\ Depth \in 1..Depth
      BY <1>1, Standing
    <2>3. \A k \in 1..(Depth - 1) : stack[k].id # Top.id
      BY <2>1, <2>2 DEF Path
    <2> QED BY <1>1, <1>3, <2>1, <2>2, <2>3 DEF OnStack
  <1>6. stack'[1].id = root'
    BY <1>1, <1>2, Standing
  <1>7. \A k \in 1..Depth' :
          /\ stack'[k].next >= 1
          /\ IsLoaded(k)' => stack'[k].next <= Len(stack'[k].refs) + 1
          /\ IsLoaded(k)'
    <2>1. \A k \in 1..Depth' : k \in 1..Depth /\ stack'[k] = stack[k] /\ IsLoaded(k)
      BY <1>1, <1>4
    <2> QED BY <2>1 DEF Path, IsLoaded
  <1>8. \A k \in 1..(Depth' - 1) :
          stack'[k].next > 1 /\ stack'[k].refs[stack'[k].next - 1].id = stack'[k + 1].id
    <2>1. \A k \in 1..(Depth' - 1) :
            /\ k \in 1..(Depth - 1) /\ k + 1 \in 1..(Depth - 1)
            /\ stack'[k] = stack[k] /\ stack'[k + 1] = stack[k + 1]
      BY <1>1
    <2> QED BY <2>1 DEF Path
  <1>9. \A j, k \in 1..Depth' : stack'[j].id = stack'[k].id => j = k
    <2>1. \A k \in 1..Depth' : k \in 1..Depth /\ stack'[k] = stack[k]
      BY <1>1
    <2> QED BY <2>1 DEF Path
  <1>10. Path'
    BY <1>1, <1>6, <1>7, <1>8, <1>9 DEF Path
  <1> QED BY <1>1, <1>2, <1>4, <1>5, <1>10

----------------------------------------------------------------------------
(* How a walk begins and ends, and what the host does meanwhile.           *)

LEMMA AnswerStands ==
    ASSUME AnswerInv, UNCHANGED <<lies, root, answer>>
    PROVE  AnswerInv'
  BY DEF AnswerInv, ClosureComplete, AuditSound, HonestHostPasses

(* What verify promises of a listing.                                      *)
Complete(r, s) ==
    /\ UploadOrder(r, s)
    /\ \A k \in DOMAIN s :
          /\ s[k] \in Known
          /\ Unmet(s[k], [m \in DOMAIN RefsOf[s[k]] |-> TagOf[RefsOf[s[k]][m].id]]) = {}

LEMMA StartKeeps ==
    ASSUME IInv, NEW kind \in {"closure", "verify"}, NEW r \in Ids, Start(kind, r)
    PROVE  IInv'
  <1>1. /\ walk' = kind /\ root' = r /\ stack' = <<FrameOf(r, NotLoaded)>>
        /\ pushed' = {r} /\ ordered' = <<>> /\ verified' = {} /\ edges' = {}
        /\ answer' = [outcome |-> "none", by |-> "none", ids |-> <<>>]
        /\ bytes' = bytes /\ lies' = lies
    BY DEF Start, host
  <1>2. FrameOf(r, NotLoaded) \in Frame
    BY DEF FrameOf, Frame
  <1>3. /\ stack' \in Seq(Frame) /\ stack' # <<>> /\ Len(stack') = 1
        /\ stack'[1].id = r /\ stack'[1].refs = NotLoaded /\ stack'[1].next = 1
    BY <1>1, <1>2 DEF FrameOf
  <1>4. ordered' \in Seq(Ids) /\ Len(ordered') = 0 /\ <<>> \in Seq(Ids)
    BY <1>1, EmptySeq
  <1>5. TypeOK'
    BY <1>1, <1>3, <1>4 DEF IInv, WalkInv, TypeOK
  <1>6. IsFiniteSet(edges)'
    BY <1>1, FS_EmptySet
  <1>7. HostHonest'
    BY <1>1 DEF IInv, WalkInv, HostHonest, TagsNow
  <1>8. Depth' = 1 /\ \A k \in 1..Depth' : k = 1
    BY <1>3 DEF Depth
  <1>9. ~IsLoaded(1)' /\ OnStack' = {r}
    BY <1>3, <1>8 DEF IsLoaded, OnStack
  <1>10. Path'
    BY <1>1, <1>3, <1>8, <1>9 DEF Path
  <1>11. ClosureInv'
    <2>1. OrderedIds' = {}
      BY <1>4 DEF OrderedIds
    <2>2. Sorted'
      BY <1>1, <1>4, <1>9, <2>1 DEF Sorted
    <2>3. \A k \in 1..Depth' : FrameRead(k)'
      BY <1>8, <1>9 DEF FrameRead
    <2>4. \A k \in 1..Len(ordered') : Placed(k)'
      BY <1>4
    <2> QED BY <2>2, <2>3, <2>4 DEF ClosureInv
  <1>12. VerifyInv'
    <2> QED BY <1>1, <1>8, <1>9 DEF VerifyInv, Audited
  <1>13. AnswerInv'
    BY <1>1 DEF AnswerInv, ClosureComplete, AuditSound, HonestHostPasses
  <1> QED BY <1>5, <1>6, <1>7, <1>10, <1>11, <1>12, <1>13 DEF IInv, WalkInv

LEMMA FinishKeeps ==
    ASSUME IInv, walk # "none", NEW outcome \in Refusals \union {"listed"},
           NEW ids \in Seq(Ids), Finish(outcome, ids),
           outcome = "listed" /\ walk = "closure" /\ lies = 0 => UploadOrder(root, ids),
           outcome = "listed" /\ walk = "verify" => Complete(root, ids),
           lies = 0 => outcome \in {"listed", "ContentNotFound", "StoreFailure"}
    PROVE  IInv'
  <1>1. /\ walk' = "none" /\ root' = root /\ stack' = <<>>
        /\ pushed' = {} /\ ordered' = <<>> /\ verified' = {} /\ edges' = {}
        /\ answer' = [outcome |-> outcome, by |-> walk, ids |-> ids]
        /\ bytes' = bytes /\ lies' = lies
    BY DEF Finish, host
  <1>2. stack' \in Seq(Frame) /\ Len(stack') = 0 /\ ordered' \in Seq(Ids)
    BY <1>1, EmptySeq
  <1>3. walk \in {"closure", "verify"}
    BY DEF IInv, WalkInv, TypeOK
  <1>4. TypeOK'
    BY <1>1, <1>2, <1>3 DEF IInv, WalkInv, TypeOK
  <1>5. IsFiniteSet(edges)'
    BY <1>1, FS_EmptySet
  <1>6. HostHonest'
    BY <1>1 DEF IInv, WalkInv, HostHonest, TagsNow
  <1>7. Depth' = 0
    BY <1>2 DEF Depth
  <1>8. Path'
    BY <1>1, <1>7 DEF Path
  <1>9. ClosureInv' /\ VerifyInv'
    BY <1>1 DEF ClosureInv, VerifyInv
  <1>10. AnswerInv'
    <2>1. answer'.outcome = outcome /\ answer'.by = walk /\ answer'.ids = ids
      BY <1>1
    <2>2. ClosureComplete'
      BY <1>1, <2>1 DEF ClosureComplete
    <2>3. AuditSound'
      BY <1>1, <2>1 DEF AuditSound, Complete
    <2>4. HonestHostPasses'
      BY <1>1, <2>1 DEF HonestHostPasses
    <2> QED BY <2>2, <2>3, <2>4 DEF AnswerInv
  <1> QED BY <1>4, <1>5, <1>6, <1>8, <1>9, <1>10 DEF IInv, WalkInv

(* The walk is undisturbed by a host that keeps all it holds, or that has  *)
(* lied.                                                                   *)
LEMMA HostMoves ==
    ASSUME IInv, UNCHANGED <<walk, root, stack, pushed, ordered, verified, edges, answer>>,
           bytes' \in [Ids -> Ids \union {Absent}], lies' \in 0..MaxLies, HostHonest',
           lies' = 0 => lies = 0 /\ \A i \in Ids : bytes[i] = i => bytes'[i] = i
    PROVE  IInv'
  <1>1. TypeOK' /\ IsFiniteSet(edges)'
    BY DEF IInv, WalkInv, TypeOK
  <1>2. Depth' = Depth /\ OnStack' = OnStack /\ OrderedIds' = OrderedIds
        /\ \A k : IsLoaded(k)' <=> IsLoaded(k)
    BY DEF Depth, OnStack, OrderedIds, IsLoaded
  <1>3. Path'
    BY <1>2 DEF IInv, WalkInv, Path
  <1>4. ClosureInv'
    <2>1. SUFFICES ASSUME walk = "closure"
                   PROVE  /\ Sorted'
                          /\ lies' = 0 => /\ \A k \in 1..Depth' : FrameRead(k)'
                                          /\ \A k \in 1..Len(ordered') : Placed(k)'
      BY DEF ClosureInv
    <2>2. Sorted'
      BY <1>2, <2>1 DEF IInv, WalkInv, ClosureInv, Sorted
    <2>3. ASSUME lies' = 0, NEW k \in 1..Depth PROVE FrameRead(k)'
      <3>1. FrameRead(k) /\ stack[k].id \in Ids
        BY <2>1, <2>3, Standing DEF IInv, WalkInv, ClosureInv
      <3> QED BY <1>2, <2>3, <3>1 DEF FrameRead
    <2>4. ASSUME lies' = 0, NEW k \in 1..Len(ordered) PROVE Placed(k)'
      <3>1. Placed(k)
        BY <2>1, <2>4 DEF IInv, WalkInv, ClosureInv
      <3> QED BY <1>2, <3>1 DEF Placed, RefersTo
    <2> QED BY <1>2, <2>2, <2>3, <2>4
  <1>5. VerifyInv'
    <2>1. SUFFICES ASSUME walk = "verify" PROVE Audited'
      BY DEF VerifyInv
    <2>2. Audited /\ verified \subseteq Ids
      BY <2>1 DEF IInv, WalkInv, VerifyInv, TypeOK
    <2>3. UNCHANGED <<verified, pushed, stack, edges, root>>
      OBVIOUS
    <2>5. lies' = 0 => \A i \in verified : bytes'[i] = i
      BY <2>2 DEF Audited
    <2> QED BY <1>2, <2>2, <2>3, <2>5 DEF Audited
  <1>6. AnswerInv'
    <2>1. AnswerInv /\ (lies' = 0 => lies = 0)
      BY DEF IInv
    <2> QED BY <2>1 DEF AnswerInv, ClosureComplete, AuditSound, HonestHostPasses
  <1> QED BY <1>1, <1>3, <1>4, <1>5, <1>6 DEF IInv, WalkInv

LEMMA AdmitKeeps ==
    ASSUME IInv, NEW n \in Ids, Admit(n)
    PROVE  IInv'
  <1>1. /\ n \in Nodes /\ n \in Known /\ Unmet(n, TagsNow(n)) = {} /\ bytes[n] = Absent
        /\ bytes' = [bytes EXCEPT ![n] = n] /\ lies' = lies
        /\ UNCHANGED <<walk, root, stack, pushed, ordered, verified, edges, answer>>
    BY DEF Admit, JudgeAdmission
  <1>2. TypeOK /\ HostHonest
    BY DEF IInv, WalkInv
  <1>3. bytes' \in [Ids -> Ids \union {Absent}] /\ \A i \in Ids : bytes'[i] = IF i = n THEN n ELSE bytes[i]
    BY <1>1, <1>2 DEF TypeOK
  <1>4. ASSUME lies = 0, NEW i \in Ids, bytes'[i] # Absent
        PROVE  bytes'[i] = i /\ i \in Known /\ Unmet(i, TagsNow(i)') = {}
    <2>1. bytes'[i] = i /\ i \in Known /\ Unmet(i, TagsNow(i)) = {}
      BY <1>1, <1>2, <1>3, <1>4 DEF HostHonest
    <2>2. ASSUME NEW m \in DOMAIN RefsOf[i] PROVE TagsNow(i)'[m] = RefsOf[i][m].expectedTag
      <3> DEFINE c == RefsOf[i][m].id
      <3>1. i \in Nodes
        BY <2>1, AdmissionAssumption
      <3>2. c \in Ids /\ RefsOf[i][m].expectedTag \in Tags
        BY <2>2, <3>1, ReferenceTyped
      <3>3. TagsNow(i)[m] = RefsOf[i][m].expectedTag
        BY <2>1, <2>2 DEF Unmet
      <3>4. TagsNow(i)[m] = IF bytes[c] \in Nodes THEN TagOf[bytes[c]] ELSE NoTag
        BY <2>2 DEF TagsNow
      <3>5. bytes[c] \in Nodes
        BY <3>2, <3>3, <3>4, AdmissionAssumption
      <3>6. c # n
        BY <1>1, <3>5, AdmissionAssumption
      <3>7. bytes'[c] = bytes[c]
        BY <1>3, <3>2, <3>6
      <3>8. TagsNow(i)'[m] = IF bytes'[c] \in Nodes THEN TagOf[bytes'[c]] ELSE NoTag
        BY <2>2 DEF TagsNow
      <3> QED BY <3>3, <3>4, <3>7, <3>8
    <2> QED BY <2>1, <2>2 DEF Unmet
  <1>5. HostHonest'
    BY <1>1, <1>4 DEF HostHonest
  <1>6. lies' \in 0..MaxLies /\ (lies' = 0 => lies = 0)
    BY <1>1, <1>2 DEF TypeOK
  <1>7. \A i \in Ids : bytes[i] = i => bytes'[i] = i
    BY <1>3
  <1> QED BY <1>1, <1>3, <1>5, <1>6, <1>7, HostMoves

LEMMA LieKeeps ==
    ASSUME IInv, NEW i \in Ids, NEW b \in Ids \union {Absent}, Lie(i, b)
    PROVE  IInv'
  <1>1. /\ lies < MaxLies /\ lies' = lies + 1 /\ bytes' = [bytes EXCEPT ![i] = b]
        /\ UNCHANGED <<walk, root, stack, pushed, ordered, verified, edges, answer>>
    BY DEF Lie
  <1>2. lies \in 0..MaxLies /\ bytes \in [Ids -> Ids \union {Absent}]
    BY DEF IInv, WalkInv, TypeOK
  <1>3. lies' \in 0..MaxLies /\ lies' # 0
    BY <1>1, <1>2, WalkAssumption
  <1>4. HostHonest'
    BY <1>3 DEF HostHonest
  <1>5. bytes' \in [Ids -> Ids \union {Absent}]
    BY <1>1, <1>2
  <1> QED BY <1>1, <1>3, <1>4, <1>5, HostMoves

----------------------------------------------------------------------------
(* The steps of closure.                                                   *)

LEMMA DescendTurns ==
    ASSUME NEW c, NEW R, Descend(c, R)
    PROVE  \/ c \in pushed /\ stack' = Moved(stack) /\ pushed' = pushed
           \/ c \notin pushed /\ stack' = Pushed(stack, c, R) /\ pushed' = pushed \union {c}
  BY DEF Descend, Moved, Pushed

(* What follows a reference follows one the frame on top has.              *)
LEMMA ChildTyped ==
    ASSUME TypeOK, Path, walk # "none", HasNext
    PROVE  /\ IsLoaded(Depth) /\ \A k \in 1..Depth : IsLoaded(k)
           /\ stack[Depth].refs \in Seq(Reference)
           /\ stack[Depth].next \in DOMAIN stack[Depth].refs
           /\ stack[Depth].next \in Nat /\ stack[Depth].next >= 1
           /\ NextChild = stack[Depth].refs[stack[Depth].next].id /\ NextChild \in Ids
  <1>1. Depth \in Nat /\ Depth >= 1 /\ Top = stack[Depth]
    BY Standing
  <1>2. IsLoaded(Depth) /\ stack[Depth].next <= Len(stack[Depth].refs)
    BY <1>1 DEF HasNext, IsLoaded
  <1>3. \A k \in 1..Depth : IsLoaded(k)
    BY <1>1, <1>2 DEF Path
  <1>4. stack[Depth].refs \in Seq(Reference) /\ stack[Depth].next \in Nat
    BY <1>1, <1>2, Standing DEF IsLoaded
  <1>5. /\ Len(stack[Depth].refs) \in Nat
        /\ DOMAIN stack[Depth].refs = 1..Len(stack[Depth].refs)
    BY <1>4, LenProperties
  <1>6. stack[Depth].next >= 1
    BY <1>1 DEF Path
  <1>7. stack[Depth].next \in 1..Len(stack[Depth].refs)
    BY <1>2, <1>4, <1>5, <1>6
  <1>8. stack[Depth].refs[stack[Depth].next] \in Reference
    BY <1>4, <1>7, ElementOfSeq
  <1> QED BY <1>1, <1>2, <1>3, <1>4, <1>5, <1>6, <1>7, <1>8 DEF NextChild, Reference

LEMMA PlacedStands ==
    ASSUME NEW k, Placed(k), UNCHANGED ordered,
           \A j \in 1..Depth : /\ j \in 1..Depth' /\ stack'[j].id = stack[j].id
                               /\ IsLoaded(j) => IsLoaded(j)'
    PROVE  Placed(k)'
  <1>1. CASE \E j \in (k + 1)..Len(ordered) : RefersTo(ordered[j], ordered[k])
    BY <1>1 DEF Placed, RefersTo
  <1>2. CASE \E j \in 1..Depth : IsLoaded(j) /\ RefersTo(stack[j].id, ordered[k])
    <2>1. PICK j \in 1..Depth : IsLoaded(j) /\ RefersTo(stack[j].id, ordered[k])
      BY <1>2
    <2>2. j \in 1..Depth' /\ IsLoaded(j)' /\ RefersTo(stack[j].id, ordered[k])'
      BY <2>1 DEF RefersTo
    <2> QED BY <2>2 DEF Placed, RefersTo
  <1> QED BY <1>1, <1>2 DEF Placed

LEMMA ReadFrameKeeps ==
    ASSUME IInv, ReadFrame
    PROVE  IInv'
  <1> DEFINE b == bytes[Top.id]
  <1>1. TypeOK /\ Path /\ HostHonest /\ ClosureInv
    BY DEF IInv, WalkInv
  <1>2. walk = "closure" /\ Top.refs = NotLoaded
    BY DEF ReadFrame
  <1>3. /\ Depth \in Nat /\ Depth >= 1 /\ Top = stack[Depth] /\ stack[Depth].id \in Ids
        /\ ~IsLoaded(Depth) /\ Depth \in 1..Depth
    BY <1>1, <1>2, Standing DEF IsLoaded
  <1>4. Sorted /\ (lies = 0 => /\ \A k \in 1..Depth : FrameRead(k)
                               /\ \A k \in 1..Len(ordered) : Placed(k))
    BY <1>1, <1>2 DEF ClosureInv
  <1>5. <<>> \in Seq(Ids)
    BY EmptySeq
  <1>6. CASE Fail("StoreFailure")
    BY <1>2, <1>5, <1>6, FinishKeeps DEF Fail, Refusals
  <1>7. CASE b = Absent /\ Fail(AbsentError(ordered = <<>> /\ Len(stack) = 1))
    <2>1. lies = 0 => ordered = <<>> /\ Len(stack) = 1
      <3>1. SUFFICES ASSUME lies = 0 PROVE ordered = <<>> /\ Len(stack) = 1
        OBVIOUS
      <3>2. FrameRead(Depth) /\ Absent # stack[Depth].id
        BY <1>3, <1>4, <3>1, AdmissionAssumption
      <3>3. ~(Depth > 1)
        BY <1>3, <1>7, <3>2 DEF FrameRead
      <3>4. Depth = 1
        BY <1>3, <3>3
      <3> QED BY <1>3, <1>4, <3>4 DEF Sorted, Depth
    <2>2. AbsentError(ordered = <<>> /\ Len(stack) = 1) \in Refusals
      BY DEF AbsentError, Refusals
    <2>3. lies = 0 => AbsentError(ordered = <<>> /\ Len(stack) = 1) = "ContentNotFound"
      BY <2>1 DEF AbsentError
    <2>4. AbsentError(ordered = <<>> /\ Len(stack) = 1) # "listed"
      BY DEF AbsentError
    <2> QED BY <1>2, <1>5, <1>7, <2>2, <2>3, <2>4, FinishKeeps DEF Fail
  <1>8. CASE b \in Ids \ Nodes /\ Fail("NonCanonicalBytes")
    <2>1. lies # 0
      BY <1>1, <1>3, <1>8, AdmissionAssumption DEF HostHonest
    <2> QED BY <1>2, <1>5, <1>8, <2>1, FinishKeeps DEF Fail, Refusals
  <1>9. CASE /\ b \in Nodes
             /\ stack' = [stack EXCEPT ![Len(stack)].refs = RefsOf[b]]
             /\ UNCHANGED <<host, walk, root, pushed, ordered, verified, edges, answer>>
    <2>1. RefsOf[b] \in Seq(Reference)
      BY <1>9, ReferenceTyped
    <2>2. stack' = Loaded(stack, RefsOf[b])
      BY <1>9 DEF Loaded
    <2>3. UNCHANGED <<bytes, lies, walk, root, pushed, ordered, verified, edges, answer>>
      BY <1>9 DEF host
    <2>4. /\ Path' /\ Depth' = Depth /\ OnStack' = OnStack /\ stack' \in Seq(Frame)
          /\ \A k \in 1..Depth : stack'[k].id = stack[k].id /\ stack'[k].next = stack[k].next
          /\ \A k \in 1..Depth :
                stack'[k].refs = IF k = Depth THEN RefsOf[b] ELSE stack[k].refs
          /\ \A k \in 1..Depth : IsLoaded(k)'
      BY <1>1, <1>2, <1>3, <2>1, <2>2, <2>3, PathLoaded
    <2>5. TypeOK' /\ IsFiniteSet(edges)'
      BY <2>3, <2>4 DEF IInv, WalkInv, TypeOK
    <2>6. HostHonest'
      BY <1>1, <2>3 DEF HostHonest, TagsNow
    <2>7. OrderedIds' = OrderedIds
      BY <2>3 DEF OrderedIds
    <2>8. Sorted'
      BY <1>3, <1>4, <2>3, <2>4, <2>7 DEF Sorted
    <2>9. ASSUME lies = 0, NEW k \in 1..Depth PROVE FrameRead(k)'
      <3>1. FrameRead(k)
        BY <1>4, <2>9
      <3>2. CASE k = Depth
        <4>1. b = stack[k].id /\ stack[k].id \in Known
          BY <1>1, <1>3, <1>9, <2>9, <3>2, AdmissionAssumption DEF HostHonest
        <4>2. stack[k].next = 1 /\ 1..(stack[k].next - 1) = {}
          BY <1>1, <1>3, <3>2 DEF Path
        <4> QED BY <1>3, <2>3, <2>4, <3>2, <4>1, <4>2 DEF FrameRead
      <3>3. CASE k # Depth
        <4>1. IsLoaded(k)
          BY <1>1, <3>3 DEF Path
        <4>2. k + 1 \in 1..Depth
          BY <1>3, <3>3
        <4> QED BY <2>3, <2>4, <2>7, <3>1, <3>3, <4>1, <4>2 DEF FrameRead
      <3> QED BY <3>2, <3>3
    <2>10. ASSUME lies = 0, NEW k \in 1..Len(ordered) PROVE Placed(k)'
      <3>1. Placed(k)
        BY <1>4, <2>10
      <3> QED BY <2>3, <2>4, <3>1, PlacedStands
    <2>11. ClosureInv' /\ VerifyInv'
      BY <1>2, <2>3, <2>4, <2>8, <2>9, <2>10 DEF ClosureInv, VerifyInv
    <2>12. AnswerInv'
      BY <2>3, AnswerStands DEF IInv
    <2> QED BY <2>4, <2>5, <2>6, <2>11, <2>12 DEF IInv, WalkInv
  <1> QED BY <1>6, <1>7, <1>8, <1>9 DEF ReadFrame

LEMMA FollowReferenceKeeps ==
    ASSUME IInv, FollowReference
    PROVE  IInv'
  <1> DEFINE c == NextChild
  <1>1. TypeOK /\ Path /\ HostHonest /\ ClosureInv
    BY DEF IInv, WalkInv
  <1>2. walk = "closure" /\ HasNext /\ Descend(c, NotLoaded)
        /\ UNCHANGED <<bytes, lies, walk, root, ordered, verified, edges, answer>>
    BY DEF FollowReference, host, NextChild
  <1>3. /\ IsLoaded(Depth) /\ \A k \in 1..Depth : IsLoaded(k)
        /\ stack[Depth].next \in DOMAIN stack[Depth].refs
        /\ stack[Depth].next \in Nat /\ stack[Depth].next >= 1
        /\ c = stack[Depth].refs[stack[Depth].next].id /\ c \in Ids
    BY <1>1, <1>2, ChildTyped
  <1>4. Depth \in Nat /\ Depth >= 1 /\ stack # <<>> /\ Depth \in 1..Depth /\ 1 \in 1..Depth
    BY <1>1, <1>2, Standing
  <1>5. Sorted /\ (lies = 0 => /\ \A k \in 1..Depth : FrameRead(k)
                               /\ \A k \in 1..Len(ordered) : Placed(k))
    BY <1>1, <1>2 DEF ClosureInv
  <1>6. OrderedIds' = OrderedIds /\ HostHonest' /\ AnswerInv' /\ IsFiniteSet(edges)' /\ VerifyInv'
    BY <1>1, <1>2, AnswerStands
       DEF IInv, WalkInv, OrderedIds, HostHonest, TagsNow, VerifyInv
  <1>7. CASE c \in pushed /\ stack' = Moved(stack) /\ pushed' = pushed
    <2>1. /\ Path' /\ Depth' = Depth /\ OnStack' = OnStack /\ stack' \in Seq(Frame)
          /\ \A k \in 1..Depth : stack'[k].id = stack[k].id /\ stack'[k].refs = stack[k].refs
          /\ \A k \in 1..Depth :
                stack'[k].next = IF k = Depth THEN stack[k].next + 1 ELSE stack[k].next
      BY <1>1, <1>2, <1>7, PathMoved
    <2>2. TypeOK'
      BY <1>1, <1>2, <1>7, <2>1 DEF TypeOK
    <2>3. \A k \in 1..Depth : IsLoaded(k)'
      BY <1>3, <2>1 DEF IsLoaded
    <2>4. Sorted'
      BY <1>2, <1>4, <1>5, <1>6, <1>7, <2>1, <2>3 DEF Sorted
    <2>5. ASSUME lies = 0, NEW k \in 1..Depth PROVE FrameRead(k)'
      <3>1. FrameRead(k) /\ IsLoaded(k) /\ stack[k].next \in Nat
        BY <1>1, <1>2, <1>3, <1>5, <2>5, Standing
      <3>2. CASE k = Depth
        <4>1. c \in OrderedIds
          <5>1. c \notin OnStack
            BY <1>1, <1>2, <1>4, <1>5, <2>5, NoCycle
          <5> QED BY <1>5, <1>7, <5>1 DEF Sorted
        <4>2. \A m \in 1..(stack'[k].next - 1) : m \in 1..(stack[k].next - 1) \/ m = stack[k].next
          BY <2>1, <3>1, <3>2
        <4>3. \A m \in 1..(stack[k].next - 1) : stack[k].refs[m].id \in OrderedIds
          BY <1>4, <3>1, <3>2 DEF FrameRead
        <4> QED BY <1>2, <1>3, <1>6, <2>1, <3>1, <3>2, <4>1, <4>2, <4>3 DEF FrameRead
      <3>3. CASE k # Depth
        <4>1. k + 1 \in 1..Depth
          BY <1>4, <3>3
        <4> QED BY <1>2, <1>6, <2>1, <3>1, <3>3, <4>1 DEF FrameRead
      <3> QED BY <3>2, <3>3
    <2>6. ASSUME lies = 0, NEW k \in 1..Len(ordered) PROVE Placed(k)'
      <3>1. Placed(k)
        BY <1>5, <2>6
      <3> QED BY <1>2, <2>1, <2>3, <3>1, PlacedStands
    <2>7. ClosureInv'
      BY <1>2, <2>1, <2>4, <2>5, <2>6 DEF ClosureInv
    <2> QED BY <1>6, <2>1, <2>2, <2>7 DEF IInv, WalkInv
  <1>8. CASE c \notin pushed /\ stack' = Pushed(stack, c, NotLoaded) /\ pushed' = pushed \union {c}
    <2>1. c \notin OnStack /\ c \notin OrderedIds
      BY <1>5, <1>8 DEF Sorted
    <2>2. NotLoaded \in MaybeRead
      BY DEF MaybeRead
    <2>3. /\ Path' /\ Depth' = Depth + 1 /\ OnStack' = OnStack \union {c}
          /\ stack' \in Seq(Frame)
          /\ \A k \in 1..Depth : stack'[k].id = stack[k].id /\ stack'[k].refs = stack[k].refs
          /\ \A k \in 1..Depth :
                stack'[k].next = IF k = Depth THEN stack[k].next + 1 ELSE stack[k].next
          /\ stack'[Depth + 1].id = c /\ stack'[Depth + 1].refs = NotLoaded
          /\ stack'[Depth + 1].next = 1
      BY <1>1, <1>2, <1>3, <1>8, <2>1, <2>2, PathPushed
    <2>4. TypeOK'
      BY <1>1, <1>2, <1>3, <1>8, <2>3 DEF TypeOK
    <2>5. \A k \in 1..Depth : IsLoaded(k)'
      BY <1>3, <2>3 DEF IsLoaded
    <2>6. Sorted'
      BY <1>2, <1>4, <1>5, <1>6, <1>8, <2>1, <2>3, <2>5 DEF Sorted
    <2>7. ASSUME lies = 0, NEW k \in 1..Depth' PROVE FrameRead(k)'
      <3>1. k \in 1..Depth \/ k = Depth + 1
        BY <1>4, <2>3
      <3>2. CASE k = Depth + 1
        <4>1. FrameRead(Depth) /\ stack[Depth].id \in Known
              /\ bytes[stack[Depth].id] = stack[Depth].id /\ stack[Depth].refs = RefsOf[stack[Depth].id]
          BY <1>3, <1>4, <1>5, <2>7 DEF FrameRead
        <4>2. stack[Depth].id \in Ids /\ bytes[stack[Depth].id] # Absent
          BY <4>1, AdmissionAssumption
        <4>3. bytes[c] = c
          BY <1>1, <1>3, <2>7, <4>1, <4>2, HonestChild
        <4>4. ~IsLoaded(k)' /\ stack'[k].id = c
          BY <2>3, <3>2 DEF IsLoaded
        <4> QED BY <1>2, <4>3, <4>4 DEF FrameRead
      <3>3. CASE k = Depth
        <4>1. FrameRead(k) /\ IsLoaded(k) /\ stack[k].next \in Nat
          BY <1>3, <1>4, <1>5, <2>7, <3>3
        <4>2. \A m \in 1..(stack'[k].next - 1) : m \in 1..(stack[k].next - 1) \/ m = stack[k].next
          BY <1>4, <2>3, <3>3, <4>1
        <4>3. \A m \in 1..(stack[k].next - 1) : stack[k].refs[m].id \in OrderedIds
          BY <1>4, <3>3, <4>1 DEF FrameRead
        <4>4. k < Depth' /\ stack'[k + 1].id = c /\ stack'[k].refs = stack[k].refs
              /\ stack'[k].id = stack[k].id
          BY <1>4, <2>3, <3>3
        <4> QED BY <1>2, <1>3, <1>6, <3>3, <4>1, <4>2, <4>3, <4>4 DEF FrameRead
      <3>4. CASE k \in 1..Depth /\ k # Depth
        <4>1. k + 1 \in 1..Depth /\ k < Depth' /\ k < Depth
          BY <1>4, <2>3, <3>4
        <4>2. FrameRead(k) /\ IsLoaded(k)
          BY <1>3, <1>5, <2>7, <3>4
        <4>3. /\ stack'[k].id = stack[k].id /\ stack'[k].refs = stack[k].refs
              /\ stack'[k].next = stack[k].next /\ stack'[k + 1].id = stack[k + 1].id
          BY <2>3, <3>4, <4>1
        <4> QED BY <1>2, <1>6, <4>1, <4>2, <4>3 DEF FrameRead
      <3> QED BY <3>1, <3>2, <3>3, <3>4
    <2>8. ASSUME lies = 0, NEW k \in 1..Len(ordered) PROVE Placed(k)'
      <3>1. Placed(k)
        BY <1>5, <2>8
      <3>2. \A j \in 1..Depth : j \in 1..Depth' /\ stack'[j].id = stack[j].id
        BY <1>4, <2>3
      <3> QED BY <1>2, <2>5, <3>1, <3>2, PlacedStands
    <2>9. ClosureInv'
      BY <1>2, <2>6, <2>7, <2>8 DEF ClosureInv
    <2> QED BY <1>6, <2>3, <2>4, <2>9 DEF IInv, WalkInv
  <1> QED BY <1>2, <1>7, <1>8, DescendTurns

(* The last frame popped completes the order.                              *)
LEMMA RootListed ==
    ASSUME TypeOK, Path, walk = "closure", Exhausted, Depth = 1, Sorted,
           FrameRead(1), \A k \in 1..Len(ordered) : Placed(k),
           NEW s, s = Append(ordered, Top.id)
    PROVE  UploadOrder(root, s)
  <1> DEFINE n == Len(ordered)
  <1>1. /\ Top = stack[1] /\ Top.id = root /\ root \in Ids /\ IsLoaded(1) /\ stack[1].next \in Nat
        /\ stack[1].next > Len(stack[1].refs)
    BY Standing DEF Exhausted, IsLoaded
  <1>2. /\ root \in Known /\ root \in Nodes /\ stack[1].refs = RefsOf[root]
        /\ \A m \in 1..(stack[1].next - 1) : stack[1].refs[m].id \in OrderedIds
    BY <1>1, AdmissionAssumption DEF FrameRead
  <1>3. ordered \in Seq(Ids) /\ n \in Nat /\ DOMAIN ordered = 1..n
    BY LenProperties DEF TypeOK
  <1>4. /\ s \in Seq(Ids) /\ s # <<>> /\ Len(s) = n + 1 /\ DOMAIN s = 1..(n + 1)
        /\ \A k \in 1..n : s[k] = ordered[k]
        /\ s[n + 1] = root
    BY <1>1, <1>3, AppendProperties, LenProperties
  <1> HIDE DEF n
  <1>5. Last(s) = root
    BY <1>4 DEF Last
  <1>6. root \notin OrderedIds
    BY <1>1 DEF Sorted, OnStack
  <1>7. \A k \in 1..(n + 1) : k \in 1..n \/ k = n + 1
    BY <1>3
  <1>8. \A j, k \in 1..n : ordered[j] = ordered[k] => j = k
    BY DEF Sorted, n
  <1>9. \A k \in 1..n : ordered[k] # root
    BY <1>6 DEF OrderedIds, n
  <1>10. \A j, k \in DOMAIN s : s[j] = s[k] => j = k
    BY <1>4, <1>7, <1>8, <1>9
  <1>11. \A k \in 1..n : Placed(k)
    BY DEF n
  <1>12. \A k \in DOMAIN s : s[k] \in Nodes
    BY <1>2, <1>4, <1>7, <1>11 DEF Placed
  <1>13. ASSUME NEW k \in DOMAIN s, NEW m \in DOMAIN RefsOf[s[k]]
         PROVE  \E j \in 1..(k - 1) : s[j] = RefsOf[s[k]][m].id
    <2>1. CASE k \in 1..n
      <3>1. s[k] = ordered[k]
        BY <1>4, <2>1
      <3>2. PICK j \in 1..(k - 1) : ordered[j] = RefsOf[ordered[k]][m].id
        BY <1>11, <1>13, <2>1, <3>1 DEF Placed
      <3>3. j \in 1..n
        BY <1>3, <2>1
      <3> QED BY <1>4, <3>1, <3>2, <3>3
    <2>2. CASE k = n + 1
      <3>1. s[k] = root /\ m \in 1..Len(RefsOf[root]) /\ Len(RefsOf[root]) \in Nat
        BY <1>2, <1>4, <1>13, <2>2, ReferenceTyped
      <3>2. m \in 1..(stack[1].next - 1)
        BY <1>1, <1>2, <3>1
      <3>3. RefsOf[root][m].id \in OrderedIds
        BY <1>2, <3>2
      <3>4. PICK j \in 1..n : ordered[j] = RefsOf[root][m].id
        BY <3>3 DEF OrderedIds, n
      <3>5. j \in 1..(k - 1)
        BY <1>3, <2>2
      <3> QED BY <1>4, <3>1, <3>4, <3>5
    <2> QED BY <1>4, <1>7, <2>1, <2>2
  <1>14. ASSUME NEW k \in 1..n PROVE \E j \in (k + 1)..(n + 1) : RefersTo(s[j], s[k])
    <2>1. s[k] = ordered[k]
      BY <1>4
    <2>2. CASE \E j \in (k + 1)..n : RefersTo(ordered[j], ordered[k])
      <3>1. PICK j \in (k + 1)..n : RefersTo(ordered[j], ordered[k])
        BY <2>2
      <3>2. j \in 1..n /\ j \in (k + 1)..(n + 1)
        BY <1>3
      <3> QED BY <1>4, <2>1, <3>1, <3>2
    <2>3. CASE \E j \in 1..Depth : IsLoaded(j) /\ RefersTo(stack[j].id, ordered[k])
      <3>1. RefersTo(root, ordered[k])
        BY <1>1, <2>3
      <3>2. n + 1 \in (k + 1)..(n + 1)
        BY <1>3
      <3> QED BY <1>4, <2>1, <3>1, <3>2
    <2> QED BY <1>11, <2>2, <2>3 DEF Placed, n
  <1>15. (n + 1) - 1 = n
    BY <1>3
  <1>16. \A k \in 1..(Len(s) - 1) :
           \E j \in (k + 1)..Len(s) : \E m \in DOMAIN RefsOf[s[j]] : RefsOf[s[j]][m].id = s[k]
    <2> SUFFICES ASSUME NEW k \in 1..(Len(s) - 1)
                 PROVE  \E j \in (k + 1)..Len(s) : \E m \in DOMAIN RefsOf[s[j]] : RefsOf[s[j]][m].id = s[k]
      OBVIOUS
    <2>1. k \in 1..n
      BY <1>4, <1>15
    <2>2. PICK j \in (k + 1)..(n + 1) : RefersTo(s[j], s[k])
      BY <1>14, <2>1
    <2>3. j \in (k + 1)..Len(s)
      BY <1>4
    <2> QED BY <2>2, <2>3 DEF RefersTo
  <1> QED BY <1>4, <1>5, <1>10, <1>12, <1>13, <1>16 DEF UploadOrder

LEMMA PopListedKeeps ==
    ASSUME IInv, PopListed
    PROVE  IInv'
  <1> DEFINE n == Len(ordered)
  <1>1. TypeOK /\ Path /\ HostHonest /\ ClosureInv
    BY DEF IInv, WalkInv
  <1>2. walk = "closure" /\ Exhausted
    BY DEF PopListed
  <1>3. /\ Depth \in Nat /\ Depth >= 1 /\ Top = stack[Depth] /\ stack[Depth].id \in Ids
        /\ IsLoaded(Depth) /\ Depth \in 1..Depth /\ stack[Depth].next \in Nat
        /\ stack[Depth].next > Len(stack[Depth].refs)
    BY <1>1, <1>2, Standing DEF IsLoaded, Exhausted
  <1>4. Sorted /\ (lies = 0 => /\ \A k \in 1..Depth : FrameRead(k)
                               /\ \A k \in 1..Len(ordered) : Placed(k))
    BY <1>1, <1>2 DEF ClosureInv
  <1>5. ordered \in Seq(Ids) /\ n \in Nat
    BY <1>1, LenProperties DEF TypeOK
  <1>6. /\ Append(ordered, Top.id) \in Seq(Ids) /\ Len(Append(ordered, Top.id)) = n + 1
        /\ \A k \in 1..n : Append(ordered, Top.id)[k] = ordered[k]
        /\ Append(ordered, Top.id)[n + 1] = Top.id
    BY <1>3, <1>5, AppendProperties
  <1> HIDE DEF n
  <1>7. CASE Len(stack) = 1 /\ Finish("listed", Append(ordered, Top.id))
    <2>1. Depth = 1
      BY <1>7 DEF Depth
    <2>2. lies = 0 => UploadOrder(root, Append(ordered, Top.id))
      BY <1>1, <1>2, <1>3, <1>4, <2>1, RootListed
    <2> QED BY <1>2, <1>6, <1>7, <2>2, FinishKeeps
  <1>8. CASE /\ Len(stack) # 1 /\ stack' = Front(stack) /\ ordered' = Append(ordered, Top.id)
             /\ UNCHANGED <<host, walk, root, pushed, verified, edges, answer>>
    <2>1. UNCHANGED <<bytes, lies, walk, root, pushed, verified, edges, answer>>
      BY <1>8 DEF host
    <2>2. /\ Path' /\ Depth' = Depth - 1 /\ Depth >= 2
          /\ stack' \in Seq(Frame)
          /\ \A k \in 1..(Depth - 1) : stack'[k] = stack[k]
          /\ OnStack' = OnStack \ {Top.id} /\ Top.id \in OnStack
          /\ \A k \in 1..Depth : IsLoaded(k)
      BY <1>1, <1>2, <1>8, <2>1, PathPopped
    <2>3. /\ ordered' \in Seq(Ids) /\ Len(ordered') = n + 1
          /\ \A k \in 1..n : ordered'[k] = ordered[k]
          /\ ordered'[n + 1] = Top.id
      BY <1>6, <1>8
    <2>4. \A k \in 1..(n + 1) : k \in 1..n \/ k = n + 1
      BY <1>5
    <2>5. /\ \A k \in 1..n : k \in 1..(n + 1)
          /\ n + 1 \in 1..(n + 1)
      BY <1>5
    <2>6. OrderedIds' = OrderedIds \union {Top.id}
      BY <2>3, <2>4, <2>5 DEF OrderedIds, n
    <2>7. \A k \in 1..(Depth - 1) : k \in 1..Depth /\ k \in 1..Depth' /\ IsLoaded(k)' /\ IsLoaded(k)
      BY <1>3, <2>2 DEF IsLoaded
    <2>8. TypeOK'
      BY <1>1, <2>1, <2>2, <2>3 DEF TypeOK
    <2>9. HostHonest' /\ IsFiniteSet(edges)' /\ VerifyInv'
      BY <1>1, <1>2, <2>1 DEF IInv, WalkInv, HostHonest, TagsNow, VerifyInv
    <2>10. AnswerInv'
      BY <2>1, AnswerStands DEF IInv
    <2>11. Sorted'
      <3>1. pushed' = OrderedIds' \union OnStack' /\ OrderedIds' \intersect OnStack' = {}
        BY <1>4, <2>1, <2>2, <2>6 DEF Sorted
      <3>2. \A k \in 1..n : ordered[k] # Top.id
        BY <1>4, <2>2 DEF Sorted, OrderedIds, n
      <3>3. \A j, k \in 1..n : ordered[j] = ordered[k] => j = k
        BY <1>4 DEF Sorted, n
      <3>4. \A j, k \in 1..Len(ordered') : ordered'[j] = ordered'[k] => j = k
        BY <2>3, <2>4, <3>2, <3>3
      <3>5. IsLoaded(1)'
        BY <1>3, <2>2, <2>7
      <3> QED BY <3>1, <3>4, <3>5 DEF Sorted
    <2>12. ASSUME lies = 0, NEW k \in 1..Depth' PROVE FrameRead(k)'
      <3>1. k \in 1..(Depth - 1) /\ k \in 1..Depth /\ k + 1 \in 1..Depth /\ k < Depth
        BY <1>3, <2>2
      <3>2. FrameRead(k) /\ IsLoaded(k) /\ stack'[k] = stack[k]
        BY <1>4, <2>2, <2>12, <3>1
      <3>3. ASSUME NEW m \in 1..(stack[k].next - 1), stack[k].refs[m].id \notin OrderedIds'
            PROVE  k < Depth' /\ stack[k].refs[m].id = stack'[k + 1].id
        <4>1. stack[k].refs[m].id = stack[k + 1].id
          BY <2>6, <3>2, <3>3 DEF FrameRead
        <4>2. k + 1 # Depth
          BY <1>3, <2>6, <3>3, <4>1
        <4>3. k + 1 \in 1..(Depth - 1) /\ k < Depth'
          BY <1>3, <2>2, <3>1, <4>2
        <4> QED BY <2>2, <4>1, <4>3
      <3> QED BY <2>1, <3>2, <3>3 DEF FrameRead, IsLoaded
    <2>13. ASSUME lies = 0, NEW k \in 1..Len(ordered') PROVE Placed(k)'
      <3>1. CASE k \in 1..n
        <4>1. Placed(k) /\ ordered'[k] = ordered[k]
          BY <1>4, <2>3, <2>13, <3>1 DEF n
        <4>2. \A j \in 1..(k - 1) : ordered'[j] = ordered[j]
          BY <1>5, <2>3, <3>1
        <4>3. /\ ordered'[k] \in Nodes
              /\ \A m \in DOMAIN RefsOf[ordered'[k]] :
                    \E j \in 1..(k - 1) : ordered'[j] = RefsOf[ordered'[k]][m].id
          BY <4>1, <4>2 DEF Placed
        <4>4. CASE \E j \in (k + 1)..n : RefersTo(ordered[j], ordered[k])
          <5>1. PICK j \in (k + 1)..n : RefersTo(ordered[j], ordered[k])
            BY <4>4
          <5>2. j \in 1..n /\ j \in (k + 1)..Len(ordered')
            BY <1>5, <2>3, <3>1
          <5>3. RefersTo(ordered[j], ordered[k])'
            BY <2>3, <4>1, <5>1, <5>2 DEF RefersTo
          <5> QED BY <4>3, <5>2, <5>3 DEF Placed, RefersTo
        <4>5. CASE \E j \in 1..Depth : IsLoaded(j) /\ RefersTo(stack[j].id, ordered[k])
          <5>1. PICK j \in 1..Depth : IsLoaded(j) /\ RefersTo(stack[j].id, ordered[k])
            BY <4>5
          <5>2. CASE j = Depth
            <6>1. n + 1 \in (k + 1)..Len(ordered')
              BY <1>5, <2>3, <3>1
            <6>2. RefersTo(ordered'[n + 1], ordered'[k])
              BY <1>3, <2>3, <4>1, <5>1, <5>2
            <6> QED BY <4>3, <6>1, <6>2 DEF Placed
          <5>3. CASE j # Depth
            <6>1. j \in 1..(Depth - 1)
              BY <1>3, <5>3
            <6>2. j \in 1..Depth' /\ IsLoaded(j)' /\ RefersTo(stack[j].id, ordered[k])'
              BY <2>2, <2>7, <4>1, <5>1, <6>1 DEF RefersTo
            <6> QED BY <4>3, <6>2 DEF Placed, RefersTo
          <5> QED BY <5>2, <5>3
        <4> QED BY <4>1, <4>4, <4>5 DEF Placed, n
      <3>2. CASE k = n + 1
        <4>0. PICK d \in 1..(Depth - 1) : d = Depth - 1
          BY <1>3, <2>2
        <4>1. FrameRead(Depth) /\ FrameRead(d) /\ d \in 1..Depth /\ d \in 1..Depth' /\ d + 1 = Depth
          BY <1>3, <1>4, <2>2, <2>13, <4>0
        <4>2. /\ Top.id \in Nodes /\ stack[Depth].refs = RefsOf[Top.id]
              /\ \A m \in 1..(stack[Depth].next - 1) : stack[Depth].refs[m].id \in OrderedIds
          <5>1. ~(Depth < Depth)
            BY <1>3
          <5>2. /\ stack[Depth].id \in Known /\ stack[Depth].refs = RefsOf[stack[Depth].id]
                /\ \A m \in 1..(stack[Depth].next - 1) : stack[Depth].refs[m].id \in OrderedIds
            BY <1>3, <4>1, <5>1 DEF FrameRead
          <5> QED BY <1>3, <5>2, AdmissionAssumption
        <4>3. ASSUME NEW m \in DOMAIN RefsOf[Top.id]
              PROVE  \E j \in 1..(k - 1) : ordered'[j] = RefsOf[Top.id][m].id
          <5>1. m \in 1..Len(RefsOf[Top.id]) /\ Len(RefsOf[Top.id]) \in Nat
            BY <4>2, <4>3, ReferenceTyped
          <5>2. m \in 1..(stack[Depth].next - 1)
            BY <1>3, <4>2, <5>1
          <5>3. PICK j \in 1..n : ordered[j] = RefsOf[Top.id][m].id
            BY <4>2, <5>2 DEF OrderedIds, n
          <5>4. j \in 1..(k - 1)
            BY <1>5, <3>2
          <5> QED BY <2>3, <5>3, <5>4
        <4>4. RefersTo(stack[d].id, Top.id)
          <5>1. IsLoaded(d) /\ stack[d].id \in Nodes /\ stack[d].refs = RefsOf[stack[d].id]
            BY <2>7, <4>1, AdmissionAssumption DEF FrameRead
          <5>2. /\ stack[d].next > 1 /\ stack[d].next \in Nat
                /\ stack[d].next <= Len(stack[d].refs) + 1
                /\ stack[d].refs[stack[d].next - 1].id = stack[d + 1].id
            BY <1>1, <1>2, <4>1, <5>1, Standing DEF Path
          <5>3. DOMAIN RefsOf[stack[d].id] = 1..Len(stack[d].refs) /\ Len(stack[d].refs) \in Nat
            BY <5>1, ReferenceTyped
          <5>4. stack[d].next - 1 \in DOMAIN RefsOf[stack[d].id]
            BY <5>2, <5>3
          <5>5. RefsOf[stack[d].id][stack[d].next - 1].id = Top.id
            BY <1>3, <4>1, <5>1, <5>2
          <5> QED BY <5>4, <5>5 DEF RefersTo
        <4>5. stack'[d] = stack[d] /\ IsLoaded(d)'
          BY <2>2, <2>7
        <4>6. ordered'[k] = Top.id
          BY <2>3, <3>2
        <4>7. \E j \in 1..Depth' : IsLoaded(j)' /\ RefersTo(stack'[j].id, ordered'[k])
          BY <4>1, <4>4, <4>5, <4>6
        <4> QED BY <4>2, <4>3, <4>6, <4>7 DEF Placed
      <3> QED BY <2>3, <2>4, <3>1, <3>2
    <2>14. ClosureInv'
      BY <2>1, <2>11, <2>12, <2>13 DEF ClosureInv
    <2> QED BY <2>2, <2>8, <2>9, <2>10, <2>14 DEF IInv, WalkInv
  <1> QED BY <1>7, <1>8 DEF PopListed

----------------------------------------------------------------------------
(* The steps of verify.                                                    *)

LEMMA VerdictTrue ==
    ASSUME TypeOK, HostHonest, Audited, NEW id \in Ids, NEW isRoot \in BOOLEAN
    PROVE  /\ Verdict(id, isRoot) \in Refusals \union {"Verified"}
           /\ Verdict(id, isRoot) = "Verified" =>
                 id \in Known /\ (id \in verified \/ bytes[id] = id)
           /\ lies = 0 /\ Verdict(id, isRoot) # "Verified" =>
                 bytes[id] = Absent /\ Verdict(id, isRoot) = AbsentError(isRoot)
  <1>1. AbsentError(isRoot) \in {"ContentNotFound", "DanglingReference"}
    BY DEF AbsentError
  <1>2. CASE id \in verified
    BY <1>2 DEF Verdict, Audited
  <1>3. CASE id \notin verified /\ bytes[id] = Absent
    BY <1>1, <1>3 DEF Verdict, Refusals
  <1>4. CASE id \notin verified /\ bytes[id] # Absent
    <2>1. Verdict(id, isRoot) = VerifyNodeBytes(id, bytes[id])
      BY <1>4 DEF Verdict
    <2>2. lies = 0 => bytes[id] = id /\ id \in Known /\ id \in Nodes
      BY <1>4, AdmissionAssumption DEF HostHonest
    <2> QED BY <2>1, <2>2 DEF VerifyNodeBytes, Refusals
  <1> QED BY <1>2, <1>3, <1>4

LEMMA ReadRootKeeps ==
    ASSUME IInv, ReadRoot
    PROVE  IInv'
  <1> DEFINE isRoot  == Top.id = root /\ Len(stack) = 1
             verdict == Verdict(Top.id, isRoot)
  <1>1. TypeOK /\ Path /\ HostHonest /\ VerifyInv
    BY DEF IInv, WalkInv
  <1>2. walk = "verify" /\ Top.refs = NotLoaded
    BY DEF ReadRoot
  <1>3. Audited
    BY <1>1, <1>2 DEF VerifyInv
  <1>4. /\ Depth \in Nat /\ Depth >= 1 /\ Top = stack[Depth] /\ stack[Depth].id \in Ids
        /\ ~IsLoaded(Depth) /\ Depth \in 1..Depth /\ stack[1].id = root
    BY <1>1, <1>2, Standing DEF IsLoaded
  <1>5. Depth = 1 /\ isRoot
    <2>1. ~(Depth > 1)
      BY <1>3, <1>4 DEF Audited
    <2>2. Depth = 1
      BY <1>4, <2>1
    <2> QED BY <1>4, <2>2 DEF Depth
  <1>6. Top.id \in Ids /\ isRoot \in BOOLEAN /\ <<>> \in Seq(Ids)
    BY <1>4, EmptySeq
  <1>7. /\ verdict \in Refusals \union {"Verified"}
        /\ verdict = "Verified" => Top.id \in Known /\ (Top.id \in verified \/ bytes[Top.id] = Top.id)
        /\ lies = 0 /\ verdict # "Verified" => verdict = "ContentNotFound"
    <2>1. AbsentError(isRoot) = "ContentNotFound"
      BY <1>5 DEF AbsentError
    <2> HIDE DEF isRoot
    <2> QED BY <1>1, <1>3, <1>6, <2>1, VerdictTrue
  <1>8. CASE Fail("StoreFailure")
    BY <1>2, <1>6, <1>8, FinishKeeps DEF Fail, Refusals
  <1>9. CASE verdict # "Verified" /\ Fail(verdict)
    <2>1. verdict \in Refusals /\ verdict # "listed"
      BY <1>7, <1>9 DEF Refusals
    <2>2. lies = 0 => verdict = "ContentNotFound"
      BY <1>7, <1>9
    <2> HIDE DEF verdict
    <2> QED BY <1>2, <1>6, <1>9, <2>1, <2>2, FinishKeeps DEF Fail
  <1>10. CASE /\ verdict = "Verified"
              /\ verified' = verified \union {Top.id}
              /\ stack' = [stack EXCEPT ![Len(stack)].refs = RefsOf[Top.id]]
              /\ UNCHANGED <<host, walk, root, pushed, ordered, edges, answer>>
    <2>1. Top.id \in Nodes /\ Top.id \in Known /\ RefsOf[Top.id] \in Seq(Reference)
      BY <1>7, <1>10, ReferenceTyped, AdmissionAssumption
    <2>2. stack' = Loaded(stack, RefsOf[Top.id])
      BY <1>10 DEF Loaded
    <2>3. UNCHANGED <<bytes, lies, walk, root, pushed, ordered, edges, answer>>
      BY <1>10 DEF host
    <2>4. /\ Path' /\ Depth' = Depth /\ OnStack' = OnStack /\ stack' \in Seq(Frame)
          /\ \A k \in 1..Depth : stack'[k].id = stack[k].id /\ stack'[k].next = stack[k].next
          /\ \A k \in 1..Depth :
                stack'[k].refs = IF k = Depth THEN RefsOf[Top.id] ELSE stack[k].refs
          /\ \A k \in 1..Depth : IsLoaded(k)'
      BY <1>1, <1>2, <1>4, <2>1, <2>2, <2>3, PathLoaded
    <2>5. TypeOK' /\ IsFiniteSet(edges)'
      BY <1>6, <1>10, <2>3, <2>4 DEF IInv, WalkInv, TypeOK
    <2>6. HostHonest' /\ AnswerInv' /\ ClosureInv'
      BY <1>1, <1>2, <2>3, AnswerStands DEF IInv, HostHonest, TagsNow, ClosureInv
    <2>7. edges' = edges
      BY <2>3
    <2>8. ASSUME NEW k \in 1..Depth'
          PROVE  /\ stack'[k].id \in verified' /\ stack'[k].refs = RefsOf[stack'[k].id]
                 /\ \A m \in 1..(stack'[k].next - 1) : Followed(edges', stack'[k].id, m)
      <3>1. k = Depth
        BY <1>5, <2>4
      <3>2. stack[k].next = 1 /\ 1..(stack[k].next - 1) = {}
        BY <1>1, <1>4, <3>1 DEF Path
      <3> QED BY <1>4, <1>10, <2>4, <3>1, <3>2
    <2>9. lies = 0 => \A i \in verified' : bytes[i] = i
      BY <1>3, <1>7, <1>10 DEF Audited
    <2>10. /\ verified' \subseteq Known
           /\ \A p \in pushed' \ OnStack' :
                 p \in verified' /\ \A m \in DOMAIN RefsOf[p] : Followed(edges', p, m)
      BY <1>3, <1>10, <2>1, <2>3, <2>4, <2>7 DEF Audited
    <2>11. Audited'
      BY <1>3, <2>3, <2>4, <2>7, <2>8, <2>9, <2>10 DEF Audited
    <2> QED BY <2>4, <2>5, <2>6, <2>11 DEF IInv, WalkInv, VerifyInv
  <1> QED BY <1>8, <1>9, <1>10 DEF ReadRoot

LEMMA FollowVerifiedKeeps ==
    ASSUME IInv, FollowVerified
    PROVE  IInv'
  <1> DEFINE ref     == Top.refs[Top.next]
             c       == NextChild
             verdict == Verdict(c, FALSE)
  <1>1. TypeOK /\ Path /\ HostHonest /\ VerifyInv /\ IsFiniteSet(edges)
    BY DEF IInv, WalkInv
  <1>2. walk = "verify" /\ HasNext /\ ref.id = c
    BY DEF FollowVerified, NextChild
  <1>3. Audited
    BY <1>1, <1>2 DEF VerifyInv
  <1>4. /\ Depth \in Nat /\ Depth >= 1 /\ Top = stack[Depth] /\ stack[Depth].id \in Ids
        /\ Depth \in 1..Depth /\ stack # <<>>
    BY <1>1, <1>2, Standing
  <1>5. /\ \A k \in 1..Depth : IsLoaded(k)
        /\ stack[Depth].next \in DOMAIN stack[Depth].refs
        /\ stack[Depth].next \in Nat /\ stack[Depth].next >= 1 /\ c \in Ids
    BY <1>1, <1>2, ChildTyped
  <1>6. /\ Top.id \in verified /\ Top.id \in Known /\ Top.id \in Nodes
        /\ stack[Depth].refs = RefsOf[Top.id]
        /\ stack[Depth].next \in DOMAIN RefsOf[Top.id]
        /\ ref = RefsOf[Top.id][stack[Depth].next]
    BY <1>3, <1>4, <1>5, AdmissionAssumption DEF Audited
  <1>7. /\ verdict \in Refusals \union {"Verified"}
        /\ verdict = "Verified" => c \in Known /\ (c \in verified \/ bytes[c] = c)
        /\ lies = 0 /\ verdict # "Verified" => bytes[c] = Absent
    BY <1>1, <1>3, <1>5, VerdictTrue
  <1>8. lies = 0 => bytes[c] = c /\ KindMatches(ref)
    <2>1. lies = 0 => bytes[Top.id] = Top.id /\ bytes[Top.id] # Absent
      BY <1>3, <1>4, <1>6, AdmissionAssumption DEF Audited
    <2> QED BY <1>1, <1>2, <1>4, <1>6, <2>1, HonestChild DEF KindMatches
  <1>9. lies = 0 => verdict = "Verified"
    BY <1>5, <1>7, <1>8, AdmissionAssumption
  <1>10. <<>> \in Seq(Ids)
    BY EmptySeq
  <1>11. CASE Fail("StoreFailure")
    BY <1>2, <1>10, <1>11, FinishKeeps DEF Fail, Refusals
  <1>12. CASE verdict # "Verified" /\ Fail(verdict)
    <2>1. verdict \in Refusals /\ verdict # "listed" /\ lies # 0
      BY <1>7, <1>9, <1>12 DEF Refusals
    <2> HIDE DEF verdict
    <2> QED BY <1>2, <1>10, <1>12, <2>1, FinishKeeps DEF Fail
  <1>13. CASE ~KindMatches(ref) /\ Fail("WrongKindReference")
    <2>1. lies # 0
      BY <1>8, <1>13
    <2> QED BY <1>2, <1>10, <1>13, <2>1, FinishKeeps DEF Fail, Refusals
  <1>14. CASE /\ verdict = "Verified" /\ KindMatches(ref)
              /\ verified' = verified \union {c}
              /\ edges' = edges \union {<<Top.id, c>>}
              /\ Descend(c, RefsOf[c])
              /\ UNCHANGED <<host, walk, root, ordered, answer>>
    <2>1. UNCHANGED <<bytes, lies, walk, root, ordered, answer>>
      BY <1>14 DEF host
    <2>2. /\ c \in Known /\ c \in Nodes /\ RefsOf[c] \in Seq(Reference) /\ RefsOf[c] \in MaybeRead
          /\ RefsOf[c] # NotLoaded
      BY <1>7, <1>14, ReferenceTyped, AdmissionAssumption DEF MaybeRead
    <2>3. HostHonest' /\ AnswerInv' /\ ClosureInv'
      BY <1>1, <1>2, <2>1, AnswerStands DEF IInv, HostHonest, TagsNow, ClosureInv
    <2>4. IsFiniteSet(edges)' /\ edges' \subseteq Ids \X Ids
      <3>1. <<Top.id, c>> \in Ids \X Ids /\ edges \subseteq Ids \X Ids
        BY <1>1, <1>4, <1>5 DEF TypeOK
      <3> QED BY <1>1, <1>14, <3>1, FS_AddElement
    <2>5. \A p, m : Followed(edges, p, m) => Followed(edges', p, m)
      BY <1>14 DEF Followed
    <2>6. Followed(edges', Top.id, stack[Depth].next)
      BY <1>2, <1>6, <1>14 DEF Followed, KindMatches
    <2>7. lies = 0 => \A i \in verified' : bytes[i] = i
      BY <1>3, <1>8, <1>14 DEF Audited
    <2>8. RefersTo(Top.id, c) /\ Top.id \in OnStack /\ Top.id \in pushed
      <3>1. Top.id \in OnStack
        BY <1>4 DEF OnStack
      <3> QED BY <1>2, <1>3, <1>6, <3>1 DEF RefersTo, Audited
    <2>9. verified' \subseteq Known /\ verified \subseteq verified' /\ c \in verified'
      BY <1>3, <1>14, <2>2 DEF Audited
    <2>10. ASSUME NEW k \in 1..Depth, stack'[k].id = stack[k].id, stack'[k].refs = stack[k].refs,
                  stack'[k].next = IF k = Depth THEN stack[k].next + 1 ELSE stack[k].next
           PROVE  /\ IsLoaded(k)'
                  /\ stack'[k].id \in verified' /\ stack'[k].refs = RefsOf[stack'[k].id]
                  /\ \A m \in 1..(stack'[k].next - 1) : Followed(edges', stack[k].id, m)
      <3>1. /\ IsLoaded(k) /\ stack[k].id \in verified /\ stack[k].refs = RefsOf[stack[k].id]
            /\ \A m \in 1..(stack[k].next - 1) : Followed(edges, stack[k].id, m)
        BY <1>3, <1>5 DEF Audited
      <3>2. ASSUME NEW m \in 1..(stack'[k].next - 1) PROVE Followed(edges', stack[k].id, m)
        <4>1. CASE k = Depth
          <5>1. m \in 1..(stack[k].next - 1) \/ m = stack[Depth].next
            BY <1>5, <2>10, <4>1
          <5> QED BY <1>4, <2>5, <2>6, <3>1, <4>1, <5>1
        <4>2. CASE k # Depth
          BY <2>5, <2>10, <3>1, <4>2
        <4> QED BY <4>1, <4>2
      <3> QED BY <2>9, <2>10, <3>1, <3>2 DEF IsLoaded
    <2>11. CASE c \in pushed /\ stack' = Moved(stack) /\ pushed' = pushed
      <3>1. /\ Path' /\ Depth' = Depth /\ OnStack' = OnStack /\ stack' \in Seq(Frame)
            /\ \A k \in 1..Depth : stack'[k].id = stack[k].id /\ stack'[k].refs = stack[k].refs
            /\ \A k \in 1..Depth :
                  stack'[k].next = IF k = Depth THEN stack[k].next + 1 ELSE stack[k].next
        BY <1>1, <1>2, <2>1, <2>11, PathMoved
      <3>2. TypeOK'
        BY <1>1, <1>5, <1>14, <2>1, <2>4, <2>11, <3>1 DEF TypeOK
      <3>3. \A k \in 1..Depth' :
               /\ IsLoaded(k)'
               /\ stack'[k].id \in verified' /\ stack'[k].refs = RefsOf[stack'[k].id]
               /\ \A m \in 1..(stack'[k].next - 1) : Followed(edges', stack[k].id, m)
               /\ stack'[k].id = stack[k].id
        BY <2>10, <3>1
      <3>4. /\ root' \in pushed' /\ OnStack' \subseteq pushed'
            /\ \A e \in edges' : e[1] \in pushed' /\ e[2] \in pushed' /\ RefersTo(e[1], e[2])
            /\ \A p \in pushed' : p = root' \/ \E e \in edges' : e[2] = p
        BY <1>3, <1>14, <2>1, <2>8, <2>11, <3>1 DEF Audited
      <3>5. \A p \in pushed' \ OnStack' :
               p \in verified' /\ \A m \in DOMAIN RefsOf[p] : Followed(edges', p, m)
        BY <1>3, <2>5, <2>9, <2>11, <3>1 DEF Audited
      <3>6. Audited'
        BY <2>1, <2>7, <2>9, <3>3, <3>4, <3>5 DEF Audited
      <3> QED BY <2>3, <2>4, <3>1, <3>2, <3>6 DEF IInv, WalkInv, VerifyInv
    <2>12. CASE c \notin pushed /\ stack' = Pushed(stack, c, RefsOf[c]) /\ pushed' = pushed \union {c}
      <3>1. c \notin OnStack
        BY <1>3, <2>12 DEF Audited
      <3>2. /\ Path' /\ Depth' = Depth + 1 /\ OnStack' = OnStack \union {c}
            /\ stack' \in Seq(Frame)
            /\ \A k \in 1..Depth : stack'[k].id = stack[k].id /\ stack'[k].refs = stack[k].refs
            /\ \A k \in 1..Depth :
                  stack'[k].next = IF k = Depth THEN stack[k].next + 1 ELSE stack[k].next
            /\ stack'[Depth + 1].id = c /\ stack'[Depth + 1].refs = RefsOf[c]
            /\ stack'[Depth + 1].next = 1
        BY <1>1, <1>2, <1>5, <2>1, <2>2, <2>12, <3>1, PathPushed
      <3>3. TypeOK'
        BY <1>1, <1>5, <1>14, <2>1, <2>4, <2>12, <3>2 DEF TypeOK
      <3>4. ASSUME NEW k \in 1..Depth'
            PROVE  /\ IsLoaded(k)'
                   /\ stack'[k].id \in verified' /\ stack'[k].refs = RefsOf[stack'[k].id]
                   /\ \A m \in 1..(stack'[k].next - 1) : Followed(edges', stack'[k].id, m)
        <4>1. CASE k = Depth + 1
          BY <2>2, <2>9, <3>2, <4>1 DEF IsLoaded
        <4>2. CASE k \in 1..Depth
          BY <2>10, <3>2, <4>2
        <4> QED BY <1>4, <3>2, <4>1, <4>2
      <3>5. /\ root' \in pushed' /\ OnStack' \subseteq pushed'
            /\ \A e \in edges' : e[1] \in pushed' /\ e[2] \in pushed' /\ RefersTo(e[1], e[2])
            /\ \A p \in pushed' : p = root' \/ \E e \in edges' : e[2] = p
        <4>1. root' \in pushed' /\ OnStack' \subseteq pushed'
          BY <1>3, <2>1, <2>12, <3>2 DEF Audited
        <4>2. \A e \in edges' : e \in edges \/ (e[1] = Top.id /\ e[2] = c)
          BY <1>14
        <4>3. \A e \in edges' : e[1] \in pushed' /\ e[2] \in pushed' /\ RefersTo(e[1], e[2])
          BY <1>3, <2>8, <2>12, <4>2 DEF Audited
        <4>4. \E e \in edges' : e[2] = c
          <5>1. <<Top.id, c>> \in edges' /\ <<Top.id, c>>[2] = c
            BY <1>14
          <5> HIDE DEF c
          <5> QED BY <5>1
        <4>5. \A p \in pushed' : p = root' \/ \E e \in edges' : e[2] = p
          <5>1. \A p \in pushed : p = root' \/ \E e \in edges' : e[2] = p
            BY <1>3, <1>14, <2>1 DEF Audited
          <5> QED BY <2>12, <4>4, <5>1
        <4> QED BY <4>1, <4>3, <4>5
      <3>6. \A p \in pushed' \ OnStack' :
               p \in verified' /\ \A m \in DOMAIN RefsOf[p] : Followed(edges', p, m)
        BY <1>3, <2>5, <2>9, <2>12, <3>2 DEF Audited
      <3>7. Audited'
        BY <2>1, <2>7, <2>9, <3>4, <3>5, <3>6 DEF Audited
      <3> QED BY <2>3, <2>4, <3>2, <3>3, <3>7 DEF IInv, WalkInv, VerifyInv
    <2> QED BY <1>14, <2>11, <2>12, DescendTurns
  <1> QED BY <1>2, <1>11, <1>12, <1>13, <1>14 DEF FollowVerified

(* A post-order lists every node of the graph once, after all it has an    *)
(* edge to.                                                                *)
LEMMA PostOrderLists ==
    ASSUME NEW r \in Ids, NEW E, E \subseteq Ids \X Ids, IsFiniteSet(E),
           NEW s \in PostOrders(r, E)
    PROVE  /\ s \in Seq(Ids) /\ Len(s) \in Nat /\ DOMAIN s = 1..Len(s)
           /\ \A j, k \in DOMAIN s : s[j] = s[k] => j = k
           /\ \A k \in DOMAIN s : s[k] = r \/ \E e \in E : e[2] = s[k]
           /\ \E k \in DOMAIN s : s[k] = r
           /\ \A e \in E : \E k \in DOMAIN s : s[k] = e[2]
           /\ \A j, k \in DOMAIN s : <<s[j], s[k]>> \in E => k < j
  <1> DEFINE Targets == {e[2] : e \in E}
             S == {r} \union Targets
             n == Cardinality(S)
  <1>1. IsFiniteSet(Targets)
    <2> DEFINE f == [e \in E |-> e[2]]
    <2>1. f \in Surjection(E, Targets)
      BY DEF Surjection
    <2> HIDE DEF f, Targets
    <2> QED BY <2>1, FS_Surjection
  <1>2. IsFiniteSet(S) /\ S \subseteq Ids
    <2>1. Targets \subseteq Ids
      OBVIOUS
    <2>2. IsFiniteSet({r})
      BY FS_Singleton
    <2> HIDE DEF Targets
    <2> QED BY <1>1, <2>1, <2>2, FS_Union
  <1>3. n \in Nat
    BY <1>2, FS_CardinalityType
  <1>4. s \in [1..n -> S] /\ \A i, j \in 1..n : i # j => s[i] # s[j]
    BY DEF PostOrders, SetToSeqs
  <1>5. \A j, k \in DOMAIN s : <<s[j], s[k]>> \in E => k < j
    BY DEF PostOrders
  <1> HIDE DEF n, S
  <1>6. s \in Injection(1..n, S)
    BY <1>4 DEF Injection, IsInjective
  <1>7. IsFiniteSet(1..n) /\ Cardinality(1..n) = n
    BY <1>3, FS_Interval
  <1>8. s \in Surjection(1..n, S)
    BY <1>2, <1>6, <1>7, FS_Injection DEF n
  <1>9. s \in Seq(S) /\ s \in Seq(Ids)
    BY <1>2, <1>3, <1>4, SeqMonotonic
  <1>10. Len(s) = n /\ DOMAIN s = 1..n
    BY <1>3, <1>4
  <1>11. \A v \in S : \E k \in 1..n : s[k] = v
    BY <1>8 DEF Surjection
  <1>12. r \in S /\ (\A e \in E : e[2] \in S) /\ \A v \in S : v = r \/ \E e \in E : e[2] = v
    BY DEF S
  <1> QED BY <1>3, <1>4, <1>5, <1>9, <1>10, <1>11, <1>12

LEMMA AuditCompletes ==
    ASSUME TypeOK, Path, walk = "verify", Exhausted, Depth = 1, Audited, IsFiniteSet(edges),
           NEW s \in PostOrders(root, edges)
    PROVE  Complete(root, s)
  <1> DEFINE n == Len(s)
  <1>1. root \in Ids /\ edges \subseteq Ids \X Ids
    BY DEF TypeOK
  <1>2. /\ n \in Nat /\ DOMAIN s = 1..n
        /\ \A j, k \in DOMAIN s : s[j] = s[k] => j = k
        /\ \A k \in DOMAIN s : s[k] = root \/ \E e \in edges : e[2] = s[k]
        /\ \E k \in DOMAIN s : s[k] = root
        /\ \A e \in edges : \E k \in DOMAIN s : s[k] = e[2]
        /\ \A j, k \in DOMAIN s : <<s[j], s[k]>> \in edges => k < j
    BY <1>1, PostOrderLists
  <1> HIDE DEF n
  <1>3. /\ Top = stack[1] /\ Top.id = root /\ IsLoaded(1) /\ stack[1].next \in Nat
        /\ stack[1].next > Len(stack[1].refs) /\ 1 \in 1..Depth
    BY Standing DEF Exhausted, IsLoaded
  <1>4. OnStack = {root}
    BY <1>3 DEF OnStack
  <1>5. /\ root \in verified /\ root \in Known /\ stack[1].refs = RefsOf[root]
        /\ \A m \in 1..(stack[1].next - 1) : Followed(edges, root, m)
    BY <1>3 DEF Audited
  <1>6. \A m \in DOMAIN RefsOf[root] : Followed(edges, root, m)
    <2>1. /\ DOMAIN RefsOf[root] = 1..Len(RefsOf[root]) /\ Len(RefsOf[root]) \in Nat
      BY <1>5, ReferenceTyped, AdmissionAssumption
    <2>2. \A m \in 1..Len(RefsOf[root]) : m \in 1..(stack[1].next - 1)
      BY <1>3, <1>5, <2>1
    <2> QED BY <1>5, <2>1, <2>2
  <1>7. \A p \in pushed : /\ p \in Known /\ p \in Nodes
                          /\ \A m \in DOMAIN RefsOf[p] : Followed(edges, p, m)
    BY <1>4, <1>5, <1>6, AdmissionAssumption DEF Audited
  <1>8. \A k \in 1..n : s[k] \in pushed
    BY <1>2 DEF Audited
  <1>9. ASSUME NEW k \in 1..n, NEW m \in DOMAIN RefsOf[s[k]]
        PROVE  /\ \E j \in 1..(k - 1) : s[j] = RefsOf[s[k]][m].id
               /\ TagOf[RefsOf[s[k]][m].id] = RefsOf[s[k]][m].expectedTag
    <2>1. /\ <<s[k], RefsOf[s[k]][m].id>> \in edges
          /\ TagOf[RefsOf[s[k]][m].id] = RefsOf[s[k]][m].expectedTag
      BY <1>7, <1>8 DEF Followed
    <2>2. PICK j \in 1..n : s[j] = RefsOf[s[k]][m].id
      BY <1>2, <2>1
    <2>3. j < k
      BY <1>2, <2>1, <2>2
    <2>4. j \in 1..(k - 1)
      BY <1>2, <2>3
    <2> QED BY <2>1, <2>2, <2>4
  <1>10. ASSUME NEW k \in 1..n, s[k] # root
         PROVE  \E j \in (k + 1)..n : RefersTo(s[j], s[k])
    <2>1. PICK e \in edges : e[2] = s[k]
      BY <1>2, <1>10
    <2>2. e = <<e[1], e[2]>> /\ e[1] \in pushed /\ RefersTo(e[1], e[2])
      BY <1>1, <2>1 DEF Audited
    <2>3. PICK j \in 1..n : s[j] = e[1]
      BY <1>2, <2>2 DEF Audited
    <2>4. k < j
      BY <1>2, <2>1, <2>2, <2>3
    <2>5. j \in (k + 1)..n
      BY <1>2, <2>4
    <2> QED BY <2>1, <2>2, <2>3, <2>5
  <1>11. n >= 1 /\ s # <<>>
    <2>1. n >= 1
      BY <1>2
    <2> QED BY <2>1 DEF n
  <1>12. s[n] = root
    <2>1. n \in 1..n /\ (n + 1)..n = {}
      BY <1>2, <1>11
    <2> QED BY <1>10, <2>1
  <1>13. UploadOrder(root, s)
    <2>1. Last(s) = root
      BY <1>12 DEF Last, n
    <2>2. \A k \in DOMAIN s : s[k] \in Nodes
      BY <1>2, <1>7, <1>8
    <2>3. ASSUME NEW k \in 1..(n - 1)
          PROVE  \E j \in (k + 1)..n : \E m \in DOMAIN RefsOf[s[j]] : RefsOf[s[j]][m].id = s[k]
      <3>1. k \in 1..n /\ n \in 1..n /\ k # n
        BY <1>2, <1>11
      <3>2. s[k] # root
        BY <1>2, <1>12, <3>1
      <3> QED BY <1>10, <3>1, <3>2 DEF RefersTo
    <2> QED BY <1>2, <1>9, <1>11, <2>1, <2>2, <2>3 DEF UploadOrder, n
  <1>14. ASSUME NEW k \in DOMAIN s
         PROVE  /\ s[k] \in Known
                /\ Unmet(s[k], [m \in DOMAIN RefsOf[s[k]] |-> TagOf[RefsOf[s[k]][m].id]]) = {}
    BY <1>2, <1>7, <1>8, <1>9, <1>14 DEF Unmet
  <1> QED BY <1>13, <1>14 DEF Complete

LEMMA PopVerifiedKeeps ==
    ASSUME IInv, PopVerified
    PROVE  IInv'
  <1>1. TypeOK /\ Path /\ HostHonest /\ VerifyInv /\ IsFiniteSet(edges)
    BY DEF IInv, WalkInv
  <1>2. walk = "verify" /\ Exhausted
    BY DEF PopVerified
  <1>3. Audited
    BY <1>1, <1>2 DEF VerifyInv
  <1>4. /\ Depth \in Nat /\ Depth >= 1 /\ Top = stack[Depth] /\ stack[Depth].id \in Ids
        /\ IsLoaded(Depth) /\ Depth \in 1..Depth /\ stack[Depth].next \in Nat
        /\ stack[Depth].next > Len(stack[Depth].refs)
    BY <1>1, <1>2, Standing DEF IsLoaded, Exhausted
  <1>5. ASSUME Len(stack) = 1, NEW listing \in PostOrders(root, edges), Finish("listed", listing)
        PROVE  IInv'
    <2>1. Depth = 1
      BY <1>5 DEF Depth
    <2>2. Complete(root, listing)
      BY <1>1, <1>2, <1>3, <1>5, <2>1, AuditCompletes
    <2>3. listing \in Seq(Ids)
      BY <1>1, <1>5, PostOrderLists DEF TypeOK
    <2> QED BY <1>2, <1>5, <2>2, <2>3, FinishKeeps
  <1>6. CASE /\ Len(stack) # 1 /\ stack' = Front(stack)
             /\ UNCHANGED <<host, walk, root, pushed, ordered, verified, edges, answer>>
    <2>1. UNCHANGED <<bytes, lies, walk, root, pushed, ordered, verified, edges, answer>>
      BY <1>6 DEF host
    <2>2. /\ Path' /\ Depth' = Depth - 1 /\ Depth >= 2
          /\ stack' \in Seq(Frame)
          /\ \A k \in 1..(Depth - 1) : stack'[k] = stack[k]
          /\ OnStack' = OnStack \ {Top.id} /\ Top.id \in OnStack
          /\ \A k \in 1..Depth : IsLoaded(k)
      BY <1>1, <1>2, <1>6, <2>1, PathPopped
    <2>3. TypeOK' /\ IsFiniteSet(edges)'
      BY <1>1, <2>1, <2>2 DEF TypeOK
    <2>4. HostHonest' /\ AnswerInv' /\ ClosureInv'
      BY <1>1, <1>2, <2>1, AnswerStands DEF IInv, HostHonest, TagsNow, ClosureInv
    <2>5. ASSUME NEW k \in 1..Depth'
          PROVE  /\ IsLoaded(k)'
                 /\ stack'[k].id \in verified' /\ stack'[k].refs = RefsOf[stack'[k].id]
                 /\ \A m \in 1..(stack'[k].next - 1) : Followed(edges', stack'[k].id, m)
      <3>1. k \in 1..Depth /\ stack'[k] = stack[k] /\ IsLoaded(k)
        BY <1>4, <2>2
      <3> QED BY <1>3, <2>1, <3>1 DEF Audited, IsLoaded
    <2>6. /\ Top.id \in verified /\ Top.id \in Nodes /\ stack[Depth].refs = RefsOf[Top.id]
          /\ \A m \in 1..(stack[Depth].next - 1) : Followed(edges, Top.id, m)
      BY <1>3, <1>4, AdmissionAssumption DEF Audited
    <2>7. \A m \in DOMAIN RefsOf[Top.id] : Followed(edges, Top.id, m)
      <3>1. /\ DOMAIN RefsOf[Top.id] = 1..Len(RefsOf[Top.id]) /\ Len(RefsOf[Top.id]) \in Nat
        BY <2>6, ReferenceTyped
      <3>2. \A m \in 1..Len(RefsOf[Top.id]) : m \in 1..(stack[Depth].next - 1)
        BY <1>4, <2>6, <3>1
      <3> QED BY <2>6, <3>1, <3>2
    <2>8. \A p \in pushed' \ OnStack' :
             p \in verified' /\ \A m \in DOMAIN RefsOf[p] : Followed(edges', p, m)
      BY <1>3, <2>1, <2>2, <2>6, <2>7 DEF Audited
    <2>9. /\ verified' \subseteq Known /\ root' \in pushed' /\ OnStack' \subseteq pushed'
          /\ \A e \in edges' : e[1] \in pushed' /\ e[2] \in pushed' /\ RefersTo(e[1], e[2])
          /\ \A p \in pushed' : p = root' \/ \E e \in edges' : e[2] = p
          /\ lies' = 0 => \A i \in verified' : bytes'[i] = i
      BY <1>3, <2>1, <2>2 DEF Audited
    <2>10. Audited'
      BY <2>5, <2>8, <2>9 DEF Audited
    <2> QED BY <2>2, <2>3, <2>4, <2>10 DEF IInv, WalkInv, VerifyInv
  <1> QED BY <1>5, <1>6 DEF PopVerified

----------------------------------------------------------------------------
(* The theorems.                                                           *)

LEMMA InitHolds == Init => IInv
  <1> SUFFICES ASSUME Init PROVE IInv
    OBVIOUS
  <1>1. PICK S \in SUBSET Known : bytes = [i \in Ids |-> IF i \in S THEN i ELSE Absent]
    BY DEF Init
  <1>2. /\ \A i \in Ids : bytes[i] # Absent => Unmet(i, TagsNow(i)) = {}
        /\ lies = 0 /\ walk = "none" /\ root = CHOOSE i \in Ids : TRUE
        /\ stack = <<>> /\ pushed = {} /\ ordered = <<>> /\ verified = {} /\ edges = {}
        /\ answer = [outcome |-> "none", by |-> "none", ids |-> <<>>]
    BY DEF Init
  <1>3. root \in Ids
    BY <1>2, WalkAssumption
  <1>4. /\ stack \in Seq(Frame) /\ Len(stack) = 0 /\ ordered \in Seq(Ids) /\ <<>> \in Seq(Ids)
        /\ lies \in 0..MaxLies
    BY <1>2, EmptySeq, WalkAssumption
  <1>5. bytes \in [Ids -> Ids \union {Absent}]
    BY <1>1
  <1>6. TypeOK
    BY <1>2, <1>3, <1>4, <1>5 DEF TypeOK
  <1>7. HostHonest
    BY <1>1, <1>2, AdmissionAssumption DEF HostHonest
  <1>8. Path /\ ClosureInv /\ VerifyInv
    <2>1. Depth = 0
      BY <1>4 DEF Depth
    <2> QED BY <1>2, <2>1 DEF Path, ClosureInv, VerifyInv
  <1>9. AnswerInv
    BY <1>2 DEF AnswerInv, ClosureComplete, AuditSound, HonestHostPasses
  <1> QED BY <1>2, <1>6, <1>7, <1>8, <1>9, FS_EmptySet DEF IInv, WalkInv

LEMMA NextKeeps == IInv /\ [Next]_vars => IInv'
  <1> SUFFICES ASSUME IInv, [Next]_vars PROVE IInv'
    OBVIOUS
  <1>1. CASE \E kind \in {"closure", "verify"}, r \in Ids : Start(kind, r)
    BY <1>1, StartKeeps
  <1>2. CASE ReadFrame
    BY <1>2, ReadFrameKeeps
  <1>3. CASE FollowReference
    BY <1>3, FollowReferenceKeeps
  <1>4. CASE PopListed
    BY <1>4, PopListedKeeps
  <1>5. CASE ReadRoot
    BY <1>5, ReadRootKeeps
  <1>6. CASE FollowVerified
    BY <1>6, FollowVerifiedKeeps
  <1>7. CASE PopVerified
    BY <1>7, PopVerifiedKeeps
  <1>8. CASE \E n \in Ids : Admit(n)
    BY <1>8, AdmitKeeps
  <1>9. CASE \E i \in Ids, b \in Ids \union {Absent} : Lie(i, b)
    BY <1>9, LieKeeps
  <1>10. CASE UNCHANGED vars
    <2>1. UNCHANGED <<bytes, lies, walk, root, stack, pushed, ordered, verified, edges, answer>>
      BY <1>10 DEF vars, host
    <2>2. TypeOK /\ HostHonest
      BY DEF IInv, WalkInv
    <2>3. HostHonest' /\ bytes' \in [Ids -> Ids \union {Absent}] /\ lies' \in 0..MaxLies
      BY <2>1, <2>2 DEF HostHonest, TagsNow, TypeOK
    <2> QED BY <2>1, <2>3, HostMoves
  <1> QED BY <1>1, <1>2, <1>3, <1>4, <1>5, <1>6, <1>7, <1>8, <1>9, <1>10 DEF Next, Step

(***************************************************************************)
(* The stack of either walk is a path from its root; what closure has      *)
(* ordered, over an honest host, has all it refers to before it; what      *)
(* verify has left behind had every reference followed at its kind.        *)
(***************************************************************************)
THEOREM Inductive == Spec => []IInv
  <1>1. Init => IInv
    BY InitHolds
  <1>2. IInv /\ [Next]_vars => IInv'
    BY NextKeeps
  <1> QED BY <1>1, <1>2, PTL DEF Spec

(***************************************************************************)
(* Over a host that does not lie, and admits nodes meanwhile, closure      *)
(* lists exactly the root's graph: each node once, what a node refers to   *)
(* before it, the root last.                                               *)
(***************************************************************************)
THEOREM ClosureListsTheGraph == Spec => []ClosureComplete
  <1>1. IInv => ClosureComplete
    BY DEF IInv, AnswerInv
  <1> QED BY <1>1, Inductive, PTL

(***************************************************************************)
(* Whatever the host serves and however it changes between two reads, what *)
(* verify lists is the root's complete graph, all of it known and at the   *)
(* declared kinds; and a host that does not lie is refused nothing but a   *)
(* root it does not hold or a read that fails.                             *)
(***************************************************************************)
THEOREM AuditsAreExact == Spec => []AuditExact
  <1>1. IInv => AuditExact
    BY DEF IInv, WalkInv, AnswerInv, AuditExact
  <1> QED BY <1>1, Inductive, PTL
=============================================================================
