----------------------------- MODULE GraphWalk -----------------------------
(***************************************************************************)
(* The graph walks over the read seam (Graph.ts, closure and verify).      *)
(*                                                                         *)
(* A walk is a depth-first search by an explicit stack of frames.  Every   *)
(* read of the host is a suspension point, so the host may admit nodes,    *)
(* and an untrusted one may change what it serves, between two reads.      *)
(* closure decodes and follows whatever is served; verify re-verifies      *)
(* every node under its address, keeps what it verified, checks the kind   *)
(* of every reference, and lists the graph of the references it followed.  *)
(***************************************************************************)
EXTENDS Admission, FiniteSets, SequencesExt

CONSTANTS
    NotLoaded,  \* the undefined refs, or node, of a frame not read yet
    MaxLies,    \* bound: how often the host changes what it serves
    Liable      \* bound: the addresses where it does, with what it serves there

ASSUME WalkAssumption ==
    /\ Ids # {}
    /\ MaxLies \in Nat
    /\ Liable \subseteq Ids \X (Ids \union {Absent})
    /\ NotLoaded \notin Seq(Reference)

(* A node's bytes hold the digests of what it refers to, so no chain of    *)
(* references returns to where it began: a digest would contain itself.    *)
ASSUME ReferencesWellFounded ==
    \A S \in SUBSET Nodes :
        S # {} => \E n \in S : \A k \in DOMAIN RefsOf[n] : RefsOf[n][k].id \notin S

VARIABLES
    bytes,      \* what the host answers at each address
    lies,       \* how often it changed what it serves
    walk,       \* the walk under way: "none", "closure" or "verify"
    root,       \* the root of the last walk started
    stack,      \* its frames
    pushed,     \* the ids that have had a frame
    ordered,    \* closure: the ids whose frame was popped
    verified,   \* verify: the ids whose bytes verified, kept for the walk
    edges,      \* verify: the references followed
    answer      \* how the last walk ended, and the ids it listed

host == <<bytes, lies>>
vars == <<host, walk, root, stack, pushed, ordered, verified, edges, answer>>

Frame == [id : Ids, refs : Seq(Reference) \union {NotLoaded}, next : Nat]

Refusals == {"ContentNotFound", "DanglingReference", "NonCanonicalBytes",
             "UnknownKind", "AddressMismatch", "WrongKindReference",
             "StoreFailure"}

TypeOK ==
    /\ bytes \in [Ids -> Ids \union {Absent}]
    /\ lies \in 0..MaxLies
    /\ walk \in {"none", "closure", "verify"}
    /\ root \in Ids
    /\ stack \in Seq(Frame)
    /\ pushed \subseteq Ids
    /\ ordered \in Seq(Ids)
    /\ verified \subseteq Ids
    /\ edges \subseteq Ids \X Ids
    /\ answer \in [outcome : Refusals \union {"none", "listed"},
                   by : {"none", "closure", "verify"}, ids : Seq(Ids)]

(* What collecting the reference tags of n finds at this instant.          *)
TagsNow(n) ==
    [k \in DOMAIN RefsOf[n] |->
        LET b == bytes[RefsOf[n][k].id] IN IF b \in Nodes THEN TagOf[b] ELSE NoTag]

(* The host opens over admitted content: known nodes, closed under their   *)
(* references at the kinds they declare.                                   *)
Init ==
    /\ \E S \in SUBSET Known :
          bytes = [i \in Ids |-> IF i \in S THEN i ELSE Absent]
    /\ \A i \in Ids : bytes[i] # Absent => Unmet(i, TagsNow(i)) = {}
    /\ lies = 0
    /\ walk = "none"
    /\ root = CHOOSE i \in Ids : TRUE   \* no walk yet
    /\ stack = <<>> /\ pushed = {} /\ ordered = <<>>
    /\ verified = {} /\ edges = {}
    /\ answer = [outcome |-> "none", by |-> "none", ids |-> <<>>]

----------------------------------------------------------------------------
(* The host.                                                               *)

(* Another caller's put of a node is admitted.                             *)
Admit(n) ==
    /\ JudgeAdmission(n, TagsNow(n), bytes[n]) = "Admit"
    /\ bytes' = [bytes EXCEPT ![n] = n]
    /\ UNCHANGED <<lies, walk, root, stack, pushed, ordered, verified, edges, answer>>

(* The host hides an address or serves other bytes at it.                  *)
Lie(i, b) ==
    /\ lies < MaxLies /\ <<i, b>> \in Liable /\ b # bytes[i]
    /\ lies' = lies + 1
    /\ bytes' = [bytes EXCEPT ![i] = b]
    /\ UNCHANGED <<walk, root, stack, pushed, ordered, verified, edges, answer>>

----------------------------------------------------------------------------
(* One walk.                                                               *)

Top == stack[Len(stack)]

FrameOf(id, refs) == [id |-> id, refs |-> refs, next |-> 1]

(* A walk begins with nothing pushed but its root, not read yet.           *)
Start(kind, r) ==
    /\ walk = "none"
    /\ walk' = kind /\ root' = r
    /\ stack' = <<FrameOf(r, NotLoaded)>>
    /\ pushed' = {r}
    /\ ordered' = <<>>
    /\ verified' = {} /\ edges' = {}
    /\ answer' = [outcome |-> "none", by |-> "none", ids |-> <<>>]
    /\ UNCHANGED host

Finish(outcome, ids) ==
    /\ walk' = "none"
    /\ stack' = <<>> /\ pushed' = {} /\ ordered' = <<>>
    /\ verified' = {} /\ edges' = {}
    /\ answer' = [outcome |-> outcome, by |-> walk, ids |-> ids]
    /\ UNCHANGED <<host, root>>

(* A walk that fails answers the failure and no ids.                       *)
Fail(error) == Finish(error, <<>>)

(* residentBytes: absence of the root is not the absence of a reference.   *)
AbsentError(isRoot) == IF isRoot THEN "ContentNotFound" ELSE "DanglingReference"

(* The references followed next are those of the frame on top; its cursor  *)
(* moves on, and the child gets a frame unless it has had one.             *)
CursorStuck(child, refs) ==
    IF child \in pushed
    THEN UNCHANGED <<stack, pushed>>
    ELSE /\ stack' = Append([stack EXCEPT ![Len(stack)].next = @ + 1],
                            FrameOf(child, refs))
         /\ pushed' = pushed \union {child}

PushAgain(child, refs) ==
    /\ stack' = Append([stack EXCEPT ![Len(stack)].next = @ + 1], FrameOf(child, refs))
    /\ pushed' = pushed \union {child}

Descend(child, refs) ==
    LET moved == [stack EXCEPT ![Len(stack)].next = @ + 1]
    IN  IF child \in pushed
        THEN stack' = moved /\ UNCHANGED pushed
        ELSE stack' = Append(moved, FrameOf(child, refs)) /\ pushed' = pushed \union {child}

HasNext == Top.refs # NotLoaded /\ Top.next <= Len(Top.refs)

Exhausted == Top.refs # NotLoaded /\ Top.next > Len(Top.refs)

(* closure reads the frame on top: it decodes the bytes and keeps the      *)
(* references, without asking whose bytes they are.                        *)
ReadFrame ==
    /\ walk = "closure" /\ Top.refs = NotLoaded
    /\ LET b == bytes[Top.id]
       IN  \/ Fail("StoreFailure")
           \/ /\ b = Absent
              /\ Fail(AbsentError(ordered = <<>> /\ Len(stack) = 1))
           \/ b \in Ids \ Nodes /\ Fail("NonCanonicalBytes")
           \/ /\ b \in Nodes
              /\ stack' = [stack EXCEPT ![Len(stack)].refs = RefsOf[b]]
              /\ UNCHANGED <<host, walk, root, pushed, ordered, verified, edges, answer>>

FollowReference ==
    /\ walk = "closure" /\ HasNext
    /\ Descend(Top.refs[Top.next].id, NotLoaded)
    /\ UNCHANGED <<host, walk, root, ordered, verified, edges, answer>>

PopListed ==
    /\ walk = "closure" /\ Exhausted
    /\ IF Len(stack) = 1
       THEN Finish("listed", Append(ordered, Top.id))
       ELSE /\ stack' = Front(stack)
            /\ ordered' = Append(ordered, Top.id)
            /\ UNCHANGED <<host, walk, root, pushed, verified, edges, answer>>

(* loadVerified: what was verified is not read again; what is read must    *)
(* verify under its address.                                               *)
Verdict(id, isRoot) ==
    IF id \in verified THEN "Verified"
    ELSE IF bytes[id] = Absent THEN AbsentError(isRoot)
    ELSE VerifyNodeBytes(id, bytes[id])

ReadRoot ==
    /\ walk = "verify" /\ Top.refs = NotLoaded
    /\ LET verdict == Verdict(Top.id, Top.id = root /\ Len(stack) = 1)
       IN  \/ Fail("StoreFailure")
           \/ verdict # "Verified" /\ Fail(verdict)
           \/ /\ verdict = "Verified"
              /\ verified' = verified \union {Top.id}
              /\ stack' = [stack EXCEPT ![Len(stack)].refs = RefsOf[Top.id]]
              /\ UNCHANGED <<host, walk, root, pushed, ordered, edges, answer>>

(* The child is read before its kind is held against what the reference    *)
(* declares, at every reference to it.                                     *)
KindCheckedOnce(ref) == ref.id \in pushed \/ TagOf[ref.id] = ref.expectedTag

KindMatches(ref) == TagOf[ref.id] = ref.expectedTag

FollowVerified ==
    /\ walk = "verify" /\ HasNext
    /\ LET ref     == Top.refs[Top.next]
           verdict == Verdict(ref.id, FALSE)
       IN  \/ ref.id \notin verified /\ Fail("StoreFailure")
           \/ verdict # "Verified" /\ Fail(verdict)
           \/ verdict = "Verified" /\ ~KindMatches(ref) /\ Fail("WrongKindReference")
           \/ /\ verdict = "Verified" /\ KindMatches(ref)
              /\ verified' = verified \union {ref.id}
              /\ edges' = edges \union {<<Top.id, ref.id>>}
              /\ Descend(ref.id, RefsOf[ref.id])
              /\ UNCHANGED <<host, walk, root, ordered, answer>>

(* The post-order listings of the graph E from r: each node once, after    *)
(* everything it has an edge to.                                           *)
PostOrders(r, E) ==
    {s \in SetToSeqs({r} \union {e[2] : e \in E}) :
        \A j, k \in DOMAIN s : <<s[j], s[k]>> \in E => k < j}

PopVerified ==
    /\ walk = "verify" /\ Exhausted
    /\ IF Len(stack) = 1
       THEN \E listing \in PostOrders(root, edges) : Finish("listed", listing)
       ELSE /\ stack' = Front(stack)
            /\ UNCHANGED <<host, walk, root, pushed, ordered, verified, edges, answer>>

Step == ReadFrame \/ FollowReference \/ PopListed
        \/ ReadRoot \/ FollowVerified \/ PopVerified

Next ==
    \/ \E kind \in {"closure", "verify"}, r \in Ids : Start(kind, r)
    \/ Step
    \/ \E n \in Ids : Admit(n)
    \/ \E i \in Ids, b \in Ids \union {Absent} : Lie(i, b)

Spec == Init /\ [][Next]_vars

(* A fiber with a synchronous step to take, or whose read returns, runs.   *)
FairSpec == Spec /\ WF_vars(Step)

----------------------------------------------------------------------------
(* What the walks promise.                                                 *)

(***************************************************************************)
(* "closure is children-first, deduplicated, root last" (Graph.test.ts):   *)
(* over a host that does not lie, and goes on admitting nodes meanwhile,   *)
(* the listing is a valid upload order of exactly the root's graph.        *)
(***************************************************************************)
UploadOrder(r, s) ==
    /\ s # <<>> /\ Last(s) = r
    /\ \A j, k \in DOMAIN s : s[j] = s[k] => j = k
    /\ \A k \in DOMAIN s : s[k] \in Nodes
    /\ \A k \in DOMAIN s : \A m \in DOMAIN RefsOf[s[k]] :
          \E j \in 1..(k - 1) : s[j] = RefsOf[s[k]][m].id
    /\ \A k \in 1..(Len(s) - 1) :
          \E j \in (k + 1)..Len(s) : \E m \in DOMAIN RefsOf[s[j]] :
             RefsOf[s[j]][m].id = s[k]

ClosureComplete ==
    lies = 0 /\ answer.by = "closure" /\ answer.outcome = "listed"
       => UploadOrder(root, answer.ids)

(***************************************************************************)
(* "Succeeds with the children-first closure exactly when the backend      *)
(* faithfully serves the whole graph" (Graph.ts, verify), the direction    *)
(* that needs no trust: whatever the host served, and however it changed   *)
(* in the middle, a listing is the complete graph of the root, every node  *)
(* known and every reference at its declared kind.                         *)
(***************************************************************************)
AuditSound ==
    answer.by = "verify" /\ answer.outcome = "listed" =>
       /\ UploadOrder(root, answer.ids)
       /\ \A k \in DOMAIN answer.ids :
             /\ answer.ids[k] \in Known
             /\ Unmet(answer.ids[k],
                      [m \in DOMAIN RefsOf[answer.ids[k]] |->
                          TagOf[RefsOf[answer.ids[k]][m].id]]) = {}

(***************************************************************************)
(* The other direction: over a host that does not lie no walk refuses,     *)
(* save for a root it does not hold or a backend that fails.               *)
(***************************************************************************)
HonestHostPasses ==
    lies = 0 => answer.outcome \in {"none", "listed", "ContentNotFound", "StoreFailure"}

(***************************************************************************)
(* "Succeeds ... exactly when the backend faithfully serves the whole      *)
(* graph": both directions together, over well-typed walks.                *)
(***************************************************************************)
AuditExact == TypeOK /\ AuditSound /\ HonestHostPasses

(***************************************************************************)
(* Every walk answers, whatever the host serves.                           *)
(***************************************************************************)
WalksAnswer == walk # "none" ~> walk = "none"
============================================================================
