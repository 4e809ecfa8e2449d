------------------------------ MODULE CasStore ------------------------------
(***************************************************************************)
(* The store law over one shared byte plane, as concurrent callers run it. *)
(*                                                                         *)
(* Two doors admit content: the store law itself (Store.ts, putOutcome;    *)
(* the CLI and the MCP tools use it) and the cas-http/0 server core        *)
(* (server/Core.ts, uploadNode).  Both read the byte plane one reference   *)
(* at a time, judge, and write, holding no lock: every read and write is a *)
(* suspension point of the fiber, so the steps of different callers        *)
(* interleave freely.  The store law appends a receipt to the word log     *)
(* after the bytes; the server core has no word log.  Roots are published  *)
(* by the tool plane (handlers.ts, cas_publish_root) after a verified load *)
(* and by the server core (publishRoot) after a presence check.            *)
(*                                                                         *)
(* A caller is one fiber or one process.  It may be interrupted or killed  *)
(* at any suspension point, and every backend call may fail.  Bytes at     *)
(* rest may be damaged, which is what the read-verification law is for.    *)
(***************************************************************************)
EXTENDS Admission

CONSTANTS
    Callers,    \* fibers and processes calling the store
    Oversize,   \* byte strings longer than policy.maxNodeBytes
    Closures,   \* the closures clients declare when they publish over HTTP
    Damaged,    \* what damaged bytes at rest read as
    MaxDamage   \* bound: how many times bytes at rest are damaged

ASSUME StoreAssumption ==
    /\ Oversize \subseteq Ids
    /\ Closures \subseteq SUBSET Ids
    /\ Damaged \subseteq Ids
    /\ MaxDamage \in Nat

VARIABLES
    plane,      \* "join": memory and file backends; "set": key-value backend
    worded,     \* whether the composition provides a word log
    bytes,      \* the byte plane: what loadBytes answers at each address
    roots,      \* the published roots
    word,       \* the addresses of the receipts, in the word log's order
    pc,         \* per caller: where its current call stands
    door,       \* per caller: the door its current call came through
    node,       \* per caller: the address its current or last call is about
    tags,       \* per caller: refTags, the reference tags collected so far
    answer,     \* per caller: what its last finished call answered
    damage      \* how often bytes at rest were damaged

host == <<plane, worded>>
call == <<pc, door, node, tags, answer>>
vars == <<host, bytes, roots, word, call, damage>>

Stages == {"idle", "refs", "own", "write", "receipt", "publish"}

(* A refusal of any clause changes nothing that is shared, so the model    *)
(* keeps that a call was refused and leaves out which clause it named.     *)
Outcomes == {"none", "refused", "fresh", "duplicate", "Admitted",
             "AlreadyAdmitted", "Published"}

TypeOK ==
    /\ plane \in {"join", "set"}
    /\ worded \in BOOLEAN
    /\ bytes \in [Ids -> Ids \union {Absent}]
    /\ roots \subseteq Ids
    /\ word \in Seq(Ids)
    /\ pc \in [Callers -> Stages]
    /\ door \in [Callers -> {"none", "store", "server"}]
    /\ node \in [Callers -> Ids \union {Absent}]
    /\ tags \in [Callers -> Seq(Tags \union {NoTag})]
    /\ answer \in [Callers -> Outcomes]
    /\ damage \in 0..MaxDamage

Present(i) == bytes[i] # Absent

(***************************************************************************)
(* A set of addresses that every reference of every member stays inside,   *)
(* at the kind the reference declares.                                     *)
(***************************************************************************)
ReferenceClosed(S) ==
    \A i \in S : /\ i \in Nodes
                 /\ \A k \in DOMAIN RefsOf[i] :
                      /\ RefsOf[i][k].id \in S
                      /\ RefsOf[i][k].id \in Nodes
                      /\ TagOf[RefsOf[i][k].id] = RefsOf[i][k].expectedTag

(***************************************************************************)
(* A store opens over content admitted earlier: any closed set of known    *)
(* nodes, present without receipts, for the word begins with the log.      *)
(***************************************************************************)
Init ==
    /\ plane \in {"join", "set"}
    /\ worded \in BOOLEAN
    /\ \E S \in SUBSET Known :
          /\ ReferenceClosed(S)
          /\ bytes = [i \in Ids |-> IF i \in S THEN i ELSE Absent]
    /\ roots = {}
    /\ word = <<>>
    /\ pc = [c \in Callers |-> "idle"]
    /\ door = [c \in Callers |-> "none"]
    /\ node = [c \in Callers |-> Absent]
    /\ tags = [c \in Callers |-> <<>>]
    /\ answer = [c \in Callers |-> "none"]
    /\ damage = 0

----------------------------------------------------------------------------
(* Steps of a call.                                                        *)

Go(c, stage) == pc' = [pc EXCEPT ![c] = stage]

(* A call ends: it answers, names the address it answers for when it      *)
(* acknowledges one, and forgets the rest.                                 *)
End(c, outcome, i) ==
    /\ pc' = [pc EXCEPT ![c] = "idle"]
    /\ door' = [door EXCEPT ![c] = "none"]
    /\ node' = [node EXCEPT ![c] = i]
    /\ tags' = [tags EXCEPT ![c] = <<>>]
    /\ answer' = [answer EXCEPT ![c] = outcome]

Acknowledge(c, outcome) == End(c, outcome, node[c])

Refuse(c) == End(c, "refused", Absent)

Start(c, d, i, stage) ==
    /\ door' = [door EXCEPT ![c] = d]
    /\ node' = [node EXCEPT ![c] = i]
    /\ tags' = [tags EXCEPT ![c] = <<>>]
    /\ answer' = [answer EXCEPT ![c] = "none"]
    /\ Go(c, stage)

(* The tag admissionFacts collects for the reference to i.                 *)
RefTag(i) == IF bytes[i] = Absent THEN NoTag ELSE TagOf[bytes[i]]

AfterTags(n, collected) ==
    IF Len(collected) < Len(RefsOf[n]) THEN "refs" ELSE "own"

(* putOutcome, up to its first read: a value of the node type (so its own  *)
(* encoding is canonical), refused when its kind version is unknown or the *)
(* digest fails.                                                           *)
PutNode(c, n) ==
    /\ pc[c] = "idle"
    /\ n \in Nodes
    /\ \/ Refuse(c)
       \/ n \in Known /\ Start(c, "store", n, AfterTags(n, <<>>))
    /\ UNCHANGED <<host, bytes, roots, word, damage>>

(* uploadNode, up to its first read: refused over the budget, when the     *)
(* digest fails or is not the address, and when the bytes are not          *)
(* canonical.  A node of unknown kind does reach the reads.                *)
UploadNode(c, id, b) ==
    /\ pc[c] = "idle"
    /\ \/ Refuse(c)
       \/ /\ b \notin Oversize /\ b = id /\ b \in Nodes
          /\ Start(c, "server", id, AfterTags(b, <<>>))
    /\ UNCHANGED <<host, bytes, roots, word, damage>>

(* One turn of the admissionFacts loop.  An absent reference is noted and  *)
(* the loop goes on; one that does not verify, or a failing backend, ends  *)
(* the call.                                                               *)
ReadReference(c) ==
    /\ pc[c] = "refs"
    /\ LET ref       == RefsOf[node[c]][Len(tags[c]) + 1]
           collected == Append(tags[c], RefTag(ref.id))
       IN  \/ Refuse(c)
           \/ /\ \/ bytes[ref.id] = Absent
                 \/ VerifyNodeBytes(ref.id, bytes[ref.id]) = "Verified"
              /\ tags' = [tags EXCEPT ![c] = collected]
              /\ Go(c, AfterTags(node[c], collected))
              /\ UNCHANGED <<door, node, answer>>
    /\ UNCHANGED <<host, bytes, roots, word, damage>>

(* The last read of admissionFacts and the judgment, which is pure.        *)
ReadOwnAndJudge(c) ==
    /\ pc[c] = "own"
    /\ LET verdict == JudgeAdmission(node[c], tags[c], bytes[node[c]])
       IN  \/ Refuse(c)
           \/ /\ verdict = "AlreadyResident"
              /\ Acknowledge(c, IF door[c] = "store" THEN "duplicate"
                                                     ELSE "AlreadyAdmitted")
           \/ /\ verdict = "Admit"
              /\ Go(c, "write")
              /\ UNCHANGED <<door, node, tags, answer>>
    /\ UNCHANGED <<host, bytes, roots, word, damage>>

(* A put whose write landed: the store law goes on to the receipt, or      *)
(* answers when the composition has no word log.                           *)
AfterWrite(c) ==
    IF door[c] = "store" /\ worded
    THEN Go(c, "receipt") /\ UNCHANGED <<door, node, tags, answer>>
    ELSE Acknowledge(c, IF door[c] = "store" THEN "fresh" ELSE "Admitted")

WriteFailureIgnored(c) == UNCHANGED bytes /\ AfterWrite(c)

WriteFailed(c) == UNCHANGED bytes /\ Refuse(c)

(* putBytes.  The joining backends leave resident bytes alone and compare, *)
(* failing when they differ; the key-value backend sets unconditionally.   *)
(* A failing write may or may not have landed: the file backend fails the  *)
(* put when it cannot remove its scaffold after the link.                  *)
PutBytes(c) ==
    /\ pc[c] = "write"
    /\ \/ WriteFailed(c)
       \/ /\ plane = "set" \/ bytes[node[c]] \in {Absent, node[c]}
          /\ bytes' = [bytes EXCEPT ![node[c]] = node[c]]
          /\ Refuse(c) \/ AfterWrite(c)
    /\ UNCHANGED <<host, roots, word, damage>>

ReceiptFailed(c) == UNCHANGED word /\ Refuse(c)

(* wordLog.append.  A failing append may have left its receipt behind: the *)
(* file log keeps a line that lost only its newline.                       *)
AppendReceipt(c) ==
    /\ pc[c] = "receipt"
    /\ \/ ReceiptFailed(c)
       \/ /\ word' = Append(word, node[c])
          /\ Refuse(c) \/ Acknowledge(c, "fresh")
    /\ UNCHANGED <<host, bytes, roots, damage>>

(* load: one read, then the read-verification law.                         *)
Loads(i) == bytes[i] # Absent /\ VerifyNodeBytes(i, bytes[i]) = "Verified"

(* cas_publish_root and `cas publish`: a verified load, then publish.      *)
LoadForPublish(c, i) ==
    /\ pc[c] = "idle"
    /\ \/ Refuse(c)
       \/ Loads(i) /\ Start(c, "store", i, "publish")
    /\ UNCHANGED <<host, bytes, roots, word, damage>>

ClosureHeldSansRoot(i, closure) == \A j \in closure : Present(j)

ClosureHeld(i, closure) == \A j \in closure \union {i} : Present(j)

(* publishRoot: the root and the closure the client declares must be       *)
(* present.  The declared closure is the client's, not the store's.  The   *)
(* plane only grows, so one instant stands for the whole presence query.   *)
CheckPresence(c, i, closure) ==
    /\ pc[c] = "idle"
    /\ \/ Refuse(c)
       \/ ClosureHeld(i, closure) /\ Start(c, "server", i, "publish")
    /\ UNCHANGED <<host, bytes, roots, word, damage>>

PublishRoot(c) ==
    /\ pc[c] = "publish"
    /\ \/ Refuse(c) /\ UNCHANGED roots
       \/ Acknowledge(c, "Published") /\ roots' = roots \union {node[c]}
    /\ UNCHANGED <<host, bytes, word, damage>>

(* A fiber interrupted, or a process killed, at a suspension point.        *)
Interrupt(c) ==
    /\ pc[c] # "idle"
    /\ End(c, "none", Absent)
    /\ UNCHANGED <<host, bytes, roots, word, damage>>

(* Bytes at rest change under the store: other bytes at a resident path.   *)
Damage(i, b) ==
    /\ damage < MaxDamage
    /\ Present(i) /\ b # bytes[i]
    /\ bytes' = [bytes EXCEPT ![i] = b]
    /\ damage' = damage + 1
    /\ UNCHANGED <<host, roots, word, call>>

Next ==
    \/ \E c \in Callers :
          \/ \E n \in Nodes : PutNode(c, n)
          \/ \E id, b \in Ids : UploadNode(c, id, b)
          \/ ReadReference(c)
          \/ ReadOwnAndJudge(c)
          \/ PutBytes(c)
          \/ AppendReceipt(c)
          \/ \E i \in Ids : LoadForPublish(c, i)
          \/ \E i \in Ids : \E closure \in Closures : CheckPresence(c, i, closure)
          \/ PublishRoot(c)
          \/ Interrupt(c)
    \/ \E i \in Ids, b \in Damaged : Damage(i, b)

Spec == Init /\ [][Next]_vars

----------------------------------------------------------------------------
(* What the store promises.                                                *)

Resident == {i \in Ids : Present(i)}

Receipted(i) == \E k \in DOMAIN word : word[k] = i

(***************************************************************************)
(* Closure and kind-typing (Store.ts: "Closure and kind-typing are checked *)
(* at put"): whatever is resident is a node all of whose references are    *)
(* resident at their declared kinds.  The check reads the references one   *)
(* by one before the write, without a lock.                                *)
(***************************************************************************)
ResidentClosed == ReferenceClosed(Resident)

(***************************************************************************)
(* What a call in flight has learned still holds when it acts on it: the   *)
(* tags it collected are the tags of content that is resident now, a call  *)
(* about to write has every reference met, and a call about to receipt or  *)
(* publish an address finds it resident.  This is why check-then-insert    *)
(* needs no lock (Store.ts, putOutcome), and what the proofs rest on.      *)
(***************************************************************************)
CallSound(c) ==
    /\ pc[c] # "idle" => node[c] \in Ids
    /\ pc[c] \in {"refs", "own", "write"} =>
          /\ node[c] \in Nodes
          /\ \A k \in DOMAIN tags[c] :
                tags[c][k] # NoTag =>
                   /\ Present(RefsOf[node[c]][k].id)
                   /\ RefsOf[node[c]][k].id \in Nodes
                   /\ tags[c][k] = TagOf[RefsOf[node[c]][k].id]
    /\ pc[c] = "refs" => Len(tags[c]) < Len(RefsOf[node[c]])
    /\ pc[c] \in {"own", "write"} => Len(tags[c]) = Len(RefsOf[node[c]])
    /\ pc[c] = "write" => Unmet(node[c], tags[c]) = {}
    /\ pc[c] \in {"receipt", "publish"} => Present(node[c])

CallsSound == \A c \in Callers : CallSound(c)

(***************************************************************************)
(* A published root is the entry point of a complete graph: some closed    *)
(* set of resident addresses contains it, whichever door published it.     *)
(***************************************************************************)
PublishedComplete ==
    \A r \in roots : \E S \in SUBSET Resident : r \in S /\ ReferenceClosed(S)

(***************************************************************************)
(* "Every logged address is resident" (WordLog.ts): bytes first, receipt   *)
(* second, across interrupts and failures.                                 *)
(***************************************************************************)
ReceiptsResident == \A k \in DOMAIN word : Present(word[k])

(***************************************************************************)
(* "When present, every FRESH admission is receipted" (Store.ts): a put    *)
(* that answered fresh under a word log has its receipt.                   *)
(***************************************************************************)
FreshReceipted ==
    \A c \in Callers :
       worded /\ answer[c] = "fresh" => Receipted(node[c])

(***************************************************************************)
(* An acknowledged admission stays: whatever answer named an address as    *)
(* admitted, already there or published, the address remains resident.     *)
(***************************************************************************)
AcknowledgedResident ==
    \A c \in Callers :
       answer[c] \in {"fresh", "duplicate", "Admitted",
                              "AlreadyAdmitted", "Published"}
          => node[c] \in Resident

(***************************************************************************)
(* The store keeps what it has answered for, through interrupts, failed    *)
(* writes and failed receipts: the word names resident addresses only, an  *)
(* acknowledged address is resident, a fresh one is receipted.             *)
(***************************************************************************)
AnswersKept == ReceiptsResident /\ AcknowledgedResident /\ FreshReceipted

(***************************************************************************)
(* The byte plane only grows, and the doors write nothing at an address    *)
(* but the bytes that hash to it; only damage at rest does otherwise.      *)
(***************************************************************************)
GrowOnly ==
    [][\A i \in Ids :
          /\ bytes[i] # Absent => bytes'[i] # Absent
          /\ bytes'[i] # bytes[i] => bytes'[i] = i \/ damage' # damage]_vars

(***************************************************************************)
(* "A duplicate put is the identity on the store and appends nothing"      *)
(* (WordLog.ts): one address is receipted once.  Violated: two concurrent  *)
(* puts of the same node both read it absent, both write, both answer      *)
(* fresh and both append.                                                  *)
(***************************************************************************)
OneReceiptPerAddress ==
    \A j, k \in DOMAIN word : word[j] = word[k] => j = k
============================================================================
