--------------------------- MODULE RemoteTransfer ---------------------------
(***************************************************************************)
(* The adapter of remote.ts: callers that share one transfer machine, one  *)
(* local mirror and one capability probe, and talk to a peer over a wire   *)
(* that loses, delays and damages.  An exchange is a request, perhaps      *)
(* processed, then its answer or its loss.  A request whose caller has     *)
(* gone may still be processed later.  The peer is not trusted to check    *)
(* anything: it accepts any upload and any publication, or refuses it; it  *)
(* is trusted to keep what it accepted and to report presence truly.       *)
(***************************************************************************)
EXTENDS RemoteMachine, FiniteSets

CONSTANTS
    Refs,         \* Refs[k]: the addresses node k refers to
    Listing,      \* Listing[k]: the graph below k, children first, k last
    Closures,     \* closures a direct publication may declare
    Mirrors,      \* what the local mirror and the peer may hold at the start
    Verbs,        \* Verbs[c]: the calls caller c makes
    Bounds,       \* pairs of a key limit and the keys of an encodable list
    MaxAttempts,  \* config.maxAttempts
    MaxCalls,     \* bound of the model: calls made in one behaviour
    MaxFailures,  \* bound of the model: failures of a hash, or of the mirror under it
    NoReply

VARIABLES
    mode,      \* config.authorityMode
    bounds,    \* the peer's maxBatchKeys, and how many keys a list within
               \* config.maxEncodedBytes names
    machine,   \* the shared machine
    caps,      \* the memoized probe: "unknown", "known" or "refused"
    local,     \* addresses in the local mirror
    op,        \* what each caller is doing
    held,      \* addresses the peer holds
    roots,     \* publications the peer recorded, with the closure declared
    stray,     \* requests whose caller has gone
    left,      \* operations in the machine under numbers nobody will use again
    failures,  \* failures of a hash so far, for the bound
    calls,     \* calls made, for the bound
    answered   \* the call the last step ended in success, by verb and key, or NoOp

peer == <<held, roots, stray>>

faults == <<left, failures>>

vars == <<mode, bounds, machine, caps, local, op, peer, faults, calls, answered>>

Idle == [verb |-> "none", pc |-> "idle", key |-> NoOp, closure |-> {}, plan |-> <<>>,
         batch |-> <<>>, said |-> <<>>, attempt |-> 1, once |-> FALSE, reply |-> NoReply]

Init ==
    /\ mode \in {"remote-authoritative", "local-authoritative"}
    /\ bounds \in Bounds
    /\ machine = InitialMachine
    /\ caps = "unknown"
    /\ local \in Mirrors
    /\ op = [c \in Ops |-> Idle]
    /\ held \in Mirrors /\ roots = {} /\ stray = {} /\ calls = 0 /\ answered = NoOp
    /\ left = {} /\ failures = 0

Elements(s) == {s[i] : i \in DOMAIN s}

\* The operations a machine may have in flight, each with its command.
Operations == [tag : {"Load"}, key : Ids]
        \cup [tag : {"FindMissing"}, keys : Seq(Ids)]
        \cup [tag : {"Upload"}, key : Ids, bytes : Ids]
        \cup [tag : {"Publish"}, key : Ids, closure : SUBSET Ids]

\* A graph lists at least its root; some attempt is made; no operation is none.
ASSUME TransferAssumption ==
    /\ \A k \in Ids : Listing[k] \in Seq(Ids) /\ Listing[k] # <<>>
    /\ Closures \subseteq SUBSET Ids /\ Mirrors \subseteq SUBSET Ids
    /\ MaxAttempts \in Nat \ {0} /\ MaxFailures \in Nat
    /\ NoOp \notin Operations

-----------------------------------------------------------------------------
(* Ends of a call, and the next entry of a push.                           *)

Becomes(c, o) == op' = [op EXCEPT ![c] = o]

Fail(c) == Becomes(c, Idle) /\ answered' = NoOp

Succeed(c) ==
    /\ Becomes(c, Idle)
    /\ answered' = <<op[c].verb, op[c].key>>

Go(c, pc) == Becomes(c, [op[c] EXCEPT !.pc = pc, !.reply = NoReply]) /\ answered' = NoOp

\* After an entry: the next of the batch, the next batch, or the root.
Advance(c) ==
    LET rest == Tail(op[c].batch)
    IN  /\ Becomes(c, [op[c] EXCEPT
                !.batch = rest, !.reply = NoReply,
                !.pc = IF rest # <<>> THEN "entry"
                       ELSE IF op[c].plan # <<>> THEN "negotiate" ELSE "publish"])
        /\ answered' = NoOp

\* address.digest may fail (the hash or its width), and so may the mirror it is
\* hashed for; such a failure is never tried again.
Breaks(c) == failures < MaxFailures /\ failures' = failures + 1 /\ Fail(c)

\* The machine is not told that the call failed: its operation stays in flight,
\* under a number that no other operation gets.
Forget(c) ==
    /\ Breaks(c)
    /\ left' = left \cup {machine.inFlight[c]}
    /\ machine' = [machine EXCEPT !.inFlight[c] = NoOp]

Clear(c, tag) == machine' = FromWire(machine, c, [tag |-> tag], FALSE).machine

\* Only a restartable stream tries again, and only after a failure of the
\* protocol or of the connection.
Retryable(tag) == tag \notin {"IntegrityMismatch", "Redirected"}

\* Seeded fault: attempts that are not counted.
RetryUncounted(c, tag) ==
    IF op[c].verb = "stream" /\ ~op[c].once /\ Retryable(tag) /\ op[c].attempt < MaxAttempts
    THEN Go(c, "upload") ELSE Fail(c)

FailOrRetry(c, tag) ==
    IF /\ op[c].verb = "stream" /\ ~op[c].once
       /\ Retryable(tag) /\ op[c].attempt < MaxAttempts
    THEN /\ Becomes(c, [op[c] EXCEPT !.attempt = @ + 1, !.pc = "upload", !.reply = NoReply])
         /\ answered' = NoOp
    ELSE Fail(c)

-----------------------------------------------------------------------------
(* A call begins: what each verb does before it asks for the capabilities. *)

Start(c, verb, key, closure, plan, once) ==
    /\ verb \in Verbs[c] /\ calls < MaxCalls /\ calls' = calls + 1
    /\ mode = "remote-authoritative"
    /\ Becomes(c, [Idle EXCEPT !.verb = verb, !.pc = "probe", !.key = key,
                               !.closure = closure, !.plan = plan, !.once = once])
    /\ UNCHANGED <<mode, bounds, machine, caps, local, peer, faults>>
    /\ answered' = NoOp

BeginPut(c, k) == Start(c, "put", k, {}, <<>>, FALSE)

BeginStream(c, k, once) == Start(c, "stream", k, {}, <<>>, once)

\* A local hit answers at once and changes nothing.
BeginLoad(c, k) == k \notin local /\ Start(c, "load", k, {}, <<>>, FALSE)

BeginMissing(c, k) == Start(c, "missing", k, {}, Listing[k], FALSE)

BeginPublish(c, k, closure) == Start(c, "publish", k, closure, <<>>, FALSE)

\* collectLocalGraphIds and the blob bound: the whole graph is in the mirror
\* and every node is within the budget.  The mirror only grows.
BeginPush(c, k) ==
    /\ Elements(Listing[k]) \subseteq local \ Large
    /\ Start(c, "push", k, Elements(Listing[k]) \ {k}, Listing[k], FALSE)

\* Without a remote authority a put is the mirror's.  Offline every call is refused
\* before it changes anything, so that mode is left out.
PutLocally(c, k) ==
    /\ mode = "local-authoritative" /\ op[c] = Idle
    /\ Refs[k] \subseteq local
    /\ local' = local \cup {k}
    /\ UNCHANGED <<mode, bounds, calls, faults, machine, caps, op, peer>>
    /\ answered' = NoOp

AfterProbe(verb) ==
    CASE verb \in {"put", "stream"} -> "upload"
      [] verb = "load" -> "load"
      [] verb \in {"missing", "push"} -> "negotiate"
      [] verb = "publish" -> "publish"

\* The probe is memoized, a refusal of credentials too; an unavailable peer
\* is asked again by the next call.
Probe(c) ==
    /\ op[c].pc = "probe"
    /\ \/ /\ caps # "refused" /\ caps' = "known" /\ Go(c, AfterProbe(op[c].verb))
       \/ /\ caps # "known" /\ caps' = "refused" /\ Fail(c)
       \/ /\ caps = "unknown" /\ caps' = caps /\ Fail(c)
    /\ UNCHANGED <<mode, bounds, calls, faults, machine, local, peer>>

-----------------------------------------------------------------------------
(* Requests to the machine.  A key list too long to encode is found after  *)
(* the machine has the operation, and taken back.                          *)

Take(c, out, pc) == machine' = out.machine /\ Go(c, pc)

TakeList(c, out, size) ==
    IF out.result # "Commanded" THEN machine' = out.machine /\ Fail(c)
    ELSE IF size > bounds.list
    THEN /\ machine' = FromWire(out.machine, c, [tag |-> "Interrupted"], FALSE).machine
         /\ Fail(c)
    ELSE Take(c, out, "wire")

RequestLoading(c) ==
    /\ op[c].pc = "load"
    /\ Take(c, RequestLoad(machine, c, op[c].key), "wire")
    /\ UNCHANGED <<mode, bounds, calls, faults, caps, local, peer>>

UploadKey(c) == IF op[c].verb = "push" THEN Head(op[c].batch) ELSE op[c].key

\* validateUploadNode, then driveUpload up to its exchange.  A node the cache
\* holds is not sent.
RequestUploading(c) ==
    LET k   == UploadKey(c)
        out == RequestUpload(machine, c, k, k, TRUE)
    IN  /\ op[c].pc = "upload"
        /\ \/ op[c].verb # "push" /\ ~(Refs[k] \subseteq local) /\ Fail(c) /\ UNCHANGED machine
           \/ /\ op[c].verb = "push" \/ Refs[k] \subseteq local
              /\ CASE out.result = "Commanded" -> Take(c, out, "wire")
                   [] out.result = "Uploaded" -> Take(c, out, "admit")
                   [] OTHER -> machine' = out.machine /\ Fail(c)
        /\ UNCHANGED <<mode, bounds, calls, faults, caps, local, peer>>

\* The next batch of a push, or the keys of a query.  A limit of zero sends
\* the whole list to the machine, which refuses it.
Negotiate(c) ==
    LET plan == op[c].plan
        keys == IF op[c].verb = "push" /\ bounds.keys \in 1..Len(plan)
                THEN SubSeq(plan, 1, bounds.keys) ELSE plan
    IN  /\ op[c].pc = "negotiate"
        /\ TakeList(c, RequestMissing(machine, c, keys, bounds.keys), Len(keys))
        /\ UNCHANGED <<mode, bounds, calls, faults, caps, local, peer>>

\* One entry of a push: upload what is missing, attest what is present, pass
\* over what the peer could not tell.
Entry(c) ==
    LET k == Head(op[c].batch)
        attested == RequestAttest(machine, c, k, TRUE)
    IN  /\ op[c].pc = "entry"
        /\ \/ op[c].said[k] = "missing" /\ k \in machine.confirmed /\ Fail(c) /\ UNCHANGED machine
           \/ op[c].said[k] = "missing" /\ k \notin machine.confirmed /\ Go(c, "upload") /\ UNCHANGED machine
           \/ /\ op[c].said[k] = "present"
              /\ machine' = attested.machine
              /\ IF attested.result = "Attested" THEN Advance(c) ELSE Fail(c)
           \/ op[c].said[k] = "failed" /\ Advance(c) /\ UNCHANGED machine
        /\ UNCHANGED <<mode, bounds, calls, faults, caps, local, peer>>

\* materializeLocalBatch, or the hash of what is to be sent or attested, fails
\* before the machine has the operation.
HashOrMirrorFails(c) ==
    /\ \/ op[c].pc = "upload"
       \/ op[c].pc = "entry" /\ op[c].said[Head(op[c].batch)] = "present"
       \/ op[c].pc = "negotiate" /\ op[c].verb = "push"
    /\ Breaks(c)
    /\ UNCHANGED <<mode, bounds, calls, left, machine, caps, local, peer>>

RequestPublishing(c) ==
    /\ op[c].pc = "publish"
    /\ TakeList(c, RequestPublish(machine, c, op[c].key, op[c].closure),
                Cardinality(op[c].closure))
    /\ UNCHANGED <<mode, bounds, calls, faults, caps, local, peer>>

-----------------------------------------------------------------------------
(* The peer and the wire.                                                  *)

\* What the peer may answer, presence truly; bytes may be damaged on the way.
Replies(req) ==
    {[tag |-> t] : t \in {"Capacity", "Redirected"}} \cup
    CASE req.tag = "Load" -> IF req.key \in held
                             THEN {[tag |-> "Ok", bytes |-> b] : b \in Ids}
                             ELSE {[tag |-> "Absent"]}
      [] req.tag = "FindMissing" ->
            {[tag |-> "BatchResult",
              results |-> [i \in DOMAIN req.keys |->
                [key |-> req.keys[i],
                 status |-> IF req.keys[i] \in unread THEN "failed"
                            ELSE IF req.keys[i] \in held THEN "present" ELSE "missing"]]]
             : unread \in SUBSET Elements(req.keys)}
      [] req.tag \in {"Upload", "Publish"} -> {[tag |-> "Ok"], [tag |-> "IntegrityMismatch"]}

\* What processing an accepted request does to the peer.
Apply(req) ==
    /\ held' = IF req.tag = "Upload" THEN held \cup {req.bytes} ELSE held
    /\ roots' = IF req.tag = "Publish" THEN roots \cup {<<req.key, req.closure>>} ELSE roots

Waiting(c) == op[c].pc = "wire"

Serve(c) ==
    /\ Waiting(c) /\ op[c].reply = NoReply
    /\ \E reply \in Replies(machine.inFlight[c]) :
        /\ Becomes(c, [op[c] EXCEPT !.reply = reply])
        /\ IF reply.tag = "Ok" THEN Apply(machine.inFlight[c]) ELSE UNCHANGED <<held, roots>>
    /\ UNCHANGED <<mode, bounds, calls, faults, machine, caps, local, stray>>
    /\ answered' = NoOp

ServeStray(req) ==
    /\ req \in stray
    /\ Apply(req)
    /\ stray' = stray \ {req}
    /\ UNCHANGED <<mode, bounds, calls, faults, machine, caps, local, op>>
    /\ answered' = NoOp

\* A caller leaves an exchange; its request stays on the wire if the peer has
\* not processed it and it would still change something there.
Abandon(c) ==
    LET req == machine.inFlight[c]
        effective == \/ req.tag = "Upload" /\ req.bytes \notin held
                     \/ req.tag = "Publish" /\ <<req.key, req.closure>> \notin roots
    IN  stray' = IF Waiting(c) /\ op[c].reply = NoReply /\ effective
                 THEN stray \cup {req} ELSE stray

\* Seeded fault: the deadline fires and the machine is not told.
LoseUntold(c) ==
    /\ Waiting(c)
    /\ Abandon(c)
    /\ FailOrRetry(c, "Silence")
    /\ UNCHANGED <<mode, bounds, calls, faults, machine, caps, local, held, roots>>

\* The connection fails, the body is cut or breaks a bound, or the deadline
\* passes, before or after the peer processed the request.
Lose(c) ==
    /\ Waiting(c)
    /\ Clear(c, "Silence")
    /\ Abandon(c)
    /\ FailOrRetry(c, "Silence")
    /\ UNCHANGED <<mode, bounds, calls, faults, caps, local, held, roots>>

\* The caller is interrupted, wherever it is.
Interrupt(c) ==
    /\ op[c] # Idle
    /\ Clear(c, "Interrupted")
    /\ Abandon(c)
    /\ Fail(c)
    /\ UNCHANGED <<mode, bounds, calls, faults, caps, local, held, roots>>

-----------------------------------------------------------------------------
(* Answers.  Loaded bytes go to the mirror before the machine learns of    *)
(* them; an acknowledged upload goes there after.                          *)

Answered(c, tag) == Waiting(c) /\ op[c].reply # NoReply /\ machine.inFlight[c].tag = tag

Hears(c, verified) == FromWire(machine, c, op[c].reply, verified)

AnswerLoad(c) ==
    LET reply == op[c].reply
    IN  /\ Answered(c, "Load")
        /\ IF reply.tag = "Ok" /\ reply.bytes = op[c].key /\ reply.bytes \notin Large
           THEN /\ Becomes(c, [op[c] EXCEPT !.pc = "admit"])
                /\ UNCHANGED machine /\ answered' = NoOp
           ELSE machine' = Hears(c, FALSE).machine /\ Fail(c)
        /\ UNCHANGED <<mode, bounds, calls, faults, caps, local, peer>>

\* The bytes that came cannot be hashed.
LoadUnhashed(c) ==
    /\ Answered(c, "Load") /\ op[c].reply.tag = "Ok" /\ op[c].reply.bytes \notin Large
    /\ Forget(c)
    /\ UNCHANGED <<mode, bounds, calls, caps, local, peer>>

AnswerUpload(c) ==
    /\ Answered(c, "Upload")
    /\ machine' = Hears(c, TRUE).machine
    /\ IF Hears(c, TRUE).result = "Uploaded"
       THEN Go(c, "admit") ELSE FailOrRetry(c, op[c].reply.tag)
    /\ UNCHANGED <<mode, bounds, calls, faults, caps, local, peer>>

\* The bytes sent are hashed again before the machine hears of the answer.
UploadUnhashed(c) ==
    /\ Answered(c, "Upload")
    /\ Forget(c)
    /\ UNCHANGED <<mode, bounds, calls, caps, local, peer>>

AnswerMissing(c) ==
    LET keys == machine.inFlight[c].keys
        results == op[c].reply.results
    IN  /\ Answered(c, "FindMissing")
        /\ machine' = Hears(c, FALSE).machine
        /\ IF Hears(c, FALSE).result # "BatchAnswered" THEN Fail(c)
           ELSE IF op[c].verb = "missing" THEN Succeed(c)
           ELSE /\ Becomes(c, [op[c] EXCEPT
                      !.pc = "entry", !.reply = NoReply, !.batch = keys,
                      !.plan = SubSeq(@, Len(keys) + 1, Len(@)),
                      !.said = [k \in Elements(keys) |->
                        results[CHOOSE i \in DOMAIN keys : keys[i] = k].status]])
                /\ answered' = NoOp
        /\ UNCHANGED <<mode, bounds, calls, faults, caps, local, peer>>

AnswerPublish(c) ==
    /\ Answered(c, "Publish")
    /\ machine' = Hears(c, FALSE).machine
    /\ IF Hears(c, FALSE).result = "Published" THEN Succeed(c) ELSE Fail(c)
    /\ UNCHANGED <<mode, bounds, calls, faults, caps, local, peer>>

\* The mirror takes the node, or fails.
AdmitLoaded(c) ==
    /\ op[c].pc = "admit" /\ op[c].verb = "load"
    /\ \/ /\ Refs[op[c].key] \subseteq local
          /\ local' = local \cup {op[c].key}
          /\ machine' = Hears(c, TRUE).machine
          /\ Succeed(c)
       \/ /\ machine' = Hears(c, FALSE).machine
          /\ Fail(c) /\ UNCHANGED local
    /\ UNCHANGED <<mode, bounds, calls, faults, caps, peer>>

\* The mirror puts the node at another address (AddressMismatch).
AdmitMismatched(c) ==
    /\ op[c].pc = "admit" /\ op[c].verb = "load"
    /\ Forget(c)
    /\ UNCHANGED <<mode, bounds, calls, caps, local, peer>>

AdmitUploaded(c) ==
    /\ op[c].pc = "admit" /\ op[c].verb # "load"
    /\ \/ /\ Refs[UploadKey(c)] \subseteq local
          /\ local' = local \cup {UploadKey(c)}
          /\ IF op[c].verb = "push" THEN Advance(c) ELSE Succeed(c)
       \/ Fail(c) /\ UNCHANGED local
    /\ UNCHANGED <<mode, bounds, calls, faults, machine, caps, peer>>

-----------------------------------------------------------------------------
Begin(c) ==
    /\ op[c] = Idle
    /\ \E k \in Ids :
        \/ BeginPut(c, k) \/ BeginLoad(c, k) \/ BeginMissing(c, k) \/ BeginPush(c, k)
        \/ \E once \in BOOLEAN : BeginStream(c, k, once)
        \/ \E closure \in Closures : BeginPublish(c, k, closure)

\* The adapter's own steps: everything but a new call and an interrupt.
Adapter(c) ==
    \/ Probe(c) \/ RequestLoading(c) \/ RequestUploading(c) \/ Negotiate(c) \/ Entry(c)
    \/ RequestPublishing(c) \/ HashOrMirrorFails(c) \/ Lose(c)
    \/ AnswerLoad(c) \/ LoadUnhashed(c) \/ AnswerUpload(c) \/ UploadUnhashed(c)
    \/ AnswerMissing(c) \/ AnswerPublish(c)
    \/ AdmitLoaded(c) \/ AdmitMismatched(c) \/ AdmitUploaded(c)

\* No call is left to make and none is running.
Quiet == calls = MaxCalls /\ (\A c \in Ops : op[c] = Idle) /\ UNCHANGED vars

Next ==
    \/ \E c \in Ops : \/ Begin(c) \/ Adapter(c) \/ Serve(c) \/ Interrupt(c)
                      \/ \E k \in Ids : PutLocally(c, k)
    \/ \E req \in stray : ServeStray(req)
    \/ Quiet

Spec == Init /\ [][Next]_vars

\* Fibers run, and the deadline bounds every exchange; the peer owes nothing.
FairSpec == Spec /\ \A c \in Ops : WF_vars(Adapter(c))

-----------------------------------------------------------------------------
(* Properties.                                                             *)

\* Types: operations carry what their command needs.
InFlight == {NoOp} \cup Operations

TypeOK ==
    /\ \A c \in Ops : machine.inFlight[c] \in InFlight
    /\ machine.cache \cup machine.confirmed \cup machine.published \subseteq Ids
    /\ machine.rejected \subseteq Ids \X Ids
    /\ local \subseteq Ids /\ held \subseteq Ids
    /\ \A c \in Ops : op[c].attempt \in 1..MaxAttempts

\* Of the operations callers still use, one is in the machine exactly while its
\* caller waits for the wire or admits what it loaded: no loss, deadline, refused
\* key list or interrupt leaves one behind. What stays in the machine for ever
\* are loads and uploads, one at most for each failure of a hash.
NothingLeaks ==
    /\ TypeOK
    /\ \A c \in Ops :
        machine.inFlight[c] # NoOp <=> Waiting(c) \/ (op[c].pc = "admit" /\ op[c].verb = "load")
    /\ \A q \in left : q.tag \in {"Load", "Upload"}
    /\ Cardinality(left) <= failures

\* What the machine counts as confirmed, cached or published the peer holds,
\* whatever was lost, delayed or abandoned on the way.
ConfirmedHeld ==
    /\ machine.cache \cup machine.confirmed \cup machine.published \subseteq held
    /\ \A k \in machine.published : \E root \in roots : root[1] = k

\* A publication is made only over content the peer holds, though the peer
\* does not check, and though a publication may be processed long after.
PublishedHeld ==
    \A root \in roots : {root[1]} \cup root[2] \subseteq held

\* A call that succeeded did what it says: a put is held on both sides, a load
\* is in the mirror, a push published the whole graph.
AnswersTrue ==
    answered # NoOp =>
        LET k == answered[2]
        IN  CASE answered[1] \in {"put", "stream"} -> k \in held \cap local
              [] answered[1] = "load" -> k \in local
              [] answered[1] = "push" -> <<k, Elements(Listing[k]) \ {k}>> \in roots
              [] answered[1] = "publish" -> \E root \in roots : root[1] = k
              [] answered[1] = "missing" -> TRUE

\* What a caller, or the machine on its behalf, believes of the peer is so:
\* confirmations, publications and answers, over every loss and delay.
BeliefsHold == ConfirmedHeld /\ PublishedHeld /\ AnswersTrue

\* Every call ends, though the peer may never answer, may declare a batch of
\* zero keys, and may fail every attempt.
CallsEnd == \A c \in Ops : op[c] # Idle ~> op[c] = Idle

=============================================================================
