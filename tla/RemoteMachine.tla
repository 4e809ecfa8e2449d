--------------------------- MODULE RemoteMachine ---------------------------
(***************************************************************************)
(* The transfer machine of the remote plane: the total function `step` of  *)
(* remoteMachine.ts from a machine state and an input to a machine state,  *)
(* a result and at most one command.  There is no input and no output      *)
(* here; RemoteTransfer supplies the callers and the wire.                 *)
(*                                                                         *)
(* Bytes are named by their address, so bytes are those of key k exactly   *)
(* when they are k.  An operation identifier is its caller: the code hands *)
(* out a fresh number to every operation and a caller runs one at a time.  *)
(***************************************************************************)
EXTENDS Naturals, Sequences

CONSTANTS
    Ids,      \* content addresses, each standing for its bytes too
    Ops,      \* operation identifiers
    Large,    \* addresses of bytes over the byte budget
    NoOp      \* the absence of an operation in flight

ASSUME MachineAssumption == Large \subseteq Ids /\ NoOp \notin Ids

\* A batch answer is a sequence of keys with a status each: "present", "missing",
\* "failed".  Other events carry nothing but their tag, save "Ok" of a load.
Auth == {"Unauthenticated", "Denied"}

InitialMachine ==
    [inFlight |-> [id \in Ops |-> NoOp], cache |-> {}, rejected |-> {},
     present |-> {}, confirmed |-> {}, published |-> {}]

-----------------------------------------------------------------------------
(* Outputs.                                                                *)

Stay(m, result) == [machine |-> m, result |-> result]

\* The operation leaves the machine.
Settle(m, id, result) == Stay([m EXCEPT !.inFlight[id] = NoOp], result)

\* The operation enters it, and its command is issued.
Issue(m, id, op) == Stay([m EXCEPT !.inFlight[id] = op], "Commanded")

\* A verified answer for key: it is cached and may be published over.
Settled(m, id, key, result) ==
    LET out == Settle(m, id, result)
    IN  [out EXCEPT !.machine.cache = @ \cup {key}, !.machine.confirmed = @ \cup {key}]

AuthOr(event, result) == IF event.tag \in Auth THEN "AuthFailed" ELSE result

-----------------------------------------------------------------------------
(* Events of the wire, by the operation in flight.                         *)

LoadEvent(m, id, key, event, verified) ==
    IF event.tag = "Ok"
    THEN IF event.bytes \in Large THEN Settle(m, id, "BudgetRejected")
         ELSE IF verified THEN Settled(m, id, key, "Delivered")
         ELSE Settle(m, id, "IntegrityRejected")
    ELSE Settle(m, id, IF event.tag = "Absent"
                       THEN "NotFound" ELSE AuthOr(event, "TransportFailed"))

UploadEvent(m, id, key, bytes, event, verified) ==
    IF event.tag = "Ok" /\ verified
    THEN Settled(m, id, key, "Uploaded")
    ELSE IF event.tag \in {"Ok", "IntegrityMismatch"}
    THEN Settle([m EXCEPT !.rejected = @ \cup {<<key, bytes>>}], id, "IntegrityRejected")
    ELSE Settle(m, id, AuthOr(event, "TransportFailed"))

\* One status for every key asked for, in the order asked.
AccountsFor(keys, results) ==
    /\ Len(results) = Len(keys)
    /\ \A i \in DOMAIN keys : results[i].key = keys[i]

\* Keys reported missing are recorded as well; nothing ever reads them.
NotePresence(m, results) ==
    [m EXCEPT !.present = @ \cup
        {results[i].key : i \in {j \in DOMAIN results : results[j].status = "present"}}]

BatchEvent(m, id, keys, event) ==
    IF event.tag # "BatchResult" THEN Settle(m, id, "BatchFailed")
    ELSE IF AccountsFor(keys, event.results)
    THEN Settle(NotePresence(m, event.results), id, "BatchAnswered")
    ELSE Settle(m, id, "BatchRejected")

PublishEvent(m, id, key, event) ==
    IF event.tag = "Ok"
    THEN Settle([m EXCEPT !.published = @ \cup {key}], id, "Published")
    ELSE Settle(m, id, "PublishFailed")

\* An event for an operation that is not in flight changes nothing.
FromWire(m, id, event, verified) ==
    LET op == m.inFlight[id]
    IN  IF op = NoOp THEN Stay(m, "Absorbed")
        ELSE CASE op.tag = "Load" -> LoadEvent(m, id, op.key, event, verified)
               [] op.tag = "FindMissing" -> BatchEvent(m, id, op.keys, event)
               [] op.tag = "Upload" -> UploadEvent(m, id, op.key, op.bytes, event, verified)
               [] op.tag = "Publish" -> PublishEvent(m, id, op.key, event)

-----------------------------------------------------------------------------
(* Requests of the caller, none of which an operation in flight may repeat.*)

Unless(m, id, out) == IF m.inFlight[id] = NoOp THEN out ELSE Stay(m, "DuplicateId")

\* Seeded fault: only the root need be confirmed.
RootEntitled(m, key, closure) == key \in m.confirmed

PublishEntitled(m, key, closure) == {key} \cup closure \subseteq m.confirmed

RequestLoad(m, id, key) == Unless(m, id, Issue(m, id, [tag |-> "Load", key |-> key]))

RequestMissing(m, id, keys, maxKeys) ==
    Unless(m, id, IF Len(keys) > maxKeys
                  THEN Stay(m, "KeyBudgetRejected")
                  ELSE Issue(m, id, [tag |-> "FindMissing", keys |-> keys]))

\* Budget, then the memory of refusals, then the address, then the cache.
RequestUpload(m, id, key, bytes, verified) ==
    Unless(m, id,
        IF bytes \in Large THEN Stay(m, "BudgetRejected")
        ELSE IF <<key, bytes>> \in m.rejected THEN Stay(m, "RepeatRefused")
        ELSE IF ~verified
        THEN Stay([m EXCEPT !.rejected = @ \cup {<<key, bytes>>}], "IntegrityRejected")
        ELSE IF key \in m.cache THEN Stay(m, "Uploaded")
        ELSE Issue(m, id, [tag |-> "Upload", key |-> key, bytes |-> bytes]))

RequestAttest(m, id, key, verified) ==
    Unless(m, id, IF verified /\ key \in m.present
                  THEN Stay([m EXCEPT !.confirmed = @ \cup {key}], "Attested")
                  ELSE Stay(m, "AttestRefused"))

RequestPublish(m, id, key, closure) ==
    Unless(m, id, IF PublishEntitled(m, key, closure)
                  THEN Issue(m, id, [tag |-> "Publish", key |-> key, closure |-> closure])
                  ELSE Stay(m, "OrderingRefused"))

=============================================================================
