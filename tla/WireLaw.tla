------------------------------ MODULE WireLaw ------------------------------
(***************************************************************************)
(* What the daemon makes of one HTTP exchange before any store call: the   *)
(* front door and the routes of bin/mcp/http.ts, the caps and refusals of  *)
(* bin/mcp/server.ts, and the wire law and status table of cas-http/0 in   *)
(* src/server/Protocol.ts and the closed operations of src/server/Core.ts. *)
(* Everything here is a function of the exchange and of the limits.        *)
(*                                                                         *)
(* An exchange is a record of the facts those functions read:              *)
(*   host, origin   what those headers name, seen from this daemon         *)
(*   method, asks   the verb, and whether it asks a preflight question     *)
(*   path           the resource the path names                            *)
(*   profile, auth, octet    the three headers the profile governs         *)
(*   body           "keys", "node", or "none" when it did not arrive       *)
(*   id, keys, bytes         the node in the path, the keys or the node in *)
(*                  the body (a node stands for its canonical bytes)       *)
(*   tool, lines    the tool a POST to /mcp calls, and what it is to put   *)
(*                  and to load, each a node (Junk where an operand names  *)
(*                  no answer before it)                                   *)
(*   query          the parameters of /history: a canonical numeral, or    *)
(*                  another spelling of a number (a sign, a leading zero)  *)
(***************************************************************************)
EXTENDS Integers, FiniteSets, SequencesExt

CONSTANTS
    Nodes,          \* every node, and bytes that decode to none
    Junk,           \* the bytes that decode to no node
    Size,           \* Nodes -> Nat
    Refs,           \* the nodes a node refers to
    FrameBytes,     \* the largest request body the transport passes on
    FrameSlack,     \* what the host sets aside for the call around a payload
    Envelope,       \* what a call costs that names no node
    AddressBytes    \* what each node costs that a call names

ASSUME WireAssumption ==
    /\ Junk \in Nodes
    /\ Size \in [Nodes -> Nat]
    /\ Refs \in [Nodes -> SUBSET Nodes] /\ \A n \in Nodes : IsFiniteSet(Refs[n])
    /\ FrameBytes \in Nat /\ FrameSlack \in 0..FrameBytes
    /\ Envelope \in Nat /\ AddressBytes \in Nat

StaticPaths == {"projections", "metrics"}
Resources   == {"capabilities", "missing", "root", "node"}
Tools       == {"cas_put", "cas_load", "cas_run", "cas_run_ref", "cas_publish_root",
                "cas_list_roots", "tools/list"}
Lines       == [do : {"put", "load"}, node : Nodes]

Exchange == [host : {"absent", "own", "extra", "foreign"},
             origin : {"absent", "self", "listed", "other"},
             method : {"GET", "PUT", "POST", "OPTIONS"}, asks : BOOLEAN,
             path : Resources \cup StaticPaths \cup {"unknown", "mcp", "history"},
             profile : BOOLEAN, auth : {"absent", "scheme", "right", "wrong"},
             octet : BOOLEAN, body : {"keys", "node", "none"},
             id : Nodes, keys : SUBSET Nodes, bytes : Nodes,
             tool : Tools, lines : Seq(Lines),
             query : Seq([key : {"since", "limit", "other"}, raw : {"numeral", "alias"}])]

-----------------------------------------------------------------------------
(* The front door.                                                         *)

\* Seeded fault: a page of any host the daemon answers as is its own page.
SameOriginOfExtra(f) == f.origin = "self" /\ f.host \in {"own", "extra"}

\* A page this daemon served talks back to it.  Only the names the daemon is
\* count, never those --allow-host adds.
SameOrigin(f) == f.origin = "self" /\ f.host = "own"

\* A missing Host is tolerated.
Door(f) ==
    IF f.host = "foreign" THEN "RefusedHost"
    ELSE IF f.origin # "absent" /\ ~SameOrigin(f) /\ f.origin # "listed" THEN "RefusedOrigin"
    ELSE IF f.origin # "absent" /\ f.method = "OPTIONS" /\ f.asks THEN "Preflight"
    ELSE "Pass"

\* Static routes win over the wildcard for the methods they are added for.
Route(f) ==
    IF f.path \in {"mcp", "history"} THEN f.path
    ELSE IF f.path \in StaticPaths /\ f.method = "GET" THEN "static"
    ELSE "cas"

\* The history is read by GET alone, with each parameter known, canonical and
\* given once.
HistoryQuery(query) ==
    IF \E k \in DOMAIN query : \/ query[k].key = "other"
                               \/ \E j \in 1..(k - 1) : query[j].key = query[k].key
                               \/ query[k].raw # "numeral"
    THEN "QueryRefused" ELSE "none"

HistoryAnswers(f) == IF f.method # "GET" THEN "MethodNotAllowed" ELSE HistoryQuery(f.query)

-----------------------------------------------------------------------------
(* The caps.                                                               *)

MaxServable == (FrameBytes - FrameSlack) \div 2

Smaller(a, b) == IF a <= b THEN a ELSE b

NodeCap(policy) == Smaller(policy.maxNodeBytes, MaxServable)

\* The bytes of the payloads a call puts, each by its line and its place in it.
PutLines(lines) == {k \in DOMAIN lines : lines[k].do = "put"}
Bytes(lines)    == UNION {{k} \X (1..Size[lines[k].node]) : k \in PutLines(lines)}

\* The nodes a call names beside them: the references of every node it puts,
\* which nothing bounds, and what it loads.
NamedBy(line) == IF line.do = "put" THEN Refs[line.node] ELSE {line.node}
Named(lines)  == UNION {{k} \X NamedBy(lines[k]) : k \in DOMAIN lines}

\* What crosses around the payloads of a call.
Around(f) == Envelope + AddressBytes * Cardinality(Named(f.lines))

\* A payload crosses to a tool as hex, two characters for each byte.
Frame(f) ==
    IF f.path = "mcp" THEN Around(f) + 2 * Cardinality(Bytes(f.lines))
    ELSE IF f.body = "node" THEN Size[f.bytes] ELSE 0

-----------------------------------------------------------------------------
(* The wire law.                                                           *)

\* Equal to the credential, or no authorization at all; a scheme that is not
\* Bearer, and any credential where none is configured, are no principal.
Principal(limits, f) ==
    IF f.auth = "absent" THEN "Anonymous"
    ELSE IF f.auth = "right" /\ limits.credential THEN "Bearer"
    ELSE "None"

Methods(f) ==
    CASE f.path = "capabilities" -> {"GET"}
      [] f.path = "missing"      -> {"POST"}
      [] f.path \in {"root", "node"} -> {"GET", "PUT"}
      [] OTHER -> {}

Operation(f) ==
    CASE f.path = "capabilities" -> "ReadCapabilities"
      [] f.path = "missing" -> "QueryPresence"
      [] f.path = "root" /\ f.method = "GET" -> "ReadRoot"
      [] f.path = "root" /\ f.method # "GET" -> "PublishRoot"
      [] f.path = "node" /\ f.method = "GET" -> "LoadNode"
      [] OTHER -> "UploadNode"

Reads == {"ReadCapabilities", "QueryPresence", "ReadRoot", "LoadNode"}

Authorized(limits, f) ==
    \/ ~limits.credential
    \/ Principal(limits, f) = "Bearer"
    \/ Operation(f) \in Reads /\ limits.anonymousReads

\* The clauses in the order the profile gives them; the first that applies
\* is the refusal.
Clauses(limits, f) == <<
    <<~f.profile, "MissingProfile">>,
    <<Principal(limits, f) = "None", "Unauthenticated">>,
    <<f.path \notin Resources, "UnknownResource">>,
    <<f.method \notin Methods(f), "MethodNotAllowed">>,
    <<f.method # "GET" /\ ~f.octet, "WrongMediaType">>,
    <<Operation(f) \in {"QueryPresence", "PublishRoot"} /\ f.body # "keys", "MalformedBody">>,
    <<~Authorized(limits, f),
      IF Principal(limits, f) = "Anonymous" THEN "Unauthenticated" ELSE "NotPermitted">> >>

Applying(limits, f) == {k \in DOMAIN Clauses(limits, f) : Clauses(limits, f)[k][1]}

Decide(limits, f) ==
    IF Applying(limits, f) = {} THEN "Accepted"
    ELSE LET first == CHOOSE k \in Applying(limits, f) :
                          \A other \in Applying(limits, f) : k <= other
         IN  Clauses(limits, f)[first][2]

Status(answer) ==
    CASE answer \in {"Capabilities", "NodeBytes", "Presence", "AlreadyAdmitted"} -> 200
      [] answer = "Admitted" -> 201
      [] answer \in {"Published", "RootPublished"} -> 204
      [] answer \in {"MissingProfile", "UnknownResource", "WrongMediaType",
                     "MalformedBody", "QueryRefused", "LogRefused"} -> 400
      [] answer = "Unauthenticated" -> 401
      [] answer = "NotPermitted" -> 403
      [] answer \in {"NodeAbsent", "RootAbsent"} -> 404
      [] answer = "MethodNotAllowed" -> 405
      [] answer \in {"AdmissionRefused", "DigestMismatch", "ClosureUnverified"} -> 409
      [] answer \in {"NodeBudgetExceeded", "BatchBudgetExceeded"} -> 413
      [] answer = "BackendUnavailable" -> 503
      [] OTHER -> 0

-----------------------------------------------------------------------------
(* What an operation answers without a store call, and the store calls it  *)
(* makes otherwise, in their order.                                        *)

Call(name, on) == [do |-> name, on |-> on]
PutCalls(n) == <<Call("judge", {n}), Call("write", {n})>>

\* A load of a run names what it loads by its address or by an earlier answer.
LoadCalls(n) == <<Call("resolve", {n}), Call("load", {n})>>

LineCalls(line) == IF line.do = "put" THEN PutCalls(line.node) ELSE LoadCalls(line.node)

\* The lines of a run, one after the other, under the one permit it holds.
RunAll(lines) ==
    [k \in 1..(2 * Len(lines)) |->
        LineCalls(lines[(k + 1) \div 2])[IF k % 2 = 1 THEN 1 ELSE 2]]

\* An upload that is over the cap, that does not hash to its path, or that
\* decodes to no node; a batch that is over its bound; and the capabilities.
CoreAnswers(limits, f) ==
    LET uploads == Operation(f) = "UploadNode"
        tooBig  == f.body = "node" /\ Size[f.bytes] > limits.maxNodeBytes
        named   == f.body = "node" /\ f.bytes = f.id
    IN  CASE Operation(f) = "ReadCapabilities" -> "Capabilities"
          [] Operation(f) = "QueryPresence" /\ Cardinality(f.keys) > limits.maxBatchKeys
                -> "BatchBudgetExceeded"
          [] uploads /\ tooBig -> "NodeBudgetExceeded"
          [] uploads /\ ~tooBig /\ ~named -> "DigestMismatch"
          [] uploads /\ ~tooBig /\ named /\ f.bytes = Junk -> "AdmissionRefused"
          [] OTHER -> "none"

CoreCalls(f) ==
    CASE Operation(f) = "QueryPresence" -> <<Call("presence", f.keys)>>
      [] Operation(f) = "ReadRoot"    -> <<Call("list", {})>>
      [] Operation(f) = "PublishRoot" -> <<Call("closure", {f.id} \cup f.keys),
                                           Call("publish", {f.id})>>
      [] Operation(f) = "LoadNode"    -> <<Call("load", {f.id})>>
      [] OTHER                        -> PutCalls(f.id)

\* A tool refuses every payload over the cap before it puts the first.
ToolAnswers(limits, f) ==
    IF \E k \in PutLines(f.lines) : Size[f.lines[k].node] > limits.maxNodeBytes
    THEN "refused" ELSE "none"

ToolCalls(f) ==
    CASE f.tool \in {"cas_put", "cas_run"} -> RunAll(f.lines)
      [] f.tool = "cas_load" -> <<Call("load", {f.id})>>
      [] f.tool = "cas_run_ref" -> <<Call("table", {f.id})>>
      [] f.tool = "cas_publish_root" -> <<Call("load", {f.id}), Call("publish", {f.id})>>
      [] OTHER -> <<Call("list", {})>>
=============================================================================
