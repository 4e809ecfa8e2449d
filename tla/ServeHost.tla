----------------------------- MODULE ServeHost -----------------------------
(***************************************************************************)
(* One store under its hosts: the daemon that boots over the directory     *)
(* `init` made (bin/cli/daemon.ts, bin/mcp/http.ts), an application that   *)
(* mounts the wire plane under a policy of its own (src/server), and the   *)
(* shell's verbs beside them (bin/cli/commands.ts).                        *)
(*                                                                         *)
(* Each exchange is one fiber.  The ones that touch the store through the  *)
(* wire plane or a tool wait for a permit of that plane's gate, keep it    *)
(* over every store call they make, and give it back however they end.     *)
(* The store's own law is that of CasStore; a call here reads or changes   *)
(* the store in one step, may fail, and may never return.                  *)
(***************************************************************************)
EXTENDS StoreLayout, WireLaw

CONSTANTS
    Exchanges,      \* fibers, each of which serves one request
    Requests,       \* per fiber: the exchanges it may serve
    WirePolicies,   \* policies an application mounts the wire plane under
    Nameable,       \* nodes of a kind that may be named
    Tables,         \* stored programs, and the lines a run of each takes
    Seeds,          \* what the store may hold when the daemon boots
    MaxHung,        \* bound: store calls that never return
    NoRequest

VARIABLES
    host,           \* the host: where it is, the config it read, its limits
    x,              \* per fiber: the exchange it serves
    permits, live,  \* per gate: free permits, and the gauge
    counted,        \* outcomes counted for tool calls
    held, roots     \* the store

hostVars == <<host, x, permits, live, counted, held, roots>>
vars     == <<layoutVars, hostVars>>

Gates    == {"wire", "tool"}
Counts   == {"ok", "refused", "failed"}
Idle     == [at |-> "idle", ask |-> NoRequest, todo |-> <<>>, answer |-> "none",
             hung |-> FALSE, entered |-> FALSE, did |-> {}, saw |-> {}, found |-> {}]
Verbs    == {"put", "run", "publish", "name", "show", "ls"}

ASSUME HostAssumption ==
    /\ IsFiniteSet(Exchanges)
    /\ Requests \in [Exchanges -> SUBSET (Exchange \cup [verb : Verbs, id : Nodes, note : Nodes])]
    /\ NoRequest \notin UNION {Requests[e] : e \in Exchanges}
    /\ Policies \subseteq [anonymousReads : BOOLEAN, maxNodeBytes : Nat, maxInFlight : Nat,
                           maxBatchKeys : Nat]
    /\ WirePolicies \subseteq [anonymousReads : BOOLEAN, maxNodeBytes : Nat, maxInFlight : Nat,
                               maxBatchKeys : Nat, credential : BOOLEAN]
    /\ \A store \in Seeds : store \subseteq Nodes /\ \A n \in store : Refs[n] \subseteq store
    /\ \A n \in DOMAIN Tables : n \in Nodes /\ Tables[n] \in Seq(Lines)
    /\ MaxHung \in Nat

-----------------------------------------------------------------------------
(* Gates.                                                                  *)

IsVerb(f) == "verb" \in DOMAIN f

\* The capabilities are read outside the wire plane's gate, the list of tools
\* outside the tools' gate, and the history outside any.
Gate(kind, f) ==
    IF kind = "embedded" \/ IsVerb(f) THEN "none"
    ELSE IF Route(f) = "cas" /\ f.path # "capabilities" THEN "wire"
    ELSE IF Route(f) = "mcp" /\ f.tool # "tools/list" THEN "tool"
    ELSE "none"

GateOf(e) == Gate(host.kind, x[e].ask)
Inside(gate) == {e \in Exchanges : x[e].at \in {"body", "work"} /\ GateOf(e) = gate}

\* A permit is taken and the gauge raised in one step, and both are given
\* back in one step by whatever ends the exchange.
Take(gate) ==
    /\ permits' = [permits EXCEPT ![gate] = @ - 1]
    /\ live' = [live EXCEPT ![gate] = @ + 1]
GiveBack(gate) ==
    IF gate = "none" THEN UNCHANGED <<permits, live>>
    ELSE /\ permits' = [permits EXCEPT ![gate] = @ + 1]
         /\ live' = [live EXCEPT ![gate] = @ - 1]

\* A tool call is counted once, as it leaves the gate it entered.
Outcome(answer) == IF answer \in Counts THEN answer ELSE "failed"
Count(gate, answer) ==
    counted' = IF gate = "tool"
               THEN [counted EXCEPT ![Outcome(answer)] = @ + 1] ELSE counted

\* Seeded fault: the release belongs to the answer, so an exchange that is left or
\* fails keeps its permit.
EndKeeping(e, answer) ==
    /\ x' = [x EXCEPT ![e].at = "over", ![e].answer = answer, ![e].todo = <<>>]
    /\ IF e \in Inside("wire") \cup Inside("tool") /\ answer \notin {"gone", "BackendUnavailable"}
       THEN GiveBack(GateOf(e)) /\ Count(GateOf(e), answer)
       ELSE UNCHANGED <<permits, live, counted>>

End(e, answer) ==
    /\ x' = [x EXCEPT ![e].at = "over", ![e].answer = answer, ![e].todo = <<>>]
    /\ IF e \in Inside("wire") \cup Inside("tool")
       THEN GiveBack(GateOf(e)) /\ Count(GateOf(e), answer)
       ELSE UNCHANGED <<permits, live, counted>>

-----------------------------------------------------------------------------
(* The host.                                                               *)

Limits(policy) == [maxNodeBytes |-> NodeCap(policy), maxInFlight |-> policy.maxInFlight,
                   maxBatchKeys |-> policy.maxBatchKeys, credential |-> FALSE,
                   anonymousReads |-> TRUE]

Locate ==
    /\ host.at = "down"
    /\ host' = [host EXCEPT !.at = IF IsStoreRoot THEN "located" ELSE "refused"]
    /\ UNCHANGED <<layoutVars, x, permits, live, counted, held, roots>>

\* What the file on disk asks of a reader, whatever the reader makes of it:
\* a policy that gates reads, or text whose policy nobody knows.
Gated(file) ==
    /\ file # NoFile
    /\ \/ ~file.readable
       \/ file.says = Garbled
       \/ file.says # Garbled /\ file.says.serve # NoPolicy /\ ~file.says.serve.anonymousReads

ReadPolicy ==
    /\ host.at = "located"
    /\ host' = [host EXCEPT !.gated = Gated(dir.config),
                            !.at = IF ReadConfig = Unreadable THEN "refused" ELSE "read",
                            !.policy = IF ReadConfig = Unreadable THEN NoPolicy
                                       ELSE PolicyOf(ReadConfig)]
    /\ UNCHANGED <<layoutVars, x, permits, live, counted, held, roots>>

\* The manifest must agree, the policy must be one this host can serve, and
\* the port must be free.
Boot ==
    /\ host.at = "read"
    /\ \E agrees, binds \in BOOLEAN :
         IF agrees /\ host.policy.anonymousReads /\ binds
         THEN /\ host' = [host EXCEPT !.at = "up", !.limits = Limits(host.policy)]
              /\ permits' = [gate \in Gates |-> host.policy.maxInFlight]
         ELSE /\ host' = [host EXCEPT !.at = "refused"]
              /\ UNCHANGED permits
    /\ UNCHANGED <<layoutVars, x, live, counted, held, roots>>

\* Another application mounts the wire plane, with no door and no gates.
Embed(policy) ==
    /\ host.at = "down"
    /\ host' = [host EXCEPT !.at = "up", !.kind = "embedded", !.limits = policy]
    /\ UNCHANGED <<layoutVars, x, permits, live, counted, held, roots>>

\* The daemon stops accepting; what has not ended at the deadline is closed.
Shutdown ==
    /\ host.at = "up"
    /\ host.kind = "daemon"
    /\ host' = [host EXCEPT !.at = "draining"]
    /\ UNCHANGED <<layoutVars, x, permits, live, counted, held, roots>>

Underway == {e \in Exchanges : x[e].at \notin {"idle", "over"} /\ ~IsVerb(x[e].ask)}

Deadline ==
    /\ host.at = "draining"
    /\ host' = [host EXCEPT !.at = "off"]
    /\ x' = [e \in Exchanges |->
                IF e \in Underway THEN [x[e] EXCEPT !.at = "over", !.answer = "gone",
                                                    !.todo = <<>>]
                ELSE x[e]]
    /\ permits' = [gate \in Gates |-> permits[gate] + Cardinality(Inside(gate))]
    /\ live' = [gate \in Gates |-> live[gate] - Cardinality(Inside(gate))]
    /\ counted' = [counted EXCEPT !.failed = @ + Cardinality(Inside("tool"))]
    /\ UNCHANGED <<layoutVars, held, roots>>

-----------------------------------------------------------------------------
(* An exchange, up to its store calls.                                     *)

\* What the transport and the front door answer, or "none".
AtDoor(f) ==
    IF host.kind = "embedded" THEN "none"
    ELSE IF Frame(f) > FrameBytes THEN "TooLargeForTransport"
    ELSE IF Door(f) = "Pass" THEN "none" ELSE Door(f)

Began(e, f, at) == [Idle EXCEPT !.at = at, !.ask = f, !.saw = held, !.found = roots]

Arrive(e, f) ==
    /\ host.at = "up"
    /\ x[e].at = "idle"
    /\ x' = [x EXCEPT ![e] =
          IF AtDoor(f) # "none" THEN [Began(e, f, "over") EXCEPT !.answer = AtDoor(f)]
          ELSE IF Gate(host.kind, f) # "none" THEN Began(e, f, "waiting")
          ELSE IF host.kind = "embedded" \/ Route(f) = "cas" THEN Began(e, f, "body")
          ELSE IF Route(f) = "history" /\ HistoryAnswers(f) = "none"
               THEN [Began(e, f, "work") EXCEPT !.todo = <<Call("since", {})>>]
          ELSE [Began(e, f, "over") EXCEPT !.answer =
                   IF Route(f) = "history" THEN HistoryAnswers(f) ELSE "Served"]]
    /\ UNCHANGED <<layoutVars, host, permits, live, counted, held, roots>>

\* Seeded fault: the permit is taken without waiting for one.
EnterUngated(e) ==
    /\ x[e].at = "waiting"
    /\ Take(GateOf(e))
    /\ x' = [x EXCEPT ![e].entered = TRUE,
                      ![e].at = IF GateOf(e) = "wire" THEN "body" ELSE "work",
                      ![e].todo = IF GateOf(e) = "wire" THEN <<>> ELSE ToolCalls(x[e].ask)]
    /\ UNCHANGED <<layoutVars, host, counted, held, roots>>

Enter(e) ==
    /\ x[e].at = "waiting"
    /\ permits[GateOf(e)] > 0
    /\ Take(GateOf(e))
    /\ x' = [x EXCEPT ![e].entered = TRUE,
                      ![e].at = IF GateOf(e) = "wire" THEN "body" ELSE "work",
                      ![e].todo = IF GateOf(e) = "wire" THEN <<>> ELSE ToolCalls(x[e].ask)]
    /\ UNCHANGED <<layoutVars, host, counted, held, roots>>

\* The body is gathered inside the gate.  One that does not arrive is read
\* as empty, and the law decides over what was gathered.
TakeBody(e) ==
    /\ x[e].at = "body"
    /\ \E whole \in BOOLEAN :
         LET f == IF whole THEN x[e].ask ELSE [x[e].ask EXCEPT !.body = "none"]
             refusal == Decide(host.limits, f)
             answer  == CoreAnswers(host.limits, f)
         IN  IF refusal # "Accepted" THEN End(e, refusal)
             ELSE IF answer # "none" THEN End(e, answer)
             ELSE /\ x' = [x EXCEPT ![e].at = "work", ![e].todo = CoreCalls(f)]
                  /\ UNCHANGED <<permits, live, counted>>
    /\ UNCHANGED <<layoutVars, host, held, roots>>

\* A payload over the cap is refused inside the gate and before the store.
RefuseTool(e) ==
    /\ x[e].at = "work"
    /\ GateOf(e) = "tool"
    /\ x[e].did = {}
    /\ ToolAnswers(host.limits, x[e].ask) # "none"
    /\ End(e, ToolAnswers(host.limits, x[e].ask))
    /\ UNCHANGED <<layoutVars, host, held, roots>>

-----------------------------------------------------------------------------
(* The shell's verbs, each a process of its own over the same store.       *)

PutFile(f)     == PutCalls(f.id)
RunStored(f)   == <<Call("table", {f.id})>>
PublishRoot(f) == <<Call("load", {f.id}), Call("publish", {f.id})>>
NameNode(f)    == <<Call("load", {f.id})>> \o PutCalls(f.note) \o <<Call("publish", {f.note})>>
ShowNode(f)    == <<Call("load", {f.id}), Call("names", {})>>
ListRoots      == <<Call("list", {})>>

VerbCalls(f) ==
    CASE f.verb = "put"     -> PutFile(f)
      [] f.verb = "run"     -> RunStored(f)
      [] f.verb = "publish" -> PublishRoot(f)
      [] f.verb = "name"    -> NameNode(f)
      [] f.verb = "show"    -> ShowNode(f)
      [] OTHER              -> ListRoots

RunVerb(e, f) ==
    /\ x[e].at = "idle"
    /\ IsStoreRoot /\ ReadConfig # Unreadable
    /\ x' = [x EXCEPT ![e] = [Began(e, f, "work") EXCEPT !.todo = VerbCalls(f)]]
    /\ UNCHANGED <<layoutVars, host, permits, live, counted, held, roots>>

-----------------------------------------------------------------------------
(* Store calls.                                                            *)

\* What an exchange answers when its last call has succeeded.
Success(f) ==
    IF IsVerb(f) \/ Route(f) = "mcp" THEN "ok"
    ELSE IF Route(f) = "history" THEN "Served"
    ELSE CASE Operation(f) = "UploadNode" -> "Admitted"
           [] Operation(f) = "PublishRoot" -> "Published"
           [] Operation(f) = "LoadNode" -> "NodeBytes"
           [] Operation(f) = "ReadRoot" -> IF f.id \in roots THEN "RootPublished" ELSE "RootAbsent"
           [] OTHER -> "Presence"

\* How each refusal of the store reads on the plane that answers it.  The
\* history answers every failure of the log as a bad request.
Refusal(f, answer) ==
    IF IsVerb(f) \/ Route(f) = "mcp" THEN "refused"
    ELSE IF Route(f) = "history" THEN "LogRefused" ELSE answer

\* The rest of the calls, or the answer when there are none.
Continue(e, rest, did, answer) ==
    IF rest = <<>>
    THEN /\ x' = [x EXCEPT ![e].at = "over", ![e].todo = <<>>, ![e].did = @ \cup did,
                           ![e].answer = answer]
         /\ IF e \in Inside("wire") \cup Inside("tool")
            THEN GiveBack(GateOf(e)) /\ Count(GateOf(e), answer)
            ELSE UNCHANGED <<permits, live, counted>>
    ELSE /\ x' = [x EXCEPT ![e].todo = rest, ![e].did = @ \cup did]
         /\ UNCHANGED <<permits, live, counted>>

Callable(e) ==
    /\ x[e].at = "work"
    /\ ~x[e].hung
    /\ x[e].todo # <<>>
    /\ GateOf(e) = "tool" => ToolAnswers(host.limits, x[e].ask) = "none"

Due(e)  == Head(x[e].todo)
Rest(e) == Tail(x[e].todo)
Node(e) == CHOOSE n \in Due(e).on : TRUE
Calling(e, name) == Callable(e) /\ Due(e).do = name

\* A node whose references are not held is refused; one that is held already
\* is answered without a write.
Judge(e) ==
    /\ Calling(e, "judge")
    /\ LET f == x[e].ask IN
       IF Node(e) = Junk \/ ~(Refs[Node(e)] \subseteq held)
       THEN End(e, Refusal(f, "AdmissionRefused"))
       ELSE IF Node(e) \in held
       THEN Continue(e, Tail(Rest(e)), {}, IF Success(f) = "Admitted" THEN "AlreadyAdmitted"
                                           ELSE Success(f))
       ELSE Continue(e, Rest(e), {}, "none")
    /\ UNCHANGED <<layoutVars, host, held, roots>>

Write(e) ==
    /\ Calling(e, "write")
    /\ held' = held \cup {Node(e)}
    /\ Continue(e, Rest(e), {Due(e)}, Success(x[e].ask))
    /\ UNCHANGED <<layoutVars, host, roots>>

\* An operand of a run that names no answer before it is refused; no store call
\* is made to see it.
Resolve(e) ==
    /\ Calling(e, "resolve")
    /\ IF Node(e) = Junk THEN End(e, "refused") ELSE Continue(e, Rest(e), {}, "none")
    /\ UNCHANGED <<layoutVars, host, held, roots>>

\* Some planes' nodes carry no names.
Unnameable(f) == IsVerb(f) /\ f.verb = "name" /\ f.id \notin Nameable

Load(e) ==
    /\ Calling(e, "load")
    /\ IF Node(e) \in held /\ ~Unnameable(x[e].ask)
       THEN Continue(e, Rest(e), {}, Success(x[e].ask))
       ELSE End(e, Refusal(x[e].ask, "NodeAbsent"))
    /\ UNCHANGED <<layoutVars, host, held, roots>>

\* The table a program's address names, recovered whole before the first put.
LoadTable(e) ==
    /\ Calling(e, "table")
    /\ IF Node(e) \in held /\ Node(e) \in DOMAIN Tables
       THEN Continue(e, RunAll(Tables[Node(e)]), {}, "ok")
       ELSE End(e, "refused")
    /\ UNCHANGED <<layoutVars, host, held, roots>>

\* Seeded fault: the root alone is checked.
RootHeld(e) == x[e].ask.id \in held

ClosureHeld(e) == Due(e).on \subseteq held

VerifyClosure(e) ==
    /\ Calling(e, "closure")
    /\ IF ClosureHeld(e) THEN Continue(e, Rest(e), {}, "none")
       ELSE End(e, "ClosureUnverified")
    /\ UNCHANGED <<layoutVars, host, held, roots>>

Publish(e) ==
    /\ Calling(e, "publish")
    /\ roots' = roots \cup Due(e).on
    /\ Continue(e, Rest(e), {Due(e)}, Success(x[e].ask))
    /\ UNCHANGED <<layoutVars, host, held>>

\* Reads whose answer is what the store says now.
Consult(e) ==
    /\ \E name \in {"presence", "list", "names", "since"} : Calling(e, name)
    /\ Continue(e, Rest(e), {}, Success(x[e].ask))
    /\ UNCHANGED <<layoutVars, host, held, roots>>

\* A store that cannot answer is the capacity class, never a verdict.  The
\* names of a node that was shown are said not to have been read.
FailCall(e) ==
    /\ Callable(e)
    /\ Due(e).do # "resolve"
    /\ End(e, IF Due(e).do = "names" THEN "ok" ELSE Refusal(x[e].ask, "BackendUnavailable"))
    /\ UNCHANGED <<layoutVars, host, held, roots>>

HangCall(e) ==
    /\ Callable(e)
    /\ Due(e).do # "resolve"
    /\ Cardinality({o \in Exchanges : x[o].hung}) < MaxHung
    /\ x' = [x EXCEPT ![e].hung = TRUE]
    /\ UNCHANGED <<layoutVars, host, permits, live, counted, held, roots>>

\* The client goes away, its connection idles out, or the shell is killed.
Gone(e) ==
    /\ x[e].at \in {"waiting", "body", "work"}
    /\ End(e, "gone")
    /\ UNCHANGED <<layoutVars, host, held, roots>>

\* A run without instructions succeeds and has put nothing.
RunNothing(e) ==
    /\ x[e].at = "work"
    /\ x[e].todo = <<>>
    /\ End(e, "ok")
    /\ UNCHANGED <<layoutVars, host, held, roots>>

Serve(e) == \/ TakeBody(e) \/ RefuseTool(e) \/ RunNothing(e) \/ Judge(e) \/ Write(e)
            \/ Resolve(e) \/ Load(e) \/ LoadTable(e) \/ VerifyClosure(e) \/ Publish(e) \/ Consult(e)

-----------------------------------------------------------------------------
Init ==
    /\ LayoutInit
    /\ host = [at |-> "down", kind |-> "daemon", policy |-> NoPolicy, gated |-> FALSE,
               limits |-> Limits(DefaultPolicy)]
    /\ x = [e \in Exchanges |-> Idle]
    /\ permits = [gate \in Gates |-> 0]
    /\ live = [gate \in Gates |-> 0]
    /\ counted = [outcome \in Counts |-> 0]
    /\ held \in Seeds
    /\ roots = {}

\* Bounds on the interleavings, none of which a host could tell apart: the
\* directory changes until the host has read it and before the first exchange,
\* exchanges are served over the store of one finished `init`, and an
\* application that mounts the wire plane brings its own store.
Changing == host.at \in {"down", "located"} /\ \A e \in Exchanges : x[e].at = "idle"
Serving  == host.kind = "embedded" \/ (inits = 1 /\ made["file"] = 1)

Next ==
    \/ LayoutNext /\ Changing /\ UNCHANGED hostVars
    \/ Locate \/ ReadPolicy \/ Boot \/ Shutdown \/ Deadline
    \/ inits = 0 /\ \E policy \in WirePolicies : Embed(policy)
    \/ \E e \in Exchanges :
         \/ Serving /\ \E f \in Requests[e] : IF IsVerb(f) THEN RunVerb(e, f) ELSE Arrive(e, f)
         \/ Enter(e) \/ Serve(e) \/ FailCall(e) \/ HangCall(e) \/ Gone(e)

\* Fibers run and permits are handed on; a body arrives or its connection
\* idles out; store calls return unless they hang; the deadline passes.
Fairness ==
    /\ WF_vars(Deadline)
    /\ \A e \in Exchanges :
         /\ WF_vars(Enter(e))
         /\ WF_vars(Serve(e) \/ (x[e].at = "body" /\ Gone(e)))

Spec == Init /\ [][Next]_vars /\ Fairness

-----------------------------------------------------------------------------
TypeOK ==
    /\ LayoutTypeOK
    /\ host.at \in {"down", "located", "read", "up", "draining", "off", "refused"}
    /\ host.kind \in {"daemon", "embedded"}
    /\ host.policy \in Policies \cup {NoPolicy}
    /\ \A e \in Exchanges :
         /\ x[e].at \in {"idle", "waiting", "body", "work", "over"}
         /\ (x[e].at = "idle") = (x[e] = Idle)
         /\ (x[e].at = "over") = (x[e].answer # "none")
         /\ x[e].at = "work" => x[e].todo # <<>> \/ x[e].ask.lines = <<>>
         /\ x[e].ask \in Requests[e] \cup {NoRequest}
    /\ permits \in [Gates -> Nat] /\ live \in [Gates -> Int]
    /\ counted \in [Counts -> Nat]
    /\ held \subseteq Nodes /\ roots \subseteq Nodes

\* A daemon that serves read a config that lets anyone read.  One that gates
\* reads, or that no reader could make out, is never taken for the absence
\* that stands for the open defaults: "a reader that answered absent to an
\* unreadable file would serve a store whose config says anonymousReads:
\* false wide open" (store.ts readConfig).
NeverServedOpen ==
    host.kind = "daemon" /\ host.at \in {"up", "draining"} => ~host.gated

\* What `init` wrote and what an operator wrote over it is what a reader of the
\* directory acts on.
ConfigHonoured == CreatedStoreOpens /\ NeverServedOpen

\* Each gate admits at most its bound (its permits never fall below zero), its
\* gauge says how many are inside, no permit is lost, and every tool call that
\* entered is counted once under the outcome it had, however each of them ended:
\* answered, refused, failed, left by its client, or closed at the deadline.
GatesExact ==
    /\ TypeOK
    /\ \A gate \in Gates :
         /\ live[gate] = Cardinality(Inside(gate))
         /\ host.kind = "daemon" /\ host.at \in {"up", "draining", "off"} =>
               permits[gate] + Cardinality(Inside(gate)) = host.limits.maxInFlight
    /\ \A outcome \in Counts : counted[outcome] =
         Cardinality({e \in Exchanges : /\ x[e].at = "over" /\ x[e].entered
                                        /\ GateOf(e) = "tool"
                                        /\ Outcome(x[e].answer) = outcome})

\* Who may change the store over HTTP.  To the daemon: a request for a name
\* it answers as, from no page, a page it was told of or its own; on the wire
\* plane under the profile, and with the credential where one is set.
LetIn(f) ==
    \/ IsVerb(f)
    \/ /\ host.kind = "daemon" => /\ f.host # "foreign"
                                  /\ \/ f.origin \in {"absent", "listed"}
                                     \/ f.origin = "self" /\ f.host = "own"
       /\ \/ f.path = "mcp" /\ host.kind = "daemon"
          \/ /\ f.profile /\ f.method = "PUT" /\ f.octet
             /\ f.path \in {"node", "root"}
             /\ IF host.limits.credential THEN f.auth = "right" ELSE f.auth = "absent"

\* Only what is let in changes the store; an exchange answered with a status
\* that refuses has changed nothing; and no node over the store's cap comes in
\* over HTTP, save by the run of a program that is in the store already.
OnlyLetIn ==
    \A e \in Exchanges : x[e].did # {} =>
        /\ LetIn(x[e].ask)
        /\ Status(x[e].answer) \notin 400..413
        /\ \/ IsVerb(x[e].ask)
           \/ x[e].ask.tool = "cas_run_ref"
           \/ \A call \in x[e].did : call.do = "write" =>
                  \A n \in call.on : Size[n] <= host.limits.maxNodeBytes

\* The nodes of a run's lines.
On(lines) == {lines[k].node : k \in DOMAIN lines}

\* What an answer says holds: an admitted node is held under its references,
\* a published root and the closure it declared are held, what was absent was
\* absent when the exchange began, and a run or a put that succeeded has put
\* every node and found what it loads.  A page of history is the answer to
\* every parameter that came with the question.  A call of one line that is
\* lost to the transport puts a node over the cap, or names more than the host
\* set aside for.
AnswerHolds(f, answer, saw, found) ==
    /\ answer \in {"Admitted", "AlreadyAdmitted"} => f.bytes \in held
    /\ answer = "NodeBytes" => f.id \in held
    /\ answer = "NodeAbsent" => f.id \notin saw
    /\ answer = "RootPublished" => f.id \in roots
    /\ answer = "RootAbsent" => f.id \notin found
    /\ answer = "Published" => f.id \in roots /\ {f.id} \cup f.keys \subseteq held
    /\ answer = "ClosureUnverified" => ~({f.id} \cup f.keys \subseteq saw)
    /\ answer = "ok" /\ ~IsVerb(f) => /\ f.tool \in {"cas_put", "cas_run"} =>
                                            On(f.lines) \subseteq held
                                      /\ f.tool = "cas_publish_root" => f.id \in roots
                                      /\ f.tool = "cas_run_ref" => On(Tables[f.id]) \subseteq held
    /\ answer = "ok" /\ IsVerb(f) => /\ f.verb = "put" => f.id \in held
                                     /\ f.verb = "publish" => f.id \in roots
                                     /\ f.verb = "name" => f.note \in roots
                                     /\ f.verb = "run" => On(Tables[f.id]) \subseteq held
    /\ answer = "Served" /\ Route(f) = "history" =>
           \A i, j \in DOMAIN f.query :
              /\ f.query[i].key # "other" /\ f.query[i].raw = "numeral"
              /\ f.query[i].key = f.query[j].key => i = j
    /\ answer = "TooLargeForTransport" /\ f.path = "mcp" /\ Len(f.lines) = 1 =>
           ToolAnswers(host.limits, f) = "refused" \/ Around(f) > FrameSlack

AnswersHold ==
    /\ \A e \in Exchanges : x[e].at = "over" =>
           AnswerHolds(x[e].ask, x[e].answer, x[e].saw, x[e].found)
    /\ roots \subseteq held
    /\ \A n \in held : Refs[n] \subseteq held

\* A gate whose every permit is held by a store call that never returns.
Stuck(gate) == Cardinality({e \in Inside(gate) : x[e].hung}) >= host.limits.maxInFlight

\* A saturated store does not make the host look dead: what passes neither a
\* gate nor a hung call ends, so does a call that waits for a permit unless
\* hung calls hold them all, and a host told to stop ends every exchange.  No
\* exchange begins twice, so "in the end all are at rest" says this of each.
AtRest(e) ==
    \/ x[e].at \in {"idle", "over"}
    \/ x[e].at = "work" /\ x[e].hung
    \/ x[e].at = "waiting" /\ Stuck(GateOf(e))

ExchangesEnd ==
    <>[](/\ \A e \in Exchanges : AtRest(e)
         /\ host.at # "draining"
         /\ host.at = "off" => Underway = {})
=============================================================================
