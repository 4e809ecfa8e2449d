----------------------------- MODULE SchemaWalk -----------------------------
(***************************************************************************)
(* Reading schemas out of a store (CanonicalSchema.ts, get and assemble;   *)
(* Materialize.ts, fromStore): over the host of GraphWalk, which admits    *)
(* nodes, hides them and lies between two reads, a reader loads a schema   *)
(* and then, round by round, every schema that an address among the        *)
(* references names, and answers one document through the door.            *)
(*                                                                         *)
(* A name inside a payload is no edge the store admits by: the assembly is *)
(* the only place where these are checked.                                 *)
(***************************************************************************)
EXTENDS GraphWalk, Schemas, TLC

CONSTANTS
    KindTag,     \* the reserved tag of schema nodes
    DocOf,       \* the document in the payload of each node, or NoDocument
    NoDocument,
    Presented    \* documents that callers hold and ask to assemble

ASSUME SchemaAssumption ==
    /\ DocOf = [i \in Ids |-> DocOf[i]]
    /\ \A d \in Presented \union {DocOf[i] : i \in Ids} :
          d = NoDocument \/ IsDocument(d)

VARIABLES
    reading,     \* what the reader loads: "none", "root" or "targets"
    asked,       \* what the assembly began with
    table,       \* the references table so far
    resolved,    \* the names that need no load, or had theirs
    round,       \* the addresses left of this round
    assembled    \* how the last assembly ended, and the document it answered

assembly == <<reading, asked, table, resolved, round>>
schemaVars == <<assembly, assembled>>
allVars == <<vars, schemaVars>>

NoAsk == [document |-> NoDocument, at |-> Absent, whole |-> FALSE]
NoAssembly == [outcome |-> "none", document |-> NoDocument, of |-> NoAsk]

SchemaInit ==
    /\ Init
    /\ reading = "none" /\ asked = NoAsk
    /\ table = <<>> /\ resolved = {} /\ round = <<>>
    /\ assembled = NoAssembly

----------------------------------------------------------------------------
(* What a document needs, whoever reads it.                                *)

Mentioned(document) ==
    NamesOf(document.representation)
        \union UNION {NamesOf(document.references[n]) : n \in DOMAIN document.references}

IsSchema(id) == id \in Nodes /\ TagOf[id] = KindTag /\ DocOf[id] # NoDocument

(* What the door answers of the document in a payload.                     *)
Read(id) == FromEnvelope(DocOf[id])

(* The bindings a target brings: itself under its address, and its table.  *)
Bindings(id) == id :> Read(id).document.representation @@ Read(id).document.references

Bound(document) == DOMAIN document.references

RECURSIVE NeededFrom(_, _)
NeededFrom(document, found) ==
    LET docs == {document} \union {DocOf[x] : x \in {y \in found : IsSchema(y)}}
        more == found \union
                ((UNION {Mentioned(d) : d \in docs} \intersect Ids) \ Bound(document))
    IN IF more = found THEN found ELSE NeededFrom(document, more)

Needed(document) == NeededFrom(document, {})

(* The host holds, as they are, the root and everything the document needs.*)
Held(document, at) ==
    \A x \in Needed(document) \union ({at} \ {Absent}) : bytes[x] = x

----------------------------------------------------------------------------
(* The reader.                                                             *)

CanAsk == walk = "none" /\ reading = "none"

(* The last walk is no longer looked at.                                   *)
ForgetWalk ==
    /\ root' = CHOOSE i \in Ids : TRUE
    /\ answer' = [outcome |-> "none", by |-> "none", ids |-> <<>>]
    /\ UNCHANGED <<host, walk, stack, pushed, ordered, verified, edges>>

EndReading(ask, outcome, document) ==
    /\ assembled' = [outcome |-> outcome, document |-> document, of |-> ask]
    /\ reading' = "none" /\ asked' = NoAsk
    /\ table' = <<>> /\ resolved' = {} /\ round' = <<>>

(* The addresses the table reaches by now and that had no load.            *)
Unresolved(document, done) == (Mentioned(document) \intersect Ids) \ done

(* The next round, or the whole table through the door: nothing suspends   *)
(* between the load before and this.                                       *)
Continue(ask, extended, done) ==
    LET document == Document(extended, ask.document.representation)
        names    == Unresolved(document, done) IN
    \/ /\ names # {}
       /\ reading' = "targets" /\ asked' = ask
       /\ table' = extended /\ resolved' = done
       /\ round' \in SetToSeqs(names)
       /\ assembled' = NoAssembly
    \/ /\ names = {}
       /\ IF ThroughDoor(document).verdict = "admitted"
          THEN EndReading(ask, "assembled", ThroughDoor(document).document)
          ELSE EndReading(ask, "ProjectionCodecFailure", NoDocument)

(* assemble: what the document binds is the caller's, and never loaded.    *)
Assemble(ask) == Continue(ask, ask.document.references, Bound(ask.document))

(* assemble, with a document in hand.                                      *)
AskAssemble(document) ==
    /\ ForgetWalk
    /\ Assemble([document |-> document, at |-> Absent, whole |-> Held(document, Absent)])

(* fromStore: get, then assemble.                                          *)
AskFromStore(at) ==
    /\ CanAsk /\ ForgetWalk
    /\ asked' = [document |-> DocOf[at], at |-> at,
                 whole |-> DocOf[at] # NoDocument /\ Held(DocOf[at], at)]
    /\ assembled' = NoAssembly
    /\ reading' = "root"
    /\ UNCHANGED <<table, resolved, round>>

(* The load law: absent, not the bytes of that address, or verified.       *)
LoadVerdict(id) ==
    IF bytes[id] = Absent THEN "ContentNotFound" ELSE VerifyNodeBytes(id, bytes[id])

(* The door, on the document in a payload.                                 *)
DoorVerdict(id) ==
    IF DocOf[id] # NoDocument /\ Read(id).verdict = "admitted"
    THEN "Verified" ELSE "ProjectionCodecFailure"

(* get: the kind, no references, and the door, on the root.                *)
RootVerdict(id) ==
    IF LoadVerdict(id) # "Verified" THEN LoadVerdict(id)
    ELSE IF TagOf[id] # KindTag THEN "UnknownKind"
    ELSE IF RefsOf[id] # <<>> THEN "ProjectionCodecFailure"
    ELSE DoorVerdict(id)

GetRoot ==
    /\ reading = "root"
    /\ \/ EndReading(asked, "StoreFailure", NoDocument)
       \/ LET verdict == RootVerdict(asked.at) IN
             IF verdict = "Verified"
             THEN Assemble([asked EXCEPT !.document = Read(asked.at).document])
             ELSE EndReading(asked, verdict, NoDocument)
    /\ UNCHANGED vars

(* Seeded fault: a name the table binds already is left as it is.          *)
TargetVerdictKeepsFirst(id) ==
    IF LoadVerdict(id) # "Verified" THEN LoadVerdict(id)
    ELSE IF TagOf[id] # KindTag THEN "WrongKindReference"
    ELSE DoorVerdict(id)

(* A target is a typed edge: of the schema kind, or a refusal; then the    *)
(* door, as on the root but for the references of its node; then its       *)
(* bindings against those seated.                                          *)
TargetVerdict(id) ==
    IF LoadVerdict(id) # "Verified" THEN LoadVerdict(id)
    ELSE IF TagOf[id] # KindTag THEN "WrongKindReference"
    ELSE IF DoorVerdict(id) # "Verified" THEN DoorVerdict(id)
    ELSE IF ~TablesAgree({table, Bindings(id)}) THEN "ProjectionCodecFailure"
    ELSE "Verified"

GetTarget ==
    /\ reading = "targets"
    /\ \/ EndReading(asked, "StoreFailure", NoDocument)
       \/ LET id       == Head(round)
              verdict  == TargetVerdict(id)
              extended == Bindings(id) @@ table
              done     == resolved \union {id} IN
          IF verdict # "Verified" THEN EndReading(asked, verdict, NoDocument)
          ELSE IF Len(round) = 1 THEN Continue(asked, extended, done)
          ELSE /\ table' = extended /\ resolved' = done
               /\ round' = Tail(round)
               /\ UNCHANGED <<reading, asked, assembled>>
    /\ UNCHANGED vars

SchemaStep == GetRoot \/ GetTarget

(* A walk and an assembly take turns; the host moves under either.         *)
ReadersNext ==
    \/ /\ Next
       /\ walk' # walk => reading = "none"
       /\ assembled' = IF walk' = walk THEN assembled ELSE NoAssembly
       /\ UNCHANGED assembly
    \/ CanAsk /\ \E d \in Presented : AskAssemble(d)
    \/ \E i \in Ids : AskFromStore(i)
    \/ SchemaStep

(* As in GraphWalk: a fiber whose read returns runs.                       *)
ReadersFairness == WF_allVars(Step /\ UNCHANGED schemaVars) /\ WF_allVars(SchemaStep)
ReadersSpec == SchemaInit /\ [][ReadersNext]_allVars /\ ReadersFairness

----------------------------------------------------------------------------
(* What the assembly promises.                                             *)

RECURSIVE Subcodes(_)
Subcodes(code) == {code} \union UNION {Subcodes(code.kids[k]) : k \in DOMAIN code.kids}

WellSpelled(code) ==
    \A c \in Subcodes(code) :
        /\ c.form \notin {"unadmitted", "undeclared", "integer", "ranged"}
        /\ c.form = "declaration" => Len(c.kids) = 1
        /\ c.form = "union" => c.kids # <<>>
        /\ c.form = "reference" => c.name # EmptyName
        /\ c.form = "objects" =>
               \A j, k \in DOMAIN c.kids : j < k => Before(c.kids[j].name, c.kids[k].name)

(* Some names each need another of them at once.                           *)
HasBareCycle(references) ==
    \E C \in SUBSET (DOMAIN references) \ {{}} :
        \A n \in C : NeededAtOnce(references[n]) \intersect C # {}

IsCanonical(document) ==
    \/ document.revision = 0 /\ Legacy(document.representation)
    \/ /\ document.revision = 1
       /\ WellSpelled(document.representation)
       /\ EmptyName \notin Bound(document)
       /\ \A n \in Bound(document) : WellSpelled(document.references[n])
       /\ ~HasBareCycle(document.references)

TablesOf(document) == {document.references} \union {Bindings(x) : x \in Needed(document)}

(* The one document a document assembles to, whoever reads it and when.    *)
Whole(document) == Document(UnionTable(TablesOf(document)), document.representation)

Assembles(document) ==
    /\ \A x \in Needed(document) : x \in Known /\ IsSchema(x) /\ IsCanonical(DocOf[x])
    /\ TablesAgree(TablesOf(document))
    /\ IsCanonical(Whole(document))

ReadsAsRoot(at) == at \in Known /\ IsSchema(at) /\ RefsOf[at] = <<>> /\ IsCanonical(DocOf[at])

(* What is assembled: the document in hand, or what get answers of a root. *)
Begun(of) == IF of.at = Absent THEN of.document ELSE Read(of.at).document

(* It ended, and neither a lie nor a missing node nor the store is why.    *)
Undisturbed ==
    lies = 0 /\ assembled.of.whole /\ assembled.outcome \notin {"none", "StoreFailure"}

(***************************************************************************)
(* assemble, fromStore: whatever the host admits, hides or alters in the   *)
(* middle, an answered document is the normal form of the begun one        *)
(* extended by exactly what its addresses name, transitively, each as get  *)
(* answers it, no name bound twice to different codes and no cycle without *)
(* a Suspend; and over a host that held it all from the start and did not  *)
(* lie, what extends to a document of the language is answered.            *)
(***************************************************************************)
AssemblyExact ==
    LET of  == assembled.of
        can == (of.at # Absent => ReadsAsRoot(of.at)) /\ Assembles(Begun(of))
    IN /\ assembled.outcome = "assembled" =>
              can /\ assembled.document = NormalDocument(Whole(Begun(of)))
       /\ Undisturbed /\ can => assembled.outcome = "assembled"

(***************************************************************************)
(* Every walk and every assembly answers: the rounds end because the set   *)
(* of resolved names grows, not because of a fuel.                         *)
(***************************************************************************)
ReadersAnswer == WalksAnswer /\ (reading # "none" ~> reading = "none")
============================================================================
