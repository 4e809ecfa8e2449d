----------------------------- MODULE SchemaDoor -----------------------------
(***************************************************************************)
(* The door of the schema plane, clause by clause (CanonicalSchema.ts): an *)
(* interpreter of the generated admission table over one code as stored,   *)
(* the normal form a lowering gives a code before it is put, and the scan  *)
(* of the payload's text that runs before any parser.                      *)
(*                                                                         *)
(* A node has its tag, the keys it carries, the keys whose value is of no  *)
(* kind its form reads, and slots for its children.  A name and a text are *)
(* sequences of character codes.  Guarded tables are the matter of Schemas.*)
(***************************************************************************)
EXTENDS Schemas, TLC

CONSTANTS
    Codes,      \* codes that are presented
    Payloads    \* texts of payloads, as what they say

VARIABLE shown  \* the code or the text that is looked at

Space     == 32
Comma     == 44
Colon     == 58
OpenList  == 91
CloseList == 93
LowerU    == 117
OpenBrace == 123
CloseBrace == 125

----------------------------------------------------------------------------
(* The table.                                                              *)

NodeClauses ==
    [c \in {"notAnObject", "notAnArray", "unadmittedNode", "nodeKeys", "checksNotEmpty",
            "notTheIntCheck", "literalShape", "restTooMany", "emptyTuple", "elementShape",
            "elementOptionality", "indexSignatures", "propertyShape", "propertyMutable",
            "propertyOptionality", "propertyName", "declarationShape", "unionMode",
            "enumMemberShape", "enumMemberValue"} |-> "notASchema"]
    @@ [c \in {"propertyOrder", "declarationPayload", "declarationArity", "unionEmpty",
               "enumEmpty", "enumMemberName"} |-> "illFormed"]
    @@ "unknownDeclaration" :> "unknownDeclaration"

DocumentClauses ==
    [c \in {"documentShape", "notASchema", "excessProperties"} |-> "notASchema"]
    @@ [c \in {"referenceName", "referenceKeyEmpty", "duplicateReferenceKey"} |-> "illFormed"]
    @@ [c \in {"unguardedCycle", "nonEmptyReferences", "wrongRevision"} |-> c]

Clauses == NodeClauses @@ DocumentClauses

Row(form, keys, checks) == [form |-> form, keys |-> keys, checks |-> checks]

NodeRows ==
    LET Both(more) == {"_tag", "checks"} \union more IN
    [t \in {"Null", "Boolean", "String"} |-> Row("keyword", Both({}), "empty")]
    @@ "Number"      :> Row("number", Both({}), "isInt")
    @@ "Literal"     :> Row("literal", Both({"literal"}), "empty")
    @@ "Arrays"      :> Row("arrays", Both({"elements", "rest"}), "empty")
    @@ "Objects"     :> Row("objects", Both({"indexSignatures", "propertySignatures"}), "empty")
    @@ "Declaration" :> Row("declaration", Both({"representation", "typeParameters"}), "empty")
    @@ "Union"       :> Row("union", Both({"mode", "types"}), "empty")
    @@ "Enum"        :> Row("enum", Both({"enums"}), "empty")
    @@ "Reference"   :> Row("reference", {"$ref", "_tag"}, "none")
    @@ "Suspend"     :> Row("suspend", Both({"thunk"}), "empty")

LiteralTypes   == "boolean" :> "boolean" @@ "number" :> "safeInteger" @@ "string" :> "string"
EnumValueTypes == "string" :> "string" @@ "number" :> "safeInteger"
UnionModes     == {"anyOf", "oneOf"}

Declarations ==
    "foldlab/cas/ref" :> [arity |-> 0, payload |-> "byte"]
    @@ [id \in {"effect/schema/Date", "effect/schema/URL"} |-> [arity |-> 0, payload |-> "null"]]
    @@ "effect/schema/Option" :> [arity |-> 1, payload |-> "null"]

PropertyKeys == {"isMutable", "isOptional", "name", "type"}
ElementKeys  == {"isOptional", "type"}
PayloadByteBound == 256

----------------------------------------------------------------------------
(* Nodes and slots.                                                        *)

Typed(type, carried) == [type |-> type, carried |-> carried]
NoValue == Typed("none", "none")
NullPayload == -1    \* any other payload is the number it is

Keyed(tag, keys) ==
    [tag |-> tag, has |-> keys, misfit |-> {}, checks |-> <<>>, id |-> "none",
     payload |-> NullPayload, typed |-> NoValue, mode |-> "anyOf", ref |-> <<>>, slots |-> <<>>]

\* A node that carries what its row writes, or only a tag where there is none.
NodeOf(tag) ==
    [Keyed(tag, IF tag \in DOMAIN NodeRows THEN NodeRows[tag].keys ELSE {"_tag"})
        EXCEPT !.checks = IF tag = "Number" THEN <<"isInt">> ELSE <<>>]
With(tag, slots) == [NodeOf(tag) EXCEPT !.slots = slots]

\* node is one node, or none where the value is no object.
Slot(role, name, node) ==
    [role |-> role, name |-> name, typed |-> NoValue, node |-> node, mutable |-> FALSE,
     misfit |-> {},
     has |-> CASE role = "element"  -> ElementKeys
               [] role = "property" -> PropertyKeys
               [] OTHER -> {}]

In(node, role) == SelectSeq(node.slots, LAMBDA s : s.role = role)

----------------------------------------------------------------------------
(* admitNode: the clauses a code breaks, in the order the walk meets them; *)
(* it throws at the first.                                                 *)

If(broken, clause) == IF broken THEN <<clause>> ELSE <<>>

BrokenChecks(node, row) ==
    If(row.checks # "none" /\ "checks" \in node.misfit, "notAnArray")
    \o If(row.checks = "empty" /\ node.checks # <<>>, "checksNotEmpty")
    \o If(row.checks = "isInt" /\ node.checks # <<"isInt">>, "notTheIntCheck")

BrokenTyped(typed, rows, clause) ==
    If(typed.type \notin DOMAIN rows, clause)
    \o If(typed.type \in DOMAIN rows /\ typed.carried # rows[typed.type], clause)

GateDeclarationRow(node) == If(node.id \notin DOMAIN Declarations, "unknownDeclaration")

AdmitsPayload(row, payload) ==
    IF row.payload = "null" THEN payload = NullPayload
    ELSE payload >= 0 /\ payload < PayloadByteBound

RECURSIVE Broken(_)

BrokenValue(slot) == IF slot.node = <<>> THEN <<"notAnObject">> ELSE Broken(slot.node[1])
BrokenValues(slots) == FlattenSeq([k \in DOMAIN slots |-> BrokenValue(slots[k])])

BrokenArrays(node) ==
    LET elements == In(node, "element")
        rest     == In(node, "rest")
        Element(slot) ==
            If("annotations" \in slot.has \/ ~(ElementKeys \subseteq slot.has), "elementShape")
            \o If("isOptional" \in slot.misfit, "elementOptionality")
            \o BrokenValue(slot)
    IN If({"elements", "rest"} \intersect node.misfit # {}, "notAnArray")
       \o If(Len(rest) > 1, "restTooMany")
       \o If(elements = <<>> /\ Len(rest) # 1, "emptyTuple")
       \o FlattenSeq([k \in DOMAIN elements |-> Element(elements[k])])
       \o BrokenValues(rest)

\* Each name is held against the one before it.
BrokenObjects(node) ==
    LET fields == In(node, "property")
        Property(k) ==
            If(~(PropertyKeys \subseteq fields[k].has), "propertyShape")
            \o If(fields[k].mutable, "propertyMutable")
            \o If("isOptional" \in fields[k].misfit, "propertyOptionality")
            \o If("name" \in fields[k].misfit, "propertyName")
            \o If(k > 1 /\ ~Before(fields[k - 1].name, fields[k].name), "propertyOrder")
            \o BrokenValue(fields[k])
    IN If({"indexSignatures", "propertySignatures"} \intersect node.misfit # {}, "notAnArray")
       \o If(In(node, "index") # <<>>, "indexSignatures")
       \o FlattenSeq([k \in DOMAIN fields |-> Property(k)])

BrokenDeclaration(node) ==
    LET row == Declarations[node.id]
        parameters == In(node, "parameter")
    IN If("representation" \in node.misfit, "declarationShape")
       \o If(~AdmitsPayload(row, node.payload), "declarationPayload")
       \o If("typeParameters" \in node.misfit, "notAnArray")
       \o If(Len(parameters) # row.arity, "declarationArity")
       \o BrokenValues(parameters)

BrokenUnion(node) ==
    LET types == In(node, "member") IN
    If(node.mode \notin UnionModes, "unionMode")
    \o If("types" \in node.misfit, "notAnArray")
    \o If(types = <<>>, "unionEmpty")
    \o BrokenValues(types)

BrokenEnum(node) ==
    LET members == In(node, "enum")
        Member(k) ==
            If("pair" \in members[k].misfit \/ "name" \in members[k].misfit, "enumMemberShape")
            \o If(\E j \in 1..(k - 1) : members[j].name = members[k].name, "enumMemberName")
            \o BrokenTyped(members[k].typed, EnumValueTypes, "enumMemberValue")
    IN If("enums" \in node.misfit, "notAnArray")
       \o If(members = <<>>, "enumEmpty")
       \o FlattenSeq([k \in DOMAIN members |-> Member(k)])

BrokenForm(node, form) ==
    CASE form \in {"keyword", "number"} -> <<>>
      [] form = "literal"     -> BrokenTyped(node.typed, LiteralTypes, "literalShape")
      [] form = "arrays"      -> BrokenArrays(node)
      [] form = "objects"     -> BrokenObjects(node)
      [] form = "declaration" -> BrokenDeclaration(node)
      [] form = "union"       -> BrokenUnion(node)
      [] form = "enum"        -> BrokenEnum(node)
      [] form = "reference"   -> If("$ref" \in node.misfit \/ node.ref = <<>>, "referenceName")
      [] form = "suspend"     -> BrokenValues(In(node, "thunk"))

\* The allowlist of declarations comes before the shape of the node.
Broken(node) ==
    LET undeclared == IF node.tag = "Declaration" THEN GateDeclarationRow(node) ELSE <<>> IN
    IF undeclared # <<>> THEN undeclared
    ELSE IF node.tag \notin DOMAIN NodeRows THEN <<"unadmittedNode">>
    ELSE LET row == NodeRows[node.tag] IN
         If(~(row.keys \subseteq node.has), "nodeKeys")
         \o BrokenChecks(node, row) \o BrokenForm(node, row.form)

RefuseBy(clause) == Clauses[clause]
AdmitNode(node) == IF Broken(node) = <<>> THEN "admitted" ELSE RefuseBy(Head(Broken(node)))

----------------------------------------------------------------------------
(* documentFromJson, on a document without a table.                        *)

RECURSIVE SubNodes(_)
SubNodes(node) ==
    {node} \union UNION {IF s.node = <<>> THEN {} ELSE SubNodes(s.node[1]) : s \in ToSet(node.slots)}
AllSlots(node) == UNION {ToSet(n.slots) : n \in SubNodes(node)}

\* Effect's own decoder: forms of its own, each of the shape it writes.
EffectTags == DOMAIN NodeRows \union {"Void", "Never"}
EffectReads(node) ==
    /\ \A n \in SubNodes(node) :
          /\ n.tag \in EffectTags /\ n.misfit = {}
          /\ n.tag \in DOMAIN NodeRows => NodeRows[n.tag].keys \subseteq n.has
          /\ n.tag = "Reference" => n.ref # <<>>
          /\ n.mode \in UnionModes
    /\ \A s \in AllSlots(node) :
          /\ s.misfit \subseteq {"name"}      \* a symbol
          /\ s.role = "element" => ElementKeys \subseteq s.has
          /\ s.role = "property" => PropertyKeys \subseteq s.has
          /\ s.role # "enum" => s.node # <<>>

\* The printer of canonical JSON throws on a number that is no safe integer.
Printable(node) ==
    \A v \in {n.typed : n \in SubNodes(node)} \union {s.typed : s \in AllSlots(node)} :
        v.carried # "fraction"

\* What Effect writes and the table does not ask for.
Excess(node) == \E n \in SubNodes(node) : "extra" \in n.has

RECURSIVE NormalizeRepresentationJson(_)
NormalizeRepresentationJson(node) ==
    LET within == [k \in DOMAIN node.slots |->
                      [node.slots[k] EXCEPT !.node =
                          IF @ = <<>> THEN @ ELSE <<NormalizeRepresentationJson(@[1])>>]]
        IsField(s) == s.role = "property"
    IN [node EXCEPT !.slots =
           IF node.tag = "Objects"
           THEN SelectSeq(within, LAMBDA s : ~IsField(s)) \o SortedByText(SelectSeq(within, IsField))
           ELSE within]

\* The lowering admits what the door does not, but for the allowlist.
RefuseUnknownDeclarations(node) ==
    IF \E n \in SubNodes(node) : n.tag = "Declaration" /\ GateDeclarationRow(n) # <<>>
    THEN RefuseBy("unknownDeclaration") ELSE "admitted"

DocumentFromJson(node, requireCanonicalOrder) ==
    LET verdict ==
            CASE ~EffectReads(node) -> RefuseBy("notASchema")
              [] EffectReads(node) /\ ~Printable(node) -> "TypeError"
              [] EffectReads(node) /\ Printable(node) /\ Excess(node) -> RefuseBy("excessProperties")
              [] OTHER -> IF requireCanonicalOrder THEN AdmitNode(node)
                          ELSE RefuseUnknownDeclarations(NormalizeRepresentationJson(node))
    IN [verdict |-> verdict,
        document |-> IF verdict = "admitted" THEN <<NormalizeRepresentationJson(node)>> ELSE <<>>]

FromJson(node)         == DocumentFromJson(node, TRUE)
SnapshotDocument(node) == DocumentFromJson(node, FALSE)

----------------------------------------------------------------------------
(* duplicateReferenceKey: where the scan is in the text of a payload, and  *)
(* the keys each object has had.  The names of the two members that lead   *)
(* to the table are one letter each here.                                  *)

ValueName      == <<118>>
ReferencesName == <<114>>

Digit(c) == CASE c \in 48..57 -> c - 48 [] c \in 65..70 -> c - 55 [] c \in 97..102 -> c - 87
Escapes    == 98 :> 8 @@ 102 :> 12 @@ 110 :> 10 @@ 114 :> 13 @@ 116 :> 9    \* b f n r t

\* Seeded fault: names are compared as they are spelled.
LiteralAsSpelled(source) == source

RECURSIVE StringLiteral(_)
StringLiteral(source) ==
    CASE source = <<>> -> <<>>
      [] source # <<>> /\ source[1] # Backslash -> <<source[1]>> \o StringLiteral(Tail(source))
      [] source # <<>> /\ source[1] = Backslash /\ source[2] = LowerU ->
             <<FoldLeft(LAMBDA n, c : 16 * n + Digit(c), 0, SubSeq(source, 3, 6))>>
             \o StringLiteral(SubSeq(source, 7, Len(source)))
      [] OTHER ->
             <<IF source[2] \in DOMAIN Escapes THEN Escapes[source[2]] ELSE source[2]>>
             \o StringLiteral(SubSeq(source, 3, Len(source)))

\* The end of the string that is open at an index.
RECURSIVE EndOfString(_, _)
EndOfString(text, at) ==
    IF at > Len(text) \/ text[at] = Quote THEN at
    ELSE EndOfString(text, IF text[at] = Backslash THEN at + 2 ELSE at + 1)

Container(path, object) == [path |-> path, object |-> object, keys |-> {}]
InTable(frame) == frame.path = <<ValueName, ReferencesName>>

\* pending is the last string read and key what the next container sits
\* under, each of them none or one.
RECURSIVE Scan(_, _, _, _, _)
Scan(text, at, frames, pending, key) ==
    IF at > Len(text) THEN <<>>
    ELSE LET char == text[at]
             end  == EndOfString(text, at + 1)
             path == IF frames = <<>> THEN <<>>
                     ELSE Append(Last(frames).path, IF key = <<>> THEN <<>> ELSE key[1])
             isKey == frames # <<>> /\ Last(frames).object /\ pending # <<>>
             seen == [frames EXCEPT ![Len(frames)].keys = @ \union {pending[1]}]
         IN CASE char = Quote ->
                     Scan(text, end + 1, frames,
                          <<StringLiteral(SubSeq(text, at + 1, end - 1))>>, key)
              [] char \in {OpenBrace, OpenList} ->
                     Scan(text, at + 1, Append(frames, Container(path, char = OpenBrace)), <<>>, <<>>)
              [] char \in {CloseBrace, CloseList} ->
                     Scan(text, at + 1, Front(frames), <<>>, <<>>)
              [] char = Colon /\ isKey ->
                     IF InTable(Last(frames)) /\ pending[1] \in Last(frames).keys THEN pending
                     ELSE Scan(text, at + 1, seen, <<>>, pending)
              [] char = Colon /\ ~isKey -> Scan(text, at + 1, frames, <<>>, key)
              [] char = Comma -> Scan(text, at + 1, frames, <<>>, <<>>)
              [] OTHER -> Scan(text, at + 1, frames, pending, key)

DuplicateReferenceKey(text) == Scan(text, 1, <<>>, <<>>, <<>>)
AdmitPayloadSpelling(text) ==
    IF DuplicateReferenceKey(text) = <<>> THEN "admitted" ELSE RefuseBy("duplicateReferenceKey")

----------------------------------------------------------------------------
(* The codes a constructor of the language spells, and no others.          *)

Clean(node) == [node EXCEPT !.has = @ \ {"annotations"}]

RECURSIVE Canonical(_)
Canonical(node) ==
    LET n == Clean(node)
        Nested(s) == s.node # <<>> /\ Canonical(s.node[1])
        Whole(role) == \A s \in ToSet(n.slots) : s = Slot(role, s.name, s.node) /\ Nested(s)
        Names == [k \in DOMAIN n.slots |-> n.slots[k].name]
    IN \/ n \in {NodeOf(t) : t \in {"Null", "Boolean", "String", "Number"}}
       \/ \E v \in {Typed("boolean", "boolean"), Typed("number", "safeInteger"),
                    Typed("string", "string")} :
             n = [NodeOf("Literal") EXCEPT !.typed = v]
       \/ /\ n = With("Arrays", n.slots) /\ n.slots # <<>>
          /\ \A k \in DOMAIN n.slots :
                LET s == n.slots[k] IN
                /\ s.role = "element" \/ (s.role = "rest" /\ k = Len(n.slots))
                /\ s = Slot(s.role, s.name, s.node) /\ Nested(s)
       \/ /\ n = With("Objects", n.slots) /\ Whole("property")
          /\ \A j, k \in DOMAIN Names : j < k => Before(Names[j], Names[k])
       \/ \E id \in DOMAIN Declarations, payload \in {NullPayload, 0, 255} :
             /\ n = [With("Declaration", n.slots) EXCEPT !.id = id, !.payload = payload]
             /\ Whole("parameter")
             /\ Len(n.slots) = IF id = "effect/schema/Option" THEN 1 ELSE 0
             /\ (payload = NullPayload) # (id = "foldlab/cas/ref")
       \/ \E mode \in {"anyOf", "oneOf"} :
             /\ n = [With("Union", n.slots) EXCEPT !.mode = mode]
             /\ Whole("member") /\ n.slots # <<>>
       \/ /\ n = With("Enum", n.slots) /\ n.slots # <<>>
          /\ IsInjective(Names)
          /\ \A s \in ToSet(n.slots) :
                \E v \in {Typed("string", "string"), Typed("number", "safeInteger")} :
                    s = [Slot("enum", s.name, <<>>) EXCEPT !.typed = v]
       \/ n = [NodeOf("Reference") EXCEPT !.ref = n.ref] /\ n.ref # <<>>
       \/ n = With("Suspend", n.slots) /\ Whole("thunk") /\ Len(n.slots) = 1

\* What each name of a refusal is about.
Flawed(node, refusal) ==
    LET flaws == UNION {ToSet(Broken(n)) : n \in SubNodes(node)} IN
    CASE refusal = "admitted"  -> TRUE
      [] refusal = "TypeError" -> ~Printable(node)
      [] OTHER -> \/ refusal = "notASchema" /\ (~EffectReads(node) \/ Excess(node))
                  \/ \E clause \in flaws : Clauses[clause] = refusal

\* A code with the fields of its objects in any order.
RECURSIVE Reorderings(_)
Reorderings(node) ==
    LET Nested(s) == IF s.node = <<>> THEN {<<>>} ELSE {<<m>> : m \in Reorderings(s.node[1])}
        places  == DOMAIN node.slots
        nested  == {f \in [places -> UNION {Nested(s) : s \in ToSet(node.slots)}] :
                       \A k \in places : f[k] \in Nested(node.slots[k])}
        orders  == {p \in [places -> places] :
                       IsInjective(p) /\ (node.tag = "Objects" \/ \A k \in places : p[k] = k)}
    IN {[node EXCEPT !.slots =
            [k \in places |-> [node.slots[p[k]] EXCEPT !.node = f[p[k]]]]] :
        f \in nested, p \in orders}

\* The order of the names is the order of their texts.
PlainNames(node) ==
    \A s, t \in AllSlots(node) : Before(s.name, t.name) => Before(Spelled(s.name), Spelled(t.name))

DistinctFields(node) ==
    \A n \in SubNodes(node) : n.tag = "Objects" => IsInjective([k \in DOMAIN n.slots |-> n.slots[k].name])

(* What a schema is stored as, and how it reads back: put lowers, get is   *)
(* a door.                                                                 *)
Stored(node) == SnapshotDocument(node).document
OfTheLanguage(node) == \E m \in Reorderings(node) : Canonical(m)
ReadsBack(node) == \A stored \in ToSet(Stored(node)) : FromJson(stored).document = <<stored>>

(***************************************************************************)
(* A schema has one spelling and the door admits that one alone, naming a  *)
(* flaw the code has otherwise; what order its fields were declared in     *)
(* never shows in what is stored, and what is stored reads back, where     *)
(* texts of names are in the order of the names.                           *)
(***************************************************************************)
CodeExact(node) ==
    LET answer == FromJson(node) IN
    /\ answer.verdict = "admitted"
          <=> EffectReads(node) /\ Printable(node) /\ ~Excess(node) /\ Canonical(node)
    /\ Flawed(node, answer.verdict)
    /\ LET orders == Reorderings(node) IN
       /\ \A m, n \in orders :
             FromJson(m).verdict = "admitted" /\ FromJson(n).verdict = "admitted" => m = n
       /\ DistinctFields(node) => \A m \in orders : Stored(m) = Stored(node)
       /\ \A stored \in ToSet(Stored(node)) : Stored(stored) = <<stored>>
    /\ OfTheLanguage(node) /\ PlainNames(node) => ReadsBack(node)

----------------------------------------------------------------------------
(* Texts, rendered from what they say: a name may be spelled in more ways. *)

Json(is, spelled, members) == [is |-> is, spelled |-> spelled, members |-> members]
Member(name, spelled, value) == [name |-> name, spelled |-> spelled, value |-> value]

Quoted(spelled) == <<Quote>> \o spelled \o <<Quote>>
Joined(texts) ==
    FlattenSeq([k \in DOMAIN texts |-> IF k = 1 THEN texts[k] ELSE <<Comma>> \o texts[k]])

RECURSIVE Text(_)
Text(json) ==
    CASE json.is = "string" -> Quoted(json.spelled)
      [] json.is = "array"  ->
             <<OpenList>> \o Joined([k \in DOMAIN json.members |-> Text(json.members[k].value)])
             \o <<CloseList>>
      [] json.is = "object" ->
             <<OpenBrace>>
             \o Joined([k \in DOMAIN json.members |->
                   Quoted(json.members[k].spelled) \o <<Colon>> \o Text(json.members[k].value)])
             \o <<CloseBrace>>

MembersOf(json, name) ==
    IF json.is # "object" THEN {} ELSE {m.value : m \in {x \in ToSet(json.members) : x.name = name}}

Tables(json) == UNION {MembersOf(v, ReferencesName) : v \in MembersOf(json, ValueName)}

(***************************************************************************)
(* The scan refuses a payload exactly when a references table of it names  *)
(* an entry twice, however the two are spelled and whatever stands in the  *)
(* strings around them: a reader that keeps the first of two and one that  *)
(* keeps the last read the same table from what is let through.            *)
(***************************************************************************)
SpellingExact(json) ==
    AdmitPayloadSpelling(Text(json)) = "admitted"
        <=> \A t \in Tables(json) :
               t.is = "object" => IsInjective([k \in DOMAIN t.members |-> t.members[k].name])
----------------------------------------------------------------------------
(* A code or a text that someone presents, looked at once.                 *)

Presents(codes, payloads) == [code |-> codes, payload |-> payloads]
NothingShown == Presents(<<>>, <<>>)

DoorInit ==
    shown \in {NothingShown} \union {Presents(<<c>>, <<>>) : c \in Codes}
                 \union {Presents(<<>>, <<p>>) : p \in Payloads}
LookedAt == shown # NothingShown /\ shown' = NothingShown

DoorExact ==
    /\ \A code \in ToSet(shown.code) : CodeExact(code)
    /\ \A payload \in ToSet(shown.payload) : SpellingExact(payload)

(***************************************************************************)
(* The test "schemas are content: put, address identity, exact frozen get":*)
(* what put stores of a schema of the language, get answers.               *)
(***************************************************************************)
StoredReadsBack ==
    \A code \in ToSet(shown.code) : OfTheLanguage(code) => ReadsBack(code)
=============================================================================
