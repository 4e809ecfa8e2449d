------------------------------ MODULE Schemas ------------------------------
(***************************************************************************)
(* Canonical schemas (CanonicalSchema.ts): the door that admits a stored   *)
(* document, what it answers in its place, and the search that decides     *)
(* whether a references table is guarded.                                  *)
(*                                                                         *)
(* A code is a tree of nodes [form, name, kids]; a document is a revision, *)
(* a references table from names to codes, and one root code.  The name of *)
(* a field is a text, a sequence of character codes.                       *)
(***************************************************************************)
EXTENDS Integers, FiniteSets, SequencesExt

CONSTANTS EmptyName   \* the name that names no entry

----------------------------------------------------------------------------
(* Names of fields have two orders, their own and that of their spelling   *)
(* in canonical JSON.                                                      *)

Quote     == 34
Backslash == 92

\* Texts in the order of their codes.
Before(s, t) ==
    \E n \in 0..(Len(t) - 1) :
        /\ n <= Len(s) /\ SubSeq(s, 1, n) = SubSeq(t, 1, n)
        /\ n < Len(s) => s[n + 1] < t[n + 1]

\* canonicalJson of a field's name, from the first character of the name on.
Spelled(name) ==
    FlattenSeq([k \in DOMAIN name |->
        IF name[k] \in {Quote, Backslash} THEN <<Backslash, name[k]>> ELSE <<name[k]>>])
    \o <<Quote>>

\* toSorted by the texts of the names, which keeps the order of equal ones.
SortedByText(fields) ==
    FoldLeft(LAMBDA sorted, f :
                 LET After(s) == Before(Spelled(f.name), Spelled(s.name))
                 IN SelectSeq(sorted, LAMBDA s : ~After(s)) \o <<f>> \o SelectSeq(sorted, After),
             <<>>, fields)

----------------------------------------------------------------------------
(* Codes and documents.                                                    *)

Code(form, name, kids) == [form |-> form, name |-> name, kids |-> kids]

Keyword           == Code("keyword", EmptyName, <<>>)
Unadmitted        == Code("unadmitted", EmptyName, <<>>)
Undeclared        == Code("undeclared", EmptyName, <<>>)
Declared(kids)    == Code("declaration", EmptyName, kids)   \* a row of one parameter
Integer           == Code("integer", EmptyName, <<>>)       \* of the retired revision
Ranged            == Code("ranged", EmptyName, <<>>)        \* a number under two checks
Union(kids)       == Code("union", EmptyName, kids)
Struct(kids)      == Code("objects", EmptyName, kids)
Field(name, code) == Code("field", name, <<code>>)          \* its name is a text
Named(name)       == Code("reference", name, <<>>)
Suspend(code)     == Code("suspend", EmptyName, <<code>>)

Document(references, representation) ==
    [revision |-> 1, references |-> references, representation |-> representation]

RECURSIVE IsCode(_)
IsCode(code) ==
    /\ code = Code(code.form, code.name, code.kids)
    /\ \A k \in DOMAIN code.kids : IsCode(code.kids[k])

IsDocument(document) ==
    LET codes == document.references IN
    /\ document = [Document(codes, document.representation)
                       EXCEPT !.revision = document.revision]
    /\ codes = [n \in DOMAIN codes |-> codes[n]] /\ \A n \in DOMAIN codes : IsCode(codes[n])
    /\ IsCode(document.representation)

----------------------------------------------------------------------------
(* admitNode: the first refusal the walk meets. *)

FirstRefusal(verdicts) ==
    LET bad == SelectSeq(verdicts, LAMBDA v : v # "admitted")
    IN IF bad = <<>> THEN "admitted" ELSE bad[1]

\* Field names in strict ascending order, each held against the one before.
OutOfOrder(fields, k) == k > 1 /\ ~Before(fields[k - 1].name, fields[k].name)

RECURSIVE NodeVerdict(_)
NodeVerdict(code) ==
    LET kids == [k \in DOMAIN code.kids |-> NodeVerdict(code.kids[k])] IN
    CASE code.form \in {"unadmitted", "integer", "ranged"} -> "notASchema"
      [] code.form = "undeclared"  -> "unknownDeclaration"
      [] code.form = "declaration" /\ Len(kids) # 1 -> "illFormed"
      [] code.form = "union" /\ kids = <<>> -> "illFormed"
      [] code.form = "reference" /\ code.name = EmptyName -> "illFormed"
      [] code.form = "objects" ->
             FirstRefusal(FlattenSeq([k \in DOMAIN kids |->
                 <<IF OutOfOrder(code.kids, k) THEN "illFormed" ELSE "admitted", kids[k]>>]))
      [] OTHER -> FirstRefusal(kids)

----------------------------------------------------------------------------
(* The names a code mentions, anywhere or at positions no Suspend guards. *)

RECURSIVE AllRefs(_)
AllRefs(code) ==
    IF code.form = "reference" THEN <<code.name>>
    ELSE FlattenSeq([k \in DOMAIN code.kids |-> AllRefs(code.kids[k])])

RECURSIVE BareRefs(_)
BareRefs(code) ==
    IF code.form = "suspend" THEN <<>>
    ELSE IF code.form = "reference" THEN <<code.name>>
    ELSE FlattenSeq([k \in DOMAIN code.kids |-> BareRefs(code.kids[k])])

\* settles: the search out of one name, with the names known to settle; it
\* answers whether the name does, and what it learned on the way.
RECURSIVE Settles(_, _, _, _)
Settles(references, fuel, name, settled) ==
    LET successors == IF name \in DOMAIN references THEN BareRefs(references[name]) ELSE <<>>
        searched ==
            FoldLeft(LAMBDA acc, next :
                         IF acc.ok THEN Settles(references, fuel - 1, next, acc.settled) ELSE acc,
                     [ok |-> TRUE, settled |-> settled], successors)
    IN CASE name \in settled -> [ok |-> TRUE, settled |-> settled]
         [] name \notin settled /\ fuel = 0 ->
                [ok |-> successors = <<>>,
                 settled |-> IF successors = <<>> THEN settled \union {name} ELSE settled]
         [] OTHER ->
                [searched EXCEPT !.settled = IF searched.ok THEN @ \union {name} ELSE @]

\* The names of the table that do not settle, with one memo for all of them.
Unguarded(references) ==
    LET names == SetToSeq(DOMAIN references) IN
    FoldLeft(LAMBDA acc, name :
                 LET s == Settles(references, Len(names), name, acc.settled)
                 IN [settled |-> s.settled,
                     names |-> IF s.ok THEN acc.names ELSE acc.names \union {name}],
             [settled |-> {}, names |-> {}], names).names

\* admitDocument: what is no code is refused at once, a discipline's refusal
\* is held until the table is known to be guarded.
AdmitDocument(document) ==
    LET names  == SetToSeq(DOMAIN document.references)
        walked == [k \in DOMAIN names |->
                      IF names[k] = EmptyName THEN "illFormed"
                      ELSE NodeVerdict(document.references[names[k]])]
                  \o <<NodeVerdict(document.representation)>>
        atOnce == FirstRefusal([k \in DOMAIN walked |->
                      IF walked[k] = "illFormed" THEN "admitted" ELSE walked[k]])
    IN IF atOnce # "admitted" THEN atOnce
       ELSE IF Unguarded(document.references) # {} THEN "unguardedCycle"
       ELSE FirstRefusal(walked)

----------------------------------------------------------------------------
(* fromEnvelope: what is answered is another document than what is stored. *)

\* legacySchema: the forms the retired revision spells.
RECURSIVE Legacy(_)
Legacy(code) ==
    /\ code.form \in {"keyword", "integer", "objects", "field"}
    /\ \A k \in DOMAIN code.kids : Legacy(code.kids[k])

\* The schema of today that one of those forms is read as.
RECURSIVE LegacySchema(_)
LegacySchema(code) ==
    IF code.form = "integer" THEN Ranged
    ELSE [code EXCEPT !.kids = [k \in DOMAIN @ |-> LegacySchema(@[k])]]

RECURSIVE Normalized(_)
Normalized(code) ==
    LET kids == [k \in DOMAIN code.kids |-> Normalized(code.kids[k])]
    IN [code EXCEPT !.kids = IF code.form = "objects" THEN SortedByText(kids) ELSE kids]

NormalDocument(document) ==
    Document([n \in DOMAIN document.references |-> Normalized(document.references[n])],
             Normalized(document.representation))

\* documentFromJson: the door judges what arrived and answers its normal
\* form; the lowering, by which a retired form comes in, only normalizes.
ThroughDoor(document) ==
    [verdict |-> AdmitDocument(document), document |-> NormalDocument(document)]

FromLegacy(document) ==
    [verdict |-> IF Legacy(document.representation) THEN "admitted" ELSE "notASchema",
     document |-> Document(document.references, Normalized(LegacySchema(document.representation)))]

\* fromEnvelope: the revision decides which reader a payload goes to.
FromEnvelope(document) ==
    CASE document.revision = 1 -> ThroughDoor(document)
      [] document.revision = 0 -> FromLegacy(document)
      [] OTHER -> [verdict |-> "wrongRevision", document |-> document]

----------------------------------------------------------------------------
(* Tables put together.                                                    *)

NamesOf(code) == ToSet(AllRefs(code))

\* One table over several, unless a name is bound to two codes.
TablesAgree(tables) ==
    \A s, t \in tables : \A n \in DOMAIN s \intersect DOMAIN t : s[n] = t[n]

UnionTable(tables) ==
    [n \in UNION {DOMAIN t : t \in tables} |->
        (CHOOSE t \in tables : n \in DOMAIN t)[n]]

(* The names a code needs before anything suspended in it is forced.       *)
RECURSIVE NeededAtOnce(_)
NeededAtOnce(code) ==
    CASE code.form = "suspend"   -> {}
      [] code.form = "reference" -> {code.name}
      [] OTHER -> UNION {NeededAtOnce(code.kids[k]) : k \in DOMAIN code.kids}
============================================================================
