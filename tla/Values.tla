------------------------------- MODULE Values -------------------------------
(***************************************************************************)
(* Typed values as content (Value.ts, refMarkers.ts): a value, encoded to  *)
(* JSON with its references spelled as sentinels, becomes a payload whose  *)
(* markers number the entries of the node's reference array; the reading   *)
(* of a node is the exact inverse or a refusal.                            *)
(*                                                                         *)
(* A JSON object is the sequence of its members as they were inserted; a   *)
(* key is its place in codepoint order, the two reserved ones first.       *)
(***************************************************************************)
EXTENDS Programs, TLC

CONSTANTS MaxSafe    \* largest integer canonical JSON spells

LinkKey == 0
RefKey  == 1
IdKey   == 2
TagKey  == 3

Json(shape, num, id, items) == [shape |-> shape, num |-> num, id |-> id, items |-> items]

Number(n)    == Json("number", n, NoNode, <<>>)
Address(id)  == Json("address", 0, id, <<>>)
List(values) == Json("list", 0, NoNode, [k \in DOMAIN values |-> [key |-> 0, value |-> values[k]]])
Object(members) == Json("object", 0, NoNode, members)

Member(key, value) == [key |-> key, value |-> value]

Sentinel(id, tag) ==
    Object(<<Member(LinkKey, Object(<<Member(IdKey, Address(id)), Member(TagKey, Number(tag))>>))>>)
Marker(k) == Object(<<Member(RefKey, Number(k))>>)

Has(t, key) == t.shape = "object" /\ \E k \in DOMAIN t.items : t.items[k].key = key
Get(t, key) == LET k == CHOOSE j \in DOMAIN t.items : t.items[j].key = key IN t.items[k].value

----------------------------------------------------------------------------
(* Canonical JSON. *)

\* Seeded fault: members are walked in the order they were inserted.
Inserted(t) == t.items

CanonicalItems(t) ==
    IF t.shape = "object" THEN SortSeq(t.items, LAMBDA a, b : a.key < b.key) ELSE t.items

RECURSIVE CanonicalJson(_)
CanonicalJson(t) ==
    LET items == SortSeq(t.items, LAMBDA a, b : t.shape = "object" /\ a.key < b.key)
    IN [t EXCEPT !.items = [k \in DOMAIN items |->
           [items[k] EXCEPT !.value = CanonicalJson(items[k].value)]]]

RECURSIVE Spellable(_)
Spellable(t) ==
    /\ t.shape = "number" => t.num <= MaxSafe
    /\ \A k \in DOMAIN t.items : Spellable(t.items[k].value)

----------------------------------------------------------------------------
(* The two walks.  Both carry the references met so far, in order. *)

Walked(tree, refs) == [ok |-> TRUE, tree |-> tree, refs |-> refs]
Violation          == [ok |-> FALSE, tree |-> Number(0), refs |-> <<>>]

\* Walk the items of t in canonical order, each with what the last one left.
WalkItems(walk(_, _), t, refs) ==
    FoldLeft(LAMBDA acc, item :
                 LET w == walk(item.value, acc.refs) IN
                 IF ~acc.ok \/ ~w.ok THEN Violation
                 ELSE Walked([acc.tree EXCEPT !.items =
                                 Append(@, [item EXCEPT !.value = w.tree])], w.refs),
             Walked([t EXCEPT !.items = <<>>], refs), CanonicalItems(t))

\* The body of a sentinel: members beside the two are read past.
IsBody(t) ==
    /\ Has(t, IdKey) /\ Has(t, TagKey)
    /\ Get(t, IdKey).shape = "address"
    /\ Get(t, TagKey).shape = "number" /\ Get(t, TagKey).num < ByteBound

RECURSIVE Markerize(_, _)
Markerize(t, refs) ==
    IF Has(t, LinkKey) THEN
        LET body == Get(t, LinkKey) IN
        IF Len(t.items) = 1 /\ IsBody(body)
        THEN Walked(Marker(Len(refs)),
                    Append(refs, RefTo(Get(body, IdKey).id, Get(body, TagKey).num)))
        ELSE Violation
    ELSE IF Has(t, RefKey) THEN Violation
    ELSE WalkItems(Markerize, t, refs)

\* The forced index: the next marker is the next reference left.
RECURSIVE ResolveMarkers(_, _)
ResolveMarkers(t, refs) ==
    IF Has(t, RefKey) THEN
        LET index == Get(t, RefKey) IN
        IF /\ Len(t.items) = 1 /\ index.shape = "number"
           /\ refs # <<>> /\ index.num = Head(refs).at
        THEN Walked(Sentinel(Head(refs).id, Head(refs).expectedTag), Tail(refs))
        ELSE Violation
    ELSE IF Has(t, LinkKey) THEN Violation
    ELSE WalkItems(ResolveMarkers, t, refs)

\* A node's references, each with its place from zero.
Placed(refs) == [k \in DOMAIN refs |->
    [id |-> refs[k].id, expectedTag |-> refs[k].expectedTag, at |-> k - 1]]

----------------------------------------------------------------------------
(* A projection: its kind tag, its revision, and what its schema asks of   *)
(* references, the tag they are declared at or that it has no opinion.     *)

AnyTag == -1

\* What the codec of the schema accepts of the encoded form.
RECURSIVE Fits(_, _)
Fits(p, t) ==
    IF Has(t, LinkKey) /\ p.refTag # AnyTag
    THEN Has(Get(t, LinkKey), TagKey) /\ Get(Get(t, LinkKey), TagKey) = Number(p.refTag)
    ELSE \A k \in DOMAIN t.items : Fits(p, t.items[k].value)

Envelope(revision, value) == [revision |-> revision, value |-> value]

\* put: encode, markerize, print, and the node with its references.
EncodesValue(p, t) == Fits(p, t) /\ Markerize(t, <<>>).ok /\ Spellable(t)

ValueNode(p, t) ==
    LET w == Markerize(t, <<>>)
    IN NodeOf(0, p.kindTag, Envelope(p.revision, CanonicalJson(w.tree)), w.refs)

\* decodedEnvelope: canonical JSON of an envelope at the revision, exactly.
IsEnvelope(n, revision) ==
    /\ DOMAIN n.payload = {"revision", "value"}
    /\ n.payload.value = CanonicalJson(n.payload.value)
    /\ Spellable(n.payload.value)
    /\ n.payload.revision = revision

\* get: the value of a resident node, or a refusal.
GetValue(resident, p, n) ==
    IF n.version = 0 /\ n.tag = p.kindTag /\ IsEnvelope(n, p.revision) /\ n \in resident
    THEN LET w == ResolveMarkers(n.payload.value, Placed(n.refs))
         IN IF w.ok /\ w.refs = <<>> /\ Fits(p, w.tree) THEN w ELSE Violation
    ELSE Violation
=============================================================================
