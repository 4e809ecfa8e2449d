---------------------------- MODULE MCGraphWalk ----------------------------
(***************************************************************************)
(* GraphWalk and SchemaWalk on a shared leaf: top refers to left and to    *)
(* the leaf itself, left to the leaf; skew refers to left and declares the *)
(* wrong kind for the leaf that left shares with it, so only a host that   *)
(* lies serves it.  odd has an unknown scheme version.  Kind 3 is the kind *)
(* of schemas: leaf is one of the retired revision, top names leaf in its  *)
(* document and leaves T to be bound, and code names top.  past is one of  *)
(* the retired revision that the door of today does not admit.             *)
(***************************************************************************)
EXTENDS SchemaWalk, SchemaDoor

CONSTANTS leaf, left, top, skew, odd, junk, code, past, T, U

MCIds   == {leaf, left, top, skew, odd, junk, code, past}
MCNodes == MCIds \ {junk}
MCKnown == {leaf, left, top, skew, code, past}
MCTags  == {1, 2, 3}
MCTagOf == leaf :> 3 @@ left :> 2 @@ top :> 3 @@ skew :> 3 @@ odd :> 1 @@ code :> 3 @@ past :> 3
MCLiable ==
    {left, top, skew} \X {Absent, leaf} \union {left, top} \X {left, junk} \union {<<top, odd>>}
    \union {<<skew, skew>>}
Ref(i, t) == [id |-> i, expectedTag |-> t]
MCRefsOf ==
    leaf :> <<>>
    @@ left :> <<Ref(leaf, 3)>>
    @@ top :> <<Ref(left, 2), Ref(leaf, 3)>>
    @@ skew :> <<Ref(left, 2), Ref(leaf, 2)>>
    @@ odd :> <<>>
    @@ code :> <<>>
    @@ past :> <<>>

A == <<97>>
NoTable == [n \in {} |-> Keyword]

MCDocOf ==
    leaf :> [Document(NoTable, Struct(<<Field(A, Keyword)>>)) EXCEPT !.revision = 0]
    @@ past :> [Document(NoTable, Struct(<<Field(A, Integer)>>)) EXCEPT !.revision = 0]
    @@ top :> Document(NoTable, Union(<<Declared(<<Suspend(Named(leaf))>>), Named(T)>>))
    @@ code :> Document(U :> Suspend(Named(top)), Union(<<Named(U), Named(leaf)>>))
    @@ [i \in {left, skew, odd, junk} |-> NoDocument]

(* The tables: names bound as an address is, plain names bound to what     *)
(* closes a cycle or does not, and none.                                   *)
MCPresented ==
    {Document(T :> Keyword, Named(code)),
     Document(T :> Declared(<<Named(top)>>), Keyword),  \* T, top, T
     Document(T :> Suspend(Named(top)), Named(T)),
     Document(U :> Keyword, Named(code)),               \* U has two codes
     Document(top :> Keyword, Named(code)),             \* top is never read
     Document(NoTable, Union(<<Named(leaf), Named(past)>>)),
     Document(NoTable, Struct(<<Field(A, Named(leaf)), Field(A \o <<32>>, Keyword)>>)),
     Document(NoTable, Union(<<Named(leaf), Named(left)>>))}

----------------------------------------------------------------------------
(* Codes for the door: every form with one thing amiss and without, in     *)
(* every place of every form that nests; names with a quote, a backslash   *)
(* or a space in them; and texts with a table that repeats a name under    *)
(* two spellings, or elsewhere than in the table.                          *)

FieldNames == {<<>>, <<32>>, A, A \o <<32>>, A \o <<98>>, <<66>>, <<34>>, <<92>>}

Literal(type, carried) == [NodeOf("Literal") EXCEPT !.typed = Typed(type, carried)]
Enumerated(name, type, carried) ==
    [Slot("enum", name, <<>>) EXCEPT !.typed = Typed(type, carried)]
Declares(id, payload, slots) ==
    [With("Declaration", slots) EXCEPT !.id = id, !.payload = payload]
In1(role, n) == Slot(role, <<>>, <<n>>)

Simple ==
    {NodeOf(t) : t \in {"Null", "Boolean", "Number", "Void", "none"}}
    \union {Literal(v[1], v[2]) : v \in {<<"boolean", "boolean">>, <<"number", "safeInteger">>,
                <<"number", "fraction">>, <<"bigint", "string">>, <<"string", "boolean">>}}
    \union {[NodeOf("Reference") EXCEPT !.ref = r] : r \in {<<>>, A}}
    \union {[NodeOf("String") EXCEPT !.checks = <<"isInt">>], [NodeOf("Number") EXCEPT !.checks = <<>>],
            [NodeOf("Number") EXCEPT !.checks = <<"isInt", "isInt">>],
            [NodeOf("Null") EXCEPT !.has = {"_tag"}], [NodeOf("Null") EXCEPT !.misfit = {"checks"}],
            [NodeOf("Null") EXCEPT !.has = @ \union {"extra"}],
            [NodeOf("Null") EXCEPT !.has = @ \union {"annotations"}]}
    \union {With("Enum", ms) : ms \in {<<>>} \union
               {<<Enumerated(A, "string", "string")>>, <<Enumerated(A, "number", "fraction")>>,
                <<Enumerated(A, "boolean", "boolean")>>,
                <<Enumerated(A, "string", "string"), Enumerated(A, "number", "safeInteger")>>,
                <<Enumerated(A, "string", "string"), Enumerated(<<66>>, "string", "string")>>}}
    \union {Declares(id, p, <<>>) : id \in {"foldlab/cas/ref", "effect/schema/Date", "effect/schema/Map"},
                                    p \in {NullPayload, 0, 255, 256}}
    \union {With(t, <<>>) : t \in {"Union", "Arrays", "Objects"}}

Inner == {NodeOf("Null"), NodeOf("Void"), With("Union", <<>>), Declares("effect/schema/Map", 0, <<>>),
          NodeOf("Number")}
Property(name, n) == Slot("property", name, <<n>>)

Nesting ==
    {With("Suspend", <<In1("thunk", n)>>) : n \in Simple}
    \union {[With("Union", <<In1("member", m), In1("member", n)>>) EXCEPT !.mode = mode] :
               m, n \in Inner, mode \in {"oneOf", "all"}}
    \union {With("Arrays", <<In1(r, m), In1("rest", n)>>) : r \in {"element", "rest"}, m, n \in Inner}
    \union {With("Arrays", <<[In1("element", NodeOf("Null")) EXCEPT !.has = h]>>) :
               h \in {{"type"}, {"type", "isOptional", "annotations"}}}
    \union {With("Arrays", <<In1("rest", n)>>) : n \in Simple}
    \union {Declares("effect/schema/Option", p, ps) :
               p \in {NullPayload, 1},
               ps \in {<<In1("parameter", n)>> : n \in Inner}
                   \union {<<In1("parameter", m), In1("parameter", n)>> : m, n \in Inner}}
    \union {With("Objects", <<s, In1("index", NodeOf("Null"))>>) :
               s \in {Property(A, NodeOf("Null")), In1("index", NodeOf("Null"))}}
    \union {With("Objects", <<[Property(A, NodeOf("Null")) EXCEPT !.mutable = TRUE]>>),
            With("Objects", <<[Property(A, NodeOf("Null")) EXCEPT !.misfit = {"name"}]>>)}

Objects(names, n) == With("Objects", [k \in DOMAIN names |-> Property(names[k], n)])
Structs ==
    {Objects(<<x, y>>, n) : x, y \in FieldNames, n \in {NodeOf("Null"), NodeOf("Void")}}
    \union {Objects(<<x, y, z>>, NodeOf("Null")) : x, y, z \in {A, <<66>>, A \o <<98>>, A \o <<32>>}}
    \union {Objects(<<x, y>>, Objects(<<y, x>>, NodeOf("Null"))) : x, y \in {A, <<66>>, <<34>>}}

MCCodes == Simple \union Nesting \union Structs

JNull == Json("string", <<>>, <<>>)
Object(members) == Json("object", <<>>, members)
Array(values) == Json("array", <<>>, [k \in DOMAIN values |-> Member(<<>>, <<>>, values[k])])
Plainly(name, value) == Member(name, name, value)

\* One name under all its spellings, and names that look like one another.
Keys ==
    {<<A, A>>, <<A, <<92, 117, 48, 48, 54, 49>>>>, <<<<34>>, <<92, 34>>>>,
     <<<<34>>, <<92, 117, 48, 48, 50, 50>>>>, <<<<92>>, <<92, 92>>>>, <<<<10>>, <<92, 110>>>>,
     <<<<110>>, <<110>>>>, <<<<10>>, <<92, 117, 48, 48, 48, 65>>>>, <<<<>>, <<>>>>,
     <<<<123>>, <<123>>>>}
TwoEntries ==
    {Object(<<Member(k[1], k[2], v), Member(l[1], l[2], JNull)>>) :
        k, l \in Keys, v \in {JNull, Json("string", <<92, 34, 58, 123>>, <<>>), Array(<<JNull>>)}}
Twice == Object(<<Plainly(A, JNull), Plainly(A, JNull)>>)

MCPayloads ==
    {Object(<<Plainly(ValueName, Object(<<Plainly(ReferencesName, t)>>))>>) : t \in TwoEntries}
    \union {Object(<<Plainly(ValueName, v)>>) :
        v \in {Twice, Array(<<Twice>>), Object(<<Plainly(A, Twice)>>), Object(<<>>),
               Object(<<Plainly(ReferencesName, Array(<<Twice>>))>>),
               Object(<<Plainly(ReferencesName, Object(<<Plainly(A, Twice)>>))>>),
               Object(<<Plainly(ReferencesName, Object(<<Plainly(A, Twice), Plainly(A, JNull)>>))>>),
               Object(<<Plainly(A, Twice), Plainly(ReferencesName, Twice)>>),
               Array(<<Object(<<Plainly(ReferencesName, Twice)>>)>>)}}
    \union {Twice, Array(<<Object(<<Plainly(ValueName, Twice)>>)>>),
            Object(<<Plainly(ReferencesName, Twice)>>),
            Object(<<Member(ValueName, <<92, 117, 48, 48, 55, 54>>,
                            Object(<<Plainly(ReferencesName, Twice)>>))>>)}

MCInit == SchemaInit /\ DoorInit /\ (shown = NothingShown \/ root = leaf)
MCNext == \/ LookedAt /\ UNCHANGED allVars
          \/ shown = NothingShown /\ ReadersNext /\ UNCHANGED shown
MCSpec == MCInit /\ [][MCNext]_<<allVars, shown>> /\ ReadersFairness
============================================================================
