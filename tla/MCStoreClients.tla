-------------------------- MODULE MCStoreClients --------------------------
(***************************************************************************)
(* Two clients, tables with a shared put, a duplicate, a literal load, a   *)
(* wrongly kinded operand and fields wider than the wire, and sources of   *)
(* none, one, two, three and too many chunks, cut in different parts; and  *)
(* values of three projections, with shared and repeated references.       *)
(*                                                                         *)
(* Or, before any of this, someone prints modules: over every guarded      *)
(* table of three names of the kind Effect allocates, an entry mentioning  *)
(* each name at once, later or not at all, among them the three entries a  *)
(* linked list is lowered to after its revival, of which a plain one reads *)
(* one on a cycle; and over two bindings that share two names.             *)
(***************************************************************************)
EXTENDS StoreClients, SchemaSource

CONSTANTS c1, c2

Leaf == PutLine(0, 1, <<1>>, <<>>)
LeafMade == LineNode(Leaf, <<>>)

MCTables == {
    <<Leaf, PutLine(0, 2, <<>>, <<Operand(1, Answer(0))>>)>>,
    <<Leaf, Leaf, LoadLine(Answer(1))>>,
    <<LoadLine(Literal(LeafMade)), PutLine(0, 2, <<3>>, <<Operand(1, Literal(LeafMade))>>)>>,
    <<Leaf, PutLine(0, 2, <<>>, <<Operand(3, Answer(0))>>)>>,
    <<Leaf, PutLine(0, 2, <<>>, <<Operand(1, Answer(4))>>)>>,
    <<Leaf, LoadLine(Answer(2))>>,
    <<PutLine(16, 1, <<1>>, <<>>)>>}

MCSources == {<<>>, <<<<1>>, <<2, 3>>>>, <<<<1, 2>>, <<3>>>>, <<<<1, 2, 3, 4>>, <<5>>>>,
              <<<<1, 1>>, <<1, 1, 1, 1>>>>}

\* A cont node that miscounts its lines, over a step with a field too many,
\* and manifests over a tree whose second leaf stands at the wrong index and
\* over a leaf that a longer blob would have as a parent.
OddStep == NodeOf(0, StepTag, Payload(<<1, 1, 0, 0>>, <<>>), <<>>)
Miscounted == NodeOf(0, ContTag, Payload(<<2>>, <<>>), <<RefTo(OddStep, StepTag)>>)
NoCode == NodeOf(0, ContTag, Payload(<<1>>, <<>>), <<RefTo(OddStep, StepTag)>>)
Leaf0 == LeafNode(0, <<1, 2>>)
Misplaced == ParentNode(Leaf0, Leaf0)

\* A table another writer stored, the second of MCTables.
Shared == <<Leaf, Leaf, LoadLine(Answer(1))>>
SharedSteps == [k \in DOMAIN Shared |-> StepNode(Shared[k])]

\* Two projections of one kind, one of them at a later revision, and one whose
\* references must be of the first's.
Plain == [kindTag |-> 1, revision |-> 1, refTag |-> AnyTag]
Later == [kindTag |-> 1, revision |-> 2, refTag |-> AnyTag]
Holder == [kindTag |-> 2, revision |-> 1, refTag |-> 1]

Five == Object(<<Member(4, Number(5))>>)
FiveMade == ValueNode(Plain, Five)
SixMade == ValueNode(Plain, Number(6))
Pair(a, b) == Object(<<Member(5, a), Member(4, b)>>)
Link(id) == Sentinel(id, 1)
Loose == Object(<<Member(LinkKey, Object(<<Member(IdKey, Address(SixMade)),
                                            Member(TagKey, Number(1)),
                                            Member(4, Number(3))>>))>>)

MCTyped == {[projection |-> p[1], value |-> p[2]] : p \in
    {<<Plain, Five>>, <<Later, Five>>,
     <<Holder, Pair(Link(FiveMade), Link(SixMade))>>,
     <<Holder, Object(<<Member(4, Link(SixMade)), Member(5, Link(FiveMade))>>)>>,
     <<Plain, List(<<Link(SixMade), Loose>>)>>,
     <<Plain, Pair(Number(8), Marker(0))>>}}

\* Nodes no put makes: markers out of order, one marker for two references, a
\* reference without a marker, a sentinel in a payload, members out of order.
Odd(value, refs) == NodeOf(0, 1, Envelope(1, value), refs)
ToSix == RefTo(SixMade, 1)
OddValues ==
    {Odd(List(<<Marker(1), Marker(0)>>), <<ToSix, ToSix>>),
     Odd(List(<<Marker(0), Marker(0)>>), <<ToSix, ToSix>>),
     Odd(List(<<Marker(0)>>), <<ToSix, ToSix>>),
     Odd(Marker(0), <<>>),
     Odd(Link(SixMade), <<>>),
     Odd(Pair(Number(1), Number(2)), <<>>)}

MCForeign ==
    OddValues \cup {SixMade} \cup
    ToSet(SharedSteps) \cup {TableNode(SharedSteps)} \cup
    {OddStep, Miscounted, NoCode, ChunkNode(<<1, 2>>), Leaf0, Misplaced,
     ManifestNode(4, 2, Misplaced), ManifestNode(3, 2, Leaf0)}

ClientSymmetry == Permutations(Clients)

Names3 == {"Objects_", "Objects__1", "Suspend_"}
Names2 == {"Objects_", "Suspend_"}

Mention(name, how) ==
    CASE how = "now"   -> <<Named(name)>>
      [] how = "later" -> <<Suspend(Named(name))>>
      [] how = "never" -> <<>>

CodesOver(names) ==
    LET order == SetToSeq(names) IN
    {Union(<<Keyword>> \o FlattenSeq([k \in DOMAIN order |-> Mention(order[k], f[order[k]])])) :
        f \in [names -> {"now", "later", "never"}]}

TablesOver(names) ==
    {t \in UNION {[D -> CodesOver(names)] : D \in SUBSET names} : Unguarded(t) = {}}

List1(t) == Binding("List", Document(t, Named("Objects_")))
Tail1(t) == Binding("Tail", Document(t, Union(<<Keyword, Suspend(Named("Suspend_"))>>)))

MCPrints ==
    {<<>>}
    \union {<<List1(t)>> : t \in TablesOver(Names3)}
    \union {<<List1(s), Tail1(t)>> : s, t \in TablesOver(Names2)}
    \union {<<Tail1(s), Tail1(t)>> : s, t \in TablesOver({"Suspend_"})}
    \union {<<Binding(n, Document(t, Keyword))>> : n \in Names2, t \in TablesOver(Names2)}

MCInit == Init /\ SourceInit

MCNext ==
    \/ calls = 0 /\ SourceNext /\ UNCHANGED vars
    \/ printed = NothingPrinted /\ Next /\ UNCHANGED printed

MCSpec == MCInit /\ [][MCNext]_<<vars, printed>>
===========================================================================
