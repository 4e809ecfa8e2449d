---------------------------- MODULE SchemaSource ----------------------------
(***************************************************************************)
(* The source register (Materialize.ts, source): one TypeScript module for *)
(* a list of bindings, which declares one table over all of them and then  *)
(* the bindings.                                                           *)
(*                                                                         *)
(* A binding holds a revived schema, and what is printed is the schema     *)
(* lowered once more: Effect names the entries of that table anew and may  *)
(* split one into several (SchemaReferenceAssembly.test.ts), so it is not  *)
(* the table of the document it was revived from.  The lowering is not     *)
(* part of this code: a binding holds any document it may answer.          *)
(***************************************************************************)
EXTENDS Schemas

CONSTANT Prints   \* the lists of bindings that callers print

Binding(name, document) == [name |-> name, document |-> document]

ASSUME SourceAssumption ==
    \A bindings \in Prints : \A k \in DOMAIN bindings :
        /\ bindings[k] = Binding(bindings[k].name, bindings[k].document)
        /\ IsDocument(bindings[k].document)
        /\ Unguarded(bindings[k].document.references) = {}

VARIABLE printed

----------------------------------------------------------------------------
(* What the emitter reads off a table.                                     *)

EagerNamesOf(code) == ToSet(BareRefs(code))

\* Everything a name reaches, itself only if it lies on a cycle.
RECURSIVE ReachedFrom(_, _)
ReachedFrom(references, names) ==
    LET more == names \union
            UNION {NamesOf(references[n]) : n \in names \intersect DOMAIN references}
    IN IF more = names THEN names ELSE ReachedFrom(references, more)

CyclicNames(references) ==
    {n \in DOMAIN references : n \in ReachedFrom(references, NamesOf(references[n]))}

\* Effect's generator lists the entries on a cycle, printing references
\* between them suspended, and the others each after the others it names.
GeneratedOrders(references) ==
    LET cyclic == CyclicNames(references)
        names  == [n \in DOMAIN references |-> NamesOf(references[n])]
    IN {recursives \o nonRecursives :
           recursives \in SetToSeqs(cyclic),
           nonRecursives \in {s \in SetToSeqs(DOMAIN references \ cyclic) :
               \A j, k \in DOMAIN s : s[j] \in names[s[k]] => j < k}}

NamesBound(bindings)  == [k \in DOMAIN bindings |-> bindings[k].name]
TablesUnder(bindings) == {bindings[k].document.references : k \in DOMAIN bindings}

\* Every name is answered, by the one table there is for all of them.
NamesAnswered(references, bindings) ==
    /\ \A n \in DOMAIN references : NamesOf(references[n]) \subseteq DOMAIN references
    /\ \A k \in DOMAIN bindings :
           NamesOf(bindings[k].document.representation) \subseteq DOMAIN references

\* Seeded fault: a recursive entry may read a plain one eagerly.
AnswersNames(references, bindings) ==
    /\ NamesAnswered(references, bindings)
    /\ DOMAIN references \intersect ToSet(NamesBound(bindings)) = {}

Sourceable(references, bindings) ==
    /\ NamesAnswered(references, bindings)
    /\ \A n \in CyclicNames(references) :
           EagerNamesOf(references[n]) \subseteq CyclicNames(references)
    /\ DOMAIN references \intersect ToSet(NamesBound(bindings)) = {}

\* The names declared, in the order the source declares them; bindings last.
\* No source at all when a check refuses.
ModulesOf(bindings) ==
    LET references == UnionTable(TablesUnder(bindings)) IN
    IF /\ IsInjective(NamesBound(bindings))
       /\ TablesAgree(TablesUnder(bindings))
       /\ Sourceable(references, bindings)
    THEN {order \o NamesBound(bindings) : order \in GeneratedOrders(references)}
    ELSE {}

----------------------------------------------------------------------------
(* A caller that prints a module, and then another.                        *)

Printed(bindings, answer, declared) ==
    [bindings |-> bindings, answer |-> answer, declared |-> declared]
NothingPrinted == Printed(<<>>, "none", <<>>)

SourceInit == printed = NothingPrinted

PrintSource(bindings) ==
    \/ \E declared \in ModulesOf(bindings) : printed' = Printed(bindings, "source", declared)
    \/ ModulesOf(bindings) = {} /\ printed' = Printed(bindings, "TypeError", <<>>)

Load == printed # NothingPrinted /\ printed' = NothingPrinted

SourceNext ==
    \/ printed = NothingPrinted /\ \E bindings \in Prints : PrintSource(bindings)
    \/ Load

(***************************************************************************)
(* A module that is printed loads.  Every name is declared once, whatever  *)
(* is read while the module is evaluated stands above its reader or is     *)
(* suspended, whatever is read later is declared, and each binding finds   *)
(* under every name the code its own lowering had there, whichever other   *)
(* bindings it is printed with.                                            *)
(***************************************************************************)
SourceLoads ==
    LET bindings   == printed.bindings
        declared   == printed.declared
        references == UnionTable(TablesUnder(bindings))
        cyclic     == CyclicNames(references)
        CodeAt(k)  ==
            IF declared[k] \in DOMAIN references THEN references[declared[k]]
            ELSE bindings[k - Cardinality(DOMAIN references)].document.representation
    IN printed.answer = "source" =>
       /\ IsInjective(declared)
       /\ \A k \in DOMAIN declared :
              /\ NamesOf(CodeAt(k)) \subseteq ToSet(declared)
              /\ \A n \in NeededAtOnce(CodeAt(k)) :
                     \/ {n, declared[k]} \subseteq cyclic
                     \/ \E j \in 1..(k - 1) : declared[j] = n
       /\ \A k \in DOMAIN bindings :
              LET own == bindings[k].document.references IN
              \A n \in DOMAIN own : references[n] = own[n]
=============================================================================
