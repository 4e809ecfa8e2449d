------------------------------ MODULE Programs ------------------------------
(***************************************************************************)
(* Programs as content (Programs.ts): a table of code points, its encoding *)
(* as step nodes under one cont node, the decoding, and what one code      *)
(* point asks of the store given the answers so far.                       *)
(*                                                                         *)
(* A node is its own address.  A payload is its fields in order: `nums`    *)
(* the numbers, `ids` the addresses spelled inside the payload, so a       *)
(* frame's length is the number of its fields.                             *)
(***************************************************************************)
EXTENDS Integers, Sequences, FiniteSets, SequencesExt

CONSTANTS
    WireBound,   \* one past the largest 32-bit count
    ByteBound,   \* one past the largest wire byte
    NoNode       \* no address

StepTag == 14
ContTag == 15

Payload(nums, ids) == [nums |-> nums, ids |-> ids]

NodeOf(version, tag, payload, refs) ==
    [version |-> version, tag |-> tag, payload |-> payload, refs |-> refs]

RefTo(id, tag) == [id |-> id, expectedTag |-> tag]

----------------------------------------------------------------------------
(* The table. *)

Literal(id) == [form |-> 0, index |-> 0, id |-> id]
Answer(i)   == [form |-> 1, index |-> i, id |-> NoNode]

Operand(expectedTag, source) == [expectedTag |-> expectedTag, source |-> source]

PutLine(version, tag, payload, refs) ==
    [do |-> "put", version |-> version, tag |-> tag, payload |-> payload, refs |-> refs]

LoadLine(source) == [do |-> "load", source |-> source]

----------------------------------------------------------------------------
(* Encoding.  A field wider than its wire width is cut to it. *)

Nat8(n)  == n % ByteBound
Nat32(n) == n % WireBound

Literals(refs) ==
    LET named == SelectSeq(refs, LAMBDA r : r.source.form = 0)
    IN [k \in DOMAIN named |-> named[k].source.id]

EncodeOperandRef(r) == <<Nat8(r.expectedTag), r.source.form, Nat32(r.source.index)>>

EncodeLineBody(line) ==
    IF line.do = "load"
    THEN Payload(<<1, line.source.form, Nat32(line.source.index)>>,
                 IF line.source.form = 0 THEN <<line.source.id>> ELSE <<>>)
    ELSE Payload(<<0, Nat8(line.version), Nat8(line.tag), Nat32(Len(line.payload))>>
                   \o line.payload \o <<Nat32(Len(line.refs))>>
                   \o FlattenSeq([k \in DOMAIN line.refs |-> EncodeOperandRef(line.refs[k])]),
                 Literals(line.refs))

StepNode(line) == NodeOf(0, StepTag, EncodeLineBody(line), <<>>)

TableNode(steps) ==
    NodeOf(0, ContTag, Payload(<<Len(steps)>>, <<>>),
           [k \in DOMAIN steps |-> RefTo(steps[k], StepTag)])

----------------------------------------------------------------------------
(* Decoding: closed, so what is left over is a refusal. *)

ReadOperand(form, index, id) == IF form = 0 THEN Literal(id) ELSE Answer(index)

\* The k-th operand reference of a put whose references begin after `base`.
RefField(nums, base, k, j) == nums[base + 3 * (k - 1) + j]

LiteralsBefore(nums, base, k) ==
    Cardinality({j \in 1..(k - 1) : RefField(nums, base, j, 2) = 0})

ReadRefs(p, base) ==
    [k \in 1..p.nums[base] |->
        Operand(RefField(p.nums, base, k, 1),
                ReadOperand(RefField(p.nums, base, k, 2), RefField(p.nums, base, k, 3),
                            IF RefField(p.nums, base, k, 2) = 0
                            THEN p.ids[LiteralsBefore(p.nums, base, k) + 1] ELSE NoNode))]

IsLoadBody(p) ==
    /\ Len(p.nums) = 3 /\ p.nums[1] = 1 /\ p.nums[2] \in {0, 1}
    /\ Len(p.ids) = 1 - p.nums[2]

\* The offset of the operand count of a put body.
CountAt(p) == 5 + p.nums[4]

IsPutBody(p) ==
    /\ Len(p.nums) >= 5 /\ p.nums[1] = 0
    /\ CountAt(p) <= Len(p.nums)
    /\ Len(p.nums) = CountAt(p) + 3 * p.nums[CountAt(p)]
    /\ \A k \in 1..p.nums[CountAt(p)] : RefField(p.nums, CountAt(p), k, 2) \in {0, 1}
    /\ Len(p.ids) = LiteralsBefore(p.nums, CountAt(p), p.nums[CountAt(p)] + 1)

IsLine(n) == n.tag = StepTag /\ (IsLoadBody(n.payload) \/ IsPutBody(n.payload))

DecodeLine(n) ==
    LET p == n.payload IN
    IF IsLoadBody(p)
    THEN LoadLine(ReadOperand(p.nums[2], p.nums[3], IF p.nums[2] = 0 THEN p.ids[1] ELSE NoNode))
    ELSE PutLine(p.nums[2], p.nums[3], SubSeq(p.nums, 5, CountAt(p) - 1),
                 ReadRefs(p, CountAt(p)))

----------------------------------------------------------------------------
(* The gate every door that makes bytes of a program shares. *)

IsByte(n)  == n \in 0..(ByteBound - 1)
IsNat32(n) == n \in 0..(WireBound - 1)

\* Seeded fault: a field that no longer fits is left to the encoder.
WellFormedCounts(program) ==
    \A k \in DOMAIN program :
        program[k].do = "put" =>
            Len(program[k].payload) < WireBound /\ Len(program[k].refs) < WireBound

OperandFits(source) == source.form = 1 => IsNat32(source.index)

WellFormed(program) ==
    \A k \in DOMAIN program :
        LET line == program[k] IN
        IF line.do = "load" THEN OperandFits(line.source)
        ELSE /\ IsByte(line.version)
             /\ IsByte(line.tag)
             /\ Len(line.payload) < WireBound
             /\ Len(line.refs) < WireBound
             /\ \A r \in DOMAIN line.refs :
                    IsByte(line.refs[r].expectedTag) /\ OperandFits(line.refs[r].source)

----------------------------------------------------------------------------
(* Loading a table from the nodes that are resident. *)

\* The payload is one 32-bit count, and it agrees with the edges.
IsTable(n) ==
    /\ n.tag = ContTag
    /\ Len(n.payload.nums) = 1 /\ n.payload.ids = <<>>
    /\ n.payload.nums[1] = Len(n.refs)

Loadable(resident, address) ==
    /\ address \in resident
    /\ IsTable(address)
    /\ \A k \in DOMAIN address.refs :
           address.refs[k].id \in resident /\ IsLine(address.refs[k].id)

LoadProgram(address) ==
    [k \in DOMAIN address.refs |-> DecodeLine(address.refs[k].id)]

----------------------------------------------------------------------------
(* One code point of a run, against the answer history so far. *)

\* Positional operands name an earlier answer, counted from zero.
Answered(source, answers) == source.form = 0 \/ source.index \in 0..(Len(answers) - 1)

Resolve(source, answers) ==
    IF source.form = 0 THEN source.id ELSE answers[source.index + 1]

LineAnswered(line, answers) ==
    IF line.do = "load" THEN Answered(line.source, answers)
    ELSE \A r \in DOMAIN line.refs : Answered(line.refs[r].source, answers)

LineNode(line, answers) ==
    NodeOf(line.version, line.tag, Payload(line.payload, <<>>),
           [r \in DOMAIN line.refs |->
               RefTo(Resolve(line.refs[r].source, answers), line.refs[r].expectedTag)])
=============================================================================
