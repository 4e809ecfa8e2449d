---------------------------- MODULE StoreClients ----------------------------
(***************************************************************************)
(* Programs, blobs and typed values over one store: concurrent callers     *)
(* that put program tables, run them, run them by address, put blobs and   *)
(* put values, each as a sequence of puts and loads that may fail or be    *)
(* interrupted between any two.                                            *)
(*                                                                         *)
(* A put is the store law's, as CasStore models it: the reads and the      *)
(* judgment first, the write later, so two callers may both be answered    *)
(* fresh.  Loads of resident addresses answer their nodes.                 *)
(***************************************************************************)
EXTENDS Blobs, Values

CONSTANTS
    Clients,
    Tables,      \* the programs callers hold
    Sources,     \* the byte streams callers hold, as sequences of parts
    Typed,       \* the values callers hold, each with its projection
    Foreign,     \* what other writers admitted before, well-formed or not
    MaxCalls     \* bound: calls made

VARIABLES
    resident,    \* the nodes of the store
    call,        \* the call of each client, or Idle
    finished,    \* the calls that have ended
    calls        \* how many calls were made

vars == <<resident, call, finished, calls>>

Idle == [do |-> "idle"]

Call(ask, program) ==
    [do |-> ask.do, ask |-> ask, program |-> program,
     answers |-> <<>>,      \* the addresses answered so far
     word |-> <<>>,         \* those of them this call admitted
     writing |-> NoNode]    \* judged absent, not yet written

TableAsks  == {[do |-> d, program |-> p] : d \in {"putProgram", "run"}, p \in Tables}
BlobAsks   == {[do |-> "putBlob", source |-> s] : s \in Sources}
ValueAsks  == {[do |-> "putValue", of |-> t] : t \in Typed}
RunAtAsks  == {[do |-> "runAt", address |-> a] : a \in {n \in resident : n.tag = ContTag}}

Init ==
    /\ resident = Foreign
    /\ call = [c \in Clients |-> Idle]
    /\ finished = {}
    /\ calls = 0

----------------------------------------------------------------------------
(* The store's door. *)

Admissible(n) ==
    /\ n.version = 0
    /\ \A k \in DOMAIN n.refs :
           n.refs[k].id \in resident /\ n.refs[k].id.tag = n.refs[k].expectedTag

End(c, status) ==
    /\ call' = [call EXCEPT ![c] = Idle]
    /\ finished' = finished \cup
           {[ask |-> call[c].ask, program |-> call[c].program, status |-> status,
             answers |-> call[c].answers, word |-> call[c].word]}

\* Seeded fault: a duplicate is counted among the admissions.
CountedAnswer(s, n, fresh) ==
    [s EXCEPT !.answers = Append(@, n), !.word = Append(@, n), !.writing = NoNode]

Extended(s, n, fresh) ==
    [s EXCEPT !.answers = Append(@, n),
              !.word = IF fresh THEN Append(@, n) ELSE @,
              !.writing = NoNode]

\* The reads of putOutcome and the judgment on them.
Put(c, n) ==
    /\ call[c].writing = NoNode
    /\ \/ ~Admissible(n) /\ End(c, "refused")
       \/ /\ Admissible(n) /\ n \in resident
          /\ call' = [call EXCEPT ![c] = Extended(@, n, FALSE)]
          /\ UNCHANGED finished
       \/ /\ Admissible(n) /\ n \notin resident
          /\ call' = [call EXCEPT ![c].writing = n]
          /\ UNCHANGED finished
    /\ UNCHANGED <<resident, calls>>

\* The backend's write and the fresh answer.
Write(c) ==
    /\ call[c] # Idle /\ call[c].writing # NoNode
    /\ resident' = resident \cup {call[c].writing}
    /\ call' = [call EXCEPT ![c] = Extended(@, @.writing, TRUE)]
    /\ UNCHANGED <<finished, calls>>

----------------------------------------------------------------------------
(* The calls. *)

CanAsk(c) == call[c] = Idle /\ calls < MaxCalls

Begin(c, ask, program) ==
    /\ calls' = calls + 1
    /\ call' = [call EXCEPT ![c] = Call(ask, program)]
    /\ UNCHANGED <<resident, finished>>

\* putProgram and runProgram share the gate; an ill-formed table puts nothing.
AskTable(c) ==
    /\ CanAsk(c)
    /\ \E ask \in TableAsks : WellFormed(ask.program) /\ Begin(c, ask, ask.program)

AskBlob(c) == CanAsk(c) /\ \E ask \in BlobAsks : Begin(c, ask, <<>>)

AskValue(c) == CanAsk(c) /\ \E ask \in ValueAsks : Begin(c, ask, <<>>)

\* runProgramAt: the table is loaded and decoded whole before a line runs.
AskRunAt(c) ==
    /\ CanAsk(c)
    /\ \E ask \in RunAtAsks :
           /\ Loadable(resident, ask.address)
           /\ WellFormed(LoadProgram(ask.address))
           /\ Begin(c, ask, LoadProgram(ask.address))

Runs(c) == call[c].do \in {"run", "runAt"}
At(c)   == Len(call[c].answers) + 1

\* The nodes a writer puts, in order, children first.
PutsOf == [s \in Sources |-> BlobPuts(s)]

ValuePutsOf == [t \in Typed |->
    IF EncodesValue(t.projection, t.value) THEN <<ValueNode(t.projection, t.value)>> ELSE <<>>]

Puts(s) ==
    IF s.do = "putBlob" THEN PutsOf[s.ask.source]
    ELSE IF s.do = "putValue" THEN ValuePutsOf[s.ask.of]
    ELSE LET steps == [k \in DOMAIN s.program |-> StepNode(s.program[k])]
         IN Append(steps, TableNode(steps))

PutNext(c) ==
    /\ call[c] # Idle /\ ~Runs(c)
    /\ At(c) <= Len(Puts(call[c]))
    /\ Put(c, Puts(call[c])[At(c)])

\* A limit stopped the blob, or the value has no encoding.
CutShort(s) ==
    CASE s.do = "putBlob"  -> BlobRefused(s.ask.source)
      [] s.do = "putValue" -> ValuePutsOf[s.ask.of] = <<>>
      [] OTHER             -> FALSE

\* Nothing is left to put: the last answer is the table's, the blob's or the
\* value's address.
PutsOver(c) ==
    /\ call[c] # Idle /\ ~Runs(c)
    /\ At(c) > Len(Puts(call[c]))
    /\ End(c, IF CutShort(call[c]) THEN "refused" ELSE "done")
    /\ UNCHANGED <<resident, calls>>

Running(c, do) ==
    /\ call[c] # Idle /\ Runs(c)
    /\ At(c) <= Len(call[c].program)
    /\ call[c].program[At(c)].do = do

Line(c) == call[c].program[At(c)]

RunPut(c) ==
    /\ Running(c, "put")
    /\ LineAnswered(Line(c), call[c].answers)
    /\ Put(c, LineNode(Line(c), call[c].answers))

\* A load must find something; it extends the history and not the word.
RunLoad(c) ==
    /\ Running(c, "load")
    /\ LineAnswered(Line(c), call[c].answers)
    /\ LET id == Resolve(Line(c).source, call[c].answers) IN
       \/ /\ id \in resident
          /\ call' = [call EXCEPT ![c] = Extended(@, id, FALSE)]
          /\ UNCHANGED finished
       \/ id \notin resident /\ End(c, "refused")
    /\ UNCHANGED <<resident, calls>>

\* An operand names an answer that has not been given.
RunDangling(c) ==
    /\ call[c] # Idle /\ Runs(c)
    /\ At(c) <= Len(call[c].program)
    /\ ~LineAnswered(Line(c), call[c].answers)
    /\ End(c, "refused")
    /\ UNCHANGED <<resident, calls>>

RunOver(c) ==
    /\ call[c] # Idle /\ Runs(c)
    /\ At(c) > Len(call[c].program)
    /\ End(c, "done")
    /\ UNCHANGED <<resident, calls>>

\* A store failure, a failing source or an interrupt: what was put stays, and
\* a write under way may still land.
Stop(c) ==
    /\ call[c] # Idle
    /\ \/ /\ End(c, "stopped")
          /\ UNCHANGED resident
       \/ /\ call[c].writing # NoNode
          /\ resident' = resident \cup {call[c].writing}
          /\ call' = [call EXCEPT ![c] = Idle]
          /\ finished' = finished \cup
                 {[ask |-> call[c].ask, program |-> call[c].program, status |-> "stopped",
                   answers |-> call[c].answers,
                   word |-> Append(call[c].word, call[c].writing)]}
    /\ UNCHANGED calls

Next ==
    \E c \in Clients :
        \/ AskTable(c) \/ AskBlob(c) \/ AskValue(c) \/ AskRunAt(c)
        \/ PutNext(c) \/ PutsOver(c)
        \/ RunPut(c) \/ RunLoad(c) \/ RunDangling(c) \/ RunOver(c)
        \/ Write(c) \/ Stop(c)

Spec == Init /\ [][Next]_vars

----------------------------------------------------------------------------
(* Properties. *)

\* putProgram, loadProgram: the address a put of a table answered loads, for
\* ever after, to that very table, not to one its fields were cut down to.
StoredTablesLoad ==
    \A f \in finished :
        f.ask.do = "putProgram" /\ f.status = "done" =>
            LET a == Last(f.answers) IN
            Loadable(resident, a) /\ LoadProgram(a) = f.ask.program

\* runProgram: two completed runs of one table, whoever ran it, on whatever
\* store and after whatever stopped half-way, were answered the same.  A run's
\* word names each of its admissions once and nothing that was there before;
\* what stopped calls left behind is in their words, and nothing else came in.
RunsAccounted ==
    /\ \A f, g \in finished :
           /\ f.status = "done" /\ g.status = "done"
           /\ f.ask.do \in {"run", "runAt"} /\ g.ask.do \in {"run", "runAt"}
           /\ f.program = g.program
           => f.answers = g.answers
    /\ \A f \in finished :
           /\ IsInjective(f.word)
           /\ ToSet(f.word) \cap Foreign = {}
           /\ f.status = "done" => ToSet(f.word) \subseteq ToSet(f.answers)
    /\ resident = Foreign
           \cup UNION {ToSet(f.word) : f \in finished}
           \cup UNION {ToSet(call[c].word) : c \in {d \in Clients : call[d] # Idle}}

\* Programs as content: what was stored loads as itself, and what was run is
\* accounted for.
ProgramsHold == StoredTablesLoad /\ RunsAccounted

Ranges(m) == {r \in (0..Total(m)) \X (0..Total(m)) : r[1] + r[2] <= Total(m)}

Slice(bytes, offset, length) == SubSeq(bytes, offset + 1, offset + length)

\* The manifests the chunker makes, and the bytes they are made of.
Made ==
    {[manifest |-> Last(BlobPuts(s)), content |-> FlattenSeq(s)] :
        s \in {t \in Sources : ~BlobRefused(t)}}

\* put, get, readRange: the manifest is put last, so a manifest of the writer
\* that is resident reads back, whole and in every range, to the bytes of its
\* source, also when the call that put it stopped; what exceeds one buffer is
\* refused.  A foreign manifest is refused, or every two ranged reads of it
\* that answer agree where they overlap.
BlobsExact ==
    /\ \A made \in {x \in Made : x.manifest \in resident} :
           LET m == made.manifest IN
           /\ GetBlob(resident, m) =
                  IF Total(m) > MaxMaterialized THEN Refusal ELSE Bytes(made.content)
           /\ \A r \in Ranges(m) :
                  r[2] <= MaxMaterialized =>
                      ReadRange(resident, m, r[1], r[2]) = Bytes(Slice(made.content, r[1], r[2]))
    /\ \A m \in {n \in Foreign : n.tag = ManifestTag} :
           \A r \in Ranges(m) :
               LET whole == ReadRange(resident, m, r[1], r[2]) IN
               whole.ok =>
                   /\ Len(whole.bytes) = r[2]
                   /\ \A k \in 1..r[2] :
                          LET one == ReadRange(resident, m, r[1] + k - 1, 1)
                          IN one.ok => one.bytes = <<whole.bytes[k]>>

\* A value as it is read back: the sentinels keep their two members only.
RECURSIVE Cleaned(_)
Cleaned(t) ==
    IF Has(t, LinkKey)
    THEN Sentinel(Get(Get(t, LinkKey), IdKey).id, Get(Get(t, LinkKey), TagKey).num)
    ELSE [t EXCEPT !.items = [k \in DOMAIN t.items |->
              [t.items[k] EXCEPT !.value = Cleaned(t.items[k].value)]]]

ValueOf(ask) == CanonicalJson(Cleaned(ask.of.value))

RECURSIVE Sentinels(_)
Sentinels(t) ==
    IF Has(t, LinkKey) THEN {Get(t, LinkKey)}
    ELSE UNION {Sentinels(t.items[k].value) : k \in DOMAIN t.items}

\* put, get: a value put reads back as itself, equal values have one address
\* in whatever order their members were inserted, and no node reads as a value
\* but the one a put of that value makes, so no value has two spellings.  The
\* references of a value that reads are resident at the kind they declare.
ValuesExact ==
    /\ \A f \in {g \in finished : g.ask.do = "putValue" /\ g.status = "done"} :
           /\ GetValue(resident, f.ask.of.projection, Last(f.answers)) =
                  Walked(ValueOf(f.ask), <<>>)
           /\ \A g \in finished :
                  /\ g.ask.do = "putValue" /\ g.status = "done"
                  /\ g.ask.of.projection = f.ask.of.projection /\ ValueOf(g.ask) = ValueOf(f.ask)
                  => g.answers = f.answers
    /\ \A n \in resident, p \in {t.projection : t \in Typed} :
           LET read == GetValue(resident, p, n) IN
           read.ok =>
               /\ EncodesValue(p, read.tree) /\ ValueNode(p, read.tree) = n
               /\ \A body \in Sentinels(read.tree) :
                      /\ Get(body, IdKey).id \in resident
                      /\ Get(body, IdKey).id.tag = Get(body, TagKey).num
=============================================================================
