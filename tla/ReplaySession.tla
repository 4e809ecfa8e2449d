--------------------------- MODULE ReplaySession ---------------------------
(***************************************************************************)
(* A record or replay session of Replay.ts: the fibers of a program call   *)
(* described operations through one session cell, whose updates exclude    *)
(* each other; a recording session delegates to live handlers and appends  *)
(* their outcomes to a history in the store; the end of the program, a     *)
(* mismatch, an ambient access, a defect or an interrupt leaves a witness. *)
(*                                                                         *)
(* A history node is addressed by its content and refers to the one before *)
(* it, so a history root is the sequence of entries it leads to, and <<>>  *)
(* stands for no root.  Sessions share only the store, so one runs at a    *)
(* time; the fibers it forked may outlive it.                              *)
(***************************************************************************)
EXTENDS ReplayReducer, FiniteSets

CONSTANTS
    Main, Others,     \* the fiber of the program and those it may fork
    Calls,            \* invocations: records of op, revision and request
    Outcomes,         \* success values and typed failures of handlers
    Unstorable,       \* requests and outcomes the carrier refuses to encode
    Terminals,        \* what the program may end with
    MaxCalls,         \* bound of the model: calls in one session
    MaxSessions       \* bound of the model: sessions, one after the other

ASSUME SessionAssumption ==
    /\ Main \notin Others
    /\ Nothing \notin Calls \cup Outcomes \cup Terminals \cup Others \cup {Main}
    /\ MaxCalls \in Nat /\ MaxSessions \in Nat

Fibers == {Main} \cup Others

VARIABLES
    nodes,       \* stored history nodes, by root
    witnesses,   \* witnesses this session stored
    cell,        \* the session's state, its history root and its trace
    lock,        \* the fiber inside an update of the cell that waits, or Nothing
    fiber,       \* what each fiber is doing
    run,         \* the session itself
    performed,   \* live executions of this session, in the order delegated
    script       \* what the program of the last recording did, to repeat it

vars == <<nodes, witnesses, cell, lock, fiber, run, performed, script>>

NoFiber == [pc |-> "none", call |-> Nothing, outcome |-> Nothing, n |-> 0, why |-> Nothing]

NoScript == [calls |-> <<>>, terminal |-> Nothing, plain |-> FALSE]

Init ==
    /\ nodes = {} /\ witnesses = {}
    /\ cell = [mode |-> "record", status |-> "active", history |-> <<>>, cursor |-> 0,
               pending |-> Nothing, root |-> <<>>, trace |-> <<>>]
    /\ lock = Nothing
    /\ fiber = [f \in Fibers |-> NoFiber]
    /\ run = [pc |-> "none", number |-> 0, base |-> 0, follow |-> FALSE, left |-> 0,
              interrupted |-> FALSE, exit |-> Nothing, outcome |-> Nothing, receipts |-> 0]
    /\ performed = <<>> /\ script = NoScript

-----------------------------------------------------------------------------
(* The carrier of stored values, and the cell.                             *)

Storable(x) == x \notin Unstorable

\* The reducer's step on the cell, its decisions added to the trace.
AppendDecisions(out, root) ==
    [out.state EXCEPT !.root = root, !.trace = @ \o out.decisions]

Apply(out) == cell' = AppendDecisions(out, cell.root)

Sets(f, r) == fiber' = [fiber EXCEPT ![f] = r]

Rests(f) == Sets(f, [NoFiber EXCEPT !.pc = "idle"])

\* The fiber dies of a defect.
Dies(f, why) == Sets(f, [NoFiber EXCEPT !.pc = "dead", !.why = why])

Defect == [tag |-> "Defect"]
CasFailed == [tag |-> "Cas"]

Ended(exit) == [run EXCEPT !.pc = "ended", !.exit = exit, !.outcome = Nothing]

-----------------------------------------------------------------------------
(* A session begins: record, replay, or the flat form with either root.    *)
(* A replay may follow the script of the recording that made its root.     *)

Begin(mode, root, follow) ==
    /\ run.pc \in {"none", "ended"} /\ run.number < MaxSessions
    /\ \A f \in Others : fiber[f].pc \in {"none", "idle", "dead"}
    /\ follow => /\ mode = "replay" /\ root = cell.root /\ root # <<>>
                 /\ script.plain /\ script.terminal # Nothing
                 /\ run.exit = "Result" /\ run.base = 0
    /\ cell' = [mode |-> mode, status |-> "active", history |-> root,
                cursor |-> IF mode = "record" THEN Len(root) ELSE 0,
                pending |-> Nothing, root |-> root, trace |-> <<>>]
    /\ fiber' = [f \in Fibers |-> IF f = Main THEN [NoFiber EXCEPT !.pc = "idle"] ELSE NoFiber]
    /\ run' = [pc |-> "program", number |-> run.number + 1, base |-> Len(root),
               follow |-> follow, left |-> MaxCalls, interrupted |-> FALSE,
               exit |-> Nothing, outcome |-> Nothing, receipts |-> 0]
    /\ performed' = <<>> /\ witnesses' = {}
    /\ script' = IF mode = "record" THEN [NoScript EXCEPT !.plain = TRUE] ELSE script
    /\ UNCHANGED <<nodes, lock>>

Running == run.pc = "program" /\ fiber[Main].pc = "idle"

Fork(f) ==
    /\ Running /\ ~run.follow /\ fiber[f].pc = "none"
    /\ Sets(f, [NoFiber EXCEPT !.pc = "idle"])
    /\ script' = [script EXCEPT !.plain = @ /\ cell.mode = "replay"]
    /\ UNCHANGED <<nodes, witnesses, cell, lock, run, performed>>

\* The defect of a fiber the program waits for is the program's.
Join(f) ==
    /\ Running /\ fiber[f].pc = "dead"
    /\ Dies(Main, fiber[f].why)
    /\ UNCHANGED <<nodes, witnesses, cell, lock, run, performed, script>>

-----------------------------------------------------------------------------
(* One call of a described operation.                                      *)

MayCall(f, call) ==
    /\ fiber[f].pc = "idle" /\ lock = Nothing /\ run.left > 0
    /\ f = Main => run.pc = "program"
    /\ run.follow => /\ Len(script.calls) > MaxCalls - run.left
                     /\ call = script.calls[MaxCalls - run.left + 1]

Counts(f, call) ==
    /\ run' = [run EXCEPT !.left = @ - 1]
    /\ script' = IF cell.mode = "record" /\ f = Main
                 THEN [script EXCEPT !.calls = Append(@, call)] ELSE script

InvokeLive(f, call) ==
    LET out == Reduce(cell, [tag |-> "Invoke", call |-> call])
    IN  /\ MayCall(f, call) /\ cell.mode = "record" /\ Storable(call.request)
        /\ Apply(out)
        /\ Counts(f, call)
        /\ CASE out.result.tag = "Delegated" ->
                  /\ performed' = Append(performed, Entry(call, Nothing))
                  /\ Sets(f, [fiber[f] EXCEPT !.pc = "live", !.call = call,
                                              !.n = Len(performed) + 1])
             [] out.result.tag = "Rejected" -> Dies(f, out.result) /\ UNCHANGED performed
             [] OTHER -> Dies(f, Defect) /\ UNCHANGED performed
        /\ UNCHANGED <<nodes, witnesses, lock>>

\* A request that cannot be encoded reaches no cell.
InvokeUnstorable(f, call) ==
    /\ MayCall(f, call) /\ ~Storable(call.request)
    /\ Counts(f, call) /\ Dies(f, CasFailed)
    /\ UNCHANGED <<nodes, witnesses, cell, lock, performed>>

\* The outcome is substituted, unless the operation's codec does not admit it.
InvokeRecorded(f, call) ==
    LET out == Reduce(cell, [tag |-> "Invoke", call |-> call])
        inadmissible == RejectStep(cell, "OutcomeInadmissible")
    IN  /\ MayCall(f, call) /\ cell.mode = "replay" /\ Storable(call.request)
        /\ Counts(f, call)
        /\ \/ out.result.tag = "Substituted" /\ Apply(out) /\ Rests(f)
           \/ /\ out.result.tag = "Substituted" /\ ~run.follow
              /\ Apply(inadmissible) /\ Dies(f, inadmissible.result)
           \/ out.result.tag = "Rejected" /\ Apply(out) /\ Dies(f, out.result)
           \/ out.result.tag = "Absorbed" /\ Dies(f, Defect) /\ UNCHANGED cell
        /\ UNCHANGED <<nodes, witnesses, lock, performed>>

\* The live handler succeeds or fails with a typed failure.
HandlerReturns(f, outcome) ==
    /\ fiber[f].pc = "live"
    /\ Sets(f, [fiber[f] EXCEPT !.pc = "returned", !.outcome = outcome])
    /\ performed' = [performed EXCEPT ![fiber[f].n].outcome = outcome]
    /\ UNCHANGED <<nodes, witnesses, cell, lock, run, script>>

HandlerDies(f) ==
    /\ fiber[f].pc = "live"
    /\ Dies(f, Defect)
    /\ UNCHANGED <<nodes, witnesses, cell, lock, run, performed, script>>

\* The program interrupts a call of its own (a timeout, a race) and goes on.
CallInterrupted(f) ==
    /\ fiber[f].pc \in {"live", "returned"}
    /\ Rests(f)
    /\ script' = [script EXCEPT !.plain = FALSE]
    /\ UNCHANGED <<nodes, witnesses, cell, lock, run, performed>>

\* From here to the new state of the cell the fiber cannot be interrupted.
Mask(f) ==
    /\ fiber[f].pc = "returned"
    /\ Sets(f, [fiber[f] EXCEPT !.pc = "append"])
    /\ UNCHANGED <<nodes, witnesses, cell, lock, run, performed, script>>

Recorded(f) == Reduce(cell, [tag |-> "Recorded", call |-> fiber[f].call,
                             outcome |-> fiber[f].outcome])

AppendFails(f) ==
    /\ Apply(Reduce(cell, [tag |-> "AppendFailed"]))
    /\ Dies(f, CasFailed)

\* Encode and reduce; an outcome that comes too late is discarded.
AppendRecordedOutcome(f) ==
    /\ fiber[f].pc = "append" /\ lock = Nothing
    /\ IF ~Storable(fiber[f].outcome) THEN AppendFails(f) /\ UNCHANGED lock
       ELSE CASE Recorded(f).result.tag = "Absorbed" -> Rests(f) /\ UNCHANGED <<cell, lock>>
              [] Recorded(f).result.tag = "Appended" ->
                    /\ lock' = f
                    /\ Sets(f, [fiber[f] EXCEPT !.pc = "putting"])
                    /\ UNCHANGED cell
              [] OTHER -> Dies(f, Defect) /\ UNCHANGED <<cell, lock>>
    /\ UNCHANGED <<nodes, witnesses, run, performed, script>>

\* The store puts the history node, then the cell learns of it.
\* Seeded fault: a failed put leaves the cell held.
PutHistoryHolding(f) ==
    LET root == Append(cell.root, Entry(fiber[f].call, fiber[f].outcome))
    IN  /\ fiber[f].pc = "putting"
        /\ \/ /\ nodes' = nodes \cup {root} /\ lock' = Nothing
              /\ cell' = AppendDecisions(Recorded(f), root)
              /\ Rests(f)
           \/ AppendFails(f) /\ UNCHANGED <<nodes, lock>>
        /\ UNCHANGED <<witnesses, run, performed, script>>

PutHistory(f) ==
    LET root == Append(cell.root, Entry(fiber[f].call, fiber[f].outcome))
    IN  /\ fiber[f].pc = "putting"
        /\ lock' = Nothing
        /\ \/ /\ nodes' = nodes \cup {root}
              /\ cell' = AppendDecisions(Recorded(f), root)
              /\ Rests(f)
           \/ /\ nodes' \in {nodes, nodes \cup {root}}
              /\ AppendFails(f)
        /\ UNCHANGED <<witnesses, run, performed, script>>

-----------------------------------------------------------------------------
(* The program ends.                                                       *)

WitnessOf(c, outcome) ==
    [mode |-> c.mode, consumed |-> c.cursor, trace |-> c.trace, root |-> c.root,
     base |-> run.base, outcome |-> outcome]

\* To persist a witness: the cell is held, and left as next.
Persist(next, outcome) ==
    /\ lock' = Main
    /\ run' = [run EXCEPT !.pc = "persist", !.outcome = [outcome |-> outcome, next |-> next]]

Terminates(terminal) ==
    /\ Running
    /\ run.follow => terminal = script.terminal /\ MaxCalls - run.left = Len(script.calls)
    /\ run' = [run EXCEPT !.pc = "finish", !.outcome = terminal]
    /\ script' = IF cell.mode = "record" THEN [script EXCEPT !.terminal = terminal] ELSE script
    /\ UNCHANGED <<nodes, witnesses, cell, lock, fiber, performed>>

FinishSession ==
    LET out == Reduce(cell, [tag |-> "Complete"])
    IN  /\ run.pc = "finish" /\ lock = Nothing
        /\ IF out.result.tag = "Absorbed"
           THEN run' = [run EXCEPT !.pc = "abort", !.exit = "Defect", !.outcome = Nothing]
                /\ UNCHANGED lock
           ELSE Persist(AppendDecisions(out, cell.root),
                        [tag |-> out.result.tag, terminal |-> run.outcome])
        /\ UNCHANGED <<nodes, witnesses, cell, fiber, performed, script>>

\* A replaying program reads the clock or draws a random number.
Ambient(f) ==
    /\ cell.mode = "replay" /\ ~run.follow /\ run.pc # "none"
    /\ fiber[f].pc = "idle" /\ (f = Main => run.pc = "program")
    /\ Dies(f, [tag |-> "Violated"])
    /\ UNCHANGED <<nodes, witnesses, cell, lock, run, performed, script>>

\* catchDefect: a failure of the store is typed, a mismatch or an ambient
\* access leaves a witness and no change of state, any other defect remains.
CatchDefect ==
    LET why == fiber[Main].why
    IN  /\ run.pc = "program" /\ fiber[Main].pc = "dead"
        /\ CASE why.tag = "Cas" -> run' = Ended("CasError") /\ UNCHANGED lock
             [] why.tag \in {"Rejected", "Violated"} -> lock = Nothing /\ Persist(cell, why)
             [] OTHER -> run' = [run EXCEPT !.pc = "abort", !.exit = "Defect"] /\ UNCHANGED lock
        /\ UNCHANGED <<nodes, witnesses, cell, fiber, performed, script>>

PersistWitness ==
    LET witness == WitnessOf(run.outcome.next, run.outcome.outcome)
    IN  /\ run.pc = "persist"
        /\ lock' = Nothing
        /\ \/ /\ witnesses' = witnesses \cup {witness}
              /\ cell' = run.outcome.next
              /\ run' = [Ended("Result") EXCEPT !.outcome = witness]
           \/ /\ witnesses' \in {witnesses, witnesses \cup {witness}}
              /\ run' = Ended("CasError") /\ UNCHANGED cell
        /\ UNCHANGED <<nodes, fiber, performed, script>>

\* Somebody interrupts the run; it unwinds as soon as it is not masked.
RequestInterrupt ==
    /\ run.pc \in {"program", "finish", "persist"} /\ ~run.interrupted
    /\ run' = [run EXCEPT !.interrupted = TRUE]
    /\ UNCHANGED <<nodes, witnesses, cell, lock, fiber, performed, script>>

Unwind ==
    /\ run.interrupted /\ run.pc \in {"program", "finish", "persist"}
    /\ fiber[Main].pc \notin {"append", "putting"}
    /\ run' = [run EXCEPT !.pc = "abort", !.exit = "Interrupted", !.outcome = Nothing]
    /\ lock' = IF run.pc = "persist" THEN Nothing ELSE lock
    /\ witnesses' \in {witnesses} \cup
         IF run.pc = "persist"
         THEN {witnesses \cup {WitnessOf(run.outcome.next, run.outcome.outcome)}} ELSE {}
    /\ Sets(Main, [NoFiber EXCEPT !.pc = "done"])
    /\ UNCHANGED <<nodes, cell, performed, script>>

\* onExit: the cell is read, the witness put within a deadline, and the sink
\* gets one receipt whatever became of the put.
PersistAborted ==
    /\ run.pc = "abort" /\ lock = Nothing
    /\ witnesses' \in {witnesses, witnesses \cup {WitnessOf(cell, [tag |-> "Aborted"])}}
    /\ run' = [Ended(run.exit) EXCEPT !.receipts = @ + 1]
    /\ UNCHANGED <<nodes, cell, lock, fiber, performed, script>>

-----------------------------------------------------------------------------
Quiet == run.pc = "ended" /\ run.number = MaxSessions /\ UNCHANGED vars

\* What the runtime owes: a masked append goes on, an interrupt unwinds, a
\* session that is ending ends. The deadline is the runtime's, so PersistAborted
\* is owed as soon as the cell is read; a put of the store is owed by nobody.
Owed(f) == Mask(f) \/ AppendRecordedOutcome(f)

Ending == FinishSession \/ CatchDefect \/ Unwind \/ PersistAborted

StoreReturns == PersistWitness \/ \E f \in Fibers : PutHistory(f)

Call(f) ==
    \/ \E call \in Calls :
          InvokeLive(f, call) \/ InvokeUnstorable(f, call) \/ InvokeRecorded(f, call)
    \/ \E outcome \in Outcomes : HandlerReturns(f, outcome)
    \/ HandlerDies(f) \/ CallInterrupted(f) \/ Ambient(f)

Next ==
    \/ \E mode \in {"record", "replay"}, root \in nodes \cup {<<>>}, follow \in BOOLEAN :
          Begin(mode, root, follow)
    \/ \E f \in Others : Fork(f) \/ Join(f)
    \/ \E f \in Fibers : Call(f) \/ Owed(f)
    \/ \E terminal \in Terminals : Terminates(terminal)
    \/ Ending \/ StoreReturns \/ RequestInterrupt \/ Quiet

Spec == Init /\ [][Next]_vars

Fairness == WF_vars(Ending) /\ \A f \in Fibers : WF_vars(Owed(f))

FairSpec == Spec /\ Fairness

-----------------------------------------------------------------------------
(* Properties.                                                             *)

\* Types, and the session state well formed in the sense of isWellFormed.
TypeOK ==
    /\ WellFormed(cell)
    /\ cell.status \in {"active", "aborted"}
    /\ lock \in Fibers \cup {Nothing}
    /\ run.exit \in {Nothing, "Result", "CasError", "Defect", "Interrupted"}
    /\ \A f \in Fibers : fiber[f].pc \in {"none", "idle", "live", "returned", "append",
                                          "putting", "dead", "done"}

\* What a recording appended are the first live executions, in the order they
\* were delegated and with the outcomes they had: concurrent calls, calls
\* given up half-way and outcomes that come late leave no gap and no swap.
TruthfulPrefix ==
    cell.mode = "record" =>
        LET new == SubSeq(cell.history, run.base + 1, Len(cell.history))
        IN  new = SubSeq(performed, 1, Len(new)) /\ Len(new) <= Len(performed)

\* The history a session believes in is the one its root leads to, and every
\* node on the way is stored, through failed puts and interrupts.
HistoryStored ==
    /\ cell.history = cell.root
    /\ \A root \in nodes \cup {cell.root} : \A i \in 1..Len(root) : SubSeq(root, 1, i) \in nodes

Advances(trace) == Cardinality({i \in DOMAIN trace :
                        trace[i].tag \in {"OccurrenceAppended", "HistoryConsumed"}})

\* A trace a session can have: every decision is at the cursor, an outcome
\* follows its delegation, a consumption its substitution, and an end is last.
PossibleTrace(trace, start) ==
    LET Before(i) == IF i = 1 THEN "none" ELSE trace[i - 1].tag
    IN  \A i \in DOMAIN trace :
            /\ trace[i].at = start + Advances(SubSeq(trace, 1, i - 1))
            /\ trace[i].tag = "OccurrenceAppended" => Before(i) = "LiveDelegation"
            /\ trace[i].tag = "HistoryConsumed" => Before(i) = "RecordedSubstitution"
            /\ trace[i].tag = "LiveDelegation" => Before(i) \in {"none", "OccurrenceAppended"}
            /\ trace[i].tag \in {"TypedRejection", "Completed"} => i = Len(trace)

\* A stored witness tells a possible session: its decisions follow each other,
\* account for what it says was consumed, and its history is in the store. One
\* that says Completed consumed its whole history.
WitnessTrue ==
    \A w \in witnesses :
        LET start == IF w.mode = "record" THEN w.base ELSE 0
        IN  /\ PossibleTrace(w.trace, start)
            /\ w.consumed = start + Advances(w.trace)
            /\ w.root = <<>> \/ w.root \in nodes
            /\ w.mode = "record" \/ w.outcome.tag = "Completed" => w.consumed = Len(w.root)
            /\ w.consumed <= Len(w.root)

\* A recording of a sequential program, replayed by the same program, completes
\* with the same terminal and asks for nothing that was not recorded.
ReplayRepeats ==
    run.follow /\ run.exit \notin {Nothing, "CasError", "Interrupted"} =>
        /\ run.exit = "Result"
        /\ run.outcome.outcome = [tag |-> "Completed", terminal |-> script.terminal]
        /\ run.outcome.consumed = Len(script.calls)

\* The sink hears once of every session that ended by an interrupt or a defect
\* and of no other.
AbortReceipted ==
    run.pc = "ended" => (run.receipts = 1 <=> run.exit \in {"Defect", "Interrupted"})

\* The stored history is the true one, and what is told of a session afterwards
\* is what happened in it.
HistoryTrue == TypeOK /\ TruthfulPrefix /\ HistoryStored /\ WitnessTrue /\ AbortReceipted

\* Once a session has aborted no outcome of it is stored or counted any more.
LateOutcomesDropped ==
    [][cell.status = "aborted" /\ run'.number = run.number
        => nodes' = nodes /\ cell'.history = cell.history /\ cell'.cursor = cell.cursor]_vars

\* "A hung store must not hang session teardown" (Replay.ts:97): an interrupted
\* session ends, even while its own append or that of another fiber is writing,
\* whether or not the handlers ever return, and though the put of a witness hangs,
\* unless a put of a history node hangs for ever: the append holds the cell, masked,
\* and the finalizer reads the cell before its deadline begins, so then it waits.
InterruptsEnd ==
    (\A f \in Fibers : []<>(fiber[f].pc # "putting")) => (run.interrupted ~> run.pc = "ended")

=============================================================================
