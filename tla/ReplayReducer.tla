--------------------------- MODULE ReplayReducer ---------------------------
(***************************************************************************)
(* The replay reducer: the total function `reduce` of Reducer.ts from a    *)
(* session state and an input to a session state, a result and decisions.  *)
(* A decision keeps its tag and its position.                              *)
(***************************************************************************)
EXTENDS Naturals, Sequences

CONSTANT Nothing   \* no pending invocation, no outcome, no holder

MismatchCategory ==
    {"OperationMismatch", "RevisionMismatch", "RequestMismatch", "HistoryExhausted",
     "UnconsumedSuffix", "OutcomeInadmissible", "DelegationOutstanding",
     "UnsolicitedOutcome"}

Decision(tag, at) == [tag |-> tag, at |-> at]

StepOut(state, result, decisions) ==
    [state |-> state, result |-> result, decisions |-> decisions]

Absorb(s) == StepOut(s, [tag |-> "Absorbed"], <<>>)

Aborted(s) == [s EXCEPT !.status = "aborted", !.pending = Nothing]

\* Nothing is consumed, the history stays, the delegation is discarded.
RejectStep(s, category) ==
    StepOut(Aborted(s), [tag |-> "Rejected", category |-> category, at |-> s.cursor],
            <<Decision("TypedRejection", s.cursor)>>)

\* Seeded fault: a second invocation is delegated beside the first.
InvokeInterleaved(s, call) ==
    StepOut([s EXCEPT !.pending = call], [tag |-> "Delegated"],
            <<Decision("LiveDelegation", s.cursor)>>)

InvokeRecord(s, call) ==
    IF s.pending # Nothing THEN RejectStep(s, "DelegationOutstanding")
    ELSE StepOut([s EXCEPT !.pending = call], [tag |-> "Delegated"],
                 <<Decision("LiveDelegation", s.cursor)>>)

Entry(call, outcome) == [call |-> call, outcome |-> outcome]

AppendRecord(s, call, outcome) ==
    IF s.pending # call THEN RejectStep(s, "UnsolicitedOutcome")
    ELSE StepOut([s EXCEPT !.pending = Nothing, !.cursor = @ + 1,
                           !.history = Append(@, Entry(call, outcome))],
                 [tag |-> "Appended"], <<Decision("OccurrenceAppended", s.cursor)>>)

AbortRecord(s) == StepOut(Aborted(s), [tag |-> "Aborted"], <<>>)

CompleteStep(s) ==
    IF s.cursor = Len(s.history)
    THEN StepOut(s, [tag |-> "Completed"], <<Decision("Completed", s.cursor)>>)
    ELSE RejectStep(s, "UnconsumedSuffix")

\* Seeded fault: the outcome is substituted and the cursor stays.
ReplayStuck(s, call) ==
    IF s.cursor = Len(s.history) THEN RejectStep(s, "HistoryExhausted")
    ELSE IF s.history[s.cursor + 1].call # call THEN RejectStep(s, "RequestMismatch")
    ELSE StepOut(s, [tag |-> "Substituted", outcome |-> s.history[s.cursor + 1].outcome],
                 <<Decision("RecordedSubstitution", s.cursor)>>)

\* Operation, then revision, then request, at the cursor.
InvokeReplay(s, call) ==
    IF s.cursor = Len(s.history) THEN RejectStep(s, "HistoryExhausted")
    ELSE LET entry == s.history[s.cursor + 1]
         IN  IF entry.call.op # call.op THEN RejectStep(s, "OperationMismatch")
             ELSE IF entry.call.revision # call.revision THEN RejectStep(s, "RevisionMismatch")
             ELSE IF entry.call.request # call.request THEN RejectStep(s, "RequestMismatch")
             ELSE StepOut([s EXCEPT !.cursor = @ + 1],
                          [tag |-> "Substituted", outcome |-> entry.outcome],
                          <<Decision("RecordedSubstitution", s.cursor),
                            Decision("HistoryConsumed", s.cursor)>>)

\* Seeded fault: an aborted session still takes part.
ReduceAnyway(s, input) ==
    CASE input.tag = "Invoke" -> IF s.mode = "record" THEN InvokeRecord(s, input.call)
                                 ELSE InvokeReplay(s, input.call)
      [] input.tag = "Recorded" -> AppendRecord([s EXCEPT !.pending = input.call],
                                                input.call, input.outcome)
      [] input.tag = "AppendFailed" -> AbortRecord(s)
      [] input.tag = "Complete" -> CompleteStep(s)

Reduce(s, input) ==
    IF s.status = "aborted" THEN Absorb(s)
    ELSE CASE input.tag = "Invoke" -> IF s.mode = "record" THEN InvokeRecord(s, input.call)
                                      ELSE InvokeReplay(s, input.call)
           [] input.tag = "Recorded" -> IF s.mode = "record"
                                        THEN AppendRecord(s, input.call, input.outcome)
                                        ELSE Absorb(s)
           [] input.tag = "AppendFailed" -> IF s.mode = "record" THEN AbortRecord(s) ELSE Absorb(s)
           [] input.tag = "Complete" -> CompleteStep(s)

\* isWellFormed: the cursor is in the history, at its end while recording, and
\* only a recording session has a delegation outstanding.
WellFormed(s) ==
    /\ s.cursor \in 0..Len(s.history)
    /\ s.mode = "record" => s.cursor = Len(s.history)
    /\ s.mode = "replay" => s.pending = Nothing
=============================================================================
