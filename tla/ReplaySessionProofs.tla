------------------------ MODULE ReplaySessionProofs ------------------------
(***************************************************************************)
(* Proofs about ReplaySession, for every set of calls, outcomes, fibers    *)
(* and terminals, and any number of sessions: a stored history is the live *)
(* executions in the order they were delegated, a witness tells a possible *)
(* session, nothing is appended after an abort, and a replay of a          *)
(* sequential program repeats its recording.                               *)
(***************************************************************************)
EXTENDS ReplaySession, SequenceTheorems, FiniteSetTheorems, TLAPS

(* What the variables hold.                                                *)
Entries   == [call : Calls, outcome : Outcomes]
Executed  == [call : Calls, outcome : Outcomes \cup {Nothing}]
Tags      == {"LiveDelegation", "OccurrenceAppended", "RecordedSubstitution",
              "HistoryConsumed", "TypedRejection", "Completed"}
Decisions == [tag : Tags, at : Nat]
Histories == Seq(Entries)

Cells == [mode : {"record", "replay"}, status : {"active", "aborted"}, history : Histories,
          cursor : Nat, pending : Calls \cup {Nothing}, root : Histories, trace : Seq(Decisions)]

-----------------------------------------------------------------------------
(* Traces.                                                                 *)

Advancing == {"OccurrenceAppended", "HistoryConsumed"}
Closing   == {"TypedRejection", "Completed"}

LastTag(t) == IF t = <<>> THEN "none" ELSE t[Len(t)].tag

(* No decision so far ended the session.                                   *)
Unended(t) == \A i \in 1..Len(t) : t[i].tag \notin Closing

(* What must come right before a decision.                                 *)
MayFollow(tag, last) ==
    /\ tag = "OccurrenceAppended" => last = "LiveDelegation"
    /\ tag = "HistoryConsumed" => last = "RecordedSubstitution"
    /\ tag = "LiveDelegation" => last \in {"none", "OccurrenceAppended"}

LEMMA OneMore ==
    ASSUME NEW S, NEW t \in Seq(S), NEW d \in S
    PROVE  /\ t \o <<d>> \in Seq(S)
           /\ Len(t \o <<d>>) = Len(t) + 1 /\ Len(t) \in Nat
           /\ \A i \in 1..Len(t) : (t \o <<d>>)[i] = t[i]
           /\ (t \o <<d>>)[Len(t) + 1] = d
           /\ t \o <<d>> # <<>>
<1>1. Append(t, d) = t \o <<d>>
  BY AppendIsConcat
<1>2. Len(t) \in Nat
  BY LenProperties
<1>3. QED BY <1>1, <1>2, AppendProperties

LEMMA EarlierPart ==
    ASSUME NEW S, NEW t \in Seq(S), NEW d \in S, NEW i \in 1..(Len(t) + 1)
    PROVE  SubSeq(t \o <<d>>, 1, i - 1) = SubSeq(t, 1, i - 1)
<1> DEFINE u == t \o <<d>>
<1>1. Len(t) \in Nat /\ u \in Seq(S) /\ Len(u) = Len(t) + 1 /\ \A j \in 1..Len(t) : u[j] = t[j]
  BY OneMore
<1>2. \A j \in 1..Len(t) : t[j] \in S /\ u[j] \in S
  BY <1>1, ElementOfSeq
<1> HIDE DEF u
<1>3. i - 1 \in Int /\ i - 1 <= Len(t)
  BY <1>1
<1>4. \A j \in 1..(i - 1) : t[j] \in S /\ u[j] \in S
  BY <1>1, <1>2, <1>3
<1>5. /\ SubSeq(t, 1, i - 1) \in Seq(S)
      /\ Len(SubSeq(t, 1, i - 1)) = IF 1 <= i - 1 THEN (i - 1) - 1 + 1 ELSE 0
      /\ \A j \in 1..((i - 1) - 1 + 1) : SubSeq(t, 1, i - 1)[j] = t[1 + j - 1]
  BY <1>3, <1>4, SubSeqProperties
<1>6. /\ SubSeq(u, 1, i - 1) \in Seq(S)
      /\ Len(SubSeq(u, 1, i - 1)) = IF 1 <= i - 1 THEN (i - 1) - 1 + 1 ELSE 0
      /\ \A j \in 1..((i - 1) - 1 + 1) : SubSeq(u, 1, i - 1)[j] = u[1 + j - 1]
  BY <1>3, <1>4, SubSeqProperties
<1> DEFINE a == SubSeq(t, 1, i - 1)
           b == SubSeq(u, 1, i - 1)
<1>7. \A j \in 1..Len(b) : b[j] = a[j]
  <2> SUFFICES ASSUME NEW j \in 1..Len(b) PROVE b[j] = a[j]
    OBVIOUS
  <2>1. j \in 1..((i - 1) - 1 + 1) /\ j \in 1..Len(t) /\ 1 + j - 1 = j
    BY <1>3, <1>6
  <2>2. QED BY <2>1, <1>1, <1>5, <1>6
<1>8. QED BY <1>5, <1>6, <1>7, SeqEqual DEF u

LEMMA AdvancesExtend ==
    ASSUME NEW t \in Seq(Decisions), NEW d \in Decisions
    PROVE  /\ Advances(t) \in Nat
           /\ Advances(t \o <<d>>) = Advances(t) + (IF d.tag \in Advancing THEN 1 ELSE 0)
<1> DEFINE S == {i \in DOMAIN t : t[i].tag \in Advancing}
           u == t \o <<d>>
           U == {i \in DOMAIN u : u[i].tag \in Advancing}
<1>1. /\ Len(t) \in Nat /\ u \in Seq(Decisions) /\ Len(u) = Len(t) + 1
      /\ \A j \in 1..Len(t) : u[j] = t[j]
      /\ u[Len(t) + 1] = d
      /\ DOMAIN t = 1..Len(t) /\ DOMAIN u = 1..(Len(t) + 1)
  BY OneMore, LenProperties
<1> HIDE DEF u
<1>2. IsFiniteSet(S) /\ Len(t) + 1 \notin S
  <2>1. IsFiniteSet(1..Len(t))
    BY <1>1, FS_Interval
  <2>2. QED BY <1>1, <2>1, FS_Subset
<1>3. U = IF d.tag \in Advancing THEN S \cup {Len(t) + 1} ELSE S
  <2>1. \A i : i \in 1..(Len(t) + 1) <=> i \in 1..Len(t) \/ i = Len(t) + 1
    BY <1>1
  <2>2. \A i : i \in U <=> (i \in S \/ (i = Len(t) + 1 /\ d.tag \in Advancing))
    BY <1>1, <2>1
  <2>3. QED BY <2>2
<1>4. Cardinality(S) \in Nat
  BY <1>2, FS_CardinalityType
<1>5. Cardinality(S \cup {Len(t) + 1}) = Cardinality(S) + 1
  BY <1>2, FS_AddElement
<1>6. Advances(t) = Cardinality(S) /\ Advances(u) = Cardinality(U)
  BY DEF Advances, Advancing
<1> HIDE DEF S, U
<1>7. QED BY <1>3, <1>4, <1>5, <1>6 DEF u

LEMMA NoAdvances == Advances(<<>>) = 0
<1>1. {i \in DOMAIN <<>> : <<>>[i].tag \in {"OccurrenceAppended", "HistoryConsumed"}} = {}
  OBVIOUS
<1>2. QED BY <1>1, FS_EmptySet DEF Advances

(* A decision at the cursor, after what must come before it, extends a     *)
(* possible trace that has not ended.                                      *)
LEMMA TraceExtends ==
    ASSUME NEW t \in Seq(Decisions), NEW start \in Nat, NEW d \in Decisions,
           PossibleTrace(t, start), Unended(t),
           d.at = start + Advances(t), MayFollow(d.tag, LastTag(t))
    PROVE  PossibleTrace(t \o <<d>>, start)
<1> DEFINE u == t \o <<d>>
<1>1. /\ Len(t) \in Nat /\ u \in Seq(Decisions) /\ Len(u) = Len(t) + 1
      /\ \A j \in 1..Len(t) : u[j] = t[j]
      /\ u[Len(t) + 1] = d
      /\ DOMAIN t = 1..Len(t) /\ DOMAIN u = 1..(Len(t) + 1)
  BY OneMore, LenProperties
<1>2. \A i \in 1..(Len(t) + 1) : SubSeq(u, 1, i - 1) = SubSeq(t, 1, i - 1)
  BY EarlierPart
<1>3. SubSeq(t, 1, Len(t)) = t
  BY SubSeqFull
<1> HIDE DEF u
<1> SUFFICES ASSUME NEW i \in DOMAIN u
             PROVE  /\ u[i].at = start + Advances(SubSeq(u, 1, i - 1))
                    /\ MayFollow(u[i].tag, IF i = 1 THEN "none" ELSE u[i - 1].tag)
                    /\ u[i].tag \in Closing => i = Len(u)
  BY DEF PossibleTrace, MayFollow, Closing, u
<1>4. CASE i \in 1..Len(t)
  <2>1. /\ t[i].at = start + Advances(SubSeq(t, 1, i - 1))
        /\ MayFollow(t[i].tag, IF i = 1 THEN "none" ELSE t[i - 1].tag)
    BY <1>4, <1>1 DEF PossibleTrace, MayFollow
  <2>2. u[i] = t[i] /\ (i # 1 => u[i - 1] = t[i - 1])
    BY <1>1, <1>4
  <2>3. t[i].tag \notin Closing
    BY <1>4 DEF Unended
  <2>4. SubSeq(u, 1, i - 1) = SubSeq(t, 1, i - 1)
    BY <1>1, <1>2
  <2>5. QED BY <2>1, <2>2, <2>3, <2>4
<1>5. CASE i = Len(t) + 1
  <2>1. i - 1 = Len(t) /\ (i = 1 <=> Len(t) = 0)
    BY <1>1, <1>5
  <2>2. SubSeq(u, 1, i - 1) = t
    BY <1>1, <1>2, <1>3, <2>1
  <2>3. LastTag(t) = IF i = 1 THEN "none" ELSE u[i - 1].tag
    <3>1. i = 1 <=> t = <<>>
      BY <2>1, EmptySeq
    <3>2. i # 1 => u[i - 1] = t[Len(t)]
      BY <1>1, <2>1
    <3>3. QED BY <3>1, <3>2 DEF LastTag
  <2>4. u[i] = d
    BY <1>1, <1>5
  <2>5. QED BY <1>1, <1>5, <2>2, <2>3, <2>4
<1>6. QED BY <1>1, <1>4, <1>5

LEMMA LastOfMore ==
    ASSUME NEW t \in Seq(Decisions), NEW d \in Decisions
    PROVE  /\ LastTag(t \o <<d>>) = d.tag
           /\ Unended(t) /\ d.tag \notin Closing => Unended(t \o <<d>>)
<1> DEFINE u == t \o <<d>>
<1>1. /\ Len(t) \in Nat /\ u \in Seq(Decisions) /\ Len(u) = Len(t) + 1
      /\ \A j \in 1..Len(t) : u[j] = t[j]
      /\ u[Len(t) + 1] = d /\ u # <<>>
  BY OneMore
<1> HIDE DEF u
<1>2. \A i : i \in 1..(Len(t) + 1) => i \in 1..Len(t) \/ i = Len(t) + 1
  BY <1>1
<1>3. LastTag(u) = d.tag
  BY <1>1 DEF LastTag
<1>4. Unended(t) /\ d.tag \notin Closing => Unended(u)
  BY <1>1, <1>2 DEF Unended
<1>5. QED BY <1>3, <1>4 DEF u

-----------------------------------------------------------------------------
(* The cell.                                                               *)

(* A cell field by field.                                                  *)
Turned(c, status, history, cursor, pending, root, trace) ==
    [mode |-> c.mode, status |-> status, history |-> history, cursor |-> cursor,
     pending |-> pending, root |-> root, trace |-> trace]

LEMMA Itself ==
    ASSUME NEW c \in Cells
    PROVE  c = Turned(c, c.status, c.history, c.cursor, c.pending, c.root, c.trace)
  BY DEF Cells, Turned

LEMMA Tells ==
    ASSUME NEW c, NEW st, NEW h, NEW cu, NEW p, NEW r, NEW t, NEW result, NEW decisions, NEW root
    PROVE  AppendDecisions(StepOut(Turned(c, st, h, cu, p, r, t), result, decisions), root)
              = Turned(c, st, h, cu, p, root, t \o decisions)
<1> DEFINE s == Turned(c, st, h, cu, p, r, t)
           out == StepOut(s, result, decisions)
<1>1. out.state = s /\ out.decisions = decisions /\ s.trace = t
  BY DEF StepOut, Turned
<1>2. [out.state EXCEPT !.root = root, !.trace = @ \o out.decisions]
         = [[s EXCEPT !.root = root] EXCEPT !.trace = t \o decisions]
  <2> HIDE DEF s, out
  <2>1. QED BY <1>1
<1>3. [s EXCEPT !.root = root] = Turned(c, st, h, cu, p, root, t)
  BY DEF Turned
<1>4. ASSUME NEW v PROVE [Turned(c, st, h, cu, p, root, t) EXCEPT !.trace = v]
                           = Turned(c, st, h, cu, p, root, v)
  BY DEF Turned
<1> HIDE DEF s
<1>5. [Turned(c, st, h, cu, p, root, t) EXCEPT !.trace = t \o decisions]
         = Turned(c, st, h, cu, p, root, t \o decisions)
  BY <1>4
<1>6. QED BY <1>2, <1>3, <1>5 DEF AppendDecisions, s

(* An aborted cell, and one that appended what was delegated.              *)
LEMMA AbortSets ==
    ASSUME NEW c \in Cells
    PROVE  Aborted(c) = Turned(c, "aborted", c.history, c.cursor, Nothing, c.root, c.trace)
<1>1. Aborted(c) = [[c EXCEPT !.status = "aborted"] EXCEPT !.pending = Nothing]
  BY DEF Aborted
<1>2. [c EXCEPT !.status = "aborted"] = Turned(c, "aborted", c.history, c.cursor, c.pending, c.root, c.trace)
  BY DEF Turned, Cells
<1>3. [Turned(c, "aborted", c.history, c.cursor, c.pending, c.root, c.trace) EXCEPT !.pending = Nothing]
         = Turned(c, "aborted", c.history, c.cursor, Nothing, c.root, c.trace)
  BY DEF Turned
<1>4. QED BY <1>1, <1>2, <1>3

LEMMA AppendSets ==
    ASSUME NEW c \in Cells, NEW entry
    PROVE  [c EXCEPT !.pending = Nothing, !.cursor = @ + 1, !.history = Append(@, entry)]
              = Turned(c, c.status, Append(c.history, entry), c.cursor + 1, Nothing, c.root, c.trace)
<1>1. [c EXCEPT !.pending = Nothing, !.cursor = @ + 1, !.history = Append(@, entry)]
         = [[[c EXCEPT !.pending = Nothing] EXCEPT !.cursor = c.cursor + 1]
               EXCEPT !.history = Append(c.history, entry)]
  OBVIOUS
<1>2. [c EXCEPT !.pending = Nothing] = Turned(c, c.status, c.history, c.cursor, Nothing, c.root, c.trace)
  BY DEF Turned, Cells
<1>3. [Turned(c, c.status, c.history, c.cursor, Nothing, c.root, c.trace) EXCEPT !.cursor = c.cursor + 1]
         = Turned(c, c.status, c.history, c.cursor + 1, Nothing, c.root, c.trace)
  BY DEF Turned
<1>4. [Turned(c, c.status, c.history, c.cursor + 1, Nothing, c.root, c.trace)
         EXCEPT !.history = Append(c.history, entry)]
         = Turned(c, c.status, Append(c.history, entry), c.cursor + 1, Nothing, c.root, c.trace)
  BY DEF Turned
<1>5. QED BY <1>1, <1>2, <1>3, <1>4

-----------------------------------------------------------------------------
(* The reducer's steps, as what they make of a cell and what they answer.  *)

With(c, tag) == c.trace \o <<Decision(tag, c.cursor)>>

RejectedCell(c) ==
    Turned(c, "aborted", c.history, c.cursor, Nothing, c.root, With(c, "TypedRejection"))

LEMMA Rejects ==
    ASSUME NEW c \in Cells, NEW category
    PROVE  /\ AppendDecisions(RejectStep(c, category), c.root) = RejectedCell(c)
           /\ RejectStep(c, category).result.tag = "Rejected"
<1>1. RejectStep(c, category) =
        StepOut(Turned(c, "aborted", c.history, c.cursor, Nothing, c.root, c.trace),
                [tag |-> "Rejected", category |-> category, at |-> c.cursor],
                <<Decision("TypedRejection", c.cursor)>>)
  BY AbortSets DEF RejectStep
<1>2. AppendDecisions(RejectStep(c, category), c.root) = RejectedCell(c)
  BY <1>1, Tells DEF RejectedCell, With
<1>3. QED BY <1>1, <1>2 DEF StepOut

LEMMA Absorbs ==
    ASSUME NEW c \in Cells
    PROVE  AppendDecisions(Absorb(c), c.root) = c /\ Absorb(c).result.tag = "Absorbed"
<1>1. c.trace \o <<>> = c.trace
  BY ConcatEmptySeq DEF Cells
<1>2. ASSUME NEW none
      PROVE  AppendDecisions(StepOut(c, [tag |-> "Absorbed"], none), c.root)
               = Turned(c, c.status, c.history, c.cursor, c.pending, c.root, c.trace \o none)
  BY Tells, Itself
<1>3. AppendDecisions(StepOut(c, [tag |-> "Absorbed"], <<>>), c.root) = c
  BY <1>1, <1>2, Itself
<1>4. QED BY <1>3 DEF Absorb, StepOut

(* A call of a recording is delegated when none is outstanding.            *)
DelegatedCell(c, call) ==
    Turned(c, c.status, c.history, c.cursor, call, c.root, With(c, "LiveDelegation"))

LEMMA Delegation ==
    ASSUME NEW c \in Cells, NEW call \in Calls, c.mode = "record",
           NEW out, out = Reduce(c, [tag |-> "Invoke", call |-> call])
    PROVE  \/ /\ c.status = "aborted" /\ out.result.tag = "Absorbed"
              /\ AppendDecisions(out, c.root) = c
           \/ /\ c.status = "active" /\ c.pending = Nothing /\ out.result.tag = "Delegated"
              /\ AppendDecisions(out, c.root) = DelegatedCell(c, call)
           \/ /\ c.status = "active" /\ c.pending # Nothing /\ out.result.tag = "Rejected"
              /\ AppendDecisions(out, c.root) = RejectedCell(c)
<1>1. CASE c.status = "aborted"
  <2>1. out = Absorb(c)
    BY <1>1 DEF Reduce
  <2>2. QED BY <1>1, <2>1, Absorbs
<1>2. CASE c.status = "active" /\ c.pending = Nothing
  <2>1. out = StepOut([c EXCEPT !.pending = call], [tag |-> "Delegated"],
                      <<Decision("LiveDelegation", c.cursor)>>)
    BY <1>2 DEF Reduce, InvokeRecord
  <2>2. [c EXCEPT !.pending = call] = Turned(c, c.status, c.history, c.cursor, call, c.root, c.trace)
    BY DEF Turned, Cells
  <2>3. AppendDecisions(out, c.root) = DelegatedCell(c, call)
    BY <2>1, <2>2, Tells DEF DelegatedCell, With
  <2>4. out.result.tag = "Delegated"
    BY <2>1 DEF StepOut
  <2>5. QED BY <1>2, <2>3, <2>4
<1>3. CASE c.status = "active" /\ c.pending # Nothing
  <2>1. out = RejectStep(c, "DelegationOutstanding")
    BY <1>3 DEF Reduce, InvokeRecord
  <2>2. QED BY <1>3, <2>1, Rejects
<1>4. QED BY <1>1, <1>2, <1>3 DEF Cells

(* An outcome of a recording is appended when its call is outstanding.     *)
AppendedCell(c, call, outcome, root) ==
    Turned(c, c.status, Append(c.history, Entry(call, outcome)), c.cursor + 1, Nothing, root,
           With(c, "OccurrenceAppended"))

LEMMA Appending ==
    ASSUME NEW c \in Cells, NEW call \in Calls, NEW outcome, c.mode = "record",
           NEW out, out = Reduce(c, [tag |-> "Recorded", call |-> call, outcome |-> outcome]),
           NEW root
    PROVE  \/ c.status = "aborted" /\ out.result.tag = "Absorbed"
           \/ /\ c.status = "active" /\ c.pending = call /\ out.result.tag = "Appended"
              /\ AppendDecisions(out, root) = AppendedCell(c, call, outcome, root)
           \/ c.status = "active" /\ c.pending # call
<1>1. CASE c.status = "aborted"
  <2>1. out = Absorb(c)
    BY <1>1 DEF Reduce
  <2>2. QED BY <1>1, <2>1, Absorbs
<1>2. CASE c.status = "active" /\ c.pending = call
  <2>1. out = StepOut([c EXCEPT !.pending = Nothing, !.cursor = @ + 1,
                                !.history = Append(@, Entry(call, outcome))],
                      [tag |-> "Appended"], <<Decision("OccurrenceAppended", c.cursor)>>)
    BY <1>2 DEF Reduce, AppendRecord
  <2>2. out = StepOut(Turned(c, c.status, Append(c.history, Entry(call, outcome)), c.cursor + 1,
                             Nothing, c.root, c.trace),
                      [tag |-> "Appended"], <<Decision("OccurrenceAppended", c.cursor)>>)
    BY <2>1, AppendSets
  <2>3. AppendDecisions(out, root) = AppendedCell(c, call, outcome, root)
    BY <2>2, Tells DEF AppendedCell, With
  <2>4. out.result.tag = "Appended"
    BY <2>2 DEF StepOut
  <2>5. QED BY <1>2, <2>3, <2>4
<1>3. QED BY <1>1, <1>2 DEF Cells

(* A put that failed aborts a recording.                                   *)
FailedCell(c) == Turned(c, "aborted", c.history, c.cursor, Nothing, c.root, c.trace)

LEMMA Failing ==
    ASSUME NEW c \in Cells, NEW out, out = Reduce(c, [tag |-> "AppendFailed"])
    PROVE  \/ AppendDecisions(out, c.root) = c /\ (c.mode = "replay" \/ c.status = "aborted")
           \/ AppendDecisions(out, c.root) = FailedCell(c) /\ c.mode = "record" /\ c.status = "active"
<1>1. CASE c.status = "aborted" \/ c.mode = "replay"
  <2>1. out = Absorb(c)
    BY <1>1 DEF Reduce
  <2>2. QED BY <1>1, <2>1, Absorbs
<1>2. CASE c.status = "active" /\ c.mode = "record"
  <2>1. out = StepOut(Aborted(c), [tag |-> "Aborted"], <<>>)
    BY <1>2 DEF Reduce, AbortRecord
  <2>2. out = StepOut(Turned(c, "aborted", c.history, c.cursor, Nothing, c.root, c.trace),
                      [tag |-> "Aborted"], <<>>)
    BY <2>1, AbortSets
  <2>3. ASSUME NEW none
        PROVE  AppendDecisions(StepOut(Turned(c, "aborted", c.history, c.cursor, Nothing, c.root, c.trace),
                                       [tag |-> "Aborted"], none), c.root)
                 = Turned(c, "aborted", c.history, c.cursor, Nothing, c.root, c.trace \o none)
    BY Tells
  <2>4. AppendDecisions(out, c.root)
          = Turned(c, "aborted", c.history, c.cursor, Nothing, c.root, c.trace \o <<>>)
    BY <2>2, <2>3
  <2>5. c.trace \o <<>> = c.trace
    BY ConcatEmptySeq DEF Cells
  <2>6. QED BY <1>2, <2>4, <2>5 DEF FailedCell
<1>3. QED BY <1>1, <1>2 DEF Cells

(* An invocation of a replay is substituted when the history has it next.  *)
SubstitutedCell(c) ==
    Turned(c, c.status, c.history, c.cursor + 1, c.pending, c.root,
           c.trace \o <<Decision("RecordedSubstitution", c.cursor), Decision("HistoryConsumed", c.cursor)>>)

NextCall(c, call) == c.cursor < Len(c.history) /\ c.history[c.cursor + 1].call = call

LEMMA SameCall ==
    ASSUME NEW a, NEW b
    PROVE  a.op # b.op \/ a.revision # b.revision \/ a.request # b.request => a # b
  OBVIOUS

LEMMA Substitution ==
    ASSUME NEW c \in Cells, NEW call \in Calls, c.mode = "replay", WellFormed(c),
           NEW out, out = Reduce(c, [tag |-> "Invoke", call |-> call])
    PROVE  \/ c.status = "aborted" /\ out.result.tag = "Absorbed"
           \/ /\ c.status = "active" /\ c.cursor < Len(c.history) /\ out.result.tag = "Substituted"
              /\ AppendDecisions(out, c.root) = SubstitutedCell(c)
           \/ /\ c.status = "active" /\ ~NextCall(c, call) /\ out.result.tag = "Rejected"
              /\ AppendDecisions(out, c.root) = RejectedCell(c)
<1> DEFINE entry == c.history[c.cursor + 1]
           sub == StepOut([c EXCEPT !.cursor = c.cursor + 1],
                          [tag |-> "Substituted", outcome |-> entry.outcome],
                          <<Decision("RecordedSubstitution", c.cursor),
                            Decision("HistoryConsumed", c.cursor)>>)
<1>0. c.cursor \in Nat /\ Len(c.history) \in Nat /\ c.cursor <= Len(c.history)
  BY LenProperties DEF Cells, Histories, WellFormed
<1>1. CASE c.status = "aborted"
  <2>1. out = Absorb(c)
    BY <1>1 DEF Reduce
  <2>2. QED BY <1>1, <2>1, Absorbs
<1>2. CASE c.status = "active" /\ c.cursor = Len(c.history)
  <2>1. out = RejectStep(c, "HistoryExhausted")
    BY <1>2 DEF Reduce, InvokeReplay
  <2>2. ~NextCall(c, call)
    BY <1>0, <1>2 DEF NextCall
  <2>3. QED BY <1>2, <2>1, <2>2, Rejects
<1>3. CASE c.status = "active" /\ c.cursor # Len(c.history)
  <2>1. out = InvokeReplay(c, call)
    BY <1>3 DEF Reduce
  <2>2. [c EXCEPT !.cursor = c.cursor + 1]
          = Turned(c, c.status, c.history, c.cursor + 1, c.pending, c.root, c.trace)
    BY DEF Turned, Cells
  <2>3. AppendDecisions(sub, c.root) = SubstitutedCell(c)
    BY <2>2, Tells DEF SubstitutedCell
  <2>4. sub.result.tag = "Substituted"
    BY DEF StepOut
  <2>5. CASE entry.call = call
    <3>1. out = sub
      BY <1>3, <2>1, <2>5 DEF InvokeReplay
    <3> HIDE DEF sub
    <3>2. QED BY <1>0, <1>3, <3>1, <2>3, <2>4
  <2>6. CASE entry.call # call
    <3>1. \/ out = sub
          \/ \E category : out = RejectStep(c, category)
      BY <1>3, <2>1 DEF InvokeReplay
    <3>2. ~NextCall(c, call)
      BY <2>6 DEF NextCall
    <3> HIDE DEF sub
    <3>3. QED BY <1>0, <1>3, <3>1, <3>2, <2>3, <2>4, Rejects
  <2>7. QED BY <2>5, <2>6
<1>4. QED BY <1>1, <1>2, <1>3 DEF Cells

(* A session is complete with its cursor at the end of its history.        *)
CompletedCell(c) ==
    Turned(c, c.status, c.history, c.cursor, c.pending, c.root, With(c, "Completed"))

LEMMA Completion ==
    ASSUME NEW c \in Cells, NEW out, out = Reduce(c, [tag |-> "Complete"])
    PROVE  \/ c.status = "aborted" /\ out.result.tag = "Absorbed"
           \/ /\ c.status = "active" /\ c.cursor = Len(c.history) /\ out.result.tag = "Completed"
              /\ AppendDecisions(out, c.root) = CompletedCell(c)
           \/ /\ c.status = "active" /\ c.cursor # Len(c.history) /\ out.result.tag = "Rejected"
              /\ AppendDecisions(out, c.root) = RejectedCell(c)
<1>1. CASE c.status = "aborted"
  <2>1. out = Absorb(c)
    BY <1>1 DEF Reduce
  <2>2. QED BY <1>1, <2>1, Absorbs
<1>2. CASE c.status = "active" /\ c.cursor = Len(c.history)
  <2>1. out = StepOut(c, [tag |-> "Completed"], <<Decision("Completed", c.cursor)>>)
    BY <1>2 DEF Reduce, CompleteStep
  <2>2. out = StepOut(Turned(c, c.status, c.history, c.cursor, c.pending, c.root, c.trace),
                      [tag |-> "Completed"], <<Decision("Completed", c.cursor)>>)
    BY <2>1, Itself
  <2>3. AppendDecisions(out, c.root) = CompletedCell(c)
    BY <2>2, Tells DEF CompletedCell, With
  <2>4. out.result.tag = "Completed"
    BY <2>1 DEF StepOut
  <2>5. QED BY <1>2, <2>3, <2>4
<1>3. CASE c.status = "active" /\ c.cursor # Len(c.history)
  <2>1. out = RejectStep(c, "UnconsumedSuffix")
    BY <1>3 DEF Reduce, CompleteStep
  <2>2. QED BY <1>3, <2>1, Rejects
<1>4. QED BY <1>1, <1>2, <1>3 DEF Cells

-----------------------------------------------------------------------------
(* What is true of a cell at every moment of a session.                    *)

(* The session state is well formed and its root is its history.           *)
Sound(c) == WellFormed(c) /\ c.history = c.root

(* Where the cursor of a session with so long a base began.                *)
Start(c, base) == IF c.mode = "record" THEN base ELSE 0

(* The trace of a cell accounts for its cursor.                            *)
Traced(c, base) ==
    /\ PossibleTrace(c.trace, Start(c, base))
    /\ c.cursor = Start(c, base) + Advances(c.trace)

(* While a session is active its last decision says whether a delegation   *)
(* is outstanding.                                                         *)
Open(c) ==
    c.status = "active" =>
       /\ Unended(c.trace)
       /\ c.mode = "record" =>
             IF c.pending = Nothing THEN LastTag(c.trace) \in {"none", "OccurrenceAppended"}
             ELSE LastTag(c.trace) = "LiveDelegation"

Tracks(c, base) == Traced(c, base) /\ Open(c)

LEMMA CellFields ==
    ASSUME NEW c \in Cells
    PROVE  /\ c.mode \in {"record", "replay"} /\ c.status \in {"active", "aborted"}
           /\ c.history \in Seq(Entries) /\ c.root \in Seq(Entries)
           /\ Len(c.history) \in Nat
           /\ c.cursor \in Nat /\ c.pending \in Calls \cup {Nothing} /\ c.trace \in Seq(Decisions)
<1>1. c.history \in Seq(Entries)
  BY DEF Cells, Histories
<1>2. Len(c.history) \in Nat
  BY <1>1, LenProperties
<1>3. QED BY <1>1, <1>2 DEF Cells, Histories

LEMMA WithTyped ==
    ASSUME NEW c \in Cells, NEW tag \in Tags
    PROVE  /\ Decision(tag, c.cursor) \in Decisions
           /\ With(c, tag) \in Seq(Decisions)
<1>1. Decision(tag, c.cursor) \in Decisions
  BY CellFields DEF Decision, Decisions
<1>2. QED BY <1>1, CellFields, OneMore DEF With

(* One decision at the cursor.                                             *)
LEMMA WithExtends ==
    ASSUME NEW c \in Cells, NEW base \in Nat, NEW tag \in Tags,
           c.status = "active", Tracks(c, base), MayFollow(tag, LastTag(c.trace))
    PROVE  /\ PossibleTrace(With(c, tag), Start(c, base))
           /\ Start(c, base) + Advances(With(c, tag))
                = c.cursor + (IF tag \in Advancing THEN 1 ELSE 0)
           /\ LastTag(With(c, tag)) = tag
           /\ tag \notin Closing => Unended(With(c, tag))
<1> DEFINE d == Decision(tag, c.cursor)
<1>1. d \in Decisions /\ d.tag = tag /\ d.at = c.cursor
  BY WithTyped DEF Decision
<1>2. c.trace \in Seq(Decisions) /\ Start(c, base) \in Nat /\ c.cursor \in Nat
  BY CellFields DEF Start
<1>3. Unended(c.trace) /\ PossibleTrace(c.trace, Start(c, base))
      /\ c.cursor = Start(c, base) + Advances(c.trace)
  BY DEF Tracks, Traced, Open
<1> HIDE DEF d
<1>4. PossibleTrace(c.trace \o <<d>>, Start(c, base))
  BY <1>1, <1>2, <1>3, TraceExtends
<1>5. /\ Advances(c.trace) \in Nat
      /\ Advances(c.trace \o <<d>>) = Advances(c.trace) + (IF tag \in Advancing THEN 1 ELSE 0)
  BY <1>1, <1>2, AdvancesExtend
<1>6. /\ LastTag(c.trace \o <<d>>) = tag
      /\ tag \notin Closing => Unended(c.trace \o <<d>>)
  BY <1>1, <1>2, <1>3, LastOfMore
<1>7. With(c, tag) = c.trace \o <<d>>
  BY DEF With, d
<1>8. Start(c, base) + Advances(c.trace \o <<d>>) = c.cursor + (IF tag \in Advancing THEN 1 ELSE 0)
  BY <1>2, <1>3, <1>5
<1>9. QED BY <1>4, <1>6, <1>7, <1>8

LEMMA RejectedKeeps ==
    ASSUME NEW c \in Cells, NEW base \in Nat, Sound(c), NEW n, n = RejectedCell(c)
    PROVE  /\ n \in Cells /\ Sound(n)
           /\ n.mode = c.mode /\ n.status = "aborted" /\ n.history = c.history
           /\ n.cursor = c.cursor /\ n.pending = Nothing /\ n.root = c.root
           /\ c.status = "active" /\ Tracks(c, base) => Tracks(n, base)
<1>1. /\ n.mode = c.mode /\ n.status = "aborted" /\ n.history = c.history
      /\ n.cursor = c.cursor /\ n.pending = Nothing /\ n.root = c.root
      /\ n.trace = With(c, "TypedRejection")
  BY DEF RejectedCell, Turned
<1>2. With(c, "TypedRejection") \in Seq(Decisions)
  BY WithTyped DEF Tags
<1>3. n \in Cells
  BY <1>2, CellFields DEF Cells, RejectedCell, Turned, Histories
<1>4. Sound(n)
  BY <1>1 DEF Sound, WellFormed
<1>5. ASSUME c.status = "active", Tracks(c, base) PROVE Tracks(n, base)
  <2>1. /\ PossibleTrace(With(c, "TypedRejection"), Start(c, base))
        /\ Start(c, base) + Advances(With(c, "TypedRejection")) = c.cursor + 0
    BY <1>5, WithExtends DEF Tags, MayFollow, Advancing
  <2>2. c.cursor + 0 = c.cursor
    BY CellFields
  <2>3. QED BY <1>1, <2>1, <2>2 DEF Tracks, Traced, Open, Start
<1>6. QED BY <1>1, <1>3, <1>4, <1>5

LEMMA DelegatedKeeps ==
    ASSUME NEW c \in Cells, NEW base \in Nat, Sound(c), NEW call \in Calls,
           c.mode = "record", c.status = "active", c.pending = Nothing,
           NEW n, n = DelegatedCell(c, call)
    PROVE  /\ n \in Cells /\ Sound(n)
           /\ n.mode = "record" /\ n.status = "active" /\ n.history = c.history
           /\ n.cursor = c.cursor /\ n.pending = call /\ n.root = c.root
           /\ Tracks(c, base) => Tracks(n, base)
<1>1. /\ n.mode = c.mode /\ n.status = c.status /\ n.history = c.history
      /\ n.cursor = c.cursor /\ n.pending = call /\ n.root = c.root
      /\ n.trace = With(c, "LiveDelegation")
  BY DEF DelegatedCell, Turned
<1>2. With(c, "LiveDelegation") \in Seq(Decisions)
  BY WithTyped DEF Tags
<1>3. n \in Cells
  BY <1>2, CellFields DEF Cells, DelegatedCell, Turned, Histories
<1>4. Sound(n)
  BY <1>1 DEF Sound, WellFormed
<1>5. ASSUME Tracks(c, base) PROVE Tracks(n, base)
  <2>1. MayFollow("LiveDelegation", LastTag(c.trace))
    BY <1>5 DEF Tracks, Open, MayFollow
  <2>2. /\ PossibleTrace(With(c, "LiveDelegation"), Start(c, base))
        /\ Start(c, base) + Advances(With(c, "LiveDelegation")) = c.cursor + 0
        /\ LastTag(With(c, "LiveDelegation")) = "LiveDelegation"
        /\ Unended(With(c, "LiveDelegation"))
    BY <1>5, <2>1, WithExtends DEF Tags, Advancing, Closing
  <2>3. c.cursor + 0 = c.cursor
    BY CellFields
  <2>4. call # Nothing
    BY SessionAssumption
  <2>5. QED BY <1>1, <2>2, <2>3, <2>4 DEF Tracks, Traced, Open, Start
<1>6. QED BY <1>1, <1>3, <1>4, <1>5

LEMMA AppendedKeeps ==
    ASSUME NEW c \in Cells, NEW base \in Nat, Sound(c), NEW call \in Calls, NEW outcome \in Outcomes,
           c.mode = "record", c.status = "active", c.pending = call,
           NEW n, n = AppendedCell(c, call, outcome, Append(c.root, Entry(call, outcome)))
    PROVE  /\ n \in Cells /\ Sound(n)
           /\ n.mode = "record" /\ n.status = "active"
           /\ n.history = Append(c.history, Entry(call, outcome))
           /\ n.cursor = c.cursor + 1 /\ n.pending = Nothing
           /\ n.root = Append(c.root, Entry(call, outcome))
           /\ Tracks(c, base) => Tracks(n, base)
<1> DEFINE e == Entry(call, outcome)
<1>1. /\ n.mode = c.mode /\ n.status = c.status /\ n.history = Append(c.history, e)
      /\ n.cursor = c.cursor + 1 /\ n.pending = Nothing /\ n.root = Append(c.root, e)
      /\ n.trace = With(c, "OccurrenceAppended")
  BY DEF AppendedCell, Turned
<1>2. With(c, "OccurrenceAppended") \in Seq(Decisions)
  BY WithTyped DEF Tags
<1>3. e \in Entries
  BY DEF Entry, Entries
<1>4. /\ c.history \in Seq(Entries) /\ c.root = c.history
      /\ c.cursor = Len(c.history) /\ Len(c.history) \in Nat
  BY CellFields DEF Sound, WellFormed
<1>5. Append(c.history, e) \in Seq(Entries) /\ Len(Append(c.history, e)) = Len(c.history) + 1
  BY <1>3, <1>4, AppendProperties
<1>6. n = Turned(c, c.status, Append(c.history, e), c.cursor + 1, Nothing, Append(c.root, e),
                 With(c, "OccurrenceAppended"))
  BY DEF AppendedCell
<1> HIDE DEF e
<1>7. n \in Cells
  <2> DEFINE h == Append(c.history, e)
             w == With(c, "OccurrenceAppended")
  <2>1. n = Turned(c, c.status, h, c.cursor + 1, Nothing, h, w)
    BY <1>4, <1>6
  <2>2. h \in Seq(Entries) /\ w \in Seq(Decisions) /\ c.cursor + 1 \in Nat
    BY <1>2, <1>4, <1>5
  <2> HIDE DEF h, w
  <2>3. QED BY <2>1, <2>2, CellFields DEF Cells, Turned, Histories
<1>8. Sound(n)
  BY <1>1, <1>4, <1>5 DEF Sound, WellFormed
<1>9. ASSUME Tracks(c, base) PROVE Tracks(n, base)
  <2>1. c.pending # Nothing
    BY SessionAssumption
  <2>2. MayFollow("OccurrenceAppended", LastTag(c.trace))
    BY <1>9, <2>1 DEF Tracks, Open, MayFollow
  <2>3. /\ PossibleTrace(With(c, "OccurrenceAppended"), Start(c, base))
        /\ Start(c, base) + Advances(With(c, "OccurrenceAppended")) = c.cursor + 1
        /\ LastTag(With(c, "OccurrenceAppended")) = "OccurrenceAppended"
        /\ Unended(With(c, "OccurrenceAppended"))
    BY <1>9, <2>2, WithExtends DEF Tags, Advancing, Closing
  <2>4. QED BY <1>1, <2>3 DEF Tracks, Traced, Open, Start
<1>10. QED BY <1>1, <1>7, <1>8, <1>9 DEF e

LEMMA FailedKeeps ==
    ASSUME NEW c \in Cells, NEW base \in Nat, Sound(c), c.mode = "record", NEW n, n = FailedCell(c)
    PROVE  /\ n \in Cells /\ Sound(n)
           /\ n.mode = c.mode /\ n.status = "aborted" /\ n.history = c.history
           /\ n.cursor = c.cursor /\ n.pending = Nothing /\ n.root = c.root
           /\ Tracks(c, base) => Tracks(n, base)
<1>1. /\ n.mode = c.mode /\ n.status = "aborted" /\ n.history = c.history
      /\ n.cursor = c.cursor /\ n.pending = Nothing /\ n.root = c.root /\ n.trace = c.trace
  BY DEF FailedCell, Turned
<1>2. n \in Cells
  BY CellFields DEF Cells, FailedCell, Turned, Histories
<1>3. Sound(n) /\ (Tracks(c, base) => Tracks(n, base))
  BY <1>1 DEF Sound, WellFormed, Tracks, Traced, Open, Start
<1>4. QED BY <1>1, <1>2, <1>3

LEMMA CompletedKeeps ==
    ASSUME NEW c \in Cells, NEW base \in Nat, Sound(c), c.status = "active", NEW n, n = CompletedCell(c)
    PROVE  /\ n \in Cells /\ Sound(n)
           /\ n.mode = c.mode /\ n.status = c.status /\ n.history = c.history
           /\ n.cursor = c.cursor /\ n.pending = c.pending /\ n.root = c.root
           /\ Tracks(c, base) => Traced(n, base)
<1>1. /\ n.mode = c.mode /\ n.status = c.status /\ n.history = c.history
      /\ n.cursor = c.cursor /\ n.pending = c.pending /\ n.root = c.root
      /\ n.trace = With(c, "Completed")
  BY DEF CompletedCell, Turned
<1>2. With(c, "Completed") \in Seq(Decisions)
  BY WithTyped DEF Tags
<1>3. n \in Cells
  BY <1>2, CellFields DEF Cells, CompletedCell, Turned, Histories
<1>4. Sound(n)
  BY <1>1 DEF Sound, WellFormed
<1>5. ASSUME Tracks(c, base) PROVE Traced(n, base)
  <2>1. /\ PossibleTrace(With(c, "Completed"), Start(c, base))
        /\ Start(c, base) + Advances(With(c, "Completed")) = c.cursor + 0
    BY <1>5, WithExtends DEF Tags, MayFollow, Advancing
  <2>2. c.cursor + 0 = c.cursor
    BY CellFields
  <2>3. QED BY <1>1, <2>1, <2>2 DEF Traced, Start
<1>6. QED BY <1>1, <1>3, <1>4, <1>5

LEMMA TwoMore ==
    ASSUME NEW S, NEW a \in S, NEW b \in S
    PROVE  <<a>> \o <<b>> = <<a, b>>
<1>1. <<a>> \in Seq(S) /\ <<b>> \in Seq(S) /\ <<a, b>> \in Seq(S)
  OBVIOUS
<1>2. Append(<<a>>, b) = <<a>> \o <<b>>
  BY <1>1, AppendIsConcat
<1>3. /\ Append(<<a>>, b) \in Seq(S) /\ Len(Append(<<a>>, b)) = 2
      /\ \A i \in 1..1 : Append(<<a>>, b)[i] = a
      /\ Append(<<a>>, b)[2] = b
  <2>1. Len(<<a>>) = 1 /\ <<a>>[1] = a
    OBVIOUS
  <2>2. QED BY <1>1, <2>1, AppendProperties
<1>4. Len(<<a, b>>) = 2 /\ <<a, b>>[1] = a /\ <<a, b>>[2] = b
  OBVIOUS
<1>5. \A i \in 1..2 : Append(<<a>>, b)[i] = <<a, b>>[i]
  BY <1>3, <1>4
<1>6. Append(<<a>>, b) = <<a, b>>
  BY <1>1, <1>3, <1>4, <1>5, SeqEqual
<1>7. QED BY <1>2, <1>6

(* A substitution and its consumption are two decisions at one cursor.     *)
LEMMA SubstitutedKeeps ==
    ASSUME NEW c \in Cells, NEW base \in Nat, Sound(c), c.mode = "replay", c.status = "active",
           c.cursor < Len(c.history), NEW n, n = SubstitutedCell(c)
    PROVE  /\ n \in Cells /\ Sound(n)
           /\ n.mode = c.mode /\ n.status = c.status /\ n.history = c.history
           /\ n.cursor = c.cursor + 1 /\ n.pending = c.pending /\ n.root = c.root
           /\ Tracks(c, base) => Tracks(n, base)
<1> DEFINE one == Decision("RecordedSubstitution", c.cursor)
           two == Decision("HistoryConsumed", c.cursor)
           t   == c.trace
           u   == t \o <<one>>
<1>1. one \in Decisions /\ two \in Decisions
  BY WithTyped DEF Tags
<1>2. t \in Seq(Decisions) /\ c.cursor \in Nat /\ Len(c.history) \in Nat
  BY CellFields
<1>3. u \in Seq(Decisions) /\ u \o <<two>> \in Seq(Decisions)
  BY <1>1, <1>2, OneMore
<1>4. t \o <<one, two>> = u \o <<two>>
  <2>1. <<one>> \in Seq(Decisions) /\ <<two>> \in Seq(Decisions)
    BY <1>1
  <2>2. <<one>> \o <<two>> = <<one, two>>
    BY <1>1, TwoMore
  <2>3. QED BY <1>2, <2>1, <2>2, ConcatAssociative
<1>5. /\ n.mode = c.mode /\ n.status = c.status /\ n.history = c.history
      /\ n.cursor = c.cursor + 1 /\ n.pending = c.pending /\ n.root = c.root
      /\ n.trace = u \o <<two>>
  BY <1>4 DEF SubstitutedCell, Turned
<1>6. n = Turned(c, c.status, c.history, c.cursor + 1, c.pending, c.root, u \o <<two>>)
  BY <1>4 DEF SubstitutedCell
<1>7. n \in Cells
  <2>1. u \o <<two>> \in Seq(Decisions)
    BY <1>3
  <2> HIDE DEF u, two
  <2>2. QED BY <1>6, <2>1, CellFields DEF Cells, Turned, Histories
<1>8. Sound(n)
  BY <1>2, <1>5 DEF Sound, WellFormed
<1>9. ASSUME Tracks(c, base) PROVE Tracks(n, base)
  <2>1. /\ PossibleTrace(t, Start(c, base)) /\ Unended(t)
        /\ c.cursor = Start(c, base) + Advances(t) /\ Start(c, base) \in Nat
    BY <1>9 DEF Tracks, Traced, Open, Start
  <2>2. /\ one.tag = "RecordedSubstitution" /\ one.at = c.cursor
        /\ two.tag = "HistoryConsumed" /\ two.at = c.cursor
    BY DEF Decision
  <2> HIDE DEF one, two
  <2>3. PossibleTrace(u, Start(c, base))
    BY <1>1, <1>2, <2>1, <2>2, TraceExtends DEF MayFollow
  <2>4. Advances(u) = Advances(t) + 0 /\ Advances(t) \in Nat
    BY <1>1, <1>2, <2>2, AdvancesExtend DEF Advancing
  <2>5. LastTag(u) = "RecordedSubstitution" /\ Unended(u)
    BY <1>1, <1>2, <2>1, <2>2, LastOfMore DEF Closing
  <2> HIDE DEF u
  <2>6. PossibleTrace(u \o <<two>>, Start(c, base))
    <3>1. two.at = Start(c, base) + Advances(u)
      BY <2>1, <2>2, <2>4
    <3>2. MayFollow(two.tag, LastTag(u))
      BY <2>2, <2>5 DEF MayFollow
    <3>3. QED BY <1>1, <1>3, <2>1, <2>3, <2>5, <3>1, <3>2, TraceExtends
  <2>7. Advances(u \o <<two>>) = Advances(u) + 1
    BY <1>1, <1>3, <2>2, AdvancesExtend DEF Advancing
  <2>8. Unended(u \o <<two>>)
    BY <1>1, <1>3, <2>2, <2>5, LastOfMore DEF Closing
  <2>9. c.cursor + 1 = Start(c, base) + Advances(u \o <<two>>)
    BY <1>2, <2>1, <2>4, <2>7
  <2>10. QED BY <1>5, <2>6, <2>8, <2>9 DEF Tracks, Traced, Open, Start
<1>10. QED BY <1>5, <1>7, <1>8, <1>9

-----------------------------------------------------------------------------
(* The records of a fiber and of a session.                                *)

FiberPcs == {"none", "idle", "live", "returned", "append", "putting", "dead", "done"}
RunPcs   == {"none", "program", "finish", "persist", "abort", "ended"}
Exitings == {Nothing, "Result", "CasError", "Defect", "Interrupted"}
Scripts  == [calls : Seq(Calls), terminal : Terminals \cup {Nothing}, plain : BOOLEAN]

(* Why a fiber died and what a session came to are told by their own kind. *)
FiberTyped(r) ==
    r \in [pc : FiberPcs, call : Calls \cup {Nothing}, outcome : Outcomes \cup {Nothing},
           n : Nat, why : {r.why}]

RunTyped(r) ==
    r \in [pc : RunPcs, number : Nat, base : Nat, follow : BOOLEAN, left : 0..MaxCalls,
           interrupted : BOOLEAN, exit : Exitings, outcome : {r.outcome}, receipts : Nat]

(* A fiber that rests, one that is not there, is done, or died.            *)
LEMMA RestTyped ==
    ASSUME NEW r, r = [NoFiber EXCEPT !.pc = "idle"]
    PROVE  FiberTyped(r) /\ r.pc = "idle"
  BY DEF NoFiber, FiberTyped, FiberPcs

LEMMA NoneTyped == FiberTyped(NoFiber) /\ NoFiber.pc = "none"
  BY DEF NoFiber, FiberTyped, FiberPcs

LEMMA DoneTyped ==
    ASSUME NEW r, r = [NoFiber EXCEPT !.pc = "done"]
    PROVE  FiberTyped(r) /\ r.pc = "done"
  BY DEF NoFiber, FiberTyped, FiberPcs

LEMMA DeadTyped ==
    ASSUME NEW why, NEW r, r = [NoFiber EXCEPT !.pc = "dead", !.why = why]
    PROVE  FiberTyped(r) /\ r.pc = "dead" /\ r.why = why
<1> DEFINE m == [NoFiber EXCEPT !.pc = "dead"]
<1>1. FiberTyped(m) /\ m.pc = "dead"
  BY DEF NoFiber, FiberTyped, FiberPcs
<1>2. r = [m EXCEPT !.why = why]
  OBVIOUS
<1> HIDE DEF m
<1>3. QED BY <1>1, <1>2 DEF FiberTyped

(* A fiber that goes on with the call it has.                              *)
LEMMA MovesTyped ==
    ASSUME NEW h, FiberTyped(h), NEW pc \in FiberPcs, NEW r, r = [h EXCEPT !.pc = pc]
    PROVE  /\ FiberTyped(r) /\ r.pc = pc
           /\ r.call = h.call /\ r.outcome = h.outcome /\ r.n = h.n /\ r.why = h.why
  BY DEF FiberTyped

Returned(h, outcome) == [h EXCEPT !.pc = "returned", !.outcome = outcome]

LEMMA ReturnsTyped ==
    ASSUME NEW h, FiberTyped(h), NEW outcome \in Outcomes, NEW r, r = Returned(h, outcome)
    PROVE  /\ FiberTyped(r) /\ r.pc = "returned"
           /\ r.call = h.call /\ r.outcome = outcome /\ r.n = h.n
<1> DEFINE m == [h EXCEPT !.pc = "returned"]
<1>1. FiberTyped(m) /\ m.pc = "returned" /\ m.call = h.call /\ m.n = h.n
  BY MovesTyped DEF FiberPcs
<1>2. r = [m EXCEPT !.outcome = outcome]
  BY DEF Returned
<1> HIDE DEF m
<1>3. QED BY <1>1, <1>2 DEF FiberTyped

Calling(h, call, n) == [h EXCEPT !.pc = "live", !.call = call, !.n = n]

LEMMA CallsTyped ==
    ASSUME NEW h, FiberTyped(h), NEW call \in Calls, NEW n \in Nat, NEW r, r = Calling(h, call, n)
    PROVE  FiberTyped(r) /\ r.pc = "live" /\ r.call = call /\ r.n = n
<1> DEFINE m == [h EXCEPT !.pc = "live"]
           k == [m EXCEPT !.call = call]
<1>1. FiberTyped(m) /\ m.pc = "live"
  BY MovesTyped DEF FiberPcs
<1>2. r = [k EXCEPT !.n = n]
  BY DEF Calling
<1> HIDE DEF m
<1>3. FiberTyped(k) /\ k.pc = "live" /\ k.call = call
  BY <1>1 DEF FiberTyped
<1> HIDE DEF k
<1>4. QED BY <1>2, <1>3 DEF FiberTyped

(* The fibers, one of them set.                                            *)
LEMMA FiberSets ==
    ASSUME NEW F, DOMAIN F = Fibers, NEW f \in Fibers, NEW r, NEW G, G = [F EXCEPT ![f] = r]
    PROVE  /\ DOMAIN G = Fibers /\ G[f] = r
           /\ \A g \in Fibers : g # f => G[g] = F[g]
  OBVIOUS

(* What no step of a session changes before the next begins.               *)
SameRun(n, r) == n.number = r.number /\ n.base = r.base /\ n.follow = r.follow

(* A session with one of its fields set.                                   *)
LEMMA RunPc ==
    ASSUME NEW r, RunTyped(r), NEW v \in RunPcs, NEW n, n = [r EXCEPT !.pc = v]
    PROVE  /\ RunTyped(n) /\ SameRun(n, r)
           /\ n.pc = v /\ n.left = r.left /\ n.interrupted = r.interrupted
           /\ n.exit = r.exit /\ n.outcome = r.outcome /\ n.receipts = r.receipts
  BY DEF RunTyped, SameRun

LEMMA RunLeft ==
    ASSUME NEW r, RunTyped(r), NEW v \in 0..MaxCalls, NEW n, n = [r EXCEPT !.left = v]
    PROVE  /\ RunTyped(n) /\ SameRun(n, r)
           /\ n.pc = r.pc /\ n.left = v /\ n.interrupted = r.interrupted
           /\ n.exit = r.exit /\ n.outcome = r.outcome /\ n.receipts = r.receipts
  BY DEF RunTyped, SameRun

LEMMA RunInterrupted ==
    ASSUME NEW r, RunTyped(r), NEW n, n = [r EXCEPT !.interrupted = TRUE]
    PROVE  /\ RunTyped(n) /\ SameRun(n, r)
           /\ n.pc = r.pc /\ n.left = r.left
           /\ n.exit = r.exit /\ n.outcome = r.outcome /\ n.receipts = r.receipts
  BY DEF RunTyped, SameRun

LEMMA RunExit ==
    ASSUME NEW r, RunTyped(r), NEW v \in Exitings, NEW n, n = [r EXCEPT !.exit = v]
    PROVE  /\ RunTyped(n) /\ SameRun(n, r)
           /\ n.pc = r.pc /\ n.left = r.left /\ n.interrupted = r.interrupted
           /\ n.exit = v /\ n.outcome = r.outcome /\ n.receipts = r.receipts
  BY DEF RunTyped, SameRun

LEMMA RunOutcome ==
    ASSUME NEW r, RunTyped(r), NEW v, NEW n, n = [r EXCEPT !.outcome = v]
    PROVE  /\ RunTyped(n) /\ SameRun(n, r)
           /\ n.pc = r.pc /\ n.left = r.left /\ n.interrupted = r.interrupted
           /\ n.exit = r.exit /\ n.outcome = v /\ n.receipts = r.receipts
  BY DEF RunTyped, SameRun

LEMMA RunReceipts ==
    ASSUME NEW r, RunTyped(r), NEW v \in Nat, NEW n, n = [r EXCEPT !.receipts = v]
    PROVE  /\ RunTyped(n) /\ SameRun(n, r)
           /\ n.pc = r.pc /\ n.left = r.left /\ n.interrupted = r.interrupted
           /\ n.exit = r.exit /\ n.outcome = r.outcome /\ n.receipts = v
  BY DEF RunTyped, SameRun

(* The fields of a session the steps of one set together.                  *)
ComesTo(r, v, w) == [r EXCEPT !.pc = v, !.outcome = w]

LEMMA RunPcOutcome ==
    ASSUME NEW r, RunTyped(r), NEW v \in RunPcs, NEW w, NEW n, n = ComesTo(r, v, w)
    PROVE  /\ RunTyped(n) /\ SameRun(n, r)
           /\ n.pc = v /\ n.left = r.left /\ n.exit = r.exit /\ n.outcome = w
           /\ n.receipts = r.receipts
<1> DEFINE m == [r EXCEPT !.pc = v]
<1>1. /\ RunTyped(m) /\ SameRun(m, r)
      /\ m.pc = v /\ m.left = r.left /\ m.exit = r.exit /\ m.receipts = r.receipts
  BY RunPc
<1>2. n = [m EXCEPT !.outcome = w]
  BY DEF ComesTo
<1> HIDE DEF m
<1>3. /\ RunTyped(n) /\ SameRun(n, m)
      /\ n.pc = m.pc /\ n.left = m.left /\ n.exit = m.exit /\ n.outcome = w /\ n.receipts = m.receipts
  BY <1>1, <1>2 DEF RunTyped, SameRun
<1>4. QED BY <1>1, <1>3 DEF SameRun

Fails(r, v, x) == [r EXCEPT !.pc = v, !.exit = x]

LEMMA RunPcExit ==
    ASSUME NEW r, RunTyped(r), NEW v \in RunPcs, NEW x \in Exitings, NEW n, n = Fails(r, v, x)
    PROVE  /\ RunTyped(n) /\ SameRun(n, r)
           /\ n.pc = v /\ n.left = r.left /\ n.exit = x /\ n.receipts = r.receipts
<1> DEFINE m == [r EXCEPT !.pc = v]
<1>1. /\ RunTyped(m) /\ SameRun(m, r)
      /\ m.pc = v /\ m.left = r.left /\ m.exit = r.exit /\ m.receipts = r.receipts
  BY RunPc
<1>2. n = [m EXCEPT !.exit = x]
  BY DEF Fails
<1> HIDE DEF m
<1>3. /\ RunTyped(n) /\ SameRun(n, m)
      /\ n.pc = m.pc /\ n.left = m.left /\ n.exit = x /\ n.receipts = m.receipts
  BY <1>1, <1>2 DEF RunTyped, SameRun
<1>4. QED BY <1>1, <1>3 DEF SameRun

Leaves(r, v, x, w) == [r EXCEPT !.pc = v, !.exit = x, !.outcome = w]

LEMMA RunEnds ==
    ASSUME NEW r, RunTyped(r), NEW v \in RunPcs, NEW x \in Exitings, NEW w,
           NEW n, n = Leaves(r, v, x, w)
    PROVE  /\ RunTyped(n) /\ SameRun(n, r)
           /\ n.pc = v /\ n.left = r.left /\ n.exit = x /\ n.outcome = w
           /\ n.receipts = r.receipts
<1> DEFINE m == [r EXCEPT !.pc = v]
           k == [m EXCEPT !.exit = x]
<1>1. /\ RunTyped(m) /\ SameRun(m, r)
      /\ m.pc = v /\ m.left = r.left /\ m.receipts = r.receipts
  BY RunPc
<1>2. n = [k EXCEPT !.outcome = w]
  BY DEF Leaves
<1> HIDE DEF m
<1>3. /\ RunTyped(k) /\ SameRun(k, m)
      /\ k.pc = m.pc /\ k.left = m.left /\ k.exit = x /\ k.receipts = m.receipts
  BY <1>1 DEF RunTyped, SameRun
<1> HIDE DEF k
<1>4. /\ RunTyped(n) /\ SameRun(n, k)
      /\ n.pc = k.pc /\ n.left = k.left /\ n.exit = k.exit /\ n.outcome = w /\ n.receipts = k.receipts
  BY <1>2, <1>3 DEF RunTyped, SameRun
<1>5. QED BY <1>1, <1>3, <1>4 DEF SameRun

-----------------------------------------------------------------------------
(* The inductive invariant.                                                *)

Flying == {"live", "returned", "append", "putting"}

Typed ==
    /\ nodes \subseteq Histories
    /\ cell \in Cells
    /\ lock \in Fibers \cup {Nothing}
    /\ DOMAIN fiber = Fibers /\ \A f \in Fibers : FiberTyped(fiber[f])
    /\ RunTyped(run)
    /\ performed \in Seq(Executed)
    /\ script \in Scripts

(* The cell is held by a fiber that puts, or by the end of the session.    *)
Turns ==
    /\ \A f \in Fibers : fiber[f].pc = "putting" => lock = f
    /\ lock # Nothing => \/ fiber[lock].pc = "putting"
                         \/ lock = Main /\ run.pc = "persist"
    /\ run.pc = "persist" => lock = Main /\ fiber[Main].pc \in {"idle", "dead"}
    /\ run.pc = "finish" => fiber[Main].pc = "idle"
    /\ fiber[Main].pc \in Flying => run.pc = "program"

(* How many of the live executions a recording has appended.               *)
Grown(c, base) == Len(c.history) - base

(* A recording delegates one call at a time and appends what it delegated: *)
(* it lacks the last execution at most, and while it is active it lacks it *)
(* as long as a delegation is outstanding.                                 *)
Delegates(c, p, base) ==
    c.mode = "record" =>
       /\ Grown(c, base) \in Nat
       /\ Len(p) \in {Grown(c, base), Grown(c, base) + 1}
       /\ c.status = "active" => (c.pending = Nothing <=> Len(p) = Grown(c, base))
       /\ \A k \in 1..Grown(c, base) : c.history[base + k] = p[k]

(* A fiber with a call in flight has the execution that lacks, and its     *)
(* call is the outstanding one.                                            *)
Flight(r, c, p, base) ==
    r.pc \in Flying =>
       /\ c.mode = "record" /\ Len(p) = Grown(c, base) + 1
       /\ r.n = Len(p) /\ r.call \in Calls /\ p[Len(p)].call = r.call
       /\ r.pc # "live" => r.outcome \in Outcomes /\ p[Len(p)].outcome = r.outcome
       /\ r.pc = "putting" => c.status = "active"
       /\ c.status = "active" => c.pending = r.call

Flies ==
    /\ \A f \in Fibers : Flight(fiber[f], cell, performed, run.base)
    /\ \A f, g \in Fibers : fiber[f].pc \in Flying /\ fiber[g].pc \in Flying => f = g

(* A session that ended may be called on, by a fiber it forked.            *)
Tracing == run.pc # "ended" => Tracks(cell, run.base)

(* What a session comes to: the witness it puts and the cell it leaves.    *)
Concludes(end, c, base) ==
    /\ end.next \in Cells /\ Sound(end.next) /\ Traced(end.next, base)
    /\ end.next.mode = c.mode /\ end.next.history = c.history /\ end.next.cursor = c.cursor
    /\ \/ end.next.status = c.status /\ end.next.pending = c.pending
       \/ c.mode = "replay" /\ end.next.status = "aborted"
    /\ end.outcome.tag = "Completed" => end.next.cursor = Len(end.next.history)

Persisting == run.pc = "persist" => Concludes(run.outcome, cell, run.base)

Exits ==
    /\ run.pc # "ended" => run.receipts = 0
    /\ run.pc = "abort" => run.exit \in {"Defect", "Interrupted"}
    /\ run.pc \in {"none", "program", "finish", "persist"} => run.exit = Nothing
    /\ run.pc = "finish" => run.outcome \in Terminals

SessionInv ==
    /\ Typed
    /\ Sound(cell) /\ Delegates(cell, performed, run.base) /\ HistoryStored
    /\ Turns /\ Flies
    /\ Tracing /\ Persisting /\ WitnessTrue
    /\ Exits /\ AbortReceipted

(* A history that says what the calls of a script are.                     *)
Says(h, calls) ==
    \A k \in 1..Len(h) : h[k].call = calls[k] /\ Storable(calls[k].request)

Match(calls, h) == Len(calls) = Len(h) /\ Says(h, calls)

Outstanding(calls, h, call) ==
    /\ Len(calls) = Len(h) + 1 /\ Says(h, calls)
    /\ calls[Len(calls)] = call /\ Storable(call.request)

(* The script of a plain recording is what its history says.               *)
Scripted ==
    cell.mode = "record" /\ script.plain =>
       /\ \A f \in Others : fiber[f].pc = "none"
       /\ run.pc = "program" => script.terminal = Nothing
       /\ fiber[Main].pc \in Flying => cell.status = "active"
       /\ run.base = 0 =>
             /\ fiber[Main].pc = "idle" \/ script.terminal # Nothing =>
                   Match(script.calls, cell.history)
             /\ fiber[Main].pc \in Flying =>
                   Outstanding(script.calls, cell.history, fiber[Main].call)

(* What a replay that follows the script comes to.                         *)
Repeated == [tag |-> "Completed", terminal |-> script.terminal]

Followed ==
    /\ cell.mode = "replay" /\ \A f \in Others : fiber[f].pc = "none"
    /\ fiber[Main].pc \in {"idle", "done"}
    /\ script.terminal \in Terminals /\ Match(script.calls, cell.history)
    /\ run.pc \in {"program", "finish"} =>
          cell.status = "active" /\ cell.cursor = MaxCalls - run.left
    /\ run.pc = "finish" => run.outcome = script.terminal /\ cell.cursor = Len(script.calls)
    /\ run.pc = "persist" =>
          run.outcome.outcome = Repeated /\ run.outcome.next.cursor = Len(script.calls)
    /\ run.exit \in {Nothing, "Result", "CasError", "Interrupted"}
    /\ run.exit = "Result" /\ run.exit # Nothing =>
          run.outcome.outcome = Repeated /\ run.outcome.consumed = Len(script.calls)

Follows ==
    /\ cell.mode = "replay" => Len(cell.history) = run.base
    /\ run.follow => Followed

IInv == SessionInv /\ Scripted /\ Follows

-----------------------------------------------------------------------------
(* Facts the steps share.                                                  *)

LEMMA NotHeld ==
    ASSUME Typed, Turns, lock = Nothing
    PROVE  \A f \in Fibers : fiber[f].pc # "putting"
<1>1. Nothing \notin Fibers
  BY SessionAssumption DEF Fibers
<1>2. QED BY <1>1 DEF Turns

LEMMA Kinds == Main \in Fibers /\ Main \notin Others /\ \A f \in Others : f \in Fibers /\ f # Main
  BY SessionAssumption DEF Fibers

LEMMA Alone ==
    ASSUME Flies, NEW f \in Fibers, fiber[f].pc \in Flying
    PROVE  \A g \in Fibers : g # f => fiber[g].pc \notin Flying
  BY DEF Flies

(* No call is in flight while a recording lacks no execution.              *)
LEMMA NoneFlies ==
    ASSUME Flies, Grown(cell, run.base) \in Nat, Len(performed) = Grown(cell, run.base)
    PROVE  \A g \in Fibers : fiber[g].pc \notin Flying
<1> SUFFICES ASSUME NEW g \in Fibers, fiber[g].pc \in Flying PROVE FALSE
  OBVIOUS
<1>1. Len(performed) = Grown(cell, run.base) + 1
  BY DEF Flies, Flight
<1>2. QED BY <1>1

(* A fiber is set, and the hold on the cell goes with it.                  *)
LEMMA TurnsKept ==
    ASSUME Typed, Turns, NEW f \in Fibers, NEW r, fiber' = [fiber EXCEPT ![f] = r],
           r.pc # "putting", f = Main => run.pc = "program", run'.pc = run.pc,
           \/ fiber[f].pc # "putting" /\ lock' = lock
           \/ fiber[f].pc = "putting" /\ lock' = Nothing
    PROVE  Turns'
<1>1. /\ DOMAIN fiber = Fibers /\ lock \in Fibers \cup {Nothing}
      /\ fiber'[f] = r /\ \A g \in Fibers : g # f => fiber'[g] = fiber[g]
  BY FiberSets DEF Typed
<1>2. Main \in Fibers
  BY Kinds
<1>3. \A g \in Fibers : fiber'[g].pc = "putting" => lock' = g
  BY <1>1 DEF Turns
<1>4. lock' # Nothing => fiber'[lock'].pc = "putting" \/ (lock' = Main /\ run'.pc = "persist")
  BY <1>1 DEF Turns
<1>5. run'.pc = "persist" => lock' = Main /\ fiber'[Main].pc \in {"idle", "dead"}
  <2> SUFFICES ASSUME run.pc = "persist" PROVE lock' = Main /\ fiber'[Main].pc \in {"idle", "dead"}
    OBVIOUS
  <2>1. f # Main /\ lock = Main /\ fiber[Main].pc \in {"idle", "dead"}
    BY DEF Turns
  <2>2. fiber[f].pc # "putting"
    BY <2>1 DEF Turns
  <2>3. QED BY <1>1, <1>2, <2>1, <2>2
<1>6. run'.pc = "finish" => fiber'[Main].pc = "idle"
  BY <1>1, <1>2 DEF Turns
<1>7. fiber'[Main].pc \in Flying => run'.pc = "program"
  BY <1>1, <1>2 DEF Turns
<1>8. QED BY <1>3, <1>4, <1>5, <1>6, <1>7 DEF Turns

(* The handler's outcome completes the execution.                          *)
LEMMA ExecutedReturns ==
    ASSUME NEW p \in Seq(Executed), NEW n \in 1..Len(p), NEW outcome \in Outcomes,
           NEW q, q = [p EXCEPT ![n].outcome = outcome]
    PROVE  /\ q \in Seq(Executed) /\ Len(q) = Len(p)
           /\ q[n].call = p[n].call /\ q[n].outcome = outcome
           /\ \A k \in 1..Len(p) : k # n => q[k] = p[k]
<1> DEFINE e == [p[n] EXCEPT !.outcome = outcome]
<1>1. p[n] \in Executed
  BY ElementOfSeq
<1>2. e \in Executed /\ e.call = p[n].call /\ e.outcome = outcome
  BY <1>1 DEF Executed
<1>3. q = [p EXCEPT ![n] = e]
  OBVIOUS
<1> HIDE DEF e
<1>4. q \in Seq(Executed) /\ Len(q) = Len(p) /\ \A k \in 1..Len(p) : q[k] = IF k = n THEN e ELSE p[k]
  BY <1>2, <1>3, ExceptSeq
<1>5. QED BY <1>2, <1>4

(* An abort leaves executions and history as they are.                     *)
LEMMA FlightAborts ==
    ASSUME NEW c, NEW n, NEW p, NEW base, n.mode = c.mode, n.history = c.history, n.status = "aborted",
           NEW r, r.pc # "putting", Flight(r, c, p, base)
    PROVE  Flight(r, n, p, base)
  BY DEF Flight, Grown

LEMMA DelegatesAborts ==
    ASSUME NEW c, NEW n, NEW p, NEW base, n.mode = c.mode, n.history = c.history, n.status = "aborted",
           Delegates(c, p, base)
    PROVE  Delegates(n, p, base)
  BY DEF Delegates, Grown

(* A call is performed, and appended with its outcome.                     *)
LEMMA DelegatesCalls ==
    ASSUME Typed, Delegates(cell, performed, run.base),
           cell.mode = "record", cell.status = "active", cell.pending = Nothing,
           NEW call \in Calls, NEW n, n.history = cell.history, n.pending = call,
           NEW q, q = Append(performed, Entry(call, Nothing))
    PROVE  /\ Len(performed) = Grown(cell, run.base) /\ Grown(cell, run.base) \in Nat
           /\ q \in Seq(Executed) /\ Len(q) = Grown(n, run.base) + 1 /\ Len(q) = Len(performed) + 1
           /\ q[Len(q)].call = call /\ Delegates(n, q, run.base)
<1> DEFINE p == performed
           g == Grown(cell, run.base)
           e == Entry(call, Nothing)
<1>1. /\ p \in Seq(Executed) /\ Len(p) = g /\ g \in Nat
      /\ \A k \in 1..g : cell.history[run.base + k] = p[k]
  BY DEF Delegates, Typed
<1>2. e \in Executed /\ e.call = call
  BY DEF Executed, Entry
<1> HIDE DEF e
<1>3. /\ q \in Seq(Executed) /\ Len(q) = Len(p) + 1 /\ q[Len(p) + 1] = e
      /\ \A k \in 1..Len(p) : q[k] = p[k]
  BY <1>1, <1>2, AppendProperties DEF e
<1>4. Grown(n, run.base) = g
  BY DEF Grown
<1>5. call # Nothing
  BY SessionAssumption
<1>6. Delegates(n, q, run.base)
  BY <1>1, <1>3, <1>4, <1>5 DEF Delegates
<1>7. QED BY <1>1, <1>2, <1>3, <1>4, <1>6

LEMMA DelegatesAppends ==
    ASSUME NEW c \in Cells, NEW n, NEW p \in Seq(Executed), NEW base \in Nat,
           NEW call \in Calls, NEW outcome \in Outcomes,
           c.mode = "record", Delegates(c, p, base), Len(p) = Grown(c, base) + 1,
           p[Len(p)].call = call, p[Len(p)].outcome = outcome,
           n.history = Append(c.history, Entry(call, outcome)), n.pending = Nothing
    PROVE  Delegates(n, p, base)
<1> DEFINE e == Entry(call, outcome)
           g == Grown(c, base)
<1>1. e \in Entries
  BY DEF Entries, Entry
<1>2. g \in Nat /\ (\A k \in 1..g : c.history[base + k] = p[k]) /\ g = Len(c.history) - base
  BY DEF Delegates, Grown
<1>3. c.history \in Seq(Entries) /\ Len(c.history) \in Nat
  BY CellFields
<1>4. p[g + 1] = e
  <2>1. p[g + 1] \in Executed
    BY <1>2, ElementOfSeq
  <2>2. p[g + 1].call = call /\ p[g + 1].outcome = outcome
    OBVIOUS
  <2>3. QED BY <2>1, <2>2 DEF Executed, Entry
<1> HIDE DEF e, g
<1>5. /\ Len(n.history) = Len(c.history) + 1 /\ n.history[Len(c.history) + 1] = e
      /\ \A k \in 1..Len(c.history) : n.history[k] = c.history[k]
  BY <1>1, <1>3, AppendProperties DEF e
<1>6. Grown(n, base) = g + 1
  BY <1>2, <1>3, <1>5 DEF Grown
<1>7. \A k \in 1..(g + 1) : n.history[base + k] = p[k]
  <2> SUFFICES ASSUME NEW k \in 1..(g + 1) PROVE n.history[base + k] = p[k]
    OBVIOUS
  <2>1. CASE k \in 1..g
    <3>1. base + k \in 1..Len(c.history)
      BY <1>2, <1>3, <2>1
    <3>2. QED BY <1>2, <1>5, <2>1, <3>1
  <2>2. CASE k = g + 1
    <3>1. base + k = Len(c.history) + 1
      BY <1>2, <1>3, <2>2
    <3>2. QED BY <1>4, <1>5, <2>2, <3>1
  <2>3. QED BY <1>2, <2>1, <2>2
<1>8. QED BY <1>2, <1>6, <1>7 DEF Delegates, g

(* The entries of a new history node lead to nodes that are stored.        *)
LEMMA HistoryGrows ==
    ASSUME Typed, Sound(cell), HistoryStored, NEW e \in Entries, NEW root, root = Append(cell.root, e),
           NEW stored, stored = nodes \cup {root}
    PROVE  /\ root \in Histories
           /\ \A r \in stored \cup {cell.root} : \A i \in 1..Len(r) : SubSeq(r, 1, i) \in stored
<1> DEFINE h == cell.root
<1>1. h \in Seq(Entries) /\ Len(h) \in Nat
  BY CellFields, LenProperties DEF Typed
<1>2. root \in Seq(Entries) /\ Len(root) = Len(h) + 1 /\ root = h \o <<e>>
  BY <1>1, AppendProperties, AppendIsConcat
<1>3. \A r \in nodes \cup {h} : \A i \in 1..Len(r) : SubSeq(r, 1, i) \in stored
  BY DEF HistoryStored
<1> HIDE DEF h
<1>4. \A i \in 1..Len(root) : SubSeq(root, 1, i) \in stored
  <2> SUFFICES ASSUME NEW i \in 1..Len(root) PROVE SubSeq(root, 1, i) \in stored
    OBVIOUS
  <2>1. CASE i = Len(root)
    <3>1. SubSeq(root, 1, Len(root)) = root
      BY <1>2, SubSeqFull
    <3>2. QED BY <2>1, <3>1
  <2>2. CASE i # Len(root)
    <3>1. i \in 1..Len(h) /\ i + 1 \in 1..(Len(h) + 1) /\ (i + 1) - 1 = i
      BY <1>1, <1>2, <2>2
    <3>2. SubSeq(h \o <<e>>, 1, (i + 1) - 1) = SubSeq(h, 1, (i + 1) - 1)
      BY <1>1, <3>1, EarlierPart
    <3>3. SubSeq(h, 1, i) \in stored
      BY <1>3, <3>1
    <3>4. QED BY <1>2, <3>1, <3>2, <3>3
  <2>3. QED BY <2>1, <2>2
<1>5. QED BY <1>2, <1>3, <1>4 DEF h, Histories

(* The root of a history is nothing or a stored node.                      *)
LEMMA RootStored ==
    ASSUME Typed, HistoryStored
    PROVE  cell.root = <<>> \/ cell.root \in nodes
<1> DEFINE h == cell.root
<1>1. h \in Seq(Entries) /\ Len(h) \in Nat
  BY CellFields, LenProperties DEF Typed
<1>2. \A i \in 1..Len(h) : SubSeq(h, 1, i) \in nodes
  BY DEF HistoryStored
<1> HIDE DEF h
<1>3. CASE Len(h) = 0
  BY <1>1, <1>3, EmptySeq DEF h
<1>4. CASE Len(h) # 0
  <2>1. Len(h) \in 1..Len(h)
    BY <1>1, <1>4
  <2>2. SubSeq(h, 1, Len(h)) = h
    BY <1>1, SubSeqFull
  <2>3. QED BY <1>2, <2>1, <2>2 DEF h
<1>5. QED BY <1>3, <1>4

(* What a witness may tell, given what is stored.                          *)
TrueWitness(w, stored) ==
    LET start == IF w.mode = "record" THEN w.base ELSE 0
    IN  /\ PossibleTrace(w.trace, start)
        /\ w.consumed = start + Advances(w.trace)
        /\ w.root = <<>> \/ w.root \in stored
        /\ w.mode = "record" \/ w.outcome.tag = "Completed" => w.consumed = Len(w.root)
        /\ w.consumed <= Len(w.root)

LEMMA WitnessesTrue == WitnessTrue <=> \A w \in witnesses : TrueWitness(w, nodes)
  BY DEF WitnessTrue, TrueWitness

LEMMA StoreGrows ==
    ASSUME NEW w, NEW stored, NEW more, TrueWitness(w, stored), stored \subseteq more
    PROVE  TrueWitness(w, more)
  BY DEF TrueWitness

(* The witness of a cell that is traced and has the history of the session.*)
LEMMA TellsTruly ==
    ASSUME Typed, HistoryStored, Sound(cell),
           NEW c \in Cells, Sound(c), Traced(c, run.base), c.history = cell.history,
           NEW outcome, outcome.tag = "Completed" => c.cursor = Len(c.history),
           NEW w, w = WitnessOf(c, outcome)
    PROVE  TrueWitness(w, nodes)
<1>1. /\ w.mode = c.mode /\ w.consumed = c.cursor /\ w.trace = c.trace /\ w.root = c.root
      /\ w.base = run.base /\ w.outcome = outcome
  BY DEF WitnessOf
<1>2. c.root = c.history /\ c.cursor \in 0..Len(c.history) /\ (c.mode = "record" => c.cursor = Len(c.history))
  BY DEF Sound, WellFormed
<1>3. c.root = <<>> \/ c.root \in nodes
  BY <1>2, RootStored DEF Sound
<1>4. c.cursor <= Len(c.history)
  BY <1>2, CellFields
<1>5. PossibleTrace(c.trace, Start(c, run.base)) /\ c.cursor = Start(c, run.base) + Advances(c.trace)
  BY DEF Traced
<1>6. QED BY <1>1, <1>2, <1>3, <1>4, <1>5 DEF TrueWitness, Start

LEMMA WitnessesKept ==
    ASSUME WitnessTrue, nodes \subseteq nodes', witnesses' \subseteq witnesses \cup {w \in witnesses' : TrueWitness(w, nodes')}
    PROVE  WitnessTrue'
<1>1. \A w \in witnesses : TrueWitness(w, nodes)
  BY WitnessesTrue
<1>2. \A w \in witnesses' : TrueWitness(w, nodes')
  BY <1>1, StoreGrows
<1>3. QED BY <1>2 DEF WitnessTrue, TrueWitness

(* What stays of a session while it neither begins nor goes to its end.    *)
SameStage ==
    /\ RunTyped(run') /\ SameRun(run', run)
    /\ run'.pc = run.pc /\ run'.exit = run.exit /\ run'.outcome = run.outcome
    /\ run'.receipts = run.receipts

LEMMA RunStays ==
    ASSUME Typed, UNCHANGED run
    PROVE  SameStage /\ run'.left = run.left
  BY DEF Typed, SameStage, SameRun

(* A step of a fiber leaves what is said of the session's end.             *)
LEMMA StageKept ==
    ASSUME SessionInv, SameStage, nodes \subseteq nodes', UNCHANGED witnesses,
           Tracks(cell, run.base) => Tracks(cell', run.base),
           UNCHANGED cell \/ run.pc # "persist"
    PROVE  Tracing' /\ Persisting' /\ WitnessTrue' /\ Exits' /\ AbortReceipted'
<1>1. run'.base = run.base /\ run'.pc = run.pc /\ run'.outcome = run.outcome
  BY DEF SameStage, SameRun
<1>2. Tracing'
  BY <1>1 DEF SessionInv, Tracing
<1>3. Persisting'
  BY <1>1 DEF SessionInv, Persisting
<1>4. WitnessTrue'
  BY WitnessesKept DEF SessionInv
<1>5. Exits' /\ AbortReceipted'
  BY DEF SessionInv, Exits, AbortReceipted, SameStage
<1>6. QED BY <1>2, <1>3, <1>4, <1>5

-----------------------------------------------------------------------------
(* The steps of the fibers.                                                *)

(* A fiber that touches neither the cell nor what was performed.           *)
LEMMA FiberMoves ==
    ASSUME SessionInv, NEW f \in Fibers, NEW r, FiberTyped(r), fiber' = [fiber EXCEPT ![f] = r],
           UNCHANGED <<nodes, witnesses, cell, lock, run, performed>>, script' \in Scripts,
           fiber[f].pc # "putting", r.pc # "putting", f = Main => run.pc = "program",
           r.pc \in Flying =>
              /\ fiber[f].pc \in Flying \ {"live"}
              /\ r.call = fiber[f].call /\ r.outcome = fiber[f].outcome /\ r.n = fiber[f].n
    PROVE  SessionInv'
<1>1. Typed /\ Turns /\ Flies
  BY DEF SessionInv
<1>2. /\ DOMAIN fiber' = Fibers /\ fiber'[f] = r
      /\ \A g \in Fibers : g # f => fiber'[g] = fiber[g]
  BY <1>1, FiberSets DEF Typed
<1>3. \A g \in Fibers : FiberTyped(fiber'[g])
  BY <1>1, <1>2 DEF Typed
<1>4. Typed'
  BY <1>1, <1>2, <1>3 DEF Typed
<1>5. Turns'
  BY <1>1, TurnsKept
<1>6. Flight(r, cell, performed, run.base)
  BY <1>1 DEF Flies, Flight
<1>7. Flies'
  <2>1. \A g \in Fibers : Flight(fiber'[g], cell, performed, run.base)
    BY <1>1, <1>2, <1>6 DEF Flies
  <2>2. \A g \in Fibers : fiber'[g].pc \in Flying => fiber[g].pc \in Flying
    BY <1>2
  <2>3. QED BY <1>1, <2>1, <2>2 DEF Flies
<1>8. SameStage
  BY <1>1, RunStays
<1>9. Tracing' /\ Persisting' /\ WitnessTrue' /\ Exits' /\ AbortReceipted'
  BY <1>8, StageKept
<1>10. Sound(cell') /\ Delegates(cell', performed', run'.base) /\ HistoryStored'
  BY DEF SessionInv, HistoryStored
<1>11. QED BY <1>4, <1>5, <1>7, <1>9, <1>10 DEF SessionInv

(* A fiber that ends its call, or has none to begin with, with or without  *)
(* a hold on the cell; what a put that failed left in the store may stay.  *)
LEMMA CallGoes ==
    ASSUME SessionInv, NEW f \in Fibers, NEW r, FiberTyped(r), r.pc \notin Flying,
           fiber' = [fiber EXCEPT ![f] = r], f = Main => run.pc = "program",
           \/ lock = Nothing /\ fiber[f].pc # "putting" /\ lock' = lock
           \/ fiber[f].pc = "putting" /\ lock' = Nothing,
           NEW n \in Cells, cell' = n, Sound(n),
           n.mode = cell.mode /\ n.history = cell.history /\ n.root = cell.root,
           n = cell \/ n.status = "aborted" \/ cell.mode = "replay",
           Tracks(cell, run.base) => Tracks(n, run.base),
           SameStage, script' \in Scripts, UNCHANGED <<witnesses, performed>>,
           nodes \subseteq nodes', nodes' \subseteq Histories, HistoryStored'
    PROVE  SessionInv'
<1>1. Typed /\ Turns /\ Flies /\ Delegates(cell, performed, run.base) /\ HistoryStored
  BY DEF SessionInv
<1>2. /\ DOMAIN fiber' = Fibers /\ fiber'[f] = r
      /\ \A g \in Fibers : g # f => fiber'[g] = fiber[g]
  BY <1>1, FiberSets DEF Typed
<1>3. \A g \in Fibers : FiberTyped(fiber'[g])
  BY <1>1, <1>2 DEF Typed
<1>4. lock' \in Fibers \cup {Nothing}
  OBVIOUS
<1>5. Typed'
  BY <1>1, <1>2, <1>3, <1>4 DEF Typed, SameStage
<1>6. \A g \in Fibers : g # f => fiber[g].pc # "putting"
  BY <1>1, NotHeld DEF Turns
<1>7. r.pc # "putting" /\ run'.base = run.base /\ run'.pc = run.pc
  BY DEF SameStage, SameRun, Flying
<1>8. Turns'
  BY <1>1, <1>7, TurnsKept
<1>9. Delegates(n, performed, run.base)
  <2>1. CASE n.status = "aborted"
    BY <1>1, <2>1, DelegatesAborts
  <2>2. CASE cell.mode = "replay"
    BY <2>2 DEF Delegates
  <2>3. QED BY <1>1, <2>1, <2>2
<1>10. \A g \in Fibers : Flight(fiber'[g], n, performed, run.base)
  <2> SUFFICES ASSUME NEW g \in Fibers, g # f PROVE Flight(fiber[g], n, performed, run.base)
    BY <1>2 DEF Flight
  <2>1. Flight(fiber[g], cell, performed, run.base) /\ fiber[g].pc # "putting"
    BY <1>1, <1>6 DEF Flies
  <2>2. CASE n.status = "aborted"
    BY <2>1, <2>2, FlightAborts
  <2>3. CASE cell.mode = "replay"
    BY <2>1, <2>3 DEF Flight
  <2>4. QED BY <2>1, <2>2, <2>3
<1>11. Flies'
  <2>1. \A g \in Fibers : fiber'[g].pc \in Flying => fiber[g].pc \in Flying
    BY <1>2
  <2>2. QED BY <1>1, <1>7, <1>10, <2>1 DEF Flies
<1>12. run.pc # "persist"
  <2>1. Main # Nothing
    BY SessionAssumption
  <2>2. QED BY <1>1, <2>1 DEF Turns
<1>13. Tracing' /\ Persisting' /\ WitnessTrue' /\ Exits' /\ AbortReceipted'
  BY <1>12, StageKept
<1>14. QED BY <1>5, <1>7, <1>8, <1>9, <1>11, <1>13 DEF SessionInv

(* The same while nobody holds the cell.                                   *)
LEMMA CallEnds ==
    ASSUME SessionInv, lock = Nothing, NEW f \in Fibers, NEW r, FiberTyped(r), r.pc \notin Flying,
           fiber' = [fiber EXCEPT ![f] = r], f = Main => run.pc = "program",
           NEW n \in Cells, cell' = n, Sound(n),
           n.mode = cell.mode /\ n.history = cell.history /\ n.root = cell.root,
           n = cell \/ n.status = "aborted" \/ cell.mode = "replay",
           Tracks(cell, run.base) => Tracks(n, run.base),
           SameStage, script' \in Scripts, UNCHANGED <<nodes, witnesses, lock, performed>>
    PROVE  SessionInv'
<1>1. Typed /\ Turns /\ HistoryStored
  BY DEF SessionInv
<1>2. fiber[f].pc # "putting"
  BY <1>1, NotHeld
<1>3. HistoryStored' /\ nodes \subseteq nodes' /\ nodes' \subseteq Histories
  BY <1>1 DEF HistoryStored, Typed
<1>4. QED BY <1>2, <1>3, CallGoes

LEMMA Resting ==
    ASSUME NEW f \in Fibers, Rests(f)
    PROVE  \E r : FiberTyped(r) /\ r.pc = "idle" /\ fiber' = [fiber EXCEPT ![f] = r]
<1> DEFINE r == [NoFiber EXCEPT !.pc = "idle"]
<1>1. FiberTyped(r) /\ r.pc = "idle"
  BY RestTyped
<1>2. fiber' = [fiber EXCEPT ![f] = r]
  BY DEF Rests, Sets
<1> HIDE DEF r
<1>3. QED BY <1>1, <1>2

LEMMA Dying ==
    ASSUME NEW f \in Fibers, NEW why, Dies(f, why)
    PROVE  \E r : /\ FiberTyped(r) /\ r.pc = "dead" /\ r.why = why
                  /\ fiber' = [fiber EXCEPT ![f] = r]
<1> DEFINE r == [NoFiber EXCEPT !.pc = "dead", !.why = why]
<1>1. FiberTyped(r) /\ r.pc = "dead" /\ r.why = why
  BY DeadTyped
<1>2. fiber' = [fiber EXCEPT ![f] = r]
  BY DEF Dies, Sets
<1> HIDE DEF r
<1>3. QED BY <1>1, <1>2

LEMMA ScriptSets ==
    ASSUME script \in Scripts
    PROVE  /\ \A b \in BOOLEAN : [script EXCEPT !.plain = b] \in Scripts
           /\ \A t \in Terminals : [script EXCEPT !.terminal = t] \in Scripts
           /\ \A call \in Calls : [script EXCEPT !.calls = Append(@, call)] \in Scripts
<1>1. \A call \in Calls : Append(script.calls, call) \in Seq(Calls)
  BY AppendProperties DEF Scripts
<1>2. QED BY <1>1 DEF Scripts

LEMMA Counted ==
    ASSUME Typed, NEW f \in Fibers, NEW call \in Calls, MayCall(f, call), Counts(f, call)
    PROVE  /\ SameStage /\ run'.left = run.left - 1 /\ script' \in Scripts
           /\ f = Main => run.pc = "program"
           /\ lock = Nothing
<1>1. run.left - 1 \in 0..MaxCalls
  BY SessionAssumption DEF Typed, RunTyped, MayCall
<1>2. run' = [run EXCEPT !.left = run.left - 1]
  BY DEF Counts
<1>3. SameStage /\ run'.left = run.left - 1
  BY <1>1, <1>2, RunLeft DEF Typed, SameStage
<1>4. script' \in Scripts
  BY ScriptSets DEF Typed, Counts
<1>5. QED BY <1>3, <1>4 DEF MayCall

LEMMA ForkKeeps ==
    ASSUME SessionInv, NEW f \in Others, Fork(f)
    PROVE  SessionInv'
<1>1. f \in Fibers /\ f # Main
  BY Kinds
<1> DEFINE r == [NoFiber EXCEPT !.pc = "idle"]
<1>2. FiberTyped(r) /\ r.pc = "idle" /\ fiber' = [fiber EXCEPT ![f] = r]
  BY RestTyped DEF Fork, Sets
<1>3. script' \in Scripts
  BY ScriptSets DEF Fork, SessionInv, Typed, Scripts
<1> HIDE DEF r
<1>4. QED BY <1>1, <1>2, <1>3, FiberMoves DEF Fork, Flying

LEMMA JoinKeeps ==
    ASSUME SessionInv, NEW f \in Others, Join(f)
    PROVE  SessionInv'
<1>1. PICK r : FiberTyped(r) /\ r.pc = "dead" /\ fiber' = [fiber EXCEPT ![Main] = r]
  BY Kinds, Dying DEF Join
<1>2. script' \in Scripts
  BY DEF Join, SessionInv, Typed
<1>3. Main \in Fibers /\ run.pc = "program" /\ fiber[Main].pc = "idle"
  BY Kinds DEF Join, Running
<1>4. QED BY <1>1, <1>2, <1>3, FiberMoves DEF Join, Flying

LEMMA HandlerDiesKeeps ==
    ASSUME SessionInv, NEW f \in Fibers, HandlerDies(f)
    PROVE  SessionInv'
<1>1. PICK r : FiberTyped(r) /\ r.pc = "dead" /\ fiber' = [fiber EXCEPT ![f] = r]
  BY Dying DEF HandlerDies
<1>2. script' \in Scripts /\ (f = Main => run.pc = "program")
  BY DEF HandlerDies, SessionInv, Typed, Turns, Flying
<1>3. QED BY <1>1, <1>2, FiberMoves DEF HandlerDies, Flying

LEMMA AmbientKeeps ==
    ASSUME SessionInv, NEW f \in Fibers, Ambient(f)
    PROVE  SessionInv'
<1>1. PICK r : FiberTyped(r) /\ r.pc = "dead" /\ fiber' = [fiber EXCEPT ![f] = r]
  BY Dying DEF Ambient
<1>2. script' \in Scripts
  BY DEF Ambient, SessionInv, Typed
<1>3. QED BY <1>1, <1>2, FiberMoves DEF Ambient, Flying

LEMMA CallInterruptedKeeps ==
    ASSUME SessionInv, NEW f \in Fibers, CallInterrupted(f)
    PROVE  SessionInv'
<1>1. PICK r : FiberTyped(r) /\ r.pc = "idle" /\ fiber' = [fiber EXCEPT ![f] = r]
  BY Resting DEF CallInterrupted
<1>2. script' \in Scripts
  BY ScriptSets DEF CallInterrupted, SessionInv, Typed
<1>3. f = Main => run.pc = "program"
  BY DEF CallInterrupted, SessionInv, Turns, Flying
<1>4. QED BY <1>1, <1>2, <1>3, FiberMoves DEF CallInterrupted, Flying

LEMMA MaskKeeps ==
    ASSUME SessionInv, NEW f \in Fibers, Mask(f)
    PROVE  SessionInv'
<1> DEFINE r == [fiber[f] EXCEPT !.pc = "append"]
<1>1. FiberTyped(fiber[f])
  BY DEF SessionInv, Typed
<1>2. /\ FiberTyped(r) /\ r.pc = "append"
      /\ r.call = fiber[f].call /\ r.outcome = fiber[f].outcome /\ r.n = fiber[f].n
  BY <1>1, MovesTyped DEF FiberPcs
<1>3. fiber' = [fiber EXCEPT ![f] = r]
  BY DEF Mask, Sets
<1>4. script' \in Scripts /\ (f = Main => run.pc = "program")
  BY DEF Mask, SessionInv, Typed, Turns, Flying
<1> HIDE DEF r
<1>5. QED BY <1>2, <1>3, <1>4, FiberMoves DEF Mask, Flying

(* The calls.                                                              *)

LEMMA InvokeUnstorableKeeps ==
    ASSUME SessionInv, NEW f \in Fibers, NEW call \in Calls, InvokeUnstorable(f, call)
    PROVE  SessionInv'
<1>1. PICK r : FiberTyped(r) /\ r.pc = "dead" /\ fiber' = [fiber EXCEPT ![f] = r]
  BY Dying DEF InvokeUnstorable
<1>2. /\ SameStage /\ script' \in Scripts /\ lock = Nothing
      /\ f = Main => run.pc = "program"
  BY Counted DEF SessionInv, InvokeUnstorable
<1>3. cell \in Cells /\ Sound(cell)
  BY DEF SessionInv, Typed
<1>4. QED BY <1>1, <1>2, <1>3, CallEnds DEF InvokeUnstorable, Flying

(* A delegation: nothing was in flight, and the call is performed next.    *)
LEMMA DelegatedStep ==
    ASSUME SessionInv, NEW f \in Fibers, NEW call \in Calls, lock = Nothing,
           cell.mode = "record", cell.status = "active", cell.pending = Nothing,
           cell' = DelegatedCell(cell, call),
           performed' = Append(performed, Entry(call, Nothing)),
           NEW r, r = Calling(fiber[f], call, Len(performed) + 1),
           fiber' = [fiber EXCEPT ![f] = r],
           SameStage, script' \in Scripts, f = Main => run.pc = "program",
           UNCHANGED <<nodes, witnesses, lock>>
    PROVE  SessionInv'
<1>1. Typed /\ Turns /\ Flies /\ Delegates(cell, performed, run.base) /\ HistoryStored /\ Sound(cell)
  BY DEF SessionInv
<1>2. /\ cell \in Cells /\ performed \in Seq(Executed) /\ Len(performed) \in Nat /\ run.base \in Nat
      /\ FiberTyped(fiber[f])
  BY <1>1, LenProperties DEF Typed, RunTyped
<1>3. /\ DOMAIN fiber' = Fibers /\ fiber'[f] = r
      /\ \A g \in Fibers : g # f => fiber'[g] = fiber[g]
  BY <1>1, FiberSets DEF Typed
<1>4. FiberTyped(r) /\ r.pc = "live" /\ r.call = call /\ r.n = Len(performed) + 1
  <2>1. Len(performed) + 1 \in Nat
    BY <1>2
  <2>2. QED BY <1>2, <2>1, CallsTyped
<1>5. PICK n : n = DelegatedCell(cell, call)
  OBVIOUS
<1>6. /\ n \in Cells /\ Sound(n) /\ n.mode = "record" /\ n.status = "active"
      /\ n.history = cell.history /\ n.pending = call /\ n.root = cell.root
      /\ Tracks(cell, run.base) => Tracks(n, run.base)
  BY <1>1, <1>2, <1>5, DelegatedKeeps
<1>7. PICK q : q = Append(performed, Entry(call, Nothing))
  OBVIOUS
<1>8. /\ Len(performed) = Grown(cell, run.base) /\ Grown(cell, run.base) \in Nat
      /\ q \in Seq(Executed) /\ Len(q) = Grown(n, run.base) + 1 /\ Len(q) = Len(performed) + 1
      /\ q[Len(q)].call = call /\ Delegates(n, q, run.base)
  BY <1>1, <1>6, <1>7, DelegatesCalls
<1>9. cell' = n /\ performed' = q /\ run'.base = run.base /\ run'.pc = run.pc
  BY <1>5, <1>7 DEF SameStage, SameRun
<1>10. \A g \in Fibers : fiber[g].pc \notin Flying
  BY <1>1, <1>8, NoneFlies
<1>11. Typed'
  <2>1. \A g \in Fibers : FiberTyped(fiber'[g])
    BY <1>1, <1>3, <1>4 DEF Typed
  <2>2. QED BY <1>1, <1>3, <1>6, <1>8, <1>9, <2>1 DEF Typed, SameStage
<1>12. Turns'
  BY <1>1, <1>4, <1>9, <1>10, TurnsKept DEF Flying
<1>13. Flies'
  <2>1. Flight(r, n, q, run.base)
    BY <1>4, <1>6, <1>8 DEF Flight
  <2>2. \A g \in Fibers : g # f => fiber'[g].pc \notin Flying
    BY <1>3, <1>10
  <2>3. \A g \in Fibers : Flight(fiber'[g], n, q, run.base)
    BY <1>3, <2>1, <2>2 DEF Flight
  <2>4. QED BY <1>9, <2>2, <2>3 DEF Flies
<1>14. run.pc # "persist"
  <2>1. Main # Nothing
    BY SessionAssumption
  <2>2. QED BY <1>1, <2>1 DEF Turns
<1>15. Tracing' /\ Persisting' /\ WitnessTrue' /\ Exits' /\ AbortReceipted'
  BY <1>6, <1>9, <1>14, StageKept
<1>16. HistoryStored'
  BY <1>1, <1>6, <1>9 DEF HistoryStored
<1>17. QED BY <1>6, <1>8, <1>9, <1>11, <1>12, <1>13, <1>15, <1>16 DEF SessionInv

LEMMA InvokeLiveKeeps ==
    ASSUME SessionInv, NEW f \in Fibers, NEW call \in Calls, InvokeLive(f, call)
    PROVE  SessionInv'
<1> DEFINE out == Reduce(cell, [tag |-> "Invoke", call |-> call])
<1>1. /\ SameStage /\ script' \in Scripts /\ lock = Nothing
      /\ f = Main => run.pc = "program"
  BY Counted DEF SessionInv, InvokeLive
<1>2. cell \in Cells /\ Sound(cell) /\ run.base \in Nat /\ cell.mode = "record"
  BY DEF SessionInv, Typed, RunTyped, InvokeLive
<1>3. /\ cell' = AppendDecisions(out, cell.root)
      /\ CASE out.result.tag = "Delegated" ->
                /\ performed' = Append(performed, Entry(call, Nothing))
                /\ Sets(f, [fiber[f] EXCEPT !.pc = "live", !.call = call, !.n = Len(performed) + 1])
           [] out.result.tag = "Rejected" -> Dies(f, out.result) /\ UNCHANGED performed
           [] OTHER -> Dies(f, Defect) /\ UNCHANGED performed
      /\ UNCHANGED <<nodes, witnesses, lock>>
  BY DEF InvokeLive, Apply
<1>4. PICK o : o = out
  OBVIOUS
<1>5. \/ /\ cell.status = "aborted" /\ o.result.tag = "Absorbed"
         /\ AppendDecisions(o, cell.root) = cell
      \/ /\ cell.status = "active" /\ cell.pending = Nothing /\ o.result.tag = "Delegated"
         /\ AppendDecisions(o, cell.root) = DelegatedCell(cell, call)
      \/ /\ cell.status = "active" /\ cell.pending # Nothing /\ o.result.tag = "Rejected"
         /\ AppendDecisions(o, cell.root) = RejectedCell(cell)
  BY <1>2, <1>4, Delegation
<1> HIDE DEF out
<1>6. CASE cell.status = "aborted" /\ o.result.tag = "Absorbed" /\ AppendDecisions(o, cell.root) = cell
  <2>1. cell' = cell /\ Dies(f, Defect) /\ UNCHANGED performed
    BY <1>3, <1>4, <1>6
  <2>2. PICK r : FiberTyped(r) /\ r.pc = "dead" /\ fiber' = [fiber EXCEPT ![f] = r]
    BY <2>1, Dying
  <2>3. QED BY <1>1, <1>2, <1>3, <2>1, <2>2, CallEnds DEF Flying
<1>7. CASE /\ cell.status = "active" /\ cell.pending = Nothing /\ o.result.tag = "Delegated"
           /\ AppendDecisions(o, cell.root) = DelegatedCell(cell, call)
  <2>1. /\ cell' = DelegatedCell(cell, call)
        /\ performed' = Append(performed, Entry(call, Nothing))
        /\ fiber' = [fiber EXCEPT ![f] = Calling(fiber[f], call, Len(performed) + 1)]
    BY <1>3, <1>4, <1>7 DEF Sets, Calling
  <2>2. QED BY <1>1, <1>2, <1>3, <1>7, <2>1, DelegatedStep
<1>8. CASE /\ cell.status = "active" /\ o.result.tag = "Rejected"
           /\ AppendDecisions(o, cell.root) = RejectedCell(cell)
  <2>1. cell' = RejectedCell(cell) /\ Dies(f, o.result) /\ UNCHANGED performed
    BY <1>3, <1>4, <1>8
  <2>2. PICK r : FiberTyped(r) /\ r.pc = "dead" /\ fiber' = [fiber EXCEPT ![f] = r]
    BY <2>1, Dying
  <2>3. PICK n : n = RejectedCell(cell)
    OBVIOUS
  <2>4. /\ n \in Cells /\ Sound(n) /\ n.mode = cell.mode /\ n.status = "aborted"
        /\ n.history = cell.history /\ n.root = cell.root
        /\ Tracks(cell, run.base) => Tracks(n, run.base)
    BY <1>2, <1>8, <2>3, RejectedKeeps
  <2>5. QED BY <1>1, <1>3, <2>1, <2>2, <2>3, <2>4, CallEnds DEF Flying
<1>9. QED BY <1>5, <1>6, <1>7, <1>8

LEMMA InvokeRecordedKeeps ==
    ASSUME SessionInv, NEW f \in Fibers, NEW call \in Calls, InvokeRecorded(f, call)
    PROVE  SessionInv'
<1> DEFINE out == Reduce(cell, [tag |-> "Invoke", call |-> call])
           inadmissible == RejectStep(cell, "OutcomeInadmissible")
<1>1. /\ SameStage /\ script' \in Scripts /\ lock = Nothing
      /\ f = Main => run.pc = "program"
  BY Counted DEF SessionInv, InvokeRecorded
<1>2. /\ cell \in Cells /\ Sound(cell) /\ WellFormed(cell) /\ run.base \in Nat /\ cell.mode = "replay"
  BY DEF SessionInv, Typed, RunTyped, InvokeRecorded, Sound
<1>3. /\ \/ out.result.tag = "Substituted" /\ cell' = AppendDecisions(out, cell.root) /\ Rests(f)
         \/ /\ out.result.tag = "Substituted"
            /\ cell' = AppendDecisions(inadmissible, cell.root) /\ Dies(f, inadmissible.result)
         \/ /\ out.result.tag = "Rejected" /\ cell' = AppendDecisions(out, cell.root)
            /\ Dies(f, out.result)
         \/ out.result.tag = "Absorbed" /\ Dies(f, Defect) /\ UNCHANGED cell
      /\ UNCHANGED <<nodes, witnesses, lock, performed>>
  BY DEF InvokeRecorded, Apply
<1>4. PICK o : o = out
  OBVIOUS
<1>5. \/ cell.status = "aborted" /\ o.result.tag = "Absorbed"
      \/ /\ cell.status = "active" /\ cell.cursor < Len(cell.history) /\ o.result.tag = "Substituted"
         /\ AppendDecisions(o, cell.root) = SubstitutedCell(cell)
      \/ /\ cell.status = "active" /\ o.result.tag = "Rejected"
         /\ AppendDecisions(o, cell.root) = RejectedCell(cell)
  BY <1>2, <1>4, Substitution
<1>6. AppendDecisions(inadmissible, cell.root) = RejectedCell(cell)
  BY <1>2, Rejects
<1> HIDE DEF out, inadmissible
<1>7. \/ /\ cell.status = "active" /\ cell.cursor < Len(cell.history)
         /\ cell' = SubstitutedCell(cell) /\ Rests(f)
      \/ /\ cell.status = "active" /\ cell' = RejectedCell(cell)
         /\ \E why : Dies(f, why)
      \/ cell' = cell /\ Dies(f, Defect)
  BY <1>3, <1>4, <1>5, <1>6
<1>8. CASE /\ cell.status = "active" /\ cell.cursor < Len(cell.history)
           /\ cell' = SubstitutedCell(cell) /\ Rests(f)
  <2>1. PICK r : FiberTyped(r) /\ r.pc = "idle" /\ fiber' = [fiber EXCEPT ![f] = r]
    BY <1>8, Resting
  <2>2. PICK n : n = SubstitutedCell(cell)
    OBVIOUS
  <2>3. /\ n \in Cells /\ Sound(n) /\ n.mode = cell.mode
        /\ n.history = cell.history /\ n.root = cell.root
        /\ Tracks(cell, run.base) => Tracks(n, run.base)
    BY <1>2, <1>8, <2>2, SubstitutedKeeps
  <2>4. QED BY <1>1, <1>2, <1>3, <1>8, <2>1, <2>2, <2>3, CallEnds DEF Flying
<1>9. CASE cell.status = "active" /\ cell' = RejectedCell(cell) /\ \E why : Dies(f, why)
  <2>1. PICK r : FiberTyped(r) /\ r.pc = "dead" /\ fiber' = [fiber EXCEPT ![f] = r]
    BY <1>9, Dying
  <2>2. PICK n : n = RejectedCell(cell)
    OBVIOUS
  <2>3. /\ n \in Cells /\ Sound(n) /\ n.mode = cell.mode
        /\ n.history = cell.history /\ n.root = cell.root
        /\ Tracks(cell, run.base) => Tracks(n, run.base)
    BY <1>2, <1>9, <2>2, RejectedKeeps
  <2>4. QED BY <1>1, <1>2, <1>3, <1>9, <2>1, <2>2, <2>3, CallEnds DEF Flying
<1>10. CASE cell' = cell /\ Dies(f, Defect)
  <2>1. PICK r : FiberTyped(r) /\ r.pc = "dead" /\ fiber' = [fiber EXCEPT ![f] = r]
    BY <1>10, Dying
  <2>2. QED BY <1>1, <1>2, <1>3, <1>10, <2>1, CallEnds DEF Flying
<1>11. QED BY <1>7, <1>8, <1>9, <1>10

LEMMA HandlerReturnsKeeps ==
    ASSUME SessionInv, NEW f \in Fibers, NEW outcome \in Outcomes, HandlerReturns(f, outcome)
    PROVE  SessionInv'
<1> DEFINE r == [fiber[f] EXCEPT !.pc = "returned", !.outcome = outcome]
           q == [performed EXCEPT ![fiber[f].n].outcome = outcome]
           p == performed
           last == Len(performed)
<1>1. Typed /\ Turns /\ Flies /\ Delegates(cell, p, run.base) /\ HistoryStored
  BY DEF SessionInv
<1>2. fiber[f].pc = "live" /\ fiber' = [fiber EXCEPT ![f] = r] /\ performed' = q
  BY DEF HandlerReturns, Sets
<1>3. UNCHANGED <<nodes, witnesses, cell, lock, run, script>>
  BY DEF HandlerReturns
<1>4. FiberTyped(fiber[f]) /\ p \in Seq(Executed) /\ last \in Nat
  BY <1>1, LenProperties DEF Typed
<1>5. /\ FiberTyped(r) /\ r.pc = "returned"
      /\ r.call = fiber[f].call /\ r.outcome = outcome /\ r.n = fiber[f].n
  <2>1. r = Returned(fiber[f], outcome)
    BY DEF Returned
  <2>2. QED BY <1>4, <2>1, ReturnsTyped
<1>6. /\ cell.mode = "record" /\ last = Grown(cell, run.base) + 1
      /\ fiber[f].n = last /\ fiber[f].call \in Calls /\ p[last].call = fiber[f].call
      /\ cell.status = "active" => cell.pending = fiber[f].call
  BY <1>1, <1>2 DEF Flies, Flight, Flying
<1>7. /\ Grown(cell, run.base) \in Nat
      /\ \A k \in 1..Grown(cell, run.base) : cell.history[run.base + k] = p[k]
  BY <1>1, <1>6 DEF Delegates
<1>8. /\ q \in Seq(Executed) /\ Len(q) = last
      /\ q[last].call = p[last].call /\ q[last].outcome = outcome
      /\ \A k \in 1..last : k # last => q[k] = p[k]
  <2>1. last \in 1..Len(p)
    BY <1>6, <1>7
  <2>2. q = [p EXCEPT ![last].outcome = outcome]
    BY <1>6
  <2> HIDE DEF q, last
  <2>3. QED BY <1>4, <2>1, <2>2, ExecutedReturns DEF last
<1>9. /\ DOMAIN fiber' = Fibers /\ fiber'[f] = r
      /\ \A g \in Fibers : g # f => fiber'[g] = fiber[g]
  BY <1>1, <1>2, FiberSets DEF Typed
<1> HIDE DEF r, q, last
<1>10. Typed'
  <2>1. \A g \in Fibers : FiberTyped(fiber'[g])
    BY <1>1, <1>5, <1>9 DEF Typed
  <2>2. QED BY <1>1, <1>2, <1>3, <1>8, <1>9, <2>1 DEF Typed
<1>11. Delegates(cell, q, run.base)
  <2>1. \A k \in 1..Grown(cell, run.base) : q[k] = p[k]
    BY <1>6, <1>7, <1>8
  <2>2. Len(q) = Len(p)
    BY <1>8 DEF last
  <2>3. QED BY <1>1, <1>7, <2>1, <2>2 DEF Delegates
<1>12. Turns'
  BY <1>1, <1>2, <1>3, <1>5, TurnsKept DEF Turns, Flying
<1>13. Flies'
  <2>1. Flight(r, cell, q, run.base)
    BY <1>5, <1>6, <1>8 DEF Flight
  <2>2. \A g \in Fibers : g # f => fiber'[g].pc \notin Flying
    BY <1>1, <1>2, <1>9, Alone DEF Flying
  <2>3. \A g \in Fibers : Flight(fiber'[g], cell, q, run.base)
    BY <1>9, <2>1, <2>2 DEF Flight
  <2>4. QED BY <1>2, <1>3, <2>2, <2>3 DEF Flies
<1>14. Tracing' /\ Persisting' /\ WitnessTrue' /\ Exits' /\ AbortReceipted'
  <2>1. SameStage
    BY <1>1, <1>3, RunStays
  <2>2. QED BY <1>3, <2>1, StageKept
<1>15. QED BY <1>1, <1>2, <1>3, <1>10, <1>11, <1>12, <1>13, <1>14 DEF SessionInv, HistoryStored

(* The outcome is appended, discarded, or fails the recording.             *)

LEMMA FailsTo ==
    ASSUME SessionInv, NEW f \in Fibers, AppendFails(f)
    PROVE  \E n \in Cells : /\ cell' = n /\ Sound(n)
                            /\ n.mode = cell.mode /\ n.history = cell.history /\ n.root = cell.root
                            /\ n.cursor = cell.cursor
                            /\ n = cell \/ n.status = "aborted"
                            /\ Tracks(cell, run.base) => Tracks(n, run.base)
<1>1. cell \in Cells /\ Sound(cell) /\ run.base \in Nat
  BY DEF SessionInv, Typed, RunTyped
<1>2. PICK o : o = Reduce(cell, [tag |-> "AppendFailed"])
  OBVIOUS
<1>3. cell' = AppendDecisions(o, cell.root)
  BY <1>2 DEF AppendFails, Apply
<1>4. \/ AppendDecisions(o, cell.root) = cell
      \/ AppendDecisions(o, cell.root) = FailedCell(cell) /\ cell.mode = "record"
  BY <1>1, <1>2, Failing
<1>5. PICK n : n = cell'
  OBVIOUS
<1>6. CASE n = cell
  BY <1>1, <1>5, <1>6
<1>7. CASE n = FailedCell(cell) /\ cell.mode = "record"
  <2>1. /\ n \in Cells /\ Sound(n) /\ n.mode = cell.mode /\ n.status = "aborted"
        /\ n.history = cell.history /\ n.root = cell.root /\ n.cursor = cell.cursor
        /\ Tracks(cell, run.base) => Tracks(n, run.base)
    BY <1>1, <1>7, FailedKeeps
  <2>2. QED BY <1>5, <2>1
<1>8. QED BY <1>3, <1>4, <1>5, <1>6, <1>7

LEMMA AppendRecordedOutcomeKeeps ==
    ASSUME SessionInv, NEW f \in Fibers, AppendRecordedOutcome(f)
    PROVE  SessionInv'
<1>1. /\ fiber[f].pc = "append" /\ lock = Nothing
      /\ UNCHANGED <<nodes, witnesses, run, performed, script>>
  BY DEF AppendRecordedOutcome
<1>2. Typed /\ Turns /\ Flies /\ Sound(cell)
  BY DEF SessionInv
<1>3. SameStage /\ script' \in Scripts /\ (f = Main => run.pc = "program")
  BY <1>1, <1>2, RunStays DEF Typed, Turns, Flying
<1>4. /\ cell \in Cells /\ cell.mode = "record"
      /\ fiber[f].call \in Calls /\ FiberTyped(fiber[f])
  BY <1>1, <1>2 DEF Typed, Flies, Flight, Flying
<1>5. \/ AppendFails(f) /\ UNCHANGED lock
      \/ Rests(f) /\ UNCHANGED <<cell, lock>>
      \/ /\ Recorded(f).result.tag = "Appended" /\ lock' = f
         /\ Sets(f, [fiber[f] EXCEPT !.pc = "putting"]) /\ UNCHANGED cell
      \/ Dies(f, Defect) /\ UNCHANGED <<cell, lock>>
  BY DEF AppendRecordedOutcome
<1>6. CASE AppendFails(f) /\ UNCHANGED lock
  <2>1. PICK n \in Cells : /\ cell' = n /\ Sound(n)
                           /\ n.mode = cell.mode /\ n.history = cell.history /\ n.root = cell.root
                           /\ n = cell \/ n.status = "aborted"
                           /\ Tracks(cell, run.base) => Tracks(n, run.base)
    BY <1>6, FailsTo
  <2>2. PICK r : FiberTyped(r) /\ r.pc = "dead" /\ fiber' = [fiber EXCEPT ![f] = r]
    BY <1>6, Dying DEF AppendFails
  <2>3. QED BY <1>1, <1>3, <1>6, <2>1, <2>2, CallEnds DEF Flying
<1>7. CASE Rests(f) /\ UNCHANGED <<cell, lock>>
  <2>1. PICK r : FiberTyped(r) /\ r.pc = "idle" /\ fiber' = [fiber EXCEPT ![f] = r]
    BY <1>7, Resting
  <2>2. QED BY <1>1, <1>2, <1>3, <1>4, <1>7, <2>1, CallEnds DEF Flying
<1>8. CASE Dies(f, Defect) /\ UNCHANGED <<cell, lock>>
  <2>1. PICK r : FiberTyped(r) /\ r.pc = "dead" /\ fiber' = [fiber EXCEPT ![f] = r]
    BY <1>8, Dying
  <2>2. QED BY <1>1, <1>2, <1>3, <1>4, <1>8, <2>1, CallEnds DEF Flying
<1>9. CASE /\ Recorded(f).result.tag = "Appended" /\ lock' = f
           /\ Sets(f, [fiber[f] EXCEPT !.pc = "putting"]) /\ UNCHANGED cell
  <2> DEFINE r == [fiber[f] EXCEPT !.pc = "putting"]
  <2>1. /\ FiberTyped(r) /\ r.pc = "putting"
        /\ r.call = fiber[f].call /\ r.outcome = fiber[f].outcome /\ r.n = fiber[f].n
    BY <1>4, MovesTyped DEF FiberPcs
  <2>2. fiber' = [fiber EXCEPT ![f] = r]
    BY <1>9 DEF Sets
  <2> HIDE DEF r
  <2>3. /\ DOMAIN fiber' = Fibers /\ fiber'[f] = r
        /\ \A g \in Fibers : g # f => fiber'[g] = fiber[g]
    BY <1>2, <2>2, FiberSets DEF Typed
  <2>4. cell.status = "active"
    <3>1. PICK o : o = Reduce(cell, [tag |-> "Recorded", call |-> fiber[f].call,
                                     outcome |-> fiber[f].outcome])
      OBVIOUS
    <3>2. \/ cell.status = "aborted" /\ o.result.tag = "Absorbed"
          \/ cell.status = "active"
      BY <1>4, <3>1, Appending
    <3>3. QED BY <1>9, <3>1, <3>2 DEF Recorded
  <2>5. Typed'
    <3>1. \A g \in Fibers : FiberTyped(fiber'[g])
      BY <1>2, <2>1, <2>3 DEF Typed
    <3>2. QED BY <1>1, <1>2, <1>9, <2>3, <3>1 DEF Typed
  <2>6. \A g \in Fibers : fiber[g].pc # "putting"
    BY <1>1, <1>2, NotHeld
  <2>7. Main # Nothing /\ Main \in Fibers
    BY Kinds, SessionAssumption
  <2>8. Turns'
    <3>1. \A g \in Fibers : fiber'[g].pc = "putting" => lock' = g
      BY <1>9, <2>3, <2>6
    <3>2. fiber'[lock'].pc = "putting"
      BY <1>9, <2>1, <2>3
    <3>3. run.pc # "persist"
      BY <1>1, <1>2, <2>7 DEF Turns
    <3>4. run.pc = "finish" => fiber'[Main].pc = "idle"
      BY <1>1, <1>2, <1>3, <2>3, <2>7 DEF Turns
    <3>5. fiber'[Main].pc \in Flying => run.pc = "program"
      BY <1>2, <1>3, <2>3, <2>7 DEF Turns
    <3>6. QED BY <1>1, <3>1, <3>2, <3>3, <3>4, <3>5 DEF Turns
  <2>9. Flies'
    <3>1. Flight(r, cell, performed, run.base)
      BY <1>1, <1>2, <2>1, <2>4 DEF Flies, Flight, Flying
    <3>2. \A g \in Fibers : g # f => fiber'[g].pc \notin Flying
      BY <1>1, <1>2, <2>3, Alone DEF Flying
    <3>3. \A g \in Fibers : Flight(fiber'[g], cell, performed, run.base)
      BY <2>3, <3>1, <3>2 DEF Flight
    <3>4. QED BY <1>1, <1>9, <3>2, <3>3 DEF Flies
  <2>10. Tracing' /\ Persisting' /\ WitnessTrue' /\ Exits' /\ AbortReceipted'
    BY <1>1, <1>3, <1>9, StageKept
  <2>11. QED BY <1>1, <1>9, <2>5, <2>8, <2>9, <2>10 DEF SessionInv, HistoryStored
<1>10. QED BY <1>5, <1>6, <1>7, <1>8, <1>9

(* What a fiber that puts relies on: the cell is as it was.                *)
LEMMA Putting ==
    ASSUME SessionInv, NEW f \in Fibers, fiber[f].pc = "putting"
    PROVE  /\ cell.mode = "record" /\ cell.status = "active" /\ cell.pending = fiber[f].call
           /\ fiber[f].call \in Calls /\ fiber[f].outcome \in Outcomes
           /\ Len(performed) = Grown(cell, run.base) + 1
           /\ performed[Len(performed)].call = fiber[f].call
           /\ performed[Len(performed)].outcome = fiber[f].outcome
           /\ lock = f /\ run.pc # "persist" /\ (f = Main => run.pc = "program")
<1>1. Flight(fiber[f], cell, performed, run.base) /\ lock = f
  BY DEF SessionInv, Flies, Turns
<1>2. run.pc # "persist" /\ (f = Main => run.pc = "program")
  BY <1>1 DEF SessionInv, Turns, Flying
<1>3. QED BY <1>1, <1>2 DEF Flight, Flying

LEMMA PutHistoryKeeps ==
    ASSUME SessionInv, NEW f \in Fibers, PutHistory(f)
    PROVE  SessionInv'
<1>1. fiber[f].pc = "putting" /\ lock' = Nothing /\ UNCHANGED <<witnesses, run, performed, script>>
  BY DEF PutHistory
<1>2. /\ Typed /\ Turns /\ Flies /\ Sound(cell) /\ HistoryStored
      /\ Delegates(cell, performed, run.base)
  BY DEF SessionInv
<1>3. SameStage /\ script' \in Scripts
  BY <1>1, <1>2, RunStays DEF Typed
<1>4. /\ cell.mode = "record" /\ cell.status = "active" /\ cell.pending = fiber[f].call
      /\ fiber[f].call \in Calls /\ fiber[f].outcome \in Outcomes
      /\ Len(performed) = Grown(cell, run.base) + 1
      /\ performed[Len(performed)].call = fiber[f].call
      /\ performed[Len(performed)].outcome = fiber[f].outcome
      /\ lock = f /\ run.pc # "persist" /\ (f = Main => run.pc = "program")
  BY <1>1, Putting
<1>5. PICK call, outcome : call = fiber[f].call /\ outcome = fiber[f].outcome
  OBVIOUS
<1>6. PICK root : root = Append(cell.root, Entry(call, outcome))
  OBVIOUS
<1>7. Entry(call, outcome) \in Entries
  BY <1>4, <1>5 DEF Entries, Entry
<1>8. PICK stored : stored = nodes \cup {root}
  OBVIOUS
<1>9. /\ root \in Histories
      /\ \A h \in stored \cup {cell.root} : \A i \in 1..Len(h) : SubSeq(h, 1, i) \in stored
  BY <1>2, <1>6, <1>7, <1>8, HistoryGrows
<1>10. \/ /\ nodes' = stored /\ cell' = AppendDecisions(Recorded(f), root) /\ Rests(f)
       \/ nodes' \in {nodes, stored} /\ AppendFails(f)
  BY <1>5, <1>6, <1>8 DEF PutHistory
<1>11. CASE nodes' \in {nodes, stored} /\ AppendFails(f)
  <2>1. PICK n \in Cells : /\ cell' = n /\ Sound(n)
                           /\ n.mode = cell.mode /\ n.history = cell.history /\ n.root = cell.root
                           /\ n = cell \/ n.status = "aborted"
                           /\ Tracks(cell, run.base) => Tracks(n, run.base)
    BY <1>11, FailsTo
  <2>2. PICK r : FiberTyped(r) /\ r.pc = "dead" /\ fiber' = [fiber EXCEPT ![f] = r]
    BY <1>11, Dying DEF AppendFails
  <2>3. nodes \subseteq nodes' /\ nodes' \subseteq Histories
    BY <1>2, <1>8, <1>9, <1>11 DEF Typed
  <2>4. HistoryStored'
    <3>1. CASE nodes' = nodes
      BY <1>2, <2>1, <3>1 DEF HistoryStored
    <3>2. CASE nodes' = stored
      BY <1>2, <1>9, <2>1, <3>2 DEF HistoryStored
    <3>3. QED BY <1>11, <3>1, <3>2
  <2>5. QED BY <1>1, <1>3, <1>4, <2>1, <2>2, <2>3, <2>4, CallGoes DEF Flying
<1>12. CASE nodes' = stored /\ cell' = AppendDecisions(Recorded(f), root) /\ Rests(f)
  <2>1. PICK r : FiberTyped(r) /\ r.pc = "idle" /\ fiber' = [fiber EXCEPT ![f] = r]
    BY <1>12, Resting
  <2>2. PICK n : n = AppendedCell(cell, call, outcome, root)
    OBVIOUS
  <2>3. cell \in Cells /\ run.base \in Nat /\ call \in Calls /\ outcome \in Outcomes /\ performed \in Seq(Executed)
    BY <1>2, <1>4, <1>5 DEF Typed, RunTyped
  <2>4. cell' = n
    <3>1. PICK o : o = Reduce(cell, [tag |-> "Recorded", call |-> call, outcome |-> outcome])
      OBVIOUS
    <3>2. AppendDecisions(o, root) = AppendedCell(cell, call, outcome, root)
      BY <1>4, <1>5, <2>3, <3>1, Appending
    <3>3. QED BY <1>5, <1>12, <2>2, <3>1, <3>2 DEF Recorded
  <2>5. /\ n \in Cells /\ Sound(n) /\ n.mode = "record" /\ n.status = "active"
        /\ n.history = Append(cell.history, Entry(call, outcome))
        /\ n.pending = Nothing /\ n.root = root
        /\ Tracks(cell, run.base) => Tracks(n, run.base)
    BY <1>2, <1>4, <1>5, <1>6, <2>2, <2>3, AppendedKeeps
  <2>6. Delegates(n, performed, run.base)
    BY <1>2, <1>4, <1>5, <2>3, <2>5, DelegatesAppends
  <2>7. /\ DOMAIN fiber' = Fibers /\ fiber'[f] = r
        /\ \A g \in Fibers : g # f => fiber'[g] = fiber[g]
    BY <1>2, <2>1, FiberSets DEF Typed
  <2>8. Typed'
    <3>1. \A g \in Fibers : FiberTyped(fiber'[g])
      BY <1>2, <2>1, <2>7 DEF Typed
    <3>2. nodes' \subseteq Histories
      BY <1>2, <1>8, <1>9, <1>12 DEF Typed
    <3>3. QED BY <1>1, <1>2, <2>4, <2>5, <2>7, <3>1, <3>2 DEF Typed
  <2>9. Turns'
    BY <1>1, <1>2, <1>4, <2>1, TurnsKept
  <2>10. Flies'
    <3>1. \A g \in Fibers : fiber'[g].pc \notin Flying
      BY <1>1, <1>2, <2>1, <2>7, Alone DEF Flying
    <3>2. QED BY <3>1 DEF Flies, Flight
  <2>11. Tracing' /\ Persisting' /\ WitnessTrue' /\ Exits' /\ AbortReceipted'
    BY <1>1, <1>3, <1>4, <1>8, <1>12, <2>4, <2>5, StageKept
  <2>12. HistoryStored'
    <3>1. n.history = n.root
      BY <2>5 DEF Sound
    <3>2. \A h \in stored \cup {root} : \A i \in 1..Len(h) : SubSeq(h, 1, i) \in stored
      BY <1>8, <1>9
    <3>3. QED BY <1>12, <2>4, <2>5, <3>1, <3>2 DEF HistoryStored
  <2>13. QED BY <1>1, <2>4, <2>5, <2>6, <2>8, <2>9, <2>10, <2>11, <2>12 DEF SessionInv
<1>13. QED BY <1>10, <1>11, <1>12

-----------------------------------------------------------------------------
(* The steps of the session.                                               *)

LEMMA FreshCell ==
    ASSUME NEW mode \in {"record", "replay"}, NEW root \in Histories, NEW c,
           c = [mode |-> mode, status |-> "active", history |-> root,
                cursor |-> IF mode = "record" THEN Len(root) ELSE 0,
                pending |-> Nothing, root |-> root, trace |-> <<>>]
    PROVE  /\ c \in Cells /\ Sound(c) /\ Tracks(c, Len(root))
           /\ c.mode = mode /\ c.status = "active" /\ c.history = root /\ c.root = root
           /\ c.pending = Nothing /\ (mode = "replay" => c.cursor = 0)
<1>1. Len(root) \in Nat
  BY LenProperties DEF Histories
<1>2. <<>> \in Seq(Decisions) /\ DOMAIN <<>> = {} /\ Len(<<>>) = 0
  OBVIOUS
<1>3. /\ c.mode = mode /\ c.status = "active" /\ c.history = root /\ c.root = root
      /\ c.cursor = (IF mode = "record" THEN Len(root) ELSE 0)
      /\ c.pending = Nothing /\ c.trace = <<>>
  OBVIOUS
<1>4. c \in Cells
  <2>1. PICK none : none = <<>>
    OBVIOUS
  <2>2. PICK cursor \in Nat : cursor = IF mode = "record" THEN Len(root) ELSE 0
    BY <1>1
  <2>3. c = [mode |-> mode, status |-> "active", history |-> root, cursor |-> cursor,
             pending |-> Nothing, root |-> root, trace |-> none]
    BY <2>1, <2>2
  <2>4. none \in Seq(Decisions)
    BY <1>2, <2>1
  <2>5. QED BY <2>3, <2>4 DEF Cells
<1>5. Sound(c)
  BY <1>1, <1>3 DEF Sound, WellFormed
<1>6. Traced(c, Len(root))
  <2>1. PossibleTrace(c.trace, Start(c, Len(root)))
    BY <1>2, <1>3 DEF PossibleTrace
  <2>2. c.cursor = Start(c, Len(root)) + 0
    BY <1>1, <1>3 DEF Start
  <2>3. Advances(c.trace) = 0
    BY <1>3, NoAdvances
  <2>4. QED BY <2>1, <2>2, <2>3 DEF Traced
<1>7. Open(c)
  <2>1. Unended(c.trace) /\ LastTag(c.trace) = "none"
    BY <1>2, <1>3 DEF Unended, LastTag
  <2>2. QED BY <1>3, <2>1 DEF Open
<1>8. QED BY <1>3, <1>4, <1>5, <1>6, <1>7 DEF Tracks

LEMMA InitHolds == Init => SessionInv
<1> SUFFICES ASSUME Init PROVE SessionInv
  OBVIOUS
<1>1. <<>> \in Histories /\ Len(<<>>) = 0 /\ <<>> \in Seq(Executed) /\ <<>> \in Seq(Calls)
  BY DEF Histories
<1>2. PICK empty : empty = <<>>
  OBVIOUS
<1>3. /\ cell \in Cells /\ Sound(cell) /\ Tracks(cell, Len(empty))
      /\ cell.mode = "record" /\ cell.status = "active" /\ cell.history = empty /\ cell.root = empty
      /\ cell.pending = Nothing
  <2>1. cell = [mode |-> "record", status |-> "active", history |-> empty,
                cursor |-> IF "record" = "record" THEN Len(empty) ELSE 0,
                pending |-> Nothing, root |-> empty, trace |-> <<>>]
    BY <1>1, <1>2 DEF Init
  <2>2. empty \in Histories
    BY <1>1, <1>2
  <2>3. QED BY <2>1, <2>2, FreshCell
<1>4. RunTyped(run) /\ run.pc = "none" /\ run.base = 0 /\ run.exit = Nothing /\ run.receipts = 0
  BY SessionAssumption DEF Init, RunTyped, RunPcs, Exitings
<1>5. DOMAIN fiber = Fibers /\ \A f \in Fibers : FiberTyped(fiber[f]) /\ fiber[f].pc = "none"
  BY NoneTyped DEF Init
<1>6. Main \in Fibers /\ Len(empty) = 0 /\ Len(performed) = 0
  BY <1>1, <1>2, Kinds DEF Init
<1>7. script \in Scripts
  BY <1>1 DEF Init, NoScript, Scripts
<1>8. Typed
  BY <1>1, <1>3, <1>4, <1>5, <1>7 DEF Init, Typed
<1>9. Delegates(cell, performed, run.base)
  BY <1>3, <1>4, <1>6 DEF Delegates, Grown
<1>10. HistoryStored
  <2>1. \A root \in nodes \cup {cell.root} : Len(root) = 0
    BY <1>3, <1>6 DEF Init
  <2>2. \A root \in nodes \cup {cell.root} : \A i \in 1..Len(root) : SubSeq(root, 1, i) \in nodes
    BY <2>1
  <2>3. QED BY <1>3, <2>2 DEF HistoryStored
<1>11. Turns
  BY <1>4, <1>5, <1>6 DEF Init, Turns, Flying
<1>12. Flies
  BY <1>5 DEF Flies, Flight, Flying
<1>13. Tracing
  BY <1>3, <1>4, <1>6 DEF Tracing
<1>14. Persisting /\ Exits /\ AbortReceipted
  BY <1>4 DEF Persisting, Exits, AbortReceipted
<1>15. WitnessTrue
  BY DEF Init, WitnessTrue
<1>16. QED BY <1>3, <1>8, <1>9, <1>10, <1>11, <1>12, <1>13, <1>14, <1>15 DEF SessionInv

(* Nobody holds the cell when a session begins.                            *)
LEMMA BeginFree ==
    ASSUME Typed, Turns, run.pc \in {"none", "ended"},
           \A f \in Others : fiber[f].pc \in {"none", "idle", "dead"}
    PROVE  lock = Nothing
<1> SUFFICES ASSUME lock # Nothing PROVE FALSE
  OBVIOUS
<1>1. lock \in Fibers /\ fiber[lock].pc = "putting"
  BY DEF Typed, Turns
<1>2. lock = Main
  BY <1>1 DEF Fibers
<1>3. QED BY <1>1, <1>2 DEF Turns, Flying

LEMMA BeginKeeps ==
    ASSUME SessionInv, NEW mode \in {"record", "replay"}, NEW root \in nodes \cup {<<>>},
           NEW follow \in BOOLEAN, Begin(mode, root, follow)
    PROVE  SessionInv'
<1>1. Typed /\ Turns /\ HistoryStored
  BY DEF SessionInv
<1>2. root \in Histories /\ Len(root) \in Nat
  <2>1. <<>> \in Histories
    BY DEF Histories
  <2>2. root \in Histories
    BY <1>1, <2>1 DEF Typed
  <2>3. QED BY <2>2, LenProperties DEF Histories
<1>3. PICK c : c = [mode |-> mode, status |-> "active", history |-> root,
                    cursor |-> IF mode = "record" THEN Len(root) ELSE 0,
                    pending |-> Nothing, root |-> root, trace |-> <<>>]
  OBVIOUS
<1>4. /\ c \in Cells /\ Sound(c) /\ Tracks(c, Len(root))
      /\ c.mode = mode /\ c.status = "active" /\ c.history = root /\ c.root = root
      /\ c.pending = Nothing
  BY <1>2, <1>3, FreshCell
<1>5. cell' = c
  BY <1>3 DEF Begin
<1>6. lock' = Nothing /\ nodes' = nodes /\ witnesses' = {} /\ performed' = <<>>
  BY <1>1, BeginFree DEF Begin
<1>7. /\ RunTyped(run') /\ run'.pc = "program" /\ run'.base = Len(root)
      /\ run'.exit = Nothing /\ run'.receipts = 0
  <2>1. run.number + 1 \in Nat /\ MaxCalls \in 0..MaxCalls
    BY <1>1, SessionAssumption DEF Typed, RunTyped
  <2>2. run' = [pc |-> "program", number |-> run.number + 1, base |-> Len(root),
                follow |-> follow, left |-> MaxCalls, interrupted |-> FALSE,
                exit |-> Nothing, outcome |-> Nothing, receipts |-> 0]
    BY DEF Begin
  <2>3. QED BY <1>2, <2>1, <2>2 DEF RunTyped, RunPcs, Exitings
<1>8. /\ DOMAIN fiber' = Fibers
      /\ \A f \in Fibers : FiberTyped(fiber'[f]) /\ fiber'[f].pc = IF f = Main THEN "idle" ELSE "none"
  <2>1. PICK r : r = [NoFiber EXCEPT !.pc = "idle"]
    OBVIOUS
  <2>2. FiberTyped(r) /\ r.pc = "idle" /\ FiberTyped(NoFiber) /\ NoFiber.pc = "none"
    BY <2>1, RestTyped, NoneTyped
  <2>3. fiber' = [f \in Fibers |-> IF f = Main THEN r ELSE NoFiber]
    BY <2>1 DEF Begin
  <2>4. QED BY <2>2, <2>3
<1>9. script' \in Scripts
  <2>1. [NoScript EXCEPT !.plain = TRUE] \in Scripts
    <3>1. NoScript \in Scripts
      <4>1. <<>> \in Seq(Calls)
        OBVIOUS
      <4>2. PICK none : none = <<>>
        OBVIOUS
      <4>3. NoScript = [calls |-> none, terminal |-> Nothing, plain |-> FALSE]
        BY <4>2 DEF NoScript
      <4>4. QED BY <4>1, <4>2, <4>3 DEF Scripts
    <3>2. QED BY <3>1 DEF Scripts
  <2>2. QED BY <1>1, <2>1 DEF Begin, Typed
<1>10. Main \in Fibers /\ Len(performed') = 0 /\ performed' \in Seq(Executed)
  BY <1>6, Kinds
<1>11. Typed'
  BY <1>1, <1>4, <1>5, <1>6, <1>7, <1>8, <1>9, <1>10 DEF Typed
<1>12. Delegates(c, performed', Len(root))
  <2>1. Grown(c, Len(root)) = 0
    BY <1>2, <1>4 DEF Grown
  <2>2. QED BY <1>4, <1>10, <2>1 DEF Delegates
<1>13. HistoryStored'
  <2>1. \A i \in 1..Len(root) : SubSeq(root, 1, i) \in nodes
    <3>1. CASE root \in nodes
      BY <1>1, <3>1 DEF HistoryStored
    <3>2. CASE root = <<>>
      <4>1. Len(root) = 0
        BY <3>2
      <4>2. QED BY <4>1
    <3>3. QED BY <3>1, <3>2
  <2>2. \A h \in nodes : \A i \in 1..Len(h) : SubSeq(h, 1, i) \in nodes
    BY <1>1 DEF HistoryStored
  <2>3. QED BY <1>4, <1>5, <1>6, <2>1, <2>2 DEF HistoryStored
<1>14. Turns'
  BY <1>6, <1>7, <1>8, <1>10 DEF Turns, Flying
<1>15. Flies'
  BY <1>8 DEF Flies, Flight, Flying
<1>16. Tracing' /\ Persisting' /\ Exits' /\ AbortReceipted'
  BY <1>4, <1>5, <1>7 DEF Tracing, Persisting, Exits, AbortReceipted
<1>17. WitnessTrue'
  BY <1>6 DEF WitnessTrue
<1>18. QED BY <1>4, <1>5, <1>7, <1>11, <1>12, <1>13, <1>14, <1>15, <1>16, <1>17 DEF SessionInv

(* A step of the session that leaves the cell and what was performed.      *)
LEMMA SessionGoes ==
    ASSUME SessionInv, RunTyped(run'), SameRun(run', run), script' \in Scripts,
           UNCHANGED <<nodes, cell, performed>>,
           DOMAIN fiber' = Fibers,
           \A g \in Fibers : /\ FiberTyped(fiber'[g])
                             /\ fiber'[g] = fiber[g] \/ fiber'[g].pc \notin Flying,
           lock' \in Fibers \cup {Nothing}, run.pc # "ended",
           Turns', WitnessTrue', Persisting', Exits', AbortReceipted'
    PROVE  SessionInv'
<1>1. Typed /\ Flies /\ Delegates(cell, performed, run.base) /\ HistoryStored /\ Tracing
  BY DEF SessionInv
<1>2. Typed'
  BY <1>1 DEF Typed
<1>3. Flies'
  <2>1. \A g \in Fibers : Flight(fiber'[g], cell, performed, run.base)
    BY <1>1 DEF Flies, Flight
  <2>2. \A g \in Fibers : fiber'[g].pc \in Flying => fiber[g].pc \in Flying
    OBVIOUS
  <2>3. QED BY <1>1, <2>1, <2>2 DEF Flies, SameRun
<1>4. Tracing' /\ Sound(cell') /\ Delegates(cell', performed', run'.base) /\ HistoryStored'
  BY <1>1 DEF Tracing, SameRun, HistoryStored, SessionInv
<1>5. QED BY <1>2, <1>3, <1>4 DEF SessionInv

LEMMA SessionMoves ==
    ASSUME SessionInv, RunTyped(run'), SameRun(run', run), script' \in Scripts,
           UNCHANGED <<nodes, cell, performed, fiber>>,
           lock' \in Fibers \cup {Nothing}, run.pc # "ended",
           Turns', WitnessTrue', Persisting', Exits', AbortReceipted'
    PROVE  SessionInv'
<1>1. DOMAIN fiber' = Fibers /\ \A g \in Fibers : FiberTyped(fiber'[g]) /\ fiber'[g] = fiber[g]
  BY DEF SessionInv, Typed
<1>2. QED BY <1>1, SessionGoes

LEMMA TerminatesKeeps ==
    ASSUME SessionInv, NEW terminal \in Terminals, Terminates(terminal)
    PROVE  SessionInv'
<1>1. Typed /\ Turns /\ WitnessTrue /\ Exits
  BY DEF SessionInv
<1>2. /\ run.pc = "program" /\ fiber[Main].pc = "idle"
      /\ UNCHANGED <<nodes, witnesses, cell, lock, fiber, performed>>
      /\ run' = ComesTo(run, "finish", terminal)
  BY DEF Terminates, Running, ComesTo
<1>3. /\ RunTyped(run') /\ SameRun(run', run) /\ run'.pc = "finish" /\ run'.outcome = terminal
      /\ run'.exit = run.exit /\ run'.receipts = run.receipts
  BY <1>1, <1>2, RunPcOutcome DEF Typed, RunPcs
<1>4. script' \in Scripts /\ lock' \in Fibers \cup {Nothing}
  BY <1>1, <1>2, ScriptSets DEF Terminates, Typed
<1>5. Turns'
  BY <1>1, <1>2, <1>3 DEF Turns, Flying
<1>6. WitnessTrue'
  BY <1>1, <1>2 DEF WitnessTrue
<1>7. Persisting' /\ Exits' /\ AbortReceipted'
  BY <1>1, <1>2, <1>3 DEF Persisting, Exits, AbortReceipted
<1>8. QED BY <1>2, <1>3, <1>4, <1>5, <1>6, <1>7, SessionMoves

LEMMA RequestInterruptKeeps ==
    ASSUME SessionInv, RequestInterrupt
    PROVE  SessionInv'
<1>1. Typed /\ Turns /\ WitnessTrue /\ Exits /\ Persisting
  BY DEF SessionInv
<1>2. /\ run.pc \in {"program", "finish", "persist"} /\ run' = [run EXCEPT !.interrupted = TRUE]
      /\ UNCHANGED <<nodes, witnesses, cell, lock, fiber, performed, script>>
  BY DEF RequestInterrupt
<1>3. /\ RunTyped(run') /\ SameRun(run', run) /\ run'.pc = run.pc /\ run'.outcome = run.outcome
      /\ run'.exit = run.exit /\ run'.receipts = run.receipts
  BY <1>1, <1>2, RunInterrupted DEF Typed
<1>4. script' \in Scripts /\ lock' \in Fibers \cup {Nothing}
  BY <1>1, <1>2 DEF Typed
<1>5. Turns' /\ WitnessTrue'
  BY <1>1, <1>2, <1>3 DEF Turns, WitnessTrue
<1>6. Persisting' /\ Exits' /\ AbortReceipted'
  BY <1>1, <1>2, <1>3 DEF Persisting, Exits, AbortReceipted, SameRun
<1>7. QED BY <1>2, <1>3, <1>4, <1>5, <1>6, SessionMoves

LEMMA FinishSessionKeeps ==
    ASSUME SessionInv, FinishSession
    PROVE  SessionInv'
<1>1. Typed /\ Turns /\ WitnessTrue /\ Exits /\ Sound(cell) /\ Tracing
  BY DEF SessionInv
<1>2. /\ run.pc = "finish" /\ lock = Nothing /\ fiber[Main].pc = "idle"
      /\ UNCHANGED <<nodes, witnesses, cell, fiber, performed, script>>
  BY <1>1 DEF FinishSession, Turns
<1>3. /\ cell \in Cells /\ run.base \in Nat /\ Tracks(cell, run.base) /\ RunTyped(run)
      /\ Main \in Fibers /\ script' \in Scripts
  BY <1>1, <1>2, Kinds DEF Typed, RunTyped, Tracing
<1>4. \A g \in Fibers : fiber[g].pc # "putting"
  BY <1>1, <1>2, NotHeld
<1>5. WitnessTrue'
  BY <1>1, <1>2 DEF WitnessTrue
<1>6. PICK o : o = Reduce(cell, [tag |-> "Complete"])
  OBVIOUS
<1>7. PICK n : n = AppendDecisions(o, cell.root)
  OBVIOUS
<1>8. \/ cell.status = "aborted" /\ o.result.tag = "Absorbed"
      \/ /\ cell.status = "active" /\ cell.cursor = Len(cell.history) /\ o.result.tag = "Completed"
         /\ n = CompletedCell(cell)
      \/ /\ cell.status = "active" /\ cell.cursor # Len(cell.history) /\ o.result.tag = "Rejected"
         /\ n = RejectedCell(cell)
  BY <1>3, <1>6, <1>7, Completion
<1>9. PICK end : end = [outcome |-> [tag |-> o.result.tag, terminal |-> run.outcome], next |-> n]
  OBVIOUS
<1>10. end.next = n /\ end.outcome.tag = o.result.tag
  BY <1>9
<1>11. \/ run' = Leaves(run, "abort", "Defect", Nothing) /\ UNCHANGED lock
       \/ o.result.tag # "Absorbed" /\ lock' = Main /\ run' = ComesTo(run, "persist", end)
  BY <1>6, <1>7, <1>9 DEF FinishSession, Persist, Leaves, ComesTo
<1>12. CASE run' = Leaves(run, "abort", "Defect", Nothing) /\ UNCHANGED lock
  <2>1. /\ RunTyped(run') /\ SameRun(run', run) /\ run'.pc = "abort" /\ run'.exit = "Defect"
        /\ run'.receipts = run.receipts
    BY <1>3, <1>12, RunEnds DEF RunPcs, Exitings
  <2>2. Turns'
    BY <1>1, <1>2, <1>12, <2>1 DEF Turns, Flying
  <2>3. Persisting' /\ Exits' /\ AbortReceipted'
    BY <1>1, <1>2, <2>1 DEF Persisting, Exits, AbortReceipted
  <2>4. lock' \in Fibers \cup {Nothing}
    BY <1>2, <1>12
  <2>5. QED BY <1>2, <1>3, <1>5, <2>1, <2>2, <2>3, <2>4, SessionMoves
<1>13. CASE o.result.tag # "Absorbed" /\ lock' = Main /\ run' = ComesTo(run, "persist", end)
  <2>1. /\ RunTyped(run') /\ SameRun(run', run) /\ run'.pc = "persist" /\ run'.outcome = end
        /\ run'.exit = run.exit /\ run'.receipts = run.receipts
    BY <1>3, <1>13, RunPcOutcome DEF RunPcs
  <2>2. Concludes(end, cell, run.base)
    <3>1. CASE cell.status = "active" /\ cell.cursor = Len(cell.history) /\ n = CompletedCell(cell)
      <4>1. /\ n \in Cells /\ Sound(n) /\ n.mode = cell.mode /\ n.status = cell.status
            /\ n.history = cell.history /\ n.cursor = cell.cursor /\ n.pending = cell.pending
            /\ Traced(n, run.base)
        BY <1>1, <1>3, <3>1, CompletedKeeps
      <4>2. QED BY <1>10, <3>1, <4>1 DEF Concludes
    <3>2. CASE /\ cell.status = "active" /\ cell.cursor # Len(cell.history)
               /\ o.result.tag = "Rejected" /\ n = RejectedCell(cell)
      <4>1. /\ n \in Cells /\ Sound(n) /\ n.mode = cell.mode /\ n.status = "aborted"
            /\ n.history = cell.history /\ n.cursor = cell.cursor /\ Tracks(n, run.base)
        BY <1>1, <1>3, <3>2, RejectedKeeps
      <4>2. cell.mode = "replay"
        BY <1>1, <1>3, <3>2, CellFields DEF Sound, WellFormed
      <4>3. QED BY <1>10, <3>2, <4>1, <4>2 DEF Concludes, Tracks
    <3>3. QED BY <1>8, <1>13, <3>1, <3>2
  <2>3. Turns'
    BY <1>2, <1>3, <1>4, <1>13, <2>1 DEF Turns, Flying
  <2>4. Persisting' /\ Exits' /\ AbortReceipted'
    BY <1>1, <1>2, <2>1, <2>2 DEF Persisting, Exits, AbortReceipted, SameRun
  <2>5. QED BY <1>2, <1>3, <1>5, <1>13, <2>1, <2>3, <2>4, SessionMoves
<1>14. QED BY <1>11, <1>12, <1>13

LEMMA CatchDefectKeeps ==
    ASSUME SessionInv, CatchDefect
    PROVE  SessionInv'
<1>1. Typed /\ Turns /\ WitnessTrue /\ Exits /\ Sound(cell) /\ Tracing
  BY DEF SessionInv
<1>2. /\ run.pc = "program" /\ fiber[Main].pc = "dead"
      /\ UNCHANGED <<nodes, witnesses, cell, fiber, performed, script>>
  BY DEF CatchDefect
<1>3. /\ cell \in Cells /\ run.base \in Nat /\ Tracks(cell, run.base) /\ RunTyped(run)
      /\ Main \in Fibers /\ script' \in Scripts /\ lock \in Fibers \cup {Nothing}
  BY <1>1, <1>2, Kinds DEF Typed, RunTyped, Tracing
<1>4. WitnessTrue'
  BY <1>1, <1>2 DEF WitnessTrue
<1>5. PICK why : why = fiber[Main].why
  OBVIOUS
<1>6. PICK end : end = [outcome |-> why, next |-> cell]
  OBVIOUS
<1>7. \/ run' = Leaves(run, "ended", "CasError", Nothing) /\ UNCHANGED lock
      \/ /\ why.tag \in {"Rejected", "Violated"} /\ lock = Nothing
         /\ lock' = Main /\ run' = ComesTo(run, "persist", end)
      \/ run' = Fails(run, "abort", "Defect") /\ UNCHANGED lock
  BY <1>5, <1>6 DEF CatchDefect, Persist, Ended, Leaves, ComesTo, Fails
<1>8. CASE run' = Leaves(run, "ended", "CasError", Nothing) /\ UNCHANGED lock
  <2>1. /\ RunTyped(run') /\ SameRun(run', run) /\ run'.pc = "ended" /\ run'.exit = "CasError"
        /\ run'.receipts = run.receipts
    BY <1>3, <1>8, RunEnds DEF RunPcs, Exitings
  <2>2. Turns'
    BY <1>1, <1>2, <1>8, <2>1 DEF Turns, Flying
  <2>3. Persisting' /\ Exits' /\ AbortReceipted'
    BY <1>1, <1>2, <2>1 DEF Persisting, Exits, AbortReceipted
  <2>4. QED BY <1>2, <1>3, <1>4, <1>8, <2>1, <2>2, <2>3, SessionMoves
<1>9. CASE /\ why.tag \in {"Rejected", "Violated"} /\ lock = Nothing
           /\ lock' = Main /\ run' = ComesTo(run, "persist", end)
  <2>1. /\ RunTyped(run') /\ SameRun(run', run) /\ run'.pc = "persist" /\ run'.outcome = end
        /\ run'.exit = run.exit /\ run'.receipts = run.receipts
    BY <1>3, <1>9, RunPcOutcome DEF RunPcs
  <2>2. Concludes(end, cell, run.base)
    BY <1>1, <1>3, <1>6, <1>9 DEF Concludes, Tracks
  <2>3. \A g \in Fibers : fiber[g].pc # "putting"
    BY <1>1, <1>9, NotHeld
  <2>4. Turns'
    BY <1>2, <1>3, <1>9, <2>1, <2>3 DEF Turns, Flying
  <2>5. Persisting' /\ Exits' /\ AbortReceipted'
    BY <1>1, <1>2, <2>1, <2>2 DEF Persisting, Exits, AbortReceipted, SameRun
  <2>6. QED BY <1>2, <1>3, <1>4, <1>9, <2>1, <2>4, <2>5, SessionMoves
<1>10. CASE run' = Fails(run, "abort", "Defect") /\ UNCHANGED lock
  <2>1. /\ RunTyped(run') /\ SameRun(run', run) /\ run'.pc = "abort" /\ run'.exit = "Defect"
        /\ run'.receipts = run.receipts
    BY <1>3, <1>10, RunPcExit DEF RunPcs, Exitings
  <2>2. Turns'
    BY <1>1, <1>2, <1>10, <2>1 DEF Turns, Flying
  <2>3. Persisting' /\ Exits' /\ AbortReceipted'
    BY <1>1, <1>2, <2>1 DEF Persisting, Exits, AbortReceipted
  <2>4. QED BY <1>2, <1>3, <1>4, <1>10, <2>1, <2>2, <2>3, SessionMoves
<1>11. QED BY <1>7, <1>8, <1>9, <1>10

(* What holds while a witness is put: the cell waits.                      *)
LEMMA WhilePersisting ==
    ASSUME SessionInv, run.pc = "persist", NEW end, end = run.outcome
    PROVE  /\ Concludes(end, cell, run.base) /\ lock = Main /\ Main \in Fibers
           /\ fiber[Main].pc \in {"idle", "dead"} /\ (\A g \in Fibers : fiber[g].pc # "putting")
           /\ TrueWitness(WitnessOf(end.next, end.outcome), nodes)
<1>1. Typed /\ Turns /\ Sound(cell) /\ HistoryStored
  BY DEF SessionInv
<1>2. Concludes(end, cell, run.base)
  BY DEF SessionInv, Persisting
<1>3. lock = Main /\ Main \in Fibers /\ fiber[Main].pc \in {"idle", "dead"}
  BY <1>1, Kinds DEF Turns
<1>4. \A g \in Fibers : fiber[g].pc # "putting"
  BY <1>1, <1>3 DEF Turns
<1>5. TrueWitness(WitnessOf(end.next, end.outcome), nodes)
  <2>1. PICK c, outcome : c = end.next /\ outcome = end.outcome
    OBVIOUS
  <2>2. /\ c \in Cells /\ Sound(c) /\ Traced(c, run.base) /\ c.history = cell.history
        /\ outcome.tag = "Completed" => c.cursor = Len(c.history)
    BY <1>2, <2>1 DEF Concludes
  <2>3. QED BY <1>1, <2>1, <2>2, TellsTruly
<1>6. QED BY <1>2, <1>3, <1>4, <1>5

LEMMA ResultEnds ==
    ASSUME RunTyped(run), NEW w, run' = [Ended("Result") EXCEPT !.outcome = w]
    PROVE  /\ RunTyped(run') /\ SameRun(run', run) /\ run'.pc = "ended" /\ run'.exit = "Result"
           /\ run'.outcome = w /\ run'.receipts = run.receipts
<1>1. PICK m : m = Leaves(run, "ended", "Result", Nothing)
  OBVIOUS
<1>2. /\ RunTyped(m) /\ SameRun(m, run) /\ m.pc = "ended" /\ m.exit = "Result"
      /\ m.receipts = run.receipts
  BY <1>1, RunEnds DEF RunPcs, Exitings
<1>3. PICK n : n = [m EXCEPT !.outcome = w]
  OBVIOUS
<1>4. /\ RunTyped(n) /\ SameRun(n, m) /\ n.pc = m.pc /\ n.exit = m.exit /\ n.outcome = w
      /\ n.receipts = m.receipts
  BY <1>2, <1>3 DEF RunTyped, SameRun
<1>5. run' = n
  BY <1>1, <1>3 DEF Ended, Leaves
<1>6. QED BY <1>2, <1>4, <1>5 DEF SameRun

LEMMA PersistWitnessKeeps ==
    ASSUME SessionInv, PersistWitness
    PROVE  SessionInv'
<1>1. /\ Typed /\ Turns /\ Flies /\ WitnessTrue /\ Exits /\ Sound(cell) /\ HistoryStored
      /\ Delegates(cell, performed, run.base)
  BY DEF SessionInv
<1>2. PICK end : end = run.outcome
  OBVIOUS
<1>3. PICK w : w = WitnessOf(end.next, end.outcome)
  OBVIOUS
<1>4. /\ run.pc = "persist" /\ lock' = Nothing /\ UNCHANGED <<nodes, fiber, performed, script>>
      /\ witnesses' \subseteq witnesses \cup {w}
      /\ \/ cell' = end.next /\ run' = [Ended("Result") EXCEPT !.outcome = w]
         \/ run' = Leaves(run, "ended", "CasError", Nothing) /\ UNCHANGED cell
  BY <1>2, <1>3 DEF PersistWitness, Ended, Leaves
<1>5. /\ Concludes(end, cell, run.base) /\ lock = Main /\ Main \in Fibers
      /\ fiber[Main].pc \in {"idle", "dead"} /\ (\A g \in Fibers : fiber[g].pc # "putting")
      /\ TrueWitness(w, nodes)
  BY <1>2, <1>3, <1>4, WhilePersisting
<1>6. RunTyped(run) /\ script' \in Scripts
  BY <1>1, <1>4 DEF Typed
<1>7. WitnessTrue'
  BY <1>1, <1>4, <1>5, WitnessesKept
<1>8. CASE run' = Leaves(run, "ended", "CasError", Nothing) /\ UNCHANGED cell
  <2>1. /\ RunTyped(run') /\ SameRun(run', run) /\ run'.pc = "ended" /\ run'.exit = "CasError"
        /\ run'.receipts = run.receipts
    BY <1>6, <1>8, RunEnds DEF RunPcs, Exitings
  <2>2. Turns'
    BY <1>4, <1>5, <2>1 DEF Turns, Flying
  <2>3. Persisting' /\ Exits' /\ AbortReceipted'
    BY <1>1, <1>4, <2>1 DEF Persisting, Exits, AbortReceipted
  <2>4. QED BY <1>4, <1>6, <1>7, <1>8, <2>1, <2>2, <2>3, SessionMoves
<1>9. CASE cell' = end.next /\ run' = [Ended("Result") EXCEPT !.outcome = w]
  <2>1. /\ RunTyped(run') /\ SameRun(run', run) /\ run'.pc = "ended" /\ run'.exit = "Result"
        /\ run'.receipts = run.receipts
    BY <1>6, <1>9, ResultEnds
  <2>2. PICK n : n = end.next
    OBVIOUS
  <2>3. /\ n \in Cells /\ Sound(n) /\ n.mode = cell.mode /\ n.history = cell.history
        /\ \/ n.status = cell.status /\ n.pending = cell.pending
           \/ cell.mode = "replay"
    BY <1>5, <2>2 DEF Concludes
  <2>4. Typed'
    BY <1>1, <1>4, <1>9, <2>1, <2>2, <2>3 DEF Typed
  <2>5. Turns'
    BY <1>4, <1>5, <2>1 DEF Turns, Flying
  <2>6. Delegates(n, performed, run.base)
    BY <1>1, <2>3 DEF Delegates, Grown
  <2>7. \A g \in Fibers : Flight(fiber[g], n, performed, run.base)
    <3> SUFFICES ASSUME NEW g \in Fibers PROVE Flight(fiber[g], n, performed, run.base)
      OBVIOUS
    <3>1. Flight(fiber[g], cell, performed, run.base)
      BY <1>1 DEF Flies
    <3>2. QED BY <2>3, <3>1 DEF Flight, Grown
  <2>8. Flies'
    BY <1>1, <1>4, <1>9, <2>1, <2>2, <2>7 DEF Flies, SameRun
  <2>9. HistoryStored'
    BY <1>1, <1>4, <1>9, <2>2, <2>3 DEF HistoryStored, Sound
  <2>10. Tracing' /\ Persisting' /\ Exits' /\ AbortReceipted'
    BY <1>1, <1>4, <2>1 DEF Tracing, Persisting, Exits, AbortReceipted
  <2>11. QED BY <1>4, <1>7, <1>9, <2>1, <2>2, <2>3, <2>4, <2>5, <2>6, <2>8, <2>9, <2>10
            DEF SessionInv, SameRun
<1>10. QED BY <1>4, <1>8, <1>9

LEMMA UnwindKeeps ==
    ASSUME SessionInv, Unwind
    PROVE  SessionInv'
<1>1. Typed /\ Turns /\ WitnessTrue /\ Exits
  BY DEF SessionInv
<1>2. /\ run.pc \in {"program", "finish", "persist"} /\ fiber[Main].pc \notin {"append", "putting"}
      /\ run' = Leaves(run, "abort", "Interrupted", Nothing)
      /\ lock' = (IF run.pc = "persist" THEN Nothing ELSE lock)
      /\ UNCHANGED <<nodes, cell, performed, script>>
  BY DEF Unwind, Leaves
<1>3. PICK r : r = [NoFiber EXCEPT !.pc = "done"]
  OBVIOUS
<1>4. FiberTyped(r) /\ r.pc = "done"
  BY <1>3, DoneTyped
<1>5. fiber' = [fiber EXCEPT ![Main] = r]
  BY <1>3 DEF Unwind, Sets
<1>6. Main \in Fibers /\ RunTyped(run) /\ script' \in Scripts /\ lock' \in Fibers \cup {Nothing}
  BY <1>1, <1>2, Kinds DEF Typed
<1>7. /\ DOMAIN fiber' = Fibers /\ fiber'[Main] = r
      /\ \A g \in Fibers : g # Main => fiber'[g] = fiber[g]
  BY <1>1, <1>5, <1>6, FiberSets DEF Typed
<1>8. \A g \in Fibers : FiberTyped(fiber'[g]) /\ (fiber'[g] = fiber[g] \/ fiber'[g].pc \notin Flying)
  BY <1>1, <1>4, <1>7 DEF Typed, Flying
<1>9. /\ RunTyped(run') /\ SameRun(run', run) /\ run'.pc = "abort" /\ run'.exit = "Interrupted"
      /\ run'.receipts = run.receipts
  BY <1>2, <1>6, RunEnds DEF RunPcs, Exitings
<1>10. Turns'
  <2>1. \A g \in Fibers : fiber'[g].pc = "putting" => lock' = g
    <3> SUFFICES ASSUME NEW g \in Fibers, fiber'[g].pc = "putting" PROVE lock' = g
      OBVIOUS
    <3>1. g # Main /\ fiber[g].pc = "putting" /\ lock = g
      BY <1>1, <1>4, <1>7 DEF Turns
    <3>2. run.pc # "persist"
      BY <1>1, <3>1 DEF Turns
    <3>3. QED BY <1>2, <3>1, <3>2
  <2>2. lock' # Nothing => fiber'[lock'].pc = "putting"
    <3> SUFFICES ASSUME lock' # Nothing PROVE fiber'[lock'].pc = "putting"
      OBVIOUS
    <3>1. lock' = lock /\ run.pc # "persist"
      BY <1>2
    <3>2. lock \in Fibers /\ fiber[lock].pc = "putting" /\ lock # Main
      BY <1>1, <1>2, <1>6, <3>1 DEF Turns
    <3>3. QED BY <1>7, <3>1, <3>2
  <2>3. QED BY <1>4, <1>7, <1>9, <2>1, <2>2 DEF Turns, Flying
<1>11. WitnessTrue'
  <2>1. CASE run.pc = "persist"
    <3>1. PICK end : end = run.outcome
      OBVIOUS
    <3>2. PICK w : w = WitnessOf(end.next, end.outcome)
      OBVIOUS
    <3>3. witnesses' \subseteq witnesses \cup {w}
      BY <2>1, <3>1, <3>2 DEF Unwind
    <3>4. TrueWitness(w, nodes)
      BY <2>1, <3>1, <3>2, WhilePersisting
    <3>5. QED BY <1>1, <1>2, <3>3, <3>4, WitnessesKept
  <2>2. CASE run.pc # "persist"
    <3>1. witnesses' = witnesses
      BY <2>2 DEF Unwind
    <3>2. QED BY <1>1, <1>2, <3>1, WitnessesKept
  <2>3. QED BY <2>1, <2>2
<1>12. Persisting' /\ Exits' /\ AbortReceipted'
  BY <1>1, <1>2, <1>9 DEF Persisting, Exits, AbortReceipted
<1>13. QED BY <1>2, <1>6, <1>7, <1>8, <1>9, <1>10, <1>11, <1>12, SessionGoes

LEMMA PersistAbortedKeeps ==
    ASSUME SessionInv, PersistAborted
    PROVE  SessionInv'
<1>1. /\ Typed /\ Turns /\ WitnessTrue /\ Exits /\ Sound(cell) /\ HistoryStored /\ Tracing
  BY DEF SessionInv
<1>2. /\ run.pc = "abort" /\ lock = Nothing
      /\ UNCHANGED <<nodes, cell, lock, fiber, performed, script>>
      /\ run.exit \in {"Defect", "Interrupted"} /\ run.receipts = 0
  BY <1>1 DEF PersistAborted, Exits
<1>3. RunTyped(run) /\ script' \in Scripts /\ cell \in Cells /\ Traced(cell, run.base)
  BY <1>1, <1>2 DEF Typed, Tracing, Tracks
<1>4. PICK m : m = Leaves(run, "ended", run.exit, Nothing)
  OBVIOUS
<1>5. /\ RunTyped(m) /\ SameRun(m, run) /\ m.pc = "ended" /\ m.exit = run.exit
      /\ m.receipts = run.receipts
  BY <1>2, <1>3, <1>4, RunEnds DEF RunPcs, Exitings
<1>6. run' = [m EXCEPT !.receipts = @ + 1]
  BY <1>4 DEF PersistAborted, Ended, Leaves
<1>7. run' = [m EXCEPT !.receipts = 1]
  BY <1>2, <1>5, <1>6
<1>8. /\ RunTyped(run') /\ SameRun(run', run) /\ run'.pc = "ended" /\ run'.exit = run.exit
      /\ run'.receipts = 1
  <2>1. PICK n : n = [m EXCEPT !.receipts = 1]
    OBVIOUS
  <2>2. RunTyped(n) /\ SameRun(n, m) /\ n.pc = m.pc /\ n.exit = m.exit /\ n.receipts = 1
    BY <1>5, <2>1 DEF RunTyped, SameRun
  <2>3. QED BY <1>5, <1>7, <2>1, <2>2 DEF SameRun
<1>9. WitnessTrue'
  <2>1. PICK outcome : outcome = [tag |-> "Aborted"]
    OBVIOUS
  <2>2. PICK w : w = WitnessOf(cell, outcome)
    OBVIOUS
  <2>3. witnesses' \subseteq witnesses \cup {w}
    BY <2>1, <2>2 DEF PersistAborted
  <2>4. outcome.tag # "Completed"
    BY <2>1
  <2>5. TrueWitness(w, nodes)
    BY <1>1, <1>3, <2>2, <2>4, TellsTruly
  <2>6. QED BY <1>1, <1>2, <2>3, <2>5, WitnessesKept
<1>10. Turns'
  BY <1>1, <1>2, <1>8 DEF Turns, Flying
<1>11. Persisting' /\ Exits' /\ AbortReceipted'
  BY <1>1, <1>2, <1>8 DEF Persisting, Exits, AbortReceipted
<1>12. QED BY <1>2, <1>3, <1>8, <1>9, <1>10, <1>11, SessionMoves

LEMMA StutterKeeps ==
    ASSUME SessionInv, UNCHANGED vars
    PROVE  SessionInv'
<1>1. Typed'
  BY DEF SessionInv, Typed, vars
<1>2. Sound(cell') /\ Delegates(cell', performed', run'.base)
  BY DEF SessionInv, vars
<1>3. HistoryStored' /\ Turns'
  BY DEF SessionInv, HistoryStored, Turns, vars
<1>4. Flies'
  BY DEF SessionInv, Flies, vars
<1>5. Tracing' /\ Persisting' /\ WitnessTrue'
  BY DEF SessionInv, Tracing, Persisting, WitnessTrue, vars
<1>6. Exits' /\ AbortReceipted'
  BY DEF SessionInv, Exits, AbortReceipted, vars
<1>7. QED BY <1>1, <1>2, <1>3, <1>4, <1>5, <1>6 DEF SessionInv

(* The steps, by whose they are.                                           *)
LEMMA Steps ==
    ASSUME [Next]_vars
    PROVE  \/ \E mode \in {"record", "replay"}, root \in nodes \cup {<<>>}, follow \in BOOLEAN :
                 Begin(mode, root, follow)
           \/ \E f \in Others : Fork(f) \/ Join(f)
           \/ \E f \in Fibers, call \in Calls :
                 InvokeLive(f, call) \/ InvokeUnstorable(f, call) \/ InvokeRecorded(f, call)
           \/ \E f \in Fibers, outcome \in Outcomes : HandlerReturns(f, outcome)
           \/ \E f \in Fibers : HandlerDies(f) \/ CallInterrupted(f) \/ Ambient(f)
           \/ \E f \in Fibers : Mask(f) \/ AppendRecordedOutcome(f) \/ PutHistory(f)
           \/ \E terminal \in Terminals : Terminates(terminal)
           \/ FinishSession \/ CatchDefect \/ PersistWitness \/ Unwind \/ PersistAborted
           \/ RequestInterrupt
           \/ UNCHANGED vars
  BY DEF Next, Call, Owed, Ending, StoreReturns, Quiet

LEMMA SessionStep == SessionInv /\ [Next]_vars => SessionInv'
<1> SUFFICES ASSUME SessionInv, [Next]_vars PROVE SessionInv'
  OBVIOUS
<1>1. ASSUME NEW mode \in {"record", "replay"}, NEW root \in nodes \cup {<<>>},
             NEW follow \in BOOLEAN, Begin(mode, root, follow)
      PROVE  SessionInv'
  BY <1>1, BeginKeeps
<1>2. ASSUME NEW f \in Others, Fork(f) \/ Join(f) PROVE SessionInv'
  BY <1>2, ForkKeeps, JoinKeeps
<1>3. ASSUME NEW f \in Fibers, NEW call \in Calls,
             InvokeLive(f, call) \/ InvokeUnstorable(f, call) \/ InvokeRecorded(f, call)
      PROVE  SessionInv'
  BY <1>3, InvokeLiveKeeps, InvokeUnstorableKeeps, InvokeRecordedKeeps
<1>4. ASSUME NEW f \in Fibers, NEW outcome \in Outcomes, HandlerReturns(f, outcome) PROVE SessionInv'
  BY <1>4, HandlerReturnsKeeps
<1>5. ASSUME NEW f \in Fibers, HandlerDies(f) \/ CallInterrupted(f) \/ Ambient(f) PROVE SessionInv'
  BY <1>5, HandlerDiesKeeps, CallInterruptedKeeps, AmbientKeeps
<1>6. ASSUME NEW f \in Fibers, Mask(f) \/ AppendRecordedOutcome(f) \/ PutHistory(f) PROVE SessionInv'
  BY <1>6, MaskKeeps, AppendRecordedOutcomeKeeps, PutHistoryKeeps
<1>7. ASSUME NEW terminal \in Terminals, Terminates(terminal) PROVE SessionInv'
  BY <1>7, TerminatesKeeps
<1>8. CASE FinishSession \/ CatchDefect \/ PersistWitness \/ Unwind \/ PersistAborted
  BY <1>8, FinishSessionKeeps, CatchDefectKeeps, PersistWitnessKeeps, UnwindKeeps, PersistAbortedKeeps
<1>9. CASE RequestInterrupt
  BY <1>9, RequestInterruptKeeps
<1>10. CASE UNCHANGED vars
  BY <1>10, StutterKeeps
<1>11. QED BY <1>1, <1>2, <1>3, <1>4, <1>5, <1>6, <1>7, <1>8, <1>9, <1>10, Steps

-----------------------------------------------------------------------------
(* What the invariant says of the history.                                 *)

LEMMA Types == SessionInv => TypeOK
<1> SUFFICES ASSUME SessionInv PROVE TypeOK
  OBVIOUS
<1>1. cell \in Cells /\ RunTyped(run) /\ \A f \in Fibers : FiberTyped(fiber[f])
  BY DEF SessionInv, Typed
<1>2. WellFormed(cell) /\ cell.status \in {"active", "aborted"}
  BY <1>1, CellFields DEF SessionInv, Sound
<1>3. lock \in Fibers \cup {Nothing}
  BY DEF SessionInv, Typed
<1>4. run.exit \in Exitings /\ \A f \in Fibers : fiber[f].pc \in FiberPcs
  BY <1>1 DEF RunTyped, FiberTyped
<1>5. QED BY <1>2, <1>3, <1>4 DEF TypeOK, Exitings, FiberPcs

LEMMA PartOf ==
    ASSUME NEW S, NEW s \in Seq(S), NEW m \in Nat, NEW n \in Nat, m <= n + 1, n <= Len(s)
    PROVE  /\ SubSeq(s, m + 1, n) \in Seq(S)
           /\ Len(SubSeq(s, m + 1, n)) = IF m + 1 <= n THEN n - m ELSE 0
           /\ \A k \in 1..(n - m) : SubSeq(s, m + 1, n)[k] = s[m + k]
<1>1. Len(s) \in Nat
  BY LenProperties
<1>2. \A k \in (m + 1)..n : s[k] \in S
  BY <1>1, ElementOfSeq
<1>3. /\ SubSeq(s, m + 1, n) \in Seq(S)
      /\ Len(SubSeq(s, m + 1, n)) = IF m + 1 <= n THEN n - (m + 1) + 1 ELSE 0
      /\ \A k \in 1..(n - (m + 1) + 1) : SubSeq(s, m + 1, n)[k] = s[(m + 1) + k - 1]
  BY <1>2, SubSeqProperties
<1>4. n - (m + 1) + 1 = n - m /\ \A k \in 1..(n - m) : (m + 1) + k - 1 = m + k
  OBVIOUS
<1>5. QED BY <1>3, <1>4

LEMMA Truthful == SessionInv => TruthfulPrefix
<1> SUFFICES ASSUME SessionInv, cell.mode = "record"
             PROVE  LET new == SubSeq(cell.history, run.base + 1, Len(cell.history))
                    IN  new = SubSeq(performed, 1, Len(new)) /\ Len(new) <= Len(performed)
  BY DEF TruthfulPrefix
<1> DEFINE h == cell.history
           p == performed
           g == Grown(cell, run.base)
           E == Entries \cup Executed
<1>1. h \in Seq(E) /\ p \in Seq(E) /\ run.base \in Nat
  BY CellFields DEF SessionInv, Typed, RunTyped
<1>2. /\ g \in Nat /\ g = Len(h) - run.base /\ Len(p) \in {g, g + 1}
      /\ \A k \in 1..g : h[run.base + k] = p[k]
  BY DEF SessionInv, Delegates, Grown
<1>3. Len(h) \in Nat /\ Len(p) \in Nat /\ run.base <= Len(h) /\ g <= Len(p) /\ 0 \in Nat /\ 0 + 1 = 1
  BY <1>1, <1>2, LenProperties
<1> HIDE DEF h, p, g, E
<1> DEFINE new == SubSeq(h, run.base + 1, Len(h))
           old == SubSeq(p, 1, g)
<1>4. /\ new \in Seq(E) /\ Len(new) = IF run.base + 1 <= Len(h) THEN Len(h) - run.base ELSE 0
      /\ \A k \in 1..(Len(h) - run.base) : new[k] = h[run.base + k]
  BY <1>1, <1>3, PartOf
<1>5. /\ old \in Seq(E) /\ Len(old) = IF 1 <= g THEN g - 0 ELSE 0
      /\ \A k \in 1..(g - 0) : old[k] = p[0 + k]
  BY <1>1, <1>2, <1>3, PartOf
<1> HIDE DEF new, old
<1>6. Len(new) = g /\ Len(old) = g
  BY <1>1, <1>2, <1>3, <1>4, <1>5
<1>7. \A k \in 1..g : new[k] = old[k]
  <2> SUFFICES ASSUME NEW k \in 1..g PROVE new[k] = old[k]
    OBVIOUS
  <2>1. k \in 1..(Len(h) - run.base) /\ k \in 1..(g - 0) /\ 0 + k = k
    BY <1>2
  <2>2. new[k] = h[run.base + k] /\ old[k] = p[0 + k]
    BY <1>4, <1>5, <2>1
  <2>3. QED BY <1>2, <2>1, <2>2
<1>8. new = old
  BY <1>4, <1>5, <1>6, <1>7, SeqEqual
<1>9. QED BY <1>3, <1>6, <1>8 DEF h, p, new, old

LEMMA TrueHistory == SessionInv => HistoryTrue
  BY Types, Truthful DEF SessionInv, HistoryTrue

-----------------------------------------------------------------------------
(* After an abort.                                                         *)

(* The history and the cursor, and what is stored, stay.                   *)
StaysPut ==
    nodes' = nodes /\ cell'.history = cell.history /\ cell'.cursor = cell.cursor

LEMMA AbortedStays ==
    ASSUME SessionInv, [Next]_vars, cell.status = "aborted", run'.number = run.number
    PROVE  StaysPut
<1>1. /\ cell \in Cells /\ Sound(cell) /\ WellFormed(cell) /\ RunTyped(run) /\ Flies
  BY DEF SessionInv, Typed, Sound
<1>2. ASSUME NEW mode \in {"record", "replay"}, NEW root \in nodes \cup {<<>>},
             NEW follow \in BOOLEAN, Begin(mode, root, follow)
      PROVE  StaysPut
  <2>1. run'.number = run.number + 1
    BY <1>2 DEF Begin
  <2>2. run.number \in Nat
    BY <1>1 DEF RunTyped
  <2>3. QED BY <2>1, <2>2
<1>3. ASSUME NEW f \in Fibers, NEW call \in Calls, InvokeLive(f, call) PROVE StaysPut
  <2>1. PICK o : o = Reduce(cell, [tag |-> "Invoke", call |-> call])
    OBVIOUS
  <2>2. cell' = AppendDecisions(o, cell.root) /\ nodes' = nodes /\ cell.mode = "record"
    BY <1>3, <2>1 DEF InvokeLive, Apply
  <2>3. AppendDecisions(o, cell.root) = cell
    BY <1>1, <2>1, <2>2, Delegation
  <2>4. QED BY <2>2, <2>3 DEF StaysPut
<1>4. ASSUME NEW f \in Fibers, NEW call \in Calls, InvokeRecorded(f, call) PROVE StaysPut
  <2>1. PICK o : o = Reduce(cell, [tag |-> "Invoke", call |-> call])
    OBVIOUS
  <2>2. nodes' = nodes /\ cell.mode = "replay"
    BY <1>4 DEF InvokeRecorded
  <2>3. o.result.tag = "Absorbed"
    BY <1>1, <2>1, <2>2, Substitution
  <2>4. cell' = cell
    BY <1>4, <2>1, <2>3 DEF InvokeRecorded
  <2>5. QED BY <2>2, <2>4 DEF StaysPut
<1>5. ASSUME NEW f \in Fibers, AppendRecordedOutcome(f) PROVE StaysPut
  <2>1. nodes' = nodes /\ (AppendFails(f) \/ cell' = cell)
    BY <1>5 DEF AppendRecordedOutcome
  <2>2. CASE AppendFails(f)
    <3>1. PICK n \in Cells : cell' = n /\ n.history = cell.history /\ n.cursor = cell.cursor
      BY <2>2, FailsTo
    <3>2. QED BY <2>1, <3>1 DEF StaysPut
  <2>3. QED BY <2>1, <2>2 DEF StaysPut
<1>6. ASSUME NEW f \in Fibers, PutHistory(f) PROVE StaysPut
  <2>1. fiber[f].pc = "putting"
    BY <1>6 DEF PutHistory
  <2>2. cell.status = "active"
    BY <2>1, Putting
  <2>3. QED BY <2>2
<1>7. CASE PersistWitness
  <2>1. nodes' = nodes /\ run.pc = "persist" /\ (cell' = run.outcome.next \/ cell' = cell)
    BY <1>7 DEF PersistWitness
  <2>2. PICK end : end = run.outcome
    OBVIOUS
  <2>3. Concludes(end, cell, run.base)
    BY <2>1, <2>2, WhilePersisting
  <2>4. end.next.history = cell.history /\ end.next.cursor = cell.cursor
    BY <2>3 DEF Concludes
  <2>5. QED BY <2>1, <2>2, <2>4 DEF StaysPut
<1>8. ASSUME NEW f \in Others, Fork(f) \/ Join(f) PROVE StaysPut
  BY <1>8 DEF Fork, Join, StaysPut
<1>9. ASSUME NEW f \in Fibers, NEW call \in Calls, InvokeUnstorable(f, call) PROVE StaysPut
  BY <1>9 DEF InvokeUnstorable, StaysPut
<1>10. ASSUME NEW f \in Fibers, NEW outcome \in Outcomes, HandlerReturns(f, outcome) PROVE StaysPut
  BY <1>10 DEF HandlerReturns, StaysPut
<1>11. ASSUME NEW f \in Fibers, HandlerDies(f) \/ CallInterrupted(f) \/ Ambient(f) \/ Mask(f)
       PROVE  StaysPut
  BY <1>11 DEF HandlerDies, CallInterrupted, Ambient, Mask, StaysPut
<1>12. ASSUME NEW terminal \in Terminals, Terminates(terminal) PROVE StaysPut
  BY <1>12 DEF Terminates, StaysPut
<1>13. CASE FinishSession \/ CatchDefect \/ Unwind \/ PersistAborted \/ RequestInterrupt
  BY <1>13 DEF FinishSession, CatchDefect, Unwind, PersistAborted, RequestInterrupt, StaysPut
<1>14. CASE UNCHANGED vars
  BY <1>14 DEF vars, StaysPut
<1>15. QED BY <1>2, <1>3, <1>4, <1>5, <1>6, <1>7, <1>8, <1>9, <1>10, <1>11, <1>12, <1>13, <1>14, Steps

-----------------------------------------------------------------------------
(* The script of a plain recording.                                        *)

Plain == cell.mode = "record" /\ script.plain

LEMMA OnlyMain ==
    ASSUME Scripted, Plain, NEW f \in Fibers, fiber[f].pc # "none"
    PROVE  f = Main
  BY DEF Scripted, Plain, Fibers

(* A fiber that ends as other than idle says no more of the script.        *)
LEMMA PlainDies ==
    ASSUME Scripted, DOMAIN fiber = Fibers, NEW f \in Fibers, fiber[f].pc # "none",
           NEW r, r.pc \notin Flying, r.pc # "idle", fiber' = [fiber EXCEPT ![f] = r],
           cell'.mode = cell.mode, cell'.history = cell.history,
           run'.base = run.base, run'.pc = "program" => run.pc = "program",
           script'.plain => script.plain, script'.terminal = script.terminal,
           script'.calls = script.calls \/ run.pc = "program"
    PROVE  Scripted'
<1> SUFFICES ASSUME cell'.mode = "record", script'.plain PROVE Scripted'
  BY DEF Scripted
<1>1. Plain
  BY DEF Plain
<1>2. f = Main
  BY <1>1, OnlyMain
<1>3. fiber'[Main] = r /\ \A g \in Others : fiber'[g] = fiber[g]
  BY <1>2, Kinds, FiberSets
<1>4. /\ \A g \in Others : fiber[g].pc = "none"
      /\ run.pc = "program" => script.terminal = Nothing
      /\ run.base = 0 /\ script.terminal # Nothing => Match(script.calls, cell.history)
  BY <1>1 DEF Scripted, Plain
<1>5. run'.base = 0 /\ script'.terminal # Nothing => Match(script'.calls, cell'.history)
  BY <1>4
<1>6. QED BY <1>3, <1>4, <1>5 DEF Scripted

(* A fiber that goes on with its call.                                     *)
LEMMA PlainFlies ==
    ASSUME Scripted, DOMAIN fiber = Fibers, NEW f \in Fibers, fiber[f].pc \in Flying,
           NEW r, r.pc \in Flying, r.call = fiber[f].call, fiber' = [fiber EXCEPT ![f] = r],
           UNCHANGED <<cell, run, script>>
    PROVE  Scripted'
<1> SUFFICES ASSUME cell'.mode = "record", script'.plain PROVE Scripted'
  BY DEF Scripted
<1>1. Plain /\ fiber[f].pc # "none"
  BY DEF Plain, Flying
<1>2. f = Main
  BY <1>1, OnlyMain
<1>3. fiber'[Main] = r /\ \A g \in Others : fiber'[g] = fiber[g]
  BY <1>2, Kinds, FiberSets
<1>4. /\ \A g \in Others : fiber[g].pc = "none"
      /\ run.pc = "program" => script.terminal = Nothing
      /\ cell.status = "active"
      /\ run.base = 0 /\ script.terminal # Nothing => Match(script.calls, cell.history)
      /\ run.base = 0 => Outstanding(script.calls, cell.history, r.call)
  BY <1>1, <1>2 DEF Scripted, Plain
<1>5. r.pc # "idle"
  BY DEF Flying
<1>6. QED BY <1>3, <1>4, <1>5 DEF Scripted

(* No fiber moves.                                                         *)
LEMMA PlainStays ==
    ASSUME Scripted, UNCHANGED <<fiber, script>>,
           cell'.mode = cell.mode, cell'.history = cell.history,
           cell'.status = cell.status \/ cell.mode = "replay",
           run'.base = run.base, run'.pc = "program" => run.pc = "program"
    PROVE  Scripted'
  BY DEF Scripted

LEMMA MatchCalls ==
    ASSUME NEW calls \in Seq(Calls), NEW h \in Histories, Match(calls, h),
           NEW call \in Calls, Storable(call.request), NEW more, more = Append(calls, call)
    PROVE  Outstanding(more, h, call)
<1>1. /\ Len(calls) \in Nat /\ Len(more) = Len(calls) + 1 /\ more[Len(calls) + 1] = call
      /\ \A k \in 1..Len(calls) : more[k] = calls[k]
  BY LenProperties, AppendProperties
<1>2. QED BY <1>1 DEF Match, Outstanding, Says

LEMMA MatchAppends ==
    ASSUME NEW calls \in Seq(Calls), NEW h \in Histories, NEW call \in Calls, NEW outcome \in Outcomes,
           Outstanding(calls, h, call), NEW more, more = Append(h, Entry(call, outcome))
    PROVE  Match(calls, more)
<1>1. PICK e : e = Entry(call, outcome)
  OBVIOUS
<1>2. e \in Entries /\ e.call = call
  BY <1>1 DEF Entries, Entry
<1>3. h \in Seq(Entries) /\ Len(h) \in Nat
  BY LenProperties DEF Histories
<1>4. /\ Len(more) = Len(h) + 1 /\ more[Len(h) + 1] = e
      /\ \A k \in 1..Len(h) : more[k] = h[k]
  BY <1>1, <1>2, <1>3, AppendProperties
<1>5. Len(calls) = Len(h) + 1 /\ calls[Len(calls)] = call /\ Storable(call.request) /\ Says(h, calls)
  BY DEF Outstanding
<1>6. \A k \in 1..Len(more) : more[k].call = calls[k] /\ Storable(calls[k].request)
  <2> SUFFICES ASSUME NEW k \in 1..Len(more)
               PROVE  more[k].call = calls[k] /\ Storable(calls[k].request)
    OBVIOUS
  <2>1. CASE k \in 1..Len(h)
    BY <1>4, <1>5, <2>1 DEF Says
  <2>2. CASE k = Len(h) + 1
    BY <1>2, <1>4, <1>5, <2>2
  <2>3. QED BY <1>3, <1>4, <2>1, <2>2
<1>7. QED BY <1>4, <1>5, <1>6 DEF Match, Says

(* The fiber that calls, and how it comes out of the call.                 *)
LEMMA Shapes ==
    ASSUME SessionInv
    PROVE  /\ DOMAIN fiber = Fibers /\ Main \in Fibers /\ script \in Scripts
           /\ cell \in Cells /\ Sound(cell) /\ WellFormed(cell) /\ RunTyped(run)
           /\ cell.history \in Histories /\ script.calls \in Seq(Calls)
  BY Kinds, CellFields DEF SessionInv, Typed, Scripts, Sound, Histories

LEMMA CountedScript ==
    ASSUME SessionInv, NEW f \in Fibers, NEW call \in Calls, Counts(f, call)
    PROVE  /\ script'.plain = script.plain /\ script'.terminal = script.terminal
           /\ script'.calls = IF cell.mode = "record" /\ f = Main THEN Append(script.calls, call)
                              ELSE script.calls
<1>1. script \in Scripts
  BY Shapes
<1>2. \/ /\ cell.mode = "record" /\ f = Main
         /\ script' = [script EXCEPT !.calls = Append(script.calls, call)]
      \/ ~(cell.mode = "record" /\ f = Main) /\ script' = script
  BY DEF Counts
<1>3. QED BY <1>1, <1>2 DEF Scripts

LEMMA CallDies ==
    ASSUME SessionInv, Scripted, NEW f \in Fibers, NEW call \in Calls, MayCall(f, call), Counts(f, call),
           NEW why, Dies(f, why), cell'.mode = cell.mode, cell'.history = cell.history
    PROVE  Scripted'
<1>1. PICK r : FiberTyped(r) /\ r.pc = "dead" /\ fiber' = [fiber EXCEPT ![f] = r]
  BY Dying
<1>2. /\ SameStage /\ (f = Main => run.pc = "program") /\ fiber[f].pc = "idle"
      /\ run'.base = run.base /\ run'.pc = run.pc
  BY Counted DEF SessionInv, MayCall, SameStage, SameRun
<1>3. /\ script'.plain = script.plain /\ script'.terminal = script.terminal
      /\ script'.calls = script.calls \/ run.pc = "program"
  BY <1>2, CountedScript
<1>4. QED BY <1>1, <1>2, <1>3, PlainDies, Shapes DEF Flying

LEMMA ScriptedLive ==
    ASSUME SessionInv, Scripted, NEW f \in Fibers, NEW call \in Calls, InvokeLive(f, call)
    PROVE  Scripted'
<1>1. /\ cell.mode = "record" /\ Storable(call.request) /\ MayCall(f, call) /\ Counts(f, call)
  BY DEF InvokeLive
<1>2. PICK o : o = Reduce(cell, [tag |-> "Invoke", call |-> call])
  OBVIOUS
<1>3. /\ cell' = AppendDecisions(o, cell.root)
      /\ CASE o.result.tag = "Delegated" ->
                Sets(f, [fiber[f] EXCEPT !.pc = "live", !.call = call, !.n = Len(performed) + 1])
           [] o.result.tag = "Rejected" -> Dies(f, o.result)
           [] OTHER -> Dies(f, Defect)
  BY <1>2 DEF InvokeLive, Apply
<1>4. \/ /\ o.result.tag = "Absorbed" /\ AppendDecisions(o, cell.root) = cell
      \/ /\ cell.status = "active" /\ cell.pending = Nothing /\ o.result.tag = "Delegated"
         /\ AppendDecisions(o, cell.root) = DelegatedCell(cell, call)
      \/ /\ o.result.tag = "Rejected" /\ AppendDecisions(o, cell.root) = RejectedCell(cell)
  BY <1>1, <1>2, Delegation, Shapes
<1>5. CASE o.result.tag = "Absorbed" /\ AppendDecisions(o, cell.root) = cell
  <2>1. cell' = cell /\ Dies(f, Defect)
    BY <1>3, <1>5
  <2>2. QED BY <1>1, <2>1, CallDies
<1>6. CASE o.result.tag = "Rejected" /\ AppendDecisions(o, cell.root) = RejectedCell(cell)
  <2>1. cell' = RejectedCell(cell) /\ Dies(f, o.result)
    BY <1>3, <1>6
  <2>2. PICK n : n = RejectedCell(cell)
    OBVIOUS
  <2>3. n.mode = cell.mode /\ n.history = cell.history
    BY <2>2, RejectedKeeps, Shapes DEF RunTyped
  <2>4. QED BY <1>1, <2>1, <2>2, <2>3, CallDies
<1>7. CASE /\ cell.status = "active" /\ cell.pending = Nothing /\ o.result.tag = "Delegated"
           /\ AppendDecisions(o, cell.root) = DelegatedCell(cell, call)
  <2>1. PICK n : n = DelegatedCell(cell, call)
    OBVIOUS
  <2>2. n.mode = "record" /\ n.status = "active" /\ n.history = cell.history
    BY <1>1, <1>7, <2>1, DelegatedKeeps, Shapes DEF RunTyped
  <2>3. PICK r : r = Calling(fiber[f], call, Len(performed) + 1)
    OBVIOUS
  <2>4. r.pc = "live" /\ r.call = call
    <3>1. FiberTyped(fiber[f]) /\ performed \in Seq(Executed)
      BY DEF SessionInv, Typed
    <3>2. Len(performed) + 1 \in Nat
      BY <3>1, LenProperties
    <3>3. QED BY <2>3, <3>1, <3>2, CallsTyped
  <2>5. cell' = n /\ fiber' = [fiber EXCEPT ![f] = r]
    BY <1>3, <1>7, <2>1, <2>3 DEF Sets, Calling
  <2>6. SUFFICES ASSUME script'.plain PROVE Scripted'
    BY DEF Scripted
  <2>7. script'.plain = script.plain /\ script'.terminal = script.terminal
    BY <1>1, CountedScript
  <2>8. Plain /\ fiber[f].pc = "idle"
    BY <1>1, <2>6, <2>7 DEF Plain, MayCall
  <2>9. f = Main
    BY <2>8, OnlyMain
  <2>10. fiber'[Main] = r /\ \A g \in Others : fiber'[g] = fiber[g]
    BY <2>5, <2>9, Kinds, FiberSets, Shapes
  <2>11. run'.base = run.base /\ run'.pc = run.pc /\ run.pc = "program"
    BY <1>1, <2>9, Counted DEF SessionInv, SameStage, SameRun
  <2>12. /\ \A g \in Others : fiber[g].pc = "none"
         /\ script.terminal = Nothing
         /\ run.base = 0 => Match(script.calls, cell.history)
    BY <2>8, <2>9, <2>11 DEF Scripted, Plain
  <2>13. PICK more : more = Append(script.calls, call)
    OBVIOUS
  <2>14. run.base = 0 => Outstanding(more, cell.history, call)
    BY <1>1, <2>12, <2>13, MatchCalls, Shapes
  <2>15. script'.calls = more
    BY <1>1, <2>9, <2>13, CountedScript
  <2>16. QED BY <2>2, <2>4, <2>5, <2>7, <2>10, <2>11, <2>12, <2>14, <2>15 DEF Scripted
<1>8. QED BY <1>4, <1>5, <1>6, <1>7

(* A replay says nothing of the script it may follow.                      *)
LEMMA ReplayScripted ==
    ASSUME cell'.mode = "replay"
    PROVE  Scripted'
  BY DEF Scripted

LEMMA ScriptedRecorded ==
    ASSUME SessionInv, NEW f \in Fibers, NEW call \in Calls, InvokeRecorded(f, call)
    PROVE  cell'.mode = "replay" /\ cell'.history = cell.history
<1> DEFINE out == Reduce(cell, [tag |-> "Invoke", call |-> call])
           inadmissible == RejectStep(cell, "OutcomeInadmissible")
<1>1. cell.mode = "replay"
  BY DEF InvokeRecorded
<1>2. \/ cell' = AppendDecisions(out, cell.root) /\ out.result.tag \in {"Substituted", "Rejected"}
      \/ cell' = AppendDecisions(inadmissible, cell.root)
      \/ cell' = cell
  BY DEF InvokeRecorded, Apply
<1>3. PICK o : o = out
  OBVIOUS
<1>4. \/ o.result.tag = "Absorbed"
      \/ /\ cell.status = "active" /\ cell.cursor < Len(cell.history)
         /\ AppendDecisions(o, cell.root) = SubstitutedCell(cell)
      \/ AppendDecisions(o, cell.root) = RejectedCell(cell)
  BY <1>1, <1>3, Substitution, Shapes
<1>5. AppendDecisions(inadmissible, cell.root) = RejectedCell(cell)
  BY Rejects, Shapes
<1> HIDE DEF out, inadmissible
<1>6. \/ /\ cell.status = "active" /\ cell.cursor < Len(cell.history)
         /\ cell' = SubstitutedCell(cell)
      \/ cell' = RejectedCell(cell)
      \/ cell' = cell
  BY <1>2, <1>3, <1>4, <1>5
<1>7. PICK n : n = cell'
  OBVIOUS
<1>8. n.mode = "replay" /\ n.history = cell.history
  <2>1. CASE /\ cell.status = "active" /\ cell.cursor < Len(cell.history)
             /\ n = SubstitutedCell(cell)
    BY <1>1, <2>1, SubstitutedKeeps, Shapes DEF RunTyped
  <2>2. CASE n = RejectedCell(cell)
    BY <1>1, <2>2, RejectedKeeps, Shapes DEF RunTyped
  <2>3. CASE n = cell
    BY <1>1, <2>3
  <2>4. QED BY <1>6, <1>7, <2>1, <2>2, <2>3
<1>9. QED BY <1>7, <1>8

LEMMA ScriptedAppend ==
    ASSUME SessionInv, Scripted, NEW f \in Fibers, AppendRecordedOutcome(f)
    PROVE  Scripted'
<1>1. fiber[f].pc = "append" /\ UNCHANGED <<run, script>>
  BY DEF AppendRecordedOutcome
<1>2. /\ Flight(fiber[f], cell, performed, run.base) /\ fiber[f].pc \in Flying
      /\ fiber[f].pc # "none" /\ FiberTyped(fiber[f])
  BY <1>1 DEF SessionInv, Typed, Flies, Flying
<1>3. cell.mode = "record" /\ fiber[f].call \in Calls
  BY <1>2 DEF Flight
<1>4. \/ AppendFails(f)
      \/ Dies(f, Defect) /\ UNCHANGED cell
      \/ Sets(f, [fiber[f] EXCEPT !.pc = "putting"]) /\ UNCHANGED cell
      \/ Recorded(f).result.tag = "Absorbed" /\ Rests(f) /\ UNCHANGED cell
  BY DEF AppendRecordedOutcome
<1>5. CASE AppendFails(f)
  <2>1. PICK n \in Cells : cell' = n /\ n.mode = cell.mode /\ n.history = cell.history
    BY <1>5, FailsTo
  <2>2. PICK r : FiberTyped(r) /\ r.pc = "dead" /\ fiber' = [fiber EXCEPT ![f] = r]
    BY <1>5, Dying DEF AppendFails
  <2>3. QED BY <1>1, <1>2, <2>1, <2>2, PlainDies, Shapes DEF Flying
<1>6. CASE Dies(f, Defect) /\ UNCHANGED cell
  <2>1. PICK r : FiberTyped(r) /\ r.pc = "dead" /\ fiber' = [fiber EXCEPT ![f] = r]
    BY <1>6, Dying
  <2>2. QED BY <1>1, <1>2, <1>6, <2>1, PlainDies, Shapes DEF Flying
<1>7. CASE Sets(f, [fiber[f] EXCEPT !.pc = "putting"]) /\ UNCHANGED cell
  <2>1. PICK r : r = [fiber[f] EXCEPT !.pc = "putting"]
    OBVIOUS
  <2>2. r.pc = "putting" /\ r.call = fiber[f].call
    BY <1>2, <2>1, MovesTyped DEF FiberPcs
  <2>3. fiber' = [fiber EXCEPT ![f] = r]
    BY <1>7, <2>1 DEF Sets
  <2>4. r.pc \in Flying
    BY <2>2 DEF Flying
  <2>5. UNCHANGED <<cell, run, script>> /\ DOMAIN fiber = Fibers
    BY <1>1, <1>7, Shapes
  <2>6. QED BY <1>2, <2>2, <2>3, <2>4, <2>5, PlainFlies
<1>8. CASE Recorded(f).result.tag = "Absorbed" /\ Rests(f) /\ UNCHANGED cell
  <2> SUFFICES ASSUME Plain PROVE FALSE
    BY <1>1, <1>8 DEF Scripted, Plain
  <2>1. f = Main
    BY <1>2, OnlyMain
  <2>2. cell.status = "active"
    BY <1>2, <2>1 DEF Scripted, Plain
  <2>3. cell.pending = fiber[f].call
    BY <1>2, <2>2 DEF Flight
  <2>4. PICK call, outcome : call = fiber[f].call /\ outcome = fiber[f].outcome
    OBVIOUS
  <2>5. PICK o : o = Reduce(cell, [tag |-> "Recorded", call |-> call, outcome |-> outcome])
    OBVIOUS
  <2>6. o.result.tag = "Appended"
    BY <1>3, <2>2, <2>3, <2>4, <2>5, Appending, Shapes
  <2>7. QED BY <1>8, <2>4, <2>5, <2>6 DEF Recorded
<1>9. QED BY <1>4, <1>5, <1>6, <1>7, <1>8

LEMMA ScriptedPut ==
    ASSUME SessionInv, Scripted, NEW f \in Fibers, PutHistory(f)
    PROVE  Scripted'
<1>1. fiber[f].pc = "putting" /\ UNCHANGED <<run, script>>
  BY DEF PutHistory
<1>2. /\ cell.mode = "record" /\ cell.status = "active" /\ cell.pending = fiber[f].call
      /\ fiber[f].call \in Calls /\ fiber[f].outcome \in Outcomes
  BY <1>1, Putting
<1>3. PICK call, outcome : call = fiber[f].call /\ outcome = fiber[f].outcome
  OBVIOUS
<1>4. PICK root : root = Append(cell.root, Entry(call, outcome))
  OBVIOUS
<1>5. \/ AppendFails(f)
      \/ cell' = AppendDecisions(Recorded(f), root) /\ Rests(f)
  BY <1>3, <1>4 DEF PutHistory
<1>6. CASE AppendFails(f)
  <2>1. PICK n \in Cells : cell' = n /\ n.mode = cell.mode /\ n.history = cell.history
    BY <1>6, FailsTo
  <2>2. PICK r : FiberTyped(r) /\ r.pc = "dead" /\ fiber' = [fiber EXCEPT ![f] = r]
    BY <1>6, Dying DEF AppendFails
  <2>3. QED BY <1>1, <2>1, <2>2, PlainDies, Shapes DEF Flying
<1>7. CASE cell' = AppendDecisions(Recorded(f), root) /\ Rests(f)
  <2>1. PICK o : o = Reduce(cell, [tag |-> "Recorded", call |-> call, outcome |-> outcome])
    OBVIOUS
  <2>2. PICK n : n = AppendedCell(cell, call, outcome, root)
    OBVIOUS
  <2>3. cell' = n
    <3>1. AppendDecisions(o, root) = AppendedCell(cell, call, outcome, root)
      BY <1>2, <1>3, <2>1, Appending, Shapes
    <3>2. QED BY <1>3, <1>7, <2>1, <2>2, <3>1 DEF Recorded
  <2>4. n.mode = "record" /\ n.status = "active" /\ n.history = Append(cell.history, Entry(call, outcome))
    BY <1>2, <1>3, <1>4, <2>2, AppendedKeeps, Shapes DEF RunTyped
  <2>5. PICK r : FiberTyped(r) /\ r.pc = "idle" /\ fiber' = [fiber EXCEPT ![f] = r]
    BY <1>7, Resting
  <2>6. SUFFICES ASSUME script'.plain PROVE Scripted'
    BY DEF Scripted
  <2>7. Plain
    BY <1>1, <1>2, <2>6 DEF Plain
  <2>8. f = Main
    BY <1>1, <2>7, OnlyMain
  <2>9. fiber'[Main] = r /\ \A g \in Others : fiber'[g] = fiber[g]
    BY <2>5, <2>8, Kinds, FiberSets, Shapes
  <2>10. /\ \A g \in Others : fiber[g].pc = "none"
         /\ run.pc = "program" => script.terminal = Nothing
         /\ run.base = 0 => Outstanding(script.calls, cell.history, call)
    BY <1>1, <1>3, <2>7, <2>8 DEF Scripted, Plain, Flying
  <2>11. PICK more : more = Append(cell.history, Entry(call, outcome))
    OBVIOUS
  <2>12. run.base = 0 => Match(script.calls, more)
    BY <1>2, <1>3, <2>10, <2>11, MatchAppends, Shapes
  <2>13. QED BY <1>1, <2>3, <2>4, <2>5, <2>9, <2>10, <2>11, <2>12 DEF Scripted, Flying
<1>8. QED BY <1>5, <1>6, <1>7

LEMMA ScriptedBegin ==
    ASSUME SessionInv, NEW mode \in {"record", "replay"}, NEW root \in nodes \cup {<<>>},
           NEW follow \in BOOLEAN, Begin(mode, root, follow)
    PROVE  Scripted'
<1> SUFFICES ASSUME cell'.mode = "record", script'.plain PROVE Scripted'
  BY DEF Scripted
<1>1. /\ cell'.mode = mode /\ cell'.history = root /\ run'.base = Len(root)
      /\ script' = IF mode = "record" THEN [NoScript EXCEPT !.plain = TRUE] ELSE script
      /\ fiber' = [f \in Fibers |-> IF f = Main THEN [NoFiber EXCEPT !.pc = "idle"] ELSE NoFiber]
  BY DEF Begin
<1>2. script'.calls = <<>>
  BY <1>1 DEF NoScript
<1>3. fiber'[Main].pc = "idle" /\ \A g \in Others : fiber'[g].pc = "none"
  BY <1>1, Kinds DEF NoFiber
<1>4. Len(script'.calls) = 0
  BY <1>2
<1>5. run'.base = 0 => Match(script'.calls, cell'.history)
  BY <1>1, <1>4 DEF Match, Says
<1>6. script'.terminal = Nothing
  BY <1>1 DEF NoScript
<1>7. QED BY <1>3, <1>5, <1>6 DEF Scripted, Flying

LEMMA ScriptedHandlers ==
    ASSUME SessionInv, Scripted, NEW f \in Fibers,
           HandlerDies(f) \/ CallInterrupted(f) \/ Ambient(f) \/ Mask(f)
    PROVE  Scripted'
<1>1. CASE HandlerDies(f)
  <2>1. PICK r : FiberTyped(r) /\ r.pc = "dead" /\ fiber' = [fiber EXCEPT ![f] = r]
    BY <1>1, Dying DEF HandlerDies
  <2>2. fiber[f].pc # "none" /\ UNCHANGED <<cell, run, script>>
    BY <1>1 DEF HandlerDies
  <2>3. QED BY <2>1, <2>2, PlainDies, Shapes DEF Flying
<1>2. CASE CallInterrupted(f)
  <2>1. script'.plain = FALSE
    BY <1>2, Shapes DEF CallInterrupted, Scripts
  <2>2. QED BY <2>1 DEF Scripted
<1>3. CASE Ambient(f)
  BY <1>3, ReplayScripted DEF Ambient
<1>4. CASE Mask(f)
  <2>1. PICK r : r = [fiber[f] EXCEPT !.pc = "append"]
    OBVIOUS
  <2>2. FiberTyped(fiber[f])
    BY DEF SessionInv, Typed
  <2>3. r.pc = "append" /\ r.call = fiber[f].call
    BY <2>1, <2>2, MovesTyped DEF FiberPcs
  <2>4. r.pc \in Flying
    BY <2>3 DEF Flying
  <2>5. fiber[f].pc \in Flying /\ fiber' = [fiber EXCEPT ![f] = r] /\ UNCHANGED <<cell, run, script>>
    BY <1>4, <2>1 DEF Mask, Sets, Flying
  <2>6. QED BY <2>3, <2>4, <2>5, PlainFlies, Shapes
<1>5. QED BY <1>1, <1>2, <1>3, <1>4

LEMMA ScriptedReturns ==
    ASSUME SessionInv, Scripted, NEW f \in Fibers, NEW outcome \in Outcomes, HandlerReturns(f, outcome)
    PROVE  Scripted'
<1>1. PICK r : r = Returned(fiber[f], outcome)
  OBVIOUS
<1>2. FiberTyped(fiber[f])
  BY DEF SessionInv, Typed
<1>3. r.pc = "returned" /\ r.call = fiber[f].call
  BY <1>1, <1>2, ReturnsTyped
<1>4. r.pc \in Flying
  BY <1>3 DEF Flying
<1>5. /\ fiber[f].pc \in Flying /\ fiber' = [fiber EXCEPT ![f] = r]
      /\ UNCHANGED <<cell, run, script>>
  BY <1>1 DEF HandlerReturns, Returned, Sets, Flying
<1>6. QED BY <1>3, <1>4, <1>5, PlainFlies, Shapes

LEMMA ScriptedFork ==
    ASSUME SessionInv, Scripted, NEW f \in Others, Fork(f) \/ Join(f)
    PROVE  Scripted'
<1>1. CASE Fork(f)
  <2> SUFFICES ASSUME cell'.mode = "record", script'.plain PROVE FALSE
    BY DEF Scripted
  <2>1. script'.plain = (script.plain /\ cell.mode = "replay")
    BY <1>1, Shapes DEF Fork, Scripts
  <2>2. cell.mode = "record"
    BY <1>1 DEF Fork
  <2>3. QED BY <2>1, <2>2
<1>2. CASE Join(f)
  <2>1. PICK r : FiberTyped(r) /\ r.pc = "dead" /\ fiber' = [fiber EXCEPT ![Main] = r]
    BY <1>2, Kinds, Dying DEF Join
  <2>2. fiber[Main].pc # "none" /\ UNCHANGED <<cell, run, script>>
    BY <1>2 DEF Join, Running
  <2>3. QED BY <2>1, <2>2, PlainDies, Shapes DEF Flying
<1>3. QED BY <1>1, <1>2

LEMMA ScriptedTerminates ==
    ASSUME SessionInv, Scripted, NEW terminal \in Terminals, Terminates(terminal)
    PROVE  Scripted'
<1>1. /\ run.pc = "program" /\ fiber[Main].pc = "idle" /\ UNCHANGED <<cell, fiber>>
      /\ run' = ComesTo(run, "finish", terminal)
  BY DEF Terminates, Running, ComesTo
<1>2. run'.pc = "finish" /\ run'.base = run.base
  BY <1>1, RunPcOutcome, Shapes DEF RunPcs, SameRun
<1>3. script'.plain = script.plain /\ script'.calls = script.calls
  BY Shapes DEF Terminates, Scripts
<1>4. QED BY <1>1, <1>2, <1>3 DEF Scripted, Flying

(* The steps to the end of the session, and what they leave.               *)
LEMMA EndingLeaves ==
    ASSUME SessionInv,
           FinishSession \/ CatchDefect \/ PersistWitness \/ PersistAborted \/ RequestInterrupt
    PROVE  /\ UNCHANGED <<fiber, script>> /\ SameRun(run', run)
           /\ run'.pc = "program" => run.pc = "program"
           /\ cell'.mode = cell.mode /\ cell'.history = cell.history
           /\ cell'.status = cell.status \/ cell.mode = "replay"
<1>1. RunTyped(run) /\ run.exit \in Exitings
  BY Shapes DEF RunTyped
<1>2. CASE FinishSession
  <2>1. /\ UNCHANGED <<fiber, script, cell>> /\ run.pc = "finish"
        /\ \/ run' = Leaves(run, "abort", "Defect", Nothing)
           \/ \E end : run' = ComesTo(run, "persist", end)
    BY <1>2 DEF FinishSession, Persist, Leaves, ComesTo
  <2>2. SameRun(run', run) /\ run'.pc # "program"
    <3>1. CASE run' = Leaves(run, "abort", "Defect", Nothing)
      BY <1>1, <3>1, RunEnds DEF RunPcs, Exitings
    <3>2. ASSUME NEW end, run' = ComesTo(run, "persist", end) PROVE SameRun(run', run) /\ run'.pc # "program"
      BY <1>1, <3>2, RunPcOutcome DEF RunPcs
    <3>3. QED BY <2>1, <3>1, <3>2
  <2>3. QED BY <2>1, <2>2
<1>3. CASE CatchDefect
  <2>1. /\ UNCHANGED <<fiber, script, cell>> /\ run.pc = "program"
        /\ \/ run' = Leaves(run, "ended", "CasError", Nothing)
           \/ \E end : run' = ComesTo(run, "persist", end)
           \/ run' = Fails(run, "abort", "Defect")
    BY <1>3 DEF CatchDefect, Persist, Ended, Leaves, ComesTo, Fails
  <2>2. SameRun(run', run)
    <3>1. CASE run' = Leaves(run, "ended", "CasError", Nothing)
      BY <1>1, <3>1, RunEnds DEF RunPcs, Exitings
    <3>2. ASSUME NEW end, run' = ComesTo(run, "persist", end) PROVE SameRun(run', run)
      BY <1>1, <3>2, RunPcOutcome DEF RunPcs
    <3>3. CASE run' = Fails(run, "abort", "Defect")
      BY <1>1, <3>3, RunPcExit DEF RunPcs, Exitings
    <3>4. QED BY <2>1, <3>1, <3>2, <3>3
  <2>3. QED BY <2>1, <2>2
<1>4. CASE PersistWitness
  <2>1. PICK end : end = run.outcome
    OBVIOUS
  <2>2. PICK w : w = WitnessOf(end.next, end.outcome)
    OBVIOUS
  <2>3. /\ UNCHANGED <<fiber, script>> /\ run.pc = "persist"
        /\ \/ cell' = end.next /\ run' = [Ended("Result") EXCEPT !.outcome = w]
           \/ run' = Leaves(run, "ended", "CasError", Nothing) /\ UNCHANGED cell
    BY <1>4, <2>1, <2>2 DEF PersistWitness, Ended, Leaves
  <2>4. Concludes(end, cell, run.base)
    BY <2>1, <2>3, WhilePersisting
  <2>5. SameRun(run', run) /\ run'.pc = "ended"
    <3>1. CASE run' = Leaves(run, "ended", "CasError", Nothing)
      BY <1>1, <3>1, RunEnds DEF RunPcs, Exitings
    <3>2. CASE run' = [Ended("Result") EXCEPT !.outcome = w]
      BY <1>1, <3>2, ResultEnds
    <3>3. QED BY <2>3, <3>1, <3>2
  <2>6. QED BY <2>3, <2>4, <2>5 DEF Concludes
<1>5. CASE PersistAborted
  <2>1. UNCHANGED <<fiber, script, cell>>
    BY <1>5 DEF PersistAborted
  <2>2. PICK m : m = Leaves(run, "ended", run.exit, Nothing)
    OBVIOUS
  <2>3. RunTyped(m) /\ SameRun(m, run) /\ m.pc = "ended" /\ m.receipts \in Nat
    BY <1>1, <2>2, RunEnds DEF RunPcs, RunTyped
  <2>4. run' = [m EXCEPT !.receipts = m.receipts + 1]
    BY <1>5, <2>2 DEF PersistAborted, Ended, Leaves
  <2>5. SameRun(run', m) /\ run'.pc = m.pc
    <3>1. PICK v \in Nat : v = m.receipts + 1
      BY <2>3
    <3>2. PICK n : n = [m EXCEPT !.receipts = v]
      OBVIOUS
    <3>3. SameRun(n, m) /\ n.pc = m.pc
      BY <2>3, <3>2, RunReceipts
    <3>4. QED BY <2>4, <3>1, <3>2, <3>3
  <2>6. QED BY <2>1, <2>3, <2>5 DEF SameRun
<1>6. CASE RequestInterrupt
  <2>1. UNCHANGED <<fiber, script, cell>> /\ run' = [run EXCEPT !.interrupted = TRUE]
    BY <1>6 DEF RequestInterrupt
  <2>2. SameRun(run', run) /\ run'.pc = run.pc
    BY <1>1, <2>1, RunInterrupted
  <2>3. QED BY <2>1, <2>2
<1>7. QED BY <1>2, <1>3, <1>4, <1>5, <1>6

LEMMA ScriptedUnwind ==
    ASSUME SessionInv, Scripted, Unwind
    PROVE  Scripted'
<1>1. PICK r : r = [NoFiber EXCEPT !.pc = "done"]
  OBVIOUS
<1>2. r.pc = "done" /\ fiber' = [fiber EXCEPT ![Main] = r]
  BY <1>1, DoneTyped DEF Unwind, Sets
<1>3. /\ run.pc \in {"program", "finish", "persist"} /\ UNCHANGED <<cell, script>>
      /\ run' = Leaves(run, "abort", "Interrupted", Nothing)
  BY DEF Unwind, Leaves
<1>4. run'.pc = "abort" /\ run'.base = run.base
  BY <1>3, RunEnds, Shapes DEF RunPcs, Exitings, SameRun
<1>5. \A g \in Others : fiber'[g] = fiber[g]
  BY <1>2, Kinds, FiberSets, Shapes
<1>6. fiber'[Main] = r
  BY <1>2, FiberSets, Shapes
<1>7. QED BY <1>2, <1>3, <1>4, <1>5, <1>6 DEF Scripted, Flying

LEMMA ScriptedStep == SessionInv /\ Scripted /\ [Next]_vars => Scripted'
<1> SUFFICES ASSUME SessionInv, Scripted, [Next]_vars PROVE Scripted'
  OBVIOUS
<1>1. ASSUME NEW mode \in {"record", "replay"}, NEW root \in nodes \cup {<<>>},
             NEW follow \in BOOLEAN, Begin(mode, root, follow)
      PROVE  Scripted'
  BY <1>1, ScriptedBegin
<1>2. ASSUME NEW f \in Others, Fork(f) \/ Join(f) PROVE Scripted'
  BY <1>2, ScriptedFork
<1>3. ASSUME NEW f \in Fibers, NEW call \in Calls, InvokeLive(f, call) PROVE Scripted'
  BY <1>3, ScriptedLive
<1>4. ASSUME NEW f \in Fibers, NEW call \in Calls, InvokeUnstorable(f, call) PROVE Scripted'
  BY <1>4, CallDies DEF InvokeUnstorable
<1>5. ASSUME NEW f \in Fibers, NEW call \in Calls, InvokeRecorded(f, call) PROVE Scripted'
  BY <1>5, ScriptedRecorded, ReplayScripted
<1>6. ASSUME NEW f \in Fibers, NEW outcome \in Outcomes, HandlerReturns(f, outcome) PROVE Scripted'
  BY <1>6, ScriptedReturns
<1>7. ASSUME NEW f \in Fibers, HandlerDies(f) \/ CallInterrupted(f) \/ Ambient(f) \/ Mask(f) PROVE Scripted'
  BY <1>7, ScriptedHandlers
<1>8. ASSUME NEW f \in Fibers, AppendRecordedOutcome(f) \/ PutHistory(f) PROVE Scripted'
  BY <1>8, ScriptedAppend, ScriptedPut
<1>9. ASSUME NEW terminal \in Terminals, Terminates(terminal) PROVE Scripted'
  BY <1>9, ScriptedTerminates
<1>10. CASE FinishSession \/ CatchDefect \/ PersistWitness \/ PersistAborted \/ RequestInterrupt
  BY <1>10, EndingLeaves, PlainStays DEF SameRun
<1>11. CASE Unwind
  BY <1>11, ScriptedUnwind
<1>12. CASE UNCHANGED vars
  BY <1>12, PlainStays DEF vars
<1>13. QED BY <1>1, <1>2, <1>3, <1>4, <1>5, <1>6, <1>7, <1>8, <1>9, <1>10, <1>11, <1>12, Steps

-----------------------------------------------------------------------------
(* A replay that follows the script of its recording.                      *)

(* A step goes on with the session, or begins the next.                    *)
GoesOn ==
    /\ SameRun(run', run) /\ cell'.mode = cell.mode
    /\ cell.mode = "replay" => cell'.history = cell.history

Begins ==
    \E mode \in {"record", "replay"}, root \in nodes \cup {<<>>}, follow \in BOOLEAN :
        Begin(mode, root, follow)

LEMMA Continues ==
    ASSUME SessionInv, [Next]_vars, ~Begins
    PROVE  GoesOn
<1>1. SameRun(run, run)
  BY DEF SameRun
<1>2. ASSUME NEW f \in Fibers, NEW call \in Calls, InvokeLive(f, call) PROVE GoesOn
  <2>1. PICK o : o = Reduce(cell, [tag |-> "Invoke", call |-> call])
    OBVIOUS
  <2>2. /\ cell' = AppendDecisions(o, cell.root) /\ cell.mode = "record"
        /\ MayCall(f, call) /\ Counts(f, call)
    BY <1>2, <2>1 DEF InvokeLive, Apply
  <2>3. SameRun(run', run)
    BY <2>2, Counted DEF SessionInv, SameStage
  <2>4. PICK n : n = cell'
    OBVIOUS
  <2>5. \/ n = cell
        \/ cell.status = "active" /\ cell.pending = Nothing /\ n = DelegatedCell(cell, call)
        \/ n = RejectedCell(cell)
    BY <2>1, <2>2, <2>4, Delegation, Shapes
  <2>6. n.mode = "record"
    BY <2>2, <2>5, DelegatedKeeps, RejectedKeeps, Shapes DEF RunTyped
  <2>7. QED BY <2>2, <2>3, <2>4, <2>6 DEF GoesOn
<1>3. ASSUME NEW f \in Fibers, NEW call \in Calls, InvokeUnstorable(f, call) PROVE GoesOn
  <2>1. cell' = cell /\ SameRun(run', run)
    BY <1>3, Counted DEF InvokeUnstorable, SessionInv, SameStage
  <2>2. QED BY <2>1 DEF GoesOn
<1>4. ASSUME NEW f \in Fibers, NEW call \in Calls, InvokeRecorded(f, call) PROVE GoesOn
  <2>1. SameRun(run', run) /\ cell.mode = "replay"
    BY <1>4, Counted DEF InvokeRecorded, SessionInv, SameStage
  <2>2. cell'.mode = "replay" /\ cell'.history = cell.history
    BY <1>4, ScriptedRecorded
  <2>3. QED BY <2>1, <2>2 DEF GoesOn
<1>5. ASSUME NEW f \in Fibers, AppendRecordedOutcome(f) PROVE GoesOn
  <2>1. run' = run /\ (AppendFails(f) \/ cell' = cell)
    BY <1>5 DEF AppendRecordedOutcome
  <2>2. CASE AppendFails(f)
    <3>1. PICK n \in Cells : cell' = n /\ n.mode = cell.mode /\ n.history = cell.history
      BY <2>2, FailsTo
    <3>2. QED BY <1>1, <2>1, <3>1 DEF GoesOn
  <2>3. QED BY <1>1, <2>1, <2>2 DEF GoesOn
<1>6. ASSUME NEW f \in Fibers, PutHistory(f) PROVE GoesOn
  <2>1. run' = run /\ fiber[f].pc = "putting"
    BY <1>6 DEF PutHistory
  <2>2. /\ cell.mode = "record" /\ cell.status = "active" /\ cell.pending = fiber[f].call
        /\ fiber[f].call \in Calls /\ fiber[f].outcome \in Outcomes
    BY <2>1, Putting
  <2>3. PICK call, outcome : call = fiber[f].call /\ outcome = fiber[f].outcome
    OBVIOUS
  <2>4. PICK root : root = Append(cell.root, Entry(call, outcome))
    OBVIOUS
  <2>5. CASE AppendFails(f)
    <3>1. PICK n \in Cells : cell' = n /\ n.mode = cell.mode
      BY <2>5, FailsTo
    <3>2. QED BY <1>1, <2>1, <2>2, <3>1 DEF GoesOn
  <2>6. CASE cell' = AppendDecisions(Recorded(f), root)
    <3>1. PICK o : o = Reduce(cell, [tag |-> "Recorded", call |-> call, outcome |-> outcome])
      OBVIOUS
    <3>2. PICK n : n = AppendedCell(cell, call, outcome, root)
      OBVIOUS
    <3>3. AppendDecisions(o, root) = n
      BY <2>2, <2>3, <3>1, <3>2, Appending, Shapes
    <3>4. cell' = n
      BY <2>3, <2>6, <3>1, <3>3 DEF Recorded
    <3>5. n.mode = "record"
      BY <2>2, <2>3, <2>4, <3>2, AppendedKeeps, Shapes DEF RunTyped
    <3>6. QED BY <1>1, <2>1, <2>2, <3>4, <3>5 DEF GoesOn
  <2>7. QED BY <1>6, <2>3, <2>4, <2>5, <2>6 DEF PutHistory
<1>7. ASSUME NEW f \in Others, Fork(f) \/ Join(f) PROVE GoesOn
  BY <1>1, <1>7 DEF Fork, Join, GoesOn
<1>8. ASSUME NEW f \in Fibers, NEW outcome \in Outcomes, HandlerReturns(f, outcome) PROVE GoesOn
  BY <1>1, <1>8 DEF HandlerReturns, GoesOn
<1>9. ASSUME NEW f \in Fibers, HandlerDies(f) \/ CallInterrupted(f) \/ Ambient(f) \/ Mask(f)
      PROVE  GoesOn
  BY <1>1, <1>9 DEF HandlerDies, CallInterrupted, Ambient, Mask, GoesOn
<1>10. ASSUME NEW terminal \in Terminals, Terminates(terminal) PROVE GoesOn
  <2>1. cell' = cell /\ run' = ComesTo(run, "finish", terminal)
    BY <1>10 DEF Terminates, ComesTo
  <2>2. SameRun(run', run)
    BY <2>1, RunPcOutcome, Shapes DEF RunPcs
  <2>3. QED BY <2>1, <2>2 DEF GoesOn
<1>11. CASE FinishSession \/ CatchDefect \/ PersistWitness \/ PersistAborted \/ RequestInterrupt
  BY <1>11, EndingLeaves DEF GoesOn
<1>12. CASE Unwind
  <2>1. cell' = cell /\ run' = Leaves(run, "abort", "Interrupted", Nothing)
    BY <1>12 DEF Unwind, Leaves
  <2>2. SameRun(run', run)
    BY <2>1, RunEnds, Shapes DEF RunPcs, Exitings
  <2>3. QED BY <2>1, <2>2 DEF GoesOn
<1>13. CASE UNCHANGED vars
  BY <1>1, <1>13 DEF vars, GoesOn
<1>14. QED BY <1>2, <1>3, <1>4, <1>5, <1>6, <1>7, <1>8, <1>9, <1>10, <1>11, <1>12, <1>13, Steps DEF Begins

(* Nobody but the program is there, and what it calls next is recorded.    *)
LEMMA OnlyFollower ==
    ASSUME Followed, NEW f \in Fibers, fiber[f].pc # "none"
    PROVE  f = Main /\ fiber[f].pc \in {"idle", "done"}
  BY DEF Followed, Fibers

LEMMA NobodyFlies ==
    ASSUME Followed, NEW f \in Fibers
    PROVE  fiber[f].pc \notin Flying \cup {"dead"}
<1>1. CASE fiber[f].pc = "none"
  BY <1>1 DEF Flying
<1>2. CASE fiber[f].pc # "none"
  BY <1>2, OnlyFollower DEF Flying
<1>3. QED BY <1>1, <1>2

LEMMA Repeats ==
    ASSUME SessionInv, Followed, run.follow, NEW f \in Fibers, NEW call \in Calls, MayCall(f, call)
    PROVE  /\ f = Main /\ run.pc = "program" /\ cell.status = "active" /\ cell.mode = "replay"
           /\ cell.cursor = MaxCalls - run.left /\ cell.cursor \in Nat /\ run.left \in 1..MaxCalls
           /\ NextCall(cell, call) /\ Storable(call.request)
<1>1. /\ fiber[f].pc = "idle" /\ run.left > 0 /\ (f = Main => run.pc = "program")
      /\ Len(script.calls) > MaxCalls - run.left
      /\ call = script.calls[MaxCalls - run.left + 1]
  BY DEF MayCall
<1>2. f = Main
  BY <1>1, OnlyFollower
<1>3. /\ cell.status = "active" /\ cell.cursor = MaxCalls - run.left /\ cell.mode = "replay"
      /\ Len(script.calls) = Len(cell.history) /\ Says(cell.history, script.calls)
  BY <1>1, <1>2 DEF Followed, Match
<1>4. cell.cursor \in Nat /\ Len(cell.history) \in Nat /\ run.left \in 1..MaxCalls
  <2>1. run.left \in 0..MaxCalls
    BY Shapes DEF RunTyped
  <2>2. cell.cursor \in Nat /\ Len(cell.history) \in Nat
    BY Shapes, CellFields
  <2>3. QED BY <1>1, <2>1, <2>2, SessionAssumption
<1>5. cell.cursor + 1 \in 1..Len(cell.history) /\ call = script.calls[cell.cursor + 1]
  BY <1>1, <1>3, <1>4
<1>6. cell.history[cell.cursor + 1].call = call /\ Storable(call.request)
  BY <1>3, <1>5 DEF Says
<1>7. QED BY <1>1, <1>2, <1>3, <1>4, <1>5, <1>6 DEF NextCall

LEMMA FollowedCall ==
    ASSUME SessionInv, Followed, run.follow, NEW f \in Fibers, NEW call \in Calls, InvokeRecorded(f, call)
    PROVE  Followed'
<1>1. MayCall(f, call) /\ Counts(f, call)
  BY DEF InvokeRecorded
<1>2. /\ f = Main /\ run.pc = "program" /\ cell.status = "active" /\ cell.mode = "replay"
      /\ cell.cursor = MaxCalls - run.left /\ cell.cursor \in Nat /\ run.left \in 1..MaxCalls
      /\ NextCall(cell, call)
  BY <1>1, Repeats
<1>3. PICK o : o = Reduce(cell, [tag |-> "Invoke", call |-> call])
  OBVIOUS
<1>4. o.result.tag = "Substituted" /\ AppendDecisions(o, cell.root) = SubstitutedCell(cell)
  BY <1>2, <1>3, Substitution, Shapes
<1>5. cell' = AppendDecisions(o, cell.root) /\ Rests(f)
  BY <1>3, <1>4 DEF InvokeRecorded, Apply
<1>6. PICK n : n = SubstitutedCell(cell)
  OBVIOUS
<1>7. /\ n.mode = "replay" /\ n.status = "active" /\ n.history = cell.history
      /\ n.cursor = cell.cursor + 1
  BY <1>2, <1>6, SubstitutedKeeps, Shapes DEF NextCall, RunTyped
<1>8. PICK r : FiberTyped(r) /\ r.pc = "idle" /\ fiber' = [fiber EXCEPT ![Main] = r]
  BY <1>2, <1>5, Resting
<1>9. fiber'[Main] = r /\ \A g \in Others : fiber'[g] = fiber[g]
  BY <1>8, Kinds, FiberSets, Shapes
<1>10. /\ run'.pc = "program" /\ run'.exit = run.exit /\ run'.outcome = run.outcome
       /\ run'.left = run.left - 1
  BY <1>1, <1>2, Counted DEF SessionInv, SameStage
<1>11. script' = script
  BY <1>1, <1>2 DEF Counts
<1>12. cell'.cursor = MaxCalls - run'.left
  BY <1>2, <1>4, <1>5, <1>6, <1>7, <1>10, SessionAssumption
<1>13. cell' = n
  BY <1>4, <1>5, <1>6
<1>14. run.exit = Nothing
  BY <1>2 DEF SessionInv, Exits
<1>15. QED BY <1>7, <1>8, <1>9, <1>10, <1>11, <1>12, <1>13, <1>14 DEF Followed, Repeated

LEMMA FollowedTerminates ==
    ASSUME SessionInv, Followed, run.follow, NEW terminal \in Terminals, Terminates(terminal)
    PROVE  Followed'
<1>1. /\ run.pc = "program" /\ UNCHANGED <<cell, fiber>>
      /\ terminal = script.terminal /\ MaxCalls - run.left = Len(script.calls)
      /\ run' = ComesTo(run, "finish", terminal)
  BY DEF Terminates, Running, ComesTo
<1>2. script' = script
  BY DEF Terminates, Followed
<1>3. run'.pc = "finish" /\ run'.outcome = terminal /\ run'.left = run.left /\ run'.exit = run.exit
  BY <1>1, RunPcOutcome, Shapes DEF RunPcs
<1>4. run.exit = Nothing
  BY <1>1 DEF SessionInv, Exits
<1>5. QED BY <1>1, <1>2, <1>3, <1>4 DEF Followed

LEMMA FollowedFinish ==
    ASSUME SessionInv, Followed, FinishSession
    PROVE  Followed'
<1>1. run.pc = "finish" /\ UNCHANGED <<cell, fiber, script>> /\ run.exit = Nothing
  BY DEF FinishSession, SessionInv, Exits
<1>2. /\ cell.status = "active" /\ cell.cursor = Len(cell.history)
      /\ cell.cursor = Len(script.calls) /\ run.outcome = script.terminal
  BY <1>1 DEF Followed, Match
<1>3. PICK o : o = Reduce(cell, [tag |-> "Complete"])
  OBVIOUS
<1>4. PICK n : n = AppendDecisions(o, cell.root)
  OBVIOUS
<1>5. o.result.tag = "Completed" /\ n = CompletedCell(cell)
  BY <1>2, <1>3, <1>4, Completion, Shapes
<1>6. n.cursor = cell.cursor
  BY <1>2, <1>5, CompletedKeeps, Shapes DEF RunTyped
<1>7. PICK end : end = [outcome |-> [tag |-> o.result.tag, terminal |-> run.outcome], next |-> n]
  OBVIOUS
<1>8. end.next = n /\ end.outcome = Repeated
  BY <1>2, <1>5, <1>7 DEF Repeated
<1>9. run' = ComesTo(run, "persist", end)
  BY <1>3, <1>4, <1>5, <1>7 DEF FinishSession, Persist, ComesTo
<1>10. run'.pc = "persist" /\ run'.outcome = end /\ run'.exit = run.exit
  BY <1>9, RunPcOutcome, Shapes DEF RunPcs
<1>11. Repeated' = Repeated
  BY <1>1 DEF Repeated
<1>12. run'.outcome.outcome = Repeated' /\ run'.outcome.next.cursor = Len(script'.calls)
  BY <1>1, <1>2, <1>6, <1>8, <1>10, <1>11
<1>13. QED BY <1>1, <1>10, <1>12 DEF Followed

LEMMA FollowedPersist ==
    ASSUME SessionInv, Followed, PersistWitness
    PROVE  Followed'
<1>1. PICK end : end = run.outcome
  OBVIOUS
<1>2. PICK w : w = WitnessOf(end.next, end.outcome)
  OBVIOUS
<1>3. /\ run.pc = "persist" /\ UNCHANGED <<fiber, script>>
      /\ \/ cell' = end.next /\ run' = [Ended("Result") EXCEPT !.outcome = w]
         \/ run' = Leaves(run, "ended", "CasError", Nothing) /\ UNCHANGED cell
  BY <1>1, <1>2 DEF PersistWitness, Ended, Leaves
<1>4. end.outcome = Repeated /\ end.next.cursor = Len(script.calls)
  BY <1>1, <1>3 DEF Followed
<1>5. Repeated' = Repeated
  BY <1>3 DEF Repeated
<1>6. CASE cell' = end.next /\ run' = [Ended("Result") EXCEPT !.outcome = w]
  <2>1. run'.pc = "ended" /\ run'.exit = "Result" /\ run'.outcome = w
    BY <1>6, ResultEnds, Shapes
  <2>2. w.outcome = Repeated /\ w.consumed = Len(script.calls)
    BY <1>2, <1>4 DEF WitnessOf
  <2>3. cell'.mode = cell.mode /\ cell'.history = cell.history
    BY <1>1, <1>3, <1>6, WhilePersisting DEF Concludes
  <2>4. run'.outcome.outcome = Repeated' /\ run'.outcome.consumed = Len(script'.calls)
    BY <1>3, <1>5, <2>1, <2>2
  <2>5. QED BY <1>3, <2>1, <2>3, <2>4 DEF Followed
<1>7. CASE run' = Leaves(run, "ended", "CasError", Nothing) /\ UNCHANGED cell
  <2>1. run'.pc = "ended" /\ run'.exit = "CasError"
    BY <1>7, RunEnds, Shapes DEF RunPcs, Exitings
  <2>2. QED BY <1>3, <1>7, <2>1 DEF Followed
<1>8. QED BY <1>3, <1>6, <1>7

LEMMA FollowedEnds ==
    ASSUME SessionInv, Followed, RequestInterrupt \/ Unwind \/ PersistAborted
    PROVE  Followed'
<1>1. CASE RequestInterrupt
  <2>1. UNCHANGED <<cell, fiber, script>> /\ run' = [run EXCEPT !.interrupted = TRUE]
    BY <1>1 DEF RequestInterrupt
  <2>2. run'.pc = run.pc /\ run'.left = run.left /\ run'.exit = run.exit /\ run'.outcome = run.outcome
    BY <2>1, RunInterrupted, Shapes
  <2>3. Repeated' = Repeated
    BY <2>1 DEF Repeated
  <2>4. QED BY <2>1, <2>2, <2>3 DEF Followed
<1>2. CASE Unwind
  <2>1. PICK r : r = [NoFiber EXCEPT !.pc = "done"]
    OBVIOUS
  <2>2. r.pc = "done" /\ fiber' = [fiber EXCEPT ![Main] = r]
    BY <1>2, <2>1, DoneTyped DEF Unwind, Sets
  <2>3. UNCHANGED <<cell, script>> /\ run' = Leaves(run, "abort", "Interrupted", Nothing)
    BY <1>2 DEF Unwind, Leaves
  <2>4. run'.pc = "abort" /\ run'.exit = "Interrupted"
    BY <2>3, RunEnds, Shapes DEF RunPcs, Exitings
  <2>5. fiber'[Main] = r /\ \A g \in Others : fiber'[g] = fiber[g]
    BY <2>2, Kinds, FiberSets, Shapes
  <2>6. QED BY <2>2, <2>3, <2>4, <2>5 DEF Followed
<1>3. CASE PersistAborted
  <2>1. UNCHANGED <<cell, fiber, script>> /\ run.exit \in {"Defect", "Interrupted"}
    BY <1>3 DEF PersistAborted, SessionInv, Exits
  <2>2. PICK m : m = Leaves(run, "ended", run.exit, Nothing)
    OBVIOUS
  <2>3. RunTyped(m) /\ m.pc = "ended" /\ m.exit = run.exit
    BY <2>1, <2>2, RunEnds, Shapes DEF RunPcs, Exitings
  <2>4. PICK v \in Nat : v = m.receipts + 1
    BY <2>3 DEF RunTyped
  <2>5. PICK n : n = [m EXCEPT !.receipts = v]
    OBVIOUS
  <2>6. n.pc = "ended" /\ n.exit = run.exit
    BY <2>3, <2>5, RunReceipts
  <2>7. run' = n
    BY <1>3, <2>2, <2>4, <2>5 DEF PersistAborted, Ended, Leaves
  <2>8. QED BY <2>1, <2>6, <2>7 DEF Followed
<1>4. QED BY <1>1, <1>2, <1>3

(* A replay follows the script of a recording that is what it says.        *)
LEMMA FollowedBegins ==
    ASSUME IInv, NEW mode \in {"record", "replay"}, NEW root \in nodes \cup {<<>>},
           Begin(mode, root, TRUE)
    PROVE  Followed'
<1>1. /\ mode = "replay" /\ root = cell.root /\ root # <<>>
      /\ script.plain /\ script.terminal # Nothing /\ run.base = 0
      /\ script' = script
      /\ cell'.mode = mode /\ cell'.status = "active" /\ cell'.history = root
      /\ run'.pc = "program" /\ run'.exit = Nothing /\ run'.left = MaxCalls
  BY DEF Begin
<1>2. cell'.cursor = 0
  BY <1>1 DEF Begin
<1>3. cell.history = root /\ cell.history \in Seq(Entries)
  BY <1>1, Shapes, CellFields DEF IInv, Sound
<1>4. cell.mode = "record"
  <2>1. SUFFICES ASSUME cell.mode # "record" PROVE FALSE
    OBVIOUS
  <2>2. cell.mode = "replay"
    BY <2>1, Shapes, CellFields DEF IInv
  <2>3. Len(root) = 0
    BY <1>1, <1>3, <2>2 DEF IInv, Follows
  <2>4. QED BY <1>1, <1>3, <2>3, EmptySeq
<1>5. Match(script.calls, root)
  BY <1>1, <1>3, <1>4 DEF IInv, Scripted
<1>6. script.terminal \in Terminals
  BY <1>1, Shapes DEF IInv, Scripts
<1>7. fiber'[Main].pc = "idle" /\ \A g \in Others : fiber'[g].pc = "none"
  BY Kinds DEF Begin, NoFiber
<1>8. cell'.cursor = MaxCalls - run'.left
  BY <1>1, <1>2, SessionAssumption
<1> HIDE DEF Begin
<1>9. QED BY <1>1, <1>5, <1>6, <1>7, <1>8 DEF Followed

LEMMA FollowedStep ==
    ASSUME IInv, [Next]_vars, ~Begins, run.follow
    PROVE  Followed'
<1>1. SessionInv /\ Followed
  BY DEF IInv, Follows
<1>2. ASSUME NEW f \in Others, Fork(f) \/ Join(f) PROVE Followed'
  BY <1>1, <1>2, Kinds, NobodyFlies DEF Fork, Join
<1>3. ASSUME NEW f \in Fibers, NEW call \in Calls, InvokeLive(f, call) PROVE Followed'
  BY <1>1, <1>3 DEF InvokeLive, Followed
<1>4. ASSUME NEW f \in Fibers, NEW call \in Calls, InvokeUnstorable(f, call) PROVE Followed'
  BY <1>1, <1>4, Repeats DEF InvokeUnstorable
<1>5. ASSUME NEW f \in Fibers, NEW call \in Calls, InvokeRecorded(f, call) PROVE Followed'
  BY <1>1, <1>5, FollowedCall
<1>6. ASSUME NEW f \in Fibers, NEW outcome \in Outcomes, HandlerReturns(f, outcome) PROVE Followed'
  BY <1>1, <1>6, NobodyFlies DEF HandlerReturns, Flying
<1>7. ASSUME NEW f \in Fibers, HandlerDies(f) \/ CallInterrupted(f) \/ Mask(f) PROVE Followed'
  BY <1>1, <1>7, NobodyFlies DEF HandlerDies, CallInterrupted, Mask, Flying
<1>8. ASSUME NEW f \in Fibers, Ambient(f) PROVE Followed'
  BY <1>8 DEF Ambient
<1>9. ASSUME NEW f \in Fibers, AppendRecordedOutcome(f) \/ PutHistory(f) PROVE Followed'
  BY <1>1, <1>9, NobodyFlies DEF AppendRecordedOutcome, PutHistory, Flying
<1>10. ASSUME NEW terminal \in Terminals, Terminates(terminal) PROVE Followed'
  BY <1>1, <1>10, FollowedTerminates
<1>11. CASE FinishSession \/ PersistWitness
  BY <1>1, <1>11, FollowedFinish, FollowedPersist
<1>12. CASE CatchDefect
  BY <1>1, <1>12, Kinds, NobodyFlies DEF CatchDefect
<1>13. CASE RequestInterrupt \/ Unwind \/ PersistAborted
  BY <1>1, <1>13, FollowedEnds
<1>14. CASE UNCHANGED vars
  <2>1. UNCHANGED <<cell, fiber, run, script>>
    BY <1>14 DEF vars
  <2>2. QED BY <1>1, <2>1 DEF Followed, Repeated
<1>15. QED BY <1>2, <1>3, <1>4, <1>5, <1>6, <1>7, <1>8, <1>9, <1>10, <1>11, <1>12, <1>13, <1>14,
              Steps DEF Begins

LEMMA FollowsStep == IInv /\ [Next]_vars => Follows'
<1> SUFFICES ASSUME IInv, [Next]_vars PROVE Follows'
  OBVIOUS
<1>1. CASE Begins
  <2>1. PICK mode \in {"record", "replay"}, root \in nodes \cup {<<>>}, follow \in BOOLEAN :
           Begin(mode, root, follow)
    BY <1>1 DEF Begins
  <2>2. cell'.history = root /\ run'.base = Len(root) /\ run'.follow = follow
    BY <2>1 DEF Begin
  <2>3. follow => Followed'
    <3>1. CASE follow = TRUE
      BY <2>1, <3>1, FollowedBegins
    <3>2. QED BY <3>1
  <2>4. QED BY <2>2, <2>3 DEF Follows
<1>2. CASE ~Begins
  <2>1. GoesOn
    BY <1>2, Continues DEF IInv
  <2>2. cell'.mode = "replay" => Len(cell'.history) = run'.base
    BY <2>1 DEF GoesOn, SameRun, IInv, Follows
  <2>3. run'.follow => Followed'
    BY <1>2, <2>1, FollowedStep DEF GoesOn, SameRun
  <2>4. QED BY <2>2, <2>3 DEF Follows
<1>3. QED BY <1>1, <1>2

-----------------------------------------------------------------------------
(* What every session keeps.                                               *)

(* The invariant holds of every state: turns at the cell, what a recording  *)
(* lacks, the call in flight, traces, puts, scripts and replays' cursors.   *)
THEOREM Inductive == Spec => []IInv
<1>1. Init => IInv
  <2> SUFFICES ASSUME Init PROVE IInv
    OBVIOUS
  <2>1. SessionInv
    BY InitHolds
  <2>2. script.plain = FALSE
    BY DEF Init, NoScript
  <2>3. cell.mode = "record" /\ run.follow = FALSE
    BY DEF Init
  <2>4. QED BY <2>1, <2>2, <2>3 DEF IInv, Scripted, Follows
<1>2. IInv /\ [Next]_vars => IInv'
  <2> SUFFICES ASSUME IInv, [Next]_vars PROVE IInv'
    OBVIOUS
  <2>1. SessionInv'
    BY SessionStep DEF IInv
  <2>2. Scripted'
    BY ScriptedStep DEF IInv
  <2>3. Follows'
    BY FollowsStep
  <2>4. QED BY <2>1, <2>2, <2>3 DEF IInv
<1>3. QED BY <1>1, <1>2, PTL DEF Spec

(* Whatever fibers the program forks, whichever calls it gives up, however *)
(* late outcomes come and whatever puts fail, interrupts and defects there *)
(* are: a recording has appended the first live executions in the order    *)
(* they were delegated, every node of its history is stored, every stored  *)
(* witness tells a possible session, and the sink hears once of exactly    *)
(* the sessions that aborted.                                              *)
THEOREM HistoriesAreTrue == Spec => []HistoryTrue
<1>1. IInv => HistoryTrue
  BY TrueHistory DEF IInv
<1>2. QED BY <1>1, Inductive, PTL

(* A replay of a sequential program by the same program completes with the *)
(* terminal of the recording and consumes exactly what was recorded, or    *)
(* ends because the store failed or somebody interrupted it.               *)
THEOREM ReplaysRepeat == Spec => []ReplayRepeats
<1>1. IInv => ReplayRepeats
  <2> SUFFICES ASSUME IInv, run.follow, run.exit \notin {Nothing, "CasError", "Interrupted"}
               PROVE  /\ run.exit = "Result"
                      /\ run.outcome.outcome = Repeated
                      /\ run.outcome.consumed = Len(script.calls)
    BY DEF ReplayRepeats, Repeated
  <2>1. Followed
    BY DEF IInv, Follows
  <2>2. QED BY <2>1 DEF Followed
<1>2. QED BY <1>1, Inductive, PTL

(* After a session has aborted no step of it, an append under way or a     *)
(* handler that returns late included, stores a node or moves its history  *)
(* or its cursor.                                                          *)
THEOREM LateOutcomesAreDropped == Spec => LateOutcomesDropped
<1>1. IInv /\ [Next]_vars =>
        [cell.status = "aborted" /\ run'.number = run.number
           => nodes' = nodes /\ cell'.history = cell.history /\ cell'.cursor = cell.cursor]_vars
  BY AbortedStays DEF IInv, StaysPut
<1>2. QED BY <1>1, Inductive, PTL DEF Spec, LateOutcomesDropped
=============================================================================
