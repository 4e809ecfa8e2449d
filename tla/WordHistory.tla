---------------------------- MODULE WordHistory ----------------------------
(***************************************************************************)
(* Reading the word: marks, page bounds, cursors, and the drain that       *)
(* chains pages (WordLog.ts, since; bin/cli/history.ts, drainFrom), while  *)
(* writers append.                                                         *)
(*                                                                         *)
(* Marks are dense from zero, so the word is known by its length and a     *)
(* receipt by its mark.  The memory and file realizations answer a page    *)
(* and its cursor from one look at the word.  The SQL realization reads    *)
(* the page in one statement and, when it came back empty, the length in   *)
(* a second one; a writer's connection can append in between.              *)
(***************************************************************************)
EXTENDS Integers, Sequences

CONSTANTS
    Readers,
    Marks,          \* the marks clients ask from, integers
    Limits,         \* the page bounds clients name, integers
    Unbounded,      \* no bound named
    PageLimit,      \* wordLogPageLimit
    MaxWord         \* bound: receipts appended

ASSUME HistoryAssumption ==
    /\ Marks \subseteq Int
    /\ Limits \subseteq Int
    /\ Unbounded \notin Int
    /\ PageLimit \in Nat \ {0}
    /\ MaxWord \in Nat

VARIABLES
    realization,    \* "whole": memory and file; "sql": two statements
    length,         \* receipts in the word
    mode,           \* per reader: "page" for one since, "drain" for the verb
    stage,          \* per reader: "idle", "page", "heads" or "answered"
    limit,          \* per reader: the bound its calls name
    at,             \* per reader: the floored mark the current page is from
    next,           \* per reader: the cursor the last page answered
    first,          \* per reader: the mark its receipts start at
    seen,           \* per reader: the marks of the receipts it was handed
    owed            \* per reader: the word's length when its call began

reader == <<mode, stage, limit, at, next, first, seen, owed>>
vars   == <<realization, length, reader>>

Init ==
    /\ realization \in {"whole", "sql"}
    /\ length \in 0..MaxWord
    /\ mode = [r \in Readers |-> "page"]
    /\ stage = [r \in Readers |-> "idle"]
    /\ limit = [r \in Readers |-> Unbounded]
    /\ at = [r \in Readers |-> 0]
    /\ next = [r \in Readers |-> 0]
    /\ first = [r \in Readers |-> 0]
    /\ seen = [r \in Readers |-> <<>>]
    /\ owed = [r \in Readers |-> 0]

----------------------------------------------------------------------------
(* The arithmetic the three realizations share.                            *)

FlooredMark(mark) == IF mark < 0 THEN 0 ELSE mark

(* A bound below one is refused, one above the cap is clamped to it.       *)
AcceptedLimits == {bound \in Limits : bound >= 1}

BoundedLimit(bound) ==
    IF bound = Unbounded \/ bound > PageLimit THEN PageLimit ELSE bound

(* The marks of one page of a word of n receipts.                          *)
Page(from, bound, n) ==
    [k \in 1..(IF from >= n THEN 0
               ELSE IF n - from < bound THEN n - from ELSE bound) |-> from + k - 1]

(* While the page is non-empty the cursor is RESUME HERE; an empty page    *)
(* owes the word's end.                                                    *)
CursorOf(mark, page, n) == IF page > 0 THEN mark + page ELSE n

----------------------------------------------------------------------------
(* One append, atomic in every realization: in memory one assignment, in   *)
(* SQL one statement, in the file one line under the lock (WordLogFile).   *)
AppendReceipt ==
    /\ length < MaxWord
    /\ length' = length + 1
    /\ UNCHANGED <<realization, reader>>

Ask(r, m, mark, bound) ==
    /\ mode' = [mode EXCEPT ![r] = m]
    /\ stage' = [stage EXCEPT ![r] = "page"]
    /\ limit' = [limit EXCEPT ![r] = bound]
    /\ at' = [at EXCEPT ![r] = mark]
    /\ owed' = [owed EXCEPT ![r] = length]
    /\ UNCHANGED next

(* A caller asks for one page, or the history verb for all of them.  A     *)
(* bound below one is refused and changes nothing.                         *)
Since(r, mark, bound) ==
    /\ stage[r] \in {"idle", "answered"}
    /\ bound \in AcceptedLimits \union {Unbounded}
    /\ Ask(r, "page", FlooredMark(mark), bound)
    /\ first' = [first EXCEPT ![r] = FlooredMark(mark)]
    /\ seen' = [seen EXCEPT ![r] = <<>>]
    /\ UNCHANGED <<realization, length>>

Drain(r, mark) ==
    /\ stage[r] \in {"idle", "answered"}
    /\ Ask(r, "drain", FlooredMark(mark), Unbounded)
    /\ first' = [first EXCEPT ![r] = FlooredMark(mark)]
    /\ seen' = [seen EXCEPT ![r] = <<>>]
    /\ UNCHANGED <<realization, length>>

(* A client resumes at the cursor it was answered.                         *)
Resume(r, bound) ==
    /\ stage[r] = "answered"
    /\ bound \in AcceptedLimits \union {Unbounded}
    /\ Ask(r, "page", next[r], bound)
    /\ UNCHANGED <<realization, length, first, seen>>

(* drainFrom goes on while pages come back and the cursor advances.        *)
StopsAtPage(r, page, cursor) == FALSE

NeverStops(r, page, cursor) == mode[r] = "drain"

GoesOn(r, page, cursor) ==
    mode[r] = "drain" /\ Len(page) > 0 /\ cursor > at[r]

(* A page and its cursor reach the reader.  A mark beyond the word is      *)
(* answered with the word's end, where the reader then starts over.        *)
Answer(r, page, cursor) ==
    /\ next' = [next EXCEPT ![r] = cursor]
    /\ seen' = [seen EXCEPT ![r] = @ \o page]
    /\ first' = [first EXCEPT ![r] = IF cursor < at[r] THEN cursor ELSE @]
    /\ IF GoesOn(r, page, cursor)
       THEN at' = [at EXCEPT ![r] = cursor] /\ stage' = [stage EXCEPT ![r] = "page"]
       ELSE at' = at /\ stage' = [stage EXCEPT ![r] = "answered"]
    /\ UNCHANGED <<realization, length, mode, limit, owed>>

(* The look at the word: the whole answer, or the page statement of the    *)
(* SQL realization, whose empty page still owes the cursor.                *)
ReadPage(r) ==
    /\ stage[r] = "page"
    /\ LET page == Page(at[r], BoundedLimit(limit[r]), length)
       IN  IF realization = "sql" /\ page = <<>>
           THEN /\ stage' = [stage EXCEPT ![r] = "heads"]
                /\ UNCHANGED <<realization, length, mode, limit, at, next, first,
                               seen, owed>>
           ELSE Answer(r, page, CursorOf(at[r], Len(page), length))

(* SELECT COALESCE(MAX(seq), -1) + 1, the second statement.                *)
ReadHeads(r) ==
    /\ stage[r] = "heads"
    /\ Answer(r, <<>>, length)

(* A failing read refuses: the reader is handed nothing more.              *)
Fail(r) ==
    /\ stage[r] \in {"page", "heads"}
    /\ stage' = [stage EXCEPT ![r] = "idle"]
    /\ at' = [at EXCEPT ![r] = 0]
    /\ next' = [next EXCEPT ![r] = 0]
    /\ first' = [first EXCEPT ![r] = 0]
    /\ seen' = [seen EXCEPT ![r] = <<>>]
    /\ owed' = [owed EXCEPT ![r] = 0]
    /\ UNCHANGED <<realization, length, mode, limit>>

Next ==
    \/ AppendReceipt
    \/ \E r \in Readers :
          \/ \E mark \in Marks, bound \in Limits \union {Unbounded} : Since(r, mark, bound)
          \/ \E mark \in Marks : Drain(r, mark)
          \/ \E bound \in Limits \union {Unbounded} : Resume(r, bound)
          \/ ReadPage(r)
          \/ ReadHeads(r)
          \/ Fail(r)

Spec == Init /\ [][Next]_vars

(* A statement or a file read that was issued returns.  Callers and        *)
(* writers owe nothing.                                                    *)
FairSpec == Spec /\ \A r \in Readers : WF_vars(ReadPage(r) \/ ReadHeads(r))

----------------------------------------------------------------------------
(* What a reader of the word is promised.                                  *)

Contiguous(r) ==
    /\ \A k \in DOMAIN seen[r] : seen[r][k] = first[r] + k - 1
    /\ next[r] = first[r] + Len(seen[r])

(***************************************************************************)
(* A reader that resumes at the cursors it is answered is handed every     *)
(* receipt from its mark to its cursor, once and in order, however the     *)
(* word grows between and during its calls: the memory and file logs.      *)
(***************************************************************************)
NothingMissed ==
    \A r \in Readers :
       realization = "whole" /\ stage[r] = "answered" => Contiguous(r)

(***************************************************************************)
(* No receipt is handed out twice or out of order, in any realization.     *)
(***************************************************************************)
InOrder ==
    \A r \in Readers : \A j, k \in DOMAIN seen[r] :
       j < k => seen[r][j] < seen[r][k]

(***************************************************************************)
(* A cursor never points past the word: `next` is where it ends or where   *)
(* the next page starts, for a caller that overshot too.                   *)
(***************************************************************************)
CursorWithin ==
    \A r \in Readers : stage[r] = "answered" => next[r] <= length

(***************************************************************************)
(* The history verb prints the whole history from its mark (history.ts):   *)
(* a drain that answered reached at least the end the word had when the    *)
(* drain began, across the page bound.                                     *)
(***************************************************************************)
DrainReachesEnd ==
    \A r \in Readers :
       mode[r] = "drain" /\ stage[r] = "answered" => next[r] >= owed[r]

(***************************************************************************)
(* What reading promises: every receipt from the mark on, each of them     *)
(* once and in order, with a cursor within the word, and to the end for a  *)
(* drain, while other writers append and another realization answers.      *)
(***************************************************************************)
PagesFaithful == NothingMissed /\ InOrder /\ CursorWithin /\ DrainReachesEnd

(***************************************************************************)
(* A page or a drain that was asked for answers or refuses.  Appends are   *)
(* bounded: on a word that never stops growing the code claims nothing.    *)
(***************************************************************************)
ReadsAnswer ==
    \A r \in Readers :
       stage[r] \in {"page", "heads"} ~> stage[r] \in {"answered", "idle"}

(***************************************************************************)
(* "So a client never computes its own cursor" and "a consistent prefix    *)
(* and a cursor to resume from" (WordLog.ts, history.ts), for the SQL      *)
(* realization.  Violated: a receipt appended between the empty page and   *)
(* the second statement lies before the cursor and was handed to nobody.   *)
(***************************************************************************)
SqlNothingMissed ==
    \A r \in Readers :
       realization = "sql" /\ stage[r] = "answered" => Contiguous(r)
============================================================================
