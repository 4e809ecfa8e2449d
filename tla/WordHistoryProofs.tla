------------------------- MODULE WordHistoryProofs -------------------------
(***************************************************************************)
(* Proofs about WordHistory, the verb history, for any number of readers,  *)
(* any marks, bounds and page limit, and a word of any length: a reader    *)
(* that resumes at its cursors misses nothing and is handed nothing twice, *)
(* cursors stay within the word, and a drain reaches the end the word had  *)
(* when it began.                                                          *)
(*                                                                         *)
(* About Panel, over a word read so: whatever becomes of the pages, every  *)
(* column counts each receipt once, what is drawn only extends, and no two *)
(* marks overlap.                                                          *)
(*                                                                         *)
(* About Shell, for any chain of directories, any store and any command    *)
(* line: an invocation acts on the right store, what it reports is true of *)
(* that store whatever others do to it meanwhile, and what it answers is   *)
(* what it did.                                                            *)
(***************************************************************************)
EXTENDS Panel, Shell, SequenceTheorems, FiniteSetTheorems, TLAPS

USE HistoryAssumption

Bounds == {bound \in Limits : bound >= 1} \union {Unbounded}

TypeOK ==
    /\ realization \in {"whole", "sql"}
    /\ length \in Nat
    /\ mode \in [Readers -> {"page", "drain"}]
    /\ stage \in [Readers -> {"idle", "page", "heads", "answered"}]
    /\ limit \in [Readers -> Bounds]
    /\ at \in [Readers -> Nat]
    /\ next \in [Readers -> Nat]
    /\ first \in [Readers -> Nat]
    /\ seen \in [Readers -> Seq(Nat)]
    /\ owed \in [Readers -> Nat]

Asking(r)  == stage[r] \in {"page", "heads"}
Settled(r) == stage[r] = "answered"

(* The marks a reader holds grow, and lie before a mark.                   *)
Rising(s)     == \A j, k \in DOMAIN s : j < k => s[j] < s[k]
Before(s, n)  == \A k \in DOMAIN s : s[k] < n
RunFrom(s, f) == \A k \in DOMAIN s : s[k] = f + k - 1

(***************************************************************************)
(* What holds of a reader at each of its stages.  A page that is being     *)
(* asked for starts where the last one ended; a word answered whole is     *)
(* never between two statements, and what was handed out of it is one run  *)
(* of marks.                                                               *)
(***************************************************************************)
ReaderSound(r) ==
    /\ owed[r] <= length
    /\ Rising(seen[r]) /\ Before(seen[r], length)
    /\ Asking(r) => Before(seen[r], at[r])
    /\ Settled(r) => Before(seen[r], next[r]) /\ next[r] <= length
    /\ Settled(r) /\ mode[r] = "drain" => next[r] >= owed[r]
    /\ realization = "whole" =>
          /\ stage[r] # "heads"
          /\ RunFrom(seen[r], first[r])
          /\ Asking(r) => at[r] = first[r] + Len(seen[r])
          /\ Settled(r) => next[r] = first[r] + Len(seen[r])

IInv == TypeOK /\ \A r \in Readers : ReaderSound(r)

----------------------------------------------------------------------------
(* Lemmas on pages and on sequences of marks.                              *)

(* A page bound is a positive number.                                      *)
LEMMA BoundPositive ==
    ASSUME NEW bound \in Bounds
    PROVE  BoundedLimit(bound) \in Nat /\ BoundedLimit(bound) >= 1
  BY DEF Bounds, BoundedLimit

(* A page is a run of marks from the one asked for, none beyond the word;  *)
(* it is empty only at or past the word's end.                             *)
LEMMA PageRun ==
    ASSUME NEW from \in Nat, NEW bound \in Nat, bound >= 1, NEW n \in Nat
    PROVE  /\ Page(from, bound, n) \in Seq(Nat)
           /\ Len(Page(from, bound, n)) \in Nat
           /\ DOMAIN Page(from, bound, n) = 1..Len(Page(from, bound, n))
           /\ RunFrom(Page(from, bound, n), from)
           /\ Page(from, bound, n) # <<>> => Len(Page(from, bound, n)) > 0
                                          /\ from + Len(Page(from, bound, n)) <= n
           /\ Page(from, bound, n) = <<>> => from >= n
<1> DEFINE m == IF from >= n THEN 0 ELSE IF n - from < bound THEN n - from ELSE bound
           page == [k \in 1..m |-> from + k - 1]
<1>1. m \in Nat /\ (m = 0 <=> from >= n) /\ (m > 0 => from + m <= n)
  OBVIOUS
<1>2. page = Page(from, bound, n)
  BY DEF Page
<1> HIDE DEF m
<1>3. \A k \in 1..m : from + k - 1 \in Nat
  BY <1>1
<1>4. page \in Seq(Nat) /\ Len(page) = m /\ DOMAIN page = 1..m
  BY <1>1, <1>3
<1>5. \A k \in 1..m : page[k] = from + k - 1
  OBVIOUS
<1>6. page = <<>> <=> m = 0
  BY <1>1, <1>4
<1> HIDE DEF page
<1>7. QED BY <1>1, <1>2, <1>4, <1>5, <1>6 DEF RunFrom

(* A run of marks after marks that rise before it: they still rise.        *)
LEMMA RunAfter ==
    ASSUME NEW s \in Seq(Nat), NEW t \in Seq(Nat), NEW from \in Nat,
           Rising(s), Before(s, from), RunFrom(t, from)
    PROVE  /\ s \o t \in Seq(Nat)
           /\ Len(s \o t) = Len(s) + Len(t)
           /\ Rising(s \o t)
           /\ Before(s \o t, from + Len(t))
           /\ \A f \in Nat : RunFrom(s, f) /\ from = f + Len(s) => RunFrom(s \o t, f)
<1> DEFINE u == s \o t
<1>1. /\ u \in Seq(Nat) /\ Len(u) = Len(s) + Len(t)
      /\ Len(s) \in Nat /\ Len(t) \in Nat
      /\ DOMAIN u = 1..(Len(s) + Len(t))
      /\ DOMAIN s = 1..Len(s) /\ DOMAIN t = 1..Len(t)
      /\ \A k \in 1..Len(s) : s[k] \in Nat
  OBVIOUS
<1>2. \A k \in DOMAIN u : IF k <= Len(s) THEN k \in DOMAIN s /\ u[k] = s[k]
                          ELSE k - Len(s) \in DOMAIN t /\ u[k] = from + (k - Len(s)) - 1
  BY <1>1 DEF RunFrom
<1> HIDE DEF u
<1>3. Rising(u)
  <2> SUFFICES ASSUME NEW j \in DOMAIN u, NEW k \in DOMAIN u, j < k
               PROVE  u[j] < u[k]
    BY DEF Rising
  <2>1. j \in Nat /\ k \in Nat
    BY <1>1
  <2>2. CASE k <= Len(s)
    BY <1>1, <1>2, <2>1, <2>2, SMTT(30) DEF Rising
  <2>3. CASE j <= Len(s) /\ k > Len(s)
    <3>1. u[j] = s[j] /\ s[j] < from /\ s[j] \in Nat
      BY <1>1, <1>2, <2>1, <2>3 DEF Before
    <3>2. u[k] = from + (k - Len(s)) - 1
      BY <1>1, <1>2, <2>1, <2>3
    <3>3. QED BY <1>1, <2>1, <2>3, <3>1, <3>2
  <2>4. CASE j > Len(s)
    <3>1. ~(j <= Len(s)) /\ ~(k <= Len(s))
      BY <1>1, <2>1, <2>4
    <3>2. u[j] = from + (j - Len(s)) - 1 /\ u[k] = from + (k - Len(s)) - 1
      BY <1>2, <3>1
    <3>3. QED BY <1>1, <2>1, <3>2
  <2>5. QED BY <1>1, <2>1, <2>2, <2>3, <2>4, SMTT(30)
<1>4. Before(u, from + Len(t))
  <2> SUFFICES ASSUME NEW k \in DOMAIN u PROVE u[k] < from + Len(t)
    BY DEF Before
  <2>1. CASE k <= Len(s)
    <3>1. u[k] = s[k] /\ s[k] < from /\ s[k] \in Nat
      BY <1>1, <1>2, <2>1 DEF Before
    <3>2. QED BY <1>1, <3>1
  <2>2. CASE k > Len(s)
    <3>1. k \in Nat /\ ~(k <= Len(s)) /\ k <= Len(s) + Len(t)
      BY <1>1, <2>2
    <3>2. u[k] = from + (k - Len(s)) - 1
      BY <1>2, <3>1
    <3>3. QED BY <1>1, <3>1, <3>2
  <2>3. QED BY <1>1, <2>1, <2>2
<1>5. ASSUME NEW f \in Nat, RunFrom(s, f), from = f + Len(s)
      PROVE  RunFrom(u, f)
  <2> SUFFICES ASSUME NEW k \in DOMAIN u PROVE u[k] = f + k - 1
    BY DEF RunFrom
  <2>1. k \in Nat
    BY <1>1
  <2>2. CASE k <= Len(s)
    BY <1>2, <1>5, <2>2 DEF RunFrom
  <2>3. CASE ~(k <= Len(s))
    <3>1. u[k] = from + (k - Len(s)) - 1
      BY <1>2, <2>3
    <3>2. QED BY <1>1, <1>5, <2>1, <3>1
  <2>4. QED BY <2>2, <2>3
<1>6. QED BY <1>1, <1>3, <1>4, <1>5 DEF u

(* A reader that was handed nothing is in order.                           *)
LEMMA NothingHeld ==
    ASSUME NEW n, NEW f
    PROVE  <<>> \in Seq(Nat) /\ Len(<<>>) = 0 /\ Rising(<<>>) /\ Before(<<>>, n) /\ RunFrom(<<>>, f)
  BY DEF Rising, Before, RunFrom

(* Marks below a mark are below every later one.                           *)
LEMMA BeforeGrows ==
    ASSUME NEW s \in Seq(Nat), NEW m \in Nat, NEW n \in Nat, m <= n, Before(s, m)
    PROVE  Before(s, n)
<1>1. \A k \in DOMAIN s : s[k] \in Nat
  OBVIOUS
<1>2. QED BY <1>1 DEF Before

----------------------------------------------------------------------------
(* The steps.                                                              *)

(* What a step of one reader leaves to the others.                         *)
OthersKept(r) ==
    \A q \in Readers \ {r} :
        /\ mode'[q] = mode[q] /\ stage'[q] = stage[q] /\ at'[q] = at[q]
        /\ next'[q] = next[q] /\ first'[q] = first[q] /\ seen'[q] = seen[q]
        /\ owed'[q] = owed[q]

(* A reader that does not step stays sound while the word grows.           *)
LEMMA KeptSound ==
    ASSUME IInv, TypeOK', length' >= length, realization' = realization,
           NEW q \in Readers,
           mode'[q] = mode[q], stage'[q] = stage[q], at'[q] = at[q], next'[q] = next[q],
           first'[q] = first[q], seen'[q] = seen[q], owed'[q] = owed[q]
    PROVE  ReaderSound(q)'
<1>1. /\ length \in Nat /\ length' \in Nat /\ owed[q] \in Nat /\ next[q] \in Nat
      /\ seen[q] \in Seq(Nat)
  BY DEF IInv, TypeOK
<1>2. ReaderSound(q)
  BY DEF IInv
<1>3. owed'[q] <= length'
  BY <1>1, <1>2 DEF ReaderSound
<1>4. Before(seen[q], length')
  BY <1>1, <1>2, BeforeGrows DEF ReaderSound
<1>5. stage[q] = "answered" => next[q] <= length'
  BY <1>1, <1>2 DEF ReaderSound, Settled
<1>6. QED BY <1>2, <1>3, <1>4, <1>5 DEF ReaderSound, Asking, Settled

(* A step of one reader leaves the invariant to the others.                *)
LEMMA OthersSound ==
    ASSUME IInv, TypeOK', length' = length, realization' = realization,
           NEW r \in Readers, OthersKept(r), ReaderSound(r)'
    PROVE  IInv'
<1>1. ASSUME NEW q \in Readers PROVE ReaderSound(q)'
  <2>1. CASE q = r
    BY <2>1
  <2>2. CASE q # r
    <3>1. length' >= length
      BY DEF IInv, TypeOK
    <3>2. QED BY <2>2, <3>1, KeptSound DEF OthersKept
  <2>3. QED BY <2>1, <2>2
<1>2. QED BY <1>1 DEF IInv

(* A call begins: with nothing in hand, or where the last page ended.      *)
LEMMA AskSound ==
    ASSUME IInv, NEW r \in Readers, NEW m \in {"page", "drain"}, NEW mark \in Nat,
           NEW bound \in Bounds, Ask(r, m, mark, bound),
           UNCHANGED <<realization, length>>,
           \/ /\ first' = [first EXCEPT ![r] = mark]
              /\ seen' = [seen EXCEPT ![r] = <<>>]
           \/ /\ stage[r] = "answered" /\ mark = next[r]
              /\ UNCHANGED <<first, seen>>
    PROVE  IInv'
<1>1. TypeOK'
  BY NothingHeld, ZenonT(45) DEF IInv, TypeOK, Ask
<1>2. OthersKept(r)
  BY SMTT(30) DEF IInv, TypeOK, Ask, OthersKept
<1>3. /\ mode'[r] = m /\ stage'[r] = "page" /\ at'[r] = mark /\ owed'[r] = length
      /\ realization' = realization /\ length' = length /\ length \in Nat
  BY DEF IInv, TypeOK, Ask
<1>4. ASSUME first'[r] = mark /\ seen'[r] = <<>> PROVE ReaderSound(r)'
  BY <1>3, <1>4, NothingHeld DEF ReaderSound, Asking, Settled
<1>5. ASSUME stage[r] = "answered", mark = next[r], UNCHANGED <<first, seen>>
      PROVE  ReaderSound(r)'
  <2>1. ReaderSound(r)
    BY DEF IInv
  <2>2. QED BY <1>3, <1>5, <2>1 DEF ReaderSound, Asking, Settled
<1>6. ReaderSound(r)'
  BY <1>4, <1>5 DEF IInv, TypeOK
<1>7. QED BY <1>1, <1>2, <1>6, OthersSound

(* A mark is floored to a number.                                          *)
LEMMA Floored == \A mark \in Marks : FlooredMark(mark) \in Nat
  BY DEF FlooredMark

(* Every step of a reader keeps the invariant: a page since a mark,        *)
LEMMA SinceKeeps ==
    ASSUME IInv, NEW r \in Readers, NEW mark \in Marks, NEW bound, Since(r, mark, bound)
    PROVE  IInv'
<1>1. FlooredMark(mark) \in Nat /\ bound \in Bounds
  BY Floored DEF Since, Bounds, AcceptedLimits
<1>2. /\ Ask(r, "page", FlooredMark(mark), bound)
      /\ first' = [first EXCEPT ![r] = FlooredMark(mark)]
      /\ seen' = [seen EXCEPT ![r] = <<>>]
      /\ UNCHANGED <<realization, length>>
  BY DEF Since
<1>3. QED BY <1>1, <1>2, AskSound

(* a drain since a mark,                                                   *)
LEMMA DrainKeeps ==
    ASSUME IInv, NEW r \in Readers, NEW mark \in Marks, Drain(r, mark)
    PROVE  IInv'
<1>1. FlooredMark(mark) \in Nat /\ Unbounded \in Bounds
  BY Floored DEF Bounds
<1>2. /\ Ask(r, "drain", FlooredMark(mark), Unbounded)
      /\ first' = [first EXCEPT ![r] = FlooredMark(mark)]
      /\ seen' = [seen EXCEPT ![r] = <<>>]
      /\ UNCHANGED <<realization, length>>
  BY DEF Drain
<1>3. QED BY <1>1, <1>2, AskSound

(* a page resumed at the cursors of the last,                              *)
LEMMA ResumeKeeps ==
    ASSUME IInv, NEW r \in Readers, NEW bound, Resume(r, bound)
    PROVE  IInv'
<1>1. next[r] \in Nat
  BY DEF IInv, TypeOK
<1>2. QED BY <1>1, AskSound DEF Resume, Bounds, AcceptedLimits

(* A page of receipts reaches the reader, with the cursor it ends at.      *)
LEMMA PageAnswered ==
    ASSUME IInv, NEW r \in Readers, stage[r] = "page",
           NEW page \in Seq(Nat), NEW n \in Nat, n = Len(page), n > 0,
           RunFrom(page, at[r]), at[r] + n <= length,
           Answer(r, page, at[r] + n)
    PROVE  IInv'
<1> DEFINE cursor == at[r] + n
<1>1. /\ at[r] \in Nat /\ seen[r] \in Seq(Nat) /\ first[r] \in Nat /\ owed[r] \in Nat
      /\ mode[r] \in {"page", "drain"} /\ length \in Nat /\ cursor \in Nat /\ cursor > at[r]
      /\ cursor <= length
  BY DEF IInv, TypeOK
<1>2. ReaderSound(r)
  BY DEF IInv
<1>3. /\ Rising(seen[r]) /\ Before(seen[r], at[r])
      /\ realization = "whole" => RunFrom(seen[r], first[r]) /\ at[r] = first[r] + Len(seen[r])
  BY <1>2 DEF ReaderSound, Asking
<1>4. /\ seen[r] \o page \in Seq(Nat) /\ Rising(seen[r] \o page)
      /\ Before(seen[r] \o page, cursor)
      /\ Len(seen[r] \o page) = Len(seen[r]) + n
      /\ realization = "whole" => RunFrom(seen[r] \o page, first[r])
                                  /\ cursor = first[r] + Len(seen[r] \o page)
  <2>1. /\ seen[r] \o page \in Seq(Nat) /\ Rising(seen[r] \o page)
        /\ Before(seen[r] \o page, cursor)
        /\ Len(seen[r] \o page) = Len(seen[r]) + n
        /\ \A f \in Nat : RunFrom(seen[r], f) /\ at[r] = f + Len(seen[r])
                             => RunFrom(seen[r] \o page, f)
    BY <1>1, <1>3, RunAfter
  <2>2. Len(seen[r]) \in Nat
    BY <1>1
  <2>3. realization = "whole" => RunFrom(seen[r] \o page, first[r])
    BY <1>1, <1>3, <2>1
  <2>4. realization = "whole" => cursor = first[r] + Len(seen[r] \o page)
    <3> DEFINE had == Len(seen[r])
               has == Len(seen[r] \o page)
    <3>1. has = had + n /\ had \in Nat /\ (realization = "whole" => at[r] = first[r] + had)
      BY <1>3, <2>1, <2>2
    <3> HIDE DEF had, has
    <3>2. \A a, f \in Nat : a = f + had => a + n = f + has
      BY <3>1
    <3>3. at[r] \in Nat /\ first[r] \in Nat
      BY <1>1
    <3>4. realization = "whole" => at[r] + n = first[r] + has
      BY <3>1, <3>2, <3>3, ZenonT(45)
    <3>5. QED BY <3>4 DEF has
  <2>5. QED BY <2>1, <2>3, <2>4
<1>5. /\ next'[r] = cursor /\ seen'[r] = seen[r] \o page /\ first'[r] = first[r]
      /\ mode'[r] = mode[r] /\ owed'[r] = owed[r]
      /\ realization' = realization /\ length' = length
  BY <1>1, SMTT(30) DEF IInv, TypeOK, Answer
<1>6. IF mode[r] = "drain" THEN at'[r] = cursor /\ stage'[r] = "page"
                           ELSE stage'[r] = "answered"
  BY <1>1 DEF IInv, TypeOK, Answer, GoesOn
<1>7. TypeOK'
  <2> DEFINE handed == seen[r] \o page
  <2>1. handed \in Seq(Nat)
    BY <1>4
  <2> HIDE DEF handed
  <2>2. /\ next' = [next EXCEPT ![r] = cursor]
        /\ seen' = [seen EXCEPT ![r] = handed]
        /\ first' = first
        /\ at' = at \/ at' = [at EXCEPT ![r] = cursor]
        /\ stage' = [stage EXCEPT ![r] = "page"] \/ stage' = [stage EXCEPT ![r] = "answered"]
        /\ UNCHANGED <<realization, length, mode, limit, owed>>
    <3>1. first' = first
      BY <1>1 DEF IInv, TypeOK, Answer
    <3>2. QED BY <3>1 DEF Answer, handed
  <2>3. QED BY <1>1, <2>1, <2>2, ZenonT(45) DEF IInv, TypeOK
<1>8. OthersKept(r)
  BY ZenonT(45) DEF IInv, TypeOK, Answer, OthersKept
<1>9. ReaderSound(r)'
  <2>1. owed'[r] <= length' /\ Rising(seen'[r]) /\ Before(seen'[r], length')
    BY <1>1, <1>2, <1>4, <1>5, BeforeGrows DEF ReaderSound
  <2>2. CASE mode[r] = "drain"
    BY <1>4, <1>5, <1>6, <2>1, <2>2 DEF ReaderSound, Asking, Settled
  <2>3. CASE mode[r] # "drain"
    BY <1>1, <1>4, <1>5, <1>6, <2>1, <2>3 DEF ReaderSound, Asking, Settled
  <2>4. QED BY <2>2, <2>3
<1>10. QED BY <1>5, <1>7, <1>8, <1>9, OthersSound

(* An empty page ends the call with a cursor at the word's end, as it was  *)
(* when the cursor was read: behind the mark asked from, at it, or, in the *)
(* SQL realization, past receipts appended since the page was read.        *)
LEMMA EndAnswered ==
    ASSUME IInv, NEW r \in Readers, stage[r] \in {"page", "heads"},
           realization = "whole" => at[r] >= length,
           Answer(r, <<>>, length)
    PROVE  IInv'
<1>1. /\ at[r] \in Nat /\ seen[r] \in Seq(Nat) /\ first[r] \in Nat /\ owed[r] \in Nat
      /\ length \in Nat
  BY DEF IInv, TypeOK
<1>2. ReaderSound(r)
  BY DEF IInv
<1>3. seen[r] \o <<>> = seen[r]
  BY <1>1
<1>4. /\ next'[r] = length /\ seen'[r] = seen[r] /\ owed'[r] = owed[r] /\ mode'[r] = mode[r]
      /\ first'[r] = IF length < at[r] THEN length ELSE first[r]
      /\ realization' = realization /\ length' = length /\ stage'[r] = "answered"
  BY <1>3 DEF IInv, TypeOK, Answer, GoesOn
<1>5. TypeOK'
  <2>1. seen' = [seen EXCEPT ![r] = seen[r]]
    BY <1>3 DEF Answer
  <2>2. \E mark \in Nat : first' = [first EXCEPT ![r] = mark]
    <3>1. CASE length < at[r]
      BY <1>1, <3>1 DEF Answer
    <3>2. CASE ~(length < at[r])
      BY <1>1, <3>2 DEF Answer
    <3>3. QED BY <3>1, <3>2
  <2>3. /\ next' = [next EXCEPT ![r] = length]
        /\ at' = at \/ at' = [at EXCEPT ![r] = length]
        /\ stage' = [stage EXCEPT ![r] = "page"] \/ stage' = [stage EXCEPT ![r] = "answered"]
        /\ UNCHANGED <<realization, length, mode, limit, owed>>
    BY DEF Answer
  <2>4. TypeOK
    BY DEF IInv
  <2>5. seen' \in [Readers -> Seq(Nat)]
    BY <1>1, <2>1, <2>4 DEF TypeOK
  <2>6. first' \in [Readers -> Nat]
    BY <2>2, <2>4 DEF TypeOK
  <2>7. next' \in [Readers -> Nat] /\ at' \in [Readers -> Nat]
    BY <1>1, <2>3, <2>4, ZenonT(45) DEF TypeOK
  <2>8. stage' \in [Readers -> {"idle", "page", "heads", "answered"}]
    BY <2>3, <2>4 DEF TypeOK
  <2>9. QED BY <2>3, <2>4, <2>5, <2>6, <2>7, <2>8 DEF TypeOK
<1>6. OthersKept(r)
  BY DEF IInv, TypeOK, Answer, GoesOn, OthersKept
<1>7. realization = "whole" => RunFrom(seen[r], first'[r]) /\ length = first'[r] + Len(seen[r])
  <2> SUFFICES ASSUME realization = "whole"
               PROVE  RunFrom(seen[r], first'[r]) /\ length = first'[r] + Len(seen[r])
    OBVIOUS
  <2>1. /\ RunFrom(seen[r], first[r]) /\ at[r] = first[r] + Len(seen[r])
        /\ Before(seen[r], length) /\ at[r] >= length
    BY <1>2 DEF ReaderSound, Asking
  <2>2. CASE at[r] = length
    BY <1>1, <1>4, <2>1, <2>2
  <2>3. CASE at[r] > length
    <3>1. ~(Len(seen[r]) >= 1)
      <4> SUFFICES ASSUME Len(seen[r]) >= 1 PROVE FALSE
        OBVIOUS
      <4> DEFINE last == Len(seen[r])
      <4>1. last \in DOMAIN seen[r] /\ last \in Nat
        BY <1>1
      <4>2. seen[r][last] = first[r] + last - 1 /\ seen[r][last] < length
        BY <2>1, <4>1 DEF RunFrom, Before
      <4>3. QED BY <1>1, <2>1, <2>3, <4>1, <4>2
    <3>2. Len(seen[r]) = 0 /\ seen[r] = <<>>
      BY <1>1, <3>1
    <3>3. QED BY <1>1, <1>4, <2>3, <3>2, NothingHeld
  <2>4. QED BY <1>1, <2>1, <2>2, <2>3
<1>8. ReaderSound(r)'
  BY <1>1, <1>2, <1>4, <1>7 DEF ReaderSound, Asking, Settled
<1>9. QED BY <1>4, <1>5, <1>6, <1>8, OthersSound

(* The first statement of the SQL realization came back empty.             *)
LEMMA ReadPageKeeps ==
    ASSUME IInv, NEW r \in Readers, ReadPage(r)
    PROVE  IInv'
<1> DEFINE page == Page(at[r], BoundedLimit(limit[r]), length)
<1>1. /\ at[r] \in Nat /\ length \in Nat /\ limit[r] \in Bounds
      /\ realization \in {"whole", "sql"} /\ stage[r] = "page"
  BY DEF IInv, TypeOK, ReadPage
<1>2. /\ page \in Seq(Nat) /\ Len(page) \in Nat
      /\ RunFrom(page, at[r])
      /\ page # <<>> => Len(page) > 0 /\ at[r] + Len(page) <= length
      /\ page = <<>> => at[r] >= length
  BY <1>1, BoundPositive, PageRun
<1> HIDE DEF page
<1>3. CASE page # <<>>
  <2>1. Answer(r, page, at[r] + Len(page))
    BY <1>2, <1>3 DEF ReadPage, CursorOf, page
  <2>2. QED BY <1>1, <1>2, <1>3, <2>1, PageAnswered
<1>4. CASE page = <<>> /\ realization = "whole"
  <2>1. Answer(r, <<>>, length)
    BY <1>4 DEF ReadPage, CursorOf, page
  <2>2. QED BY <1>1, <1>2, <1>4, <2>1, EndAnswered
<1>5. CASE page = <<>> /\ realization = "sql"
  <2>1. /\ stage' = [stage EXCEPT ![r] = "heads"]
        /\ UNCHANGED <<realization, length, mode, limit, at, next, first, seen, owed>>
    BY <1>5 DEF ReadPage, page
  <2>2. TypeOK' /\ OthersKept(r)
    BY <2>1 DEF IInv, TypeOK, OthersKept
  <2>3. ReaderSound(r)
    BY DEF IInv
  <2>4. stage'[r] = "heads"
    BY <2>1 DEF IInv, TypeOK
  <2>5. ReaderSound(r)'
    BY <1>1, <1>5, <2>1, <2>3, <2>4 DEF ReaderSound, Asking, Settled
  <2>6. QED BY <2>1, <2>2, <2>5, OthersSound
<1>6. QED BY <1>1, <1>3, <1>4, <1>5

(* the heads read after a page,                                            *)
LEMMA ReadHeadsKeeps ==
    ASSUME IInv, NEW r \in Readers, ReadHeads(r)
    PROVE  IInv'
<1>1. stage[r] = "heads" /\ realization # "whole"
  BY DEF ReadHeads, IInv, ReaderSound
<1>2. QED BY <1>1, EndAnswered DEF ReadHeads

(* a statement that fails.                                                 *)
LEMMA FailKeeps ==
    ASSUME IInv, NEW r \in Readers, Fail(r)
    PROVE  IInv'
<1>1. TypeOK'
  BY NothingHeld DEF IInv, TypeOK, Fail
<1>2. OthersKept(r)
  BY DEF IInv, TypeOK, Fail, OthersKept
<1>3. /\ stage'[r] = "idle" /\ seen'[r] = <<>> /\ owed'[r] = 0
      /\ realization' = realization /\ length' = length /\ length \in Nat
  BY DEF IInv, TypeOK, Fail
<1>4. ReaderSound(r)'
  BY <1>3, NothingHeld DEF ReaderSound, Asking, Settled
<1>5. QED BY <1>1, <1>2, <1>3, <1>4, OthersSound

(* An append while readers are between their looks at the word.            *)
LEMMA AppendKeeps ==
    ASSUME IInv, AppendReceipt
    PROVE  IInv'
<1>1. TypeOK'
  BY DEF IInv, TypeOK, AppendReceipt, reader
<1>2. length' >= length /\ realization' = realization
  BY DEF IInv, TypeOK, AppendReceipt
<1>3. ASSUME NEW q \in Readers PROVE ReaderSound(q)'
  BY <1>1, <1>2, KeptSound DEF AppendReceipt, reader
<1>4. QED BY <1>1, <1>3 DEF IInv

----------------------------------------------------------------------------
(* The theorems.                                                           *)

(* At first nobody has asked.                                              *)
LEMMA InitSound == Init => IInv
<1> SUFFICES ASSUME Init PROVE IInv
  OBVIOUS
<1>1. TypeOK
  BY NothingHeld DEF Init, TypeOK, Bounds
<1>2. ASSUME NEW r \in Readers PROVE ReaderSound(r)
  BY <1>1, NothingHeld DEF Init, TypeOK, ReaderSound, Asking, Settled
<1>3. QED BY <1>1, <1>2 DEF IInv

(* Every step keeps the invariant.                                         *)
LEMMA StepSound == IInv /\ [Next]_vars => IInv'
<1> SUFFICES ASSUME IInv, [Next]_vars PROVE IInv'
  OBVIOUS
<1>1. CASE AppendReceipt
  BY <1>1, AppendKeeps
<1>2. ASSUME NEW r \in Readers, NEW mark \in Marks, NEW bound \in Limits \union {Unbounded},
             Since(r, mark, bound)
      PROVE  IInv'
  BY <1>2, SinceKeeps
<1>3. ASSUME NEW r \in Readers, NEW mark \in Marks, Drain(r, mark) PROVE IInv'
  BY <1>3, DrainKeeps
<1>4. ASSUME NEW r \in Readers, NEW bound \in Limits \union {Unbounded}, Resume(r, bound)
      PROVE  IInv'
  BY <1>4, ResumeKeeps
<1>5. ASSUME NEW r \in Readers, ReadPage(r) PROVE IInv'
  BY <1>5, ReadPageKeeps
<1>6. ASSUME NEW r \in Readers, ReadHeads(r) PROVE IInv'
  BY <1>6, ReadHeadsKeeps
<1>7. ASSUME NEW r \in Readers, Fail(r) PROVE IInv'
  BY <1>7, FailKeeps
<1>8. CASE UNCHANGED vars
  <2>1. TypeOK'
    BY <1>8 DEF IInv, TypeOK, vars, reader
  <2>2. length' >= length /\ realization' = realization
    BY <1>8 DEF IInv, TypeOK, vars
  <2>3. ASSUME NEW q \in Readers PROVE ReaderSound(q)'
    BY <1>8, <2>1, <2>2, KeptSound DEF vars, reader
  <2>4. QED BY <2>1, <2>3 DEF IInv
<1>9. QED BY <1>1, <1>2, <1>3, <1>4, <1>5, <1>6, <1>7, <1>8 DEF Next

(***************************************************************************)
(* The inductive invariant (WordLog.ts since, in its three realizations).  *)
(***************************************************************************)
THEOREM Inductive == Spec => []IInv
  BY InitSound, StepSound, PTL DEF Spec

(***************************************************************************)
(* Reading is faithful (WordLog.ts since, history.ts drainFrom): every     *)
(* receipt from the mark on, once and in order, a cursor within the word,  *)
(* and a drain that reaches the end it was asked at, however many readers  *)
(* and writers there are, whatever bounds they name.                       *)
(***************************************************************************)
THEOREM ReadsAreFaithful == Spec => []PagesFaithful
<1>1. ASSUME IInv, NEW r \in Readers
      PROVE  /\ realization = "whole" /\ stage[r] = "answered" => Contiguous(r)
             /\ \A j, k \in DOMAIN seen[r] : j < k => seen[r][j] < seen[r][k]
             /\ stage[r] = "answered" => next[r] <= length
             /\ mode[r] = "drain" /\ stage[r] = "answered" => next[r] >= owed[r]
  <2>1. ReaderSound(r)
    BY <1>1 DEF IInv
  <2>2. QED BY <2>1 DEF ReaderSound, Settled, Rising, RunFrom, Contiguous
<1>2. IInv => PagesFaithful
  BY <1>1 DEF PagesFaithful, NothingMissed, InOrder, CursorWithin, DrainReachesEnd
<1>3. QED BY <1>2, Inductive, PTL

(***************************************************************************)
(* The word only grows (WordLog.ts, "append only"): no call of a reader,   *)
(* answered or failed, takes a receipt back or changes where the word is   *)
(* kept.                                                                   *)
(***************************************************************************)
THEOREM WordGrows == Spec => [][length' >= length /\ realization' = realization]_vars
<1>1. IInv /\ [Next]_vars => [length' >= length /\ realization' = realization]_vars
  <2> SUFFICES ASSUME IInv, Next PROVE length' >= length /\ realization' = realization
    OBVIOUS
  <2>1. length \in Nat
    BY DEF IInv, TypeOK
  <2>2. CASE AppendReceipt
    BY <2>1, <2>2 DEF AppendReceipt
  <2>3. CASE UNCHANGED <<realization, length>>
    BY <2>1, <2>3
  <2>4. QED BY <2>2, <2>3 DEF Next, Since, Drain, Resume, ReadPage, ReadHeads, Fail, Answer
<1>2. QED BY <1>1, Inductive, PTL DEF Spec

----------------------------------------------------------------------------
(* The panel: what the fold makes of the pages it is handed.               *)

(* Numbers have a least one in every nonempty set of them.                 *)
LEMMA Least ==
    ASSUME NEW S, S \subseteq Nat, S # {}
    PROVE  \E n \in S : \A m \in S : n <= m
  <1>1. IsWellFoundedOn(OpToRel(<, Nat), Nat)
    BY NatLessThanWellFounded
  <1>2. PICK n \in S : \A m \in S : <<m, n>> \notin OpToRel(<, Nat)
    BY <1>1, WFMin
  <1>3. \A m \in S : ~(m < n)
    BY <1>2 DEF OpToRel
  <1>. QED  BY <1>3

(***************************************************************************)
(* Counting.  The rank of a number among others is how many of them are    *)
(* below it.                                                               *)
(***************************************************************************)
Under(S, n) == {e \in S : e < n}
Held(s)     == {s[k] : k \in DOMAIN s}

(* A larger number of a set has a larger rank, and every rank is within    *)
(* the size of the set.                                                    *)
LEMMA RanksGrow ==
    ASSUME NEW S, S \subseteq Nat, IsFiniteSet(S), NEW a \in S
    PROVE  /\ Cardinality(Under(S, a)) \in Nat
           /\ Cardinality(Under(S, a)) < Cardinality(S)
           /\ \A b \in S : a < b => Cardinality(Under(S, a)) < Cardinality(Under(S, b))
  <1>1. ASSUME NEW T, Under(S, a) \subseteq T, T \subseteq S, a \in T
        PROVE  Cardinality(Under(S, a)) \in Nat /\ Cardinality(Under(S, a)) < Cardinality(T)
    <2>1. IsFiniteSet(T) /\ Cardinality(T) \in Nat
      BY <1>1, FS_Subset, FS_CardinalityType
    <2>2. IsFiniteSet(Under(S, a)) /\ Cardinality(Under(S, a)) \in Nat
      BY FS_Subset, FS_CardinalityType DEF Under
    <2>3. a \notin Under(S, a)
      BY DEF Under
    <2>4. Cardinality(Under(S, a) \cup {a}) = Cardinality(Under(S, a)) + 1
      BY <2>2, <2>3, FS_AddElement
    <2>5. Under(S, a) \cup {a} \in SUBSET T
      BY <1>1
    <2>6. Cardinality(Under(S, a) \cup {a}) <= Cardinality(T)
      BY <2>1, <2>5, FS_Subset
    <2>. QED  BY <2>1, <2>2, <2>4, <2>6
  <1>2. Under(S, a) \subseteq S
    BY DEF Under
  <1>3. ASSUME NEW b \in S, a < b
        PROVE  Under(S, a) \subseteq Under(S, b) /\ Under(S, b) \subseteq S /\ a \in Under(S, b)
    <2>1. \A e \in S : e < a => e < b
      <3>. SUFFICES ASSUME NEW e \in S, e < a PROVE e < b
        OBVIOUS
      <3>1. e \in Nat /\ a \in Nat /\ b \in Nat
        OBVIOUS
      <3>. QED  BY <1>3, <3>1
    <2>. QED  BY <1>3, <2>1 DEF Under
  <1>. QED  BY <1>1, <1>2, <1>3

(* So two numbers of a set with one rank are one number.                   *)
LEMMA RanksApart ==
    ASSUME NEW S, S \subseteq Nat, IsFiniteSet(S), NEW a \in S, NEW b \in S,
           Cardinality(Under(S, a)) = Cardinality(Under(S, b))
    PROVE  a = b
  <1>1. Cardinality(Under(S, a)) \in Nat /\ Cardinality(Under(S, b)) \in Nat
    BY RanksGrow
  <1>2. a < b => Cardinality(Under(S, a)) < Cardinality(Under(S, b))
    BY RanksGrow
  <1>3. b < a => Cardinality(Under(S, b)) < Cardinality(Under(S, a))
    BY RanksGrow
  <1>4. a \in Nat /\ b \in Nat
    OBVIOUS
  <1>. QED  BY <1>1, <1>2, <1>3, <1>4

(* In a rising sequence each number's rank is its place, from zero.        *)
LEMMA RisingRanks ==
    ASSUME NEW s \in Seq(Nat), Rising(s)
    PROVE  /\ Held(s) \subseteq Nat
           /\ IsFiniteSet(Held(s)) /\ Cardinality(Held(s)) = Len(s)
           /\ \A k \in DOMAIN s : Cardinality(Under(Held(s), s[k])) = k - 1
  <1>1. /\ Len(s) \in Nat /\ DOMAIN s = 1..Len(s) /\ \A k \in 1..Len(s) : s[k] \in Nat
    OBVIOUS
  <1>2. ASSUME NEW m \in Nat, m <= Len(s)
        PROVE  LET T == {s[j] : j \in 1..m} IN IsFiniteSet(T) /\ Cardinality(T) = m
    <2>. DEFINE T == {s[j] : j \in 1..m}
                f == [j \in 1..m |-> s[j]]
    <2>1. f \in Surjection(1..m, T)
      BY DEF Surjection
    <2>2. ASSUME NEW j \in 1..m, NEW k \in 1..m, f[j] = f[k]
          PROVE  j = k
      <3>1. j \in DOMAIN s /\ k \in DOMAIN s /\ s[j] = s[k] /\ s[j] \in Nat /\ j \in Nat /\ k \in Nat
        BY <1>1, <1>2, <2>2
      <3>2. ~(j < k) /\ ~(k < j)
        BY <3>1 DEF Rising
      <3>. QED  BY <3>1, <3>2
    <2>3. f \in Injection(1..m, T)
      BY <2>1, <2>2 DEF Injection, Surjection, IsInjective
    <2>4. ExistsBijection(1..m, T)
      BY <2>1, <2>3 DEF ExistsBijection, Bijection
    <2>. HIDE DEF T
    <2>5. IsFiniteSet(T) /\ Cardinality(T) = m
      BY <2>4, FS_NatBijection, FS_CountingElements
    <2>. QED  BY <2>5 DEF T
  <1>3. Held(s) = {s[j] : j \in 1..Len(s)}
    BY <1>1 DEF Held
  <1>4. ASSUME NEW k \in DOMAIN s
        PROVE  Cardinality(Under(Held(s), s[k])) = k - 1
    <2>1. k \in Nat /\ k >= 1 /\ k <= Len(s) /\ k - 1 \in Nat /\ k - 1 <= Len(s)
      BY <1>1
    <2>2. \A j \in 1..Len(s) : s[j] < s[k] <=> j <= k - 1
      <3>. SUFFICES ASSUME NEW j \in 1..Len(s) PROVE s[j] < s[k] <=> j <= k - 1
        OBVIOUS
      <3>1. j \in Nat /\ s[j] \in Nat /\ s[k] \in Nat /\ j \in DOMAIN s
        BY <1>1
      <3>2. j < k => s[j] < s[k]
        BY <3>1 DEF Rising
      <3>3. k < j => s[k] < s[j]
        BY <3>1 DEF Rising
      <3>. QED  BY <2>1, <3>1, <3>2, <3>3
    <2>3. Under(Held(s), s[k]) = {s[j] : j \in 1..(k - 1)}
      <3>1. ASSUME NEW e \in Under(Held(s), s[k]) PROVE e \in {s[j] : j \in 1..(k - 1)}
        <4>1. PICK j \in 1..Len(s) : e = s[j]
          BY <1>3 DEF Under
        <4>2. s[j] < s[k]
          BY <4>1 DEF Under
        <4>3. j \in 1..(k - 1)
          BY <2>1, <2>2, <4>2
        <4>. QED  BY <4>1, <4>3
      <3>2. ASSUME NEW j \in 1..(k - 1) PROVE s[j] \in Under(Held(s), s[k])
        <4>1. j \in 1..Len(s) /\ j <= k - 1
          BY <1>1, <2>1
        <4>. QED  BY <1>3, <2>2, <4>1 DEF Under
      <3>. QED  BY <3>1, <3>2
    <2>. QED  BY <1>2, <2>1, <2>3
  <1>5. Held(s) \subseteq Nat
    <2>. SUFFICES ASSUME NEW j \in 1..Len(s) PROVE s[j] \in Nat
      BY <1>3, Zenon
    <2>. QED  BY <1>1
  <1>6. IsFiniteSet(Held(s)) /\ Cardinality(Held(s)) = Len(s)
    <2>1. LET T == {s[j] : j \in 1..Len(s)} IN IsFiniteSet(T) /\ Cardinality(T) = Len(s)
      <3>1. Len(s) \in Nat /\ Len(s) <= Len(s)
        BY <1>1
      <3>. QED  BY <1>2, <3>1
    <2>. QED  BY <1>3, <2>1
  <1>. QED  BY <1>4, <1>5, <1>6

(* Every rank within the size of a finite set is some member's.            *)
LEMMA EachRank ==
    ASSUME NEW S, S \subseteq Nat, IsFiniteSet(S), NEW n \in 1..Cardinality(S)
    PROVE  \E a \in S : Cardinality(Under(S, a)) = n - 1
  <1>. DEFINE size == Cardinality(S)
              T == 1..size
              f == [a \in S |-> Cardinality(Under(S, a)) + 1]
  <1>1. size \in Nat
    BY FS_CardinalityType
  <1>2. IsFiniteSet(T) /\ Cardinality(T) = size
    BY <1>1, FS_Interval
  <1>3. \A a \in S : Cardinality(Under(S, a)) \in Nat /\ Cardinality(Under(S, a)) < size
    BY RanksGrow
  <1>4. f \in [S -> T]
    BY <1>1, <1>3
  <1>5. \A a, b \in S : f[a] = f[b] => a = b
    <2>. SUFFICES ASSUME NEW a \in S, NEW b \in S, f[a] = f[b] PROVE a = b
      OBVIOUS
    <2>1. Cardinality(Under(S, a)) = Cardinality(Under(S, b))
      BY <1>3
    <2>. QED  BY <2>1, RanksApart
  <1>6. f \in Injection(S, T)
    BY <1>4, <1>5 DEF Injection, IsInjective
  <1>. HIDE DEF f, T
  <1>7. f \in Surjection(S, T)
    BY <1>2, <1>6, FS_Injection DEF size
  <1>8. \E a \in S : f[a] = n
    BY <1>7 DEF Surjection, T
  <1>. QED  BY <1>3, <1>8 DEF f

(* What is listed of a rising page rises, and is what was kept of it.      *)
LEMMA ListedRises ==
    ASSUME NEW marks \in Seq(Nat), Rising(marks), NEW places \in SUBSET DOMAIN marks
    PROVE  /\ Listed(marks, places) \in Seq(Nat)
           /\ Rising(Listed(marks, places))
           /\ Held(Listed(marks, places)) = {marks[k] : k \in places}
           /\ Listed(marks, places) = <<>> <=> places = {}
  <1>. DEFINE size == Cardinality(places)
              Spot(n) == CHOOSE k \in places : Cardinality({j \in places : j < k}) = n - 1
              listed == [n \in 1..size |-> marks[Spot(n)]]
  <1>1. DOMAIN marks = 1..Len(marks) /\ Len(marks) \in Nat /\ \A k \in 1..Len(marks) : marks[k] \in Nat
    OBVIOUS
  <1>2. places \subseteq Nat /\ IsFiniteSet(places) /\ size \in Nat
    <2>1. IsFiniteSet(1..Len(marks)) /\ places \in SUBSET (1..Len(marks))
      BY <1>1, FS_Interval
    <2>2. IsFiniteSet(places)
      BY <2>1, FS_Subset
    <2>. QED  BY <1>1, <2>1, <2>2, FS_CardinalityType
  <1>3. \A k \in places : {j \in places : j < k} = Under(places, k)
    BY DEF Under
  <1>4. ASSUME NEW n \in 1..size
        PROVE  Spot(n) \in places /\ Cardinality(Under(places, Spot(n))) = n - 1
    <2>1. \E k \in places : Cardinality(Under(places, k)) = n - 1
      BY <1>2, EachRank
    <2>2. \E k \in places : Cardinality({j \in places : j < k}) = n - 1
      BY <2>1 DEF Under
    <2>3. Spot(n) \in places /\ Cardinality({j \in places : j < Spot(n)}) = n - 1
      BY <2>2
    <2>. HIDE DEF Spot
    <2>. QED  BY <2>3 DEF Under
  <1>5. ASSUME NEW k \in places
        PROVE  \E n \in 1..size : Spot(n) = k
    <2>1. Cardinality(Under(places, k)) \in Nat /\ Cardinality(Under(places, k)) < size
      BY <1>2, RanksGrow
    <2>2. PICK n \in 1..size : n - 1 = Cardinality(Under(places, k))
      <3>1. Cardinality(Under(places, k)) + 1 \in 1..size
        BY <1>2, <2>1
      <3>2. (Cardinality(Under(places, k)) + 1) - 1 = Cardinality(Under(places, k))
        BY <2>1
      <3>. QED  BY <3>1, <3>2
    <2>3. Spot(n) = k
      BY <1>2, <1>4, <2>2, RanksApart
    <2>. QED  BY <2>3
  <1>6. ASSUME NEW m \in 1..size, NEW n \in 1..size, m < n
        PROVE  Spot(m) < Spot(n)
    <2>1. Spot(m) \in places /\ Spot(n) \in places
      BY <1>4
    <2>2. Cardinality(Under(places, Spot(m))) = m - 1 /\ Cardinality(Under(places, Spot(n))) = n - 1
      BY <1>4
    <2>3. Spot(m) # Spot(n) /\ ~(Spot(n) < Spot(m))
      <3>. PICK a, b : a = Spot(m) /\ b = Spot(n)
        OBVIOUS
      <3>. HIDE DEF Spot
      <3>1. m - 1 # n - 1 /\ ~(n - 1 < m - 1)
        BY <1>2, <1>6
      <3>2. a # b
        BY <2>2, <3>1
      <3>3. b < a => Cardinality(Under(places, b)) < Cardinality(Under(places, a))
        BY <1>2, <2>1, RanksGrow
      <3>. QED  BY <2>2, <3>1, <3>2, <3>3
    <2>. QED
      <3>. HIDE DEF Spot
      <3>. QED  BY <1>2, <2>1, <2>3
  <1>. HIDE DEF Spot
  <1>7. listed \in Seq(Nat) /\ DOMAIN listed = 1..size /\ Len(listed) = size
    BY <1>1, <1>2, <1>4
  <1>8. Rising(listed)
    <2>. SUFFICES ASSUME NEW m \in 1..size, NEW n \in 1..size, m < n
                  PROVE  marks[Spot(m)] < marks[Spot(n)]
      BY <1>7 DEF Rising
    <2>1. Spot(m) < Spot(n) /\ Spot(m) \in DOMAIN marks /\ Spot(n) \in DOMAIN marks
      BY <1>4, <1>6
    <2>. QED  BY <2>1 DEF Rising
  <1>9. Held(listed) = {marks[k] : k \in places}
    BY <1>4, <1>5, <1>7 DEF Held
  <1>10. listed = <<>> <=> places = {}
    <2>1. size = 0 <=> places = {}
      BY <1>2, FS_EmptySet
    <2>2. listed = <<>> <=> size = 0
      <3>. HIDE DEF listed
      <3>. QED  BY <1>2, <1>7
    <2>. QED  BY <2>1, <2>2
  <1>11. Listed(marks, places) = listed
    BY DEF Listed, Spot
  <1>. QED  BY <1>7, <1>8, <1>9, <1>10, <1>11

(***************************************************************************)
(* A column that holds what it owes: it counts each receipt once, and its  *)
(* tail is the last of them, in order, each at its rank.                   *)
(***************************************************************************)
ColumnExact(column, due) ==
    /\ column \in [count : Nat, tailRevision : Int, tail : Seq(Nat)]
    /\ due \subseteq Nat /\ IsFiniteSet(due)
    /\ column.count = Cardinality(due)
    /\ Len(column.tail) = AtMost(column.count, Carried)
    /\ Rising(column.tail)
    /\ \A k \in DOMAIN column.tail :
          /\ column.tail[k] \in due
          /\ Cardinality(Under(due, column.tail[k])) = CarrierBase(column) + k - 1
    /\ \A seq \in due : seq <= column.tailRevision
    /\ IF due = {} THEN column.tailRevision = -1 ELSE column.tailRevision \in due

(* The last marks of a sequence, no more than a column carries.            *)
LEMMA LastOnes ==
    ASSUME NEW s \in Seq(Nat)
    PROVE  LET drop == IF Len(s) > Carried THEN Len(s) - Carried ELSE 0
           IN  /\ LastK(s) \in Seq(Nat) /\ Len(LastK(s)) = Len(s) - drop
               /\ Len(LastK(s)) = AtMost(Len(s), Carried)
               /\ DOMAIN LastK(s) = 1..Len(LastK(s))
               /\ \A k \in DOMAIN LastK(s) : drop + k \in DOMAIN s /\ LastK(s)[k] = s[drop + k]
  <1>. DEFINE drop == IF Len(s) > Carried THEN Len(s) - Carried ELSE 0
              from == IF Len(s) > Carried THEN Len(s) - Carried + 1 ELSE 1
              last == SubSeq(s, from, Len(s))
  <1>0. Len(s) \in Nat /\ Carried \in Nat
    BY PanelAssumption
  <1>1. /\ Len(s) \in Nat /\ Carried \in Nat /\ Carried >= 1
        /\ drop \in Nat /\ from = drop + 1 /\ drop <= Len(s)
        /\ DOMAIN s = 1..Len(s) /\ \A k \in 1..Len(s) : s[k] \in Nat
    BY PanelAssumption
  <1>. HIDE DEF last
  <1>2. Len(s) - drop = AtMost(Len(s), Carried)
    <2>1. CASE Len(s) > Carried
      <3>1. drop = Len(s) - Carried /\ AtMost(Len(s), Carried) = Carried
        BY <1>0, <2>1 DEF AtMost
      <3>. HIDE DEF drop, from
      <3>. QED  BY <1>0, <3>1
    <2>2. CASE ~(Len(s) > Carried)
      <3>1. drop = 0 /\ AtMost(Len(s), Carried) = Len(s)
        BY <1>0, <2>2 DEF AtMost
      <3>. HIDE DEF drop, from
      <3>. QED  BY <1>0, <3>1
    <2>. QED  BY <2>1, <2>2
  <1>. USE DEF last
  <1>. HIDE DEF drop, from
  <1>3. /\ last \in Seq(Nat) /\ Len(last) = Len(s) - drop
        /\ \A k \in 1..(Len(s) - drop) : last[k] = s[drop + k]
    <2>1. last = [k \in 1..(Len(s) - drop) |-> s[drop + k]]
      BY <1>1
    <2>2. \A k \in 1..(Len(s) - drop) : s[drop + k] \in Nat
      BY <1>1
    <2>3. Len(s) - drop \in Nat
      BY <1>1
    <2>. QED  BY <2>1, <2>2, <2>3
  <1>4. DOMAIN last = 1..Len(last)
    BY <1>3
  <1>5. \A k \in 1..(Len(s) - drop) : drop + k \in 1..Len(s)
    BY <1>1
  <1>6. LastK(s) = last
    BY DEF LastK, last, from
  <1>. HIDE DEF last
  <1>7. /\ last \in Seq(Nat) /\ Len(last) = Len(s) - drop
        /\ Len(last) = AtMost(Len(s), Carried)
        /\ DOMAIN last = 1..Len(last)
        /\ \A k \in DOMAIN last : drop + k \in DOMAIN s /\ last[k] = s[drop + k]
    BY <1>1, <1>2, <1>3, <1>4, <1>5
  <1>. QED  BY <1>6, <1>7 DEF drop

(* What a column's base becomes when its tail takes b marks and drops d.   *)
LEMMA BaseMoves ==
    ASSUME NEW n \in Nat, NEW a \in Nat, NEW b \in Nat, NEW d \in Nat,
           NEW kept, kept = (a + b) - d
    PROVE  (n + b) - kept = (n - a) + d
  OBVIOUS

(* New receipts after those a column holds: the grown column is exact.     *)
LEMMA ColumnGrows ==
    ASSUME NEW column, NEW due, ColumnExact(column, due),
           NEW added \in Seq(Nat), Rising(added), added # <<>>,
           \A seq \in due, mark \in Held(added) : seq < mark
    PROVE  ColumnExact(Grown(column, added), due \cup Held(added))
  <1>. DEFINE old == column.tail
              whole == old \o added
              tail == LastK(whole)
              all == due \cup Held(added)
              base == CarrierBase(column)
              drop == IF Len(whole) > Carried THEN Len(whole) - Carried ELSE 0
  <1>1. /\ column.count \in Nat /\ old \in Seq(Nat) /\ due \subseteq Nat /\ IsFiniteSet(due)
        /\ column.count = Cardinality(due) /\ Len(old) = AtMost(column.count, Carried)
        /\ Rising(old)
    BY DEF ColumnExact
  <1>2. /\ \A k \in DOMAIN old : old[k] \in due /\ Cardinality(Under(due, old[k])) = base + k - 1
        /\ \A seq \in due : seq <= column.tailRevision
    BY DEF ColumnExact
  <1>3. /\ Len(old) \in Nat /\ Len(added) \in Nat /\ Len(added) >= 1
        /\ DOMAIN old = 1..Len(old) /\ DOMAIN added = 1..Len(added)
        /\ \A k \in DOMAIN added : added[k] \in Nat
    BY <1>1
  <1>4. /\ Held(added) \subseteq Nat /\ IsFiniteSet(Held(added))
        /\ Cardinality(Held(added)) = Len(added)
        /\ \A k \in DOMAIN added : Cardinality(Under(Held(added), added[k])) = k - 1
    BY RisingRanks
  <1>5. \A k \in DOMAIN added : added[k] \in Held(added)
    BY DEF Held
  <1>. HIDE DEF old
  <1>6. /\ whole \in Seq(Nat) /\ Len(whole) = Len(old) + Len(added)
        /\ DOMAIN whole = 1..(Len(old) + Len(added))
    <2>1. whole \in Seq(Nat) /\ Len(whole) = Len(old) + Len(added)
      BY <1>1, ConcatProperties
    <2>2. DOMAIN whole = 1..Len(whole)
      BY <2>1, LenProperties
    <2>. QED  BY <2>1, <2>2
  <1>7. \A k \in DOMAIN whole : IF k <= Len(old) THEN k \in DOMAIN old /\ whole[k] = old[k]
                                ELSE k - Len(old) \in DOMAIN added /\ whole[k] = added[k - Len(old)]
    BY <1>1, <1>3
  <1>. HIDE DEF whole
  <1>8. due \cap Held(added) = {}
    <2>. SUFFICES ASSUME NEW e \in due, e \in Held(added) PROVE FALSE
      OBVIOUS
    <2>1. e < e /\ e \in Nat
      BY <1>1
    <2>. QED  BY <2>1
  <1>9. /\ all \subseteq Nat /\ IsFiniteSet(all)
        /\ Cardinality(all) = column.count + Len(added)
    <2>1. IsFiniteSet(all) /\ Cardinality(all) = Cardinality(due) + Cardinality(Held(added)) - Cardinality(due \cap Held(added))
      BY <1>1, <1>4, FS_Union
    <2>2. Cardinality(due \cap Held(added)) = 0
      BY <1>8, FS_EmptySet
    <2>3. /\ Cardinality(due) = column.count /\ Cardinality(Held(added)) = Len(added)
          /\ column.count \in Nat /\ Len(added) \in Nat
      BY <1>1, <1>3, <1>4
    <2>4. Cardinality(all) = column.count + Len(added)
      BY <2>1, <2>2, <2>3
    <2>. QED  BY <1>1, <1>4, <2>1, <2>4
  <1>10. ASSUME NEW seq \in due PROVE Under(all, seq) = Under(due, seq)
    <2>1. \A e \in Held(added) : ~(e < seq)
      <3>. SUFFICES ASSUME NEW e \in Held(added) PROVE ~(e < seq)
        OBVIOUS
      <3>1. seq < e /\ e \in Nat /\ seq \in Nat
        BY <1>1, <1>4
      <3>. QED  BY <3>1
    <2>. QED  BY <2>1 DEF Under
  <1>11. ASSUME NEW k \in DOMAIN added
         PROVE  Cardinality(Under(all, added[k])) = column.count + k - 1
    <2>1. Under(all, added[k]) = due \cup Under(Held(added), added[k])
      BY <1>5 DEF Under
    <2>2. Under(Held(added), added[k]) \subseteq Held(added)
      BY DEF Under
    <2>3. IsFiniteSet(Under(Held(added), added[k])) /\ due \cap Under(Held(added), added[k]) = {}
      BY <1>4, <1>8, <2>2, FS_Subset
    <2>4. Cardinality(due \cup Under(Held(added), added[k]))
             = Cardinality(due) + Cardinality(Under(Held(added), added[k]))
               - Cardinality(due \cap Under(Held(added), added[k]))
      BY <1>1, <2>3, FS_Union
    <2>5. Cardinality(due \cap Under(Held(added), added[k])) = 0
      BY <2>3, FS_EmptySet
    <2>6. k \in Nat
      BY <1>3
    <2>7. /\ Cardinality(due) = column.count /\ column.count \in Nat
          /\ Cardinality(Under(Held(added), added[k])) = k - 1
      BY <1>1, <1>4
    <2>8. Cardinality(due \cup Under(Held(added), added[k])) = column.count + k - 1
      BY <2>4, <2>5, <2>6, <2>7
    <2>. QED  BY <2>1, <2>8
  <1>12. base = column.count - Len(old) /\ base \in Nat
    BY <1>1, <1>3, PanelAssumption DEF CarrierBase, AtMost, old
  <1>. HIDE DEF base
  <1>13. ASSUME NEW k \in DOMAIN whole
         PROVE  whole[k] \in all /\ Cardinality(Under(all, whole[k])) = base + k - 1
    <2>0. k \in Nat
      BY <1>3, <1>6
    <2>1. CASE k <= Len(old)
      <3>1. k \in DOMAIN old /\ whole[k] = old[k]
        BY <1>7, <2>1
      <3>. QED  BY <1>2, <1>10, <3>1
    <2>2. CASE ~(k <= Len(old))
      <3>. DEFINE j == k - Len(old)
      <3>1. j \in DOMAIN added /\ whole[k] = added[j]
        BY <1>7, <2>2
      <3>2. column.count + j - 1 = base + k - 1
        BY <1>1, <1>3, <1>12, <2>0
      <3>. HIDE DEF j
      <3>. QED  BY <1>5, <1>11, <3>1, <3>2
    <2>. QED  BY <2>1, <2>2
  <1>14. Rising(whole)
    <2>. SUFFICES ASSUME NEW j \in DOMAIN whole, NEW k \in DOMAIN whole, j < k
                  PROVE  whole[j] < whole[k]
      BY DEF Rising
    <2>0. j \in Nat /\ k \in Nat
      BY <1>3, <1>6, SMTT(30)
    <2>1. CASE k <= Len(old)
      <3>1. j <= Len(old)
        BY <1>3, <2>0, <2>1
      <3>2. j \in DOMAIN old /\ k \in DOMAIN old /\ whole[j] = old[j] /\ whole[k] = old[k]
        BY <1>7, <2>1, <3>1
      <3>. QED  BY <1>1, <3>2 DEF Rising
    <2>2. CASE j <= Len(old) /\ ~(k <= Len(old))
      <3>1. whole[j] \in due
        BY <1>2, <1>7, <2>2
      <3>2. whole[k] \in Held(added)
        BY <1>5, <1>7, <2>2
      <3>. QED  BY <3>1, <3>2
    <2>3. CASE ~(j <= Len(old))
      <3>1. ~(k <= Len(old))
        BY <1>3, <2>0, <2>3
      <3>2. /\ j - Len(old) \in DOMAIN added /\ k - Len(old) \in DOMAIN added
            /\ whole[j] = added[j - Len(old)] /\ whole[k] = added[k - Len(old)]
        BY <1>7, <2>3, <3>1
      <3>3. j - Len(old) < k - Len(old)
        BY <1>3, <2>0
      <3>. QED  BY <3>2, <3>3 DEF Rising
    <2>. QED  BY <2>1, <2>2, <2>3
  <1>15. /\ tail \in Seq(Nat) /\ Len(tail) = Len(whole) - drop
         /\ Len(tail) = AtMost(Len(whole), Carried)
         /\ DOMAIN tail = 1..Len(tail)
         /\ \A k \in DOMAIN tail : drop + k \in DOMAIN whole /\ tail[k] = whole[drop + k]
    BY <1>6, LastOnes
  <1>16. /\ drop \in Nat /\ Len(whole) \in Nat /\ Len(tail) \in Nat /\ Len(tail) >= 1
    <2>1. Carried \in Nat \ {0}
      BY PanelAssumption
    <2>2. Len(whole) \in Nat /\ Len(whole) >= 1
      BY <1>3, <1>6
    <2>3. drop \in Nat
      BY <2>1, <2>2
    <2>4. Len(tail) \in Nat /\ Len(tail) >= 1
      BY <1>15, <2>1, <2>2 DEF AtMost
    <2>. QED  BY <2>2, <2>3, <2>4
  <1>. HIDE DEF tail, drop
  <1>. DEFINE count == column.count + Len(added)
              grown == [count |-> count, tailRevision |-> tail[Len(tail)], tail |-> tail]
  <1>17. Grown(column, added) = grown
    BY DEF Grown, tail, whole, old
  <1>18. Len(tail) \in DOMAIN tail /\ tail[Len(tail)] \in Nat
    BY <1>15, <1>16
  <1>19. grown \in [count : Nat, tailRevision : Int, tail : Seq(Nat)]
    BY <1>1, <1>3, <1>15, <1>18
  <1>20. Len(tail) = AtMost(count, Carried)
    <2>1. /\ column.count \in Nat /\ Len(old) \in Nat /\ Len(added) \in Nat
          /\ Len(old) = AtMost(column.count, Carried)
          /\ Len(whole) = Len(old) + Len(added)
          /\ Len(tail) = AtMost(Len(whole), Carried)
          /\ Carried \in Nat
      BY <1>1, <1>3, <1>6, <1>15, PanelAssumption
    <2>. PICK a : a = Len(old)
      OBVIOUS
    <2>. PICK b : b = Len(added)
      OBVIOUS
    <2>. PICK n : n = column.count
      OBVIOUS
    <2>2. /\ n \in Nat /\ a \in Nat /\ b \in Nat /\ a = AtMost(n, Carried)
          /\ count = n + b /\ Len(tail) = AtMost(a + b, Carried)
      BY <2>1
    <2>3. CASE n <= Carried
      <3>1. a = n
        BY <2>1, <2>2, <2>3 DEF AtMost
      <3>. QED  BY <2>2, <3>1
    <2>4. CASE ~(n <= Carried)
      <3>1. a = Carried
        BY <2>1, <2>2, <2>4 DEF AtMost
      <3>2. AtMost(a + b, Carried) = Carried
        BY <2>1, <2>2, <3>1 DEF AtMost
      <3>3. AtMost(n + b, Carried) = Carried
        BY <2>1, <2>2, <2>4 DEF AtMost
      <3>. QED  BY <2>2, <3>2, <3>3
    <2>. QED  BY <2>3, <2>4
  <1>21. CarrierBase(grown) = base + drop
    <2>1. CarrierBase(grown) = count - Len(tail)
      BY DEF CarrierBase
    <2>2. /\ column.count \in Nat /\ Len(old) \in Nat /\ Len(added) \in Nat /\ drop \in Nat
          /\ base = column.count - Len(old) /\ Len(tail) = (Len(old) + Len(added)) - drop
      BY <1>1, <1>3, <1>6, <1>12, <1>15, <1>16
    <2>3. count - Len(tail) = (column.count - Len(old)) + drop
      BY <2>2, BaseMoves, SMTT(30)
    <2>. QED  BY <2>1, <2>2, <2>3
  <1>22. ASSUME NEW k \in DOMAIN tail
         PROVE  tail[k] \in all /\ Cardinality(Under(all, tail[k])) = CarrierBase(grown) + k - 1
    <2>0. k \in Nat /\ drop + k \in DOMAIN whole
      BY <1>15, <1>16
    <2>. PICK j : j = drop + k
      OBVIOUS
    <2>1. /\ tail[k] = whole[j]
          /\ whole[j] \in all /\ Cardinality(Under(all, whole[j])) = base + j - 1
      BY <1>13, <1>15, <2>0
    <2>2. base + j - 1 = CarrierBase(grown) + k - 1
      <3>1. base \in Nat /\ drop \in Nat /\ k \in Nat /\ CarrierBase(grown) = base + drop
        BY <1>12, <1>16, <1>21, <2>0
      <3>. PICK total : total = CarrierBase(grown)
        OBVIOUS
      <3>2. total = base + drop
        BY <3>1
      <3>3. base + j - 1 = total + k - 1
        BY <3>1, <3>2
      <3>. QED  BY <3>3
    <2>. QED  BY <2>1, <2>2
  <1>23. Rising(tail)
    <2>. SUFFICES ASSUME NEW j \in DOMAIN tail, NEW k \in DOMAIN tail, j < k
                  PROVE  tail[j] < tail[k]
      BY DEF Rising
    <2>1. /\ drop + j \in DOMAIN whole /\ drop + k \in DOMAIN whole /\ drop + j < drop + k
          /\ tail[j] = whole[drop + j] /\ tail[k] = whole[drop + k]
      BY <1>15, <1>16
    <2>. QED  BY <1>14, <2>1 DEF Rising
  <1>24. tail[Len(tail)] = added[Len(added)]
    <2>1. drop + Len(tail) = Len(whole) /\ ~(Len(whole) <= Len(old)) /\ Len(whole) - Len(old) = Len(added)
      BY <1>3, <1>6, <1>15, <1>16
    <2>2. tail[Len(tail)] = whole[Len(whole)] /\ Len(whole) \in DOMAIN whole
      BY <1>15, <1>18, <2>1
    <2>. QED  BY <1>7, <2>1, <2>2
  <1>25. ASSUME NEW seq \in all PROVE seq <= tail[Len(tail)]
    <2>1. Len(added) \in DOMAIN added /\ added[Len(added)] \in Nat /\ added[Len(added)] \in Held(added)
      BY <1>3, <1>5
    <2>2. CASE seq \in due
      <3>1. seq < added[Len(added)] /\ seq \in Nat
        BY <1>1, <2>1, <2>2
      <3>. QED  BY <1>24, <2>1, <3>1
    <2>3. CASE seq \in Held(added)
      <3>1. PICK k \in DOMAIN added : added[k] = seq
        BY <2>3 DEF Held
      <3>2. k \in Nat /\ k <= Len(added) /\ added[k] \in Nat
        BY <1>3
      <3>3. k < Len(added) => added[k] < added[Len(added)]
        BY <2>1 DEF Rising
      <3>. QED  BY <1>3, <1>24, <2>1, <3>1, <3>2, <3>3
    <2>. QED  BY <2>2, <2>3
  <1>26. all # {} /\ tail[Len(tail)] \in all
    BY <1>3, <1>5, <1>24
  <1>. HIDE DEF all, count
  <1>27. ColumnExact(grown, all)
    <2>1. count = Cardinality(all)
      BY <1>9 DEF count
    <2>. QED  BY <1>9, <1>19, <1>20, <1>22, <1>23, <1>25, <1>26, <2>1 DEF ColumnExact, all
  <1>. QED  BY <1>17, <1>27 DEF all

(***************************************************************************)
(* What a column owes at a mark, and a fold that is exact there.           *)
(***************************************************************************)
Due(c, mark) == {seq \in 0..(mark - 1) : LaneOf[seq] = c}

Statuses == {"Idle", "Live", "Refused"}
AColumn  == [count : Nat, tailRevision : Int, tail : Seq(Nat)]

ExactAt(fold, mark) ==
    /\ fold \in [status : Statuses, mark : Nat, columns : [Columns -> AColumn]]
    /\ fold.mark <= mark
    /\ \A c \in Columns : ColumnExact(fold.columns[c], Due(c, mark))

(* A page as the word answered it: the receipts from a mark to its cursor. *)
Answers(page, from) ==
    /\ page = PageOf(page.word, page.next)
    /\ page.word \in Seq(Nat) /\ RunFrom(page.word, from)
    /\ page.next = from + Len(page.word)

(* A run of marks rises.                                                   *)
LEMMA RunRises ==
    ASSUME NEW s \in Seq(Nat), NEW from \in Nat, RunFrom(s, from)
    PROVE  Rising(s)
  <1>. SUFFICES ASSUME NEW j \in DOMAIN s, NEW k \in DOMAIN s, j < k PROVE s[j] < s[k]
    BY DEF Rising
  <1>1. j \in Nat /\ k \in Nat
    OBVIOUS
  <1>2. s[j] = from + j - 1 /\ s[k] = from + k - 1
    BY DEF RunFrom
  <1>. QED  BY <1>1, <1>2

(* What is owed at a mark is a finite set of numbers below it.             *)
LEMMA DueFinite ==
    ASSUME NEW c, NEW mark \in Nat
    PROVE  Due(c, mark) \subseteq Nat /\ IsFiniteSet(Due(c, mark))
  <1>1. IsFiniteSet(0..(mark - 1)) /\ Due(c, mark) \in SUBSET (0..(mark - 1))
    BY FS_Interval DEF Due
  <1>2. IsFiniteSet(Due(c, mark))
    BY <1>1, FS_Subset
  <1>. QED  BY <1>1, <1>2

(* One column under a page that is no truncation: whatever of it the fold  *)
(* held before, it then holds what is owed at the further of the two marks *)
LEMMA PageFolds ==
    ASSUME NEW mark \in Nat, ExactAt(panel, mark),
           NEW from \in Nat, from <= mark, NEW page, Answers(page, from),
           panel.mark <= page.next, page.next <= MaxWord, NEW c \in Columns
    PROVE  LET added == AdmittedTo(page, c)
           IN  ColumnExact(IF added = <<>> THEN panel.columns[c] ELSE Grown(panel.columns[c], added),
                           Due(c, AtLeast(page.next, mark)))
  <1>. DEFINE word == page.word
              column == panel.columns[c]
              places == {k \in DOMAIN word : /\ word[k] >= panel.mark
                                             /\ LaneOf[word[k]] = c
                                             /\ word[k] > column.tailRevision}
              added == Listed(word, places)
              due == Due(c, mark)
              owing == Due(c, AtLeast(page.next, mark))
  <1>1. AdmittedTo(page, c) = added
    BY DEF AdmittedTo
  <1>2. /\ word \in Seq(Nat) /\ RunFrom(word, from) /\ page.next = from + Len(word)
        /\ Len(word) \in Nat /\ DOMAIN word = 1..Len(word)
    BY DEF Answers
  <1>3. Rising(word)
    BY <1>2, RunRises
  <1>4. ColumnExact(column, due) /\ panel.mark \in Nat /\ panel.mark <= mark
    BY DEF ExactAt
  <1>5. places \in SUBSET DOMAIN word
    OBVIOUS
  <1>6. /\ added \in Seq(Nat) /\ Rising(added)
        /\ Held(added) = {word[k] : k \in places}
        /\ added = <<>> <=> places = {}
    BY <1>2, <1>3, <1>5, ListedRises
  <1>7. /\ column.tailRevision \in Int /\ column.tailRevision < mark
        /\ \A seq \in due : seq <= column.tailRevision
    <2>1. column.tailRevision \in Int /\ \A seq \in due : seq <= column.tailRevision
      BY <1>4 DEF ColumnExact
    <2>2. column.tailRevision = -1 \/ column.tailRevision \in due
      BY <1>4 DEF ColumnExact
    <2>3. \A seq \in due : seq < mark
      BY DEF Due
    <2>. HIDE DEF column, due
    <2>. QED  BY <2>1, <2>2, <2>3
  <1>8. \A k \in DOMAIN word : word[k] = from + k - 1 /\ word[k] \in Nat /\ k \in Nat
    <2>1. \A k \in DOMAIN word : word[k] = from + k - 1 /\ k \in 1..Len(word)
      BY <1>2, Zenon DEF RunFrom
    <2>2. \A k \in 1..Len(word) : from + k - 1 \in Nat
      BY <1>2
    <2>. QED  BY <2>1, <2>2
  <1>. DEFINE upto == AtLeast(page.next, mark)
  <1>9. /\ page.next \in Nat /\ upto \in Nat /\ mark <= upto /\ page.next <= upto
        /\ upto = mark \/ upto = page.next
    BY <1>2 DEF AtLeast
  <1>. HIDE DEF word, column, upto
  <1>10. Held(added) \subseteq owing
    <2>. SUFFICES ASSUME NEW k \in places PROVE word[k] \in owing
      BY <1>6
    <2>1. /\ k \in Nat /\ k <= Len(word) /\ word[k] \in Nat /\ word[k] = from + k - 1
          /\ LaneOf[word[k]] = c
      BY <1>2, <1>8
    <2>2. word[k] \in 0..(upto - 1)
      BY <1>2, <1>9, <2>1
    <2>. QED  BY <2>1, <2>2 DEF Due, upto
  <1>11. due \subseteq owing
    <2>1. \A seq \in 0..(mark - 1) : seq \in 0..(upto - 1)
      BY <1>9
    <2>. QED  BY <2>1 DEF Due, upto
  <1>12. owing \subseteq due \cup Held(added)
    <2>. SUFFICES ASSUME NEW seq \in owing, seq \notin due PROVE seq \in Held(added)
      OBVIOUS
    <2>1. seq \in 0..(upto - 1) /\ LaneOf[seq] = c
      BY DEF Due, upto
    <2>2. seq \in Nat /\ mark <= seq /\ seq < page.next
      <3>1. seq \notin 0..(mark - 1)
        BY <2>1 DEF Due
      <3>. QED  BY <1>9, <2>1, <3>1
    <2>. PICK k : k = seq - from + 1
      OBVIOUS
    <2>3. k \in DOMAIN word /\ from + k - 1 = seq
      BY <1>2, <2>2
    <2>4. word[k] = seq
      BY <1>8, <2>3
    <2>5. seq >= panel.mark /\ seq > column.tailRevision
      BY <1>4, <1>7, <2>2
    <2>6. k \in places
      BY <2>1, <2>3, <2>4, <2>5 DEF column
    <2>. QED  BY <1>6, <2>4, <2>6
  <1>13. owing = due \cup Held(added)
    BY <1>10, <1>11, <1>12
  <1>14. \A seq \in due, one \in Held(added) : seq < one
    <2>. SUFFICES ASSUME NEW seq \in due, NEW k \in places PROVE seq < word[k]
      BY <1>6
    <2>1. word[k] > column.tailRevision /\ word[k] \in Nat
      BY <1>8 DEF column
    <2>2. seq <= column.tailRevision /\ seq \in Int
      BY <1>7 DEF Due
    <2>. QED  BY <1>7, <2>1, <2>2
  <1>. HIDE DEF due, owing, added, places
  <1>15. CASE added = <<>>
    <2>1. Held(added) = {}
      BY <1>6, <1>15
    <2>2. owing = due
      BY <1>13, <2>1
    <2>3. ColumnExact(column, owing)
      BY <1>4, <2>2
    <2>. QED  BY <1>1, <1>15, <2>3 DEF column, owing, upto
  <1>16. CASE added # <<>>
    <2>1. ColumnExact(Grown(column, added), owing)
      BY <1>4, <1>6, <1>13, <1>14, <1>16, ColumnGrows
    <2>. QED  BY <1>1, <1>16, <2>1 DEF column, owing, upto
  <1>. QED  BY <1>15, <1>16

(* Whatever arrives for a page the word answered, the fold stays exact at  *)
(* the furthest mark it was at.                                            *)
LEMMA DocumentFolds ==
    ASSUME NEW mark \in Nat, ExactAt(panel, mark),
           NEW from \in Nat, from <= mark, NEW page, Answers(page, from),
           page.next <= MaxWord, NEW document \in Arrivals(page)
    PROVE  /\ ExactAt(FoldDocument(document), AtLeast(FoldDocument(document).mark, mark))
           /\ FoldDocument(document).mark <= AtLeast(page.next, mark)
  <1>. DEFINE refused == [panel EXCEPT !.status = "Refused"]
  <1>1. /\ panel \in [status : Statuses, mark : Nat, columns : [Columns -> AColumn]]
        /\ panel.mark <= mark /\ panel.mark \in Nat
        /\ \A c \in Columns : ColumnExact(panel.columns[c], Due(c, mark))
    BY DEF ExactAt
  <1>2. /\ page.word \in Seq(Nat) /\ RunFrom(page.word, from) /\ page.next = from + Len(page.word)
        /\ Len(page.word) \in Nat /\ page.next \in Nat
        /\ page = PageOf(page.word, page.next)
    BY DEF Answers
  <1>3. mark <= AtLeast(page.next, mark) /\ AtLeast(page.next, mark) \in Nat
    BY <1>2 DEF AtLeast
  <1>4. CASE FoldDocument(document) = refused
    <2>1. /\ refused \in [status : Statuses, mark : Nat, columns : [Columns -> AColumn]]
          /\ refused.mark = panel.mark /\ refused.columns = panel.columns
      BY <1>1 DEF Statuses
    <2>2. AtLeast(refused.mark, mark) = mark
      BY <1>1, <2>1 DEF AtLeast
    <2>. HIDE DEF refused
    <2>3. ExactAt(refused, mark)
      BY <1>1, <2>1 DEF ExactAt
    <2>4. refused.mark <= AtLeast(page.next, mark)
      BY <1>1, <1>3, <2>1
    <2>. QED  BY <1>4, <2>2, <2>3, <2>4
  <1>5. CASE document # page
    <2>1. ~WellFormedPage(document)
      <3>1. CASE document = [page EXCEPT !.addresses = FALSE]
        BY <1>2, <3>1 DEF WellFormedPage, PageOf
      <3>2. CASE document = [page EXCEPT !.next = -1]
        <4>1. document.next = -1
          BY <1>2, <3>2 DEF PageOf
        <4>. QED  BY <4>1 DEF WellFormedPage
      <3>3. CASE /\ Len(page.word) > 1
                 /\ document = [page EXCEPT !.word = [k \in DOMAIN @ |-> @[Len(@) + 1 - k]]]
        <4>. DEFINE word == page.word
                    turned == [k \in DOMAIN word |-> word[Len(word) + 1 - k]]
        <4>1. document.word = turned
          BY <1>2, <3>3 DEF PageOf
        <4>2. word \in Seq(Nat) /\ RunFrom(word, from) /\ Len(word) \in Nat /\ Len(word) > 1
          BY <1>2, <3>3
        <4>. HIDE DEF word
        <4>3. DOMAIN word = 1..Len(word)
          BY <4>2
        <4>4. 1 \in DOMAIN word /\ 2 \in DOMAIN word /\ Len(word) \in DOMAIN word /\ Len(word) - 1 \in DOMAIN word
          BY <4>2, <4>3
        <4>5. turned[1] = word[Len(word)] /\ turned[2] = word[Len(word) - 1]
          BY <4>2, <4>4
        <4>6. turned[1] = from + Len(word) - 1 /\ turned[2] = from + (Len(word) - 1) - 1
          BY <4>2, <4>4, <4>5 DEF RunFrom
        <4>7. ~(turned[1] < turned[2])
          BY <4>2, <4>6
        <4>8. 1 \in DOMAIN turned /\ 2 \in DOMAIN turned
          BY <4>4
        <4>. HIDE DEF turned
        <4>9. ~Increasing(document.word)
          BY <4>1, <4>7, <4>8 DEF Increasing
        <4>. QED  BY <4>9 DEF WellFormedPage
      <3>. QED  BY <1>5, <3>1, <3>2, <3>3 DEF Arrivals
    <2>2. FoldDocument(document) = refused
      BY <2>1 DEF FoldDocument
    <2>. QED  BY <1>4, <2>2
  <1>6. CASE document = page /\ FoldDocument(page) # refused
    <2>1. FoldDocument(page) = FoldPage(page)
      BY <1>6 DEF FoldDocument
    <2>2. CASE Truncated(page)
      <3>. DEFINE back == [panel EXCEPT !.status = "Refused", !.mark = page.next]
      <3>1. FoldDocument(page) = back
        BY <2>1, <2>2 DEF FoldPage
      <3>2. /\ back \in [status : Statuses, mark : Nat, columns : [Columns -> AColumn]]
            /\ back.mark = page.next /\ back.columns = panel.columns
        BY <1>1, <1>2 DEF Statuses
      <3>3. page.next <= mark
        BY <1>1, <1>2, <2>2 DEF Truncated
      <3>4. AtLeast(page.next, mark) = mark
        BY <1>2, <3>3 DEF AtLeast
      <3>. HIDE DEF back
      <3>5. ExactAt(back, mark)
        BY <1>1, <3>2, <3>3 DEF ExactAt
      <3>. QED  BY <1>6, <3>1, <3>2, <3>3, <3>4, <3>5
    <2>3. CASE ~Truncated(page)
      <3>. DEFINE upto == AtLeast(page.next, mark)
                  Turn(c) == LET added == AdmittedTo(page, c)
                             IN  IF added = <<>> THEN panel.columns[c] ELSE Grown(panel.columns[c], added)
                  live == [status |-> "Live", mark |-> page.next, columns |-> [c \in Columns |-> Turn(c)]]
      <3>1. FoldDocument(page) = live
        BY <2>1, <2>3 DEF FoldPage
      <3>2. panel.mark <= page.next
        BY <1>1, <1>2, <2>3 DEF Truncated
      <3>3. \A c \in Columns : ColumnExact(Turn(c), Due(c, upto))
        BY <3>2, PageFolds
      <3>. HIDE DEF Turn
      <3>4. \A c \in Columns : Turn(c) \in AColumn
        BY <3>3 DEF ColumnExact, AColumn
      <3>5. /\ live \in [status : Statuses, mark : Nat, columns : [Columns -> AColumn]]
            /\ live.mark = page.next /\ \A c \in Columns : live.columns[c] = Turn(c)
        BY <1>2, <3>4 DEF Statuses
      <3>6. page.next <= upto
        BY <1>2 DEF AtLeast
      <3>. HIDE DEF live, upto
      <3>7. ExactAt(live, upto)
        BY <3>3, <3>5, <3>6 DEF ExactAt
      <3>. QED  BY <1>6, <3>1, <3>5, <3>6, <3>7 DEF upto
    <2>. QED  BY <2>2, <2>3
  <1>. QED  BY <1>4, <1>5, <1>6

(***************************************************************************)
(* The placement of a partition: in each column a strip of the rows before *)
(* its floor, if there are any, and one square for every row from there.   *)
(***************************************************************************)
RankIn(c, mark, seq) == Cardinality(Under(Due(c, mark), seq))

Tiles(op, c, partition) ==
    LET column == panel.columns[c]
        from   == FloorOf(c, partition)
    IN  \/ from > 0 /\ op = Strip(c, from)
        \/ \E row \in from..(column.count - 1) :
              op = Square(c, row, column.tail[row - CarrierBase(column) + 1])

(* The floor of a column lies between the oldest row it can name and its   *)
(* count, and from there on every row has a receipt of its rank.           *)
LEMMA FloorRows ==
    ASSUME NEW mark \in Nat, ExactAt(panel, mark), NEW partition \in [Columns -> Nat],
           NEW c \in Columns
    PROVE  LET column == panel.columns[c]
               from   == FloorOf(c, partition)
               base   == CarrierBase(column)
           IN  /\ column.count \in Nat /\ from \in Nat /\ base \in Nat
               /\ base <= from /\ from <= column.count
               /\ from = AtLeast(AtMost(partition[c], column.count), base)
               /\ \A row \in from..(column.count - 1) :
                     /\ row - base + 1 \in DOMAIN column.tail
                     /\ column.tail[row - base + 1] \in Due(c, mark)
                     /\ RankIn(c, mark, column.tail[row - base + 1]) = row
  <1>. DEFINE column == panel.columns[c]
              from == FloorOf(c, partition)
              base == CarrierBase(column)
  <1>1. ColumnExact(column, Due(c, mark))
    BY DEF ExactAt
  <1>2. /\ column.count \in Nat /\ column.tail \in Seq(Nat)
        /\ Len(column.tail) = AtMost(column.count, Carried)
    BY <1>1 DEF ColumnExact
  <1>3. \A k \in DOMAIN column.tail :
           column.tail[k] \in Due(c, mark) /\ RankIn(c, mark, column.tail[k]) = base + k - 1
    BY <1>1 DEF ColumnExact, RankIn
  <1>4. from = AtLeast(AtMost(partition[c], column.count), base)
    BY DEF FloorOf
  <1>5. base = column.count - Len(column.tail)
    BY DEF CarrierBase
  <1>6. partition[c] \in Nat /\ Carried \in Nat
    BY PanelAssumption
  <1>. HIDE DEF column, from, base
  <1>7. Len(column.tail) \in Nat /\ DOMAIN column.tail = 1..Len(column.tail)
    BY <1>2
  <1>8. base \in Nat /\ Len(column.tail) <= column.count /\ base <= column.count
    BY <1>2, <1>5, <1>6, <1>7 DEF AtMost
  <1>9. from \in Nat /\ base <= from /\ from <= column.count
    BY <1>2, <1>4, <1>6, <1>8 DEF AtMost, AtLeast
  <1>10. ASSUME NEW row \in from..(column.count - 1)
         PROVE  /\ row - base + 1 \in DOMAIN column.tail
                /\ column.tail[row - base + 1] \in Due(c, mark)
                /\ RankIn(c, mark, column.tail[row - base + 1]) = row
    <2>. PICK k : k = row - base + 1
      OBVIOUS
    <2>1. k \in DOMAIN column.tail /\ base + k - 1 = row
      <3>1. column.count \in Nat /\ from \in Nat /\ base \in Nat /\ base <= from
        BY <1>2, <1>8, <1>9
      <3>2. row \in Int /\ from <= row /\ row <= column.count - 1
        BY <3>1
      <3>3. base <= row /\ row - base + 1 >= 1 /\ row - base + 1 <= column.count - base
        BY <3>1, <3>2
      <3>4. Len(column.tail) = column.count - base
        BY <1>2, <1>5, <1>7
      <3>5. k \in 1..Len(column.tail) /\ base + k - 1 = row
        BY <1>7, <3>1, <3>2, <3>3, <3>4
      <3>. QED  BY <1>7, <3>5
    <2>. QED  BY <1>3, <2>1
  <1>. QED  BY <1>2, <1>4, <1>8, <1>9, <1>10 DEF column, from, base

(* What is placed is what tiles some column.                               *)
LEMMA PlacedTiles ==
    ASSUME NEW mark \in Nat, ExactAt(panel, mark), NEW partition \in [Columns -> Nat], NEW op
    PROVE  op \in PlacementOf(partition) <=> \E c \in Columns : Tiles(op, c, partition)
  <1>. DEFINE Of(c) ==
                 LET column == panel.columns[c]
                     from   == FloorOf(c, partition)
                     base   == CarrierBase(column)
                 IN  (IF from > 0 THEN {Strip(c, from)} ELSE {})
                     \cup {Square(c, row, column.tail[row - base + 1]) :
                             row \in {r \in from..(column.count - 1) : r - base + 1 \in DOMAIN column.tail}}
  <1>1. PlacementOf(partition) = UNION {Of(c) : c \in Columns}
    BY DEF PlacementOf
  <1>2. ASSUME NEW c \in Columns
        PROVE  op \in Of(c) <=> Tiles(op, c, partition)
    <2>1. \A row \in FloorOf(c, partition)..(panel.columns[c].count - 1) :
             row - CarrierBase(panel.columns[c]) + 1 \in DOMAIN panel.columns[c].tail
      BY FloorRows
    <2>. QED  BY <2>1 DEF Tiles
  <1>. HIDE DEF Of
  <1>. QED  BY <1>1, <1>2

(* The parts of a mark.                                                    *)
LEMMA MarkParts ==
    ASSUME NEW c, NEW rows, NEW row, NEW seq
    PROVE  /\ Strip(c, rows).col = c /\ Strip(c, rows).row = 0 /\ Strip(c, rows).covers = rows
           /\ Strip(c, rows).kind = "Strip"
           /\ Square(c, row, seq).col = c /\ Square(c, row, seq).row = row
           /\ Square(c, row, seq).covers = 1 /\ Square(c, row, seq).of = seq
           /\ Square(c, row, seq).kind = "Square"
  BY DEF Strip, Square

(* Two marks of a placement are in two columns, or one lies under the      *)
(* other.                                                                  *)
LEMMA MarksStacked ==
    ASSUME NEW mark \in Nat, ExactAt(panel, mark), NEW partition \in [Columns -> Nat],
           NEW a \in PlacementOf(partition), NEW b \in PlacementOf(partition), a # b
    PROVE  /\ a.col \in Columns /\ a.row \in Nat /\ a.covers \in Nat /\ a.covers >= 1
           /\ a.col # b.col \/ a.row + a.covers <= b.row \/ b.row + b.covers <= a.row
  <1>1. PICK c \in Columns : Tiles(a, c, partition)
    BY PlacedTiles
  <1>2. PICK d \in Columns : Tiles(b, d, partition)
    BY PlacedTiles
  <1>3. /\ FloorOf(c, partition) \in Nat /\ FloorOf(d, partition) \in Nat
        /\ panel.columns[c].count \in Nat /\ panel.columns[d].count \in Nat
    BY FloorRows
  <1>4. CASE FloorOf(c, partition) > 0 /\ a = Strip(c, FloorOf(c, partition))
    <2>1. a.col = c /\ a.row = 0 /\ a.covers = FloorOf(c, partition)
      BY <1>4, MarkParts
    <2>2. CASE FloorOf(d, partition) > 0 /\ b = Strip(d, FloorOf(d, partition))
      <3>1. c # d /\ b.col = d
        BY <1>4, <2>2, MarkParts
      <3>. QED  BY <1>3, <1>4, <2>1, <3>1
    <2>3. CASE \E row \in FloorOf(d, partition)..(panel.columns[d].count - 1) :
                  b = Square(d, row, panel.columns[d].tail[row - CarrierBase(panel.columns[d]) + 1])
      <3>1. PICK row \in FloorOf(d, partition)..(panel.columns[d].count - 1) :
                    b = Square(d, row, panel.columns[d].tail[row - CarrierBase(panel.columns[d]) + 1])
        BY <2>3
      <3>2. b.col = d /\ b.row = row /\ row \in Int /\ FloorOf(d, partition) <= row
        BY <1>3, <3>1, MarkParts
      <3>3. CASE c = d
        BY <1>3, <1>4, <2>1, <3>2, <3>3
      <3>4. CASE c # d
        BY <1>3, <1>4, <2>1, <3>2, <3>4
      <3>. QED  BY <3>3, <3>4
    <2>. QED  BY <1>2, <2>2, <2>3 DEF Tiles
  <1>5. CASE \E row \in FloorOf(c, partition)..(panel.columns[c].count - 1) :
                a = Square(c, row, panel.columns[c].tail[row - CarrierBase(panel.columns[c]) + 1])
    <2>1. PICK row \in FloorOf(c, partition)..(panel.columns[c].count - 1) :
                  a = Square(c, row, panel.columns[c].tail[row - CarrierBase(panel.columns[c]) + 1])
      BY <1>5
    <2>2. /\ a.col = c /\ a.row = row /\ a.covers = 1
          /\ row \in Nat /\ FloorOf(c, partition) <= row
      BY <1>3, <2>1, MarkParts
    <2>3. CASE FloorOf(d, partition) > 0 /\ b = Strip(d, FloorOf(d, partition))
      <3>1. b.col = d /\ b.row = 0 /\ b.covers = FloorOf(d, partition)
        BY <2>3, MarkParts
      <3>2. CASE c = d
        BY <1>3, <2>2, <3>1, <3>2
      <3>3. CASE c # d
        BY <2>2, <3>1, <3>3
      <3>. QED  BY <3>2, <3>3
    <2>4. CASE \E one \in FloorOf(d, partition)..(panel.columns[d].count - 1) :
                  b = Square(d, one, panel.columns[d].tail[one - CarrierBase(panel.columns[d]) + 1])
      <3>1. PICK one \in FloorOf(d, partition)..(panel.columns[d].count - 1) :
                    b = Square(d, one, panel.columns[d].tail[one - CarrierBase(panel.columns[d]) + 1])
        BY <2>4
      <3>2. b.col = d /\ b.row = one /\ b.covers = 1 /\ one \in Nat
        BY <1>3, <3>1, MarkParts
      <3>3. c # d \/ row # one
        BY <2>1, <3>1
      <3>. QED  BY <2>2, <3>2, <3>3
    <2>. QED  BY <1>2, <2>3, <2>4 DEF Tiles
  <1>. QED  BY <1>1, <1>4, <1>5 DEF Tiles

(* Every row of every column is covered once, and a square's receipt has   *)
(* its row for rank.                                                       *)
LEMMA PlacementCovers ==
    ASSUME reached \in Nat, ExactAt(panel, reached), floor \in [Columns -> Nat]
    PROVE  RowsCovered
  <1>. DEFINE ops == PlacementOf(floor)
  <1>1. ASSUME NEW c \in Columns, NEW row \in 0..(panel.columns[c].count - 1)
        PROVE  Cardinality({op \in ops : op.col = c /\ row \in op.row..(op.row + op.covers - 1)}) = 1
    <2>. DEFINE column == panel.columns[c]
                from == FloorOf(c, floor)
                there == {op \in ops : op.col = c /\ row \in op.row..(op.row + op.covers - 1)}
    <2>1. column.count \in Nat /\ from \in Nat /\ from <= column.count /\ row \in Nat
      BY FloorRows
    <2>2. \E op \in ops : op.col = c /\ op.row \in Nat /\ op.row <= row /\ op.covers \in Nat
                          /\ row <= op.row + op.covers - 1
      <3>1. CASE row < from
        <4>. DEFINE op == Strip(c, from)
        <4>1. Tiles(op, c, floor)
          BY <2>1, <3>1 DEF Tiles
        <4>2. op \in ops
          BY <4>1, PlacedTiles
        <4>3. op.col = c /\ op.row = 0 /\ op.covers = from
          BY MarkParts
        <4>. HIDE DEF op, from, ops
        <4>. QED  BY <2>1, <3>1, <4>2, <4>3
      <3>2. CASE ~(row < from)
        <4>. DEFINE op == Square(c, row, column.tail[row - CarrierBase(column) + 1])
        <4>1. row \in from..(column.count - 1)
          BY <2>1, <3>2
        <4>2. op \in ops
          BY <4>1, PlacedTiles DEF Tiles
        <4>3. op.col = c /\ op.row = row /\ op.covers = 1
          BY MarkParts
        <4>. HIDE DEF op, from, ops
        <4>. QED  BY <2>1, <4>2, <4>3
      <3>. QED  BY <3>1, <3>2
    <2>3. PICK one \in ops : /\ one.col = c /\ one.row \in Nat /\ one.row <= row /\ one.covers \in Nat
                             /\ row <= one.row + one.covers - 1
      BY <2>2
    <2>4. one \in there
      BY <2>1, <2>3
    <2>5. ASSUME NEW other \in there, other # one
          PROVE  FALSE
      <3>1. other \in ops /\ other.col = c /\ row \in other.row..(other.row + other.covers - 1)
        OBVIOUS
      <3>2. /\ other.row \in Nat /\ other.covers \in Nat
            /\ other.row + other.covers <= one.row \/ one.row + one.covers <= other.row
        BY <2>3, <2>5, <3>1, MarksStacked
      <3>3. other.row <= row /\ row <= other.row + other.covers - 1
        BY <2>1, <3>1, <3>2
      <3>. QED  BY <2>1, <2>3, <3>2, <3>3
    <2>6. there = {one}
      BY <2>4, <2>5
    <2>. QED  BY <2>6, FS_Singleton
  <1>2. ASSUME NEW c \in Columns, NEW op \in ops, op.col = c, op.kind = "Square"
        PROVE  op.of \in OwedTo(c) /\ RowOf(c, op.of) = op.row
    <2>1. PICK d \in Columns : Tiles(op, d, floor)
      BY PlacedTiles
    <2>2. op # Strip(d, FloorOf(d, floor))
      BY <1>2, MarkParts
    <2>3. PICK row \in FloorOf(d, floor)..(panel.columns[d].count - 1) :
                  op = Square(d, row, panel.columns[d].tail[row - CarrierBase(panel.columns[d]) + 1])
      BY <2>1, <2>2 DEF Tiles
    <2>4. d = c /\ op.row = row /\ op.of = panel.columns[c].tail[row - CarrierBase(panel.columns[c]) + 1]
      BY <1>2, <2>3, MarkParts, SMTT(30)
    <2>5. op.of \in Due(c, reached) /\ RankIn(c, reached, op.of) = row
      BY <2>3, <2>4, FloorRows
    <2>. QED  BY <2>4, <2>5 DEF OwedTo, Due, RowOf, RankIn, Under
  <1>. QED  BY <1>1, <1>2 DEF RowsCovered

(* Columns that are exact are honest.                                      *)
LEMMA ExactHonest ==
    ASSUME reached \in Nat, ExactAt(panel, reached)
    PROVE  ColumnsHonest
  <1>. SUFFICES ASSUME NEW c \in Columns
                PROVE  LET column == panel.columns[c]
                       IN  /\ column.count = Cardinality(OwedTo(c))
                           /\ Len(column.tail) = AtMost(column.count, Carried)
                           /\ Increasing(column.tail)
                           /\ \A k \in DOMAIN column.tail :
                                 /\ column.tail[k] \in OwedTo(c)
                                 /\ RowOf(c, column.tail[k]) = CarrierBase(column) + k - 1
    BY DEF ColumnsHonest
  <1>1. OwedTo(c) = Due(c, reached) /\ ColumnExact(panel.columns[c], Due(c, reached))
    BY DEF OwedTo, Due, ExactAt
  <1>2. \A seq : RowOf(c, seq) = Cardinality(Under(Due(c, reached), seq))
    BY <1>1 DEF RowOf, Under
  <1>. QED  BY <1>1, <1>2 DEF ColumnExact, Rising, Increasing

(***************************************************************************)
(* Pixels.                                                                 *)
(***************************************************************************)

(* A product keeps the order of what it scales.                            *)
LEMMA Scaled ==
    ASSUME NEW a \in Int, NEW b \in Int, a <= b, NEW ratio \in Nat
    PROVE  a * ratio <= b * ratio
  <1>1. PICK d \in Nat : b = a + d
    <2>1. b - a \in Nat /\ b = a + (b - a)
      OBVIOUS
    <2>. QED  BY <2>1
  <1>2. b * ratio = a * ratio + d * ratio
    BY <1>1
  <1>3. d * ratio >= 0 /\ d * ratio \in Int /\ a * ratio \in Int
    OBVIOUS
  <1>. QED  BY <1>2, <1>3

(* Rounding keeps the order of edges.                                      *)
LEMMA Snapped ==
    ASSUME NEW a \in Int, NEW b \in Int, a <= b, NEW ratio \in Ratios
    PROVE  Snap(a, ratio) \in Int /\ Snap(b, ratio) \in Int /\ Snap(a, ratio) <= Snap(b, ratio)
  <1>1. ratio \in Nat
    BY PanelAssumption
  <1>2. PICK p, q : p = a * ratio /\ q = b * ratio
    OBVIOUS
  <1>3. p \in Int /\ q \in Int /\ p <= q
    BY <1>1, <1>2, Scaled
  <1>4. (p + 1) \div 2 \in Int /\ (q + 1) \div 2 \in Int /\ (p + 1) \div 2 <= (q + 1) \div 2
    BY <1>3
  <1>. QED  BY <1>2, <1>4 DEF Snap

(* The gutter before a column is no less than the narrowest.               *)
LEMMA Gutters == \A c \in Columns : GutterBefore(c) \in Nat /\ GutterBefore(c) >= 15
  BY DEF GutterBefore

(* The origins of the columns exist: a first recurrence of them fails      *)
(* nowhere, since a least column it failed at would follow one it did not. *)
LEMMA OriginsExist ==
    \E f : f = [c \in Columns |-> IF c = 0 THEN 0 ELSE f[c - 1] + SquareCss + GutterBefore(c)]
  <1>. DEFINE Value(c, prior) == IF c = 0 THEN 0 ELSE prior + SquareCss + GutterBefore(c)
              Upto(c) == {f \in [0..c -> Int] : \A d \in 0..c : f[d] = Value(d, f[d - 1])}
              failing == {c \in Nat : c < Lanes /\ Upto(c) = {}}
  <1>0. Lanes \in Nat /\ Lanes >= 1 /\ SquareCss \in Nat /\ Columns = 0..(Lanes - 1)
    BY PanelAssumption DEF SquareCss, Columns
  <1>1. \A c : Value(0, c) = 0
    OBVIOUS
  <1>2. \A c \in Columns : \A prior \in Int : Value(c, prior) \in Int
    BY <1>0, Gutters
  <1>. HIDE DEF Value
  <1>3. failing = {}
    <2>. SUFFICES ASSUME failing # {} PROVE FALSE
      OBVIOUS
    <2>1. PICK c \in failing : \A d \in failing : c <= d
      BY Least
    <2>2. c \in Nat /\ c < Lanes /\ Upto(c) = {}
      OBVIOUS
    <2>3. CASE c = 0
      <3>. DEFINE f == [d \in 0..0 |-> 0]
      <3>1. f \in [0..0 -> Int] /\ \A d \in 0..0 : d = 0 /\ f[d] = 0
        OBVIOUS
      <3>2. \A d \in 0..0 : f[d] = Value(d, f[d - 1])
        BY <1>1, <3>1
      <3>3. f \in Upto(0)
        BY <3>1, <3>2
      <3>. QED  BY <2>2, <2>3, <3>3
    <2>4. CASE c # 0
      <3>1. c - 1 \in Nat /\ c - 1 < Lanes /\ c - 1 < c
        BY <1>0, <2>2, <2>4
      <3>2. c - 1 \notin failing
        BY <2>1, <2>2, <3>1
      <3>3. Upto(c - 1) # {}
        BY <3>1, <3>2
      <3>4. PICK f \in [0..(c - 1) -> Int] : \A d \in 0..(c - 1) : f[d] = Value(d, f[d - 1])
        BY <3>3
      <3>. DEFINE g == [d \in 0..c |-> IF d = c THEN Value(c, f[c - 1]) ELSE f[d]]
      <3>5. f[c - 1] \in Int /\ c \in Columns
        BY <1>0, <2>2, <3>1, <3>4
      <3>6. Value(c, f[c - 1]) \in Int
        BY <1>2, <3>5
      <3>7. g \in [0..c -> Int]
        <4>1. ASSUME NEW d \in 0..c
              PROVE  (IF d = c THEN Value(c, f[c - 1]) ELSE f[d]) \in Int
          <5>1. CASE d = c
            BY <3>6, <5>1
          <5>2. CASE d # c
            <6>1. d \in 0..(c - 1)
              BY <2>2, <5>2
            <6>. QED  BY <3>4, <5>2, <6>1
          <5>. QED  BY <5>1, <5>2
        <4>. QED  BY <4>1
      <3>8. ASSUME NEW d \in 0..c PROVE g[d] = Value(d, g[d - 1])
        <4>1. CASE d = c
          <5>1. c - 1 \in 0..c /\ c - 1 # c
            BY <2>2, <3>1
          <5>. QED  BY <4>1, <5>1
        <4>2. CASE d # c /\ d # 0
          <5>1. d \in 0..(c - 1) /\ d - 1 \in 0..c /\ d - 1 # c
            BY <2>2, <4>2
          <5>2. g[d] = f[d] /\ g[d - 1] = f[d - 1]
            BY <4>2, <5>1
          <5>. QED  BY <3>4, <5>1, <5>2
        <4>3. CASE d # c /\ d = 0
          <5>1. 0 \in 0..(c - 1)
            BY <2>2, <3>1
          <5>2. g[0] = f[0] /\ f[0] = 0
            BY <1>1, <3>4, <4>3, <5>1
          <5>. QED  BY <1>1, <4>3, <5>2
        <4>. QED  BY <4>1, <4>2, <4>3
      <3>9. g \in Upto(c)
        BY <3>7, <3>8
      <3>. QED  BY <2>2, <3>9
    <2>. QED  BY <2>3, <2>4
  <1>4. Upto(Lanes - 1) # {}
    <2>1. Lanes - 1 \in Nat /\ Lanes - 1 < Lanes
      BY <1>0
    <2>. QED  BY <1>3, <2>1
  <1>5. PICK f \in [0..(Lanes - 1) -> Int] : \A d \in 0..(Lanes - 1) : f[d] = Value(d, f[d - 1])
    BY <1>4
  <1>6. f = [c \in Columns |-> Value(c, f[c - 1])]
    BY <1>0, <1>5
  <1>. QED  BY <1>6 DEF Value

(* Each column but the first begins a gutter after the one before it.      *)
LEMMA Origins ==
    /\ \A c \in Columns : c # 0 => ColumnOriginCss[c] = ColumnOriginCss[c - 1] + SquareCss + GutterBefore(c)
    /\ ColumnOriginCss[0] = 0
  <1>1. 0 \in Columns
    BY PanelAssumption DEF Columns
  <1>2. ColumnOriginCss
           = [c \in Columns |-> IF c = 0 THEN 0 ELSE ColumnOriginCss[c - 1] + SquareCss + GutterBefore(c)]
    BY OriginsExist DEF ColumnOriginCss
  <1>. QED  BY <1>1, <1>2

(* So a column begins after every column before it has ended.              *)
LEMMA ColumnsInOrder ==
    /\ \A c \in Columns : ColumnOriginCss[c] \in Int
    /\ \A c, d \in Columns : c < d => ColumnOriginCss[c] + SquareCss <= ColumnOriginCss[d]
  <1>. DEFINE Good(d) == /\ ColumnOriginCss[d] \in Int
                         /\ \A c \in Columns : c < d => ColumnOriginCss[c] + SquareCss <= ColumnOriginCss[d]
              failing == {d \in Columns : ~Good(d)}
  <1>0. Columns = 0..(Lanes - 1) /\ Lanes \in Nat /\ SquareCss \in Nat
    BY PanelAssumption DEF Columns, SquareCss
  <1>1. SUFFICES ASSUME failing # {} PROVE FALSE
    OBVIOUS
  <1>2. failing \subseteq Nat
    BY <1>0
  <1>3. PICK d \in failing : \A e \in failing : d <= e
    BY <1>1, <1>2, Least
  <1>4. CASE d = 0
    <2>1. ColumnOriginCss[0] \in Int
      BY Origins
    <2>2. \A c \in Columns : ~(c < 0)
      BY <1>0
    <2>. QED  BY <1>3, <1>4, <2>1, <2>2
  <1>5. CASE d # 0
    <2>1. d - 1 \in Columns /\ d - 1 < d /\ ~(d <= d - 1) /\ d \in Columns /\ d \in Nat
      BY <1>0, <1>2, <1>3, <1>5
    <2>2. Good(d - 1)
      BY <1>3, <2>1
    <2>3. ColumnOriginCss[d] = ColumnOriginCss[d - 1] + SquareCss + GutterBefore(d)
      BY <1>5, <2>1, Origins
    <2>4. ColumnOriginCss[d - 1] \in Int /\ GutterBefore(d) \in Nat
      BY <2>1, <2>2, Gutters
    <2>5. ColumnOriginCss[d] \in Int /\ ColumnOriginCss[d - 1] + SquareCss <= ColumnOriginCss[d]
      BY <1>0, <2>3, <2>4
    <2>6. ASSUME NEW c \in Columns, c < d
          PROVE  ColumnOriginCss[c] + SquareCss <= ColumnOriginCss[d]
      <3>1. CASE c = d - 1
        BY <2>5, <3>1
      <3>2. CASE c # d - 1
        <4>1. c < d - 1
          BY <1>0, <2>1, <2>6, <3>2
        <4>2. ColumnOriginCss[c] + SquareCss <= ColumnOriginCss[d - 1]
          BY <2>2, <4>1
        <4>3. ColumnOriginCss[c] \in Int
          <5>1. c \notin failing
            <6>1. c \in Nat /\ ~(d <= c)
              BY <1>0, <2>1, <2>6
            <6>. QED  BY <1>3, <6>1
          <5>. QED  BY <5>1
        <4>. QED  BY <1>0, <2>4, <2>5, <4>2, <4>3, SMTT(30)
      <3>. QED  BY <3>1, <3>2
    <2>. QED  BY <1>3, <2>5, <2>6
  <1>. QED  BY <1>4, <1>5

(* The edges of a mark, and what lies over what it covers.                 *)
LEMMA Bands ==
    ASSUME NEW a, NEW b, a.row \in Nat, a.covers \in Nat, b.row \in Nat, b.covers \in Nat
    PROVE  /\ BandTop(a) \in Int /\ BandBottom(a) \in Int
           /\ a.row + a.covers <= b.row => BandBottom(b) <= BandTop(a)
  BY DEF BandTop, BandBottom, PitchCss, SquareCss

(* No two rectangles of a placement overlap.                               *)
LEMMA PlacementApart ==
    ASSUME NEW mark \in Nat, ExactAt(panel, mark), NEW partition \in [Columns -> Nat],
           NEW view \in Views, NEW ratio \in Ratios
    PROVE  IsDisjoint(Place(PlacementOf(partition), view, ratio))
  <1>. DEFINE Rect(op) == RectOf(op, view, ratio)
  <1>1. SUFFICES ASSUME NEW a \in PlacementOf(partition), NEW b \in PlacementOf(partition),
                        Rect(a) # Rect(b)
                 PROVE  Apart(Rect(a), Rect(b))
    BY DEF IsDisjoint, Place
  <1>2. a # b
    BY <1>1
  <1>3. view.top \in Int
    BY PanelAssumption
  <1>4. /\ a.col \in Columns /\ a.row \in Nat /\ a.covers \in Nat
        /\ b.col \in Columns /\ b.row \in Nat /\ b.covers \in Nat
        /\ a.col # b.col \/ a.row + a.covers <= b.row \/ b.row + b.covers <= a.row
    BY <1>2, MarksStacked
  <1>. DEFINE LeftEdge(op)   == Snap(ColumnOriginCss[op.col], ratio)
              RightEdge(op)  == Snap(ColumnOriginCss[op.col] + SquareCss, ratio)
              Top(op)    == Snap(BandTop(op) - view.top, ratio)
              Bottom(op) == Snap(BandBottom(op) - view.top, ratio)
  <1>5. \A op : /\ Rect(op).x = LeftEdge(op) /\ Rect(op).w = RightEdge(op) - LeftEdge(op)
                /\ Rect(op).y = Top(op) /\ Rect(op).h = Bottom(op) - Top(op)
    BY DEF RectOf
  <1>6. ASSUME NEW one \in PlacementOf(partition)
        PROVE  /\ one.col \in Columns /\ one.row \in Nat /\ one.covers \in Nat
               /\ LeftEdge(one) \in Int /\ RightEdge(one) \in Int /\ Top(one) \in Int /\ Bottom(one) \in Int
    <2>1. one.col \in Columns /\ one.row \in Nat /\ one.covers \in Nat
      <3>1. one = a \/ one # a
        OBVIOUS
      <3>. QED  BY <1>4, <3>1, MarksStacked
    <2>2. ColumnOriginCss[one.col] \in Int /\ SquareCss \in Nat
      BY <2>1, ColumnsInOrder DEF SquareCss
    <2>3. BandTop(one) \in Int /\ BandBottom(one) \in Int
      BY <2>1, Bands
    <2>4. /\ ColumnOriginCss[one.col] + SquareCss \in Int
          /\ BandTop(one) - view.top \in Int /\ BandBottom(one) - view.top \in Int
      BY <1>3, <2>2, <2>3
    <2>5. \A css \in Int : Snap(css, ratio) \in Int
      <3>. TAKE css \in Int
      <3>1. css <= css
        OBVIOUS
      <3>. QED  BY <3>1, Snapped
    <2>. QED  BY <2>1, <2>2, <2>4, <2>5
  <1>7. ASSUME NEW one \in PlacementOf(partition), NEW two \in PlacementOf(partition),
               one.col < two.col
        PROVE  RightEdge(one) <= LeftEdge(two)
    <2>1. ColumnOriginCss[one.col] + SquareCss <= ColumnOriginCss[two.col]
      BY <1>6, <1>7, ColumnsInOrder
    <2>2. ColumnOriginCss[one.col] + SquareCss \in Int /\ ColumnOriginCss[two.col] \in Int
      BY <1>6, ColumnsInOrder DEF SquareCss
    <2>. QED  BY <2>1, <2>2, Snapped
  <1>8. ASSUME NEW one \in PlacementOf(partition), NEW two \in PlacementOf(partition),
               one.row + one.covers <= two.row
        PROVE  Bottom(two) <= Top(one)
    <2>1. BandBottom(two) <= BandTop(one) /\ BandBottom(two) \in Int /\ BandTop(one) \in Int
      BY <1>6, <1>8, Bands
    <2>2. /\ BandBottom(two) - view.top <= BandTop(one) - view.top
          /\ BandBottom(two) - view.top \in Int /\ BandTop(one) - view.top \in Int
      BY <1>3, <2>1
    <2>. QED  BY <2>2, Snapped
  <1>. HIDE DEF LeftEdge, RightEdge, Top, Bottom, Rect
  <1>9. a.col \in Int /\ b.col \in Int
    BY <1>4 DEF Columns
  <1>10. CASE a.col < b.col
    <2>1. Rect(a).x + Rect(a).w <= Rect(b).x
      BY <1>5, <1>6, <1>7, <1>10
    <2>. QED  BY <2>1 DEF Apart
  <1>11. CASE b.col < a.col
    <2>1. Rect(b).x + Rect(b).w <= Rect(a).x
      BY <1>5, <1>6, <1>7, <1>11
    <2>. QED  BY <2>1 DEF Apart
  <1>12. CASE a.row + a.covers <= b.row
    <2>1. Rect(b).y + Rect(b).h <= Rect(a).y
      BY <1>5, <1>6, <1>8, <1>12
    <2>. QED  BY <2>1 DEF Apart
  <1>13. CASE b.row + b.covers <= a.row
    <2>1. Rect(a).y + Rect(a).h <= Rect(b).y
      BY <1>5, <1>6, <1>8, <1>13
    <2>. QED  BY <2>1 DEF Apart
  <1>. QED  BY <1>4, <1>9, <1>10, <1>11, <1>12, <1>13

(***************************************************************************)
(* The inductive invariant of the panel.  A page in flight is a run of the *)
(* word from a mark the fold was at; the fold is exact at the furthest     *)
(* mark it was ever at, which a truncation does not take back; and what is *)
(* drawn still names the rows it was cut for: a square the receipt of its  *)
(* row, a strip the rows before the floor or, where the column could name  *)
(* no older row, some that it still cannot.                                *)
(***************************************************************************)
DrawnFrom(op, c, partition, fold, mark) ==
    \/ \E rows \in Nat \ {0} :
          /\ op = Strip(c, rows)
          /\ rows = partition[c] \/ (partition[c] < rows /\ rows <= CarrierBase(fold.columns[c]))
    \/ \E row \in Nat, seq \in Due(c, mark) :
          op = Square(c, row, seq) /\ partition[c] <= row /\ RankIn(c, mark, seq) = row

HeldBy(ops, partition, fold, mark) ==
    /\ \A op \in ops : \E c \in Columns : DrawnFrom(op, c, partition, fold, mark)
    /\ \A c \in Columns : partition[c] <= fold.columns[c].count

PanelSound ==
    /\ length <= MaxWord
    /\ mode[PanelReader] = "page"
    /\ stage[PanelReader] = "page" => at[PanelReader] <= reached
    /\ first[PanelReader] <= reached
    /\ reached \in Nat /\ reached <= length
    /\ \A page \in flight : page.next <= length /\ \E from \in 0..reached : Answers(page, from)
    /\ ExactAt(panel, reached)
    /\ floor \in [Columns -> Nat]
    /\ held.floor = floor
    /\ HeldBy(held.ops, floor, panel, reached)

PanelIInv == realization = "whole" => IInv /\ PanelSound

(* A fold that is exact further on counts no fewer receipts, can name no   *)
(* older row, and leaves every receipt its rank.                           *)
LEMMA FoldGrows ==
    ASSUME NEW early \in Nat, NEW late \in Nat, early <= late, NEW c \in Columns,
           NEW fold, ExactAt(fold, early), NEW then, ExactAt(then, late)
    PROVE  /\ fold.columns[c].count \in Nat /\ then.columns[c].count \in Nat
           /\ fold.columns[c].count <= then.columns[c].count
           /\ CarrierBase(fold.columns[c]) \in Nat /\ CarrierBase(then.columns[c]) \in Nat
           /\ CarrierBase(fold.columns[c]) <= CarrierBase(then.columns[c])
           /\ \A seq \in Due(c, early) :
                 seq \in Due(c, late) /\ RankIn(c, late, seq) = RankIn(c, early, seq)
  <1>. DEFINE p == fold.columns[c]
              q == then.columns[c]
  <1>1. ColumnExact(p, Due(c, early)) /\ ColumnExact(q, Due(c, late))
    BY DEF ExactAt
  <1>2. /\ p.count \in Nat /\ p.count = Cardinality(Due(c, early))
        /\ Len(p.tail) = AtMost(p.count, Carried)
        /\ q.count \in Nat /\ q.count = Cardinality(Due(c, late))
        /\ Len(q.tail) = AtMost(q.count, Carried)
    BY <1>1 DEF ColumnExact
  <1>3. Due(c, early) \in SUBSET Due(c, late)
    BY DEF Due
  <1>4. IsFiniteSet(Due(c, late))
    BY DueFinite
  <1>. HIDE DEF p, q
  <1>5. p.count <= q.count
    BY <1>2, <1>3, <1>4, FS_Subset
  <1>6. Carried \in Nat
    BY PanelAssumption
  <1>7. /\ CarrierBase(p) \in Nat /\ CarrierBase(q) \in Nat
        /\ CarrierBase(p) <= CarrierBase(q)
    BY <1>2, <1>5, <1>6 DEF CarrierBase, AtMost
  <1>8. ASSUME NEW seq \in Due(c, early)
        PROVE  seq \in Due(c, late) /\ RankIn(c, late, seq) = RankIn(c, early, seq)
    <2>1. \A e \in Due(c, late) : e < seq => e \in Due(c, early)
      <3>. SUFFICES ASSUME NEW e \in Due(c, late), e < seq PROVE e \in Due(c, early)
        OBVIOUS
      <3>1. e \in 0..(late - 1) /\ LaneOf[e] = c /\ seq \in 0..(early - 1)
        BY DEF Due
      <3>2. e \in 0..(early - 1)
        BY <3>1
      <3>. QED  BY <3>1, <3>2 DEF Due
    <2>2. Under(Due(c, late), seq) = Under(Due(c, early), seq)
      BY <1>3, <2>1 DEF Under
    <2>. QED  BY <1>3, <2>2 DEF RankIn
  <1>. QED  BY <1>2, <1>5, <1>7, <1>8 DEF p, q

(* So what was drawn still names its rows when the fold has gone on.       *)
LEMMA DrawnOn ==
    ASSUME NEW early \in Nat, NEW late \in Nat, early <= late,
           NEW fold, ExactAt(fold, early), NEW then, ExactAt(then, late),
           NEW ops, NEW partition \in [Columns -> Nat], HeldBy(ops, partition, fold, early)
    PROVE  HeldBy(ops, partition, then, late)
  <1>1. ASSUME NEW op \in ops
        PROVE  \E c \in Columns : DrawnFrom(op, c, partition, then, late)
    <2>1. PICK c \in Columns : DrawnFrom(op, c, partition, fold, early)
      BY DEF HeldBy
    <2>2. /\ CarrierBase(fold.columns[c]) \in Nat /\ CarrierBase(then.columns[c]) \in Nat
          /\ CarrierBase(fold.columns[c]) <= CarrierBase(then.columns[c])
          /\ \A seq \in Due(c, early) :
                seq \in Due(c, late) /\ RankIn(c, late, seq) = RankIn(c, early, seq)
      BY FoldGrows
    <2>3. CASE \E rows \in Nat \ {0} :
                  /\ op = Strip(c, rows)
                  /\ \/ rows = partition[c]
                     \/ partition[c] < rows /\ rows <= CarrierBase(fold.columns[c])
      <3>1. PICK rows \in Nat \ {0} :
                  /\ op = Strip(c, rows)
                  /\ \/ rows = partition[c]
                     \/ partition[c] < rows /\ rows <= CarrierBase(fold.columns[c])
        BY <2>3
      <3>2. rows <= CarrierBase(fold.columns[c]) => rows <= CarrierBase(then.columns[c])
        BY <2>2
      <3>. QED  BY <3>1, <3>2 DEF DrawnFrom
    <2>4. CASE \E row \in Nat, seq \in Due(c, early) :
                  op = Square(c, row, seq) /\ partition[c] <= row /\ RankIn(c, early, seq) = row
      <3>1. PICK row \in Nat, seq \in Due(c, early) :
                  op = Square(c, row, seq) /\ partition[c] <= row /\ RankIn(c, early, seq) = row
        BY <2>4
      <3>2. seq \in Due(c, late) /\ RankIn(c, late, seq) = row
        BY <2>2, <3>1
      <3>. QED  BY <3>1, <3>2 DEF DrawnFrom
    <2>. QED  BY <2>1, <2>3, <2>4 DEF DrawnFrom
  <1>2. ASSUME NEW c \in Columns
        PROVE  partition[c] <= then.columns[c].count
    <2>1. partition[c] <= fold.columns[c].count /\ partition[c] \in Nat
      BY DEF HeldBy
    <2>. QED  BY <2>1, FoldGrows
  <1>. QED  BY <1>1, <1>2 DEF HeldBy

(* A cut draws the rows it is for.                                         *)
LEMMA CutDraws ==
    ASSUME NEW mark \in Nat, ExactAt(panel, mark), NEW partition, partition = CutDoi(Span)
    PROVE  partition \in [Columns -> Nat] /\ HeldBy(PlacementOf(partition), partition, panel, mark)
  <1>1. ASSUME NEW c \in Columns
        PROVE  /\ panel.columns[c].count \in Nat
               /\ AtLeast(panel.columns[c].count - Span, 0) \in Nat
               /\ AtLeast(panel.columns[c].count - Span, 0) <= panel.columns[c].count
    <2>1. panel.columns[c].count \in Nat /\ Span \in Nat
      BY PanelAssumption DEF ExactAt, ColumnExact
    <2>. QED  BY <2>1 DEF AtLeast
  <1>2. \A c \in Columns : partition[c] = AtLeast(panel.columns[c].count - Span, 0)
    BY DEF CutDoi
  <1>3. partition \in [Columns -> Nat]
    BY <1>1 DEF CutDoi
  <1>4. \A c \in Columns : /\ panel.columns[c].count \in Nat /\ partition[c] \in Nat
                           /\ partition[c] <= panel.columns[c].count
    BY <1>1, <1>2
  <1>5. ASSUME NEW op \in PlacementOf(partition)
        PROVE  \E c \in Columns : DrawnFrom(op, c, partition, panel, mark)
    <2>1. PICK c \in Columns : Tiles(op, c, partition)
      BY <1>3, PlacedTiles
    <2>. DEFINE from == FloorOf(c, partition)
                base == CarrierBase(panel.columns[c])
    <2>2. /\ from \in Nat /\ base \in Nat /\ base <= from
          /\ from = AtLeast(AtMost(partition[c], panel.columns[c].count), base)
          /\ \A row \in from..(panel.columns[c].count - 1) :
                /\ panel.columns[c].tail[row - base + 1] \in Due(c, mark)
                /\ RankIn(c, mark, panel.columns[c].tail[row - base + 1]) = row
      BY <1>3, FloorRows
    <2>. HIDE DEF from, base
    <2>3. from = partition[c] \/ (partition[c] < from /\ from <= base)
      BY <1>4, <2>2 DEF AtLeast, AtMost
    <2>4. partition[c] <= from
      BY <1>4, <2>2, <2>3
    <2>5. CASE from > 0 /\ op = Strip(c, from)
      <3>1. from \in Nat \ {0}
        BY <2>2, <2>5
      <3>. QED  BY <2>3, <2>5, <3>1 DEF DrawnFrom, base
    <2>6. CASE \E row \in from..(panel.columns[c].count - 1) :
                  op = Square(c, row, panel.columns[c].tail[row - base + 1])
      <3>1. PICK row \in from..(panel.columns[c].count - 1) :
                  op = Square(c, row, panel.columns[c].tail[row - base + 1])
        BY <2>6
      <3>. PICK seq : seq = panel.columns[c].tail[row - base + 1]
        OBVIOUS
      <3>2. op = Square(c, row, seq) /\ seq \in Due(c, mark) /\ RankIn(c, mark, seq) = row
        BY <2>2, <3>1
      <3>3. row \in Nat /\ partition[c] <= row
        BY <1>4, <2>2, <2>4
      <3>. QED  BY <3>2, <3>3 DEF DrawnFrom
    <2>. QED  BY <2>1, <2>5, <2>6 DEF Tiles, from, base
  <1>. QED  BY <1>3, <1>4, <1>5 DEF HeldBy

(* While no column has run out of rows it can name, what was drawn is part *)
(* of what would be drawn now.                                             *)
LEMMA HeldStays ==
    ASSUME NEW mark \in Nat, ExactAt(panel, mark), floor \in [Columns -> Nat], held.floor = floor,
           HeldBy(held.ops, floor, panel, mark)
    PROVE  HeldExtends
  <1>. SUFFICES ASSUME Terminators(held.floor, floor) = {}, NEW op \in held.ops
                PROVE  op \in PlacementOf(floor)
    BY DEF HeldExtends
  <1>1. ~CarrierExhausted(floor)
    BY DEF Terminators
  <1>2. PICK c \in Columns : DrawnFrom(op, c, floor, panel, mark)
    BY DEF HeldBy
  <1>. DEFINE column == panel.columns[c]
              from == FloorOf(c, floor)
              base == CarrierBase(column)
  <1>3. /\ column.count \in Nat /\ from \in Nat /\ base \in Nat
        /\ from = AtLeast(AtMost(floor[c], column.count), base)
        /\ \A row \in from..(column.count - 1) :
              /\ column.tail[row - base + 1] \in Due(c, mark)
              /\ RankIn(c, mark, column.tail[row - base + 1]) = row
    BY FloorRows
  <1>4. floor[c] \in Nat /\ floor[c] <= column.count
    BY DEF HeldBy
  <1>5. Len(column.tail) \in Nat
    BY DEF ExactAt, ColumnExact
  <1>6. base = column.count - Len(column.tail) /\ ~(column.count - floor[c] > Len(column.tail))
    BY <1>1 DEF CarrierBase, CarrierExhausted
  <1>. HIDE DEF column, from, base
  <1>7. base <= floor[c]
    BY <1>3, <1>4, <1>5, <1>6
  <1>8. from = floor[c]
    BY <1>3, <1>4, <1>7 DEF AtLeast, AtMost
  <1>9. CASE \E rows \in Nat \ {0} :
                /\ op = Strip(c, rows)
                /\ rows = floor[c] \/ (floor[c] < rows /\ rows <= base)
    <2>1. PICK rows \in Nat \ {0} :
                /\ op = Strip(c, rows)
                /\ rows = floor[c] \/ (floor[c] < rows /\ rows <= base)
      BY <1>9
    <2>2. rows = from /\ from > 0
      BY <1>3, <1>4, <1>7, <1>8, <2>1
    <2>3. Tiles(op, c, floor)
      BY <2>1, <2>2 DEF Tiles, from
    <2>. QED  BY <2>3, PlacedTiles
  <1>10. CASE \E row \in Nat, seq \in Due(c, mark) :
                 op = Square(c, row, seq) /\ floor[c] <= row /\ RankIn(c, mark, seq) = row
    <2>1. PICK row \in Nat, seq \in Due(c, mark) :
                 op = Square(c, row, seq) /\ floor[c] <= row /\ RankIn(c, mark, seq) = row
      BY <1>10
    <2>2. /\ Due(c, mark) \subseteq Nat /\ IsFiniteSet(Due(c, mark))
          /\ column.count = Cardinality(Due(c, mark))
      BY DueFinite DEF column, ExactAt, ColumnExact
    <2>3. row < column.count
      BY <2>1, <2>2, RanksGrow DEF RankIn
    <2>4. row \in from..(column.count - 1)
      BY <1>3, <1>8, <2>1, <2>3
    <2>. PICK one : one = column.tail[row - base + 1]
      OBVIOUS
    <2>5. one \in Due(c, mark) /\ RankIn(c, mark, one) = row
      BY <1>3, <2>4
    <2>6. one = seq
      BY <2>1, <2>2, <2>5, RanksApart DEF RankIn
    <2>7. Tiles(op, c, floor)
      BY <2>1, <2>4, <2>6 DEF Tiles, column, from, base
    <2>. QED  BY <2>7, PlacedTiles
  <1>. QED  BY <1>2, <1>9, <1>10 DEF DrawnFrom, base, column

(***************************************************************************)
(* The steps.                                                              *)
(***************************************************************************)

(* The panel begins empty, and owes nothing.                               *)
LEMMA PanelStarts == Init /\ PanelInit => PanelIInv
  <1>. SUFFICES ASSUME Init, PanelInit PROVE PanelIInv
    OBVIOUS
  <1>1. IInv
    BY InitSound
  <1>2. /\ length <= MaxWord /\ length \in Nat
        /\ mode[PanelReader] = "page" /\ stage[PanelReader] = "idle" /\ first[PanelReader] = 0
    BY PanelAssumption DEF Init
  <1>3. /\ reached = 0 /\ flight = {} /\ floor = [c \in Columns |-> 0]
        /\ held = [floor |-> floor, ops |-> {}]
        /\ panel = [status |-> "Idle", mark |-> 0, columns |-> [c \in Columns |-> EmptyColumn]]
    BY DEF PanelInit
  <1>4. ASSUME NEW c \in Columns
        PROVE  ColumnExact(EmptyColumn, Due(c, 0))
    <2>1. Due(c, 0) = {}
      BY DEF Due
    <2>2. /\ EmptyColumn \in [count : Nat, tailRevision : Int, tail : Seq(Nat)]
          /\ EmptyColumn.count = 0 /\ EmptyColumn.tail = <<>> /\ EmptyColumn.tailRevision = -1
          /\ Len(<<>>) = 0 /\ DOMAIN <<>> = {}
      BY DEF EmptyColumn
    <2>3. IsFiniteSet({}) /\ Cardinality({}) = 0
      BY FS_EmptySet
    <2>4. AtMost(0, Carried) = 0
      BY PanelAssumption DEF AtMost
    <2>5. Rising(<<>>)
      BY DEF Rising
    <2>. HIDE DEF EmptyColumn
    <2>. QED  BY <2>1, <2>2, <2>3, <2>4, <2>5 DEF ColumnExact
  <1>5. ExactAt(panel, 0)
    <2>1. EmptyColumn \in AColumn
      BY DEF EmptyColumn, AColumn
    <2>2. panel \in [status : Statuses, mark : Nat, columns : [Columns -> AColumn]]
      BY <1>3, <2>1 DEF Statuses
    <2>3. panel.mark = 0 /\ \A c \in Columns : panel.columns[c] = EmptyColumn
      BY <1>3
    <2>. QED  BY <1>4, <2>2, <2>3 DEF ExactAt
  <1>6. HeldBy(held.ops, floor, panel, 0)
    <2>1. held.ops = {} /\ \A c \in Columns : floor[c] = 0 /\ panel.columns[c].count = 0
      BY <1>3 DEF EmptyColumn
    <2>. QED  BY <2>1 DEF HeldBy
  <1>7. floor \in [Columns -> Nat] /\ held.floor = floor
    BY <1>3
  <1>8. PanelSound
    BY <1>2, <1>3, <1>5, <1>6, <1>7 DEF PanelSound
  <1>. QED  BY <1>1, <1>8 DEF PanelIInv

(* The panel pulls from its mark, which the fold was at,                   *)
LEMMA PullKeeps ==
    ASSUME PanelIInv, Pull, realization = "whole"
    PROVE  IInv' /\ realization' = realization /\ PanelSound'
  <1>. DEFINE r == PanelReader
  <1>1. PanelSound /\ IInv /\ r \in Readers
    BY PanelAssumption DEF PanelIInv
  <1>2. panel.mark \in Nat /\ panel.mark <= reached
    BY <1>1 DEF PanelSound, ExactAt
  <1>3. FlooredMark(panel.mark) = panel.mark
    BY <1>2 DEF FlooredMark
  <1>4. /\ Ask(r, "page", panel.mark, Unbounded)
        /\ first' = [first EXCEPT ![r] = panel.mark]
        /\ seen' = [seen EXCEPT ![r] = <<>>]
        /\ realization' = realization /\ length' = length
        /\ UNCHANGED panelVars
    BY <1>3 DEF Pull, Since
  <1>5. IInv'
    <2>1. Unbounded \in Bounds
      BY DEF Bounds
    <2>. QED  BY <1>1, <1>2, <1>4, <2>1, AskSound
  <1>6. first'[r] = panel.mark /\ at'[r] = panel.mark /\ mode'[r] = "page"
    BY <1>1, <1>4 DEF IInv, TypeOK, Ask
  <1>7. /\ panel' = panel /\ flight' = flight /\ floor' = floor /\ held' = held /\ reached' = reached
    BY <1>4 DEF panelVars
  <1>8. PanelSound'
    BY <1>1, <1>2, <1>4, <1>6, <1>7 DEF PanelSound
  <1>. QED  BY <1>4, <1>5, <1>8

(* the page it is answered runs from there,                                *)
LEMMA AnsweredKeeps ==
    ASSUME PanelIInv, Answered, realization = "whole"
    PROVE  IInv' /\ realization' = realization /\ PanelSound'
  <1>. DEFINE r == PanelReader
              page == PageOf(seen[r], next[r])
  <1>1. PanelSound /\ IInv /\ r \in Readers /\ ReaderSound(r)
    BY PanelAssumption DEF PanelIInv, IInv
  <1>2. /\ stage[r] = "answered" /\ flight' = flight \cup {page} /\ UNCHANGED vars
        /\ panel' = panel /\ floor' = floor /\ held' = held /\ reached' = reached
    BY DEF Answered
  <1>3. IInv'
    BY <1>1, <1>2, StepSound
  <1>4. /\ RunFrom(seen[r], first[r]) /\ next[r] = first[r] + Len(seen[r]) /\ next[r] <= length
    BY <1>1, <1>2 DEF ReaderSound, Settled
  <1>5. seen[r] \in Seq(Nat) /\ first[r] \in Nat
    BY <1>1 DEF IInv, TypeOK
  <1>6. page.word = seen[r] /\ page.next = next[r]
    BY DEF PageOf
  <1>7. Answers(page, first[r])
    BY <1>4, <1>5, <1>6 DEF Answers
  <1>8. first[r] \in 0..reached
    BY <1>1, <1>5 DEF PanelSound
  <1>9. \A one \in flight' : one.next <= length /\ \E from \in 0..reached : Answers(one, from)
    BY <1>1, <1>2, <1>4, <1>6, <1>7, <1>8 DEF PanelSound
  <1>10. length' = length /\ mode' = mode /\ stage' = stage /\ at' = at /\ first' = first /\ realization' = realization
    BY <1>2 DEF vars, reader
  <1>11. PanelSound'
    <2>1. \A one \in flight' : one.next <= length' /\ \E from \in 0..reached' : Answers(one, from)
      BY <1>2, <1>9, <1>10
    <2>. QED  BY <1>1, <1>2, <1>10, <2>1 DEF PanelSound
  <1>. QED  BY <1>3, <1>10, <1>11

(* whatever is delivered for it leaves the fold exact,                     *)
LEMMA DeliverKeeps ==
    ASSUME PanelIInv, Deliver, realization = "whole"
    PROVE  IInv' /\ realization' = realization /\ PanelSound'
  <1>1. PanelSound /\ IInv
    BY DEF PanelIInv
  <1>2. PICK page \in flight : \E document \in Arrivals(page) : panel' = FoldDocument(document)
    BY DEF Deliver
  <1>3. PICK document \in Arrivals(page) : panel' = FoldDocument(document)
    BY <1>2
  <1>4. /\ UNCHANGED vars /\ flight' = flight /\ floor' = floor /\ held' = held
        /\ reached' = AtLeast(panel'.mark, reached)
    BY DEF Deliver
  <1>5. IInv'
    BY <1>1, <1>4, StepSound
  <1>6. /\ length' = length /\ mode' = mode /\ stage' = stage /\ at' = at /\ first' = first
        /\ realization' = realization
    BY <1>4 DEF vars, reader
  <1>7. PICK from \in 0..reached : Answers(page, from)
    BY <1>1 DEF PanelSound
  <1>8. /\ reached \in Nat /\ reached <= length /\ length <= MaxWord /\ length \in Nat
        /\ page.next <= length /\ page.next \in Nat /\ from \in Nat /\ from <= reached
        /\ ExactAt(panel, reached) /\ MaxWord \in Nat
    <2>1. /\ reached \in Nat /\ reached <= length /\ length <= MaxWord /\ length \in Nat
          /\ page.next <= length /\ ExactAt(panel, reached) /\ MaxWord \in Nat
      BY <1>1 DEF PanelSound, IInv, TypeOK
    <2>2. from \in Nat /\ from <= reached
      BY <2>1
    <2>3. page.next \in Nat
      BY <1>7, <2>2 DEF Answers
    <2>. QED  BY <2>1, <2>2, <2>3
  <1>9. page.next <= MaxWord
    BY <1>8
  <1>. PICK fold : fold = FoldDocument(document)
    OBVIOUS
  <1>. PICK late : late = AtLeast(fold.mark, reached)
    OBVIOUS
  <1>10. ExactAt(fold, late) /\ fold.mark <= AtLeast(page.next, reached)
    BY <1>7, <1>8, <1>9, DocumentFolds
  <1>11. fold.mark \in Nat
    BY <1>10 DEF ExactAt
  <1>12. late \in Nat /\ reached <= late /\ late <= length
    BY <1>8, <1>10, <1>11 DEF AtLeast
  <1>13. HeldBy(held.ops, floor, fold, late)
    BY <1>1, <1>8, <1>10, <1>12, DrawnOn DEF PanelSound
  <1>14. panel' = fold /\ reached' = late
    BY <1>3, <1>4
  <1>15. PanelSound'
    <2>1. /\ first[PanelReader] \in Nat /\ at[PanelReader] \in Nat
      BY <1>1, PanelAssumption DEF IInv, TypeOK
    <2>2. first[PanelReader] <= late /\ (stage[PanelReader] = "page" => at[PanelReader] <= late)
      BY <1>1, <1>8, <1>12, <2>1 DEF PanelSound
    <2>3. \A one \in flight : one.next <= length /\ \E start \in 0..late : Answers(one, start)
      <3>. SUFFICES ASSUME NEW one \in flight
                    PROVE  one.next <= length /\ \E start \in 0..late : Answers(one, start)
        OBVIOUS
      <3>1. PICK start \in 0..reached : Answers(one, start)
        BY <1>1 DEF PanelSound
      <3>2. start \in 0..late
        BY <1>8, <1>12
      <3>. QED  BY <1>1, <3>1, <3>2 DEF PanelSound
    <2>4. /\ length <= MaxWord /\ mode[PanelReader] = "page"
          /\ floor \in [Columns -> Nat] /\ held.floor = floor
      BY <1>1 DEF PanelSound
    <2>. QED  BY <1>4, <1>6, <1>10, <1>12, <1>13, <1>14, <2>2, <2>3, <2>4 DEF PanelSound
  <1>. QED  BY <1>5, <1>6, <1>15

(* and a cut draws the rows the fold has.                                  *)
LEMMA CutKeeps ==
    ASSUME PanelIInv, Cut, realization = "whole"
    PROVE  IInv' /\ realization' = realization /\ PanelSound'
  <1>1. PanelSound /\ IInv
    BY DEF PanelIInv
  <1>. PICK partition : partition = CutDoi(Span)
    OBVIOUS
  <1>2. floor' = partition
    BY DEF Cut
  <1>3. held' = [floor |-> partition, ops |-> PlacementOf(partition)]
    BY <1>2 DEF Cut
  <1>4. UNCHANGED vars /\ panel' = panel /\ flight' = flight /\ reached' = reached
    BY DEF Cut
  <1>5. IInv'
    BY <1>1, <1>4, StepSound
  <1>6. /\ length' = length /\ mode' = mode /\ stage' = stage /\ at' = at /\ first' = first
        /\ realization' = realization
    BY <1>4 DEF vars, reader
  <1>7. partition \in [Columns -> Nat] /\ HeldBy(PlacementOf(partition), partition, panel, reached)
    BY <1>1, CutDraws DEF PanelSound
  <1>. PICK ops : ops = PlacementOf(partition)
    OBVIOUS
  <1>8. held'.floor = partition /\ held'.ops = ops
    BY <1>3
  <1>9. HeldBy(ops, partition, panel, reached)
    BY <1>7
  <1>10. PanelSound'
    BY <1>1, <1>2, <1>4, <1>6, <1>7, <1>8, <1>9 DEF PanelSound
  <1>. QED  BY <1>5, <1>6, <1>10

(* Beside it the word grows and the page that was asked for is read.       *)
LEMMA BesideKeeps ==
    ASSUME PanelIInv, AppendReceipt \/ ReadPage(PanelReader), UNCHANGED panelVars,
           realization = "whole"
    PROVE  IInv' /\ realization' = realization /\ PanelSound'
  <1>. DEFINE r == PanelReader
  <1>1. PanelSound /\ IInv /\ r \in Readers /\ ReaderSound(r)
    BY PanelAssumption DEF PanelIInv, IInv
  <1>2. panel' = panel /\ flight' = flight /\ floor' = floor /\ held' = held /\ reached' = reached
    BY DEF panelVars
  <1>3. IInv'
    BY <1>1, AppendKeeps, ReadPageKeeps
  <1>4. /\ length \in Nat /\ MaxWord \in Nat /\ reached \in Nat /\ reached <= length
        /\ at[r] \in Nat /\ first[r] \in Nat
    BY <1>1 DEF IInv, TypeOK, PanelSound
  <1>5. /\ realization' = realization /\ length <= length' /\ length' <= MaxWord /\ length' \in Nat
        /\ mode'[r] = "page" /\ first'[r] <= reached /\ (stage'[r] = "page" => at'[r] <= reached)
    <2>1. CASE AppendReceipt
      BY <1>1, <1>4, <2>1 DEF AppendReceipt, reader, PanelSound
    <2>2. CASE ReadPage(r)
      <3>. DEFINE page == Page(at[r], BoundedLimit(limit[r]), length)
                  cursor == CursorOf(at[r], Len(page), length)
      <3>1. stage[r] = "page" /\ Answer(r, page, cursor)
        BY <2>2 DEF ReadPage
      <3>2. ~GoesOn(r, page, cursor)
        BY <1>1 DEF GoesOn, PanelSound
      <3>. HIDE DEF page, cursor
      <3>3. /\ realization' = realization /\ length' = length /\ mode' = mode
            /\ stage' = [stage EXCEPT ![r] = "answered"]
            /\ first' = [first EXCEPT ![r] = IF cursor < at[r] THEN cursor ELSE @]
        BY <3>1, <3>2 DEF Answer
      <3>4. stage'[r] = "answered" /\ first'[r] = IF cursor < at[r] THEN cursor ELSE first[r]
        BY <1>1, <3>3 DEF IInv, TypeOK
      <3>5. at[r] <= reached /\ first[r] <= reached
        BY <1>1, <3>1 DEF PanelSound
      <3>6. first'[r] \in Nat
        BY <1>1, <1>3 DEF IInv, TypeOK
      <3>7. first'[r] <= reached
        <4>1. CASE cursor < at[r]
          <5>1. first'[r] = cursor
            BY <3>4, <4>1
          <5>. QED  BY <1>4, <3>5, <3>6, <4>1, <5>1
        <4>2. CASE ~(cursor < at[r])
          BY <3>4, <3>5, <4>2
        <4>. QED  BY <4>1, <4>2
      <3>. QED  BY <1>1, <1>4, <3>3, <3>4, <3>7 DEF PanelSound
    <2>. QED  BY <2>1, <2>2
  <1>6. \A page \in flight : page.next <= length' /\ \E from \in 0..reached : Answers(page, from)
    <2>. SUFFICES ASSUME NEW page \in flight
                  PROVE  page.next <= length' /\ \E from \in 0..reached : Answers(page, from)
      OBVIOUS
    <2>1. page.next <= length /\ \E from \in 0..reached : Answers(page, from)
      BY <1>1 DEF PanelSound
    <2>2. page.next \in Nat
      <3>1. PICK from \in 0..reached : Answers(page, from)
        BY <2>1
      <3>. QED  BY <1>4, <3>1 DEF Answers
    <2>. QED  BY <1>4, <1>5, <2>1, <2>2
  <1>7. PanelSound'
    <2>1. reached <= length'
      BY <1>4, <1>5
    <2>2. /\ ExactAt(panel, reached) /\ floor \in [Columns -> Nat] /\ held.floor = floor
          /\ HeldBy(held.ops, floor, panel, reached)
      BY <1>1 DEF PanelSound
    <2>. QED  BY <1>2, <1>4, <1>5, <1>6, <2>1, <2>2 DEF PanelSound
  <1>. QED  BY <1>3, <1>5, <1>7

(* The invariant is kept by every step; no step changes the realization,   *)
(* and of a word that is not answered whole it says nothing.               *)
LEMMA PanelStepSound == PanelIInv /\ [PanelNext]_<<vars, panelVars>> => PanelIInv'
  <1>. SUFFICES ASSUME PanelIInv, [PanelNext]_<<vars, panelVars>> PROVE PanelIInv'
    OBVIOUS
  <1>1. CASE realization = "whole"
    <2>1. IInv /\ PanelSound
      BY <1>1 DEF PanelIInv
    <2>2. CASE Pull
      BY <1>1, <2>2, PullKeeps DEF PanelIInv
    <2>3. CASE Answered
      BY <1>1, <2>3, AnsweredKeeps DEF PanelIInv
    <2>4. CASE Deliver
      BY <1>1, <2>4, DeliverKeeps DEF PanelIInv
    <2>5. CASE Cut
      BY <1>1, <2>5, CutKeeps DEF PanelIInv
    <2>6. CASE (AppendReceipt \/ ReadPage(PanelReader)) /\ UNCHANGED panelVars
      BY <1>1, <2>6, BesideKeeps DEF PanelIInv
    <2>7. CASE UNCHANGED <<vars, panelVars>>
      <3>1. IInv'
        BY <2>1, <2>7, StepSound
      <3>2. /\ length' = length /\ mode' = mode /\ stage' = stage /\ at' = at /\ first' = first
            /\ panel' = panel /\ flight' = flight /\ floor' = floor /\ held' = held
            /\ reached' = reached
        BY <2>7 DEF vars, reader, panelVars
      <3>3. PanelSound'
        BY <2>1, <3>2 DEF PanelSound
      <3>. QED  BY <3>1, <3>3 DEF PanelIInv
    <2>. QED  BY <2>2, <2>3, <2>4, <2>5, <2>6, <2>7 DEF PanelNext
  <1>2. CASE realization # "whole"
    <2>1. realization' = realization
      <3>1. CASE UNCHANGED <<vars, panelVars>>
        BY <3>1 DEF vars
      <3>2. CASE Pull
        BY <3>2 DEF Pull, Since, Ask
      <3>3. CASE Answered \/ Deliver \/ Cut
        BY <3>3 DEF Answered, Deliver, Cut, vars
      <3>4. CASE AppendReceipt
        BY <3>4 DEF AppendReceipt
      <3>5. CASE ReadPage(PanelReader)
        BY <3>5 DEF ReadPage, Answer
      <3>. QED  BY <3>1, <3>2, <3>3, <3>4, <3>5 DEF PanelNext
    <2>. QED  BY <1>2, <2>1 DEF PanelIInv
  <1>. QED  BY <1>1, <1>2

(* and what it says is that the counts are honest.                         *)
LEMMA PanelSoundHonest == PanelIInv => PanelHonest
  <1>. SUFFICES ASSUME PanelIInv, realization = "whole"
                PROVE  ColumnsHonest /\ RowsCovered /\ HeldExtends /\ MarksApart
    BY DEF PanelHonest
  <1>1. /\ reached \in Nat /\ ExactAt(panel, reached)
        /\ floor \in [Columns -> Nat] /\ held.floor = floor
        /\ HeldBy(held.ops, floor, panel, reached)
    BY DEF PanelIInv, PanelSound
  <1>2. ColumnsHonest
    BY <1>1, ExactHonest
  <1>3. RowsCovered
    BY <1>1, PlacementCovers
  <1>4. HeldExtends
    BY <1>1, HeldStays
  <1>5. ASSUME NEW view \in Views, NEW ratio \in Ratios
        PROVE  IsDisjoint(Place(PlacementOf(floor), view, ratio))
    BY <1>1, PlacementApart
  <1>6. MarksApart
    BY <1>5 DEF MarksApart
  <1>. QED  BY <1>2, <1>3, <1>4, <1>6

(* fold.ts, "a receipt a lane already holds is never folded twice", and    *)
(* floor.ts, quilt.ts and dpr.ts over it: against a word answered whole,   *)
(* under any word length, lanes, carrier, span, views and pixel ratios,    *)
(* and however pages are repeated, damaged, reordered or late, each column *)
(* counts every receipt below the furthest mark once and names the last of *)
(* them, each row is covered once, a drawn placement only extends, and no  *)
(* two marks overlap.                                                      *)
THEOREM PanelHonestHolds == PanelSpec => []PanelHonest
  <1>1. Init /\ PanelInit => PanelIInv
    BY PanelStarts
  <1>2. PanelIInv /\ [PanelNext]_<<vars, panelVars>> => PanelIInv'
    BY PanelStepSound
  <1>3. PanelIInv => PanelHonest
    BY PanelSoundHonest
  <1>. QED  BY <1>1, <1>2, <1>3, PTL DEF PanelSpec

----------------------------------------------------------------------------
(* The shell: which store an invocation acts on.                           *)

(* The shell by itself, as MCWordHistory runs it beside the panel.         *)
ShellSpec == ShellInit /\ [][ShellNext]_shellVars

(* StoreLayout's readings of a directory, of whichever state it stands in. *)
Read(d) ==
    IF d.config = NoFile THEN NoFile
    ELSE IF d.config.readable /\ d.config.says # Garbled THEN d.config.says
    ELSE Unreadable

BackendIn(d) == IF Read(d) = NoFile THEN "file" ELSE Read(d).backend

IsRoot(d) ==
    d.objects \/ ((IF Read(d) = Unreadable THEN "sqlite" ELSE BackendIn(d)) = "sqlite" /\ d.db)

(* What loading a node can answer.                                         *)
Verdicts == {"ok", "absent", "damaged", "broken"}

(* An invocation keeps the fields it began with, whatever they hold.       *)
CallShape(c) ==
    /\ c \in [ask : {c.ask}, at : {c.at}, look : {c.look}, place : {c.place},
              backend : {c.backend}, todo : {c.todo}, answer : {c.answer}, out : {c.out},
              faults : {c.faults}, wrote : {c.wrote}, got : {c.got}]
    /\ c.got \in [backend : {c.got.backend}, roots : {c.got.roots}, objects : {c.got.objects},
                  rows : {c.got.rows}, unread : {c.got.unread}, walking : {c.got.walking},
                  next : {c.got.next}, seen : {c.got.seen}, fails : {c.got.fails},
                  ledgers : {c.got.ledgers}, lab : {c.got.lab}, placed : {c.got.placed}]

(* Directories stay directories, and a walk fails only as loading can.     *)
ShellTyped ==
    /\ before.tree \in [Places -> Directories]
    /\ tree \in [Places -> Directories]
    /\ CallShape(call)
    /\ call.got.fails \in Verdicts

(* Where no operator edited, a verb adds objects or a database only to what *)
(* is a store already.                                                     *)
UneditedKept ==
    \A p \in Places : Steady(p) =>
        /\ tree[p].config = before.tree[p].config
        /\ IsRoot(tree[p]) <=> IsRoot(before.tree[p])

(* The first n - 1 directories of the chain were no stores.                *)
PassedOver(n) ==
    \A k \in 1..Len(Chain) : k < n /\ Steady(Chain[k]) => ~IsRoot(before.tree[Chain[k]])

(* An invocation has no store until one is found, and no backend until it  *)
(* is opened; discovery has passed over every directory it looked at.      *)
Looking ==
    /\ call.at \in {"prompt", "parse", "locate"} =>
          call.place = "none" /\ call.answer = "none"
    /\ call.place = "none" => call.backend = "none" /\ call.at \notin {"open", "work"}
    /\ call.at = "locate" =>
          /\ call.ask.verb # "help"
          /\ call.look \in 1..Len(Chain)
          /\ call.ask.store # "named" => PassedOver(call.look)
    /\ call.at = "open" => call.backend = "none"
    /\ call.at \in {"open", "work"} => call.answer = "none"

(* The store found is the named one, or the first of the chain that is     *)
(* one.                                                                    *)
Found ==
    call.place # "none" =>
        /\ call.place \in Places /\ call.ask.verb # "help"
        /\ Steady(call.place) => IsRoot(before.tree[call.place])
        /\ call.ask.store = "named" => call.place = Named
        /\ call.ask.store # "named" =>
              \E n \in 1..Len(Chain) : Chain[n] = call.place /\ PassedOver(n)

(* The backend opened is the one the config said.                          *)
Opened ==
    call.backend # "none" /\ Steady(call.place) =>
        /\ Read(before.tree[call.place]) # Unreadable
        /\ call.backend = BackendIn(before.tree[call.place])

(* A refusal for want of a store names what was no store.                  *)
Unfound ==
    /\ call.answer = "NotAStore" /\ Steady(Named) => ~IsRoot(before.tree[Named])
    /\ call.answer = "NoStoreFound" => PassedOver(Len(Chain) + 1)

(* The inductive invariant: what discovery knows of the directories it has *)
(* passed, kept against operators who edit the config of a store           *)
(* meanwhile.                                                              *)
ShellInv == ShellTyped /\ UneditedKept /\ Looking /\ Found /\ Opened /\ Unfound

(* The two readings of a directory, now and when the invocation began, are *)
(* one function of what stands there.                                      *)
LEMMA Readings ==
    /\ \A p : At(p)!IsStoreRoot <=> IsRoot(tree[p])
    /\ \A p : Was(p)!IsStoreRoot <=> IsRoot(before.tree[p])
    /\ \A p : At(p)!ReadConfig = Read(tree[p])
    /\ \A p : Was(p)!ReadConfig = Read(before.tree[p])
    /\ \A p : At(p)!BackendOf(Read(tree[p])) = BackendIn(tree[p])
    /\ \A p : Was(p)!BackendOf(Read(before.tree[p])) = BackendIn(before.tree[p])
  <1>1. \A p : At(p)!ReadConfig = Read(tree[p])
    BY DEF At!ReadConfig, Read
  <1>2. \A p : Was(p)!ReadConfig = Read(before.tree[p])
    BY DEF Was!ReadConfig, Read
  <1>3. \A p : At(p)!BackendOf(Read(tree[p])) = BackendIn(tree[p])
    BY DEF At!BackendOf, BackendIn
  <1>4. \A p : Was(p)!BackendOf(Read(before.tree[p])) = BackendIn(before.tree[p])
    BY DEF Was!BackendOf, BackendIn
  <1>5. \A p : At(p)!IsStoreRoot <=> IsRoot(tree[p])
    BY <1>1, <1>3 DEF At!IsStoreRoot, At!Layout, IsRoot
  <1>6. \A p : Was(p)!IsStoreRoot <=> IsRoot(before.tree[p])
    BY <1>2, <1>4 DEF Was!IsStoreRoot, Was!Layout, IsRoot
  <1>. QED  BY <1>1, <1>2, <1>3, <1>4, <1>5, <1>6

(* Every directory discovery looks at is a place.                          *)
LEMMA ChainPlaces ==
    /\ DOMAIN Chain = 1..Len(Chain) /\ Len(Chain) \in Nat /\ Len(Chain) >= 1
    /\ \A k \in 1..Len(Chain) : Chain[k] \in Places
    /\ Named \in Places
  BY ShellAssumption DEF Places

(* The invariant says what RightStore asks.                                *)
LEMMA RightStoreFollows == ShellInv => RightStore
  <1>. SUFFICES ASSUME ShellInv, call.at \notin {"prompt", "parse"}
                PROVE  RightStore
    BY DEF RightStore
  <1>. DEFINE named == call.ask.verb # "help" /\ call.ask.store = "named"
              found == call.place # "none"
  <1>1. found /\ named => call.place = Named
    BY DEF ShellInv, Found
  <1>2. found /\ Steady(call.place) => Was(call.place)!IsStoreRoot
    BY Readings DEF ShellInv, Found
  <1>3. found /\ ~named => \A k \in DOMAIN Chain :
            (\A j \in 1..k : Chain[j] # call.place) /\ Steady(Chain[k]) =>
                ~Was(Chain[k])!IsStoreRoot
    <2>1. SUFFICES ASSUME found, ~named, NEW k \in 1..Len(Chain),
                          \A j \in 1..k : Chain[j] # call.place, Steady(Chain[k])
                   PROVE  ~IsRoot(before.tree[Chain[k]])
      BY ChainPlaces, Readings
    <2>2. PICK n \in 1..Len(Chain) : Chain[n] = call.place /\ PassedOver(n)
      BY <2>1 DEF ShellInv, Found
    <2>3. k < n
      BY ChainPlaces, <2>1, <2>2
    <2>. QED  BY <2>1, <2>2, <2>3 DEF PassedOver
  <1>4. call.backend # "none" /\ Steady(call.place) =>
            /\ Was(call.place)!ReadConfig # Unreadable
            /\ call.backend = Was(call.place)!BackendOf(Was(call.place)!ReadConfig)
    BY Readings DEF ShellInv, Opened
  <1>5. call.answer = "NotAStore" /\ Steady(Named) => ~Was(Named)!IsStoreRoot
    BY Readings DEF ShellInv, Unfound
  <1>6. call.answer = "NoStoreFound" => \A k \in DOMAIN Chain :
            Steady(Chain[k]) => ~Was(Chain[k])!IsStoreRoot
    BY ChainPlaces, Readings DEF ShellInv, Unfound, PassedOver
  <1>7. \A p \in Places : Steady(p) /\ At(p)!IsStoreRoot => Was(p)!IsStoreRoot
    BY Readings DEF ShellInv, UneditedKept
  <1>. QED  BY <1>1, <1>2, <1>3, <1>4, <1>5, <1>6, <1>7 DEF RightStore

(* It holds when the invocation begins.                                    *)
LEMMA ShellStarts == ShellInit => ShellInv
  <1>. SUFFICES ASSUME ShellInit  PROVE ShellInv
    OBVIOUS
  <1>1. ShellTyped
    BY ShellAssumption DEF ShellInit, ShellTyped, CallShape, Prompt, Nothing, Verdicts
  <1>2. UneditedKept
    BY DEF ShellInit, UneditedKept
  <1>3. Looking /\ Found /\ Opened /\ Unfound
    BY DEF ShellInit, Prompt, Looking, Found, Opened, Unfound
  <1>. QED  BY <1>1, <1>2, <1>3 DEF ShellInv

(* A verb at work goes on in the store it opened, and never answers that   *)
(* there is none.                                                          *)
Continues(c) ==
    /\ CallShape(c)
    /\ c.at \in {"work", "over"}
    /\ c.place = call.place /\ c.backend = call.backend /\ c.ask = call.ask
    /\ c.answer \notin {"NotAStore", "NoStoreFound"}
    /\ c.at = "work" => c.answer = "none"
    /\ c.got.fails \in Verdicts

(* A step of the verb that goes on in its store, and adds to the layout of *)
(* that store alone, keeps the invariant.                                  *)
LEMMA Continuing ==
    ASSUME ShellInv, call.at = "work", Continues(call'),
           UNCHANGED <<before, meddled>>,
           tree' \in [Places -> Directories],
           \A p \in Places :
               /\ tree'[p].config = tree[p].config
               /\ p # call.place => IsRoot(tree'[p]) = IsRoot(tree[p])
               /\ p = call.place /\ IsRoot(tree[p]) => IsRoot(tree'[p])
    PROVE  ShellInv'
  <1>1. ShellTyped'
    BY DEF ShellInv, ShellTyped, Continues
  <1>2. \A p : Steady(p)' <=> Steady(p)
    BY DEF Steady
  <1>3. \A n : PassedOver(n)' <=> PassedOver(n)
    BY <1>2 DEF PassedOver
  <1>4. UneditedKept'
    <2>. SUFFICES ASSUME NEW p \in Places, Steady(p)
                  PROVE  /\ tree'[p].config = before.tree[p].config
                         /\ IsRoot(tree'[p]) <=> IsRoot(before.tree[p])
      BY <1>2 DEF UneditedKept
    <2>1. tree'[p].config = before.tree[p].config /\ (IsRoot(tree[p]) <=> IsRoot(before.tree[p]))
      BY DEF ShellInv, UneditedKept
    <2>2. CASE p # call.place
      BY <2>1, <2>2 DEF IsRoot
    <2>3. CASE p = call.place
      <3>1. call.place # "none"
        BY ShellAssumption, <2>3
      <3>2. IsRoot(before.tree[p])
        BY <3>1, <2>3 DEF ShellInv, Found
      <3>. QED  BY <2>1, <2>3, <3>2
    <2>. QED  BY <2>2, <2>3
  <1>5. Looking'
    BY DEF ShellInv, Looking, Continues
  <1>6. Found'
    BY <1>2, <1>3 DEF ShellInv, Found, Continues
  <1>7. Opened'
    BY <1>2 DEF ShellInv, Opened, Continues
  <1>8. Unfound'
    BY DEF Unfound, Continues
  <1>. QED  BY <1>1, <1>4, <1>5, <1>6, <1>7, <1>8 DEF ShellInv

(* So does one that leaves the disk alone.                                 *)
LEMMA ContinuingKept ==
    ASSUME ShellInv, call.at = "work", Kept, Continues(call')
    PROVE  ShellInv'
  BY Continuing DEF Kept, ShellInv, ShellTyped

(* Going on, refusing and failing are all such steps.                      *)
LEMMA Proceeds ==
    ASSUME ShellInv, NEW rest
    PROVE  Continues(Goes(rest)) /\ Goes(rest).got = call.got
  BY DEF ShellInv, ShellTyped, CallShape, Continues, Goes

(* An invocation at work is itself one that goes on.                       *)
LEMMA StillGoing == ShellInv /\ call.at = "work" => Continues(call)
  BY DEF ShellInv, ShellTyped, Looking, Continues

(* A refusal of the verb is never the one for want of a store.             *)
LEMMA RefusesOn ==
    ASSUME ShellInv, NEW why, why \notin {"NotAStore", "NoStoreFound"}
    PROVE  Continues(Refuses(why))
  BY DEF ShellInv, ShellTyped, CallShape, Continues, Refuses

(* Counting a fault changes nothing else.                                  *)
LEMMA FaultedOn ==
    ASSUME NEW c, Continues(c), NEW fault
    PROVE  Continues(Faulted(c, fault))
  BY DEF CallShape, Continues, Faulted

(* Loading answers one of its verdicts.                                    *)
LEMMA LoadVerdict ==
    ASSUME NEW id
    PROVE  Load(id) \in Verdicts
  BY DEF Load, Verdicts

(* What a step may note down before it goes on.                            *)
LEMMA Noting ==
    ASSUME NEW c, Continues(c), NEW x, NEW y, NEW verdict \in Verdicts
    PROVE  /\ Continues([c EXCEPT !.out = x])
           /\ Continues([c EXCEPT !.wrote = x])
           /\ Continues([c EXCEPT !.out = x, !.got.rows = y])
           /\ Continues([c EXCEPT !.out = x, !.got.walking = FALSE, !.got.rows = y])
           /\ Continues([c EXCEPT !.got.walking = TRUE, !.got.next = x, !.got.seen = y, !.got.fails = verdict])
           /\ Continues([c EXCEPT !.got.seen = x, !.got.next = y])
           /\ Continues([c EXCEPT !.got.next = y, !.got.fails = verdict])
           /\ Continues([c EXCEPT !.got.rows = x])
           /\ Continues([c EXCEPT !.got.unread = x])
           /\ Continues([c EXCEPT !.got.backend = x])
           /\ Continues([c EXCEPT !.got.roots = x])
           /\ Continues([c EXCEPT !.got.objects = x])
           /\ Continues([c EXCEPT !.got.ledgers = x])
           /\ Continues([c EXCEPT !.got.lab = x, !.got.placed = y])
  <1>1. Continues([c EXCEPT !.out = x])
    BY DEF CallShape, Continues
  <1>2. Continues([c EXCEPT !.wrote = x])
    BY DEF CallShape, Continues
  <1>3. Continues([c EXCEPT !.out = x, !.got.rows = y])
    BY DEF CallShape, Continues
  <1>4. Continues([c EXCEPT !.out = x, !.got.walking = FALSE, !.got.rows = y])
    BY DEF CallShape, Continues
  <1>5. Continues([c EXCEPT !.got.walking = TRUE, !.got.next = x, !.got.seen = y, !.got.fails = verdict])
    BY ZenonT(45) DEF CallShape, Continues
  <1>6. Continues([c EXCEPT !.got.seen = x, !.got.next = y])
    BY DEF CallShape, Continues
  <1>7. Continues([c EXCEPT !.got.next = y, !.got.fails = verdict])
    BY DEF CallShape, Continues
  <1>8. Continues([c EXCEPT !.got.rows = x])
    BY DEF CallShape, Continues
  <1>9. Continues([c EXCEPT !.got.unread = x])
    BY DEF CallShape, Continues
  <1>10. Continues([c EXCEPT !.got.backend = x])
    BY DEF CallShape, Continues
  <1>11. Continues([c EXCEPT !.got.roots = x])
    BY DEF CallShape, Continues
  <1>12. Continues([c EXCEPT !.got.objects = x])
    BY DEF CallShape, Continues
  <1>13. Continues([c EXCEPT !.got.ledgers = x])
    BY DEF CallShape, Continues
  <1>14. Continues([c EXCEPT !.got.lab = x, !.got.placed = y])
    BY DEF CallShape, Continues
  <1>. QED  BY <1>1, <1>2, <1>3, <1>4, <1>5, <1>6, <1>7, <1>8, <1>9, <1>10, <1>11, <1>12, <1>13, <1>14

(* The judgements of the arguments keep the invariant.                     *)
LEMMA JudgingContinues ==
    ASSUME ShellInv, JudgeTag \/ JudgeText \/ JudgeAddress \/ JudgeFile
    PROVE  ShellInv'
  <1>1. ASSUME NEW step, NEW holds, NEW why,
               why \notin {"NotAStore", "NoStoreFound"}, Judge(step, holds, why)
        PROVE  ShellInv'
    <2>1. Continues(call')
      BY Proceeds, RefusesOn, <1>1 DEF Judge
    <2>. QED  BY ContinuingKept, <1>1, <2>1 DEF Judge, Doing
  <1>. QED  BY <1>1 DEF JudgeTag, JudgeText, JudgeAddress, JudgeFile

(* Reading the argument file keeps it.                                     *)
LEMMA ReadArgumentContinues ==
    ASSUME ShellInv, ReadArgument
    PROVE  ShellInv'
  <1>1. PICK gone \in Faults :
         call' = Faulted(IF gone THEN Refuses("unexpected")
                         ELSE IF call.ask.file = "locked" THEN Refuses("PermissionDenied")
                         ELSE IF Doing("bytes") THEN Goes(<<Do("admit", call.ask.id)>>)
                         ELSE IF call.ask.file # "document" THEN Refuses("NotAProgramDocument")
                         ELSE Goes([k \in DOMAIN Table |-> Do("admit", Table[k])]), gone)
    BY DEF ReadArgument
  <1>2. Continues(call')
    BY <1>1, Proceeds, RefusesOn, FaultedOn
  <1>. QED  BY <1>2, ContinuingKept DEF ReadArgument, Doing

(* Loading the node that was asked for keeps it.                           *)
LEMMA LoadAskedContinues ==
    ASSUME ShellInv, LoadAsked
    PROVE  ShellInv'
  <1>1. PICK broken \in Faults :
         LET verdict == IF broken THEN "broken" ELSE Load(call.ask.id)
         IN  call' = Faulted(IF verdict # "ok" THEN Refuses(verdict)
                             ELSE [Goes(Rest) EXCEPT !.out = @ \/ call.ask.verb = "show"], broken)
    BY DEF LoadAsked
  <1>2. Continues(call')
    BY <1>1, Proceeds, RefusesOn, FaultedOn, LoadVerdict, Noting, Zenon DEF Verdicts
  <1>. QED  BY <1>2, ContinuingKept DEF LoadAsked, Doing

(* Judging whether a node may be named keeps it.                           *)
LEMMA JudgeSubjectContinues ==
    ASSUME ShellInv, JudgeSubject
    PROVE  ShellInv'
  <1>1. Continues(call')
    BY Proceeds, RefusesOn DEF JudgeSubject
  <1>. QED  BY <1>1, ContinuingKept DEF JudgeSubject, Doing

(* Listing the names keeps it.                                             *)
LEMMA ListNamesContinues ==
    ASSUME ShellInv, ListNames
    PROVE  ShellInv'
  <1>1. PICK broken \in Faults :
         call' = Faulted([Goes(IF broken THEN <<>> ELSE Each("said", Here.roots))
                             EXCEPT !.got.unread = broken], broken)
    BY DEF ListNames
  <1>2. Continues(call')
    BY <1>1, Proceeds, FaultedOn, Noting, Zenon DEF Verdicts
  <1>. QED  BY <1>2, ContinuingKept DEF ListNames, Doing

(* Reading a published root as a name keeps it.                            *)
LEMMA ReadAnnotationContinues ==
    ASSUME ShellInv, ReadAnnotation
    PROVE  ShellInv'
  <1>1. PICK broken \in Faults :
         call' = Faulted([Goes(Rest) EXCEPT !.got.rows =
                    IF ~broken /\ Load(On) = "ok" /\ On \in DOMAIN About /\ About[On] = call.ask.id
                    THEN @ \cup {On} ELSE @], broken)
    BY DEF ReadAnnotation
  <1>2. Continues(call')
    BY <1>1, Proceeds, FaultedOn, Noting, Zenon DEF Verdicts
  <1>. QED  BY <1>2, ContinuingKept DEF ReadAnnotation, Doing

(* Reading the config again keeps it, and its own refusal is no want of a  *)
(* store.                                                                  *)
LEMMA ReadConfigAgainContinues ==
    ASSUME ShellInv, ReadConfigAgain
    PROVE  ShellInv'
  <1>1. Continues(call')
    BY Proceeds, RefusesOn, Noting, Zenon DEF ReadConfigAgain, Verdicts
  <1>. QED  BY <1>1, ContinuingKept DEF ReadConfigAgain, Doing

(* Listing the roots keeps it.                                             *)
LEMMA ListRootsContinues ==
    ASSUME ShellInv, ListRoots
    PROVE  ShellInv'
  <1>1. PICK broken \in Faults :
         call' = Faulted(IF broken THEN Refuses("unexpected")
                         ELSE [Goes(Rest) EXCEPT !.got.roots = Cardinality(Here.roots)], broken)
    BY DEF ListRoots
  <1>2. Continues(call')
    BY <1>1, Proceeds, RefusesOn, FaultedOn, Noting, Zenon DEF Verdicts
  <1>. QED  BY <1>2, ContinuingKept DEF ListRoots, Doing

(* Counting the objects keeps it.                                          *)
LEMMA CountingContinues ==
    ASSUME ShellInv, CountObjects \/ CountFan
    PROVE  ShellInv'
  <1>1. CASE CountObjects
    <2>1. Continues(call')
      <3>1. CASE \E broken \in Faults :
                   call' = Faulted([Goes(IF broken THEN Rest ELSE Each("fan", Fans) \o Rest)
                                       EXCEPT !.got.objects = 0], broken)
        <4>. PICK broken \in Faults :
                 call' = Faulted([Goes(IF broken THEN Rest ELSE Each("fan", Fans) \o Rest)
                                     EXCEPT !.got.objects = 0], broken)
          BY <3>1
        <4>1. PICK steps :
                 call' = Faulted([Goes(steps) EXCEPT !.got.objects = 0], broken)
          OBVIOUS
        <4>2. Continues(Goes(steps))
          BY Proceeds
        <4>3. Continues([Goes(steps) EXCEPT !.got.objects = 0])
          BY <4>2, Noting, Zenon DEF Verdicts
        <4>. QED  BY <4>1, <4>3, FaultedOn
      <3>2. CASE call' = [Goes(Rest) EXCEPT !.got.objects = Uncounted]
        BY <3>2, Proceeds, Noting, Zenon DEF Verdicts
      <3>. QED  BY <1>1, <3>1, <3>2 DEF CountObjects
    <2>. QED  BY <1>1, <2>1, ContinuingKept DEF CountObjects, Doing
  <1>2. CASE CountFan
    <2>1. PICK broken \in Faults :
             LET found == IF broken THEN 0 ELSE Cardinality(InFan(On))
             IN  call' = Faulted([Goes(Rest) EXCEPT !.got.objects = @ + found], broken)
      BY <1>2 DEF CountFan
    <2>2. Continues(call')
      BY <2>1, Proceeds, FaultedOn, Noting, Zenon DEF Verdicts
    <2>. QED  BY <1>2, <2>2, ContinuingKept DEF CountFan, Doing
  <1>. QED  BY <1>1, <1>2

(* Listing every root keeps it.                                            *)
LEMMA ListEveryContinues ==
    ASSUME ShellInv, ListEvery
    PROVE  ShellInv'
  <1>1. PICK broken \in Faults :
         call' = Faulted(IF broken THEN Refuses("unexpected")
                         ELSE Goes(Each(On, Here.roots)), broken)
    BY DEF ListEvery
  <1>2. Continues(call')
    BY <1>1, Proceeds, RefusesOn, FaultedOn
  <1>. QED  BY <1>2, ContinuingKept DEF ListEvery, Doing

(* Loading a row of the listing keeps it.                                  *)
LEMMA LoadRowContinues ==
    ASSUME ShellInv, LoadRow
    PROVE  ShellInv'
  <1>1. PICK broken \in Faults :
         LET verdict == IF broken THEN "broken" ELSE Load(On)
         IN  call' = Faulted([Goes(Rest) EXCEPT !.out = TRUE,
                                 !.got.rows = @ \cup {Row(On, verdict, Cardinality(Refs[On]))}], broken)
    BY DEF LoadRow
  <1>2. Continues(call')
    BY <1>1, Proceeds, FaultedOn, Noting, Zenon DEF Verdicts
  <1>. QED  BY <1>2, ContinuingKept DEF LoadRow, Doing

(* The walk of `verify` keeps it; its refusal is a verdict of loading.     *)
LEMMA AuditContinues ==
    ASSUME ShellInv, BeginAudit \/ Visit \/ Verdict
    PROVE  ShellInv'
  <1>1. CASE BeginAudit
    <2>1. Continues(call')
      BY <1>1, StillGoing, Noting, Zenon DEF BeginAudit, Doing, Verdicts
    <2>. QED  BY <1>1, <2>1, ContinuingKept DEF BeginAudit, Doing
  <1>2. CASE Visit
    <2>1. PICK id \in call.got.next, broken \in Faults :
         LET verdict == IF broken THEN "broken" ELSE Load(id)
             walked  == call.got.seen \cup {id}
         IN  call' = Faulted(
                IF verdict = "ok"
                THEN [call EXCEPT !.got.seen = walked,
                                  !.got.next = (@ \cup Refs[id]) \ walked]
                ELSE [call EXCEPT !.got.next = {}, !.got.fails = verdict], broken)
      BY <1>2, Zenon DEF Visit
    <2>. DEFINE verdict == IF broken THEN "broken" ELSE Load(id)
                walked  == call.got.seen \cup {id}
    <2>2. verdict \in Verdicts /\ Continues(call)
      BY <1>2, LoadVerdict, StillGoing DEF Verdicts, Visit, Doing
    <2>3. Continues([call EXCEPT !.got.seen = walked, !.got.next = (@ \cup Refs[id]) \ walked])
      BY <2>2, Noting, Zenon
    <2>4. Continues([call EXCEPT !.got.next = {}, !.got.fails = verdict])
      <3>. HIDE DEF verdict
      <3>. QED  BY <2>2, Noting, Zenon
    <2>5. Continues(call')
      BY <2>1, <2>3, <2>4, FaultedOn
    <2>. QED  BY <1>2, <2>5, ContinuingKept DEF Visit, Doing
  <1>3. CASE Verdict
    <2>1. call.got.fails \notin {"NotAStore", "NoStoreFound"}
      BY DEF ShellInv, ShellTyped, Verdicts
    <2>2. Continues(call')
      BY <1>3, <2>1, Proceeds, RefusesOn, Noting, Zenon DEF Verdict, Verdicts
    <2>. QED  BY <1>3, <2>2, ContinuingKept DEF Verdict, Doing
  <1>. QED  BY <1>1, <1>2, <1>3

(* Reading the ledgers of the lab keeps it.                                *)
LEMMA LedgersContinue ==
    ASSUME ShellInv, FindPapers \/ ReadAdmission \/ ReadRegistry \/ ReadLedger
    PROVE  ShellInv'
  <1>1. CASE FindPapers
    <2>1. Continues(call')
      BY <1>1, Proceeds DEF FindPapers
    <2>. QED  BY <1>1, <2>1, ContinuingKept DEF FindPapers, Doing
  <1>2. CASE ReadAdmission
    <2>1. Continues(call')
      BY <1>2, Proceeds, Noting, Zenon DEF ReadAdmission, Verdicts
    <2>. QED  BY <1>2, <2>1, ContinuingKept DEF ReadAdmission, Doing
  <1>3. CASE ReadRegistry
    <2>1. Continues(call')
      BY <1>3, Proceeds, Noting, Zenon DEF ReadRegistry, Verdicts
    <2>. QED  BY <1>3, <2>1, ContinuingKept DEF ReadRegistry, Doing
  <1>4. CASE ReadLedger
    <2>1. Continues(call')
      BY <1>4, Proceeds, Noting, Zenon DEF ReadLedger, Verdicts
    <2>. QED  BY <1>4, <2>1, ContinuingKept DEF ReadLedger, Doing
  <1>. QED  BY <1>1, <1>2, <1>3, <1>4

(* A command line judged before any store is resolved has none.            *)
LEMMA BeginKeeps ==
    ASSUME ShellInv, NEW ask \in Asks, Begin(ask)
    PROVE  ShellInv'
  <1>. DEFINE c == [Prompt EXCEPT !.ask = ask, !.at = "locate"]
  <1>0. /\ CallShape(c) /\ c.ask = ask /\ c.at = "locate" /\ c.look = 1
        /\ c.place = "none" /\ c.backend = "none" /\ c.answer = "none"
        /\ c.got.fails = "ok"
    <2>1. CallShape(Prompt)
      BY DEF CallShape, Prompt, Nothing
    <2>2. /\ Prompt.look = 1 /\ Prompt.place = "none" /\ Prompt.backend = "none"
          /\ Prompt.answer = "none" /\ Prompt.got.fails = "ok"
      BY DEF Prompt, Nothing
    <2>. QED  BY <2>1, <2>2 DEF CallShape
  <1>1. /\ UNCHANGED <<tree, before, meddled>>
        /\ \/ call' = [c EXCEPT !.at = "parse"]
           \/ call' = [c EXCEPT !.at = "over", !.answer = "ok", !.out = TRUE]
           \/ call' = [c EXCEPT !.at = "over", !.answer = "KindTagOnProgram"]
           \/ call' = c /\ ask.verb # "help"
    BY DEF Begin, Kept, Landing
  <1>. HIDE DEF c
  <1>2. /\ CallShape(call') /\ call'.place = "none" /\ call'.backend = "none"
        /\ call'.answer \in {"none", "ok", "KindTagOnProgram"}
        /\ call'.at \in {"parse", "over", "locate"}
        /\ call'.at \in {"parse", "locate"} => call'.answer = "none"
        /\ call'.at = "locate" => call'.ask.verb # "help" /\ call'.look = 1
        /\ call'.got.fails = "ok"
    <2>1. CASE call' = [c EXCEPT !.at = "parse"]
      BY <1>0, <2>1 DEF CallShape
    <2>2. CASE call' = [c EXCEPT !.at = "over", !.answer = "ok", !.out = TRUE]
      BY <1>0, <2>2 DEF CallShape
    <2>3. CASE call' = [c EXCEPT !.at = "over", !.answer = "KindTagOnProgram"]
      BY <1>0, <2>3 DEF CallShape
    <2>4. CASE call' = c /\ ask.verb # "help"
      BY <1>0, <2>4 DEF CallShape
    <2>. QED  BY <1>1, <2>1, <2>2, <2>3, <2>4
  <1>3. ShellTyped' /\ UneditedKept'
    BY <1>1, <1>2 DEF ShellInv, ShellTyped, UneditedKept, Verdicts, Steady
  <1>4. (call.at = "locate" => call.look \in 1..Len(Chain) /\ PassedOver(call.look))'
    BY <1>2, ChainPlaces DEF PassedOver
  <1>5. Looking'
    BY <1>2, <1>4 DEF Looking
  <1>6. Found' /\ Opened' /\ Unfound'
    BY <1>2 DEF Found, Opened, Unfound
  <1>. QED  BY <1>3, <1>5, <1>6 DEF ShellInv

(* Help is shown without a store.                                          *)
LEMMA ShowHelpKeeps ==
    ASSUME ShellInv, ShowHelp
    PROVE  ShellInv'
  <1>1. /\ call.at = "parse" /\ UNCHANGED <<tree, before, meddled>>
        /\ call.place = "none" /\ call.backend = "none" /\ CallShape(call)
    BY DEF ShowHelp, Kept, ShellInv, ShellTyped, Looking
  <1>2. /\ CallShape(call') /\ call'.place = "none" /\ call'.backend = "none"
        /\ call'.answer \in {"ok", "misspelt"} /\ call'.at = "over"
        /\ call'.got.fails = call.got.fails
    <2>1. PICK asked \in BOOLEAN : \E out, rows :
             call' = [call EXCEPT !.at = "over", !.answer = IF asked THEN "ok" ELSE "misspelt",
                                  !.out = out, !.got.rows = rows]
      BY DEF ShowHelp
    <2>2. PICK out, rows :
             call' = [call EXCEPT !.at = "over", !.answer = IF asked THEN "ok" ELSE "misspelt",
                                  !.out = out, !.got.rows = rows]
      BY <2>1
    <2>3. CallShape(call') /\ call'.place = call.place /\ call'.backend = call.backend
      BY <1>1, <2>2 DEF CallShape
    <2>4. /\ call'.answer \in {"ok", "misspelt"} /\ call'.at = "over"
          /\ call'.got.fails = call.got.fails
      BY <1>1, <2>2 DEF CallShape
    <2>. QED  BY <1>1, <2>3, <2>4
  <1>3. ShellTyped' /\ UneditedKept'
    BY <1>1, <1>2 DEF ShellInv, ShellTyped, UneditedKept, Steady
  <1>4. Looking' /\ Found' /\ Opened' /\ Unfound'
    BY <1>2 DEF Looking, Found, Opened, Unfound
  <1>. QED  BY <1>3, <1>4 DEF ShellInv

(* Looking at one more directory: the named store or a refusal, and        *)
(* otherwise the first of the chain, each directory before it having been  *)
(* none.                                                                   *)
LEMMA LocateKeeps ==
    ASSUME ShellInv, Locate
    PROVE  ShellInv'
  <1>1. /\ call.at = "locate" /\ UNCHANGED <<tree, before, meddled>>
        /\ call.place = "none" /\ call.backend = "none" /\ CallShape(call)
        /\ call.answer = "none" /\ call.ask.verb # "help"
        /\ call.look \in 1..Len(Chain) /\ call.got.fails \in Verdicts
        /\ call.ask.store # "named" => PassedOver(call.look)
    BY DEF Locate, Kept, ShellInv, ShellTyped, Looking
  <1>2. /\ \A p : Steady(p)' <=> Steady(p)
        /\ \A n : PassedOver(n)' <=> PassedOver(n)
    BY <1>1 DEF Steady, PassedOver
  <1>3. \A p \in Places : Steady(p) => (IsRoot(tree[p]) <=> IsRoot(before.tree[p]))
    BY DEF ShellInv, UneditedKept
  <1>4. ShellTyped' /\ UneditedKept' /\ CallShape(call')
    <2>1. CallShape(call') /\ call'.got.fails = call.got.fails
      <3>1. \/ \E p : call' = [call EXCEPT !.place = p, !.at = "open"]
            \/ call' = [call EXCEPT !.look = @ + 1]
            \/ \E why : call' = [call EXCEPT !.todo = <<>>, !.at = "over", !.answer = why]
        BY DEF Locate, Refuses
      <3>2. ASSUME NEW p, call' = [call EXCEPT !.place = p, !.at = "open"]
            PROVE  CallShape(call') /\ call'.got.fails = call.got.fails
        BY <1>1, <3>2 DEF CallShape
      <3>3. ASSUME call' = [call EXCEPT !.look = @ + 1]
            PROVE  CallShape(call') /\ call'.got.fails = call.got.fails
        BY <1>1, <3>3 DEF CallShape
      <3>4. ASSUME NEW why, call' = [call EXCEPT !.todo = <<>>, !.at = "over", !.answer = why]
            PROVE  CallShape(call') /\ call'.got.fails = call.got.fails
        BY <1>1, <3>4 DEF CallShape
      <3>. QED  BY <3>1, <3>2, <3>3, <3>4, Zenon
    <2>. QED  BY <1>1, <2>1 DEF ShellInv, ShellTyped, UneditedKept, Steady
  <1>5. CASE call.ask.store = "named" /\ IsRoot(tree[Named])
    <2>1. call' = [call EXCEPT !.place = Named, !.at = "open"]
      BY <1>5, Readings DEF Locate
    <2>2. /\ call'.place = Named /\ call'.at = "open" /\ call'.backend = "none"
          /\ call'.answer = "none" /\ call'.ask = call.ask
      BY <1>1, <2>1 DEF CallShape
    <2>3. Named \in Places /\ Named # "none"
      BY ChainPlaces, ShellAssumption
    <2>4. Steady(Named)' => IsRoot(before'.tree[Named])
      BY <1>1, <1>2, <1>3, <1>5, <2>3
    <2>. QED  BY <1>1, <1>4, <1>5, <2>2, <2>3, <2>4 DEF ShellInv, Looking, Found, Opened, Unfound
  <1>6. CASE call.ask.store = "named" /\ ~IsRoot(tree[Named])
    <2>1. call' = Refuses("NotAStore")
      BY <1>6, Readings DEF Locate
    <2>2. /\ call'.place = "none" /\ call'.at = "over" /\ call'.backend = "none"
          /\ call'.answer = "NotAStore"
      BY <1>1, <2>1 DEF CallShape, Refuses
    <2>3. Steady(Named)' => ~IsRoot(before'.tree[Named])
      BY <1>1, <1>2, <1>3, <1>6, ChainPlaces
    <2>. QED  BY <1>4, <2>2, <2>3 DEF ShellInv, Looking, Found, Opened, Unfound
  <1>7. CASE call.ask.store # "named" /\ IsRoot(tree[Chain[call.look]])
    <2>1. call' = [call EXCEPT !.place = Chain[call.look], !.at = "open"]
      BY <1>7, Readings DEF Locate
    <2>2. /\ call'.place = Chain[call.look] /\ call'.at = "open" /\ call'.backend = "none"
          /\ call'.answer = "none" /\ call'.ask = call.ask
      BY <1>1, <2>1 DEF CallShape
    <2>3. Chain[call.look] \in Places /\ Chain[call.look] # "none"
      BY <1>1, ChainPlaces, ShellAssumption
    <2>4. Steady(Chain[call.look]) => IsRoot(before.tree[Chain[call.look]])
      BY <1>3, <1>7, <2>3
    <2>5. \E n \in 1..Len(Chain) : Chain[n] = call'.place /\ PassedOver(n)'
      BY <1>1, <1>2, <1>7, <2>2
    <2>6. (Steady(call.place) => IsRoot(before.tree[call.place]))'
      BY <1>1, <2>2, <2>4 DEF Steady
    <2>. QED  BY <1>1, <1>4, <1>7, <2>2, <2>3, <2>5, <2>6
              DEF ShellInv, Looking, Found, Opened, Unfound
  <1>8. CASE call.ask.store # "named" /\ ~IsRoot(tree[Chain[call.look]])
    <2>1. PassedOver(call.look + 1)
      BY <1>1, <1>3, <1>8, ChainPlaces DEF PassedOver
    <2>2. CASE call.look < Len(Chain)
      <3>1. call' = [call EXCEPT !.look = @ + 1]
        BY <1>8, <2>2, Readings DEF Locate
      <3>2. /\ call'.place = "none" /\ call'.at = "locate" /\ call'.backend = "none"
            /\ call'.answer = "none" /\ call'.ask = call.ask /\ call'.look = call.look + 1
        BY <1>1, <3>1 DEF CallShape
      <3>3. call'.look \in 1..Len(Chain)
        BY <1>1, <2>2, <3>2, ChainPlaces
      <3>4. PassedOver(call.look)'
        <4>. DEFINE n == call'.look
        <4>1. PassedOver(n)
          BY <2>1, <3>2
        <4>. HIDE DEF n
        <4>2. n = call'.look
          BY DEF n
        <4>. QED  BY <1>1, <4>1, <4>2 DEF PassedOver, Steady
      <3>. QED  BY <1>1, <1>4, <3>2, <3>3, <3>4 DEF ShellInv, Looking, Found, Opened, Unfound
    <2>3. CASE ~(call.look < Len(Chain))
      <3>1. call' = Refuses("NoStoreFound")
        BY <1>8, <2>3, Readings DEF Locate
      <3>2. /\ call'.place = "none" /\ call'.at = "over" /\ call'.backend = "none"
            /\ call'.answer = "NoStoreFound"
        BY <1>1, <3>1 DEF CallShape, Refuses
      <3>3. call.look = Len(Chain)
        BY <1>1, <2>3, ChainPlaces
      <3>4. PassedOver(Len(Chain) + 1)'
        BY <1>2, <2>1, <3>3
      <3>. QED  BY <1>4, <3>2, <3>4 DEF ShellInv, Looking, Found, Opened, Unfound
    <2>. QED  BY <2>2, <2>3
  <1>. QED  BY <1>5, <1>6, <1>7, <1>8

(* Making a part of the layout leaves a store a store, and every directory *)
(* a directory with the config it had.                                     *)
LEMMA LayoutMade ==
    ASSUME ShellInv, NEW place \in Places, NEW made,
           \/ made = [tree EXCEPT ![place].db = TRUE]
           \/ made = [tree EXCEPT ![place].objects = TRUE]
           \/ made = [tree EXCEPT ![place].roots = TRUE]
           \/ made = tree
    PROVE  /\ made \in [Places -> Directories]
           /\ \A p \in Places :
                /\ made[p].config = tree[p].config
                /\ p # place => made[p] = tree[p]
                /\ IsRoot(tree[p]) => IsRoot(made[p])
  <1>1. tree \in [Places -> Directories]
    BY DEF ShellInv, ShellTyped
  <1>2. /\ made \in [Places -> Directories]
        /\ \A p \in Places : /\ made[p].config = tree[p].config
                             /\ p # place => made[p] = tree[p]
                             /\ tree[p].objects => made[p].objects
                             /\ tree[p].db => made[p].db
    <2>1. CASE made = [tree EXCEPT ![place].db = TRUE]
      <3>1. made \in [Places -> Directories]
        BY <1>1, <2>1, ZenonT(45) DEF Directories
      <3>. QED  BY <1>1, <2>1, <3>1 DEF Directories
    <2>2. CASE made = [tree EXCEPT ![place].objects = TRUE]
      <3>1. made \in [Places -> Directories]
        BY <1>1, <2>2, ZenonT(45) DEF Directories
      <3>. QED  BY <1>1, <2>2, <3>1 DEF Directories
    <2>3. CASE made = [tree EXCEPT ![place].roots = TRUE]
      <3>1. made \in [Places -> Directories]
        BY <1>1, <2>3 DEF Directories
      <3>. QED  BY <1>1, <2>3, <3>1 DEF Directories
    <2>4. CASE made = tree
      BY <1>1, <2>4
    <2>. QED  BY <2>1, <2>2, <2>3, <2>4
  <1>3. \A p \in Places : Read(made[p]) = Read(tree[p])
    BY <1>2 DEF Read
  <1>4. \A p \in Places : IsRoot(tree[p]) => IsRoot(made[p])
    BY <1>2, <1>3 DEF IsRoot, BackendIn
  <1>. QED  BY <1>2, <1>4

(* Opening reads the config discovery read, unless it was edited, and      *)
(* makes a database only where a store is.                                 *)
LEMMA OpenKeeps ==
    ASSUME ShellInv, Open
    PROVE  ShellInv'
  <1>1. /\ call.at = "open" /\ UNCHANGED <<before, meddled>> /\ CallShape(call)
        /\ call.place # "none" /\ call.place \in Places
        /\ call.backend = "none" /\ call.answer = "none" /\ call.got.fails \in Verdicts
        /\ tree \in [Places -> Directories] /\ before.tree \in [Places -> Directories]
    BY DEF Open, ShellInv, ShellTyped, Looking, Found
  <1>2. /\ \A p : Steady(p)' <=> Steady(p)
        /\ \A n : PassedOver(n)' <=> PassedOver(n)
    BY <1>1 DEF Steady, PassedOver
  <1>3. \A p \in Places : Steady(p) =>
           /\ tree[p].config = before.tree[p].config
           /\ IsRoot(tree[p]) <=> IsRoot(before.tree[p])
    BY DEF ShellInv, UneditedKept
  <1>4. Steady(call.place) => IsRoot(before.tree[call.place])
    BY <1>1 DEF ShellInv, Found
  <1>5. CASE Read(tree[call.place]) = Unreadable
    <2>1. call' = Refuses("ConfigUnreadable") /\ tree' = tree
      BY <1>5, Readings DEF Open
    <2>2. /\ CallShape(call') /\ call'.place = call.place /\ call'.at = "over"
          /\ call'.backend = "none" /\ call'.answer = "ConfigUnreadable"
          /\ call'.ask = call.ask /\ call'.got.fails = call.got.fails
      BY <1>1, <2>1 DEF CallShape, Refuses
    <2>3. ShellTyped' /\ UneditedKept'
      BY <1>1, <1>2, <1>3, <2>1, <2>2 DEF ShellTyped, UneditedKept
    <2>4. Found'
      BY <1>1, <1>2, <2>2 DEF ShellInv, Found
    <2>5. Looking' /\ Opened' /\ Unfound'
      BY <1>1, <2>2 DEF Looking, Opened, Unfound
    <2>. QED  BY <2>3, <2>4, <2>5 DEF ShellInv
  <1>6. CASE Read(tree[call.place]) # Unreadable
    <2>. DEFINE backend == BackendIn(tree[call.place])
    <2>1. /\ call' = [call EXCEPT !.backend = backend, !.at = "work", !.todo = StepsOf(call.ask)]
          /\ tree' = IF backend = "sqlite" THEN [tree EXCEPT ![call.place].db = TRUE] ELSE tree
      BY <1>6, Readings DEF Open
    <2>2. /\ CallShape(call') /\ call'.place = call.place /\ call'.at = "work"
          /\ call'.backend = backend /\ call'.answer = "none"
          /\ call'.ask = call.ask /\ call'.got.fails = call.got.fails
      BY <1>1, <2>1 DEF CallShape
    <2>3. /\ tree' \in [Places -> Directories]
          /\ \A p \in Places : /\ tree'[p].config = tree[p].config
                               /\ p # call.place => tree'[p] = tree[p]
                               /\ IsRoot(tree[p]) => IsRoot(tree'[p])
      <3>1. tree' = [tree EXCEPT ![call.place].db = TRUE] \/ tree' = tree
        BY <2>1
      <3>. QED  BY <1>1, <3>1, LayoutMade
    <2>4. UneditedKept'
      BY <1>1, <1>2, <1>3, <1>4, <2>3 DEF UneditedKept
    <2>5. Opened'
      <3>. SUFFICES ASSUME Steady(call.place)
                    PROVE  /\ Read(before.tree[call.place]) # Unreadable
                           /\ backend = BackendIn(before.tree[call.place])
        BY <1>1, <1>2, <2>2 DEF Opened
      <3>1. Read(before.tree[call.place]) = Read(tree[call.place])
        BY <1>1, <1>3 DEF Read
      <3>. QED  BY <1>6, <3>1 DEF BackendIn
    <2>6. ShellTyped'
      BY <1>1, <2>2, <2>3 DEF ShellTyped
    <2>7. Found'
      BY <1>1, <1>2, <2>2 DEF ShellInv, Found
    <2>8. Looking' /\ Unfound'
      BY <1>1, <2>2 DEF Looking, Unfound
    <2>. QED  BY <2>4, <2>5, <2>6, <2>7, <2>8 DEF ShellInv
  <1>. QED  BY <1>5, <1>6

(* Admission adds to the objects of the store alone.                       *)
LEMMA AdmitContinues ==
    ASSUME ShellInv, Admit
    PROVE  ShellInv'
  <1>1. call.at = "work" /\ call.place \in Places /\ UNCHANGED <<before, meddled>>
    BY DEF Admit, Doing, ShellInv, Looking, Found
  <1>3. PICK broken \in Faults :
         IF broken \/ On \in Here.damaged \/ ~(Refs[On] \subseteq Here.held \ Here.damaged)
         THEN call' = Faulted(Refuses("inadmissible"), broken) /\ UNCHANGED <<tree, plane>>
         ELSE IF On \in Here.held
         THEN call' = Goes(Rest) /\ UNCHANGED <<tree, plane>>
         ELSE /\ call' = [Goes(Rest) EXCEPT !.wrote = @ \cup {Do("admit", On)}]
              /\ plane' = [plane EXCEPT ![call.place][call.backend].held = @ \cup {On}]
              /\ tree' = IF call.backend = "file" THEN [tree EXCEPT ![call.place].objects = TRUE]
                         ELSE tree
    BY DEF Admit
  <1>4. Continues(call')
    <2>1. "ok" \in Verdicts /\ Continues(Goes(Rest))
      BY Proceeds DEF Verdicts
    <2>2. \A x : Continues([Goes(Rest) EXCEPT !.wrote = x])
      BY <2>1, Noting, Zenon
    <2>3. \A why \in {"inadmissible", "unexpected"} : Continues(Faulted(Refuses(why), broken))
      BY RefusesOn, FaultedOn
    <2>. QED  BY <1>3, <2>1, <2>2, <2>3
  <1>5. tree' = tree \/ tree' = [tree EXCEPT ![call.place].objects = TRUE]
    BY <1>3
  <1>6. /\ tree' \in [Places -> Directories]
        /\ \A p \in Places :
             /\ tree'[p].config = tree[p].config
             /\ p # call.place => tree'[p] = tree[p]
             /\ IsRoot(tree[p]) => IsRoot(tree'[p])
    BY <1>1, <1>5, LayoutMade
  <1>. QED  BY <1>1, <1>4, <1>6, Continuing

(* Publication adds to the roots of the store alone.                       *)
LEMMA PublishContinues ==
    ASSUME ShellInv, Publish
    PROVE  ShellInv'
  <1>1. call.at = "work" /\ call.place \in Places /\ UNCHANGED <<before, meddled>>
    BY DEF Publish, Doing, ShellInv, Looking, Found
  <1>3. PICK broken \in Faults :
         IF broken
         THEN call' = Faulted(Refuses("unexpected"), broken) /\ UNCHANGED <<tree, plane>>
         ELSE /\ call' = [Goes(Rest) EXCEPT !.wrote = @ \cup {Do("publish", On)}]
              /\ plane' = [plane EXCEPT ![call.place][call.backend].roots = @ \cup {On}]
              /\ tree' = IF call.backend = "file" THEN [tree EXCEPT ![call.place].roots = TRUE]
                         ELSE tree
    BY DEF Publish
  <1>4. Continues(call')
    <2>1. "ok" \in Verdicts /\ Continues(Goes(Rest))
      BY Proceeds DEF Verdicts
    <2>2. \A x : Continues([Goes(Rest) EXCEPT !.wrote = x])
      BY <2>1, Noting
    <2>3. \A why \in {"inadmissible", "unexpected"} : Continues(Faulted(Refuses(why), broken))
      BY RefusesOn, FaultedOn
    <2>. QED  BY <1>3, <2>1, <2>2, <2>3
  <1>5. tree' = tree \/ tree' = [tree EXCEPT ![call.place].roots = TRUE]
    BY <1>3
  <1>6. /\ tree' \in [Places -> Directories]
        /\ \A p \in Places :
             /\ tree'[p].config = tree[p].config
             /\ p # call.place => tree'[p] = tree[p]
             /\ IsRoot(tree[p]) => IsRoot(tree'[p])
    BY <1>1, <1>5, LayoutMade
  <1>. QED  BY <1>1, <1>4, <1>6, Continuing

(* An operator who edits a config takes the place out of what is promised. *)
LEMMA MeddleKeeps ==
    ASSUME ShellInv, Meddle
    PROVE  ShellInv'
  <1>1. PICK p \in Places, file \in EditedFiles :
           tree' = [tree EXCEPT ![p].config = file] /\ meddled' = meddled \cup {p}
    BY DEF Meddle
  <1>2. UNCHANGED <<call, before>> /\ tree \in [Places -> Directories]
    BY DEF Meddle, ShellInv, ShellTyped
  <1>3. file \in ConfigFiles \cup {NoFile}
    BY ShellAssumption
  <1>4. /\ tree' \in [Places -> Directories]
        /\ \A q \in Places : q # p => tree'[q] = tree[q]
    BY <1>1, <1>2, <1>3 DEF Directories
  <1>5. \A q : Steady(q)' => Steady(q) /\ q # p
    BY <1>1 DEF Steady
  <1>6. \A n : PassedOver(n) => PassedOver(n)'
    BY <1>2, <1>5 DEF PassedOver
  <1>7. ShellTyped'
    BY <1>2, <1>4 DEF ShellInv, ShellTyped
  <1>8. UneditedKept'
    BY <1>2, <1>4, <1>5 DEF ShellInv, UneditedKept
  <1>9. Looking' /\ Unfound'
    BY <1>2, <1>5, <1>6 DEF ShellInv, Looking, Unfound
  <1>10. Found'
    BY <1>2, <1>5, <1>6 DEF ShellInv, Found
  <1>11. Opened'
    BY <1>2, <1>5 DEF ShellInv, Opened
  <1>. QED  BY <1>7, <1>8, <1>9, <1>10, <1>11 DEF ShellInv

(* What others do to nodes and ledgers is out of its sight.                *)
LEMMA ElsewhereKeeps ==
    ASSUME ShellInv, UNCHANGED <<tree, call, before, meddled>>
    PROVE  ShellInv'
  BY DEF ShellInv, ShellTyped, UneditedKept, Looking, Found, Opened, Unfound,
         PassedOver, Steady

(* Every step keeps the invariant.                                         *)
LEMMA ShellInvKept == ShellInv /\ [ShellNext]_shellVars => ShellInv'
  <1>. SUFFICES ASSUME ShellInv, [ShellNext]_shellVars  PROVE ShellInv'
    OBVIOUS
  <1>1. CASE \E ask \in Asks : Begin(ask)
    BY <1>1, BeginKeeps
  <1>2. CASE ShowHelp \/ Locate \/ Open
    BY <1>2, ShowHelpKeeps, LocateKeeps, OpenKeeps
  <1>3. CASE JudgeTag \/ JudgeText \/ JudgeAddress \/ JudgeFile \/ ReadArgument
    BY <1>3, JudgingContinues, ReadArgumentContinues
  <1>4. CASE LoadAsked \/ JudgeSubject \/ ListNames \/ ReadAnnotation
    BY <1>4, LoadAskedContinues, JudgeSubjectContinues, ListNamesContinues,
       ReadAnnotationContinues
  <1>5. CASE Admit \/ Publish
    BY <1>5, AdmitContinues, PublishContinues
  <1>6. CASE ReadConfigAgain \/ ListRoots \/ CountObjects \/ CountFan
    BY <1>6, ReadConfigAgainContinues, ListRootsContinues, CountingContinues
  <1>7. CASE ListEvery \/ LoadRow \/ BeginAudit \/ Visit \/ Verdict
    BY <1>7, ListEveryContinues, LoadRowContinues, AuditContinues
  <1>8. CASE FindPapers \/ ReadAdmission \/ ReadRegistry \/ ReadLedger
    BY <1>8, LedgersContinue
  <1>9. CASE Exited \/ OtherProcess \/ Emit \/ UNCHANGED shellVars
    BY <1>9, ElsewhereKeeps DEF Exited, OtherProcess, Emit, shellVars
  <1>10. CASE Meddle
    BY <1>10, MeddleKeeps
  <1>. QED  BY <1>1, <1>2, <1>3, <1>4, <1>5, <1>6, <1>7, <1>8, <1>9, <1>10
            DEF ShellNext, Steps

(* The invariant holds throughout, for any directories, stores, nodes,     *)
(* ledgers and command lines, however long the chain.                      *)
THEOREM ShellInvHolds == ShellSpec => []ShellInv
  BY ShellStarts, ShellInvKept, PTL DEF ShellSpec

(* An invocation acts on the right store (store.ts locateStore,            *)
(* layerStoreAt): the named one and never another, or the nearest          *)
(* parent's, under the backend its config says; no verb makes a store of a *)
(* directory that was none.                                                *)
THEOREM RightStoreHolds == ShellSpec => []RightStore
  BY ShellInvHolds, RightStoreFollows, PTL

----------------------------------------------------------------------------
(* What stood in the store of the invocation when it began.                *)
Stood == before.plane[call.place][call.backend]

(* A store only grows, and so does its damage.                             *)
PlanesGrown ==
    /\ before.plane \in [Places -> [Backends -> Planes]]
    /\ plane \in [Places -> [Backends -> Planes]]
    /\ \A p \in Places, b \in Backends :
         /\ before.plane[p][b].held \subseteq plane[p][b].held
         /\ before.plane[p][b].damaged \subseteq plane[p][b].damaged
         /\ before.plane[p][b].roots \subseteq plane[p][b].roots

(* A lab stays where it is, and an emitter writes its ledgers anew.        *)
PapersEmitted ==
    /\ before.papers \in [DOMAIN before.papers -> Labs \cup {NoLab}]
    /\ papers \in [DOMAIN before.papers -> Labs \cup {NoLab}]
    /\ NoLab \notin DOMAIN before.papers
    /\ \A start \in Places \cup {"cwd"} : Above[start] \in Seq(DOMAIN before.papers)
    /\ \A d \in DOMAIN before.papers :
         IF before.papers[d] = NoLab THEN papers[d] = NoLab
         ELSE /\ papers[d] # NoLab
              /\ papers[d].manifest = before.papers[d].manifest
              /\ papers[d].placed = before.papers[d].placed
              /\ \A stem \in Asked : papers[d].files[stem] \in {before.papers[d].files[stem], "one"}

Working == {"status", "doctor", "ls", "verify", "show", "name", "publish", "put"}

(* An invocation that has no store yet has said and written nothing.       *)
Untouched ==
    call.at \in {"prompt", "parse", "locate", "open"} =>
        /\ call.got = Nothing /\ call.todo = <<>> /\ call.wrote = {}
        /\ ~call.out /\ call.faults = 0
        /\ call.at # "prompt" => call.ask \in Asks
        /\ call.at = "parse" => call.ask.verb = "misspelt"
        /\ call.at \in {"locate", "open"} => call.ask.verb \in Working

(* What an answer commits it to, whatever the verb.                        *)
Ended ==
    /\ call.faults \in Nat /\ call.out \in BOOLEAN
    /\ call.at = "over" =>
        /\ call.out = (call.answer = "ok")
        /\ call.answer # "ok" => Rooted = {}
        /\ call.answer = "unexpected" => call.faults > 0
        /\ call.ask \in Asks
        /\ call.ask.verb = "misspelt" => call.got.rows = Told(call.ask.errors)
        /\ call.answer = "ok" /\ call.backend = "none" => call.ask.verb \in {"help", "misspelt"}
    /\ call.ask.verb \notin {"put", "name", "publish"} => call.wrote = {}
    /\ call.ask.verb = "name" => \A step \in call.wrote : step.of \subseteq Names

(* A verb that has its store is at one of its steps, or done.              *)
Going == call.at = "work" \/ (call.at = "over" /\ call.answer = "ok" /\ call.backend # "none")

IsSequence(t) == Len(t) \in Nat /\ t = [k \in 1..Len(t) |-> t[k]]

Moving ==
    Going =>
        /\ call.place \in Places /\ call.backend \in Backends
        /\ call.ask \in Asks /\ call.ask.verb \in Working
        /\ IsSequence(call.todo)
        /\ call.at = "work" <=> call.todo # <<>>
        /\ call.at = "work" => Rooted = {}
        /\ call.at = "work" /\ call.out =>
             \/ Head(call.todo).do \in {"names", "said", "row"}
             \/ Head(call.todo).do = "audit" /\ call.ask.id = "every"

(* A list of steps that begins with one, and one that is no longer.        *)
Begins(t, step) == t # <<>> /\ Head(t) = step
Only(t, step)   == Begins(t, step) /\ Tail(t) = <<>>

(* A step with some left to go through before the list goes on; what comes *)
(* next when none are.                                                     *)
Sweep(do, those) == [do |-> do, of |-> those]

AllFans == {Fan[id] : id \in Ids}

(* status and doctor: what was counted, and what was counted of the        *)
(* directories that are not left: all of it, unless the host failed.       *)
BackendRead == Steady(call.place) => call.got.backend = call.backend
RootsCounted ==
    BackendRead /\ call.got.roots \in Cardinality(Stood.roots)..Cardinality(Here.roots)
Outside(ids, fans) == {id \in ids : Fan[id] \notin fans}
ObjectsCounted(fans) ==
    /\ RootsCounted
    /\ call.got.backend \in Backends
    /\ call.got.backend = "sqlite" => call.got.objects = Uncounted
    /\ call.got.backend = "file" =>
         /\ call.got.objects \in 0..Cardinality(Outside(plane[call.place].file.held, fans))
         /\ call.faults = 0 =>
              Cardinality(Outside(before.plane[call.place].file.held, fans)) <= call.got.objects

Lasts(t) ==
    IF call.ask.verb = "doctor" THEN Only(t, Do("lab", "")) /\ call.got.ledgers = {}
    ELSE t = <<>>

(* doctor: a ledger told as its file was, then or now.                     *)
Reach == {"admission"} \cup
         (IF papers[LabFor].manifest = "decodes" THEN papers[LabFor].placed ELSE {})
LedgerTrue(ledger) ==
    IF ledger.stem \in Reach
    THEN ledger.says \in {Reading(before.papers[LabFor].files[ledger.stem]),
                          Reading(papers[LabFor].files[ledger.stem])}
    ELSE ledger.says = AtManifest
Reported == {ledger.stem : ledger \in call.got.ledgers}

PaperStage(t) ==
    /\ call.ask.verb = "doctor"
    /\ ObjectsCounted({})
    /\ \/ LabFor = NoLab /\ t = <<>> /\ call.got.ledgers = {}
       \/ /\ LabFor # NoLab
          /\ \A ledger \in call.got.ledgers : LedgerTrue(ledger)
          /\ \/ /\ Begins(t, Do("admission", LabFor)) /\ Only(Tail(t), Do("registry", LabFor))
                /\ Reported = {}
             \/ Only(t, Do("registry", LabFor)) /\ Reported = {"admission"}
             \/ /\ papers[LabFor].manifest = "decodes"
                /\ call.got.lab = LabFor /\ call.got.placed = papers[LabFor].placed
                /\ \A j \in DOMAIN t : \E k \in DOMAIN Stems : t[j] = Do("ledger", Stems[k])
                /\ "admission" \in Reported /\ Reported \subseteq Asked
                /\ \A k \in DOMAIN Stems :
                     Stems[k] \in Reported \/ \E j \in DOMAIN t : t[j] = Do("ledger", Stems[k])
             \/ t = <<>> /\ Reported = Asked

ReportStage(t) ==
    \/ /\ Begins(t, Do("config", "")) /\ Begins(Tail(t), Do("roots", ""))
       /\ Begins(Tail(Tail(t)), Do("objects", "")) /\ Lasts(Tail(Tail(Tail(t))))
    \/ /\ Begins(t, Do("roots", "")) /\ Begins(Tail(t), Do("objects", ""))
       /\ Lasts(Tail(Tail(t))) /\ BackendRead /\ call.got.backend \in Backends
    \/ /\ Begins(t, Do("objects", "")) /\ Lasts(Tail(t))
       /\ RootsCounted /\ call.got.backend \in Backends
    \/ \E fans \in SUBSET AllFans :
         /\ fans # {} /\ Begins(t, Sweep("fan", fans)) /\ Lasts(Tail(t))
         /\ ObjectsCounted(fans) /\ call.got.backend = "file"
    \/ Lasts(t) /\ ObjectsCounted({})
    \/ PaperStage(t)

(* ls and verify: each root published when the verb began is left or has   *)
(* its one row, and each row is true.                                      *)
ListedRoots == {row.id : row \in call.got.rows}
RowTrue(row) ==
    IF call.ask.verb = "ls" THEN VerdictTrue(row, {row.id}, Stood, Here)
    ELSE /\ VerdictTrue(row, Below(row.id), Stood, Here)
         /\ row.verdict = "ok" => row.nodes = Cardinality(Below(row.id))
RowsSoFar(roots) ==
    /\ \A row \in call.got.rows : RowTrue(row)
    /\ \A row, twin \in call.got.rows : row.id = twin.id => row = twin
    /\ roots \cap ListedRoots = {}
    /\ Stood.roots \subseteq roots \cup ListedRoots
    /\ roots \cup ListedRoots \subseteq Here.roots

(* verify: what a walk has read lies below its root and was sound, and the *)
(* references of what it read are read or next.                            *)
Walked(root) ==
    call.got.walking =>
        /\ call.got.seen \cup call.got.next \subseteq Ids
        /\ \A ids \in SUBSET Ids : root \in ids /\ Closed(ids) =>
             call.got.seen \cup call.got.next \subseteq ids
        /\ call.got.seen \subseteq Here.held
        /\ call.got.seen \cap Stood.damaged = {}
        /\ IF call.got.fails = "ok"
           THEN /\ root \in call.got.seen \cup call.got.next
                /\ \A id \in call.got.seen : Refs[id] \subseteq call.got.seen \cup call.got.next
           ELSE /\ call.got.next = {}
                /\ VerdictTrue(Row(root, call.got.fails, 0), Below(root), Stood, Here)

ListStage(t) ==
    LET of == IF call.ask.verb = "ls" THEN "row" ELSE "audit"
    IN  \/ Only(t, Do("listing", of)) /\ call.got.rows = {} /\ ~call.got.walking
        \/ \E roots \in SUBSET Ids :
             /\ IF roots = {} THEN t = <<>> ELSE Only(t, Sweep(of, roots))
             /\ RowsSoFar(roots)
             /\ call.got.walking => call.ask.verb = "verify" /\ roots # {}
             /\ roots # {} /\ call.ask.verb = "verify" => Walked(On)

AuditStage(t) ==
    /\ call.got.walking => t # <<>>
    /\ \/ /\ Begins(t, Do("address", "")) /\ Only(Tail(t), Do("audit", call.ask.id))
          /\ call.got.rows = {} /\ ~call.got.walking
       \/ /\ Only(t, Do("audit", call.ask.id)) /\ call.got.rows = {} /\ call.ask.id \in Ids
          /\ Walked(call.ask.id)
       \/ /\ t = <<>>
          /\ \E row \in call.got.rows :
               row.id = call.ask.id /\ row.verdict = "ok" /\ RowTrue(row)

(* show: each name left to read or told.                                   *)
Subjects == {a \in DOMAIN About : About[a] = call.ask.id}
NamesSoFar(roots) ==
    /\ roots \subseteq Here.roots
    /\ call.got.rows \subseteq Subjects \cap Here.roots \cap Here.held
    /\ call.got.unread => call.faults > 0
    /\ call.faults = 0 =>
         (Subjects \cap Stood.roots \cap Stood.held) \ Here.damaged \subseteq call.got.rows \cup roots

ShowEnds(t) == IF call.ask.json THEN t = <<>> ELSE Only(t, Do("names", ""))
ShowStage(t) ==
    \/ /\ Begins(t, Do("address", "")) /\ Begins(Tail(t), Do("load", ""))
       /\ ShowEnds(Tail(Tail(t))) /\ call.got.rows = {} /\ ~call.got.unread
    \/ /\ Begins(t, Do("load", "")) /\ ShowEnds(Tail(t)) /\ call.got.rows = {} /\ ~call.got.unread
    \/ ShowEnds(t) /\ call.got.rows = {} /\ ~call.got.unread
    \/ \E roots \in SUBSET Ids :
         /\ IF roots = {} THEN t = <<>> ELSE Only(t, Sweep("said", roots))
         /\ ~call.ask.json /\ NamesSoFar(roots)

(* publish: what was loaded is there and was sound.                        *)
Loaded == call.ask.id \in Here.held /\ call.ask.id \notin Stood.damaged
PublishStage(t) ==
    \/ /\ Begins(t, Do("address", "")) /\ Begins(Tail(t), Do("load", ""))
       /\ Only(Tail(Tail(t)), Do("publish", call.ask.id))
    \/ Begins(t, Do("load", "")) /\ Only(Tail(t), Do("publish", call.ask.id))
    \/ Only(t, Do("publish", call.ask.id)) /\ Loaded
    \/ t = <<>> /\ Loaded /\ call.ask.id \in Here.roots

(* name: the node is there, then its annotation, then that is a root.      *)
NameStage(t) ==
    LET name == NameFor(call.ask.id)
        said == call.ask.id \in Here.held /\ Tag[call.ask.id] \in Nameable
    IN  \/ /\ Begins(t, Do("text", "")) /\ Begins(Tail(t), Do("address", ""))
           /\ Begins(Tail(Tail(t)), Do("load", "")) /\ Only(Tail(Tail(Tail(t))), Do("subject", ""))
        \/ /\ Begins(t, Do("address", "")) /\ Begins(Tail(t), Do("load", ""))
           /\ Only(Tail(Tail(t)), Do("subject", ""))
        \/ Begins(t, Do("load", "")) /\ Only(Tail(t), Do("subject", ""))
        \/ Only(t, Do("subject", "")) /\ call.ask.id \in Here.held
        \/ Begins(t, Do("admit", name)) /\ Only(Tail(t), Do("publish", name)) /\ said
        \/ Only(t, Do("publish", name)) /\ said /\ name \in Here.held
        \/ t = <<>> /\ said /\ name \in Here.held \cap Here.roots

(* put: the file's bytes, or each node of the document, there or left.     *)
PutStage(t) ==
    IF call.ask.program
    THEN \/ Begins(t, Do("file", "")) /\ Only(Tail(t), Do("document", ""))
         \/ Only(t, Do("document", ""))
         \/ /\ \A j \in DOMAIN t : \E id \in Ids : t[j] = Do("admit", id)
            /\ \A k \in DOMAIN Table :
                 Table[k] \in Here.held \/ \E j \in DOMAIN t : t[j] = Do("admit", Table[k])
    ELSE \/ /\ Begins(t, Do("tag", "")) /\ Begins(Tail(t), Do("file", ""))
            /\ Only(Tail(Tail(t)), Do("bytes", ""))
         \/ Begins(t, Do("file", "")) /\ Only(Tail(t), Do("bytes", ""))
         \/ Only(t, Do("bytes", ""))
         \/ Only(t, Do("admit", call.ask.id))
         \/ t = <<>> /\ call.ask.id \in Here.held

Stages ==
    Going =>
        /\ call.ask.verb \in {"status", "doctor"} => ReportStage(call.todo)
        /\ call.ask.verb = "ls" => ListStage(call.todo)
        /\ call.ask.verb = "verify" /\ call.ask.id = "every" => ListStage(call.todo)
        /\ call.ask.verb = "verify" /\ call.ask.id # "every" => AuditStage(call.todo)
        /\ call.ask.verb = "show" => ShowStage(call.todo)
        /\ call.ask.verb = "publish" => PublishStage(call.todo)
        /\ call.ask.verb = "name" => NameStage(call.todo)
        /\ call.ask.verb = "put" => PutStage(call.todo)

(* The inductive invariant of the reports and the outcomes.                *)
ShellReports ==
    /\ PlanesGrown /\ PapersEmitted
    /\ Untouched /\ Ended /\ Moving /\ Stages

(* Lists of steps: a list that is not over is its first step and the rest. *)
LEMMA Unrolled ==
    ASSUME NEW t, IsSequence(t), t # <<>>
    PROVE  /\ Len(t) \in Nat /\ Len(t) >= 1 /\ DOMAIN t = 1..Len(t)
           /\ IsSequence(Tail(t))
           /\ Head(t) = t[1]
           /\ \A j \in DOMAIN Tail(t) : j + 1 \in DOMAIN t /\ Tail(t)[j] = t[j + 1]
           /\ \A j \in DOMAIN t : t[j] = Head(t) \/ \E i \in DOMAIN Tail(t) : Tail(t)[i] = t[j]
  <1>. DEFINE S == {t[k] : k \in 1..Len(t)}
  <1>1. t \in Seq(S) /\ DOMAIN t = 1..Len(t)
    <2>1. [k \in 1..Len(t) |-> t[k]] \in Seq(S)
      BY DEF IsSequence
    <2>. QED  BY <2>1 DEF IsSequence
  <1>. HIDE DEF S
  <1>2. Tail(t) \in Seq(S) /\ Len(Tail(t)) = Len(t) - 1 /\ Len(t) >= 1
    BY <1>1
  <1>3. \A j \in 1..Len(Tail(t)) : Tail(t)[j] = t[j + 1]
    BY <1>1, <1>2
  <1>4. DOMAIN Tail(t) = 1..Len(Tail(t)) /\ Len(Tail(t)) \in Nat
    BY <1>2
  <1>5. IsSequence(Tail(t))
    <2>. DEFINE s == Tail(t)
    <2>1. s \in Seq(S)
      BY <1>2
    <2>. HIDE DEF s
    <2>2. s = [k \in 1..Len(s) |-> s[k]] /\ Len(s) \in Nat
      BY <2>1
    <2>. QED  BY <2>2 DEF s, IsSequence
  <1>6. ASSUME NEW j \in DOMAIN t, j # 1
        PROVE  \E i \in DOMAIN Tail(t) : Tail(t)[i] = t[j]
    <2>1. j - 1 \in DOMAIN Tail(t) /\ (j - 1) + 1 = j
      BY <1>1, <1>2, <1>4, <1>6
    <2>. QED  BY <1>3, <1>4, <2>1
  <1>. QED  BY <1>1, <1>2, <1>3, <1>4, <1>5, <1>6

(* A step put before a list.                                               *)
LEMMA Rolled ==
    ASSUME NEW a, NEW t, IsSequence(t)
    PROVE  /\ <<>> \o t = t
           /\ IsSequence(<<a>> \o t) /\ <<a>> \o t # <<>>
           /\ Head(<<a>> \o t) = a /\ Tail(<<a>> \o t) = t
  <1>. DEFINE S == {t[k] : k \in 1..Len(t)} \cup {a}
  <1>1. t \in Seq(S)
    <2>1. [k \in 1..Len(t) |-> t[k]] \in Seq(S)
      BY DEF IsSequence
    <2>. QED  BY <2>1 DEF IsSequence
  <1>2. <<a>> \in Seq(S)
    OBVIOUS
  <1>. HIDE DEF S
  <1>3. <<>> \o t = t
    BY <1>1
  <1>4. /\ <<a>> \o t \in Seq(S) /\ <<a>> \o t # <<>>
        /\ Head(<<a>> \o t) = a /\ Tail(<<a>> \o t) = t
    BY <1>1, <1>2
  <1>5. IsSequence(<<a>> \o t)
    <2>. DEFINE s == <<a>> \o t
    <2>1. s \in Seq(S)
      BY <1>4
    <2>. HIDE DEF s
    <2>2. s = [k \in 1..Len(s) |-> s[k]] /\ Len(s) \in Nat
      BY <2>1
    <2>. QED  BY <2>2 DEF s, IsSequence
  <1>. QED  BY <1>3, <1>4, <1>5

(* Short lists are what they spell.                                        *)
LEMMA Spelled ==
    ASSUME NEW a, NEW b, NEW c, NEW d
    PROVE  /\ IsSequence(<<>>)
           /\ IsSequence(<<a>>) /\ <<a>> # <<>> /\ Head(<<a>>) = a /\ Tail(<<a>>) = <<>>
           /\ IsSequence(<<a, b>>) /\ <<a, b>> # <<>> /\ Head(<<a, b>>) = a /\ Tail(<<a, b>>) = <<b>>
           /\ IsSequence(<<a, b, c>>) /\ <<a, b, c>> # <<>>
           /\ Head(<<a, b, c>>) = a /\ Tail(<<a, b, c>>) = <<b, c>>
           /\ IsSequence(<<a, b, c, d>>) /\ <<a, b, c, d>> # <<>>
           /\ Head(<<a, b, c, d>>) = a /\ Tail(<<a, b, c, d>>) = <<b, c, d>>
  <1>1. IsSequence(<<>>)
    BY DEF IsSequence
  <1>2. IsSequence(<<a>>) /\ <<a>> # <<>> /\ Head(<<a>>) = a /\ Tail(<<a>>) = <<>>
    BY DEF IsSequence
  <1>3. IsSequence(<<a, b>>) /\ <<a, b>> # <<>> /\ Head(<<a, b>>) = a /\ Tail(<<a, b>>) = <<b>>
    BY DEF IsSequence
  <1>4. /\ IsSequence(<<a, b, c>>) /\ <<a, b, c>> # <<>>
        /\ Head(<<a, b, c>>) = a /\ Tail(<<a, b, c>>) = <<b, c>>
    BY DEF IsSequence
  <1>5. /\ IsSequence(<<a, b, c, d>>) /\ <<a, b, c, d>> # <<>>
        /\ Head(<<a, b, c, d>>) = a /\ Tail(<<a, b, c, d>>) = <<b, c, d>>
    BY DEF IsSequence
  <1>. QED  BY <1>1, <1>2, <1>3, <1>4, <1>5

(* A listing has a first of whatever it sorts.                             *)
LEMMA Sorted ==
    ASSUME NEW those, those # {}, those \subseteq {Order[k] : k \in DOMAIN Order}
    PROVE  \E one \in those : \A other \in those : Precedes(one, other)
  <1>. DEFINE places == {k \in DOMAIN Order : Order[k] \in those}
  <1>1. places # {} /\ places \subseteq Nat
    BY ShellAssumption
  <1>2. PICK first_ \in places : \A k \in places : first_ <= k
    BY <1>1, Least
  <1>3. \A other \in those : Precedes(Order[first_], other)
    <2>. SUFFICES ASSUME NEW other \in those, Order[first_] # other
                  PROVE  Precedes(Order[first_], other)
      BY DEF Precedes
    <2>1. PICK k \in DOMAIN Order : Order[k] = other
      OBVIOUS
    <2>2. k \in places /\ first_ # k /\ k \in Nat /\ first_ \in Nat
      BY <1>1, <2>1
    <2>. QED  BY <1>2, <2>1, <2>2 DEF Precedes
  <1>. QED  BY <1>3

(* A step about one thing is the first of its list and the rest goes on.   *)
LEMMA Singly ==
    ASSUME NEW do, NEW on, IsSequence(call.todo), Begins(call.todo, Do(do, on))
    PROVE  On = on /\ Rest = Tail(call.todo) /\ IsSequence(Rest) /\ Head(call.todo).do = do
  <1>1. Left = {on} /\ Head(call.todo).do = do
    BY DEF Begins, Do, Left
  <1>2. \A other \in Left : Precedes(on, other)
    BY <1>1 DEF Precedes
  <1>3. On = on
    BY <1>1, <1>2 DEF On
  <1>4. Rest = <<>> \o Tail(call.todo)
    BY <1>1, <1>3 DEF Rest, Each
  <1>. QED  BY <1>1, <1>3, <1>4, Unrolled, Rolled DEF Begins

(* A step with some left takes one of them.                                *)
LEMMA Swept ==
    ASSUME NEW do, NEW those, IsSequence(call.todo), Begins(call.todo, Sweep(do, those)),
           those # {}, those \subseteq {Order[k] : k \in DOMAIN Order}
    PROVE  /\ On \in those /\ Head(call.todo).do = do /\ IsSequence(Rest)
           /\ IF those \ {On} = {} THEN Rest = Tail(call.todo)
              ELSE Begins(Rest, Sweep(do, those \ {On})) /\ Tail(Rest) = Tail(call.todo)
  <1>1. Left = those /\ Head(call.todo).do = do
    BY DEF Begins, Sweep, Left
  <1>2. On \in those
    BY <1>1, Sorted DEF On
  <1>3. IsSequence(Tail(call.todo))
    BY Unrolled DEF Begins
  <1>4. CASE those \ {On} = {}
    <2>1. Rest = <<>> \o Tail(call.todo)
      BY <1>1, <1>4 DEF Rest, Each
    <2>. QED  BY <1>1, <1>2, <1>3, <1>4, <2>1, Rolled
  <1>5. CASE those \ {On} # {}
    <2>1. Rest = <<Sweep(do, those \ {On})>> \o Tail(call.todo)
      BY <1>1, <1>5 DEF Rest, Each, Sweep
    <2>. QED  BY <1>1, <1>2, <1>3, <1>5, <2>1, Rolled DEF Begins
  <1>. QED  BY <1>4, <1>5

(* What a step may do to the invocation: refuse, or go on with what it     *)
(* noted.                                                                  *)
Onward ==
    /\ call'.ask = call.ask /\ call'.place = call.place /\ call'.backend = call.backend
    /\ call'.faults \in Nat /\ call'.faults >= call.faults
    /\ UNCHANGED <<before, meddled>>

Stops(why) ==
    /\ Onward
    /\ call'.at = "over" /\ call'.answer = why /\ call'.out = call.out
    /\ call'.wrote = call.wrote /\ call'.got = call.got

Moves(rest, out, wrote, got) ==
    /\ Onward
    /\ call'.todo = rest
    /\ call'.at = IF rest = <<>> THEN "over" ELSE "work"
    /\ call'.answer = IF rest = <<>> THEN "ok" ELSE "none"
    /\ call'.out = out
    /\ call'.wrote = wrote /\ call'.got = got

(* Refusing, and going on, with the fault counted or not.                  *)
LEMMA Stopping ==
    ASSUME CallShape(call), call.faults \in Nat, NEW why, NEW fault \in BOOLEAN,
           UNCHANGED <<before, meddled>>, call' = Faulted(Refuses(why), fault)
    PROVE  Stops(why) /\ (fault => call'.faults > 0)
  BY DEF CallShape, Faulted, Refuses, Stops, Onward

(* What going on leaves of the invocation, before anything is noted.       *)
LEMMA GoneOn ==
    ASSUME CallShape(call), NEW rest
    PROVE  /\ CallShape(Goes(rest)) /\ Goes(rest).todo = rest
           /\ Goes(rest).at = (IF rest = <<>> THEN "over" ELSE "work")
           /\ Goes(rest).answer = (IF rest = <<>> THEN "ok" ELSE "none")
           /\ Goes(rest).out = (call.out \/ rest = <<>>)
           /\ Goes(rest).ask = call.ask /\ Goes(rest).place = call.place
           /\ Goes(rest).backend = call.backend /\ Goes(rest).faults = call.faults
           /\ Goes(rest).wrote = call.wrote /\ Goes(rest).got = call.got
  BY DEF CallShape, Goes

(* An invocation that only noted something down.                           *)
Noted(d, c, out, wrote, got) ==
    /\ CallShape(d)
    /\ d.ask = c.ask /\ d.place = c.place /\ d.backend = c.backend /\ d.faults = c.faults
    /\ d.todo = c.todo /\ d.at = c.at /\ d.answer = c.answer
    /\ d.out = out /\ d.wrote = wrote /\ d.got = got

(* Every way a step notes something down.                                  *)
LEMMA Notes ==
    ASSUME NEW c, CallShape(c), NEW x, NEW y
    PROVE  /\ Noted(c, c,
                  c.out, c.wrote, c.got)
           /\ Noted([c EXCEPT !.out = x], c,
                  x, c.wrote, c.got)
           /\ Noted([c EXCEPT !.wrote = x], c,
                  c.out, x, c.got)
           /\ Noted([c EXCEPT !.out = x, !.got.rows = y], c,
                  x, c.wrote, [c.got EXCEPT !.rows = y])
           /\ Noted([c EXCEPT !.out = x, !.got.walking = FALSE, !.got.rows = y], c,
                  x, c.wrote, [c.got EXCEPT !.walking = FALSE, !.rows = y])
           /\ Noted([c EXCEPT !.got.walking = TRUE, !.got.next = x, !.got.seen = {}, !.got.fails = "ok"], c,
                  c.out, c.wrote, [c.got EXCEPT !.walking = TRUE, !.next = x, !.seen = {}, !.fails = "ok"])
           /\ Noted([c EXCEPT !.got.seen = x, !.got.next = y], c,
                  c.out, c.wrote, [c.got EXCEPT !.seen = x, !.next = y])
           /\ Noted([c EXCEPT !.got.next = x, !.got.fails = y], c,
                  c.out, c.wrote, [c.got EXCEPT !.next = x, !.fails = y])
           /\ Noted([c EXCEPT !.got.rows = x], c,
                  c.out, c.wrote, [c.got EXCEPT !.rows = x])
           /\ Noted([c EXCEPT !.got.unread = x], c,
                  c.out, c.wrote, [c.got EXCEPT !.unread = x])
           /\ Noted([c EXCEPT !.got.backend = x], c,
                  c.out, c.wrote, [c.got EXCEPT !.backend = x])
           /\ Noted([c EXCEPT !.got.roots = x], c,
                  c.out, c.wrote, [c.got EXCEPT !.roots = x])
           /\ Noted([c EXCEPT !.got.objects = x], c,
                  c.out, c.wrote, [c.got EXCEPT !.objects = x])
           /\ Noted([c EXCEPT !.got.ledgers = x], c,
                  c.out, c.wrote, [c.got EXCEPT !.ledgers = x])
           /\ Noted([c EXCEPT !.got.lab = x, !.got.placed = y], c,
                  c.out, c.wrote, [c.got EXCEPT !.lab = x, !.placed = y])
  <1>1. Noted(c, c,
                  c.out, c.wrote, c.got)
    BY DEF CallShape, Noted
  <1>2. Noted([c EXCEPT !.out = x], c,
                  x, c.wrote, c.got)
    BY DEF CallShape, Noted
  <1>3. Noted([c EXCEPT !.wrote = x], c,
                  c.out, x, c.got)
    BY DEF CallShape, Noted
  <1>4. Noted([c EXCEPT !.out = x, !.got.rows = y], c,
                  x, c.wrote, [c.got EXCEPT !.rows = y])
    BY DEF CallShape, Noted
  <1>5. Noted([c EXCEPT !.out = x, !.got.walking = FALSE, !.got.rows = y], c,
                  x, c.wrote, [c.got EXCEPT !.walking = FALSE, !.rows = y])
    BY DEF CallShape, Noted
  <1>6. Noted([c EXCEPT !.got.walking = TRUE, !.got.next = x, !.got.seen = {}, !.got.fails = "ok"], c,
                  c.out, c.wrote, [c.got EXCEPT !.walking = TRUE, !.next = x, !.seen = {}, !.fails = "ok"])
    BY ZenonT(45) DEF CallShape, Noted
  <1>7. Noted([c EXCEPT !.got.seen = x, !.got.next = y], c,
                  c.out, c.wrote, [c.got EXCEPT !.seen = x, !.next = y])
    BY DEF CallShape, Noted
  <1>8. Noted([c EXCEPT !.got.next = x, !.got.fails = y], c,
                  c.out, c.wrote, [c.got EXCEPT !.next = x, !.fails = y])
    BY DEF CallShape, Noted
  <1>9. Noted([c EXCEPT !.got.rows = x], c,
                  c.out, c.wrote, [c.got EXCEPT !.rows = x])
    BY DEF CallShape, Noted
  <1>10. Noted([c EXCEPT !.got.unread = x], c,
                  c.out, c.wrote, [c.got EXCEPT !.unread = x])
    BY DEF CallShape, Noted
  <1>11. Noted([c EXCEPT !.got.backend = x], c,
                  c.out, c.wrote, [c.got EXCEPT !.backend = x])
    BY DEF CallShape, Noted
  <1>12. Noted([c EXCEPT !.got.roots = x], c,
                  c.out, c.wrote, [c.got EXCEPT !.roots = x])
    BY DEF CallShape, Noted
  <1>13. Noted([c EXCEPT !.got.objects = x], c,
                  c.out, c.wrote, [c.got EXCEPT !.objects = x])
    BY DEF CallShape, Noted
  <1>14. Noted([c EXCEPT !.got.ledgers = x], c,
                  c.out, c.wrote, [c.got EXCEPT !.ledgers = x])
    BY DEF CallShape, Noted
  <1>15. Noted([c EXCEPT !.got.lab = x, !.got.placed = y], c,
                  c.out, c.wrote, [c.got EXCEPT !.lab = x, !.placed = y])
    BY DEF CallShape, Noted
  <1>. QED  BY <1>1, <1>2, <1>3, <1>4, <1>5, <1>6, <1>7, <1>8, <1>9, <1>10, <1>11, <1>12, <1>13, <1>14, <1>15

(* Counting a fault leaves the rest as noted.                              *)
LEMMA CountingFault ==
    ASSUME NEW c, CallShape(c), c.faults \in Nat, NEW fault \in BOOLEAN
    PROVE  LET d == Faulted(c, fault)
           IN  /\ d.faults \in Nat /\ d.faults >= c.faults /\ (fault => d.faults > 0)
               /\ d.ask = c.ask /\ d.place = c.place /\ d.backend = c.backend
               /\ d.todo = c.todo /\ d.at = c.at /\ d.answer = c.answer
               /\ d.out = c.out /\ d.wrote = c.wrote /\ d.got = c.got
  BY DEF CallShape, Faulted

(* So the invocation moves on.                                             *)
LEMMA MovingOn ==
    ASSUME CallShape(call), call.faults \in Nat, NEW rest, NEW fault \in BOOLEAN,
           NEW d, NEW out, NEW wrote, NEW got, Noted(d, Goes(rest), out, wrote, got),
           UNCHANGED <<before, meddled>>, call' = Faulted(d, fault)
    PROVE  Moves(rest, out, wrote, got) /\ (fault => call'.faults > 0)
  <1>1. CallShape(d) /\ d.faults = call.faults
    BY GoneOn DEF Noted
  <1>. QED  BY <1>1, CountingFault, GoneOn DEF Noted, Moves, Onward

(* A step that meets no fault counts none.                                 *)
LEMMA Unfaulted == \A c : Faulted(c, FALSE) = c
  BY DEF Faulted

(* The step a list begins with is the one it names.                        *)
LEMMA Starts ==
    /\ \A t, do, on : Begins(t, Do(do, on)) => Head(t).do = do
    /\ \A t, do, those : Begins(t, Sweep(do, those)) => Head(t).do = do
  BY DEF Begins, Do, Sweep

(* What is left to sweep through is nothing, or one step.                  *)
LEMMA Sweeping ==
    ASSUME NEW do, NEW those
    PROVE  /\ IsSequence(Each(do, those))
           /\ IF those = {} THEN Each(do, those) = <<>> ELSE Only(Each(do, those), Sweep(do, those))
           /\ Each(do, those) # <<>> => those # {} /\ Head(Each(do, those)).do = do
  <1>1. CASE those = {}
    BY <1>1, Spelled DEF Each
  <1>2. CASE those # {}
    <2>1. Each(do, those) = <<Sweep(do, those)>>
      BY <1>2 DEF Each, Sweep
    <2>2. Only(Each(do, those), Sweep(do, those)) /\ IsSequence(Each(do, those))
      BY <2>1, Spelled DEF Only, Begins
    <2>. QED  BY <1>2, <2>2, Starts DEF Only
  <1>. QED  BY <1>1, <1>2

(* What is known of a verb at work.                                        *)
AtWork == ShellInv /\ ShellReports /\ call.at = "work"

(* What every step of it may rely on.                                      *)
LEMMA Workable ==
    ASSUME AtWork
    PROVE  /\ CallShape(call) /\ call.faults \in Nat /\ call.answer = "none"
           /\ call.out \in BOOLEAN
           /\ call.place \in Places /\ call.backend \in Backends
           /\ call.ask \in Asks /\ call.ask.verb \in Working
           /\ IsSequence(call.todo) /\ call.todo # <<>> /\ Rooted = {}
  BY DEF AtWork, ShellInv, ShellTyped, Looking, ShellReports, Ended, Moving, Going

(* A step that changes the invocation alone keeps what is known of the     *)
(* disk.                                                                   *)
LEMMA DiskKept ==
    ASSUME AtWork, Kept
    PROVE  PlanesGrown' /\ PapersEmitted' /\ UNCHANGED <<plane, papers, before, meddled>>
  <1>1. UNCHANGED <<plane, papers, before, meddled>>
    BY DEF Kept
  <1>2. PlanesGrown'
    BY <1>1 DEF AtWork, ShellReports, PlanesGrown
  <1>3. PapersEmitted'
    BY <1>1 DEF AtWork, ShellReports, PapersEmitted
  <1>. QED  BY <1>1, <1>2, <1>3

(* A refusal keeps the invariant: nothing was said, and nothing published. *)
LEMMA Refused ==
    ASSUME AtWork, NEW why, Stops(why), why # "ok", why = "unexpected" => call'.faults > 0,
           ~call.out, PlanesGrown', PapersEmitted'
    PROVE  ShellReports'
  <1>1. Untouched' /\ ~Going'
    BY DEF Stops, Untouched, Going
  <1>2. Rooted' = {}
    BY Workable DEF Stops, Rooted
  <1>3. Ended'
    <2>1. call'.at = "over" /\ call'.answer # "ok" /\ call'.out = FALSE
      BY Workable DEF Stops, AtWork, ShellReports, Ended
    <2>2. call'.ask.verb # "misspelt" /\ call'.ask \in Asks
      BY Workable DEF Stops, Onward, Working
    <2>3. /\ call'.ask.verb \notin {"put", "name", "publish"} => call'.wrote = {}
          /\ call'.ask.verb = "name" => \A step \in call'.wrote : step.of \subseteq Names
      BY DEF Stops, Onward, AtWork, ShellReports, Ended
    <2>. QED  BY <1>2, <2>1, <2>2, <2>3 DEF Stops, Onward, Ended
  <1>4. Moving' /\ Stages'
    BY <1>1 DEF Moving, Stages
  <1>. QED  BY <1>1, <1>3, <1>4 DEF ShellReports

(* Going on keeps it, when the verb is at its next stage.                  *)
LEMMA Advanced ==
    ASSUME AtWork, NEW rest, NEW out \in BOOLEAN, NEW wrote, NEW got,
           Moves(rest, out, wrote, got), IsSequence(rest), PlanesGrown', PapersEmitted',
           rest = <<>> => out,
           rest # <<>> /\ out =>
               \/ Head(rest).do \in {"names", "said", "row"}
               \/ Head(rest).do = "audit" /\ call.ask.id = "every",
           rest # <<>> => Rooted' = {},
           call.ask.verb \notin {"put", "name", "publish"} => wrote = {},
           call.ask.verb = "name" => \A step \in wrote : step.of \subseteq Names,
           Stages'
    PROVE  ShellReports'
  <1>1. call'.at \in {"work", "over"} /\ (call'.at = "work" <=> rest # <<>>)
    BY DEF Moves
  <1>2. Untouched'
    BY <1>1 DEF Untouched
  <1>3. /\ call'.ask = call.ask /\ call'.ask \in Asks /\ call'.ask.verb \in Working
        /\ call'.place \in Places /\ call'.backend \in Backends /\ call'.faults \in Nat
    BY Workable DEF Moves, Onward
  <1>4. Moving'
    BY <1>1, <1>3 DEF Moves, Moving
  <1>5. Ended'
    <2>1. call'.at = "over" => call'.out = TRUE /\ call'.answer = "ok"
      BY <1>1 DEF Moves
    <2>2. call'.backend # "none" /\ call'.ask.verb # "misspelt"
      BY <1>3 DEF Backends, Working
    <2>. QED  BY <1>3, <2>1, <2>2 DEF Moves, Ended
  <1>. QED  BY <1>2, <1>4, <1>5 DEF ShellReports

(* What each step does to the invocation.                                  *)
LEMMA JudgeDoes ==
    ASSUME AtWork, NEW step, NEW holds, NEW why, Judge(step, holds, why)
    PROVE  /\ Head(call.todo).do = step /\ Kept
           /\ \/ holds /\ Moves(Rest, call.out \/ Rest = <<>>, call.wrote, call.got)
              \/ ~holds /\ Stops(why)
  <1>1. Kept /\ UNCHANGED <<before, meddled>> /\ Head(call.todo).do = step
    BY DEF Judge, Kept, Doing
  <1>2. CASE holds
    <2>1. call' = Faulted(Goes(Rest), FALSE)
      BY <1>2, Unfaulted DEF Judge
    <2>2. Noted(Goes(Rest), Goes(Rest), call.out \/ Rest = <<>>, call.wrote, call.got)
      BY Workable, GoneOn DEF Noted
    <2>. QED  BY <1>1, <1>2, <2>1, <2>2, Workable, MovingOn
  <1>3. CASE ~holds
    <2>1. call' = Faulted(Refuses(why), FALSE)
      BY <1>3, Unfaulted DEF Judge
    <2>. QED  BY <1>1, <1>3, <2>1, Workable, Stopping
  <1>. QED  BY <1>2, <1>3

(* Reading the file stops the verb, or goes on to admit what it holds.     *)
LEMMA ReadArgumentDoes ==
    ASSUME AtWork, ReadArgument
    PROVE  /\ Kept
           /\ \/ Stops("unexpected") /\ call'.faults > 0
              \/ Stops("PermissionDenied") \/ Stops("NotAProgramDocument")
              \/ /\ Head(call.todo).do = "bytes"
                 /\ Moves(<<Do("admit", call.ask.id)>>, call.out, call.wrote, call.got)
              \/ /\ Head(call.todo).do = "document"
                 /\ LET rest == [k \in DOMAIN Table |-> Do("admit", Table[k])]
                    IN  Moves(rest, call.out \/ rest = <<>>, call.wrote, call.got)
  <1>1. PICK gone \in Faults :
         call' = Faulted(IF gone THEN Refuses("unexpected")
                         ELSE IF call.ask.file = "locked" THEN Refuses("PermissionDenied")
                         ELSE IF Doing("bytes") THEN Goes(<<Do("admit", call.ask.id)>>)
                         ELSE IF call.ask.file # "document" THEN Refuses("NotAProgramDocument")
                         ELSE Goes([k \in DOMAIN Table |-> Do("admit", Table[k])]), gone)
    BY DEF ReadArgument
  <1>2. gone \in BOOLEAN /\ Kept /\ UNCHANGED <<before, meddled>>
    BY DEF Faults, ReadArgument, Kept
  <1>3. ASSUME NEW why, call' = Faulted(Refuses(why), gone)
        PROVE  Stops(why) /\ (gone => call'.faults > 0)
    BY <1>2, <1>3, Workable, Stopping
  <1>4. ASSUME NEW rest, call' = Faulted(Goes(rest), gone)
        PROVE  Moves(rest, call.out \/ rest = <<>>, call.wrote, call.got)
    <2>1. Noted(Goes(rest), Goes(rest), call.out \/ rest = <<>>, call.wrote, call.got)
      BY Workable, GoneOn DEF Noted
    <2>. QED  BY <1>2, <1>4, <2>1, Workable, MovingOn
  <1>5. call.out \in BOOLEAN => (call.out \/ <<Do("admit", call.ask.id)>> = <<>>) = call.out
    BY Spelled
  <1>6. CASE gone
    BY <1>1, <1>2, <1>3, <1>6
  <1>7. CASE ~gone /\ call.ask.file = "locked"
    BY <1>1, <1>2, <1>3, <1>7
  <1>8. CASE ~gone /\ call.ask.file # "locked" /\ Doing("bytes")
    <2>1. Moves(<<Do("admit", call.ask.id)>>, call.out \/ <<Do("admit", call.ask.id)>> = <<>>,
                call.wrote, call.got)
      BY <1>1, <1>4, <1>8
    <2>2. (call.out \/ <<Do("admit", call.ask.id)>> = <<>>) = call.out
      BY Workable, <1>5
    <2>3. Moves(<<Do("admit", call.ask.id)>>, call.out, call.wrote, call.got)
      BY <2>1, <2>2
    <2>. QED  BY <1>2, <1>8, <2>3 DEF Doing
  <1>9. CASE ~gone /\ call.ask.file # "locked" /\ ~Doing("bytes") /\ call.ask.file # "document"
    BY <1>1, <1>2, <1>3, <1>9
  <1>10. CASE ~gone /\ call.ask.file # "locked" /\ ~Doing("bytes") /\ call.ask.file = "document"
    <2>. DEFINE rest == [k \in DOMAIN Table |-> Do("admit", Table[k])]
    <2>1. call' = Faulted(Goes(rest), gone)
      BY <1>1, <1>10
    <2>2. Head(call.todo).do = "document"
      BY <1>10 DEF ReadArgument, Doing
    <2>. HIDE DEF rest
    <2>3. Moves(rest, call.out \/ rest = <<>>, call.wrote, call.got)
      BY <1>4, <2>1
    <2>. QED  BY <1>2, <2>2, <2>3 DEF rest
  <1>. QED  BY <1>6, <1>7, <1>8, <1>9, <1>10

(* Loading the node stops the verb, or the node is held and was sound.     *)
LEMMA LoadAskedDoes ==
    ASSUME AtWork, LoadAsked
    PROVE  /\ Kept /\ Head(call.todo).do = "load"
           /\ \/ Stops("broken") \/ Stops("absent") \/ Stops("damaged")
              \/ /\ call.ask.id \in Here.held /\ call.ask.id \notin Here.damaged
                 /\ Moves(Rest, call.out \/ Rest = <<>> \/ call.ask.verb = "show", call.wrote, call.got)
  <1>1. PICK broken \in Faults :
         LET verdict == IF broken THEN "broken" ELSE Load(call.ask.id)
         IN  call' = Faulted(IF verdict # "ok" THEN Refuses(verdict)
                             ELSE [Goes(Rest) EXCEPT !.out = @ \/ call.ask.verb = "show"], broken)
    BY DEF LoadAsked
  <1>2. /\ broken \in BOOLEAN /\ Kept /\ UNCHANGED <<before, meddled>>
        /\ Head(call.todo).do = "load"
    BY DEF Faults, LoadAsked, Kept, Doing
  <1>. DEFINE verdict == IF broken THEN "broken" ELSE Load(call.ask.id)
  <1>3. CASE verdict # "ok"
    <2>1. call' = Faulted(Refuses(verdict), broken)
      BY <1>1, <1>3
    <2>2. verdict \in {"broken", "absent", "damaged"}
      BY <1>3 DEF Load
    <2>. HIDE DEF verdict
    <2>. QED  BY <1>2, <2>1, <2>2, Workable, Stopping
  <1>4. CASE verdict = "ok"
    <2>1. call' = Faulted([Goes(Rest) EXCEPT !.out = @ \/ call.ask.verb = "show"], broken)
      BY <1>1, <1>4
    <2>2. call.ask.id \in Here.held /\ call.ask.id \notin Here.damaged
      BY <1>4 DEF Load
    <2>3. Noted([Goes(Rest) EXCEPT !.out = @ \/ call.ask.verb = "show"], Goes(Rest),
                Goes(Rest).out \/ call.ask.verb = "show", Goes(Rest).wrote, Goes(Rest).got)
      <3>1. CallShape(Goes(Rest))
        BY Workable, GoneOn
      <3>. DEFINE c == Goes(Rest)  x == c.out \/ call.ask.verb = "show"
      <3>2. [c EXCEPT !.out = @ \/ call.ask.verb = "show"] = [c EXCEPT !.out = x]
        BY <3>1 DEF CallShape
      <3>. HIDE DEF c, x
      <3>3. CallShape(c)
        BY <3>1 DEF c
      <3>4. Noted([c EXCEPT !.out = x], c, x, c.wrote, c.got)
        BY <3>3, Notes, Zenon
      <3>. QED  BY <3>2, <3>4 DEF c, x
    <2>4. /\ Goes(Rest).out = (call.out \/ Rest = <<>>)
          /\ Goes(Rest).wrote = call.wrote /\ Goes(Rest).got = call.got
      BY Workable, GoneOn
    <2>5. Noted([Goes(Rest) EXCEPT !.out = @ \/ call.ask.verb = "show"], Goes(Rest),
                call.out \/ Rest = <<>> \/ call.ask.verb = "show", call.wrote, call.got)
      BY <2>3, <2>4
    <2>. QED  BY <1>2, <2>1, <2>2, <2>5, Workable, MovingOn
  <1>. QED  BY <1>3, <1>4

(* Whatever a step notes as it goes on, it moves.                          *)
LEMMA MovedNoting ==
    ASSUME AtWork, NEW rest, NEW fault \in BOOLEAN, UNCHANGED <<before, meddled>>,
           NEW x, NEW y
    PROVE  LET c == Goes(rest)
               go == call.out \/ rest = <<>>
           IN  /\ call' = Faulted(c, fault) =>
                      Moves(rest, go, call.wrote, call.got) /\ (fault => call'.faults > 0)
               /\ call' = Faulted([c EXCEPT !.wrote = x], fault) =>
                      Moves(rest, go, x, call.got) /\ (fault => call'.faults > 0)
               /\ call' = Faulted([c EXCEPT !.out = TRUE, !.got.rows = y], fault) =>
                      /\ Moves(rest, TRUE, call.wrote, [call.got EXCEPT !.rows = y])
                      /\ fault => call'.faults > 0
               /\ call' = Faulted([c EXCEPT !.out = TRUE, !.got.walking = FALSE, !.got.rows = y], fault) =>
                      /\ Moves(rest, TRUE, call.wrote, [call.got EXCEPT !.walking = FALSE, !.rows = y])
                      /\ fault => call'.faults > 0
               /\ call' = Faulted([c EXCEPT !.got.rows = x], fault) =>
                      /\ Moves(rest, go, call.wrote, [call.got EXCEPT !.rows = x])
                      /\ fault => call'.faults > 0
               /\ call' = Faulted([c EXCEPT !.got.unread = x], fault) =>
                      /\ Moves(rest, go, call.wrote, [call.got EXCEPT !.unread = x])
                      /\ fault => call'.faults > 0
               /\ call' = Faulted([c EXCEPT !.got.backend = x], fault) =>
                      /\ Moves(rest, go, call.wrote, [call.got EXCEPT !.backend = x])
                      /\ fault => call'.faults > 0
               /\ call' = Faulted([c EXCEPT !.got.roots = x], fault) =>
                      /\ Moves(rest, go, call.wrote, [call.got EXCEPT !.roots = x])
                      /\ fault => call'.faults > 0
               /\ call' = Faulted([c EXCEPT !.got.objects = x], fault) =>
                      /\ Moves(rest, go, call.wrote, [call.got EXCEPT !.objects = x])
                      /\ fault => call'.faults > 0
               /\ call' = Faulted([c EXCEPT !.got.ledgers = x], fault) =>
                      /\ Moves(rest, go, call.wrote, [call.got EXCEPT !.ledgers = x])
                      /\ fault => call'.faults > 0
               /\ call' = Faulted([c EXCEPT !.got.lab = x, !.got.placed = y], fault) =>
                      /\ Moves(rest, go, call.wrote, [call.got EXCEPT !.lab = x, !.placed = y])
                      /\ fault => call'.faults > 0
  <1>. DEFINE c == Goes(rest)
              go == call.out \/ rest = <<>>
  <1>1. /\ CallShape(call) /\ call.faults \in Nat /\ CallShape(c)
        /\ c.out = go /\ c.wrote = call.wrote /\ c.got = call.got
    BY Workable, GoneOn
  <1>2. ASSUME NEW d, NEW out, NEW wrote, NEW got, Noted(d, c, out, wrote, got),
               call' = Faulted(d, fault)
        PROVE  Moves(rest, out, wrote, got) /\ (fault => call'.faults > 0)
    BY <1>1, <1>2, MovingOn
  <1>. HIDE DEF c
  <1>3. /\ Noted(c, c, go, call.wrote, call.got)
        /\ Noted([c EXCEPT !.wrote = x], c, go, x, call.got)
        /\ Noted([c EXCEPT !.got.rows = x], c, go, call.wrote, [call.got EXCEPT !.rows = x])
        /\ Noted([c EXCEPT !.got.unread = x], c, go, call.wrote, [call.got EXCEPT !.unread = x])
        /\ Noted([c EXCEPT !.got.backend = x], c, go, call.wrote, [call.got EXCEPT !.backend = x])
        /\ Noted([c EXCEPT !.got.roots = x], c, go, call.wrote, [call.got EXCEPT !.roots = x])
        /\ Noted([c EXCEPT !.got.objects = x], c, go, call.wrote, [call.got EXCEPT !.objects = x])
        /\ Noted([c EXCEPT !.got.ledgers = x], c, go, call.wrote, [call.got EXCEPT !.ledgers = x])
        /\ Noted([c EXCEPT !.got.lab = x, !.got.placed = y], c, go, call.wrote,
                 [call.got EXCEPT !.lab = x, !.placed = y])
    <2>1. Noted(c, c, go, call.wrote, call.got)
      BY <1>1, Notes, Zenon
    <2>2. Noted([c EXCEPT !.wrote = x], c, go, x, call.got)
      <3>1. Noted([c EXCEPT !.wrote = x], c, c.out, x, c.got)
        BY <1>1, Notes, Zenon
      <3>. QED  BY <1>1, <3>1
    <2>3. Noted([c EXCEPT !.got.rows = x], c, go, call.wrote, [call.got EXCEPT !.rows = x])
      BY <1>1, Notes, Zenon
    <2>4. Noted([c EXCEPT !.got.unread = x], c, go, call.wrote, [call.got EXCEPT !.unread = x])
      BY <1>1, Notes, Zenon
    <2>5. Noted([c EXCEPT !.got.backend = x], c, go, call.wrote, [call.got EXCEPT !.backend = x])
      BY <1>1, Notes, Zenon
    <2>6. Noted([c EXCEPT !.got.roots = x], c, go, call.wrote, [call.got EXCEPT !.roots = x])
      BY <1>1, Notes, Zenon
    <2>7. Noted([c EXCEPT !.got.objects = x], c, go, call.wrote, [call.got EXCEPT !.objects = x])
      BY <1>1, Notes, Zenon
    <2>8. Noted([c EXCEPT !.got.ledgers = x], c, go, call.wrote, [call.got EXCEPT !.ledgers = x])
      BY <1>1, Notes, Zenon
    <2>9. Noted([c EXCEPT !.got.lab = x, !.got.placed = y], c, go, call.wrote,
                 [call.got EXCEPT !.lab = x, !.placed = y])
      <3>1. Noted([c EXCEPT !.got.lab = x, !.got.placed = y], c, c.out, c.wrote,
                 [c.got EXCEPT !.lab = x, !.placed = y])
        BY <1>1, Notes, Zenon
      <3>. QED  BY <1>1, <3>1
    <2>. QED  BY <2>1, <2>2, <2>3, <2>4, <2>5, <2>6, <2>7, <2>8, <2>9
  <1>4. /\ Noted([c EXCEPT !.out = TRUE, !.got.rows = y], c, TRUE, call.wrote,
                 [call.got EXCEPT !.rows = y])
        /\ Noted([c EXCEPT !.out = TRUE, !.got.walking = FALSE, !.got.rows = y], c, TRUE, call.wrote,
                 [call.got EXCEPT !.walking = FALSE, !.rows = y])
    <2>1. Noted([c EXCEPT !.out = TRUE, !.got.rows = y], c, TRUE, call.wrote,
                 [call.got EXCEPT !.rows = y])
      BY <1>1, Notes, Zenon
    <2>2. Noted([c EXCEPT !.out = TRUE, !.got.walking = FALSE, !.got.rows = y], c, TRUE, call.wrote,
                 [call.got EXCEPT !.walking = FALSE, !.rows = y])
      BY <1>1, Notes, Zenon
    <2>. QED  BY <2>1, <2>2
  <1>5. call' = Faulted(c, fault) =>
            Moves(rest, go, call.wrote, call.got) /\ (fault => call'.faults > 0)
    BY <1>2, <1>3
  <1>6. call' = Faulted([c EXCEPT !.wrote = x], fault) =>
            Moves(rest, go, x, call.got) /\ (fault => call'.faults > 0)
    BY <1>2, <1>3
  <1>7. /\ call' = Faulted([c EXCEPT !.out = TRUE, !.got.rows = y], fault) =>
               /\ Moves(rest, TRUE, call.wrote, [call.got EXCEPT !.rows = y])
               /\ fault => call'.faults > 0
        /\ call' = Faulted([c EXCEPT !.out = TRUE, !.got.walking = FALSE, !.got.rows = y], fault) =>
               /\ Moves(rest, TRUE, call.wrote, [call.got EXCEPT !.walking = FALSE, !.rows = y])
               /\ fault => call'.faults > 0
    BY <1>2, <1>4
  <1>8. call' = Faulted([c EXCEPT !.got.rows = x], fault) =>
            /\ Moves(rest, go, call.wrote, [call.got EXCEPT !.rows = x])
            /\ fault => call'.faults > 0
    BY <1>2, <1>3
  <1>9. call' = Faulted([c EXCEPT !.got.unread = x], fault) =>
            /\ Moves(rest, go, call.wrote, [call.got EXCEPT !.unread = x])
            /\ fault => call'.faults > 0
    BY <1>2, <1>3
  <1>10. call' = Faulted([c EXCEPT !.got.backend = x], fault) =>
            /\ Moves(rest, go, call.wrote, [call.got EXCEPT !.backend = x])
            /\ fault => call'.faults > 0
    BY <1>2, <1>3
  <1>11. call' = Faulted([c EXCEPT !.got.roots = x], fault) =>
            /\ Moves(rest, go, call.wrote, [call.got EXCEPT !.roots = x])
            /\ fault => call'.faults > 0
    BY <1>2, <1>3
  <1>12. call' = Faulted([c EXCEPT !.got.objects = x], fault) =>
            /\ Moves(rest, go, call.wrote, [call.got EXCEPT !.objects = x])
            /\ fault => call'.faults > 0
    BY <1>2, <1>3
  <1>13. call' = Faulted([c EXCEPT !.got.ledgers = x], fault) =>
            /\ Moves(rest, go, call.wrote, [call.got EXCEPT !.ledgers = x])
            /\ fault => call'.faults > 0
    BY <1>2, <1>3
  <1>14. call' = Faulted([c EXCEPT !.got.lab = x, !.got.placed = y], fault) =>
            /\ Moves(rest, go, call.wrote, [call.got EXCEPT !.lab = x, !.placed = y])
            /\ fault => call'.faults > 0
    BY <1>2, <1>3
  <1>. QED  BY <1>5, <1>6, <1>7, <1>8, <1>9, <1>10, <1>11, <1>12, <1>13, <1>14 DEF c

(* Naming goes on to write the annotation and publish it.                  *)
LEMMA JudgeSubjectDoes ==
    ASSUME AtWork, JudgeSubject
    PROVE  LET name == NameFor(call.ask.id)
           IN  /\ Kept /\ Head(call.todo).do = "subject"
               /\ \/ Stops("NotNameable")
                  \/ /\ Tag[call.ask.id] \in Nameable
                     /\ Moves(<<Do("admit", name), Do("publish", name)>>, call.out, call.wrote, call.got)
  <1>. DEFINE name == NameFor(call.ask.id)
              rest == <<Do("admit", name), Do("publish", name)>>
  <1>1. Kept /\ UNCHANGED <<before, meddled>> /\ Head(call.todo).do = "subject"
    BY DEF JudgeSubject, Kept, Doing
  <1>2. CASE Tag[call.ask.id] \in Nameable
    <2>1. call' = Goes(rest)
      BY <1>2 DEF JudgeSubject
    <2>2. rest # <<>>
      BY Spelled
    <2>. HIDE DEF rest
    <2>3. call' = Faulted(Goes(rest), FALSE)
      BY <2>1, Unfaulted
    <2>4. Moves(rest, call.out \/ rest = <<>>, call.wrote, call.got)
      BY <1>1, <2>3, MovedNoting, Zenon
    <2>5. (call.out \/ rest = <<>>) = call.out
      BY <2>2, Workable
    <2>6. Moves(rest, call.out, call.wrote, call.got)
      BY <2>4, <2>5
    <2>. QED  BY <1>1, <1>2, <2>6 DEF rest
  <1>3. CASE Tag[call.ask.id] \notin Nameable
    <2>1. call' = Faulted(Refuses("NotNameable"), FALSE)
      BY <1>3, Unfaulted DEF JudgeSubject
    <2>. QED  BY <1>1, <2>1, Workable, Stopping
  <1>. QED  BY <1>2, <1>3

(* show lists the roots, or says that it could not.                        *)
LEMMA ListNamesDoes ==
    ASSUME AtWork, ListNames
    PROVE  /\ Kept /\ Head(call.todo).do = "names"
           /\ \E broken \in BOOLEAN :
                LET rest == IF broken THEN <<>> ELSE Each("said", Here.roots)
                IN  /\ Moves(rest, call.out \/ rest = <<>>, call.wrote, [call.got EXCEPT !.unread = broken])
                    /\ broken => call'.faults > 0
  <1>1. Kept /\ UNCHANGED <<before, meddled>> /\ Head(call.todo).do = "names"
    BY DEF ListNames, Kept, Doing
  <1>2. PICK broken \in Faults :
         call' = Faulted([Goes(IF broken THEN <<>> ELSE Each("said", Here.roots))
                             EXCEPT !.got.unread = broken], broken)
    BY DEF ListNames
  <1>3. broken \in BOOLEAN
    BY DEF Faults
  <1>. DEFINE rest == IF broken THEN <<>> ELSE Each("said", Here.roots)
  <1>4. call' = Faulted([Goes(rest) EXCEPT !.got.unread = broken], broken)
    BY <1>2
  <1>. HIDE DEF rest
  <1>5. /\ Moves(rest, call.out \/ rest = <<>>, call.wrote, [call.got EXCEPT !.unread = broken])
        /\ broken => call'.faults > 0
    BY <1>1, <1>3, <1>4, MovedNoting, Zenon
  <1>. QED  BY <1>1, <1>3, <1>5 DEF rest

(* show reads one root as an annotation.                                   *)
LEMMA ReadAnnotationDoes ==
    ASSUME AtWork, ReadAnnotation
    PROVE  /\ Kept /\ Head(call.todo).do = "said"
           /\ \E broken \in BOOLEAN :
                LET rows == IF ~broken /\ Load(On) = "ok" /\ On \in DOMAIN About
                               /\ About[On] = call.ask.id
                            THEN call.got.rows \cup {On} ELSE call.got.rows
                IN  /\ Moves(Rest, call.out \/ Rest = <<>>, call.wrote, [call.got EXCEPT !.rows = rows])
                    /\ broken => call'.faults > 0
  <1>1. Kept /\ UNCHANGED <<before, meddled>> /\ Head(call.todo).do = "said"
    BY DEF ReadAnnotation, Kept, Doing
  <1>2. PICK broken \in Faults :
         call' = Faulted([Goes(Rest) EXCEPT !.got.rows =
                    IF ~broken /\ Load(On) = "ok" /\ On \in DOMAIN About /\ About[On] = call.ask.id
                    THEN @ \cup {On} ELSE @], broken)
    BY DEF ReadAnnotation
  <1>3. broken \in BOOLEAN
    BY DEF Faults
  <1>. DEFINE rows == IF ~broken /\ Load(On) = "ok" /\ On \in DOMAIN About
                         /\ About[On] = call.ask.id
                      THEN call.got.rows \cup {On} ELSE call.got.rows
  <1>4. Goes(Rest).got = call.got
    BY Workable, GoneOn
  <1>5. call' = Faulted([Goes(Rest) EXCEPT !.got.rows = rows], broken)
    BY <1>2, <1>4
  <1>. HIDE DEF rows
  <1>6. /\ Moves(Rest, call.out \/ Rest = <<>>, call.wrote, [call.got EXCEPT !.rows = rows])
        /\ broken => call'.faults > 0
    BY <1>1, <1>3, <1>5, MovedNoting, Zenon
  <1>. QED  BY <1>1, <1>3, <1>6 DEF rows

(* A node is refused, or there already, or added above what it refers to.  *)
LEMMA AdmitDoes ==
    ASSUME AtWork, Admit
    PROVE  /\ UNCHANGED <<papers, before, meddled>> /\ Head(call.todo).do = "admit"
           /\ \/ Stops("inadmissible") /\ plane' = plane
              \/ /\ On \in Here.held /\ plane' = plane
                 /\ Moves(Rest, call.out \/ Rest = <<>>, call.wrote, call.got)
              \/ /\ plane' = [plane EXCEPT ![call.place][call.backend].held = @ \cup {On}]
                 /\ Moves(Rest, call.out \/ Rest = <<>>, call.wrote \cup {Do("admit", On)}, call.got)
  <1>1. UNCHANGED <<papers, before, meddled>> /\ Head(call.todo).do = "admit"
    BY DEF Admit, Doing
  <1>2. PICK broken \in Faults :
         IF broken \/ On \in Here.damaged \/ ~(Refs[On] \subseteq Here.held \ Here.damaged)
         THEN call' = Faulted(Refuses("inadmissible"), broken) /\ UNCHANGED <<tree, plane>>
         ELSE IF On \in Here.held
         THEN call' = Goes(Rest) /\ UNCHANGED <<tree, plane>>
         ELSE /\ call' = [Goes(Rest) EXCEPT !.wrote = @ \cup {Do("admit", On)}]
              /\ plane' = [plane EXCEPT ![call.place][call.backend].held = @ \cup {On}]
    BY DEF Admit
  <1>3. broken \in BOOLEAN /\ Goes(Rest).wrote = call.wrote
    BY Workable, GoneOn DEF Faults
  <1>4. CASE broken \/ On \in Here.damaged \/ ~(Refs[On] \subseteq Here.held \ Here.damaged)
    <2>1. call' = Faulted(Refuses("inadmissible"), broken) /\ plane' = plane
      BY <1>2, <1>4
    <2>2. Stops("inadmissible")
      BY <1>1, <1>3, <2>1, Workable, Stopping
    <2>. QED  BY <1>1, <2>1, <2>2
  <1>5. CASE /\ ~(broken \/ On \in Here.damaged \/ ~(Refs[On] \subseteq Here.held \ Here.damaged))
             /\ On \in Here.held
    <2>1. call' = Faulted(Goes(Rest), FALSE) /\ plane' = plane
      BY <1>2, <1>5, Unfaulted
    <2>2. Moves(Rest, call.out \/ Rest = <<>>, call.wrote, call.got)
      BY <1>1, <2>1, MovedNoting, Zenon
    <2>. QED  BY <1>1, <1>5, <2>1, <2>2
  <1>6. CASE /\ ~(broken \/ On \in Here.damaged \/ ~(Refs[On] \subseteq Here.held \ Here.damaged))
             /\ On \notin Here.held
    <2>. DEFINE wrote == call.wrote \cup {Do("admit", On)}
    <2>1. /\ call' = Faulted([Goes(Rest) EXCEPT !.wrote = wrote], FALSE)
          /\ plane' = [plane EXCEPT ![call.place][call.backend].held = @ \cup {On}]
      BY <1>2, <1>3, <1>6, Unfaulted
    <2>. HIDE DEF wrote
    <2>2. Moves(Rest, call.out \/ Rest = <<>>, wrote, call.got)
      BY <1>1, <2>1, MovedNoting, Zenon
    <2>. QED  BY <1>1, <2>1, <2>2 DEF wrote
  <1>. QED  BY <1>4, <1>5, <1>6

(* A root is published, or the host failed.                                *)
LEMMA PublishDoes ==
    ASSUME AtWork, Publish
    PROVE  /\ UNCHANGED <<papers, before, meddled>> /\ Head(call.todo).do = "publish"
           /\ \/ Stops("unexpected") /\ call'.faults > 0 /\ plane' = plane
              \/ /\ plane' = [plane EXCEPT ![call.place][call.backend].roots = @ \cup {On}]
                 /\ Moves(Rest, call.out \/ Rest = <<>>, call.wrote \cup {Do("publish", On)}, call.got)
  <1>1. UNCHANGED <<papers, before, meddled>> /\ Head(call.todo).do = "publish"
    BY DEF Publish, Doing
  <1>2. PICK broken \in Faults :
         IF broken
         THEN call' = Faulted(Refuses("unexpected"), broken) /\ UNCHANGED <<tree, plane>>
         ELSE /\ call' = [Goes(Rest) EXCEPT !.wrote = @ \cup {Do("publish", On)}]
              /\ plane' = [plane EXCEPT ![call.place][call.backend].roots = @ \cup {On}]
    BY DEF Publish
  <1>3. broken \in BOOLEAN /\ Goes(Rest).wrote = call.wrote
    BY Workable, GoneOn DEF Faults
  <1>4. CASE broken
    <2>1. call' = Faulted(Refuses("unexpected"), broken) /\ plane' = plane
      BY <1>2, <1>4
    <2>2. Stops("unexpected") /\ call'.faults > 0
      BY <1>1, <1>3, <1>4, <2>1, Workable, Stopping
    <2>. QED  BY <1>1, <2>1, <2>2
  <1>5. CASE ~broken
    <2>. DEFINE wrote == call.wrote \cup {Do("publish", On)}
    <2>1. /\ call' = Faulted([Goes(Rest) EXCEPT !.wrote = wrote], FALSE)
          /\ plane' = [plane EXCEPT ![call.place][call.backend].roots = @ \cup {On}]
      BY <1>2, <1>3, <1>5, Unfaulted
    <2>. HIDE DEF wrote
    <2>2. Moves(Rest, call.out \/ Rest = <<>>, wrote, call.got)
      BY <1>1, <2>1, MovedNoting, Zenon
    <2>. QED  BY <1>1, <2>1, <2>2 DEF wrote
  <1>. QED  BY <1>4, <1>5

(* The config is read anew, and may no longer be readable.                 *)
LEMMA ReadConfigAgainDoes ==
    ASSUME AtWork, ReadConfigAgain
    PROVE  /\ Kept /\ Head(call.todo).do = "config"
           /\ \/ Stops("ConfigUnreadable")
              \/ /\ Moves(Rest, call.out \/ Rest = <<>>, call.wrote,
                          [call.got EXCEPT !.backend = BackendIn(tree[call.place])])
                 /\ BackendIn(tree[call.place]) \in Backends
                 /\ Steady(call.place) => BackendIn(tree[call.place]) = call.backend
  <1>1. Kept /\ UNCHANGED <<before, meddled>> /\ Head(call.todo).do = "config"
    BY DEF ReadConfigAgain, Kept, Doing
  <1>2. CASE Read(tree[call.place]) = Unreadable
    <2>1. call' = Faulted(Refuses("ConfigUnreadable"), FALSE)
      BY <1>2, Unfaulted, Readings DEF ReadConfigAgain
    <2>. QED  BY <1>1, <2>1, Workable, Stopping
  <1>3. CASE Read(tree[call.place]) # Unreadable
    <2>. DEFINE backend == BackendIn(tree[call.place])
    <2>1. call' = Faulted([Goes(Rest) EXCEPT !.got.backend = backend], FALSE)
      BY <1>3, Unfaulted, Readings DEF ReadConfigAgain
    <2>2. backend \in Backends
      <3>1. tree[call.place].config \in ConfigFiles \cup {NoFile}
        BY Workable, SMTT(30) DEF AtWork, ShellInv, ShellTyped, Directories
      <3>. QED  BY <1>3, <3>1 DEF Read, BackendIn, ConfigFiles, Backends
    <2>3. Steady(call.place) => backend = call.backend
      <3>1. call.backend # "none"
        BY Workable DEF Backends
      <3>2. Steady(call.place) => tree[call.place].config = before.tree[call.place].config
        BY Workable DEF AtWork, ShellInv, UneditedKept
      <3>. QED  BY <3>1, <3>2 DEF AtWork, ShellInv, Opened, BackendIn, Read
    <2>. HIDE DEF backend
    <2>4. Moves(Rest, call.out \/ Rest = <<>>, call.wrote, [call.got EXCEPT !.backend = backend])
      BY <1>1, <2>1, MovedNoting, Zenon
    <2>. QED  BY <1>1, <2>2, <2>3, <2>4 DEF backend
  <1>. QED  BY <1>2, <1>3

(* The roots are counted, unless the host fails.                           *)
LEMMA ListRootsDoes ==
    ASSUME AtWork, ListRoots
    PROVE  /\ Kept /\ Head(call.todo).do = "roots"
           /\ \/ Stops("unexpected") /\ call'.faults > 0
              \/ Moves(Rest, call.out \/ Rest = <<>>, call.wrote,
                       [call.got EXCEPT !.roots = Cardinality(Here.roots)])
  <1>1. Kept /\ UNCHANGED <<before, meddled>> /\ Head(call.todo).do = "roots"
    BY DEF ListRoots, Kept, Doing
  <1>2. PICK broken \in Faults :
         call' = Faulted(IF broken THEN Refuses("unexpected")
                         ELSE [Goes(Rest) EXCEPT !.got.roots = Cardinality(Here.roots)], broken)
    BY DEF ListRoots
  <1>3. broken \in BOOLEAN
    BY DEF Faults
  <1>4. CASE broken
    <2>1. call' = Faulted(Refuses("unexpected"), broken)
      BY <1>2, <1>4
    <2>. QED  BY <1>1, <1>3, <1>4, <2>1, Workable, Stopping
  <1>5. CASE ~broken
    <2>1. call' = Faulted([Goes(Rest) EXCEPT !.got.roots = Cardinality(Here.roots)], broken)
      BY <1>2, <1>5
    <2>. QED  BY <1>1, <1>3, <2>1, MovedNoting, Zenon
  <1>. QED  BY <1>4, <1>5

(* Objects are counted directory by directory, or not at all.              *)
LEMMA CountObjectsDoes ==
    ASSUME AtWork, CountObjects
    PROVE  /\ Kept /\ Head(call.todo).do = "objects"
           /\ \/ /\ call.got.backend = "file"
                 /\ LET rest == Each("fan", Fans) \o Rest
                    IN  Moves(rest, call.out \/ rest = <<>>, call.wrote,
                              [call.got EXCEPT !.objects = 0])
              \/ /\ call.got.backend = "file" /\ call'.faults > 0
                 /\ Moves(Rest, call.out \/ Rest = <<>>, call.wrote,
                          [call.got EXCEPT !.objects = 0])
              \/ /\ call.got.backend # "file"
                 /\ Moves(Rest, call.out \/ Rest = <<>>, call.wrote,
                          [call.got EXCEPT !.objects = Uncounted])
  <1>1. Kept /\ UNCHANGED <<before, meddled>> /\ Head(call.todo).do = "objects"
    BY DEF CountObjects, Kept, Doing
  <1>2. CASE call.got.backend = "file"
    <2>. DEFINE rest == Each("fan", Fans) \o Rest
    <2>. PICK broken \in Faults :
            call' = Faulted([Goes(IF broken THEN Rest ELSE rest) EXCEPT !.got.objects = 0], broken)
      BY <1>2 DEF CountObjects
    <2>. HIDE DEF rest
    <2>1. CASE broken
      <3>1. call' = Faulted([Goes(Rest) EXCEPT !.got.objects = 0], TRUE) /\ TRUE \in BOOLEAN
        BY <2>1
      <3>2. Moves(Rest, call.out \/ Rest = <<>>, call.wrote, [call.got EXCEPT !.objects = 0])
            /\ call'.faults > 0
        BY <1>1, <3>1, MovedNoting, Zenon
      <3>. QED  BY <1>1, <1>2, <3>2
    <2>2. CASE ~broken
      <3>1. call' = Faulted([Goes(rest) EXCEPT !.got.objects = 0], FALSE)
        BY <2>2 DEF Faulted
      <3>2. Moves(rest, call.out \/ rest = <<>>, call.wrote, [call.got EXCEPT !.objects = 0])
        BY <1>1, <3>1, MovedNoting, Zenon
      <3>. QED  BY <1>1, <1>2, <3>2 DEF rest
    <2>. QED  BY <2>1, <2>2
  <1>3. CASE call.got.backend # "file"
    <2>1. call' = Faulted([Goes(Rest) EXCEPT !.got.objects = Uncounted], FALSE)
      BY <1>3, Unfaulted DEF CountObjects
    <2>. QED  BY <1>1, <1>3, <2>1, MovedNoting, Zenon
  <1>. QED  BY <1>2, <1>3

(* One directory's objects are added, unless it is not read.               *)
LEMMA CountFanDoes ==
    ASSUME AtWork, CountFan
    PROVE  /\ Kept /\ Head(call.todo).do = "fan"
           /\ \E found :
                /\ found = Cardinality(InFan(On)) \/ (found = 0 /\ call'.faults > 0)
                /\ Moves(Rest, call.out \/ Rest = <<>>, call.wrote,
                         [call.got EXCEPT !.objects = call.got.objects + found])
  <1>1. Kept /\ UNCHANGED <<before, meddled>> /\ Head(call.todo).do = "fan"
    BY DEF CountFan, Kept, Doing
  <1>2. Goes(Rest).got = call.got
    BY Workable, GoneOn
  <1>. PICK broken \in Faults :
          LET found == IF broken THEN 0 ELSE Cardinality(InFan(On))
          IN  call' = Faulted([Goes(Rest) EXCEPT !.got.objects = @ + found], broken)
    BY DEF CountFan
  <1>. PICK found : found = IF broken THEN 0 ELSE Cardinality(InFan(On))
    OBVIOUS
  <1>. PICK objects : objects = call.got.objects + found
    OBVIOUS
  <1>3. call' = Faulted([Goes(Rest) EXCEPT !.got.objects = objects], broken)
    BY <1>2
  <1>4. broken \in BOOLEAN
    BY DEF Faults
  <1>5. /\ Moves(Rest, call.out \/ Rest = <<>>, call.wrote, [call.got EXCEPT !.objects = objects])
        /\ broken => call'.faults > 0
    BY <1>1, <1>3, <1>4, MovedNoting, Zenon
  <1>6. found = Cardinality(InFan(On)) \/ (found = 0 /\ call'.faults > 0)
    BY <1>5
  <1>. QED  BY <1>1, <1>5, <1>6

(* Every root is listed, unless the host fails.                            *)
LEMMA ListEveryDoes ==
    ASSUME AtWork, ListEvery
    PROVE  /\ Kept /\ Head(call.todo).do = "listing"
           /\ \/ Stops("unexpected") /\ call'.faults > 0
              \/ LET rest == Each(On, Here.roots)
                 IN  Moves(rest, call.out \/ rest = <<>>, call.wrote, call.got)
  <1>1. Kept /\ UNCHANGED <<before, meddled>> /\ Head(call.todo).do = "listing"
    BY DEF ListEvery, Kept, Doing
  <1>2. PICK broken \in Faults :
         call' = Faulted(IF broken THEN Refuses("unexpected") ELSE Goes(Each(On, Here.roots)), broken)
    BY DEF ListEvery
  <1>3. broken \in BOOLEAN
    BY DEF Faults
  <1>4. CASE broken
    <2>1. call' = Faulted(Refuses("unexpected"), broken)
      BY <1>2, <1>4
    <2>. QED  BY <1>1, <1>3, <1>4, <2>1, Workable, Stopping
  <1>5. CASE ~broken
    <2>. DEFINE rest == Each(On, Here.roots)
    <2>1. call' = Faulted(Goes(rest), broken)
      BY <1>2, <1>5
    <2>. HIDE DEF rest
    <2>2. Moves(rest, call.out \/ rest = <<>>, call.wrote, call.got)
      BY <1>1, <1>3, <2>1, MovedNoting, Zenon
    <2>. QED  BY <1>1, <2>2 DEF rest
  <1>. QED  BY <1>4, <1>5

(* ls loads one root, and says what the load answered.                     *)
LEMMA LoadRowDoes ==
    ASSUME AtWork, LoadRow
    PROVE  /\ Kept /\ Head(call.todo).do = "row"
           /\ \E broken \in BOOLEAN :
                LET row == Row(On, IF broken THEN "broken" ELSE Load(On), Cardinality(Refs[On]))
                IN  /\ Moves(Rest, TRUE, call.wrote,
                             [call.got EXCEPT !.rows = call.got.rows \cup {row}])
                    /\ broken => call'.faults > 0
  <1>1. Kept /\ UNCHANGED <<before, meddled>> /\ Head(call.todo).do = "row"
    BY DEF LoadRow, Kept, Doing
  <1>2. PICK broken \in Faults :
         LET verdict == IF broken THEN "broken" ELSE Load(On)
         IN  call' = Faulted([Goes(Rest) EXCEPT !.out = TRUE,
                                 !.got.rows = @ \cup {Row(On, verdict, Cardinality(Refs[On]))}], broken)
    BY DEF LoadRow
  <1>3. broken \in BOOLEAN /\ Goes(Rest).got = call.got
    BY Workable, GoneOn DEF Faults
  <1>4. CallShape(Goes(Rest))
    BY Workable, GoneOn
  <1>. DEFINE row == Row(On, IF broken THEN "broken" ELSE Load(On), Cardinality(Refs[On]))
              rows == call.got.rows \cup {row}
              c == Goes(Rest)
  <1>5. call' = Faulted([c EXCEPT !.out = TRUE, !.got.rows = @ \cup {row}], broken)
    BY <1>2
  <1>. HIDE DEF row, c
  <1>6. [c EXCEPT !.out = TRUE, !.got.rows = @ \cup {row}] = [c EXCEPT !.out = TRUE, !.got.rows = rows]
    BY <1>3, <1>4 DEF c, CallShape
  <1>. HIDE DEF rows
  <1>7. call' = Faulted([Goes(Rest) EXCEPT !.out = TRUE, !.got.rows = rows], broken)
    BY <1>5, <1>6 DEF c
  <1>8. /\ Moves(Rest, TRUE, call.wrote, [call.got EXCEPT !.rows = rows])
        /\ broken => call'.faults > 0
    BY <1>1, <1>3, <1>7, MovedNoting, Zenon
  <1>. QED  BY <1>1, <1>3, <1>8 DEF rows, row

(* A walk goes on: it notes what it read.                                  *)
Walks(got) ==
    /\ Onward
    /\ call'.todo = call.todo /\ call'.at = call.at /\ call'.answer = call.answer
    /\ call'.out = call.out /\ call'.wrote = call.wrote /\ call'.got = got

(* A noted invocation whose fault was counted or not.                      *)
LEMMA WalkedNoting ==
    ASSUME AtWork, NEW fault \in BOOLEAN, UNCHANGED <<before, meddled>>, NEW x, NEW y
    PROVE  /\ call' = [call EXCEPT !.got.walking = TRUE, !.got.next = x, !.got.seen = {},
                                   !.got.fails = "ok"] =>
                 Walks([call.got EXCEPT !.walking = TRUE, !.next = x, !.seen = {}, !.fails = "ok"])
           /\ call' = Faulted([call EXCEPT !.got.seen = x, !.got.next = y], fault) =>
                 /\ Walks([call.got EXCEPT !.seen = x, !.next = y])
                 /\ fault => call'.faults > 0
           /\ call' = Faulted([call EXCEPT !.got.next = x, !.got.fails = y], fault) =>
                 /\ Walks([call.got EXCEPT !.next = x, !.fails = y])
                 /\ fault => call'.faults > 0
  <1>1. CallShape(call) /\ call.faults \in Nat
    BY Workable
  <1>2. ASSUME NEW d, NEW got, Noted(d, call, call.out, call.wrote, got),
               call' = Faulted(d, fault)
        PROVE  Walks(got) /\ (fault => call'.faults > 0)
    <2>1. CallShape(d) /\ d.faults \in Nat
      BY <1>1, <1>2 DEF Noted
    <2>. QED  BY <1>1, <1>2, <2>1, CountingFault DEF Noted, Walks, Onward
  <1>3. ASSUME NEW d, NEW got, Noted(d, call, call.out, call.wrote, got), call' = d
        PROVE  Walks(got)
    BY <1>1, <1>3 DEF Noted, Walks, Onward
  <1>4. Noted([call EXCEPT !.got.walking = TRUE, !.got.next = x, !.got.seen = {}, !.got.fails = "ok"],
              call, call.out, call.wrote,
              [call.got EXCEPT !.walking = TRUE, !.next = x, !.seen = {}, !.fails = "ok"])
    BY <1>1, Notes, Zenon
  <1>5. Noted([call EXCEPT !.got.seen = x, !.got.next = y], call, call.out, call.wrote,
              [call.got EXCEPT !.seen = x, !.next = y])
    BY <1>1, Notes, Zenon
  <1>6. Noted([call EXCEPT !.got.next = x, !.got.fails = y], call, call.out, call.wrote,
              [call.got EXCEPT !.next = x, !.fails = y])
    BY <1>1, Notes, Zenon
  <1>7. call' = [call EXCEPT !.got.walking = TRUE, !.got.next = x, !.got.seen = {},
                             !.got.fails = "ok"] =>
            Walks([call.got EXCEPT !.walking = TRUE, !.next = x, !.seen = {}, !.fails = "ok"])
    BY <1>3, <1>4
  <1>8. call' = Faulted([call EXCEPT !.got.seen = x, !.got.next = y], fault) =>
            /\ Walks([call.got EXCEPT !.seen = x, !.next = y])
            /\ fault => call'.faults > 0
    BY <1>2, <1>5
  <1>9. call' = Faulted([call EXCEPT !.got.next = x, !.got.fails = y], fault) =>
            /\ Walks([call.got EXCEPT !.next = x, !.fails = y])
            /\ fault => call'.faults > 0
    BY <1>2, <1>6
  <1>. QED  BY <1>7, <1>8, <1>9

(* A walk begins at its root.                                              *)
LEMMA BeginAuditDoes ==
    ASSUME AtWork, BeginAudit
    PROVE  /\ Kept /\ Head(call.todo).do = "audit" /\ ~call.got.walking
           /\ Walks([call.got EXCEPT !.walking = TRUE, !.next = {On}, !.seen = {}, !.fails = "ok"])
  <1>1. Kept /\ UNCHANGED <<before, meddled>> /\ Head(call.todo).do = "audit" /\ ~call.got.walking
    BY DEF BeginAudit, Kept, Doing
  <1>2. call' = [call EXCEPT !.got.walking = TRUE, !.got.next = {On}, !.got.seen = {},
                             !.got.fails = "ok"]
    BY DEF BeginAudit
  <1>. QED  BY <1>1, <1>2, WalkedNoting

(* It reads one of the nodes that are next, or ends at one that fails.     *)
LEMMA VisitDoes ==
    ASSUME AtWork, Visit
    PROVE  /\ Kept /\ Head(call.todo).do = "audit" /\ call.got.walking
           /\ \E id \in call.got.next :
                LET seen_ == call.got.seen \cup {id}
                IN  \/ /\ Load(id) = "ok"
                       /\ Walks([call.got EXCEPT !.seen = seen_,
                                                 !.next = (call.got.next \cup Refs[id]) \ seen_])
                    \/ \E verdict \in {"broken", "absent", "damaged"} :
                         /\ Walks([call.got EXCEPT !.next = {}, !.fails = verdict])
                         /\ IF verdict = "broken" THEN call'.faults > 0 ELSE Load(id) = verdict
  <1>1. Kept /\ UNCHANGED <<before, meddled>> /\ Head(call.todo).do = "audit" /\ call.got.walking
    BY DEF Visit, Kept, Doing
  <1>2. PICK id \in call.got.next, broken \in Faults :
         LET verdict == IF broken THEN "broken" ELSE Load(id)
             seen_   == call.got.seen \cup {id}
         IN  call' = Faulted(
                IF verdict = "ok"
                THEN [call EXCEPT !.got.seen = seen_,
                                  !.got.next = (@ \cup Refs[id]) \ seen_]
                ELSE [call EXCEPT !.got.next = {}, !.got.fails = verdict], broken)
    BY DEF Visit
  <1>3. broken \in BOOLEAN
    BY DEF Faults
  <1>4. CallShape(call)
    BY Workable
  <1>. DEFINE verdict == IF broken THEN "broken" ELSE Load(id)
              seen_ == call.got.seen \cup {id}
              next_ == (call.got.next \cup Refs[id]) \ seen_
  <1>5. CASE verdict = "ok"
    <2>1. call' = Faulted([call EXCEPT !.got.seen = seen_, !.got.next = (@ \cup Refs[id]) \ seen_], broken)
      BY <1>2, <1>5
    <2>. HIDE DEF seen_
    <2>2. [call EXCEPT !.got.seen = seen_, !.got.next = (@ \cup Refs[id]) \ seen_]
          = [call EXCEPT !.got.seen = seen_, !.got.next = next_]
      BY <1>4 DEF CallShape
    <2>. HIDE DEF next_
    <2>3. call' = Faulted([call EXCEPT !.got.seen = seen_, !.got.next = next_], broken)
      BY <2>1, <2>2
    <2>4. Walks([call.got EXCEPT !.seen = seen_, !.next = next_])
      BY <1>1, <1>3, <2>3, WalkedNoting
    <2>5. Load(id) = "ok"
      BY <1>5
    <2>. QED  BY <1>1, <2>4, <2>5 DEF seen_, next_
  <1>6. CASE verdict # "ok"
    <2>1. call' = Faulted([call EXCEPT !.got.next = {}, !.got.fails = verdict], broken)
      BY <1>2, <1>6
    <2>2. verdict \in {"broken", "absent", "damaged"} /\ (verdict = "broken" => broken)
          /\ (verdict # "broken" => Load(id) = verdict)
      BY <1>6 DEF Load
    <2>. HIDE DEF verdict
    <2>3. /\ Walks([call.got EXCEPT !.next = {}, !.fails = verdict])
          /\ broken => call'.faults > 0
      BY <1>1, <1>3, <2>1, WalkedNoting
    <2>. QED  BY <1>1, <2>2, <2>3
  <1>. QED  BY <1>5, <1>6, Zenon

(* A walk that is over is a row, or the refusal of the root asked for.     *)
LEMMA VerdictDoes ==
    ASSUME AtWork, Verdict
    PROVE  /\ Kept /\ Head(call.todo).do = "audit" /\ call.got.walking /\ call.got.next = {}
           /\ \/ Stops(call.got.fails) /\ call.ask.id # "every" /\ call.got.fails # "ok"
              \/ /\ call.ask.id = "every" \/ call.got.fails = "ok"
                 /\ LET row == Row(On, call.got.fails, Cardinality(call.got.seen))
                    IN  Moves(Rest, TRUE, call.wrote,
                              [call.got EXCEPT !.walking = FALSE, !.rows = call.got.rows \cup {row}])
  <1>1. /\ Kept /\ UNCHANGED <<before, meddled>>
        /\ Head(call.todo).do = "audit" /\ call.got.walking /\ call.got.next = {}
    BY DEF Verdict, Kept, Doing
  <1>2. CASE call.ask.id # "every" /\ call.got.fails # "ok"
    <2>1. call' = Faulted(Refuses(call.got.fails), FALSE)
      BY <1>2, Unfaulted DEF Verdict
    <2>. QED  BY <1>1, <1>2, <2>1, Workable, Stopping
  <1>3. CASE ~(call.ask.id # "every" /\ call.got.fails # "ok")
    <2>. DEFINE row == Row(On, call.got.fails, Cardinality(call.got.seen))
                rows == call.got.rows \cup {row}
                c == Goes(Rest)
    <2>1. call' = [c EXCEPT !.out = TRUE, !.got.walking = FALSE, !.got.rows = @ \cup {row}]
      BY <1>3 DEF Verdict
    <2>2. c.got = call.got /\ CallShape(c)
      BY Workable, GoneOn
    <2>. HIDE DEF row, c
    <2>3. [c EXCEPT !.out = TRUE, !.got.walking = FALSE, !.got.rows = @ \cup {row}]
          = [c EXCEPT !.out = TRUE, !.got.walking = FALSE, !.got.rows = rows]
      BY <2>2 DEF CallShape
    <2>. HIDE DEF rows
    <2>4. call' = Faulted([Goes(Rest) EXCEPT !.out = TRUE, !.got.walking = FALSE, !.got.rows = rows], FALSE)
      BY <2>1, <2>3, Unfaulted DEF c
    <2>5. Moves(Rest, TRUE, call.wrote, [call.got EXCEPT !.walking = FALSE, !.rows = rows])
      BY <1>1, <2>4, MovedNoting, Zenon
    <2>. QED  BY <1>1, <1>3, <2>5 DEF rows, row
  <1>. QED  BY <1>2, <1>3

(* doctor finds a lab, or has no ledger to read.                           *)
LEMMA FindPapersDoes ==
    ASSUME AtWork, FindPapers
    PROVE  /\ Kept /\ Head(call.todo).do = "lab"
           /\ \/ LabFor = NoLab /\ Moves(<<>>, TRUE, call.wrote, call.got)
              \/ /\ LabFor # NoLab
                 /\ Moves(<<Do("admission", LabFor), Do("registry", LabFor)>>, call.out,
                          call.wrote, call.got)
  <1>1. Kept /\ UNCHANGED <<before, meddled>> /\ Head(call.todo).do = "lab"
    BY DEF FindPapers, Kept, Doing
  <1>2. CASE LabFor = NoLab
    <2>1. call' = Faulted(Goes(<<>>), FALSE)
      BY <1>2, Unfaulted DEF FindPapers
    <2>2. Moves(<<>>, call.out \/ <<>> = <<>>, call.wrote, call.got)
      BY <1>1, <2>1, MovedNoting, Zenon
    <2>3. (call.out \/ <<>> = <<>>) = TRUE
      OBVIOUS
    <2>4. Moves(<<>>, TRUE, call.wrote, call.got)
      BY <2>2, <2>3
    <2>. QED  BY <1>1, <1>2, <2>4
  <1>3. CASE LabFor # NoLab
    <2>. DEFINE rest == <<Do("admission", LabFor), Do("registry", LabFor)>>
    <2>1. call' = Faulted(Goes(rest), FALSE)
      BY <1>3, Unfaulted DEF FindPapers
    <2>2. rest # <<>>
      BY Spelled
    <2>. HIDE DEF rest
    <2>3. Moves(rest, call.out \/ rest = <<>>, call.wrote, call.got)
      BY <1>1, <2>1, MovedNoting, Zenon
    <2>4. (call.out \/ rest = <<>>) = call.out
      BY <2>2, Workable
    <2>5. Moves(rest, call.out, call.wrote, call.got)
      BY <2>3, <2>4
    <2>. QED  BY <1>1, <1>3, <2>5 DEF rest
  <1>. QED  BY <1>2, <1>3

(* doctor reads the admission map.                                         *)
LEMMA ReadAdmissionDoes ==
    ASSUME AtWork, ReadAdmission
    PROVE  /\ Kept /\ Head(call.todo).do = "admission"
           /\ LET told == Ledger("admission", Reading(papers[On].files.admission))
              IN  Moves(Rest, call.out \/ Rest = <<>>, call.wrote,
                        [call.got EXCEPT !.ledgers = call.got.ledgers \cup {told}])
  <1>1. Kept /\ UNCHANGED <<before, meddled>> /\ Head(call.todo).do = "admission"
    BY DEF ReadAdmission, Kept, Doing
  <1>2. Goes(Rest).got = call.got
    BY Workable, GoneOn
  <1>. DEFINE told == Ledger("admission", Reading(papers[On].files.admission))
              ledgers == call.got.ledgers \cup {told}
  <1>3. call' = [Goes(Rest) EXCEPT !.got.ledgers = @ \cup {told}]
    BY DEF ReadAdmission
  <1>. HIDE DEF told
  <1>4. call' = Faulted([Goes(Rest) EXCEPT !.got.ledgers = ledgers], FALSE)
    BY <1>2, <1>3, Unfaulted
  <1>. HIDE DEF ledgers
  <1>5. Moves(Rest, call.out \/ Rest = <<>>, call.wrote, [call.got EXCEPT !.ledgers = ledgers])
    BY <1>1, <1>4, MovedNoting, Zenon
  <1>. QED  BY <1>1, <1>5 DEF ledgers, told

(* doctor reads the registry, or tells every ledger unread at it.          *)
LEMMA ReadRegistryDoes ==
    ASSUME AtWork, ReadRegistry
    PROVE  /\ Kept /\ Head(call.todo).do = "registry"
           /\ \/ /\ papers[On].manifest = "decodes"
                 /\ LET rest == [k \in DOMAIN Stems |-> Do("ledger", Stems[k])]
                    IN  Moves(rest, call.out \/ rest = <<>>, call.wrote,
                              [call.got EXCEPT !.lab = On, !.placed = papers[On].placed])
              \/ /\ papers[On].manifest # "decodes"
                 /\ LET told == {Ledger(Stems[k], AtManifest) : k \in DOMAIN Stems}
                    IN  Moves(Rest, call.out \/ Rest = <<>>, call.wrote,
                              [call.got EXCEPT !.ledgers = call.got.ledgers \cup told])
  <1>1. Kept /\ UNCHANGED <<before, meddled>> /\ Head(call.todo).do = "registry"
    BY DEF ReadRegistry, Kept, Doing
  <1>2. CASE papers[On].manifest = "decodes"
    <2>. DEFINE rest == [k \in DOMAIN Stems |-> Do("ledger", Stems[k])]
    <2>1. call' = Faulted([Goes(rest) EXCEPT !.got.lab = On, !.got.placed = papers[On].placed], FALSE)
      BY <1>2, Unfaulted DEF ReadRegistry
    <2>. HIDE DEF rest
    <2>2. Moves(rest, call.out \/ rest = <<>>, call.wrote,
                [call.got EXCEPT !.lab = On, !.placed = papers[On].placed])
      BY <1>1, <2>1, MovedNoting, Zenon
    <2>. QED  BY <1>1, <1>2, <2>2 DEF rest
  <1>3. CASE papers[On].manifest # "decodes"
    <2>1. Goes(Rest).got = call.got
      BY Workable, GoneOn
    <2>. DEFINE told == {Ledger(Stems[k], AtManifest) : k \in DOMAIN Stems}
                ledgers == call.got.ledgers \cup told
    <2>2. call' = [Goes(Rest) EXCEPT !.got.ledgers = @ \cup told]
      BY <1>3 DEF ReadRegistry
    <2>. HIDE DEF told
    <2>3. call' = Faulted([Goes(Rest) EXCEPT !.got.ledgers = ledgers], FALSE)
      BY <2>1, <2>2, Unfaulted
    <2>. HIDE DEF ledgers
    <2>4. Moves(Rest, call.out \/ Rest = <<>>, call.wrote, [call.got EXCEPT !.ledgers = ledgers])
      BY <1>1, <2>3, MovedNoting, Zenon
    <2>. QED  BY <1>1, <1>3, <2>4 DEF ledgers, told
  <1>. QED  BY <1>2, <1>3

(* doctor reads one ledger of the registry.                                *)
LEMMA ReadLedgerDoes ==
    ASSUME AtWork, ReadLedger
    PROVE  /\ Kept /\ Head(call.todo).do = "ledger"
           /\ LET told == Ledger(On, IF On \in call.got.placed
                                     THEN Reading(papers[call.got.lab].files[On]) ELSE AtManifest)
              IN  Moves(Rest, call.out \/ Rest = <<>>, call.wrote,
                        [call.got EXCEPT !.ledgers = call.got.ledgers \cup {told}])
  <1>1. Kept /\ UNCHANGED <<before, meddled>> /\ Head(call.todo).do = "ledger"
    BY DEF ReadLedger, Kept, Doing
  <1>2. Goes(Rest).got = call.got
    BY Workable, GoneOn
  <1>. DEFINE told == Ledger(On, IF On \in call.got.placed
                                 THEN Reading(papers[call.got.lab].files[On]) ELSE AtManifest)
              ledgers == call.got.ledgers \cup {told}
  <1>3. call' = [Goes(Rest) EXCEPT !.got.ledgers = @ \cup {told}]
    BY DEF ReadLedger
  <1>. HIDE DEF told
  <1>4. call' = Faulted([Goes(Rest) EXCEPT !.got.ledgers = ledgers], FALSE)
    BY <1>2, <1>3, Unfaulted
  <1>. HIDE DEF ledgers
  <1>5. Moves(Rest, call.out \/ Rest = <<>>, call.wrote, [call.got EXCEPT !.ledgers = ledgers])
    BY <1>1, <1>4, MovedNoting, Zenon
  <1>. QED  BY <1>1, <1>5 DEF ledgers, told

(* At work, the step named is the one taken.                               *)
LEMMA Dispatch ==
    ASSUME call.at = "work", Steps
    PROVE  LET do == Head(call.todo).do
           IN  /\ do = "tag" => JudgeTag
               /\ do = "text" => JudgeText
               /\ do = "address" => JudgeAddress
               /\ do = "file" => JudgeFile
               /\ do \in {"bytes", "document"} => ReadArgument
               /\ do = "load" => LoadAsked
               /\ do = "subject" => JudgeSubject
               /\ do = "names" => ListNames
               /\ do = "said" => ReadAnnotation
               /\ do = "admit" => Admit
               /\ do = "publish" => Publish
               /\ do = "config" => ReadConfigAgain
               /\ do = "roots" => ListRoots
               /\ do = "objects" => CountObjects
               /\ do = "fan" => CountFan
               /\ do = "listing" => ListEvery
               /\ do = "row" => LoadRow
               /\ do = "audit" => BeginAudit \/ Visit \/ Verdict
               /\ do = "lab" => FindPapers
               /\ do = "admission" => ReadAdmission
               /\ do = "registry" => ReadRegistry
               /\ do = "ledger" => ReadLedger
  <1>1. ~ShowHelp /\ ~Locate /\ ~Open /\ \A ask \in Asks : ~Begin(ask)
    BY SMTT(30) DEF ShowHelp, Locate, Open, Begin
  <1>2. /\ JudgeTag => Head(call.todo).do = "tag"
        /\ JudgeText => Head(call.todo).do = "text"
        /\ JudgeAddress => Head(call.todo).do = "address"
        /\ JudgeFile => Head(call.todo).do = "file"
        /\ ReadArgument => Head(call.todo).do \in {"bytes", "document"}
        /\ LoadAsked => Head(call.todo).do = "load"
        /\ JudgeSubject => Head(call.todo).do = "subject"
        /\ ListNames => Head(call.todo).do = "names"
        /\ ReadAnnotation => Head(call.todo).do = "said"
        /\ Admit => Head(call.todo).do = "admit"
        /\ Publish => Head(call.todo).do = "publish"
    BY DEF JudgeTag, JudgeText, JudgeAddress, JudgeFile, Judge, ReadArgument, LoadAsked,
           JudgeSubject, ListNames, ReadAnnotation, Admit, Publish, Doing
  <1>3. /\ ReadConfigAgain => Head(call.todo).do = "config"
        /\ ListRoots => Head(call.todo).do = "roots"
        /\ CountObjects => Head(call.todo).do = "objects"
        /\ CountFan => Head(call.todo).do = "fan"
        /\ ListEvery => Head(call.todo).do = "listing"
        /\ LoadRow => Head(call.todo).do = "row"
        /\ BeginAudit \/ Visit \/ Verdict => Head(call.todo).do = "audit"
        /\ FindPapers => Head(call.todo).do = "lab"
        /\ ReadAdmission => Head(call.todo).do = "admission"
        /\ ReadRegistry => Head(call.todo).do = "registry"
        /\ ReadLedger => Head(call.todo).do = "ledger"
    BY Zenon DEF ReadConfigAgain, ListRoots, CountObjects, CountFan, ListEvery, LoadRow, BeginAudit,
           Visit, Verdict, FindPapers, ReadAdmission, ReadRegistry, ReadLedger, Doing
  <1>4. \/ JudgeTag \/ JudgeText \/ JudgeAddress \/ JudgeFile \/ ReadArgument
        \/ LoadAsked \/ JudgeSubject \/ ListNames \/ ReadAnnotation
        \/ Admit \/ Publish
        \/ ReadConfigAgain \/ ListRoots \/ CountObjects \/ CountFan
        \/ ListEvery \/ LoadRow \/ BeginAudit \/ Visit \/ Verdict
        \/ FindPapers \/ ReadAdmission \/ ReadRegistry \/ ReadLedger
    BY <1>1 DEF Steps
  <1>. QED  BY <1>2, <1>3, <1>4

(* Nothing is said before the last steps of show, ls and verify.           *)
LEMMA Quiet ==
    ASSUME AtWork, Head(call.todo).do \notin {"names", "said", "row"},
           Head(call.todo).do = "audit" => call.ask.id # "every"
    PROVE  ~call.out
  BY DEF AtWork, ShellReports, Moving, Going

(* A refusal that left the disk alone keeps the invariant.                 *)
LEMMA RefusedKept ==
    ASSUME AtWork, Kept, NEW why, Stops(why), why # "ok", why = "unexpected" => call'.faults > 0,
           ~call.out
    PROVE  ShellReports'
  BY DiskKept, Refused

(* And so does a step that goes on and writes nothing.                     *)
LEMMA Proceeded ==
    ASSUME AtWork, Kept, NEW rest, NEW out \in BOOLEAN, NEW got, Moves(rest, out, call.wrote, got),
           IsSequence(rest), rest = <<>> => out,
           rest # <<>> /\ out =>
               \/ Head(rest).do \in {"names", "said", "row"}
               \/ Head(rest).do = "audit" /\ call.ask.id = "every",
           Stages'
    PROVE  ShellReports'
  <1>1. PlanesGrown' /\ PapersEmitted'
    BY DiskKept
  <1>2. Rooted' = {}
    BY Workable DEF Moves, Rooted
  <1>3. /\ call.ask.verb \notin {"put", "name", "publish"} => call.wrote = {}
        /\ call.ask.verb = "name" => \A step \in call.wrote : step.of \subseteq Names
    BY DEF AtWork, ShellReports, Ended
  <1>. DEFINE wrote == call.wrote
  <1>. HIDE DEF wrote
  <1>4. Moves(rest, out, wrote, got)
    BY DEF wrote
  <1>5. /\ call.ask.verb \notin {"put", "name", "publish"} => wrote = {}
        /\ call.ask.verb = "name" => \A step \in wrote : step.of \subseteq Names
    BY <1>3 DEF wrote
  <1>. QED  BY <1>1, <1>2, <1>4, <1>5, Advanced

(* Nor does a step of a walk.                                              *)
LEMMA WalkedOn ==
    ASSUME AtWork, Kept, NEW got, Walks(got), Stages'
    PROVE  ShellReports'
  <1>1. PlanesGrown' /\ PapersEmitted' /\ call'.at = "work"
    BY DiskKept DEF Walks, AtWork
  <1>2. Untouched'
    BY <1>1 DEF Untouched
  <1>3. Rooted' = Rooted
    BY DEF Walks, Rooted
  <1>4. Ended'
    BY <1>1, <1>3 DEF AtWork, ShellReports, Ended, Walks, Onward
  <1>5. Going' /\ Going
    BY <1>1 DEF AtWork, Going
  <1>6. Moving'
    BY <1>1, <1>3, <1>5 DEF AtWork, ShellReports, Moving, Walks, Onward
  <1>. QED  BY <1>1, <1>2, <1>4, <1>6 DEF ShellReports

(* The store of an invocation stays the store it was.                      *)
LEMMA SameStore ==
    ASSUME AtWork, Onward, UNCHANGED plane
    PROVE  /\ call'.ask = call.ask /\ call'.place = call.place /\ call'.backend = call.backend
           /\ Here' = Here /\ Stood' = Stood
           /\ Steady(call.place)' = Steady(call.place)
           /\ before.plane[call.place]' = before.plane[call.place]
           /\ plane[call.place]' = plane[call.place]
  BY DEF Onward, Here, Stood, Steady

(* What the store of an invocation holds, then and now.                    *)
LEMMA PlaneKept ==
    ASSUME AtWork
    PROVE  /\ Stood \in Planes /\ Here \in Planes
           /\ Stood.held \subseteq Here.held /\ Stood.damaged \subseteq Here.damaged
           /\ Stood.roots \subseteq Here.roots
           /\ before.plane[call.place].file \in Planes /\ plane[call.place].file \in Planes
           /\ before.plane[call.place].file.held \subseteq plane[call.place].file.held
           /\ call.backend = "file" => /\ Stood = before.plane[call.place].file
                                       /\ Here = plane[call.place].file
  <1>1. call.place \in Places /\ call.backend \in Backends /\ "file" \in Backends
    BY Workable DEF Backends
  <1>2. /\ before.plane[call.place] \in [Backends -> Planes]
        /\ plane[call.place] \in [Backends -> Planes]
    BY <1>1 DEF AtWork, ShellReports, PlanesGrown
  <1>3. /\ Stood \in Planes /\ Here \in Planes
        /\ before.plane[call.place].file \in Planes /\ plane[call.place].file \in Planes
    BY <1>1, <1>2 DEF Stood, Here
  <1>4. /\ Stood.held \subseteq Here.held /\ Stood.damaged \subseteq Here.damaged
        /\ Stood.roots \subseteq Here.roots
        /\ before.plane[call.place].file.held \subseteq plane[call.place].file.held
    BY <1>1 DEF AtWork, ShellReports, PlanesGrown, Stood, Here
  <1>. QED  BY <1>3, <1>4 DEF Stood, Here

(* Parts of what may stand in a store can be counted, a part of a part at  *)
(* no more than the whole.                                                 *)
LEMMA Counting ==
    ASSUME NEW S, NEW T, T \subseteq Ids, S \subseteq T
    PROVE  /\ IsFiniteSet(S) /\ IsFiniteSet(T)
           /\ Cardinality(S) \in Nat /\ Cardinality(T) \in Nat /\ Cardinality(S) <= Cardinality(T)
  <1>1. IsFiniteSet(Ids)
    BY ShellAssumption
  <1>2. IsFiniteSet(T)
    BY <1>1, FS_Subset
  <1>3. IsFiniteSet(S) /\ Cardinality(S) <= Cardinality(T)
    BY <1>2, FS_Subset
  <1>. QED  BY <1>2, <1>3, FS_CardinalityType

(* A store that gains nodes, damage or roots is a store still.             *)
LEMMA PlaneGrows ==
    ASSUME AtWork, NEW one \in Planes, before' = before,
           plane' = [plane EXCEPT ![call.place][call.backend] = one],
           Here.held \subseteq one.held, Here.damaged \subseteq one.damaged,
           Here.roots \subseteq one.roots
    PROVE  /\ PlanesGrown'
           /\ plane'[call.place][call.backend] = one
           /\ \A p \in Places, b \in Backends :
                /\ plane[p][b].held \subseteq plane'[p][b].held
                /\ plane[p][b].damaged \subseteq plane'[p][b].damaged
                /\ plane[p][b].roots \subseteq plane'[p][b].roots
  <1>1. call.place \in Places /\ call.backend \in Backends
    BY Workable
  <1>2. plane \in [Places -> [Backends -> Planes]] /\ before.plane \in [Places -> [Backends -> Planes]]
    BY DEF AtWork, ShellReports, PlanesGrown
  <1>3. /\ plane' \in [Places -> [Backends -> Planes]]
        /\ plane'[call.place][call.backend] = one
        /\ \A p \in Places, b \in Backends :
             p # call.place \/ b # call.backend => plane'[p][b] = plane[p][b]
    BY <1>1, <1>2
  <1>4. \A p \in Places, b \in Backends :
           /\ plane[p][b].held \subseteq plane'[p][b].held
           /\ plane[p][b].damaged \subseteq plane'[p][b].damaged
           /\ plane[p][b].roots \subseteq plane'[p][b].roots
    BY <1>1, <1>3 DEF Here
  <1>5. \A p \in Places, b \in Backends :
           /\ before.plane[p][b].held \subseteq plane[p][b].held
           /\ before.plane[p][b].damaged \subseteq plane[p][b].damaged
           /\ before.plane[p][b].roots \subseteq plane[p][b].roots
    BY DEF AtWork, ShellReports, PlanesGrown
  <1>6. PlanesGrown'
    BY <1>2, <1>3, <1>4, <1>5 DEF PlanesGrown
  <1>. QED  BY <1>3, <1>4, <1>6

(* A judgement of the arguments refuses, or leaves the rest of the verb to *)
(* do; nothing was said before it.                                         *)
LEMMA Judged ==
    ASSUME AtWork, NEW step, NEW holds, NEW why, Judge(step, holds, why),
           why # "ok", why # "unexpected", step \in {"tag", "text", "address", "file"},
           IsSequence(Rest), Rest # <<>>,
           holds /\ Kept /\ Moves(Rest, FALSE, call.wrote, call.got) => Stages'
    PROVE  ShellReports'
  <1>1. /\ Head(call.todo).do = step /\ Kept
        /\ \/ holds /\ Moves(Rest, call.out \/ Rest = <<>>, call.wrote, call.got)
           \/ Stops(why)
    BY JudgeDoes
  <1>2. ~call.out
    BY <1>1, Quiet
  <1>3. CASE Stops(why)
    BY <1>1, <1>2, <1>3, RefusedKept
  <1>4. CASE holds /\ Moves(Rest, call.out \/ Rest = <<>>, call.wrote, call.got)
    <2>1. (call.out \/ Rest = <<>>) = FALSE
      BY <1>2
    <2>2. Moves(Rest, FALSE, call.wrote, call.got)
      BY <1>4, <2>1
    <2>3. Stages'
      BY <1>1, <1>4, <2>2
    <2>. QED  BY <1>1, <2>2, <2>3, Proceeded
  <1>. QED  BY <1>1, <1>3, <1>4

(* A load refuses, or the node asked for is there and sound.               *)
LEMMA LoadedOn ==
    ASSUME AtWork, LoadAsked, call.ask.verb # "show", IsSequence(Rest), Rest # <<>>,
           (/\ Kept /\ Moves(Rest, FALSE, call.wrote, call.got)
            /\ call.ask.id \in Here.held /\ call.ask.id \notin Here.damaged) => Stages'
    PROVE  ShellReports'
  <1>1. /\ Kept /\ Head(call.todo).do = "load"
        /\ \/ Stops("broken") \/ Stops("absent") \/ Stops("damaged")
           \/ /\ call.ask.id \in Here.held /\ call.ask.id \notin Here.damaged
              /\ Moves(Rest, call.out \/ Rest = <<>> \/ call.ask.verb = "show", call.wrote, call.got)
    BY LoadAskedDoes
  <1>2. ~call.out
    BY <1>1, Quiet
  <1>3. CASE Stops("broken") \/ Stops("absent") \/ Stops("damaged")
    BY <1>1, <1>2, <1>3, RefusedKept
  <1>4. CASE /\ call.ask.id \in Here.held /\ call.ask.id \notin Here.damaged
             /\ Moves(Rest, call.out \/ Rest = <<>> \/ call.ask.verb = "show", call.wrote, call.got)
    <2>1. (call.out \/ Rest = <<>> \/ call.ask.verb = "show") = FALSE
      BY <1>2
    <2>2. Moves(Rest, FALSE, call.wrote, call.got)
      BY <1>4, <2>1
    <2>3. Stages'
      BY <1>1, <1>4, <2>2
    <2>. QED  BY <1>1, <2>2, <2>3, Proceeded
  <1>. QED  BY <1>1, <1>3, <1>4

(* What a step that changed the store leaves behind it.                    *)
Stores ==
    /\ call'.ask = call.ask /\ call'.place = call.place /\ call'.backend = call.backend
    /\ call'.todo = Rest /\ call'.got = call.got
    /\ Here.held \subseteq Here'.held /\ Here.roots \subseteq Here'.roots
    /\ Stood' = Stood

(* A node the store takes in is there, and nothing is published by it.     *)
LEMMA AdmittedOn ==
    ASSUME AtWork, Admit, On \in Ids, IsSequence(Rest), call.ask.verb \in {"name", "put"},
           call.ask.verb = "name" => On \in Names,
           Stores /\ On \in Here'.held => Stages'
    PROVE  ShellReports'
  <1>. DEFINE more == call.wrote \cup {Do("admit", On)}
  <1>1. /\ UNCHANGED <<papers, before, meddled>> /\ Head(call.todo).do = "admit"
        /\ \/ Stops("inadmissible") /\ plane' = plane
           \/ /\ On \in Here.held /\ plane' = plane
              /\ Moves(Rest, call.out \/ Rest = <<>>, call.wrote, call.got)
           \/ /\ plane' = [plane EXCEPT ![call.place][call.backend].held = @ \cup {On}]
              /\ Moves(Rest, call.out \/ Rest = <<>>, more, call.got)
    BY AdmitDoes
  <1>2. ~call.out
    BY <1>1, Quiet, SMTT(30)
  <1>3. PapersEmitted' /\ (plane' = plane => PlanesGrown')
    BY <1>1 DEF AtWork, ShellReports, PapersEmitted, PlanesGrown
  <1>4. CASE Stops("inadmissible") /\ plane' = plane
    BY <1>2, <1>3, <1>4, Refused
  <1>5. ASSUME NEW wrote, Moves(Rest, call.out \/ Rest = <<>>, wrote, call.got),
               wrote \in {call.wrote, more}, PlanesGrown', Stages'
        PROVE  ShellReports'
    <2>1. \A step \in wrote : step \in call.wrote \/ (step.do = "admit" /\ step.of = {On})
      BY <1>5 DEF Do
    <2>2. Rooted' = {}
      <3>1. \A step \in call.wrote : step.do = "publish" => step.of = {}
        BY Workable DEF Rooted
      <3>2. \A step \in call'.wrote : step.do = "publish" => step.of = {}
        BY <1>5, <2>1, <3>1 DEF Moves
      <3>. QED  BY <3>2 DEF Rooted
    <2>3. call.ask.verb = "name" => \A step \in wrote : step.of \subseteq Names
      BY <2>1 DEF AtWork, ShellReports, Ended
    <2>4. Rest # <<>> => ~(call.out \/ Rest = <<>>)
      BY <1>2
    <2>. QED  BY <1>3, <1>5, <2>2, <2>3, <2>4, Advanced
  <1>6. CASE /\ On \in Here.held /\ plane' = plane
             /\ Moves(Rest, call.out \/ Rest = <<>>, call.wrote, call.got)
    <2>1. Stores /\ On \in Here'.held
      BY <1>6, SameStore DEF Moves, Stores
    <2>. QED  BY <1>3, <1>5, <1>6, <2>1
  <1>7. CASE /\ plane' = [plane EXCEPT ![call.place][call.backend].held = @ \cup {On}]
             /\ Moves(Rest, call.out \/ Rest = <<>>, more, call.got)
    <2>. DEFINE one == [Here EXCEPT !.held = @ \cup {On}]
    <2>1. plane' = [plane EXCEPT ![call.place][call.backend] = one]
      BY <1>7 DEF Here
    <2>2. /\ one \in Planes /\ one.held = Here.held \cup {On} /\ one.damaged = Here.damaged
          /\ one.roots = Here.roots
      BY PlaneKept, SMTT(30) DEF Planes
    <2>. HIDE DEF one
    <2>3. PlanesGrown' /\ plane'[call.place][call.backend] = one
      BY <1>1, <2>1, <2>2, PlaneGrows
    <2>4. Stores /\ On \in Here'.held
      BY <1>1, <1>7, <2>2, <2>3, Zenon DEF Moves, Onward, Stores, Here, Stood
    <2>. HIDE DEF more
    <2>. QED  BY <1>5, <1>7, <2>3, <2>4
  <1>. QED  BY <1>1, <1>4, <1>6, <1>7

(* The last thing a verb that publishes does.                              *)
LEMMA PublishedOn ==
    ASSUME AtWork, Publish, On \in Ids, Rest = <<>>, call.ask.verb \in {"name", "publish"},
           call.ask.verb = "name" => On \in Names,
           Stores /\ On \in Here'.roots => Stages'
    PROVE  ShellReports'
  <1>. DEFINE wrote == call.wrote \cup {Do("publish", On)}
  <1>1. /\ UNCHANGED <<papers, before, meddled>> /\ Head(call.todo).do = "publish"
        /\ \/ Stops("unexpected") /\ call'.faults > 0 /\ plane' = plane
           \/ /\ plane' = [plane EXCEPT ![call.place][call.backend].roots = @ \cup {On}]
              /\ Moves(Rest, call.out \/ Rest = <<>>, wrote, call.got)
    BY PublishDoes
  <1>2. ~call.out
    BY <1>1, Quiet, SMTT(30)
  <1>3. PapersEmitted' /\ (plane' = plane => PlanesGrown')
    BY <1>1 DEF AtWork, ShellReports, PapersEmitted, PlanesGrown
  <1>4. CASE Stops("unexpected") /\ call'.faults > 0 /\ plane' = plane
    BY <1>2, <1>3, <1>4, Refused
  <1>5. CASE /\ plane' = [plane EXCEPT ![call.place][call.backend].roots = @ \cup {On}]
             /\ Moves(Rest, call.out \/ Rest = <<>>, wrote, call.got)
    <2>. DEFINE one == [Here EXCEPT !.roots = @ \cup {On}]
    <2>1. plane' = [plane EXCEPT ![call.place][call.backend] = one]
      BY <1>5 DEF Here
    <2>2. /\ one \in Planes /\ one.held = Here.held /\ one.damaged = Here.damaged
          /\ one.roots = Here.roots \cup {On}
      BY PlaneKept, SMTT(30) DEF Planes
    <2>. HIDE DEF one
    <2>3. PlanesGrown' /\ plane'[call.place][call.backend] = one
      BY <1>1, <2>1, <2>2, PlaneGrows
    <2>4. Stores /\ On \in Here'.roots
      BY <1>1, <1>5, <2>2, <2>3 DEF Moves, Onward, Stores, Here, Stood
    <2>5. call.ask.verb = "name" => \A step \in wrote : step.of \subseteq Names
      BY DEF AtWork, ShellReports, Ended, Do
    <2>6. IsSequence(Rest)
      BY Spelled
    <2>. HIDE DEF wrote
    <2>. QED  BY <1>3, <1>5, <2>3, <2>4, <2>5, <2>6, Advanced
  <1>. QED  BY <1>1, <1>4, <1>5

(* publish keeps its stage: it names a root it has loaded.                 *)
LEMMA PublishGoesOn ==
    ASSUME AtWork, Steps, call.ask.verb = "publish"
    PROVE  ShellReports'
  <1>. DEFINE t == call.todo
  <1>1. PublishStage(t) /\ IsSequence(t) /\ t # <<>> /\ call.at = "work"
    BY Workable DEF AtWork, ShellReports, Stages, Going
  <1>2. ASSUME call'.ask = call.ask, PublishStage(call.todo)'
        PROVE  Stages'
    BY <1>2 DEF Stages
  <1>. HIDE DEF t
  <1>3. CASE /\ Begins(t, Do("address", "")) /\ Begins(Tail(t), Do("load", ""))
             /\ Only(Tail(Tail(t)), Do("publish", call.ask.id))
    <2>1. Rest = Tail(t) /\ IsSequence(Rest) /\ Head(t).do = "address"
      BY <1>1, <1>3, Singly DEF t
    <2>2. JudgeAddress
      BY <1>1, <2>1, Dispatch DEF t
    <2>3. ASSUME Moves(Rest, FALSE, call.wrote, call.got)
          PROVE  Stages'
      <3>1. call'.ask = call.ask /\ call'.todo = Rest
        BY <2>3 DEF Moves, Onward
      <3>. QED  BY <1>2, <1>3, <2>1, <3>1 DEF PublishStage
    <2>4. Rest # <<>>
      BY <1>3, <2>1 DEF Begins
    <2>. QED  BY <2>1, <2>2, <2>3, <2>4, Judged DEF JudgeAddress
  <1>4. CASE Begins(t, Do("load", "")) /\ Only(Tail(t), Do("publish", call.ask.id))
    <2>1. Rest = Tail(t) /\ IsSequence(Rest) /\ Head(t).do = "load"
      BY <1>1, <1>4, Singly DEF t
    <2>2. LoadAsked
      BY <1>1, <2>1, Dispatch DEF t
    <2>3. ASSUME Kept, Moves(Rest, FALSE, call.wrote, call.got), call.ask.id \in Here.held,
                 call.ask.id \notin Here.damaged
          PROVE  Stages'
      <3>1. call'.ask = call.ask /\ call'.todo = Rest /\ Here' = Here /\ Stood' = Stood
        BY <2>3, SameStore DEF Moves, Kept
      <3>2. Loaded'
        BY <2>3, <3>1, PlaneKept DEF Loaded
      <3>3. PublishStage(call.todo)'
        BY <1>4, <2>1, <3>1, <3>2 DEF PublishStage
      <3>. QED  BY <1>2, <3>1, <3>3
    <2>4. Rest # <<>>
      BY <1>4, <2>1 DEF Begins, Only
    <2>. QED  BY <2>1, <2>2, <2>3, <2>4, LoadedOn
  <1>5. CASE Only(t, Do("publish", call.ask.id)) /\ Loaded
    <2>1. Rest = <<>> /\ Head(t).do = "publish" /\ On = call.ask.id
      BY <1>1, <1>5, Singly DEF t, Only
    <2>2. Publish
      BY <1>1, <2>1, Dispatch DEF t
    <2>3. ASSUME Stores, On \in Here'.roots
          PROVE  Stages'
      <3>1. call'.ask = call.ask /\ call'.todo = Rest /\ Stood' = Stood /\ Here.held \subseteq Here'.held
        BY <2>3 DEF Stores
      <3>2. Loaded' /\ call'.ask.id \in Here'.roots
        BY <1>5, <2>1, <2>3, <3>1 DEF Loaded
      <3>. QED  BY <1>2, <2>1, <3>1, <3>2 DEF PublishStage
    <2>4. On \in Ids
      BY <1>5, <2>1, PlaneKept DEF Loaded, Planes
    <2>. QED  BY <2>1, <2>2, <2>3, <2>4, PublishedOn
  <1>. QED  BY <1>1, <1>3, <1>4, <1>5 DEF PublishStage

(* A node that may be named has an annotation to name it by.               *)
LEMMA NameIsThere ==
    ASSUME NEW id \in Ids, Tag[id] \in Nameable
    PROVE  NameFor(id) \in Names /\ NameFor(id) \in Ids
  <1>1. \E name \in Names : About[name] = id
    BY ShellAssumption
  <1>2. NameFor(id) \in Names
    BY <1>1 DEF NameFor
  <1>. QED  BY <1>2, ShellAssumption

(* name keeps its stage: the node is there, its annotation, then the root. *)
LEMMA NameGoesOn ==
    ASSUME AtWork, Steps, call.ask.verb = "name"
    PROVE  ShellReports'
  <1>. DEFINE t == call.todo
              id == call.ask.id
              name == NameFor(id)
  <1>1. NameStage(t) /\ IsSequence(t) /\ t # <<>> /\ call.at = "work"
    BY Workable DEF AtWork, ShellReports, Stages, Going
  <1>2. ASSUME call'.ask = call.ask, NameStage(call.todo)'
        PROVE  Stages'
    BY <1>2 DEF Stages
  <1>3. call'.ask = call.ask => NameFor(call.ask.id)' = name
    BY DEF NameFor
  <1>4. id \in Here.held => id \in Ids
    BY PlaneKept DEF Planes
  <1>. HIDE DEF t, name
  <1>5. CASE /\ Begins(t, Do("text", "")) /\ Begins(Tail(t), Do("address", ""))
             /\ Begins(Tail(Tail(t)), Do("load", "")) /\ Only(Tail(Tail(Tail(t))), Do("subject", ""))
    <2>1. Rest = Tail(t) /\ IsSequence(Rest) /\ Head(t).do = "text"
      BY <1>1, <1>5, Singly DEF t
    <2>2. JudgeText
      BY <1>1, <2>1, Dispatch DEF t
    <2>3. ASSUME Moves(Rest, FALSE, call.wrote, call.got)
          PROVE  Stages'
      <3>1. call'.ask = call.ask /\ call'.todo = Rest
        BY <2>3 DEF Moves, Onward
      <3>. QED  BY <1>2, <1>5, <2>1, <3>1 DEF NameStage
    <2>4. Rest # <<>>
      BY <1>5, <2>1 DEF Begins
    <2>. QED  BY <2>1, <2>2, <2>3, <2>4, Judged DEF JudgeText
  <1>6. CASE /\ Begins(t, Do("address", "")) /\ Begins(Tail(t), Do("load", ""))
             /\ Only(Tail(Tail(t)), Do("subject", ""))
    <2>1. Rest = Tail(t) /\ IsSequence(Rest) /\ Head(t).do = "address"
      BY <1>1, <1>6, Singly DEF t
    <2>2. JudgeAddress
      BY <1>1, <2>1, Dispatch DEF t
    <2>3. ASSUME Moves(Rest, FALSE, call.wrote, call.got)
          PROVE  Stages'
      <3>1. call'.ask = call.ask /\ call'.todo = Rest
        BY <2>3 DEF Moves, Onward
      <3>. QED  BY <1>2, <1>6, <2>1, <3>1 DEF NameStage
    <2>4. Rest # <<>>
      BY <1>6, <2>1 DEF Begins
    <2>. QED  BY <2>1, <2>2, <2>3, <2>4, Judged DEF JudgeAddress
  <1>7. CASE Begins(t, Do("load", "")) /\ Only(Tail(t), Do("subject", ""))
    <2>1. Rest = Tail(t) /\ IsSequence(Rest) /\ Head(t).do = "load"
      BY <1>1, <1>7, Singly DEF t
    <2>2. LoadAsked
      BY <1>1, <2>1, Dispatch DEF t
    <2>3. ASSUME Kept, Moves(Rest, FALSE, call.wrote, call.got), call.ask.id \in Here.held
          PROVE  Stages'
      <3>1. call'.ask = call.ask /\ call'.todo = Rest /\ Here' = Here
        BY <2>3, SameStore DEF Moves, Kept
      <3>. QED  BY <1>2, <1>7, <2>1, <2>3, <3>1 DEF NameStage
    <2>4. Rest # <<>>
      BY <1>7, <2>1 DEF Begins, Only
    <2>. QED  BY <2>1, <2>2, <2>3, <2>4, LoadedOn
  <1>8. CASE Only(t, Do("subject", "")) /\ id \in Here.held
    <2>1. Head(t).do = "subject"
      BY <1>1, <1>8, Singly DEF t, Only
    <2>2. JudgeSubject /\ ~call.out
      BY <1>1, <2>1, Dispatch, Quiet DEF t
    <2>. DEFINE rest == <<Do("admit", name), Do("publish", name)>>
    <2>3. /\ Kept
          /\ \/ Stops("NotNameable")
             \/ Tag[id] \in Nameable /\ Moves(rest, call.out, call.wrote, call.got)
      BY <2>2, JudgeSubjectDoes DEF name
    <2>4. CASE Stops("NotNameable")
      BY <2>2, <2>3, <2>4, RefusedKept
    <2>5. CASE Tag[id] \in Nameable /\ Moves(rest, call.out, call.wrote, call.got)
      <3>1. call'.ask = call.ask /\ call'.todo = rest /\ Here' = Here
        BY <2>3, <2>5, SameStore DEF Moves, Kept
      <3>. PICK one, other : one = Do("admit", name) /\ other = Do("publish", name)
        OBVIOUS
      <3>5. rest = <<one, other>>
        OBVIOUS
      <3>. HIDE DEF rest
      <3>2. /\ IsSequence(rest) /\ rest # <<>> /\ Head(rest) = one
            /\ Tail(rest) = <<other>> /\ Head(<<other>>) = other /\ Tail(<<other>>) = <<>>
            /\ <<other>> # <<>>
        BY <3>5, Spelled, ZenonT(45)
      <3>3. Only(Tail(rest), Do("publish", name)) /\ Begins(rest, Do("admit", name))
        BY <3>2 DEF Only, Begins
      <3>4. Stages'
        BY <1>2, <1>3, <1>8, <2>5, <3>1, <3>3 DEF NameStage
      <3>. QED  BY <2>2, <2>3, <2>5, <3>2, <3>4, Workable, Proceeded
    <2>. QED  BY <2>3, <2>4, <2>5
  <1>9. CASE /\ Begins(t, Do("admit", name)) /\ Only(Tail(t), Do("publish", name))
             /\ id \in Here.held /\ Tag[id] \in Nameable
    <2>1. Rest = Tail(t) /\ IsSequence(Rest) /\ Head(t).do = "admit" /\ On = name
      BY <1>1, <1>9, Singly DEF t
    <2>2. Admit
      BY <1>1, <2>1, Dispatch DEF t
    <2>3. ASSUME Stores, On \in Here'.held
          PROVE  Stages'
      <3>1. call'.ask = call.ask /\ call'.todo = Rest /\ Here.held \subseteq Here'.held
        BY <2>3 DEF Stores
      <3>. QED  BY <1>2, <1>3, <1>9, <2>1, <2>3, <3>1 DEF NameStage
    <2>4. On \in Ids /\ On \in Names
      BY <1>4, <1>9, <2>1, NameIsThere DEF name
    <2>. QED  BY <2>1, <2>2, <2>3, <2>4, AdmittedOn
  <1>10. CASE /\ Only(t, Do("publish", name)) /\ id \in Here.held /\ Tag[id] \in Nameable
              /\ name \in Here.held
    <2>1. Rest = <<>> /\ Head(t).do = "publish" /\ On = name
      BY <1>1, <1>10, Singly DEF t, Only
    <2>2. Publish
      BY <1>1, <2>1, Dispatch DEF t
    <2>3. ASSUME Stores, On \in Here'.roots
          PROVE  Stages'
      <3>1. call'.ask = call.ask /\ call'.todo = <<>> /\ Here.held \subseteq Here'.held
        BY <2>1, <2>3 DEF Stores
      <3>. QED  BY <1>2, <1>3, <1>10, <2>1, <2>3, <3>1 DEF NameStage
    <2>4. On \in Ids /\ On \in Names
      BY <1>4, <1>10, <2>1, NameIsThere DEF name
    <2>. QED  BY <2>1, <2>2, <2>3, <2>4, PublishedOn
  <1>. QED  BY <1>1, <1>5, <1>6, <1>7, <1>8, <1>9, <1>10 DEF NameStage, name

(* put keeps its stage: each node of the file or document is there or left. *)
LEMMA PutGoesOn ==
    ASSUME AtWork, Steps, call.ask.verb = "put"
    PROVE  ShellReports'
  <1>. DEFINE t == call.todo
              id == call.ask.id
  <1>1. PutStage(t) /\ IsSequence(t) /\ t # <<>> /\ call.at = "work" /\ call.ask.id \in Ids
    BY Workable, ShellAssumption DEF AtWork, ShellReports, Stages, Going
  <1>2. ASSUME call'.ask = call.ask, PutStage(call.todo)'
        PROVE  Stages'
    BY <1>2 DEF Stages
  <1>. HIDE DEF t
  <1>3. CASE Begins(t, Do("file", ""))
    <2>1. Rest = Tail(t) /\ IsSequence(Rest) /\ Head(t).do = "file"
      BY <1>1, <1>3, Singly DEF t
    <2>2. JudgeFile
      BY <1>1, <2>1, Dispatch DEF t
    <2>4. \/ call.ask.program /\ Only(Tail(t), Do("document", ""))
          \/ ~call.ask.program /\ Only(Tail(t), Do("bytes", ""))
      <3>1. Head(t) = Do("file", "")
        BY <1>3 DEF Begins
      <3>2. \A on : Do("file", "") # Do("admit", on) /\ Do("file", "") # Do("tag", "")
                    /\ Do("file", "") # Do("document", "") /\ Do("file", "") # Do("bytes", "")
        BY DEF Do
      <3>3. 1 \in DOMAIN t /\ t[1] = Head(t)
        BY <1>1, Unrolled
      <3>. QED  BY <1>1, <3>1, <3>2, <3>3, ZenonT(45) DEF PutStage, Begins, Only
    <2>5. ASSUME Moves(Rest, FALSE, call.wrote, call.got)
          PROVE  Stages'
      <3>1. call'.ask = call.ask /\ call'.todo = Rest
        BY <2>5 DEF Moves, Onward
      <3>. QED  BY <1>2, <2>1, <2>4, <3>1 DEF PutStage
    <2>6. Rest # <<>>
      BY <2>1, <2>4 DEF Begins, Only
    <2>. DEFINE why == IF call.ask.file = "missing" THEN "NoSuchFile" ELSE "NotAFile"
    <2>7. why # "ok" /\ why # "unexpected"
      OBVIOUS
    <2>. QED  BY <2>1, <2>2, <2>5, <2>6, <2>7, Judged DEF JudgeFile
  <1>4. CASE ~call.ask.program /\ Begins(t, Do("tag", "")) /\ Begins(Tail(t), Do("file", ""))
             /\ Only(Tail(Tail(t)), Do("bytes", ""))
    <2>1. Rest = Tail(t) /\ IsSequence(Rest) /\ Head(t).do = "tag"
      BY <1>1, <1>4, Singly DEF t
    <2>2. JudgeTag
      BY <1>1, <2>1, Dispatch DEF t
    <2>3. ASSUME Moves(Rest, FALSE, call.wrote, call.got)
          PROVE  Stages'
      <3>1. call'.ask = call.ask /\ call'.todo = Rest
        BY <2>3 DEF Moves, Onward
      <3>. QED  BY <1>2, <1>4, <2>1, <3>1 DEF PutStage
    <2>4. Rest # <<>>
      BY <1>4, <2>1 DEF Begins
    <2>. QED  BY <2>1, <2>2, <2>3, <2>4, Judged DEF JudgeTag
  <1>5. CASE \/ ~call.ask.program /\ Only(t, Do("bytes", ""))
             \/ call.ask.program /\ Only(t, Do("document", ""))
    <2>1. \/ call.ask.program /\ Head(t).do = "document"
          \/ ~call.ask.program /\ Head(t).do = "bytes"
      <3>1. /\ Only(t, Do("bytes", "")) => Head(t).do = "bytes"
            /\ Only(t, Do("document", "")) => Head(t).do = "document"
        BY <1>1, Singly DEF t, Only
      <3>. QED  BY <1>5, <3>1
    <2>2. ReadArgument /\ ~call.out
      BY <1>1, <2>1, Dispatch, Quiet DEF t
    <2>. DEFINE table == [k \in DOMAIN Table |-> Do("admit", Table[k])]
                node  == <<Do("admit", id)>>
    <2>3. /\ Kept
          /\ \/ Stops("unexpected") /\ call'.faults > 0
             \/ Stops("PermissionDenied") \/ Stops("NotAProgramDocument")
             \/ Head(t).do = "bytes" /\ Moves(node, call.out, call.wrote, call.got)
             \/ Head(t).do = "document" /\ Moves(table, call.out \/ table = <<>>, call.wrote, call.got)
      BY <2>2, ReadArgumentDoes DEF t
    <2>4. CASE \/ Stops("unexpected") /\ call'.faults > 0
               \/ Stops("PermissionDenied") \/ Stops("NotAProgramDocument")
      BY <2>2, <2>3, <2>4, RefusedKept
    <2>5. CASE Head(t).do = "bytes" /\ Moves(node, call.out, call.wrote, call.got)
      <3>1. IsSequence(node) /\ node # <<>> /\ Only(node, Do("admit", id))
        BY Spelled DEF Only, Begins
      <3>. HIDE DEF node
      <3>2. call'.ask = call.ask /\ call'.todo = node /\ ~call.ask.program
        BY <2>1, <2>5 DEF Moves, Onward
      <3>3. Stages'
        BY <1>2, <3>1, <3>2 DEF PutStage
      <3>. QED  BY <2>2, <2>3, <2>5, <3>1, <3>3, Workable, Proceeded
    <2>6. CASE Head(t).do = "document" /\ Moves(table, call.out \/ table = <<>>, call.wrote, call.got)
      <3>1. Len(Table) \in Nat /\ DOMAIN Table = 1..Len(Table) /\ \A k \in DOMAIN Table : Table[k] \in Ids
        BY ShellAssumption
      <3>2. IsSequence(table)
        <4>1. Len(table) = Len(Table)
          BY <3>1
        <4>. QED  BY <3>1, <4>1 DEF IsSequence
      <3>3. /\ DOMAIN table = DOMAIN Table
            /\ \A k \in DOMAIN Table : table[k] = Do("admit", Table[k])
        OBVIOUS
      <3>. HIDE DEF table
      <3>4. call'.ask = call.ask /\ call'.todo = table /\ call.ask.program
        BY <2>1, <2>6 DEF Moves, Onward
      <3>5. PutStage(call.todo)'
        BY <3>1, <3>3, <3>4 DEF PutStage
      <3>6. Stages'
        BY <1>2, <3>4, <3>5
      <3>. QED  BY <2>2, <2>3, <2>6, <3>2, <3>6, Workable, Proceeded
    <2>. QED  BY <2>3, <2>4, <2>5, <2>6
  <1>6. CASE ~call.ask.program /\ Only(t, Do("admit", id))
    <2>1. Rest = <<>> /\ IsSequence(Rest) /\ Head(t).do = "admit" /\ On = id
      BY <1>1, <1>6, Singly DEF t, Only
    <2>2. Admit
      BY <1>1, <2>1, Dispatch DEF t
    <2>3. ASSUME Stores, On \in Here'.held
          PROVE  Stages'
      <3>1. call'.ask = call.ask /\ call'.todo = <<>>
        BY <2>1, <2>3 DEF Stores
      <3>. QED  BY <1>2, <1>6, <2>1, <2>3, <3>1 DEF PutStage
    <2>. QED  BY <1>1, <2>1, <2>2, <2>3, AdmittedOn
  <1>7. CASE /\ call.ask.program
             /\ \A j \in DOMAIN t : \E one \in Ids : t[j] = Do("admit", one)
             /\ \A k \in DOMAIN Table :
                  Table[k] \in Here.held \/ \E j \in DOMAIN t : t[j] = Do("admit", Table[k])
    <2>1. 1 \in DOMAIN t /\ t[1] = Head(t)
      BY <1>1, Unrolled
    <2>2. PICK one \in Ids : Head(t) = Do("admit", one)
      BY <1>7, <2>1
    <2>3. Rest = Tail(t) /\ IsSequence(Rest) /\ Head(t).do = "admit" /\ On = one
      BY <1>1, <2>2, Singly DEF t, Begins
    <2>4. Admit
      BY <1>1, <2>3, Dispatch DEF t
    <2>5. ASSUME Stores, On \in Here'.held
          PROVE  Stages'
      <3>1. call'.ask = call.ask /\ call'.todo = Tail(t) /\ Here.held \subseteq Here'.held
        BY <2>3, <2>5 DEF Stores
      <3>2. \A j \in DOMAIN Tail(t) : \E other \in Ids : Tail(t)[j] = Do("admit", other)
        BY <1>1, <1>7, Unrolled
      <3>3. ASSUME NEW k \in DOMAIN Table, Table[k] \notin Here'.held
            PROVE  \E j \in DOMAIN Tail(t) : Tail(t)[j] = Do("admit", Table[k])
        <4>1. PICK j \in DOMAIN t : t[j] = Do("admit", Table[k])
          BY <1>7, <3>1, <3>3
        <4>2. t[j] # Head(t)
          <5>1. Table[k] # one
            BY <2>3, <2>5, <3>3
          <5>. QED  BY <2>2, <4>1, <5>1 DEF Do
        <4>. QED  BY <1>1, <4>1, <4>2, Unrolled
      <3>4. PutStage(call.todo)'
        BY <1>7, <3>1, <3>2, <3>3, ZenonT(45) DEF PutStage
      <3>. QED  BY <1>2, <3>1, <3>4
    <2>. QED  BY <2>2, <2>3, <2>4, <2>5, AdmittedOn
  <1>8. CASE call.ask.program
    <2>1. Only(t, Do("document", "")) \/ Begins(t, Do("file", "")) \/
          (/\ \A j \in DOMAIN t : \E one \in Ids : t[j] = Do("admit", one)
           /\ \A k \in DOMAIN Table :
                Table[k] \in Here.held \/ \E j \in DOMAIN t : t[j] = Do("admit", Table[k]))
      BY <1>1, <1>8 DEF PutStage
    <2>. QED  BY <1>3, <1>5, <1>7, <1>8, <2>1
  <1>9. CASE ~call.ask.program
    <2>1. \/ /\ Begins(t, Do("tag", "")) /\ Begins(Tail(t), Do("file", ""))
             /\ Only(Tail(Tail(t)), Do("bytes", ""))
          \/ Begins(t, Do("file", "")) \/ Only(t, Do("bytes", "")) \/ Only(t, Do("admit", id))
      BY <1>1, <1>9 DEF PutStage
    <2>. QED  BY <1>3, <1>4, <1>5, <1>6, <1>9, <2>1
  <1>. QED  BY <1>8, <1>9

(* show keeps its stage: every name is left to read or told.               *)
LEMMA ShowGoesOn ==
    ASSUME AtWork, Steps, call.ask.verb = "show"
    PROVE  ShellReports'
  <1>. DEFINE t == call.todo
              fresh == call.got.rows = {} /\ ~call.got.unread
  <1>1. ShowStage(t) /\ IsSequence(t) /\ t # <<>> /\ call.at = "work" /\ call.out \in BOOLEAN
    BY Workable DEF AtWork, ShellReports, Stages, Going
  <1>2. ASSUME call'.ask = call.ask, ShowStage(call.todo)'
        PROVE  Stages'
    BY <1>2 DEF Stages
  <1>3. call'.ask = call.ask => \A rest : ShowEnds(rest)' <=> ShowEnds(rest)
    BY DEF ShowEnds
  <1>4. CallShape(call)
    BY Workable
  <1>. HIDE DEF t
  <1>5. CASE /\ Begins(t, Do("address", "")) /\ Begins(Tail(t), Do("load", ""))
             /\ ShowEnds(Tail(Tail(t))) /\ fresh
    <2>1. Rest = Tail(t) /\ IsSequence(Rest) /\ Head(t).do = "address"
      BY <1>1, <1>5, Singly DEF t
    <2>2. JudgeAddress
      BY <1>1, <2>1, Dispatch DEF t
    <2>3. ASSUME Moves(Rest, FALSE, call.wrote, call.got)
          PROVE  Stages'
      <3>1. call'.ask = call.ask /\ call'.todo = Rest /\ call'.got = call.got
        BY <2>3 DEF Moves, Onward
      <3>. QED  BY <1>2, <1>3, <1>5, <2>1, <3>1 DEF ShowStage
    <2>4. Rest # <<>>
      BY <1>5, <2>1 DEF Begins
    <2>. QED  BY <2>1, <2>2, <2>3, <2>4, Judged DEF JudgeAddress
  <1>6. CASE Begins(t, Do("load", "")) /\ ShowEnds(Tail(t)) /\ fresh
    <2>1. Rest = Tail(t) /\ IsSequence(Rest) /\ Head(t).do = "load"
      BY <1>1, <1>6, Singly DEF t
    <2>2. LoadAsked /\ ~call.out
      BY <1>1, <2>1, Dispatch, Quiet DEF t
    <2>3. /\ Kept
          /\ \/ Stops("broken") \/ Stops("absent") \/ Stops("damaged")
             \/ Moves(Rest, call.out \/ Rest = <<>> \/ call.ask.verb = "show", call.wrote, call.got)
      BY <2>2, LoadAskedDoes
    <2>4. CASE Stops("broken") \/ Stops("absent") \/ Stops("damaged")
      BY <2>2, <2>3, <2>4, RefusedKept
    <2>5. CASE Moves(Rest, call.out \/ Rest = <<>> \/ call.ask.verb = "show", call.wrote, call.got)
      <3>1. (call.out \/ Rest = <<>> \/ call.ask.verb = "show") = TRUE
        OBVIOUS
      <3>2. Moves(Rest, TRUE, call.wrote, call.got)
        BY <2>5, <3>1
      <3>3. call'.ask = call.ask /\ call'.todo = Rest /\ call'.got = call.got
        BY <2>5 DEF Moves, Onward
      <3>4. ShowStage(call.todo)'
        BY <1>3, <1>6, <2>1, <3>3 DEF ShowStage
      <3>5. Stages'
        BY <1>2, <3>3, <3>4
      <3>6. Rest # <<>> => Head(Rest).do = "names"
        <4>1. Rest = <<>> \/ (Begins(Rest, Do("names", "")))
          BY <1>6, <2>1 DEF ShowEnds, Only
        <4>. QED  BY <4>1, Starts
      <3>. QED  BY <2>1, <2>3, <3>2, <3>5, <3>6, Proceeded
    <2>. QED  BY <2>3, <2>4, <2>5
  <1>7. CASE ShowEnds(t) /\ fresh
    <2>1. Only(t, Do("names", "")) /\ ~call.ask.json
      BY <1>1, <1>7 DEF ShowEnds
    <2>2. Rest = <<>> /\ IsSequence(Rest) /\ Head(t).do = "names"
      BY <1>1, <2>1, Singly DEF t, Only
    <2>3. ListNames
      BY <1>1, <2>2, Dispatch DEF t
    <2>4. PICK broken \in BOOLEAN :
            LET rest == IF broken THEN <<>> ELSE Each("said", Here.roots)
            IN  /\ Moves(rest, call.out \/ rest = <<>>, call.wrote, [call.got EXCEPT !.unread = broken])
                /\ broken => call'.faults > 0
      BY <2>3, ListNamesDoes
    <2>. PICK roots : roots = IF broken THEN {} ELSE Here.roots
      OBVIOUS
    <2>. DEFINE rest == IF broken THEN <<>> ELSE Each("said", Here.roots)
                got == [call.got EXCEPT !.unread = broken]
    <2>5. /\ Kept /\ Moves(rest, call.out \/ rest = <<>>, call.wrote, got)
          /\ broken => call'.faults > 0
      BY <2>3, <2>4, ListNamesDoes
    <2>6. /\ IF roots = {} THEN rest = <<>> ELSE Only(rest, Sweep("said", roots))
          /\ IsSequence(rest) /\ (rest # <<>> => Head(rest).do = "said")
      <3>1. rest = Each("said", roots)
        BY DEF Each
      <3>. HIDE DEF rest
      <3>. QED  BY <3>1, Sweeping
    <2>7. got.rows = {} /\ got.unread = broken
      BY <1>4, <1>7 DEF CallShape
    <2>. HIDE DEF rest, got
    <2>8. /\ call'.ask = call.ask /\ call'.todo = rest /\ Here' = Here /\ Stood' = Stood
          /\ call'.got.rows = {} /\ call'.got.unread = broken
      BY <2>5, <2>7, SameStore DEF Moves, Kept
    <2>9. NamesSoFar(roots)'
      <3>1. call'.faults = 0 => ~broken
        BY <2>5
      <3>2. Stood.roots \subseteq Here.roots
        BY PlaneKept
      <3>. QED  BY <2>5, <2>8, <3>1, <3>2 DEF NamesSoFar
    <2>10. roots \in SUBSET Ids
      BY PlaneKept DEF Planes
    <2>11. Stages'
      <3>1. ShowStage(call.todo)'
        BY <2>1, <2>6, <2>8, <2>9, <2>10 DEF ShowStage
      <3>. QED  BY <1>2, <2>8, <3>1
    <2>12. (call.out \/ rest = <<>>) \in BOOLEAN
      OBVIOUS
    <2>. QED  BY <2>5, <2>6, <2>11, <2>12, Proceeded
  <1>8. ASSUME NEW roots \in SUBSET Ids,
               IF roots = {} THEN t = <<>> ELSE Only(t, Sweep("said", roots)),
               ~call.ask.json, NamesSoFar(roots)
        PROVE  ShellReports'
    <2>1. roots # {} /\ Only(t, Sweep("said", roots)) /\ roots \subseteq {Order[k] : k \in DOMAIN Order}
      BY <1>1, <1>8, ShellAssumption
    <2>. PICK left : left = roots \ {On}
      OBVIOUS
    <2>2. /\ On \in roots /\ Head(t).do = "said" /\ IsSequence(Rest)
          /\ IF left = {} THEN Rest = <<>> ELSE Only(Rest, Sweep("said", left))
      BY <1>1, <2>1, Swept DEF t, Only
    <2>3. ReadAnnotation
      BY <1>1, <2>2, Dispatch DEF t
    <2>4. PICK broken \in BOOLEAN :
            LET rows == IF ~broken /\ Load(On) = "ok" /\ On \in DOMAIN About
                           /\ About[On] = call.ask.id
                        THEN call.got.rows \cup {On} ELSE call.got.rows
            IN  /\ Moves(Rest, call.out \/ Rest = <<>>, call.wrote, [call.got EXCEPT !.rows = rows])
                /\ broken => call'.faults > 0
      BY <2>3, ReadAnnotationDoes
    <2>. DEFINE rows == IF ~broken /\ Load(On) = "ok" /\ On \in DOMAIN About
                           /\ About[On] = call.ask.id
                        THEN call.got.rows \cup {On} ELSE call.got.rows
                got == [call.got EXCEPT !.rows = rows]
    <2>5. /\ Kept /\ Moves(Rest, call.out \/ Rest = <<>>, call.wrote, got)
          /\ broken => call'.faults > 0
      BY <2>3, <2>4, ReadAnnotationDoes
    <2>6. got.rows = rows /\ got.unread = call.got.unread
      BY <1>4 DEF CallShape
    <2>. HIDE DEF got
    <2>7. /\ call'.ask = call.ask /\ call'.todo = Rest /\ Here' = Here /\ Stood' = Stood
          /\ call'.got.rows = rows /\ call'.got.unread = call.got.unread
          /\ call'.faults \in Nat /\ call'.faults >= call.faults
      BY <2>5, <2>6, SameStore DEF Moves, Kept, Onward
    <2>8. Subjects' = Subjects
      BY <2>7 DEF Subjects
    <2>9. call.faults \in Nat /\ Stood.held \subseteq Here.held
      BY Workable, PlaneKept
    <2>10. rows \subseteq Subjects \cap Here.roots \cap Here.held
      BY <1>8, <2>2 DEF NamesSoFar, Subjects, Load
    <2>11. ASSUME call'.faults = 0
           PROVE  (Subjects \cap Stood.roots \cap Stood.held) \ Here.damaged \subseteq rows \cup left
      <3>1. call.faults = 0 /\ ~broken
        BY <2>5, <2>7, <2>9, <2>11
      <3>2. On \in (Subjects \cap Stood.roots \cap Stood.held) \ Here.damaged => On \in rows
        BY <2>9, <3>1 DEF Subjects, Load
      <3>3. call.got.rows \subseteq rows
        OBVIOUS
      <3>. QED  BY <1>8, <3>1, <3>2, <3>3 DEF NamesSoFar
    <2>. HIDE DEF rows
    <2>12. NamesSoFar(left)'
      BY <1>8, <2>7, <2>8, <2>9, <2>10, <2>11 DEF NamesSoFar
    <2>13. left \in SUBSET Ids
      OBVIOUS
    <2>14. Stages'
      <3>1. ShowStage(call.todo)'
        BY <1>8, <2>2, <2>7, <2>12, <2>13 DEF ShowStage
      <3>. QED  BY <1>2, <2>7, <3>1
    <2>15. Rest # <<>> => Head(Rest).do = "said"
      BY <2>2, Starts DEF Only
    <2>16. (call.out \/ Rest = <<>>) \in BOOLEAN
      OBVIOUS
    <2>. QED  BY <2>2, <2>5, <2>14, <2>15, <2>16, Proceeded
  <1>. QED  BY <1>1, <1>5, <1>6, <1>7, <1>8 DEF ShowStage

(* A walk begins at its root, with nothing read.                           *)
LEMMA WalkBegun ==
    ASSUME AtWork, BeginAudit, NEW root \in Ids, On = root
    PROVE  /\ Kept /\ ~call.got.walking /\ Walked(root)'
           /\ \E got : Walks(got) /\ got.rows = call.got.rows /\ got.walking
  <1>. DEFINE got == [call.got EXCEPT !.walking = TRUE, !.next = {On}, !.seen = {}, !.fails = "ok"]
  <1>1. Kept /\ ~call.got.walking /\ Walks(got)
    BY BeginAuditDoes
  <1>2. /\ got.walking = TRUE /\ got.next = {root} /\ got.seen = {} /\ got.fails = "ok"
        /\ got.rows = call.got.rows
    BY Workable DEF CallShape
  <1>. HIDE DEF got
  <1>3. /\ call'.got.walking = TRUE /\ call'.got.next = {root} /\ call'.got.seen = {}
        /\ call'.got.fails = "ok"
    BY <1>1, <1>2 DEF Walks
  <1>4. Walked(root)'
    BY <1>3 DEF Walked
  <1>. QED  BY <1>1, <1>2, <1>4

(* Reading a node keeps what is known of the walk.                         *)
LEMMA WalkKept ==
    ASSUME AtWork, Visit, NEW root \in Ids, Walked(root)
    PROVE  /\ Kept /\ call.got.walking /\ Walked(root)'
           /\ \E got : Walks(got) /\ got.rows = call.got.rows /\ got.walking
  <1>1. Kept /\ call.got.walking
    BY VisitDoes
  <1>2. PICK id \in call.got.next :
                LET seen_ == call.got.seen \cup {id}
                IN  \/ /\ Load(id) = "ok"
                       /\ Walks([call.got EXCEPT !.seen = seen_,
                                                 !.next = (call.got.next \cup Refs[id]) \ seen_])
                    \/ \E verdict \in {"broken", "absent", "damaged"} :
                         /\ Walks([call.got EXCEPT !.next = {}, !.fails = verdict])
                         /\ IF verdict = "broken" THEN call'.faults > 0 ELSE Load(id) = verdict
    BY VisitDoes
  <1>3. /\ call.got.seen \cup call.got.next \subseteq Ids
        /\ \A ids \in SUBSET Ids : root \in ids /\ Closed(ids) =>
             call.got.seen \cup call.got.next \subseteq ids
        /\ call.got.seen \subseteq Here.held
        /\ call.got.seen \cap Stood.damaged = {}
        /\ call.got.fails = "ok"
        /\ root \in call.got.seen \cup call.got.next
        /\ \A one \in call.got.seen : Refs[one] \subseteq call.got.seen \cup call.got.next
    BY <1>1, <1>2 DEF Walked
  <1>4. CallShape(call) /\ call.faults \in Nat
    BY Workable
  <1>5. Refs \in [Ids -> SUBSET Ids] /\ id \in Ids
    BY <1>3, ShellAssumption
  <1>6. /\ Stood.held \subseteq Here.held /\ Stood.damaged \subseteq Here.damaged
    BY PlaneKept
  <1>7. CASE /\ Load(id) = "ok"
             /\ Walks([call.got EXCEPT !.seen = call.got.seen \cup {id},
                          !.next = (call.got.next \cup Refs[id]) \ (call.got.seen \cup {id})])
    <2>. DEFINE seen_ == call.got.seen \cup {id}
                next_ == (call.got.next \cup Refs[id]) \ seen_
                got   == [call.got EXCEPT !.seen = seen_, !.next = next_]
    <2>1. /\ got.seen = seen_ /\ got.next = next_ /\ got.fails = call.got.fails
          /\ got.walking = call.got.walking /\ got.rows = call.got.rows
      BY <1>4 DEF CallShape
    <2>2. Walks(got)
      BY <1>7
    <2>. HIDE DEF got
    <2>3. \E one : Walks(one) /\ one.rows = call.got.rows /\ one.walking
      BY <1>1, <2>1, <2>2
    <2>4. /\ call'.got.seen = seen_ /\ call'.got.next = next_ /\ call'.got.fails = "ok"
          /\ Here' = Here /\ Stood' = Stood
      BY <1>1, <1>3, <2>1, <2>2, SameStore DEF Walks, Kept
    <2>5. id \in Here.held /\ id \notin Here.damaged
      BY <1>7 DEF Load
    <2>6. seen_ \cup next_ \subseteq Ids
      BY <1>3, <1>5
    <2>7. ASSUME NEW ids \in SUBSET Ids, root \in ids, Closed(ids)
          PROVE  seen_ \cup next_ \subseteq ids
      <3>1. id \in ids /\ call.got.seen \cup call.got.next \subseteq ids
        BY <1>3, <2>7
      <3>2. Refs[id] \subseteq ids
        BY <2>7, <3>1 DEF Closed
      <3>. QED  BY <3>1, <3>2
    <2>8. seen_ \subseteq Here.held /\ seen_ \cap Stood.damaged = {}
      BY <1>3, <1>6, <2>5
    <2>9. root \in seen_ \cup next_ /\ \A one \in seen_ : Refs[one] \subseteq seen_ \cup next_
      BY <1>3
    <2>. HIDE DEF seen_, next_
    <2>10. Walked(root)'
      BY <2>4, <2>6, <2>7, <2>8, <2>9 DEF Walked, Closed
    <2>. QED  BY <1>1, <2>3, <2>10
  <1>8. ASSUME NEW verdict \in {"broken", "absent", "damaged"},
               Walks([call.got EXCEPT !.next = {}, !.fails = verdict]),
               IF verdict = "broken" THEN call'.faults > 0 ELSE Load(id) = verdict
        PROVE  /\ Walked(root)'
               /\ \E got : Walks(got) /\ got.rows = call.got.rows /\ got.walking
    <2>. DEFINE got == [call.got EXCEPT !.next = {}, !.fails = verdict]
    <2>1. /\ got.seen = call.got.seen /\ got.next = {} /\ got.fails = verdict
          /\ got.walking = call.got.walking /\ got.rows = call.got.rows
      BY <1>4 DEF CallShape
    <2>2. Walks(got)
      BY <1>8
    <2>. HIDE DEF got
    <2>3. \E one : Walks(one) /\ one.rows = call.got.rows /\ one.walking
      BY <1>1, <2>1, <2>2
    <2>4. /\ call'.got.seen = call.got.seen /\ call'.got.next = {} /\ call'.got.fails = verdict
          /\ Here' = Here /\ Stood' = Stood
      BY <1>1, <2>1, <2>2, SameStore DEF Walks, Kept
    <2>5. id \in Below(root)
      BY <1>2, <1>3, <1>5 DEF Below
    <2>6. VerdictTrue(Row(root, verdict, 0), Below(root), Stood, Here)'
      <3>1. /\ verdict = "damaged" => id \in Here.damaged
            /\ verdict = "absent" => id \notin Here.held
        BY <1>8 DEF Load
      <3>2. Row(root, verdict, 0).verdict = verdict
        BY DEF Row
      <3>. QED  BY <1>6, <1>8, <2>4, <2>5, <3>1, <3>2 DEF VerdictTrue, Row, Below, Closed
    <2>7. Walked(root)'
      BY <1>3, <2>4, <2>6 DEF Walked, Closed
    <2>. QED  BY <2>3, <2>7
  <1>. QED  BY <1>1, <1>2, <1>7, <1>8

(* A walk that is over has read all that lies below its root, or the row   *)
(* it ends in is true.                                                     *)
LEMMA WalkEnds ==
    ASSUME AtWork, NEW root \in Ids, Walked(root), call.got.walking, call.got.next = {}
    PROVE  LET row == Row(root, call.got.fails, Cardinality(call.got.seen))
           IN  /\ VerdictTrue(row, Below(root), Stood, Here)
               /\ row.verdict = "ok" => row.nodes = Cardinality(Below(root))
  <1>. DEFINE row == Row(root, call.got.fails, Cardinality(call.got.seen))
  <1>1. row.verdict = call.got.fails /\ row.nodes = Cardinality(call.got.seen)
    BY DEF Row
  <1>2. CASE call.got.fails = "ok"
    <2>1. /\ call.got.seen \subseteq Ids /\ root \in call.got.seen
          /\ \A ids \in SUBSET Ids : root \in ids /\ Closed(ids) => call.got.seen \subseteq ids
          /\ \A id \in call.got.seen : Refs[id] \subseteq call.got.seen
          /\ call.got.seen \subseteq Here.held /\ call.got.seen \cap Stood.damaged = {}
      BY <1>2 DEF Walked
    <2>2. Closed(call.got.seen)
      BY <2>1 DEF Closed
    <2>3. call.got.seen = Below(root)
      BY <2>1, <2>2 DEF Below
    <2>. HIDE DEF row
    <2>. QED  BY <1>1, <1>2, <2>1, <2>3 DEF VerdictTrue, row
  <1>3. CASE call.got.fails # "ok"
    <2>1. VerdictTrue(Row(root, call.got.fails, 0), Below(root), Stood, Here)
      BY <1>3 DEF Walked
    <2>2. Row(root, call.got.fails, 0).verdict = call.got.fails
      BY DEF Row
    <2>. HIDE DEF row
    <2>. QED  BY <1>1, <1>3, <2>1, <2>2 DEF VerdictTrue, row
  <1>. QED  BY <1>2, <1>3

(* What a row says of a store stays true as the store gains nodes, damage  *)
(* and roots, and as faults are counted.                                   *)
LEMMA RowLasts ==
    ASSUME NEW row, RowTrue(row), call'.ask = call.ask, Stood' = Stood,
           Here.held \subseteq Here'.held, Here.damaged \subseteq Here'.damaged,
           call.faults \in Nat, call'.faults \in Nat, call'.faults >= call.faults
    PROVE  RowTrue(row)'
  <1>1. \A id : Below(id)' = Below(id)
    BY DEF Below, Closed
  <1>2. ASSUME NEW over, VerdictTrue(row, over, Stood, Here)
        PROVE  VerdictTrue(row, over, Stood, Here)'
    BY <1>2 DEF VerdictTrue
  <1>3. CASE call.ask.verb = "ls"
    <2>1. VerdictTrue(row, {row.id}, Stood, Here)
      BY <1>3 DEF RowTrue
    <2>2. VerdictTrue(row, {row.id}, Stood, Here)'
      BY <1>2, <2>1
    <2>. QED  BY <1>3, <2>2 DEF RowTrue
  <1>4. CASE call.ask.verb # "ls"
    <2>1. /\ VerdictTrue(row, Below(row.id), Stood, Here)
          /\ row.verdict = "ok" => row.nodes = Cardinality(Below(row.id))
      BY <1>4 DEF RowTrue
    <2>. PICK over : over = Below(row.id)
      OBVIOUS
    <2>2. VerdictTrue(row, over, Stood, Here)'
      BY <1>2, <2>1
    <2>3. VerdictTrue(row, Below(row.id), Stood, Here)'
      BY <1>1, <2>2 DEF VerdictTrue
    <2>. QED  BY <1>1, <1>4, <2>1, <2>3 DEF RowTrue
  <1>. QED  BY <1>3, <1>4

(* A root that got its row is left no longer.                              *)
LEMMA RowAdded ==
    ASSUME AtWork, NEW roots, RowsSoFar(roots), NEW root \in roots, NEW row, row.id = root,
           call'.got.rows = call.got.rows \cup {row}, Here' = Here, Stood' = Stood,
           call'.ask = call.ask, call'.faults \in Nat, call'.faults >= call.faults,
           RowTrue(row)', NEW left, left = roots \ {root}
    PROVE  RowsSoFar(left)'
  <1>1. \A one \in call.got.rows : RowTrue(one)'
    BY Workable, RowLasts DEF RowsSoFar
  <1>2. ListedRoots' = ListedRoots \cup {root}
    BY DEF ListedRoots
  <1>3. \A one \in call.got.rows : one.id # root
    BY DEF RowsSoFar, ListedRoots
  <1>4. \A one, twin \in call'.got.rows : one.id = twin.id => one = twin
    BY <1>3 DEF RowsSoFar
  <1>. QED  BY <1>1, <1>2, <1>4 DEF RowsSoFar

(* ls and verify of every root keep their stage.                           *)
LEMMA ListGoesOn ==
    ASSUME AtWork, Steps,
           call.ask.verb = "ls" \/ (call.ask.verb = "verify" /\ call.ask.id = "every")
    PROVE  ShellReports'
  <1>. DEFINE t == call.todo
  <1>1. PICK of : of = IF call.ask.verb = "ls" THEN "row" ELSE "audit"
    OBVIOUS
  <1>2. ListStage(t) /\ IsSequence(t) /\ t # <<>> /\ call.at = "work" /\ CallShape(call)
    BY Workable DEF AtWork, ShellReports, Stages, Going
  <1>3. ASSUME call'.ask = call.ask, ListStage(call.todo)'
        PROVE  Stages'
    BY <1>3 DEF Stages
  <1>4. Stood.roots \subseteq Here.roots /\ Here.roots \subseteq Ids /\ call.faults \in Nat
    BY PlaneKept, Workable DEF Planes
  <1>. HIDE DEF t
  <1>5. CASE Only(t, Do("listing", of)) /\ call.got.rows = {} /\ ~call.got.walking
    <2>1. Rest = <<>> /\ Head(t).do = "listing" /\ On = of
      BY <1>2, <1>5, Singly DEF t, Only
    <2>2. ListEvery /\ ~call.out
      BY <1>2, <2>1, Dispatch, Quiet DEF t
    <2>3. PICK roots : roots = Here.roots
      OBVIOUS
    <2>. DEFINE rest == Each(of, roots)
    <2>4. /\ Kept
          /\ \/ Stops("unexpected") /\ call'.faults > 0
             \/ Moves(rest, call.out \/ rest = <<>>, call.wrote, call.got)
      BY <2>1, <2>2, <2>3, ListEveryDoes
    <2>5. CASE Stops("unexpected") /\ call'.faults > 0
      BY <2>2, <2>4, <2>5, RefusedKept
    <2>6. CASE Moves(rest, call.out \/ rest = <<>>, call.wrote, call.got)
      <3>1. /\ IsSequence(rest)
            /\ IF roots = {} THEN rest = <<>> ELSE Only(rest, Sweep(of, roots))
        BY Sweeping
      <3>. HIDE DEF rest
      <3>2. call'.ask = call.ask /\ call'.todo = rest /\ call'.got = call.got
            /\ Here' = Here /\ Stood' = Stood
        BY <2>4, <2>6, SameStore DEF Moves, Kept
      <3>3. RowsSoFar(roots)'
        BY <1>4, <1>5, <2>3, <3>2 DEF RowsSoFar, ListedRoots
      <3>4. ListStage(call.todo)'
        BY <1>1, <1>4, <1>5, <2>3, <3>1, <3>2, <3>3 DEF ListStage, Walked
      <3>5. Stages'
        BY <1>3, <3>2, <3>4
      <3>6. (call.out \/ rest = <<>>) \in BOOLEAN /\ (rest # <<>> => ~(call.out \/ rest = <<>>))
        BY <2>2
      <3>. QED  BY <2>4, <2>6, <3>1, <3>5, <3>6, Proceeded
    <2>. QED  BY <2>4, <2>5, <2>6
  <1>6. ASSUME NEW roots \in SUBSET Ids,
               IF roots = {} THEN t = <<>> ELSE Only(t, Sweep(of, roots)),
               RowsSoFar(roots),
               call.got.walking => call.ask.verb = "verify" /\ roots # {},
               roots # {} /\ call.ask.verb = "verify" => Walked(On)
        PROVE  ShellReports'
    <2>1. roots # {} /\ Only(t, Sweep(of, roots)) /\ roots \subseteq {Order[k] : k \in DOMAIN Order}
      BY <1>2, <1>6, ShellAssumption
    <2>2. PICK root, left : root = On /\ left = roots \ {root}
      OBVIOUS
    <2>3. /\ root \in roots /\ root \in Ids /\ Head(t).do = of /\ IsSequence(Rest)
          /\ IF left = {} THEN Rest = <<>> ELSE Only(Rest, Sweep(of, left))
          /\ left \in SUBSET Ids
      BY <1>2, <2>1, <2>2, Swept DEF t, Only
    <2>4. Rest # <<>> => Head(Rest).do = of
      BY <2>3, Starts DEF Only
    <2>5. ASSUME NEW got, Kept, Moves(Rest, TRUE, call.wrote, got), RowsSoFar(left)', ~got.walking
          PROVE  ShellReports'
      <3>1. call'.ask = call.ask /\ call'.todo = Rest /\ call'.got = got
        BY <2>5 DEF Moves, Onward
      <3>2. ~call'.got.walking /\ Walked(On)'
        BY <2>5, <3>1 DEF Walked
      <3>3. ListStage(call.todo)'
        BY <1>1, <2>3, <2>5, <3>1, <3>2 DEF ListStage
      <3>4. Stages'
        BY <1>3, <3>1, <3>3
      <3>5. Rest # <<>> => \/ Head(Rest).do \in {"names", "said", "row"}
                           \/ Head(Rest).do = "audit" /\ call.ask.id = "every"
        BY <1>1, <2>4
      <3>. QED  BY <2>3, <2>5, <3>4, <3>5, Proceeded
    <2>6. CASE call.ask.verb = "ls"
      <3>1. LoadRow
        BY <1>1, <1>2, <2>3, <2>6, Dispatch DEF t
      <3>2. PICK broken \in BOOLEAN :
                LET row == Row(On, IF broken THEN "broken" ELSE Load(On), Cardinality(Refs[On]))
                IN  /\ Moves(Rest, TRUE, call.wrote,
                             [call.got EXCEPT !.rows = call.got.rows \cup {row}])
                    /\ broken => call'.faults > 0
        BY <3>1, LoadRowDoes
      <3>3. PICK row : row = Row(On, IF broken THEN "broken" ELSE Load(On), Cardinality(Refs[On]))
        OBVIOUS
      <3>. DEFINE rows == call.got.rows \cup {row}
                  got == [call.got EXCEPT !.rows = rows]
      <3>4. Kept /\ Moves(Rest, TRUE, call.wrote, got) /\ (broken => call'.faults > 0)
        BY <3>1, <3>2, <3>3, LoadRowDoes
      <3>5. got.rows = rows /\ got.walking = call.got.walking
        BY <1>2 DEF CallShape
      <3>. HIDE DEF got
      <3>6. /\ call'.ask = call.ask /\ call'.got.rows = rows /\ Here' = Here /\ Stood' = Stood
            /\ call'.faults \in Nat /\ call'.faults >= call.faults
        BY <3>4, <3>5, SameStore DEF Moves, Kept, Onward
      <3>7. RowTrue(row)'
        <4>1. row.id = root /\ row.verdict = IF broken THEN "broken" ELSE Load(root)
          BY <2>2, <3>3 DEF Row
        <4>2. Stood.held \subseteq Here.held /\ Stood.damaged \subseteq Here.damaged
          BY PlaneKept
        <4>3. VerdictTrue(row, {row.id}, Stood, Here)'
          BY <3>4, <3>6, <4>1, <4>2 DEF VerdictTrue, Load
        <4>. QED  BY <2>6, <3>6, <4>3 DEF RowTrue
      <3>8. row.id = root
        BY <2>2, <3>3 DEF Row
      <3>9. RowsSoFar(left)'
        BY <1>6, <2>2, <2>3, <3>6, <3>7, <3>8, RowAdded
      <3>10. ~got.walking
        BY <1>6, <2>6, <3>5
      <3>. QED  BY <2>5, <3>4, <3>9, <3>10
    <2>7. CASE call.ask.verb = "verify"
      <3>1. BeginAudit \/ Visit \/ Verdict
        BY <1>1, <1>2, <2>3, <2>7, Dispatch DEF t
      <3>2. Walked(root)
        BY <1>6, <2>1, <2>2, <2>7
      <3>3. ASSUME NEW got, Kept, Walks(got), got.rows = call.got.rows, got.walking, Walked(root)'
            PROVE  ShellReports'
        <4>1. /\ call'.ask = call.ask /\ call'.todo = call.todo /\ call'.got = got
              /\ Here' = Here /\ Stood' = Stood /\ call'.faults \in Nat /\ call'.faults >= call.faults
          BY <3>3, SameStore DEF Walks, Kept, Onward
        <4>2. On' = root
          BY <2>2, <4>1 DEF On, Left, Precedes
        <4>3. RowsSoFar(roots)'
          <5>1. \A row \in call.got.rows : RowTrue(row)'
            BY <1>4, <1>6, <4>1, RowLasts DEF RowsSoFar
          <5>. QED  BY <1>6, <3>3, <4>1, <5>1 DEF RowsSoFar, ListedRoots
        <4>4. Walked(On)'
          BY <3>3, <4>2 DEF Walked
        <4>5. ListStage(call.todo)'
          BY <1>1, <1>6, <2>1, <2>7, <4>1, <4>3, <4>4 DEF ListStage, t
        <4>6. Stages'
          BY <1>3, <4>1, <4>5
        <4>. QED  BY <3>3, <4>6, WalkedOn
      <3>4. CASE BeginAudit
        BY <2>2, <2>3, <3>3, <3>4, WalkBegun
      <3>5. CASE Visit
        BY <2>3, <3>2, <3>3, <3>5, WalkKept
      <3>6. CASE Verdict
        <4>1. PICK row : row = Row(root, call.got.fails, Cardinality(call.got.seen))
          OBVIOUS
        <4>. DEFINE rows == call.got.rows \cup {row}
                    got == [call.got EXCEPT !.walking = FALSE, !.rows = rows]
        <4>2. call.ask.id = "every"
          BY <2>7
        <4>3. /\ Kept /\ call.got.walking /\ call.got.next = {}
              /\ Moves(Rest, TRUE, call.wrote, got)
          BY <2>2, <3>6, <4>1, <4>2, VerdictDoes
        <4>4. got.rows = rows /\ ~got.walking
          BY <1>2 DEF CallShape
        <4>. HIDE DEF got
        <4>5. /\ call'.ask = call.ask /\ call'.got.rows = rows /\ Here' = Here /\ Stood' = Stood
              /\ call'.faults \in Nat /\ call'.faults >= call.faults
          BY <4>3, <4>4, SameStore DEF Moves, Kept, Onward
        <4>6. row.id = root
          BY <4>1 DEF Row
        <4>7. /\ VerdictTrue(row, Below(root), Stood, Here)
              /\ row.verdict = "ok" => row.nodes = Cardinality(Below(root))
          BY <2>3, <3>2, <4>1, <4>3, WalkEnds
        <4>8. RowTrue(row)
          BY <2>7, <4>6, <4>7 DEF RowTrue
        <4>9. RowTrue(row)'
          BY <1>4, <4>5, <4>8, RowLasts
        <4>10. RowsSoFar(left)'
          BY <1>6, <2>2, <2>3, <4>5, <4>6, <4>9, RowAdded
        <4>. QED  BY <2>5, <4>3, <4>4, <4>10
      <3>. QED  BY <3>1, <3>4, <3>5, <3>6
    <2>. QED  BY <2>6, <2>7
  <1>7. \/ Only(t, Do("listing", of)) /\ call.got.rows = {} /\ ~call.got.walking
        \/ \E roots \in SUBSET Ids :
             /\ IF roots = {} THEN t = <<>> ELSE Only(t, Sweep(of, roots))
             /\ RowsSoFar(roots)
             /\ call.got.walking => call.ask.verb = "verify" /\ roots # {}
             /\ roots # {} /\ call.ask.verb = "verify" => Walked(On)
    BY <1>1, <1>2 DEF ListStage
  <1>. QED  BY <1>5, <1>6, <1>7

(* verify of one root keeps its stage.                                     *)
LEMMA AuditGoesOn ==
    ASSUME AtWork, Steps, call.ask.verb = "verify", call.ask.id # "every"
    PROVE  ShellReports'
  <1>. DEFINE t == call.todo
  <1>1. PICK root : root = call.ask.id
    OBVIOUS
  <1>2. /\ AuditStage(t) /\ IsSequence(t) /\ t # <<>> /\ call.at = "work" /\ CallShape(call)
        /\ call.faults \in Nat
    BY Workable DEF AtWork, ShellReports, Stages, Going
  <1>3. ASSUME call'.ask = call.ask, AuditStage(call.todo)'
        PROVE  Stages'
    BY <1>3 DEF Stages
  <1>. HIDE DEF t
  <1>4. CASE /\ Begins(t, Do("address", "")) /\ Only(Tail(t), Do("audit", root))
             /\ call.got.rows = {} /\ ~call.got.walking
    <2>1. Rest = Tail(t) /\ IsSequence(Rest) /\ Head(t).do = "address"
      BY <1>2, <1>4, Singly DEF t
    <2>2. JudgeAddress
      BY <1>2, <2>1, Dispatch DEF t
    <2>3. Rest # <<>>
      BY <1>4, <2>1 DEF Begins, Only
    <2>4. ASSUME call.ask.id # "typo", Moves(Rest, FALSE, call.wrote, call.got)
          PROVE  Stages'
      <3>1. call'.ask = call.ask /\ call'.todo = Rest /\ call'.got = call.got
        BY <2>4 DEF Moves, Onward
      <3>2. call.ask.id \in Ids
        BY <2>4, Workable, ShellAssumption DEF CommandLines
      <3>3. AuditStage(call.todo)'
        BY <1>1, <1>4, <2>1, <2>3, <3>1, <3>2 DEF AuditStage, Walked
      <3>. QED  BY <1>3, <3>1, <3>3
    <2>. QED  BY <2>1, <2>2, <2>3, <2>4, Judged DEF JudgeAddress
  <1>5. CASE /\ Only(t, Do("audit", root)) /\ call.got.rows = {} /\ root \in Ids /\ Walked(root)
    <2>1. Rest = <<>> /\ IsSequence(Rest) /\ Head(t).do = "audit" /\ On = root
      BY <1>2, <1>5, Singly DEF t, Only
    <2>2. (BeginAudit \/ Visit \/ Verdict) /\ ~call.out
      BY <1>2, <2>1, Dispatch, Quiet DEF t
    <2>3. ASSUME NEW got, Kept, Walks(got), got.rows = call.got.rows, got.walking, Walked(root)'
          PROVE  ShellReports'
      <3>1. call'.ask = call.ask /\ call'.todo = call.todo /\ call'.got = got
        BY <2>3, SameStore DEF Walks, Kept, Onward
      <3>2. AuditStage(call.todo)'
        BY <1>1, <1>2, <1>5, <2>3, <3>1 DEF AuditStage, t
      <3>3. Stages'
        BY <1>3, <3>1, <3>2
      <3>. QED  BY <2>3, <3>3, WalkedOn
    <2>4. CASE BeginAudit
      BY <1>5, <2>1, <2>3, <2>4, WalkBegun
    <2>5. CASE Visit
      BY <1>5, <2>3, <2>5, WalkKept
    <2>6. CASE Verdict
      <3>1. PICK row : row = Row(root, call.got.fails, Cardinality(call.got.seen))
        OBVIOUS
      <3>. DEFINE rows == call.got.rows \cup {row}
                  got == [call.got EXCEPT !.walking = FALSE, !.rows = rows]
      <3>2. /\ Kept /\ call.got.walking /\ call.got.next = {}
            /\ \/ Stops(call.got.fails) /\ call.got.fails # "ok"
               \/ call.got.fails = "ok" /\ Moves(Rest, TRUE, call.wrote, got)
        BY <2>1, <2>6, <3>1, VerdictDoes
      <3>3. CASE Stops(call.got.fails) /\ call.got.fails # "ok"
        <4>1. call.got.fails # "unexpected"
          BY DEF AtWork, ShellInv, ShellTyped, Verdicts
        <4>2. PICK why : why = call.got.fails
          OBVIOUS
        <4>. QED  BY <2>2, <3>2, <3>3, <4>1, <4>2, RefusedKept
      <3>4. CASE call.got.fails = "ok" /\ Moves(Rest, TRUE, call.wrote, got)
        <4>1. got.rows = rows /\ ~got.walking
          BY <1>2 DEF CallShape
        <4>. HIDE DEF got
        <4>2. /\ call'.ask = call.ask /\ call'.got = got /\ call'.todo = Rest
              /\ Here' = Here /\ Stood' = Stood /\ call'.faults \in Nat /\ call'.faults >= call.faults
          BY <3>2, <3>4, SameStore DEF Moves, Kept, Onward
        <4>3. row.id = root /\ row.verdict = "ok"
          BY <3>1, <3>4 DEF Row
        <4>4. /\ VerdictTrue(row, Below(root), Stood, Here)
              /\ row.verdict = "ok" => row.nodes = Cardinality(Below(root))
          BY <1>5, <3>1, <3>2, WalkEnds
        <4>5. RowTrue(row)
          BY <4>3, <4>4 DEF RowTrue
        <4>6. RowTrue(row)'
          <5>1. Here.held \subseteq Here'.held /\ Here.damaged \subseteq Here'.damaged
            BY <4>2
          <5>. QED  BY <1>2, <4>2, <4>5, <5>1, RowLasts
        <4>7. row \in call'.got.rows
          BY <4>1, <4>2
        <4>8. AuditStage(call.todo)'
          BY <1>1, <2>1, <4>1, <4>2, <4>3, <4>6, <4>7 DEF AuditStage
        <4>9. Stages'
          BY <1>3, <4>2, <4>8
        <4>. QED  BY <2>1, <3>2, <3>4, <4>9, Proceeded
      <3>. QED  BY <3>2, <3>3, <3>4
    <2>. QED  BY <2>2, <2>4, <2>5, <2>6
  <1>. QED  BY <1>1, <1>2, <1>4, <1>5 DEF AuditStage

(* What lies in one directory.                                             *)
Within(ids, fan) == {id \in ids : Fan[id] = fan}

(* Leaving a directory adds what lies in it to what is outside.            *)
LEMMA OneLeft ==
    ASSUME NEW ids, ids \subseteq Ids, NEW fans, NEW fan \in fans
    PROVE  /\ Cardinality(Outside(ids, fans \ {fan})) = Cardinality(Outside(ids, fans)) + Cardinality(Within(ids, fan))
           /\ Cardinality(Within(ids, fan)) \in Nat /\ Cardinality(Outside(ids, fans)) \in Nat
           /\ Cardinality(Outside(ids, fans \ {fan})) \in Nat
  <1>. DEFINE S == Outside(ids, fans)
              own == Within(ids, fan)
  <1>1. /\ IsFiniteSet(S) /\ IsFiniteSet(own) /\ Cardinality(S) \in Nat /\ Cardinality(own) \in Nat
    <2>1. S \subseteq ids /\ own \subseteq ids
      BY DEF Outside, Within
    <2>. HIDE DEF S, own
    <2>. QED  BY <2>1, Counting
  <1>2. Outside(ids, fans \ {fan}) = S \cup own /\ S \cap own = {}
    BY DEF Outside, Within
  <1>. HIDE DEF S, own
  <1>3. Cardinality(S \cup own) = Cardinality(S) + Cardinality(own) - Cardinality(S \cap own)
    BY <1>1, FS_Union
  <1>4. Cardinality(S \cap own) = 0
    BY <1>2, FS_EmptySet
  <1>5. Cardinality(S \cup own) = Cardinality(S) + Cardinality(own) /\ Cardinality(S) + Cardinality(own) \in Nat
    BY <1>1, <1>3, <1>4
  <1>6. Cardinality(Outside(ids, fans \ {fan})) = Cardinality(S) + Cardinality(own)
    BY <1>2, <1>5
  <1>7. S = Outside(ids, fans) /\ own = Within(ids, fan)
    BY DEF S, own
  <1>. QED  BY <1>1, <1>5, <1>6, <1>7

(* The lab an invocation reports on stays where it is.                     *)
LEMMA LabStays ==
    ASSUME UNCHANGED papers, call'.place = call.place
    PROVE  LabFor' = LabFor /\ (\A start : FindLab(start)' = FindLab(start))
  BY DEF LabFor, FindLab, Marked

(* The directory a listing is at is there to be listed.                    *)
LEMMA FansListed ==
    /\ \A fans \in SUBSET AllFans : fans \subseteq {Order[k] : k \in DOMAIN Order}
    /\ Fans \subseteq AllFans
  <1>1. AllFans \subseteq {Order[k] : k \in DOMAIN Order}
    BY ShellAssumption DEF AllFans
  <1>. QED  BY <1>1 DEF Fans, AllFans

(* status and doctor are at their next stage when what is left of them is. *)
LEMMA ReportStaged ==
    ASSUME call.ask.verb \in {"status", "doctor"}, NEW more,
           call'.ask = call.ask, call'.todo = more, ReportStage(more)'
    PROVE  Stages'
  <1>1. PaperStage(more)' => PaperStage(call.todo)'
    BY DEF PaperStage
  <1>2. ReportStage(call.todo)'
    BY <1>1 DEF ReportStage
  <1>. QED  BY <1>2 DEF Stages

(* A count that one more directory is added to, or that it fails.          *)
LEMMA Summing ==
    ASSUME NEW above \in Nat, NEW below \in Nat, NEW own \in Nat, NEW then \in Nat,
           then <= own, NEW sum \in 0..above, NEW failed \in Nat, NEW fails \in Nat,
           fails >= failed, failed = 0 => below <= sum,
           NEW found, found = own \/ (found = 0 /\ fails > 0)
    PROVE  sum + found \in 0..(above + own) /\ (fails = 0 => below + then <= sum + found)
  OBVIOUS

(* status and doctor keep their stage as far as the counts.                *)
LEMMA CountingGoesOn ==
    ASSUME AtWork, Steps, call.ask.verb \in {"status", "doctor"},
           ReportStage(call.todo), ~PaperStage(call.todo), Head(call.todo).do # "lab"
    PROVE  ShellReports'
  <1>. PICK t, rest : t = call.todo /\ rest = Rest
    OBVIOUS
  <1>1. ReportStage(t) /\ IsSequence(t) /\ t # <<>> /\ call.at = "work" /\ CallShape(call)
    BY Workable DEF AtWork
  <1>2. ASSUME NEW more, call'.ask = call.ask, call'.todo = more, ReportStage(more)'
        PROVE  Stages'
    BY <1>2, ReportStaged
  <1>3. ASSUME call'.ask = call.ask, call'.got.ledgers = call.got.ledgers
        PROVE  \A t_ : Lasts(t_)' <=> Lasts(t_)
    BY <1>3 DEF Lasts
  <1>4. ASSUME NEW got, Kept, Moves(Rest, call.out \/ Rest = <<>>, call.wrote, got),
               ReportStage(rest)', IsSequence(rest), ~call.out
        PROVE  ShellReports'
    <2>1. call'.ask = call.ask /\ call'.todo = rest
      BY <1>4 DEF Moves, Onward
    <2>2. Stages'
      BY <1>2, <1>4, <2>1
    <2>3. (call.out \/ Rest = <<>>) = (rest = <<>>)
      BY <1>4
    <2>4. Moves(rest, rest = <<>>, call.wrote, got)
      BY <1>4, <2>3
    <2>. QED  BY <1>4, <2>2, <2>4, Proceeded
  <1>5. /\ Stood.roots \subseteq Here.roots /\ Here.roots \subseteq Ids
        /\ before.plane[call.place].file.held \subseteq plane[call.place].file.held
        /\ plane[call.place].file.held \subseteq Ids
    BY PlaneKept DEF Planes
  <1>6. CASE /\ Begins(t, Do("config", "")) /\ Begins(Tail(t), Do("roots", ""))
             /\ Begins(Tail(Tail(t)), Do("objects", "")) /\ Lasts(Tail(Tail(Tail(t))))
    <2>1. Rest = rest /\ rest = Tail(t) /\ IsSequence(rest) /\ Head(t).do = "config"
      BY <1>1, <1>6, Singly
    <2>2. ReadConfigAgain /\ ~call.out
      BY <1>1, <2>1, Dispatch, Quiet
    <2>3. PICK backend : backend = BackendIn(tree[call.place])
      OBVIOUS
    <2>. DEFINE got == [call.got EXCEPT !.backend = backend]
    <2>4. /\ Kept
          /\ \/ Stops("ConfigUnreadable")
             \/ /\ Moves(Rest, call.out \/ Rest = <<>>, call.wrote, got)
                /\ backend \in Backends /\ (Steady(call.place) => backend = call.backend)
      BY <2>2, <2>3, ReadConfigAgainDoes
    <2>5. CASE Stops("ConfigUnreadable")
      BY <2>2, <2>4, <2>5, RefusedKept
    <2>6. CASE /\ Moves(Rest, call.out \/ Rest = <<>>, call.wrote, got)
               /\ backend \in Backends /\ (Steady(call.place) => backend = call.backend)
      <3>1. got.backend = backend /\ got.ledgers = call.got.ledgers
        BY <1>1 DEF CallShape
      <3>. HIDE DEF got
      <3>2. /\ call'.ask = call.ask /\ call'.todo = rest /\ call'.got = got
            /\ call'.place = call.place /\ call'.backend = call.backend /\ meddled' = meddled
        BY <2>1, <2>6 DEF Moves, Onward
      <3>3. BackendRead' /\ call'.got.backend \in Backends
        BY <2>6, <3>1, <3>2 DEF BackendRead, Steady
      <3>4. Lasts(Tail(Tail(rest)))'
        BY <1>3, <1>6, <2>1, <3>1, <3>2
      <3>5. ReportStage(rest)'
        BY <1>6, <2>1, <3>2, <3>3, <3>4 DEF ReportStage
      <3>. QED  BY <1>4, <2>1, <2>2, <2>4, <2>6, <3>5
    <2>. QED  BY <2>4, <2>5, <2>6
  <1>7. CASE /\ Begins(t, Do("roots", "")) /\ Begins(Tail(t), Do("objects", ""))
             /\ Lasts(Tail(Tail(t))) /\ BackendRead /\ call.got.backend \in Backends
    <2>1. Rest = rest /\ rest = Tail(t) /\ IsSequence(rest) /\ Head(t).do = "roots"
      BY <1>1, <1>7, Singly
    <2>2. ListRoots /\ ~call.out
      BY <1>1, <2>1, Dispatch, Quiet
    <2>3. PICK roots : roots = Cardinality(Here.roots)
      OBVIOUS
    <2>. DEFINE got == [call.got EXCEPT !.roots = roots]
    <2>4. /\ Kept
          /\ \/ Stops("unexpected") /\ call'.faults > 0
             \/ Moves(Rest, call.out \/ Rest = <<>>, call.wrote, got)
      BY <2>2, <2>3, ListRootsDoes
    <2>5. CASE Stops("unexpected") /\ call'.faults > 0
      BY <2>2, <2>4, <2>5, RefusedKept
    <2>6. CASE Moves(Rest, call.out \/ Rest = <<>>, call.wrote, got)
      <3>1. got.backend = call.got.backend /\ got.ledgers = call.got.ledgers /\ got.roots = roots
        BY <1>1 DEF CallShape
      <3>. HIDE DEF got
      <3>2. /\ call'.ask = call.ask /\ call'.todo = rest /\ call'.got = got
            /\ call'.place = call.place /\ call'.backend = call.backend /\ meddled' = meddled
            /\ Here' = Here /\ Stood' = Stood
        BY <2>1, <2>4, <2>6, SameStore DEF Moves, Onward, Kept
      <3>3. BackendRead'
        BY <1>7, <3>1, <3>2 DEF BackendRead, Steady
      <3>4. roots \in Cardinality(Stood.roots)..Cardinality(Here.roots)
        BY <1>5, <2>3, Counting
      <3>5. RootsCounted'
        BY <3>1, <3>2, <3>3, <3>4 DEF RootsCounted
      <3>6. Lasts(Tail(rest))'
        BY <1>3, <1>7, <2>1, <3>1, <3>2
      <3>7. ReportStage(rest)'
        BY <1>7, <2>1, <3>1, <3>2, <3>5, <3>6 DEF ReportStage
      <3>. QED  BY <1>4, <2>1, <2>2, <2>4, <2>6, <3>7
    <2>. QED  BY <2>4, <2>5, <2>6
  <1>8. CASE /\ Begins(t, Do("objects", "")) /\ Lasts(Tail(t))
             /\ RootsCounted /\ call.got.backend \in Backends
    <2>1. Rest = rest /\ rest = Tail(t) /\ IsSequence(rest) /\ Head(t).do = "objects"
      BY <1>1, <1>8, Singly
    <2>2. CountObjects /\ ~call.out
      BY <1>1, <2>1, Dispatch, Quiet
    <2>3. ASSUME NEW objects, NEW got, got = [call.got EXCEPT !.objects = objects], Kept,
                 NEW more, NEW out, Moves(more, out, call.wrote, got)
          PROVE  /\ call'.ask = call.ask /\ call'.todo = more /\ call'.got = got
                 /\ got.backend = call.got.backend /\ got.objects = objects
                 /\ RootsCounted' /\ (\A r : Lasts(r)' <=> Lasts(r))
                 /\ before.plane[call.place]' = before.plane[call.place]
                 /\ plane[call.place]' = plane[call.place]
      <3>1. /\ got.backend = call.got.backend /\ got.ledgers = call.got.ledgers
            /\ got.roots = call.got.roots /\ got.objects = objects
        BY <1>1, <2>3 DEF CallShape
      <3>2. /\ call'.ask = call.ask /\ call'.todo = more /\ call'.got = got
            /\ call'.place = call.place /\ call'.backend = call.backend /\ meddled' = meddled
            /\ Here' = Here /\ Stood' = Stood
            /\ before.plane[call.place]' = before.plane[call.place]
            /\ plane[call.place]' = plane[call.place]
        BY <2>3, SameStore DEF Moves, Onward, Kept
      <3>3. RootsCounted'
        BY <1>8, <3>1, <3>2 DEF RootsCounted, BackendRead, Steady
      <3>. QED  BY <1>3, <3>1, <3>2, <3>3
    <2>4. CASE call.got.backend # "file"
      <3>1. PICK got : got = [call.got EXCEPT !.objects = Uncounted]
        OBVIOUS
      <3>2. Kept /\ Moves(Rest, call.out \/ Rest = <<>>, call.wrote, got)
        BY <2>2, <2>4, <3>1, CountObjectsDoes
      <3>6. PICK out : out = (call.out \/ Rest = <<>>)
        OBVIOUS
      <3>7. Moves(rest, out, call.wrote, got)
        BY <2>1, <3>2, <3>6
      <3>3. /\ call'.ask = call.ask /\ call'.todo = rest /\ call'.got = got
            /\ got.backend = call.got.backend /\ got.objects = Uncounted
            /\ RootsCounted' /\ (\A r : Lasts(r)' <=> Lasts(r))
        BY <2>3, <3>1, <3>2, <3>7
      <3>4. ObjectsCounted({})'
        BY <1>8, <2>4, <3>3 DEF ObjectsCounted
      <3>5. ReportStage(rest)'
        BY <1>8, <2>1, <3>3, <3>4 DEF ReportStage
      <3>. QED  BY <1>4, <2>1, <2>2, <3>2, <3>5
    <2>5. CASE call.got.backend = "file"
      <3>1. PICK fans, more : fans = Fans /\ more = Each("fan", fans) \o Rest
        OBVIOUS
      <3>11. PICK got : got = [call.got EXCEPT !.objects = 0]
        OBVIOUS
      <3>12. /\ Kept
             /\ \/ Moves(more, call.out \/ more = <<>>, call.wrote, got)
                \/ call'.faults > 0 /\ Moves(Rest, call.out \/ Rest = <<>>, call.wrote, got)
        BY <2>2, <2>5, <3>1, <3>11, CountObjectsDoes
      <3>13. CASE call'.faults > 0 /\ Moves(Rest, call.out \/ Rest = <<>>, call.wrote, got)
        <4>1. PICK out : out = (call.out \/ Rest = <<>>)
          OBVIOUS
        <4>2. Moves(rest, out, call.wrote, got)
          BY <2>1, <3>13, <4>1
        <4>11. Kept
          BY <3>12
        <4>3. /\ call'.ask = call.ask /\ call'.todo = rest /\ call'.got = got
              /\ got.backend = call.got.backend /\ got.objects = 0
              /\ RootsCounted' /\ (\A r : Lasts(r)' <=> Lasts(r))
              /\ plane[call.place]' = plane[call.place]
          BY <2>3, <3>11, <4>2, <4>11
        <4>4. PICK there : there = Outside(plane[call.place].file.held, {})
          OBVIOUS
        <4>5. Cardinality(there) \in Nat
          <5>1. there \subseteq Ids
            BY <1>5, <4>4 DEF Outside
          <5>. QED  BY <5>1, Counting
        <4>6. Outside(plane[call.place].file.held, {})' = there
          BY <4>3, <4>4 DEF Outside
        <4>7. call'.got.backend = "file" /\ call'.got.objects = 0 /\ ~(call'.faults = 0)
          BY <2>5, <3>13, <4>3
        <4>8. 0 \in 0..Cardinality(there)
          BY <4>5
        <4>9. ObjectsCounted({})'
          BY <4>3, <4>6, <4>7, <4>8 DEF ObjectsCounted, Backends
        <4>10. ReportStage(rest)'
          BY <1>8, <2>1, <4>3, <4>9 DEF ReportStage
        <4>. QED  BY <1>4, <2>1, <2>2, <3>12, <3>13, <4>10
      <3>. SUFFICES ASSUME Moves(more, call.out \/ more = <<>>, call.wrote, got)
                    PROVE  ShellReports'
        BY <3>12, <3>13
      <3>2. Kept /\ Moves(more, call.out \/ more = <<>>, call.wrote, got)
        BY <3>12
      <3>9. PICK out : out = (call.out \/ more = <<>>)
        OBVIOUS
      <3>10. Moves(more, out, call.wrote, got)
        BY <3>2, <3>9
      <3>3. /\ call'.ask = call.ask /\ call'.todo = more /\ call'.got = got
            /\ got.backend = call.got.backend /\ got.objects = 0
            /\ RootsCounted' /\ (\A r : Lasts(r)' <=> Lasts(r))
            /\ before.plane[call.place]' = before.plane[call.place]
            /\ plane[call.place]' = plane[call.place]
        BY <2>3, <3>2, <3>10, <3>11
      <3>4. fans \in SUBSET AllFans
        BY <3>1, FansListed
      <3>5. ObjectsCounted(fans)'
        <4>1. /\ Outside(plane[call.place].file.held, fans) = {}
              /\ Outside(before.plane[call.place].file.held, fans) = {}
          BY <1>5, <3>1 DEF Outside, Fans, InFan
        <4>2. Cardinality({}) = 0
          BY FS_EmptySet
        <4>3. /\ Cardinality(Outside(plane[call.place].file.held, fans)) = 0
              /\ Cardinality(Outside(before.plane[call.place].file.held, fans)) = 0
          BY <4>1, <4>2
        <4>4. /\ Cardinality(Outside(plane[call.place].file.held, fans))' = 0
              /\ Cardinality(Outside(before.plane[call.place].file.held, fans))' = 0
          BY <3>3, <4>3 DEF Outside
        <4>5. call'.got.backend = "file" /\ call'.got.objects = 0
          BY <2>5, <3>3
        <4>6. 0 \in 0..0 /\ 0 <= 0
          OBVIOUS
        <4>. QED  BY <3>3, <4>4, <4>5, <4>6 DEF ObjectsCounted, Backends
      <3>6. Lasts(rest)'
        BY <1>8, <2>1, <3>3
      <3>7. CASE fans = {}
        <4>1. more = rest
          BY <2>1, <3>1, <3>7, Rolled DEF Each
        <4>2. ReportStage(rest)'
          BY <3>3, <3>5, <3>6, <3>7, <4>1 DEF ReportStage
        <4>3. Moves(Rest, call.out \/ Rest = <<>>, call.wrote, got)
          BY <2>1, <3>2, <4>1
        <4>. QED  BY <1>4, <2>1, <2>2, <3>2, <4>2, <4>3
      <3>8. CASE fans # {}
        <4>1. more = <<Sweep("fan", fans)>> \o rest
          BY <2>1, <3>1, <3>8 DEF Each, Sweep
        <4>2. IsSequence(more) /\ more # <<>> /\ Begins(more, Sweep("fan", fans)) /\ Tail(more) = rest
          BY <2>1, <4>1, Rolled DEF Begins
        <4>3. call'.got.backend = "file"
          BY <2>5, <3>3
        <4>4. ReportStage(more)'
          BY <3>3, <3>4, <3>5, <3>6, <3>8, <4>2, <4>3 DEF ReportStage
        <4>5. Stages'
          BY <1>2, <3>3, <4>4
        <4>6. (call.out \/ more = <<>>) = FALSE
          BY <2>2, <4>2
        <4>7. Moves(more, FALSE, call.wrote, got)
          BY <3>2, <4>6
        <4>. QED  BY <3>2, <4>2, <4>5, <4>7, Proceeded
      <3>. QED  BY <3>7, <3>8
    <2>. QED  BY <2>4, <2>5
  <1>9. ASSUME NEW fans \in SUBSET AllFans, fans # {}, Begins(t, Sweep("fan", fans)), Lasts(Tail(t)),
               ObjectsCounted(fans), call.got.backend = "file"
        PROVE  ShellReports'
    <2>1. PICK fan, left : fan = On /\ left = fans \ {fan}
      OBVIOUS
    <2>2. /\ fan \in fans /\ Head(t).do = "fan" /\ IsSequence(rest) /\ left \in SUBSET AllFans
          /\ IF left = {} THEN rest = Tail(t)
             ELSE Begins(rest, Sweep("fan", left)) /\ Tail(rest) = Tail(t)
      BY <1>1, <1>9, <2>1, FansListed, Swept
    <2>3. CountFan /\ ~call.out
      BY <1>1, <2>2, Dispatch, Quiet
    <2>14. PICK found : /\ Kept
                        /\ found = Cardinality(InFan(fan)) \/ (found = 0 /\ call'.faults > 0)
                        /\ Moves(Rest, call.out \/ Rest = <<>>, call.wrote,
                                 [call.got EXCEPT !.objects = call.got.objects + found])
      BY <2>1, <2>3, CountFanDoes
    <2>4. PICK objects, got : /\ objects = call.got.objects + found
                              /\ got = [call.got EXCEPT !.objects = objects]
      OBVIOUS
    <2>5. Kept /\ Moves(Rest, call.out \/ Rest = <<>>, call.wrote, got)
      BY <2>4, <2>14
    <2>6. /\ got.backend = call.got.backend /\ got.ledgers = call.got.ledgers
          /\ got.roots = call.got.roots /\ got.objects = objects
      BY <1>1, <2>4 DEF CallShape
    <2>7. /\ call'.ask = call.ask /\ call'.todo = rest /\ call'.got = got
          /\ call'.place = call.place /\ call'.backend = call.backend /\ meddled' = meddled
          /\ Here' = Here /\ Stood' = Stood
          /\ before.plane[call.place]' = before.plane[call.place]
          /\ plane[call.place]' = plane[call.place]
      BY <2>5, SameStore DEF Moves, Onward, Kept
    <2>8. PICK was, now : was = before.plane[call.place].file.held /\ now = plane[call.place].file.held
      OBVIOUS
    <2>15. call.faults \in Nat /\ call'.faults \in Nat /\ call'.faults >= call.faults
      BY <2>5, Workable DEF Moves, Onward
    <2>9. /\ objects \in 0..Cardinality(Outside(now, left))
          /\ call'.faults = 0 => Cardinality(Outside(was, left)) <= objects
      <3>1. PICK own : own = Within(now, fan)
        OBVIOUS
      <3>8. PICK then : then = Within(was, fan)
        OBVIOUS
      <3>2. was \subseteq now /\ now \subseteq Ids /\ was \subseteq Ids
        BY <1>5, <2>8
      <3>9. left = fans \ {fan} /\ fan \in fans
        BY <2>1, <2>2
      <3>3. /\ Cardinality(Outside(now, left)) = Cardinality(Outside(now, fans)) + Cardinality(own)
            /\ Cardinality(own) \in Nat /\ Cardinality(Outside(now, fans)) \in Nat
        BY <3>1, <3>2, <3>9, OneLeft
      <3>4. /\ Cardinality(Outside(was, left)) = Cardinality(Outside(was, fans)) + Cardinality(then)
            /\ Cardinality(then) \in Nat /\ Cardinality(Outside(was, fans)) \in Nat
        BY <3>2, <3>8, <3>9, OneLeft
      <3>5. Cardinality(then) <= Cardinality(own)
        <4>1. then \subseteq own /\ own \subseteq Ids
          BY <3>1, <3>2, <3>8 DEF Within
        <4>. QED  BY <4>1, Counting
      <3>6. /\ call.got.objects \in 0..Cardinality(Outside(now, fans))
            /\ call.faults = 0 => Cardinality(Outside(was, fans)) <= call.got.objects
        BY <1>9, <2>8 DEF ObjectsCounted
      <3>7. found = Cardinality(own) \/ (found = 0 /\ call'.faults > 0)
        BY <2>8, <2>14, <3>1 DEF InFan, Within
      <3>10. objects = call.got.objects + found
        BY <2>4
      <3>. QED  BY <2>15, <3>3, <3>4, <3>5, <3>6, <3>7, <3>10, Summing
    <2>10. RootsCounted'
      BY <1>9, <2>6, <2>7 DEF ObjectsCounted, RootsCounted, BackendRead, Steady
    <2>11. ObjectsCounted(left)'
      <3>1. /\ Outside(before.plane[call.place].file.held, left)' = Outside(was, left)
            /\ Outside(plane[call.place].file.held, left)' = Outside(now, left)
        BY <2>7, <2>8 DEF Outside
      <3>. QED  BY <1>9, <2>6, <2>7, <2>9, <2>10, <3>1 DEF ObjectsCounted, Backends
    <2>12. Lasts(Tail(t))'
      BY <1>3, <1>9, <2>6, <2>7
    <2>13. ReportStage(rest)'
      <3>1. CASE left = {}
        BY <2>2, <2>7, <2>11, <2>12, <3>1 DEF ReportStage
      <3>2. CASE left # {}
        <4>1. Begins(rest, Sweep("fan", left)) /\ Tail(rest) = Tail(t) /\ call'.got.backend = "file"
          BY <1>9, <2>2, <2>6, <2>7, <3>2
        <4>. QED  BY <2>2, <2>7, <2>11, <2>12, <3>2, <4>1 DEF ReportStage
      <3>. QED  BY <3>1, <3>2
    <2>. QED  BY <1>4, <2>2, <2>3, <2>5, <2>13
  <1>10. ~(Lasts(t) /\ ObjectsCounted({}))
    <2>1. Lasts(t) => Head(t).do = "lab"
      BY <1>1, Starts DEF Lasts, Only
    <2>. QED  BY <2>1
  <1>. QED  BY <1>1, <1>6, <1>7, <1>8, <1>9, <1>10 DEF ReportStage

(* What doctor counted stands while it reads the ledgers.                  *)
LEMMA CountsStand ==
    ASSUME AtWork, Onward, UNCHANGED plane, ObjectsCounted({}),
           call'.got.backend = call.got.backend, call'.got.roots = call.got.roots,
           call'.got.objects = call.got.objects
    PROVE  ObjectsCounted({})'
  <1>1. /\ Here' = Here /\ Stood' = Stood /\ call'.backend = call.backend
        /\ Steady(call.place)' = Steady(call.place)
        /\ before.plane[call.place]' = before.plane[call.place]
        /\ plane[call.place]' = plane[call.place]
    BY SameStore
  <1>2. RootsCounted'
    BY <1>1 DEF ObjectsCounted, RootsCounted, BackendRead
  <1>3. /\ Outside(before.plane[call.place].file.held, {})' = Outside(before.plane[call.place].file.held, {})
        /\ Outside(plane[call.place].file.held, {})' = Outside(plane[call.place].file.held, {})
    BY <1>1 DEF Outside
  <1>4. call'.faults = 0 => call.faults = 0
    BY Workable DEF Onward
  <1>. QED  BY <1>2, <1>3, <1>4 DEF ObjectsCounted

(* What was told of the ledgers stands too.                                *)
LEMMA LedgersStand ==
    ASSUME UNCHANGED <<papers, before>>, call'.place = call.place
    PROVE  LabFor' = LabFor /\ Reach' = Reach /\ (\A ledger : LedgerTrue(ledger)' <=> LedgerTrue(ledger))
  BY LabStays DEF Reach, LedgerTrue

(* doctor moves on to its next ledger.                                     *)
LEMMA PapersMoved ==
    ASSUME AtWork, Kept, call.ask.verb = "doctor", ObjectsCounted({}), ~call.out,
           NEW rest, NEW got, IsSequence(rest),
           Moves(rest, rest = <<>>, call.wrote, got),
           got.backend = call.got.backend, got.roots = call.got.roots,
           got.objects = call.got.objects,
           PaperStage(rest)' \/ ~ObjectsCounted({})'
    PROVE  ShellReports'
  <1>1. /\ call'.ask = call.ask /\ call'.todo = rest /\ call'.got = got /\ Onward
        /\ UNCHANGED plane
    BY DEF Moves, Onward, Kept
  <1>2. ObjectsCounted({})'
    BY <1>1, CountsStand
  <1>3. ReportStage(rest)'
    BY <1>2 DEF ReportStage
  <1>4. Stages'
    BY <1>1, <1>3, ReportStaged
  <1>. QED  BY <1>4, Proceeded

(* doctor keeps its stage through the ledgers.                             *)
LEMMA PapersGoOn ==
    ASSUME AtWork, Steps, call.ask.verb = "doctor",
           PaperStage(call.todo) \/ (Lasts(call.todo) /\ ObjectsCounted({}))
    PROVE  ShellReports'
  <1>. PICK t, lab : t = call.todo /\ lab = LabFor
    OBVIOUS
  <1>1. IsSequence(t) /\ t # <<>> /\ call.at = "work" /\ CallShape(call)
    BY Workable DEF AtWork
  <1>2. ObjectsCounted({})
    BY DEF PaperStage
  <1>3. ASSUME Kept, call'.place = call.place
        PROVE  LabFor' = lab /\ Reach' = Reach /\ (\A ledger : LedgerTrue(ledger)' <=> LedgerTrue(ledger))
    BY <1>3, LedgersStand DEF Kept
  <1>4. ASSUME NEW told, NEW got, got = [call.got EXCEPT !.ledgers = call.got.ledgers \cup told]
        PROVE  /\ got.backend = call.got.backend /\ got.roots = call.got.roots
               /\ got.objects = call.got.objects /\ got.ledgers = call.got.ledgers \cup told
               /\ got.lab = call.got.lab /\ got.placed = call.got.placed
    BY <1>1, <1>4 DEF CallShape
  <1>5. ASSUME NEW rest, NEW got, NEW out, Moves(rest, out, call.wrote, got)
        PROVE  call'.ask = call.ask /\ call'.place = call.place /\ call'.got = got
    BY <1>5 DEF Moves, Onward
  <1>6. CASE Lasts(t)
    <2>1. Only(t, Do("lab", "")) /\ call.got.ledgers = {}
      BY <1>6 DEF Lasts
    <2>2. Head(t).do = "lab"
      BY <2>1, Starts DEF Only
    <2>3. FindPapers /\ ~call.out
      BY <1>1, <2>2, Dispatch, Quiet
    <2>4. Kept /\ Reported = {}
      BY <2>1, <2>3, FindPapersDoes DEF Reported
    <2>5. CASE lab = NoLab
      <3>1. Moves(<<>>, TRUE, call.wrote, call.got)
        BY <2>3, <2>5, FindPapersDoes
      <3>2. call'.ask = call.ask /\ call'.place = call.place /\ call'.got = call.got
        BY <1>5, <3>1
      <3>3. PaperStage(<<>>)' \/ ~ObjectsCounted({})'
        BY <1>3, <2>1, <2>4, <2>5, <3>2 DEF PaperStage
      <3>. QED  BY <1>2, <2>3, <2>4, <3>1, <3>3, PapersMoved, Spelled
    <2>6. CASE lab # NoLab
      <3>. PICK rest : rest = <<Do("admission", lab), Do("registry", lab)>>
        OBVIOUS
      <3>1. Moves(rest, call.out, call.wrote, call.got)
        BY <2>3, <2>6, FindPapersDoes
      <3>2. IsSequence(rest) /\ rest # <<>> /\ Begins(rest, Do("admission", lab)) /\ Only(Tail(rest), Do("registry", lab))
        <4>. PICK a, b : a = Do("admission", lab) /\ b = Do("registry", lab)
          OBVIOUS
        <4>1. rest = <<a, b>>
          OBVIOUS
        <4>4. IsSequence(<<a, b>>) /\ <<a, b>> # <<>> /\ Head(<<a, b>>) = a /\ Tail(<<a, b>>) = <<b>>
          BY DEF IsSequence
        <4>2. IsSequence(rest) /\ rest # <<>> /\ Head(rest) = a /\ Tail(rest) = <<b>>
          BY <4>1, <4>4
        <4>3. <<b>> # <<>> /\ Head(<<b>>) = b /\ Tail(<<b>>) = <<>>
          BY Spelled
        <4>. QED  BY <4>2, <4>3 DEF Begins, Only
      <3>3. call'.ask = call.ask /\ call'.place = call.place /\ call'.got = call.got
        BY <1>5, <3>1
      <3>4. Reported' = {} /\ LabFor' = lab /\ call'.got.ledgers = {}
        BY <1>3, <2>1, <2>4, <3>3 DEF Reported
      <3>5. PaperStage(rest)' \/ ~ObjectsCounted({})'
        BY <2>6, <3>2, <3>3, <3>4 DEF PaperStage
      <3>6. Moves(rest, rest = <<>>, call.wrote, call.got)
        <4>1. call.out = (rest = <<>>)
          BY <2>3, <3>2, Workable
        <4>. QED  BY <3>1, <4>1
      <3>. QED  BY <1>2, <2>3, <2>4, <3>2, <3>5, <3>6, PapersMoved
    <2>. QED  BY <2>5, <2>6
  <1>. SUFFICES ASSUME PaperStage(t), ~Lasts(t)
                PROVE  ShellReports'
    BY <1>6
  <1>7. lab # NoLab /\ (\A ledger \in call.got.ledgers : LedgerTrue(ledger))
    BY <1>1 DEF PaperStage
  <1>8. ASSUME Kept, NEW told, NEW got, got = [call.got EXCEPT !.ledgers = call.got.ledgers \cup told],
               \A ledger \in told : LedgerTrue(ledger), NEW rest, NEW out,
               Moves(rest, out, call.wrote, got)
        PROVE  /\ call'.ask = call.ask /\ call'.got = got /\ LabFor' = lab
               /\ \A ledger \in call'.got.ledgers : LedgerTrue(ledger)'
               /\ Reported' = Reported \cup {ledger.stem : ledger \in told}
    <2>1. call'.ask = call.ask /\ call'.place = call.place /\ call'.got = got
      BY <1>5, <1>8
    <2>2. got.ledgers = call.got.ledgers \cup told
      BY <1>4, <1>8
    <2>3. \A ledger \in call'.got.ledgers : LedgerTrue(ledger)'
      BY <1>3, <1>7, <1>8, <2>1, <2>2
    <2>4. Reported' = Reported \cup {ledger.stem : ledger \in told}
      BY <2>1, <2>2 DEF Reported
    <2>. QED  BY <1>3, <1>8, <2>1, <2>3, <2>4
  <1>9. ASSUME Kept, NEW told, NEW got, got = [call.got EXCEPT !.ledgers = call.got.ledgers \cup told],
               NEW rest, IsSequence(rest), Moves(rest, call.out \/ rest = <<>>, call.wrote, got),
               ~call.out, PaperStage(rest)' \/ ~ObjectsCounted({})'
        PROVE  ShellReports'
    <2>1. Moves(rest, rest = <<>>, call.wrote, got)
      <3>1. (call.out \/ rest = <<>>) = (rest = <<>>)
        BY <1>9
      <3>. QED  BY <1>9, <3>1
    <2>2. got.backend = call.got.backend /\ got.roots = call.got.roots /\ got.objects = call.got.objects
      BY <1>4, <1>9
    <2>. QED  BY <1>2, <1>9, <2>1, <2>2, PapersMoved
  <1>10. CASE /\ Begins(t, Do("admission", lab)) /\ Only(Tail(t), Do("registry", lab))
              /\ Reported = {}
    <2>. PICK rest : rest = Rest
      OBVIOUS
    <2>1. On = lab /\ rest = Tail(t) /\ IsSequence(rest) /\ Head(t).do = "admission"
      BY <1>1, <1>10, Singly
    <2>2. ReadAdmission /\ ~call.out
      BY <1>1, <2>1, Dispatch, Quiet
    <2>. PICK one : one = Ledger("admission", Reading(papers[lab].files.admission))
      OBVIOUS
    <2>. PICK told : told = {one}
      OBVIOUS
    <2>. PICK got : got = [call.got EXCEPT !.ledgers = call.got.ledgers \cup told]
      OBVIOUS
    <2>3. Kept /\ Moves(rest, call.out \/ rest = <<>>, call.wrote, got)
      BY <2>1, <2>2, ReadAdmissionDoes
    <2>4. \A ledger \in told : LedgerTrue(ledger)
      BY DEF LedgerTrue, Ledger, Reach
    <2>5. {ledger.stem : ledger \in told} = {"admission"}
      BY DEF Ledger
    <2>. PICK out : out = (call.out \/ rest = <<>>)
      OBVIOUS
    <2>6. Moves(rest, out, call.wrote, got)
      BY <2>3
    <2>7. /\ call'.ask = call.ask /\ LabFor' = lab
          /\ \A ledger \in call'.got.ledgers : LedgerTrue(ledger)'
          /\ Reported' = {"admission"}
      BY <1>8, <1>10, <2>3, <2>4, <2>5, <2>6
    <2>8. PaperStage(rest)' \/ ~ObjectsCounted({})'
      BY <1>7, <1>10, <2>1, <2>7 DEF PaperStage
    <2>. QED  BY <1>9, <2>1, <2>2, <2>3, <2>8
  <1>11. CASE Only(t, Do("registry", lab)) /\ Reported = {"admission"}
    <2>. PICK rest : rest = Rest
      OBVIOUS
    <2>1. On = lab /\ rest = <<>> /\ Head(t).do = "registry"
      BY <1>1, <1>11, Singly DEF Only
    <2>2. ReadRegistry /\ ~call.out
      BY <1>1, <2>1, Dispatch, Quiet
    <2>3. Kept
      BY <2>2, ReadRegistryDoes
    <2>4. CASE papers[lab].manifest = "decodes"
      <3>. PICK more : more = [k \in DOMAIN Stems |-> Do("ledger", Stems[k])]
        OBVIOUS
      <3>. PICK got : got = [call.got EXCEPT !.lab = lab, !.placed = papers[lab].placed]
        OBVIOUS
      <3>1. Moves(more, call.out \/ more = <<>>, call.wrote, got)
        BY <2>1, <2>2, <2>4, ReadRegistryDoes
      <3>2. /\ got.backend = call.got.backend /\ got.roots = call.got.roots
            /\ got.objects = call.got.objects /\ got.ledgers = call.got.ledgers
            /\ got.lab = lab /\ got.placed = papers[lab].placed
        BY <1>1 DEF CallShape
      <3>3. IsSequence(more) /\ DOMAIN more = DOMAIN Stems /\ (\A k \in DOMAIN Stems : more[k] = Do("ledger", Stems[k]))
        <4>1. Stems \in Seq(Asked)
          BY ShellAssumption
        <4>2. Len(Stems) \in Nat /\ DOMAIN Stems = 1..Len(Stems)
          BY <4>1
        <4>3. DOMAIN more = 1..Len(Stems) /\ Len(more) = Len(Stems)
          BY <4>2
        <4>. QED  BY <4>2, <4>3 DEF IsSequence
      <3>. PICK out : out = (call.out \/ more = <<>>)
        OBVIOUS
      <3>4. Moves(more, out, call.wrote, got)
        BY <3>1
      <3>5. call'.ask = call.ask /\ call'.place = call.place /\ call'.got = got
        BY <1>5, <3>4
      <3>6. /\ LabFor' = lab /\ \A ledger \in call'.got.ledgers : LedgerTrue(ledger)'
            /\ Reported' = {"admission"} /\ papers' = papers
        BY <1>3, <1>7, <1>11, <2>3, <3>2, <3>5 DEF Reported, Kept
      <3>7. "admission" \in Asked
        BY DEF Asked
      <3>8. PaperStage(more)' \/ ~ObjectsCounted({})'
        BY <1>7, <2>4, <3>2, <3>3, <3>5, <3>6, <3>7 DEF PaperStage
      <3>9. Moves(more, more = <<>>, call.wrote, got)
        <4>1. out = (more = <<>>)
          BY <2>2
        <4>. QED  BY <3>4, <4>1
      <3>. QED  BY <1>2, <2>2, <2>3, <3>2, <3>3, <3>8, <3>9, PapersMoved
    <2>5. CASE papers[lab].manifest # "decodes"
      <3>. PICK told : told = {Ledger(Stems[k], AtManifest) : k \in DOMAIN Stems}
        OBVIOUS
      <3>. PICK got : got = [call.got EXCEPT !.ledgers = call.got.ledgers \cup told]
        OBVIOUS
      <3>1. Moves(rest, call.out \/ rest = <<>>, call.wrote, got)
        BY <2>1, <2>2, <2>5, ReadRegistryDoes
      <3>2. \A ledger \in told : LedgerTrue(ledger)
        <4>. SUFFICES ASSUME NEW ledger \in told
                      PROVE  LedgerTrue(ledger)
          OBVIOUS
        <4>1. PICK k \in DOMAIN Stems : ledger = Ledger(Stems[k], AtManifest)
          OBVIOUS
        <4>2. ledger.stem = Stems[k] /\ ledger.says = AtManifest
          BY <4>1 DEF Ledger
        <4>3. Stems[k] # "admission"
          BY ShellAssumption
        <4>4. ledger.stem \notin Reach
          BY <2>5, <4>2, <4>3 DEF Reach
        <4>. QED  BY <4>2, <4>4 DEF LedgerTrue
      <3>3. {ledger.stem : ledger \in told} \cup {"admission"} = Asked
        <4>1. \A k \in DOMAIN Stems : Ledger(Stems[k], AtManifest).stem = Stems[k]
          BY DEF Ledger
        <4>2. \A stem \in {ledger.stem : ledger \in told} : \E k \in DOMAIN Stems : stem = Stems[k]
          BY <4>1
        <4>3. \A k \in DOMAIN Stems : Stems[k] \in {ledger.stem : ledger \in told}
          BY <4>1
        <4>. QED  BY <4>2, <4>3, ZenonT(45) DEF Asked
      <3>. PICK out : out = (call.out \/ rest = <<>>)
        OBVIOUS
      <3>4. Moves(rest, out, call.wrote, got)
        BY <3>1
      <3>5. /\ call'.ask = call.ask /\ LabFor' = lab
            /\ \A ledger \in call'.got.ledgers : LedgerTrue(ledger)'
            /\ Reported' = Asked
        BY <1>8, <1>11, <2>3, <3>2, <3>3, <3>4
      <3>6. PaperStage(rest)' \/ ~ObjectsCounted({})'
        BY <1>7, <2>1, <3>5 DEF PaperStage
      <3>. QED  BY <1>9, <2>1, <2>2, <2>3, <3>1, <3>6, Spelled, ZenonT(45)
    <2>. QED  BY <2>4, <2>5
  <1>12. CASE /\ papers[lab].manifest = "decodes"
              /\ call.got.lab = lab /\ call.got.placed = papers[lab].placed
              /\ \A j \in DOMAIN t : \E k \in DOMAIN Stems : t[j] = Do("ledger", Stems[k])
              /\ "admission" \in Reported /\ Reported \subseteq Asked
              /\ \A k \in DOMAIN Stems :
                   Stems[k] \in Reported \/ \E j \in DOMAIN t : t[j] = Do("ledger", Stems[k])
    <2>. PICK rest : rest = Rest
      OBVIOUS
    <2>1. PICK k \in DOMAIN Stems : Begins(t, Do("ledger", Stems[k]))
      <3>1. 1 \in DOMAIN t /\ Head(t) = t[1]
        BY <1>1, Unrolled
      <3>. QED  BY <1>1, <1>12, <3>1 DEF Begins
    <2>. PICK stem : stem = Stems[k]
      OBVIOUS
    <2>2. On = stem /\ rest = Tail(t) /\ IsSequence(rest) /\ Head(t).do = "ledger"
      BY <1>1, <2>1, Singly
    <2>3. ReadLedger /\ ~call.out
      BY <1>1, <2>2, Dispatch, Quiet
    <2>. PICK one : one = Ledger(stem, IF stem \in call.got.placed
                                       THEN Reading(papers[call.got.lab].files[stem]) ELSE AtManifest)
      OBVIOUS
    <2>. PICK told : told = {one}
      OBVIOUS
    <2>. PICK got : got = [call.got EXCEPT !.ledgers = call.got.ledgers \cup told]
      OBVIOUS
    <2>4. Kept /\ Moves(rest, call.out \/ rest = <<>>, call.wrote, got)
      BY <2>2, <2>3, ReadLedgerDoes
    <2>5. stem # "admission" /\ stem \in Asked
      BY ShellAssumption DEF Asked
    <2>6. \A ledger \in told : LedgerTrue(ledger)
      BY <1>12, <2>5 DEF LedgerTrue, Ledger, Reach
    <2>7. {ledger.stem : ledger \in told} = {stem}
      BY DEF Ledger
    <2>. PICK out : out = (call.out \/ rest = <<>>)
      BY SMTT(30)
    <2>8. Moves(rest, out, call.wrote, got)
      BY <2>4, SMTT(30)
    <2>9. /\ call'.ask = call.ask /\ LabFor' = lab /\ call'.got = got
          /\ \A ledger \in call'.got.ledgers : LedgerTrue(ledger)'
          /\ Reported' = Reported \cup {stem}
      BY <1>8, <2>4, <2>6, <2>7, <2>8
    <2>10. /\ \A j \in DOMAIN rest : \E i \in DOMAIN Stems : rest[j] = Do("ledger", Stems[i])
           /\ \A j \in DOMAIN t : t[j] = Do("ledger", stem) \/ \E i \in DOMAIN rest : rest[i] = t[j]
      <3>1. /\ \A j \in DOMAIN rest : j + 1 \in DOMAIN t /\ rest[j] = t[j + 1]
            /\ \A j \in DOMAIN t : t[j] = Head(t) \/ \E i \in DOMAIN rest : rest[i] = t[j]
        BY <1>1, <2>2, Unrolled, SMTT(30)
      <3>. QED  BY <1>12, <2>1, <3>1 DEF Begins
    <2>11. \A i \in DOMAIN Stems :
             Stems[i] \in Reported' \/ \E j \in DOMAIN rest : rest[j] = Do("ledger", Stems[i])
      <3>. SUFFICES ASSUME NEW i \in DOMAIN Stems, Stems[i] \notin Reported, Stems[i] # stem
                    PROVE  \E j \in DOMAIN rest : rest[j] = Do("ledger", Stems[i])
        BY <2>9
      <3>1. PICK j \in DOMAIN t : t[j] = Do("ledger", Stems[i])
        BY <1>12
      <3>2. t[j] # Do("ledger", stem)
        BY <3>1 DEF Do
      <3>. QED  BY <2>10, <3>1, <3>2
    <2>12. /\ papers' = papers /\ call'.got.lab = lab /\ call'.got.placed = papers[lab].placed
           /\ "admission" \in Reported' /\ Reported' \subseteq Asked
      <3>1. got.lab = call.got.lab /\ got.placed = call.got.placed
        BY <1>4, SMTT(30)
      <3>. QED  BY <1>12, <2>4, <2>5, <2>9, <3>1 DEF Kept
    <2>13. PaperStage(rest)' \/ ~ObjectsCounted({})'
      BY <1>7, <1>12, <2>9, <2>10, <2>11, <2>12 DEF PaperStage
    <2>. QED  BY <1>9, <2>2, <2>3, <2>4, <2>13
  <1>. QED  BY <1>1, <1>7, <1>10, <1>11, <1>12 DEF PaperStage

(* status and doctor keep their stage.                                     *)
LEMMA ReportGoesOn ==
    ASSUME AtWork, Steps, call.ask.verb \in {"status", "doctor"}
    PROVE  ShellReports'
  <1>1. ReportStage(call.todo) /\ IsSequence(call.todo) /\ call.todo # <<>>
    BY Workable DEF AtWork, ShellReports, Stages, Going
  <1>2. CASE ~PaperStage(call.todo) /\ Head(call.todo).do # "lab"
    BY <1>1, <1>2, CountingGoesOn
  <1>3. CASE PaperStage(call.todo)
    BY <1>3, PapersGoOn DEF PaperStage
  <1>4. CASE Head(call.todo).do = "lab" /\ ~PaperStage(call.todo)
    <2>1. Lasts(call.todo) /\ ObjectsCounted({})
      BY <1>1, <1>4, Starts DEF ReportStage
    <2>2. call.ask.verb = "doctor"
      BY <1>1, <2>1 DEF Lasts
    <2>. QED  BY <2>1, <2>2, PapersGoOn
  <1>. QED  BY <1>2, <1>3, <1>4

(* What a step of anyone else may do to what an invocation reports on.     *)
Grows ==
    /\ UNCHANGED <<call, before>> /\ meddled \subseteq meddled'
    /\ PlanesGrown' /\ PapersEmitted'
    /\ \A p \in Places, b \in Backends :
         /\ plane[p][b].held \subseteq plane'[p][b].held
         /\ plane[p][b].damaged \subseteq plane'[p][b].damaged
         /\ plane[p][b].roots \subseteq plane'[p][b].roots
    /\ \A d \in DOMAIN before.papers :
         IF papers[d] = NoLab THEN papers'[d] = NoLab
         ELSE /\ papers'[d] # NoLab
              /\ papers'[d].manifest = papers[d].manifest
              /\ papers'[d].placed = papers[d].placed
              /\ \A stem \in Asked : papers'[d].files[stem] \in {papers[d].files[stem], "one"}

(* A lab that was found is one of the directories that hold one.           *)
LEMMA LabFound ==
    ASSUME PapersEmitted, NEW start \in Places \cup {"cwd"}, FindLab(start) # NoLab
    PROVE  FindLab(start) \in DOMAIN before.papers /\ papers[FindLab(start)] # NoLab
  <1>1. Above[start] \in Seq(DOMAIN before.papers)
    BY DEF PapersEmitted
  <1>2. /\ Marked(start) \subseteq Nat
        /\ \A k \in DOMAIN Above[start] : Above[start][k] \in DOMAIN before.papers
    BY <1>1 DEF Marked
  <1>3. Marked(start) # {} /\ FindLab(start) = Above[start][First(Marked(start))]
    BY DEF FindLab
  <1>4. \E k \in Marked(start) : \A j \in Marked(start) : k <= j
    BY <1>2, <1>3, Least
  <1>5. First(Marked(start)) \in Marked(start)
    BY <1>4 DEF First
  <1>. QED  BY <1>2, <1>3, <1>5 DEF Marked

(* It is found again whatever anyone else does.                            *)
LEMMA LabLasts ==
    ASSUME PapersEmitted, Grows, call.place \in Places
    PROVE  /\ LabFor' = LabFor
           /\ LabFor # NoLab => LabFor \in DOMAIN before.papers /\ papers[LabFor] # NoLab
  <1>1. ASSUME NEW start \in Places \cup {"cwd"}
        PROVE  FindLab(start)' = FindLab(start)
    <2>1. Above[start] \in Seq(DOMAIN before.papers)
      BY DEF PapersEmitted
    <2>2. \A k \in DOMAIN Above[start] : Above[start][k] \in DOMAIN before.papers
      BY <2>1
    <2>3. \A k \in DOMAIN Above[start] : papers'[Above[start][k]] # NoLab <=> papers[Above[start][k]] # NoLab
      BY <2>2 DEF Grows
    <2>4. Marked(start)' = Marked(start)
      BY <2>3 DEF Marked
    <2>. QED  BY <2>4 DEF FindLab
  <1>2. call.place \in Places \cup {"cwd"} /\ "cwd" \in Places \cup {"cwd"} /\ call' = call
    BY DEF Grows
  <1>3. FindLab(call.place)' = FindLab(call.place) /\ FindLab("cwd")' = FindLab("cwd")
    <2>. PICK p : p = call.place
      OBVIOUS
    <2>1. FindLab(p)' = FindLab(p)
      BY <1>1, <1>2
    <2>2. FindLab(call.place)' = FindLab(p)'
      BY <1>2 DEF FindLab
    <2>3. FindLab("cwd")' = FindLab("cwd")
      BY <1>1, <1>2
    <2>. QED  BY <2>1, <2>2, <2>3
  <1>4. LabFor' = LabFor
    BY <1>3 DEF LabFor
  <1>5. LabFor # NoLab => LabFor \in DOMAIN before.papers /\ papers[LabFor] # NoLab
    BY <1>2, LabFound DEF LabFor
  <1>. QED  BY <1>4, <1>5

(* And what was told of its ledgers stays true.                            *)
LEMMA LedgerLasts ==
    ASSUME PapersEmitted, Grows, call.place \in Places, LabFor # NoLab
    PROVE  /\ Reach' = Reach
           /\ papers'[LabFor].manifest = papers[LabFor].manifest
           /\ papers'[LabFor].placed = papers[LabFor].placed
           /\ \A ledger : LedgerTrue(ledger) => LedgerTrue(ledger)'
  <1>. PICK lab : lab = LabFor
    OBVIOUS
  <1>1. LabFor' = lab /\ lab \in DOMAIN before.papers /\ papers[lab] # NoLab
    BY LabLasts
  <1>2. /\ papers'[lab].manifest = papers[lab].manifest
        /\ papers'[lab].placed = papers[lab].placed
        /\ \A stem \in Asked : papers'[lab].files[stem] \in {papers[lab].files[stem], "one"}
        /\ before' = before
    BY <1>1 DEF Grows
  <1>3. Reach' = Reach
    BY <1>1, <1>2 DEF Reach
  <1>4. before.papers[lab] # NoLab /\ papers[lab] \in Labs
        /\ \A stem \in Asked : papers[lab].files[stem] \in {before.papers[lab].files[stem], "one"}
    BY <1>1 DEF PapersEmitted
  <1>5. Reach \subseteq Asked
    BY <1>4 DEF Reach, Labs, Asked
  <1>6. ASSUME NEW ledger, LedgerTrue(ledger)
        PROVE  LedgerTrue(ledger)'
    <2>1. CASE ledger.stem \notin Reach
      BY <1>3, <1>6, <2>1 DEF LedgerTrue
    <2>2. CASE ledger.stem \in Reach
      <3>. PICK stem : stem = ledger.stem
        OBVIOUS
      <3>1. ledger.says \in {Reading(before.papers[lab].files[stem]), Reading(papers[lab].files[stem])}
        BY <1>6, <2>2 DEF LedgerTrue
      <3>2. stem \in Asked
        BY <1>5, <2>2
      <3>3. ledger.says \in {Reading(before.papers[lab].files[stem]), Reading(papers'[lab].files[stem])}
        BY <1>2, <1>4, <3>1, <3>2
      <3>4. /\ Reading(before.papers[LabFor].files[ledger.stem])' = Reading(before.papers[lab].files[stem])
            /\ Reading(papers[LabFor].files[ledger.stem])' = Reading(papers'[lab].files[stem])
        BY <1>1, <1>2 DEF Reading
      <3>. QED  BY <1>3, <2>2, <3>3, <3>4 DEF LedgerTrue
    <2>. QED  BY <2>1, <2>2
  <1>. QED  BY <1>2, <1>3, <1>6

(* Nothing anyone else does moves a verb from its stage.                   *)
LEMMA StagesLast ==
    ASSUME ShellReports, Grows
    PROVE  Stages'
  <1>. SUFFICES ASSUME Going
                PROVE  Stages'
    BY DEF Grows, Stages, Going
  <1>1. /\ call.place \in Places /\ call.backend \in Backends /\ call.faults \in Nat
        /\ PlanesGrown /\ PapersEmitted /\ Stages /\ "file" \in Backends
    BY DEF ShellReports, Moving, Ended, Backends
  <1>. PICK c : c = call
    OBVIOUS
  <1>2. /\ call' = call /\ before' = before /\ Stood' = Stood
        /\ Here.held \subseteq Here'.held /\ Here.damaged \subseteq Here'.damaged
        /\ Here.roots \subseteq Here'.roots
        /\ plane[call.place].file.held \subseteq plane'[call.place].file.held
        /\ Steady(call.place)' => Steady(call.place)
    BY <1>1, SMTT(30) DEF Grows, Here, Stood, Steady
  <1>3. /\ Stood \in Planes /\ Here \in Planes /\ Here' \in Planes
        /\ Stood.roots \subseteq Here.roots
        /\ before.plane[call.place].file \in Planes /\ plane[call.place].file \in Planes
        /\ plane'[call.place].file \in Planes
        /\ before.plane[call.place].file.held \subseteq plane[call.place].file.held
    BY <1>1, <1>2 DEF Grows, PlanesGrown, Here, Stood
  <1>4. CASE call.ask.verb \in {"status", "doctor"}
    <2>1. \A t : Lasts(t)' <=> Lasts(t)
      BY <1>2 DEF Lasts
    <2>2. BackendRead => BackendRead'
      BY <1>2 DEF BackendRead
    <2>3. RootsCounted => RootsCounted'
      <3>1. Cardinality(Here.roots) <= Cardinality(Here'.roots) /\ Cardinality(Stood.roots) \in Nat
            /\ Cardinality(Here.roots) \in Nat /\ Cardinality(Here'.roots) \in Nat
        <4>1. Here'.roots \subseteq Ids /\ Here.roots \subseteq Here'.roots /\ Stood.roots \subseteq Here.roots
          BY <1>2, <1>3 DEF Planes
        <4>2. Here.roots \subseteq Ids
          BY <4>1, SMTT(30)
        <4>. QED  BY <4>1, <4>2, Counting
      <3>. QED  BY <1>2, <2>2, <3>1 DEF RootsCounted
    <2>4. ASSUME NEW fans, ObjectsCounted(fans)
          PROVE  ObjectsCounted(fans)'
      <3>. PICK was, now, then : /\ was = Outside(before.plane[call.place].file.held, fans)
                                 /\ now = Outside(plane[call.place].file.held, fans)
                                 /\ then = Outside(plane'[call.place].file.held, fans)
        OBVIOUS
      <3>1. now \subseteq then /\ then \subseteq Ids /\ was \subseteq now
        BY <1>2, <1>3, SMTT(30) DEF Outside, Planes
      <3>2. /\ Cardinality(now) <= Cardinality(then) /\ Cardinality(was) \in Nat
            /\ Cardinality(now) \in Nat /\ Cardinality(then) \in Nat
        <4>1. now \subseteq Ids
          BY <3>1
        <4>. QED  BY <3>1, <4>1, Counting
      <3>3. /\ Outside(before.plane[call.place].file.held, fans)' = was
            /\ Outside(plane[call.place].file.held, fans)' = then
        BY <1>2 DEF Outside
      <3>4. RootsCounted'
        BY <2>3, <2>4 DEF ObjectsCounted
      <3>5. \A n : n \in 0..Cardinality(now) => n \in 0..Cardinality(then)
        BY <3>2
      <3>. QED  BY <1>2, <2>4, <3>3, <3>4, <3>5 DEF ObjectsCounted
    <2>5. ASSUME NEW t, PaperStage(t)
          PROVE  PaperStage(t)'
      <3>. PICK lab : lab = LabFor
        OBVIOUS
      <3>1. LabFor' = lab
        BY <1>1, LabLasts
      <3>2. call.ask.verb = "doctor" /\ ObjectsCounted({})'
        BY <2>4, <2>5 DEF PaperStage
      <3>3. CASE lab = NoLab
        BY <1>2, <2>5, <3>1, <3>2, <3>3 DEF PaperStage
      <3>4. CASE lab # NoLab
        <4>1. /\ \A ledger \in call'.got.ledgers : LedgerTrue(ledger)'
              /\ papers'[lab].manifest = papers[lab].manifest
              /\ papers'[lab].placed = papers[lab].placed
          BY <1>1, <1>2, <2>5, <3>4, LedgerLasts DEF PaperStage
        <4>2. Reported' = Reported
          BY <1>2 DEF Reported
        <4>. QED  BY <1>2, <2>5, <3>1, <3>2, <3>4, <4>1, <4>2 DEF PaperStage
      <3>. QED  BY <3>3, <3>4
    <2>. PICK t : t = call.todo
      OBVIOUS
    <2>6. ReportStage(t)
      BY <1>1, <1>4 DEF Stages
    <2>7. ReportStage(t)'
      BY <1>2, <2>1, <2>2, <2>3, <2>4, <2>5, <2>6 DEF ReportStage
    <2>. QED  BY <1>2, <1>4, <2>7, ReportStaged
  <1>5. ASSUME NEW row, RowTrue(row)
        PROVE  RowTrue(row)'
    BY <1>1, <1>2, <1>5, RowLasts
  <1>6. ASSUME NEW root, Walked(root)
        PROVE  Walked(root)'
    <2>1. \A id : Below(id)' = Below(id)
      BY DEF Below, Closed
    <2>. PICK over, fails : over = Below(root) /\ fails = call.got.fails
      OBVIOUS
    <2>2. VerdictTrue(Row(root, fails, 0), over, Stood, Here) => VerdictTrue(Row(root, fails, 0), over, Stood, Here)'
      BY <1>1, <1>2 DEF VerdictTrue
    <2>3. VerdictTrue(Row(root, call.got.fails, 0), Below(root), Stood, Here)
            => VerdictTrue(Row(root, call.got.fails, 0), Below(root), Stood, Here)'
      BY <1>2, <2>1, <2>2 DEF VerdictTrue
    <2>. QED  BY <1>2, <1>6, <2>3 DEF Walked
  <1>7. CASE call.ask.verb = "ls" \/ (call.ask.verb = "verify" /\ call.ask.id = "every")
    <2>1. On' = On /\ ListedRoots' = ListedRoots
      BY <1>2 DEF On, Left, ListedRoots, Precedes
    <2>2. ASSUME NEW roots, RowsSoFar(roots)
          PROVE  RowsSoFar(roots)'
      BY <1>2, <1>5, <2>1, <2>2 DEF RowsSoFar
    <2>3. Walked(On) => Walked(On)'
      <3>. PICK root : root = On
        OBVIOUS
      <3>1. Walked(On) => Walked(root)'
        BY <1>6
      <3>. QED  BY <2>1, <3>1 DEF Walked
    <2>4. ListStage(call.todo)
      BY <1>1, <1>7 DEF Stages
    <2>5. ListStage(call.todo)'
      BY <1>2, <2>2, <2>3, <2>4 DEF ListStage
    <2>. QED  BY <1>2, <1>7, <2>5 DEF Stages
  <1>8. CASE call.ask.verb = "verify" /\ call.ask.id # "every"
    <2>1. AuditStage(call.todo)
      BY <1>1, <1>8 DEF Stages
    <2>2. Walked(call.ask.id) => Walked(call.ask.id)'
      <3>. PICK root : root = call.ask.id
        OBVIOUS
      <3>1. Walked(call.ask.id) => Walked(root)'
        BY <1>6
      <3>. QED  BY <1>2, <3>1 DEF Walked
    <2>3. AuditStage(call.todo)'
      BY <1>2, <1>5, <2>1, <2>2 DEF AuditStage
    <2>. QED  BY <1>2, <1>8, <2>3 DEF Stages
  <1>9. CASE call.ask.verb = "show"
    <2>1. ShowStage(call.todo)
      BY <1>1, <1>9 DEF Stages
    <2>2. \A t : ShowEnds(t)' <=> ShowEnds(t)
      BY <1>2 DEF ShowEnds
    <2>3. ASSUME NEW roots, NamesSoFar(roots)
          PROVE  NamesSoFar(roots)'
      <3>1. Subjects' = Subjects
        BY <1>2 DEF Subjects
      <3>. QED  BY <1>2, <2>3, <3>1 DEF NamesSoFar
    <2>4. ShowStage(call.todo)'
      BY <1>2, <2>1, <2>2, <2>3 DEF ShowStage
    <2>. QED  BY <1>2, <1>9, <2>4 DEF Stages
  <1>10. CASE call.ask.verb = "publish"
    <2>1. PublishStage(call.todo)
      BY <1>1, <1>10 DEF Stages
    <2>2. PublishStage(call.todo)'
      BY <1>2, <2>1, Zenon DEF PublishStage, Loaded
    <2>. QED  BY <1>2, <1>10, <2>2 DEF Stages
  <1>11. CASE call.ask.verb = "name"
    <2>1. NameStage(call.todo)
      BY <1>1, <1>11 DEF Stages
    <2>2. NameStage(call.todo)'
      BY <1>2, <2>1, Zenon DEF NameStage, NameFor
    <2>. QED  BY <1>2, <1>11, <2>2 DEF Stages
  <1>12. CASE call.ask.verb = "put"
    <2>1. PutStage(call.todo)
      BY <1>1, <1>12 DEF Stages
    <2>2. PutStage(call.todo)'
      BY <1>2, <2>1 DEF PutStage
    <2>. QED  BY <1>2, <1>12, <2>2 DEF Stages
  <1>13. call.ask.verb \in Working
    BY DEF ShellReports, Moving
  <1>. QED  BY <1>4, <1>7, <1>8, <1>9, <1>10, <1>11, <1>12, <1>13 DEF Working

(* So nothing anyone else does touches the invariant.                      *)
LEMMA GrowsKept ==
    ASSUME ShellReports, Grows
    PROVE  ShellReports'
  <1>1. Stages'
    BY StagesLast
  <1>2. call' = call
    BY DEF Grows
  <1>3. Rooted' = Rooted
    BY <1>2 DEF Rooted
  <1>4. Untouched' /\ Ended' /\ Moving'
    BY <1>2, <1>3, SMTT(30) DEF ShellReports, Untouched, Ended, Moving, Going
  <1>. QED  BY <1>1, <1>4 DEF ShellReports, Grows

(* What no step writes stays as it was.                                    *)
LEMMA DiskStays ==
    ASSUME ShellReports, UNCHANGED <<plane, papers, before>>
    PROVE  PlanesGrown' /\ PapersEmitted'
  BY DEF ShellReports, PlanesGrown, PapersEmitted

(* An operator who edits a config touches nothing that is reported.        *)
LEMMA UntouchedKept ==
    ASSUME ShellReports, UNCHANGED <<plane, papers, call, before>>, meddled \subseteq meddled'
    PROVE  ShellReports'
  <1>1. Grows
    BY DiskStays DEF Grows
  <1>. QED  BY <1>1, GrowsKept

(* Another process adds to the store of a verb at work.                    *)
LEMMA OtherProcessReports ==
    ASSUME ShellInv, ShellReports, OtherProcess
    PROVE  ShellReports'
  <1>1. call.at = "work" /\ AtWork
    BY DEF OtherProcess, Elsewhere, ShellInv, Looking, AtWork
  <1>2. PICK one \in Changes : plane' = [plane EXCEPT ![call.place][call.backend] = one]
    BY DEF OtherProcess
  <1>3. UNCHANGED <<papers, call, before, meddled>>
    BY DEF OtherProcess
  <1>4. /\ one \in Planes /\ Here.held \subseteq one.held
        /\ Here.damaged \subseteq one.damaged /\ Here.roots \subseteq one.roots
    <2>1. Here \in Planes
      BY <1>1, PlaneKept
    <2>2. PICK id \in Ids :
            \/ one = [Here EXCEPT !.held = @ \cup {id}]
            \/ one = [Here EXCEPT !.roots = @ \cup {id}]
            \/ one = [Here EXCEPT !.damaged = @ \cup {id}]
      BY <2>1 DEF Changes, Planes
    <2>. QED  BY <2>1, <2>2 DEF Planes
  <1>5. /\ PlanesGrown'
        /\ \A p \in Places, b \in Backends :
             /\ plane[p][b].held \subseteq plane'[p][b].held
             /\ plane[p][b].damaged \subseteq plane'[p][b].damaged
             /\ plane[p][b].roots \subseteq plane'[p][b].roots
    BY <1>1, <1>2, <1>3, <1>4, PlaneGrows
  <1>6. PapersEmitted'
    BY <1>3 DEF ShellReports, PapersEmitted
  <1>7. Grows
    BY <1>3, <1>5, <1>6 DEF Grows
  <1>. QED  BY <1>7, GrowsKept

(* An emitter writes one ledger anew.                                      *)
LEMMA EmitReports ==
    ASSUME ShellReports, Emit
    PROVE  ShellReports'
  <1>1. UNCHANGED <<plane, call, before, meddled>>
    BY DEF Emit
  <1>2. PapersEmitted /\ DOMAIN papers = DOMAIN before.papers
    BY DEF ShellReports, PapersEmitted
  <1>3. PICK d \in DOMAIN papers : papers[d] # NoLab /\
          \E stem \in DOMAIN papers[d].files : papers' = [papers EXCEPT ![d].files[stem] = "one"]
    BY DEF Emit
  <1>4. papers[d] \in Labs /\ d \in DOMAIN before.papers /\ before.papers[d] # NoLab
    BY <1>2, <1>3 DEF PapersEmitted
  <1>5. PICK stem \in Asked : papers' = [papers EXCEPT ![d].files[stem] = "one"]
    BY <1>3, <1>4 DEF Labs
  <1>. PICK lab : lab = papers[d]
    OBVIOUS
  <1>. PICK anew : anew = [lab EXCEPT !.files = [lab.files EXCEPT ![stem] = "one"]]
    OBVIOUS
  <1>6. /\ anew \in Labs /\ anew.manifest = lab.manifest /\ anew.placed = lab.placed
        /\ \A s \in Asked : anew.files[s] \in {lab.files[s], "one"}
    BY <1>4, <1>5 DEF Labs
  <1>7. papers' = [papers EXCEPT ![d] = anew]
    BY <1>2, <1>4, <1>5 DEF Labs
  <1>8. /\ papers' \in [DOMAIN before.papers -> Labs \cup {NoLab}]
        /\ papers'[d] = anew /\ \A e \in DOMAIN before.papers : e # d => papers'[e] = papers[e]
        /\ anew # NoLab
    BY <1>2, <1>4, <1>6, <1>7, ShellAssumption DEF PapersEmitted
  <1>9. \A e \in DOMAIN before.papers :
          IF papers[e] = NoLab THEN papers'[e] = NoLab
          ELSE /\ papers'[e] # NoLab
               /\ papers'[e].manifest = papers[e].manifest
               /\ papers'[e].placed = papers[e].placed
               /\ \A s \in Asked : papers'[e].files[s] \in {papers[e].files[s], "one"}
    BY <1>2, <1>3, <1>6, <1>8 DEF PapersEmitted
  <1>10. PapersEmitted'
    <2>1. \A e \in DOMAIN before.papers :
            IF before.papers[e] = NoLab THEN papers'[e] = NoLab
            ELSE /\ papers'[e] # NoLab
                 /\ papers'[e].manifest = before.papers[e].manifest
                 /\ papers'[e].placed = before.papers[e].placed
                 /\ \A s \in Asked : papers'[e].files[s] \in {before.papers[e].files[s], "one"}
      BY <1>2, <1>9 DEF PapersEmitted
    <2>. QED  BY <1>1, <1>2, <1>8, <2>1, SMTT(30) DEF PapersEmitted
  <1>11. PlanesGrown'
    BY <1>1 DEF ShellReports, PlanesGrown
  <1>12. Grows
    BY <1>1, <1>9, <1>10, <1>11 DEF Grows
  <1>. QED  BY <1>12, GrowsKept

(* A step before there is a store.                                         *)
LEMMA EarlyKept ==
    ASSUME ShellReports, UNCHANGED <<plane, papers, before>>, Untouched', Ended',
           call'.at # "work", call'.backend = "none"
    PROVE  ShellReports'
  <1>1. ~Going'
    BY DEF Going
  <1>. QED  BY <1>1, DiskStays DEF ShellReports, Moving, Stages

(* A command line is judged before any store is looked for.                *)
LEMMA BeginReports ==
    ASSUME ShellInv, ShellReports, NEW ask \in Asks, Begin(ask)
    PROVE  ShellReports'
  <1>. DEFINE c == [Prompt EXCEPT !.ask = ask, !.at = "locate"]
  <1>1. UNCHANGED <<plane, papers, before>>
    BY DEF Begin, Kept
  <1>2. ask \in CommandLines
    BY ShellAssumption
  <1>3. /\ c.ask = ask /\ c.at = "locate" /\ c.backend = "none" /\ c.got = Nothing
        /\ c.todo = <<>> /\ c.wrote = {} /\ c.out = FALSE /\ c.faults = 0
    BY DEF Prompt
  <1>4. \/ call' = [c EXCEPT !.at = "parse"] /\ ask.verb = "misspelt"
        \/ call' = [c EXCEPT !.at = "over", !.answer = "ok", !.out = TRUE] /\ ask.verb = "help"
        \/ call' = [c EXCEPT !.at = "over", !.answer = "KindTagOnProgram"] /\ ask.verb = "put"
        \/ call' = c /\ ask.verb \in Working
    BY <1>2 DEF Begin, Landing, CommandLines, Working
  <1>5. \/ /\ call'.at = "parse" /\ ask.verb = "misspelt" /\ call'.out = FALSE
        \/ /\ call'.at = "over" /\ call'.answer = "ok" /\ call'.out = TRUE /\ ask.verb = "help"
        \/ /\ call'.at = "over" /\ call'.answer = "KindTagOnProgram" /\ call'.out = FALSE /\ ask.verb = "put"
        \/ /\ call'.at = "locate" /\ call'.out = FALSE /\ ask.verb \in Working
    BY <1>4, ZenonT(45) DEF Prompt
  <1>6. /\ call'.ask = ask /\ call'.backend = "none" /\ call'.got = Nothing /\ call'.todo = <<>>
        /\ call'.wrote = {} /\ call'.faults = 0
    BY <1>4, ZenonT(45) DEF Prompt
  <1>. HIDE DEF c
  <1>7. Untouched'
    BY <1>5, <1>6 DEF Untouched, Working
  <1>8. Rooted' = {}
    BY <1>6 DEF Rooted
  <1>9. Ended'
    <2>1. call'.out \in BOOLEAN /\ (call'.at = "over" => call'.out = (call'.answer = "ok"))
      BY <1>5
    <2>2. call'.ask.verb = "misspelt" => call'.at # "over"
      BY <1>5, <1>6
    <2>3. call'.at = "over" /\ call'.answer = "ok" => call'.ask.verb = "help"
      BY <1>5, <1>6
    <2>4. call'.at = "over" => call'.answer # "unexpected"
      BY <1>5
    <2>. QED  BY <1>6, <1>8, <2>1, <2>2, <2>3, <2>4 DEF Ended
  <1>. QED  BY <1>1, <1>5, <1>6, <1>7, <1>9, EarlyKept

(* The help that was asked for is printed, the one that was not is dropped *)
(* to its complaints.                                                      *)
LEMMA ShowHelpReports ==
    ASSUME ShellInv, ShellReports, ShowHelp
    PROVE  ShellReports'
  <1>1. UNCHANGED <<plane, papers, before>> /\ call.at = "parse"
    BY DEF ShowHelp, Kept
  <1>2. /\ call.got = Nothing /\ call.wrote = {} /\ call.out = FALSE /\ call.faults = 0
        /\ call.ask \in Asks /\ call.ask.verb = "misspelt" /\ call.backend = "none" /\ CallShape(call)
    BY <1>1 DEF ShellReports, Untouched, Ended, ShellInv, ShellTyped, Looking
  <1>. DEFINE asked == call.ask.errors = <<>>
              out == LogDropping(TRUE, "").out \/ (asked /\ LogDropping(LogDropping(TRUE, "").armed, "document").out)
              answer == IF asked THEN "ok" ELSE "misspelt"
              told == Told(call.ask.errors)
  <1>3. asked \in BOOLEAN /\ out = asked /\ answer \in {"ok", "misspelt"} /\ (asked <=> answer = "ok")
    BY DEF LogDropping
  <1>4. call' = [call EXCEPT !.at = "over", !.answer = answer, !.out = out, !.got.rows = told]
    BY DEF ShowHelp
  <1>. HIDE DEF asked, out, answer, told
  <1>5. /\ call'.at = "over" /\ call'.answer = answer /\ call'.out = out /\ call'.got.rows = told
        /\ call'.ask = call.ask /\ call'.backend = "none" /\ call'.wrote = {} /\ call'.faults = 0
    BY <1>2, <1>4 DEF CallShape
  <1>6. Rooted' = {}
    BY <1>5 DEF Rooted
  <1>7. Ended'
    <2>1. call'.out \in BOOLEAN /\ call'.out = (call'.answer = "ok") /\ call'.answer # "unexpected"
      BY <1>3, <1>5
    <2>2. call'.got.rows = Told(call'.ask.errors)
      BY <1>5 DEF told
    <2>3. call'.ask \in Asks /\ call'.ask.verb = "misspelt"
      BY <1>2, <1>5
    <2>. QED  BY <1>5, <1>6, <2>1, <2>2, <2>3 DEF Ended
  <1>8. Untouched'
    BY <1>5 DEF Untouched
  <1>. QED  BY <1>1, <1>5, <1>7, <1>8, EarlyKept

(* Looking for the store says nothing.                                     *)
LEMMA LocateReports ==
    ASSUME ShellInv, ShellReports, Locate
    PROVE  ShellReports'
  <1>1. UNCHANGED <<plane, papers, before>> /\ call.at = "locate"
    BY DEF Locate, Kept
  <1>2. /\ call.got = Nothing /\ call.wrote = {} /\ call.out = FALSE /\ call.faults = 0
        /\ call.todo = <<>> /\ call.ask \in Asks /\ call.ask.verb \in Working
        /\ call.backend = "none" /\ CallShape(call)
    BY <1>1 DEF ShellReports, Untouched, Ended, ShellInv, ShellTyped, Looking
  <1>3. \/ \E p : call' = [call EXCEPT !.place = p, !.at = "open"]
        \/ call' = [call EXCEPT !.look = @ + 1]
        \/ \E why \in {"NotAStore", "NoStoreFound"} :
             call' = [call EXCEPT !.todo = <<>>, !.at = "over", !.answer = why]
    BY DEF Locate, Refuses
  <1>. DEFINE blank == /\ call'.ask = call.ask /\ call'.backend = "none" /\ call'.got = Nothing
                       /\ call'.todo = <<>> /\ call'.wrote = {} /\ call'.out = FALSE /\ call'.faults = 0
  <1>4. /\ blank
        /\ \/ call'.at \in {"locate", "open"}
           \/ call'.at = "over" /\ call'.answer \in {"NotAStore", "NoStoreFound"}
    <2>1. ASSUME NEW p, call' = [call EXCEPT !.place = p, !.at = "open"]
          PROVE  blank /\ call'.at = "open"
      BY <1>2, <2>1 DEF CallShape
    <2>2. ASSUME call' = [call EXCEPT !.look = @ + 1]
          PROVE  blank /\ call'.at = "locate"
      BY <1>1, <1>2, <2>2 DEF CallShape
    <2>3. ASSUME NEW why \in {"NotAStore", "NoStoreFound"},
                 call' = [call EXCEPT !.todo = <<>>, !.at = "over", !.answer = why]
          PROVE  blank /\ call'.at = "over" /\ call'.answer = why
      BY <1>2, <2>3 DEF CallShape
    <2>. HIDE DEF blank
    <2>. QED  BY <1>3, <2>1, <2>2, <2>3, Zenon
  <1>5. Rooted' = {}
    BY <1>4 DEF Rooted
  <1>6. Ended'
    <2>1. call'.at = "over" => call'.answer # "ok" /\ call'.answer # "unexpected"
      BY <1>4
    <2>4. call'.out \in BOOLEAN /\ (call'.at = "over" => call'.out = (call'.answer = "ok"))
      BY <1>4, <2>1
    <2>2. call'.ask \in Asks /\ call'.ask.verb # "misspelt"
      BY <1>2, <1>4 DEF Working
    <2>3. call'.out = FALSE /\ call'.wrote = {} /\ call'.faults = 0
      BY <1>4
    <2>. QED  BY <1>5, <2>1, <2>2, <2>3, <2>4 DEF Ended
  <1>7. Untouched'
    BY <1>2, <1>4 DEF Untouched
  <1>. QED  BY <1>1, <1>4, <1>6, <1>7, EarlyKept

(* The steps of a short list, one after the other.                         *)
LEMMA Laid ==
    ASSUME NEW a, NEW b, NEW c, NEW d
    PROVE  /\ IsSequence(<<a>>) /\ Only(<<a>>, a)
           /\ IsSequence(<<a, b>>) /\ Begins(<<a, b>>, a) /\ Only(Tail(<<a, b>>), b)
           /\ IsSequence(<<a, b, c>>) /\ Begins(<<a, b, c>>, a) /\ Begins(Tail(<<a, b, c>>), b)
           /\ Only(Tail(Tail(<<a, b, c>>)), c)
           /\ IsSequence(<<a, b, c, d>>) /\ Begins(<<a, b, c, d>>, a) /\ Begins(Tail(<<a, b, c, d>>), b)
           /\ Begins(Tail(Tail(<<a, b, c, d>>)), c) /\ Only(Tail(Tail(Tail(<<a, b, c, d>>))), d)
           /\ Tail(Tail(Tail(<<a, b, c>>))) = <<>>
  <1>1. Only(<<a>>, a) /\ Only(<<b>>, b) /\ Only(<<c>>, c) /\ Only(<<d>>, d)
    BY Spelled DEF Begins, Only
  <1>2. /\ Begins(<<a, b>>, a) /\ Tail(<<a, b>>) = <<b>> /\ Begins(<<b, c>>, b) /\ Tail(<<b, c>>) = <<c>>
        /\ Begins(<<c, d>>, c) /\ Tail(<<c, d>>) = <<d>>
    BY Spelled DEF Begins
  <1>3. /\ Begins(<<a, b, c>>, a) /\ Tail(<<a, b, c>>) = <<b, c>>
        /\ Begins(<<b, c, d>>, b) /\ Tail(<<b, c, d>>) = <<c, d>>
    BY Spelled DEF Begins
  <1>4. Begins(<<a, b, c, d>>, a) /\ Tail(<<a, b, c, d>>) = <<b, c, d>>
    BY Spelled DEF Begins
  <1>5. IsSequence(<<a>>) /\ IsSequence(<<a, b>>) /\ IsSequence(<<a, b, c>>) /\ IsSequence(<<a, b, c, d>>)
    BY Spelled
  <1>6. Tail(Tail(Tail(<<a, b, c>>))) = <<>>
    BY <1>1, <1>2, <1>3 DEF Only
  <1>. QED  BY <1>1, <1>2, <1>3, <1>4, <1>5, <1>6

(* Every verb begins at the first of its stages.                           *)
LEMMA FirstStage ==
    ASSUME NEW ask, ask.verb \in Working, NEW t, t = StepsOf(ask),
           call'.ask = ask, call'.todo = t, call'.got = Nothing
    PROVE  /\ IsSequence(t) /\ t # <<>> /\ Stages'
  <1>1. /\ call'.got.rows = {} /\ ~call'.got.walking /\ ~call'.got.unread /\ call'.got.ledgers = {}
    BY DEF Nothing
  <1>2. CASE ask.verb \in {"status", "doctor"}
    <2>. PICK a, b, c, d : a = Do("config", "") /\ b = Do("roots", "") /\ c = Do("objects", "") /\ d = Do("lab", "")
      OBVIOUS
    <2>1. CASE ask.verb = "status"
      <3>1. t = <<a, b, c>>
        BY <2>1 DEF StepsOf, StatusSteps
      <3>2. Lasts(<<>>)'
        BY <2>1 DEF Lasts
      <3>3. /\ IsSequence(t) /\ Begins(t, a) /\ Begins(Tail(t), b) /\ Only(Tail(Tail(t)), c)
            /\ Tail(Tail(Tail(t))) = <<>>
        BY <3>1, Laid
      <3>4. ReportStage(t)'
        BY <3>2, <3>3 DEF ReportStage, Only
      <3>5. ReportStage(call.todo)'
        BY <3>2, <3>3 DEF ReportStage, Only
      <3>. QED  BY <2>1, <3>3, <3>5 DEF Stages, Begins
    <2>2. CASE ask.verb = "doctor"
      <3>1. t = <<a, b, c, d>>
        BY <2>2 DEF StepsOf, DoctorSteps
      <3>2. /\ IsSequence(t) /\ Begins(t, a) /\ Begins(Tail(t), b) /\ Begins(Tail(Tail(t)), c)
            /\ Only(Tail(Tail(Tail(t))), d)
        BY <3>1, Laid, ZenonT(45)
      <3>. PICK last : last = Tail(Tail(Tail(t)))
        OBVIOUS
      <3>3. Lasts(last)'
        BY <1>1, <2>2, <3>2 DEF Lasts
      <3>4. ReportStage(call.todo)'
        BY <3>2, <3>3 DEF ReportStage
      <3>. QED  BY <2>2, <3>2, <3>4 DEF Stages, Begins
    <2>. QED  BY <1>2, <2>1, <2>2
  <1>3. CASE ask.verb = "ls"
    <2>. PICK a : a = Do("listing", "row")
      OBVIOUS
    <2>1. t = <<a>>
      BY <1>3 DEF StepsOf, LsSteps
    <2>2. IsSequence(t) /\ Only(t, a)
      BY <2>1, Laid
    <2>3. ListStage(call.todo)'
      BY <1>1, <1>3, <2>2 DEF ListStage
    <2>. QED  BY <1>3, <2>2, <2>3 DEF Stages, Only, Begins
  <1>4. CASE ask.verb = "verify" /\ ask.id = "every"
    <2>. PICK a : a = Do("listing", "audit")
      OBVIOUS
    <2>1. t = <<a>>
      BY <1>4 DEF StepsOf, VerifySteps
    <2>2. IsSequence(t) /\ Only(t, a)
      BY <2>1, Laid
    <2>3. ListStage(call.todo)'
      BY <1>1, <1>4, <2>2 DEF ListStage
    <2>. QED  BY <1>4, <2>2, <2>3 DEF Stages, Only, Begins
  <1>5. CASE ask.verb = "verify" /\ ask.id # "every"
    <2>. PICK a, b : a = Do("address", "") /\ b = Do("audit", ask.id)
      OBVIOUS
    <2>1. t = <<a, b>>
      BY <1>5 DEF StepsOf, VerifySteps
    <2>2. IsSequence(t) /\ Begins(t, a) /\ Only(Tail(t), b)
      BY <2>1, Laid
    <2>3. AuditStage(call.todo)'
      BY <1>1, <1>5, <2>2 DEF AuditStage
    <2>. QED  BY <1>5, <2>2, <2>3 DEF Stages, Begins
  <1>6. CASE ask.verb = "show"
    <2>. PICK a, b, c : a = Do("address", "") /\ b = Do("load", "") /\ c = Do("names", "")
      OBVIOUS
    <2>1. t = IF ask.json THEN <<a, b>> ELSE <<a, b, c>>
      BY <1>6 DEF StepsOf, ShowSteps
    <2>. PICK last : last = Tail(Tail(t))
      OBVIOUS
    <2>2. CASE ask.json
      <3>1. IsSequence(t) /\ Begins(t, a) /\ Only(Tail(t), b)
        BY <2>1, <2>2, Laid
      <3>2. ShowEnds(last)'
        BY <2>2, <3>1 DEF ShowEnds, Only
      <3>3. ShowStage(call.todo)'
        BY <1>1, <3>1, <3>2 DEF ShowStage, Only
      <3>. QED  BY <1>6, <3>1, <3>3 DEF Stages, Begins
    <2>3. CASE ~ask.json
      <3>1. IsSequence(t) /\ Begins(t, a) /\ Begins(Tail(t), b) /\ Only(Tail(Tail(t)), c)
        BY <2>1, <2>3, Laid
      <3>2. ShowEnds(last)'
        BY <2>3, <3>1 DEF ShowEnds
      <3>3. ShowStage(call.todo)'
        BY <1>1, <3>1, <3>2 DEF ShowStage
      <3>. QED  BY <1>6, <3>1, <3>3 DEF Stages, Begins
    <2>. QED  BY <2>2, <2>3
  <1>7. CASE ask.verb = "publish"
    <2>. PICK a, b, c : a = Do("address", "") /\ b = Do("load", "") /\ c = Do("publish", ask.id)
      OBVIOUS
    <2>1. t = <<a, b, c>>
      BY <1>7 DEF StepsOf, PublishSteps
    <2>2. IsSequence(t) /\ Begins(t, a) /\ Begins(Tail(t), b) /\ Only(Tail(Tail(t)), c)
      BY <2>1, Laid, ZenonT(45)
    <2>3. PublishStage(call.todo)'
      BY <2>2 DEF PublishStage
    <2>. QED  BY <1>7, <2>2, <2>3 DEF Stages, Begins
  <1>8. CASE ask.verb = "name"
    <2>. PICK a, b, c, d : a = Do("text", "") /\ b = Do("address", "") /\ c = Do("load", "") /\ d = Do("subject", "")
      OBVIOUS
    <2>1. t = <<a, b, c, d>>
      BY <1>8 DEF StepsOf, NameSteps
    <2>2. /\ IsSequence(t) /\ Begins(t, a) /\ Begins(Tail(t), b) /\ Begins(Tail(Tail(t)), c)
          /\ Only(Tail(Tail(Tail(t))), d)
      BY <2>1, Laid, ZenonT(45)
    <2>3. NameStage(call.todo)'
      BY <2>2 DEF NameStage
    <2>. QED  BY <1>8, <2>2, <2>3 DEF Stages, Begins
  <1>9. CASE ask.verb = "put" /\ ask.program
    <2>. PICK a, b : a = Do("file", "") /\ b = Do("document", "")
      OBVIOUS
    <2>1. t = <<a, b>>
      BY <1>9 DEF StepsOf, PutDocumentSteps
    <2>2. IsSequence(t) /\ Begins(t, a) /\ Only(Tail(t), b)
      BY <2>1, Laid
    <2>3. PutStage(call.todo)'
      BY <1>9, <2>2 DEF PutStage
    <2>. QED  BY <1>9, <2>2, <2>3 DEF Stages, Begins
  <1>10. CASE ask.verb = "put" /\ ~ask.program
    <2>. PICK a, b, c : a = Do("tag", "") /\ b = Do("file", "") /\ c = Do("bytes", "")
      OBVIOUS
    <2>1. t = <<a, b, c>>
      BY <1>10 DEF StepsOf, PutFileSteps
    <2>2. IsSequence(t) /\ Begins(t, a) /\ Begins(Tail(t), b) /\ Only(Tail(Tail(t)), c)
      BY <2>1, Laid
    <2>3. PutStage(call.todo)'
      BY <1>10, <2>2 DEF PutStage
    <2>. QED  BY <1>10, <2>2, <2>3 DEF Stages, Begins
  <1>. QED  BY <1>2, <1>3, <1>4, <1>5, <1>6, <1>7, <1>8, <1>9, <1>10 DEF Working

(* A store that opens has its verb begin.                                  *)
LEMMA OpenReports ==
    ASSUME ShellInv, ShellReports, Open
    PROVE  ShellReports'
  <1>1. UNCHANGED <<plane, papers, before>> /\ call.at = "open"
    BY DEF Open
  <1>2. /\ call.got = Nothing /\ call.wrote = {} /\ call.out = FALSE /\ call.faults = 0
        /\ call.ask \in Asks /\ call.ask.verb \in Working /\ call.backend = "none"
        /\ CallShape(call) /\ call.place \in Places /\ tree[call.place].config \in ConfigFiles \cup {NoFile}
    BY <1>1 DEF ShellReports, Untouched, Ended, ShellInv, ShellTyped, Looking, Found, Directories
  <1>3. CASE Read(tree[call.place]) = Unreadable
    <2>1. call' = [call EXCEPT !.todo = <<>>, !.at = "over", !.answer = "ConfigUnreadable"]
      BY <1>3, Readings DEF Open, Refuses
    <2>2. /\ call'.ask = call.ask /\ call'.backend = "none" /\ call'.got = Nothing /\ call'.todo = <<>>
          /\ call'.wrote = {} /\ call'.out = FALSE /\ call'.faults = 0
          /\ call'.at = "over" /\ call'.answer = "ConfigUnreadable"
      BY <1>2, <2>1 DEF CallShape
    <2>3. Rooted' = {}
      BY <2>2 DEF Rooted
    <2>4. Ended'
      <3>1. call'.ask \in Asks /\ call'.ask.verb # "misspelt"
        BY <1>2, <2>2 DEF Working
      <3>2. call'.out \in BOOLEAN /\ call'.out = (call'.answer = "ok")
        BY <2>2
      <3>. QED  BY <2>2, <2>3, <3>1, <3>2 DEF Ended
    <2>5. Untouched'
      BY <2>2 DEF Untouched
    <2>. QED  BY <1>1, <2>2, <2>4, <2>5, EarlyKept
  <1>4. CASE Read(tree[call.place]) # Unreadable
    <2>. PICK backend, t : backend = BackendIn(tree[call.place]) /\ t = StepsOf(call.ask)
      OBVIOUS
    <2>1. call' = [call EXCEPT !.backend = backend, !.at = "work", !.todo = t]
      BY <1>4, Readings DEF Open
    <2>2. /\ call'.ask = call.ask /\ call'.backend = backend /\ call'.got = Nothing /\ call'.todo = t
          /\ call'.wrote = {} /\ call'.out = FALSE /\ call'.faults = 0 /\ call'.place = call.place
          /\ call'.at = "work"
      BY <1>2, <2>1 DEF CallShape
    <2>3. backend \in Backends
      BY <1>2, <1>4 DEF Read, BackendIn, ConfigFiles, Backends
    <2>4. IsSequence(t) /\ t # <<>> /\ Stages'
      BY <1>2, <2>2, FirstStage
    <2>5. Rooted' = {}
      BY <2>2 DEF Rooted
    <2>6. Ended'
      <3>1. call'.faults \in Nat /\ call'.at # "over"
        BY <2>2
      <3>3. call'.out \in BOOLEAN
        <4>1. call'.out = FALSE
          BY <2>2
        <4>. QED  BY <4>1
      <3>2. /\ call'.ask.verb \notin {"put", "name", "publish"} => call'.wrote = {}
            /\ call'.ask.verb = "name" => \A step \in call'.wrote : step.of \subseteq Names
        BY <2>2
      <3>. QED  BY <3>1, <3>2, <3>3 DEF Ended
    <2>7. Untouched'
      BY <2>2 DEF Untouched
    <2>8. Moving'
      BY <1>2, <2>2, <2>3, <2>4, <2>5 DEF Moving
    <2>9. PlanesGrown' /\ PapersEmitted'
      BY <1>1, DiskStays
    <2>. QED  BY <2>4, <2>6, <2>7, <2>8, <2>9 DEF ShellReports
  <1>. QED  BY <1>3, <1>4

(* At first there is no report.                                            *)
LEMMA ReportsStart == ShellInit => ShellReports
  <1>. SUFFICES ASSUME ShellInit  PROVE  ShellReports
    OBVIOUS
  <1>1. /\ before \in Worlds /\ plane = before.plane /\ papers = before.papers /\ call = Prompt
    BY DEF ShellInit
  <1>2. PlanesGrown
    BY <1>1, ShellAssumption DEF PlanesGrown
  <1>3. PapersEmitted
    <2>1. /\ before.papers \in [DOMAIN before.papers -> Labs \cup {NoLab}]
          /\ NoLab \notin DOMAIN before.papers
          /\ \A start \in Places \cup {"cwd"} : Above[start] \in Seq(DOMAIN before.papers)
      BY <1>1, ShellAssumption
    <2>. QED  BY <1>1, <2>1 DEF PapersEmitted
  <1>4. /\ call.at = "prompt" /\ call.got = Nothing /\ call.todo = <<>> /\ call.wrote = {}
        /\ call.out = FALSE /\ call.faults = 0 /\ call.ask.verb = "none"
    BY <1>1 DEF Prompt
  <1>5. Untouched
    BY <1>4 DEF Untouched
  <1>7. Ended
    <2>1. call.faults \in Nat /\ call.at # "over"
      BY <1>4
    <2>3. call.out \in BOOLEAN
      <3>1. call.out = FALSE
        BY <1>4
      <3>. QED  BY <3>1
    <2>2. /\ call.ask.verb \notin {"put", "name", "publish"} => call.wrote = {}
          /\ call.ask.verb = "name" => \A step \in call.wrote : step.of \subseteq Names
      BY <1>4
    <2>. QED  BY <2>1, <2>2, <2>3 DEF Ended
  <1>6. Moving /\ Stages
    BY <1>4 DEF Moving, Stages, Going
  <1>. QED  BY <1>2, <1>3, <1>5, <1>6, <1>7 DEF ShellReports

(* Every step keeps the invariant of the reports.                          *)
LEMMA ShellReportsKept == ShellInv /\ ShellReports /\ [ShellNext]_shellVars => ShellReports'
  <1>. SUFFICES ASSUME ShellInv, ShellReports, [ShellNext]_shellVars  PROVE ShellReports'
    OBVIOUS
  <1>1. CASE \E ask \in Asks : Begin(ask)
    BY <1>1, BeginReports
  <1>2. CASE ShowHelp \/ Locate \/ Open
    BY <1>2, ShowHelpReports, LocateReports, OpenReports
  <1>3. CASE Steps /\ call.at = "work"
    <2>1. AtWork /\ call.ask.verb \in Working
      BY <1>3, Workable DEF AtWork
    <2>2. CASE call.ask.verb \in {"status", "doctor"}
      BY <1>3, <2>1, <2>2, ReportGoesOn
    <2>3. CASE call.ask.verb = "ls" \/ (call.ask.verb = "verify" /\ call.ask.id = "every")
      BY <1>3, <2>1, <2>3, ListGoesOn
    <2>4. CASE call.ask.verb = "verify" /\ call.ask.id # "every"
      BY <1>3, <2>1, <2>4, AuditGoesOn
    <2>5. CASE call.ask.verb = "show"
      BY <1>3, <2>1, <2>5, ShowGoesOn
    <2>6. CASE call.ask.verb = "publish"
      BY <1>3, <2>1, <2>6, PublishGoesOn
    <2>7. CASE call.ask.verb = "name"
      BY <1>3, <2>1, <2>7, NameGoesOn
    <2>8. CASE call.ask.verb = "put"
      BY <1>3, <2>1, <2>8, PutGoesOn
    <2>. QED  BY <2>1, <2>2, <2>3, <2>4, <2>5, <2>6, <2>7, <2>8 DEF Working
  <1>4. CASE Steps /\ call.at # "work"
    <2>1. \/ \E ask \in Asks : Begin(ask)
          \/ ShowHelp \/ Locate \/ Open
      BY <1>4, Zenon DEF Steps, Doing, JudgeTag, JudgeText, JudgeAddress, JudgeFile, Judge, ReadArgument,
         LoadAsked, JudgeSubject, ListNames, ReadAnnotation, Admit, Publish, ReadConfigAgain,
         ListRoots, CountObjects, CountFan, ListEvery, LoadRow, BeginAudit, Visit, Verdict,
         FindPapers, ReadAdmission, ReadRegistry, ReadLedger
    <2>. QED  BY <1>1, <1>2, <2>1
  <1>5. CASE OtherProcess \/ Emit
    BY <1>5, OtherProcessReports, EmitReports
  <1>6. CASE Exited \/ Meddle \/ UNCHANGED shellVars
    <2>1. UNCHANGED <<plane, papers, call, before>> /\ meddled \subseteq meddled'
      BY <1>6 DEF Exited, Meddle, shellVars
    <2>. QED  BY <2>1, UntouchedKept
  <1>. QED  BY <1>3, <1>4, <1>5, <1>6 DEF ShellNext

(* So what is reported is known throughout, piece by piece.                *)
THEOREM ShellReportsHolds == ShellSpec => []ShellReports
  <1>1. ShellInit => ShellReports
    BY ReportsStart
  <1>2. ShellInv /\ ShellReports /\ [ShellNext]_shellVars => ShellReports'
    BY ShellReportsKept
  <1>. QED  BY <1>1, <1>2, ShellInvHolds, PTL DEF ShellSpec

(* An invocation that has answered for a store has no step left.           *)
LEMMA Answering ==
    ASSUME ShellReports, call.at = "over", call.answer = "ok", call.backend # "none"
    PROVE  /\ Stages /\ Going /\ call.todo = <<>> /\ call.backend \in Backends
           /\ \A step : ~Begins(call.todo, step) /\ ~Only(call.todo, step)
  <1>1. Going
    BY DEF Going
  <1>2. /\ Stages /\ call.todo = <<>> /\ call.backend \in Backends
    BY <1>1 DEF ShellReports, Moving
  <1>. QED  BY <1>1, <1>2 DEF Begins, Only

(* What status and doctor counted is a count of the store.                 *)
LEMMA CountedTrue ==
    ASSUME call.backend \in Backends, Steady(call.place), ObjectsCounted({})
    PROVE  CountsTrue(Stood, Here)
  <1>1. call.got.backend = call.backend
    BY DEF ObjectsCounted, RootsCounted, BackendRead
  <1>2. call.got.roots \in Cardinality(Stood.roots)..Cardinality(Here.roots)
    BY DEF ObjectsCounted, RootsCounted
  <1>3. CASE call.backend = "sqlite"
    <2>1. call.got.objects = Uncounted
      BY <1>1, <1>3 DEF ObjectsCounted
    <2>. QED  BY <1>1, <1>2, <1>3, <2>1 DEF CountsTrue
  <1>4. CASE call.backend = "file"
    <2>1. /\ Outside(before.plane[call.place].file.held, {}) = Stood.held
          /\ Outside(plane[call.place].file.held, {}) = Here.held
      BY <1>4 DEF Outside, Stood, Here
    <2>2. /\ call.got.objects \in 0..Cardinality(Here.held)
          /\ call.faults = 0 => Cardinality(Stood.held) <= call.got.objects
      BY <1>1, <1>4, <2>1 DEF ObjectsCounted
    <2>. QED  BY <1>1, <1>2, <1>4, <2>2 DEF CountsTrue
  <1>. QED  BY <1>3, <1>4 DEF Backends

(* A finished report of counts has counted, and read every ledger.         *)
LEMMA ReportEnds ==
    ASSUME call.ask.verb \in {"status", "doctor"}, call.todo = <<>>,
           \A step : ~Begins(call.todo, step) /\ ~Only(call.todo, step),
           ReportStage(call.todo)
    PROVE  /\ ObjectsCounted({})
           /\ call.ask.verb = "doctor" => LedgersTrue
  <1>1. CASE call.ask.verb = "status"
    <2>1. ~PaperStage(call.todo)
      BY <1>1 DEF PaperStage
    <2>2. ObjectsCounted({})
      BY <2>1 DEF ReportStage
    <2>. QED  BY <1>1, <2>2
  <1>2. CASE call.ask.verb = "doctor"
    <2>1. ~Lasts(call.todo)
      BY <1>2 DEF Lasts
    <2>2. PaperStage(call.todo)
      BY <2>1 DEF ReportStage
    <2>3. ObjectsCounted({})
      BY <2>2 DEF PaperStage
    <2>4. CASE LabFor = NoLab
      BY <2>2, <2>4 DEF PaperStage, LedgersTrue
    <2>5. CASE LabFor # NoLab
      <3>1. \A ledger \in call.got.ledgers : LedgerTrue(ledger)
        BY <2>2, <2>5 DEF PaperStage
      <3>2. Reported = Asked
        <4>1. CASE /\ "admission" \in Reported /\ Reported \subseteq Asked
                   /\ \A k \in DOMAIN Stems :
                        Stems[k] \in Reported \/ \E j \in DOMAIN call.todo : call.todo[j] = Do("ledger", Stems[k])
          <5>1. DOMAIN call.todo = {}
            OBVIOUS
          <5>. QED  BY <4>1, <5>1 DEF Asked
        <4>. QED  BY <2>2, <2>5, <4>1 DEF PaperStage
      <3>3. {ledger.stem : ledger \in call.got.ledgers} = Asked
        BY <3>2 DEF Reported
      <3>4. LedgersTrue
        BY <2>5, <3>1, <3>3, Zenon DEF LedgersTrue, LedgerTrue, Reach
      <3>. QED  BY <2>3, <3>4
    <2>. QED  BY <2>4, <2>5
  <1>. QED  BY <1>1, <1>2

(* A finished listing has its rows.                                        *)
LEMMA ListEnds ==
    ASSUME call.todo = <<>>, ListStage(call.todo),
           \A step : ~Begins(call.todo, step) /\ ~Only(call.todo, step)
    PROVE  RowsTrue(Stood, Here)
  <1>1. RowsSoFar({})
    BY DEF ListStage
  <1>2. /\ \A row \in call.got.rows : RowTrue(row)
        /\ \A row, twin \in call.got.rows : row.id = twin.id => row = twin
        /\ Stood.roots \subseteq ListedRoots /\ ListedRoots \subseteq Here.roots
    BY <1>1 DEF RowsSoFar
  <1>. QED  BY <1>2 DEF RowsTrue, RowTrue, ListedRoots

(* What an invocation knows when it has answered is what a report says.    *)
LEMMA ReportsFollow == ShellReports => ReportsTrue
  <1>. SUFFICES ASSUME ShellReports,
                       call.at = "over", call.answer = "ok", call.backend # "none", Steady(call.place)
                PROVE  ReportsTrue
    BY DEF ReportsTrue
  <1>1. /\ Stages /\ Going /\ call.todo = <<>> /\ call.backend \in Backends
        /\ \A step : ~Begins(call.todo, step) /\ ~Only(call.todo, step)
    BY Answering
  <1>2. call.ask.verb = "status" => CountsTrue(Stood, Here)
    BY <1>1, ReportEnds, CountedTrue DEF Stages
  <1>3. call.ask.verb = "doctor" => CountsTrue(Stood, Here) /\ LedgersTrue
    BY <1>1, ReportEnds, CountedTrue DEF Stages
  <1>4. call.ask.verb = "ls" \/ (call.ask.verb = "verify" /\ call.ask.id = "every")
           => RowsTrue(Stood, Here)
    BY <1>1, ListEnds DEF Stages
  <1>5. call.ask.verb = "verify" /\ call.ask.id # "every" =>
           \E row \in call.got.rows : /\ row.id = call.ask.id /\ row.verdict = "ok"
                                     /\ VerdictTrue(row, Below(row.id), Stood, Here)
                                     /\ row.nodes = Cardinality(Below(row.id))
    <2>. SUFFICES ASSUME call.ask.verb = "verify", call.ask.id # "every"
                  PROVE  \E row \in call.got.rows : /\ row.id = call.ask.id /\ row.verdict = "ok"
                                     /\ VerdictTrue(row, Below(row.id), Stood, Here)
                                     /\ row.nodes = Cardinality(Below(row.id))
      OBVIOUS
    <2>1. PICK row \in call.got.rows : row.id = call.ask.id /\ row.verdict = "ok" /\ RowTrue(row)
      BY <1>1 DEF Stages, AuditStage
    <2>. QED  BY <2>1 DEF RowTrue
  <1>6. call.ask.verb = "show" => (~call.ask.json => NamesTrue(Stood, Here))
    <2>. SUFFICES ASSUME call.ask.verb = "show", ~call.ask.json
                  PROVE  NamesTrue(Stood, Here)
      OBVIOUS
    <2>1. NamesSoFar({})
      BY <1>1 DEF Stages, ShowStage, ShowEnds
    <2>. QED  BY <2>1 DEF NamesSoFar, NamesTrue, Subjects
  <1>. QED  BY <1>2, <1>3, <1>4, <1>5, <1>6 DEF ReportsTrue, Stood

(***************************************************************************)
(* Whatever others do while a verb runs, what it reports is true of the    *)
(* store as it stood at some time meanwhile (the handlers of status,       *)
(* doctor, ls, verify and show in bin/cli/commands.ts).                    *)
(***************************************************************************)
THEOREM ReportsTrueHolds == ShellSpec => []ReportsTrue
  BY ShellReportsHolds, ReportsFollow, PTL

(* The first run of short flags after an emptied flag has an end.          *)
LEMMA RunEnds ==
    ASSUME NEW errors, errors \in Seq({"emptied", "short", "other"}), NEW from \in DashedAt(errors),
           NEW end, end = RunEnd(errors, from)
    PROVE  /\ end \in (from + 1)..Len(errors)
           /\ \A k \in (from + 1)..end : errors[k] = "short"
           /\ end < Len(errors) => errors[end + 1] # "short"
  <1>. DEFINE Ends == {j \in (from + 1)..Len(errors) : j < Len(errors) => errors[j + 1] # "short"}
  <1>1. /\ Len(errors) \in Nat /\ from \in 1..(Len(errors) - 1)
        /\ errors[from] = "emptied" /\ errors[from + 1] = "short"
    BY DEF DashedAt
  <1>2. Ends \subseteq Nat /\ Len(errors) \in Ends
    BY <1>1
  <1>3. PICK last \in Ends : \A j \in Ends : last <= j
    BY <1>2, Least
  <1>4. last \in (from + 1)..Len(errors) /\ (last < Len(errors) => errors[last + 1] # "short")
    OBVIOUS
  <1>5. ASSUME NEW k \in (from + 1)..last  PROVE errors[k] = "short"
    <2>1. CASE k = from + 1
      BY <1>1, <2>1
    <2>2. CASE k # from + 1
      <3>1. /\ k - 1 \in (from + 1)..Len(errors) /\ k - 1 < Len(errors) /\ k - 1 < last
            /\ (k - 1) + 1 = k
        BY <1>1, <1>4, <2>2
      <3>2. k - 1 \notin Ends
        BY <1>1, <1>3, <1>4, <3>1
      <3>. QED  BY <3>1, <3>2
    <2>. QED  BY <2>1, <2>2
  <1>. QED  BY <1>4, <1>5 DEF RunEnd

(* The parser's errors are each told once, a dashed value as one mistake.  *)
LEMMA EachTold ==
    ASSUME NEW errors, errors \in Seq({"emptied", "short", "other"}), NEW told, told = Told(errors)
    PROVE  /\ \A k \in DOMAIN errors : Cardinality({run \in told : k \in run[1]..run[2]}) = 1
           /\ \A run \in told : run[1] < run[2] =>
                errors[run[1]] = "emptied" /\ \A k \in (run[1] + 1)..run[2] : errors[k] = "short"
           /\ DashedAt(errors) # {} => \E run \in told :
                run[1] = First(DashedAt(errors)) /\ run[2] > run[1]
                /\ (run[2] < Len(errors) => errors[run[2] + 1] # "short")
  <1>. PICK dashed : dashed = DashedAt(errors)
    OBVIOUS
  <1>1. /\ Len(errors) \in Nat /\ DOMAIN errors = 1..Len(errors)
        /\ dashed \subseteq 1..(Len(errors) - 1)
    BY DEF DashedAt
  <1>2. CASE dashed = {}
    <2>1. told = {<<k, k>> : k \in 1..Len(errors)}
      <3>1. {j \in DOMAIN errors : j < Len(errors) + 1 \/ j > Len(errors) + 1} = 1..Len(errors)
        BY <1>1
      <3>. QED  BY <1>2, <3>1 DEF Told
    <2>2. ASSUME NEW k \in DOMAIN errors
          PROVE  Cardinality({run \in told : k \in run[1]..run[2]}) = 1
      <3>1. {run \in told : k \in run[1]..run[2]} = {<<k, k>>}
        BY <1>1, <2>1
      <3>. QED  BY <3>1, FS_Singleton
    <2>3. \A run \in told : ~(run[1] < run[2])
      BY <2>1
    <2>. QED  BY <1>2, <2>2, <2>3
  <1>3. CASE dashed # {}
    <2>. PICK at_ : at_ = First(dashed)
      OBVIOUS
    <2>. PICK end : end = RunEnd(errors, at_)
      OBVIOUS
    <2>1. at_ \in dashed /\ at_ \in 1..(Len(errors) - 1) /\ errors[at_] = "emptied"
      <3>1. \E k \in dashed : \A j \in dashed : k <= j
        BY <1>1, <1>3, Least
      <3>2. at_ \in dashed
        BY <3>1 DEF First
      <3>. QED  BY <1>1, <3>2 DEF DashedAt
    <2>2. /\ end \in (at_ + 1)..Len(errors)
          /\ \A k \in (at_ + 1)..end : errors[k] = "short"
          /\ end < Len(errors) => errors[end + 1] # "short"
      BY <2>1, RunEnds
    <2>. DEFINE Single == {j \in DOMAIN errors : j < at_ \/ j > end}
    <2>3. told = {<<k, k>> : k \in Single} \cup {<<at_, end>>}
      BY <1>3 DEF Told
    <2>4. at_ \in Nat /\ end \in Nat /\ at_ < end
      BY <1>1, <2>1, <2>2
    <2>5. ASSUME NEW k \in DOMAIN errors
          PROVE  Cardinality({run \in told : k \in run[1]..run[2]}) = 1
      <3>1. CASE k \in Single
        <4>1. {run \in told : k \in run[1]..run[2]} = {<<k, k>>}
          BY <1>1, <2>3, <2>4, <3>1
        <4>. QED  BY <4>1, FS_Singleton
      <3>2. CASE k \notin Single
        <4>1. {run \in told : k \in run[1]..run[2]} = {<<at_, end>>}
          BY <1>1, <2>3, <2>4, <3>2
        <4>. QED  BY <4>1, FS_Singleton
      <3>. QED  BY <3>1, <3>2
    <2>6. ASSUME NEW run \in told, run[1] < run[2]
          PROVE  errors[run[1]] = "emptied" /\ \A k \in (run[1] + 1)..run[2] : errors[k] = "short"
      <3>1. run = <<at_, end>>
        BY <1>1, <2>3, <2>6
      <3>. QED  BY <2>1, <2>2, <3>1
    <2>7. <<at_, end>> \in told
      BY <2>3
    <2>. QED  BY <2>2, <2>4, <2>5, <2>6, <2>7
  <1>. QED  BY <1>2, <1>3

(* What is known of an invocation when it ends is what its answer commits  *)
(* it to.                                                                  *)
LEMMA OutcomesFollow == ShellReports => OutcomesTold
  <1>. SUFFICES ASSUME ShellReports, call.at = "over"
                PROVE  OutcomesTold
    BY DEF OutcomesTold
  <1>1. Ended
    BY DEF ShellReports
  <1>2. /\ call.answer # "ok" => Rooted = {}
        /\ call.answer = "unexpected" => call.faults > 0
        /\ call.ask \in Asks
        /\ call.ask.verb = "misspelt" => call.got.rows = Told(call.ask.errors)
        /\ call.answer = "ok" /\ call.backend = "none" => call.ask.verb \in {"help", "misspelt"}
        /\ call.ask.verb \notin {"put", "name", "publish"} => call.wrote = {}
        /\ call.ask.verb = "name" => \A step \in call.wrote : step.of \subseteq Names
    BY <1>1 DEF Ended
  <1>3. call.out = (call.answer = "ok")
    BY <1>1 DEF Ended
  <1>4. call.ask.verb = "misspelt" => MistakesTold
    <2>. SUFFICES ASSUME call.ask.verb = "misspelt"  PROVE MistakesTold
      OBVIOUS
    <2>. PICK errors, told : errors = call.ask.errors /\ told = call.got.rows
      OBVIOUS
    <2>1. errors \in Seq({"emptied", "short", "other"})
      BY <1>2, ShellAssumption DEF CommandLines
    <2>2. told = Told(errors)
      BY <1>2
    <2>3. /\ \A k \in DOMAIN errors : Cardinality({run \in told : k \in run[1]..run[2]}) = 1
          /\ \A run \in told : run[1] < run[2] =>
               errors[run[1]] = "emptied" /\ \A k \in (run[1] + 1)..run[2] : errors[k] = "short"
          /\ DashedAt(errors) # {} => \E run \in told :
               run[1] = First(DashedAt(errors)) /\ run[2] > run[1]
               /\ (run[2] < Len(errors) => errors[run[2] + 1] # "short")
      BY <2>1, <2>2, EachTold, SMTT(30)
    <2>. QED  BY <2>3, Zenon DEF MistakesTold
  <1>5. call.ask.verb \in {"publish", "name", "put"} /\ call.answer = "ok" =>
           /\ Stages /\ Going /\ call.todo = <<>>
           /\ \A step : ~Begins(call.todo, step) /\ ~Only(call.todo, step)
    BY <1>2, Answering
  <1>6. call.ask.verb = "publish" /\ call.answer = "ok" =>
           call.ask.id \in Here.roots \cap Here.held /\ call.ask.id \notin Stood.damaged
    BY <1>5 DEF Stages, PublishStage, Loaded
  <1>7. call.ask.verb = "name" =>
           /\ Written \cup Rooted \subseteq Names
           /\ call.answer = "ok" =>
                /\ Tag[call.ask.id] \in Nameable
                /\ NameFor(call.ask.id) \in Here.held \cap Here.roots
                /\ call.ask.id \in Here.held
    <2>1. call.ask.verb = "name" => Written \cup Rooted \subseteq Names
      BY <1>2 DEF Written, Rooted
    <2>2. call.ask.verb = "name" /\ call.answer = "ok" =>
                /\ Tag[call.ask.id] \in Nameable
                /\ NameFor(call.ask.id) \in Here.held \cap Here.roots
                /\ call.ask.id \in Here.held
      BY <1>5 DEF Stages, NameStage
    <2>. QED  BY <2>1, <2>2
  <1>8. call.ask.verb = "put" /\ call.answer = "ok" =>
           IF call.ask.program THEN \A k \in DOMAIN Table : Table[k] \in Here.held
           ELSE call.ask.id \in Here.held
    <2>. SUFFICES ASSUME call.ask.verb = "put", call.answer = "ok"
                  PROVE  IF call.ask.program THEN \A k \in DOMAIN Table : Table[k] \in Here.held
                         ELSE call.ask.id \in Here.held
      OBVIOUS
    <2>1. PutStage(call.todo)
      BY <1>5 DEF Stages
    <2>2. CASE call.ask.program
      <3>1. DOMAIN call.todo = {}
        BY <1>5
      <3>. QED  BY <1>5, <2>1, <2>2, <3>1 DEF PutStage
    <2>3. CASE ~call.ask.program
      BY <1>5, <2>1, <2>3 DEF PutStage
    <2>. QED  BY <2>2, <2>3
  <1>. QED  BY <1>2, <1>3, <1>4, <1>6, <1>7, <1>8 DEF OutcomesTold, Stood

(***************************************************************************)
(* What an invocation answers is what it did: a refusal leaves stdout and  *)
(* the roots alone, a verb that asks writes nothing, what is published was *)
(* loaded, and each error of the parser is told once (bin/cli/commands.ts, *)
(* entry.ts).                                                              *)
(***************************************************************************)
THEOREM OutcomesToldHolds == ShellSpec => []OutcomesTold
  BY ShellReportsHolds, OutcomesFollow, PTL
=============================================================================
