------------------------- MODULE WordLogFileProofs -------------------------
(***************************************************************************)
(* Proofs about WordLogFile, for any number of processes, writers, lock    *)
(* attempts, appends and crashes: appends take turns, the log stays        *)
(* readable, acknowledged receipts stay at their marks, and what reads     *)
(* return is a word.                                                       *)
(***************************************************************************)
EXTENDS WordLogFile, SequenceTheorems, TLAPS

USE WordLogAssumption

(* The readings of a file content, as functions of it.                     *)
TornOf(file) == file # <<>> /\ file[Len(file)] \in Undecodable

EntriesOf(file) == IF TornOf(file) THEN SubSeq(file, 1, Len(file) - 1) ELSE file

(* A sequence of receipts, each at its mark.                               *)
WellMarked(s) == s \in Seq(Receipt) /\ \A k \in 1..Len(s) : s[k].seq = k - 1

(* What is in the file, whoever is writing: receipts at their marks, and   *)
(* perhaps the first bytes of one more.                                    *)
FileSound ==
    /\ WellMarked(Entries)
    /\ lines = Entries \/ (lines = Append(Entries, Partial) /\ ~ended)

(* What the holder of the lock knows of the file at each of its stages.    *)
HolderSound(w) ==
    /\ stage[w] \in Held => lock
    /\ stage[w] \in {"repairing", "renaming"} => log[w] = Entries
    /\ stage[w] = "renaming" => repair = log[w]
    /\ stage[w] = "appending" => lines = log[w] /\ ended
    /\ stage[w] = "torn" => lines = Append(log[w], Partial)
    /\ stage[w] = "unterminated" => lines = Append(log[w], Line(w))
    /\ stage[w] = "releasing" /\ outcome[w] = "ok" =>
          Len(log[w]) < Len(Entries) /\ Entries[Len(log[w]) + 1] = Line(w)

IInv ==
    /\ TypeOK
    /\ MutualExclusion
    /\ FileSound
    /\ \A w \in Writers : HolderSound(w)
    /\ AcknowledgedKept

----------------------------------------------------------------------------
(* Lemmas on the readings of a file.                                       *)

LEMMA EntriesReading == Entries = EntriesOf(lines) /\ Entries' = EntriesOf(lines')
  BY DEF Entries, EntriesOf, Torn, TornOf

LEMMA ReceiptsDecode == Receipt \intersect Undecodable = {}
  BY DEF Receipt, Undecodable

(* Receipts alone read as themselves.                                      *)
LEMMA CleanFile ==
    ASSUME NEW s \in Seq(Receipt)
    PROVE  ~TornOf(s) /\ EntriesOf(s) = s
<1>1. s # <<>> => s[Len(s)] \in Receipt
  OBVIOUS
<1>2. QED BY <1>1, ReceiptsDecode DEF TornOf, EntriesOf

(* With the first bytes of one more, they read as before.                  *)
LEMMA TornFile ==
    ASSUME NEW s \in Seq(Receipt)
    PROVE  TornOf(Append(s, Partial)) /\ EntriesOf(Append(s, Partial)) = s
<1> DEFINE t == Append(s, Partial)
<1>1. t \in Seq(Receipt \union Undecodable) /\ Len(t) = Len(s) + 1
  BY DEF Undecodable
<1>2. t[Len(t)] = Partial
  BY <1>1
<1>3. TornOf(t)
  BY <1>1, <1>2 DEF TornOf, Undecodable
<1>4. SubSeq(t, 1, Len(t) - 1) = s
  BY <1>1
<1>5. QED BY <1>3, <1>4 DEF EntriesOf

LEMMA MarkedAppend ==
    ASSUME NEW s, WellMarked(s), NEW w \in Writers
    PROVE  WellMarked(Append(s, [seq |-> Len(s), of |-> w]))
<1> DEFINE r == [seq |-> Len(s), of |-> w]
           t == Append(s, r)
<1>1. s \in Seq(Receipt) /\ r \in Receipt /\ Len(s) \in Nat
  BY DEF WellMarked, Receipt
<1>2. t \in Seq(Receipt) /\ Len(t) = Len(s) + 1
  BY <1>1
<1>3. ASSUME NEW k \in 1..Len(t) PROVE t[k].seq = k - 1
  <2>1. CASE k = Len(t)
    BY <1>1, <1>2, <2>1
  <2>2. CASE k # Len(t)
    <3>1. k \in 1..Len(s) /\ t[k] = s[k]
      BY <1>1, <1>2, <2>2
    <3>2. QED BY <3>1 DEF WellMarked
  <2>3. QED BY <2>1, <2>2
<1>4. QED BY <1>2, <1>3 DEF WellMarked

(* A sound file is readable: this is all a read checks.                    *)
LEMMA SoundReadable == FileSound => LogReadable
<1> SUFFICES ASSUME FileSound, NEW k \in DOMAIN Entries
             PROVE  Entries[k] \notin Undecodable /\ Entries[k].seq = k - 1
  BY DEF LogReadable, Readable
<1>1. Entries \in Seq(Receipt) /\ k \in 1..Len(Entries)
  BY DEF FileSound, WellMarked
<1>2. Entries[k] \in Receipt
  BY <1>1
<1>3. QED BY <1>1, <1>2, ReceiptsDecode DEF FileSound, WellMarked

----------------------------------------------------------------------------
(* What each step does to the file.                                        *)

StepOf(w) == Call(w) \/ Step(w) \/ FailLock(w) \/ Interrupt(w)

Quiet == UNCHANGED <<lines, ended>>

LEMMA QuietFile ==
    ASSUME FileSound, Quiet
    PROVE  FileSound' /\ Entries' = Entries
  BY EntriesReading DEF Quiet, FileSound

(* The rename puts in place what the read returned.                        *)
LEMMA RenameFile ==
    ASSUME IInv, NEW w \in Writers, RenameRepair(w)
    PROVE  FileSound' /\ Entries' = Entries
<1>1. CASE UNCHANGED <<lines, ended>>
  BY <1>1, QuietFile DEF IInv, Quiet
<1>2. CASE lines' = repair /\ ended'
  <2>1. repair = Entries
    BY DEF RenameRepair, IInv, HolderSound
  <2>2. Entries \in Seq(Receipt)
    BY DEF IInv, FileSound, WellMarked
  <2>3. Entries' = Entries
    BY <1>2, <2>1, <2>2, CleanFile, EntriesReading
  <2>4. QED BY <1>2, <2>1, <2>3 DEF IInv, FileSound
<1>3. QED BY <1>1, <1>2 DEF RenameRepair

(* The first bytes of a line add nothing to what is read.                  *)
LEMMA BeginFile ==
    ASSUME IInv, NEW w \in Writers, BeginLine(w)
    PROVE  FileSound' /\ Entries' = Entries
<1>1. CASE UNCHANGED <<lines, ended>>
  BY <1>1, QuietFile DEF IInv, Quiet
<1>2. CASE ~UNCHANGED <<lines, ended>>
  <2>1. lines = log[w] /\ ended /\ log[w] \in Seq(Receipt)
    BY DEF BeginLine, IInv, HolderSound, TypeOK
  <2>2. lines' = Append(lines, Partial) /\ ~ended'
    BY <1>2, <2>1 DEF BeginLine
  <2>3. Entries = lines
    BY <2>1, CleanFile, EntriesReading
  <2>4. Entries' = lines
    BY <2>1, <2>2, TornFile, EntriesReading
  <2>5. QED BY <2>2, <2>3, <2>4 DEF IInv, FileSound
<1>3. QED BY <1>1, <1>2

(* The last bytes of a line add its receipt at the next mark.              *)
LEMMA FinishFile ==
    ASSUME IInv, NEW w \in Writers, FinishLine(w)
    PROVE  /\ FileSound'
           /\ log[w] = Entries
           /\ lines' = Append(log[w], Line(w))
           /\ Entries' = Append(Entries, [seq |-> Len(Entries), of |-> w])
<1> DEFINE s == log[w]
<1>1. s \in Seq(Receipt) /\ lines = Append(s, Partial)
  BY DEF FinishLine, IInv, HolderSound, TypeOK
<1>2. Entries = s
  BY <1>1, TornFile, EntriesReading
<1>3. WellMarked(s)
  BY <1>2 DEF IInv, FileSound
<1>4. lines' = Append(s, Line(w))
  <2>1. lines # <<>> /\ lines[Len(lines)] = Partial /\ Len(lines) = Len(s) + 1
    BY <1>1
  <2>2. lines' = [lines EXCEPT ![Len(lines)] = Line(w)]
    BY <2>1 DEF FinishLine
  <2>3. Line(w) \in Receipt
    BY <1>1 DEF Line, Receipt
  <2>4. /\ lines' \in Seq(Receipt \union Undecodable)
        /\ Append(s, Line(w)) \in Seq(Receipt \union Undecodable)
        /\ Len(lines') = Len(Append(s, Line(w)))
    BY <1>1, <2>1, <2>2, <2>3 DEF Undecodable
  <2>5. ASSUME NEW k \in 1..Len(lines') PROVE lines'[k] = Append(s, Line(w))[k]
    <3>1. lines \in Seq(Receipt \union Undecodable) /\ k \in 1..Len(lines)
      BY <1>1, <2>1, <2>2 DEF Undecodable
    <3>2. lines'[k] = IF k = Len(lines) THEN Line(w) ELSE lines[k]
      BY <2>2, <3>1, ExceptSeq
    <3>3. k # Len(lines) => k \in 1..Len(s) /\ lines[k] = s[k]
      BY <1>1, <2>1, <3>1
    <3>4. Append(s, Line(w))[k] = IF k = Len(lines) THEN Line(w) ELSE s[k]
      BY <1>1, <2>1, <2>3, <3>1
    <3>5. QED BY <3>2, <3>3, <3>4
  <2>6. QED BY <2>4, <2>5, SeqEqual
<1>5. Line(w) = [seq |-> Len(s), of |-> w]
  BY DEF Line
<1>6. WellMarked(lines')
  BY <1>3, <1>4, <1>5, MarkedAppend
<1>7. Entries' = lines'
  BY <1>6, CleanFile, EntriesReading DEF WellMarked
<1>8. FileSound'
  BY <1>6, <1>7 DEF FileSound
<1>9. QED BY <1>2, <1>4, <1>5, <1>7, <1>8

(* The newline changes no line.                                            *)
LEMMA EndFile ==
    ASSUME IInv, NEW w \in Writers, EndLine(w)
    PROVE  FileSound' /\ Entries' = Entries /\ Entries = Append(log[w], Line(w))
<1>1. lines = Append(log[w], Line(w)) /\ log[w] \in Seq(Receipt)
  BY DEF EndLine, IInv, HolderSound, TypeOK
<1>2. Line(w) \in Receipt
  BY <1>1 DEF Line, Receipt
<1>3. lines \in Seq(Receipt)
  BY <1>1, <1>2
<1>4. Entries = lines /\ Entries' = lines
  BY <1>3, CleanFile, EntriesReading DEF EndLine
<1>5. QED BY <1>1, <1>4 DEF EndLine, IInv, FileSound

(* Every other step leaves the file alone.                                 *)
LEMMA OtherSteps ==
    ASSUME NEW w \in Writers, StepOf(w),
           ~RenameRepair(w), ~BeginLine(w), ~FinishLine(w), ~EndLine(w)
    PROVE  Quiet
  BY DEF StepOf, Step, Quiet, disk, Call, TakePermit, TakeLock, FailLock,
         ReadLog, WriteRepair, Release, Interrupt

(* A step of the log leaves the file sound, and what is read of it as it   *)
(* was or one receipt longer.                                              *)
LEMMA NextFile ==
    ASSUME IInv, [Next]_vars
    PROVE  /\ FileSound'
           /\ \/ Entries' = Entries
              \/ \E w \in Writers :
                    Entries' = Append(Entries, [seq |-> Len(Entries), of |-> w])
<1>1. ASSUME NEW w \in Writers, StepOf(w)
      PROVE  /\ FileSound'
             /\ \/ Entries' = Entries
                \/ Entries' = Append(Entries, [seq |-> Len(Entries), of |-> w])
  BY <1>1, RenameFile, BeginFile, FinishFile, EndFile, OtherSteps, QuietFile DEF IInv
<1>2. CASE Quiet
  BY <1>2, QuietFile DEF IInv
<1>3. CASE \E w \in Writers : StepOf(w)
  BY <1>1, <1>3
<1>4. CASE \/ \E p \in Processes : Crash(p)
           \/ RemoveStaleLock
           \/ UNCHANGED vars
  <2>1. Quiet
    BY <1>4 DEF Quiet, Crash, RemoveStaleLock, vars, disk
  <2>2. QED BY <1>2, <2>1
<1>5. QED BY <1>3, <1>4 DEF Next, StepOf

----------------------------------------------------------------------------
(* What the writers know.                                                  *)

(* A writer's step moves only that writer.                                 *)
LEMMA OthersUnmoved ==
    ASSUME TypeOK, NEW w \in Writers, StepOf(w), NEW v \in Writers, v # w
    PROVE  /\ stage'[v] = stage[v]
           /\ log'[v] = log[v]
           /\ outcome'[v] = outcome[v]
<1> USE DEF TypeOK, Go, Leave, Forget
<1>1. CASE Call(w) \/ TakePermit(w)
  BY <1>1 DEF Call, TakePermit
<1>2. CASE TakeLock(w) \/ FailLock(w)
  BY <1>2 DEF TakeLock, FailLock, LockRefused
<1>3. CASE ReadLog(w)
  BY <1>3 DEF ReadLog
<1>4. CASE WriteRepair(w) \/ RenameRepair(w)
  BY <1>4 DEF WriteRepair, RenameRepair
<1>5. CASE BeginLine(w) \/ FinishLine(w) \/ EndLine(w)
  BY <1>5 DEF BeginLine, FinishLine, EndLine
<1>6. CASE Release(w) \/ Interrupt(w)
  BY <1>6 DEF Release, Interrupt
<1>7. QED BY <1>1, <1>2, <1>3, <1>4, <1>5, <1>6 DEF StepOf, Step

(* The lock file is the compare-and-swap: a writer comes to hold it only   *)
(* by making it, and makes it only when it is not there.                   *)
LEMMA HoldingStep ==
    ASSUME TypeOK, NEW w \in Writers, StepOf(w)
    PROVE  \/ stage[w] \notin Held /\ stage'[w] \notin Held /\ UNCHANGED disk
           \/ /\ stage[w] \notin Held /\ ~lock /\ lock'
              /\ UNCHANGED <<lines, ended, repair>>
              /\ stage'[w] = "reading"
           \/ stage[w] \in Held /\ stage'[w] \in Held /\ lock' = lock
           \/ stage[w] = "releasing" /\ stage'[w] = "idle"
              /\ UNCHANGED <<lines, ended, repair>>
<1> USE DEF TypeOK, Go, Leave, Forget, Held, disk
<1>1. CASE Call(w) \/ TakePermit(w)
  BY <1>1 DEF Call, TakePermit
<1>2. CASE TakeLock(w) \/ FailLock(w)
  BY <1>2 DEF TakeLock, FailLock, LockRefused
<1>3. CASE ReadLog(w)
  BY <1>3 DEF ReadLog
<1>4. CASE WriteRepair(w) \/ RenameRepair(w)
  BY <1>4 DEF WriteRepair, RenameRepair
<1>5. CASE BeginLine(w) \/ FinishLine(w) \/ EndLine(w)
  BY <1>5 DEF BeginLine, FinishLine, EndLine
<1>6. CASE Release(w) \/ Interrupt(w)
  BY <1>6 DEF Release, Interrupt
<1>7. QED BY <1>1, <1>2, <1>3, <1>4, <1>5, <1>6 DEF StepOf, Step

LEMMA NextExclusive ==
    ASSUME IInv, [Next]_vars
    PROVE  /\ MutualExclusion'
           /\ \A w \in Writers : stage'[w] \in Held => lock'
<1> USE DEF IInv, HolderSound, MutualExclusion
<1>1. ASSUME NEW w \in Writers, StepOf(w)
      PROVE  /\ MutualExclusion'
             /\ \A v \in Writers : stage'[v] \in Held => lock'
  <2>1. \A v \in Writers : v # w => stage'[v] = stage[v]
    BY <1>1, OthersUnmoved
  <2>2. QED BY <1>1, <2>1, HoldingStep DEF disk, Held
<1>2. ASSUME NEW p \in Processes, Crash(p)
      PROVE  /\ MutualExclusion'
             /\ \A v \in Writers : stage'[v] \in Held => lock'
  <2>1. \A v \in Writers : stage'[v] = stage[v] \/ stage'[v] = "idle"
    BY <1>2 DEF Crash
  <2>2. QED BY <1>2, <2>1 DEF Crash, disk, Held
<1>3. CASE RemoveStaleLock
  BY <1>3 DEF RemoveStaleLock, local
<1>4. CASE UNCHANGED vars
  BY <1>4 DEF vars, disk, local
<1>5. QED BY <1>1, <1>2, <1>3, <1>4 DEF Next, StepOf

(* What a writer knows survives the steps of the others.                   *)
LEMMA OthersKnow ==
    ASSUME IInv, NEW w \in Writers, StepOf(w), NEW v \in Writers, v # w
    PROVE  HolderSound(v)'
<1>1. /\ stage'[v] = stage[v]
      /\ log'[v] = log[v]
      /\ outcome'[v] = outcome[v]
  BY OthersUnmoved DEF IInv
<1>2. stage'[v] \in Held => lock'
  BY NextExclusive DEF Next, StepOf
<1>3. CASE stage[v] \notin Held
  BY <1>1, <1>3 DEF HolderSound, Held
<1>4. CASE stage[v] \in Held
  <2>1. stage[w] \notin Held
    BY <1>4 DEF IInv, MutualExclusion
  <2>2. UNCHANGED <<lines, ended, repair>>
    BY <2>1, HoldingStep DEF IInv, disk, Held
  <2>3. Entries' = Entries
    BY <2>2, EntriesReading
  <2>4. Line(v)' = Line(v)
    BY <1>1 DEF Line
  <2>5. HolderSound(v)
    BY DEF IInv
  <2>6. QED BY <1>1, <1>2, <2>2, <2>3, <2>4, <2>5 DEF HolderSound
<1>5. QED BY <1>3, <1>4

(* And what it learns in its own step is so.                               *)
LEMMA ActorKnows ==
    ASSUME IInv, NEW w \in Writers, StepOf(w)
    PROVE  HolderSound(w)'
<1> USE DEF Go, Leave, Forget
<1>0. /\ TypeOK /\ FileSound /\ HolderSound(w)
      /\ stage'[w] \in Held => lock'
  BY NextExclusive DEF IInv, Next, StepOf
<1>1. CASE Call(w) \/ TakePermit(w) \/ TakeLock(w) \/ FailLock(w) \/ Release(w)
  <2>1. stage'[w] \in {"queued", "locking", "reading", "idle"}
    BY <1>0, <1>1 DEF TypeOK, Call, TakePermit, TakeLock, FailLock, LockRefused, Release
  <2>2. QED BY <1>0, <2>1 DEF HolderSound
<1>2. CASE stage'[w] = "releasing" /\ outcome'[w] # "ok"
  BY <1>0, <1>2 DEF HolderSound
<1>3. CASE Interrupt(w)
  <2>1. \/ stage'[w] = "idle"
        \/ stage'[w] = "releasing" /\ outcome'[w] # "ok"
    BY <1>0, <1>3 DEF TypeOK, Interrupt
  <2>2. QED BY <1>0, <1>2, <2>1 DEF HolderSound
<1>4. CASE ReadLog(w) /\ ~(stage'[w] = "releasing")
  <2>1. /\ log'[w] = Entries
        /\ stage'[w] = IF Damaged THEN "repairing" ELSE "appending"
        /\ UNCHANGED <<lines, ended>>
    BY <1>0, <1>4 DEF ReadLog, CleanPrefix, TypeOK, disk
  <2>2. Entries' = Entries
    BY <2>1, EntriesReading
  <2>3. ~Damaged => lines = Entries /\ ended
    BY DEF Damaged, Unterminated, Entries
  <2>4. QED BY <1>0, <2>1, <2>2, <2>3 DEF HolderSound
<1>5. CASE WriteRepair(w) /\ ~(stage'[w] = "releasing")
  <2>1. /\ stage'[w] = "renaming" /\ repair' = log[w] /\ log' = log
        /\ UNCHANGED lines
    BY <1>0, <1>5 DEF WriteRepair, TypeOK
  <2>2. Entries' = Entries /\ log[w] = Entries
    BY <1>0, <1>5, <2>1, EntriesReading DEF WriteRepair, HolderSound
  <2>3. QED BY <1>0, <2>1, <2>2 DEF HolderSound
<1>6. CASE RenameRepair(w) /\ ~(stage'[w] = "releasing")
  <2>1. /\ stage'[w] = "appending" /\ lines' = repair /\ ended' /\ log' = log
        /\ stage[w] = "renaming"
    BY <1>0, <1>6 DEF RenameRepair, TypeOK
  <2>2. QED BY <1>0, <2>1 DEF HolderSound
<1>7. CASE BeginLine(w) /\ ~(stage'[w] = "releasing")
  <2>1. /\ stage'[w] = "torn" /\ log' = log
        /\ lines' = IF ended THEN Append(lines, Partial)
                             ELSE [lines EXCEPT ![Len(lines)] = Fused]
        /\ stage[w] = "appending"
    BY <1>0, <1>7 DEF BeginLine, TypeOK
  <2>2. QED BY <1>0, <2>1 DEF HolderSound
<1>8. CASE FinishLine(w) /\ ~(stage'[w] = "releasing")
  <2>1. stage'[w] = "unterminated" /\ log' = log
    BY <1>0, <1>8 DEF FinishLine, TypeOK
  <2>2. lines' = Append(log[w], Line(w)) /\ Line(w)' = Line(w)
    BY <1>8, <2>1, FinishFile DEF Line
  <2>3. QED BY <1>0, <2>1, <2>2 DEF HolderSound
<1>9. CASE EndLine(w)
  <2>1. stage'[w] = "releasing" /\ log' = log /\ log[w] \in Seq(Receipt)
    BY <1>0, <1>9 DEF EndLine, TypeOK
  <2>2. Entries' = Append(log[w], Line(w)) /\ Line(w)' = Line(w) /\ Line(w) \in Receipt
    BY <1>9, <2>1, EndFile DEF Line, Receipt
  <2>3. /\ Len(log[w]) < Len(Entries')
        /\ Entries'[Len(log[w]) + 1] = Line(w)
    BY <2>1, <2>2
  <2>4. QED BY <1>0, <2>1, <2>2, <2>3 DEF HolderSound
<1>10. ASSUME stage'[w] = "releasing", ~EndLine(w)
       PROVE  HolderSound(w)'
  <2>1. outcome'[w] # "ok" \/ Call(w) \/ TakePermit(w) \/ TakeLock(w)
        \/ FailLock(w) \/ Release(w)
    BY <1>0, <1>10 DEF TypeOK, StepOf, Step, ReadLog, WriteRepair, RenameRepair,
                       BeginLine, FinishLine, Interrupt
  <2>2. QED BY <1>1, <1>2, <1>10, <2>1
<1>11. QED
  BY <1>1, <1>3, <1>4, <1>5, <1>6, <1>7, <1>8, <1>9, <1>10 DEF StepOf, Step

LEMMA NextHolderSound ==
    ASSUME IInv, [Next]_vars
    PROVE  \A v \in Writers : HolderSound(v)'
<1>1. ASSUME NEW w \in Writers, StepOf(w), NEW v \in Writers
      PROVE  HolderSound(v)'
  BY <1>1, OthersKnow, ActorKnows
<1>2. ASSUME NEW p \in Processes, Crash(p), NEW v \in Writers
      PROVE  HolderSound(v)'
  <2>1. \/ stage'[v] = "idle"
        \/ stage'[v] = stage[v] /\ log'[v] = log[v] /\ outcome'[v] = outcome[v]
    BY <1>2 DEF Crash
  <2>2. UNCHANGED <<lines, ended, repair, lock>>
    BY <1>2 DEF Crash, disk
  <2>3. Entries' = Entries
    BY <2>2, EntriesReading
  <2>4. QED BY <2>1, <2>2, <2>3 DEF IInv, HolderSound, Held, Line
<1>3. ASSUME RemoveStaleLock \/ UNCHANGED vars, NEW v \in Writers
      PROVE  HolderSound(v)'
  <2>1. /\ UNCHANGED <<lines, ended, repair, stage, log, outcome>>
        /\ lock' = lock \/ stage[v] \notin Held
    BY <1>3 DEF RemoveStaleLock, local, vars, disk
  <2>2. Entries' = Entries
    BY <2>1, EntriesReading
  <2>3. QED BY <2>1, <2>2 DEF IInv, HolderSound, Held, Line
<1>4. QED BY <1>1, <1>2, <1>3 DEF Next, StepOf

----------------------------------------------------------------------------
(* Acknowledged receipts and types.                                        *)

(* Only a release acknowledges, and what it acknowledges is in the file.   *)
LEMMA Acknowledging ==
    ASSUME IInv, [Next]_vars, NEW r \in acked'
    PROVE  \/ r \in acked
           \/ r \in Receipt /\ r.seq < Len(Entries) /\ Entries[r.seq + 1] = r
<1>1. ASSUME NEW w \in Writers, Release(w), r \notin acked
      PROVE  r \in Receipt /\ r.seq < Len(Entries) /\ Entries[r.seq + 1] = r
  <2>1. r = Line(w) /\ outcome[w] = "ok" /\ stage[w] = "releasing"
    BY <1>1 DEF Release
  <2>2. log[w] \in Seq(Receipt)
    BY DEF IInv, TypeOK
  <2>3. Len(log[w]) \in Nat
    BY <2>2
  <2>4. r \in Receipt /\ r.seq = Len(log[w])
    BY <2>1, <2>3 DEF Line, Receipt
  <2>5. QED BY <2>1, <2>4 DEF IInv, HolderSound
<1>2. ASSUME NEW w \in Writers, StepOf(w), ~Release(w) PROVE acked' = acked
  BY <1>2 DEF StepOf, Step, count, Call, TakePermit, TakeLock, FailLock, ReadLog,
              WriteRepair, RenameRepair, BeginLine, FinishLine, EndLine, Interrupt
<1>3. ASSUME \/ \E p \in Processes : Crash(p)
             \/ RemoveStaleLock \/ UNCHANGED vars
      PROVE  acked' = acked
  BY <1>3 DEF Crash, RemoveStaleLock, vars, count
<1>4. QED BY <1>1, <1>2, <1>3 DEF Next, StepOf

LEMMA NextAcknowledged ==
    ASSUME IInv, [Next]_vars
    PROVE  AcknowledgedKept'
<1> SUFFICES ASSUME NEW r \in acked'
             PROVE  r.seq < Len(Entries') /\ Entries'[r.seq + 1] = r
  BY DEF AcknowledgedKept
<1>1. r \in Receipt /\ r.seq < Len(Entries) /\ Entries[r.seq + 1] = r
  BY Acknowledging DEF IInv, AcknowledgedKept, TypeOK
<1>2. Entries \in Seq(Receipt) /\ r.seq \in Nat
  BY <1>1 DEF IInv, FileSound, WellMarked, Receipt
<1>3. ASSUME NEW w \in Writers,
             Entries' = Append(Entries, [seq |-> Len(Entries), of |-> w])
      PROVE  r.seq < Len(Entries') /\ Entries'[r.seq + 1] = r
  <2>1. [seq |-> Len(Entries), of |-> w] \in Receipt
    BY <1>2 DEF Receipt
  <2>2. QED BY <1>1, <1>2, <1>3, <2>1
<1>4. QED BY <1>1, <1>3, NextFile

(* The variables a single writer owns, and the counters.                   *)
LocalTypes ==
    /\ permit \in [Processes -> BOOLEAN]
    /\ stage \in [Writers -> Stages]
    /\ remaining \in [Writers -> 0..LockAttempts]
    /\ log \in [Writers -> Seq(Receipt)]
    /\ outcome \in [Writers -> {"none", "ok", "refused"}]
    /\ appends \in 0..MaxAppends
    /\ crashes \in 0..MaxCrashes

LEMMA NextLocalTypes ==
    ASSUME IInv, [Next]_vars
    PROVE  LocalTypes'
<1> USE DEF Go, Leave, Forget, ReturnPermit, local, count
<1>1. LocalTypes /\ Entries \in Seq(Receipt) /\ LockAttempts \in Nat
  BY WordLogAssumption DEF IInv, FileSound, WellMarked, TypeOK, LocalTypes
<1>2. <<>> \in Seq(Receipt)
  OBVIOUS
<1>3. 0 \in 0..LockAttempts /\ LockAttempts \in 0..LockAttempts
  BY <1>1
<1>4. ASSUME NEW w \in Writers, StepOf(w) PROVE LocalTypes'
  <2>1. permit' \in [Processes -> BOOLEAN]
    BY <1>1, <1>4 DEF LocalTypes, StepOf, Step, Call, TakePermit, TakeLock, FailLock,
          LockRefused, ReadLog, WriteRepair, RenameRepair, BeginLine, FinishLine,
          EndLine, Release, Interrupt
  <2>2. stage' \in [Writers -> Stages]
    BY <1>1, <1>4 DEF LocalTypes, StepOf, Step, Call, TakePermit, TakeLock, FailLock,
          LockRefused, ReadLog, WriteRepair, RenameRepair, BeginLine, FinishLine,
          EndLine, Release, Interrupt, Stages
  <2>3. remaining' \in [Writers -> 0..LockAttempts]
    <3>1. CASE TakeLock(w)
      <4>1. remaining[w] > 0 => remaining[w] - 1 \in 0..LockAttempts
        BY <1>1 DEF LocalTypes
      <4>2. QED BY <1>1, <1>3, <3>1, <4>1 DEF LocalTypes, TakeLock, LockRefused
    <3>2. CASE ~TakeLock(w)
      BY <1>1, <1>3, <1>4, <3>2 DEF LocalTypes, StepOf, Step, Call, TakePermit,
            FailLock, LockRefused, ReadLog, WriteRepair, RenameRepair, BeginLine,
            FinishLine, EndLine, Release, Interrupt
    <3>3. QED BY <3>1, <3>2
  <2>4. log' \in [Writers -> Seq(Receipt)]
    BY <1>1, <1>2, <1>4 DEF LocalTypes, StepOf, Step, Call, TakePermit, TakeLock,
          FailLock, LockRefused, ReadLog, CleanPrefix, WriteRepair, RenameRepair,
          BeginLine, FinishLine, EndLine, Release, Interrupt
  <2>5. outcome' \in [Writers -> {"none", "ok", "refused"}]
    BY <1>1, <1>4 DEF LocalTypes, StepOf, Step, Call, TakePermit, TakeLock, FailLock,
          LockRefused, ReadLog, WriteRepair, RenameRepair, BeginLine, FinishLine,
          EndLine, Release, Interrupt
  <2>6. appends' \in 0..MaxAppends
    <3>1. CASE Call(w)
      BY <1>1, <3>1, WordLogAssumption DEF LocalTypes, Call
    <3>2. CASE ~Call(w)
      BY <1>1, <1>4, <3>2 DEF LocalTypes, StepOf, Step, TakePermit, TakeLock, FailLock,
            ReadLog, WriteRepair, RenameRepair, BeginLine, FinishLine, EndLine,
            Release, Interrupt
    <3>3. QED BY <3>1, <3>2
  <2>7. crashes' \in 0..MaxCrashes
    BY <1>1, <1>4 DEF LocalTypes, StepOf, Step, Call, TakePermit, TakeLock, FailLock,
          ReadLog, WriteRepair, RenameRepair, BeginLine, FinishLine, EndLine,
          Release, Interrupt
  <2>8. QED BY <2>1, <2>2, <2>3, <2>4, <2>5, <2>6, <2>7 DEF LocalTypes
<1>5. ASSUME NEW p \in Processes, Crash(p) PROVE LocalTypes'
  <2>1. permit' \in [Processes -> BOOLEAN] /\ appends' \in 0..MaxAppends
    BY <1>1, <1>5 DEF LocalTypes, Crash
  <2>2. stage' \in [Writers -> Stages]
    BY <1>1, <1>5 DEF LocalTypes, Crash, Stages
  <2>3. remaining' \in [Writers -> 0..LockAttempts]
    BY <1>1, <1>3, <1>5 DEF LocalTypes, Crash
  <2>4. log' \in [Writers -> Seq(Receipt)]
    BY <1>1, <1>2, <1>5 DEF LocalTypes, Crash
  <2>5. outcome' \in [Writers -> {"none", "ok", "refused"}]
    BY <1>1, <1>5 DEF LocalTypes, Crash
  <2>6. crashes' \in 0..MaxCrashes
    BY <1>1, <1>5, WordLogAssumption DEF LocalTypes, Crash
  <2>7. QED BY <2>1, <2>2, <2>3, <2>4, <2>5, <2>6 DEF LocalTypes
<1>6. CASE RemoveStaleLock \/ UNCHANGED vars
  BY <1>1, <1>6 DEF LocalTypes, RemoveStaleLock, vars
<1>7. QED BY <1>4, <1>5, <1>6 DEF Next, StepOf

LEMMA NextDiskTypes ==
    ASSUME IInv, [Next]_vars
    PROVE  /\ ended' \in BOOLEAN /\ lock' \in BOOLEAN
           /\ repair' \in Seq(Receipt) \union {NoFile}
<1> USE DEF IInv, TypeOK, disk
<1>1. ASSUME NEW w \in Writers, StepOf(w)
      PROVE  /\ ended' \in BOOLEAN /\ lock' \in BOOLEAN
             /\ repair' \in Seq(Receipt) \union {NoFile}
  <2>1. CASE WriteRepair(w)
    <3>1. log[w] \in Seq(Receipt)
      OBVIOUS
    <3>2. ASSUME NEW n \in 0..Len(log[w]) PROVE SubSeq(log[w], 1, n) \in Seq(Receipt)
      BY <3>1, <3>2
    <3>3. QED BY <2>1, <3>1, <3>2 DEF WriteRepair
  <2>2. CASE RenameRepair(w) \/ BeginLine(w) \/ FinishLine(w) \/ EndLine(w)
    BY <2>2 DEF RenameRepair, BeginLine, FinishLine, EndLine
  <2>3. CASE Call(w) \/ TakePermit(w) \/ TakeLock(w) \/ FailLock(w) \/ ReadLog(w)
             \/ Release(w) \/ Interrupt(w)
    BY <2>3 DEF Call, TakePermit, TakeLock, FailLock, LockRefused, ReadLog, Release,
                Interrupt
  <2>4. QED BY <1>1, <2>1, <2>2, <2>3 DEF StepOf, Step
<1>2. CASE \/ \E p \in Processes : Crash(p)
           \/ RemoveStaleLock \/ UNCHANGED vars
  BY <1>2 DEF Crash, RemoveStaleLock, vars
<1>3. QED BY <1>1, <1>2 DEF Next, StepOf

LEMMA NextTypeOK ==
    ASSUME IInv, [Next]_vars
    PROVE  TypeOK'
<1>1. lines' \in Seq(Receipt \union Undecodable)
  <2>1. FileSound' /\ Partial \in Receipt \union Undecodable
    BY NextFile DEF Undecodable
  <2>2. Entries' \in Seq(Receipt \union Undecodable)
    BY <2>1, SeqMonotonic DEF FileSound, WellMarked
  <2>3. QED BY <2>1, <2>2 DEF FileSound
<1>2. acked' \subseteq Receipt
  BY Acknowledging DEF IInv, TypeOK
<1>3. QED BY <1>1, <1>2, NextLocalTypes, NextDiskTypes DEF TypeOK, LocalTypes

----------------------------------------------------------------------------
(* The theorems.                                                           *)

LEMMA InitIInv == Init => IInv
<1> SUFFICES ASSUME Init PROVE IInv
  OBVIOUS
<1>1. <<>> \in Seq(Receipt) /\ <<>> \in Seq(Receipt \union Undecodable)
  OBVIOUS
<1>2. TypeOK
  <2>1. 0 \in 0..LockAttempts /\ 0 \in 0..MaxAppends /\ 0 \in 0..MaxCrashes
    BY WordLogAssumption
  <2>2. /\ lines \in Seq(Receipt \union Undecodable)
        /\ repair \in Seq(Receipt) \union {NoFile}
        /\ log \in [Writers -> Seq(Receipt)]
    BY <1>1 DEF Init
  <2>3. /\ stage \in [Writers -> Stages]
        /\ remaining \in [Writers -> 0..LockAttempts]
        /\ outcome \in [Writers -> {"none", "ok", "refused"}]
    BY <2>1 DEF Init, Stages
  <2>4. QED BY <2>1, <2>2, <2>3 DEF Init, TypeOK
<1>3. Entries = <<>>
  BY <1>1, CleanFile, EntriesReading DEF Init
<1>4. FileSound
  BY <1>1, <1>3 DEF Init, FileSound, WellMarked
<1>5. QED BY <1>2, <1>4 DEF Init, IInv, MutualExclusion, HolderSound, Held,
                            AcknowledgedKept

(* The inductive invariant: the file is sound whoever writes, only a       *)
(* holder of the lock file is past takeLock, and a holder knows how far    *)
(* the file is from what it read.                                          *)
THEOREM Inductive == Spec => []IInv
<1>1. IInv /\ [Next]_vars => IInv'
  BY NextTypeOK, NextExclusive, NextFile, NextHolderSound, NextAcknowledged DEF IInv
<1>2. QED BY InitIInv, <1>1, PTL DEF Spec

(* Every variable keeps its type.                                          *)
THEOREM TypeCorrect == Spec => []TypeOK
<1>1. IInv => TypeOK
  BY DEF IInv
<1>2. QED BY Inductive, <1>1, PTL

(* Appends take turns, by the lock file alone: the semaphore of a process  *)
(* only spares its writers the wait on the file.                           *)
THEOREM AppendsTakeTurns == Spec => []MutualExclusion
<1>1. IInv => MutualExclusion
  BY DEF IInv
<1>2. QED BY Inductive, <1>1, PTL

(* No append, crash, failure or repair leaves a file that readLog refuses. *)
THEOREM HistoryNeverWedged == Spec => []LogReadable
<1>1. IInv => LogReadable
  BY SoundReadable DEF IInv
<1>2. QED BY Inductive, <1>1, PTL

(* A receipt whose append answered is read at its mark from then on.       *)
THEOREM AcknowledgedReceiptsStay == Spec => []AcknowledgedKept
<1>1. IInv => AcknowledgedKept
  BY DEF IInv
<1>2. QED BY Inductive, <1>1, PTL

(* The file implements the abstract word: each step leaves what a read     *)
(* returns alone or adds one receipt at the next mark.                     *)
THEOREM ImplementsWord == Spec => RefinesWord
<1>1. Init => ReadWord!Init
  <2> SUFFICES ASSUME Init PROVE Entries = <<>>
    BY DEF ReadWord!Init
  <2>1. QED BY EntriesReading DEF Init, EntriesOf, TornOf
<1>2. IInv /\ [Next]_vars => [ReadWord!Next]_Entries
  BY NextFile DEF ReadWord!Next, ReadWord!AppendOne
<1>3. QED BY Inductive, <1>1, <1>2, PTL DEF Spec, RefinesWord, ReadWord!Spec
============================================================================
