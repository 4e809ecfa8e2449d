---------------------------- MODULE WordLogFile ----------------------------
(***************************************************************************)
(* The word log over one JSONL file (WordLog.ts, makeFileWordLog).         *)
(*                                                                         *)
(* Assigning a mark is a read-modify-write: the mark is the count the read *)
(* of the whole file returned.  Writers of one process take turns by a     *)
(* semaphore, processes by a lock file created with the exclusive flag.    *)
(* Readers take no lock.  An append is one write of a line and its         *)
(* newline, of which a reader, a crash or a failing write may leave a      *)
(* prefix: part of the line (torn), the line without its newline           *)
(* (unterminated), or all of it.  An append that finds either tail first   *)
(* rewrites the file to its clean prefix through a temporary file.         *)
(*                                                                         *)
(* The crash of a process is modelled, the loss of power is not: the code  *)
(* asserts no fsync.  An interrupted write stops where it was.             *)
(***************************************************************************)
EXTENDS Naturals, Sequences, FiniteSets

CONSTANTS
    Processes,
    Writers,        \* fibers that append, each in a process
    ProcessOf,
    LockAttempts,   \* lockAttempts: how often a taken lock is tried again
    Partial,        \* the first bytes of a receipt
    Fused,          \* a line that another line ran on to
    NoFile,         \* no repair file
    MaxAppends,     \* bound: appends started
    MaxCrashes      \* bound: processes killed

ASSUME WordLogAssumption ==
    /\ ProcessOf \in [Writers -> Processes]
    /\ LockAttempts \in Nat
    /\ MaxAppends \in Nat
    /\ MaxCrashes \in Nat
    /\ Partial # Fused
    /\ {Partial, Fused} \intersect [seq : Nat, of : Writers] = {}
    /\ NoFile \notin Seq([seq : Nat, of : Writers])

VARIABLES
    lines,      \* word.jsonl: its lines, an unfinished one included
    ended,      \* whether the file is empty or ends in a newline
    repair,     \* word.jsonl.repair: the receipts in it, or NoFile
    lock,       \* whether word.jsonl.lock exists
    permit,     \* per process: the writing semaphore's one permit is free
    stage,      \* per writer: where its append stands
    remaining,  \* per writer: attempts left on the lock
    log,        \* per writer: the receipts its readLog returned
    outcome,    \* per writer: what the append answers once it has released
    acked,      \* the receipts whose append answered success
    appends,    \* appends started
    crashes     \* processes killed

disk  == <<lines, ended, repair, lock>>
local == <<stage, remaining, log, outcome>>
count == <<acked, appends, crashes>>
vars  == <<disk, permit, local, count>>

Receipt == [seq : Nat, of : Writers]

(* The lines that do not decode as a receipt.                              *)
Undecodable == {Partial, Fused}

Stages == {"idle", "queued", "locking", "reading", "repairing", "renaming",
           "appending", "torn", "unterminated", "releasing"}

(* The stages at which a writer holds the lock file.                       *)
Held == {"reading", "repairing", "renaming", "appending", "torn",
         "unterminated", "releasing"}

TypeOK ==
    /\ lines \in Seq(Receipt \union Undecodable)
    /\ ended \in BOOLEAN
    /\ repair \in Seq(Receipt) \union {NoFile}
    /\ lock \in BOOLEAN
    /\ permit \in [Processes -> BOOLEAN]
    /\ stage \in [Writers -> Stages]
    /\ remaining \in [Writers -> 0..LockAttempts]
    /\ log \in [Writers -> Seq(Receipt)]
    /\ outcome \in [Writers -> {"none", "ok", "refused"}]
    /\ acked \subseteq Receipt
    /\ appends \in 0..MaxAppends
    /\ crashes \in 0..MaxCrashes

Init ==
    /\ lines = <<>> /\ ended = TRUE
    /\ repair = NoFile
    /\ lock = FALSE
    /\ permit = [p \in Processes |-> TRUE]
    /\ stage = [w \in Writers |-> "idle"]
    /\ remaining = [w \in Writers |-> 0]
    /\ log = [w \in Writers |-> <<>>]
    /\ outcome = [w \in Writers |-> "none"]
    /\ acked = {}
    /\ appends = 0
    /\ crashes = 0

----------------------------------------------------------------------------
(* readLog.                                                                *)

(* Only the final line may fail to decode: the torn tail.                  *)
Torn == lines # <<>> /\ lines[Len(lines)] \in Undecodable

Unterminated == ~ended

(* The receipts a read returns: every line but a torn one.                 *)
Entries == IF Torn THEN SubSeq(lines, 1, Len(lines) - 1) ELSE lines

(* A read refuses an undecodable line before the last and a mark that is   *)
(* not its line's index.                                                   *)
Readable ==
    \A k \in DOMAIN Entries : Entries[k] \notin Undecodable /\ Entries[k].seq = k - 1

(* The damage an append mends before it writes.                            *)
TornOnly == Torn

Damaged == Torn \/ Unterminated

(* cleanPrefix: each receipt the read returned, with its newline.          *)
CleanTerminated ==
    IF Unterminated /\ Entries # <<>>
    THEN SubSeq(Entries, 1, Len(Entries) - 1) ELSE Entries

CleanPrefix == Entries

----------------------------------------------------------------------------
(* One append.                                                             *)

Go(w, s) == stage' = [stage EXCEPT ![w] = s]

(* The use of the lock is over; the release still runs.                    *)
Leave(w, o) ==
    /\ Go(w, "releasing")
    /\ outcome' = [outcome EXCEPT ![w] = o]
    /\ UNCHANGED <<remaining, log>>

(* The append is over, answered or not, and the permit is returned.        *)
Forget(w) ==
    /\ Go(w, "idle")
    /\ remaining' = [remaining EXCEPT ![w] = 0]
    /\ log' = [log EXCEPT ![w] = <<>>]
    /\ outcome' = [outcome EXCEPT ![w] = "none"]

ReturnPermit(w) == permit' = [permit EXCEPT ![ProcessOf[w]] = TRUE]

Call(w) ==
    /\ stage[w] = "idle" /\ appends < MaxAppends
    /\ Go(w, "queued")
    /\ appends' = appends + 1
    /\ UNCHANGED <<disk, permit, remaining, log, outcome, acked, crashes>>

TakePermit(w) ==
    /\ stage[w] = "queued" /\ permit[ProcessOf[w]]
    /\ permit' = [permit EXCEPT ![ProcessOf[w]] = FALSE]
    /\ Go(w, "locking")
    /\ remaining' = [remaining EXCEPT ![w] = LockAttempts]
    /\ UNCHANGED <<disk, log, outcome, count>>

LockSeized(w) ==
    /\ Go(w, "reading")
    /\ UNCHANGED <<lock, permit, remaining, log, outcome>>

LockRetried(w) == UNCHANGED <<lock, permit, stage, remaining, log, outcome>>

LockRefused(w) ==
    /\ Forget(w)
    /\ ReturnPermit(w)
    /\ UNCHANGED lock

(* takeLock: the exclusive create is the compare-and-swap.  A taken lock   *)
(* is tried again until the attempts are used up.                          *)
TakeLock(w) ==
    /\ stage[w] = "locking"
    /\ \/ /\ ~lock
          /\ lock' = TRUE
          /\ Go(w, "reading")
          /\ UNCHANGED <<permit, remaining, log, outcome>>
       \/ /\ lock /\ remaining[w] > 0
          /\ remaining' = [remaining EXCEPT ![w] = @ - 1]
          /\ UNCHANGED <<lock, permit, stage, log, outcome>>
       \/ lock /\ remaining[w] = 0 /\ LockRefused(w)
    /\ UNCHANGED <<lines, ended, repair, count>>

(* Any other failure of the create is refused at once.                     *)
FailLock(w) ==
    /\ stage[w] = "locking"
    /\ LockRefused(w)
    /\ UNCHANGED <<lines, ended, repair, count>>

ReadLog(w) ==
    /\ stage[w] = "reading"
    /\ \/ Leave(w, "refused")
       \/ /\ Readable
          /\ log' = [log EXCEPT ![w] = CleanPrefix]
          /\ Go(w, IF Damaged THEN "repairing" ELSE "appending")
          /\ UNCHANGED <<remaining, outcome>>
    /\ UNCHANGED <<disk, permit, count>>

(* A write of the repair file that fails or stops half-way leaves a file   *)
(* nothing reads: the next repair truncates it.                            *)
WriteRepair(w) ==
    /\ stage[w] = "repairing"
    /\ \/ repair' = log[w] /\ Go(w, "renaming") /\ UNCHANGED <<remaining, log, outcome>>
       \/ \E n \in 0..Len(log[w]) :
             repair' = SubSeq(log[w], 1, n) /\ Leave(w, "refused")
       \/ UNCHANGED repair /\ Leave(w, "refused")
    /\ UNCHANGED <<lines, ended, lock, permit, count>>

RenameRepair(w) ==
    /\ stage[w] = "renaming"
    /\ \/ /\ lines' = repair /\ ended' = TRUE
          /\ repair' = NoFile
          /\ Go(w, "appending")
          /\ UNCHANGED <<remaining, log, outcome>>
       \/ UNCHANGED <<lines, ended, repair>> /\ Leave(w, "refused")
    /\ UNCHANGED <<lock, permit, count>>

(* The receipt this append writes: its mark is the count it read.          *)
Line(w) == [seq |-> Len(log[w]), of |-> w]

(* The first bytes of the write: a new line begins, or, had the separator  *)
(* been left missing, the last line runs on and no longer decodes.         *)
BeginLine(w) ==
    /\ stage[w] = "appending"
    /\ \/ UNCHANGED <<lines, ended>> /\ Leave(w, "refused")
       \/ /\ lines' = IF ended THEN Append(lines, Partial)
                               ELSE [lines EXCEPT ![Len(lines)] = Fused]
          /\ ended' = FALSE
          /\ \/ Go(w, "torn") /\ UNCHANGED <<remaining, log, outcome>>
             \/ Leave(w, "refused")
    /\ UNCHANGED <<repair, lock, permit, count>>

(* The bytes of the receipt are all there.                                 *)
FinishLine(w) ==
    /\ stage[w] = "torn"
    /\ lines' = IF lines # <<>> /\ lines[Len(lines)] = Partial
                THEN [lines EXCEPT ![Len(lines)] = Line(w)] ELSE lines
    /\ \/ Go(w, "unterminated") /\ UNCHANGED <<remaining, log, outcome>>
       \/ Leave(w, "refused")
    /\ UNCHANGED <<ended, repair, lock, permit, count>>

EndLine(w) ==
    /\ stage[w] = "unterminated"
    /\ ended' = TRUE
    /\ Leave(w, "ok")
    /\ UNCHANGED <<lines, repair, lock, permit, count>>

(* The release runs on every exit and ignores a failure to remove the      *)
(* lock, which then stays behind.                                          *)
Release(w) ==
    /\ stage[w] = "releasing"
    /\ lock' \in {FALSE, lock}
    /\ acked' = IF outcome[w] = "ok" THEN acked \union {Line(w)} ELSE acked
    /\ Forget(w)
    /\ ReturnPermit(w)
    /\ UNCHANGED <<lines, ended, repair, appends, crashes>>

(* A fiber interrupted while it waits for the permit or uses the lock.     *)
(* The wait for the lock is an acquire, which is not interruptible.        *)
Interrupt(w) ==
    /\ \/ stage[w] = "queued" /\ Forget(w)
       \/ stage[w] \in Held \ {"releasing"} /\ Leave(w, "refused")
    /\ UNCHANGED <<disk, permit, count>>

(* A process is killed: its fibers stop where they are, the disk stays.    *)
Crash(p) ==
    /\ crashes < MaxCrashes
    /\ crashes' = crashes + 1
    /\ permit' = [permit EXCEPT ![p] = TRUE]
    /\ stage' = [w \in Writers |-> IF ProcessOf[w] = p THEN "idle" ELSE stage[w]]
    /\ remaining' = [w \in Writers |-> IF ProcessOf[w] = p THEN 0 ELSE remaining[w]]
    /\ log' = [w \in Writers |-> IF ProcessOf[w] = p THEN <<>> ELSE log[w]]
    /\ outcome' = [w \in Writers |-> IF ProcessOf[w] = p THEN "none" ELSE outcome[w]]
    /\ UNCHANGED <<disk, acked, appends>>

(* The operator removes a stale lock, as the refusal tells them to, when   *)
(* no live writer holds it.                                                *)
RemoveStaleLock ==
    /\ lock /\ \A w \in Writers : stage[w] \notin Held
    /\ lock' = FALSE
    /\ UNCHANGED <<lines, ended, repair, permit, local, count>>

Step(w) ==
    \/ TakePermit(w) \/ TakeLock(w)
    \/ ReadLog(w) \/ WriteRepair(w) \/ RenameRepair(w)
    \/ BeginLine(w) \/ FinishLine(w) \/ EndLine(w)
    \/ Release(w)

Next ==
    \/ \E w \in Writers : Call(w) \/ Step(w) \/ FailLock(w) \/ Interrupt(w)
    \/ \E p \in Processes : Crash(p)
    \/ RemoveStaleLock

Spec == Init /\ [][Next]_vars

(* A running fiber is scheduled, a timer fires and a file system call      *)
(* returns.  Nothing obliges the operator, and no failure is fair.         *)
FairSpec == Spec /\ \A w \in Writers : WF_vars(Step(w))

----------------------------------------------------------------------------
(* What the file word log promises.                                        *)

(***************************************************************************)
(* Appends take turns across processes (WordLog.ts, "Two writers, one mark *)
(* plane"), through crashes, refused waits, ignored release failures and   *)
(* removals of stale locks.                                                *)
(***************************************************************************)
MutualExclusion ==
    \A v, w \in Writers : stage[v] \in Held /\ stage[w] \in Held => v = w

(***************************************************************************)
(* The history is never wedged: a read, at whatever instant of whatever    *)
(* append, crash or repair, finds no undecodable line but the last and no  *)
(* mark out of place, so readLog never refuses for what is in the file.    *)
(***************************************************************************)
LogReadable == Readable

(***************************************************************************)
(* An acknowledged receipt stays read at its mark.                         *)
(***************************************************************************)
AcknowledgedKept ==
    \A r \in acked : r.seq < Len(Entries) /\ Entries[r.seq + 1] = r

(***************************************************************************)
(* What reads of the file return is a word: it grows by one receipt at the *)
(* next mark and nothing a reader saw, acknowledged or not, is taken back. *)
(***************************************************************************)
ReadWord == INSTANCE Word WITH Admitted <- Writers, word <- Entries

RefinesWord == ReadWord!Spec

(***************************************************************************)
(* Every append answers: a lock left behind by a dead process makes        *)
(* appends refuse after their attempts, never wait for ever.               *)
(***************************************************************************)
AppendsAnswer == \A w \in Writers : stage[w] # "idle" ~> stage[w] = "idle"
============================================================================
