---------------------------- MODULE StoreLayout ----------------------------
(***************************************************************************)
(* One store directory as the shell's `init` makes it and as every verb    *)
(* and host finds and opens it (bin/cli/store.ts).                         *)
(*                                                                         *)
(* Creating a store is several file-system calls by a process that may die *)
(* between any two of them and may run beside another `init`.  The config  *)
(* file is written by truncating it and filling it, and an operator may    *)
(* rewrite it or take away its permissions at any time.                    *)
(***************************************************************************)
EXTENDS Naturals, FiniteSets

CONSTANTS
    Makers,         \* processes running `init`
    NoFile,         \* the config file is not there
    Garbled,        \* config text that does not decode
    Unreadable,     \* the reading of a config that is there and will not read
    NoPolicy,       \* a config without a serve policy
    Policies,       \* serve policies a config may carry
    DefaultPolicy,  \* the one `init` writes
    EditedConfigs,  \* config files an operator may leave behind
    MaxInits,       \* bound: how many times `init` starts
    MaxEdits        \* bound: how many times an operator edits the config

VARIABLES
    dir,            \* what stands in the store directory
    maker,          \* per process: where its `init` is, and its backend
    inits, edits,   \* how many of each so far
    made,           \* the backends of the inits that answered success
    raced           \* two processes were past the check at the same time

layoutVars == <<dir, maker, inits, edits, made, raced>>

Backends == {"file", "sqlite"}

\* The text of a config that decodes, and a config file on disk.
Configs     == [backend : Backends, serve : Policies \cup {NoPolicy}]
ConfigFiles == [says : Configs \cup {Garbled}, readable : BOOLEAN]
Steps       == {"idle", "mkdir", "truncate", "fill", "objects", "roots", "database"}

ASSUME LayoutAssumption ==
    /\ DefaultPolicy \in Policies
    /\ EditedConfigs \subseteq ConfigFiles
    /\ NoFile \notin ConfigFiles
    /\ Garbled \notin Configs
    /\ {NoFile, Unreadable} \cap Configs = {}
    /\ NoFile # Unreadable
    /\ NoPolicy \notin Policies
    /\ MaxInits \in Nat /\ MaxEdits \in Nat

LayoutTypeOK ==
    /\ dir \in [config : ConfigFiles \cup {NoFile}, objects : BOOLEAN,
                roots : BOOLEAN, db : BOOLEAN]
    /\ maker \in [Makers -> [at : Steps, backend : Backends]]
    /\ inits \in 0..MaxInits
    /\ edits \in 0..MaxEdits
    /\ made \in [Backends -> 0..MaxInits]
    /\ raced \in BOOLEAN

LayoutInit ==
    /\ dir = [config |-> NoFile, objects |-> FALSE, roots |-> FALSE, db |-> FALSE]
    /\ maker = [m \in Makers |-> [at |-> "idle", backend |-> "file"]]
    /\ inits = 0
    /\ edits = 0
    /\ made = [b \in Backends |-> 0]
    /\ raced = FALSE

-----------------------------------------------------------------------------
(* What a reader makes of the directory.                                   *)

\* Seeded fault: any failure to open is absence.
ReadOrDefault ==
    IF dir.config # NoFile /\ dir.config.readable /\ dir.config.says # Garbled
    THEN dir.config.says
    ELSE NoFile

\* Absent only when the file is not there; anything else that will not read
\* is a refusal.
ReadConfig ==
    IF dir.config = NoFile THEN NoFile
    ELSE IF dir.config.readable /\ dir.config.says # Garbled THEN dir.config.says
    ELSE Unreadable

\* A store without a config is a file store under the default policy.
BackendOf(config) == IF config = NoFile THEN "file" ELSE config.backend
PolicyOf(config) ==
    IF config = NoFile \/ config.serve = NoPolicy THEN DefaultPolicy ELSE config.serve

\* A config this reader cannot use leaves the layout unknown, and the
\* database file is then its own evidence.
Layout == IF ReadConfig = Unreadable THEN "sqlite" ELSE BackendOf(ReadConfig)

IsStoreRoot == dir.objects \/ (Layout = "sqlite" /\ dir.db)

-----------------------------------------------------------------------------
(* `init`, one file-system call at a time.                                 *)

Goto(m, step) == maker' = [maker EXCEPT ![m].at = step]

\* The check that there is no store yet; a store that is there is refused.
BeginInit(m, backend) ==
    /\ maker[m].at = "idle"
    /\ inits < MaxInits
    /\ inits' = inits + 1
    /\ IF IsStoreRoot
       THEN UNCHANGED <<maker, raced>>
       ELSE /\ maker' = [maker EXCEPT ![m] = [at |-> "mkdir", backend |-> backend]]
            /\ raced' = (raced \/ \E other \in Makers : maker[other].at # "idle")
    /\ UNCHANGED <<dir, edits, made>>

MakeDirectory(m) ==
    /\ maker[m].at = "mkdir"
    /\ Goto(m, "truncate")
    /\ UNCHANGED <<dir, inits, edits, made, raced>>

\* The config comes first, in both layouts.  A file this process may not
\* write ends the `init` with a defect.
TruncateConfig(m) ==
    /\ maker[m].at = "truncate"
    /\ IF dir.config # NoFile /\ ~dir.config.readable
       THEN Goto(m, "idle") /\ UNCHANGED dir
       ELSE /\ Goto(m, "fill")
            /\ dir' = [dir EXCEPT !.config = [says |-> Garbled, readable |-> TRUE]]
    /\ UNCHANGED <<inits, edits, made, raced>>

FillConfig(m) ==
    /\ maker[m].at = "fill"
    /\ dir' = [dir EXCEPT !.config =
            [says |-> [backend |-> maker[m].backend, serve |-> DefaultPolicy],
             readable |-> TRUE]]
    /\ Goto(m, IF maker[m].backend = "sqlite" THEN "database" ELSE "objects")
    /\ UNCHANGED <<inits, edits, made, raced>>

Answer(m) == made' = [made EXCEPT ![maker[m].backend] = @ + 1]

\* Opening the database creates the file and its tables.
CreateDatabase(m) ==
    /\ maker[m].at = "database"
    /\ dir' = [dir EXCEPT !.db = TRUE]
    /\ Goto(m, "idle")
    /\ Answer(m)
    /\ UNCHANGED <<inits, edits, raced>>

MakeObjects(m) ==
    /\ maker[m].at = "objects"
    /\ dir' = [dir EXCEPT !.objects = TRUE]
    /\ Goto(m, "roots")
    /\ UNCHANGED <<inits, edits, made, raced>>

MakeRoots(m) ==
    /\ maker[m].at = "roots"
    /\ dir' = [dir EXCEPT !.roots = TRUE]
    /\ Goto(m, "idle")
    /\ Answer(m)
    /\ UNCHANGED <<inits, edits, raced>>

\* The process dies where it stands; opening the database may have created
\* the file already.
CrashInit(m) ==
    /\ maker[m].at # "idle"
    /\ \E opened \in IF maker[m].at = "database" THEN BOOLEAN ELSE {FALSE} :
            dir' = [dir EXCEPT !.db = @ \/ opened]
    /\ Goto(m, "idle")
    /\ UNCHANGED <<inits, edits, made, raced>>

\* An operator rewrites the config of a store, or changes its permissions.
EditConfig(file) ==
    /\ IsStoreRoot
    /\ edits < MaxEdits
    /\ edits' = edits + 1
    /\ dir' = [dir EXCEPT !.config = file]
    /\ UNCHANGED <<maker, inits, made, raced>>

LayoutNext ==
    \/ \E m \in Makers : \/ \E backend \in Backends : BeginInit(m, backend)
                         \/ MakeDirectory(m)
                         \/ TruncateConfig(m)
                         \/ FillConfig(m)
                         \/ CreateDatabase(m)
                         \/ MakeObjects(m)
                         \/ MakeRoots(m)
                         \/ CrashInit(m)
    \/ \E file \in EditedConfigs : EditConfig(file)

-----------------------------------------------------------------------------
\* A directory some `init` answered for is a store, opens with the backend
\* that was asked, and is answered for once, whatever died on the way there:
\* "it is the only creator, and it creates exactly once" (store.ts:171).  It
\* takes creators that do not overlap, since the check and the writes are not
\* one step, and a config nobody edited.
CreatedStoreOpens ==
    ~raced /\ edits = 0 =>
        \A b \in Backends : made[b] > 0 =>
            /\ IsStoreRoot
            /\ ReadConfig # Unreadable
            /\ BackendOf(ReadConfig) = b
            /\ made[b] = 1
=============================================================================
