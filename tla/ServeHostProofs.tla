-------------------------- MODULE ServeHostProofs --------------------------
(***************************************************************************)
(* Proofs about StoreLayout and ServeHost, for any number of processes and *)
(* exchanges, any requests, policies and caps, and any store: what `init`  *)
(* made opens as it was asked, a config that gates reads is never served,  *)
(* each gate's permits, gauge and counts are exact however exchanges end,  *)
(* only what the door and the law let in changes the store, and what an    *)
(* answer says holds.                                                      *)
(***************************************************************************)
EXTENDS ServeHost, SequenceTheorems, FiniteSetTheorems, TLAPS

----------------------------------------------------------------------------
(* The directory.                                                          *)

Active == {m \in Makers : maker[m].at # "idle"}

(* Every `init` that began is under way, has answered, or died.            *)
MakersCounted ==
    /\ IsFiniteSet(Active)
    /\ Cardinality(Active) + made["file"] + made["sqlite"] <= inits

(* What stands in the directory at each step of an `init`, when no two     *)
(* overlapped and no operator edited the config.                           *)
Wrote(backend) ==
    dir.config = [says |-> [backend |-> backend, serve |-> DefaultPolicy], readable |-> TRUE]

MakerAt(m) ==
    /\ maker[m].at \in {"objects", "roots"} => Wrote("file") /\ maker[m].backend = "file"
    /\ maker[m].at = "roots" => dir.objects
    /\ maker[m].at = "database" => Wrote("sqlite") /\ maker[m].backend = "sqlite"

Unraced ==
    ~raced /\ edits = 0 =>
        /\ dir.config # NoFile => dir.config.readable
        /\ \A m, other \in Active : m = other
        /\ \A m \in Makers : MakerAt(m)
        /\ \A b \in Backends : made[b] > 0 =>
              /\ IsStoreRoot /\ Wrote(b) /\ made[b] = 1
              /\ \A other \in Backends \ {b} : made[other] = 0
              /\ Active = {}

LayoutInv == LayoutTypeOK /\ MakersCounted /\ Unraced

LEMMA LayoutStarts == LayoutInit => LayoutInv
<1> SUFFICES ASSUME LayoutInit PROVE LayoutInv
  OBVIOUS
<1>1. LayoutTypeOK
  <2>1. dir \in [config : ConfigFiles \cup {NoFile}, objects : BOOLEAN, roots : BOOLEAN, db : BOOLEAN]
    BY DEF LayoutInit
  <2>2. maker \in [Makers -> [at : Steps, backend : Backends]]
    BY DEF LayoutInit, Steps, Backends
  <2>3. 0 \in 0..MaxInits /\ 0 \in 0..MaxEdits
    BY LayoutAssumption
  <2>4. made \in [Backends -> 0..MaxInits]
    BY <2>3 DEF LayoutInit
  <2>5. QED BY <2>1, <2>2, <2>3, <2>4 DEF LayoutInit, LayoutTypeOK
<1>2. Active = {}
  BY DEF LayoutInit, Active
<1>3. MakersCounted
  BY <1>2, FS_EmptySet DEF LayoutInit, MakersCounted, Backends
<1>4. Unraced
  BY <1>2 DEF LayoutInit, Unraced, MakerAt, Backends
<1>5. QED BY <1>1, <1>3, <1>4 DEF LayoutInv

(* How many processes are under way after one of them moved.               *)
LEMMA MakerMoved ==
    ASSUME LayoutInv, NEW m \in Makers, NEW step \in Steps, Goto(m, step), maker[m].at # "idle"
    PROVE  /\ IsFiniteSet(Active')
           /\ Cardinality(Active) \in Nat
           /\ step # "idle" => Active' = Active
           /\ step = "idle" => Active' = Active \ {m} /\ Cardinality(Active') = Cardinality(Active) - 1
           /\ maker'[m].at = step /\ maker'[m].backend = maker[m].backend
           /\ \A other \in Makers \ {m} : maker'[other] = maker[other]
<1>1. maker \in [Makers -> [at : Steps, backend : Backends]]
  BY DEF LayoutInv, LayoutTypeOK
<1>2. /\ maker'[m].at = step /\ maker'[m].backend = maker[m].backend
      /\ \A other \in Makers \ {m} : maker'[other] = maker[other]
  BY <1>1 DEF Goto
<1>3. IsFiniteSet(Active) /\ m \in Active
  BY DEF LayoutInv, MakersCounted, Active
<1>4. step # "idle" => Active' = Active
  BY <1>2, <1>3 DEF Active
<1>5. step = "idle" => Active' = Active \ {m}
  BY <1>2 DEF Active
<1>6. /\ IsFiniteSet(Active \ {m})
      /\ Cardinality(Active \ {m}) = Cardinality(Active) - 1
  BY <1>3, FS_RemoveElement
<1>7. QED BY <1>2, <1>3, <1>4, <1>5, <1>6, FS_CardinalityType

LEMMA MadeTyped ==
    ASSUME LayoutInv
    PROVE  /\ made["file"] \in Nat /\ made["sqlite"] \in Nat /\ inits \in Nat
           /\ Cardinality(Active) \in Nat /\ inits <= MaxInits /\ MaxInits \in Nat
<1>1. made["file"] \in 0..MaxInits /\ made["sqlite"] \in 0..MaxInits /\ inits \in 0..MaxInits
  BY DEF LayoutInv, LayoutTypeOK, Backends
<1>2. Cardinality(Active) \in Nat
  BY FS_CardinalityType DEF LayoutInv, MakersCounted
<1>3. QED BY <1>1, <1>2, LayoutAssumption

(* An `init` begins, and overlaps whatever is under way.                   *)
LEMMA BeginKeeps ==
    ASSUME LayoutInv, NEW m \in Makers, NEW backend \in Backends, BeginInit(m, backend)
    PROVE  LayoutInv'
<1>1. /\ maker \in [Makers -> [at : Steps, backend : Backends]]
      /\ made["file"] \in Nat /\ made["sqlite"] \in Nat /\ inits \in Nat
      /\ Cardinality(Active) \in Nat /\ IsFiniteSet(Active)
      /\ Cardinality(Active) + made["file"] + made["sqlite"] <= inits
  BY MadeTyped DEF LayoutInv, LayoutTypeOK, MakersCounted
<1>2. inits' = inits + 1 /\ inits' \in 0..MaxInits /\ UNCHANGED <<dir, edits, made>>
  BY <1>1, LayoutAssumption DEF BeginInit
<1>3. CASE IsStoreRoot
  <2>1. UNCHANGED <<maker, raced>>
    BY <1>3 DEF BeginInit
  <2>2. LayoutTypeOK'
    BY <1>2, <2>1 DEF LayoutInv, LayoutTypeOK
  <2>3. MakersCounted'
    <3>1. Active' = Active
      BY <2>1 DEF Active
    <3>2. QED BY <1>1, <1>2, <3>1 DEF MakersCounted
  <2>4. Unraced'
    BY <1>2, <2>1 DEF LayoutInv, Unraced, MakerAt, Active, Wrote, IsStoreRoot, Layout, ReadConfig
  <2>5. QED BY <2>2, <2>3, <2>4 DEF LayoutInv
<1>4. CASE ~IsStoreRoot
  <2>1. /\ maker' = [maker EXCEPT ![m] = [at |-> "mkdir", backend |-> backend]]
        /\ raced' = (raced \/ \E other \in Makers : maker[other].at # "idle")
        /\ maker[m].at = "idle"
    BY <1>4 DEF BeginInit
  <2>2. LayoutTypeOK'
    BY <1>2, <2>1 DEF LayoutInv, LayoutTypeOK, Steps
  <2>3. Active' = Active \cup {m} /\ m \notin Active
    BY <1>1, <2>1 DEF Active
  <2>4. MakersCounted'
    <3>1. IsFiniteSet(Active') /\ Cardinality(Active') = Cardinality(Active) + 1
      BY <1>1, <2>3, FS_AddElement
    <3>2. QED BY <1>1, <1>2, <3>1 DEF MakersCounted
  <2>5. Unraced'
    <3> SUFFICES ASSUME ~raced', edits = 0 PROVE Unraced'
      BY <1>2 DEF Unraced
    <3>1. ~raced /\ Active = {}
      BY <2>1 DEF Active, LayoutInv, LayoutTypeOK
    <3>2. Unraced /\ \A b \in Backends : made[b] = 0
      <4>1. \A b \in Backends : ~(made[b] > 0)
        BY <1>4, <3>1 DEF LayoutInv, Unraced
      <4>2. QED BY <1>1, <4>1 DEF LayoutInv, Backends
    <3>3. \A other \in Makers : maker'[other].at \in {"idle", "mkdir"}
      BY <1>1, <2>1, <3>1 DEF Active
    <3>4. \A other \in Active' : other = m
      BY <2>3, <3>1
    <3>5. QED BY <1>2, <3>1, <3>2, <3>3, <3>4 DEF Unraced, MakerAt
  <2>6. QED BY <2>2, <2>4, <2>5 DEF LayoutInv
<1>5. QED BY <1>3, <1>4

(* A step of the `init` under way; alone, it knows what it has written.    *)
LEMMA MakerKeeps ==
    ASSUME LayoutInv, NEW m \in Makers, NEW step \in Steps, Goto(m, step), maker[m].at # "idle",
           UNCHANGED <<inits, edits, raced>>,
           dir' \in [config : ConfigFiles \cup {NoFile}, objects : BOOLEAN, roots : BOOLEAN, db : BOOLEAN],
           UNCHANGED made \/ (step = "idle" /\ Answer(m)),
           ~raced /\ edits = 0 /\ (\A b \in Backends : made[b] = 0) /\ MakerAt(m) =>
               /\ dir'.config # NoFile => dir'.config.readable
               /\ step # "idle" => MakerAt(m)'
               /\ step = "idle" /\ ~UNCHANGED made =>
                     IsStoreRoot' /\ Wrote(maker[m].backend)'
    PROVE  LayoutInv'
<1> DEFINE b == maker[m].backend
<1>1. /\ maker \in [Makers -> [at : Steps, backend : Backends]]
      /\ made["file"] \in Nat /\ made["sqlite"] \in Nat /\ inits \in Nat
      /\ Cardinality(Active) \in Nat /\ IsFiniteSet(Active)
      /\ Cardinality(Active) + made["file"] + made["sqlite"] <= inits
      /\ inits <= MaxInits /\ MaxInits \in Nat
      /\ made \in [Backends -> 0..MaxInits]
      /\ b \in {"file", "sqlite"}
  BY MadeTyped DEF LayoutInv, LayoutTypeOK, MakersCounted, Backends
<1>2. /\ IsFiniteSet(Active')
      /\ step # "idle" => Active' = Active
      /\ step = "idle" => Active' = Active \ {m} /\ Cardinality(Active') = Cardinality(Active) - 1
      /\ maker'[m].at = step /\ maker'[m].backend = b
      /\ \A other \in Makers \ {m} : maker'[other] = maker[other]
  BY MakerMoved
<1>3. MakersCounted'
  <2>1. CASE UNCHANGED made
    BY <1>1, <1>2, <2>1 DEF MakersCounted
  <2>2. CASE step = "idle" /\ Answer(m)
    <3>1. made' = [made EXCEPT ![b] = @ + 1]
      BY <2>2 DEF Answer
    <3>2. made'["file"] + made'["sqlite"] = made["file"] + made["sqlite"] + 1
      BY <1>1, <3>1 DEF Backends
    <3>3. made'["file"] \in Nat /\ made'["sqlite"] \in Nat
      BY <1>1, <3>1 DEF Backends
    <3>4. QED BY <1>1, <1>2, <2>2, <3>2, <3>3 DEF MakersCounted
  <2>3. QED BY <2>1, <2>2
<1>4. LayoutTypeOK'
  <2>1. maker' \in [Makers -> [at : Steps, backend : Backends]]
    BY <1>1 DEF Goto
  <2>2. made' \in [Backends -> 0..MaxInits]
    <3>1. CASE UNCHANGED made
      BY <1>1, <3>1
    <3>2. CASE step = "idle" /\ Answer(m)
      <4>1. made' = [made EXCEPT ![b] = @ + 1]
        BY <3>2 DEF Answer
      <4>2. made'["file"] \in Nat /\ made'["sqlite"] \in Nat /\ Cardinality(Active') \in Nat
        BY <1>1, <1>2, <4>1, FS_CardinalityType DEF Backends
      <4>3. made'["file"] <= MaxInits /\ made'["sqlite"] <= MaxInits
        BY <1>1, <1>3, <4>2 DEF MakersCounted
      <4>4. QED BY <1>1, <4>1, <4>2, <4>3 DEF Backends
    <3>3. QED BY <3>1, <3>2
  <2>3. QED BY <2>1, <2>2 DEF LayoutInv, LayoutTypeOK
<1>5. Unraced'
  <2> SUFFICES ASSUME ~raced, edits = 0 PROVE Unraced'
    BY DEF Unraced
  <2>1. /\ m \in Active
        /\ \A k, other \in Active : k = other
        /\ MakerAt(m)
        /\ \A c \in Backends : ~(made[c] > 0)
    BY DEF LayoutInv, Unraced, Active
  <2>2. \A c \in Backends : made[c] = 0
    BY <1>1, <2>1 DEF Backends
  <2>3. /\ dir'.config # NoFile => dir'.config.readable
        /\ step # "idle" => MakerAt(m)'
        /\ step = "idle" /\ ~UNCHANGED made => IsStoreRoot' /\ Wrote(b)'
    BY <2>1, <2>2
  <2>4. \A other \in Makers \ {m} : maker'[other].at = "idle"
    BY <1>2, <2>1 DEF Active
  <2>5. \A k, other \in Active' : k = other
    BY <1>2, <2>1
  <2>6. \A k \in Makers : MakerAt(k)'
    <3>1. step = "idle" => MakerAt(m)'
      BY <1>2 DEF MakerAt
    <3>2. QED BY <2>3, <2>4, <3>1 DEF MakerAt
  <2>7. ASSUME NEW c \in Backends, made'[c] > 0
        PROVE  /\ IsStoreRoot' /\ Wrote(c)' /\ made'[c] = 1
               /\ \A other \in Backends \ {c} : made'[other] = 0
               /\ Active' = {}
    <3>1. ~UNCHANGED made /\ step = "idle" /\ Answer(m)
      BY <2>2, <2>7
    <3>2. c = b /\ made'[c] = 1 /\ \A other \in Backends \ {c} : made'[other] = 0
      BY <1>1, <2>2, <2>7, <3>1 DEF Answer
    <3>3. Active' = {}
      BY <1>2, <2>1, <3>1
    <3>4. IsStoreRoot' /\ Wrote(c)'
      BY <1>2, <2>3, <3>1, <3>2 DEF Wrote
    <3>5. QED BY <3>2, <3>3, <3>4
  <2>8. QED BY <2>3, <2>5, <2>6, <2>7 DEF Unraced
<1>6. QED BY <1>3, <1>4, <1>5 DEF LayoutInv

LEMMA WhatInitWrites ==
    ASSUME NEW b \in Backends
    PROVE  LET says == [backend |-> b, serve |-> DefaultPolicy]
               file == [says |-> says, readable |-> TRUE]
           IN  /\ says \in Configs /\ says \notin {Garbled, NoFile, Unreadable}
               /\ file \in ConfigFiles /\ file # NoFile
<1> DEFINE says == [backend |-> b, serve |-> DefaultPolicy]
           file == [says |-> says, readable |-> TRUE]
<1>1. says \in Configs
  BY LayoutAssumption DEF Configs
<1>2. file \in ConfigFiles
  BY <1>1 DEF ConfigFiles
<1> HIDE DEF says, file
<1>3. says \notin {Garbled, NoFile, Unreadable}
  BY <1>1, LayoutAssumption
<1>4. file # NoFile
  BY <1>2, LayoutAssumption
<1>5. QED BY <1>1, <1>2, <1>3, <1>4 DEF says, file

LEMMA InitStepKeeps ==
    ASSUME LayoutInv, NEW m \in Makers,
           \/ MakeDirectory(m) \/ TruncateConfig(m) \/ FillConfig(m) \/ CreateDatabase(m)
           \/ MakeObjects(m) \/ MakeRoots(m) \/ CrashInit(m)
    PROVE  LayoutInv'
<1>1. /\ dir \in [config : ConfigFiles \cup {NoFile}, objects : BOOLEAN, roots : BOOLEAN, db : BOOLEAN]
      /\ maker[m].backend \in {"file", "sqlite"}
      /\ maker \in [Makers -> [at : Steps, backend : Backends]]
  BY DEF LayoutInv, LayoutTypeOK, Backends
<1>2. /\ [says |-> Garbled, readable |-> TRUE] \in ConfigFiles
      /\ \A b \in Backends : [says |-> [backend |-> b, serve |-> DefaultPolicy], readable |-> TRUE]
                                \in ConfigFiles
  BY WhatInitWrites, LayoutAssumption DEF ConfigFiles
<1>3. CASE MakeDirectory(m)
  <2>1. Goto(m, "truncate") /\ maker[m].at = "mkdir" /\ UNCHANGED <<dir, inits, edits, made, raced>>
    BY <1>3 DEF MakeDirectory
  <2>2. ~raced /\ edits = 0 => (dir.config # NoFile => dir.config.readable)
    BY DEF LayoutInv, Unraced
  <2>3. MakerAt(m)'
    BY <1>1, <2>1 DEF MakerAt, Goto
  <2>4. QED BY <1>1, <2>1, <2>2, <2>3, MakerKeeps DEF Steps
<1>4. CASE TruncateConfig(m)
  <2>1. maker[m].at = "truncate" /\ UNCHANGED <<inits, edits, made, raced>>
    BY <1>4 DEF TruncateConfig
  <2>2. CASE Goto(m, "idle") /\ UNCHANGED dir
    <3>1. ~raced /\ edits = 0 => (dir.config # NoFile => dir.config.readable)
      BY DEF LayoutInv, Unraced
    <3>2. QED BY <1>1, <2>1, <2>2, <3>1, MakerKeeps DEF Steps
  <2>3. CASE /\ Goto(m, "fill")
             /\ dir' = [dir EXCEPT !.config = [says |-> Garbled, readable |-> TRUE]]
    <3>1. /\ dir' \in [config : ConfigFiles \cup {NoFile}, objects : BOOLEAN, roots : BOOLEAN, db : BOOLEAN]
          /\ dir'.config.readable
      BY <1>1, <1>2, <2>3
    <3>2. MakerAt(m)'
      BY <1>1, <2>1, <2>3 DEF MakerAt, Goto
    <3>3. QED BY <2>1, <2>3, <3>1, <3>2, MakerKeeps DEF Steps
  <2>4. QED BY <1>4, <2>2, <2>3 DEF TruncateConfig
<1>5. CASE FillConfig(m)
  <2> DEFINE next == IF maker[m].backend = "sqlite" THEN "database" ELSE "objects"
  <2>1. /\ Goto(m, next) /\ maker[m].at = "fill" /\ UNCHANGED <<inits, edits, made, raced>>
        /\ next \in Steps /\ next # "idle"
    BY <1>5 DEF FillConfig, Steps
  <2>2. /\ dir' \in [config : ConfigFiles \cup {NoFile}, objects : BOOLEAN, roots : BOOLEAN, db : BOOLEAN]
        /\ dir'.config = [says |-> [backend |-> maker[m].backend, serve |-> DefaultPolicy],
                          readable |-> TRUE]
    BY <1>1, <1>2, <1>5 DEF FillConfig, Backends
  <2>3. MakerAt(m)'
    BY <1>1, <2>1, <2>2 DEF MakerAt, Goto, Wrote
  <2> HIDE DEF next
  <2>4. QED BY <2>1, <2>2, <2>3, MakerKeeps
<1>6. CASE CreateDatabase(m)
  <2>1. /\ Goto(m, "idle") /\ maker[m].at = "database" /\ Answer(m) /\ UNCHANGED <<inits, edits, raced>>
        /\ dir' = [dir EXCEPT !.db = TRUE]
    BY <1>6 DEF CreateDatabase
  <2>2. dir' \in [config : ConfigFiles \cup {NoFile}, objects : BOOLEAN, roots : BOOLEAN, db : BOOLEAN]
    BY <1>1, <2>1
  <2>3. maker'[m].backend = maker[m].backend
    BY <1>1, <2>1 DEF Goto
  <2>4. ASSUME MakerAt(m) PROVE /\ dir'.config.readable /\ IsStoreRoot'
                                /\ Wrote(maker[m].backend)'
    <3>1. dir'.config = [says |-> [backend |-> "sqlite", serve |-> DefaultPolicy], readable |-> TRUE]
      BY <1>1, <2>1, <2>4 DEF MakerAt, Wrote
    <3>2. maker[m].backend = "sqlite" /\ dir'.db
      BY <1>1, <2>1, <2>4 DEF MakerAt
    <3>3. dir'.config # NoFile /\ dir'.config.says # Garbled
      BY <3>1, WhatInitWrites DEF Backends
    <3>4. ReadConfig' = [backend |-> "sqlite", serve |-> DefaultPolicy]
      BY <3>1, <3>3 DEF ReadConfig
    <3>5. ReadConfig' # NoFile /\ ReadConfig' # Unreadable
      BY <3>4, WhatInitWrites DEF Backends
    <3>6. IsStoreRoot'
      BY <3>2, <3>4, <3>5 DEF IsStoreRoot, Layout, BackendOf
    <3>7. QED BY <2>3, <3>1, <3>2, <3>6 DEF Wrote
  <2>5. QED BY <2>1, <2>2, <2>4, MakerKeeps DEF Steps
<1>7. CASE MakeObjects(m)
  <2>1. /\ Goto(m, "roots") /\ maker[m].at = "objects" /\ UNCHANGED <<inits, edits, made, raced>>
        /\ dir' = [dir EXCEPT !.objects = TRUE]
    BY <1>7 DEF MakeObjects
  <2>2. /\ dir' \in [config : ConfigFiles \cup {NoFile}, objects : BOOLEAN, roots : BOOLEAN, db : BOOLEAN]
        /\ dir'.config = dir.config /\ dir'.objects
    BY <1>1, <2>1
  <2>3. MakerAt(m) => MakerAt(m)' /\ dir'.config.readable
    BY <1>1, <2>1, <2>2 DEF MakerAt, Goto, Wrote
  <2>4. QED BY <2>1, <2>2, <2>3, MakerKeeps DEF Steps
<1>8. CASE MakeRoots(m)
  <2>1. /\ Goto(m, "idle") /\ maker[m].at = "roots" /\ Answer(m) /\ UNCHANGED <<inits, edits, raced>>
        /\ dir' = [dir EXCEPT !.roots = TRUE]
    BY <1>8 DEF MakeRoots
  <2>2. /\ dir' \in [config : ConfigFiles \cup {NoFile}, objects : BOOLEAN, roots : BOOLEAN, db : BOOLEAN]
        /\ dir'.config = dir.config /\ dir'.objects = dir.objects
    BY <1>1, <2>1
  <2>3. maker'[m].backend = maker[m].backend
    BY <1>1, <2>1 DEF Goto
  <2>4. MakerAt(m) => /\ dir'.config.readable /\ IsStoreRoot' /\ Wrote(maker[m].backend)'
    BY <2>1, <2>2, <2>3 DEF MakerAt, Wrote, IsStoreRoot
  <2>5. QED BY <2>1, <2>2, <2>4, MakerKeeps DEF Steps
<1>9. CASE CrashInit(m)
  <2>1. PICK opened \in BOOLEAN : dir' = [dir EXCEPT !.db = @ \/ opened]
    BY <1>9 DEF CrashInit
  <2>2. Goto(m, "idle") /\ maker[m].at # "idle" /\ UNCHANGED <<inits, edits, made, raced>>
    BY <1>9 DEF CrashInit
  <2>3. /\ dir' \in [config : ConfigFiles \cup {NoFile}, objects : BOOLEAN, roots : BOOLEAN, db : BOOLEAN]
        /\ dir'.config = dir.config
    BY <1>1, <2>1
  <2>4. ~raced /\ edits = 0 => (dir.config # NoFile => dir.config.readable)
    BY DEF LayoutInv, Unraced
  <2>5. QED BY <2>2, <2>3, <2>4, MakerKeeps DEF Steps
<1>10. QED BY <1>3, <1>4, <1>5, <1>6, <1>7, <1>8, <1>9

LEMMA LayoutKeeps == LayoutInv /\ LayoutNext => LayoutInv'
<1> SUFFICES ASSUME LayoutInv, LayoutNext PROVE LayoutInv'
  OBVIOUS
<1>1. CASE \E m \in Makers : \E backend \in Backends : BeginInit(m, backend)
  BY <1>1, BeginKeeps
<1>2. CASE \E m \in Makers :
              \/ MakeDirectory(m) \/ TruncateConfig(m) \/ FillConfig(m) \/ CreateDatabase(m)
              \/ MakeObjects(m) \/ MakeRoots(m) \/ CrashInit(m)
  BY <1>2, InitStepKeeps
<1>3. ASSUME NEW file \in EditedConfigs, EditConfig(file)
      PROVE  LayoutInv'
  <2>1. edits' = edits + 1 /\ edits < MaxEdits /\ dir' = [dir EXCEPT !.config = file]
        /\ UNCHANGED <<maker, inits, made, raced>>
    BY <1>3 DEF EditConfig
  <2>2. edits' \in 0..MaxEdits /\ edits' # 0
    BY <2>1, LayoutAssumption DEF LayoutInv, LayoutTypeOK
  <2>3. dir' \in [config : ConfigFiles \cup {NoFile}, objects : BOOLEAN, roots : BOOLEAN, db : BOOLEAN]
    BY <2>1, LayoutAssumption DEF LayoutInv, LayoutTypeOK
  <2>4. MakersCounted'
    BY <2>1 DEF LayoutInv, MakersCounted, Active
  <2>5. QED BY <2>1, <2>2, <2>3, <2>4 DEF LayoutInv, LayoutTypeOK, Unraced
<1>4. QED BY <1>1, <1>2, <1>3 DEF LayoutNext

LEMMA LayoutStands == LayoutInv /\ UNCHANGED layoutVars => LayoutInv'
BY DEF LayoutInv, LayoutTypeOK, MakersCounted, Unraced, MakerAt, Active, Wrote, IsStoreRoot,
       Layout, ReadConfig, layoutVars

LEMMA CreatedOpens == LayoutInv => CreatedStoreOpens
<1> SUFFICES ASSUME LayoutInv, ~raced, edits = 0, NEW b \in Backends, made[b] > 0
             PROVE  /\ IsStoreRoot /\ ReadConfig # Unreadable
                    /\ BackendOf(ReadConfig) = b /\ made[b] = 1
  BY DEF CreatedStoreOpens
<1>1. IsStoreRoot /\ Wrote(b) /\ made[b] = 1
  BY DEF LayoutInv, Unraced
<1>2. dir.config # NoFile /\ dir.config.says # Garbled
  BY <1>1, WhatInitWrites DEF Wrote
<1>3. ReadConfig = [backend |-> b, serve |-> DefaultPolicy]
  BY <1>1, <1>2 DEF ReadConfig, Wrote
<1>4. ReadConfig # Unreadable /\ BackendOf(ReadConfig) = b
  BY <1>3, WhatInitWrites DEF BackendOf
<1>5. QED BY <1>1, <1>4

----------------------------------------------------------------------------
(* Requests, and the calls a request plans.                                *)

VerbAsk == [verb : Verbs, id : Nodes, note : Nodes]

LEMMA ExchangeParts ==
    ASSUME NEW f \in Exchange
    PROVE  /\ ~IsVerb(f)
           /\ f.id \in Nodes /\ f.bytes \in Nodes /\ f.keys \subseteq Nodes /\ f.lines \in Seq(Lines)
           /\ f.host \in {"absent", "own", "extra", "foreign"}
           /\ f.origin \in {"absent", "self", "listed", "other"}
           /\ f.method \in {"GET", "PUT", "POST", "OPTIONS"}
           /\ f.auth \in {"absent", "scheme", "right", "wrong"}
           /\ f.body \in {"keys", "node", "none"}
           /\ f.profile \in BOOLEAN /\ f.octet \in BOOLEAN
           /\ f.path \in Resources \cup StaticPaths \cup {"unknown", "mcp", "history"}
           /\ f.tool \in Tools
BY DEF Exchange, IsVerb

LEMMA VerbParts ==
    ASSUME NEW f \in VerbAsk
    PROVE  IsVerb(f) /\ f.verb \in Verbs /\ f.id \in Nodes /\ f.note \in Nodes
BY DEF VerbAsk, IsVerb

LEMMA RequestParts ==
    ASSUME NEW e \in Exchanges, NEW f \in Requests[e]
    PROVE  /\ f # NoRequest
           /\ IsVerb(f) => f \in VerbAsk
           /\ ~IsVerb(f) => f \in Exchange
<1>1. f \in Exchange \cup VerbAsk
  BY HostAssumption DEF VerbAsk
<1>2. f # NoRequest
  BY HostAssumption
<1>3. f \in Exchange => ~IsVerb(f)
  BY ExchangeParts
<1>4. f \in VerbAsk => IsVerb(f)
  BY VerbParts
<1>5. QED BY <1>1, <1>2, <1>3, <1>4

Calls ==      [do : {"judge", "write", "resolve", "load", "table"}, on : {{n} : n \in Nodes}]
         \cup [do : {"publish", "closure", "presence", "list", "names", "since"}, on : SUBSET Nodes]

LEMMA CallTyped ==
    /\ \A n \in Nodes :
         \A name \in {"judge", "write", "resolve", "load", "table"} : Call(name, {n}) \in Calls
    /\ \A on \in SUBSET Nodes :
         \A name \in {"publish", "closure", "presence", "list", "names", "since"} : Call(name, on) \in Calls
BY DEF Calls, Call

(* What is judged is then written, what is resolved is then loaded, and     *)
(* what is verified is then published.                                     *)
Leads == {"judge", "resolve", "closure"}

Ordered(calls) == \A k \in 1..Len(calls) : calls[k].do \in Leads => k < Len(calls)

LEMMA PutsTyped ==
    ASSUME NEW n \in Nodes
    PROVE  PutCalls(n) \in Seq(Calls) /\ PutCalls(n) # <<>> /\ Ordered(PutCalls(n))
<1>1. Call("judge", {n}) \in Calls /\ Call("write", {n}) \in Calls
  BY CallTyped
<1>2. /\ Len(PutCalls(n)) = 2
      /\ PutCalls(n)[1] = Call("judge", {n}) /\ PutCalls(n)[2] = Call("write", {n})
  BY DEF PutCalls
<1>3. Ordered(PutCalls(n))
  BY <1>2 DEF Ordered, Leads, Call
<1>4. QED BY <1>1, <1>3 DEF PutCalls

(* A program of one call that needs no other after it.                     *)
LEMMA OneTyped ==
    ASSUME NEW c \in Calls, c.do \notin Leads
    PROVE  <<c>> \in Seq(Calls) /\ <<c>> # <<>> /\ Ordered(<<c>>)
BY DEF Ordered

LEMMA TwoTyped ==
    ASSUME NEW c \in Calls, NEW d \in Calls, d.do \notin Leads
    PROVE  <<c, d>> \in Seq(Calls) /\ <<c, d>> # <<>> /\ Ordered(<<c, d>>)
BY DEF Ordered

(* The two calls of a line: the first leads to the second.                 *)
LEMMA LineParts ==
    ASSUME NEW line \in Lines
    PROVE  /\ line.node \in Nodes /\ line.do \in {"put", "load"}
           /\ line.do = "put" => /\ LineCalls(line)[1] = Call("judge", {line.node})
                                /\ LineCalls(line)[2] = Call("write", {line.node})
           /\ line.do = "load" => /\ LineCalls(line)[1] = Call("resolve", {line.node})
                                 /\ LineCalls(line)[2] = Call("load", {line.node})
           /\ LineCalls(line)[1] \in Calls /\ LineCalls(line)[2] \in Calls
<1>1. line.node \in Nodes /\ line.do \in {"put", "load"}
  BY DEF Lines
<1>2. line.do = "put" => /\ LineCalls(line)[1] = Call("judge", {line.node})
                         /\ LineCalls(line)[2] = Call("write", {line.node})
  BY DEF LineCalls, PutCalls
<1>3. line.do = "load" => /\ LineCalls(line)[1] = Call("resolve", {line.node})
                          /\ LineCalls(line)[2] = Call("load", {line.node})
  BY DEF LineCalls, LoadCalls
<1>4. QED BY <1>1, <1>2, <1>3, CallTyped

(* The lines of a run, two calls to each, in order.                        *)
LEMMA RunAllParts ==
    ASSUME NEW lines \in Seq(Lines)
    PROVE  /\ RunAll(lines) \in Seq(Calls)
           /\ Len(RunAll(lines)) = 2 * Len(lines)
           /\ \A k \in 1..Len(lines) : /\ RunAll(lines)[2 * k - 1] = LineCalls(lines[k])[1]
                                       /\ RunAll(lines)[2 * k] = LineCalls(lines[k])[2]
           /\ \A j \in 1..Len(RunAll(lines)) :
                \E k \in 1..Len(lines) : j = 2 * k - 1 \/ j = 2 * k
           /\ Ordered(RunAll(lines))
<1> DEFINE n == Len(lines)
           half(j) == (j + 1) \div 2
           side(j) == IF j % 2 = 1 THEN 1 ELSE 2
<1>1. n \in Nat
  OBVIOUS
<1>2. \A j \in 1..(2 * n) : /\ j % 2 \in {0, 1} /\ half(j) \in 1..n
                            /\ j % 2 = 1 => j = 2 * half(j) - 1
                            /\ j % 2 = 0 => j = 2 * half(j)
  <2> HIDE DEF n
  <2>1. QED BY <1>1
<1>3. \A j \in 1..(2 * n) : LineCalls(lines[half(j)])[side(j)] \in Calls
  <2> SUFFICES ASSUME NEW j \in 1..(2 * n) PROVE LineCalls(lines[half(j)])[side(j)] \in Calls
    OBVIOUS
  <2>1. half(j) \in 1..n /\ side(j) \in {1, 2}
    BY <1>2
  <2>2. \A k \in 1..n : lines[k] \in Lines
    OBVIOUS
  <2> HIDE DEF n, half, side
  <2>3. QED BY <2>1, <2>2, LineParts
<1>4. RunAll(lines) = [j \in 1..(2 * n) |-> LineCalls(lines[half(j)])[side(j)]]
  BY DEF RunAll
<1>5. RunAll(lines) \in [1..(2 * n) -> Calls]
  <2> HIDE DEF n, half, side
  <2>1. QED BY <1>3, <1>4
<1>6. RunAll(lines) \in Seq(Calls) /\ Len(RunAll(lines)) = 2 * n
  BY <1>1, <1>5
<1>7. \A k \in 1..n : /\ 2 * k - 1 \in 1..(2 * n) /\ 2 * k \in 1..(2 * n)
                      /\ side(2 * k - 1) = 1 /\ side(2 * k) = 2
                      /\ half(2 * k - 1) = k /\ half(2 * k) = k
  <2> HIDE DEF n
  <2>1. \A k \in 1..n : /\ 2 * k - 1 \in 1..(2 * n) /\ 2 * k \in 1..(2 * n)
                        /\ (2 * k - 1) % 2 = 1 /\ (2 * k) % 2 = 0
                        /\ ((2 * k - 1) + 1) \div 2 = k /\ (2 * k + 1) \div 2 = k
    BY <1>1
  <2>2. QED BY <2>1
<1>8. \A k \in 1..n : /\ RunAll(lines)[2 * k - 1] = LineCalls(lines[k])[1]
                      /\ RunAll(lines)[2 * k] = LineCalls(lines[k])[2]
  <2> HIDE DEF n, half, side
  <2>1. QED BY <1>4, <1>7
<1>9. \A j \in 1..(2 * n) : \E k \in 1..n : j = 2 * k - 1 \/ j = 2 * k
  BY <1>2
<1>10. Ordered(RunAll(lines))
  <2> SUFFICES ASSUME NEW j \in 1..(2 * n), RunAll(lines)[j].do \in Leads PROVE j < 2 * n
    BY <1>6 DEF Ordered
  <2>1. PICK k \in 1..n : j = 2 * k - 1 \/ j = 2 * k
    BY <1>9
  <2>2. PICK line \in Lines : RunAll(lines)[2 * k] = LineCalls(line)[2]
    BY <1>8
  <2>3. RunAll(lines)[2 * k] = Call("write", {line.node}) \/ RunAll(lines)[2 * k] = Call("load", {line.node})
    BY <2>2, LineParts
  <2>4. RunAll(lines)[2 * k].do \in {"write", "load"}
    BY <2>3 DEF Call
  <2>5. j # 2 * k
    BY <2>4 DEF Leads
  <2> HIDE DEF n
  <2>6. QED BY <1>1, <2>1, <2>5
<1>11. QED BY <1>6, <1>8, <1>9, <1>10

LEMMA CoreTyped ==
    ASSUME NEW f \in Exchange
    PROVE  CoreCalls(f) \in Seq(Calls) /\ CoreCalls(f) # <<>> /\ Ordered(CoreCalls(f))
<1>1. f.id \in Nodes /\ f.keys \subseteq Nodes
  BY ExchangeParts
<1>2. /\ Call("presence", f.keys) \in Calls /\ Call("list", {}) \in Calls
      /\ Call("closure", {f.id} \cup f.keys) \in Calls /\ Call("publish", {f.id}) \in Calls
      /\ Call("load", {f.id}) \in Calls
  BY <1>1, CallTyped
<1>3. /\ Call("presence", f.keys).do = "presence" /\ Call("list", {}).do = "list"
      /\ Call("load", {f.id}).do = "load" /\ Call("publish", {f.id}).do = "publish"
      /\ \A name \in {"presence", "list", "load", "publish"} : name \notin Leads
  BY DEF Call, Leads
<1>4. QED BY <1>1, <1>2, <1>3, PutsTyped, OneTyped, TwoTyped DEF CoreCalls

LEMMA ToolTyped ==
    ASSUME NEW f \in Exchange
    PROVE  /\ ToolCalls(f) \in Seq(Calls) /\ Ordered(ToolCalls(f))
           /\ ToolCalls(f) # <<>> \/ f.lines = <<>>
<1>1. f.id \in Nodes /\ f.lines \in Seq(Lines)
  BY ExchangeParts
<1>2. /\ Call("list", {}) \in Calls /\ Call("publish", {f.id}) \in Calls
      /\ Call("load", {f.id}) \in Calls /\ Call("table", {f.id}) \in Calls
  BY <1>1, CallTyped
<1>3. /\ RunAll(f.lines) \in Seq(Calls) /\ Ordered(RunAll(f.lines))
      /\ RunAll(f.lines) # <<>> \/ f.lines = <<>>
  <2>1. RunAll(f.lines) \in Seq(Calls) /\ Ordered(RunAll(f.lines)) /\ Len(RunAll(f.lines)) = 2 * Len(f.lines)
    BY <1>1, RunAllParts
  <2>2. Len(f.lines) \in Nat /\ (Len(f.lines) = 0 => f.lines = <<>>)
    BY <1>1
  <2>3. RunAll(f.lines) = <<>> => Len(RunAll(f.lines)) = 0
    OBVIOUS
  <2>4. QED BY <2>1, <2>2, <2>3
<1>4. /\ Call("list", {}).do = "list" /\ Call("publish", {f.id}).do = "publish"
      /\ Call("load", {f.id}).do = "load" /\ Call("table", {f.id}).do = "table"
      /\ \A name \in {"list", "publish", "load", "table"} : name \notin Leads
  BY DEF Call, Leads
<1>5. QED BY <1>2, <1>3, <1>4, OneTyped, TwoTyped DEF ToolCalls

LEMMA NameParts ==
    ASSUME NEW f \in VerbAsk
    PROVE  /\ NameNode(f) \in Seq(Calls) /\ Len(NameNode(f)) = 4 /\ NameNode(f) # <<>>
           /\ NameNode(f)[1] = Call("load", {f.id})
           /\ NameNode(f)[2] = Call("judge", {f.note})
           /\ NameNode(f)[3] = Call("write", {f.note})
           /\ NameNode(f)[4] = Call("publish", {f.note})
<1> DEFINE one == <<Call("load", {f.id})>>
           put == <<Call("judge", {f.note}), Call("write", {f.note})>>
           end == <<Call("publish", {f.note})>>
<1>1. one \in Seq(Calls) /\ put \in Seq(Calls) /\ end \in Seq(Calls)
  <2>1. f.id \in Nodes /\ f.note \in Nodes
    BY VerbParts
  <2>2. /\ Call("load", {f.id}) \in Calls /\ Call("publish", {f.note}) \in Calls
        /\ Call("judge", {f.note}) \in Calls /\ Call("write", {f.note}) \in Calls
    BY <2>1, CallTyped
  <2>3. QED BY <2>2
<1>2. /\ Len(one) = 1 /\ one[1] = Call("load", {f.id})
      /\ Len(put) = 2 /\ put[1] = Call("judge", {f.note}) /\ put[2] = Call("write", {f.note})
      /\ Len(end) = 1 /\ end[1] = Call("publish", {f.note})
  OBVIOUS
<1>3. NameNode(f) = (one \o put) \o end
  BY DEF NameNode, PutCalls
<1> HIDE DEF one, put, end
<1>4. /\ one \o put \in Seq(Calls) /\ Len(one \o put) = 3
      /\ (one \o put)[1] = one[1] /\ (one \o put)[2] = put[1] /\ (one \o put)[3] = put[2]
  BY <1>1, <1>2, ConcatProperties
<1>5. QED BY <1>1, <1>2, <1>3, <1>4, ConcatProperties

LEMMA VerbTyped ==
    ASSUME NEW f \in VerbAsk
    PROVE  VerbCalls(f) \in Seq(Calls) /\ VerbCalls(f) # <<>> /\ Ordered(VerbCalls(f))
<1>1. f.id \in Nodes /\ f.note \in Nodes
  BY VerbParts
<1>2. /\ Call("list", {}) \in Calls /\ Call("names", {}) \in Calls
      /\ Call("publish", {f.id}) \in Calls /\ Call("publish", {f.note}) \in Calls
      /\ Call("load", {f.id}) \in Calls /\ Call("table", {f.id}) \in Calls
      /\ Call("judge", {f.note}) \in Calls /\ Call("write", {f.note}) \in Calls
  BY <1>1, CallTyped
<1>3. NameNode(f) \in Seq(Calls) /\ NameNode(f) # <<>> /\ Ordered(NameNode(f))
  <2>1. /\ NameNode(f) \in Seq(Calls) /\ NameNode(f) # <<>> /\ Len(NameNode(f)) = 4
        /\ NameNode(f)[4] = Call("publish", {f.note})
    BY NameParts
  <2>2. NameNode(f)[4].do = "publish"
    BY <2>1 DEF Call
  <2>3. \A k \in 1..4 : k < 4 \/ k = 4
    OBVIOUS
  <2>4. QED BY <2>1, <2>2, <2>3 DEF Ordered, Leads
<1>4. /\ Call("list", {}).do = "list" /\ Call("publish", {f.id}).do = "publish"
      /\ Call("names", {}).do = "names" /\ Call("table", {f.id}).do = "table"
  BY DEF Call
<1>5. QED BY <1>1, <1>2, <1>3, <1>4, PutsTyped, OneTyped, TwoTyped
          DEF Leads, VerbCalls, PutFile, RunStored, PublishRoot, ShowNode, ListRoots

----------------------------------------------------------------------------
(* The host, its fibers and its gates.                                     *)

Limited == [anonymousReads : BOOLEAN, maxNodeBytes : Nat, maxInFlight : Nat,
            maxBatchKeys : Nat, credential : BOOLEAN]

(* A policy that was read says what the file did; only the open ones boot. *)
HostOK ==
    /\ host \in [at : {"down", "located", "read", "up", "draining", "off", "refused"},
                 kind : {"daemon", "embedded"}, policy : Policies \cup {NoPolicy},
                 gated : BOOLEAN, limits : Limited]
    /\ host.at = "read" => host.policy \in Policies /\ (host.gated => ~host.policy.anonymousReads)
    /\ NeverServedOpen
    /\ host.kind = "embedded" => host.at = "up"
    /\ host.kind = "daemon" => host.limits.maxNodeBytes <= MaxServable

Ats == {"idle", "waiting", "body", "work", "over"}
Asks == {NoRequest} \cup UNION {Requests[e] : e \in Exchanges}
Answers == {"none", "gone", "ok", "refused", "Served", "LogRefused", "QueryRefused",
            "TooLargeForTransport", "RefusedHost", "RefusedOrigin", "Preflight",
            "MissingProfile", "Unauthenticated", "UnknownResource", "MethodNotAllowed",
            "WrongMediaType", "MalformedBody", "NotPermitted",
            "Capabilities", "BatchBudgetExceeded", "NodeBudgetExceeded", "DigestMismatch",
            "AdmissionRefused", "Admitted", "AlreadyAdmitted", "Published", "NodeBytes",
            "NodeAbsent", "RootPublished", "RootAbsent", "Presence", "ClosureUnverified",
            "BackendUnavailable"}
FiberType == [at : Ats, ask : Asks, todo : Seq(Calls), answer : Answers, hung : BOOLEAN,
              entered : BOOLEAN, did : SUBSET Calls, saw : SUBSET Nodes, found : SUBSET Nodes]

Unopened == host.kind = "daemon" /\ host.at \in {"down", "located", "read", "refused"}

(* What a fiber may be: it waits only at a gate it has not entered, is past *)
(* one only when it has, and is the shell's until a host is open.           *)
Good(e, r) ==
    /\ r \in FiberType
    /\ r.at = "idle" => r = Idle
    /\ r.at # "idle" => r.ask \in Requests[e]
    /\ r.at = "over" <=> r.answer # "none"
    /\ r.at = "work" => r.todo # <<>> \/ (~IsVerb(r.ask) /\ r.ask.lines = <<>>)
    /\ r.at = "work" => Ordered(r.todo)
    /\ r.at = "body" => ~IsVerb(r.ask)
    /\ r.at = "waiting" => ~r.entered /\ Gate(host.kind, r.ask) \in Gates
    /\ r.at \in {"body", "work"} /\ Gate(host.kind, r.ask) \in Gates => r.entered
    /\ r.entered => ~IsVerb(r.ask)
    /\ Unopened => r.at = "idle" \/ IsVerb(r.ask)

FibersOK == x \in [Exchanges -> FiberType] /\ \A e \in Exchanges : Good(e, x[e])

In(r, gate) == r.at \in {"body", "work"} /\ Gate(host.kind, r.ask) = gate
Left(r, outcome) == /\ r.at = "over" /\ r.entered /\ Gate(host.kind, r.ask) = "tool"
                    /\ Outcome(r.answer) = outcome
LeftAs(outcome) == {e \in Exchanges : Left(x[e], outcome)}

GatesOK ==
    /\ permits \in [Gates -> Nat] /\ live \in [Gates -> Int] /\ counted \in [Counts -> Nat]
    /\ \A gate \in Gates :
         /\ live[gate] = Cardinality(Inside(gate))
         /\ host.kind = "daemon" /\ host.at \in {"up", "draining", "off"} =>
               permits[gate] + Cardinality(Inside(gate)) = host.limits.maxInFlight
    /\ \A outcome \in Counts : counted[outcome] = Cardinality(LeftAs(outcome))

StoreTyped == held \subseteq Nodes /\ roots \subseteq Nodes

HostInv == HostOK /\ FibersOK /\ GatesOK /\ StoreTyped

LEMMA LimitsTyped ==
    ASSUME NEW policy \in Policies
    PROVE  /\ policy.anonymousReads \in BOOLEAN /\ policy.maxInFlight \in Nat
           /\ Limits(policy) \in Limited /\ Limits(policy).maxNodeBytes <= MaxServable
           /\ Limits(policy).maxInFlight = policy.maxInFlight
<1>1. /\ policy.anonymousReads \in BOOLEAN /\ policy.maxInFlight \in Nat
      /\ policy.maxNodeBytes \in Nat /\ policy.maxBatchKeys \in Nat
  BY HostAssumption
<1>2. MaxServable \in Nat
  BY WireAssumption DEF MaxServable
<1>3. NodeCap(policy) \in Nat /\ NodeCap(policy) <= MaxServable
  BY <1>1, <1>2 DEF NodeCap, Smaller
<1>4. QED BY <1>1, <1>3 DEF Limits, Limited

LEMMA IdleTyped ==
    /\ Idle \in FiberType
    /\ Idle.todo = <<>> /\ Idle.answer = "none" /\ ~Idle.hung /\ ~Idle.entered /\ Idle.did = {}
    /\ Idle.at = "idle"
<1>1. <<>> \in Seq(Calls)
  BY EmptySeq
<1>2. NoRequest \in Asks
  BY DEF Asks
<1> HIDE DEF Asks
<1>3. QED BY <1>1, <1>2 DEF Idle, FiberType, Ats, Answers

LEMMA HostStarts == Init => HostInv
<1> SUFFICES ASSUME Init PROVE HostInv
  OBVIOUS
<1>1. HostOK
  <2>1. DefaultPolicy \in Policies
    BY LayoutAssumption
  <2>2. Limits(DefaultPolicy) \in Limited /\ Limits(DefaultPolicy).maxNodeBytes <= MaxServable
    BY <2>1, LimitsTyped
  <2>3. QED BY <2>2 DEF Init, HostOK, NeverServedOpen
<1>2. FibersOK
  <2>1. Idle \in FiberType
    BY IdleTyped
  <2>2. \A e \in Exchanges : x[e] = Idle
    BY DEF Init
  <2>3. ASSUME NEW e \in Exchanges PROVE Good(e, Idle)
    BY <2>1 DEF Good, Idle
  <2>4. QED BY <2>1, <2>2, <2>3 DEF FibersOK, Init
<1>3. GatesOK
  <2>1. \A e \in Exchanges : x[e].at = "idle"
    BY DEF Init, Idle
  <2>2. \A gate \in Gates : Inside(gate) = {}
    BY <2>1 DEF Inside
  <2>3. \A outcome \in Counts : LeftAs(outcome) = {}
    BY <2>1 DEF LeftAs, Left
  <2>4. /\ permits \in [Gates -> Nat] /\ live \in [Gates -> Int] /\ counted \in [Counts -> Nat]
        /\ \A gate \in Gates : live[gate] = 0
        /\ \A outcome \in Counts : counted[outcome] = 0
        /\ host.at = "down"
    BY DEF Init
  <2>5. QED BY <2>2, <2>3, <2>4, FS_EmptySet DEF GatesOK
<1>4. StoreTyped
  BY HostAssumption DEF Init, StoreTyped
<1>5. QED BY <1>1, <1>2, <1>3, <1>4 DEF HostInv

LEMMA GateNamed == \A kind, f : Gate(kind, f) \in Gates \cup {"none"}
BY DEF Gate, Gates

LEMMA OutcomeNamed == \A answer : Outcome(answer) \in Counts
BY DEF Outcome, Counts

LEMMA InsideFinite ==
    /\ \A gate : IsFiniteSet(Inside(gate)) /\ Cardinality(Inside(gate)) \in Nat
    /\ \A outcome : IsFiniteSet(LeftAs(outcome)) /\ Cardinality(LeftAs(outcome)) \in Nat
<1>1. IsFiniteSet(Exchanges)
  BY HostAssumption
<1>2. \A gate : Inside(gate) \subseteq Exchanges
  BY DEF Inside
<1>3. \A outcome : LeftAs(outcome) \subseteq Exchanges
  BY DEF LeftAs
<1>4. QED BY <1>1, <1>2, <1>3, FS_Subset, FS_CardinalityType

(* One fiber alters.                                                       *)
LEMMA Alters ==
    ASSUME FibersOK, NEW e \in Exchanges, NEW r, Good(e, r), x' = [x EXCEPT ![e] = r], UNCHANGED host
    PROVE  FibersOK'
<1>1. x' \in [Exchanges -> FiberType]
  BY DEF FibersOK, Good
<1>2. \A o \in Exchanges : x'[o] = IF o = e THEN r ELSE x[o]
  BY DEF FibersOK
<1>3. \A o \in Exchanges : Good(o, x'[o])
  BY <1>2 DEF FibersOK
<1>4. \A o \in Exchanges : Good(o, x[o])'
  BY <1>3 DEF Good, Unopened
<1>5. QED BY <1>1, <1>4 DEF FibersOK

(* ... and stands to every gate as before.                                 *)
LEMMA StaysPut ==
    ASSUME FibersOK, GatesOK, NEW e \in Exchanges, NEW r, x' = [x EXCEPT ![e] = r],
           \A gate \in Gates : In(r, gate) <=> In(x[e], gate),
           \A outcome \in Counts : Left(r, outcome) <=> Left(x[e], outcome),
           UNCHANGED <<host, permits, live, counted>>
    PROVE  GatesOK'
<1>1. \A o \in Exchanges : x'[o] = IF o = e THEN r ELSE x[o]
  BY DEF FibersOK
<1>2. \A gate \in Gates : Inside(gate)' = Inside(gate)
  BY <1>1 DEF Inside, In, GateOf
<1>3. \A outcome \in Counts : LeftAs(outcome)' = LeftAs(outcome)
  BY <1>1 DEF LeftAs, Left
<1>4. QED BY <1>2, <1>3 DEF GatesOK

(* ... and is now inside a gate it was outside of.                         *)
LEMMA GoesIn ==
    ASSUME FibersOK, GatesOK, NEW e \in Exchanges, NEW r, x' = [x EXCEPT ![e] = r],
           NEW gate \in Gates, r.at \in {"body", "work"}, Gate(host.kind, r.ask) = gate,
           x[e].at = "waiting", permits[gate] > 0, Take(gate), UNCHANGED <<host, counted>>
    PROVE  GatesOK'
<1>1. \A o \in Exchanges : x'[o] = IF o = e THEN r ELSE x[o]
  BY DEF FibersOK
<1>2. /\ permits \in [Gates -> Nat] /\ live \in [Gates -> Int]
      /\ permits' = [permits EXCEPT ![gate] = @ - 1] /\ live' = [live EXCEPT ![gate] = @ + 1]
  BY DEF GatesOK, Take
<1>3. Inside(gate)' = Inside(gate) \cup {e} /\ e \notin Inside(gate)
  BY <1>1 DEF Inside, GateOf
<1>4. Cardinality(Inside(gate))' = Cardinality(Inside(gate)) + 1 /\ Cardinality(Inside(gate)) \in Nat
  BY <1>3, InsideFinite, FS_AddElement
<1>5. \A other \in Gates \ {gate} : Inside(other)' = Inside(other)
  BY <1>1 DEF Inside, GateOf
<1>6. \A outcome \in Counts : LeftAs(outcome)' = LeftAs(outcome)
  BY <1>1 DEF LeftAs, Left
<1>7. permits' \in [Gates -> Nat] /\ live' \in [Gates -> Int]
  BY <1>2
<1>8. /\ permits'[gate] = permits[gate] - 1 /\ live'[gate] = live[gate] + 1
      /\ permits[gate] \in Nat /\ live[gate] \in Int
      /\ \A other \in Gates \ {gate} : permits'[other] = permits[other] /\ live'[other] = live[other]
  BY <1>2
<1>9. \A g \in Gates :
         /\ live'[g] = Cardinality(Inside(g))'
         /\ host.kind = "daemon" /\ host.at \in {"up", "draining", "off"} =>
               permits'[g] + Cardinality(Inside(g))' = host.limits.maxInFlight
  <2>1. \A g \in Gates \ {gate} :
         /\ live'[g] = Cardinality(Inside(g))'
         /\ host.kind = "daemon" /\ host.at \in {"up", "draining", "off"} =>
               permits'[g] + Cardinality(Inside(g))' = host.limits.maxInFlight
    BY <1>5, <1>8 DEF GatesOK
  <2>2. live'[gate] = Cardinality(Inside(gate))'
    BY <1>4, <1>8 DEF GatesOK
  <2>3. host.kind = "daemon" /\ host.at \in {"up", "draining", "off"} =>
               permits'[gate] + Cardinality(Inside(gate))' = host.limits.maxInFlight
    BY <1>4, <1>8 DEF GatesOK
  <2>4. QED BY <2>1, <2>2, <2>3
<1>10. QED BY <1>6, <1>7, <1>9 DEF GatesOK

(* ... and has left the gate it was inside of, counted if it was a tool's. *)
LEMMA GoesOut ==
    ASSUME FibersOK, GatesOK, NEW e \in Exchanges, NEW r, x' = [x EXCEPT ![e] = r],
           NEW gate \in Gates, x[e].at \in {"body", "work"}, GateOf(e) = gate,
           r.at = "over", r.entered, r.ask = x[e].ask,
           GiveBack(gate), Count(gate, r.answer), UNCHANGED host
    PROVE  GatesOK'
<1>1. \A o \in Exchanges : x'[o] = IF o = e THEN r ELSE x[o]
  BY DEF FibersOK
<1>2. /\ permits \in [Gates -> Nat] /\ live \in [Gates -> Int] /\ counted \in [Counts -> Nat]
      /\ permits' = [permits EXCEPT ![gate] = @ + 1] /\ live' = [live EXCEPT ![gate] = @ - 1]
  BY DEF GatesOK, GiveBack, Gates
<1>3. Inside(gate)' = Inside(gate) \ {e} /\ e \in Inside(gate)
  BY <1>1 DEF Inside, GateOf
<1>4. Cardinality(Inside(gate))' = Cardinality(Inside(gate)) - 1 /\ Cardinality(Inside(gate)) \in Nat
  <2>1. IsFiniteSet(Inside(gate)) /\ Cardinality(Inside(gate)) \in Nat
    BY InsideFinite
  <2>2. Cardinality(Inside(gate) \ {e}) = Cardinality(Inside(gate)) - 1
    BY <1>3, <2>1, FS_RemoveElement
  <2>3. QED BY <1>3, <2>1, <2>2
<1>5. \A other \in Gates \ {gate} : Inside(other)' = Inside(other)
  BY <1>1 DEF Inside, GateOf
<1>6. permits' \in [Gates -> Nat] /\ live' \in [Gates -> Int]
  BY <1>2
<1>7. /\ permits'[gate] = permits[gate] + 1 /\ live'[gate] = live[gate] - 1
      /\ permits[gate] \in Nat /\ live[gate] \in Int
      /\ \A other \in Gates \ {gate} : permits'[other] = permits[other] /\ live'[other] = live[other]
  BY <1>2
<1>8. \A g \in Gates :
         /\ live'[g] = Cardinality(Inside(g))'
         /\ host.kind = "daemon" /\ host.at \in {"up", "draining", "off"} =>
               permits'[g] + Cardinality(Inside(g))' = host.limits.maxInFlight
  <2>1. \A g \in Gates \ {gate} :
         /\ live'[g] = Cardinality(Inside(g))'
         /\ host.kind = "daemon" /\ host.at \in {"up", "draining", "off"} =>
               permits'[g] + Cardinality(Inside(g))' = host.limits.maxInFlight
    BY <1>5, <1>7 DEF GatesOK
  <2>2. live'[gate] = Cardinality(Inside(gate))'
    BY <1>4, <1>7 DEF GatesOK
  <2>3. host.kind = "daemon" /\ host.at \in {"up", "draining", "off"} =>
               permits'[gate] + Cardinality(Inside(gate))' = host.limits.maxInFlight
    BY <1>4, <1>7 DEF GatesOK
  <2>4. QED BY <2>1, <2>2, <2>3
<1>9. counted' \in [Counts -> Nat] /\ \A outcome \in Counts : counted'[outcome] = Cardinality(LeftAs(outcome))'
  <2>1. CASE gate = "tool"
    <3>1. PICK one \in Counts : one = Outcome(r.answer) /\ counted' = [counted EXCEPT ![one] = @ + 1]
      BY <2>1, OutcomeNamed DEF Count
    <3>2. LeftAs(one)' = LeftAs(one) \cup {e} /\ e \notin LeftAs(one)
      BY <1>1, <2>1, <3>1 DEF LeftAs, Left, GateOf
    <3>3. \A other \in Counts \ {one} : LeftAs(other)' = LeftAs(other)
      BY <1>1, <3>1 DEF LeftAs, Left
    <3>4. Cardinality(LeftAs(one))' = Cardinality(LeftAs(one)) + 1
      BY <3>2, InsideFinite, FS_AddElement
    <3>5. QED BY <1>2, <3>1, <3>3, <3>4 DEF GatesOK
  <2>2. CASE gate # "tool"
    <3>1. \A outcome \in Counts : LeftAs(outcome)' = LeftAs(outcome)
      BY <1>1, <2>2 DEF LeftAs, Left, GateOf
    <3>2. QED BY <1>2, <2>2, <3>1 DEF GatesOK, Count
  <2>3. QED BY <2>1, <2>2
<1>10. QED BY <1>6, <1>8, <1>9 DEF GatesOK

(* However an exchange ends, it gives back what it took and is counted.    *)
LEMMA Finishes ==
    ASSUME FibersOK, GatesOK, NEW e \in Exchanges, x[e].at \in {"waiting", "body", "work"},
           NEW r \in FiberType, x' = [x EXCEPT ![e] = r],
           r.at = "over", r.answer # "none", r.ask = x[e].ask, r.entered = x[e].entered,
           IF e \in Inside("wire") \cup Inside("tool")
           THEN GiveBack(GateOf(e)) /\ Count(GateOf(e), r.answer)
           ELSE UNCHANGED <<permits, live, counted>>,
           UNCHANGED host
    PROVE  FibersOK' /\ GatesOK'
<1>1. Good(e, x[e])
  BY DEF FibersOK
<1>2. Good(e, r)
  BY <1>1 DEF Good
<1>3. FibersOK'
  BY <1>2, Alters
<1>4. CASE e \in Inside("wire") \cup Inside("tool")
  <2>1. GateOf(e) \in Gates /\ x[e].at \in {"body", "work"}
    BY <1>4 DEF Inside, Gates
  <2>2. r.entered
    BY <1>1, <2>1 DEF Good, GateOf
  <2>3. GatesOK'
    BY <1>4, <2>1, <2>2, GoesOut
  <2>4. QED BY <1>3, <2>3
<1>5. CASE e \notin Inside("wire") \cup Inside("tool")
  <2>1. \A gate \in Gates : ~In(x[e], gate)
    BY <1>5 DEF Inside, In, Gates, GateOf
  <2>2. \A gate \in Gates : ~In(r, gate)
    BY DEF In
  <2>3. \A outcome \in Counts : ~Left(r, outcome) /\ ~Left(x[e], outcome)
    <3>1. r.entered => x[e].at \in {"body", "work"}
      BY <1>1 DEF Good
    <3>2. r.entered => GateOf(e) # "tool"
      BY <2>1, <3>1 DEF In, Gates, GateOf
    <3>3. QED BY <3>2 DEF Left, GateOf
  <2>4. GatesOK'
    BY <1>5, <2>1, <2>2, <2>3, StaysPut
  <2>5. QED BY <1>3, <2>4
<1>6. QED BY <1>4, <1>5

LEMMA EndKeeps ==
    ASSUME FibersOK, GatesOK, NEW e \in Exchanges, x[e].at \in {"waiting", "body", "work"},
           NEW answer \in Answers \ {"none"}, End(e, answer), UNCHANGED host
    PROVE  FibersOK' /\ GatesOK'
<1> DEFINE r == [x[e] EXCEPT !.at = "over", !.answer = answer, !.todo = <<>>]
<1>1. x \in [Exchanges -> FiberType] /\ <<>> \in Seq(Calls)
  BY EmptySeq DEF FibersOK
<1>2. /\ r \in FiberType /\ r.at = "over" /\ r.answer = answer /\ r.answer # "none"
      /\ r.ask = x[e].ask /\ r.entered = x[e].entered
  BY <1>1 DEF FiberType, Ats
<1>3. x' = [x EXCEPT ![e] = r]
  BY DEF End
<1>4. IF e \in Inside("wire") \cup Inside("tool")
      THEN GiveBack(GateOf(e)) /\ Count(GateOf(e), r.answer)
      ELSE UNCHANGED <<permits, live, counted>>
  BY <1>2 DEF End
<1> HIDE DEF r
<1>5. QED BY <1>2, <1>3, <1>4, Finishes

(* A fiber at work stays there with fewer calls to make.                   *)
LEMMA WorkGoesOn ==
    ASSUME FibersOK, GatesOK, NEW e \in Exchanges, x[e].at = "work",
           NEW r \in FiberType, x' = [x EXCEPT ![e] = r], r.at = "work",
           r.answer = x[e].answer, r.ask = x[e].ask, r.entered = x[e].entered,
           r.todo # <<>> \/ r.todo = x[e].todo, Ordered(r.todo),
           UNCHANGED <<host, permits, live, counted>>
    PROVE  FibersOK' /\ GatesOK'
<1>1. Good(e, x[e])
  BY DEF FibersOK
<1>2. Good(e, r)
  BY <1>1 DEF Good
<1>3. FibersOK'
  BY <1>2, Alters
<1>4. /\ \A gate \in Gates : In(r, gate) <=> In(x[e], gate)
      /\ \A outcome \in Counts : Left(r, outcome) <=> Left(x[e], outcome)
  BY DEF In, Left
<1>5. QED BY <1>3, <1>4, StaysPut

LEMMA ContinueKeeps ==
    ASSUME FibersOK, GatesOK, NEW e \in Exchanges, x[e].at = "work",
           NEW rest \in Seq(Calls), NEW did \in SUBSET Calls, NEW answer \in Answers,
           Ordered(rest), rest = <<>> => answer # "none",
           Continue(e, rest, did, answer), UNCHANGED host
    PROVE  FibersOK' /\ GatesOK'
<1>1. x \in [Exchanges -> FiberType] /\ <<>> \in Seq(Calls)
  BY EmptySeq DEF FibersOK
<1>2. CASE rest = <<>>
  <2> DEFINE r == [x[e] EXCEPT !.at = "over", !.todo = <<>>, !.did = @ \cup did, !.answer = answer]
  <2>1. /\ r \in FiberType /\ r.at = "over" /\ r.answer = answer /\ r.answer # "none"
        /\ r.ask = x[e].ask /\ r.entered = x[e].entered
    BY <1>1, <1>2 DEF FiberType, Ats
  <2>2. x' = [x EXCEPT ![e] = r]
    BY <1>2 DEF Continue
  <2>3. IF e \in Inside("wire") \cup Inside("tool")
        THEN GiveBack(GateOf(e)) /\ Count(GateOf(e), r.answer)
        ELSE UNCHANGED <<permits, live, counted>>
    BY <1>2, <2>1 DEF Continue
  <2> HIDE DEF r
  <2>4. QED BY <2>1, <2>2, <2>3, Finishes
<1>3. CASE rest # <<>>
  <2> DEFINE r == [x[e] EXCEPT !.todo = rest, !.did = @ \cup did]
  <2>1. /\ r \in FiberType /\ r.at = "work" /\ r.answer = x[e].answer /\ r.todo = rest
        /\ r.ask = x[e].ask /\ r.entered = x[e].entered
    BY <1>1 DEF FiberType, Ats
  <2>2. x' = [x EXCEPT ![e] = r] /\ UNCHANGED <<permits, live, counted>>
    BY <1>3 DEF Continue
  <2> HIDE DEF r
  <2>3. QED BY <1>3, <2>1, <2>2, WorkGoesOn
<1>4. QED BY <1>2, <1>3

(* Every answer is one of the known ones.                                  *)

Refusals == {"MissingProfile", "Unauthenticated", "UnknownResource", "MethodNotAllowed",
             "WrongMediaType", "MalformedBody", "NotPermitted"}

(* The law refuses by the first clause that applies, and accepts what none *)
(* does.                                                                   *)
Lawful(limits, f) ==
    /\ f.profile
    /\ Principal(limits, f) # "None"
    /\ f.path \in Resources
    /\ f.method \in Methods(f)
    /\ f.method # "GET" => f.octet
    /\ Operation(f) \in {"QueryPresence", "PublishRoot"} => f.body = "keys"
    /\ Authorized(limits, f)

LEMMA LeastOfSeven ==
    ASSUME NEW S \in SUBSET (1..7), S # {}
    PROVE  \E k \in S : \A other \in S : k <= other
<1> DEFINE below(n) == \A k \in S : k >= n
<1>1. below(1)
  OBVIOUS
<1>2. ASSUME NEW n \in 1..7, below(n) PROVE n \in S \/ below(n + 1)
  BY <1>2
<1>3. \A n \in 1..7 : n \in S /\ below(n) => \E k \in S : \A other \in S : k <= other
  OBVIOUS
<1>4. ~below(8)
  <2>1. PICK k \in S : k \in 1..7
    OBVIOUS
  <2>2. QED BY <2>1
<1> HIDE DEF below
<1>5. \E n \in 1..7 : n \in S /\ below(n)
  <2> SUFFICES ASSUME \A n \in 1..7 : ~(n \in S /\ below(n)) PROVE FALSE
    OBVIOUS
  <2>1. \A n \in 1..7 : below(n) => below(n + 1)
    BY <1>2
  <2>2. below(2) /\ below(3) /\ below(4)
    BY <1>1, <2>1
  <2>3. below(5) /\ below(6) /\ below(7)
    BY <2>1, <2>2
  <2>4. QED BY <1>4, <2>1, <2>3
<1>6. QED BY <1>3, <1>5

LEMMA DecideParts ==
    ASSUME NEW limits, NEW f
    PROVE  /\ Decide(limits, f) \in Refusals \cup {"Accepted"}
           /\ Decide(limits, f) = "Accepted" => Lawful(limits, f)
<1> DEFINE C == Clauses(limits, f)
           A == Applying(limits, f)
<1>1. DOMAIN C = 1..7
  BY DEF Clauses
<1>2. \A k \in 1..7 : C[k][2] \in Refusals
  <2> SUFFICES ASSUME NEW k \in 1..7 PROVE C[k][2] \in Refusals
    OBVIOUS
  <2>1. /\ C[1][2] \in Refusals /\ C[2][2] \in Refusals /\ C[3][2] \in Refusals
        /\ C[4][2] \in Refusals /\ C[5][2] \in Refusals /\ C[6][2] \in Refusals
        /\ C[7][2] \in Refusals
    BY DEF Clauses, Refusals
  <2> HIDE DEF C
  <2>2. k \in {1, 2, 3, 4, 5, 6, 7}
    OBVIOUS
  <2>3. QED BY <2>1, <2>2
<1>3. A \subseteq 1..7
  BY <1>1 DEF Applying
<1>4. A # {} => Decide(limits, f) \in Refusals
  <2> SUFFICES ASSUME A # {} PROVE Decide(limits, f) \in Refusals
    OBVIOUS
  <2>1. PICK k \in A : k = CHOOSE j \in A : \A other \in A : j <= other
    BY <1>3, LeastOfSeven
  <2>2. Decide(limits, f) = C[k][2]
    BY <2>1 DEF Decide
  <2> HIDE DEF A, C
  <2>3. QED BY <1>2, <1>3, <2>1, <2>2
<1>5. A = {} => Decide(limits, f) = "Accepted"
  BY DEF Decide
<1>6. A = {} => Lawful(limits, f)
  <2> SUFFICES ASSUME A = {} PROVE Lawful(limits, f)
    OBVIOUS
  <2>1. \A k \in 1..7 : ~C[k][1]
    BY <1>1 DEF Applying
  <2>2. ~C[1][1] /\ ~C[2][1] /\ ~C[3][1] /\ ~C[4][1] /\ ~C[5][1] /\ ~C[6][1] /\ ~C[7][1]
    <3> HIDE DEF C
    <3>1. QED BY <2>1
  <2>3. QED BY <2>2 DEF Clauses, Lawful
<1>7. "Accepted" \notin Refusals
  BY DEF Refusals
<1>8. QED BY <1>4, <1>5, <1>6, <1>7

LEMMA AnswersKnown ==
    ASSUME NEW f
    PROVE  /\ Refusals \subseteq Answers \ {"none"}
           /\ Success(f) \in Answers \ {"none"}
           /\ \A a \in Answers \ {"none"} : Refusal(f, a) \in Answers \ {"none"}
           /\ AtDoor(f) \in Answers
           /\ HistoryAnswers(f) \in Answers
           /\ \A limits : /\ CoreAnswers(limits, f) \in Answers
                          /\ ToolAnswers(limits, f) \in {"none", "refused"}
<1>1. Refusals \subseteq Answers \ {"none"}
  BY DEF Refusals, Answers
<1>2. Success(f) \in Answers \ {"none"}
  BY DEF Success, Answers
<1>3. \A a \in Answers \ {"none"} : Refusal(f, a) \in Answers \ {"none"}
  BY DEF Refusal, Answers
<1>4. Door(f) \in {"RefusedHost", "RefusedOrigin", "Preflight", "Pass"}
  BY DEF Door
<1>5. AtDoor(f) \in Answers
  BY <1>4 DEF AtDoor, Answers
<1>6. HistoryAnswers(f) \in Answers
  BY DEF HistoryAnswers, HistoryQuery, Answers
<1>7. \A limits : CoreAnswers(limits, f) \in Answers
  BY DEF CoreAnswers, Answers
<1>8. \A limits : ToolAnswers(limits, f) \in {"none", "refused"}
  BY DEF ToolAnswers
<1>9. QED BY <1>1, <1>2, <1>3, <1>5, <1>6, <1>7, <1>8

----------------------------------------------------------------------------
(* The host's steps.                                                       *)

(* Before a host is open nothing is inside a gate, and nothing has left one.*)
LEMMA NothingYet ==
    ASSUME FibersOK, Unopened, NEW e \in Exchanges
    PROVE  ~x[e].entered /\ x[e].at # "waiting" /\ (x[e].at = "idle" \/ IsVerb(x[e].ask))
<1>1. Good(e, x[e])
  BY DEF FibersOK
<1>2. x[e].at = "idle" => ~x[e].entered
  BY <1>1 DEF Good, Idle
<1>3. IsVerb(x[e].ask) => Gate(host.kind, x[e].ask) \notin Gates
  BY DEF Gate, Gates
<1>4. QED BY <1>1, <1>2, <1>3 DEF Good

LEMMA HostMoves ==
    ASSUME FibersOK, GatesOK,
           host'.kind = host.kind \/ (Unopened /\ host'.kind = "embedded"),
           UNCHANGED <<x, live, counted>>, Unopened' => Unopened,
           permits' \in [Gates -> Nat],
           host'.kind = "daemon" /\ host'.at \in {"up", "draining", "off"} =>
               \A gate \in Gates :
                   permits'[gate] + Cardinality(Inside(gate)) = host'.limits.maxInFlight
    PROVE  FibersOK' /\ GatesOK'
<1>1. CASE host'.kind = host.kind
  <2>1. FibersOK'
    <3>1. ASSUME NEW e \in Exchanges PROVE Good(e, x[e])'
      <4>1. Good(e, x[e])
        BY DEF FibersOK
      <4>2. QED BY <1>1, <4>1 DEF Good
    <3>2. QED BY <3>1 DEF FibersOK
  <2>2. /\ \A gate \in Gates : Inside(gate)' = Inside(gate)
        /\ \A outcome \in Counts : LeftAs(outcome)' = LeftAs(outcome)
    BY <1>1 DEF Inside, GateOf, LeftAs, Left
  <2>3. QED BY <2>1, <2>2 DEF GatesOK
<1>2. CASE Unopened /\ host'.kind = "embedded"
  <2>1. \A f : Gate(host'.kind, f) = "none"
    BY <1>2 DEF Gate
  <2>2. FibersOK'
    <3>1. ASSUME NEW e \in Exchanges PROVE Good(e, x[e])'
      <4>1. Good(e, x[e]) /\ x[e].at # "waiting"
        BY <1>2, NothingYet DEF FibersOK
      <4>2. QED BY <1>2, <2>1, <4>1 DEF Good, Gates
    <3>2. QED BY <3>1 DEF FibersOK
  <2>3. /\ \A gate \in Gates : Inside(gate) = {} /\ Inside(gate)' = {}
        /\ \A outcome \in Counts : LeftAs(outcome) = {} /\ LeftAs(outcome)' = {}
    <3>1. \A e \in Exchanges : x[e].at \in {"body", "work"} => IsVerb(x[e].ask)
      BY <1>2, NothingYet
    <3>2. \A gate \in Gates : Inside(gate) = {}
      BY <3>1 DEF Inside, GateOf, Gate, Gates
    <3>3. \A gate \in Gates : Inside(gate)' = {}
      BY <2>1 DEF Inside, GateOf, Gates
    <3>4. \A e \in Exchanges : ~x[e].entered
      BY <1>2, NothingYet
    <3>5. QED BY <3>2, <3>3, <3>4 DEF LeftAs, Left
  <2>4. QED BY <1>2, <2>2, <2>3 DEF GatesOK
<1>3. QED BY <1>1, <1>2

LEMMA GatedIsSaid ==
    ASSUME LayoutInv, ReadConfig # Unreadable
    PROVE  PolicyOf(ReadConfig) \in Policies /\ (Gated(dir.config) => ~PolicyOf(ReadConfig).anonymousReads)
<1>1. dir.config \in ConfigFiles \cup {NoFile}
  BY DEF LayoutInv, LayoutTypeOK
<1>2. CASE dir.config = NoFile
  BY <1>2, LayoutAssumption DEF ReadConfig, PolicyOf, Gated
<1>3. CASE dir.config # NoFile
  <2>1. dir.config.readable /\ dir.config.says # Garbled /\ ReadConfig = dir.config.says
    BY <1>3 DEF ReadConfig
  <2>2. dir.config.says \in Configs
    BY <1>1, <1>3, <2>1 DEF ConfigFiles
  <2>3. ReadConfig # NoFile /\ ReadConfig.serve \in Policies \cup {NoPolicy}
    BY <2>1, <2>2, LayoutAssumption DEF Configs
  <2>4. QED BY <1>3, <2>1, <2>3, LayoutAssumption DEF PolicyOf, Gated
<1>4. QED BY <1>2, <1>3

LEMMA LocateKeeps == LayoutInv /\ HostInv /\ Locate => HostInv'
<1> SUFFICES ASSUME LayoutInv, HostInv, Locate PROVE HostInv'
  OBVIOUS
<1>1. /\ host.at = "down"
      /\ host' = [host EXCEPT !.at = IF IsStoreRoot THEN "located" ELSE "refused"]
      /\ UNCHANGED <<x, permits, live, counted, held, roots>>
  BY DEF Locate
<1>2. host'.kind = host.kind /\ host'.at \in {"located", "refused"} /\ host'.limits = host.limits
  BY <1>1 DEF HostInv, HostOK
<1>3. HostOK'
  BY <1>1, <1>2 DEF HostInv, HostOK, NeverServedOpen
<1>4. FibersOK' /\ GatesOK'
  <2>1. permits' \in [Gates -> Nat]
    BY <1>1 DEF HostInv, GatesOK
  <2>2. Unopened' => Unopened
    BY <1>1, <1>2 DEF Unopened
  <2>3. FibersOK /\ GatesOK
    BY DEF HostInv
  <2>4. QED BY <1>1, <1>2, <2>1, <2>2, <2>3, HostMoves
<1>5. QED BY <1>1, <1>3, <1>4 DEF HostInv, StoreTyped

LEMMA ReadPolicyKeeps == LayoutInv /\ HostInv /\ ReadPolicy => HostInv'
<1> SUFFICES ASSUME LayoutInv, HostInv, ReadPolicy PROVE HostInv'
  OBVIOUS
<1>1. host.at = "located" /\ UNCHANGED <<x, permits, live, counted, held, roots>>
  BY DEF ReadPolicy
<1>2. /\ host'.kind = host.kind /\ host'.limits = host.limits /\ host'.gated = Gated(dir.config)
      /\ ReadConfig # Unreadable => host'.at = "read" /\ host'.policy = PolicyOf(ReadConfig)
      /\ ReadConfig = Unreadable => host'.at = "refused" /\ host'.policy = NoPolicy
  BY DEF ReadPolicy, HostInv, HostOK
<1>3. HostOK'
  <2>1. Gated(dir.config) \in BOOLEAN
    BY DEF Gated
  <2>2. CASE ReadConfig = Unreadable
    <3>1. host' \in [at : {"down", "located", "read", "up", "draining", "off", "refused"},
                     kind : {"daemon", "embedded"}, policy : Policies \cup {NoPolicy},
                     gated : BOOLEAN, limits : Limited]
      BY <1>2, <2>1, <2>2 DEF ReadPolicy, HostInv, HostOK
    <3>2. QED BY <1>1, <1>2, <2>2, <3>1 DEF HostInv, HostOK, NeverServedOpen
  <2>3. CASE ReadConfig # Unreadable
    <3>1. host'.policy \in Policies /\ (host'.gated => ~host'.policy.anonymousReads)
      BY <1>2, <2>3, GatedIsSaid
    <3>2. host' \in [at : {"down", "located", "read", "up", "draining", "off", "refused"},
                     kind : {"daemon", "embedded"}, policy : Policies \cup {NoPolicy},
                     gated : BOOLEAN, limits : Limited]
      BY <1>2, <2>1, <2>3, <3>1 DEF ReadPolicy, HostInv, HostOK
    <3>3. QED BY <1>1, <1>2, <2>3, <3>1, <3>2 DEF HostInv, HostOK, NeverServedOpen
  <2>4. QED BY <2>2, <2>3
<1>4. FibersOK' /\ GatesOK'
  <2>1. permits' \in [Gates -> Nat] /\ FibersOK /\ GatesOK
    BY <1>1 DEF HostInv, GatesOK
  <2>2. Unopened' => Unopened
    BY <1>1, <1>2 DEF Unopened
  <2>3. host'.at \notin {"up", "draining", "off"}
    BY <1>2
  <2>4. QED BY <1>1, <1>2, <2>1, <2>2, <2>3, HostMoves
<1>5. QED BY <1>1, <1>3, <1>4 DEF HostInv, StoreTyped

LEMMA BootKeeps == HostInv /\ Boot => HostInv'
<1> SUFFICES ASSUME HostInv, Boot PROVE HostInv'
  OBVIOUS
<1>1. /\ host.at = "read" /\ UNCHANGED <<x, live, counted, held, roots>>
      /\ \/ /\ host.policy.anonymousReads
            /\ host' = [host EXCEPT !.at = "up", !.limits = Limits(host.policy)]
            /\ permits' = [gate \in Gates |-> host.policy.maxInFlight]
         \/ host' = [host EXCEPT !.at = "refused"] /\ UNCHANGED permits
  BY DEF Boot
<1>2. /\ host.policy \in Policies /\ host.kind = "daemon" /\ Unopened
      /\ host.gated => ~host.policy.anonymousReads
  BY <1>1 DEF HostInv, HostOK, Unopened
<1>3. FibersOK /\ GatesOK /\ permits \in [Gates -> Nat]
  BY DEF HostInv, GatesOK
<1>4. CASE /\ host.policy.anonymousReads
           /\ host' = [host EXCEPT !.at = "up", !.limits = Limits(host.policy)]
           /\ permits' = [gate \in Gates |-> host.policy.maxInFlight]
  <2>1. /\ Limits(host.policy) \in Limited /\ Limits(host.policy).maxNodeBytes <= MaxServable
        /\ Limits(host.policy).maxInFlight = host.policy.maxInFlight
        /\ host.policy.maxInFlight \in Nat
    BY <1>2, LimitsTyped
  <2>2. /\ host'.at = "up" /\ host'.kind = "daemon" /\ host'.limits = Limits(host.policy)
        /\ host'.gated = host.gated
    BY <1>2, <1>4 DEF HostInv, HostOK
  <2>3. HostOK'
    BY <1>2, <1>4, <2>1, <2>2 DEF HostInv, HostOK, NeverServedOpen
  <2>4. \A gate \in Gates : Cardinality(Inside(gate)) = 0
    <3>1. \A e \in Exchanges : x[e].at = "idle" \/ IsVerb(x[e].ask)
      BY <1>2, <1>3, NothingYet
    <3>2. \A gate \in Gates : Inside(gate) = {}
      BY <3>1 DEF Inside, GateOf, Gate, Gates
    <3>3. QED BY <3>2, FS_EmptySet
  <2>5. \A gate \in Gates : permits'[gate] = host'.limits.maxInFlight
    BY <1>4, <2>1, <2>2
  <2>6. permits' \in [Gates -> Nat] /\ (Unopened' => Unopened)
    BY <1>2, <1>4, <2>1
  <2>7. host'.limits.maxInFlight \in Nat
    BY <2>1, <2>2
  <2>8. FibersOK' /\ GatesOK'
    BY <1>1, <1>2, <1>3, <2>2, <2>4, <2>5, <2>6, <2>7, HostMoves
  <2>9. QED BY <1>1, <2>3, <2>8 DEF HostInv, StoreTyped
<1>5. CASE host' = [host EXCEPT !.at = "refused"] /\ UNCHANGED permits
  <2>1. host'.at = "refused" /\ host'.kind = host.kind /\ host'.limits = host.limits
    BY <1>5 DEF HostInv, HostOK
  <2>2. HostOK'
    BY <1>2, <1>5, <2>1 DEF HostInv, HostOK, NeverServedOpen
  <2>3. FibersOK' /\ GatesOK'
    BY <1>1, <1>2, <1>3, <1>5, <2>1, HostMoves
  <2>4. QED BY <1>1, <2>2, <2>3 DEF HostInv, StoreTyped
<1>6. QED BY <1>1, <1>4, <1>5

LEMMA EmbedKeeps ==
    ASSUME HostInv, NEW policy \in WirePolicies, Embed(policy)
    PROVE  HostInv'
<1>1. /\ host.at = "down" /\ UNCHANGED <<x, permits, live, counted, held, roots>>
      /\ host' = [host EXCEPT !.at = "up", !.kind = "embedded", !.limits = policy]
  BY DEF Embed
<1>2. host.kind = "daemon" /\ Unopened /\ FibersOK /\ GatesOK /\ permits \in [Gates -> Nat]
  BY <1>1 DEF HostInv, HostOK, Unopened, GatesOK
<1>3. policy \in Limited
  BY HostAssumption DEF Limited
<1>4. host'.at = "up" /\ host'.kind = "embedded" /\ host'.limits = policy
  BY <1>1 DEF HostInv, HostOK
<1>5. HostOK'
  BY <1>1, <1>3, <1>4 DEF HostInv, HostOK, NeverServedOpen
<1>6. FibersOK' /\ GatesOK'
  BY <1>1, <1>2, <1>4, HostMoves
<1>7. QED BY <1>1, <1>5, <1>6 DEF HostInv, StoreTyped

LEMMA ShutdownKeeps == HostInv /\ Shutdown => HostInv'
<1> SUFFICES ASSUME HostInv, Shutdown PROVE HostInv'
  OBVIOUS
<1>1. /\ host.at = "up" /\ host.kind = "daemon"
      /\ UNCHANGED <<x, permits, live, counted, held, roots>>
      /\ host' = [host EXCEPT !.at = "draining"]
  BY DEF Shutdown
<1>2. host'.at = "draining" /\ host'.kind = "daemon" /\ host'.limits = host.limits
  BY <1>1 DEF HostInv, HostOK
<1>3. HostOK'
  BY <1>1, <1>2 DEF HostInv, HostOK, NeverServedOpen
<1>4. /\ FibersOK /\ GatesOK /\ permits \in [Gates -> Nat]
      /\ \A gate \in Gates : permits[gate] + Cardinality(Inside(gate)) = host.limits.maxInFlight
  BY <1>1 DEF HostInv, GatesOK
<1>5. FibersOK' /\ GatesOK'
  BY <1>1, <1>2, <1>4, HostMoves DEF Unopened
<1>6. QED BY <1>1, <1>3, <1>5 DEF HostInv, StoreTyped

(* Every exchange under way is closed, and gives back what it took.        *)
LEMMA DeadlineKeeps == HostInv /\ Deadline => HostInv'
<1> SUFFICES ASSUME HostInv, Deadline PROVE HostInv'
  OBVIOUS
<1> DEFINE closed(e) == [x[e] EXCEPT !.at = "over", !.answer = "gone", !.todo = <<>>]
<1>1. /\ host.at = "draining" /\ host' = [host EXCEPT !.at = "off"]
      /\ x' = [e \in Exchanges |-> IF e \in Underway THEN closed(e) ELSE x[e]]
      /\ permits' = [gate \in Gates |-> permits[gate] + Cardinality(Inside(gate))]
      /\ live' = [gate \in Gates |-> live[gate] - Cardinality(Inside(gate))]
      /\ counted' = [counted EXCEPT !.failed = @ + Cardinality(Inside("tool"))]
      /\ UNCHANGED <<held, roots>>
  BY DEF Deadline
<1>2. /\ host'.at = "off" /\ host'.kind = host.kind /\ host.kind = "daemon"
      /\ host'.limits = host.limits
  BY <1>1 DEF HostInv, HostOK
<1>3. HostOK'
  BY <1>1, <1>2 DEF HostInv, HostOK, NeverServedOpen
<1>4. \A e \in Exchanges : /\ Good(e, x[e]) /\ x[e] \in FiberType
                           /\ x'[e] = IF e \in Underway THEN closed(e) ELSE x[e]
  BY <1>1 DEF HostInv, FibersOK
<1>5. \A e \in Exchanges : /\ closed(e) \in FiberType /\ closed(e).at = "over"
                           /\ closed(e).answer = "gone" /\ closed(e).ask = x[e].ask
                           /\ closed(e).entered = x[e].entered
  <2> SUFFICES ASSUME NEW e \in Exchanges
               PROVE  /\ closed(e) \in FiberType /\ closed(e).at = "over"
                      /\ closed(e).answer = "gone" /\ closed(e).ask = x[e].ask
                      /\ closed(e).entered = x[e].entered
    OBVIOUS
  <2>1. x[e] \in FiberType /\ <<>> \in Seq(Calls)
    BY <1>4, EmptySeq
  <2>2. QED BY <2>1 DEF FiberType, Ats, Answers
<1> HIDE DEF closed
<1>6. FibersOK'
  <2>1. x' \in [Exchanges -> FiberType]
    BY <1>1, <1>4, <1>5
  <2>2. ASSUME NEW e \in Exchanges PROVE Good(e, x[e])'
    <3>1. CASE e \in Underway
      <4>1. x'[e] = closed(e) /\ x[e].at # "idle" /\ ~IsVerb(x[e].ask)
        BY <1>4, <3>1 DEF Underway
      <4>2. x[e].ask \in Requests[e]
        BY <1>4, <4>1 DEF Good
      <4>3. QED BY <1>2, <1>5, <4>1, <4>2 DEF Good, Unopened
    <3>2. CASE e \notin Underway
      <4>1. x'[e] = x[e]
        BY <1>4, <3>2
      <4>2. QED BY <1>2, <1>4, <4>1 DEF Good, Unopened
    <3>3. QED BY <3>1, <3>2
  <2>3. QED BY <2>1, <2>2 DEF FibersOK
<1>7. \A gate \in Gates : Inside(gate)' = {}
  <2>1. \A e \in Exchanges : x[e].at \in {"body", "work"} /\ GateOf(e) \in Gates => e \in Underway
    BY DEF Underway, GateOf, Gate, Gates
  <2>2. ASSUME NEW e \in Exchanges, NEW gate \in Gates
        PROVE  ~(x'[e].at \in {"body", "work"} /\ GateOf(e)' = gate)
    <3>1. CASE e \in Underway
      BY <1>4, <1>5, <3>1
    <3>2. CASE e \notin Underway
      BY <1>2, <1>4, <2>1, <3>2 DEF GateOf
    <3>3. QED BY <3>1, <3>2
  <2>3. QED BY <2>2 DEF Inside
<1>8. LeftAs("failed")' = LeftAs("failed") \cup Inside("tool") /\ LeftAs("failed") \cap Inside("tool") = {}
  <2>1. ASSUME NEW e \in Exchanges
        PROVE  Left(x[e], "failed")' <=> Left(x[e], "failed") \/ e \in Inside("tool")
    <3>1. CASE e \in Underway
      <4>1. x'[e] = closed(e) /\ x[e].at \in {"waiting", "body", "work"}
        BY <1>4, <3>1 DEF Underway, FiberType, Ats
      <4>2. Outcome("gone") = "failed"
        BY DEF Outcome, Counts
      <4>3. Left(x[e], "failed")' <=> x[e].entered /\ GateOf(e) = "tool"
        BY <1>2, <1>5, <4>1, <4>2 DEF Left, GateOf
      <4>4. x[e].entered => x[e].at \in {"body", "work"}
        BY <1>4, <4>1 DEF Good
      <4>5. x[e].at \in {"body", "work"} /\ GateOf(e) = "tool" => x[e].entered
        BY <1>4 DEF Good, GateOf, Gates
      <4>6. ~Left(x[e], "failed")
        BY <4>1 DEF Left
      <4>7. QED BY <4>3, <4>4, <4>5, <4>6 DEF Inside
    <3>2. CASE e \notin Underway
      <4>1. x'[e] = x[e] /\ (x[e].at \in {"idle", "over"} \/ IsVerb(x[e].ask))
        BY <1>4, <3>2 DEF Underway
      <4>2. e \notin Inside("tool")
        BY <4>1 DEF Inside, GateOf, Gate
      <4>3. QED BY <1>2, <4>1, <4>2 DEF Left
    <3>3. QED BY <3>1, <3>2
  <2>2. LeftAs("failed")' = LeftAs("failed") \cup Inside("tool")
    BY <2>1 DEF LeftAs, Inside
  <2>3. LeftAs("failed") \cap Inside("tool") = {}
    BY DEF LeftAs, Left, Inside
  <2>4. QED BY <2>2, <2>3
<1>9. \A outcome \in Counts \ {"failed"} : LeftAs(outcome)' = LeftAs(outcome)
  <2>1. ASSUME NEW e \in Exchanges, NEW outcome \in Counts \ {"failed"}
        PROVE  Left(x[e], outcome)' <=> Left(x[e], outcome)
    <3>1. CASE e \in Underway
      <4>1. x'[e] = closed(e) /\ x[e].at # "over"
        BY <1>4, <3>1 DEF Underway
      <4>2. Outcome("gone") # outcome
        BY DEF Outcome, Counts
      <4>3. QED BY <1>5, <4>1, <4>2 DEF Left
    <3>2. CASE e \notin Underway
      BY <1>2, <1>4, <3>2 DEF Left
    <3>3. QED BY <3>1, <3>2
  <2>2. QED BY <2>1 DEF LeftAs
<1>10. GatesOK'
  <2>1. /\ permits \in [Gates -> Nat] /\ live \in [Gates -> Int] /\ counted \in [Counts -> Nat]
        /\ \A gate \in Gates :
             /\ live[gate] = Cardinality(Inside(gate))
             /\ permits[gate] + Cardinality(Inside(gate)) = host.limits.maxInFlight
        /\ \A outcome \in Counts : counted[outcome] = Cardinality(LeftAs(outcome))
    BY <1>1, <1>2 DEF HostInv, GatesOK
  <2>2. \A gate \in Gates : Cardinality(Inside(gate)) \in Nat /\ Cardinality(Inside(gate))' = 0
    BY <1>7, InsideFinite, FS_EmptySet
  <2>3. /\ permits' \in [Gates -> Nat] /\ live' \in [Gates -> Int]
        /\ \A gate \in Gates : live'[gate] = 0 /\ permits'[gate] = host.limits.maxInFlight
    BY <1>1, <2>1, <2>2
  <2>4. Cardinality(LeftAs("failed"))' = Cardinality(LeftAs("failed")) + Cardinality(Inside("tool"))
    <3>1. /\ IsFiniteSet(LeftAs("failed")) /\ IsFiniteSet(Inside("tool"))
          /\ Cardinality(LeftAs("failed")) \in Nat /\ Cardinality(Inside("tool")) \in Nat
      BY InsideFinite
    <3>2. Cardinality(LeftAs("failed") \cap Inside("tool")) = 0
      BY <1>8, FS_EmptySet
    <3>3. Cardinality(LeftAs("failed") \cup Inside("tool")) =
             Cardinality(LeftAs("failed")) + Cardinality(Inside("tool"))
             - Cardinality(LeftAs("failed") \cap Inside("tool"))
      BY <3>1, FS_Union
    <3>4. Cardinality(LeftAs("failed"))' = Cardinality(LeftAs("failed") \cup Inside("tool"))
      BY <1>8
    <3>5. QED BY <3>1, <3>2, <3>3, <3>4
  <2>5. /\ counted' \in [Counts -> Nat]
        /\ \A outcome \in Counts : counted'[outcome] = Cardinality(LeftAs(outcome))'
    <3>1. Cardinality(Inside("tool")) \in Nat /\ "failed" \in Counts
      BY InsideFinite DEF Counts
    <3>2. counted' = [counted EXCEPT !["failed"] = @ + Cardinality(Inside("tool"))]
      BY <1>1
    <3>3. QED BY <1>9, <2>1, <2>4, <3>1, <3>2
  <2>6. \A gate \in Gates :
          /\ live'[gate] = Cardinality(Inside(gate))'
          /\ permits'[gate] + Cardinality(Inside(gate))' = host'.limits.maxInFlight
    <3>1. host.limits.maxInFlight \in Nat
      BY DEF HostInv, HostOK, Limited
    <3>2. QED BY <1>2, <2>2, <2>3, <3>1
  <2>7. QED BY <2>3, <2>5, <2>6 DEF GatesOK
<1>11. QED BY <1>1, <1>3, <1>6, <1>10 DEF HostInv, StoreTyped

----------------------------------------------------------------------------
(* The steps of an exchange.                                               *)

LEMMA TailParts ==
    ASSUME NEW calls \in Seq(Calls), calls # <<>>, Ordered(calls)
    PROVE  /\ Tail(calls) \in Seq(Calls) /\ Ordered(Tail(calls))
           /\ Len(Tail(calls)) = Len(calls) - 1 /\ Len(calls) \in Nat \ {0}
           /\ \A k \in 1..Len(Tail(calls)) : Tail(calls)[k] = calls[k + 1]
           /\ Head(calls) \in Calls /\ Head(calls) = calls[1]
           /\ Head(calls).do \in Leads => Tail(calls) # <<>>
<1>1. /\ Tail(calls) \in Seq(Calls) /\ Len(Tail(calls)) = Len(calls) - 1
      /\ Len(calls) \in Nat \ {0}
      /\ \A k \in 1..Len(Tail(calls)) : Tail(calls)[k] = calls[k + 1]
      /\ Head(calls) \in Calls /\ Head(calls) = calls[1]
  BY HeadTailProperties, EmptySeq
<1>2. Ordered(Tail(calls))
  BY <1>1 DEF Ordered
<1>3. Head(calls).do \in Leads => Tail(calls) # <<>>
  <2> SUFFICES ASSUME Head(calls).do \in Leads PROVE Tail(calls) # <<>>
    OBVIOUS
  <2>1. 1 \in 1..Len(calls) /\ calls[1].do \in Leads
    BY <1>1
  <2>2. 1 < Len(calls)
    BY <2>1 DEF Ordered
  <2>3. Len(Tail(calls)) # 0
    BY <1>1, <2>2
  <2>4. QED BY <2>3, EmptySeq
<1>4. QED BY <1>1, <1>2, <1>3

LEMMA CallParts ==
    ASSUME FibersOK, NEW e \in Exchanges, Callable(e)
    PROVE  /\ x[e].at = "work" /\ x[e].todo \in Seq(Calls) /\ Len(x[e].todo) \in Nat \ {0}
           /\ Due(e) \in Calls /\ Due(e) = x[e].todo[1] /\ Due(e).on \subseteq Nodes
           /\ Due(e).do \in {"judge", "write", "resolve", "load", "table"} =>
                 Node(e) \in Nodes /\ Due(e).on = {Node(e)}
           /\ Rest(e) \in Seq(Calls) /\ Ordered(Rest(e)) /\ Len(Rest(e)) = Len(x[e].todo) - 1
           /\ \A k \in 1..Len(Rest(e)) : Rest(e)[k] = x[e].todo[k + 1]
           /\ Due(e).do \in Leads => Rest(e) # <<>>
<1>1. /\ x[e].at = "work" /\ x[e].todo # <<>> /\ Good(e, x[e]) /\ x[e] \in FiberType
  BY DEF Callable, FibersOK
<1>2. x[e].todo \in Seq(Calls) /\ Ordered(x[e].todo)
  BY <1>1 DEF Good, FiberType
<1>3. /\ Due(e) \in Calls /\ Due(e) = x[e].todo[1] /\ Len(x[e].todo) \in Nat \ {0}
      /\ Rest(e) \in Seq(Calls) /\ Ordered(Rest(e)) /\ Len(Rest(e)) = Len(x[e].todo) - 1
      /\ \A k \in 1..Len(Rest(e)) : Rest(e)[k] = x[e].todo[k + 1]
      /\ Due(e).do \in Leads => Rest(e) # <<>>
  BY <1>1, <1>2, TailParts DEF Due, Rest
<1>4. /\ Due(e).on \subseteq Nodes
      /\ Due(e).do \in {"judge", "write", "resolve", "load", "table"} => \E n \in Nodes : Due(e).on = {n}
  BY <1>3 DEF Calls
<1>5. Due(e).do \in {"judge", "write", "resolve", "load", "table"} =>
          Node(e) \in Nodes /\ Due(e).on = {Node(e)}
  BY <1>4 DEF Node
<1>6. QED BY <1>1, <1>2, <1>3, <1>4, <1>5

(* A store call that ends its exchange, or leaves it the rest.             *)
LEMMA CallEnds ==
    ASSUME HostInv, NEW e \in Exchanges, Callable(e) \/ x[e].at \in {"waiting", "body", "work"},
           NEW answer \in Answers \ {"none"}, End(e, answer), UNCHANGED <<host, held, roots>>
    PROVE  HostInv'
<1>1. x[e].at \in {"waiting", "body", "work"}
  BY DEF Callable
<1>2. FibersOK' /\ GatesOK'
  BY <1>1, EndKeeps DEF HostInv
<1>3. QED BY <1>2 DEF HostInv, HostOK, NeverServedOpen, StoreTyped

LEMMA CallContinues ==
    ASSUME HostInv, NEW e \in Exchanges, Callable(e),
           NEW rest \in Seq(Calls), NEW did \in SUBSET Calls, NEW answer \in Answers,
           Ordered(rest), rest = <<>> => answer # "none",
           Continue(e, rest, did, answer), UNCHANGED host, StoreTyped'
    PROVE  HostInv'
<1>1. FibersOK' /\ GatesOK'
  BY ContinueKeeps DEF HostInv, Callable
<1>2. QED BY <1>1 DEF HostInv, HostOK, NeverServedOpen

LEMMA StoreCallKeeps ==
    ASSUME HostInv, NEW e \in Exchanges,
           \/ Judge(e) \/ Write(e) \/ Resolve(e) \/ Load(e) \/ LoadTable(e) \/ VerifyClosure(e)
           \/ Publish(e) \/ Consult(e) \/ FailCall(e)
    PROVE  HostInv'
<1> DEFINE f == x[e].ask
<1>1. Callable(e)
  BY DEF Judge, Write, Resolve, Load, LoadTable, VerifyClosure, Publish, Consult, FailCall, Calling
<1>2. /\ FibersOK /\ StoreTyped
      /\ Due(e) \in Calls /\ Due(e).on \subseteq Nodes
      /\ Due(e).do \in {"judge", "write", "resolve", "load", "table"} => Node(e) \in Nodes /\ Due(e).on = {Node(e)}
      /\ Rest(e) \in Seq(Calls) /\ Ordered(Rest(e))
      /\ Due(e).do \in Leads => Rest(e) # <<>>
  BY <1>1, CallParts DEF HostInv
<1>3. /\ Success(f) \in Answers \ {"none"}
      /\ \A a \in Answers \ {"none"} : Refusal(f, a) \in Answers \ {"none"}
  BY AnswersKnown
<1>4. /\ {"AdmissionRefused", "AlreadyAdmitted", "NodeAbsent", "refused", "ok", "ClosureUnverified",
          "BackendUnavailable"} \subseteq Answers \ {"none"}
      /\ "none" \in Answers
  BY DEF Answers
<1>5. CASE Judge(e)
  <2>1. Due(e).do = "judge" /\ UNCHANGED <<host, held, roots>>
    BY <1>5 DEF Judge, Calling
  <2>2. CASE End(e, Refusal(f, "AdmissionRefused"))
    BY <1>1, <1>3, <1>4, <2>1, <2>2, CallEnds
  <2>3. CASE Continue(e, Tail(Rest(e)), {}, IF Success(f) = "Admitted" THEN "AlreadyAdmitted" ELSE Success(f))
    <3>1. Tail(Rest(e)) \in Seq(Calls) /\ Ordered(Tail(Rest(e)))
      BY <1>2, <2>1, TailParts DEF Leads
    <3>2. (IF Success(f) = "Admitted" THEN "AlreadyAdmitted" ELSE Success(f)) \in Answers \ {"none"}
      BY <1>3, <1>4
    <3>3. {} \in SUBSET Calls /\ StoreTyped'
      BY <1>2, <2>1 DEF StoreTyped
    <3>4. QED BY <1>1, <2>1, <2>3, <3>1, <3>2, <3>3, CallContinues
  <2>4. CASE Continue(e, Rest(e), {}, "none")
    <3>1. {} \in SUBSET Calls /\ StoreTyped'
      BY <1>2, <2>1 DEF StoreTyped
    <3>2. QED BY <1>1, <1>2, <1>4, <2>1, <2>4, <3>1, CallContinues DEF Leads
  <2>5. QED BY <1>5, <2>2, <2>3, <2>4 DEF Judge
<1>6. CASE Write(e)
  <2>1. Node(e) \in Nodes /\ held' = held \cup {Node(e)} /\ UNCHANGED <<host, roots>>
    BY <1>2, <1>6 DEF Write, Calling
  <2>2. StoreTyped' /\ {Due(e)} \in SUBSET Calls
    BY <1>2, <2>1 DEF StoreTyped
  <2>3. Continue(e, Rest(e), {Due(e)}, Success(f))
    BY <1>6 DEF Write
  <2>4. QED BY <1>1, <1>2, <1>3, <2>1, <2>2, <2>3, CallContinues
<1>7. CASE Load(e)
  <2>1. UNCHANGED <<host, held, roots>>
    BY <1>7 DEF Load
  <2>2. CASE Continue(e, Rest(e), {}, Success(f))
    <3>1. {} \in SUBSET Calls /\ StoreTyped'
      BY <1>2, <2>1 DEF StoreTyped
    <3>2. QED BY <1>1, <1>2, <1>3, <2>1, <2>2, <3>1, CallContinues
  <2>3. CASE End(e, Refusal(f, "NodeAbsent"))
    BY <1>1, <1>3, <1>4, <2>1, <2>3, CallEnds
  <2>4. QED BY <1>7, <2>2, <2>3 DEF Load
<1>8. CASE LoadTable(e)
  <2>1. UNCHANGED <<host, held, roots>>
    BY <1>8 DEF LoadTable
  <2>2. CASE Node(e) \in DOMAIN Tables /\ Continue(e, RunAll(Tables[Node(e)]), {}, "ok")
    <3>1. Tables[Node(e)] \in Seq(Lines)
      BY <2>2, HostAssumption
    <3>2. RunAll(Tables[Node(e)]) \in Seq(Calls) /\ Ordered(RunAll(Tables[Node(e)]))
      BY <3>1, RunAllParts
    <3>3. {} \in SUBSET Calls /\ StoreTyped'
      BY <1>2, <2>1 DEF StoreTyped
    <3>4. QED BY <1>1, <1>4, <2>1, <2>2, <3>2, <3>3, CallContinues
  <2>3. CASE End(e, "refused")
    BY <1>1, <1>4, <2>1, <2>3, CallEnds
  <2>4. QED BY <1>8, <2>2, <2>3 DEF LoadTable
<1>9. CASE VerifyClosure(e)
  <2>1. Due(e).do = "closure" /\ UNCHANGED <<host, held, roots>>
    BY <1>9 DEF VerifyClosure, Calling
  <2>2. CASE Continue(e, Rest(e), {}, "none")
    <3>1. {} \in SUBSET Calls /\ StoreTyped'
      BY <1>2, <2>1 DEF StoreTyped
    <3>2. QED BY <1>1, <1>2, <1>4, <2>1, <2>2, <3>1, CallContinues DEF Leads
  <2>3. CASE End(e, "ClosureUnverified")
    BY <1>1, <1>4, <2>1, <2>3, CallEnds
  <2>4. QED BY <1>9, <2>2, <2>3 DEF VerifyClosure
<1>10. CASE Publish(e)
  <2>1. roots' = roots \cup Due(e).on /\ UNCHANGED <<host, held>>
    BY <1>10 DEF Publish
  <2>2. StoreTyped' /\ {Due(e)} \in SUBSET Calls
    BY <1>2, <2>1 DEF StoreTyped
  <2>3. Continue(e, Rest(e), {Due(e)}, Success(f))
    BY <1>10 DEF Publish
  <2>4. QED BY <1>1, <1>2, <1>3, <2>1, <2>2, <2>3, CallContinues
<1>11. CASE Consult(e)
  <2>1. UNCHANGED <<host, held, roots>> /\ Continue(e, Rest(e), {}, Success(f))
    BY <1>11 DEF Consult
  <2>2. {} \in SUBSET Calls /\ StoreTyped'
    BY <1>2, <2>1 DEF StoreTyped
  <2>3. QED BY <1>1, <1>2, <1>3, <2>1, <2>2, CallContinues
<1>12. CASE FailCall(e)
  <2>1. UNCHANGED <<host, held, roots>>
    BY <1>12 DEF FailCall
  <2>2. PICK answer \in Answers \ {"none"} : End(e, answer)
    BY <1>3, <1>4, <1>12 DEF FailCall
  <2>3. QED BY <1>1, <2>1, <2>2, CallEnds
<1>13. CASE Resolve(e)
  <2>1. Due(e).do = "resolve" /\ UNCHANGED <<host, held, roots>>
    BY <1>13 DEF Resolve, Calling
  <2>2. CASE Continue(e, Rest(e), {}, "none")
    <3>1. {} \in SUBSET Calls /\ StoreTyped'
      BY <1>2, <2>1 DEF StoreTyped
    <3>2. Rest(e) # <<>>
      BY <1>2, <2>1 DEF Leads
    <3>3. QED BY <1>1, <1>2, <1>4, <2>1, <2>2, <3>1, <3>2, CallContinues
  <2>3. CASE End(e, "refused")
    BY <1>1, <1>4, <2>1, <2>3, CallEnds
  <2>4. QED BY <1>13, <2>2, <2>3 DEF Resolve
<1>14. QED BY <1>5, <1>6, <1>7, <1>8, <1>9, <1>10, <1>11, <1>12, <1>13

(* A fiber takes up a request, outside every gate.                         *)
LEMMA Begins ==
    ASSUME HostInv, NEW e \in Exchanges, x[e].at = "idle", NEW r, Good(e, r), ~r.entered,
           r.at \in {"body", "work"} => Gate(host.kind, r.ask) = "none",
           x' = [x EXCEPT ![e] = r], UNCHANGED <<host, permits, live, counted, held, roots>>
    PROVE  HostInv'
<1>1. FibersOK /\ GatesOK
  BY DEF HostInv
<1>2. FibersOK'
  BY <1>1, Alters
<1>3. /\ \A gate \in Gates : ~In(x[e], gate) /\ ~In(r, gate)
      /\ \A outcome \in Counts : ~Left(r, outcome) /\ ~Left(x[e], outcome)
  BY DEF In, Left, Gates
<1>4. GatesOK'
  BY <1>1, <1>3, StaysPut
<1>5. QED BY <1>2, <1>4 DEF HostInv, HostOK, NeverServedOpen, StoreTyped

LEMMA BeganTyped ==
    ASSUME HostInv, NEW e \in Exchanges, NEW f \in Requests[e], NEW at \in Ats
    PROVE  /\ Began(e, f, at) \in FiberType
           /\ Began(e, f, at).at = at /\ Began(e, f, at).ask = f /\ Began(e, f, at).answer = "none"
           /\ ~Began(e, f, at).entered /\ Began(e, f, at).todo = <<>> /\ Began(e, f, at).did = {}
           /\ Began(e, f, at).saw = held /\ Began(e, f, at).found = roots
           /\ ~Began(e, f, at).hung
<1>1. f \in Asks
  BY DEF Asks
<1>2. held \subseteq Nodes /\ roots \subseteq Nodes
  BY DEF HostInv, StoreTyped
<1> HIDE DEF Asks, Ats, Answers
<1>3. QED BY <1>1, <1>2, IdleTyped DEF FiberType, Began

LEMMA ArriveKeeps ==
    ASSUME HostInv, NEW e \in Exchanges, NEW f \in Requests[e], ~IsVerb(f), Arrive(e, f)
    PROVE  HostInv'
<1>1. /\ host.at = "up" /\ x[e].at = "idle" /\ ~Unopened
      /\ UNCHANGED <<host, permits, live, counted, held, roots>>
  BY DEF Arrive, Unopened
<1>2. AtDoor(f) \in Answers /\ HistoryAnswers(f) \in Answers
      /\ "Served" \in Answers \ {"none"}
  BY AnswersKnown DEF Answers
<1>3. {"over", "waiting", "body", "work"} \subseteq Ats
  BY DEF Ats
<1>4. CASE AtDoor(f) # "none"
  <2> DEFINE b == Began(e, f, "over")
             r == [b EXCEPT !.answer = AtDoor(f)]
  <2>1. x' = [x EXCEPT ![e] = r]
    BY <1>4 DEF Arrive
  <2>2. /\ b \in FiberType /\ b.at = "over" /\ b.ask = f /\ ~b.entered
    BY <1>3, BeganTyped
  <2> HIDE DEF b
  <2>3. /\ r \in FiberType /\ r.at = "over" /\ r.ask = f /\ ~r.entered /\ r.answer = AtDoor(f)
    BY <1>2, <2>2 DEF FiberType
  <2> HIDE DEF r
  <2>4. Good(e, r)
    BY <1>1, <1>4, <2>3 DEF Good
  <2>5. QED BY <1>1, <2>1, <2>3, <2>4, Begins
<1>5. CASE AtDoor(f) = "none" /\ Gate(host.kind, f) # "none"
  <2> DEFINE r == Began(e, f, "waiting")
  <2>1. x' = [x EXCEPT ![e] = r]
    BY <1>5 DEF Arrive
  <2>2. r \in FiberType /\ r.at = "waiting" /\ r.ask = f /\ ~r.entered /\ r.answer = "none"
    BY <1>3, BeganTyped
  <2> HIDE DEF r
  <2>3. Gate(host.kind, f) \in Gates
    BY <1>5, GateNamed
  <2>4. Good(e, r)
    BY <1>1, <2>2, <2>3 DEF Good
  <2>5. QED BY <1>1, <2>1, <2>2, <2>4, Begins
<1>6. CASE AtDoor(f) = "none" /\ Gate(host.kind, f) = "none" /\ (host.kind = "embedded" \/ Route(f) = "cas")
  <2> DEFINE r == Began(e, f, "body")
  <2>1. x' = [x EXCEPT ![e] = r]
    BY <1>6 DEF Arrive
  <2>2. r \in FiberType /\ r.at = "body" /\ r.ask = f /\ ~r.entered /\ r.answer = "none"
    BY <1>3, BeganTyped
  <2> HIDE DEF r
  <2>3. Good(e, r)
    BY <1>1, <1>6, <2>2 DEF Good, Gates
  <2>4. QED BY <1>1, <1>6, <2>1, <2>2, <2>3, Begins
<1>7. CASE /\ AtDoor(f) = "none" /\ Gate(host.kind, f) = "none"
           /\ ~(host.kind = "embedded" \/ Route(f) = "cas")
           /\ Route(f) = "history" /\ HistoryAnswers(f) = "none"
  <2> DEFINE b == Began(e, f, "work")
             r == [b EXCEPT !.todo = <<Call("since", {})>>]
  <2>1. x' = [x EXCEPT ![e] = r]
    BY <1>7 DEF Arrive
  <2>2. b \in FiberType /\ b.at = "work" /\ b.ask = f /\ ~b.entered /\ b.answer = "none"
    BY <1>3, BeganTyped
  <2>3. Call("since", {}) \in Calls /\ Call("since", {}).do = "since"
    BY CallTyped DEF Call
  <2>4. <<Call("since", {})>> \in Seq(Calls) /\ <<Call("since", {})>> # <<>> /\ Ordered(<<Call("since", {})>>)
    BY <2>3, OneTyped DEF Leads
  <2> HIDE DEF b
  <2>5. /\ r \in FiberType /\ r.at = "work" /\ r.ask = f /\ ~r.entered /\ r.answer = "none"
        /\ r.todo = <<Call("since", {})>>
    BY <2>2, <2>4 DEF FiberType
  <2> HIDE DEF r
  <2>6. Good(e, r)
    BY <1>1, <1>7, <2>4, <2>5 DEF Good, Gates
  <2>7. QED BY <1>1, <1>7, <2>1, <2>5, <2>6, Begins
<1>8. CASE /\ AtDoor(f) = "none" /\ Gate(host.kind, f) = "none"
           /\ ~(host.kind = "embedded" \/ Route(f) = "cas")
           /\ ~(Route(f) = "history" /\ HistoryAnswers(f) = "none")
  <2> DEFINE b == Began(e, f, "over")
             answer == IF Route(f) = "history" THEN HistoryAnswers(f) ELSE "Served"
             r == [b EXCEPT !.answer = answer]
  <2>1. x' = [x EXCEPT ![e] = r]
    BY <1>8 DEF Arrive
  <2>2. b \in FiberType /\ b.at = "over" /\ b.ask = f /\ ~b.entered
    BY <1>3, BeganTyped
  <2>3. answer \in Answers /\ answer # "none"
    BY <1>2, <1>8
  <2> HIDE DEF b, answer
  <2>4. r \in FiberType /\ r.at = "over" /\ r.ask = f /\ ~r.entered /\ r.answer = answer
    BY <2>2, <2>3 DEF FiberType
  <2> HIDE DEF r
  <2>5. Good(e, r)
    BY <1>1, <2>3, <2>4 DEF Good
  <2>6. QED BY <1>1, <2>1, <2>4, <2>5, Begins
<1>9. QED BY <1>4, <1>5, <1>6, <1>7, <1>8

LEMMA RunVerbKeeps ==
    ASSUME HostInv, NEW e \in Exchanges, NEW f \in Requests[e], IsVerb(f), RunVerb(e, f)
    PROVE  HostInv'
<1> DEFINE b == Began(e, f, "work")
           r == [b EXCEPT !.todo = VerbCalls(f)]
<1>1. /\ x[e].at = "idle" /\ x' = [x EXCEPT ![e] = r]
      /\ UNCHANGED <<host, permits, live, counted, held, roots>>
  BY DEF RunVerb
<1>2. b \in FiberType /\ b.at = "work" /\ b.ask = f /\ ~b.entered /\ b.answer = "none"
  BY BeganTyped DEF Ats
<1>3. VerbCalls(f) \in Seq(Calls) /\ VerbCalls(f) # <<>> /\ Ordered(VerbCalls(f))
  BY RequestParts, VerbTyped
<1> HIDE DEF b
<1>4. /\ r \in FiberType /\ r.at = "work" /\ r.ask = f /\ ~r.entered /\ r.answer = "none"
      /\ r.todo = VerbCalls(f)
  BY <1>2, <1>3 DEF FiberType
<1> HIDE DEF r
<1>5. Gate(host.kind, f) = "none"
  BY DEF Gate
<1>6. Good(e, r)
  BY <1>3, <1>4, <1>5 DEF Good, Gates
<1>7. QED BY <1>1, <1>4, <1>5, <1>6, Begins

(* A permit is there and is taken.                                         *)
LEMMA EnterKeeps ==
    ASSUME HostInv, NEW e \in Exchanges, Enter(e)
    PROVE  HostInv'
<1> DEFINE f == x[e].ask
           wire == GateOf(e) = "wire"
           r == [x[e] EXCEPT !.entered = TRUE,
                             !.at = IF wire THEN "body" ELSE "work",
                             !.todo = IF wire THEN <<>> ELSE ToolCalls(f)]
<1>1. /\ x[e].at = "waiting" /\ permits[GateOf(e)] > 0 /\ Take(GateOf(e))
      /\ x' = [x EXCEPT ![e] = r] /\ UNCHANGED <<host, counted, held, roots>>
  BY DEF Enter
<1>2. x[e] \in FiberType /\ Good(e, x[e]) /\ FibersOK /\ GatesOK
  BY DEF HostInv, FibersOK
<1>3. /\ f \in Requests[e] /\ GateOf(e) \in Gates /\ ~IsVerb(f) /\ x[e].answer = "none" /\ ~Unopened
  <2>1. f \in Requests[e] /\ GateOf(e) \in Gates /\ x[e].answer = "none"
    BY <1>1, <1>2 DEF Good, GateOf
  <2>2. ~IsVerb(f)
    BY <2>1 DEF GateOf, Gate, Gates
  <2>3. QED BY <1>1, <1>2, <2>1, <2>2 DEF Good
<1>4. /\ ToolCalls(f) \in Seq(Calls) /\ Ordered(ToolCalls(f))
      /\ ToolCalls(f) # <<>> \/ f.lines = <<>>
  BY <1>3, RequestParts, ToolTyped
<1>5. /\ r \in FiberType /\ r.ask = f /\ r.entered /\ r.answer = "none"
      /\ r.at \in {"body", "work"} /\ (r.at = "work" => r.todo = ToolCalls(f))
  BY <1>2, <1>3, <1>4, EmptySeq DEF FiberType, Ats
<1> HIDE DEF r
<1>6. Good(e, r)
  BY <1>3, <1>4, <1>5 DEF Good
<1>7. FibersOK'
  BY <1>1, <1>2, <1>6, Alters
<1>8. GatesOK'
  BY <1>1, <1>2, <1>3, <1>5, GoesIn DEF GateOf
<1>9. QED BY <1>1, <1>7, <1>8 DEF HostInv, HostOK, NeverServedOpen, StoreTyped

LEMMA BodyTyped ==
    ASSUME NEW f \in Exchange, NEW whole \in BOOLEAN
    PROVE  /\ (IF whole THEN f ELSE [f EXCEPT !.body = "none"]) \in Exchange
           /\ ~whole => [f EXCEPT !.body = "none"].body = "none"
BY DEF Exchange

LEMMA TakeBodyKeeps ==
    ASSUME HostInv, NEW e \in Exchanges, TakeBody(e)
    PROVE  HostInv'
<1>1. x[e].at = "body" /\ UNCHANGED <<host, held, roots>>
  BY DEF TakeBody
<1>2. x[e] \in FiberType /\ Good(e, x[e]) /\ FibersOK /\ GatesOK /\ x[e].answer = "none"
  BY <1>1 DEF HostInv, FibersOK, Good
<1>3. PICK whole \in BOOLEAN :
         LET f == IF whole THEN x[e].ask ELSE [x[e].ask EXCEPT !.body = "none"]
             refusal == Decide(host.limits, f)
             answer  == CoreAnswers(host.limits, f)
         IN  IF refusal # "Accepted" THEN End(e, refusal)
             ELSE IF answer # "none" THEN End(e, answer)
             ELSE /\ x' = [x EXCEPT ![e].at = "work", ![e].todo = CoreCalls(f)]
                  /\ UNCHANGED <<permits, live, counted>>
  BY DEF TakeBody
<1> DEFINE f == IF whole THEN x[e].ask ELSE [x[e].ask EXCEPT !.body = "none"]
<1>4. CASE Decide(host.limits, f) # "Accepted"
  <2>1. Decide(host.limits, f) \in Answers \ {"none"}
    BY <1>4, DecideParts, AnswersKnown
  <2>2. End(e, Decide(host.limits, f))
    BY <1>3, <1>4
  <2> HIDE DEF f
  <2>3. QED BY <1>1, <2>1, <2>2, CallEnds
<1>5. CASE Decide(host.limits, f) = "Accepted" /\ CoreAnswers(host.limits, f) # "none"
  <2>1. CoreAnswers(host.limits, f) \in Answers \ {"none"}
    BY <1>5, AnswersKnown
  <2>2. End(e, CoreAnswers(host.limits, f))
    BY <1>3, <1>5
  <2> HIDE DEF f
  <2>3. QED BY <1>1, <2>1, <2>2, CallEnds
<1>6. CASE Decide(host.limits, f) = "Accepted" /\ CoreAnswers(host.limits, f) = "none"
  <2> DEFINE r == [x[e] EXCEPT !.at = "work", !.todo = CoreCalls(f)]
  <2>1. x' = [x EXCEPT ![e] = r] /\ UNCHANGED <<permits, live, counted>>
    BY <1>3, <1>6
  <2>2. x[e].ask \in Requests[e] /\ ~IsVerb(x[e].ask)
    BY <1>1, <1>2 DEF Good
  <2>3. f \in Exchange
    BY <2>2, RequestParts, BodyTyped
  <2>4. CoreCalls(f) \in Seq(Calls) /\ CoreCalls(f) # <<>> /\ Ordered(CoreCalls(f))
    BY <2>3, CoreTyped
  <2> HIDE DEF f
  <2>5. /\ r \in FiberType /\ r.at = "work" /\ r.todo = CoreCalls(f) /\ r.ask = x[e].ask
        /\ r.answer = "none" /\ r.entered = x[e].entered
    BY <1>2, <2>4 DEF FiberType, Ats
  <2> HIDE DEF r
  <2>6. Good(e, r)
    BY <1>1, <1>2, <2>2, <2>4, <2>5 DEF Good
  <2>7. FibersOK'
    BY <1>1, <1>2, <2>1, <2>6, Alters
  <2>8. /\ \A gate \in Gates : In(r, gate) <=> In(x[e], gate)
        /\ \A outcome \in Counts : Left(r, outcome) <=> Left(x[e], outcome)
    BY <1>1, <2>5 DEF In, Left
  <2>9. GatesOK'
    BY <1>1, <1>2, <2>1, <2>8, StaysPut
  <2>10. QED BY <1>1, <2>7, <2>9 DEF HostInv, HostOK, NeverServedOpen, StoreTyped
<1>7. QED BY <1>4, <1>5, <1>6

LEMMA RestKeeps ==
    ASSUME HostInv, NEW e \in Exchanges,
           RefuseTool(e) \/ RunNothing(e) \/ HangCall(e) \/ Gone(e)
    PROVE  HostInv'
<1>1. /\ "ok" \in Answers \ {"none"} /\ "gone" \in Answers \ {"none"}
      /\ "refused" \in Answers \ {"none"}
  BY DEF Answers
<1>2. CASE RefuseTool(e)
  <2>1. ToolAnswers(host.limits, x[e].ask) = "refused"
    BY <1>2, AnswersKnown DEF RefuseTool
  <2>2. End(e, "refused") /\ x[e].at = "work" /\ UNCHANGED <<host, held, roots>>
    BY <1>2, <2>1 DEF RefuseTool
  <2>3. QED BY <1>1, <2>2, CallEnds
<1>3. CASE RunNothing(e)
  BY <1>1, <1>3, CallEnds DEF RunNothing
<1>4. CASE Gone(e)
  BY <1>1, <1>4, CallEnds DEF Gone
<1>5. CASE HangCall(e)
  <2> DEFINE r == [x[e] EXCEPT !.hung = TRUE]
  <2>1. /\ x[e].at = "work" /\ x' = [x EXCEPT ![e] = r]
        /\ UNCHANGED <<host, permits, live, counted, held, roots>>
    BY <1>5 DEF HangCall, Callable
  <2>2. x[e] \in FiberType /\ Good(e, x[e]) /\ FibersOK /\ GatesOK
    BY DEF HostInv, FibersOK
  <2>3. /\ r \in FiberType /\ r.at = "work" /\ r.answer = x[e].answer /\ r.ask = x[e].ask
        /\ r.entered = x[e].entered /\ r.todo = x[e].todo
    BY <2>1, <2>2 DEF FiberType
  <2>4. Ordered(r.todo)
    BY <2>1, <2>2, <2>3 DEF Good
  <2> HIDE DEF r
  <2>5. FibersOK' /\ GatesOK'
    BY <2>1, <2>2, <2>3, <2>4, WorkGoesOn
  <2>6. QED BY <2>1, <2>5 DEF HostInv, HostOK, NeverServedOpen, StoreTyped
<1>6. QED BY <1>2, <1>3, <1>4, <1>5

LEMMA HostStands == HostInv /\ UNCHANGED hostVars => HostInv'
<1> SUFFICES ASSUME HostInv, UNCHANGED hostVars PROVE HostInv'
  OBVIOUS
<1>1. UNCHANGED <<host, x, permits, live, counted, held, roots>>
  BY DEF hostVars
<1>2. HostOK' /\ StoreTyped'
  BY <1>1 DEF HostInv, HostOK, NeverServedOpen, StoreTyped
<1>3. FibersOK'
  BY <1>1 DEF HostInv, FibersOK, Good, Unopened
<1>4. GatesOK'
  BY <1>1 DEF HostInv, GatesOK, Inside, GateOf, LeftAs, Left
<1>5. QED BY <1>2, <1>3, <1>4 DEF HostInv

LEMMA HostKeeps == LayoutInv /\ HostInv /\ Next => LayoutInv' /\ HostInv'
<1> SUFFICES ASSUME LayoutInv, HostInv, Next PROVE LayoutInv' /\ HostInv'
  OBVIOUS
<1>1. CASE LayoutNext /\ Changing /\ UNCHANGED hostVars
  BY <1>1, LayoutKeeps, HostStands
<1>2. CASE Locate
  BY <1>2, LocateKeeps, LayoutStands DEF Locate
<1>3. CASE ReadPolicy
  BY <1>3, ReadPolicyKeeps, LayoutStands DEF ReadPolicy
<1>4. CASE Boot
  BY <1>4, BootKeeps, LayoutStands DEF Boot
<1>5. CASE Shutdown
  BY <1>5, ShutdownKeeps, LayoutStands DEF Shutdown
<1>6. CASE Deadline
  BY <1>6, DeadlineKeeps, LayoutStands DEF Deadline
<1>7. CASE \E policy \in WirePolicies : Embed(policy)
  BY <1>7, EmbedKeeps, LayoutStands DEF Embed
<1>8. ASSUME NEW e \in Exchanges, NEW f \in Requests[e],
             IF IsVerb(f) THEN RunVerb(e, f) ELSE Arrive(e, f)
      PROVE  LayoutInv' /\ HostInv'
  <2>1. UNCHANGED layoutVars
    BY <1>8 DEF RunVerb, Arrive
  <2>2. QED BY <1>8, <2>1, RunVerbKeeps, ArriveKeeps, LayoutStands
<1>9. ASSUME NEW e \in Exchanges, Enter(e) \/ Serve(e) \/ FailCall(e) \/ HangCall(e) \/ Gone(e)
      PROVE  LayoutInv' /\ HostInv'
  <2>1. UNCHANGED layoutVars
    BY <1>9 DEF Enter, Serve, TakeBody, RefuseTool, RunNothing, Judge, Write, Resolve, Load, LoadTable,
                VerifyClosure, Publish, Consult, FailCall, HangCall, Gone
  <2>2. HostInv'
    BY <1>9, EnterKeeps, TakeBodyKeeps, StoreCallKeeps, RestKeeps DEF Serve
  <2>3. QED BY <2>1, <2>2, LayoutStands
<1>10. QED BY <1>1, <1>2, <1>3, <1>4, <1>5, <1>6, <1>7, <1>8, <1>9 DEF Next

(* LayoutInv /\ HostInv is an inductive invariant.                         *)
THEOREM Inductive == Spec => [](LayoutInv /\ HostInv)
<1>1. Init => LayoutInv /\ HostInv
  BY LayoutStarts, HostStarts DEF Init
<1>2. LayoutInv /\ HostInv /\ [Next]_vars => (LayoutInv /\ HostInv)'
  BY HostKeeps, HostStands, LayoutStands DEF vars
<1>3. QED BY <1>1, <1>2, PTL DEF Spec

(* A directory that an undisturbed `init` answered for opens as it was     *)
(* asked, and a daemon that serves never read a config that gates reads    *)
(* (store.ts init, readConfig; daemon.ts).                                 *)
THEOREM ConfigsHonoured == Spec => []ConfigHonoured
<1>1. LayoutInv /\ HostInv => ConfigHonoured
  BY CreatedOpens DEF HostInv, HostOK, ConfigHonoured
<1>2. QED BY <1>1, Inductive, PTL

(* Each gate's permits, gauge and counts are exact however each of any     *)
(* number of exchanges ends (http.ts gate, toolCalls).                     *)
THEOREM GatesStayExact == Spec => []GatesExact
<1>1. LayoutInv /\ HostInv => GatesExact
  <2> SUFFICES ASSUME LayoutInv, HostInv PROVE GatesExact
    OBVIOUS
  <2>1. \A e \in Exchanges :
         /\ x[e].at \in {"idle", "waiting", "body", "work", "over"}
         /\ (x[e].at = "idle") = (x[e] = Idle)
         /\ (x[e].at = "over") = (x[e].answer # "none")
         /\ x[e].at = "work" => x[e].todo # <<>> \/ x[e].ask.lines = <<>>
         /\ x[e].ask \in Requests[e] \cup {NoRequest}
    <3> SUFFICES ASSUME NEW e \in Exchanges
                 PROVE  /\ x[e].at \in {"idle", "waiting", "body", "work", "over"}
                        /\ (x[e].at = "idle") <=> (x[e] = Idle)
                        /\ (x[e].at = "over") <=> (x[e].answer # "none")
                        /\ x[e].at = "work" => x[e].todo # <<>> \/ x[e].ask.lines = <<>>
                        /\ x[e].ask \in Requests[e] \cup {NoRequest}
      OBVIOUS
    <3>1. Good(e, x[e])
      BY DEF HostInv, FibersOK
    <3>2. Idle.at = "idle" /\ Idle.ask = NoRequest
      BY DEF Idle
    <3>3. x[e].at \in {"idle", "waiting", "body", "work", "over"}
      BY <3>1 DEF Good, FiberType, Ats
    <3>4. QED BY <3>1, <3>2, <3>3 DEF Good
  <2>2. TypeOK
    BY <2>1 DEF LayoutInv, HostInv, HostOK, GatesOK, StoreTyped, TypeOK
  <2>3. \A outcome \in Counts : LeftAs(outcome) =
           {e \in Exchanges : /\ x[e].at = "over" /\ x[e].entered
                              /\ GateOf(e) = "tool" /\ Outcome(x[e].answer) = outcome}
    BY DEF LeftAs, Left, GateOf
  <2>4. QED BY <2>2, <2>3 DEF HostInv, GatesOK, GatesExact
<1>2. QED BY <1>1, Inductive, PTL

----------------------------------------------------------------------------
(* What the calls of a request do to the store, and what they promise.     *)

(* A call has been made, and the store stands as it left it or grew since. *)
(* The table of a program is a call the run of it replaces.                *)
Done(c) ==
    /\ c.do # "table"
    /\ c.do = "judge" => \A n \in c.on : Refs[n] \subseteq held
    /\ c.do \in {"write", "load", "closure"} => c.on \subseteq held
    /\ c.do = "publish" => c.on \subseteq roots

(* What is left of a plan whose earlier calls are done.                    *)
Follows(calls, plan) ==
    \E k \in 0..Len(plan) :
        /\ Len(calls) = Len(plan) - k
        /\ \A i \in 1..Len(calls) : calls[i] = plan[k + i]
        /\ \A j \in 1..k : Done(plan[j])

Plane(f) ==
    IF IsVerb(f) THEN "shell"
    ELSE IF host.kind = "embedded" \/ Route(f) = "cas" THEN "core"
    ELSE IF Route(f) = "mcp" THEN "tool" ELSE "history"

RunsTable(f) == IF IsVerb(f) THEN f.verb = "run" ELSE Plane(f) = "tool" /\ f.tool = "cas_run_ref"

(* The calls a request plans, before and after the table it names is read. *)
Plans(f) ==
    {CASE Plane(f) = "shell" -> VerbCalls(f)
       [] Plane(f) = "core" -> CoreCalls(f)
       [] Plane(f) = "tool" -> ToolCalls(f)
       [] OTHER -> <<Call("since", {})>>}
    \cup (IF RunsTable(f) /\ f.id \in DOMAIN Tables THEN {RunAll(Tables[f.id])} ELSE {})

(* What holds once every call of a plan is done.                           *)
Promise(f) ==
    /\ RunsTable(f) => On(Tables[f.id]) \subseteq held
    /\ Plane(f) = "shell" => /\ f.verb = "put" => f.id \in held
                             /\ f.verb = "publish" => f.id \in roots
                             /\ f.verb = "name" => f.note \in roots
    /\ Plane(f) = "tool" => /\ f.tool \in {"cas_put", "cas_run"} => On(f.lines) \subseteq held
                            /\ f.tool = "cas_publish_root" => f.id \in roots
    /\ Plane(f) = "core" => /\ Operation(f) = "UploadNode" => f.id \in held
                            /\ Operation(f) = "LoadNode" => f.id \in held
                            /\ Operation(f) = "PublishRoot" =>
                                  f.id \in roots /\ {f.id} \cup f.keys \subseteq held

(* What a request at work on a plane was found to be.                      *)
Admissible(f) ==
    /\ Plane(f) = "core" =>
          /\ f.profile /\ f.path \in Resources /\ f.method \in Methods(f)
          /\ f.method # "GET" => f.octet
          /\ Principal(host.limits, f) # "None" /\ Authorized(host.limits, f)
          /\ Operation(f) # "ReadCapabilities"
          /\ Operation(f) = "UploadNode" =>
                f.bytes = f.id /\ Size[f.bytes] <= host.limits.maxNodeBytes
    /\ Plane(f) = "history" => Route(f) = "history" /\ HistoryAnswers(f) = "none"

(* What changed the store was let in, within its cap, and is answered as   *)
(* such or as cut short.                                                   *)
Capped(f, did) ==
    \/ IsVerb(f)
    \/ f.tool = "cas_run_ref"
    \/ \A call \in did : call.do = "write" => \A n \in call.on : Size[n] <= host.limits.maxNodeBytes

Kept(r) ==
    /\ r.saw \subseteq held /\ r.found \subseteq roots
    /\ r.at \in {"waiting", "body", "work"} /\ host.kind = "daemon" /\ ~IsVerb(r.ask) =>
          Door(r.ask) = "Pass"
    /\ r.at = "work" => /\ \E plan \in Plans(r.ask) : Follows(r.todo, plan)
                        /\ Admissible(r.ask)
                        /\ r.todo = <<>> => Plane(r.ask) = "tool"
    /\ r.at = "body" => Plane(r.ask) = "core"
    /\ r.at = "over" => AnswerHolds(r.ask, r.answer, r.saw, r.found)
    /\ r.at = "over" /\ IsVerb(r.ask) => r.answer \in {"ok", "refused", "gone"}
    /\ r.did # {} => /\ r.at \in {"work", "over"} /\ LetIn(r.ask) /\ Capped(r.ask, r.did)
                     /\ r.at = "work" => Plane(r.ask) \in {"shell", "tool"}
                     /\ r.at = "over" => r.answer \in {"ok", "refused", "gone", "Admitted", "Published"}

StoreOK == roots \subseteq held /\ \A n \in held : Refs[n] \subseteq held

StoreInv == StoreOK /\ \A e \in Exchanges : x[e].at = "idle" \/ Kept(x[e])

(* Each judge stands before its write and each write after its judge, and  *)
(* what a plan publishes it has loaded, verified or written before.        *)
Shape(plan) ==
    /\ plan \in Seq(Calls)
    /\ \A k \in 1..Len(plan) :
         /\ plan[k].do = "judge" =>
               k < Len(plan) /\ plan[k + 1].do = "write" /\ plan[k + 1].on = plan[k].on
         /\ plan[k].do = "write" =>
               k > 1 /\ plan[k - 1].do = "judge" /\ plan[k - 1].on = plan[k].on
         /\ plan[k].do = "publish" =>
               \E j \in 1..(k - 1) : /\ plan[j].do \in {"load", "write", "closure"}
                                     /\ plan[k].on \subseteq plan[j].on

(* What each call of a plan says of the request.                           *)
Suits(f, c, last) ==
    /\ c.do = "closure" => Plane(f) = "core" /\ c.on = {f.id} \cup f.keys
    /\ c.do = "names" => Plane(f) = "shell" /\ f.verb \notin {"put", "publish", "name", "run"}
    /\ c.do = "table" => c.on = {f.id} /\ RunsTable(f)
    /\ Plane(f) = "core" => /\ c.do = "load" => c.on = {f.id}
                            /\ c.do \in {"judge", "write"} => Operation(f) = "UploadNode" /\ c.on = {f.id}
                            /\ c.do \in {"write", "publish"} => last
                            /\ c.do = "publish" => Operation(f) = "PublishRoot"
    /\ Plane(f) = "tool" /\ c.do = "write" /\ f.tool # "cas_run_ref" =>
          f.tool # "tools/list" /\ \E k \in PutLines(f.lines) : c.on = {f.lines[k].node}
    /\ Plane(f) = "history" => c.do = "since"

Serves(f, plan) ==
    /\ Shape(plan)
    /\ \A k \in 1..Len(plan) : Suits(f, plan[k], k = Len(plan))
    /\ (\A k \in 1..Len(plan) : Done(plan[k])) => Promise(f)

LEMMA CallFields == \A name, on : Call(name, on).do = name /\ Call(name, on).on = on
BY DEF Call

LEMMA LineFields ==
    ASSUME NEW line \in Lines
    PROVE  /\ LineCalls(line)[1].on = {line.node} /\ LineCalls(line)[2].on = {line.node}
           /\ line.do \in {"put", "load"}
           /\ line.do = "put" => LineCalls(line)[1].do = "judge" /\ LineCalls(line)[2].do = "write"
           /\ line.do = "load" => LineCalls(line)[1].do = "resolve" /\ LineCalls(line)[2].do = "load"
<1>1. CASE line.do = "put"
  <2>1. LineCalls(line)[1] = Call("judge", {line.node}) /\ LineCalls(line)[2] = Call("write", {line.node})
    BY <1>1, LineParts
  <2>2. QED BY <1>1, <2>1, CallFields
<1>2. CASE line.do = "load"
  <2>1. LineCalls(line)[1] = Call("resolve", {line.node}) /\ LineCalls(line)[2] = Call("load", {line.node})
    BY <1>2, LineParts
  <2>2. QED BY <1>2, <2>1, CallFields
<1>3. QED BY <1>1, <1>2, LineParts

LEMMA ShapeOne ==
    ASSUME NEW c \in Calls, c.do \notin {"judge", "write", "publish"}
    PROVE  Shape(<<c>>) /\ Len(<<c>>) = 1 /\ <<c>>[1] = c
BY DEF Shape

LEMMA ShapePublish ==
    ASSUME NEW c \in Calls, NEW d \in Calls, c.do \in {"load", "closure"},
           d.do = "publish", d.on \subseteq c.on
    PROVE  Shape(<<c, d>>) /\ Len(<<c, d>>) = 2 /\ <<c, d>>[1] = c /\ <<c, d>>[2] = d
<1> DEFINE plan == <<c, d>>
<1>1. plan \in Seq(Calls) /\ Len(plan) = 2 /\ plan[1] = c /\ plan[2] = d
  OBVIOUS
<1> HIDE DEF plan
<1>2. Shape(plan)
  BY <1>1 DEF Shape
<1>3. QED BY <1>1, <1>2 DEF plan

LEMMA ShapePut ==
    ASSUME NEW n \in Nodes
    PROVE  /\ Shape(PutCalls(n)) /\ Len(PutCalls(n)) = 2
           /\ PutCalls(n)[1] = Call("judge", {n}) /\ PutCalls(n)[2] = Call("write", {n})
<1>1. /\ PutCalls(n) \in Seq(Calls) /\ Len(PutCalls(n)) = 2
      /\ PutCalls(n)[1] = Call("judge", {n}) /\ PutCalls(n)[2] = Call("write", {n})
  BY PutsTyped DEF PutCalls
<1>2. /\ PutCalls(n)[1].do = "judge" /\ PutCalls(n)[2].do = "write"
      /\ PutCalls(n)[1].on = PutCalls(n)[2].on
  BY <1>1, CallFields
<1>3. \A k \in 1..2 : k = 1 \/ k = 2
  OBVIOUS
<1>4. Shape(PutCalls(n))
  BY <1>1, <1>2, <1>3 DEF Shape
<1>5. QED BY <1>1, <1>4

LEMMA ShapeName ==
    ASSUME NEW f \in VerbAsk
    PROVE  Shape(NameNode(f))
<1>1. /\ NameNode(f) \in Seq(Calls) /\ Len(NameNode(f)) = 4
      /\ NameNode(f)[1] = Call("load", {f.id}) /\ NameNode(f)[2] = Call("judge", {f.note})
      /\ NameNode(f)[3] = Call("write", {f.note}) /\ NameNode(f)[4] = Call("publish", {f.note})
  BY NameParts
<1>2. PICK plan : plan = NameNode(f)
  OBVIOUS
<1>3. plan[1].do = "load"
  BY <1>1, <1>2 DEF Call
<1>4. plan[2].do = "judge" /\ plan[2].on = {f.note}
  BY <1>1, <1>2 DEF Call
<1>5. plan[3].do = "write" /\ plan[3].on = {f.note}
  BY <1>1, <1>2 DEF Call
<1>6. plan[4].do = "publish" /\ plan[4].on = {f.note}
  BY <1>1, <1>2 DEF Call
<1>7. plan \in Seq(Calls) /\ Len(plan) = 4
  BY <1>1, <1>2
<1>8. \A k \in 1..4 : k = 1 \/ k = 2 \/ k = 3 \/ k = 4
  OBVIOUS
<1>9. \E j \in 1..3 : plan[j].do \in {"load", "write", "closure"} /\ plan[4].on \subseteq plan[j].on
  BY <1>5, <1>6
<1>10. \A k \in 1..4 :
         /\ plan[k].do = "judge" => k = 2
         /\ plan[k].do = "write" => k = 3
         /\ plan[k].do = "publish" => k = 4
  BY <1>3, <1>4, <1>5, <1>6, <1>8
<1>11. Shape(plan)
  <2>1. ASSUME NEW k \in 1..4
        PROVE  /\ plan[k].do = "judge" =>
                     k < 4 /\ plan[k + 1].do = "write" /\ plan[k + 1].on = plan[k].on
               /\ plan[k].do = "write" =>
                     k > 1 /\ plan[k - 1].do = "judge" /\ plan[k - 1].on = plan[k].on
               /\ plan[k].do = "publish" =>
                     \E j \in 1..(k - 1) : /\ plan[j].do \in {"load", "write", "closure"}
                                           /\ plan[k].on \subseteq plan[j].on
    <3>1. 2 + 1 = 3 /\ 3 - 1 = 2 /\ 4 - 1 = 3
      OBVIOUS
    <3>2. plan[k].do = "judge" => k = 2 /\ plan[2 + 1].do = "write" /\ plan[2 + 1].on = plan[2].on
      BY <1>4, <1>5, <1>10, <3>1
    <3>3. plan[k].do = "write" => k = 3 /\ plan[3 - 1].do = "judge" /\ plan[3 - 1].on = plan[3].on
      BY <1>4, <1>5, <1>10, <3>1
    <3>4. plan[k].do = "publish" => k = 4
      BY <1>10
    <3>5. QED BY <1>9, <3>1, <3>2, <3>3, <3>4
  <2>2. QED BY <1>7, <2>1 DEF Shape
<1>12. QED BY <1>2, <1>11

LEMMA ShapeRunAll ==
    ASSUME NEW lines \in Seq(Lines)
    PROVE  Shape(RunAll(lines))
<1> DEFINE plan == RunAll(lines)
           n == Len(lines)
<1>1. /\ n \in Nat /\ plan \in Seq(Calls) /\ Len(plan) = 2 * n
      /\ \A k \in 1..n : plan[2 * k - 1] = LineCalls(lines[k])[1] /\ plan[2 * k] = LineCalls(lines[k])[2]
      /\ \A j \in 1..Len(plan) : \E k \in 1..n : j = 2 * k - 1 \/ j = 2 * k
  BY RunAllParts
<1>2. \A k \in 1..n : /\ \/ plan[2 * k - 1].do = "judge" /\ plan[2 * k].do = "write"
                         \/ plan[2 * k - 1].do = "resolve" /\ plan[2 * k].do = "load"
                      /\ plan[2 * k - 1].on = plan[2 * k].on
  <2> SUFFICES ASSUME NEW k \in 1..n
               PROVE  /\ \/ plan[2 * k - 1].do = "judge" /\ plan[2 * k].do = "write"
                         \/ plan[2 * k - 1].do = "resolve" /\ plan[2 * k].do = "load"
                      /\ plan[2 * k - 1].on = plan[2 * k].on
    OBVIOUS
  <2>1. plan[2 * k - 1] = LineCalls(lines[k])[1] /\ plan[2 * k] = LineCalls(lines[k])[2]
    BY <1>1
  <2>2. lines[k] \in Lines
    OBVIOUS
  <2>3. PICK line \in Lines : line = lines[k]
    BY <2>2
  <2>4. /\ \/ LineCalls(line)[1].do = "judge" /\ LineCalls(line)[2].do = "write"
           \/ LineCalls(line)[1].do = "resolve" /\ LineCalls(line)[2].do = "load"
        /\ LineCalls(line)[1].on = LineCalls(line)[2].on
    BY LineFields
  <2> HIDE DEF plan, n
  <2>5. plan[2 * k - 1] = LineCalls(line)[1] /\ plan[2 * k] = LineCalls(line)[2]
    BY <2>1, <2>3
  <2>6. QED BY <2>4, <2>5
<1> HIDE DEF plan, n
<1>3. ASSUME NEW j \in 1..Len(plan)
      PROVE  /\ plan[j].do = "judge" =>
                   j < Len(plan) /\ plan[j + 1].do = "write" /\ plan[j + 1].on = plan[j].on
             /\ plan[j].do = "write" =>
                   j > 1 /\ plan[j - 1].do = "judge" /\ plan[j - 1].on = plan[j].on
             /\ plan[j].do # "publish"
  <2>1. PICK k \in 1..n : j = 2 * k - 1 \/ j = 2 * k
    BY <1>1
  <2>2. /\ \/ plan[2 * k - 1].do = "judge" /\ plan[2 * k].do = "write"
           \/ plan[2 * k - 1].do = "resolve" /\ plan[2 * k].do = "load"
        /\ plan[2 * k - 1].on = plan[2 * k].on
    BY <1>2
  <2>3. CASE j = 2 * k - 1
    <3>1. j + 1 = 2 * k /\ j < Len(plan)
      BY <1>1, <2>3
    <3>2. /\ \/ plan[j].do = "judge" /\ plan[j + 1].do = "write"
             \/ plan[j].do = "resolve" /\ plan[j + 1].do = "load"
          /\ plan[j + 1].on = plan[j].on
      BY <2>2, <2>3, <3>1
    <3>3. QED BY <3>1, <3>2
  <2>4. CASE j = 2 * k
    <3>1. j - 1 = 2 * k - 1 /\ j > 1
      BY <1>1, <2>4
    <3>2. /\ \/ plan[j - 1].do = "judge" /\ plan[j].do = "write"
             \/ plan[j - 1].do = "resolve" /\ plan[j].do = "load"
          /\ plan[j - 1].on = plan[j].on
      BY <2>2, <2>4, <3>1
    <3>3. QED BY <3>1, <3>2
  <2>5. QED BY <2>1, <2>3, <2>4
<1>4. Shape(plan)
  BY <1>1, <1>3 DEF Shape
<1>5. QED BY <1>4 DEF plan

(* A run that is done has written or found the node of every line.         *)
LEMMA RunAllDone ==
    ASSUME NEW lines \in Seq(Lines), \A k \in 1..Len(RunAll(lines)) : Done(RunAll(lines)[k])
    PROVE  On(lines) \subseteq held
<1> SUFFICES ASSUME NEW k \in 1..Len(lines) PROVE lines[k].node \in held
  BY DEF On
<1>1. /\ Len(lines) \in Nat /\ Len(RunAll(lines)) = 2 * Len(lines)
      /\ RunAll(lines)[2 * k] = LineCalls(lines[k])[2] /\ lines[k] \in Lines
  BY RunAllParts
<1>2. 2 * k \in 1..Len(RunAll(lines))
  BY <1>1
<1>3. PICK c : c = LineCalls(lines[k])[2]
  OBVIOUS
<1>4. Done(c)
  BY <1>1, <1>2, <1>3
<1>5. c.do \in {"write", "load"} /\ c.on = {lines[k].node}
  BY <1>1, <1>3, LineFields
<1>6. QED BY <1>4, <1>5 DEF Done

LEMMA CorePlan ==
    ASSUME NEW f \in Exchange, Plane(f) = "core", Operation(f) # "ReadCapabilities"
    PROVE  Serves(f, CoreCalls(f))
<1>1. f.id \in Nodes /\ f.keys \subseteq Nodes /\ ~RunsTable(f)
  BY ExchangeParts DEF RunsTable
<1>2. Operation(f) \in {"QueryPresence", "ReadRoot", "PublishRoot", "LoadNode", "UploadNode"}
  BY DEF Operation
<1>3. /\ Call("presence", f.keys) \in Calls /\ Call("list", {}) \in Calls
      /\ Call("closure", {f.id} \cup f.keys) \in Calls /\ Call("publish", {f.id}) \in Calls
      /\ Call("load", {f.id}) \in Calls
  BY <1>1, CallTyped
<1>4. CASE Operation(f) = "QueryPresence"
  <2> DEFINE c == Call("presence", f.keys)
  <2>1. CoreCalls(f) = <<c>> /\ c.do = "presence"
    BY <1>4 DEF CoreCalls, Call
  <2>2. Shape(<<c>>) /\ Len(<<c>>) = 1 /\ <<c>>[1] = c
    BY <1>3, <2>1, ShapeOne
  <2>3. Promise(f)
    BY <1>1, <1>4 DEF Promise
  <2> HIDE DEF c
  <2>4. QED BY <2>1, <2>2, <2>3 DEF Serves, Suits
<1>5. CASE Operation(f) = "ReadRoot"
  <2> DEFINE c == Call("list", {})
  <2>1. CoreCalls(f) = <<c>> /\ c.do = "list"
    BY <1>5 DEF CoreCalls, Call
  <2>2. Shape(<<c>>) /\ Len(<<c>>) = 1 /\ <<c>>[1] = c
    BY <1>3, <2>1, ShapeOne
  <2>3. Promise(f)
    BY <1>1, <1>5 DEF Promise
  <2> HIDE DEF c
  <2>4. QED BY <2>1, <2>2, <2>3 DEF Serves, Suits
<1>6. CASE Operation(f) = "LoadNode"
  <2> DEFINE c == Call("load", {f.id})
  <2>1. CoreCalls(f) = <<c>> /\ c.do = "load" /\ c.on = {f.id}
    BY <1>6 DEF CoreCalls, Call
  <2>2. Shape(<<c>>) /\ Len(<<c>>) = 1 /\ <<c>>[1] = c
    BY <1>3, <2>1, ShapeOne
  <2>3. Done(c) => Promise(f)
    BY <1>1, <1>6, <2>1 DEF Promise, Done
  <2> HIDE DEF c
  <2>4. QED BY <2>1, <2>2, <2>3 DEF Serves, Suits
<1>7. CASE Operation(f) = "PublishRoot"
  <2> DEFINE c == Call("closure", {f.id} \cup f.keys)
             d == Call("publish", {f.id})
             plan == <<c, d>>
  <2>1. /\ CoreCalls(f) = plan /\ c.do = "closure" /\ c.on = {f.id} \cup f.keys
        /\ d.do = "publish" /\ d.on = {f.id}
    BY <1>7 DEF CoreCalls, Call
  <2>2. Shape(plan) /\ Len(plan) = 2 /\ plan[1] = c /\ plan[2] = d
    BY <1>3, <2>1, ShapePublish
  <2>3. Done(c) /\ Done(d) => Promise(f)
    BY <1>1, <1>7, <2>1 DEF Promise, Done
  <2> HIDE DEF plan, c, d
  <2>4. \A k \in 1..2 : k = 1 \/ k = 2
    OBVIOUS
  <2>5. Suits(f, c, FALSE) /\ Suits(f, d, TRUE)
    BY <1>7, <2>1 DEF Suits
  <2>6. \A k \in 1..2 : Suits(f, plan[k], k = 2)
    BY <2>1, <2>2, <2>4, <2>5, <1>7 DEF Suits
  <2>7. QED BY <2>1, <2>2, <2>3, <2>6 DEF Serves
<1>8. CASE Operation(f) = "UploadNode"
  <2> DEFINE plan == PutCalls(f.id)
  <2>1. CoreCalls(f) = plan
    BY <1>8 DEF CoreCalls
  <2>2. /\ Shape(plan) /\ Len(plan) = 2
        /\ plan[1] = Call("judge", {f.id}) /\ plan[2] = Call("write", {f.id})
    BY <1>1, ShapePut
  <2>3. plan[1].do = "judge" /\ plan[1].on = {f.id} /\ plan[2].do = "write" /\ plan[2].on = {f.id}
    BY <2>2, CallFields
  <2> HIDE DEF plan
  <2>4. Done(plan[2]) => Promise(f)
    BY <1>1, <1>8, <2>3 DEF Promise, Done
  <2>5. \A k \in 1..2 : k = 1 \/ k = 2
    OBVIOUS
  <2>6. \A k \in 1..2 : Suits(f, plan[k], k = 2)
    BY <1>8, <2>3, <2>5 DEF Suits
  <2>7. QED BY <2>1, <2>2, <2>4, <2>6 DEF Serves
<1>9. QED BY <1>2, <1>4, <1>5, <1>6, <1>7, <1>8

(* The lines of a run, given to a tool or read from a table.               *)
LEMMA RunPlan ==
    ASSUME NEW f, NEW lines \in Seq(Lines), Plane(f) \in {"shell", "tool"},
           Plane(f) = "tool" => f.tool = "cas_run_ref" \/ (lines = f.lines /\ f.tool # "tools/list"),
           On(lines) \subseteq held => Promise(f)
    PROVE  Serves(f, RunAll(lines))
<1> DEFINE plan == RunAll(lines)
<1>1. Shape(plan)
  BY ShapeRunAll
<1>2. (\A k \in 1..Len(plan) : Done(plan[k])) => Promise(f)
  BY RunAllDone
<1>3. ASSUME NEW j \in 1..Len(plan) PROVE Suits(f, plan[j], j = Len(plan))
  <2>1. PICK k \in 1..Len(lines) : plan[j] = LineCalls(lines[k])[1] \/ plan[j] = LineCalls(lines[k])[2]
    BY RunAllParts
  <2>2. lines[k] \in Lines /\ k \in DOMAIN lines
    OBVIOUS
  <2>3. PICK c : c = plan[j]
    OBVIOUS
  <2>4. /\ c.do \in {"judge", "write", "resolve", "load"}
        /\ c.do = "write" => c.on = {lines[k].node} /\ k \in PutLines(lines)
    BY <2>1, <2>2, <2>3, LineFields DEF PutLines
  <2> HIDE DEF plan
  <2>5. Suits(f, c, j = Len(plan))
    BY <2>4 DEF Suits
  <2>6. QED BY <2>3, <2>5
<1> HIDE DEF plan
<1>4. Serves(f, plan)
  BY <1>1, <1>2, <1>3 DEF Serves
<1>5. QED BY <1>4 DEF plan

LEMMA LoadPublishPlan ==
    ASSUME NEW f, f.id \in Nodes, Plane(f) \in {"shell", "tool"}, f.id \in roots => Promise(f)
    PROVE  Serves(f, <<Call("load", {f.id}), Call("publish", {f.id})>>)
<1> DEFINE c == Call("load", {f.id})
           d == Call("publish", {f.id})
           plan == <<c, d>>
<1>1. /\ c \in Calls /\ d \in Calls /\ c.do = "load" /\ c.on = {f.id}
      /\ d.do = "publish" /\ d.on = {f.id}
  BY CallTyped, CallFields
<1>2. Shape(plan) /\ Len(plan) = 2 /\ plan[1] = c /\ plan[2] = d
  BY <1>1, ShapePublish
<1>3. Done(d) => Promise(f)
  BY <1>1 DEF Done
<1>4. Suits(f, c, FALSE) /\ Suits(f, d, TRUE)
  BY <1>1 DEF Suits
<1>5. \A k \in 1..2 : k = 1 \/ k = 2
  OBVIOUS
<1> HIDE DEF plan, c, d
<1>6. \A k \in 1..2 : Suits(f, plan[k], k = 2)
  BY <1>1, <1>2, <1>5 DEF Suits
<1>7. Serves(f, plan)
  BY <1>2, <1>3, <1>6 DEF Serves
<1>8. QED BY <1>7 DEF plan, c, d

LEMMA OnePlan ==
    ASSUME NEW f, NEW c \in Calls, c.do \in {"list", "load", "table"},
           Plane(f) \in {"shell", "tool"}, c.do = "table" => c.on = {f.id} /\ RunsTable(f),
           c.do # "table" => Promise(f)
    PROVE  Serves(f, <<c>>)
<1>1. Shape(<<c>>) /\ Len(<<c>>) = 1 /\ <<c>>[1] = c
  BY ShapeOne
<1>2. Done(c) => Promise(f)
  BY DEF Done
<1>3. QED BY <1>1, <1>2 DEF Serves, Suits

LEMMA ShapeTwo ==
    ASSUME NEW c \in Calls, NEW d \in Calls,
           c.do \notin {"judge", "write", "publish"}, d.do \notin {"judge", "write", "publish"}
    PROVE  Shape(<<c, d>>) /\ Len(<<c, d>>) = 2 /\ <<c, d>>[1] = c /\ <<c, d>>[2] = d
<1> DEFINE plan == <<c, d>>
<1>1. plan \in Seq(Calls) /\ Len(plan) = 2 /\ plan[1] = c /\ plan[2] = d
  OBVIOUS
<1> HIDE DEF plan
<1>2. Shape(plan)
  <2>1. \A k \in 1..2 : k = 1 \/ k = 2
    OBVIOUS
  <2>2. QED BY <1>1, <2>1 DEF Shape
<1>3. QED BY <1>1, <1>2 DEF plan

LEMMA ToolPlan ==
    ASSUME NEW f \in Exchange, Plane(f) = "tool"
    PROVE  Serves(f, ToolCalls(f))
<1>1. f.id \in Nodes /\ f.lines \in Seq(Lines) /\ f.tool \in Tools /\ ~IsVerb(f)
  BY ExchangeParts
<1>2. RunsTable(f) <=> f.tool = "cas_run_ref"
  BY <1>1 DEF RunsTable
<1>3. CASE f.tool \in {"cas_put", "cas_run"}
  <2>1. On(f.lines) \subseteq held => Promise(f)
    BY <1>2, <1>3 DEF Promise
  <2>2. Serves(f, RunAll(f.lines))
    BY <1>1, <1>3, <2>1, RunPlan
  <2>3. QED BY <1>3, <2>2 DEF ToolCalls
<1>4. CASE f.tool = "cas_publish_root"
  <2>1. f.id \in roots => Promise(f)
    BY <1>2, <1>4 DEF Promise
  <2>2. QED BY <1>1, <1>4, <2>1, LoadPublishPlan DEF ToolCalls
<1>5. CASE f.tool = "cas_run_ref"
  <2>1. Call("table", {f.id}) \in Calls
    BY <1>1, CallTyped
  <2>2. Serves(f, <<Call("table", {f.id})>>)
    BY <1>2, <1>5, <2>1, CallFields, OnePlan
  <2>3. QED BY <1>5, <2>2 DEF ToolCalls
<1>6. CASE f.tool \in {"cas_load", "cas_list_roots", "tools/list"}
  <2>1. Promise(f)
    BY <1>2, <1>6 DEF Promise
  <2>2. Call("load", {f.id}) \in Calls /\ Call("list", {}) \in Calls
    BY <1>1, CallTyped
  <2>3. Serves(f, <<Call("load", {f.id})>>) /\ Serves(f, <<Call("list", {})>>)
    BY <2>1, <2>2, CallFields, OnePlan
  <2>4. QED BY <1>6, <2>3 DEF ToolCalls
<1>7. QED BY <1>1, <1>3, <1>4, <1>5, <1>6 DEF Tools

LEMMA ShellPlan ==
    ASSUME NEW f \in VerbAsk
    PROVE  Serves(f, VerbCalls(f))
<1>1. IsVerb(f) /\ f.verb \in Verbs /\ f.id \in Nodes /\ f.note \in Nodes
  BY VerbParts
<1>2. Plane(f) = "shell" /\ (RunsTable(f) <=> f.verb = "run")
  BY <1>1 DEF Plane, RunsTable
<1>3. CASE f.verb = "put"
  <2> DEFINE plan == PutCalls(f.id)
  <2>1. VerbCalls(f) = plan
    BY <1>3 DEF VerbCalls, PutFile
  <2>2. /\ Shape(plan) /\ Len(plan) = 2
        /\ plan[1] = Call("judge", {f.id}) /\ plan[2] = Call("write", {f.id})
    BY <1>1, ShapePut
  <2>3. plan[1].do = "judge" /\ plan[2].do = "write" /\ plan[2].on = {f.id}
    BY <2>2, CallFields
  <2> HIDE DEF plan
  <2>4. Done(plan[2]) => Promise(f)
    BY <1>2, <1>3, <2>3 DEF Promise, Done
  <2>5. \A k \in 1..2 : k = 1 \/ k = 2
    OBVIOUS
  <2>6. \A k \in 1..2 : Suits(f, plan[k], k = 2)
    BY <1>2, <2>3, <2>5 DEF Suits
  <2>7. QED BY <2>1, <2>2, <2>4, <2>6 DEF Serves
<1>4. CASE f.verb = "run"
  <2>1. Call("table", {f.id}) \in Calls
    BY <1>1, CallTyped
  <2>2. Serves(f, <<Call("table", {f.id})>>)
    BY <1>2, <1>4, <2>1, CallFields, OnePlan
  <2>3. QED BY <1>4, <2>2 DEF VerbCalls, RunStored
<1>5. CASE f.verb = "publish"
  <2>1. f.id \in roots => Promise(f)
    BY <1>2, <1>5 DEF Promise
  <2>2. QED BY <1>1, <1>2, <1>5, <2>1, LoadPublishPlan DEF VerbCalls, PublishRoot
<1>6. CASE f.verb = "name"
  <2> DEFINE plan == NameNode(f)
  <2>1. VerbCalls(f) = plan
    BY <1>6 DEF VerbCalls
  <2>2. /\ Shape(plan) /\ Len(plan) = 4
        /\ plan[1] = Call("load", {f.id}) /\ plan[2] = Call("judge", {f.note})
        /\ plan[3] = Call("write", {f.note}) /\ plan[4] = Call("publish", {f.note})
    BY NameParts, ShapeName
  <2>3. /\ plan[1].do = "load" /\ plan[2].do = "judge" /\ plan[3].do = "write"
        /\ plan[4].do = "publish" /\ plan[4].on = {f.note}
    BY <2>2, CallFields
  <2> HIDE DEF plan
  <2>4. Done(plan[4]) => Promise(f)
    BY <1>2, <1>6, <2>3 DEF Promise, Done
  <2>5. \A k \in 1..4 : k = 1 \/ k = 2 \/ k = 3 \/ k = 4
    OBVIOUS
  <2>6. \A k \in 1..4 : Suits(f, plan[k], k = 4)
    BY <1>2, <2>3, <2>5 DEF Suits
  <2>7. QED BY <2>1, <2>2, <2>4, <2>6 DEF Serves
<1>7. CASE f.verb = "show"
  <2> DEFINE c == Call("load", {f.id})
             d == Call("names", {})
             plan == <<c, d>>
  <2>1. VerbCalls(f) = plan
    BY <1>7 DEF VerbCalls, ShowNode
  <2>2. c \in Calls /\ d \in Calls /\ c.do = "load" /\ d.do = "names"
    BY <1>1, CallTyped, CallFields
  <2>3. Shape(plan) /\ Len(plan) = 2 /\ plan[1] = c /\ plan[2] = d
    BY <2>2, ShapeTwo
  <2> HIDE DEF plan, c, d
  <2>4. Promise(f)
    BY <1>2, <1>7 DEF Promise
  <2>5. \A k \in 1..2 : k = 1 \/ k = 2
    OBVIOUS
  <2>6. \A k \in 1..2 : Suits(f, plan[k], k = 2)
    BY <1>2, <1>7, <2>2, <2>3, <2>5 DEF Suits
  <2>7. QED BY <2>1, <2>3, <2>4, <2>6 DEF Serves
<1>8. CASE f.verb = "ls"
  <2>1. Promise(f)
    BY <1>2, <1>8 DEF Promise
  <2>2. Call("list", {}) \in Calls
    BY CallTyped
  <2>3. Serves(f, <<Call("list", {})>>)
    BY <1>2, <2>1, <2>2, CallFields, OnePlan
  <2>4. QED BY <1>8, <2>3 DEF VerbCalls, ListRoots
<1>9. QED BY <1>1, <1>3, <1>4, <1>5, <1>6, <1>7, <1>8 DEF Verbs

(* Every plan of a request keeps the law of puts and publications, and is  *)
(* enough for what the answer says.                                        *)
LEMMA PlanServes ==
    ASSUME NEW e \in Exchanges, NEW f \in Requests[e],
           Plane(f) = "core" => Operation(f) # "ReadCapabilities", NEW plan \in Plans(f)
    PROVE  Serves(f, plan)
<1>1. (IsVerb(f) => f \in VerbAsk) /\ (~IsVerb(f) => f \in Exchange)
  BY RequestParts
<1>2. CASE RunsTable(f) /\ f.id \in DOMAIN Tables /\ plan = RunAll(Tables[f.id])
  <2>1. Tables[f.id] \in Seq(Lines)
    BY <1>2, HostAssumption
  <2>2. /\ Plane(f) = "shell" => f.verb = "run"
        /\ Plane(f) = "tool" => f.tool = "cas_run_ref"
        /\ Plane(f) \in {"shell", "tool"}
    BY <1>2 DEF RunsTable, Plane
  <2>3. On(Tables[f.id]) \subseteq held => Promise(f)
    BY <2>2 DEF Promise
  <2>4. QED BY <1>2, <2>1, <2>2, <2>3, RunPlan
<1>3. CASE Plane(f) = "shell" /\ plan = VerbCalls(f)
  <2>1. f \in VerbAsk
    BY <1>1, <1>3 DEF Plane
  <2>2. QED BY <1>3, <2>1, ShellPlan
<1>4. CASE Plane(f) = "core" /\ plan = CoreCalls(f)
  <2>1. f \in Exchange
    BY <1>1, <1>4 DEF Plane
  <2>2. QED BY <1>4, <2>1, CorePlan
<1>5. CASE Plane(f) = "tool" /\ plan = ToolCalls(f)
  <2>1. f \in Exchange
    BY <1>1, <1>5 DEF Plane
  <2>2. QED BY <1>5, <2>1, ToolPlan
<1>6. CASE Plane(f) = "history" /\ plan = <<Call("since", {})>>
  <2> DEFINE c == Call("since", {})
  <2>1. c \in Calls /\ c.do = "since"
    BY CallTyped, CallFields
  <2>2. Shape(<<c>>) /\ Len(<<c>>) = 1 /\ <<c>>[1] = c
    BY <2>1, ShapeOne
  <2>3. Promise(f)
    BY <1>6 DEF Promise, RunsTable, Plane
  <2> HIDE DEF c
  <2>4. Serves(f, <<c>>)
    BY <1>6, <2>1, <2>2, <2>3 DEF Serves, Suits
  <2>5. QED BY <1>6, <2>4 DEF c
<1>7. Plane(f) \in {"shell", "core", "tool", "history"}
  BY DEF Plane
<1>8. QED BY <1>2, <1>3, <1>4, <1>5, <1>6, <1>7 DEF Plans

----------------------------------------------------------------------------
(* How far a plan has been followed.                                       *)

Grows == held \subseteq held' /\ roots \subseteq roots'

(* What is left to an exchange at work, where it stands in its plan.       *)
LEMMA Standing ==
    ASSUME HostInv, StoreInv, NEW e \in Exchanges, x[e].at = "work"
    PROVE  /\ x[e].ask \in Requests[e] /\ Kept(x[e]) /\ Admissible(x[e].ask)
           /\ \E plan \in Plans(x[e].ask) :
                 /\ Serves(x[e].ask, plan)
                 /\ Follows(x[e].todo, plan)
<1>1. Good(e, x[e]) /\ x[e].at # "idle"
  BY DEF HostInv, FibersOK
<1>2. Kept(x[e])
  BY <1>1 DEF StoreInv
<1>3. x[e].ask \in Requests[e] /\ Admissible(x[e].ask)
  BY <1>1, <1>2 DEF Good, Kept
<1>4. PICK plan \in Plans(x[e].ask) : Follows(x[e].todo, plan)
  BY <1>2 DEF Kept
<1>5. Plane(x[e].ask) = "core" => Operation(x[e].ask) # "ReadCapabilities"
  BY <1>3 DEF Admissible
<1>6. Serves(x[e].ask, plan)
  BY <1>3, <1>5, PlanServes
<1>7. QED BY <1>2, <1>3, <1>4, <1>6

LEMMA DoneGrows ==
    ASSUME NEW c, Done(c), Grows
    PROVE  Done(c)'
BY DEF Done, Grows

(* A call of a plan that is done leaves the rest of it.                    *)
LEMMA FollowsOn ==
    ASSUME NEW plan, Shape(plan), NEW calls \in Seq(Calls), NEW rest \in Seq(Calls),
           Follows(calls, plan), Len(calls) \in Nat \ {0}, Len(rest) = Len(calls) - 1,
           \A i \in 1..Len(rest) : rest[i] = calls[i + 1], Grows, Done(calls[1])'
    PROVE  Follows(rest, plan)'
<1>1. plan \in Seq(Calls) /\ Len(plan) \in Nat /\ Len(rest) \in Nat
  BY LenProperties DEF Shape
<1>2. PICK k \in 0..Len(plan) :
         /\ Len(calls) = Len(plan) - k
         /\ \A i \in 1..Len(calls) : calls[i] = plan[k + i]
         /\ \A j \in 1..k : Done(plan[j])
  BY DEF Follows
<1>3. PICK m \in 1..Len(plan) : m = k + 1
  BY <1>1, <1>2
<1>4. Len(rest) = Len(plan) - m
  BY <1>1, <1>2, <1>3
<1>5. ASSUME NEW i \in 1..Len(rest) PROVE rest[i] = plan[m + i]
  <2>1. i + 1 \in 1..Len(calls) /\ rest[i] = calls[i + 1]
    BY <1>1
  <2>2. calls[i + 1] = plan[k + (i + 1)]
    BY <1>2, <2>1
  <2>3. k + (i + 1) = m + i
    BY <1>3
  <2>4. QED BY <2>1, <2>2, <2>3
<1>6. ASSUME NEW j \in 1..m PROVE Done(plan[j])'
  <2>1. CASE j \in 1..k
    BY <1>2, <2>1, DoneGrows
  <2>2. CASE j = m
    <3>1. 1 \in 1..Len(calls) /\ calls[1] = plan[k + 1]
      BY <1>2
    <3>2. calls[1] = plan[j]
      BY <1>3, <2>2, <3>1
    <3>3. Done(plan[j])'
      BY <3>2
    <3>4. QED BY <3>3
  <2>3. QED BY <1>3, <2>1, <2>2
<1>7. m \in 0..Len(plan)
  BY <1>3
<1>8. QED BY <1>4, <1>5, <1>6, <1>7 DEF Follows

LEMMA FollowsGrows ==
    ASSUME NEW calls, NEW plan, Follows(calls, plan), Grows
    PROVE  Follows(calls, plan)'
<1>1. PICK k \in 0..Len(plan) :
         /\ Len(calls) = Len(plan) - k
         /\ \A i \in 1..Len(calls) : calls[i] = plan[k + i]
         /\ \A j \in 1..k : Done(plan[j])
  BY DEF Follows
<1>2. \A j \in 1..k : Done(plan[j])'
  BY <1>1, DoneGrows
<1>3. QED BY <1>1, <1>2 DEF Follows

(* The host stands, or the request is a verb and the host is none of its.  *)
Unmoved(f) == (host'.kind = host.kind /\ host'.limits = host.limits) \/ IsVerb(f)

LEMMA PlansStand ==
    ASSUME NEW f, Unmoved(f)
    PROVE  Plane(f)' = Plane(f) /\ Plans(f)' = Plans(f) /\ (RunsTable(f)' <=> RunsTable(f))
<1>1. Plane(f)' = Plane(f)
  BY DEF Unmoved, Plane
<1>2. RunsTable(f)' <=> RunsTable(f)
  BY <1>1 DEF RunsTable
<1>3. QED BY <1>1, <1>2 DEF Plans

LEMMA KeptGrows ==
    ASSUME NEW r, Kept(r), Grows, Unmoved(r.ask)
    PROVE  Kept(r)'
<1> DEFINE f == r.ask
<1>1. Plane(f)' = Plane(f) /\ Plans(f)' = Plans(f)
  BY PlansStand
<1>2. r.saw \subseteq held' /\ r.found \subseteq roots'
  BY DEF Kept, Grows
<1>3. r.at \in {"waiting", "body", "work"} /\ host'.kind = "daemon" /\ ~IsVerb(f) => Door(f) = "Pass"
  BY DEF Kept, Unmoved
<1>4. r.at = "body" => Plane(f)' = "core"
  BY <1>1 DEF Kept
<1>5. r.at = "work" => /\ \E plan \in Plans(f)' : Follows(r.todo, plan)'
                       /\ Admissible(f)'
                       /\ r.todo = <<>> => Plane(f)' = "tool"
  <2> SUFFICES ASSUME r.at = "work"
               PROVE  /\ \E plan \in Plans(f)' : Follows(r.todo, plan)'
                      /\ Admissible(f)'
                      /\ r.todo = <<>> => Plane(f)' = "tool"
    OBVIOUS
  <2>1. PICK plan \in Plans(f) : Follows(r.todo, plan)
    BY DEF Kept
  <2>2. Follows(r.todo, plan)'
    BY <2>1, FollowsGrows
  <2>3. Admissible(f)'
    <3>1. CASE IsVerb(f)
      BY <1>1, <3>1 DEF Admissible, Plane
    <3>2. CASE host'.limits = host.limits
      BY <1>1, <3>2 DEF Kept, Admissible
    <3>3. QED BY <3>1, <3>2 DEF Unmoved
  <2>4. QED BY <1>1, <2>1, <2>2, <2>3 DEF Kept
<1>6. r.at = "over" => AnswerHolds(f, r.answer, r.saw, r.found)'
  <2> SUFFICES ASSUME r.at = "over" PROVE AnswerHolds(f, r.answer, r.saw, r.found)'
    OBVIOUS
  <2>1. AnswerHolds(f, r.answer, r.saw, r.found)
    BY DEF Kept
  <2>2. r.answer = "TooLargeForTransport" => host'.limits = host.limits
    BY DEF Kept, Unmoved
  <2>3. QED BY <2>1, <2>2 DEF AnswerHolds, Grows
<1>7. r.at = "over" /\ IsVerb(f) => r.answer \in {"ok", "refused", "gone"}
  BY DEF Kept
<1>8. r.did # {} =>
         /\ r.at \in {"work", "over"} /\ LetIn(f)' /\ Capped(f, r.did)'
         /\ r.at = "work" => Plane(f)' \in {"shell", "tool"}
         /\ r.at = "over" => r.answer \in {"ok", "refused", "gone", "Admitted", "Published"}
  <2> SUFFICES ASSUME r.did # {}
               PROVE  /\ r.at \in {"work", "over"} /\ LetIn(f)' /\ Capped(f, r.did)'
                      /\ r.at = "work" => Plane(f)' \in {"shell", "tool"}
                      /\ r.at = "over" => r.answer \in {"ok", "refused", "gone", "Admitted", "Published"}
    OBVIOUS
  <2>1. LetIn(f)'
    BY DEF Kept, LetIn, Unmoved
  <2>2. Capped(f, r.did)'
    BY DEF Kept, Capped, Unmoved
  <2>3. QED BY <1>1, <2>1, <2>2 DEF Kept
<1> HIDE DEF f
<1>9. QED BY <1>2, <1>3, <1>4, <1>5, <1>6, <1>7, <1>8 DEF Kept, f

(* Every other exchange stays as it is, over a store that grew.            *)
LEMMA OthersKept ==
    ASSUME HostInv, StoreInv, NEW e \in Exchanges, NEW r, x' = [x EXCEPT ![e] = r], Kept(r)',
           UNCHANGED host, Grows, StoreOK'
    PROVE  StoreInv'
<1>1. ASSUME NEW o \in Exchanges, o # e PROVE (x[o].at = "idle" \/ Kept(x[o]))'
  <2>1. PICK q : q = x[o]
    OBVIOUS
  <2>2. x'[o] = q
    BY <1>1, <2>1 DEF HostInv, FibersOK
  <2>3. q.at = "idle" \/ Kept(q)
    BY <2>1 DEF StoreInv
  <2>4. q.at = "idle" \/ Kept(q)'
    BY <2>3, KeptGrows DEF Unmoved
  <2>5. Kept(q)' => Kept(x[o])'
    BY <2>2 DEF Kept
  <2>6. QED BY <2>2, <2>4, <2>5
<1>2. Kept(x[e])'
  <2>1. x'[e] = r
    BY DEF HostInv, FibersOK
  <2>2. QED BY <2>1 DEF Kept
<1>3. QED BY <1>1, <1>2 DEF StoreInv

----------------------------------------------------------------------------
(* What an exchange at work may answer.                                    *)

LEMMA Planes ==
    ASSUME NEW e \in Exchanges, NEW f \in Requests[e], Admissible(f)
    PROVE  /\ Plane(f) \in {"shell", "core", "tool", "history"}
           /\ IsVerb(f) <=> Plane(f) = "shell"
           /\ Plane(f) = "core" => Route(f) = "cas" /\ \A a : Refusal(f, a) = a
           /\ Plane(f) = "tool" => Route(f) = "mcp" /\ host.kind # "embedded" /\ f.path = "mcp"
           /\ Plane(f) = "history" =>
                 Route(f) = "history" /\ Success(f) = "Served" /\ \A a : Refusal(f, a) = "LogRefused"
           /\ Plane(f) \in {"shell", "tool"} =>
                 Success(f) = "ok" /\ \A a : Refusal(f, a) = "refused"
<1>1. Plane(f) \in {"shell", "core", "tool", "history"} /\ (IsVerb(f) <=> Plane(f) = "shell")
  BY DEF Plane
<1>2. ASSUME Plane(f) = "core" PROVE Route(f) = "cas" /\ ~IsVerb(f)
  <2>1. f.path \in Resources /\ ~IsVerb(f)
    BY <1>1, <1>2 DEF Admissible
  <2>2. QED BY <2>1 DEF Route, Resources, StaticPaths
<1>3. ASSUME Plane(f) = "tool"
      PROVE  ~IsVerb(f) /\ Route(f) = "mcp" /\ host.kind # "embedded" /\ f.path = "mcp"
  BY <1>3 DEF Plane, Route
<1>4. ASSUME Plane(f) = "history" PROVE ~IsVerb(f) /\ Route(f) = "history"
  BY <1>1, <1>4 DEF Admissible
<1>5. QED BY <1>1, <1>2, <1>3, <1>4 DEF Success, Refusal

(* An answer that says nothing of the store.                               *)
Telling == {"Admitted", "AlreadyAdmitted", "NodeBytes", "NodeAbsent", "RootPublished", "RootAbsent",
            "Published", "ClosureUnverified", "ok", "Served", "TooLargeForTransport"}

LEMMA SaysNothing ==
    ASSUME NEW f, NEW answer, answer \notin Telling, NEW saw, NEW found
    PROVE  AnswerHolds(f, answer, saw, found) /\ AnswerHolds(f, answer, saw, found)'
BY DEF AnswerHolds, Telling

LEMMA SuccessHolds ==
    ASSUME NEW e \in Exchanges, NEW f \in Requests[e], Admissible(f), Promise(f)',
           UNCHANGED host, Plane(f) = "core" /\ Operation(f) = "ReadRoot" => UNCHANGED roots,
           NEW saw, NEW found, found \subseteq roots,
           NEW answer, answer = Success(f) \/ (Success(f) = "Admitted" /\ answer = "AlreadyAdmitted")
    PROVE  AnswerHolds(f, answer, saw, found)' /\ (IsVerb(f) => answer = "ok")
<1>1. /\ Plane(f) \in {"shell", "core", "tool", "history"}
      /\ IsVerb(f) <=> Plane(f) = "shell"
      /\ Plane(f) = "core" => Route(f) = "cas"
      /\ Plane(f) = "history" => Route(f) = "history" /\ Success(f) = "Served"
      /\ Plane(f) \in {"shell", "tool"} => Success(f) = "ok"
      /\ Plane(f) = "tool" => Route(f) = "mcp"
  BY Planes
<1>2. Plane(f)' = Plane(f) /\ (RunsTable(f)' <=> RunsTable(f))
  BY PlansStand DEF Unmoved
<1>3. CASE Plane(f) \in {"shell", "tool"}
  <2>1. answer = "ok"
    BY <1>1, <1>3
  <2>2. /\ RunsTable(f) => On(Tables[f.id]) \subseteq held'
        /\ Plane(f) = "shell" => /\ f.verb = "put" => f.id \in held'
                                 /\ f.verb = "publish" => f.id \in roots'
                                 /\ f.verb = "name" => f.note \in roots'
        /\ Plane(f) = "tool" => /\ f.tool \in {"cas_put", "cas_run"} => On(f.lines) \subseteq held'
                                /\ f.tool = "cas_publish_root" => f.id \in roots'
    BY <1>2 DEF Promise
  <2>3. RunsTable(f) <=> IF IsVerb(f) THEN f.verb = "run" ELSE f.tool = "cas_run_ref"
    BY <1>1, <1>3 DEF RunsTable
  <2>4. QED BY <1>1, <1>3, <2>1, <2>2, <2>3 DEF AnswerHolds
<1>4. CASE Plane(f) = "history"
  <2>1. answer = "Served" /\ ~IsVerb(f)
    BY <1>1, <1>4
  <2>2. HistoryAnswers(f) = "none"
    BY <1>4 DEF Admissible
  <2>3. ~\E k \in DOMAIN f.query : \/ f.query[k].key = "other"
                                   \/ \E j \in 1..(k - 1) : f.query[j].key = f.query[k].key
                                   \/ f.query[k].raw # "numeral"
    BY <2>2 DEF HistoryAnswers, HistoryQuery
  <2>4. f \in Exchange
    BY <2>1, RequestParts
  <2>5. f.query \in Seq([key : {"since", "limit", "other"}, raw : {"numeral", "alias"}])
    BY <2>4 DEF Exchange
  <2>6. DOMAIN f.query = 1..Len(f.query) /\ Len(f.query) \in Nat
    BY <2>5
  <2>7. ASSUME NEW i \in DOMAIN f.query, NEW j \in DOMAIN f.query, f.query[i].key = f.query[j].key
        PROVE  i = j
    <3>1. ~(i < j) /\ ~(j < i)
      <4>1. i < j => i \in 1..(j - 1)
        BY <2>6
      <4>2. j < i => j \in 1..(i - 1)
        BY <2>6
      <4>3. QED BY <2>3, <2>7, <4>1, <4>2
    <3>2. QED BY <2>6, <3>1
  <2>8. QED BY <2>1, <2>3, <2>7 DEF AnswerHolds
<1>5. CASE Plane(f) = "core"
  <2>1. ~IsVerb(f) /\ Route(f) = "cas"
    BY <1>1, <1>5
  <2>2. /\ Operation(f) = "UploadNode" => f.bytes = f.id
        /\ Operation(f) # "ReadCapabilities"
    BY <1>5 DEF Admissible
  <2>3. /\ Operation(f) = "UploadNode" => f.id \in held'
        /\ Operation(f) = "LoadNode" => f.id \in held'
        /\ Operation(f) = "PublishRoot" => f.id \in roots' /\ {f.id} \cup f.keys \subseteq held'
    BY <1>2, <1>5 DEF Promise
  <2>4. Operation(f) \in {"QueryPresence", "ReadRoot", "PublishRoot", "LoadNode", "UploadNode"}
    BY <2>2 DEF Operation
  <2>5. CASE Operation(f) = "UploadNode"
    <3>1. answer \in {"Admitted", "AlreadyAdmitted"}
      BY <2>1, <2>5 DEF Success
    <3>2. QED BY <2>1, <2>2, <2>3, <2>5, <3>1 DEF AnswerHolds
  <2>6. CASE Operation(f) = "PublishRoot"
    <3>1. answer = "Published"
      BY <2>1, <2>6 DEF Success
    <3>2. QED BY <2>1, <2>3, <2>6, <3>1 DEF AnswerHolds
  <2>7. CASE Operation(f) = "LoadNode"
    <3>1. answer = "NodeBytes"
      BY <2>1, <2>7 DEF Success
    <3>2. QED BY <2>1, <2>3, <2>7, <3>1 DEF AnswerHolds
  <2>8. CASE Operation(f) = "ReadRoot"
    <3>1. answer = IF f.id \in roots THEN "RootPublished" ELSE "RootAbsent"
      BY <2>1, <2>8 DEF Success
    <3>2. roots' = roots
      BY <1>5, <2>8
    <3>3. answer = "RootPublished" => f.id \in roots'
      BY <3>1, <3>2
    <3>4. answer = "RootAbsent" => f.id \notin found
      BY <3>1
    <3>5. answer \in {"RootPublished", "RootAbsent"}
      BY <3>1
    <3>6. QED BY <2>1, <3>3, <3>4, <3>5 DEF AnswerHolds
  <2>9. CASE Operation(f) = "QueryPresence"
    <3>1. answer = "Presence"
      BY <2>1, <2>9 DEF Success
    <3>2. QED BY <2>1, <3>1, SaysNothing DEF Telling
  <2>10. QED BY <2>4, <2>5, <2>6, <2>7, <2>8, <2>9
<1>6. QED BY <1>1, <1>3, <1>4, <1>5

(* An exchange that ends keeps what it has done and seen.                  *)
LEMMA EndKept ==
    ASSUME HostInv, StoreInv, NEW e \in Exchanges, x[e].at \in {"waiting", "body", "work"},
           NEW answer, End(e, answer), UNCHANGED <<host, held, roots>>,
           AnswerHolds(x[e].ask, answer, x[e].saw, x[e].found),
           IsVerb(x[e].ask) => answer \in {"ok", "refused", "gone"},
           x[e].did # {} => answer \in {"ok", "refused", "gone"}
    PROVE  StoreInv'
<1>0. PICK r : r = [x[e] EXCEPT !.at = "over", !.answer = answer, !.todo = <<>>]
  OBVIOUS
<1>1. x' = [x EXCEPT ![e] = r] /\ Grows /\ UNCHANGED host /\ UNCHANGED <<held, roots>>
  BY <1>0 DEF End, Grows
<1>2. x[e] \in FiberType /\ Kept(x[e])
  BY DEF HostInv, FibersOK, StoreInv
<1>3. /\ r.at = "over" /\ r.answer = answer /\ r.ask = x[e].ask /\ r.did = x[e].did
      /\ r.saw = x[e].saw /\ r.found = x[e].found
  BY <1>0, <1>2 DEF FiberType
<1>4. Kept(r)
  <2>1. r.saw \subseteq held /\ r.found \subseteq roots
    BY <1>2, <1>3 DEF Kept
  <2>2. r.did # {} => LetIn(r.ask) /\ Capped(r.ask, r.did)
    BY <1>2, <1>3 DEF Kept
  <2>3. AnswerHolds(r.ask, r.answer, r.saw, r.found)
    BY <1>3
  <2>4. QED BY <1>3, <2>1, <2>2, <2>3 DEF Kept
<1>5. Kept(r)'
  BY <1>1, <1>4, KeptGrows DEF Unmoved
<1>6. StoreOK'
  BY <1>1 DEF StoreInv, StoreOK
<1>7. QED BY <1>1, <1>5, <1>6, OthersKept

(* What PlanServes says of this state holds of the next one as well.       *)
AllServe ==
    \A e \in Exchanges : \A f \in Requests[e] :
        (Plane(f) = "core" => Operation(f) # "ReadCapabilities") => \A plan \in Plans(f) : Serves(f, plan)

LEMMA AllServeNext == AllServe'
<1>1. AllServe
  BY PlanServes DEF AllServe
<1>2. QED BY <1>1, PTL

(* The call an exchange makes, and its place in the plan.                  *)
LEMMA AtCall ==
    ASSUME HostInv, StoreInv, NEW e \in Exchanges, Callable(e)
    PROVE  /\ x[e].ask \in Requests[e] /\ Kept(x[e]) /\ Admissible(x[e].ask)
           /\ \E plan \in Plans(x[e].ask), k \in Nat \ {0} :
                 /\ Serves(x[e].ask, plan) /\ Follows(x[e].todo, plan)
                 /\ k <= Len(plan) /\ Due(e) = plan[k] /\ Len(Rest(e)) = Len(plan) - k
                 /\ Suits(x[e].ask, Due(e), k = Len(plan))
                 /\ \A i \in 1..Len(Rest(e)) : Rest(e)[i] = plan[k + i]
                 /\ \A j \in 1..(k - 1) : Done(plan[j])
<1>1. /\ x[e].at = "work" /\ x[e].todo \in Seq(Calls) /\ Len(x[e].todo) \in Nat \ {0}
      /\ Due(e) = x[e].todo[1] /\ Len(Rest(e)) = Len(x[e].todo) - 1
      /\ \A i \in 1..Len(Rest(e)) : Rest(e)[i] = x[e].todo[i + 1]
  BY CallParts DEF HostInv
<1>2. x[e].ask \in Requests[e] /\ Kept(x[e]) /\ Admissible(x[e].ask)
  BY <1>1, Standing
<1>3. PICK plan \in Plans(x[e].ask) : Serves(x[e].ask, plan) /\ Follows(x[e].todo, plan)
  BY <1>1, Standing
<1>4. Len(plan) \in Nat
  BY <1>3, LenProperties DEF Serves, Shape
<1>5. PICK m \in 0..Len(plan) :
         /\ Len(x[e].todo) = Len(plan) - m
         /\ \A i \in 1..Len(x[e].todo) : x[e].todo[i] = plan[m + i]
         /\ \A j \in 1..m : Done(plan[j])
  BY <1>3 DEF Follows
<1>6. PICK k \in Nat \ {0} : k = m + 1
  BY <1>5
<1>7. k <= Len(plan) /\ Len(Rest(e)) = Len(plan) - k
  BY <1>1, <1>4, <1>5, <1>6
<1>8. Due(e) = plan[k]
  <2>1. 1 \in 1..Len(x[e].todo)
    BY <1>1
  <2>2. QED BY <1>1, <1>5, <1>6, <2>1
<1>9. ASSUME NEW i \in 1..Len(Rest(e)) PROVE Rest(e)[i] = plan[k + i]
  <2>1. i + 1 \in 1..Len(x[e].todo) /\ m + (i + 1) = k + i
    BY <1>1, <1>6
  <2>2. QED BY <1>1, <1>5, <2>1
<1>10. \A j \in 1..(k - 1) : Done(plan[j])
  BY <1>5, <1>6
<1>11. Suits(x[e].ask, Due(e), k = Len(plan))
  <2>1. k \in 1..Len(plan)
    BY <1>4, <1>7
  <2>2. Suits(x[e].ask, plan[k], k = Len(plan))
    BY <1>3, <2>1 DEF Serves
  <2>3. QED BY <1>8, <2>2
<1>12. QED BY <1>2, <1>3, <1>7, <1>8, <1>9, <1>10, <1>11

(* An exchange that goes on, or has made its last call.                    *)
LEMMA ContinueKept ==
    ASSUME HostInv, StoreInv, NEW e \in Exchanges, Callable(e), NEW q, q = x[e],
           NEW rest \in Seq(Calls), NEW did, NEW answer, Continue(e, rest, did, answer),
           UNCHANGED host, Grows, StoreOK',
           NEW plan \in Plans(q.ask), Follows(rest, plan)',
           rest = <<>> => /\ AnswerHolds(q.ask, answer, q.saw, q.found)'
                          /\ Plane(q.ask) \in {"shell", "tool"} => answer = "ok",
           did # {} => /\ LetIn(q.ask) /\ Capped(q.ask, did)
                       /\ rest # <<>> => Plane(q.ask) \in {"shell", "tool"}
                       /\ rest = <<>> => answer \in {"ok", "Admitted", "Published"}
    PROVE  StoreInv'
<1>1. x[e] \in FiberType /\ Kept(q) /\ Admissible(q.ask) /\ q.ask \in Requests[e]
  BY AtCall DEF HostInv, FibersOK
<1>2. q.at = "work" /\ Admissible(q.ask)' /\ Plane(q.ask)' = Plane(q.ask) /\ Plans(q.ask)' = Plans(q.ask)
  <2>1. Kept(q)'
    BY <1>1, KeptGrows DEF Unmoved
  <2>2. q.at = "work"
    BY DEF Callable
  <2>3. QED BY <2>1, <2>2, PlansStand DEF Kept, Unmoved
<1>3. q.saw \subseteq held' /\ q.found \subseteq roots'
  BY <1>1 DEF Kept, Grows
<1>4. IsVerb(q.ask) <=> Plane(q.ask) = "shell"
  BY <1>1, Planes
<1>5. ASSUME q.did \cup did # {}
      PROVE  /\ LetIn(q.ask)' /\ Capped(q.ask, q.did \cup did)'
             /\ rest # <<>> => Plane(q.ask) \in {"shell", "tool"}
             /\ rest = <<>> => answer \in {"ok", "Admitted", "Published"}
  <2>1. q.did # {} => LetIn(q.ask) /\ Capped(q.ask, q.did) /\ Plane(q.ask) \in {"shell", "tool"}
    BY <1>1, <1>2 DEF Kept
  <2>2. LetIn(q.ask)'
    BY <1>5, <2>1 DEF LetIn
  <2>3. Capped(q.ask, q.did \cup did)'
    BY <1>5, <2>1 DEF Capped
  <2>4. QED BY <1>5, <2>1, <2>2, <2>3
<1>6. CASE rest = <<>>
  <2>1. PICK r : r = [q EXCEPT !.at = "over", !.todo = <<>>, !.did = q.did \cup did, !.answer = answer]
    OBVIOUS
  <2>2. x' = [x EXCEPT ![e] = r]
    BY <1>6, <2>1 DEF Continue
  <2>3. /\ r.at = "over" /\ r.answer = answer /\ r.ask = q.ask /\ r.did = q.did \cup did
        /\ r.saw = q.saw /\ r.found = q.found
    BY <1>1, <2>1 DEF FiberType
  <2>4. Kept(r)'
    BY <1>3, <1>4, <1>5, <1>6, <2>3 DEF Kept
  <2>5. QED BY <2>2, <2>4, OthersKept
<1>7. CASE rest # <<>>
  <2>1. PICK r : r = [q EXCEPT !.todo = rest, !.did = q.did \cup did]
    OBVIOUS
  <2>2. x' = [x EXCEPT ![e] = r]
    BY <1>7, <2>1 DEF Continue
  <2>3. /\ r.at = "work" /\ r.todo = rest /\ r.ask = q.ask /\ r.did = q.did \cup did
        /\ r.saw = q.saw /\ r.found = q.found
    BY <1>1, <1>2, <2>1 DEF FiberType
  <2>4. (host'.kind = "daemon" /\ ~IsVerb(q.ask)) => Door(q.ask) = "Pass"
    BY <1>1, <1>2 DEF Kept
  <2>5. \E p \in Plans(q.ask)' : Follows(rest, p)'
    BY <1>2
  <2>6. Kept(r)'
    BY <1>2, <1>3, <1>5, <1>7, <2>3, <2>4, <2>5 DEF Kept
  <2>7. QED BY <2>2, <2>6, OthersKept
<1>8. QED BY <1>6, <1>7

(* A call that changes the store was let in, and is its plan's last on the *)
(* wire plane.                                                             *)
LEMMA LetInHere ==
    ASSUME HostInv, StoreInv, NEW e \in Exchanges, Callable(e), Due(e).do \in {"write", "publish"}
    PROVE  LET f == x[e].ask
           IN  /\ LetIn(f) /\ Capped(f, {Due(e)})
               /\ Rest(e) # <<>> => Plane(f) \in {"shell", "tool"}
               /\ Success(f) \in {"ok", "Admitted", "Published"}
               /\ Plane(f) = "core" => Operation(f) # "ReadRoot"
<1> DEFINE f == x[e].ask
           c == Due(e)
<1>1. f \in Requests[e] /\ Kept(x[e]) /\ Admissible(f)
  BY AtCall
<1>2. PICK last \in BOOLEAN : Suits(f, c, last) /\ (last <=> Rest(e) = <<>>)
  <2>1. PICK plan \in Plans(f), k \in Nat \ {0} :
           /\ k <= Len(plan) /\ Len(Rest(e)) = Len(plan) - k /\ Suits(f, c, k = Len(plan))
           /\ Serves(f, plan)
    BY AtCall
  <2>2. Len(plan) \in Nat
    BY <2>1, LenProperties DEF Serves, Shape
  <2>3. Rest(e) \in Seq(Calls)
    BY CallParts DEF HostInv
  <2>4. Rest(e) = <<>> <=> k = Len(plan)
    BY <2>1, <2>2, <2>3, EmptySeq
  <2>5. QED BY <2>1, <2>4
<1>3. /\ Plane(f) \in {"shell", "core", "tool", "history"}
      /\ IsVerb(f) <=> Plane(f) = "shell"
      /\ Plane(f) = "core" => Route(f) = "cas"
      /\ Plane(f) = "tool" => Route(f) = "mcp" /\ host.kind # "embedded" /\ f.path = "mcp"
      /\ Plane(f) \in {"shell", "tool"} => Success(f) = "ok"
  BY <1>1, Planes
<1>4. x[e].at = "work" /\ host.kind \in {"daemon", "embedded"}
  BY DEF Callable, HostInv, HostOK
<1>5. host.kind = "daemon" /\ ~IsVerb(f) => Door(f) = "Pass"
  BY <1>1, <1>4 DEF Kept
<1>6. ~IsVerb(f) => f \in Exchange /\ f.origin \in {"absent", "self", "listed", "other"}
                    /\ f.auth \in {"absent", "scheme", "right", "wrong"}
  BY <1>1, RequestParts, ExchangeParts
<1>7. host.kind = "daemon" /\ ~IsVerb(f) => /\ f.host # "foreign"
                                            /\ \/ f.origin \in {"absent", "listed"}
                                               \/ f.origin = "self" /\ f.host = "own"
  BY <1>5, <1>6 DEF Door, SameOrigin
<1>8. CASE Plane(f) = "shell"
  BY <1>3, <1>8 DEF LetIn, Capped
<1>9. CASE Plane(f) = "tool"
  <2>1. LetIn(f)
    BY <1>3, <1>4, <1>7, <1>9 DEF LetIn
  <2>2. Capped(f, {c})
    <3>1. SUFFICES ASSUME f.tool # "cas_run_ref", c.do = "write"
                   PROVE  \A n \in c.on : Size[n] <= host.limits.maxNodeBytes
      BY DEF Capped
    <3>2. PICK k \in PutLines(f.lines) : f.tool # "tools/list" /\ c.on = {f.lines[k].node}
      BY <1>2, <1>9, <3>1 DEF Suits
    <3>3. GateOf(e) = "tool"
      BY <1>3, <1>9, <3>2 DEF GateOf, Gate
    <3>4. ToolAnswers(host.limits, f) = "none"
      BY <3>3 DEF Callable
    <3>5. f.lines \in Seq(Lines)
      BY <1>3, <1>6, <1>9, ExchangeParts
    <3>6. f.lines[k].node \in Nodes
      <4>1. k \in DOMAIN f.lines
        BY <3>2 DEF PutLines
      <4>2. f.lines[k] \in Lines
        BY <3>5, <4>1
      <4>3. QED BY <4>2, LineParts
    <3>7. ~(Size[f.lines[k].node] > host.limits.maxNodeBytes)
      BY <3>2, <3>4 DEF ToolAnswers
    <3>8. Size[f.lines[k].node] \in Nat /\ host.limits.maxNodeBytes \in Nat
      BY <3>6, WireAssumption DEF HostInv, HostOK, Limited
    <3>9. QED BY <3>2, <3>7, <3>8
  <2>3. QED BY <1>3, <1>9, <2>1, <2>2
<1>10. CASE Plane(f) = "core"
  <2>1. /\ last /\ c.do = "write" => Operation(f) = "UploadNode" /\ c.on = {f.id}
        /\ c.do = "publish" => Operation(f) = "PublishRoot"
    BY <1>2, <1>10 DEF Suits
  <2>2. Operation(f) \in {"UploadNode", "PublishRoot"} /\ ~IsVerb(f)
    BY <1>2, <1>3, <1>10 DEF Suits
  <2>3. /\ f.profile /\ f.path \in Resources /\ f.method \in Methods(f)
        /\ f.method # "GET" => f.octet
        /\ Principal(host.limits, f) # "None" /\ Authorized(host.limits, f)
        /\ Operation(f) = "UploadNode" => f.bytes = f.id /\ Size[f.bytes] <= host.limits.maxNodeBytes
    BY <1>1, <1>10 DEF Admissible
  <2>4. f.path \in {"node", "root"} /\ f.method = "PUT"
    BY <2>2, <2>3 DEF Operation, Resources, Methods
  <2>5. IF host.limits.credential THEN f.auth = "right" ELSE f.auth = "absent"
    BY <2>2, <2>3 DEF Principal, Authorized, Reads
  <2>6. LetIn(f)
    BY <1>4, <1>7, <2>2, <2>3, <2>4, <2>5 DEF LetIn
  <2>7. Capped(f, {c})
    BY <1>2, <1>10, <2>3 DEF Capped, Suits
  <2>8. Success(f) \in {"Admitted", "Published"}
    BY <1>3, <1>10, <2>2 DEF Success
  <2>9. Rest(e) = <<>>
    BY <1>2, <1>10 DEF Suits
  <2>10. QED BY <2>2, <2>6, <2>7, <2>8, <2>9
<1>11. CASE Plane(f) = "history"
  BY <1>2, <1>11 DEF Suits
<1>12. QED BY <1>3, <1>8, <1>9, <1>10, <1>11

(* Nothing left: all of it is done, and what was promised holds.           *)
LEMMA Fulfilled ==
    ASSUME NEW e \in Exchanges, NEW f \in Requests[e], Admissible(f), UNCHANGED host,
           NEW plan \in Plans(f), NEW rest \in Seq(Calls), rest = <<>>, Follows(rest, plan)'
    PROVE  Promise(f)'
<1>1. Plans(f)' = Plans(f) /\ Plane(f)' = Plane(f)
  BY PlansStand DEF Unmoved
<1>2. Plane(f) = "core" => Operation(f) # "ReadCapabilities"
  BY DEF Admissible
<1>3. Serves(f, plan)'
  BY <1>1, <1>2, AllServeNext DEF AllServe
<1>4. Len(plan) \in Nat
  BY <1>3, LenProperties DEF Serves, Shape
<1>5. Len(rest) = 0
  OBVIOUS
<1>6. PICK k \in 0..Len(plan) : Len(rest) = Len(plan) - k /\ \A j \in 1..k : Done(plan[j])'
  BY DEF Follows
<1>7. k = Len(plan)
  BY <1>4, <1>5, <1>6
<1>8. QED BY <1>3, <1>6, <1>7 DEF Serves

(* A call that is done leaves the rest, or the answer.                     *)
LEMMA Proceeds ==
    ASSUME HostInv, StoreInv, NEW e \in Exchanges, Callable(e), NEW c, c = Due(e), Done(c)',
           NEW did \in {{}, {c}}, did # {} => c.do \in {"write", "publish"},
           NEW answer, answer = Success(x[e].ask) \/ Rest(e) # <<>>,
           Continue(e, Rest(e), did, answer), UNCHANGED host, Grows, StoreOK',
           c.do # "publish" => UNCHANGED roots
    PROVE  StoreInv'
<1>1. PICK q : q = x[e]
  OBVIOUS
<1>2. PICK rest \in Seq(Calls) : rest = Rest(e)
  BY CallParts DEF HostInv
<1>3. /\ x[e].todo \in Seq(Calls) /\ Len(x[e].todo) \in Nat \ {0} /\ x[e].todo[1] = c
      /\ Len(rest) = Len(x[e].todo) - 1 /\ \A i \in 1..Len(rest) : rest[i] = x[e].todo[i + 1]
  BY <1>2, CallParts DEF HostInv
<1>4. q.ask \in Requests[e] /\ Kept(q) /\ Admissible(q.ask)
  BY <1>1, AtCall
<1>5. PICK plan \in Plans(q.ask) : Serves(q.ask, plan) /\ Follows(x[e].todo, plan)
  BY <1>1, AtCall
<1>6. PICK todo \in Seq(Calls) : todo = x[e].todo
  BY <1>3
<1>7. Follows(rest, plan)'
  <2>1. Shape(plan) /\ Follows(todo, plan) /\ Done(todo[1])'
    BY <1>3, <1>5, <1>6 DEF Serves
  <2>2. /\ Len(todo) \in Nat \ {0} /\ Len(rest) = Len(todo) - 1
        /\ \A i \in 1..Len(rest) : rest[i] = todo[i + 1]
    BY <1>3, <1>6
  <2>3. QED BY <2>1, <2>2, FollowsOn
<1>8. did # {} => /\ LetIn(q.ask) /\ Capped(q.ask, did) /\ did = {Due(e)}
                  /\ rest # <<>> => Plane(q.ask) \in {"shell", "tool"}
                  /\ Success(q.ask) \in {"ok", "Admitted", "Published"}
  BY <1>1, <1>2, LetInHere
<1>9. Plane(q.ask) \in {"shell", "tool"} => Success(q.ask) = "ok"
  BY <1>4, Planes
<1>10. rest = <<>> => AnswerHolds(q.ask, answer, q.saw, q.found)'
  <2> SUFFICES ASSUME rest = <<>> PROVE AnswerHolds(q.ask, answer, q.saw, q.found)'
    OBVIOUS
  <2>1. Promise(q.ask)'
    BY <1>4, <1>5, <1>7, Fulfilled
  <2>2. answer = Success(q.ask)
    BY <1>1, <1>2
  <2>3. Plane(q.ask) = "core" /\ Operation(q.ask) = "ReadRoot" => UNCHANGED roots
    BY <1>1, LetInHere
  <2>4. q.found \subseteq roots
    BY <1>4 DEF Kept
  <2>5. QED BY <1>4, <2>1, <2>2, <2>3, <2>4, SuccessHolds
<1>11. rest = <<>> => answer = Success(q.ask)
  BY <1>1, <1>2
<1>12. QED BY <1>1, <1>2, <1>5, <1>7, <1>8, <1>9, <1>10, <1>11, ContinueKept

(* A call that ends its exchange with a refusal.                           *)
LEMMA Refuses ==
    ASSUME HostInv, StoreInv, NEW e \in Exchanges, Callable(e),
           NEW a, End(e, Refusal(x[e].ask, a)), UNCHANGED <<host, held, roots>>,
           Plane(x[e].ask) = "core" => AnswerHolds(x[e].ask, a, x[e].saw, x[e].found)
    PROVE  StoreInv'
<1> DEFINE f == x[e].ask
<1>1. x[e].at = "work" /\ f \in Requests[e] /\ Kept(x[e]) /\ Admissible(f)
  BY AtCall DEF Callable
<1>2. /\ Plane(f) \in {"shell", "core", "tool", "history"} /\ (IsVerb(f) <=> Plane(f) = "shell")
      /\ Plane(f) = "core" => Refusal(f, a) = a
      /\ Plane(f) = "history" => Refusal(f, a) = "LogRefused"
      /\ Plane(f) \in {"shell", "tool"} => Refusal(f, a) = "refused"
  BY <1>1, Planes
<1>3. AnswerHolds(f, Refusal(f, a), x[e].saw, x[e].found)
  BY <1>2, SaysNothing DEF Telling
<1>4. x[e].did # {} => Plane(f) \in {"shell", "tool"}
  BY <1>1 DEF Kept
<1>5. QED BY <1>1, <1>2, <1>3, <1>4, EndKept

LEMMA JudgeKept ==
    ASSUME HostInv, StoreInv, NEW e \in Exchanges, Judge(e)
    PROVE  StoreInv'
<1> DEFINE f == x[e].ask
<1>1. /\ Callable(e) /\ Due(e).do = "judge" /\ UNCHANGED host /\ UNCHANGED <<held, roots>> /\ Grows
      /\ StoreOK'
  BY DEF Judge, Calling, Grows, StoreInv, StoreOK
<1>2. Node(e) \in Nodes /\ Due(e).on = {Node(e)} /\ Rest(e) # <<>> /\ Rest(e) \in Seq(Calls) /\ Ordered(Rest(e))
  BY <1>1, CallParts DEF HostInv, Leads
<1>3. CASE Node(e) = Junk \/ ~(Refs[Node(e)] \subseteq held)
  <2>1. End(e, Refusal(f, "AdmissionRefused"))
    BY <1>3 DEF Judge
  <2>2. AnswerHolds(f, "AdmissionRefused", x[e].saw, x[e].found)
    BY SaysNothing DEF Telling
  <2>3. QED BY <1>1, <2>1, <2>2, Refuses
<1>4. CASE Refs[Node(e)] \subseteq held /\ Node(e) \notin held /\ Node(e) # Junk
  <2>1. Continue(e, Rest(e), {}, "none")
    BY <1>4 DEF Judge
  <2>2. PICK c : c = Due(e)
    OBVIOUS
  <2>3. Done(c)'
    BY <1>1, <1>2, <1>4, <2>2 DEF Done
  <2>4. QED BY <1>1, <1>2, <2>1, <2>2, <2>3, Proceeds
<1>5. CASE Refs[Node(e)] \subseteq held /\ Node(e) \in held /\ Node(e) # Junk
  <2>1. PICK answer : answer = IF Success(f) = "Admitted" THEN "AlreadyAdmitted" ELSE Success(f)
    OBVIOUS
  <2>2. Continue(e, Tail(Rest(e)), {}, answer)
    BY <1>5, <2>1 DEF Judge
  <2>3. PICK q : q = x[e]
    OBVIOUS
  <2>4. PICK first \in Seq(Calls) : first = Rest(e)
    BY <1>2
  <2>5. PICK rest \in Seq(Calls) :
           /\ rest = Tail(first) /\ Len(first) \in Nat \ {0} /\ Len(rest) = Len(first) - 1
           /\ \A i \in 1..Len(rest) : rest[i] = first[i + 1]
    BY <1>2, <2>4, TailParts
  <2>6. q.ask \in Requests[e] /\ Kept(q) /\ Admissible(q.ask)
    BY <1>1, <2>3, AtCall
  <2>7. PICK plan \in Plans(q.ask), k \in Nat \ {0} :
           /\ Serves(q.ask, plan) /\ Follows(x[e].todo, plan)
           /\ k <= Len(plan) /\ Due(e) = plan[k] /\ Len(first) = Len(plan) - k
           /\ \A i \in 1..Len(first) : first[i] = plan[k + i]
    BY <1>1, <2>3, <2>4, AtCall
  <2>8. PICK c : c = Due(e)
    OBVIOUS
  <2>9. Done(c)'
    BY <1>1, <1>2, <1>5, <2>8 DEF Done
  <2>10. Follows(first, plan)'
    <3>1. PICK todo \in Seq(Calls) :
             /\ todo = x[e].todo /\ Len(todo) \in Nat \ {0} /\ Len(first) = Len(todo) - 1
             /\ \A i \in 1..Len(first) : first[i] = todo[i + 1]
             /\ todo[1] = c
      BY <1>1, <2>4, <2>8, CallParts DEF HostInv
    <3>2. Done(todo[1])' /\ Follows(todo, plan) /\ Shape(plan)
      BY <2>7, <2>9, <3>1 DEF Serves
    <3>3. QED BY <1>1, <3>1, <3>2, FollowsOn
  <2>11. first[1].do = "write" /\ first[1].on = {Node(e)}
    <3>1. Len(plan) \in Nat /\ k \in 1..Len(plan)
      BY <2>7, LenProperties DEF Serves, Shape
    <3>2. plan[k + 1].do = "write" /\ plan[k + 1].on = plan[k].on
      BY <1>1, <2>7, <3>1 DEF Serves, Shape
    <3>3. first[1] = plan[k + 1]
      BY <2>5, <2>7
    <3>4. QED BY <1>2, <2>7, <3>2, <3>3
  <2>12. Done(first[1])'
    BY <1>1, <1>5, <2>11 DEF Done
  <2>13. Follows(rest, plan)'
    <3>1. PICK m \in 0..Len(plan) :
             /\ Len(first) = Len(plan) - m
             /\ \A i \in 1..Len(first) : first[i] = plan[m + i]
             /\ \A j \in 1..m : Done(plan[j])'
      BY <2>10 DEF Follows
    <3>2. Follows(first, plan)
      <4>1. \A j \in 1..m : Done(plan[j])
        BY <1>1, <3>1 DEF Done
      <4>2. QED BY <3>1, <4>1 DEF Follows
    <3>3. Shape(plan)
      BY <2>7 DEF Serves
    <3>4. QED BY <1>1, <2>5, <2>12, <3>2, <3>3, FollowsOn
  <2>14. rest = <<>> => /\ AnswerHolds(q.ask, answer, q.saw, q.found)'
                        /\ Plane(q.ask) \in {"shell", "tool"} => answer = "ok"
    <3> SUFFICES ASSUME rest = <<>>
                 PROVE  /\ AnswerHolds(q.ask, answer, q.saw, q.found)'
                        /\ Plane(q.ask) \in {"shell", "tool"} => answer = "ok"
      OBVIOUS
    <3>1. Promise(q.ask)'
      BY <1>1, <2>6, <2>7, <2>13, Fulfilled
    <3>2. q.found \subseteq roots
      BY <2>6 DEF Kept
    <3>3. answer = Success(q.ask) \/ (Success(q.ask) = "Admitted" /\ answer = "AlreadyAdmitted")
      BY <2>1, <2>3
    <3>4. Plane(q.ask) \in {"shell", "tool"} => Success(q.ask) = "ok"
      BY <2>6, Planes
    <3>5. AnswerHolds(q.ask, answer, q.saw, q.found)'
      BY <1>1, <2>6, <3>1, <3>2, <3>3, SuccessHolds
    <3>6. QED BY <3>3, <3>4, <3>5
  <2>15. Continue(e, rest, {}, answer)
    BY <2>2, <2>4, <2>5
  <2>16. QED BY <1>1, <2>3, <2>7, <2>13, <2>14, <2>15, ContinueKept
<1>6. QED BY <1>3, <1>4, <1>5

LEMMA WriteKept ==
    ASSUME HostInv, StoreInv, NEW e \in Exchanges, Write(e)
    PROVE  StoreInv'
<1>1. /\ Callable(e) /\ Due(e).do = "write" /\ UNCHANGED host /\ UNCHANGED roots
      /\ held' = held \cup {Node(e)} /\ Continue(e, Rest(e), {Due(e)}, Success(x[e].ask))
  BY DEF Write, Calling
<1>2. Due(e).on = {Node(e)} /\ Grows
  BY <1>1, CallParts DEF HostInv, Grows
<1>3. Refs[Node(e)] \subseteq held
  <2>1. PICK plan \in Plans(x[e].ask), k \in Nat \ {0} :
           /\ Serves(x[e].ask, plan) /\ k <= Len(plan) /\ Due(e) = plan[k]
           /\ \A j \in 1..(k - 1) : Done(plan[j])
    BY <1>1, AtCall
  <2>2. Len(plan) \in Nat /\ k \in 1..Len(plan)
    BY <2>1, LenProperties DEF Serves, Shape
  <2>3. k > 1 /\ plan[k - 1].do = "judge" /\ plan[k - 1].on = plan[k].on
    BY <1>1, <2>1, <2>2 DEF Serves, Shape
  <2>4. k - 1 \in 1..(k - 1)
    BY <2>2, <2>3
  <2>5. Done(plan[k - 1])
    BY <2>1, <2>4
  <2>6. QED BY <1>2, <2>1, <2>3, <2>5 DEF Done
<1>4. StoreOK'
  BY <1>1, <1>3 DEF StoreInv, StoreOK
<1>5. PICK c : c = Due(e)
  OBVIOUS
<1>6. Done(c)'
  BY <1>1, <1>2, <1>5 DEF Done
<1>7. PICK answer : answer = Success(x[e].ask)
  OBVIOUS
<1>8. Continue(e, Rest(e), {c}, answer)
  BY <1>1, <1>5, <1>7
<1>9. c.do \in {"write", "publish"}
  BY <1>1, <1>5
<1>10. QED BY <1>1, <1>2, <1>4, <1>5, <1>6, <1>7, <1>8, <1>9, Proceeds

LEMMA PublishKept ==
    ASSUME HostInv, StoreInv, NEW e \in Exchanges, Publish(e)
    PROVE  StoreInv'
<1>1. /\ Callable(e) /\ Due(e).do = "publish" /\ UNCHANGED host /\ UNCHANGED held
      /\ roots' = roots \cup Due(e).on /\ Continue(e, Rest(e), {Due(e)}, Success(x[e].ask))
  BY DEF Publish, Calling
<1>2. Grows
  BY <1>1 DEF Grows
<1>3. Due(e).on \subseteq held
  <2>1. PICK plan \in Plans(x[e].ask), k \in Nat \ {0} :
           /\ Serves(x[e].ask, plan) /\ k <= Len(plan) /\ Due(e) = plan[k]
           /\ \A j \in 1..(k - 1) : Done(plan[j])
    BY <1>1, AtCall
  <2>2. Len(plan) \in Nat /\ k \in 1..Len(plan)
    BY <2>1, LenProperties DEF Serves, Shape
  <2>3. PICK j \in 1..(k - 1) : plan[j].do \in {"load", "write", "closure"} /\ plan[k].on \subseteq plan[j].on
    BY <1>1, <2>1, <2>2 DEF Serves, Shape
  <2>4. Done(plan[j])
    BY <2>1
  <2>5. QED BY <2>1, <2>3, <2>4 DEF Done
<1>4. StoreOK'
  BY <1>1, <1>3 DEF StoreInv, StoreOK
<1>5. PICK c : c = Due(e)
  OBVIOUS
<1>6. Done(c)'
  BY <1>1, <1>5 DEF Done
<1>7. PICK answer : answer = Success(x[e].ask)
  OBVIOUS
<1>8. Continue(e, Rest(e), {c}, answer)
  BY <1>1, <1>5, <1>7
<1>9. c.do \in {"write", "publish"} /\ c.do = "publish"
  BY <1>1, <1>5
<1>10. QED BY <1>1, <1>2, <1>4, <1>5, <1>6, <1>7, <1>8, <1>9, Proceeds

(* A call that changes nothing and finds what it asked for.                *)
LEMMA Reads1 ==
    ASSUME HostInv, StoreInv, NEW e \in Exchanges, Callable(e), NEW answer,
           answer = Success(x[e].ask) \/ Rest(e) # <<>>,
           Continue(e, Rest(e), {}, answer), UNCHANGED <<host, held, roots>>, Done(Due(e))
    PROVE  StoreInv'
<1>1. UNCHANGED host /\ UNCHANGED <<held, roots>> /\ Grows /\ StoreOK'
  BY DEF Grows, StoreInv, StoreOK
<1>2. PICK c : c = Due(e)
  OBVIOUS
<1>3. Done(c)'
  BY <1>1, <1>2, DoneGrows
<1>4. QED BY <1>1, <1>2, <1>3, Proceeds

LEMMA ReadingKept ==
    ASSUME HostInv, StoreInv, NEW e \in Exchanges,
           Resolve(e) \/ Load(e) \/ VerifyClosure(e) \/ Consult(e) \/ FailCall(e)
    PROVE  StoreInv'
<1> DEFINE f == x[e].ask
<1>1. Callable(e) /\ UNCHANGED <<host, held, roots>>
  BY DEF Resolve, Load, VerifyClosure, Consult, FailCall, Calling
<1>2. /\ Due(e).do \in {"judge", "write", "load", "table"} => Due(e).on = {Node(e)}
      /\ Due(e).do \in Leads => Rest(e) # <<>>
  BY <1>1, CallParts DEF HostInv
<1>3. f \in Requests[e] /\ Kept(x[e]) /\ Admissible(f) /\ \E last : Suits(f, Due(e), last)
  BY <1>1, AtCall
<1>4. x[e].saw \subseteq held
  BY <1>3 DEF Kept
<1>5. CASE Load(e)
  <2>1. Due(e).do = "load"
    BY <1>5 DEF Load, Calling
  <2>2. CASE Node(e) \in held /\ Continue(e, Rest(e), {}, Success(f))
    <3>1. Done(Due(e))
      BY <1>2, <2>1, <2>2 DEF Done
    <3>2. QED BY <1>1, <2>2, <3>1, Reads1
  <2>3. CASE ~(Node(e) \in held /\ ~Unnameable(f)) /\ End(e, Refusal(f, "NodeAbsent"))
    <3>1. Plane(f) = "core" => AnswerHolds(f, "NodeAbsent", x[e].saw, x[e].found)
      <4> SUFFICES ASSUME Plane(f) = "core" PROVE AnswerHolds(f, "NodeAbsent", x[e].saw, x[e].found)
        OBVIOUS
      <4>1. Due(e).on = {f.id} /\ ~IsVerb(f)
        BY <1>3, <2>1, Planes DEF Suits
      <4>2. f.id \notin held
        BY <1>2, <2>1, <2>3, <4>1 DEF Unnameable
      <4>3. f.id \notin x[e].saw
        BY <1>4, <4>2
      <4>4. QED BY <4>3 DEF AnswerHolds
    <3>2. QED BY <1>1, <2>3, <3>1, Refuses
  <2>4. QED BY <1>5, <2>2, <2>3 DEF Load
<1>6. CASE VerifyClosure(e)
  <2>1. Due(e).do = "closure"
    BY <1>6 DEF VerifyClosure, Calling
  <2>2. CASE ClosureHeld(e) /\ Continue(e, Rest(e), {}, "none")
    <3>1. Done(Due(e))
      BY <2>1, <2>2 DEF Done, ClosureHeld
    <3>2. QED BY <1>1, <1>2, <2>1, <2>2, <3>1, Reads1 DEF Leads
  <2>3. CASE ~ClosureHeld(e) /\ End(e, "ClosureUnverified")
    <3>1. Plane(f) = "core" /\ Due(e).on = {f.id} \cup f.keys
      BY <1>3, <2>1 DEF Suits
    <3>2. Refusal(f, "ClosureUnverified") = "ClosureUnverified"
      BY <1>3, <3>1, Planes
    <3>3. ~({f.id} \cup f.keys \subseteq x[e].saw)
      BY <1>4, <2>3, <3>1 DEF ClosureHeld
    <3>4. AnswerHolds(f, "ClosureUnverified", x[e].saw, x[e].found)
      BY <3>3 DEF AnswerHolds
    <3>5. QED BY <1>1, <2>3, <3>2, <3>4, Refuses
  <2>4. QED BY <1>6, <2>2, <2>3 DEF VerifyClosure
<1>7. CASE Consult(e)
  <2>1. Due(e).do \in {"presence", "list", "names", "since"} /\ Continue(e, Rest(e), {}, Success(f))
    BY <1>7 DEF Consult, Calling
  <2>2. Done(Due(e))
    BY <2>1 DEF Done
  <2>3. QED BY <1>1, <2>1, <2>2, Reads1
<1>8. CASE FailCall(e)
  <2>1. CASE Due(e).do = "names"
    <3>1. Plane(f) = "shell" /\ f.verb \notin {"put", "publish", "name", "run"}
      BY <1>3, <2>1 DEF Suits
    <3>2. IsVerb(f)
      BY <1>3, <3>1, Planes
    <3>3. AnswerHolds(f, "ok", x[e].saw, x[e].found)
      BY <3>1, <3>2 DEF AnswerHolds
    <3>4. End(e, "ok") /\ x[e].at = "work"
      BY <1>8, <2>1 DEF FailCall, Callable
    <3>5. QED BY <1>1, <3>3, <3>4, EndKept
  <2>2. CASE Due(e).do # "names"
    <3>1. End(e, Refusal(f, "BackendUnavailable"))
      BY <1>8, <2>2 DEF FailCall
    <3>2. AnswerHolds(f, "BackendUnavailable", x[e].saw, x[e].found)
      BY SaysNothing DEF Telling
    <3>3. QED BY <1>1, <3>1, <3>2, Refuses
  <2>3. QED BY <2>1, <2>2
<1>9. CASE Resolve(e)
  <2>1. Due(e).do = "resolve"
    BY <1>9 DEF Resolve, Calling
  <2>2. CASE Continue(e, Rest(e), {}, "none")
    <3>1. Done(Due(e)) /\ Rest(e) # <<>>
      BY <1>2, <2>1 DEF Done, Leads
    <3>2. QED BY <1>1, <2>2, <3>1, Reads1
  <2>3. CASE End(e, "refused")
    <3>1. AnswerHolds(x[e].ask, "refused", x[e].saw, x[e].found)
      BY SaysNothing DEF Telling
    <3>2. x[e].at = "work"
      BY <1>1 DEF Callable
    <3>3. QED BY <1>1, <2>3, <3>1, <3>2, EndKept
  <2>4. QED BY <1>9, <2>2, <2>3 DEF Resolve
<1>10. QED BY <1>5, <1>6, <1>7, <1>8, <1>9

LEMMA TableKept ==
    ASSUME HostInv, StoreInv, NEW e \in Exchanges, LoadTable(e)
    PROVE  StoreInv'
<1>1. /\ Callable(e) /\ Due(e).do = "table" /\ UNCHANGED host /\ UNCHANGED <<held, roots>>
      /\ Grows /\ StoreOK' /\ UNCHANGED <<host, held, roots>>
  BY DEF LoadTable, Calling, Grows, StoreInv, StoreOK
<1>2. PICK q : q = x[e]
  OBVIOUS
<1>3. q.ask \in Requests[e] /\ Kept(q) /\ Admissible(q.ask) /\ \E last : Suits(q.ask, Due(e), last)
  BY <1>1, <1>2, AtCall
<1>4. RunsTable(q.ask) /\ Node(e) = q.ask.id
  <2>1. Due(e).on = {Node(e)}
    BY <1>1, CallParts DEF HostInv
  <2>2. QED BY <1>1, <1>3, <2>1 DEF Suits
<1>5. CASE Node(e) \in DOMAIN Tables /\ Continue(e, RunAll(Tables[Node(e)]), {}, "ok")
  <2>1. Tables[q.ask.id] \in Seq(Lines)
    BY <1>4, <1>5, HostAssumption
  <2>2. PICK plan \in Seq(Calls) : plan = RunAll(Tables[q.ask.id])
    BY <2>1, RunAllParts
  <2>3. plan \in Plans(q.ask)
    BY <1>4, <1>5, <2>2 DEF Plans
  <2>4. Len(plan) \in Nat
    BY LenProperties
  <2>5. Follows(plan, plan)'
    BY <2>4 DEF Follows
  <2>6. Continue(e, plan, {}, "ok")
    BY <1>4, <1>5, <2>2
  <2>7. plan = <<>> => AnswerHolds(q.ask, "ok", q.saw, q.found)'
    <3> SUFFICES ASSUME plan = <<>> PROVE AnswerHolds(q.ask, "ok", q.saw, q.found)'
      OBVIOUS
    <3>1. Promise(q.ask)'
      BY <1>1, <1>3, <2>3, <2>5, Fulfilled
    <3>2. Plane(q.ask) \in {"shell", "tool"}
      BY <1>4 DEF RunsTable, Plane
    <3>3. Success(q.ask) = "ok"
      BY <1>3, <3>2, Planes
    <3>4. q.found \subseteq roots
      BY <1>3 DEF Kept
    <3>5. QED BY <1>1, <1>3, <3>1, <3>3, <3>4, SuccessHolds
  <2>8. QED BY <1>1, <1>2, <2>3, <2>5, <2>6, <2>7, ContinueKept
<1>6. CASE End(e, "refused")
  <2>1. AnswerHolds(x[e].ask, "refused", x[e].saw, x[e].found)
    BY SaysNothing DEF Telling
  <2>2. x[e].at = "work"
    BY <1>1 DEF Callable
  <2>3. QED BY <1>1, <1>6, <2>1, <2>2, EndKept
<1>7. QED BY <1>5, <1>6 DEF LoadTable

(* An exchange that is left, refused by its tool's cap, or hangs.          *)
LEMMA LeftKept ==
    ASSUME HostInv, StoreInv, NEW e \in Exchanges,
           RefuseTool(e) \/ RunNothing(e) \/ HangCall(e) \/ Gone(e)
    PROVE  StoreInv'
<1>1. UNCHANGED <<host, held, roots>> /\ x[e].at \in {"waiting", "body", "work"}
  BY DEF RefuseTool, RunNothing, HangCall, Gone, Callable
<1>2. UNCHANGED host /\ UNCHANGED <<held, roots>> /\ Grows /\ StoreOK'
  BY <1>1 DEF Grows, StoreInv, StoreOK
<1>3. x[e] \in FiberType /\ Good(e, x[e]) /\ Kept(x[e])
  BY <1>1 DEF HostInv, FibersOK, StoreInv
<1>4. CASE RefuseTool(e)
  <2>1. ToolAnswers(host.limits, x[e].ask) = "refused"
    BY <1>4, AnswersKnown DEF RefuseTool
  <2>2. End(e, "refused")
    BY <1>4, <2>1 DEF RefuseTool
  <2>3. AnswerHolds(x[e].ask, "refused", x[e].saw, x[e].found)
    BY SaysNothing DEF Telling
  <2>4. QED BY <1>1, <2>2, <2>3, EndKept
<1>5. CASE RunNothing(e)
  <2>1. x[e].at = "work" /\ x[e].todo = <<>> /\ End(e, "ok")
    BY <1>5 DEF RunNothing
  <2>2. PICK q : q = x[e]
    OBVIOUS
  <2>3. q.ask \in Requests[e] /\ Admissible(q.ask) /\ Plane(q.ask) = "tool"
    BY <2>1, <2>2, Standing DEF Kept
  <2>4. PICK plan \in Plans(q.ask) : Follows(x[e].todo, plan)
    BY <2>1, <2>2, Standing
  <2>5. PICK rest \in Seq(Calls) : rest = <<>> /\ rest = x[e].todo
    BY <1>3, <2>1 DEF FiberType
  <2>6. Follows(rest, plan)'
    BY <1>2, <2>4, <2>5, FollowsGrows
  <2>7. Promise(q.ask)'
    BY <1>2, <2>3, <2>5, <2>6, Fulfilled
  <2>8. Success(q.ask) = "ok"
    BY <2>3, Planes
  <2>9. q.found \subseteq roots
    BY <1>3, <2>2 DEF Kept
  <2>10. AnswerHolds(q.ask, "ok", q.saw, q.found)'
    BY <1>2, <2>3, <2>7, <2>8, <2>9, SuccessHolds
  <2>11. AnswerHolds(q.ask, "ok", q.saw, q.found)
    BY <1>2, <2>10 DEF AnswerHolds
  <2>12. QED BY <1>1, <2>1, <2>2, <2>11, EndKept
<1>6. CASE Gone(e)
  <2>1. AnswerHolds(x[e].ask, "gone", x[e].saw, x[e].found)
    BY SaysNothing DEF Telling
  <2>2. QED BY <1>1, <1>6, <2>1, EndKept DEF Gone
<1>7. CASE HangCall(e)
  <2>1. PICK r : r = [x[e] EXCEPT !.hung = TRUE]
    OBVIOUS
  <2>2. x' = [x EXCEPT ![e] = r]
    BY <1>7, <2>1 DEF HangCall
  <2>3. /\ r.at = x[e].at /\ r.ask = x[e].ask /\ r.todo = x[e].todo /\ r.answer = x[e].answer
        /\ r.did = x[e].did /\ r.saw = x[e].saw /\ r.found = x[e].found
    BY <1>3, <2>1 DEF FiberType
  <2>4. Kept(r)
    BY <1>3, <2>3 DEF Kept
  <2>5. Kept(r)'
    BY <1>2, <2>4, KeptGrows DEF Unmoved
  <2>6. QED BY <1>2, <2>2, <2>5, OthersKept
<1>8. QED BY <1>4, <1>5, <1>6, <1>7

(* A body that does not arrive changes nothing the law has let pass.       *)
LEMMA BodyFields ==
    ASSUME NEW f \in Exchange, NEW whole \in BOOLEAN, NEW g,
           g = IF whole THEN f ELSE [f EXCEPT !.body = "none"]
    PROVE  /\ g.profile = f.profile /\ g.path = f.path /\ g.method = f.method /\ g.octet = f.octet
           /\ g.auth = f.auth /\ g.id = f.id /\ g.keys = f.keys /\ g.bytes = f.bytes
           /\ Operation(g) = Operation(f) /\ CoreCalls(g) = CoreCalls(f)
<1>1. /\ g.profile = f.profile /\ g.path = f.path /\ g.method = f.method /\ g.octet = f.octet
      /\ g.auth = f.auth /\ g.id = f.id /\ g.keys = f.keys /\ g.bytes = f.bytes
  BY DEF Exchange
<1>2. Operation(g) = Operation(f)
  BY <1>1 DEF Operation
<1>3. CoreCalls(g) = CoreCalls(f)
  BY <1>1, <1>2 DEF CoreCalls
<1>4. QED BY <1>1, <1>2, <1>3

LEMMA TakeBodyKept ==
    ASSUME HostInv, StoreInv, NEW e \in Exchanges, TakeBody(e)
    PROVE  StoreInv'
<1>1. x[e].at = "body" /\ UNCHANGED <<host, held, roots>>
  BY DEF TakeBody
<1>2. UNCHANGED host /\ UNCHANGED <<held, roots>> /\ Grows /\ StoreOK'
  BY <1>1 DEF Grows, StoreInv, StoreOK
<1>3. x[e] \in FiberType /\ Good(e, x[e]) /\ Kept(x[e])
  BY <1>1 DEF HostInv, FibersOK, StoreInv
<1>4. PICK f \in Exchange : f = x[e].ask
  BY <1>1, <1>3, RequestParts DEF Good
<1>5. /\ ~IsVerb(f) /\ x[e].did = {} /\ Plane(f) = "core"
      /\ host.kind = "daemon" => Door(f) = "Pass"
  BY <1>1, <1>3, <1>4, ExchangeParts DEF Kept
<1>6. PICK whole \in BOOLEAN :
         LET g == IF whole THEN x[e].ask ELSE [x[e].ask EXCEPT !.body = "none"]
             refusal == Decide(host.limits, g)
             answer  == CoreAnswers(host.limits, g)
         IN  IF refusal # "Accepted" THEN End(e, refusal)
             ELSE IF answer # "none" THEN End(e, answer)
             ELSE /\ x' = [x EXCEPT ![e].at = "work", ![e].todo = CoreCalls(g)]
                  /\ UNCHANGED <<permits, live, counted>>
  BY DEF TakeBody
<1>7. PICK g : g = IF whole THEN f ELSE [f EXCEPT !.body = "none"]
  OBVIOUS
<1>8. /\ g.profile = f.profile /\ g.path = f.path /\ g.method = f.method /\ g.octet = f.octet
      /\ g.auth = f.auth /\ g.id = f.id /\ g.keys = f.keys /\ g.bytes = f.bytes
      /\ Operation(g) = Operation(f) /\ CoreCalls(g) = CoreCalls(f)
  BY <1>7, BodyFields
<1>9. IF Decide(host.limits, g) # "Accepted" THEN End(e, Decide(host.limits, g))
      ELSE IF CoreAnswers(host.limits, g) # "none" THEN End(e, CoreAnswers(host.limits, g))
      ELSE x' = [x EXCEPT ![e].at = "work", ![e].todo = CoreCalls(g)]
  BY <1>4, <1>6, <1>7
<1>10. CASE Decide(host.limits, g) # "Accepted"
  <2>1. Decide(host.limits, g) \in Refusals
    BY <1>10, DecideParts
  <2>2. Decide(host.limits, g) \notin Telling
    BY <2>1 DEF Refusals, Telling
  <2>3. End(e, Decide(host.limits, g))
    BY <1>9, <1>10
  <2>4. AnswerHolds(x[e].ask, Decide(host.limits, g), x[e].saw, x[e].found)
    BY <2>2, SaysNothing
  <2>5. QED BY <1>1, <1>4, <1>5, <2>3, <2>4, EndKept
<1>11. CASE Decide(host.limits, g) = "Accepted" /\ CoreAnswers(host.limits, g) # "none"
  <2>1. CoreAnswers(host.limits, g) \notin Telling
    BY <1>11 DEF CoreAnswers, Telling
  <2>2. End(e, CoreAnswers(host.limits, g))
    BY <1>9, <1>11
  <2>3. AnswerHolds(x[e].ask, CoreAnswers(host.limits, g), x[e].saw, x[e].found)
    BY <2>1, SaysNothing
  <2>4. QED BY <1>1, <1>4, <1>5, <2>2, <2>3, EndKept
<1>12. CASE Decide(host.limits, g) = "Accepted" /\ CoreAnswers(host.limits, g) = "none"
  <2>1. PICK r : r = [x[e] EXCEPT !.at = "work", !.todo = CoreCalls(f)]
    OBVIOUS
  <2>2. x' = [x EXCEPT ![e] = r]
    BY <1>8, <1>9, <1>12, <2>1
  <2>3. /\ r.at = "work" /\ r.ask = f /\ r.todo = CoreCalls(f) /\ r.answer = x[e].answer
        /\ r.did = {} /\ r.saw = x[e].saw /\ r.found = x[e].found
    BY <1>3, <1>4, <1>5, <2>1 DEF FiberType
  <2>4. Lawful(host.limits, g)
    BY <1>12, DecideParts
  <2>5. Operation(f) # "ReadCapabilities"
    BY <1>8, <1>12 DEF CoreAnswers
  <2>6. Operation(f) = "UploadNode" => f.bytes = f.id /\ Size[f.bytes] <= host.limits.maxNodeBytes
    <3> SUFFICES ASSUME Operation(f) = "UploadNode"
                 PROVE  f.bytes = f.id /\ Size[f.bytes] <= host.limits.maxNodeBytes
      OBVIOUS
    <3>1. ~(g.body = "node" /\ Size[g.bytes] > host.limits.maxNodeBytes) /\ g.body = "node" /\ g.bytes = g.id
      BY <1>8, <1>12 DEF CoreAnswers
    <3>2. Size[f.bytes] \in Nat /\ host.limits.maxNodeBytes \in Nat
      BY ExchangeParts, WireAssumption DEF HostInv, HostOK, Limited
    <3>3. QED BY <1>8, <3>1, <3>2
  <2>7. Admissible(f)
    <3>1. Principal(host.limits, g) = Principal(host.limits, f) /\ Methods(g) = Methods(f)
      BY <1>8 DEF Principal, Methods
    <3>2. Authorized(host.limits, g) <=> Authorized(host.limits, f)
      BY <1>8, <3>1 DEF Authorized
    <3>3. QED BY <1>5, <1>8, <2>4, <2>5, <2>6, <3>1, <3>2 DEF Admissible, Lawful
  <2>8. CoreCalls(f) \in Plans(f)
    BY <1>5 DEF Plans
  <2>9. CoreCalls(f) \in Seq(Calls) /\ CoreCalls(f) # <<>>
    BY CoreTyped
  <2>10. Follows(CoreCalls(f), CoreCalls(f))
    BY <2>9, LenProperties DEF Follows
  <2>11. Kept(r)
    <3>1. \E plan \in Plans(f) : Follows(r.todo, plan)
      BY <2>3, <2>8, <2>10
    <3>2. QED BY <1>3, <1>5, <2>3, <2>7, <2>9, <3>1 DEF Kept
  <2>12. Kept(r)'
    BY <1>2, <2>11, KeptGrows DEF Unmoved
  <2>13. QED BY <1>2, <2>2, <2>12, OthersKept
<1>13. QED BY <1>10, <1>11, <1>12

LEMMA EnterKept ==
    ASSUME HostInv, StoreInv, NEW e \in Exchanges, Enter(e)
    PROVE  StoreInv'
<1>1. /\ x[e].at = "waiting" /\ UNCHANGED host /\ UNCHANGED <<held, roots>> /\ Grows /\ StoreOK'
  BY DEF Enter, Grows, StoreInv, StoreOK
<1>2. x[e] \in FiberType /\ Good(e, x[e]) /\ Kept(x[e])
  BY <1>1 DEF HostInv, FibersOK, StoreInv
<1>3. PICK f \in Exchange : f = x[e].ask
  <2>1. x[e].ask \in Requests[e] /\ Gate(host.kind, x[e].ask) \in Gates
    BY <1>1, <1>2 DEF Good
  <2>2. ~IsVerb(x[e].ask)
    BY <2>1 DEF Gate, Gates
  <2>3. QED BY <2>1, <2>2, RequestParts
<1>4. /\ ~IsVerb(f) /\ x[e].did = {} /\ GateOf(e) \in Gates
      /\ host.kind = "daemon" => Door(f) = "Pass"
  BY <1>1, <1>2, <1>3, ExchangeParts DEF Kept, Good, GateOf
<1>5. PICK r : r = [x[e] EXCEPT !.entered = TRUE,
                      !.at = IF GateOf(e) = "wire" THEN "body" ELSE "work",
                      !.todo = IF GateOf(e) = "wire" THEN <<>> ELSE ToolCalls(x[e].ask)]
  OBVIOUS
<1>6. x' = [x EXCEPT ![e] = r]
  BY <1>5 DEF Enter
<1>7. /\ r.ask = f /\ r.did = {} /\ r.saw = x[e].saw /\ r.found = x[e].found
      /\ r.at = IF GateOf(e) = "wire" THEN "body" ELSE "work"
      /\ r.todo = IF GateOf(e) = "wire" THEN <<>> ELSE ToolCalls(f)
  BY <1>2, <1>3, <1>4, <1>5 DEF FiberType
<1>8. CASE GateOf(e) = "wire"
  <2>1. Plane(f) = "core"
    BY <1>3, <1>4, <1>8 DEF GateOf, Gate, Plane
  <2>2. Kept(r)
    BY <1>2, <1>4, <1>7, <1>8, <2>1 DEF Kept
  <2>3. Kept(r)'
    BY <1>1, <2>2, KeptGrows DEF Unmoved
  <2>4. QED BY <1>1, <1>6, <2>3, OthersKept
<1>9. CASE GateOf(e) = "tool"
  <2>1. Plane(f) = "tool"
    BY <1>3, <1>4, <1>9 DEF GateOf, Gate, Plane
  <2>2. ToolCalls(f) \in Plans(f) /\ Admissible(f)
    BY <2>1 DEF Plans, Admissible
  <2>3. Follows(ToolCalls(f), ToolCalls(f))
    <3>1. ToolCalls(f) \in Seq(Calls)
      BY ToolTyped
    <3>2. QED BY <3>1, LenProperties DEF Follows
  <2>4. \E plan \in Plans(f) : Follows(r.todo, plan)
    BY <1>7, <1>9, <2>2, <2>3
  <2>5. Kept(r)
    BY <1>2, <1>4, <1>7, <1>9, <2>1, <2>2, <2>4 DEF Kept
  <2>6. Kept(r)'
    BY <1>1, <2>5, KeptGrows DEF Unmoved
  <2>7. QED BY <1>1, <1>6, <2>6, OthersKept
<1>10. QED BY <1>4, <1>8, <1>9 DEF Gates

(* One number beside each of the first s.                                  *)
LEMMA Row ==
    ASSUME NEW s \in Nat
    PROVE  Cardinality({1} \X (1..s)) = s
<1>1. PICK g : g = [i \in 1..s |-> <<1, i>>]
  OBVIOUS
<1>2. g \in [1..s -> {1} \X (1..s)]
  BY <1>1
<1>3. DOMAIN g = 1..s /\ \A i, j \in 1..s : g[i] = g[j] => i = j
  BY <1>1
<1>4. \A t \in {1} \X (1..s) : \E i \in 1..s : g[i] = t
  BY <1>1
<1>5. g \in Bijection(1..s, {1} \X (1..s))
  BY <1>2, <1>3, <1>4 DEF Bijection, Injection, Surjection, IsInjective
<1>6. ExistsBijection(1..s, {1} \X (1..s))
  BY <1>5 DEF ExistsBijection
<1>7. QED BY <1>6, FS_CountingElements

(* What a payload within the cap needs of the transport fits beside what   *)
(* the host sets aside.                                                    *)
LEMMA PayloadFits ==
    ASSUME HostInv, host.kind = "daemon", NEW f \in Exchange, f.path = "mcp", Len(f.lines) = 1,
           Frame(f) > FrameBytes
    PROVE  ToolAnswers(host.limits, f) = "refused" \/ Around(f) > FrameSlack
<1> DEFINE line == f.lines[1]
           most == host.limits.maxNodeBytes
<1>1. DOMAIN f.lines = {1} /\ line \in Lines
  BY ExchangeParts
<1>2. line.node \in Nodes /\ line.do \in {"put", "load"}
  BY <1>1, LineParts
<1> HIDE DEF line
<1>3. PICK s \in Nat : s = Size[line.node]
  BY <1>2, WireAssumption
<1>4. Cardinality(Bytes(f.lines)) = IF line.do = "put" THEN s ELSE 0
  <2>1. CASE line.do = "put"
    <3>1. PutLines(f.lines) = {1}
      BY <1>1, <2>1 DEF PutLines, line
    <3>2. Bytes(f.lines) = {1} \X (1..s)
      BY <1>3, <3>1 DEF Bytes, line
    <3>3. QED BY <2>1, <3>2, Row
  <2>2. CASE line.do = "load"
    <3>1. PutLines(f.lines) = {}
      BY <1>1, <2>2 DEF PutLines, line
    <3>2. Bytes(f.lines) = {}
      BY <3>1 DEF Bytes
    <3>3. QED BY <2>2, <3>2, FS_EmptySet
  <2>3. QED BY <1>2, <2>1, <2>2
<1>5. PICK around \in Nat : around = Around(f)
  <2>1. IsFiniteSet(NamedBy(line))
    BY <1>2, WireAssumption, FS_Singleton DEF NamedBy
  <2>2. Named(f.lines) = {1} \X NamedBy(line)
    BY <1>1 DEF Named, line
  <2>3. Cardinality(Named(f.lines)) \in Nat
    BY <2>1, <2>2, FS_Singleton, FS_Product, FS_CardinalityType
  <2>4. QED BY <2>3, WireAssumption DEF Around
<1>6. PICK size \in Nat : size = Cardinality(Bytes(f.lines)) /\ around + 2 * size > FrameBytes
  BY <1>3, <1>4, <1>5 DEF Frame
<1>7. most \in Nat /\ most <= (FrameBytes - FrameSlack) \div 2
  BY DEF HostInv, HostOK, Limited, MaxServable
<1>8. FrameBytes \in Nat /\ FrameSlack \in 0..FrameBytes
  BY WireAssumption
<1>9. ASSUME around <= FrameSlack PROVE size > most
  <2> HIDE DEF most
  <2>1. PICK room \in Nat : room = FrameBytes - FrameSlack
    BY <1>8
  <2>2. 2 * (room \div 2) <= room /\ room \div 2 \in Nat
    OBVIOUS
  <2>3. 2 * size > room
    BY <1>6, <1>8, <1>9, <2>1
  <2>4. QED BY <1>6, <1>7, <2>1, <2>2, <2>3
<1>10. ASSUME size > most PROVE ToolAnswers(host.limits, f) = "refused"
  <2>1. line.do = "put" /\ s > most
    <3>1. line.do = "load" => size = 0
      BY <1>4, <1>6
    <3>2. QED BY <1>2, <1>4, <1>6, <1>7, <1>10, <3>1
  <2>2. 1 \in PutLines(f.lines) /\ Size[f.lines[1].node] > host.limits.maxNodeBytes
    BY <1>1, <1>3, <2>1 DEF PutLines, line
  <2>3. QED BY <2>2 DEF ToolAnswers
<1>11. around <= FrameSlack \/ around > FrameSlack
  BY <1>5, <1>8
<1>12. QED BY <1>5, <1>9, <1>10, <1>11

(* An exchange that begins has done nothing, and has the store to see.     *)
LEMMA Begun ==
    ASSUME HostInv, StoreInv, NEW e \in Exchanges, NEW f \in Requests[e], NEW r,
           r.ask = f, r.saw = held, r.found = roots, r.did = {},
           r.at \in {"waiting", "body", "work"} /\ host.kind = "daemon" /\ ~IsVerb(f) => Door(f) = "Pass",
           r.at = "work" => r.todo \in Plans(f) /\ r.todo \in Seq(Calls) /\ r.todo # <<>> /\ Admissible(f),
           r.at = "body" => Plane(f) = "core",
           r.at = "over" => ~IsVerb(f) /\ AnswerHolds(f, r.answer, held, roots),
           x' = [x EXCEPT ![e] = r], UNCHANGED <<host, held, roots>>
    PROVE  StoreInv'
<1>1. UNCHANGED host /\ UNCHANGED <<held, roots>> /\ Grows /\ StoreOK'
  BY DEF Grows, StoreInv, StoreOK
<1>2. r.at = "work" => \E plan \in Plans(f) : Follows(r.todo, plan)
  <2> SUFFICES ASSUME r.at = "work" PROVE Follows(r.todo, r.todo)
    OBVIOUS
  <2>1. Len(r.todo) \in Nat
    BY LenProperties
  <2>2. QED BY <2>1 DEF Follows
<1>3. Kept(r)
  BY <1>2 DEF Kept
<1>4. Kept(r)'
  BY <1>1, <1>3, KeptGrows DEF Unmoved
<1>5. QED BY <1>1, <1>4, OthersKept

LEMMA ArriveKept ==
    ASSUME HostInv, StoreInv, NEW e \in Exchanges, NEW f \in Requests[e], ~IsVerb(f), Arrive(e, f)
    PROVE  StoreInv'
<1>1. /\ UNCHANGED <<host, held, roots>> /\ f \in Exchange /\ host.kind \in {"daemon", "embedded"}
  BY RequestParts DEF Arrive, HostInv, HostOK
<1>2. {"over", "waiting", "body", "work"} \subseteq Ats
  BY DEF Ats
<1>3. AtDoor(f) = "none" /\ host.kind = "daemon" => Door(f) = "Pass"
  BY DEF AtDoor, Door
<1>4. CASE AtDoor(f) # "none"
  <2>1. PICK b \in FiberType : /\ b = Began(e, f, "over") /\ b.at = "over" /\ b.ask = f /\ b.did = {}
                               /\ b.saw = held /\ b.found = roots
    BY <1>2, BeganTyped
  <2>2. PICK r : r = [b EXCEPT !.answer = AtDoor(f)]
    OBVIOUS
  <2>3. x' = [x EXCEPT ![e] = r]
    BY <1>4, <2>1, <2>2 DEF Arrive
  <2>4. /\ r.at = "over" /\ r.ask = f /\ r.did = {} /\ r.saw = held /\ r.found = roots
        /\ r.answer = AtDoor(f)
    BY <2>1, <2>2 DEF FiberType
  <2>5. AnswerHolds(f, AtDoor(f), held, roots)
    <3>1. CASE AtDoor(f) = "TooLargeForTransport"
      <4>1. host.kind = "daemon" /\ Frame(f) > FrameBytes
        BY <1>1, <3>1 DEF AtDoor, Door
      <4>2. f.path = "mcp" /\ Len(f.lines) = 1 =>
               ToolAnswers(host.limits, f) = "refused" \/ Around(f) > FrameSlack
        BY <1>1, <4>1, PayloadFits
      <4>3. QED BY <3>1, <4>2 DEF AnswerHolds
    <3>2. CASE AtDoor(f) # "TooLargeForTransport"
      <4>1. AtDoor(f) \notin Telling
        BY <3>2 DEF AtDoor, Door, Telling
      <4>2. QED BY <4>1, SaysNothing
    <3>3. QED BY <3>1, <3>2
  <2>6. QED BY <1>1, <2>3, <2>4, <2>5, Begun
<1>5. CASE AtDoor(f) = "none" /\ Gate(host.kind, f) # "none"
  <2>1. PICK r : /\ r = Began(e, f, "waiting") /\ r.at = "waiting" /\ r.ask = f /\ r.did = {}
                 /\ r.saw = held /\ r.found = roots
    BY <1>2, BeganTyped
  <2>2. x' = [x EXCEPT ![e] = r]
    BY <1>5, <2>1 DEF Arrive
  <2>3. QED BY <1>1, <1>3, <1>5, <2>1, <2>2, Begun
<1>6. CASE AtDoor(f) = "none" /\ Gate(host.kind, f) = "none" /\ (host.kind = "embedded" \/ Route(f) = "cas")
  <2>1. PICK r : /\ r = Began(e, f, "body") /\ r.at = "body" /\ r.ask = f /\ r.did = {}
                 /\ r.saw = held /\ r.found = roots
    BY <1>2, BeganTyped
  <2>2. x' = [x EXCEPT ![e] = r]
    BY <1>6, <2>1 DEF Arrive
  <2>3. Plane(f) = "core"
    BY <1>6 DEF Plane
  <2>4. QED BY <1>1, <1>3, <1>6, <2>1, <2>2, <2>3, Begun
<1>7. CASE /\ AtDoor(f) = "none" /\ Gate(host.kind, f) = "none"
           /\ ~(host.kind = "embedded" \/ Route(f) = "cas")
           /\ Route(f) = "history" /\ HistoryAnswers(f) = "none"
  <2> DEFINE since == <<Call("since", {})>>
  <2>1. PICK b \in FiberType : /\ b = Began(e, f, "work") /\ b.at = "work" /\ b.ask = f /\ b.did = {}
                               /\ b.saw = held /\ b.found = roots
    BY <1>2, BeganTyped
  <2>2. PICK r : r = [b EXCEPT !.todo = since]
    OBVIOUS
  <2>3. x' = [x EXCEPT ![e] = r]
    BY <1>7, <2>1, <2>2 DEF Arrive
  <2>4. /\ r.at = "work" /\ r.ask = f /\ r.did = {} /\ r.saw = held /\ r.found = roots
        /\ r.todo = since
    BY <2>1, <2>2 DEF FiberType
  <2>5. Plane(f) = "history"
    BY <1>7 DEF Plane
  <2>6. since \in Plans(f) /\ Admissible(f)
    BY <1>7, <2>5 DEF Plans, Admissible
  <2>7. since \in Seq(Calls) /\ since # <<>>
    <3>1. Call("since", {}) \in Calls /\ Call("since", {}).do = "since"
      BY CallTyped DEF Call
    <3>2. QED BY <3>1, OneTyped
  <2> HIDE DEF since
  <2>8. QED BY <1>1, <1>3, <1>7, <2>3, <2>4, <2>6, <2>7, Begun
<1>8. CASE /\ AtDoor(f) = "none" /\ Gate(host.kind, f) = "none"
           /\ ~(host.kind = "embedded" \/ Route(f) = "cas")
           /\ ~(Route(f) = "history" /\ HistoryAnswers(f) = "none")
  <2>1. PICK b \in FiberType : /\ b = Began(e, f, "over") /\ b.at = "over" /\ b.ask = f /\ b.did = {}
                               /\ b.saw = held /\ b.found = roots
    BY <1>2, BeganTyped
  <2>2. PICK answer : answer = IF Route(f) = "history" THEN HistoryAnswers(f) ELSE "Served"
    OBVIOUS
  <2>3. PICK r : r = [b EXCEPT !.answer = answer]
    OBVIOUS
  <2>4. x' = [x EXCEPT ![e] = r]
    BY <1>8, <2>1, <2>2, <2>3 DEF Arrive
  <2>5. /\ r.at = "over" /\ r.ask = f /\ r.did = {} /\ r.saw = held /\ r.found = roots
        /\ r.answer = answer
    BY <2>1, <2>3 DEF FiberType
  <2>6. AnswerHolds(f, answer, held, roots)
    <3>1. CASE Route(f) = "history"
      <4>1. answer \notin Telling
        BY <2>2, <3>1 DEF HistoryAnswers, HistoryQuery, Telling
      <4>2. QED BY <4>1, SaysNothing
    <3>2. CASE Route(f) # "history"
      BY <2>2, <3>2 DEF AnswerHolds
    <3>3. QED BY <3>1, <3>2
  <2>7. QED BY <1>1, <2>4, <2>5, <2>6, Begun
<1>9. QED BY <1>4, <1>5, <1>6, <1>7, <1>8

LEMMA RunVerbKept ==
    ASSUME HostInv, StoreInv, NEW e \in Exchanges, NEW f \in Requests[e], IsVerb(f), RunVerb(e, f)
    PROVE  StoreInv'
<1>1. UNCHANGED <<host, held, roots>> /\ f \in VerbAsk
  BY RequestParts DEF RunVerb
<1>2. PICK b \in FiberType : /\ b = Began(e, f, "work") /\ b.at = "work" /\ b.ask = f /\ b.did = {}
                             /\ b.saw = held /\ b.found = roots
  BY BeganTyped DEF Ats
<1>3. PICK r : r = [b EXCEPT !.todo = VerbCalls(f)]
  OBVIOUS
<1>4. x' = [x EXCEPT ![e] = r]
  BY <1>2, <1>3 DEF RunVerb
<1>5. /\ r.at = "work" /\ r.ask = f /\ r.did = {} /\ r.saw = held /\ r.found = roots
      /\ r.todo = VerbCalls(f)
  BY <1>2, <1>3 DEF FiberType
<1>6. Plane(f) = "shell"
  BY DEF Plane
<1>7. VerbCalls(f) \in Plans(f) /\ Admissible(f)
  BY <1>6 DEF Plans, Admissible
<1>8. VerbCalls(f) \in Seq(Calls) /\ VerbCalls(f) # <<>>
  BY <1>1, VerbTyped
<1>9. QED BY <1>1, <1>4, <1>5, <1>7, <1>8, Begun

(* The host's steps leave the shell's verbs and the store as they are.     *)
LEMMA HostStepKept ==
    ASSUME HostInv, StoreInv,
           Locate \/ ReadPolicy \/ Boot \/ Shutdown \/ \E policy \in WirePolicies : Embed(policy)
    PROVE  StoreInv'
<1>1. UNCHANGED x /\ UNCHANGED <<held, roots>> /\ Grows /\ StoreOK'
  BY DEF Locate, ReadPolicy, Boot, Shutdown, Embed, Grows, StoreInv, StoreOK
<1>2. (host'.kind = host.kind /\ host'.limits = host.limits) \/ Unopened
  <2>1. CASE Locate \/ ReadPolicy \/ Shutdown
    BY <2>1 DEF Locate, ReadPolicy, Shutdown, HostInv, HostOK
  <2>2. CASE Boot \/ \E policy \in WirePolicies : Embed(policy)
    BY <2>2 DEF Boot, Embed, HostInv, HostOK, Unopened
  <2>3. QED BY <2>1, <2>2
<1>3. ASSUME NEW e \in Exchanges PROVE (x[e].at = "idle" \/ Kept(x[e]))'
  <2>1. PICK q : q = x[e] /\ q = x'[e]
    BY <1>1
  <2>2. Good(e, q)
    BY <2>1 DEF HostInv, FibersOK
  <2>3. q.at = "idle" \/ Kept(q)
    BY <2>1 DEF StoreInv
  <2>4. q.at = "idle" \/ Unmoved(q.ask)
    BY <1>2, <2>2 DEF Good, Unmoved
  <2>5. q.at = "idle" \/ Kept(q)'
    BY <1>1, <2>3, <2>4, KeptGrows
  <2>6. Kept(q)' => Kept(x[e])'
    BY <2>1 DEF Kept
  <2>7. QED BY <2>1, <2>5, <2>6
<1>4. QED BY <1>1, <1>3 DEF StoreInv

LEMMA DeadlineKept == HostInv /\ StoreInv /\ Deadline => StoreInv'
<1> SUFFICES ASSUME HostInv, StoreInv, Deadline PROVE StoreInv'
  OBVIOUS
<1>1. /\ UNCHANGED <<held, roots>> /\ Grows /\ StoreOK'
      /\ host'.kind = host.kind /\ host'.limits = host.limits
  BY DEF Deadline, Grows, StoreInv, StoreOK, HostInv, HostOK
<1>2. ASSUME NEW e \in Exchanges PROVE (x[e].at = "idle" \/ Kept(x[e]))'
  <2>1. PICK q \in FiberType : q = x[e]
    BY DEF HostInv, FibersOK
  <2>2. q.at = "idle" \/ Kept(q)
    BY <2>1 DEF StoreInv
  <2>3. CASE e \in Underway
    <3>1. PICK r : r = [q EXCEPT !.at = "over", !.answer = "gone", !.todo = <<>>]
      OBVIOUS
    <3>2. x'[e] = r
      BY <2>1, <2>3, <3>1 DEF Deadline
    <3>3. /\ r.at = "over" /\ r.answer = "gone" /\ r.ask = q.ask /\ r.did = q.did
          /\ r.saw = q.saw /\ r.found = q.found
      BY <3>1 DEF FiberType
    <3>4. Kept(q)
      BY <2>1, <2>2, <2>3 DEF Underway
    <3>5. AnswerHolds(r.ask, "gone", r.saw, r.found)
      BY SaysNothing DEF Telling
    <3>6. Kept(r)
      BY <3>3, <3>4, <3>5 DEF Kept
    <3>7. Kept(r)'
      BY <1>1, <3>6, KeptGrows DEF Unmoved
    <3>8. Kept(r)' => Kept(x[e])'
      BY <3>2 DEF Kept
    <3>9. QED BY <3>7, <3>8
  <2>4. CASE e \notin Underway
    <3>1. x'[e] = q
      BY <2>1, <2>4 DEF Deadline
    <3>2. q.at = "idle" \/ Kept(q)'
      BY <1>1, <2>2, KeptGrows DEF Unmoved
    <3>3. Kept(q)' => Kept(x[e])'
      BY <3>1 DEF Kept
    <3>4. QED BY <3>1, <3>2, <3>3
  <2>5. QED BY <2>3, <2>4
<1>3. QED BY <1>1, <1>2 DEF StoreInv

LEMMA StoreStands == StoreInv /\ UNCHANGED hostVars => StoreInv'
<1> SUFFICES ASSUME StoreInv, UNCHANGED hostVars PROVE StoreInv'
  OBVIOUS
<1>1. UNCHANGED host /\ UNCHANGED x /\ UNCHANGED <<held, roots>> /\ Grows /\ StoreOK'
  BY DEF hostVars, Grows, StoreInv, StoreOK
<1>2. ASSUME NEW e \in Exchanges PROVE (x[e].at = "idle" \/ Kept(x[e]))'
  <2>1. PICK q : q = x[e] /\ q = x'[e]
    BY <1>1
  <2>2. q.at = "idle" \/ Kept(q)'
    BY <1>1, <2>1, KeptGrows DEF StoreInv, Unmoved
  <2>3. Kept(q)' => Kept(x[e])'
    BY <2>1 DEF Kept
  <2>4. QED BY <2>1, <2>2, <2>3
<1>3. QED BY <1>1, <1>2 DEF StoreInv

LEMMA StoreKeeps == HostInv /\ StoreInv /\ [Next]_vars => StoreInv'
<1> SUFFICES ASSUME HostInv, StoreInv, [Next]_vars PROVE StoreInv'
  OBVIOUS
<1>1. CASE UNCHANGED hostVars
  BY <1>1, StoreStands
<1>2. CASE Locate \/ ReadPolicy \/ Boot \/ Shutdown \/ \E policy \in WirePolicies : Embed(policy)
  BY <1>2, HostStepKept
<1>3. CASE Deadline
  BY <1>3, DeadlineKept
<1>4. ASSUME NEW e \in Exchanges, NEW f \in Requests[e],
             IF IsVerb(f) THEN RunVerb(e, f) ELSE Arrive(e, f)
      PROVE  StoreInv'
  BY <1>4, RunVerbKept, ArriveKept
<1>5. ASSUME NEW e \in Exchanges, Enter(e) \/ Serve(e) \/ FailCall(e) \/ HangCall(e) \/ Gone(e)
      PROVE  StoreInv'
  BY <1>5, EnterKept, TakeBodyKept, JudgeKept, WriteKept, PublishKept, ReadingKept, TableKept,
     LeftKept DEF Serve
<1>6. QED BY <1>1, <1>2, <1>3, <1>4, <1>5 DEF Next, vars

LEMMA StoreStarts == Init => StoreInv
<1> SUFFICES ASSUME Init PROVE StoreInv
  OBVIOUS
<1>1. StoreOK
  BY HostAssumption DEF Init, StoreOK
<1>2. \A e \in Exchanges : x[e].at = "idle"
  BY DEF Init, Idle
<1>3. QED BY <1>1, <1>2 DEF StoreInv

(* StoreInv is an invariant, under the one of the host.                    *)
THEOREM PlansFollowed == Spec => []StoreInv
<1>1. Init => StoreInv
  BY StoreStarts
<1>2. HostInv /\ StoreInv /\ [Next]_vars => StoreInv'
  BY StoreKeeps
<1>3. QED BY <1>1, <1>2, Inductive, PTL DEF Spec

(* Only a verb of the shell, a tool the door let in, and a request with    *)
(* the credential changes the store, is answered as one that did, and      *)
(* brings in no node over the cap.                                         *)
THEOREM ChangesLetIn == Spec => []OnlyLetIn
<1>1. HostInv /\ StoreInv => OnlyLetIn
  <2> SUFFICES ASSUME HostInv, StoreInv, NEW e \in Exchanges, x[e].did # {}
               PROVE  /\ LetIn(x[e].ask)
                      /\ Status(x[e].answer) \notin 400..413
                      /\ \/ IsVerb(x[e].ask)
                         \/ x[e].ask.tool = "cas_run_ref"
                         \/ \A call \in x[e].did : call.do = "write" =>
                                \A n \in call.on : Size[n] <= host.limits.maxNodeBytes
    BY DEF OnlyLetIn
  <2>1. Good(e, x[e]) /\ x[e].at # "idle"
    BY IdleTyped DEF HostInv, FibersOK, Good
  <2>2. Kept(x[e])
    BY <2>1 DEF StoreInv
  <2>3. LetIn(x[e].ask) /\ Capped(x[e].ask, x[e].did)
    BY <2>2 DEF Kept
  <2>4. x[e].answer \in {"none", "ok", "refused", "gone", "Admitted", "Published"}
    BY <2>1, <2>2 DEF Kept, Good
  <2>5. Status(x[e].answer) \notin 400..413
    BY <2>4 DEF Status
  <2>6. QED BY <2>3, <2>5 DEF Capped
<1>2. QED BY <1>1, Inductive, PlansFollowed, PTL

(* What every answer says holds of the store, from then on.                *)
THEOREM AnswersAreTrue == Spec => []AnswersHold
<1>1. HostInv /\ StoreInv => AnswersHold
  BY DEF StoreInv, StoreOK, Kept, AnswersHold
<1>2. QED BY <1>1, Inductive, PlansFollowed, PTL
============================================================================
