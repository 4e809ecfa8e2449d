------------------------------- MODULE Shell -------------------------------
(***************************************************************************)
(* One invocation of the command line (bin/cli): which store it acts on,   *)
(* what its verb reads and writes there, and what it answers.              *)
(*                                                                         *)
(* A verb is a list of steps over the services of the store it resolved;   *)
(* every step is one look at the disk or one call, so other processes put, *)
(* publish and damage nodes, an operator edits a config, and an emitter    *)
(* rewrites a ledger between any two.  `init` is StoreLayout's, `run` and  *)
(* `serve` are ServeHost's, `history` is WordHistory's; the walk `verify`  *)
(* makes is GraphWalk's, here by what it visits.                           *)
(***************************************************************************)
EXTENDS Integers, Sequences, FiniteSets

CONSTANTS
    NoFile, Garbled, Unreadable,    \* StoreLayout's readings of a config
    Named,          \* the directory --store or CAS_STORE names
    Chain,          \* the .cas of the working directory and of each parent
    Order,          \* addresses and directories of objects/, as a listing sorts them
    Refs, Tag,      \* per address: what it refers to, the kind it holds
    Nameable,       \* the kinds the annotation plane spans
    About, Names,   \* per annotation: its subject; those under the name key
    Table,          \* the nodes of the program document, children first
    Fan,            \* the directory of objects/ an address lies in
    Above,          \* per directory: the directories from it to the root
    NoLab,          \* a directory that is no checkout
    Stems,          \* the ledgers the registry places, in the order read
    Asks,           \* command lines
    Worlds,         \* what may stand there at first: tree, plane and papers
    EditedFiles,    \* config files an operator may leave behind
    MaxElse, MaxMeddled, MaxFaults  \* bounds: steps of others, edits, faults

VARIABLES
    tree,           \* per place: what stands in the directory
    plane,          \* per place and backend: nodes, damage, roots, litter
    papers,         \* per directory: the lab's paperwork
    call,           \* the invocation
    before,         \* what stood when it began
    meddled,        \* the places whose config was edited since
    others          \* how often anyone else stepped

shellVars == <<tree, plane, papers, call, before, meddled, others>>

Places   == {Named} \cup {Chain[k] : k \in DOMAIN Chain}
Backends == {"file", "sqlite"}
Ids      == DOMAIN Refs
Uncounted == -1      \* "status does not count them"

\* What may stand in a directory: StoreLayout's, by the policies this module
\* tells apart.
ConfigFiles == [says : [backend : Backends, serve : {"none", "serve"}] \cup {Garbled},
                readable : BOOLEAN]
Directories == [config : ConfigFiles \cup {NoFile}, objects : BOOLEAN,
                roots : BOOLEAN, db : BOOLEAN]

\* What a backend holds; a directory of objects/ may hold a put's scaffold too.
Planes == [held : SUBSET Ids, damaged : SUBSET Ids, roots : SUBSET Ids,
           litter : SUBSET {Fan[id] : id \in Ids}]

\* The ledgers doctor reads, and a lab's paperwork.
Asked == {"admission"} \cup {Stems[k] : k \in DOMAIN Stems}
Labs  == [manifest : {"decodes", "garbled", "absent"}, placed : SUBSET Asked,
          files : [Asked -> {"absent", "garbled", "silent", "one"}]]

\* Flags, and the arguments a verb takes; "typo" spells no address.
CommandLines ==
    [verb : {"status", "doctor", "ls", "verify", "show", "name", "publish", "put", "help",
             "misspelt"},
     store : {"named", "found"}, id : Ids \cup {"every", "typo"},
     text : {"line", "lines"}, tag : {"unsaid", "low", "1", "high"},
     file : {"missing", "directory", "locked", "bytes", "document"},
     program : BOOLEAN, json : BOOLEAN, errors : Seq({"emptied", "short", "other"})]

\* Discovery starts somewhere, and "none" is no directory; addresses sort,
\* and refer to addresses; whatever may be named has its annotation; the
\* admission map is on no registry.
ASSUME ShellAssumption ==
    /\ Chain \in Seq(Places) /\ Chain # <<>>
    /\ "none" \notin Places
    /\ EditedFiles \subseteq ConfigFiles \cup {NoFile}
    /\ IsFiniteSet(Ids) /\ Refs \in [Ids -> SUBSET Ids]
    /\ "every" \notin Ids /\ "typo" \notin Ids
    /\ Order \in Seq({Order[k] : k \in DOMAIN Order})
    /\ Ids \cup {Fan[id] : id \in Ids} \subseteq {Order[k] : k \in DOMAIN Order}
    /\ Table \in Seq(Ids)
    /\ \A id \in Ids : Tag[id] \in Nameable => \E name \in Names : About[name] = id
    /\ Names \subseteq Ids
    /\ Stems \in Seq(Asked) /\ "admission" \notin {Stems[k] : k \in DOMAIN Stems}
    /\ NoLab \notin Labs
    /\ \A ask \in Asks : ask \in CommandLines /\ (ask.verb = "put" => ask.id \in Ids)
    /\ \A world \in Worlds :
         /\ world.tree \in [Places -> Directories]
         /\ world.plane \in [Places -> [Backends -> Planes]]
         /\ world.papers \in [DOMAIN world.papers -> Labs \cup {NoLab}]
         /\ NoLab \notin DOMAIN world.papers
         /\ \A start \in Places \cup {"cwd"} : Above[start] \in Seq(DOMAIN world.papers)

At(p) == INSTANCE StoreLayout WITH
    dir <- tree[p], Makers <- {}, maker <- <<>>, inits <- 0, edits <- 0, made <- <<>>,
    raced <- FALSE, NoPolicy <- "none", Policies <- {"serve"}, DefaultPolicy <- "serve",
    EditedConfigs <- {}, MaxInits <- 0, MaxEdits <- 0

Was(p) == INSTANCE StoreLayout WITH
    dir <- before.tree[p], Makers <- {}, maker <- <<>>, inits <- 0, edits <- 0, made <- <<>>,
    raced <- FALSE, NoPolicy <- "none", Policies <- {"serve"}, DefaultPolicy <- "serve",
    EditedConfigs <- {}, MaxInits <- 0, MaxEdits <- 0

Nothing == [backend |-> "none", roots |-> 0, objects |-> 0, rows |-> {}, unread |-> FALSE,
            walking |-> FALSE, next |-> {}, seen |-> {}, fails |-> "ok",
            ledgers |-> {}, lab |-> "none", placed |-> {}]

Prompt == [ask |-> [verb |-> "none"], at |-> "prompt", look |-> 1, place |-> "none",
           backend |-> "none", todo |-> <<>>, answer |-> "none", out |-> FALSE, faults |-> 0,
           wrote |-> {}, got |-> Nothing]

ShellInit ==
    /\ before \in Worlds
    /\ tree = before.tree /\ plane = before.plane /\ papers = before.papers
    /\ call = Prompt
    /\ meddled = {}
    /\ others = 0

----------------------------------------------------------------------------
(* What a verb does, in order.  The store is resolved and opened before    *)
(* any of it, save for a contradiction of flags.                           *)

Do(step, on) == [do |-> step, of |-> {on}]

\* A step for each of some, as long as any are left.
Each(step, those) == IF those = {} THEN <<>> ELSE <<[do |-> step, of |-> those]>>

\* status: read-only, every step loads, counts or lists.
StatusSteps == <<Do("config", ""), Do("roots", ""), Do("objects", "")>>

DoctorSteps == <<Do("config", ""), Do("roots", ""), Do("objects", ""), Do("lab", "")>>

LsSteps == <<Do("listing", "row")>>

VerifySteps(ask) == IF ask.id = "every" THEN <<Do("listing", "audit")>>
                    ELSE <<Do("address", ""), Do("audit", ask.id)>>

ShowSteps(ask) == IF ask.json THEN <<Do("address", ""), Do("load", "")>>
                  ELSE <<Do("address", ""), Do("load", ""), Do("names", "")>>

\* The text is judged before the address, and the node is there to be named.
NameSteps == <<Do("text", ""), Do("address", ""), Do("load", ""), Do("subject", "")>>

PublishSteps(ask) == <<Do("address", ""), Do("load", ""), Do("publish", ask.id)>>

PutFileSteps     == <<Do("tag", ""), Do("file", ""), Do("bytes", "")>>
PutDocumentSteps == <<Do("file", ""), Do("document", "")>>

StepsOf(ask) ==
    CASE ask.verb = "status"  -> StatusSteps
      [] ask.verb = "doctor"  -> DoctorSteps
      [] ask.verb = "ls"      -> LsSteps
      [] ask.verb = "verify"  -> VerifySteps(ask)
      [] ask.verb = "show"    -> ShowSteps(ask)
      [] ask.verb = "name"    -> NameSteps
      [] ask.verb = "publish" -> PublishSteps(ask)
      [] ask.verb = "put"     -> IF ask.program THEN PutDocumentSteps ELSE PutFileSteps

Goes(rest) == [call EXCEPT !.todo = rest, !.at = IF rest = <<>> THEN "over" ELSE "work",
                           !.answer = IF rest = <<>> THEN "ok" ELSE "none",
                           !.out = @ \/ rest = <<>>]

Refuses(why) == [call EXCEPT !.todo = <<>>, !.at = "over", !.answer = why]

Doing(step) == call.at = "work" /\ Head(call.todo).do = step

\* What the step is about: the first of those left in the order of a listing.
Precedes(one, other) ==
    one = other \/ \E j, k \in DOMAIN Order : j < k /\ Order[j] = one /\ Order[k] = other

Left == Head(call.todo).of
On   == CHOOSE one \in Left : \A other \in Left : Precedes(one, other)
Rest == Each(Head(call.todo).do, Left \ {On}) \o Tail(call.todo)

Here        == plane[call.place][call.backend]
Kept        == UNCHANGED <<tree, plane, papers, before, meddled, others>>

\* A call into the store that the host fails, while the bound allows one.
Faults == IF call.faults < MaxFaults THEN BOOLEAN ELSE {FALSE}
Faulted(c, fault) == IF fault THEN [c EXCEPT !.faults = @ + 1] ELSE c

\* What the read law answers for an address.
Load(id) == IF id \notin Here.held THEN "absent"
            ELSE IF id \in Here.damaged THEN "damaged" ELSE "ok"

----------------------------------------------------------------------------
(* From the command line to a store.                                       *)

\* The landing page: a verb that looks for no store.
Landing(c) == [c EXCEPT !.at = "over", !.answer = "ok", !.out = TRUE]

\* The contradiction is judged before the store is even resolved.
Begin(ask) ==
    /\ call.at = "prompt"
    /\ LET c == [Prompt EXCEPT !.ask = ask, !.at = "locate"]
       IN  call' = IF ask.verb = "misspelt" THEN [c EXCEPT !.at = "parse"]
                   ELSE IF ask.verb = "help" THEN Landing(c)
                   ELSE IF ask.verb = "put" /\ ask.program /\ ask.tag # "unsaid"
                   THEN [c EXCEPT !.at = "over", !.answer = "KindTagOnProgram"]
                   ELSE c
    /\ Kept

\* Seeded fault: a name that is no store falls back on discovery.
LocateSubstituting ==
    /\ call.at = "locate"
    /\ LET p == IF call.ask.store = "named" /\ call.look = 1 THEN Named ELSE Chain[call.look]
       IN  call' = IF At(p)!IsStoreRoot THEN [call EXCEPT !.place = p, !.at = "open"]
                   ELSE IF call.look < Len(Chain) THEN [call EXCEPT !.look = @ + 1]
                   ELSE Refuses("NoStoreFound")
    /\ Kept

\* A named directory must be a store; otherwise each parent's .cas is looked
\* at in turn.
Locate ==
    /\ call.at = "locate"
    /\ call' = IF call.ask.store = "named"
               THEN IF At(Named)!IsStoreRoot THEN [call EXCEPT !.place = Named, !.at = "open"]
                    ELSE Refuses("NotAStore")
               ELSE IF At(Chain[call.look])!IsStoreRoot
                    THEN [call EXCEPT !.place = Chain[call.look], !.at = "open"]
                    ELSE IF call.look < Len(Chain) THEN [call EXCEPT !.look = @ + 1]
                    ELSE Refuses("NoStoreFound")
    /\ Kept

\* The config decides the backend; opening the database creates what it lacks.
Open ==
    /\ call.at = "open"
    /\ LET config == At(call.place)!ReadConfig
           backend == At(call.place)!BackendOf(config)
       IN  IF config = Unreadable
           THEN call' = Refuses("ConfigUnreadable") /\ UNCHANGED tree
           ELSE /\ call' = [call EXCEPT !.backend = backend, !.at = "work",
                                        !.todo = StepsOf(call.ask)]
                /\ tree' = IF backend = "sqlite" THEN [tree EXCEPT ![call.place].db = TRUE] ELSE tree
    /\ UNCHANGED <<plane, papers, before, meddled, others>>

----------------------------------------------------------------------------
(* Judgements of the arguments, made with the store already open.          *)

Judge(step, holds, why) ==
    Doing(step) /\ call' = (IF holds THEN Goes(Rest) ELSE Refuses(why)) /\ Kept

JudgeTag     == Judge("tag", call.ask.tag \notin {"low", "high"}, "NotAKindTag")
JudgeText    == Judge("text", call.ask.text = "line", "NotAName")
JudgeAddress == Judge("address", call.ask.id # "typo", "InvalidAddress")
JudgeFile    == Judge("file", call.ask.file \notin {"missing", "directory"},
                      IF call.ask.file = "missing" THEN "NoSuchFile" ELSE "NotAFile")

\* The file is read after it was looked at: a locked one is the host's
\* refusal, one gone by now has no curated sentence.
ReadArgument ==
    /\ Doing("bytes") \/ Doing("document")
    /\ \E gone \in Faults :
         call' = Faulted(IF gone THEN Refuses("unexpected")
                         ELSE IF call.ask.file = "locked" THEN Refuses("PermissionDenied")
                         ELSE IF Doing("bytes") THEN Goes(<<Do("admit", call.ask.id)>>)
                         ELSE IF call.ask.file # "document" THEN Refuses("NotAProgramDocument")
                         ELSE Goes([k \in DOMAIN Table |-> Do("admit", Table[k])]), gone)
    /\ Kept

----------------------------------------------------------------------------
(* One node, loaded and re-verified, and what is said about it.            *)

LoadAsked ==
    /\ Doing("load")
    /\ \E broken \in Faults :
         LET verdict == IF broken THEN "broken" ELSE Load(call.ask.id)
         IN  call' = Faulted(IF verdict # "ok" THEN Refuses(verdict)
                             ELSE [Goes(Rest) EXCEPT !.out = @ \/ call.ask.verb = "show"], broken)
    /\ Kept

\* subjectFor: the arm of the annotation plane the stored kind selects.
NameFor(id) == CHOOSE name \in Names : About[name] = id

JudgeSubject ==
    /\ Doing("subject")
    /\ call' = IF Tag[call.ask.id] \in Nameable
               THEN Goes(<<Do("admit", NameFor(call.ask.id)), Do("publish", NameFor(call.ask.id))>>)
               ELSE Refuses("NotNameable")
    /\ Kept

\* Seeded fault: a listing that failed refuses a verb that has answered.
NamesOrRefusal ==
    /\ Doing("names")
    /\ \E broken \in Faults :
         call' = Faulted(IF broken THEN Refuses("unexpected")
                         ELSE Goes(Each("said", Here.roots)), broken)
    /\ Kept

\* The published roots, each read as an annotation; a listing that fails is
\* said in place.
ListNames ==
    /\ Doing("names")
    /\ \E broken \in Faults :
         call' = Faulted([Goes(IF broken THEN <<>> ELSE Each("said", Here.roots))
                             EXCEPT !.got.unread = broken], broken)
    /\ Kept

\* Another kind, another subject, or a load that fails: no annotation.
ReadAnnotation ==
    /\ Doing("said")
    /\ \E broken \in Faults :
         call' = Faulted([Goes(Rest) EXCEPT !.got.rows =
                    IF ~broken /\ Load(On) = "ok" /\ On \in DOMAIN About /\ About[On] = call.ask.id
                    THEN @ \cup {On} ELSE @], broken)
    /\ Kept

----------------------------------------------------------------------------
(* What changes the store.                                                 *)

\* Admission reads every reference; the file backend makes its own layout.
Admit ==
    /\ Doing("admit")
    /\ \E broken \in Faults :
         IF broken \/ On \in Here.damaged \/ ~(Refs[On] \subseteq Here.held \ Here.damaged)
         THEN call' = Faulted(Refuses("inadmissible"), broken) /\ UNCHANGED <<tree, plane>>
         ELSE IF On \in Here.held
         THEN call' = Goes(Rest) /\ UNCHANGED <<tree, plane>>
         ELSE /\ call' = [Goes(Rest) EXCEPT !.wrote = @ \cup {Do("admit", On)}]
              /\ plane' = [plane EXCEPT ![call.place][call.backend].held = @ \cup {On}]
              /\ tree' = IF call.backend = "file" THEN [tree EXCEPT ![call.place].objects = TRUE]
                         ELSE tree
    /\ UNCHANGED <<papers, before, meddled, others>>

Publish ==
    /\ Doing("publish")
    /\ \E broken \in Faults :
         IF broken
         THEN call' = Faulted(Refuses("unexpected"), broken) /\ UNCHANGED <<tree, plane>>
         ELSE /\ call' = [Goes(Rest) EXCEPT !.wrote = @ \cup {Do("publish", On)}]
              /\ plane' = [plane EXCEPT ![call.place][call.backend].roots = @ \cup {On}]
              /\ tree' = IF call.backend = "file" THEN [tree EXCEPT ![call.place].roots = TRUE]
                         ELSE tree
    /\ UNCHANGED <<papers, before, meddled, others>>

----------------------------------------------------------------------------
(* Reports over the store: status, doctor, ls and verify.                  *)

\* The config again, with its own refusal.
ReadConfigAgain ==
    /\ Doing("config")
    /\ call' = IF At(call.place)!ReadConfig = Unreadable THEN Refuses("ConfigUnreadable")
               ELSE [Goes(Rest) EXCEPT !.got.backend =
                        At(call.place)!BackendOf(At(call.place)!ReadConfig)]
    /\ Kept

ListRoots ==
    /\ Doing("roots")
    /\ \E broken \in Faults :
         call' = Faulted(IF broken THEN Refuses("unexpected")
                         ELSE [Goes(Rest) EXCEPT !.got.roots = Cardinality(Here.roots)], broken)
    /\ Kept

InFan(f) == {id \in plane[call.place].file.held : Fan[id] = f}
Fans     == {f \in {Fan[id] : id \in Ids} :
                InFan(f) # {} \/ f \in plane[call.place].file.litter}

\* Only a directory of objects can be walked; what the walk finds in one
\* directory after another are object names, and the scaffolds of puts.  A
\* directory that will not be read is told to nobody: objects/ is then a walk
\* of no directories, and a directory in it one of no objects.
CountObjects ==
    /\ Doing("objects")
    /\ \/ /\ call.got.backend = "file"
          /\ \E broken \in Faults :
               call' = Faulted([Goes(IF broken THEN Rest ELSE Each("fan", Fans) \o Rest)
                                   EXCEPT !.got.objects = 0], broken)
       \/ /\ call.got.backend # "file"
          /\ call' = [Goes(Rest) EXCEPT !.got.objects = Uncounted]
    /\ Kept

\* Seeded fault: every entry of a directory is an object.
CountEntries ==
    /\ Doing("fan")
    /\ call' = [Goes(Rest) EXCEPT !.got.objects = @ + Cardinality(InFan(On))
                   + Cardinality({f \in plane[call.place].file.litter : f = On})]
    /\ Kept

CountFan ==
    /\ Doing("fan")
    /\ \E broken \in Faults :
         LET found == IF broken THEN 0 ELSE Cardinality(InFan(On))
         IN  call' = Faulted([Goes(Rest) EXCEPT !.got.objects = @ + found], broken)
    /\ Kept

\* ls and verify: every published root, sorted, each with its own verdict.
ListEvery ==
    /\ Doing("listing")
    /\ \E broken \in Faults :
         call' = Faulted(IF broken THEN Refuses("unexpected")
                         ELSE Goes(Each(On, Here.roots)), broken)
    /\ Kept

Row(id, verdict, nodes) == [id |-> id, verdict |-> verdict, nodes |-> nodes]

\* A root that will not load is reported in place.
LoadRow ==
    /\ Doing("row")
    /\ \E broken \in Faults :
         LET verdict == IF broken THEN "broken" ELSE Load(On)
         IN  call' = Faulted([Goes(Rest) EXCEPT !.out = TRUE,
                                 !.got.rows = @ \cup {Row(On, verdict, Cardinality(Refs[On]))}], broken)
    /\ Kept

\* verify reads a root and everything below it, one node after another.
BeginAudit ==
    /\ Doing("audit") /\ ~call.got.walking
    /\ call' = [call EXCEPT !.got.walking = TRUE, !.got.next = {On}, !.got.seen = {},
                            !.got.fails = "ok"]
    /\ Kept

\* A node already read is not read again; the first that fails ends the walk.
Visit ==
    /\ Doing("audit") /\ call.got.walking
    /\ \E id \in call.got.next, broken \in Faults :
         LET verdict == IF broken THEN "broken" ELSE Load(id)
             seen    == call.got.seen \cup {id}
         IN  call' = Faulted(
                IF verdict = "ok"
                THEN [call EXCEPT !.got.seen = seen,
                                  !.got.next = (@ \cup Refs[id]) \ seen]
                ELSE [call EXCEPT !.got.next = {}, !.got.fails = verdict], broken)
    /\ Kept

\* Over a named root the refusal is the command's own.
Verdict ==
    /\ Doing("audit") /\ call.got.walking /\ call.got.next = {}
    /\ call' = IF call.ask.id # "every" /\ call.got.fails # "ok" THEN Refuses(call.got.fails)
               ELSE [Goes(Rest) EXCEPT !.out = TRUE, !.got.walking = FALSE, !.got.rows =
                        @ \cup {Row(On, call.got.fails, Cardinality(call.got.seen))}]
    /\ Kept

----------------------------------------------------------------------------
(* doctor: the lab's ledgers, each absent, unreadable or read.             *)

First(positions) == CHOOSE k \in positions : \A j \in positions : k <= j

\* The nearest of the directories above that is a checkout.
Marked(start)  == {k \in DOMAIN Above[start] : papers[Above[start][k]] # NoLab}
FindLab(start) == IF Marked(start) = {} THEN NoLab ELSE Above[start][First(Marked(start))]

\* The lab the store is in, or else the one the caller stands in.
LabFor == IF FindLab(call.place) # NoLab THEN FindLab(call.place) ELSE FindLab("cwd")

FindPapers ==
    /\ Doing("lab")
    /\ call' = IF LabFor = NoLab THEN Goes(<<>>)
               ELSE Goes(<<Do("admission", LabFor), Do("registry", LabFor)>>)
    /\ Kept

\* A file that cannot be read is absent, one that does not decode unreadable;
\* a counter the emitter left out is none, never zero.
Reading(doc) == IF doc = "absent" THEN [state |-> "absent"]
                ELSE IF doc = "garbled" THEN [state |-> "unreadable"]
                ELSE [state |-> "read", counter |-> IF doc = "silent" THEN "none" ELSE doc]

Ledger(stem, reading) == [stem |-> stem, says |-> reading]

\* The admission map is on no registry: it is read whatever the registry says.
ReadAdmission ==
    /\ Doing("admission")
    /\ call' = [Goes(Rest) EXCEPT !.got.ledgers =
                   @ \cup {Ledger("admission", Reading(papers[On].files.admission))}]
    /\ Kept

AtManifest == [state |-> "unreadable"]

\* A registry that is not there, or does not decode, makes each ledger it
\* would have placed unreadable at the manifest.
ReadRegistry ==
    /\ Doing("registry")
    /\ call' = IF papers[On].manifest = "decodes"
               THEN [Goes([k \in DOMAIN Stems |-> Do("ledger", Stems[k])]) EXCEPT
                        !.got.lab = On, !.got.placed = papers[On].placed]
               ELSE [Goes(Rest) EXCEPT !.got.ledgers =
                        @ \cup {Ledger(Stems[k], AtManifest) : k \in DOMAIN Stems}]
    /\ Kept

ReadLedger ==
    /\ Doing("ledger")
    /\ call' = [Goes(Rest) EXCEPT !.got.ledgers =
                   @ \cup {Ledger(On, IF On \in call.got.placed
                                      THEN Reading(papers[call.got.lab].files[On])
                                      ELSE AtManifest)}]
    /\ Kept

----------------------------------------------------------------------------
(* A command line the parser would not take (bin/cli/entry.ts).  What it   *)
(* refused arrives as errors in the order of the arguments.                *)

\* A flag left empty, followed by tokens read as short flags: one mistake,
\* a value that begins with a dash.
DashedAt(errors) ==
    {k \in 1..(Len(errors) - 1) : errors[k] = "emptied" /\ errors[k + 1] = "short"}

RunEnd(errors, from) ==
    CHOOSE j \in (from + 1)..Len(errors) :
        /\ \A k \in (from + 1)..j : errors[k] = "short"
        /\ j < Len(errors) => errors[j + 1] # "short"

\* Each complaint as the errors it speaks of; the first such run is one.
Told(errors) ==
    LET dashed == DashedAt(errors)
        at     == IF dashed = {} THEN Len(errors) + 1 ELSE First(dashed)
        end    == IF dashed = {} THEN at ELSE RunEnd(errors, at)
    IN  {<<k, k>> : k \in {j \in DOMAIN errors : j < at \/ j > end}}
        \cup (IF dashed = {} THEN {} ELSE {<<at, end>>})

\* The runner formats its help and logs it; the formatter keeps the document,
\* answers the empty line and arms the console to drop exactly that one.
LogDropping(armed, line) == IF armed /\ line = "" THEN [armed |-> FALSE, out |-> FALSE]
                            ELSE [armed |-> armed, out |-> TRUE]

\* No errors beneath it is help that was asked for: the document is printed.
ShowHelp ==
    /\ call.at = "parse"
    /\ LET logged == LogDropping(TRUE, "")
           asked  == call.ask.errors = <<>>
       IN  call' = [call EXCEPT !.at = "over", !.answer = IF asked THEN "ok" ELSE "misspelt",
                       !.out = logged.out \/ (asked /\ LogDropping(logged.armed, "document").out),
                       !.got.rows = Told(call.ask.errors)]
    /\ Kept

Steps ==
    \/ \E ask \in Asks : Begin(ask)
    \/ ShowHelp
    \/ Locate \/ Open
    \/ JudgeTag \/ JudgeText \/ JudgeAddress \/ JudgeFile \/ ReadArgument
    \/ LoadAsked \/ JudgeSubject \/ ListNames \/ ReadAnnotation
    \/ Admit \/ Publish
    \/ ReadConfigAgain \/ ListRoots \/ CountObjects \/ CountFan
    \/ ListEvery \/ LoadRow \/ BeginAudit \/ Visit \/ Verdict
    \/ FindPapers \/ ReadAdmission \/ ReadRegistry \/ ReadLedger

\* A process that has answered takes no further step.
Exited == call.at = "over" /\ UNCHANGED shellVars

----------------------------------------------------------------------------
(* Everyone else.                                                          *)

Elsewhere ==
    /\ call.at \in {"locate", "open", "work"}
    /\ others < MaxElse
    /\ others' = others + 1

\* Another process puts or publishes, or the disk damages a node.
Changes ==
    {[Here EXCEPT !.held = @ \cup {id}] : id \in {i \in Ids \ Here.held : Refs[i] \subseteq Here.held}}
    \cup {[Here EXCEPT !.roots = @ \cup {id}] : id \in Here.held \ Here.roots}
    \cup {[Here EXCEPT !.damaged = @ \cup {id}] : id \in Here.held \ Here.damaged}

OtherProcess ==
    /\ Elsewhere
    /\ call.backend # "none"
    /\ \E one \in Changes : plane' = [plane EXCEPT ![call.place][call.backend] = one]
    /\ UNCHANGED <<tree, papers, call, before, meddled>>

\* An operator edits the config of a store.
Meddle ==
    /\ Elsewhere
    /\ Cardinality(meddled) < MaxMeddled
    /\ \E p \in Places, file \in EditedFiles :
         /\ At(p)!IsStoreRoot
         /\ tree' = [tree EXCEPT ![p].config = file]
         /\ meddled' = meddled \cup {p}
    /\ UNCHANGED <<plane, papers, call, before>>

\* An emitter writes a ledger anew.
Emit ==
    /\ Elsewhere
    /\ \E d \in DOMAIN papers : papers[d] # NoLab /\
         \E stem \in DOMAIN papers[d].files :
            papers' = [papers EXCEPT ![d].files[stem] = "one"]
    /\ UNCHANGED <<tree, plane, call, before, meddled>>

ShellNext ==
    \/ Steps \/ Exited
    \/ OtherProcess \/ Meddle \/ Emit

----------------------------------------------------------------------------
(***************************************************************************)
(* The store an invocation acts on (store.ts locateStore, layerStoreAt):   *)
(* the one that was named and never another, or the nearest parent's; one  *)
(* that was a store when the invocation began; under the backend its       *)
(* config says and never past a config that will not read; and "init is    *)
(* the only verb that creates a store", whatever path was mistyped.        *)
(***************************************************************************)
Steady(p) == p \notin meddled

RightStore ==
    call.at \notin {"prompt", "parse"} =>
        LET named == call.ask.verb # "help" /\ call.ask.store = "named"
            found == call.place # "none"
        IN  /\ found /\ named => call.place = Named
            /\ found /\ Steady(call.place) => Was(call.place)!IsStoreRoot
            /\ found /\ ~named => \A k \in DOMAIN Chain :
                   (\A j \in 1..k : Chain[j] # call.place) /\ Steady(Chain[k]) =>
                       ~Was(Chain[k])!IsStoreRoot
            /\ call.backend # "none" /\ Steady(call.place) =>
                   /\ Was(call.place)!ReadConfig # Unreadable
                   /\ call.backend = Was(call.place)!BackendOf(Was(call.place)!ReadConfig)
            /\ call.answer = "NotAStore" /\ Steady(Named) => ~Was(Named)!IsStoreRoot
            /\ call.answer = "NoStoreFound" => \A k \in DOMAIN Chain :
                   Steady(Chain[k]) => ~Was(Chain[k])!IsStoreRoot
            /\ \A p \in Places : Steady(p) /\ At(p)!IsStoreRoot => Was(p)!IsStoreRoot

----------------------------------------------------------------------------
(***************************************************************************)
(* A report is true of the store as it stood at some time while the verb   *)
(* ran, although it reads piece by piece while others write: no count      *)
(* above what is there at last, nor, while the host reads every directory, *)
(* below what was there at first; no root left out or listed twice, each   *)
(* verdict the root's own, every name kept and none made up, and each      *)
(* ledger in the state its own file was in.  Names that were not read and  *)
(* a counter that was not written are never told as none, nor is a store   *)
(* whose objects are in a table.                                           *)
(***************************************************************************)
Closed(ids) == \A id \in ids : Refs[id] \subseteq ids
Below(root) == {id \in Ids : \A ids \in SUBSET Ids : root \in ids /\ Closed(ids) => id \in ids}

VerdictTrue(row, over, was, now) ==
    /\ row.verdict = "ok" => over \subseteq now.held /\ over \cap was.damaged = {}
    /\ row.verdict = "damaged" => over \cap now.damaged # {}
    /\ row.verdict = "absent" => ~(over \subseteq was.held)
    /\ row.verdict = "broken" => call.faults > 0

CountsTrue(was, now) ==
    /\ call.got.backend = call.backend
    /\ call.got.roots \in Cardinality(was.roots)..Cardinality(now.roots)
    /\ call.backend = "sqlite" => call.got.objects = Uncounted
    /\ call.backend = "file" =>
         /\ call.got.objects \in 0..Cardinality(now.held)
         /\ call.faults = 0 => Cardinality(was.held) <= call.got.objects

RowsTrue(was, now) ==
    /\ was.roots \subseteq {row.id : row \in call.got.rows}
    /\ {row.id : row \in call.got.rows} \subseteq now.roots
    /\ \A row, twin \in call.got.rows : row.id = twin.id => row = twin
    /\ \A row \in call.got.rows :
         IF call.ask.verb = "ls" THEN VerdictTrue(row, {row.id}, was, now)
         ELSE /\ VerdictTrue(row, Below(row.id), was, now)
              /\ row.verdict = "ok" => row.nodes = Cardinality(Below(row.id))

NamesTrue(was, now) ==
    LET about == {a \in DOMAIN About : About[a] = call.ask.id}
    IN  /\ call.got.rows \subseteq about \cap now.roots \cap now.held
        /\ call.got.unread => call.faults > 0
        /\ call.faults = 0 =>
             (about \cap was.roots \cap was.held) \ now.damaged \subseteq call.got.rows

LedgersTrue ==
    IF LabFor = NoLab THEN call.got.ledgers = {}
    ELSE LET reach  == {"admission"} \cup
                       (IF papers[LabFor].manifest = "decodes" THEN papers[LabFor].placed ELSE {})
         IN  /\ {ledger.stem : ledger \in call.got.ledgers} = Asked
             /\ \A ledger \in call.got.ledgers :
                  IF ledger.stem \in reach
                  THEN ledger.says \in {Reading(before.papers[LabFor].files[ledger.stem]),
                                        Reading(papers[LabFor].files[ledger.stem])}
                  ELSE ledger.says = AtManifest

ReportsTrue ==
    call.at = "over" /\ call.answer = "ok" /\ call.backend # "none" /\ Steady(call.place) =>
        LET was == before.plane[call.place][call.backend]
            now == Here
        IN  CASE call.ask.verb = "status" -> CountsTrue(was, now)
              [] call.ask.verb = "doctor" -> CountsTrue(was, now) /\ LedgersTrue
              [] call.ask.verb = "ls"     -> RowsTrue(was, now)
              [] call.ask.verb = "verify" /\ call.ask.id = "every" -> RowsTrue(was, now)
              [] call.ask.verb = "verify" /\ call.ask.id # "every" ->
                     \E row \in call.got.rows : /\ row.id = call.ask.id /\ row.verdict = "ok"
                                               /\ VerdictTrue(row, Below(row.id), was, now)
                                               /\ row.nodes = Cardinality(Below(row.id))
              [] call.ask.verb = "show"   -> ~call.ask.json => NamesTrue(was, now)
              [] OTHER -> TRUE

----------------------------------------------------------------------------
(***************************************************************************)
(* What an answer commits the invocation to.  A refusal is on stderr alone *)
(* ("stdout is supposed to stay empty so a pipe reading it sees nothing",  *)
(* entry.ts) and has published nothing; a verb that only asks has written  *)
(* nothing; what is published was loaded; a name or a program answered for *)
(* is all there; a sentence nobody wrote is owed to the host alone; and    *)
(* the parser's errors are each told once, a dashed value as one mistake.  *)
(***************************************************************************)
MistakesTold ==
    LET errors == call.ask.errors
        told   == call.got.rows
    IN  /\ \A k \in DOMAIN errors : Cardinality({run \in told : k \in run[1]..run[2]}) = 1
        /\ \A run \in told : run[1] < run[2] =>
             errors[run[1]] = "emptied" /\ \A k \in (run[1] + 1)..run[2] : errors[k] = "short"
        /\ DashedAt(errors) # {} => \E run \in told :
             run[1] = First(DashedAt(errors)) /\ run[2] > run[1]
             /\ (run[2] < Len(errors) => errors[run[2] + 1] # "short")

Written == UNION {step.of : step \in {w \in call.wrote : w.do = "admit"}}
Rooted  == UNION {step.of : step \in {w \in call.wrote : w.do = "publish"}}

OutcomesTold ==
    call.at = "over" =>
        /\ call.out = (call.answer = "ok")
        /\ call.answer # "ok" => Rooted = {}
        /\ call.answer = "unexpected" => call.faults > 0
        /\ call.ask.verb \notin {"put", "name", "publish"} => call.wrote = {}
        /\ call.ask.verb = "misspelt" => MistakesTold
        /\ call.ask.verb = "publish" /\ call.answer = "ok" =>
             /\ call.ask.id \in Here.roots \cap Here.held
             /\ call.ask.id \notin before.plane[call.place][call.backend].damaged
        /\ call.ask.verb = "name" =>
             /\ Written \cup Rooted \subseteq Names
             /\ call.answer = "ok" =>
                  /\ Tag[call.ask.id] \in Nameable
                  /\ NameFor(call.ask.id) \in Here.held \cap Here.roots
                  /\ call.ask.id \in Here.held
        /\ call.ask.verb = "put" /\ call.answer = "ok" =>
             IF call.ask.program THEN \A k \in DOMAIN Table : Table[k] \in Here.held
             ELSE call.ask.id \in Here.held
=============================================================================
