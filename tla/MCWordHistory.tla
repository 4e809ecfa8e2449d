--------------------------- MODULE MCWordHistory ---------------------------
(***************************************************************************)
(* WordHistory with a page limit of two over a word of up to four          *)
(* receipts, marks below, inside and beyond it, and bounds below, at and   *)
(* above the limit.  A behaviour has one audience: any caller of the word, *)
(* the panel, whose pulls are pages from its mark, or the shell, whose     *)
(* verbs read and write the store beside the word.                         *)
(*                                                                         *)
(* The shell's stores hold two nodes and two annotations of one of them;   *)
(* the named directory, the working directory and its parent are stores,   *)
(* half stores or nothing.                                                 *)
(***************************************************************************)
EXTENDS Panel, Shell, TLC

VARIABLE audience

MCReaders == {1}
MCMarks   == {-1, 0, 1, 3, 6}
MCLimits  == {0, 1, 3}
MCLaneOf  == 0 :> 0 @@ 1 :> 2 @@ 2 :> 0 @@ 3 :> 0
MCViews   == {[top |-> -40, height |-> 20], [top |-> -333, height |-> 1]}

MCChain  == <<"here", "up">>
MCOrder  == <<"f1", "f2", "leaf", "name", "remark", "top">>
MCRefs   == "leaf" :> {} @@ "name" :> {"leaf"} @@ "remark" :> {"leaf"} @@ "top" :> {"leaf"}
MCTag    == "leaf" :> "blob" @@ "name" :> "said" @@ "remark" :> "said" @@ "top" :> "term"
MCAbout  == "name" :> "leaf" @@ "remark" :> "leaf"
MCTable  == <<"leaf", "top">>
MCFan    == "leaf" :> "f1" @@ "name" :> "f2" @@ "remark" :> "f1" @@ "top" :> "f2"
MCAbove  == "named" :> <<"lab", "root">> @@ "here" :> <<"cwd", "root">>
            @@ "up" :> <<"root">> @@ "cwd" :> <<"cwd", "root">>
MCStems  == <<"tally">>

Says(b) == [says |-> [backend |-> b, serve |-> "serve"], readable |-> TRUE]
Broken  == [says |-> Garbled, readable |-> TRUE]
Locked  == [says |-> [backend |-> "file", serve |-> "serve"], readable |-> FALSE]
Stands(config, objects, db) ==
    [config |-> config, objects |-> objects, roots |-> objects, db |-> db]
Void    == Stands(NoFile, FALSE, FALSE)

Standing(named, here, up) == "named" :> named @@ "here" :> here @@ "up" :> up

NamedFile   == Standing(Stands(Says("file"), TRUE, FALSE), Void, Stands(Says("sqlite"), FALSE, TRUE))
HalfMade    == Standing(Void, Stands(Broken, FALSE, FALSE), Stands(NoFile, TRUE, FALSE))
OldObjects  == Standing(Stands(Broken, FALSE, TRUE), Stands(Says("sqlite"), TRUE, FALSE), Void)
LockedOnly  == Standing(Stands(Locked, TRUE, FALSE), Void, Void)

Holding(nodes, bad, listed) ==
    [p \in {"named", "here", "up"} |-> [b \in {"file", "sqlite"} |->
        [held |-> nodes, damaged |-> bad, roots |-> listed, litter |-> {"f1"}]]]

Spoken  == Holding({"leaf", "name", "remark"}, {}, {"leaf", "name"})
Damaged == Holding({"leaf", "top", "name"}, {"leaf"}, {"name", "top"})
Whole   == Holding({"leaf", "top"}, {}, {"top"})
Bare    == Holding({}, {}, {"top"})

Lab(manifest, admission, tally, placed) ==
    [manifest |-> manifest, placed |-> placed,
     files |-> "admission" :> admission @@ "tally" :> tally]
Checkouts(lab, cwd) == "lab" :> lab @@ "cwd" :> cwd @@ "root" :> NoLab

NoPapers == Checkouts(NoLab, NoLab)
Inner    == Checkouts(Lab("decodes", "garbled", "silent", {"tally"}), Lab("absent", "one", "one", {}))
Beside   == Checkouts(NoLab, Lab("decodes", "absent", "one", {"tally"}))
Unplaced == Checkouts(Lab("garbled", "silent", "one", {"tally"}), NoLab)

World(trees, planes, labs) == [tree |-> trees, plane |-> planes, papers |-> labs]

MCWorlds == {World(NamedFile, Spoken, Inner), World(NamedFile, Damaged, Unplaced),
             World(HalfMade, Bare, Beside), World(HalfMade, Whole, NoPapers),
             World(OldObjects, Spoken, Beside), World(LockedOnly, Bare, NoPapers)}

Asking(verb, store, id) ==
    [verb |-> verb, store |-> store, id |-> id, text |-> "line", tag |-> "unsaid",
     file |-> "bytes", program |-> FALSE, json |-> FALSE, errors |-> <<>>]

Plain(verb, ids) == {Asking(verb, store, id) : store \in {"named", "found"}, id \in ids}

MCAsks ==
    Plain("status", {"every"}) \cup Plain("doctor", {"every"}) \cup Plain("ls", {"every"})
    \cup Plain("verify", {"every", "top", "typo"})
    \cup Plain("show", {"leaf", "typo"}) \cup Plain("publish", {"leaf", "top"})
    \cup Plain("name", {"leaf", "top"}) \cup Plain("put", {"leaf"})
    \cup {[Asking("show", "found", "leaf") EXCEPT !.json = TRUE],
          [Asking("name", "named", "leaf") EXCEPT !.text = "lines"],
          [Asking("put", "named", "leaf") EXCEPT !.tag = "low"],
          [Asking("put", "named", "top") EXCEPT !.program = TRUE, !.tag = "1"],
          [Asking("help", "found", "every") EXCEPT !.json = FALSE]}
    \cup {[Asking("put", "named", "leaf") EXCEPT !.file = file] :
                file \in {"missing", "directory", "locked"}}
    \cup {[Asking("put", "named", "top") EXCEPT !.program = TRUE, !.file = file] :
                file \in {"bytes", "document"}}
    \cup {[Asking("misspelt", "found", "every") EXCEPT !.errors = errors] :
                errors \in UNION {[1..n -> {"emptied", "short", "other"}] : n \in 0..4}}

MCEdited == {NoFile, Broken, Says("sqlite")}

AllInit ==
    /\ Init /\ PanelInit /\ ShellInit
    /\ audience \in {"callers", "panel", "shell"}
    /\ audience # "callers" => realization = "whole" /\ length = 1
    /\ audience # "shell" => before = World(LockedOnly, Bare, NoPapers)

Callers == audience = "callers" /\ Next /\ UNCHANGED <<panelVars, shellVars, audience>>

AtPanel == audience = "panel" /\ PanelNext /\ UNCHANGED <<shellVars, audience>>

AtShell == audience = "shell" /\ ShellNext /\ UNCHANGED <<vars, panelVars, audience>>

AllNext == Callers \/ AtPanel \/ AtShell

allVars == <<vars, panelVars, shellVars, audience>>

AllSpec == AllInit /\ [][AllNext]_allVars

FairAllSpec ==
    AllSpec /\ \A r \in Readers : WF_allVars((ReadPage(r) \/ ReadHeads(r)) /\ AllNext)
============================================================================
