---------------------------- MODULE MCServeHost ----------------------------
(***************************************************************************)
(* A leaf, a note about it, a large node, a stored program that puts it,   *)
(* and a small node with many references.  One fiber serves any of the     *)
(* probes, which take the door, the law and the caps through every clause; *)
(* the others keep the gates busy.                                         *)
(***************************************************************************)
EXTENDS ServeHost, FrontDoor, TLC

CONSTANTS leaf, note, large, prog, bulky, m1, m2, e1, e2

MCNodes  == {leaf, note, large, prog, bulky, Junk}
MCSize   == leaf :> 1 @@ note :> 1 @@ large :> 4 @@ prog :> 2 @@ bulky :> 1 @@ Junk :> 1
MCRefs   == leaf :> {} @@ note :> {leaf} @@ large :> {} @@ prog :> {} @@ Junk :> {}
         @@ bulky :> {leaf, note}
MCNameable == {leaf, note}
Puts(n)  == [do |-> "put", node |-> n]
Loads(n) == [do |-> "load", node |-> n]
MCTables == prog :> <<Puts(leaf), Loads(leaf), Puts(large)>>
MCSeeds  == {{prog}}

Open   == [anonymousReads |-> TRUE, maxNodeBytes |-> 9, maxInFlight |-> 1, maxBatchKeys |-> 1]
Closed == [Open EXCEPT !.anonymousReads = FALSE]
MCPolicies == {Open, Closed}
MCEdited == {[says |-> [backend |-> "file", serve |-> Closed], readable |-> r] : r \in BOOLEAN}
       \cup {[says |-> Garbled, readable |-> TRUE]}
MCWirePolicies == {[maxNodeBytes |-> 2, maxInFlight |-> 1, maxBatchKeys |-> 1,
                    credential |-> TRUE, anonymousReads |-> a] : a \in BOOLEAN}

Get == [host |-> "own", origin |-> "absent", method |-> "GET", asks |-> FALSE,
        path |-> "node", profile |-> TRUE, auth |-> "absent", octet |-> TRUE, body |-> "none",
        id |-> leaf, keys |-> {}, bytes |-> leaf, tool |-> "tools/list", lines |-> <<>>,
        query |-> <<>>]
Put == [Get EXCEPT !.method = "PUT", !.body = "node"]
PutNote == [Put EXCEPT !.id = note, !.bytes = note]
PutRoot == [Get EXCEPT !.method = "PUT", !.path = "root", !.body = "keys", !.keys = {note}]
Since == [key |-> "since", raw |-> "numeral"]
Limit == [Since EXCEPT !.key = "limit"]
Other == [Since EXCEPT !.key = "other"]
Alias == [Since EXCEPT !.raw = "alias"]
Tool == [Get EXCEPT !.method = "POST", !.path = "mcp"]

Doors == {[[Put EXCEPT !.host = h] EXCEPT !.origin = o] :
            h \in {"absent", "own", "extra", "foreign"},
            o \in {"absent", "self", "listed", "other"}}
    \cup {[Put EXCEPT !.origin = "listed", !.method = "OPTIONS", !.asks = a] : a \in BOOLEAN}
Laws == {[f EXCEPT !.profile = FALSE] : f \in {Get, Put}}
    \cup {[[f EXCEPT !.auth = a] EXCEPT !.octet = o] : f \in {Get, Put, PutRoot},
            a \in {"absent", "scheme", "right", "wrong"}, o \in BOOLEAN}
    \cup {[f EXCEPT !.method = "POST"] : f \in {Get, PutRoot}}
    \cup {[Get EXCEPT !.path = p] : p \in {"capabilities", "unknown", "metrics", "history", "root"}}
    \cup {[Put EXCEPT !.path = "history"]}
    \cup {[Get EXCEPT !.path = "history", !.query = q] : q \in
            {<<Since>>, <<Since, Limit>>, <<Since, Since>>, <<Limit, Other>>, <<Alias>>}}
    \cup {[Get EXCEPT !.path = "missing", !.method = "POST", !.body = "keys", !.keys = k] :
            k \in {{leaf}, {leaf, note}}}
    \cup {[PutRoot EXCEPT !.body = "node"], [Put EXCEPT !.body = "keys"]}
Caps == {[Put EXCEPT !.id = large, !.bytes = large], [Put EXCEPT !.id = note],
         [Put EXCEPT !.id = Junk, !.bytes = Junk], PutNote}
    \cup {[Tool EXCEPT !.tool = "cas_put", !.lines = <<Puts(n)>>] : n \in {leaf, large, bulky}}
    \cup {[Tool EXCEPT !.tool = "cas_run", !.lines = p] : p \in
            {<<Puts(large), Puts(leaf)>>, <<Loads(note), Puts(leaf)>>, <<Loads(Junk)>>}}

Busy == {[Tool EXCEPT !.tool = "cas_run", !.lines = <<Puts(leaf), Puts(note)>>],
         [Tool EXCEPT !.tool = "cas_run_ref", !.id = prog],
         [Tool EXCEPT !.tool = "cas_publish_root", !.id = note],
         Put, PutRoot}
Shell == {[verb |-> v, id |-> leaf, note |-> note] : v \in {"put", "name", "show"}}
    \cup {[verb |-> "name", id |-> prog, note |-> note]}
    \cup {[verb |-> "run", id |-> prog, note |-> note],
          [verb |-> "publish", id |-> note, note |-> note],
          [verb |-> "ls", id |-> leaf, note |-> note]}
Also == {[Tool EXCEPT !.tool = t] : t \in {"cas_load", "cas_list_roots", "tools/list", "cas_run"}}

MCRequests == e1 :> Doors \cup Laws \cup Caps \cup Shell \cup Also
           @@ e2 :> Busy

-----------------------------------------------------------------------------
\* Headers and queries as they are spelled.
MCUpper == "bound" :> "BOUND" @@ "extra" :> "EXTRA" @@ "strange" :> "STRANGE"
        @@ "localhost" :> "LOCALHOST" @@ "http" :> "HTTP" @@ "https" :> "HTTPS"
Bracketed(tokens) == <<"[">> \o tokens \o <<"]">>
MCSpelling == "bound" :> <<"bound">> @@ "extra" :> <<"extra">> @@ "strange" :> <<"strange">>
           @@ "localhost" :> <<"localhost">> @@ "127.0.0.1" :> <<"127.0.0.1">>
           @@ "::1" :> Bracketed(<<":", ":", "1">>)
           @@ "v6" :> Bracketed(<<"fe80", ":", ":", "1">>)
           @@ "other6" :> Bracketed(<<"fe80", ":", ":", "2">>)
           @@ "open" :> <<"[", ":", ":", "1">> @@ "" :> <<>>

Looks == {"plain", "upper", "padded"}
Ports == {{}, {"80"}}
HostMeaning(names, ports, looks) == [name : names, port : ports, look : looks]
OriginMeaning(names, ports, looks) ==
    [scheme : {"http", "https"}, name : names, port : ports, look : looks]
Of(kind) == {{m} : m \in kind}
NullOrigin == [scheme |-> "null", name |-> "", port |-> {}, look |-> "plain"]

Bare == [bind |-> [name |-> "bound", port |-> {}, look |-> "plain"], hosts |-> {}, origins |-> {},
         port |-> {}, files |-> "tools" :> "readable" @@ "index" :> "unreadable" @@ "env" :> "absent",
         host |-> {}, origin |-> {}, method |-> "GET", asks |-> FALSE, wants |-> {},
         path |-> <<"node">>, query |-> <<>>, read |-> TRUE]
Options ==
    {Bare,
     [Bare EXCEPT !.bind.look = "upper", !.port = {"80"},
        !.hosts = HostMeaning({"extra"}, {{"80"}}, {"upper"}),
        !.origins = {[scheme |-> "https", name |-> "extra", port |-> {}, look |-> "padded"],
                     [scheme |-> "http", name |-> "strange", port |-> {"80"}, look |-> "upper"]}],
     [Bare EXCEPT !.bind.name = "localhost", !.port = {"80"},
        !.hosts = HostMeaning({"v6"}, {{}}, {"plain"}),
        !.origins = {[scheme |-> "http", name |-> "v6", port |-> {}, look |-> "plain"]}]}
Headers ==
    {[[b EXCEPT !.host = h] EXCEPT !.origin = o] : b \in Options,
        h \in {{}} \cup Of(HostMeaning({"bound", "localhost", "::1", "extra", "v6", "other6"}, Ports, Looks))
                  \cup Of(HostMeaning({"127.0.0.1", "strange", "open", ""}, Ports, {"plain"})),
        o \in {{}, {NullOrigin}}
                  \cup Of(OriginMeaning({"bound", "localhost", "::1", "extra", "strange", "v6"}, Ports, {"plain", "upper"}))}
Asking ==
    {[[[[b EXCEPT !.method = m] EXCEPT !.asks = a] EXCEPT !.wants = w] EXCEPT !.origin = o] :
        b \in Options, m \in {"GET", "PUT", "OPTIONS"}, a \in BOOLEAN, w \in {{}, {"x"}},
        o \in {{}} \cup Of(OriginMeaning({"bound", "extra", "strange"}, Ports, {"plain"}))}
Planes ==
    {[[[[b EXCEPT !.path = p] EXCEPT !.host = h] EXCEPT !.origin = o] EXCEPT !.method = m] :
        b \in Options, m \in {"GET", "POST"},
        p \in {<<"mcp">>, <<"metrics">>, <<"history">>, <<"projections">>, <<>>, <<"mcp", "x">>}
            \cup {<<"projections", n>> : n \in {"tools", "index", "env", "other"}},
        h \in {{}} \cup Of(HostMeaning({"bound", "extra", "strange"}, {{}}, {"plain"})),
        o \in {{}} \cup Of(OriginMeaning({"bound", "extra", "strange"}, {{}}, {"plain"}))}
Raws == {<<>>, <<0>>, <<5>>, <<1, 2>>, <<2, 0>>, <<2, 1>>, <<0, 5>>, <<Minus, 5>>, <<Plus, 5>>,
         <<Escaped(5)>>, <<1, Escaped(2)>>, <<Letter>>, <<5, Space>>}
Parameter == [key : {"since", "limit"}, raw : Raws]
        \cup [key : {"from", "column"}, raw : {<<5>>}]
Queries ==
    {[[[Bare EXCEPT !.path = <<"history">>] EXCEPT !.query = q] EXCEPT !.read = r] :
        q \in {<<>>} \cup {<<p>> : p \in Parameter} \cup {<<p, q>> : p, q \in Parameter}, r \in BOOLEAN}

MCAsked == Headers \cup Asking \cup Planes \cup Queries

MCInit == Init /\ FrontDoorInit
MCNext == \/ Answered /\ UNCHANGED vars
          \/ asked = NothingAsked /\ Next /\ UNCHANGED asked
MCSpec == MCInit /\ [][MCNext]_<<vars, asked>> /\ Fairness
=============================================================================
