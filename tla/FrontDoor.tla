------------------------------ MODULE FrontDoor ------------------------------
(***************************************************************************)
(* What the daemon's port makes of headers and queries as they are spelled *)
(* (bin/mcp/http.ts): the front door over raw Host and Origin headers, the *)
(* refusals in the medium of each plane, the headers a page is given, and  *)
(* the planes that are read by GET, the projections and the history.       *)
(*                                                                         *)
(* A header is a sequence of tokens: words, ports, and the marks that part *)
(* them.  A header a request may lack is a set of at most one.  A numeral  *)
(* is a sequence of characters, a digit standing for itself.  What a Host  *)
(* and an Origin MEAN is what WireLaw's door reads.                        *)
(***************************************************************************)
EXTENDS WireLaw

CONSTANTS
    Upper,          \* a word |-> the same word in other case
    Spelling,       \* a host's name |-> its tokens in a header
    Artifacts,      \* the emitted documents the daemon serves
    MaxSafeInteger,
    Asked           \* what is asked: the operator's options, the meaning of
                    \* the headers, and the request

VARIABLE asked

NothingAsked == [request |-> "none"]

The(optional) == CHOOSE header \in optional : TRUE

-----------------------------------------------------------------------------
(* Names and origins.                                                      *)

\* The word in the one case every comparison is made in.
FoldWord(token) ==
    IF \E word \in DOMAIN Upper : Upper[word] = token
    THEN CHOOSE word \in DOMAIN Upper : Upper[word] = token
    ELSE token

Trimmed(header) ==
    LET kept == {k \in DOMAIN header : header[k] # " "}
    IN  IF kept = {} THEN <<>> ELSE SubSeq(header, Min(kept), Max(kept))

OriginKey(header) == [k \in DOMAIN Trimmed(header) |-> FoldWord(Trimmed(header)[k])]

\* Seeded fault: the name ends at the last colon, and a bracket is like any token.
HostNameToLastColon(header) ==
    LET colon == SelectLastInSeq(OriginKey(header), LAMBDA t : t = ":")
    IN  IF colon = 0 THEN OriginKey(header) ELSE SubSeq(OriginKey(header), 1, colon - 1)

\* The name without its port: up to the bracket that closes it, or else up to
\* the first colon.
HostName(header) ==
    LET folded    == OriginKey(header)
        bracketed == folded # <<>> /\ folded[1] = "["
        closing   == SelectInSeq(folded, LAMBDA t : t = "]")
        colon     == SelectInSeq(folded, LAMBDA t : t = ":")
    IN  CASE bracketed /\ closing > 0  -> SubSeq(folded, 1, closing)
          [] ~bracketed /\ colon > 0   -> SubSeq(folded, 1, colon - 1)
          [] OTHER                     -> folded

\* What follows "://", or the whole where there is none.
OriginHost(header) ==
    LET folded == OriginKey(header)
        scheme == {k \in DOMAIN folded : k < Len(folded) /\ SubSeq(folded, k, k + 1) = <<":", "//">>}
    IN  IF scheme = {} THEN folded ELSE SubSeq(folded, Min(scheme) + 2, Len(folded))

LoopbackHosts == {<<"127.0.0.1">>, <<"localhost">>, <<":", ":", "1">>, <<"[", ":", ":", "1", "]">>}

OwnHosts(told)       == LoopbackHosts \cup {HostName(told.bind)}
AllowedHosts(told)   == OwnHosts(told) \cup {HostName(h) : h \in told.hosts}
AllowedOrigins(told) == {OriginKey(o) : o \in told.origins}

\* The list the adapter of /mcp compares with literally: the operator's, and
\* the daemon's own in its loopback spellings where the port is fixed.
AdapterOrigins(told) ==
    AllowedOrigins(told) \cup
        {<<"http", ":", "//">> \o name \o <<":", port>> :
            name \in {HostName(told.bind), <<"localhost">>, <<"127.0.0.1">>},
            port \in told.port}

-----------------------------------------------------------------------------
(* The door.                                                               *)

OwnPage(told, r) ==
    /\ r.origin # {} /\ r.host # {}
    /\ HostName(The(r.host)) \in OwnHosts(told)
    /\ OriginHost(The(r.origin)) = OriginKey(The(r.host))

DecideDoor(told, r) ==
    CASE r.host # {} /\ HostName(The(r.host)) \notin AllowedHosts(told) -> "RefusedHost"
      [] OTHER ->
            CASE r.origin # {} /\ ~OwnPage(told, r)
                    /\ OriginKey(The(r.origin)) \notin AllowedOrigins(told) -> "RefusedOrigin"
              [] OTHER -> IF r.origin # {} /\ r.method = "OPTIONS" /\ r.asks
                          THEN "Preflight" ELSE "Pass"

-----------------------------------------------------------------------------
(* Answers.  A medium "none" is an answer without a body; the status 0    *)
(* and the medium "own" are what the plane's own law decides.              *)

Plain == [status |-> 0, media |-> "own", allowOrigin |-> {}, allowHeaders |-> {},
          vary |-> {}, allow |-> {}, cache |-> "unsaid", says |-> <<>>]

PlaneOf(path) ==
    IF path \in {<<"mcp">>, <<"metrics">>, <<"history">>} \/ (path # <<>> /\ path[1] = "projections")
    THEN path[1] ELSE "cas-http/0"

Medium(plane) ==
    CASE plane = "cas-http/0" -> "none"
      [] plane = "metrics"    -> "text"
      [] OTHER                -> "json"

RefusedResponse(plane, status) == [Plain EXCEPT !.status = status, !.media = Medium(plane)]

DefaultHeaders == {"the headers this port knows"}

\* What a page wants to send is echoed, so the answer depends on it.
PreflightResponse(r) ==
    [Plain EXCEPT !.status = 204, !.media = "none", !.allowOrigin = r.origin,
                  !.allowHeaders = IF r.wants # {} THEN r.wants ELSE DefaultHeaders,
                  !.vary = {"origin", "asks", "wants"}]

CorsHeaders(answer, origin) == [answer EXCEPT !.allowOrigin = origin, !.vary = {"origin"}]

-----------------------------------------------------------------------------
(* The history's query, as URLSearchParams decodes it.                     *)

Plus    == 10
Space   == 11
Minus   == 12
Letter  == 13
Escaped(c) == 20 + c

Unescaped(c) == CASE c = Plus -> Space [] c >= 20 -> c - 20 [] OTHER -> c
Decoded(raw) == [k \in DOMAIN raw |-> Unescaped(raw[k])]

WireNumeral(text) ==
    \/ text = <<0>>
    \/ /\ text # <<>> /\ text[1] \in 1..9
       /\ \A k \in DOMAIN text : text[k] \in 0..9

Number(text) == FoldLeft(LAMBDA sum, digit : 10 * sum + digit, 0, text)

Numeral(text) == WireNumeral(text) /\ Number(text) <= MaxSafeInteger

HistoryKeys == {"since", "limit"}

\* The keys are judged in the order they come, then the values.
QueryRefusal(query) ==
    LET unknown  == {k \in DOMAIN query : query[k].key \notin HistoryKeys}
        repeated == {k \in DOMAIN query : \E j \in 1..(k - 1) : query[j].key = query[k].key}
        amiss    == {k \in DOMAIN query : ~Numeral(Decoded(query[k].raw))}
    IN  IF unknown \cup repeated # {}
        THEN LET first == query[Min(unknown \cup repeated)].key
             IN  CASE first \in HistoryKeys    -> "repeatedKey"
                   [] first \in {"from", "to"} -> "deferredKey"
                   [] OTHER                    -> "unknownKey"
        ELSE IF amiss # {} THEN "notANumeral" ELSE "none"

\* An absent mark is zero; an absent limit is left to the log.
ValueOf(query, key) == {Number(Decoded(query[k].raw)) : k \in {j \in DOMAIN query : query[j].key = key}}
DecodeHistoryQuery(query) ==
    [since |-> IF ValueOf(query, "since") = {} THEN {0} ELSE ValueOf(query, "since"),
     limit |-> ValueOf(query, "limit")]

\* The log's own refusal and its page are those of the read at that mark.
HistoryAnswer(r) ==
    CASE r.method # "GET" -> [RefusedResponse("history", 405) EXCEPT !.allow = {"GET"}]
      [] r.method = "GET" /\ (QueryRefusal(r.query) # "none" \/ ~r.read) ->
            RefusedResponse("history", 400)
      [] OTHER -> [Plain EXCEPT !.status = 200, !.media = "json", !.cache = "no-cache",
                                !.says = <<DecodeHistoryQuery(r.query)>>]

-----------------------------------------------------------------------------
(* The projections, each read from disk when it is asked for.              *)

ProjectionSources == Artifacts

Projection(files, name) ==
    IF files[name] = "readable"
    THEN [Plain EXCEPT !.status = 200, !.media = "json", !.cache = "no-cache", !.says = <<name>>]
    ELSE RefusedResponse("projections", 404)

ProjectionIndex(files) ==
    [Plain EXCEPT !.status = 200, !.media = "json", !.cache = "no-cache",
                  !.says = <<{name \in ProjectionSources : files[name] # "absent"}>>]

\* Static routes win over the wildcard for the methods they are added for.
Handler(files, r) ==
    CASE r.path = <<"history">> -> HistoryAnswer(r)
      [] r.path = <<"projections">> /\ r.method = "GET" -> ProjectionIndex(files)
      [] r.method = "GET" /\ \E name \in ProjectionSources : r.path = <<"projections", name>> ->
            Projection(files, r.path[2])
      [] OTHER -> Plain

Response(told, r) ==
    LET decision == DecideDoor(told, r)
    IN  CASE decision = "Preflight" -> PreflightResponse(r)
          [] decision \in {"RefusedHost", "RefusedOrigin"} -> RefusedResponse(PlaneOf(r.path), 403)
          [] decision = "Pass" /\ r.origin = {} -> Handler(told.files, r)
          [] OTHER -> CorsHeaders(Handler(told.files, r), r.origin)

-----------------------------------------------------------------------------
(* Spelled: an option or a header that means a name, with or without a     *)
(* port, in lower case, in other case, or padded.                          *)

Looked(look, header) ==
    CASE look = "upper"  -> [k \in DOMAIN header |->
                                IF header[k] \in DOMAIN Upper THEN Upper[header[k]] ELSE header[k]]
      [] look = "padded" -> <<" ">> \o header \o <<" ">>
      [] OTHER           -> header

Authority(name, port) == Spelling[name] \o (IF port = {} THEN <<>> ELSE <<":", The(port)>>)
HostSpelled(h)   == Looked(h.look, Authority(h.name, h.port))
OriginSpelled(o) == IF o.scheme = "null" THEN <<"null">>
                    ELSE Looked(o.look, <<o.scheme, ":", "//">> \o Authority(o.name, o.port))

Told(a) == [bind |-> HostSpelled(a.bind), hosts |-> {HostSpelled(h) : h \in a.hosts},
            origins |-> {OriginSpelled(o) : o \in a.origins}, port |-> a.port, files |-> a.files]
Raw(a)  == [host |-> {HostSpelled(h) : h \in a.host}, origin |-> {OriginSpelled(o) : o \in a.origin},
            method |-> a.method, asks |-> a.asks, wants |-> a.wants, path |-> a.path,
            query |-> a.query, read |-> a.read]

FrontDoorInit == asked \in Asked \cup {NothingAsked}
Answered      == asked # NothingAsked /\ asked' = NothingAsked

-----------------------------------------------------------------------------
\* What the headers mean, whatever the case, the port and the padding.
IsOwnName(a, name) == name \in {"127.0.0.1", "localhost", "::1", a.bind.name}
Same(o, other)     == o.scheme = other.scheme /\ o.name = other.name /\ o.port = other.port

HostMeant(a) ==
    IF a.host = {} THEN "absent"
    ELSE IF IsOwnName(a, The(a.host).name) THEN "own"
    ELSE IF \E h \in a.hosts : h.name = The(a.host).name THEN "extra"
    ELSE "foreign"

OriginMeant(a) ==
    IF a.origin = {} THEN "absent"
    ELSE IF \E o \in a.origins : Same(o, The(a.origin)) THEN "listed"
    ELSE IF /\ a.host # {} /\ The(a.origin).scheme # "null"
            /\ The(a.origin).name = The(a.host).name /\ The(a.origin).port = The(a.host).port
         THEN "self"
    ELSE "other"

Meant(a) == [host |-> HostMeant(a), origin |-> OriginMeant(a), method |-> a.method, asks |-> a.asks]

\* The door over spelled headers decides what the door over their meaning
\* decides: no case, port or padding lets a stranger in or keeps out a name
\* this host answers on.
DecidesMeaning(a) == DecideDoor(Told(a), Raw(a)) = Door(Meant(a))

\* What the door refuses is said in the medium of the plane that was asked,
\* bare on the byte plane, and no page is told that it may read it.
RefusalsPlain(a) ==
    Door(Meant(a)) \in {"RefusedHost", "RefusedOrigin"} =>
        LET answer == Response(Told(a), Raw(a))
        IN  /\ answer.status = 403 /\ answer.allowOrigin = {}
            /\ answer.media = CASE a.path \in {<<"mcp">>, <<"history">>} -> "json"
                                [] a.path = <<"metrics">> -> "text"
                                [] a.path # <<>> /\ a.path[1] = "projections" -> "json"
                                [] OTHER -> "none"

\* What a page was answered is never given to another request that it does
\* not answer, by a cache that keys on what the answer says it varies with.
\* A preflight is the one answer to OPTIONS that may be kept.
NotConfused(a) ==
    LET r      == Raw(a)
        answer == Response(Told(a), r)
    IN  answer.allowOrigin # {} /\ (a.method = "GET" \/ DecideDoor(Told(a), r) = "Preflight") =>
            \A other \in {[r EXCEPT !.asks = asks, !.wants = wants, !.origin = origin] :
                              asks \in BOOLEAN, wants \in {{}, {"x"}, {"y"}},
                              origin \in {{}, r.origin} \cup {{OriginSpelled(o)} : o \in a.origins}} :
                (\A header \in answer.vary : other[header] = r[header])
                    => Response(Told(a), other) = answer

\* A page the operator named, or the daemon's own at a fixed port, is let in
\* by the adapter too, in the spelling browsers use.
AdapterAgrees(a) ==
    \A o \in a.origin :
        /\ o.look = "plain"
        /\ \/ OriginMeant(a) = "listed"
           \/ /\ OriginMeant(a) = "self" /\ o.scheme = "http"
              /\ a.port # {} /\ o.port = a.port
              /\ o.name \in {"127.0.0.1", "localhost", a.bind.name}
        => OriginSpelled(o) \in AdapterOrigins(Told(a))

Plainly(query) ==
    [k \in DOMAIN query |->
        [query[k] EXCEPT !.raw = [c \in DOMAIN query[k].raw |-> Unescaped(query[k].raw[c])]]]

\* A page of history answers every parameter that came with the question, each
\* of which has one spelling once it is decoded; an artifact is served as a fact about the disk.
NothingIgnored(a) ==
    LET answer == Handler(a.files, Raw(a))
    IN  /\ answer = Handler(a.files, [Raw(a) EXCEPT !.query = Plainly(a.query)])
        /\ a.path = <<"history">> /\ answer.status = 200 =>
               \A k \in DOMAIN a.query :
                  LET text == Decoded(a.query[k].raw)
                  IN  /\ a.query[k].key \in HistoryKeys
                      /\ answer.says[1][a.query[k].key] = {Number(text)}
                      /\ \A j \in DOMAIN a.query :
                            Number(Decoded(a.query[j].raw)) = Number(text) =>
                                Decoded(a.query[j].raw) = text
        /\ a.path = <<"history">> /\ a.query = <<>> /\ a.method = "GET" /\ a.read =>
               answer.status = 200 /\ answer.says[1].since = {0}
        /\ answer.says # <<>> /\ a.path = <<"projections">> =>
               \A name \in Artifacts \ answer.says[1] :
                   Projection(a.files, name).status = 404

FrontDoorExact ==
    asked # NothingAsked =>
        /\ DecidesMeaning(asked) /\ RefusalsPlain(asked) /\ NotConfused(asked)
        /\ AdapterAgrees(asked) /\ NothingIgnored(asked)
=============================================================================
