------------------------------ MODULE HttpRouting ------------------------------
(***************************************************************************)
(* The HTTP surface of server.go: which handler a request gets to, what it *)
(* answers, and what the log says of it.  Requests do not touch each       *)
(* other here, so there is one at a time; what a frame does after          *)
(* handleBinaryHTTP or over a WebSocket is in ServerBridge, ClientBridge   *)
(* and CardExchange.                                                       *)
(*                                                                         *)
(* A text is a sequence of characters.  The client escapes what it asks    *)
(* for, net/http decodes the path before the handlers see it.              *)
(***************************************************************************)
EXTENDS Integers, Sequences, FiniteSets, SequencesExt

CONSTANTS
    Chars,    \* what texts are made of
    Configs,  \* resolved configurations
    Requests, \* what clients may send
    Stores    \* what the store says of a read: a code, and the value if there is one

\* "invalid" stands for what is no text.
ASSUME CharsAssumption ==
    "invalid" \notin Chars /\ {"%", "/", " ", "0", "2", "5", "F"} \subseteq Chars

Texts == Seq(Chars)

Has(text, char) == \E i \in DOMAIN text : text[i] = char

\* A name in small letters, and how it is written
Hosts == [name : STRING, capitals : BOOLEAN, dot : BOOLEAN, port : BOOLEAN]

ASSUME ConfigsAssumption ==
    Configs \subseteq [mode : {"server", "client"}, publicHost : Hosts, apiHost : Hosts,
                      wsPath : Texts, logEnabled : BOOLEAN]

\* Resolve puts a slash in front of a ws_path without one.  Paths with "{" are left
\* out, as wildcards are, and so are those with "%", which ServeMux decodes.
ASSUME WSPathAssumption ==
    \A c \in Configs : /\ c.wsPath # << >> /\ c.wsPath[1] = "/"
                       /\ ~Has(c.wsPath, "{") /\ ~Has(c.wsPath, "%")

ASSUME StoresAssumption == Stores \subseteq {"short", "value", "not found", "other error"}

VARIABLES
    cfg,      \* the configuration the program runs with
    phase,    \* "starting", "idle", then where the request is
    request,  \* the request in hand
    response, \* what the client gets
    logged    \* the status in the log

vars == <<cfg, phase, request, response, logged>>

NoRequest == [none |-> TRUE]
NoResponse == [none |-> TRUE]

--------------------------------------------------------------------------------
(***************************************************************************)
(* Texts in a path.                                                        *)
(***************************************************************************)
Invalid == <<"invalid">>

\* url.PathEscape, which clients use on each part of the path
Escaped(char) ==
    CASE char = "%" -> <<"%", "2", "5">> [] char = "/" -> <<"%", "2", "F">>
      [] char = " " -> <<"%", "2", "0">> [] OTHER -> <<char>>

PathEscape(text) == FlattenSeq([i \in DOMAIN text |-> Escaped(text[i])])

PathOf(db, key) == <<"/">> \o (PathEscape(db) \o (<<"/">> \o PathEscape(key)))

HexDigits == {"0", "2", "5", "F"}

\* The other characters that could be written are all the same here.
Unhex(digits) ==
    CASE digits = <<"2", "5">> -> "%" [] digits = <<"2", "F">> -> "/"
      [] digits = <<"2", "0">> -> " " [] OTHER -> "?"

IsEscape(text, i) ==
    /\ text[i] = "%" /\ i + 2 <= Len(text)
    /\ text[i + 1] \in HexDigits /\ text[i + 2] \in HexDigits

Then(char, rest) == IF rest = Invalid THEN Invalid ELSE <<char>> \o rest

PathUnescape(text) ==
    LET from[i \in 1..(Len(text) + 1)] ==
            CASE i > Len(text) -> << >>
              [] i <= Len(text) /\ IsEscape(text, i) ->
                    Then(Unhex(<<text[i + 1], text[i + 2]>>), from[i + 3])
              [] i <= Len(text) /\ ~IsEscape(text, i) /\ text[i] = "%" -> Invalid
              [] OTHER -> Then(text[i], from[i + 1])
    IN  from[1]

\* Other paths than those that begin with a slash and decode are refused by net/http.
\* A client that reads names a database and a key, of any characters.
ASSUME RequestsAssumption ==
    \A r \in Requests :
        /\ r.host \in Hosts /\ r.method \in STRING /\ r.upgrade \in BOOLEAN
        /\ r.rawPath \in Texts /\ r.rawPath # << >> /\ r.rawPath[1] = "/"
        /\ ~Has(r.rawPath, " ") /\ PathUnescape(r.rawPath) # Invalid
        /\ "db" \in DOMAIN r =>
              r.db \in Texts /\ r.key \in Texts /\ r.rawPath = PathOf(r.db, r.key)

TrimPrefix(text) == IF text # << >> /\ text[1] = "/" THEN Tail(text) ELSE text

Blank(text) == \A i \in DOMAIN text : text[i] = " "

NoParts == [ok |-> FALSE]

\* Wrong: splits at the last slash, so that keys have none
splitPublicPathLast(rawPath) ==
    LET trimmed == TrimPrefix(rawPath)
        slash   == SelectLastInSeq(trimmed, LAMBDA char : char = "/")
        db      == PathUnescape(SubSeq(trimmed, 1, slash - 1))
        key     == PathUnescape(SubSeq(trimmed, slash + 1, Len(trimmed)))
    IN  IF slash = 0 \/ db = Invalid \/ Blank(db) \/ key \in {Invalid, << >>} THEN NoParts
        ELSE [ok |-> TRUE, db |-> db, key |-> key]

\* The path has been decoded, and is decoded again.
splitPublicPath(rawPath) ==
    LET trimmed == TrimPrefix(rawPath)
        slash   == SelectInSeq(trimmed, LAMBDA char : char = "/")
        db      == PathUnescape(SubSeq(trimmed, 1, slash - 1))
        key     == PathUnescape(SubSeq(trimmed, slash + 1, Len(trimmed)))
    IN  IF slash = 0 \/ db = Invalid \/ Blank(db) \/ key \in {Invalid, << >>} THEN NoParts
        ELSE [ok |-> TRUE, db |-> db, key |-> key]

--------------------------------------------------------------------------------
(***************************************************************************)
(* Hosts.  A host is a name, and may be written with capitals, a dot at    *)
(* the end, and a port.                                                    *)
(***************************************************************************)
stripPort(host) == [host EXCEPT !.port = FALSE]

\* Wrong: leaves capitals as they are
normalizeHostNameCased(host) == [host EXCEPT !.dot = host.dot /\ host.port]

\* A dot before a port is not at the end.
normalizeHostName(host) ==
    [host EXCEPT !.capitals = FALSE, !.dot = host.dot /\ host.port]

publicHost == normalizeHostName(cfg.publicHost)
apiHost == normalizeHostName(cfg.apiHost)

--------------------------------------------------------------------------------
Init ==
    /\ cfg \in Configs
    /\ phase = "starting"
    /\ request = NoRequest /\ response = NoResponse /\ logged = 0

\* routes: the client's two patterns must differ, and what is before a space in one must
\* be a method, or the mux panics.
routes ==
    /\ phase = "starting"
    /\ phase' = IF cfg.mode = "client" /\ (cfg.wsPath = <<"/">> \/ Has(cfg.wsPath, " "))
                THEN "panicked" ELSE "idle"
    /\ UNCHANGED <<cfg, request, response, logged>>

\* net/http takes the request in.
Arrive ==
    /\ phase = "idle"
    /\ request' \in Requests
    /\ phase' = IF cfg.mode = "server" THEN "handleServer" ELSE "mux"
    /\ response' = NoResponse /\ logged' = 0
    /\ UNCHANGED cfg

\* URL.Path, which the handlers read, is the decoded path.
Path == PathUnescape(request.rawPath)

GoTo(handler) ==
    /\ phase' = handler
    /\ UNCHANGED <<cfg, request, response, logged>>

\* An answer without WriteHeader has status 200, for the client and for the log.
Respond(status, body) ==
    /\ response' = [status |-> status, body |-> body]
    /\ phase' = IF cfg.logEnabled THEN "log" ELSE "done"
    /\ UNCHANGED <<cfg, request, logged>>

NotFound == Respond(404, <<"text">>)
MethodNotAllowed == Respond(405, <<"text">>)

handleServer ==
    /\ phase = "handleServer"
    /\ LET host == normalizeHostName(stripPort(request.host))
       IN  CASE host = publicHost -> GoTo("handlePublicRead")
             [] host # publicHost /\ host = apiHost -> GoTo("handleServerAPI")
             [] OTHER -> NotFound

\* The code of the store decides: 1 is a value, another one an error.
handlePublicRead ==
    /\ phase = "handlePublicRead"
    /\ LET parts == splitPublicPath(Path)
       IN  CASE request.method # "GET" -> MethodNotAllowed
             [] request.method = "GET" /\ ~parts.ok -> Respond(400, <<"text">>)
             [] OTHER -> \E answer \in Stores :
                    CASE answer = "short" -> Respond(502, <<"text">>)
                      [] answer = "value" -> Respond(200, <<parts.db, parts.key>>)
                      [] answer = "not found" -> Respond(404, <<"text">>)
                      [] OTHER -> Respond(500, <<"text">>)

IndexPaths == {<<"/">>, <<"/", "i">>}

handleServerAPI ==
    /\ phase = "handleServerAPI"
    /\ CASE request.method = "GET" ->
                IF Path \in IndexPaths THEN Respond(200, <<"page">>) ELSE NotFound
         [] request.method = "POST" ->
                IF Path = <<"/">> THEN GoTo("handleBinaryHTTP") ELSE NotFound
         [] OTHER -> MethodNotAllowed

\* The body may break off; otherwise the frame in it is dispatched.
handleBinaryHTTP ==
    /\ phase = "handleBinaryHTTP"
    /\ Respond(400, <<"text">>) \/ Respond(200, <<"frame">>)

(***************************************************************************)
(* The ServeMux of client mode.  It compares paths part by part as they    *)
(* come escaped, each part decoded by itself; a pattern that ends in a     *)
(* slash stands for all paths below it, and "/" for all others.            *)
(***************************************************************************)
Slashes(text) == Cardinality({i \in DOMAIN text : text[i] = "/"})

\* Escaped slashes are none: the parts agree if as many slashes are not escaped.
IsWSPath(rawPath) ==
    Slashes(rawPath) = Slashes(cfg.wsPath) /\ PathUnescape(rawPath) = cfg.wsPath

IsSubtree == Last(cfg.wsPath) = "/"

\* Wrong: takes what the path of the WebSocket is the beginning of
MatchesWSPathPrefix(rawPath) == IsPrefix(cfg.wsPath, PathUnescape(rawPath))

MatchesWSPath(rawPath) ==
    IF IsSubtree
    THEN \E k \in DOMAIN rawPath : rawPath[k] = "/" /\ IsWSPath(SubSeq(rawPath, 1, k))
    ELSE IsWSPath(rawPath)

\* path.Clean leaves the path as it is: no part is ".", ".." or, but for the last, empty.
IsClean(rawPath) ==
    \A i \in DOMAIN rawPath : rawPath[i] = "/" =>
        LET rest == SubSeq(rawPath, i + 1, Len(rawPath)) IN
        /\ ~IsPrefix(<<"/">>, rest)
        /\ \A dots \in {<<".">>, <<".", ".">>} : ~IsPrefix(dots \o <<"/">>, rest \o <<"/">>)

\* To the clean path (CONNECT has it as it came), or to the subtree's own path
IsRedirected(rawPath) ==
    \/ request.method # "CONNECT" /\ ~IsClean(rawPath)
    \/ IsSubtree /\ Last(rawPath) # "/" /\ IsWSPath(rawPath \o <<"/">>)

\* Releases of net/http differ in the status of a redirection.
mux ==
    /\ phase = "mux"
    /\ CASE IsRedirected(request.rawPath) ->
                \E status \in {301, 307} : Respond(status, <<"redirect">>)
         [] ~IsRedirected(request.rawPath) /\ MatchesWSPath(request.rawPath) ->
                GoTo("handleClientWebSocket")
         [] OTHER -> GoTo("handleClientHTTP")

handleClientHTTP ==
    /\ phase = "handleClientHTTP"
    /\ IF request.method = "GET" THEN Respond(200, <<"page">>) ELSE MethodNotAllowed

\* The writer of net/http is a Hijacker; the one that logs hides that it is.
Hijacker == ~cfg.logEnabled

\* Upgrade answers 400 to what is no handshake, then 405 to one that is no GET.
handleClientWebSocket ==
    /\ phase = "handleClientWebSocket"
    /\ CASE ~request.upgrade -> Respond(400, <<"text">>)
         [] request.upgrade /\ request.method # "GET" -> MethodNotAllowed
         [] request.upgrade /\ request.method = "GET" /\ ~Hijacker -> Respond(500, <<"text">>)
         [] OTHER -> Respond(101, <<"websocket">>)

\* What WriteHeader of the writer that logs has kept
Written == response.status

loggingMiddleware ==
    /\ phase = "log"
    /\ logged' = Written
    /\ phase' = "done"
    /\ UNCHANGED <<cfg, request, response>>

NextRequest ==
    /\ phase = "done"
    /\ phase' = "idle" /\ request' = NoRequest /\ response' = NoResponse /\ logged' = 0
    /\ UNCHANGED cfg

Panicked == phase = "panicked" /\ UNCHANGED vars

Next ==
    \/ routes \/ Arrive \/ handleServer \/ handlePublicRead \/ handleServerAPI
    \/ handleBinaryHTTP \/ mux \/ handleClientHTTP \/ handleClientWebSocket
    \/ loggingMiddleware \/ NextRequest \/ Panicked

Spec == Init /\ [][Next]_vars

--------------------------------------------------------------------------------
(***************************************************************************)
(* Properties.                                                             *)
(***************************************************************************)
Answered == phase = "done"

ForHost(host) == normalizeHostName(stripPort(request.host)) = host

IsRead == "db" \in DOMAIN request

PublicRead ==
    Answered /\ IsRead /\ cfg.mode = "server" /\ ForHost(publicHost) /\ request.method = "GET"

\* A public read gives the value of the key that was asked for, slashes and escapes of
\* the key included, and is refused just if the database or the key is not there: the
\* one decoding too many changes no text but those with a percent sign, and databases
\* with a slash.  The README ("`GET /{db}/{key}` en `diarsaba.com` devuelve el value
\* crudo de `READ_FREE`") has no exception for these.
ReadsWhatIsAsked ==
    PublicRead /\ ~Has(request.db, "%") /\ ~Has(request.db, "/") /\ ~Has(request.key, "%") =>
        IF Blank(request.db) \/ request.key = << >> THEN response.status = 400
        ELSE /\ response.status # 400
             /\ response.status = 200 => response.body = <<request.db, request.key>>

\* Frames get in by POST / on the API's host of a server, or by a WebSocket of a client
\* on its path, or below that if it ends in a slash (server.go:108), and in no other
\* way, however the path is escaped: a server has no WebSocket, the public host takes
\* no frame.
FramesOnlyWhereExposed ==
    Answered /\ response.body \in {<<"frame">>, <<"websocket">>} =>
        IF cfg.mode = "server"
        THEN /\ response.body = <<"frame">> /\ request.method = "POST" /\ Path = <<"/">>
             /\ ForHost(apiHost) /\ ~ForHost(publicHost)
        ELSE /\ response.body = <<"websocket">>
             /\ Path = cfg.wsPath \/ (Last(cfg.wsPath) = "/" /\ IsPrefix(cfg.wsPath, Path))

SameHost(host, other) == host.name = other.name

\* Hosts compare without capitals, port and dot at the end.  The page of a server is
\* there for everyone who names the API's host, unless the configuration gives that
\* host with a port, which no request has after stripPort, or gives the public
\* host the same name.
PageIsReachable ==
    Answered /\ cfg.mode = "server" /\ SameHost(request.host, cfg.apiHost)
      /\ request.method = "GET" /\ Path = <<"/">> =>
        (response.status = 200) =
            (~cfg.apiHost.port /\ ~(SameHost(cfg.publicHost, cfg.apiHost) /\ ~cfg.publicHost.port))

\* A handshake on the WebSocket's path succeeds, as the README has it ("`WS /ws`
\* intercambia frames binarios crudos"), with logging as without.
Upgrades ==
    Answered /\ cfg.mode = "client" /\ request.rawPath = cfg.wsPath /\ request.method = "GET"
      /\ request.upgrade => response.status = 101
================================================================================
