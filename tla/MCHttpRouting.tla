----------------------------- MODULE MCHttpRouting -----------------------------
(***************************************************************************)
(* Hosts in all their spellings, and all keys of up to three characters    *)
(* over an alphabet in which escapes can be written and can go wrong.      *)
(***************************************************************************)
EXTENDS HttpRouting, Naturals

Host(name) == [name |-> name, capitals |-> FALSE, dot |-> FALSE, port |-> FALSE]
Spellings(name) == [name : {name}, capitals : BOOLEAN, dot : BOOLEAN, port : BOOLEAN]

Config(mode, public, api, wsPath, log) ==
    [mode |-> mode, publicHost |-> public, apiHost |-> api, wsPath |-> wsPath,
     logEnabled |-> log]

\* As in the files of the repository, then with hosts spelled otherwise, with the
\* same host twice, and with the WebSocket on a subtree, and on paths that are refused
MCConfigs ==
    {Config("server", Host("public"), api, <<"/", "w">>, log) :
        api \in Spellings("api"), log \in BOOLEAN}
    \cup {Config("server", public, Host("api"), <<"/", "w">>, FALSE) :
            public \in Spellings("api")}
    \cup {Config("client", Host("none"), Host("none"), path, log) :
            path \in {<<"/", "w">>, <<"/", "w", "/">>, <<"/">>, <<"/", "w", " ", "a">>},
            log \in BOOLEAN}

Alphabet == {"a", "/", "%", "2", "5", "F"}
Keys == UNION {[1..n -> Alphabet] : n \in 0..3}
Dbs == {<<"a">>, <<" ">>, <<"a", "/", "a">>, <<"a", "%">>, <<"%", "2", "F">>}

Plain(host, method, rawPath, upgrade) ==
    [host |-> host, method |-> method, rawPath |-> rawPath, upgrade |-> upgrade]

\* On the path of the WebSocket, below it and beside it, clean, unclean and escaped
PathsOfWS ==
    {<<"/", "w">>, <<"/", "w", "/">>, <<"/", "w", "a">>, <<"/", "w", "/", "a">>,
     <<"/", "w", "/", "a", "/">>, <<"/", "a", "/", "w">>, <<"/", "/", "w">>,
     <<"/", "w", "/", "/">>, <<"/", "w", "/", ".">>, <<"/", ".", ".", "/", "w">>,
     <<"/", "w", "/", ".", "a">>, <<"/", "w", "%", "2", "F">>,
     <<"/", "w", "%", "2", "F", "a">>, <<"/", "w", "/", "%", "2", "5">>}

MCRequests ==
    {Plain(Host("public"), "GET", PathOf(db, key), FALSE)
        @@ [db |-> db, key |-> key] : db \in Dbs, key \in Keys}
    \cup {Plain(host, method, path, upgrade) :
            host \in Spellings("api") \cup Spellings("public") \cup {Host("other")},
            method \in {"GET", "POST", "PUT"},
            path \in {<<"/">>, <<"/", "i">>, <<"/", "w">>, <<"/", "a">>},
            upgrade \in BOOLEAN}
    \cup {Plain(Host("other"), method, path, TRUE) :
            method \in {"GET", "CONNECT"}, path \in PathsOfWS}
================================================================================
