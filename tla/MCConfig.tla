-------------------------------- MODULE MCConfig --------------------------------
(***************************************************************************)
(* Files and environments that differ from plain ones in up to two fields. *)
(***************************************************************************)
EXTENDS Config

Texts(field) ==
    CASE field = "mode" -> {"", "server", "client", "other"}
      [] field = "listenAddr" -> {"", ":9000"}
      [] field \in {"publicHost", "apiHost"} -> {"", ".", "host"}
      [] field = "wsPath" -> {"", "/ws", "ws", "/"}
      [] field = "requestTimeout" -> {"", "15s", "0s", "no duration"}
      [] field \in PathFields \cup {"keyPath"} -> {"", "relative", "/absolute"}
      [] field = "listenPort" -> {"", "4001", "7001", "no number"}
      [] field = "logEnabled" -> {"", "true", "false", "no switch"}
      [] field = "bootstrapList" -> {"", "peers"}

InFile(field) ==
    CASE field = "listenPort" -> {"4001", "7001"}
      [] field = "logEnabled" -> BOOLEAN
      [] OTHER -> Texts(field)

Plain(mode) ==
    [mode |-> mode, listenAddr |-> "", publicHost |-> "host", apiHost |-> "host",
     indexPath |-> "relative", dataDir |-> "relative", dbPath |-> "", wsPath |-> "/ws",
     requestTimeout |-> "15s", keyPath |-> "", listenPort |-> "4001", logEnabled |-> FALSE,
     bootstrapList |-> "peers"]

PlainFiles ==
    UNION {{[ext |-> "yaml", syntax |-> "yaml", fields |-> [Plain(mode) EXCEPT ![f] = t]] :
                t \in InFile(f)} : mode \in {"server", "client"}, f \in Fields}

OtherSyntax ==
    {[ext |-> ext, syntax |-> syntax, fields |-> Plain("server")] :
        ext \in {"yaml", "json", "conf"}, syntax \in {"yaml", "json", "broken"}}

AllFiles == PlainFiles \cup OtherSyntax

NoEnv == [f \in Fields |-> Unset]

AllEnvs ==
    {NoEnv} \cup
    UNION {{[NoEnv EXCEPT ![f] = t, ![g] = u] : t \in Texts(f), u \in Texts(g)} :
           f \in Fields, g \in {"mode", "publicHost", "keyPath", "requestTimeout"}}
================================================================================
