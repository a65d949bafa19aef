--------------------------------- MODULE Config ---------------------------------
(***************************************************************************)
(* config.go: the configuration file, what the environment overrides in    *)
(* it, and what Resolve makes of both.  The steps are those of main up to  *)
(* NewApp; each may end the program.                                       *)
(*                                                                         *)
(* Of a text only what the code tells apart is kept: "" stands for a text  *)
(* of nothing but spaces, the other texts for themselves.                  *)
(***************************************************************************)
EXTENDS Integers

CONSTANTS
    Files,         \* files: an extension, a syntax, and the fields in it
    Envs,          \* environments: field -> the text of its variable, or Unset
    Numbers,       \* the texts that strconv.Atoi reads
    Durations,     \* the texts that time.ParseDuration reads as more than nothing
    RootedPaths,   \* the paths of URLs that begin with a slash
    AbsolutePaths  \* the paths of files that start at the root

Unset == "unset"

PathFields   == {"indexPath", "dataDir", "dbPath"}
TextFields   == PathFields \cup {"mode", "listenAddr", "publicHost", "apiHost", "wsPath",
                                 "requestTimeout", "keyPath"}
Fields       == TextFields \cup {"listenPort", "logEnabled", "bootstrapList"}

Timeouts == {"", "no duration", "0s"} \cup Durations
WSPaths  == {"", "ws"} \cup RootedPaths

ASSUME TextsAssumption ==
    /\ Numbers \cap {"", "no number", Unset} = {}
    /\ Durations \cap {"", "no duration", "0s", Unset} = {}
    /\ RootedPaths \cap {"", "ws", Unset} = {}
    /\ AbsolutePaths \cap {"", "default relative", Unset} = {}
    /\ "10s" \in Durations /\ "/ws" \in RootedPaths

\* A file sets every field: the zero value of a text is blank.
ASSUME FilesAssumption ==
    \A f \in Files :
        /\ \A field \in TextFields : f.fields[field] # Unset
        /\ f.fields.requestTimeout \in Timeouts /\ f.fields.wsPath \in WSPaths

ASSUME EnvsAssumption ==
    \A e \in Envs :
        /\ e.requestTimeout \in Timeouts \cup {Unset} /\ e.wsPath \in WSPaths \cup {Unset}
        /\ e.listenPort \in Numbers \cup {"", "no number", Unset}

VARIABLES
    file,     \* the file named on the command line
    env,      \* the environment
    stage,
    config,   \* Config
    resolved  \* resolvedConfig, or what is wrong

vars == <<file, env, stage, config, resolved>>

NoConfig == [none |-> TRUE]

Init ==
    /\ file \in Files /\ env \in Envs
    /\ stage = "reading" /\ config = NoConfig /\ resolved = NoConfig

--------------------------------------------------------------------------------
(***************************************************************************)
(* The overrides.                                                          *)
(***************************************************************************)
\* Wrong: takes a blank variable for one that is not set
applyStringEnvUnlessBlank(cfg, field) ==
    IF env[field] \in {Unset, ""} THEN cfg[field] ELSE env[field]

applyStringEnv(cfg, field) == IF env[field] = Unset THEN cfg[field] ELSE env[field]

\* A text that is no number is passed over, and so is a blank one.
applyIntEnv(cfg, field) ==
    IF env[field] \in {Unset, "", "no number"} THEN cfg[field] ELSE env[field]

\* A blank variable makes the list empty.
applyCSVEnv(cfg, field) == IF env[field] = Unset THEN cfg[field] ELSE env[field]

applyBoolEnv(cfg, field) ==
    CASE env[field] = "true" -> TRUE [] env[field] = "false" -> FALSE [] OTHER -> cfg[field]

applyEnvOverrides(cfg) ==
    [field \in Fields |->
        CASE field \in TextFields -> applyStringEnv(cfg, field)
          [] field = "listenPort" -> applyIntEnv(cfg, field)
          [] field = "bootstrapList" -> applyCSVEnv(cfg, field)
          [] OTHER -> applyBoolEnv(cfg, field)]

--------------------------------------------------------------------------------
(***************************************************************************)
(* Resolve.                                                                *)
(***************************************************************************)
Defaults ==
    [listenAddr |-> [server |-> ":8080", client |-> "127.0.0.1:8080"],
     indexPath |-> "default relative", dataDir |-> "default relative",
     dbPath |-> "default relative", wsPath |-> "/ws", requestTimeout |-> "10s"]

IfBlank(text, default) == IF text = "" THEN default ELSE text

\* Wrong: leaves relative paths as they are written
resolveRelativePathNowhere(path) ==
    [path |-> path, from |-> IF path \in AbsolutePaths THEN "root" ELSE "as written"]

\* Where a path starts: at the root, or at the directory of the file.  One that is left
\* as it is written starts where whoever opens it takes it to.
resolveRelativePath(path) ==
    [path |-> path, from |-> IF path \in AbsolutePaths THEN "root" ELSE "configDir"]

\* The key's path is resolved only if there is no data directory, but by now there
\* always is one.  The node gets it as it is written, and may look for it in its data.
resolveKeyPath(keyPath, dataDir) ==
    IF keyPath # "" /\ keyPath \notin AbsolutePaths /\ dataDir.path = ""
    THEN resolveRelativePath(keyPath)
    ELSE [path |-> keyPath,
          from |-> IF keyPath \in AbsolutePaths THEN "root" ELSE "as written"]

resolveMode(mode) == IfBlank(mode, "client")

\* Wrong: lets a wait of nothing pass
BadTimeoutsLax == {"no duration"}

BadTimeouts == {"no duration", "0s"}

\* The first thing that is wrong, in the order of the code
Problem(c) ==
    LET mode == resolveMode(c.mode)
    IN  CASE mode \notin {"server", "client"} -> "mode"
          [] mode \in {"server", "client"} /\ c.requestTimeout \in BadTimeouts -> "requestTimeout"
          [] mode = "server" /\ c.requestTimeout \notin BadTimeouts /\ c.publicHost \in {"", "."}
                -> "publicHost"
          [] mode = "server" /\ c.requestTimeout \notin BadTimeouts
                /\ c.publicHost \notin {"", "."} /\ c.apiHost \in {"", "."} -> "apiHost"
          [] OTHER -> "none"

Resolve(c) ==
    LET mode    == resolveMode(c.mode)
        dataDir == resolveRelativePath(IfBlank(c.dataDir, Defaults.dataDir))
        wsPath  == IfBlank(c.wsPath, Defaults.wsPath)
    IN  [mode           |-> mode,
         listenAddr     |-> IfBlank(c.listenAddr, Defaults.listenAddr[mode]),
         publicHost     |-> c.publicHost,
         apiHost        |-> c.apiHost,
         indexPath      |-> resolveRelativePath(IfBlank(c.indexPath, Defaults.indexPath)),
         wsPath         |-> IF wsPath = "ws" THEN "/ws" ELSE wsPath,
         requestTimeout |-> IfBlank(c.requestTimeout, Defaults.requestTimeout),
         logEnabled     |-> c.logEnabled,
         listenPort     |-> c.listenPort,
         bootstrapList  |-> c.bootstrapList,
         dataDir        |-> dataDir,
         keyPath        |-> resolveKeyPath(c.keyPath, dataDir),
         synapMode      |-> IF mode = "server" THEN "hybrid" ELSE "client",
         enableRelay    |-> mode = "server",
         dbPath         |-> resolveRelativePath(IfBlank(c.dbPath, Defaults.dbPath))]

--------------------------------------------------------------------------------
Fatal(what) == stage' = "failed" /\ resolved' = [problem |-> what]

\* The extension says how to read the file; with another one both ways are tried.
\* What is JSON is YAML as well.
Parses(ext, syntax) ==
    syntax = "json" \/ (syntax = "yaml" /\ ext # "json")

ReadFile ==
    /\ stage = "reading"
    /\ \/ Fatal("read file") /\ config' = config
       \/ /\ ~Parses(file.ext, file.syntax)
          /\ Fatal("parse file") /\ config' = config
       \/ /\ Parses(file.ext, file.syntax)
          /\ config' = file.fields
          /\ stage' = "parsed" /\ UNCHANGED resolved
    /\ UNCHANGED <<file, env>>

Override ==
    /\ stage = "parsed"
    /\ config' = applyEnvOverrides(config)
    /\ stage' = "loaded"
    /\ UNCHANGED <<file, env, resolved>>

ResolveConfig ==
    /\ stage = "loaded"
    /\ IF Problem(config) = "none"
       THEN stage' = "resolved" /\ resolved' = Resolve(config)
       ELSE Fatal(Problem(config))
    /\ UNCHANGED <<file, env, config>>

Over == stage \in {"failed", "resolved"} /\ UNCHANGED vars

Next == ReadFile \/ Override \/ ResolveConfig \/ Over

Spec == Init /\ [][Next]_vars

--------------------------------------------------------------------------------
(***************************************************************************)
(* Properties.                                                             *)
(***************************************************************************)
Ready == stage = "resolved"

\* Where a text comes from: the environment if it sets the variable, or else the
\* file, and the default where the one that counts is blank.  A blank variable
\* therefore hides what is in the file.
TextSource(field, default) ==
    LET text == IF env[field] # Unset THEN env[field] ELSE file.fields[field]
    IN  IF text = "" THEN default ELSE text

\* The program runs with what the README says: the environment before the file, the
\* file before the defaults; a number or a switch that cannot be read is passed
\* over, and a blank mode makes the program a client.
SourcesInOrder ==
    Ready =>
        /\ resolved.mode = TextSource("mode", "client")
        /\ resolved.listenAddr = TextSource("listenAddr", Defaults.listenAddr[resolved.mode])
        /\ resolved.requestTimeout = TextSource("requestTimeout", "10s")
        /\ \A field \in PathFields :
              resolved[field].path = TextSource(field, "default relative")
        /\ resolved.listenPort =
              IF env.listenPort \in Numbers THEN env.listenPort
              ELSE file.fields.listenPort
        /\ resolved.logEnabled =
              IF env.logEnabled \in {"true", "false"} THEN env.logEnabled = "true"
              ELSE file.fields.logEnabled
        /\ resolved.bootstrapList =
              IF env.bootstrapList # Unset THEN env.bootstrapList ELSE file.fields.bootstrapList

\* What Resolve promises of a configuration it lets pass: a server knows both its
\* hosts, waits take time, the path of the WebSocket begins with a slash, and the node
\* has the part its mode calls for.  It does not promise that the program runs with it:
\* routes() panics on some of these paths in client mode (HttpRouting).
OnlyCompleteRuns ==
    Ready =>
        /\ resolved.mode \in {"server", "client"}
        /\ resolved.mode = "server" =>
              resolved.publicHost \notin {"", "."} /\ resolved.apiHost \notin {"", "."}
        /\ resolved.requestTimeout \in Durations
        /\ resolved.wsPath \in RootedPaths
        /\ resolved.enableRelay = (resolved.mode = "server")
        /\ (resolved.synapMode = "hybrid") = resolved.enableRelay

\* The paths of the page, of the node's data and of the databases start at the
\* directory of the file or at the root, wherever the process was started.
PathsFollowFile ==
    Ready =>
        \A field \in PathFields :
            resolved[field].from = IF resolved[field].path \in AbsolutePaths THEN "root"
                                   ELSE "configDir"

\* So does the path of the node's key, as the README has it of all paths ("Las rutas
\* relativas del config se resuelven respecto al archivo de configuracion, no respecto
\* al directorio actual del proceso").  The condition under which Resolve does it
\* (config.go:227) never holds.
KeyPathFollowsFile ==
    Ready /\ resolved.keyPath.path \notin {""} \cup AbsolutePaths =>
        resolved.keyPath.from = "configDir"
================================================================================
