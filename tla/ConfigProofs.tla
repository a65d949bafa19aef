------------------------------ MODULE ConfigProofs ------------------------------
(***************************************************************************)
(* The configuration, for any files and environments: whatever the program *)
(* runs with is what Resolve makes of the file as the environment has      *)
(* changed it, and the properties follow from that.                        *)
(***************************************************************************)
EXTENDS Config, TLAPS

\* The configuration holds the file, then the file with the overrides; what
\* runs is what Resolve has made of that and found nothing wrong with.
Inductive ==
    /\ file \in Files /\ env \in Envs
    /\ stage = "parsed" => config = file.fields
    /\ stage \in {"loaded", "resolved"} => config = applyEnvOverrides(file.fields)
    /\ stage = "resolved" => Problem(config) = "none" /\ resolved = Resolve(config)

LEMMA SameOverrides ==
    ASSUME UNCHANGED <<file, env>>
    PROVE  applyEnvOverrides(file.fields)' = applyEnvOverrides(file.fields)
BY DEF applyEnvOverrides, applyStringEnv, applyIntEnv, applyCSVEnv, applyBoolEnv

LEMMA InductiveHolds == Spec => []Inductive
<1>1. Init => Inductive
    BY DEF Init, Inductive
<1>2. Inductive /\ [Next]_vars => Inductive'
  <2> SUFFICES ASSUME Inductive, [Next]_vars PROVE Inductive'
      OBVIOUS
  <2>1. CASE ReadFile
      BY <2>1 DEF ReadFile, Fatal, Inductive
  <2>2. CASE Override
    <3>1. file' = file /\ env' = env
        BY <2>2 DEF Override
    <3>2. applyEnvOverrides(file.fields)' = applyEnvOverrides(file.fields)
        BY <3>1, SameOverrides
    <3> QED
        BY <2>2, <3>1, <3>2 DEF Override, Inductive
  <2>3. CASE ResolveConfig
    <3>1. applyEnvOverrides(file.fields)' = applyEnvOverrides(file.fields)
        BY <2>3, SameOverrides DEF ResolveConfig
    <3>2. Problem(config)' = Problem(config) /\ Resolve(config)' = Resolve(config)
        BY <2>3 DEF ResolveConfig
    <3> QED
        BY <2>3, <3>1, <3>2 DEF ResolveConfig, Fatal, Inductive
  <2>4. CASE Over \/ UNCHANGED vars
    <3>1. UNCHANGED vars
        BY <2>4 DEF Over
    <3>2. applyEnvOverrides(file.fields)' = applyEnvOverrides(file.fields)
        BY <3>1, SameOverrides DEF vars
    <3>3. Problem(config)' = Problem(config) /\ Resolve(config)' = Resolve(config)
        BY <3>1 DEF vars
    <3> QED
        BY <3>1, <3>2, <3>3 DEF vars, Inductive
  <2> QED  BY <2>1, <2>2, <2>3, <2>4 DEF Next
<1> QED  BY <1>1, <1>2, PTL DEF Spec

--------------------------------------------------------------------------------
\* What the overrides leave in a field
LEMMA Overridden ==
    ASSUME NEW cfg
    PROVE  /\ \A field \in TextFields :
                applyEnvOverrides(cfg)[field] =
                    IF env[field] = Unset THEN cfg[field] ELSE env[field]
           /\ applyEnvOverrides(cfg).listenPort =
                IF env.listenPort \in {Unset, "", "no number"} THEN cfg.listenPort
                ELSE env.listenPort
           /\ applyEnvOverrides(cfg).bootstrapList =
                IF env.bootstrapList = Unset THEN cfg.bootstrapList ELSE env.bootstrapList
           /\ applyEnvOverrides(cfg).logEnabled =
                CASE env.logEnabled = "true" -> TRUE
                  [] env.logEnabled = "false" -> FALSE
                  [] OTHER -> cfg.logEnabled
<1>0. "listenPort" \notin TextFields /\ "bootstrapList" \notin TextFields
      /\ "logEnabled" \notin TextFields
    BY DEF TextFields, PathFields
<1>1. ASSUME NEW field \in TextFields
      PROVE  applyEnvOverrides(cfg)[field] =
                 IF env[field] = Unset THEN cfg[field] ELSE env[field]
    BY <1>0 DEF applyEnvOverrides, applyStringEnv, Fields
<1>2. "listenPort" \in Fields /\ "bootstrapList" \in Fields /\ "logEnabled" \in Fields
    BY DEF Fields
<1> QED
    BY <1>0, <1>1, <1>2 DEF applyEnvOverrides, applyIntEnv, applyCSVEnv, applyBoolEnv

\* The text that counts
Effective(field) == IF env[field] # Unset THEN env[field] ELSE file.fields[field]

\* A configuration that runs, in terms of the texts that count
LEMMA Running ==
    ASSUME Inductive, Ready
    PROVE  /\ \A field \in TextFields : config[field] = Effective(field)
           /\ resolved = Resolve(config)
           /\ resolveMode(config.mode) \in {"server", "client"}
           /\ config.requestTimeout \in Timeouts \ BadTimeouts
           /\ config.wsPath \in WSPaths
           /\ resolveMode(config.mode) = "server" =>
                config.publicHost \notin {"", "."} /\ config.apiHost \notin {"", "."}
<1>1. config = applyEnvOverrides(file.fields) /\ resolved = Resolve(config)
      /\ Problem(config) = "none" /\ file \in Files /\ env \in Envs
    BY DEF Inductive, Ready
<1>2. \A field \in TextFields : config[field] = Effective(field)
    BY <1>1, Overridden DEF Effective
<1>3. config.requestTimeout \in Timeouts /\ config.wsPath \in WSPaths
  <2>1. "requestTimeout" \in TextFields /\ "wsPath" \in TextFields
      BY DEF TextFields
  <2> QED
      BY <1>1, <1>2, <2>1, FilesAssumption, EnvsAssumption DEF Effective
<1>4. /\ resolveMode(config.mode) \in {"server", "client"}
      /\ config.requestTimeout \notin BadTimeouts
      /\ resolveMode(config.mode) = "server" =>
           config.publicHost \notin {"", "."} /\ config.apiHost \notin {"", "."}
    BY <1>1 DEF Problem
<1> QED  BY <1>1, <1>2, <1>3, <1>4

--------------------------------------------------------------------------------
(***************************************************************************)
(* The theorems.                                                           *)
(***************************************************************************)
\* Every setting of a program that runs is the environment's if that sets it, else the
\* file's, else the default (applyEnvOverrides and Resolve together).
THEOREM OrderOfSources == Spec => []SourcesInOrder
<1>1. ASSUME Inductive PROVE SourcesInOrder
  <2> SUFFICES ASSUME Ready PROVE SourcesInOrder
      BY DEF SourcesInOrder
  <2>1. /\ \A field \in TextFields : config[field] = Effective(field)
        /\ resolved = Resolve(config)
      BY <1>1, Running
  <2>2. config = applyEnvOverrides(file.fields) /\ env \in Envs
      BY <1>1 DEF Inductive, Ready
  <2>3. /\ "mode" \in TextFields /\ "listenAddr" \in TextFields
        /\ "requestTimeout" \in TextFields /\ PathFields \subseteq TextFields
      BY DEF TextFields
  <2>4. /\ resolved.mode = TextSource("mode", "client")
        /\ resolved.listenAddr = TextSource("listenAddr", Defaults.listenAddr[resolved.mode])
        /\ resolved.requestTimeout = TextSource("requestTimeout", "10s")
      BY <2>1, <2>3 DEF Resolve, TextSource, Effective, resolveMode, IfBlank, Defaults
  <2>5. ASSUME NEW field \in PathFields
        PROVE  resolved[field].path = TextSource(field, "default relative")
    <3>1. config[field] = Effective(field)
        BY <2>1, <2>3
    <3>2. /\ resolved.indexPath.path = IfBlank(config.indexPath, "default relative")
          /\ resolved.dataDir.path = IfBlank(config.dataDir, "default relative")
          /\ resolved.dbPath.path = IfBlank(config.dbPath, "default relative")
        BY <2>1 DEF Resolve, Defaults, resolveRelativePath
    <3>3. resolved[field].path = IfBlank(config[field], "default relative")
        BY <3>2 DEF PathFields
    <3> QED  BY <3>1, <3>3 DEF IfBlank, TextSource, Effective
  <2>6. resolved.listenPort = IF env.listenPort \in Numbers THEN env.listenPort
                              ELSE file.fields.listenPort
    <3>1. config.listenPort = IF env.listenPort \in {Unset, "", "no number"}
                              THEN file.fields.listenPort ELSE env.listenPort
        BY <2>2, Overridden
    <3>2. env.listenPort \in Numbers <=> env.listenPort \notin {Unset, "", "no number"}
        BY <2>2, EnvsAssumption, TextsAssumption
    <3> QED  BY <2>1, <3>1, <3>2 DEF Resolve
  <2>7. resolved.logEnabled = IF env.logEnabled \in {"true", "false"}
                              THEN env.logEnabled = "true" ELSE file.fields.logEnabled
    <3>1. config.logEnabled = CASE env.logEnabled = "true" -> TRUE
                                [] env.logEnabled = "false" -> FALSE
                                [] OTHER -> file.fields.logEnabled
        BY <2>2, Overridden
    <3>2. resolved.logEnabled = config.logEnabled
        BY <2>1 DEF Resolve
    <3> QED  BY <3>1, <3>2
  <2>8. resolved.bootstrapList = IF env.bootstrapList # Unset THEN env.bootstrapList
                                 ELSE file.fields.bootstrapList
      BY <2>1, <2>2, Overridden DEF Resolve
  <2> QED  BY <2>4, <2>5, <2>6, <2>7, <2>8 DEF SourcesInOrder
<1> QED  BY <1>1, InductiveHolds, PTL

\* No configuration is let pass with a host of a server missing, a wait of nothing, a
\* path of the WebSocket without a slash in front, or a node that does not fit the mode
\* (the checks and defaults of Resolve).
THEOREM CompleteRuns == Spec => []OnlyCompleteRuns
<1>1. ASSUME Inductive PROVE OnlyCompleteRuns
  <2> SUFFICES ASSUME Ready PROVE OnlyCompleteRuns
      BY DEF OnlyCompleteRuns
  <2>1. /\ resolved = Resolve(config)
        /\ resolveMode(config.mode) \in {"server", "client"}
        /\ config.requestTimeout \in Timeouts \ BadTimeouts /\ config.wsPath \in WSPaths
        /\ resolveMode(config.mode) = "server" =>
             config.publicHost \notin {"", "."} /\ config.apiHost \notin {"", "."}
      BY <1>1, Running
  <2>2. resolved.requestTimeout \in Durations
      BY <2>1, TextsAssumption DEF Resolve, IfBlank, Timeouts, BadTimeouts, Defaults
  <2>3. resolved.wsPath \in RootedPaths
      BY <2>1, TextsAssumption DEF Resolve, IfBlank, WSPaths, Defaults
  <2> QED  BY <2>1, <2>2, <2>3 DEF OnlyCompleteRuns, Resolve
<1> QED  BY <1>1, InductiveHolds, PTL

\* The paths of a program that runs are the root's or the file's, but for the key's
\* (resolveRelativePath, wherever Resolve calls it without a condition).
THEOREM PathsResolved == Spec => []PathsFollowFile
<1>1. ASSUME Inductive PROVE PathsFollowFile
  <2> SUFFICES ASSUME Ready, NEW field \in PathFields
               PROVE  resolved[field].from =
                        IF resolved[field].path \in AbsolutePaths THEN "root" ELSE "configDir"
      BY DEF PathsFollowFile
  <2>1. resolved = Resolve(config)
      BY <1>1, Running
  <2> QED  BY <2>1 DEF PathFields, Resolve, resolveRelativePath
<1> QED  BY <1>1, InductiveHolds, PTL
================================================================================
