---------------------------- MODULE OperatorServer ----------------------------
(***************************************************************************)
(* server/config.py and server/run.py: how `leos serve` finds its settings *)
(* and how the worker processes find them again.  A setting is known by    *)
(* where it came from.                                                     *)
(***************************************************************************)

CONSTANTS
    Settings,          \* e.g. {"data_dir", "inbox_dir", "rate_limit_per_minute"}
    ServerWorkers      \* worker processes of uvicorn

ASSUME ServerAssumption ==
    "inbox_dir" \in Settings

VARIABLES
    cfgExplicit,    \* the TOML file named on the command line or in the environment
    cfgByEnv,       \* it is named in the environment
    cfgDefault,     \* leos-server.toml in the working directory
    cfgEnv,         \* LEOS_SERVER_* variables
    cfgOverrides,   \* command-line options
    cfgKeys,        \* LEOS_SERVER_API_KEY
    cfgMain,        \* the settings of the parent process
    cfgWorker       \* the settings of each worker

cfgSources == <<cfgExplicit, cfgByEnv, cfgDefault, cfgOverrides, cfgKeys>>
cfgVars == <<cfgSources, cfgEnv, cfgMain, cfgWorker>>

Unset == "unset"
Blank == "empty"                    \* the empty string
NotThere == [kind |-> "absent"]
Refused == [kind |-> "refused"]     \* unreadable, with a secret or an unknown key in it
Nothing == [k \in Settings |-> Unset]
\* What a source may say.  Only for the inbox is an empty value no value: an
\* empty data_dir is the working directory, an empty number is refused.
Says(source) ==
    {s \in [Settings -> {source, Blank, Unset}] :
       \A k \in Settings : s[k] = Blank => k = "inbox_dir"}
NotStarted == [k \in Settings |-> "not started"]
Down == [k \in Settings |-> "refused to start"]

ConfigInit ==
    /\ cfgExplicit \in {NotThere, Refused} \cup Says("explicit")
    /\ cfgByEnv \in BOOLEAN
    /\ cfgDefault \in {NotThere, Refused} \cup Says("cwd")
    /\ cfgEnv \in Says("env")
    /\ cfgOverrides \in Says("override")
    /\ cfgKeys \in {"missing", "weak", "strong"}
    /\ cfgMain = NotStarted
    /\ cfgWorker = [w \in ServerWorkers |-> NotStarted]

-----------------------------------------------------------------------------
\* Built-in values: the inbox is off, the others have one.
BuiltInSetting(k) == IF k = "inbox_dir" THEN "off" ELSE "built in"

\* `Path(str(inbox_value)) if inbox_value else None`
OrOff(value) == IF value = Blank THEN "off" ELSE value

\* Defect: the file is read after the environment.
Resolve_FileLast(file, env, overrides) ==
    [k \in Settings |->
       OrOff(IF overrides[k] # Unset THEN overrides[k]
             ELSE IF file # NotThere /\ file[k] # Unset THEN file[k]
             ELSE IF env[k] \notin {Unset, Blank} THEN env[k]
             ELSE BuiltInSetting(k))]

\* File, then what the environment has that is not empty, then command line;
\* _validate fills in the rest.
Resolve(file, env, overrides) ==
    [k \in Settings |->
       OrOff(IF overrides[k] # Unset THEN overrides[k]
             ELSE IF env[k] \notin {Unset, Blank} THEN env[k]
             ELSE IF file # NotThere /\ file[k] # Unset THEN file[k]
             ELSE BuiltInSetting(k))]

\* load_server_config and create_app's own check of the keys.
LoadServerConfig(explicit, env, overrides) ==
    LET file == IF explicit # NotThere THEN explicit ELSE cfgDefault
    IN  IF file = Refused \/ cfgKeys # "strong" THEN Down ELSE Resolve(file, env, overrides)

\* run_server: build the app once, then hand the settings down in the
\* environment; the command line and a file named on it do not reach a worker.
RunServer ==
    /\ cfgMain = NotStarted
    /\ cfgMain' = LoadServerConfig(cfgExplicit, cfgEnv, cfgOverrides)
    /\ cfgEnv' = IF cfgMain' = Down THEN cfgEnv
                 ELSE [k \in Settings |->
                         IF k = "inbox_dir" /\ cfgMain'[k] = "off" THEN cfgEnv[k] ELSE cfgMain'[k]]
    /\ UNCHANGED <<cfgSources, cfgWorker>>

\* build_app in a worker process; uvicorn starts it again when it dies.
StartWorker(w) ==
    /\ cfgMain \notin {NotStarted, Down}
    /\ cfgWorker[w] = NotStarted
    /\ cfgWorker' = [cfgWorker EXCEPT ![w] =
         LoadServerConfig(IF cfgByEnv THEN cfgExplicit ELSE NotThere, cfgEnv, Nothing)]
    /\ UNCHANGED <<cfgSources, cfgEnv, cfgMain>>

WorkerDies(w) ==
    /\ cfgWorker[w] # NotStarted
    /\ cfgWorker' = [cfgWorker EXCEPT ![w] = NotStarted]
    /\ UNCHANGED <<cfgSources, cfgEnv, cfgMain>>

ConfigNext == RunServer \/ \E w \in ServerWorkers : StartWorker(w) \/ WorkerDies(w)

-----------------------------------------------------------------------------
\* Every worker, also one that was started again, serves the settings the
\* parent resolved, whichever file, variable or option they came from.  The
\* exceptions are the code's: no inbox is not handed down, so a worker may find
\* an inbox in the leos-server.toml its parent was told not to read, or in any
\* file or variable when the parent's was switched off with --inbox-dir "".
WorkersAgree ==
    \A w \in ServerWorkers : cfgWorker[w] \notin {NotStarted, Down} =>
        \A k \in Settings :
            \/ cfgWorker[w][k] = cfgMain[k]
            \/ /\ k = "inbox_dir" /\ cfgMain[k] = "off"
               /\ cfgOverrides[k] = Blank \/ (cfgExplicit # NotThere /\ ~cfgByEnv)
=============================================================================
