------------------------------- MODULE Config -------------------------------
(***************************************************************************)
(* internal/config: what Load makes of the contents of pave.yaml and of    *)
(* the environment. A file is a function from the keys it gives to their   *)
(* values; a key is named as in the YAML, without its section where that   *)
(* leaves it unique. Durations are in seconds.                             *)
(***************************************************************************)
EXTENDS Integers

\* filepath.Abs, on the relative paths that may be given.
CONSTANT Abs

Drivers == {"sqlite", "postgres", "turso"}
Efforts == {"", "low", "medium", "high", "xhigh", "max"}

Default ==
    [project_path |-> ".", features_file |-> "./FEATURES.md",
     provider |-> "claude", fallback_provider |-> "", model |-> "",
     effort |-> "", task_timeout |-> 1800, auto_commit |-> FALSE,
     max_retries |-> 3, retry_initial |-> 30, retry_max |-> 600,
     driver |-> "sqlite", dsn |-> ".pave/state.db",
     window |-> 18000, limiter_initial |-> 60, limiter_max |-> 18000,
     reset_buffer |-> 60, port |-> 4000]

Keys == DOMAIN Default
Numbers == {"task_timeout", "max_retries", "retry_initial", "retry_max",
            "window", "limiter_initial", "limiter_max", "reset_buffer", "port"}

\* The zero value of a key's type.
Zero(k) == IF k \in Numbers THEN 0 ELSE IF k = "auto_commit" THEN FALSE ELSE ""

\* What `pave init` writes (scaffold.DefaultConfigYAML). It leaves out two keys.
Template == [k \in Keys \ {"reset_buffer", "port"} |-> Default[k]]

\* What the other modules assume of a configuration (planner, proc, limiter,
\* state), and Validate checks last.
Valid(c) ==
    /\ c["provider"] # "" /\ c["features_file"] # ""
    /\ c["driver"] \in Drivers /\ c["dsn"] # ""
    /\ c["task_timeout"] > 0 /\ c["max_retries"] >= 0
    /\ c["effort"] \in Efforts
    /\ c["retry_initial"] <= c["retry_max"]
    /\ c["limiter_initial"] <= c["limiter_max"]

-----------------------------------------------------------------------------
\* yaml.Unmarshal into the struct that Default() has filled.
Unmarshal(file) ==
    [k \in Keys |-> IF k \in DOMAIN file THEN file[k] ELSE Default[k]]

\* The keys whose blank value is replaced.
Coerced == {"project_path", "features_file", "provider", "task_timeout",
            "driver", "dsn", "retry_initial", "retry_max", "window",
            "limiter_initial", "limiter_max", "reset_buffer", "port"}

ApplyDefaults(c) ==
    [k \in Keys |-> IF k \in Coerced /\ c[k] = Zero(k) THEN Default[k] ELSE c[k]]

\* env has the values of PAVE_DRIVER and PAVE_DSN.
ApplyEnvOverrides(c, env) ==
    [k \in Keys |-> IF k \in {"driver", "dsn"} /\ env[k] # "" THEN env[k]
                    ELSE c[k]]

\* URLs, :memory: and absolute paths are not in the domain of Abs.
IsRelativePath(s) == s \in DOMAIN Abs

ResolvePaths(c) ==
    [k \in Keys |->
        IF \/ k = "project_path" /\ IsRelativePath(c[k])
           \/ k = "dsn" /\ c["driver"] = "sqlite" /\ IsRelativePath(c[k])
        THEN Abs[c[k]] ELSE c[k]]

SlipLoaded(file, env) ==        \* paths are resolved before the environment is read
    ApplyEnvOverrides(ResolvePaths(ApplyDefaults(Unmarshal(file))), env)

\* Load, up to the validation.
Loaded(file, env) ==
    ResolvePaths(ApplyEnvOverrides(ApplyDefaults(Unmarshal(file)), env))

-----------------------------------------------------------------------------
\* What a key is, in the words of the documentation. First, who says it: the
\* environment, or the file, or the default for what is omitted or blank; only
\* a max_retries of 0 is meant as such (config.go 96-98, 120-124).
Meant(k, file, env) ==
    IF k \in DOMAIN env /\ env[k] # "" THEN env[k]
    ELSE IF k \in DOMAIN file /\ (file[k] # Zero(k) \/ k = "max_retries")
    THEN file[k]
    ELSE Default[k]

\* And where a path leads: that of the project, and that of a database if it is
\* a file, from the directory in which pave is executed; URLs, :memory: and the
\* paths of the other drivers are as given (168-171). features_file is not
\* among them: it stays as it is and is opened from that directory.
AsDocumented(k, file, env) ==
    LET says == Meant(k, file, env)
    IN  IF \/ k = "project_path"
           \/ k = "dsn" /\ Meant("driver", file, env) = "sqlite"
        THEN IF IsRelativePath(says) THEN Abs[says] ELSE says
        ELSE says
=============================================================================
