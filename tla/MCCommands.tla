----------------------------- MODULE MCCommands -----------------------------
(***************************************************************************)
(* An instance of Commands for TLC: `pave init` and then a status, and     *)
(* two runs in different time zones, over one project, with the first      *)
(* table, its index and the comment that the migration begins with.        *)
(***************************************************************************)
EXTENDS Commands

Table(name, comment) == [creates |-> {name}, needs |-> {}, comment |-> comment]
Index(name, table) == [creates |-> {name}, needs |-> {table}, comment |-> FALSE]
Rest == [creates |-> {}, needs |-> {}, comment |-> FALSE]

SmallSchema == <<Table("features", TRUE),
                 Index("idx_features_run", "features"), Rest>>

Work == "/work"
AbsIn == [s \in {".", "app", "pave.db", ".pave/state.db"} |->
             CASE s = "." -> Work
               [] s = "app" -> "/work/app"
               [] s = "pave.db" -> "/work/pave.db"
               [] s = ".pave/state.db" -> "/work/.pave/state.db"]

Shells == {"home", "west", "east"}
Scripts == [p \in Shells |-> IF p = "home" THEN <<"init", "status">>
                             ELSE <<"run">>]
Zones == [p \in Shells |-> IF p = "west" THEN -2 ELSE IF p = "east" THEN 2 ELSE 0]

Unset == [driver |-> "", dsn |-> ""]
Envs == [p \in Shells |->
            IF p = "east" THEN [driver |-> "sqlite", dsn |-> ".pave/state.db"]
            ELSE Unset]

\* A file with blank values, one that is not valid, one that names another
\* database, which the environment of one shell overrides, and one with
\* relative paths and a driver whose DSN is not a path.
Contents == {[max_retries |-> 0, provider |-> "", dsn |-> "", task_timeout |-> 0],
             [retry_max |-> 10],
             [dsn |-> "/elsewhere.db", auto_commit |-> TRUE],
             [driver |-> "turso", dsn |-> "pave.db", project_path |-> "app"]}
Tenths == <<<<>>, <<1>>>>
OneFeature == <<"a">>
=============================================================================
