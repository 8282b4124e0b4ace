------------------------------ MODULE Commands ------------------------------
(***************************************************************************)
(* Several `pave` processes at once over one project directory and one     *)
(* database: `pave init`, `pave run`, and the commands that only read      *)
(* (`pave status`, and with fewer steps `pave ui` and `pave limits`).      *)
(* Nothing locks the project; what they share are two files, the schema    *)
(* that each of them creates if need be, and the tables.                   *)
(*                                                                         *)
(* Each file and store operation is one step, and any of them may be the   *)
(* last: the process is killed, or the operation fails and the command     *)
(* returns the error (a store that stays locked for longer than            *)
(* busy_timeout does that). A shell runs its commands one after the other; *)
(* a `pave run` is its last, and the run is named after the shell.         *)
(***************************************************************************)
EXTENDS Config, Sequences, FiniteSets, SequencesExt

CONSTANTS
    Procs,          \* the shells, each with one process at a time
    Script,         \* what each runs in turn: "init", "run", "status"
    Env,            \* its PAVE_DRIVER and PAVE_DSN; "" when not set
    Zone,           \* how far its local time is ahead of UTC, in ticks
    Database,       \* the file they share, as an absolute path
    Chunks,         \* the migration, split at semicolons: see Chunk
    Features,       \* the IDs of FEATURES.md in file order
    Written,        \* contents the author may give pave.yaml
    Fractions,      \* the digits of a second's fraction at each of its ticks
    MaxTime,        \* bound: ticks of the clock
    MaxEdits        \* bound: edits by the author

Objects == UNION {Chunks[n].creates : n \in 1..Len(Chunks)}
Ids == {Features[n] : n \in 1..Len(Features)}
None == "none"      \* no run

ASSUME ProcsAssumption ==
    /\ Procs \subseteq STRING /\ None \notin Procs
    /\ Script \in [Procs -> Seq({"init", "run", "status"})]
    /\ \A p \in Procs : Len(Script[p]) > 0
    /\ \A p \in Procs : \A n \in 1..Len(Script[p]) :
          Script[p][n] = "run" => n = Len(Script[p])
    /\ Env \in [Procs -> [driver : STRING, dsn : STRING]]
    /\ Zone \in [Procs -> Int]
\* An index comes after its table, and a chunk is a statement or has none.
ASSUME ChunksAssumption ==
    /\ Chunks \in Seq([creates : SUBSET STRING, needs : SUBSET STRING,
                       comment : BOOLEAN])
    /\ \A n \in 1..Len(Chunks) :
          Chunks[n].needs \subseteq UNION {Chunks[m].creates : m \in 1..(n - 1)}
ASSUME FeaturesAssumption == Features \in Seq(STRING) /\ IsInjective(Features)
ASSUME TimeAssumption ==
    /\ Fractions \in Seq(Seq(0..9)) /\ Len(Fractions) > 0
    /\ MaxTime \in Nat /\ MaxEdits \in Nat

VARIABLES
    files,      \* contents of pave.yaml and FEATURES.md; {} for no file
    edits,      \* number of edits by the author
    now,        \* the clock
    schema,     \* tables and indexes of the database
    runs,       \* rows of the table runs
    rows,       \* statuses in the table features, by run and ID
    turn,       \* number of the command each process runs
    pc,         \* where in it: see At
    step,       \* index of its file, chunk or feature
    read,       \* the run whose rows it read
    memory,     \* statuses it holds, by the IDs that FEATURES.md has
    started     \* when it took its run's start time

disk == <<files, edits>>
database == <<schema, runs, rows>>
locals == <<turn, read, memory, started>>
vars == <<disk, now, database, pc, step, locals>>

Statuses == {"pending", "in_progress", "implemented", "failed"}
FileNames == <<"pave.yaml", "FEATURES.md">>

\* stat, create, fill: in writeIfAbsent; list: at ListRuns; features: at
\* ListFeatures; stamp: at time.Now(); insert: at CreateRun; upsert: in the
\* loop that writes the rows; work: in Process, between features; busy: within
\* one; broken: a statement of the migration was refused.
Opened == {"list", "features", "stamp", "insert", "upsert", "work", "busy"}
Ended == {"done", "failed", "broken"}
Command(p) == Script[p][turn[p]]
First(command) == IF command = "init" THEN "stat" ELSE "load"
At == {"stat", "create", "fill", "load", "parse", "migrate"} \cup Opened \cup Ended

Goes(p, to) == pc' = [pc EXCEPT ![p] = to]
Turns(p, to, n) == Goes(p, to) /\ step' = [step EXCEPT ![p] = n]

-----------------------------------------------------------------------------
SlipIsExecutable(chunk) == ~chunk.comment   \* drops what a comment precedes
SlipConflicts(r, p) == TRUE                 \* conflict on the ID alone

\* isExecutable: a chunk with a statement, whatever comments precede it.
IsExecutable(chunk) == chunk.creates # {}

\* ON CONFLICT (id, run_id): the row of run r, if there is one, is updated.
Conflicts(r, p) == r = p

\* A time as text: its second, and the digits of the fraction without
\* trailing zeros.
Text(t) == [second |-> t \div Len(Fractions),
            digits |-> Fractions[(t % Len(Fractions)) + 1]]

SlipFmtTime(t, zone) == Text(t + zone)      \* leaves out UTC()

\* fmtTime: the time's own zone does not show.
FmtTime(t, zone) == Text(t)

\* The order of the texts: what ends early has its Z, which is greater than a
\* digit and than the point, where the other goes on.
SortsAfter(a, b) ==
    \/ a.second > b.second
    \/ /\ a.second = b.second
       /\ \/ IsStrictPrefix(a.digits, b.digits)
          \/ \E n \in DOMAIN a.digits \cap DOMAIN b.digits :
                /\ a.digits[n] > b.digits[n]
                /\ \A m \in 1..(n - 1) : a.digits[m] = b.digits[m]

StartedAt(r) == FmtTime(started[r], Zone[r])

\* ListRuns(1): ORDER BY started_at DESC.
ListedFirst == {r \in runs : \A q \in runs : ~SortsAfter(StartedAt(q), StartedAt(r))}

-----------------------------------------------------------------------------
(* internal/scaffold: writeIfAbsent, for one file after the other.         *)

File(p) == FileNames[step[p]]
EmptyFile(name) == IF name = "pave.yaml" THEN [k \in {} |-> ""] ELSE "empty"
Starter(name) == IF name = "pave.yaml" THEN Template ELSE "text"

NextFile(p) ==
    IF step[p] < Len(FileNames) THEN Turns(p, "stat", step[p] + 1)
                                ELSE Turns(p, "load", 1)

\* "already exists; leave it untouched"
StatFinds(p) ==
    /\ pc[p] = "stat" /\ files[File(p)] # {}
    /\ NextFile(p)
    /\ UNCHANGED <<disk, now, database, locals>>

SlipStatMisses(p) ==            \* the file is not looked at first
    /\ pc[p] = "stat"
    /\ Goes(p, "create")
    /\ UNCHANGED <<disk, now, database, step, locals>>

StatMisses(p) ==
    /\ pc[p] = "stat" /\ files[File(p)] = {}
    /\ Goes(p, "create")
    /\ UNCHANGED <<disk, now, database, step, locals>>

\* os.WriteFile opens the file, and truncates it, and then writes.
Create(p) ==
    /\ pc[p] = "create"
    /\ files' = [files EXCEPT ![File(p)] = {EmptyFile(File(p))}]
    /\ Goes(p, "fill")
    /\ UNCHANGED <<edits, now, database, step, locals>>

Fill(p) ==
    /\ pc[p] = "fill"
    /\ files' = [files EXCEPT ![File(p)] = {Starter(File(p))}]
    /\ NextFile(p)
    /\ UNCHANGED <<edits, now, database, locals>>

-----------------------------------------------------------------------------
(* What every command does first: config.Load, project.ParseFile, state.New*)

\* A command whose configuration names another database goes its own way.
LoadConfig(p) ==
    /\ pc[p] = "load"
    /\ \E file \in files["pave.yaml"] :
          LET c == Loaded(file, Env[p])
          IN  /\ Valid(c) /\ c["driver"] = "sqlite" /\ c["dsn"] = Database
              /\ Turns(p, IF Command(p) = "init" THEN "migrate" ELSE "parse", 1)
    /\ UNCHANGED <<disk, now, database, locals>>

\* The file is missing or not valid, or the database is elsewhere.
LoadRefuses(p) ==
    /\ pc[p] = "load"
    /\ \A file \in files["pave.yaml"] :
          LET c == Loaded(file, Env[p])
          IN  ~(Valid(c) /\ c["driver"] = "sqlite" /\ c["dsn"] = Database)
    /\ Turns(p, "failed", 1)
    /\ UNCHANGED <<disk, now, database, locals>>

ParseFile(p) ==
    /\ pc[p] = "parse"
    /\ Turns(p, IF files["FEATURES.md"] = {} THEN "failed" ELSE "migrate", 1)
    /\ memory' = [memory EXCEPT ![p] =
           [g \in (IF files["FEATURES.md"] = {"empty"} THEN {} ELSE Ids) |->
               "pending"]]
    /\ UNCHANGED <<disk, now, database, turn, read, started>>

\* One statement of the migration, outside of any transaction. Each is
\* CREATE ... IF NOT EXISTS; an index on a table that is not there is refused.
Migrate(p) ==
    /\ pc[p] = "migrate" /\ step[p] <= Len(Chunks)
    /\ LET chunk == Chunks[step[p]]
       IN  \/ /\ ~IsExecutable(chunk)
              /\ Turns(p, "migrate", step[p] + 1) /\ UNCHANGED schema
           \/ /\ IsExecutable(chunk) /\ chunk.needs \subseteq schema
              /\ schema' = schema \cup chunk.creates
              /\ Turns(p, "migrate", step[p] + 1)
           \/ /\ IsExecutable(chunk) /\ ~(chunk.needs \subseteq schema)
              /\ Turns(p, "broken", step[p]) /\ UNCHANGED schema
    /\ UNCHANGED <<disk, now, runs, rows, locals>>

StoreIsOpen(p) ==
    /\ pc[p] = "migrate" /\ step[p] > Len(Chunks)
    /\ Turns(p, IF Command(p) = "init" THEN "done" ELSE "list", 1)
    /\ UNCHANGED <<disk, now, database, locals>>

-----------------------------------------------------------------------------
(* latestFeatures and Reconcile, which runRun and runStatus share.         *)

Reconciled(p) == Goes(p, IF Command(p) = "run" THEN "stamp" ELSE "done")

ListRuns(p) ==
    /\ pc[p] = "list"
    /\ IF runs = {} THEN Reconciled(p) /\ UNCHANGED read
       ELSE /\ \E r \in ListedFirst : read' = [read EXCEPT ![p] = r]
            /\ Goes(p, "features")
    /\ UNCHANGED <<disk, now, database, step, turn, memory, started>>

ListFeatures(p) ==
    /\ pc[p] = "features"
    /\ memory' = [memory EXCEPT ![p] =
           [g \in DOMAIN @ |-> IF rows[read[p]][g] = "absent" THEN "pending"
                               ELSE rows[read[p]][g]]]
    /\ Reconciled(p)
    /\ UNCHANGED <<disk, now, database, step, turn, read, started>>

-----------------------------------------------------------------------------
(* runRun after that.                                                      *)

Upsert(p, g, status) ==
    LET hit == {r \in Procs : rows[r][g] # "absent" /\ Conflicts(r, p)}
    IN  rows' = [r \in Procs |->
            IF r \in hit \/ (hit = {} /\ r = p)
            THEN [rows[r] EXCEPT ![g] = status] ELSE rows[r]]

TakeStart(p) ==
    /\ pc[p] = "stamp"
    /\ started' = [started EXCEPT ![p] = now]
    /\ Goes(p, "insert")
    /\ UNCHANGED <<disk, now, database, step, turn, read, memory>>

CreateRun(p) ==
    /\ pc[p] = "insert"
    /\ runs' = runs \cup {p}
    /\ Turns(p, IF DOMAIN memory[p] = {} THEN "work" ELSE "upsert", 1)
    /\ UNCHANGED <<disk, now, schema, rows, locals>>

UpsertRow(p) ==
    /\ pc[p] = "upsert"
    /\ Upsert(p, Features[step[p]], memory[p][Features[step[p]]])
    /\ IF step[p] < Len(Features) THEN Turns(p, "upsert", step[p] + 1)
                                  ELSE Turns(p, "work", 1)
    /\ UNCHANGED <<disk, now, schema, runs, locals>>

SetStatus(p, g, status) ==
    /\ memory' = [memory EXCEPT ![p][g] = status]
    /\ Upsert(p, g, status)

\* Process: a feature is started, in the order of the list, unless it is
\* implemented already or its dependencies are not; and then it is settled.
StartFeature(p) ==
    /\ pc[p] = "work"
    /\ \E n \in step[p]..Len(Features) :
          /\ Features[n] \in DOMAIN memory[p]
          /\ memory[p][Features[n]] # "implemented"
          /\ SetStatus(p, Features[n], "in_progress")
          /\ Turns(p, "busy", n)
    /\ UNCHANGED <<disk, now, schema, runs, turn, read, started>>

SettleFeature(p) ==
    /\ pc[p] = "busy"
    /\ \E status \in Statuses \ {"in_progress"} :
          SetStatus(p, Features[step[p]], status)
    /\ Turns(p, "work", step[p] + 1)
    /\ UNCHANGED <<disk, now, schema, runs, turn, read, started>>

\* Process returns, after all features or before, and finishRun is done.
FinishRun(p) ==
    /\ pc[p] = "work"
    /\ Turns(p, "done", 1)
    /\ UNCHANGED <<disk, now, database, locals>>

-----------------------------------------------------------------------------
\* The process is killed, or an operation fails and the command returns.
Dies(p) ==
    /\ pc[p] \notin Ended
    /\ Turns(p, "failed", 1)
    /\ UNCHANGED <<disk, now, database, locals>>

\* A shell whose command has ended starts its next one.
NextCommand(p) ==
    /\ pc[p] \in Ended /\ turn[p] < Len(Script[p])
    /\ turn' = [turn EXCEPT ![p] = @ + 1]
    /\ Turns(p, First(Script[p][turn[p] + 1]), 1)
    /\ UNCHANGED <<disk, now, database, read, memory, started>>

\* The author saves pave.yaml or FEATURES.md.
Edit ==
    /\ edits < MaxEdits /\ edits' = edits + 1
    /\ \/ \E file \in Written : files' = [files EXCEPT !["pave.yaml"] = {file}]
       \/ files' = [files EXCEPT !["FEATURES.md"] = {"text"}]
    /\ UNCHANGED <<now, database, pc, step, locals>>

Tick ==
    /\ now < MaxTime /\ now' = now + 1
    /\ UNCHANGED <<disk, database, pc, step, locals>>

Init ==
    /\ files = [name \in {"pave.yaml", "FEATURES.md"} |-> {}]
    /\ edits = 0 /\ now = 0
    /\ schema = {} /\ runs = {}
    /\ rows = [p \in Procs |-> [g \in Ids |-> "absent"]]
    /\ pc = [p \in Procs |-> First(Script[p][1])]
    /\ step = [p \in Procs |-> 1]
    /\ turn = [p \in Procs |-> 1]
    /\ read = [p \in Procs |-> None]
    /\ memory = [p \in Procs |-> [g \in {} |-> "pending"]]
    /\ started = [p \in Procs |-> 0]

Scaffold(p) == StatFinds(p) \/ StatMisses(p) \/ Create(p) \/ Fill(p)
Open(p) == \/ LoadConfig(p) \/ LoadRefuses(p) \/ ParseFile(p) \/ Migrate(p)
           \/ StoreIsOpen(p)
Run(p) == \/ TakeStart(p) \/ CreateRun(p) \/ UpsertRow(p) \/ StartFeature(p)
          \/ SettleFeature(p) \/ FinishRun(p)
Process(p) == \/ Scaffold(p) \/ Open(p) \/ ListRuns(p) \/ ListFeatures(p)
              \/ Run(p) \/ Dies(p) \/ NextCommand(p)

Next == (\E p \in Procs : Process(p)) \/ Edit \/ Tick

Spec == Init /\ [][Next]_vars

-----------------------------------------------------------------------------
(* What several processes can rely on.                                     *)

\* Whatever pave.yaml holds when a command loads it, left empty by a kill, or
\* half scaffolded, or edited, each key gets the value that the documentation
\* names, with the environment before the file and the paths last
\* (config.go 110-112).
LoadedAsDocumented ==
    \A p \in Procs : pc[p] = "load" =>
        \A file \in files["pave.yaml"] : \A k \in Keys :
            Loaded(file, Env[p])[k] = AsDocumented(k, file, Env[p])

\* `pave init` "Never overwrites existing files" (README 146), as far as the
\* code keeps it: a file that is there while no init is between its Stat and
\* the end of its WriteFile is changed by the author only, from then on. What
\* is saved between the two is lost (scaffold.go 92-97).
Settled(name) ==
    /\ files[name] # {}
    /\ \A p \in Procs : pc[p] \in {"create", "fill"} => File(p) # name
InitKeepsFiles ==
    [][\A name \in Range(FileNames) :
          Settled(name) => /\ Settled(name)'
                           /\ edits' = edits => files'[name] = files[name]]_vars

\* A process that has opened the store finds every table and index, although
\* others open it, or were killed while they did, at the same time; and no
\* statement is ever refused (migrations.go 17-18).
OpenStoreIsWhole ==
    \A p \in Procs : /\ pc[p] \in Opened => Objects \subseteq schema
                     /\ pc[p] # "broken"

\* The engine never reads the table again: what it holds in memory is what
\* stands in the rows of its run, whatever other processes write, and stays so
\* when it is gone (run.go 100-106, sql_store.go 97-106).
TableIsMemory ==
    /\ \A p \in Procs, g \in Ids :
          rows[p][g] # "absent" =>
              /\ p \in runs /\ g \in DOMAIN memory[p]
              /\ rows[p][g] = memory[p][g]
    /\ \A p \in Procs, g \in Ids :
          pc[p] \in {"work", "busy"} /\ g \in DOMAIN memory[p] =>
              rows[p][g] # "absent"

\* A command starts from the newest run, in whatever time zones the runs were
\* started, except that among runs of one second it may be any: their texts
\* do not sort by time (status.go 76-85, sql_store.go 379).
NewestIsRead ==
    [][\A p \in Procs : read'[p] # read[p] =>
          \A r \in runs : started[r] \div Len(Fractions)
                             <= started[read'[p]] \div Len(Fractions)]_vars
=============================================================================
