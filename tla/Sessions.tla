------------------------------ MODULE Sessions ------------------------------
(***************************************************************************)
(* cmd/pave/run.go runRun: one `pave run` after another over one database. *)
(* Each invocation reads the rows of the latest run, creates a run of its  *)
(* own, reconciles, selects and writes its rows one by one, asks for       *)
(* confirmation, and hands the rows to the engine (module Engine, whose    *)
(* variables are this invocation's). The process may be killed, or its     *)
(* context cancelled, in any phase listed in Disturbed.                    *)
(*                                                                         *)
(* latestFeatures looks at the newest run only, so store, attempts and run *)
(* hold the rows of the newest run; what older runs reached is kept in a   *)
(* history variable.                                                       *)
(***************************************************************************)
EXTENDS EngineProperties, SequencesExt

CONSTANTS
    SpecRows,       \* the features of FEATURES.md in file order
    Options,        \* the flag combinations a user may pass
    Disturbed,      \* phases in which a kill or an early signal may happen
    MaxLaunches     \* bound: invocations of `pave run`

NoSelection == "none"   \* value of --feature when it is not given
Phases == {"off", "upserting", "planned", "engine"}

ASSUME SpecRowsAssumption ==
    SpecRows \in Seq(Features) /\ IsInjective(SpecRows)
ASSUME OptionsAssumption ==
    Options \subseteq [feature : Features \cup {NoSelection}, max : Nat,
                       dry : BOOLEAN]
ASSUME SessionsAssumption ==
    Disturbed \subseteq Phases \ {"off"} /\ MaxLaunches \in Nat

VARIABLES
    phase,      \* where runRun is; "engine" covers Process and finishRun
    opts,       \* flags of the current or last invocation
    upserted,   \* number of rows written by the loop of runRun
    checked,    \* features that FEATURES.md marks [x]
    launches,   \* number of invocations so far
    everDone    \* history: features some run's table had as implemented

sessionVars == <<phase, opts, upserted, checked, launches>>
allVars == <<vars, sessionVars, everDone>>

memory == <<i, done, perr, sum, attempt, process, listener>>

-----------------------------------------------------------------------------
(* state.Reconcile and selectFeatures.                                     *)

SlipReconcile(g) ==              \* the persisted status is not carried over
    IF g \in checked THEN "implemented" ELSE "pending"

\* The spec says which features exist, the table what became of them, and an
\* author's check mark wins.
Reconcile(g) ==
    IF g \in checked THEN "implemented"
    ELSE IF store[g] # "absent" THEN store[g]
    ELSE "pending"

SelectFeatures(status, o) ==
    LET pending == SelectSeq(SpecRows, LAMBDA g : status[g] # "implemented")
    IN  IF o.feature # NoSelection
        THEN SelectSeq(SpecRows, LAMBDA g : g = o.feature)
        ELSE IF o.max = 0 THEN SpecRows
        ELSE IF o.max < Len(pending) THEN SubSeq(pending, 1, o.max)
        ELSE pending

-----------------------------------------------------------------------------
NoRows == [g \in Features |-> "absent"]

SessionsInit ==
    /\ rows = <<>> /\ was = [g \in Features |-> "pending"]
    /\ timed \in Timeouts
    /\ store = NoRows /\ attempts = <<>> /\ run = "completed"
    /\ pc = "done" /\ i = 1 /\ done = {}
    /\ failures = 0 /\ ares = "normal" /\ result = "none"
    /\ perr = FALSE
    /\ sum = [implemented |-> 0, failed |-> 0, skipped |-> 0]
    /\ task = "idle" /\ paused = FALSE /\ acancel = FALSE
    /\ cooling = FALSE /\ cancelled = FALSE
    /\ keys = <<>> /\ presses = 0 /\ quitTaken = FALSE
    /\ faults = 0
    /\ phase = "off" /\ opts \in Options /\ upserted = 0
    /\ checked \in SUBSET Features /\ launches = 0
    /\ everDone = {}

\* A new process reads the latest rows and inserts its own run: from here on
\* the rows of the new run are the latest, and it has none yet.
Launch ==
    /\ phase = "off" /\ launches < MaxLaunches
    /\ launches' = launches + 1
    /\ opts' \in Options
    /\ was' = [g \in Features |-> Reconcile(g)]
    /\ rows' = SelectFeatures(was', opts')
    /\ store' = NoRows /\ attempts' = <<>> /\ run' = "running"
    /\ phase' = "upserting" /\ upserted' = 0
    /\ i' = 1 /\ done' = {} /\ perr' = FALSE
    /\ sum' = [implemented |-> 0, failed |-> 0, skipped |-> 0]
    /\ failures' = 0 /\ ares' = "normal" /\ result' = "none"
    /\ task' = "idle" /\ paused' = FALSE /\ acancel' = FALSE
    /\ cancelled' = FALSE
    /\ keys' = <<>> /\ presses' = 0 /\ quitTaken' = FALSE
    /\ UNCHANGED <<timed, pc, cooling, faults, checked>>

\* An error ends runRun and leaves the run's row saying "running".
UpsertRow ==
    /\ phase = "upserting" /\ upserted < Len(rows)
    /\ LET g == rows[upserted + 1]
       IN  \/ /\ StoreCall(TRUE)
              /\ store' = [store EXCEPT ![g] = was[g]]
              /\ upserted' = upserted + 1
              /\ UNCHANGED phase
           \/ /\ StoreCall(FALSE)
              /\ phase' = "off"
              /\ UNCHANGED <<store, upserted>>
    /\ UNCHANGED <<input, attempts, run, pc, memory, cooling, cancelled,
                   opts, checked, launches>>

\* A dry run ends here, with its run recorded as completed.
PlanReady ==
    /\ phase = "upserting" /\ upserted = Len(rows)
    /\ IF opts.dry
       THEN phase' = "off" /\ run' = "completed"
       ELSE phase' = "planned" /\ UNCHANGED run
    /\ UNCHANGED <<input, store, attempts, pc, memory, cooling, cancelled,
                   faults, opts, upserted, checked, launches>>

\* The user declines, or the provider or the terminal is not usable.
Declined ==
    /\ phase = "planned"
    /\ phase' = "off"
    /\ UNCHANGED <<vars, opts, upserted, checked, launches>>

StartProcess ==
    /\ phase = "planned"
    /\ phase' = "engine" /\ pc' = "pick"
    /\ done' = ImplementedSet(rows, was)
    /\ UNCHANGED <<input, tables, i, perr, sum, attempt, process, cooling,
                   cancelled, listener, faults, opts, upserted, checked,
                   launches>>

EngineStep ==
    /\ phase = "engine"
    /\ Planner \/ Provider \/ Environment
    /\ UNCHANGED sessionVars

Exit ==
    /\ phase = "engine" /\ pc = "done"
    /\ phase' = "off"
    /\ UNCHANGED <<vars, opts, upserted, checked, launches>>

EarlySignal ==
    /\ phase \in Disturbed \ {"engine"} /\ ~cancelled
    /\ cancelled' = TRUE
    /\ UNCHANGED <<input, tables, pc, memory, cooling, faults, sessionVars>>

\* kill -9: the tables stay as they are, the rest is gone.
Crash ==
    /\ phase \in Disturbed
    /\ phase' = "off" /\ pc' = "done" /\ task' = "idle"
    /\ UNCHANGED <<input, tables, loop, attempt, paused, acancel, cooling,
                   cancelled, listener, faults, opts, upserted, checked,
                   launches>>

\* Between two invocations the author may check features off or uncheck them.
EditSpec ==
    /\ phase = "off" /\ launches < MaxLaunches
    /\ checked' \in SUBSET Features
    /\ UNCHANGED <<vars, phase, opts, upserted, launches>>

NoMoreLaunches ==
    /\ phase = "off" /\ launches = MaxLaunches
    /\ UNCHANGED <<vars, sessionVars>>

Remember ==
    everDone' = everDone \cup {g \in Features : store'[g] = "implemented"}

SessionsNext ==
    /\ \/ Launch \/ UpsertRow \/ PlanReady \/ Declined \/ StartProcess
       \/ EngineStep \/ Exit \/ EarlySignal \/ Crash \/ EditSpec
       \/ NoMoreLaunches
    /\ Remember

SessionsSpec == SessionsInit /\ [][SessionsNext]_allVars

\* The same where no run ends between its own row and the last of its features:
\* the next one reads the newest run only (MCSessions_forgets).
RowsInserted == phase = "upserting" /\ phase' = "off" => upserted = Len(rows)
InsertingSpec == SessionsInit /\ [][SessionsNext /\ RowsInserted]_allVars

-----------------------------------------------------------------------------
(* Properties over several invocations.                                    *)

\* README 31: "a `kill -9` never re-implements completed features". A feature
\* that some run's table had as implemented is never given to a provider.
CompletedNeverReimplemented ==
    [][AttemptStarts => Current \notin everDone]_allVars

\* A feature that a killed run left in_progress is taken up again by the next
\* run over the whole list: when one completes, nothing is in_progress.
CompletedRunLeavesNothingInProgress ==
    phase = "off" /\ run = "completed" /\ rows = SpecRows
    /\ ~opts.dry /\ ~quitTaken =>
        \A g \in Features : store[g] # "in_progress"
=============================================================================
