# Verification of pave

`pave` reads a list of features from `FEATURES.md`, keeps their status in a
database, and drives an AI coding CLI (Claude Code, GitHub Copilot CLI) to
implement them one after another. It survives kills, signals, usage limits,
hanging providers and the user's keys. This directory holds TLA+ models of that
behaviour, TLC configurations that check them, and TLAPS proofs.

Line numbers below refer to `src/`.

## 1. The system

| Component | State it keeps | Operations | Talks to |
|---|---|---|---|
| Planner engine (`internal/planner`) | loop index, `done` map, retry count, `attemptResult`, `resCh`, `ctrlCh` | `Process`, `runFeature`, `executeAttempt`, `applyControl`, `finishAttempt` | store, provider, limiter, keys, context |
| Run command (`cmd/pave/run.go`) | the run's row, the rows it plans | `runRun`, `selectFeatures`, `confirmRun`, `finishRun` | store, engine, listener |
| Reconcile (`internal/state/reconcile.go`) | none | spec + previous rows -> new rows | run command |
| SQL store (`internal/state`) | tables `runs`, `features`, `attempts`, `log_lines`, `limiter_windows` | one statement per call, no transactions | everybody |
| Providers (`internal/provider`) | none | `Run`: start the CLI, `OnStart`, wait, classify the result; `Fallback` tries a second one after a usage limit | `proc`, engine |
| Subprocess control (`internal/proc`) | process group, `done` channel | `Start`, `reap`, the context watcher, `Pause`, `Resume`, `Stop` (SIGCONT, SIGTERM, 5 s, SIGKILL) | engine, providers |
| Limiter (`internal/limiter`) | `strikes`, `resetAt`; the stored window | `New`, `Wait`, `Observe` | engine, store |
| Interactive keys (`internal/interactive`) | a reader and a mapper goroutine, two unbuffered channels, the terminal's mode | `Listen`, `ListenReader`, `MapKey` | engine |
| HTTP API (`internal/api`) | per connection: last line id, idle ticks | `streamLogs`; single reads otherwise | store, browser |
| Web UI (`ui/src`) | lines shown | `RunDetail`, `LogStream` with an `EventSource` | API |
| Parser, scanner (`internal/project`, `internal/scanner`) | none | text to features with unique ids and dependencies; search for ids in the code base, `Refine` | run and status commands |
| Terminal progress (`internal/tui`) | active feature, retry, counter, the line being drawn | callbacks of the planner, `Stop`, the animator goroutine, a mutex | engine, the terminal |
| Configuration (`internal/config`) | none | `Load`: defaults, file, blank values, environment, paths, `Validate` | every command |
| Init and scaffold (`cmd/pave/init.go`, `internal/scaffold`) | `pave.yaml`, `FEATURES.md` | `writeIfAbsent` for each, then `Load` and the migration | the author, every command |
| Migrations (`internal/state/migrations.go`) | tables and indexes | one `CREATE ... IF NOT EXISTS` after the other, by every command that opens the store | every command |
| Status, limits and UI commands | none; the UI's server | read the newest run; serve the API until a signal | store, API |
| Command wiring, version, update | none | | |

What is hard about it:

- **Concurrency inside one attempt.** The planner goroutine, the provider
  goroutine, a reaper and a watcher for each subprocess, the deadline of the
  attempt's context and the signal context all race; `Process.Stop` may run in
  three goroutines at once.
- **Kills and restarts.** A run's rows are written one by one and only the
  newest run is read back.
- **Writes that fail**, above all because a signal has cancelled the context
  they use.
- **Time**: retries, cooldowns, announced resets, a grace period.
- **Several processes** over one project: nothing locks it, the schema and the
  starter files are created step by step, and runs are told apart and ordered by
  what they wrote.
- **The console**: two goroutines between the keyboard and the planner, and an
  animator that writes to the same line as the planner's callbacks.
- **The log stream** reads lines and status in two queries while a run writes
  both, for clients that reconnect.

What makes each part correct is stated in its module, next to the definitions
named in section 3.

## 2. Modules and how they correspond to the code

| Module | Models | Composes |
|---|---|---|
| `Lifecycle` | abstract promise of one run about the features table | |
| `Engine`, `EngineProperties` | `Process`, `runFeature`, `executeAttempt`, the tables, and what surrounds them | implements `Lifecycle` |
| `ProviderCall` | abstract promise of one call of a provider | |
| `Sessions` | `runRun`, one invocation after another over one database | extends `Engine` |
| `Attempt` | one `executeAttempt` from inside: `Fallback.Run`, `Claude.Run`, `proc` | implements `ProviderCall`, as `Engine` does |
| `Limiter` | `internal/limiter`, `ParseResetTime`, the stored window, restarts | |
| `LogStream` | `streamLogs`, `log_lines`, `RunDetail` and `LogStream.tsx` | |
| `FeatureList` | `project.Parse`, `state.Reconcile`, `scanner.Scan` and `Refine`, between edits of `FEATURES.md` | a run as one step, which `Sessions` details |
| `Console` | `ListenReader`, `tui.Progress` and its animator | the planner as one that calls back, which `Engine` details |
| `Config` | `config.Load`: what a file and an environment mean | |
| `Commands` | `pave init`, `pave run` and `pave status` as processes at the same time: files, migration, tables | extends `Config`; a feature's work is two steps, which `Engine` details |
| `EngineProofs`, `AttemptProofs`, `LimiterProofs`, `LogStreamProofs`, `FeatureListProofs`, `ConsoleProofs`, `CommandsProofs` | theorems | `EngineProofs` is about `Engine` and, on top of it, about `Sessions` |
| `RecursionLemmas` | induction and recursion over the naturals, sequences put together from sequences | used by the proofs about `Limiter`, `LogStream`, `FeatureList` and `Console` |
| `MC*` | definitions for the configurations | |

**Engine.** `Process` is one goroutine, so its position is the variable `pc`;
the header of the module names the line of each position. `store`, `attempts`
and `run` are the tables; `done`, `failures`, `ares`, `result`, `perr`, `sum` the
variables of the same names in the code. `task` is the provider goroutine with
its subprocess. Every store call is `StoreCall(ok)`: it must fail when the
context it is given is cancelled and may fail otherwise, at most `MaxFaults`
times. `finishRun` uses a context that a signal does not cancel. Keys wait in
`keys` until phase 2 of `executeAttempt` reads them: nothing else does. An action
covers a store call together with the assignments up to the next one; between
two store calls, a kill (in `Sessions`) or a signal may come. `TaskTimeout` may
be zero (`timed` is FALSE): `config.Validate` asks for a positive one, the engine
itself does not and its tests use zero.

**Lifecycle.** Four actions: a feature is started when its dependencies are
implemented in the table; the provider proves it; it is finished, as
"implemented" exactly when it was proved; the run ends. `ImplementsLifecycle`
maps `active` to the current feature while `pc` is between `StartFeature` and
`Settle`, `proven` to the features with an attempt that returned success, `over` to
the end of `Process`.

**Sessions.** `Launch` is a new process: it reads the newest run, reconciles
(`Reconcile`), selects (`SelectFeatures`) and inserts its run; `UpsertRow` writes
one row; `PlanReady`, `Declined`, `StartProcess`, `EngineStep` and `Exit` follow
`runRun`. `Crash` may happen in the phases of `Disturbed`, `EarlySignal` likewise.
`EditSpec` is the author changing check marks between runs. `InsertingSpec` leaves out
the runs that end between `CreateRun` and their last `UpsertFeature`.

**Attempt.** Here the subprocess is not one variable: `life`, `stopped`, `killed`
say what the kernel knows, `spc` where each of the three goroutines is in
`Process.Stop`, `gpc` and `cur` where the provider goroutine is. `ctrlCh` is the
channel of capacity 1 that `OnStart` fills. SIGTERM has no effect of its own: a
subprocess may end at any time or ignore it. Pause and resume act on the
subprocess whose controls the planner received, which is the primary's even when
the secondary runs.

When the subprocess is gone, a process of its group or a daemon outside of it may
keep its output open (`pipes`), and only when nobody does is it reaped.

**ProviderCall.** A call is opened, works through one subprocess after another, is
answered once, and received. In `Attempt` (`ImplementsCall`) it works while a subprocess is
not reaped; in `Engine` (`EngineProofs!ImplementsCallHolds`) while `task` is busy. What
`Engine` takes as one variable is thereby what `Attempt` delivers, up to termination:
nothing in `Engine` assumes that a stopped call is answered. Its liveness properties except a
call that is told to stop and never returns (`Unanswered`), and `StoppedAttemptEnds`
shows in `Attempt` that there are two such calls only: a secondary that is
blocked in `OnStart`, and one whose output a daemon holds open.

**Limiter.** Times are distances that count down to zero, so time needs no bound;
`tod` is the time of day. `Observe` computes either the announced reset plus the
buffer or the backoff with jitter, including the conversion of a float that is
too large (`ToDuration`), and its write may fail. `ProcessEnds` and `New` may come
any number of times. Four history variables record what the properties talk
about; no action reads them.

**LogStream.** A log line is its id; other runs take ids too. `spc` is the place in
the loop of `streamLogs`: after `ListLogLines` finds nothing it is a separate step
to read the status. The client opens and closes the page, receives frames, loses
connections and reconnects as an `EventSource` does. `ui` is the process of `pave ui`:
after a signal `Shutdown` makes `ListenAndServe` return and `runUI` with it, so the
process may be gone while streams are open, and may be started again.

**Config.** A file is a function from the keys it gives to values. The passes of
`Load` are operators under the names they have in the code; `AsDocumented` is what the
comments say a key means, in one step: who says it (`Meant`) and, for `project_path` and the
file of an SQLite database, where it leads. `features_file` is not resolved by the code and
stays as given in both; commands open it from where they are started.

**Commands.** Each shell of `Procs` runs the commands of its `Script`. A step is one file
operation (`os.WriteFile` is two: it truncates and then writes), one statement of the
migration, or one store call. `Dies` ends a process anywhere; it stands for a kill, a
declined or unavailable run, and for a store call that fails, a lock that is held for
longer than `busy_timeout` included. A time is a number of ticks, its text a second and the
digits of a fraction; `SortsAfter` is the order of two texts, in which the end of a
fraction (the letter Z) comes after digits. `pave ui` and `pave limits` open the store as
`pave status` does.

**FeatureList.** The text of an item is a sequence of tokens and a slug a sequence of
words, so that an ID with the suffix `-2` can be compared with the slug of another
title. The metadata of a line is the sequence of its parts between commas, each with a key or
bare and with the IDs that blanks separate in it. A line without a box (`mark` "none") may
carry metadata too and is skipped, as in the code.
`Parse`, `Title` (`splitTitleDesc`), `DependsOn` (`applyMeta`), `Reconcile`,
`Mentioned` and `Refine` are operators; the actions are an author who inserts and
removes lines, code that is written where the scanner looks or does not look, and
`PaveRun`, one whole invocation with any outcome that dependencies allow.

**Console.** `tty`, `byte` and `event` are where a typed byte may be: unread, in the
reader's hands, in the mapper's hands. The two sends over `bytesCh` and `ch` are
one step of both sides (`PassByte`, `PassEvent`). A callback of the planner is one
step, since it holds the mutex from its first line to its return; the animator
holds it between `Lock` and `Draw`, and a callback waits for that (`MayLock`).
`Restore` is the goroutine that puts the terminal back into its mode (`mode`) when the
context is done, `LeaveRun` the deferred `stop()`, and `Exit` the end of `main`, which
waits for no goroutine. `line` is what stands on the cursor's line and `screen` what is above it, so that a
verdict written behind a spinner would be seen. The planner starts, retries,
finishes and skips features in order, receives keys only in phase 2 of an
attempt, and may leave `Process` at every point where a store call can fail.

## 3. What is checked

At most 3.8 million states per run, all within two minutes on two cores.

| Run | Shows |
|---|---|
| `MCEngine_run` | Two features, one depending on the other, selected together or one alone, one retry, two keys of any kind, one signal, one limit, one failing store call, with and without a deadline: `DependenciesFirst`, `FailedOnlyAfterRetries`, `NoOrphanProvider`, `CompletedRunIsSettled`, `SummaryMatchesTable`, `UntriedOnlyIfBlocked`, `LossIsBounded`, `NothingStartsAfterQuit`, `ImplementsLifecycle`; and under fairness `RunEnds` (with a deadline) and `SignalEndsRun` (without one too), both unless a call that was told to stop never returns. |
| `MCSessions_resume` | Three invocations over the whole list, killed or signalled while planned or in the engine, with two failing store calls after the rows are inserted (`InsertingSpec`): `CompletedNeverReimplemented`, `CompletedRunLeavesNothingInProgress`. |
| `MCAttempt_stops` | All keys, three of them, with and without fallback and deadline, with subprocesses that leave nobody, a process of their group or a daemon behind: `OneSubprocessAtATime`, `NothingOutlivesAttempt`, `ImplementsCall`; under fairness `StoppedAttemptEnds`, `DeadlineEndsAttempt`. |
| `MCLimiter_cooldown` | Four strikes, two failing store calls, restarts at will: `CooldownRespected`, `CooldownSurvivesRestarts`, `BackoffInRange`. One process runs after the other: of two at once, neither knows the other's window. |
| `MCLogStream_order` | Three ids, two faults (failing store calls, lost connections, stops of the server), three connections: `StreamIsInOrder`, `ClosedStreamIsComplete`; under fairness `EndedStreamCloses`, `LineIsShown`. |
| `MCFeatureList_list` | Files of up to three lines, of six kinds (two titles, each written in two ways, one of them with two dependencies behind a comma or a blank, a line that continues the one above, an item without a slug), edited between runs, and one source file that is searched or not: `UniqueIds`, `EditsAreLocal`, `DeclaredDependenciesFirst` (of what the item's own line declares), `ScanAddsTheMentioned` (of what is recorded with any status). |
| `MCConsole_terminal` | A failed, an implemented and a pending row, two bytes of which one is bound, one retry, a hang-up, a signal, on a terminal and not: `KeysConserved`, `CleanScreen`, `ScreenTellsRun`, `FrameIsCurrent`; under fairness `KeysGetThrough`, `StopReturns`. |
| `MCCommands_together` | `pave init` and then a status in one shell, two runs in others, in different time zones and with different environments, one edit by the author, three moments in two seconds, a migration of a table that a comment precedes, its index and a rest, any process killed anywhere: `OpenStoreIsWhole`, `TableIsMemory`, `LoadedAsDocumented`, `InitKeepsFiles`, `NewestIsRead`. |

Runs that show a disagreement between the code and what its documentation or
comments say (TLC finds the property violated):

| Run | Shows |
|---|---|
| `MCEngine_interrupted` | After a signal, the attempt row stays open and the feature in_progress, since the writes that follow use the cancelled context (planner.go:304, 124; README 274). The next run repairs the feature, nothing repairs the attempt. |
| `MCSessions_forgets` | The next run reads only the newest run's rows, and takes what has no row there for pending. `--max-features` writes only the rows it selected (run.go:101), and a kill between `CreateRun` and the last `UpsertFeature` leaves some out (run.go:96-106): either way implemented features are implemented again (README 31 and 127). With `FullOptions` only the kill is left, with `Disturbed` without "upserting" only the selection; each violates `CompletedNeverReimplemented` alone too. |
| `MCAttempt_stuck` | A signal that arrives in phase 1 with the primary's controls still in `ctrlCh`, when its output then looks like a usage limit: the secondary's `OnStart` blocks and the run never ends (planner.go:214, 234). |
| `MCConsole_restored` | The process may end before the goroutine that restores the terminal has run (interactive.go:67; 49 says that the terminal is restored when ctx is cancelled). |

Met while modelling and without a run of their own:

- *Keys.* A T consumed after a Q in the same attempt replaces the quit
  (planner.go:257), so `NothingStartsAfterQuit` speaks of the last T or Q that was
  consumed. A T pressed during a cooldown or backoff terminates the task that
  starts next, and a Q or Ctrl-C pressed there is not seen before
  (planner.go:155, run.go:254). A task terminated with T whose subprocess
  succeeds becomes implemented (README 177 says it stays pending).
- *Time.* An announced reset that passes before the provider exits becomes
  tomorrow's (limit.go:74), and the run waits for a day.
- *Selection and order.* A feature listed before its dependency is skipped although
  the dependency is implemented in the same run (README 27 speaks of dependency
  order). A skipped feature keeps an old status `failed` (planner.go:86 says
  pending). `--feature` skips the named feature when it has dependencies,
  implemented or not (run.go:182). A kill between `FinishAttempt` and
  `UpsertFeature` repeats a feature whose attempt succeeded.
- *The list.* "Same", "Same", "Same 2" give two features the ID `same-2`
  (parser.go:60), so `UniqueIds` is checked for titles without a number of their
  own. Among equal titles the suffixes move when one is inserted above, and the
  recorded statuses with them. A description that gets a separator which is
  earlier in `descSeparators` changes the title and so the ID (parser.go:84 says
  "the first dash separator", 94-103 take the first of the list). Unticking a box
  does not reopen a feature (reconcile.go:44). Bare words in trailing parentheses
  become dependencies (parser.go:112). `Parse` skips lines without a box
  (parser.go:46-51), and with them the metadata of an item that goes on over several
  lines: README 134-136 shows such an item, with its block on the third line, and the
  feature is implemented before what is declared there. The description is cut to the
  first line too. `DeclaredDependenciesFirst` therefore speaks of the item's own line.
- *Several processes.* Two `pave run` at once implement the same features twice, each
  in its own rows. A run that finds an empty FEATURES.md - a kill between the
  truncation and the writing in `writeIfAbsent` leaves one, and no later `pave init` completes it -
  has no rows, and becomes the newest. What the author saves between `Stat` and `WriteFile` in
  `writeIfAbsent` is truncated (scaffold.go:92-97), and so is what another `pave init` wrote
  and the author edited since; README 146 and scaffold.go:61 say that no existing file is
  overwritten. `InitKeepsFiles` is what remains of that. `pave init --dir D` creates the database under
  the directory it is started in and not under D (init.go:54-67, config.go:168), and then
  reports `.pave/state.db`. `PAVE_DRIVER` alone leaves the file path of SQLite as the DSN of another driver.
  Among runs of one second any may be taken for the newest (sql_store.go:379).
- *Limits of what is accepted.* `Validate` accepts negative backoffs; `Limiter` assumes
  positive ones (`BackoffAssumption`).
- *A daemon.* What leaves the process group and keeps the output open keeps the attempt
  waiting after `task_timeout` and after SIGKILL (proc.go:109; README 180 and 191 know no such exception).
- *The page.* When a run ends, the open page shows the whole log again with each
  reconnection (LogStream.tsx:10, RunDetail.tsx:60), and so does one that is connected
  again after a lost connection.
- *The scan.* What `pave status --scan` finds is stored nowhere, so README 120-127,
  "Option B", does not hold: the next `pave run` implements those features too. It
  matches parts of longer names, and `FEATURES.md` itself. A feature that is recorded as
  failed or in_progress and mentioned in a file is shown as implemented: every open box is
  pending when `Refine` looks at it (scanner.go:95), and `Reconcile`, which comes after it,
  keeps "implemented" (status.go:54, 68; reconcile.go:44). scanner_test.go:90 says that the
  scanner must not override a status that is not pending, and status.go:26 and 31 speak of
  pending features. `ScanAddsTheMentioned` says what the code does.

**Bounds and why they are enough.** Two features are the fewest for which order,
dependency and "the next feature" mean something; the loop treats each the same way.
One retry gives both a counted failure that is followed by another attempt and one
that is the last. The start status "failed" stands for every one that is not
implemented, since `Process` tells no others apart. Two presses give every pair of
keys in one attempt, three in `Attempt` a suspension after a stop was asked for.
In
`Attempt` either subprocess may leave anything behind. Three invocations are needed to complete, forget and repeat a feature. In `Limiter`,
four strikes reach the cap of the backoff (4, 8, 12) and the overflow of a duration
(16 and 32 against
15); two failing calls let a write and a read fail together; the cooldowns and the
day are long enough to be interrupted at every point. In `LogStream` three ids make
batches of two, a gap and a line after the batch; two faults let a store call fail in
a connection made after a lost one or a restart. In `FeatureList` three lines hold
a title, its duplicate and a line of another kind at every place between them, and one
file of code mentions an ID and, within it, a shorter one. In
`Console` two bytes fill both goroutines' hands, and the three rows are one that was
tried before, one that is passed over and one that may be skipped. In
`Commands` the two shells besides the one with `pave init` are the fewest that race
for the migration, the rows and the newest run; the first table with its comment, an
index and a rest are every kind of chunk there is, and the proofs hold for any list
of them. Each property was
tried against a slip in the code it speaks of (the `Slip...` operators of the
modules), which breaks it within the same bounds.

**Fairness.** Assumed only where the code's scheduling gives it. Goroutines that can
run, run. A spawned provider starts or fails. The deadline of `attemptCtx`, the
grace period of `Stop`, backoffs and the poll timer pass. SIGKILL ends a process and
an exited process whose output is closed is reaped; what is left in its group ends when
the group is killed, and of a daemon nothing is assumed. A `pave ui` that was told to stop
exits; nothing says that it is started again. Nothing is assumed of a provider that is left alone, of the user, or
of signals. In `Console`, strong fairness stands for Go's `select`, which picks at
random among the cases that are ready: the animator sees `stopCh` although its
ticker keeps firing, and the planner takes a key in the end. In `Engine` nothing is
assumed of a subprocess that is being stopped: `RunEnds` and `SignalEndsRun` allow
that such a call stays unanswered for good, and `Attempt` shows when that happens.

`MCAttempt_stops` and `MCAttempt_stuck` do not check deadlock: an attempt with a
fallback may be stuck for good, which is what the second of them shows. Neither
does `MCCommands_together`, where the shells come to the end of their scripts.

## 4. What is proved

For every value of the constants, under the assumptions the modules state
(`...Assumption`), which TLC evaluates too.

| Theorem | Says |
|---|---|
| `EngineProofs!TypeCorrect` | `TypeOK` is invariant |
| `EngineProofs!LossIsBoundedHolds` | however a run ends, only the feature the loop was at may be left half done, and open attempt rows are at most the failed store calls, plus one for a signal |
| `EngineProofs!NoOrphanProviderHolds` | a call that has not returned is the last one and is waited for |
| `EngineProofs!DependenciesFirstHolds` | dependencies are implemented in the table before a call |
| `EngineProofs!ImplementsCallHolds` | the engine's provider is a `ProviderCall` |
| `EngineProofs!ImplementsLifecycleHolds` | the engine implements `Lifecycle`, whatever fails |
| `EngineProofs!FailedOnlyAfterRetriesHolds` | a tried feature is failed with exactly `MaxRetries + 1` failures that are no limits, and has never more |
| `EngineProofs!CompletedRunIsSettledHolds` | a completed run lost no success and left nothing half done |
| `EngineProofs!SummaryMatchesTableHolds` | the summary counts what the table says |
| `EngineProofs!NothingStartsAfterQuitHolds` | no provider call once a quit was consumed and not taken back |
| `EngineProofs!UntriedOnlyIfBlockedHolds` | over lists in dependency order, a completed run leaves untried only what is blocked |
| `EngineProofs!CompletedRunLeavesNothingInProgressHolds` | a completed whole-list run leaves nothing in_progress, whatever came before it, where `WholeRuns` and `InsertingSpec` |
| `EngineProofs!CompletedNeverReimplementedHolds` | nothing that any run had as implemented is implemented again, where `WholeRuns` and `InsertingSpec` |
| `AttemptProofs!TypeCorrect` | `TypeOK` is invariant |
| `AttemptProofs!ImplementsCallHolds` | an attempt in full detail is a `ProviderCall` |
| `AttemptProofs!OneSubprocessAtATimeHolds` | the secondary starts only when the primary's subprocess is gone |
| `AttemptProofs!NothingOutlivesAttemptHolds` | no subprocess and no goroutine is left when `executeAttempt` returns |
| `LimiterProofs!CooldownRespectedHolds` | no call during the newest cooldown, over restarts |
| `LimiterProofs!CooldownSurvivesRestartsHolds` | every process holds exactly the newest cooldown |
| `LimiterProofs!BackoffInRangeHolds` | a computed cooldown is in its range, overflow and jitter included |
| `LogStreamProofs!StreamIsInOrderHolds` | a connection carries the lines in order, once and completely |
| `LogStreamProofs!ClosedStreamIsCompleteHolds` | a stream that closes by itself sent every line |
| `FeatureListProofs!UniqueIdsHolds` | no two features of a file share an ID, where `OwnTitles` |
| `FeatureListProofs!EditsAreLocalHolds` | an edit does not touch what is recorded for the titles elsewhere |
| `FeatureListProofs!DeclaredDependenciesFirstHolds` | no run implements a feature before what its line declares, however that is separated, where `OwnTitles` |
| `FeatureListProofs!ScanAddsTheMentionedHolds` | a scan shows what is recorded, or "implemented" for exactly what is mentioned, whatever was recorded |
| `ConsoleProofs!FrameIsCurrentHolds` | a spinner frame shows the present feature and its retries |
| `ConsoleProofs!CleanScreenHolds` | every line above the cursor has one entry on it; no spinner is left or drawn after `Stop` |
| `ConsoleProofs!ScreenTellsRunHolds` | on a terminal each feature started or skipped left one line, in order |
| `ConsoleProofs!KeysConservedHolds` | no key is lost, doubled or overtaken until ctx is cancelled |
| `CommandsProofs!OpenStoreIsWholeHolds` | whoever has the store open finds every table and index; no statement is refused |
| `CommandsProofs!TableIsMemoryHolds` | a run's rows are what its process holds, whatever others write |
| `CommandsProofs!LoadedAsDocumentedHolds` | every key, `project_path` and `dsn` included, is loaded with the value that the comments name, for every file, environment and set of relative paths |
| `CommandsProofs!InitKeepsFilesHolds` | a file that was there before any init looked for it is changed by the author only |
| `CommandsProofs!NewestIsReadHolds` | no run of an earlier second is read in place of a newer one |

The arguments:

- *Types.* `TypeOK` is not inductive: the row of `LastAttempt` is updated while the
  provider is busy. `TypeInv` adds `IndexOK`: the loop index is in range wherever
  `Current` is used, and there is an attempt while a provider is.
- *No orphan.* `OrphanInv` adds that a result in `resCh` is recorded in the last
  row, so that receiving it leaves no row without an outcome.
- *Dependencies.* `DepInv`: no row is touched before its turn (`Untouched`), the
  current feature is a row that was not implemented, everything in `done` is
  implemented in the table except possibly the feature just settled when its write
  failed - and then the run is over - and rows are distinct. The lemma
  `ImplementedStays` says that a step never takes "implemented" back.
- *What the tables say.* `AttemptInv` is what the six later theorems of `Engine` share:
  only rows the loop has come to have attempts, the call in flight is the last attempt
  of the current row, and that row has a success exactly when `result` is "ok" - which
  the refinement of `Lifecycle` needs, since a row may be settled with T after its
  provider succeeded. On top of it: `CountInv`, that `failures` is the number of failures
  in the table, less the one that has just been answered; `SettledInv`, that every
  tried feature is the current one or its row says how it went, that Process returns an error only
  at the end, and that open rows, the one of the call in flight left out, are no more than
  failed store calls, plus one once a signal took a write (`RowsBounded`): of it come both
  `CompletedRunIsSettled` and `LossIsBounded`; `SumInv`, that each
  counter is the size of a set of rows and a step that raises it adds one; `QuitInv`,
  that the loop is left early for a quit or a signal only; and `BlockedInv`, that `done`
  holds every implemented row and a row passed over has a dependency that is not
  implemented and will not be written again. The last needs lists in dependency order,
  a hypothesis of the theorem: without it the code does skip a feature whose dependency
  is implemented later (section 3). The refinement needs that no ID is the text that
  stands for "no feature" (`NobodyAssumption`).
- *Sessions.* `SessionsInv` goes by phases. Between invocations the table satisfies
  `TableInv`: it is about the list only, what is in_progress has its dependencies
  implemented in it (`Grounded`), and it has as implemented what any run had
  (`Remembered`). While rows are inserted, the first of them are as they were. In the
  engine, the engine's own invariants hold, which `StartProcess` establishes, and the
  rows behind the loop are not in_progress (`Visited`). `Grounded` is what makes the
  next run take up an in_progress feature instead of skipping it. Both theorems are
  about `InsertingSpec`, under `WholeRuns`: every run is over the whole list, and none ends
  before it inserted the last of its rows. From there on it may be killed or signalled, and
  any store call may fail. `MCSessions_forgets` shows that neither can be left out.
- *Attempt.* `GoroutineInv`: the provider goroutine is past a subprocess only when
  it is reaped, sends its result only then, and the planner returns only with it.
- *Calls.* Both refinements need an invariant: in `Attempt` that a result in `resCh`
  comes from a goroutine that is past its subprocesses (`GoroutineInv`) and that one which
  is not "fail" comes from a subprocess that was started; in `Engine` `TypeInv`, which says that a
  busy `task` is inside `executeAttempt` and what `result` may hold.
  Each action maps to one of `ProviderCall` or to a stutter.
- *Limiter.* `WindowInv` ties the stored, the remembered and the slept time to the
  newest cooldown, with an exception for what failing calls hid.
- *Log stream.* `IdleInv`: an idle poll is counted only after the run ended, so when
  the second one finds nothing, nothing will come. This is where `Grace >= 1` is
  needed (`GraceAssumption`).
- *Log lines.* `StreamInv`: what was received and what is on the wire is the lines of the
  log up to `lastId`; a line that is written later has a larger id than all before it.
- *Backoff.* `Pow2` is positive, so that the backoff is at least the initial one, unless
  the conversion overflowed, which the code maps to the cap; a quarter of jitter is
  the most that is taken off.
- *Features.* The only invariant is `FileOK`: the file is a list of at most `MaxLines`
  lines an author may write. What is proved is about the operators. `OnlyAppend` says what
  the loop of `Parse` makes of one line more, from which follows by induction over the
  length of a file what it makes of the whole. `OrdinalFacts`: of two items with one slug the later
  one has the larger ordinal, so their IDs differ; of two with different slugs they differ
  because no slug ends in the suffix of the other (`DistinctIds`). That is the hypothesis
  `OwnTitles`, which TLC evaluates for its lines; without it "Same", "Same", "Same 2" is a
  counterexample (section 3). `RecordedOf`: what a run plans for the items of a title is a
  function of these items and of the table, of nothing else in the file; this needs no
  hypothesis. Declared dependencies need distinct IDs, since the table has one row for each ID;
  a bare part with blanks in it becomes a dependency on what is nobody's ID (`NobodysId`), so
  that its feature is never started.
- *Console.* `FrameInv`: a frame exists only while the animator holds the mutex and
  agrees with what `Progress` holds; `PlaceInv`: `Progress` holds what the planner is
  at; `LineInv`: without an active feature the cursor's line is free. The three
  are inductive only together with the type of the place and a screen that is
  clean so far (`Clean`).
  `TellInv` adds what the screen and the cursor's line say of what was reported.
- *Keys.* `KeyInv` is the equation of `KeysConserved`, where the two goroutines' hands are
  sequences of at most one event. Each step moves the front of what is behind it to the
  end of what is in front of it, which is where the lemmas on `FlattenSeq` come in.
- *Commands.* `SchemaInv`: a process at the n-th chunk finds what the chunks before it
  create, because the schema only grows; with `ChunksAssumption` no index is refused.
  `Owned`: a process that is before its run has no rows, one that writes them has those
  of the features before its place, and each row it has is what it holds; `UpsertIsOwn`
  (the conflict on ID and run picks one row) and `OthersKept` make this a property of
  each process by itself. `LoadedIsDocumented` is about the passes of `Load` and needs no
  invariant: `OverriddenIsMeant` says what they make of a key up to the paths, from
  `NotCoerced` (a key that no pass restores has zero for its default, or is
  `max_retries`). `InitKeepsFiles` and `NewestIsRead` follow from one step each: a process comes to
  `WriteFile` only from a `Stat` that found nothing (`OthersFiles`), and the texts of times sort by their seconds.

Three choices in the modules serve the proofs and change nothing that TLC sees. The
provers have no facts about exponentiation, so `Limiter` has `Pow2` as a recursive
function, of which `NatFunctionExists` says that there is one. TLC's sorting
operator is opaque to them too, so `LogStream` says by `InOrder` which sequence the
sorted one is, and so is `SelectSeq`, in place of which `FeatureList` has `Only`, the
loop that appends, as a recursive function. Induction in the library takes an operator, which the provers cannot
instantiate; `NatSetInduction` states it for a set instead.

Only model-checked:

- liveness, which is out of the prover's reach: `RunEnds`, `SignalEndsRun`,
  `StoppedAttemptEnds`, `DeadlineEndsAttempt`, `EndedStreamCloses`, `LineIsShown`,
  `KeysGetThrough`, `StopReturns`;
- the runs that `WholeRuns` and `InsertingSpec` leave out, where `MCSessions_forgets` shows that
  `CompletedNeverReimplemented` is false.

Every invariant and every action property of the runs that pass is the subject of a theorem.

## 5. Not modelled

Prompt building, wording, logging, the syntax of YAML, the characters of Markdown, SQL and
its dialects, connections and locks of the drivers (a call that fails is one that ends its
process), command wiring, the counter and the wording of the spinner, Windows (no job control),
summer time, subprocesses that survive a kill of `pave` itself, reuse of process ids,
the UI's browser and the API's single reads. `PROJECT.json` lists the components
and the hazards with the properties that cover them.

## 6. Plan

Written so far, in this order: `Lifecycle`, `Engine`, `Sessions`, `Attempt`, `Limiter`,
`LogStream`, `FeatureList`, `Console`, `ProviderCall`, `Config`, `Commands`, each with its
configurations, and the proofs of section 4. What is left:

1. Extend the models:
   - `Engine` on top of `Limiter` instead of the flag `cooling`, and with the keys of
     `Console` instead of the queue `keys`.
   - the subprocess that survives a kill of its parent, in `Sessions`.
