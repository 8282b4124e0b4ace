------------------------------- MODULE Engine -------------------------------
(***************************************************************************)
(* internal/planner/planner.go: Engine.Process, runFeature and             *)
(* executeAttempt, for one run, together with what they share with their   *)
(* surroundings: the features, attempts and runs tables, the provider      *)
(* goroutine and its subprocess, the limiter's window, the key presses     *)
(* queued by the interactive listener, and the signal context.             *)
(*                                                                         *)
(* Process is one goroutine, so its position is one program counter:       *)
(*   pick    head of the feature loop            (Process, 94-104)         *)
(*   wait    in Limiter.Wait                     (runFeature, 155)         *)
(*   phase1  waiting for OnStart                 (executeAttempt, 229)     *)
(*   phase2  select over keys, result, ctx       (executeAttempt, 245)     *)
(*   drain   ctx cancelled, waiting for resCh    (236 and 275)             *)
(*   backoff waiting before a counted retry      (runFeature, 185)         *)
(*   settle  runFeature returned, row to write   (Process, 111-126)        *)
(*   check   row written, loop condition         (Process, 130)            *)
(*   finish  Process returned to runRun          (run.go, 162)             *)
(*   done    the run row has its final status                              *)
(***************************************************************************)
EXTENDS Integers, Sequences, FiniteSets

CONSTANTS
    Features,       \* IDs of the features in the spec
    DependsOn,      \* [Features -> SUBSET Features]: the declared dependencies
    RowLists,       \* the lists of rows Process may be given
    StartStatuses,  \* statuses a row may have when Process receives it
    MaxRetries,     \* Cfg.MaxRetries
    Timeouts,       \* {TRUE} iff Cfg.TaskTimeout > 0, {FALSE} iff not, or both
    KeyKinds,       \* keys the user may press
    MaxPresses,     \* bound: key presses in a run
    MaxLimits,      \* bound: attempts that end on a usage limit
    MaxFaults       \* bound: store calls that fail although ctx is live

Statuses == {"pending", "in_progress", "implemented", "failed"}
EventKinds == {"pause", "resume", "terminate", "quit"}
Outcomes == {"ok", "fail", "limited"}

ASSUME FeaturesAssumption == IsFiniteSet(Features)
ASSUME DependsOnAssumption == DependsOn \in [Features -> SUBSET Features]
ASSUME RowListsAssumption ==
    /\ RowLists \subseteq Seq(Features)
    /\ \A r \in RowLists : \A j, k \in 1..Len(r) : r[j] = r[k] => j = k
ASSUME StartStatusesAssumption == StartStatuses \subseteq Statuses
ASSUME RetriesAssumption == MaxRetries \in Nat
ASSUME TimeoutAssumption == Timeouts \subseteq BOOLEAN
ASSUME KeysAssumption == KeyKinds \subseteq EventKinds
ASSUME BoundsAssumption ==
    MaxPresses \in Nat /\ MaxLimits \in Nat /\ MaxFaults \in Nat

VARIABLES
    rows,       \* the features argument of Process: IDs in iteration order
    was,        \* status of each row when Process received it
    timed,      \* TRUE iff Cfg.TaskTimeout > 0
    store,      \* features table of this run; "absent" where it has no row
    attempts,   \* attempts table, with what each provider call returned
    run,        \* status of the run's row in the runs table
    pc, i,      \* position of Process and its loop index
    done,       \* the done map: IDs whose dependants may start
    failures,   \* runFeature's count of failures that are not limits
    ares,       \* attemptResult of the current or last attempt
    result,     \* provider.Result of the current or last attempt
    perr,       \* TRUE iff Process returns an error
    sum,        \* the Summary that Process returns
    task,       \* the provider goroutine: see Tasks
    paused,     \* TRUE iff the subprocess is stopped by SIGSTOP
    acancel,    \* TRUE iff attemptCtx is done by cancel() or its deadline
    cooling,    \* TRUE iff the limiter's resetAt lies in the future
    cancelled,  \* TRUE iff SIGINT or SIGTERM cancelled ctx
    keys,       \* presses not yet consumed, oldest first
    presses,    \* number of keys pressed so far
    quitTaken,  \* history: the last T or Q that was consumed is a Q
    faults      \* number of store calls that failed although ctx was live

input    == <<rows, was, timed>>
tables   == <<store, attempts, run>>
loop     == <<i, done, perr, sum>>
attempt  == <<failures, ares, result>>
process  == <<task, paused, acancel>>
listener == <<keys, presses, quitTaken>>
vars == <<input, tables, pc, loop, attempt, process, cooling, cancelled,
          listener, faults>>

-----------------------------------------------------------------------------
(* States of the provider goroutine of executeAttempt:                     *)
(*   idle      no attempt in flight                                        *)
(*   spawned   goroutine started, OnStart not called yet                   *)
(*   running   OnStart called: ctrlCh was filled, the subprocess lives     *)
(*   returned  the subprocess ended after OnStart: resCh is filled         *)
(*   unstarted Provider.Run returned without OnStart: resCh is filled      *)
Tasks == {"idle", "spawned", "running", "returned", "unstarted"}

Positions == {"pick", "wait", "phase1", "phase2", "drain", "backoff",
              "settle", "check", "finish", "done"}

AttemptRows == [feature : Features,
                row     : {"open", "closed"},
                got     : Outcomes \cup {"none"}]

Current == rows[i]               \* the loop variable f of Process
RowIds == {rows[k] : k \in 1..Len(rows)}
LastAttempt == Len(attempts)
InFlight == {"phase1", "phase2", "drain"}
LimitHits == {k \in 1..Len(attempts) : attempts[k].got = "limited"}

-----------------------------------------------------------------------------
(* Mistakes the properties must catch: each is a plausible slip in the     *)
(* definition below whose name it carries.                                 *)

SlipAlreadyDone(g) ==            \* only pending rows are worked on
    was[g] # "pending"
SlipDepsSatisfied(g) ==          \* being in this run is taken as done
    DependsOn[g] \subseteq RowIds
SlipDoneAfter == done            \* done[f.ID] = true is missing
SlipStatusOrder ==               \* the controls are looked at before Success
    IF ares # "normal" THEN "pending"
    ELSE IF result = "ok" THEN "implemented" ELSE "failed"
SlipCountedAs ==                 \* a terminated feature counts as failed
    IF result = "ok" THEN "implemented" ELSE "failed"
SlipExhausted(n) == n >= MaxRetries
SlipResultReady ==               \* ctx.Done returns without draining resCh
    task \in {"returned", "unstarted"} \/ (pc = "drain" /\ cancelled)
SlipStopsLoop == cancelled       \* the loop does not look at attemptQuit
SlipFinalStatus ==               \* Process's error is not looked at
    IF cancelled THEN "interrupted" ELSE "completed"
SlipReceiveResult ==             \* an attempt that was ended is not recorded
    /\ pc \in InFlight
    /\ task \in {"returned", "unstarted"}
    /\ IF ares # "normal"
       THEN UNCHANGED <<attempts, faults>>
       ELSE \/ /\ ~cancelled /\ UNCHANGED faults
               /\ attempts' = [attempts EXCEPT ![LastAttempt].row = "closed"]
            \/ /\ cancelled \/ faults < MaxFaults
               /\ faults' = IF cancelled THEN faults ELSE faults + 1
               /\ UNCHANGED attempts
    /\ task' = "idle"
    /\ UNCHANGED <<input, store, run, loop, ares, result, paused, acancel,
                   cancelled, listener>>
SlipMustStop == cancelled        \* the watcher is given ctx, not attemptCtx
SlipMustStopTimeout ==           \* the watcher runs only with a deadline
    timed /\ (acancel \/ cancelled)

-----------------------------------------------------------------------------
\* A store call made with ctx: it fails when ctx is cancelled, and may fail
\* for a reason of its own (a locked database) as often as the bound allows.
StoreCall(ok) ==
    /\ ok => ~cancelled
    /\ ~ok => cancelled \/ faults < MaxFaults
    /\ faults' = IF ok \/ cancelled THEN faults ELSE faults + 1

\* implementedSet: the rows that are implemented before the loop starts.
ImplementedSet(r, s) == {r[k] : k \in {j \in 1..Len(r) : s[r[j]] = "implemented"}}

AlreadyDone(g) == was[g] = "implemented"
DepsSatisfied(g) == DependsOn[g] \subseteq done

\* What Process makes of the result of runFeature, and how it counts it.
StatusAfter == IF result = "ok" THEN "implemented"
               ELSE IF ares # "normal" THEN "pending" ELSE "failed"
CountedAs == CASE StatusAfter = "implemented" -> "implemented"
               [] StatusAfter = "pending"     -> "skipped"
               [] OTHER                       -> "failed"
DoneAfter == IF result = "ok" THEN done \cup {Current} ELSE done
StopsLoop == ares = "quit" \/ cancelled

\* failures > MaxRetries: no attempt is left for this feature.
Exhausted(n) == n > MaxRetries

\* resCh holds a result.
ResultReady == task \in {"returned", "unstarted"}

\* attemptCtx is done: the subprocess is being stopped.
MustStop == acancel \/ cancelled

\* runRun's verdict on the run.
FinalStatus == IF cancelled THEN "interrupted"
               ELSE IF perr THEN "failed" ELSE "completed"

-----------------------------------------------------------------------------
(* runRun upserted every row it hands to Process, so table and argument    *)
(* agree; the limiter may have loaded a window that is still active.       *)
Init ==
    /\ rows \in RowLists
    /\ was \in [Features -> StartStatuses]
    /\ timed \in Timeouts
    /\ store = [g \in Features |-> IF g \in RowIds THEN was[g] ELSE "absent"]
    /\ attempts = <<>>
    /\ run = "running"
    /\ pc = "pick" /\ i = 1 /\ done = ImplementedSet(rows, was)
    /\ failures = 0 /\ ares = "normal" /\ result = "none"
    /\ perr = FALSE
    /\ sum = [implemented |-> 0, failed |-> 0, skipped |-> 0]
    /\ task = "idle" /\ paused = FALSE /\ acancel = FALSE
    /\ cooling \in BOOLEAN /\ cancelled = FALSE
    /\ keys = <<>> /\ presses = 0 /\ quitTaken = FALSE
    /\ faults = 0

-----------------------------------------------------------------------------
(* Process: the feature loop.                                              *)

SkipImplemented ==
    /\ pc = "pick" /\ i <= Len(rows)
    /\ AlreadyDone(Current)
    /\ i' = i + 1
    /\ UNCHANGED <<input, tables, pc, done, perr, sum, attempt, process,
                   cooling, cancelled, listener, faults>>

SkipUnmet ==
    /\ pc = "pick" /\ i <= Len(rows)
    /\ ~AlreadyDone(Current)
    /\ ~DepsSatisfied(Current)
    /\ i' = i + 1
    /\ sum' = [sum EXCEPT !.skipped = @ + 1]
    /\ UNCHANGED <<input, tables, pc, done, perr, attempt, process,
                   cooling, cancelled, listener, faults>>

\* runFeature's first write; its error is Process's error.
StartFeature ==
    /\ pc = "pick" /\ i <= Len(rows)
    /\ ~AlreadyDone(Current)
    /\ DepsSatisfied(Current)
    /\ \/ /\ StoreCall(TRUE)
          /\ store' = [store EXCEPT ![Current] = "in_progress"]
          /\ pc' = "wait"
          /\ failures' = 0 /\ ares' = "normal" /\ result' = "none"
          /\ UNCHANGED perr
       \/ /\ StoreCall(FALSE)
          /\ pc' = "finish" /\ perr' = TRUE
          /\ UNCHANGED <<store, attempt>>
    /\ UNCHANGED <<input, attempts, run, i, done, sum, process, cooling,
                   cancelled, listener>>

NoMoreFeatures ==
    /\ pc = "pick" /\ i > Len(rows)
    /\ pc' = "finish"
    /\ UNCHANGED <<input, tables, loop, attempt, process, cooling, cancelled,
                   listener, faults>>

\* done and the summary are updated before the row is written.
Settle ==
    /\ pc = "settle"
    /\ done' = DoneAfter
    /\ sum' = [sum EXCEPT ![CountedAs] = @ + 1]
    /\ \/ /\ StoreCall(TRUE)
          /\ store' = [store EXCEPT ![Current] = StatusAfter]
          /\ pc' = "check"
          /\ UNCHANGED perr
       \/ /\ StoreCall(FALSE)
          /\ pc' = "finish" /\ perr' = TRUE
          /\ UNCHANGED store
    /\ UNCHANGED <<input, attempts, run, i, attempt, process, cooling,
                   cancelled, listener>>

ContinueLoop ==
    /\ pc = "check" /\ ~StopsLoop
    /\ pc' = "pick" /\ i' = i + 1
    /\ UNCHANGED <<input, tables, done, perr, sum, attempt, process, cooling,
                   cancelled, listener, faults>>

LeaveLoop ==
    /\ pc = "check" /\ StopsLoop
    /\ pc' = "finish"
    /\ UNCHANGED <<input, tables, loop, attempt, process, cooling, cancelled,
                   listener, faults>>

-----------------------------------------------------------------------------
(* runFeature: the attempt loop.                                           *)

\* Limiter.Wait returns at once when no window is active, whatever ctx says;
\* then executeAttempt records the attempt and starts the provider goroutine.
BeginAttempt ==
    /\ pc = "wait" /\ ~cooling
    /\ \/ /\ StoreCall(TRUE)
          /\ attempts' = Append(attempts,
                            [feature |-> Current, row |-> "open", got |-> "none"])
          /\ pc' = "phase1"
          /\ task' = "spawned" /\ paused' = FALSE /\ acancel' = FALSE
          /\ ares' = "normal" /\ result' = "none"
          /\ UNCHANGED perr
       \/ /\ StoreCall(FALSE)
          /\ pc' = "finish" /\ perr' = TRUE
          /\ UNCHANGED <<attempts, process, ares, result>>
    /\ UNCHANGED <<input, store, run, i, done, sum, failures, cooling,
                   cancelled, listener>>

WaitInterrupted ==
    /\ pc = "wait" /\ cooling /\ cancelled
    /\ pc' = "finish" /\ perr' = TRUE
    /\ UNCHANGED <<input, tables, i, done, sum, attempt, process, cooling,
                   cancelled, listener, faults>>

BackoffOver ==
    /\ pc = "backoff"
    /\ pc' = "wait"
    /\ UNCHANGED <<input, tables, loop, attempt, process, cooling, cancelled,
                   listener, faults>>

BackoffCancelled ==
    /\ pc = "backoff" /\ cancelled
    /\ pc' = "settle" /\ ares' = "quit"
    /\ UNCHANGED <<input, tables, loop, failures, result, process, cooling,
                   cancelled, listener, faults>>

\* finishAttempt: an error of FinishAttempt is only logged, so the row stays
\* open; then executeAttempt returns and its goroutine is gone.
ReceiveResult ==
    /\ pc \in InFlight
    /\ ResultReady
    /\ \/ /\ StoreCall(TRUE)
          /\ attempts' = [attempts EXCEPT ![LastAttempt].row = "closed"]
       \/ /\ StoreCall(FALSE)
          /\ UNCHANGED attempts
    /\ task' = "idle"
    /\ UNCHANGED <<input, store, run, loop, ares, result, paused, acancel,
                   cancelled, listener>>

ResultEndsFeature ==
    /\ ReceiveResult
    /\ result = "ok" \/ ares # "normal"
    /\ pc' = "settle"
    /\ cooling' = (cooling \/ result = "limited")     \* Limiter.Observe
    /\ UNCHANGED failures

ResultLimited ==
    /\ ReceiveResult
    /\ result = "limited" /\ ares = "normal"
    /\ pc' = "wait"
    /\ cooling' = TRUE                                \* Limiter.Observe
    /\ UNCHANGED failures

ResultFails ==
    /\ ReceiveResult
    /\ result = "fail" /\ ares = "normal"
    /\ failures' = failures + 1
    /\ pc' = IF Exhausted(failures') THEN "settle" ELSE "backoff"
    /\ UNCHANGED cooling

-----------------------------------------------------------------------------
(* executeAttempt: the two selects.                                        *)

TakeControls ==
    /\ pc = "phase1" /\ task \in {"running", "returned"}
    /\ pc' = "phase2"
    /\ UNCHANGED <<input, tables, loop, attempt, process, cooling, cancelled,
                   listener, faults>>

\* ctx.Done in either phase: stop the subprocess and drain resCh.
AttemptCancelled ==
    /\ pc \in {"phase1", "phase2"} /\ cancelled
    /\ pc' = "drain" /\ ares' = "quit"
    /\ acancel' = TRUE
    /\ paused' = FALSE
    /\ UNCHANGED <<input, tables, loop, failures, result, task, cooling,
                   cancelled, listener, faults>>

ConsumeKey(kind) ==
    /\ pc = "phase2"
    /\ keys # <<>> /\ Head(keys) = kind
    /\ keys' = Tail(keys)
    /\ quitTaken' = (kind = "quit" \/ (quitTaken /\ kind # "terminate"))
    /\ UNCHANGED <<input, tables, pc, loop, failures, result, task, cooling,
                   cancelled, presses, faults>>

\* Pause and Resume fail, with a warning only, once the subprocess is reaped.
PauseTask ==
    /\ ConsumeKey("pause")
    /\ paused' = (paused \/ task = "running")
    /\ UNCHANGED <<ares, acancel>>

ResumeTask ==
    /\ ConsumeKey("resume")
    /\ paused' = FALSE
    /\ UNCHANGED <<ares, acancel>>

\* Stop resumes the subprocess and returns when it is reaped or was sent
\* SIGKILL; resCh may still be empty then, and the select runs again.
StopTask(kind, how) ==
    /\ ConsumeKey(kind)
    /\ ares' = how
    /\ paused' = FALSE /\ acancel' = TRUE

TerminateTask == StopTask("terminate", "terminated")
QuitRun == StopTask("quit", "quit")

-----------------------------------------------------------------------------
(* The provider goroutine, its subprocess and attemptCtx's deadline.       *)

ProviderStarts ==
    /\ task = "spawned"
    /\ task' = "running"
    /\ UNCHANGED <<input, tables, pc, loop, attempt, paused, acancel, cooling,
                   cancelled, listener, faults>>

\* Run returns an error before OnStart; the error is dropped and the zero
\* Result is a failure that is no limit.
ProviderCannotStart ==
    /\ task = "spawned"
    /\ task' = "unstarted"
    /\ result' = "fail"
    /\ attempts' = [attempts EXCEPT ![LastAttempt].got = "fail"]
    /\ UNCHANGED <<input, store, run, pc, loop, failures, ares, paused,
                   acancel, cooling, cancelled, listener, faults>>

\* A suspended subprocess ends only when it is stopped.  One that is stopped
\* may end in any way: it may just have finished its work.
ProviderExits ==
    /\ task = "running"
    /\ paused => MustStop
    /\ \E out \in Outcomes :
          /\ out = "limited" => Cardinality(LimitHits) < MaxLimits
          /\ result' = out
          /\ attempts' = [attempts EXCEPT ![LastAttempt].got = out]
    /\ task' = "returned"
    /\ UNCHANGED <<input, store, run, pc, loop, failures, ares, paused,
                   acancel, cooling, cancelled, listener, faults>>

TimeoutFires ==
    /\ timed
    /\ task \in {"spawned", "running"} /\ ~acancel
    /\ acancel' = TRUE
    /\ UNCHANGED <<input, tables, pc, loop, attempt, task, paused, cooling,
                   cancelled, listener, faults>>

-----------------------------------------------------------------------------
(* The surroundings: the clock, signals, the user, and runRun's last step. *)

CooldownOver ==
    /\ cooling
    /\ cooling' = FALSE
    /\ UNCHANGED <<input, tables, pc, loop, attempt, process, cancelled,
                   listener, faults>>

Signal ==
    /\ ~cancelled /\ pc # "done"
    /\ cancelled' = TRUE
    /\ UNCHANGED <<input, tables, pc, loop, attempt, process, cooling,
                   listener, faults>>

PressKey ==
    /\ presses < MaxPresses /\ pc # "done"
    /\ \E kind \in KeyKinds : keys' = Append(keys, kind)
    /\ presses' = presses + 1
    /\ UNCHANGED <<input, tables, pc, loop, attempt, process, cooling,
                   cancelled, quitTaken, faults>>

\* finishRun writes with a context that a signal does not cancel; if the
\* write fails the row keeps saying "running".
FinishRun ==
    /\ pc = "finish"
    /\ pc' = "done"
    /\ \/ /\ run' = FinalStatus
          /\ UNCHANGED faults
       \/ /\ faults < MaxFaults
          /\ faults' = faults + 1
          /\ UNCHANGED run
    /\ UNCHANGED <<input, store, attempts, loop, attempt, process, cooling,
                   cancelled, listener>>

-----------------------------------------------------------------------------
Planner ==
    \/ SkipImplemented \/ SkipUnmet \/ StartFeature \/ NoMoreFeatures
    \/ Settle \/ ContinueLoop \/ LeaveLoop
    \/ BeginAttempt \/ WaitInterrupted
    \/ BackoffOver \/ BackoffCancelled
    \/ ResultEndsFeature \/ ResultLimited \/ ResultFails
    \/ TakeControls \/ AttemptCancelled
    \/ PauseTask \/ ResumeTask \/ TerminateTask \/ QuitRun
    \/ FinishRun

Provider ==
    ProviderStarts \/ ProviderCannotStart \/ ProviderExits \/ TimeoutFires

Environment == CooldownOver \/ Signal \/ PressKey

Terminated == pc = "done" /\ UNCHANGED vars

Next == Planner \/ Provider \/ Environment \/ Terminated

Spec == Init /\ [][Next]_vars

\* The planner goroutine is scheduled; a spawned provider starts or fails; the
\* deadline fires; a cooldown passes.  A provider call may hang, even one that
\* is being stopped: when such a call returns is a question about Attempt.
\* Nobody has to press a key or send a signal.
Fairness ==
    /\ WF_vars(Planner)
    /\ WF_vars(ProviderStarts \/ ProviderCannotStart)
    /\ WF_vars(TimeoutFires)
    /\ WF_vars(CooldownOver)

FairSpec == Spec /\ Fairness
=============================================================================
