-------------------------- MODULE EngineProperties --------------------------
(***************************************************************************)
(* What Engine.Process must guarantee.  The last property is a statement   *)
(* of the documentation that the code does not keep.                       *)
(***************************************************************************)
EXTENDS Engine

\* The shape of the state.
FlagsOK ==
    /\ perr \in BOOLEAN /\ paused \in BOOLEAN /\ acancel \in BOOLEAN
    /\ cooling \in BOOLEAN /\ cancelled \in BOOLEAN /\ quitTaken \in BOOLEAN
    /\ timed \in BOOLEAN

ControlOK ==
    /\ run \in {"running", "completed", "failed", "interrupted"}
    /\ pc \in Positions
    /\ i \in Nat \ {0}
    /\ failures \in Nat
    /\ ares \in {"normal", "terminated", "quit"}
    /\ result \in Outcomes \cup {"none"}
    /\ task \in Tasks
    /\ presses \in Nat /\ faults \in Nat

TypeOK ==
    /\ rows \in Seq(Features)
    /\ was \in [Features -> Statuses]
    /\ store \in [Features -> Statuses \cup {"absent"}]
    /\ attempts \in Seq(AttemptRows)
    /\ done \subseteq Features
    /\ sum \in [implemented : Nat, failed : Nat, skipped : Nat]
    /\ keys \in Seq(EventKinds)
    /\ ControlOK
    /\ FlagsOK

AttemptsOf(g) == {k \in 1..Len(attempts) : attempts[k].feature = g}
Attempted(g) == AttemptsOf(g) # {}
Succeeded == {attempts[k].feature :
                 k \in {j \in 1..Len(attempts) : attempts[j].got = "ok"}}
CountedFailures(g) == {k \in AttemptsOf(g) : attempts[k].got = "fail"}
OpenRows == {k \in 1..LastAttempt : attempts[k].row = "open"}

-----------------------------------------------------------------------------
(* Safety.                                                                 *)

\* No provider call is made for a feature before all its dependencies are
\* implemented in the table itself, not only in Process's memory (99, 124).
DependenciesFirst ==
    \A k \in 1..Len(attempts) : \A g \in DependsOn[attempts[k].feature] :
        store[g] = "implemented"

\* A feature is marked failed after exactly MaxRetries + 1 failures that are
\* no usage limits, and never gets more than that many: limits do not count,
\* and neither do attempts that the user or a signal ended (164-180).
FailedOnlyAfterRetries ==
    \A g \in RowIds :
        /\ Cardinality(CountedFailures(g)) <= MaxRetries + 1
        /\ store[g] = "failed" /\ Attempted(g) =>
               Cardinality(CountedFailures(g)) = MaxRetries + 1

\* A provider call is never left behind: while one has not returned, Process
\* is inside executeAttempt, and the call belongs to the last attempt. So no
\* two subprocesses work on the project at once, and none outlives the run.
NoOrphanProvider ==
    \A k \in 1..Len(attempts) :
        attempts[k].got = "none" => k = LastAttempt /\ pc \in InFlight

\* A run recorded as completed threw no success away, even when the user
\* terminated or quit while the subprocess was finishing (Process, 112); it
\* left no feature half done, and no attempt row open unless a store call
\* failed for a reason of its own.
CompletedRunIsSettled ==
    run = "completed" =>
        /\ \A g \in Succeeded : store[g] = "implemented"
        /\ \A g \in RowIds : Attempted(g) => store[g] # "in_progress"
        /\ faults = 0 => \A k \in 1..Len(attempts) : attempts[k].row = "closed"

\* However a run ends, its loss is bounded. Only the feature the loop was at
\* may be left in_progress or have its success unrecorded, and only with
\* Process returning an error; and an attempt row stays open only for a store
\* call that failed of itself, or once for the signal: ctx is what every
\* write uses (124, 155, 304), and no attempt begins after one that lost its
\* row to the signal, although runFeature goes on (164-185).
LossIsBounded ==
    pc = "done" =>
        /\ \A g \in RowIds :
              Attempted(g) /\ \/ store[g] = "in_progress"
                              \/ g \in Succeeded /\ store[g] # "implemented"
                  => perr /\ g = Current
        /\ Cardinality(OpenRows) <= faults + (IF cancelled THEN 1 ELSE 0)

\* The printed summary agrees with the table when Process returned without an
\* error, and accounts for every row when the loop ran to its end.
SummaryMatchesTable ==
    pc \in {"finish", "done"} /\ ~perr =>
        /\ sum.implemented =
             Cardinality({g \in RowIds : /\ store[g] = "implemented"
                                         /\ was[g] # "implemented"})
        /\ sum.failed =
             Cardinality({g \in RowIds : store[g] = "failed" /\ Attempted(g)})
        /\ i > Len(rows) =>
             sum.implemented + sum.failed + sum.skipped =
             Cardinality({g \in RowIds : was[g] # "implemented"})

\* README 27 and 269, for a list in which every feature comes after its
\* dependencies: a completed run leaves a feature untried only when one of
\* its dependencies is not implemented at the end.
UntriedOnlyIfBlocked ==
    run = "completed" /\ ~quitTaken =>
        \A g \in RowIds :
            ~Attempted(g) /\ was[g] # "implemented" =>
                \E d \in DependsOn[g] : store[d] # "implemented"

-----------------------------------------------------------------------------
(* Action properties.                                                      *)

AttemptStarts == Len(attempts') > Len(attempts)

\* Once executeAttempt consumed a quit key, no provider call is made, however
\* the attempt ends (Process, 130; README 178) - unless a T that is consumed
\* in the same attempt takes the quit back (257).
NothingStartsAfterQuit == [][quitTaken => ~AttemptStarts]_vars

-----------------------------------------------------------------------------
(* Liveness.                                                               *)

\* The provider call was told to stop and does not return. The engine cannot
\* exclude it: with a fallback the secondary's OnStart may block for good (214,
\* 234; what Attempt finds as a stuck attempt), and Provider.Run waits for the
\* pipes, which a daemon started by the agent may hold (proc.go, 109). In every
\* other case Attempt shows that a stopped call returns (StoppedAttemptEnds).
Unanswered == task = "running" /\ MustStop

\* With a task timeout every run ends, even if each provider call would hang
\* and the user suspends the subprocess and never resumes it - unless a call
\* that was stopped never returns.
RunEnds == timed => <>(pc = "done") \/ <>[]Unanswered

\* With or without a task timeout a signal ends the run, wherever it finds
\* Process: in a cooldown, a backoff, or at a provider that hangs - unless the
\* call in flight, told to stop, never returns.
SignalEndsRun == <>cancelled => <>(pc = "done") \/ <>[]Unanswered

-----------------------------------------------------------------------------
(* Engine implements Lifecycle.                                            *)

Working == {"wait", "phase1", "phase2", "drain", "backoff", "settle"}
Nobody == "no feature"

\* An ID is a slug (parser.go, slugify): it has no space in it.
ASSUME NobodyAssumption == Nobody \notin Features

Promise == INSTANCE Lifecycle WITH
    NoFeature <- Nobody,
    table     <- store,
    active    <- IF pc \in Working THEN Current ELSE Nobody,
    proven    <- Succeeded,
    over      <- pc \in {"finish", "done"}

\* Every behaviour of the engine is one that Lifecycle allows.
ImplementsLifecycle == Promise!Spec

-----------------------------------------------------------------------------
(* The provider of the engine implements ProviderCall, as Attempt does.    *)

CallState == IF task = "idle" THEN "none"
             ELSE IF ResultReady THEN "answered" ELSE "open"

Call == INSTANCE ProviderCall WITH
    call    <- CallState,
    working <- task = "running",
    worked  <- task \in {"running", "returned"},
    answer  <- IF CallState = "answered" THEN result ELSE "none"

\* What the engine takes as one step of the provider is what a call promises:
\* it is answered once, and Process receives it before it calls again.
ImplementsCall == Call!Spec

-----------------------------------------------------------------------------
(* A statement of the documentation that the code does not keep.           *)

\* README 274: "on signal/quit: persist and exit cleanly"; README 180 says
\* the same of SIGINT and SIGTERM. But every write that follows the signal
\* uses the cancelled context.
InterruptedRunIsPersisted ==
    run = "interrupted" =>
        /\ \A k \in 1..Len(attempts) : attempts[k].row = "closed"
        /\ \A g \in RowIds : Attempted(g) => store[g] # "in_progress"
=============================================================================
