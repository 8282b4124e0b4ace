------------------------------- MODULE Attempt -------------------------------
(***************************************************************************)
(* One call of Engine.executeAttempt, seen from inside: the planner's two  *)
(* selects, the provider goroutine with a possible fallback provider       *)
(* (provider/registry.go), and for each subprocess (internal/proc) its     *)
(* reaper, the goroutine that watches the attempt's context, and the       *)
(* signals that Pause, Resume and Stop send to its process group.          *)
(*                                                                         *)
(* Subprocess 1 is the primary provider's, subprocess 2 the secondary's.   *)
(* Three goroutines may run Process.Stop: the planner on the controls it   *)
(* received, and the watcher of either subprocess on its own.              *)
(***************************************************************************)
EXTENDS Integers, Sequences, FiniteSets

CONSTANTS
    Fallbacks,      \* {TRUE} iff a fallback provider is configured, ...
    Timeouts,       \* {TRUE} iff Cfg.TaskTimeout > 0, {FALSE} iff not, or both
    KeyKinds,       \* keys the user may press
    Leftovers,      \* who may keep a subprocess's pipes open: see Keepers
    MaxKeys         \* bound: keys consumed during the attempt

EventKinds == {"pause", "resume", "terminate", "quit"}
Subprocesses == {1, 2}
Stoppers == {"planner", "watcher 1", "watcher 2"}
\* nobody; a process of its group; one that left the group and so hears none
\* of Stop's signals.
Keepers == {"nobody", "group", "daemon"}

ASSUME FallbacksAssumption == Fallbacks \subseteq BOOLEAN
ASSUME TimeoutsAssumption == Timeouts \subseteq BOOLEAN
ASSUME KeyKindsAssumption == KeyKinds \subseteq EventKinds
ASSUME LeftoversAssumption == Leftovers \subseteq Keepers
ASSUME MaxKeysAssumption == MaxKeys \in Nat

VARIABLES
    fallback,   \* TRUE iff Fallback.Secondary is set
    timed,      \* TRUE iff Cfg.TaskTimeout > 0
    cancelled,  \* TRUE iff a signal cancelled ctx
    acancel,    \* TRUE iff attemptCtx is done by cancel() or its deadline
    pc,         \* the planner: see PlannerAt
    status,     \* executeAttempt's attemptResult
    controls,   \* subprocess the planner's controls act on; 0: none yet
    consumed,   \* number of keys consumed
    ctrlCh,     \* the channel OnStart sends to; its capacity is 1
    resCh,      \* the result the provider goroutine sent, or "empty"
    gpc,        \* the provider goroutine: see ProviderAt
    cur,        \* the subprocess the provider goroutine is at
    life,       \* state of each subprocess: see Lives
    stopped,    \* TRUE iff the subprocess is suspended by SIGSTOP
    killed,     \* TRUE iff SIGKILL was sent to it
    outcome,    \* what its exit status and output say, or "none"
    pipes,      \* who keeps its pipes open after it has exited
    spc         \* position of each goroutine in Process.Stop: see StopAt

config    == <<fallback, timed>>
planner   == <<pc, status, controls, consumed>>
goroutine == <<gpc, cur, resCh>>
os        == <<life, stopped, killed, outcome, pipes>>
vars == <<config, cancelled, acancel, planner, ctrlCh, goroutine, os, spc>>

-----------------------------------------------------------------------------
\* phase1, phase2: the selects; stopping: in controls.Stop(), for a key or,
\* "leaving", for ctx; drain: ctx cancelled, waiting for resCh.
PlannerAt == {"phase1", "phase2", "stopping", "leaving", "drain", "returned"}
ProviderAt == {"launch", "announce", "wait", "sent"}
Lives == {"none", "alive", "exited", "reaped"}
Outcomes == {"ok", "fail", "limited"}
StopAt == {"off", "resume", "terminate", "grace", "over"}

Watcher(p) == IF p = 1 THEN "watcher 1" ELSE "watcher 2"

\* The subprocess a goroutine's Stop acts on.
Target(a) ==
    IF a = "planner" THEN controls ELSE IF a = "watcher 1" THEN 1 ELSE 2

\* attemptCtx is done.
MustStop == acancel \/ cancelled

-----------------------------------------------------------------------------
(* Mistakes the properties must catch: each is a plausible slip in the     *)
(* definition below whose name it carries.                                 *)

SlipWaitOver(p) ==               \* Wait also returns when ctx is done
    life[p] = "reaped" \/ (life[p] # "none" /\ MustStop)
SlipEscalates(p) == FALSE        \* no SIGKILL after the grace period
SlipWatched == cancelled         \* launch is given ctx, not attemptCtx

-----------------------------------------------------------------------------
\* Wait returns, and Stop need not signal, once the reaper closed done.
WaitOver(p) == life[p] = "reaped"

\* Stop sends SIGKILL to whatever is still there after the grace period.
Escalates(p) == ~WaitOver(p)

\* The context the watcher of a subprocess waits for.
Watched == MustStop

\* OnStart's send does not block: the channel's buffer is free.
SendReady == ctrlCh = <<>>

\* Fallback.Run tries the secondary after a usage limit of the primary only.
FallsBack(p) == p = 1 /\ fallback /\ outcome[p] = "limited"

-----------------------------------------------------------------------------
Init ==
    /\ fallback \in Fallbacks /\ timed \in Timeouts
    /\ cancelled = FALSE /\ acancel = FALSE
    /\ pc = "phase1" /\ status = "normal" /\ controls = 0 /\ consumed = 0
    /\ ctrlCh = <<>> /\ resCh = "empty"
    /\ gpc = "launch" /\ cur = 1
    /\ life = [p \in Subprocesses |-> "none"]
    /\ stopped = [p \in Subprocesses |-> FALSE]
    /\ killed = [p \in Subprocesses |-> FALSE]
    /\ outcome = [p \in Subprocesses |-> "none"]
    /\ pipes = [p \in Subprocesses |-> "nobody"]
    /\ spc = [a \in Stoppers |-> "off"]

-----------------------------------------------------------------------------
(* Process.Stop, run by goroutine a: SIGCONT, SIGTERM, then SIGKILL when   *)
(* the subprocess is not reaped within the grace period. SIGTERM changes   *)
(* nothing here: a subprocess may end at any time anyway, or ignore it.    *)

BeginStop(a, p) ==
    spc' = [spc EXCEPT ![a] = IF WaitOver(p) THEN "over" ELSE "resume"]

StopResumes(a) ==
    /\ spc[a] = "resume"
    /\ stopped' = [stopped EXCEPT ![Target(a)] = FALSE]
    /\ spc' = [spc EXCEPT ![a] = "terminate"]
    /\ UNCHANGED <<config, cancelled, acancel, planner, ctrlCh, goroutine,
                   life, killed, outcome, pipes>>

\* SIGTERM can fail only when nothing is left of the process group.
StopTerminates(a) ==
    /\ spc[a] = "terminate"
    /\ spc' = [spc EXCEPT ![a] = "grace"]
    /\ UNCHANGED <<config, cancelled, acancel, planner, ctrlCh, goroutine, os>>

StopSucceeds(a) ==
    /\ spc[a] = "grace" /\ WaitOver(Target(a))
    /\ spc' = [spc EXCEPT ![a] = "over"]
    /\ UNCHANGED <<config, cancelled, acancel, planner, ctrlCh, goroutine, os>>

StopKills(a) ==
    /\ spc[a] = "grace"
    /\ Escalates(Target(a))
    /\ killed' = [killed EXCEPT ![Target(a)] = TRUE]
    /\ spc' = [spc EXCEPT ![a] = "over"]
    /\ UNCHANGED <<config, cancelled, acancel, planner, ctrlCh, goroutine,
                   life, stopped, outcome, pipes>>

StopStep(a) ==
    StopResumes(a) \/ StopTerminates(a) \/ StopSucceeds(a) \/ StopKills(a)

\* The goroutine that launch starts for ctx.
WatcherStops(p) ==
    /\ life[p] # "none" /\ Watched
    /\ spc[Watcher(p)] = "off"
    /\ BeginStop(Watcher(p), p)
    /\ UNCHANGED <<config, cancelled, acancel, planner, ctrlCh, goroutine, os>>

-----------------------------------------------------------------------------
(* The subprocess and its reaper.                                          *)

\* A suspended subprocess ends only by SIGKILL, and one that is killed does
\* not exit with 0; what it printed before may look like a usage limit.
Exits(p) ==
    /\ life[p] = "alive"
    /\ stopped[p] => killed[p]
    /\ life' = [life EXCEPT ![p] = "exited"]
    /\ \E out \in IF killed[p] THEN Outcomes \ {"ok"} ELSE Outcomes :
          outcome' = [outcome EXCEPT ![p] = out]
    /\ \E who \in IF killed[p] THEN Leftovers \ {"group"} ELSE Leftovers :
          pipes' = [pipes EXCEPT ![p] = who]
    /\ UNCHANGED <<config, cancelled, acancel, planner, ctrlCh, goroutine,
                   stopped, killed, spc>>

\* What the subprocess left behind ends too, or is killed with its group.
PipesClose(p) ==
    /\ life[p] = "exited" /\ pipes[p] # "nobody"
    /\ pipes[p] = "group" /\ stopped[p] => killed[p]
    /\ pipes' = [pipes EXCEPT ![p] = "nobody"]
    /\ UNCHANGED <<config, cancelled, acancel, planner, ctrlCh, goroutine,
                   life, stopped, killed, outcome, spc>>

\* cmd.Wait returns when the output has been copied to its end.
Reap(p) ==
    /\ life[p] = "exited" /\ pipes[p] = "nobody"
    /\ life' = [life EXCEPT ![p] = "reaped"]
    /\ UNCHANGED <<config, cancelled, acancel, planner, ctrlCh, goroutine,
                   stopped, killed, outcome, pipes, spc>>

-----------------------------------------------------------------------------
(* The provider goroutine: Fallback.Run around Claude.Run and Copilot.Run. *)

\* proc.Start does not look at its context before it starts the subprocess.
Launch ==
    /\ gpc = "launch"
    /\ \/ /\ life' = [life EXCEPT ![cur] = "alive"]
          /\ gpc' = "announce"
          /\ UNCHANGED resCh
       \/ /\ gpc' = "sent" /\ resCh' = "fail"
          /\ UNCHANGED life
    /\ UNCHANGED <<config, cancelled, acancel, planner, ctrlCh, cur, stopped,
                   killed, outcome, pipes, spc>>

\* OnStart, called for the secondary's subprocess as well.
Announce ==
    /\ gpc = "announce"
    /\ SendReady
    /\ ctrlCh' = Append(ctrlCh, cur)
    /\ gpc' = "wait"
    /\ UNCHANGED <<config, cancelled, acancel, planner, cur, resCh, os, spc>>

FallBack ==
    /\ gpc = "wait" /\ WaitOver(cur)
    /\ FallsBack(cur)
    /\ cur' = 2 /\ gpc' = "launch"
    /\ UNCHANGED <<config, cancelled, acancel, planner, ctrlCh, resCh, os,
                   spc>>

\* The secondary may be unavailable, or the primary's Wait may have failed.
SendResult ==
    /\ gpc = "wait" /\ WaitOver(cur)
    /\ gpc' = "sent" /\ resCh' = outcome[cur]
    /\ UNCHANGED <<config, cancelled, acancel, planner, ctrlCh, cur, os, spc>>

Goroutine == Launch \/ Announce \/ FallBack \/ SendResult

-----------------------------------------------------------------------------
(* The planner: phase 1, phase 2, and what follows ctx.                    *)

TakeControls ==
    /\ pc = "phase1" /\ ctrlCh # <<>>
    /\ controls' = Head(ctrlCh) /\ ctrlCh' = Tail(ctrlCh)
    /\ pc' = "phase2"
    /\ UNCHANGED <<config, cancelled, acancel, status, consumed, goroutine,
                   os, spc>>

CancelledBeforeStart ==
    /\ pc = "phase1" /\ cancelled
    /\ acancel' = TRUE /\ status' = "quit"
    /\ pc' = "drain"
    /\ UNCHANGED <<config, cancelled, controls, consumed, ctrlCh, goroutine,
                   os, spc>>

CancelledInFlight ==
    /\ pc = "phase2" /\ cancelled
    /\ status' = "quit" /\ pc' = "leaving"
    /\ BeginStop("planner", controls)
    /\ UNCHANGED <<config, cancelled, acancel, controls, consumed, ctrlCh,
                   goroutine, os>>

ConsumeKey(kind) ==
    /\ pc = "phase2"
    /\ kind \in KeyKinds /\ consumed < MaxKeys
    /\ consumed' = consumed + 1
    /\ UNCHANGED <<config, cancelled, acancel, controls, ctrlCh, goroutine,
                   life, killed, outcome, pipes>>

\* Pause and Resume return an error once the subprocess is reaped.
Suspend(kind, to) ==
    /\ ConsumeKey(kind)
    /\ stopped' = IF WaitOver(controls) THEN stopped
                  ELSE [stopped EXCEPT ![controls] = to]
    /\ UNCHANGED <<pc, status, spc>>

StopKey(kind, how) ==
    /\ ConsumeKey(kind)
    /\ status' = how /\ pc' = "stopping"
    /\ BeginStop("planner", controls)
    /\ UNCHANGED stopped

\* controls.Stop returned: cancel, then select again or wait for the result.
StopReturns ==
    /\ pc \in {"stopping", "leaving"} /\ spc["planner"] = "over"
    /\ spc' = [spc EXCEPT !["planner"] = "off"]
    /\ acancel' = TRUE
    /\ pc' = IF pc = "stopping" THEN "phase2" ELSE "drain"
    /\ UNCHANGED <<config, cancelled, status, controls, consumed, ctrlCh,
                   goroutine, os>>

\* executeAttempt returns; its deferred cancel() ends attemptCtx.
ReceiveResult ==
    /\ pc \in {"phase1", "phase2", "drain"} /\ resCh # "empty"
    /\ pc' = "returned" /\ acancel' = TRUE
    /\ UNCHANGED <<config, cancelled, status, controls, consumed, ctrlCh,
                   goroutine, os, spc>>

Planner ==
    \/ TakeControls \/ CancelledBeforeStart \/ CancelledInFlight
    \/ Suspend("pause", TRUE) \/ Suspend("resume", FALSE)
    \/ StopKey("terminate", "terminated") \/ StopKey("quit", "quit")
    \/ StopReturns \/ ReceiveResult

-----------------------------------------------------------------------------
Signal ==
    /\ ~cancelled /\ pc # "returned"
    /\ cancelled' = TRUE
    /\ UNCHANGED <<config, acancel, planner, ctrlCh, goroutine, os, spc>>

Deadline ==
    /\ timed /\ ~acancel
    /\ acancel' = TRUE
    /\ UNCHANGED <<config, cancelled, planner, ctrlCh, goroutine, os, spc>>

Next ==
    \/ Planner \/ Goroutine \/ Signal \/ Deadline
    \/ \E p \in Subprocesses :
          Exits(p) \/ PipesClose(p) \/ Reap(p) \/ WatcherStops(p)
    \/ \E a \in Stoppers : StopStep(a)

Spec == Init /\ [][Next]_vars

\* Goroutines are scheduled, the deadline and the grace period pass, SIGKILL
\* ends a process group, and an exited process whose pipes are closed is
\* reaped. Nothing makes a provider or what it left behind finish, or obey
\* SIGTERM.
Fairness ==
    /\ WF_vars(Planner) /\ WF_vars(Goroutine) /\ WF_vars(Deadline)
    /\ \A p \in Subprocesses :
          /\ WF_vars(killed[p] /\ Exits(p))
          /\ WF_vars(killed[p] /\ pipes[p] = "group" /\ PipesClose(p))
          /\ WF_vars(Reap(p))
          /\ WF_vars(WatcherStops(p))
    /\ \A a \in Stoppers : WF_vars(StopStep(a))

FairSpec == Spec /\ Fairness

-----------------------------------------------------------------------------
(* What an attempt guarantees.                                             *)

\* The shape of the state; the channel never holds more than its capacity.
FlagsOK ==
    /\ fallback \in BOOLEAN /\ timed \in BOOLEAN
    /\ cancelled \in BOOLEAN /\ acancel \in BOOLEAN
    /\ stopped \in [Subprocesses -> BOOLEAN]
    /\ killed \in [Subprocesses -> BOOLEAN]

PlacesOK ==
    /\ pc \in PlannerAt /\ status \in {"normal", "terminated", "quit"}
    /\ controls \in Subprocesses \cup {0} /\ consumed \in Nat
    /\ ctrlCh \in Seq(Subprocesses) /\ Len(ctrlCh) <= 1
    /\ resCh \in Outcomes \cup {"empty"}
    /\ gpc \in ProviderAt /\ cur \in Subprocesses
    /\ life \in [Subprocesses -> Lives]
    /\ outcome \in [Subprocesses -> Outcomes \cup {"none"}]
    /\ pipes \in [Subprocesses -> Keepers]
    /\ spc \in [Stoppers -> StopAt]

TypeOK == FlagsOK /\ PlacesOK

Unreaped == {p \in Subprocesses : life[p] \in {"alive", "exited"}}

\* The secondary works on the project only when the primary's subprocess is
\* gone, although the context may end at any moment (registry.go 43-55).
OneSubprocessAtATime == Cardinality(Unreaped) <= 1

\* When executeAttempt returns, no subprocess of it is left, suspended or
\* not, and the provider goroutine is done (planner.go 231-277).
NothingOutlivesAttempt ==
    pc = "returned" => Unreaped = {} /\ gpc = "sent"

\* A process that has left the group keeps the output of a subprocess open.
Daemon == \E p \in Subprocesses : pipes[p] = "daemon"

\* Once the planner has the controls, a key, a signal or the deadline that
\* stops the task makes executeAttempt return, even if the subprocess or what
\* it left in its group ignores SIGTERM or is suspended again by a pause that
\* comes late (proc.go 164-180); without a fallback this holds from the start.
\* Only a process outside of the group can prevent it (proc.go 109).
StoppedAttemptEnds ==
    (MustStop /\ (fallback => pc \notin {"phase1", "drain"}))
        ~> (pc = "returned" \/ Daemon)

\* The deadline alone ends an attempt of a provider that hangs, of one that
\* exited and left a process in its group, and of a subprocess that the user
\* suspended for good (planner.go 197-201).
DeadlineEndsAttempt == timed ~> (pc = "returned" \/ cancelled \/ Daemon)

\* Seen from outside, the attempt is one call of a provider: the fallback, the
\* goroutines in Stop and what a subprocess leaves behind do not show.
CallState == IF pc = "returned" THEN "none"
             ELSE IF resCh = "empty" THEN "open" ELSE "answered"
Worked == pc # "returned" /\ \E p \in Subprocesses : life[p] # "none"
AnswerGiven == IF CallState = "answered" THEN resCh ELSE "none"

Call == INSTANCE ProviderCall WITH
    call <- CallState, working <- Unreaped # {},
    worked <- Worked, answer <- AnswerGiven

\* Every attempt behaves as ProviderCall promises (planner.go 196-280).
ImplementsCall == Call!Spec

\* run.go 63: "cancel context, which stops the in-flight subprocess and lets
\* the run persist and exit cleanly". But with a fallback provider the
\* planner may leave phase 1 with the primary's controls still in ctrlCh; if
\* the primary's output then looks like a usage limit, the secondary's
\* OnStart blocks for ever, and the planner waits for its result.
SignalEndsAttempt == cancelled ~> (pc = "returned")
=============================================================================
