------------------------------ MODULE Console ------------------------------
(***************************************************************************)
(* The terminal of `pave run`: the two goroutines of ListenReader between  *)
(* the tty and the planner (internal/interactive), and the animator of     *)
(* tui.Progress, which shares the screen with the planner's callbacks      *)
(* under a mutex.                                                          *)
(*                                                                         *)
(* The planner is reduced to what it does to the console: it reports each  *)
(* feature's start, retries and end, receives keys while an attempt runs,  *)
(* and returns (Engine has the rest).                                      *)
(***************************************************************************)
EXTENDS Integers, Sequences, FiniteSets, SequencesExt

CONSTANTS
    Rows,       \* the rows of the run in order
    Terminals,  \* {TRUE} iff stdout is a terminal, {FALSE} iff not, or both
    Bytes,      \* what the user may type
    MaxKeys,    \* bound: bytes typed
    MaxRetries  \* bound: retries of a feature

Statuses == {"pending", "in_progress", "implemented", "failed"}
None == ""      \* no feature is active, no byte, no event

ASSUME RowsAssumption ==
    /\ Rows \in Seq([id : STRING, status : Statuses])
    /\ \A j, k \in 1..Len(Rows) : Rows[j].id = Rows[k].id => j = k
    /\ \A j \in 1..Len(Rows) : Rows[j].id # None
ASSUME ConsoleAssumption == Terminals \subseteq BOOLEAN /\ Bytes \subseteq STRING
ASSUME BoundsAssumption == MaxKeys \in Nat /\ MaxRetries \in Nat

VARIABLES
    ansi,       \* stdout is a terminal
    mode,       \* of the terminal that stdin is: "raw" or "cooked"
    typed,      \* history: bytes typed
    tty,        \* those that no goroutine has read
    hungup,     \* no more will come: Read returns an error
    rpc, byte,  \* reader: see ReaderAt; the byte it sends
    mpc, event, \* mapper: see MapperAt; the event it sends
    taken,      \* history: events that the planner received
    cancelled,  \* ctx is done
    pc, i,      \* planner: see PlannerAt; index of the row
    tries,      \* retries of the present feature
    active, retry, stopping,    \* Progress: activeID, activeRetry, and whether
                                \* stopCh is closed
    apc, frame, \* animator: see AnimatorAt; what it draws
    line,       \* what stands on the cursor's line
    screen,     \* the lines above it
    reported    \* history: IDs that were reported as started or skipped

keyboard == <<typed, tty, hungup, rpc, byte, mpc, event, taken>>
planner  == <<pc, i, tries, reported>>
progress == <<active, retry, stopping>>
animator == <<apc, frame>>
display  == <<line, screen>>
vars == <<ansi, mode, keyboard, cancelled, planner, progress, animator,
          display>>

ReaderAt == {"read", "send", "gone"}
\* idle: stdin is no terminal, and the channel's only sender waits for ctx.
MapperAt == {"receive", "send", "idle", "gone"}
\* pick: between features; wait: before an attempt; attempt: phase 2 of
\* executeAttempt, the only place where keys are received; decide: after it;
\* ended: Process returned; stopped: Stop closed stopCh and waits for doneCh;
\* over: Stop returned; left: runRun returned, and its deferred stop() with it;
\* exited: so did main.
PlannerAt == {"pick", "wait", "attempt", "decide", "ended", "stopped", "over",
              "left", "exited"}
Over == pc \in {"over", "left", "exited"}
\* select: between two ticks; tick: before Lock; draw: holding the mutex.
AnimatorAt == {"select", "tick", "draw", "gone"}

-----------------------------------------------------------------------------
SlipMapperReady == TRUE          \* the mapper's event is overwritten
SlipInputOver == hungup          \* what was typed before the end is left
SlipMayLock == TRUE              \* a callback does not take the mutex
SlipRetryAtStart == retry        \* activeRetry is not reset
SlipSeesStop == FALSE            \* animate does not select on stopCh
SlipFlushes == FALSE             \* Stop leaves the active line alone

-----------------------------------------------------------------------------
(* internal/interactive: Listen and ListenReader.                          *)

\* The event of a byte, if it is bound.
MapKey(b) == CASE b = "p" -> <<"pause">>
               [] b = "r" -> <<"resume">>
               [] b = "t" -> <<"terminate">>
               [] b \in {"q", "ctrl-c"} -> <<"quit">>
               [] OTHER   -> <<>>
Mapped(bytes) == FlattenSeq([k \in 1..Len(bytes) |-> MapKey(bytes[k])])

\* Nobody would take what is typed when Process has returned.
TypeKey ==
    /\ mpc # "idle" /\ ~hungup /\ ~Over /\ Len(typed) < MaxKeys
    /\ \E b \in Bytes : typed' = Append(typed, b) /\ tty' = Append(tty, b)
    /\ UNCHANGED <<ansi, mode, hungup, rpc, byte, mpc, event, taken, cancelled,
                   planner, progress, animator, display>>

HangUp ==
    /\ mpc # "idle" /\ ~hungup /\ ~Over
    /\ hungup' = TRUE
    /\ UNCHANGED <<ansi, mode, typed, tty, rpc, byte, mpc, event, taken,
                   cancelled, planner, progress, animator, display>>

InputOver == hungup /\ tty = <<>>      \* Read returns no byte but an error
MapperReady == mpc = "receive"

ReadByte ==
    /\ rpc = "read" /\ tty # <<>>
    /\ rpc' = "send" /\ byte' = Head(tty) /\ tty' = Tail(tty)
    /\ UNCHANGED <<ansi, mode, typed, hungup, mpc, event, taken, cancelled,
                   planner, progress, animator, display>>

\* A blocked Read is not interrupted by ctx: the reader ends with the input,
\* or with the first byte after a cancellation.
ReaderEnds ==
    /\ \/ rpc = "read" /\ InputOver
       \/ rpc = "send" /\ cancelled
    /\ rpc' = "gone"
    /\ UNCHANGED <<ansi, mode, typed, tty, hungup, byte, mpc, event, taken,
                   cancelled, planner, progress, animator, display>>

\* bytesCh is unbuffered: both goroutines move, and an unbound byte is dropped.
PassByte ==
    /\ rpc = "send" /\ mpc # "gone" /\ MapperReady
    /\ rpc' = "read"
    /\ IF MapKey(byte) = <<>>
       THEN UNCHANGED <<mpc, event>>
       ELSE mpc' = "send" /\ event' = Head(MapKey(byte))
    /\ UNCHANGED <<ansi, mode, typed, tty, hungup, byte, taken, cancelled,
                   planner, progress, animator, display>>

\* The planner takes an event in phase 2 only.
PassEvent ==
    /\ mpc = "send" /\ pc = "attempt"
    /\ mpc' = "receive" /\ taken' = Append(taken, event)
    /\ UNCHANGED <<ansi, mode, typed, tty, hungup, rpc, byte, event, cancelled,
                   planner, progress, animator, display>>

MapperEnds ==
    /\ mpc # "gone"
    /\ cancelled \/ (mpc = "receive" /\ rpc = "gone")
    /\ mpc' = "gone"
    /\ UNCHANGED <<ansi, mode, typed, tty, hungup, rpc, byte, event, taken,
                   cancelled, planner, progress, animator, display>>

\* The goroutine that waits for ctx to restore the terminal. It is there as
\* long as the terminal is raw, and the process.
Restore ==
    /\ mode = "raw" /\ cancelled /\ pc # "exited"
    /\ mode' = "cooked"
    /\ UNCHANGED <<ansi, keyboard, cancelled, planner, progress, animator,
                   display>>

-----------------------------------------------------------------------------
(* tui.Progress: the callbacks, each one critical section.                 *)

\* mu is free: nobody but the animator keeps it for more than one step.
MayLock == apc # "draw"
RetryAtStart == 0

\* What is written about a feature (its end has a mark and a colour by status,
\* which are left out), and the line that ansiEraseLine leaves.
Shown(id, s) == [id |-> id, shows |-> s]
Erased == <<>>

FeatureStarted(id) ==
    /\ MayLock
    /\ active' = id /\ retry' = RetryAtStart
    /\ screen' = IF ansi THEN screen ELSE Append(screen, <<Shown(id, "start")>>)
    /\ UNCHANGED <<stopping, line>>

FeatureRetry(id) ==
    /\ MayLock
    /\ IF ansi
       THEN retry' = tries' /\ UNCHANGED screen
       ELSE screen' = Append(screen, <<Shown(id, "retry")>>) /\ UNCHANGED retry
    /\ UNCHANGED <<active, stopping, line>>

FeatureFinished(id) ==
    /\ MayLock
    /\ active' = None
    /\ screen' = Append(screen, Append(Erased, Shown(id, "end")))
    /\ line' = <<>>
    /\ UNCHANGED <<retry, stopping>>

\* No erase here: a spinner on the line would stay in front.
FeatureSkipped(id) ==
    /\ MayLock
    /\ screen' = Append(screen, Append(line, Shown(id, "end")))
    /\ line' = <<>>
    /\ UNCHANGED <<active, retry, stopping>>

\* animate: the ticker, and the critical section in which the frame is made.
Tick ==
    /\ apc = "select"
    /\ apc' = "tick"
    /\ UNCHANGED <<ansi, mode, keyboard, cancelled, planner, progress, frame,
                   display>>

Lock ==
    /\ apc = "tick"
    /\ apc' = "draw"
    /\ frame' = IF ansi /\ active # None
                THEN <<[id |-> active, retry |-> retry]>>
                ELSE <<>>
    /\ UNCHANGED <<ansi, mode, keyboard, cancelled, planner, progress,
                   display>>

Draw ==
    /\ apc = "draw"
    /\ apc' = "select" /\ frame' = <<>>
    /\ line' = IF frame = <<>> THEN line
               ELSE <<Shown(frame[1].id, "spinner")>>
    /\ UNCHANGED <<ansi, mode, keyboard, cancelled, planner, progress, screen>>

SeesStop == stopping
AnimatorEnds ==
    /\ apc = "select" /\ SeesStop
    /\ apc' = "gone"
    /\ UNCHANGED <<ansi, mode, keyboard, cancelled, planner, progress, frame,
                   display>>

-----------------------------------------------------------------------------
(* The planner.                                                            *)

PassImplemented ==
    /\ pc = "pick" /\ i <= Len(Rows) /\ Rows[i].status = "implemented"
    /\ i' = i + 1
    /\ UNCHANGED <<ansi, mode, keyboard, cancelled, pc, tries, reported,
                   progress, animator, display>>

ToDo == pc = "pick" /\ i <= Len(Rows) /\ Rows[i].status # "implemented"

SkipFeature ==
    /\ ToDo
    /\ FeatureSkipped(Rows[i].id)
    /\ i' = i + 1 /\ reported' = Append(reported, Rows[i].id)
    /\ UNCHANGED <<ansi, mode, keyboard, cancelled, pc, tries, animator>>

StartFeature ==
    /\ ToDo
    /\ FeatureStarted(Rows[i].id)
    /\ pc' = "wait" /\ tries' = 0
    /\ reported' = Append(reported, Rows[i].id)
    /\ UNCHANGED <<ansi, mode, keyboard, cancelled, i, animator>>

BeginAttempt ==
    /\ pc = "wait" /\ pc' = "attempt"
    /\ UNCHANGED <<ansi, mode, keyboard, cancelled, i, tries, reported,
                   progress, animator, display>>

EndAttempt ==
    /\ pc = "attempt" /\ pc' = "decide"
    /\ UNCHANGED <<ansi, mode, keyboard, cancelled, i, tries, reported,
                   progress, animator, display>>

RetryFeature ==
    /\ pc = "decide" /\ tries < MaxRetries
    /\ pc' = "wait" /\ tries' = tries + 1
    /\ FeatureRetry(Rows[i].id)
    /\ UNCHANGED <<ansi, mode, keyboard, cancelled, i, reported, animator>>

\* Process goes on, or leaves the loop after a quit or a cancellation.
FinishFeature ==
    /\ pc = "decide"
    /\ FeatureFinished(Rows[i].id)
    /\ i' = i + 1
    /\ pc' \in {"pick", "ended"} /\ (cancelled => pc' = "ended")
    /\ UNCHANGED <<ansi, mode, keyboard, cancelled, tries, reported, animator>>

\* The rows are done, or a store call or Wait returned an error.
LeaveProcess ==
    /\ pc \in {"pick", "wait", "decide"}
    /\ pc' = "ended"
    /\ UNCHANGED <<ansi, mode, keyboard, cancelled, i, tries, reported,
                   progress, animator, display>>

CloseStop ==
    /\ pc = "ended"
    /\ pc' = "stopped" /\ stopping' = TRUE
    /\ UNCHANGED <<ansi, mode, keyboard, cancelled, i, tries, reported, active,
                   retry, animator, display>>

Flushes == ansi /\ active # None

FinishStop ==
    /\ pc = "stopped" /\ apc = "gone"
    /\ pc' = "over"
    /\ IF Flushes
       THEN /\ screen' = Append(screen, Append(Erased, Shown(active, "end")))
            /\ line' = <<>> /\ active' = None
       ELSE UNCHANGED <<display, active>>
    /\ UNCHANGED <<ansi, mode, keyboard, cancelled, i, tries, reported, retry,
                   stopping, animator>>

Signal ==
    /\ ~cancelled /\ pc # "exited"
    /\ cancelled' = TRUE
    /\ UNCHANGED <<ansi, mode, keyboard, planner, progress, animator, display>>

\* runRun returns: its deferred stop() cancels ctx.
LeaveRun ==
    /\ pc = "over"
    /\ pc' = "left" /\ cancelled' = TRUE
    /\ UNCHANGED <<ansi, mode, keyboard, i, tries, reported, progress,
                   animator, display>>

\* main returns or calls os.Exit, and waits for no goroutine.
Exit ==
    /\ pc = "left"
    /\ pc' = "exited" /\ rpc' = "gone" /\ mpc' = "gone"
    /\ UNCHANGED <<ansi, mode, typed, tty, hungup, byte, event, taken,
                   cancelled, i, tries, reported, progress, animator, display>>

-----------------------------------------------------------------------------
Init ==
    /\ ansi \in Terminals
    /\ typed = <<>> /\ tty = <<>> /\ hungup = FALSE
    /\ byte = None /\ event = None /\ taken = <<>>
    /\ \/ mode = "raw" /\ rpc = "read" /\ mpc = "receive"
       \/ mode = "cooked" /\ rpc = "gone" /\ mpc = "idle"
    /\ cancelled = FALSE
    /\ pc = "pick" /\ i = 1 /\ tries = 0 /\ reported = <<>>
    /\ active = None /\ retry = 0 /\ stopping = FALSE
    /\ apc = "select" /\ frame = <<>>
    /\ line = <<>> /\ screen = <<>>

Listener == ReadByte \/ ReaderEnds \/ PassByte \/ MapperEnds
Animator == Tick \/ Lock \/ Draw \/ AnimatorEnds
Planner ==
    \/ PassImplemented \/ SkipFeature \/ StartFeature \/ BeginAttempt
    \/ EndAttempt \/ RetryFeature \/ FinishFeature \/ LeaveProcess
    \/ CloseStop \/ FinishStop \/ LeaveRun \/ Exit

Terminated == pc = "exited" /\ UNCHANGED vars
Next == \/ TypeKey \/ HangUp \/ Listener \/ PassEvent \/ Animator \/ Planner
        \/ Restore \/ Signal \/ Terminated

Spec == Init /\ [][Next]_vars

\* Goroutines are scheduled, and a select that is offered the same channel
\* again and again takes it at last; an attempt may last for ever.
Fairness ==
    /\ WF_vars(ReadByte) /\ WF_vars(ReaderEnds) /\ WF_vars(PassByte)
    /\ SF_vars(PassEvent) /\ WF_vars(MapperEnds)
    /\ WF_vars(Tick) /\ WF_vars(Lock) /\ WF_vars(Draw) /\ SF_vars(AnimatorEnds)
    /\ WF_vars(CloseStop) /\ WF_vars(FinishStop)

FairSpec == Spec /\ Fairness

-----------------------------------------------------------------------------
\* Until ctx is cancelled no key is lost, doubled or overtaken on its way
\* through the two unbuffered channels, however long the planner does not
\* listen (interactive.go:85-124).
KeysConserved ==
    ~cancelled =>
        Mapped(typed) = taken \o (IF mpc = "send" THEN <<event>> ELSE <<>>)
                              \o (IF rpc = "send" THEN MapKey(byte) ELSE <<>>)
                              \o Mapped(tty)

\* No line above the cursor has the rest of a spinner on it, although a
\* skipped feature's line is written without erasing (progress.go:24-26, 96);
\* and when Stop has returned no spinner stands on the cursor's line, nor will
\* one be drawn: what is printed next begins on a free line (run.go:160, 172).
CleanScreen ==
    /\ \A n \in 1..Len(screen) : Len(screen[n]) = 1
    /\ Over => line = <<>> /\ frame = <<>>

\* On a terminal each feature that was started or skipped has left exactly one
\* line, in order, however Process ended.
ScreenTellsRun ==
    Over /\ ansi =>
        [n \in 1..Len(screen) |-> Last(screen[n]).id] = reported

\* A frame shows the feature that is worked on and its own retries.
FrameIsCurrent ==
    frame # <<>> =>
        /\ i <= Len(Rows) /\ frame[1].id = Rows[i].id
        /\ frame[1].retry = tries

\* Keys reach an attempt that goes on, also those typed before the input ended.
KeysGetThrough ==
    <>[](pc = "attempt" /\ ~cancelled) => <>[](taken = Mapped(typed))

\* Stop does not wait for ever: the animator sees stopCh between two ticks.
StopReturns == pc = "ended" ~> Over

\* interactive.go:49: "The terminal is restored when ctx is cancelled." The
\* shell that runs next must not find it in raw mode.
TerminalRestored == pc = "exited" => mode = "cooked"
=============================================================================
