------------------------------- MODULE Limiter -------------------------------
(***************************************************************************)
(* internal/limiter with the usage-limit signals of provider/limit.go, the *)
(* stored window (state.Store) and the processes that come and go around   *)
(* it: runFeature calls Wait, the provider, and Observe, in this order, and*)
(* a new process loads the window its predecessor left.                    *)
(*                                                                         *)
(* A point in time is given by how far it lies ahead, 0 when it is past,   *)
(* so Tick counts everything down and the state space is finite without a  *)
(* bound on time. tod is the time of day, which explicit resets refer to.  *)
(***************************************************************************)
EXTENDS Integers

CONSTANTS
    BackoffInitial, BackoffMax, \* cfg.BackoffInitial, cfg.BackoffMax
    ResetBuffer,                \* cfg.ResetBuffer
    Day,                        \* length of a day
    Hours,                      \* times of day a provider announces
    Percents,                   \* jitter factors to try, in percent
    MaxDuration,                \* largest time.Duration; the least is
                                \* -MaxDuration - 1
    MaxStrikes,                 \* bound: strikes of one process
    MaxFaults                   \* bound: failing store calls

\* config.go 243-246; a zero in the configuration stands for the default.
ASSUME BackoffAssumption ==
    /\ BackoffInitial \in Nat \ {0} /\ BackoffMax \in Nat
    /\ BackoffInitial <= BackoffMax
\* A configured maximum (5 h) is far below the largest duration (292 years).
ASSUME WidthAssumption ==
    MaxDuration \in Nat /\ 5 * BackoffMax <= 4 * MaxDuration
ASSUME TimeAssumption ==
    /\ ResetBuffer \in Nat /\ Day \in Nat \ {0} /\ Hours \subseteq 0..(Day - 1)
ASSUME JitterAssumption == Percents \subseteq 75..124
ASSUME BoundsAssumption == MaxStrikes \in Nat /\ MaxFaults \in Nat

VARIABLES
    pc,         \* "up": before Wait; "asleep": in it; "working": the
                \* provider runs, Observe is next; "down": no process
    left,       \* Limiter.resetAt; 0 also when it is the zero time
    strikes,    \* Limiter.strikes
    timer,      \* what is left of realSleep's timer
    wleft,      \* reset_at of the provider's row in limiter_windows
    printed,    \* time of day in the running provider's output, or NotPrinted
    tod,        \* the time of day
    faults,     \* number of store calls that failed
    due,        \* history: the end of the cooldown Observe decided on last
    length,     \* history: its length when it was a computed one, since the
                \* last result without a limit; else 0
    unsaved,    \* history: that cooldown could not be written
    lost        \* history: this process could not know of it, since it could
                \* not be written or not be read

vars == <<pc, left, strikes, timer, wleft, printed, tod, faults, due, length,
          unsaved, lost>>
history == <<due, length, unsaved, lost>>

NotPrinted == -1

-----------------------------------------------------------------------------
\* float64 to time.Duration: out of range, the Go specification leaves the
\* value to the machine (amd64: the least, arm64: the nearest).
ToDuration(x) ==
    IF x <= MaxDuration THEN {x} ELSE {MaxDuration, -MaxDuration - 1}

\* math.Pow(2, k)
Pow2[k \in Nat] == IF k = 0 THEN 1 ELSE 2 * Pow2[k - 1]

SlipBackoff(n) ==               \* an overflow to a negative goes unnoticed
    {IF d > BackoffMax THEN BackoffMax ELSE d :
        d \in ToDuration(BackoffInitial * Pow2[n - 1])}

\* BackoffInitial * 2^(n-1), capped. The planner's retryBackoff is the same.
Backoff(n) ==
    {IF d > BackoffMax \/ d <= 0 THEN BackoffMax ELSE d :
        d \in ToDuration(BackoffInitial * Pow2[n - 1])}

\* The backoff with up to 25% jitter, capped again.
Cooldown(n) ==
    {IF d > BackoffMax THEN BackoffMax ELSE d :
        d \in {(b * f) \div 100 : b \in Backoff(n), f \in Percents}}

\* ParseResetTime: that time today, or tomorrow if it is in the past.
NextReset(hour) == (hour - tod) % Day

SlipLoadedLonger ==             \* New adds the buffer once more
    IF wleft > 0 THEN wleft + ResetBuffer ELSE 0

\* The window New finds in the store.
Loaded == wleft

SlipStored(d) == wleft          \* the write is forgotten

\* The window Observe puts in the store.
Stored(d) == d

-----------------------------------------------------------------------------
Init ==
    /\ pc = "down" /\ left = 0 /\ strikes = 0 /\ timer = 0 /\ wleft = 0
    /\ printed = NotPrinted /\ tod \in 0..(Day - 1) /\ faults = 0
    /\ due = 0 /\ length = 0 /\ unsaved = FALSE /\ lost = FALSE

\* limiter.New: an error of GetLimiterWindow counts as no window.
New ==
    /\ pc = "down" /\ pc' = "up"
    /\ \/ left' = Loaded /\ lost' = unsaved /\ UNCHANGED faults
       \/ /\ faults < MaxFaults /\ faults' = faults + 1
          /\ left' = 0 /\ lost' = TRUE
    /\ UNCHANGED <<strikes, timer, wleft, printed, tod, due, length,
                   unsaved>>

\* Wait finds the window over and returns at once.
WaitPasses ==
    /\ pc = "up" /\ left = 0
    /\ pc' = "working" /\ printed' = NotPrinted
    /\ UNCHANGED <<left, strikes, timer, wleft, tod, faults, history>>

WaitSleeps ==
    /\ pc = "up" /\ left > 0
    /\ pc' = "asleep" /\ timer' = left
    /\ UNCHANGED <<left, strikes, wleft, printed, tod, faults, history>>

\* The timer fires; Wait does not look at resetAt again.
WaitEnds ==
    /\ pc = "asleep" /\ timer = 0
    /\ pc' = "working" /\ printed' = NotPrinted
    /\ UNCHANGED <<left, strikes, timer, wleft, tod, faults, history>>

\* The provider prints "resets <hour> (<zone>)"; it is still running.
ProviderPrints(hour) ==
    /\ pc = "working" /\ printed = NotPrinted
    /\ printed' = hour
    /\ UNCHANGED <<pc, left, strikes, timer, wleft, tod, faults, history>>

\* Observe without a limit; the store keeps its row.
ObserveClear ==
    /\ pc = "working" /\ pc' = "up"
    /\ strikes' = 0
    /\ left' = IF strikes # 0 THEN 0 ELSE left
    /\ length' = 0
    /\ UNCHANGED <<timer, wleft, printed, tod, faults, due, unsaved,
                   lost>>

\* Observe sets the window to end in d and writes it; an error is ignored.
SetWindow(d) ==
    /\ left' = d /\ due' = d /\ lost' = FALSE
    /\ \/ wleft' = Stored(d) /\ unsaved' = FALSE /\ UNCHANGED faults
       \/ /\ faults < MaxFaults /\ faults' = faults + 1
          /\ unsaved' = TRUE /\ UNCHANGED wleft

ObserveLimit ==
    /\ pc = "working" /\ pc' = "up"
    /\ strikes < MaxStrikes /\ strikes' = strikes + 1
    /\ \/ /\ printed # NotPrinted
          /\ SetWindow(NextReset(printed) + ResetBuffer)
          /\ length' = 0
       \/ /\ printed = NotPrinted
          /\ \E d \in Cooldown(strikes + 1) : SetWindow(d) /\ length' = d
    /\ UNCHANGED <<timer, printed, tod>>

\* The process ends: a signal, a kill, or the run is over.
ProcessEnds ==
    /\ pc # "down" /\ pc' = "down"
    /\ left' = 0 /\ strikes' = 0 /\ timer' = 0 /\ printed' = NotPrinted
    /\ length' = 0
    /\ UNCHANGED <<wleft, tod, faults, due, unsaved, lost>>

Sooner(t) == IF t > 0 THEN t - 1 ELSE 0

Tick ==
    /\ left' = Sooner(left) /\ wleft' = Sooner(wleft) /\ timer' = Sooner(timer)
    /\ due' = Sooner(due)
    /\ tod' = (tod + 1) % Day
    /\ UNCHANGED <<pc, strikes, printed, faults, length, unsaved, lost>>

Next ==
    \/ New \/ WaitPasses \/ WaitSleeps \/ WaitEnds
    \/ \E hour \in Hours : ProviderPrints(hour)
    \/ ObserveClear \/ ObserveLimit \/ ProcessEnds \/ Tick

Spec == Init /\ [][Next]_vars

-----------------------------------------------------------------------------
(* What the limiter guarantees.                                            *)

\* limiter.go 4-5: the window is persisted "so a restart respects an ongoing
\* cooldown". No provider call starts before the newest cooldown is over,
\* whichever process decided on it, unless a failing store call hid it.
CooldownRespected ==
    [][(pc # "working" /\ pc' = "working") => (due = 0 \/ lost)]_vars

\* Ending and starting the process over and over changes nothing: every
\* process waits for the end of the newest cooldown, no longer and no less,
\* unless a failing store call hid it.
CooldownSurvivesRestarts == pc # "down" /\ ~lost => left = due

\* A computed cooldown is never above the configured maximum and never less
\* than three quarters of the initial one, whatever the machine makes of an
\* overflow (limiter.go 127-152).
BackoffInRange ==
    [][length' # length /\ length' # 0
        => 4 * length' + 3 >= 3 * BackoffInitial /\ length' <= BackoffMax]_vars
=============================================================================
