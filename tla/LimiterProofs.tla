---------------------------- MODULE LimiterProofs ----------------------------
(***************************************************************************)
(* No provider call starts during a cooldown, and a computed cooldown stays*)
(* in its range, for every configuration of the limiter and any number of  *)
(* processes.                                                              *)
(***************************************************************************)
EXTENDS Limiter, RecursionLemmas

\* What the store holds is the newest cooldown unless its write failed; what
\* the process holds is the newest cooldown unless it could not know of it;
\* and it works or is about to work only when that cooldown is over.
WindowInv ==
    /\ ~unsaved => wleft = due
    /\ ~lost /\ pc # "down" => left = due
    /\ ~lost /\ pc = "asleep" => timer = due
    /\ ~lost /\ pc = "working" => due = 0

LEMMA WindowInit == Init => WindowInv
BY DEF Init, WindowInv

LEMMA WindowStep == WindowInv /\ [Next]_vars => WindowInv'
<1> SUFFICES ASSUME WindowInv, [Next]_vars PROVE WindowInv'
  OBVIOUS
<1> USE DEF WindowInv, history
<1>1. CASE New BY <1>1 DEF New, Loaded
<1>2. CASE WaitPasses BY <1>2 DEF WaitPasses
<1>3. CASE WaitSleeps BY <1>3 DEF WaitSleeps
<1>4. CASE WaitEnds BY <1>4 DEF WaitEnds
<1>5. CASE \E hour \in Hours : ProviderPrints(hour)
  BY <1>5 DEF ProviderPrints
<1>6. CASE ObserveClear BY <1>6 DEF ObserveClear
<1>7. CASE ObserveLimit
  <2>1. PICK d : SetWindow(d)
    BY <1>7 DEF ObserveLimit
  <2>2. pc' = "up" BY <1>7 DEF ObserveLimit
  <2> QED BY <2>1, <2>2 DEF SetWindow, Stored
<1>8. CASE ProcessEnds BY <1>8 DEF ProcessEnds
<1>9. CASE Tick
  <2>1. Sooner(0) = 0 BY DEF Sooner
  <2> QED BY <1>9, <2>1 DEF Tick
<1>10. CASE UNCHANGED vars BY <1>10 DEF vars
<1> QED
  BY <1>1, <1>2, <1>3, <1>4, <1>5, <1>6, <1>7, <1>8, <1>9, <1>10 DEF Next

\* Whatever the cooldowns, crashes and failing store calls, a provider call
\* starts only when the newest cooldown is over or a store call hid it.
THEOREM CooldownRespectedHolds == Spec => CooldownRespected
<1>1. WindowInv /\ [Next]_vars
        => [(pc # "working" /\ pc' = "working") => (due = 0 \/ lost)]_vars
  <2> SUFFICES ASSUME WindowInv, Next, pc # "working", pc' = "working"
               PROVE  due = 0 \/ lost
    BY DEF vars
  <2>1. WaitPasses \/ WaitEnds
    BY DEF Next, New, WaitSleeps, ProviderPrints, ObserveClear, ObserveLimit,
           ProcessEnds, Tick
  <2> QED BY <2>1 DEF WindowInv, WaitPasses, WaitEnds
<1> QED BY WindowInit, WindowStep, <1>1, PTL DEF Spec, CooldownRespected

\* Every process holds exactly the newest cooldown, however many processes
\* have come and gone.
THEOREM CooldownSurvivesRestartsHolds == Spec => []CooldownSurvivesRestarts
<1>1. WindowInv => CooldownSurvivesRestarts
  BY DEF WindowInv, CooldownSurvivesRestarts
<1> QED BY WindowInit, WindowStep, <1>1, PTL DEF Spec

-----------------------------------------------------------------------------
(* The computed cooldown.                                                  *)

\* Pow2 is the function its definition describes.
LEMMA Pow2Facts ==
    /\ Pow2[0] = 1
    /\ \A n \in Nat : Pow2[n] \in Nat /\ Pow2[n + 1] = 2 * Pow2[n]
<1> DEFINE twice == [x \in Nat |-> 2 * x]
           IsPow2(f) == f = [k \in Nat |-> IF k = 0 THEN 1 ELSE 2 * f[k - 1]]
<1>1. PICK f \in [Nat -> Nat] :
         f[0] = 1 /\ \A n \in Nat : f[n + 1] = twice[f[n]]
  <2>1. twice \in [Nat -> Nat] /\ 1 \in Nat OBVIOUS
  <2>2. \E f \in [Nat -> Nat] : Repeats(f, 1, twice)
    BY <2>1, NatFunctionExists, Zenon
  <2> QED BY <2>2, Zenon DEF Repeats
<1>2. IsPow2(f)
  <2>1. ASSUME NEW k \in Nat
        PROVE  f[k] = IF k = 0 THEN 1 ELSE 2 * f[k - 1]
    <3>1. CASE k = 0 BY <1>1, <3>1
    <3>2. CASE k # 0
      <4>1. k - 1 \in Nat /\ (k - 1) + 1 = k BY <3>2
      <4>2. f[k] = twice[f[k - 1]] BY <1>1, <4>1
      <4> QED BY <1>1, <3>2, <4>1, <4>2
    <3> QED BY <3>1, <3>2
  <2> QED BY <1>1, <2>1
<1>3. IsPow2(Pow2)
  <2>1. Pow2 = CHOOSE g : IsPow2(g) BY DEF Pow2
  <2> QED BY <1>2, <2>1
<1>4. \A k \in Nat : Pow2[k] = IF k = 0 THEN 1 ELSE 2 * Pow2[k - 1]
  BY <1>3
<1> HIDE DEF IsPow2
<1>5. Pow2[0] = 1 BY <1>4
<1>6. ASSUME NEW n \in Nat PROVE Pow2[n + 1] = 2 * Pow2[n]
  <2>1. n + 1 \in Nat /\ n + 1 # 0 /\ (n + 1) - 1 = n OBVIOUS
  <2> QED BY <1>4, <2>1
<1> DEFINE S == {n \in Nat : Pow2[n] \in Nat}
<1>7. Nat \subseteq S
  <2>1. 0 \in S BY <1>5
  <2>2. ASSUME NEW n \in Nat, n \in S PROVE n + 1 \in S BY <1>6, <2>2
  <2> HIDE DEF S
  <2> QED BY <2>1, <2>2, NatSetInduction
<1> QED BY <1>5, <1>6, <1>7

LEMMA Pow2Positive == \A n \in Nat : Pow2[n] \in Nat /\ Pow2[n] >= 1
<1> DEFINE S == {n \in Nat : Pow2[n] >= 1}
<1>1. 0 \in S BY Pow2Facts
<1>2. ASSUME NEW n \in Nat, n \in S PROVE n + 1 \in S BY <1>2, Pow2Facts
<1> HIDE DEF S
<1>3. Nat \subseteq S BY <1>1, <1>2, NatSetInduction
<1> QED BY <1>3, Pow2Facts DEF S

\* A backoff is at least the initial one and at most the maximum, also when
\* the product does not fit into a duration.
LEMMA BackoffBounds ==
    ASSUME NEW n \in Nat \ {0}, NEW b \in Backoff(n)
    PROVE  b \in Nat /\ BackoffInitial <= b /\ b <= BackoffMax
<1> DEFINE x == BackoffInitial * Pow2[n - 1]
<1>1. x \in Nat /\ BackoffInitial <= x
  <2>1. PICK p \in Nat : p = Pow2[n - 1] /\ p >= 1 BY Pow2Positive
  <2>2. \A q \in Nat : q >= 1 => BackoffInitial <= BackoffInitial * q
    BY BackoffAssumption
  <2> QED BY <2>1, <2>2, BackoffAssumption
<1> HIDE DEF x
<1>2. PICK d \in ToDuration(x) :
         b = IF d > BackoffMax \/ d <= 0 THEN BackoffMax ELSE d
  BY DEF Backoff, x
<1>3. d = x \/ d = MaxDuration \/ d = -MaxDuration - 1 BY DEF ToDuration
<1>4. BackoffMax <= MaxDuration \/ d = x
  BY <1>1, BackoffAssumption, WidthAssumption DEF ToDuration
<1> QED BY <1>1, <1>2, <1>3, BackoffAssumption, WidthAssumption DEF ToDuration

\* Jitter takes at most a quarter away, and the maximum is applied again.
LEMMA CooldownBounds ==
    ASSUME NEW n \in Nat \ {0}, NEW d \in Cooldown(n)
    PROVE  d \in Nat /\ 4 * d + 3 >= 3 * BackoffInitial /\ d <= BackoffMax
<1>1. PICK b \in Backoff(n), f \in Percents :
         d = IF (b * f) \div 100 > BackoffMax THEN BackoffMax
             ELSE (b * f) \div 100
  BY DEF Cooldown
<1>2. b \in Nat /\ BackoffInitial <= b BY BackoffBounds
<1>3. f \in Nat /\ 75 <= f BY JitterAssumption
<1> PICK x \in Nat : x = b * f BY <1>2, <1>3
<1>4. 75 * b <= x
  <2>1. \A p \in Nat : b * (75 + p) = 75 * b + b * p /\ b * p >= 0 BY <1>2
  <2>2. f - 75 \in Nat /\ 75 + (f - 75) = f BY <1>3
  <2> QED BY <1>2, <1>3, <2>1, <2>2
<1>5. x \div 100 \in Nat /\ x < 100 * (x \div 100) + 100 OBVIOUS
<1>6. 3 * b <= 4 * (x \div 100) + 3 BY <1>2, <1>4, <1>5
<1> QED BY <1>1, <1>2, <1>5, <1>6, BackoffAssumption

LEMMA StrikesStep ==
    strikes \in Nat /\ [Next]_vars => (strikes \in Nat)'
BY DEF Next, New, WaitPasses, WaitSleeps, WaitEnds, ProviderPrints,
       ObserveClear, ObserveLimit, ProcessEnds, Tick, vars

\* Whatever the configuration, the jitter and the machine's overflow make of
\* it, a computed cooldown is at most the configured maximum and at least three
\* quarters of the initial one.
THEOREM BackoffInRangeHolds == Spec => BackoffInRange
<1>1. Init => strikes \in Nat BY DEF Init
<1>2. strikes \in Nat /\ [Next]_vars
        => [length' # length /\ length' # 0
            => 4 * length' + 3 >= 3 * BackoffInitial /\ length' <= BackoffMax]_vars
  <2> SUFFICES ASSUME strikes \in Nat, Next, length' # length, length' # 0
               PROVE  4 * length' + 3 >= 3 * BackoffInitial
                      /\ length' <= BackoffMax
    BY DEF vars
  <2>1. ObserveLimit
    BY DEF Next, New, WaitPasses, WaitSleeps, WaitEnds, ProviderPrints,
           ObserveClear, ProcessEnds, Tick, history
  <2>2. PICK d \in Cooldown(strikes + 1) : length' = d
    BY <2>1 DEF ObserveLimit
  <2>3. strikes + 1 \in Nat \ {0} OBVIOUS
  <2> QED BY <2>2, <2>3, CooldownBounds
<1> QED BY <1>1, <1>2, StrikesStep, PTL DEF Spec, BackoffInRange
=============================================================================
