----------------------------- MODULE EngineProofs -----------------------------
(***************************************************************************)
(* Theorems about Engine for every list of rows, dependency relation and   *)
(* bound. First type correctness, that dependencies come first, that no    *)
(* provider call is left behind, and that the provider is one ProviderCall *)
(* allows. Then what the tables, the summary and the done map say of one   *)
(* another: that the engine implements Lifecycle, and the properties of a  *)
(* run that ended, however it ended. Each invariant of this part speaks of *)
(* the rows that the loop has come to, of the row it is at, and of the     *)
(* provider call of that row. At the end, theorems about Sessions, where   *)
(* one engine runs after another over the same database.                   *)
(***************************************************************************)
EXTENDS Sessions, FiniteSetTheorems, TLAPS

USE DEF InFlight

\* The loop index points at a row while that row is being worked on, and a
\* provider goroutine exists only for the last attempt row.
IndexOK ==
    /\ pc \in Working \cup {"check"} => i \in 1..Len(rows)
    /\ task # "idle" => pc \in InFlight /\ LastAttempt # 0

TypeInv == TypeOK /\ IndexOK

-----------------------------------------------------------------------------
(* Replacing an attempt row by another attempt row keeps the table a       *)
(* sequence of attempt rows of the same length.                            *)
LEMMA CloseRow ==
    ASSUME NEW s \in Seq(AttemptRows), NEW n \in 1..Len(s)
    PROVE  /\ [s EXCEPT ![n].row = "closed"] \in Seq(AttemptRows)
           /\ Len([s EXCEPT ![n].row = "closed"]) = Len(s)
<1>1. s[n] \in AttemptRows OBVIOUS
<1>2. [s[n] EXCEPT !.row = "closed"] \in AttemptRows
  BY <1>1 DEF AttemptRows
<1> QED BY <1>2

LEMMA SetGot ==
    ASSUME NEW s \in Seq(AttemptRows), NEW n \in 1..Len(s), NEW out \in Outcomes
    PROVE  /\ [s EXCEPT ![n].got = out] \in Seq(AttemptRows)
           /\ Len([s EXCEPT ![n].got = out]) = Len(s)
<1>1. s[n] \in AttemptRows OBVIOUS
<1>2. [s[n] EXCEPT !.got = out] \in AttemptRows
  BY <1>1 DEF AttemptRows
<1> QED BY <1>2

\* The row list of a run is fixed, injective and made of features.
LEMMA InitType == Init => TypeInv
<1> SUFFICES ASSUME Init PROVE TypeInv OBVIOUS
<1>1. rows \in Seq(Features) BY RowListsAssumption DEF Init
<1>2. was \in [Features -> Statuses] BY StartStatusesAssumption DEF Init
<1>3. done \subseteq Features BY <1>1 DEF Init, ImplementedSet
<1>4. store \in [Features -> Statuses \cup {"absent"}]
  BY <1>2 DEF Init
<1>5. sum \in [implemented : Nat, failed : Nat, skipped : Nat] BY DEF Init
<1>6. attempts \in Seq(AttemptRows) /\ keys \in Seq(EventKinds) BY DEF Init
<1>7. /\ run = "running" /\ pc = "pick" /\ i = 1 /\ failures = 0
      /\ ares = "normal" /\ result = "none" /\ perr = FALSE
      /\ task = "idle" /\ paused = FALSE /\ acancel = FALSE
      /\ cooling \in BOOLEAN /\ cancelled = FALSE
      /\ presses = 0 /\ quitTaken = FALSE /\ faults = 0 /\ timed \in BOOLEAN
  BY TimeoutAssumption DEF Init
<1>8. ControlOK
  BY <1>7 DEF ControlOK, Tasks, Positions, Outcomes
<1>9. FlagsOK
  BY <1>7 DEF FlagsOK
<1>10. IndexOK BY <1>7 DEF IndexOK, Working
<1> QED BY <1>1, <1>2, <1>3, <1>4, <1>5, <1>6, <1>8, <1>9, <1>10
        DEF TypeInv, TypeOK

-----------------------------------------------------------------------------
(* Every step keeps the flags, the control part, and the tables; each      *)
(* lemma has one step per action that can disturb its part.                *)
LEMMA FlagsStep == FlagsOK /\ [Next]_vars => FlagsOK'
<1> SUFFICES ASSUME FlagsOK, [Next]_vars PROVE FlagsOK'
  OBVIOUS
<1> USE DEF FlagsOK, input, tables, loop, attempt, process, listener
<1>1. CASE Planner
  BY <1>1, ZenonT(40)
     DEF Planner, SkipImplemented, SkipUnmet, StartFeature, NoMoreFeatures,
         Settle, ContinueLoop, LeaveLoop, BeginAttempt, WaitInterrupted,
         BackoffOver, BackoffCancelled, ResultEndsFeature, ResultLimited,
         ResultFails, ReceiveResult, TakeControls, AttemptCancelled,
         PauseTask, ResumeTask, TerminateTask, QuitRun, StopTask, ConsumeKey,
         FinishRun
<1>2. CASE Provider
  BY <1>2 DEF Provider, ProviderStarts, ProviderCannotStart, ProviderExits,
              TimeoutFires
<1>3. CASE Environment
  BY <1>3 DEF Environment, CooldownOver, Signal, PressKey
<1>4. CASE UNCHANGED vars BY <1>4 DEF vars
<1> QED BY <1>1, <1>2, <1>3, <1>4 DEF Next, Terminated

LEMMA TablesStep ==
    TypeInv /\ [Next]_vars =>
        /\ rows' = rows /\ was' = was
        /\ store' \in [Features -> Statuses \cup {"absent"}]
        /\ attempts' \in Seq(AttemptRows)
        /\ Len(attempts') >= Len(attempts)
        /\ done' \subseteq Features
        /\ sum' \in [implemented : Nat, failed : Nat, skipped : Nat]
        /\ keys' \in Seq(EventKinds)
<1> DEFINE Goal == /\ rows' = rows /\ was' = was
                   /\ store' \in [Features -> Statuses \cup {"absent"}]
                   /\ attempts' \in Seq(AttemptRows)
                   /\ Len(attempts') >= Len(attempts)
                   /\ done' \subseteq Features
                   /\ sum' \in [implemented : Nat, failed : Nat, skipped : Nat]
                   /\ keys' \in Seq(EventKinds)
<1> SUFFICES ASSUME TypeInv, [Next]_vars PROVE Goal
  OBVIOUS
<1> USE DEF input, tables, loop, attempt, process, listener
<1>t. /\ rows \in Seq(Features) /\ was \in [Features -> Statuses]
      /\ store \in [Features -> Statuses \cup {"absent"}]
      /\ attempts \in Seq(AttemptRows)
      /\ done \subseteq Features
      /\ sum \in [implemented : Nat, failed : Nat, skipped : Nat]
      /\ keys \in Seq(EventKinds)
  BY DEF TypeInv, TypeOK
<1>c. pc \in Working \cup {"pick", "check"} /\ i <= Len(rows)
      => Current \in Features
  BY <1>t DEF TypeInv, TypeOK, ControlOK, IndexOK, Current
<1>w. pc \in Working => Current \in Features
  BY <1>c, <1>t DEF TypeInv, IndexOK
<1>1. CASE SkipImplemented BY <1>t, <1>1 DEF SkipImplemented
<1>2. CASE SkipUnmet
  <2>1. /\ UNCHANGED <<rows, was, store, attempts, done, keys>>
        /\ sum' = [sum EXCEPT !.skipped = @ + 1]
    BY <1>2, Zenon DEF SkipUnmet
  <2>2. sum' \in [implemented : Nat, failed : Nat, skipped : Nat]
    BY <1>t, <2>1, SMTT(30)
  <2> QED BY <1>t, <2>1, <2>2, SMTT(30)
<1>3. CASE StartFeature
  <2>1. Current \in Features BY <1>c, <1>3 DEF StartFeature
  <2>2. /\ store' = store \/ store' = [store EXCEPT ![Current] = "in_progress"]
        /\ UNCHANGED <<rows, was, attempts, done, sum, keys>>
    BY <1>3, Zenon DEF StartFeature
  <2>3. store' \in [Features -> Statuses \cup {"absent"}]
    BY <1>t, <2>1, <2>2 DEF Statuses
  <2> QED BY <1>t, <2>2, <2>3
<1>4. CASE Settle
  <2>1. Current \in Features BY <1>w, <1>4 DEF Settle, Working
  <2>2. StatusAfter \in Statuses BY DEF StatusAfter, Statuses
  <2>3. CountedAs \in {"implemented", "failed", "skipped"}
    BY DEF CountedAs, StatusAfter
  <2>4. sum' \in [implemented : Nat, failed : Nat, skipped : Nat]
    BY <1>t, <1>4, <2>3 DEF Settle
  <2>5. done' \subseteq Features BY <1>t, <1>4, <2>1 DEF Settle, DoneAfter
  <2>6. store' \in [Features -> Statuses \cup {"absent"}]
    BY <1>t, <1>4, <2>2 DEF Settle
  <2>7. UNCHANGED <<rows, was, attempts, keys>> BY <1>4, Zenon DEF Settle
  <2> QED BY <1>t, <2>4, <2>5, <2>6, <2>7
<1>5. CASE BeginAttempt
  <2>1. [feature |-> Current, row |-> "open", got |-> "none"] \in AttemptRows
    BY <1>w, <1>5 DEF BeginAttempt, AttemptRows, Working
  <2>2. /\ \/ attempts' = attempts
           \/ \E r \in AttemptRows : attempts' = Append(attempts, r)
        /\ UNCHANGED <<rows, was, store, done, sum, keys>>
    BY <1>5, <2>1, Zenon DEF BeginAttempt
  <2>3. attempts' \in Seq(AttemptRows) /\ Len(attempts') >= Len(attempts)
    <3>1. CASE attempts' = attempts BY <1>t, <3>1
    <3>2. CASE \E r \in AttemptRows : attempts' = Append(attempts, r)
      BY <1>t, <3>2
    <3> QED BY <2>2, <3>1, <3>2
  <2> QED BY <1>t, <2>2, <2>3
<1>6. ASSUME ReceiveResult PROVE Goal
  <2>1. LastAttempt \in 1..Len(attempts)
    BY <1>t, <1>6 DEF ReceiveResult, ResultReady, TypeInv, IndexOK, LastAttempt
  <2>2. /\ \/ attempts' = attempts
           \/ attempts' = [attempts EXCEPT ![LastAttempt].row = "closed"]
        /\ UNCHANGED <<rows, was, store, done, sum, keys>>
    BY <1>6, Zenon DEF ReceiveResult
  <2>3. attempts' \in Seq(AttemptRows) /\ Len(attempts') >= Len(attempts)
    <3>1. CASE attempts' = attempts BY <1>t, <3>1
    <3>2. CASE attempts' = [attempts EXCEPT ![LastAttempt].row = "closed"]
      BY <1>t, <2>1, <3>2, CloseRow
    <3> QED BY <2>2, <3>1, <3>2
  <2> QED BY <1>t, <2>2, <2>3
<1>7. CASE ResultEndsFeature \/ ResultLimited \/ ResultFails
  BY <1>6, <1>7 DEF ResultEndsFeature, ResultLimited, ResultFails
<1>8. CASE PauseTask \/ ResumeTask \/ TerminateTask \/ QuitRun
  <2>1. keys # <<>> /\ keys' = Tail(keys)
    BY <1>8 DEF PauseTask, ResumeTask, TerminateTask, QuitRun, StopTask,
                ConsumeKey
  <2>2. keys' \in Seq(EventKinds) BY <1>t, <2>1
  <2> QED
    BY <1>t, <1>8, <2>2 DEF PauseTask, ResumeTask, TerminateTask, QuitRun,
                            StopTask, ConsumeKey
<1>9. CASE ProviderCannotStart \/ ProviderExits
  <2>1. LastAttempt \in 1..Len(attempts)
    BY <1>t, <1>9 DEF ProviderCannotStart, ProviderExits, TypeInv, IndexOK,
                      LastAttempt
  <2>2. PICK out \in Outcomes :
          attempts' = [attempts EXCEPT ![LastAttempt].got = out]
    BY <1>9 DEF ProviderCannotStart, ProviderExits, Outcomes
  <2> QED BY <1>t, <1>9, <2>1, <2>2, SetGot
          DEF ProviderCannotStart, ProviderExits
<1>10. CASE PressKey
  <2>1. PICK k \in KeyKinds : keys' = Append(keys, k)
    BY <1>10 DEF PressKey
  <2>2. k \in EventKinds BY KeysAssumption
  <2> QED BY <1>t, <1>10, <2>1, <2>2 DEF PressKey
<1>11. CASE \/ NoMoreFeatures \/ ContinueLoop \/ LeaveLoop
            \/ WaitInterrupted \/ BackoffOver \/ BackoffCancelled
            \/ TakeControls \/ AttemptCancelled \/ FinishRun
  BY <1>t, <1>11
     DEF NoMoreFeatures, ContinueLoop, LeaveLoop, WaitInterrupted,
         BackoffOver, BackoffCancelled, TakeControls, AttemptCancelled,
         FinishRun
<1>12. CASE ProviderStarts \/ TimeoutFires \/ CooldownOver \/ Signal
  BY <1>t, <1>12 DEF ProviderStarts, TimeoutFires, CooldownOver, Signal
<1>13. CASE UNCHANGED vars BY <1>t, <1>13 DEF vars
<1> QED
  BY <1>1, <1>2, <1>3, <1>4, <1>5, <1>7, <1>8, <1>9, <1>10, <1>11, <1>12,
     <1>13
     DEF Next, Planner, Provider, Environment, Terminated

LEMMA ControlStep == TypeInv /\ [Next]_vars => ControlOK' /\ IndexOK'
<1> SUFFICES ASSUME TypeInv, [Next]_vars PROVE ControlOK' /\ IndexOK'
  OBVIOUS
<1> USE DEF ControlOK, IndexOK, LastAttempt, Working, Positions, Tasks, input,
            tables, loop, attempt, process, listener
<1>t. /\ ControlOK /\ IndexOK /\ attempts \in Seq(AttemptRows)
      /\ rows \in Seq(Features)
  BY DEF TypeInv, TypeOK
<1>s. /\ rows' = rows /\ Len(attempts') >= Len(attempts)
      /\ attempts' \in Seq(AttemptRows)
  BY TablesStep
<1>f. StoreCall(TRUE) \/ StoreCall(FALSE) => faults' \in Nat
  BY <1>t DEF StoreCall
<1>1. CASE SkipImplemented \/ SkipUnmet \/ NoMoreFeatures
  BY <1>t, <1>1 DEF SkipImplemented, SkipUnmet, NoMoreFeatures
<1>2. CASE StartFeature
  <2>1. CASE pc' = "wait" BY <1>t, <1>f, <1>2, <2>1 DEF StartFeature, Outcomes
  <2>2. CASE pc' = "finish" BY <1>t, <1>f, <1>2, <2>2 DEF StartFeature
  <2> QED BY <1>2, <2>1, <2>2 DEF StartFeature
<1>3. CASE Settle BY <1>t, <1>f, <1>3 DEF Settle
<1>4. CASE ContinueLoop \/ LeaveLoop
  BY <1>t, <1>4 DEF ContinueLoop, LeaveLoop
<1>5. CASE BeginAttempt
  <2>1. CASE pc' = "phase1"
    BY <1>t, <1>s, <1>f, <1>5, <2>1 DEF BeginAttempt
  <2>2. CASE pc' = "finish"
    <3>1. /\ StoreCall(FALSE)
          /\ UNCHANGED <<attempts, task, ares, result, rows, run, i, failures,
                         presses>>
      BY <1>5, <2>2 DEF BeginAttempt
    <3> QED BY <1>t, <1>f, <1>5, <2>2, <3>1 DEF BeginAttempt
  <2> QED BY <1>5, <2>1, <2>2 DEF BeginAttempt
<1>6. CASE WaitInterrupted \/ BackoffOver \/ BackoffCancelled
  BY <1>t, <1>6 DEF WaitInterrupted, BackoffOver, BackoffCancelled
<1>7. ASSUME ReceiveResult
      PROVE  /\ faults' \in Nat /\ task' = "idle" /\ i \in 1..Len(rows)
             /\ UNCHANGED <<run, i, ares, result, presses>>
  BY <1>t, <1>f, <1>7 DEF ReceiveResult
<1>8. CASE ResultEndsFeature BY <1>t, <1>s, <1>7, <1>8 DEF ResultEndsFeature
<1>9. CASE ResultLimited BY <1>t, <1>s, <1>7, <1>9 DEF ResultLimited
<1>10. CASE ResultFails BY <1>t, <1>s, <1>7, <1>10 DEF ResultFails
<1>11. CASE TakeControls \/ AttemptCancelled
  BY <1>t, <1>s, <1>11 DEF TakeControls, AttemptCancelled
<1>12. CASE PauseTask \/ ResumeTask \/ TerminateTask \/ QuitRun
  BY <1>t, <1>s, <1>12
     DEF PauseTask, ResumeTask, TerminateTask, QuitRun, StopTask, ConsumeKey
<1>13. CASE FinishRun BY <1>t, <1>s, <1>13 DEF FinishRun, FinalStatus
<1>14. CASE ProviderStarts \/ TimeoutFires
  BY <1>t, <1>s, <1>14 DEF ProviderStarts, TimeoutFires
<1>15. CASE ProviderCannotStart
  BY <1>t, <1>s, <1>15 DEF ProviderCannotStart, Outcomes
<1>16. CASE ProviderExits BY <1>t, <1>s, <1>16 DEF ProviderExits
<1>17. CASE Environment
  BY <1>t, <1>s, <1>17 DEF Environment, CooldownOver, Signal, PressKey
<1>18. CASE UNCHANGED vars BY <1>t, <1>18 DEF vars
<1> QED
  BY <1>1, <1>2, <1>3, <1>4, <1>5, <1>6, <1>8, <1>9, <1>10, <1>11, <1>12,
     <1>13, <1>14, <1>15, <1>16, <1>17, <1>18
     DEF Next, Planner, Provider, Terminated

LEMMA TypeStep == TypeInv /\ [Next]_vars => TypeInv'
BY TablesStep, ControlStep, FlagsStep DEF TypeInv, TypeOK

\* TypeOK holds in every state of every behaviour of Engine.
THEOREM TypeCorrect == Spec => []TypeOK
<1>1. TypeInv => TypeOK BY DEF TypeInv
<1> QED BY InitType, TypeStep, <1>1, PTL DEF Spec

-----------------------------------------------------------------------------
(* Which steps write the attempts and the features table, and how.         *)
NewRow == [feature |-> Current, row |-> "open", got |-> "none"]

LEMMA AttemptsStep ==
    ASSUME [Next]_vars
    PROVE  \/ attempts' = attempts
           \/ BeginAttempt /\ ~cancelled /\ attempts' = Append(attempts, NewRow)
           \/ /\ ReceiveResult
              /\ attempts' = [attempts EXCEPT ![LastAttempt].row = "closed"]
           \/ /\ ProviderCannotStart \/ ProviderExits
              /\ \E out \in Outcomes :
                    attempts' = [attempts EXCEPT ![LastAttempt].got = out]
<1> USE DEF input, tables, loop, attempt, process, listener
<1>1. CASE BeginAttempt
  <2>1. StoreCall(TRUE) => ~cancelled BY DEF StoreCall
  <2> QED BY <1>1, <2>1, Zenon DEF BeginAttempt, NewRow
<1>2. CASE ResultEndsFeature \/ ResultLimited \/ ResultFails
  BY <1>2, Zenon DEF ResultEndsFeature, ResultLimited, ResultFails,
                     ReceiveResult
<1>3. CASE ProviderCannotStart
  BY <1>3 DEF ProviderCannotStart, Outcomes
<1>4. CASE ProviderExits BY <1>4, Zenon DEF ProviderExits
<1>5. CASE \/ SkipImplemented \/ SkipUnmet \/ StartFeature \/ NoMoreFeatures
           \/ Settle \/ ContinueLoop \/ LeaveLoop \/ WaitInterrupted
           \/ BackoffOver \/ BackoffCancelled \/ TakeControls
           \/ AttemptCancelled \/ PauseTask \/ ResumeTask \/ TerminateTask
           \/ QuitRun \/ FinishRun
  BY <1>5, Zenon
     DEF SkipImplemented, SkipUnmet, StartFeature, NoMoreFeatures, Settle,
         ContinueLoop, LeaveLoop, WaitInterrupted, BackoffOver,
         BackoffCancelled, TakeControls, AttemptCancelled, PauseTask,
         ResumeTask, TerminateTask, QuitRun, StopTask, ConsumeKey, FinishRun
<1>6. CASE ProviderStarts \/ TimeoutFires \/ Environment
  BY <1>6, Zenon DEF ProviderStarts, TimeoutFires, Environment, CooldownOver,
                     Signal, PressKey
<1>7. CASE UNCHANGED vars BY <1>7 DEF vars
<1> QED
  BY <1>1, <1>2, <1>3, <1>4, <1>5, <1>6, <1>7
     DEF Next, Planner, Provider, Terminated

LEMMA StoreStep ==
    ASSUME [Next]_vars
    PROVE  \/ store' = store
           \/ StartFeature /\ store' = [store EXCEPT ![Current] = "in_progress"]
           \/ Settle /\ store' = [store EXCEPT ![Current] = StatusAfter]
<1> USE DEF input, tables, loop, attempt, process, listener
<1>1. CASE StartFeature BY <1>1, Zenon DEF StartFeature
<1>2. CASE Settle BY <1>2, Zenon DEF Settle
<1>3. CASE \/ SkipImplemented \/ SkipUnmet \/ NoMoreFeatures
           \/ ContinueLoop \/ LeaveLoop \/ BeginAttempt \/ WaitInterrupted
           \/ BackoffOver \/ BackoffCancelled \/ TakeControls
           \/ AttemptCancelled \/ PauseTask \/ ResumeTask \/ TerminateTask
           \/ QuitRun \/ FinishRun
  BY <1>3, Zenon
     DEF SkipImplemented, SkipUnmet, NoMoreFeatures, ContinueLoop, LeaveLoop,
         BeginAttempt, WaitInterrupted, BackoffOver, BackoffCancelled,
         TakeControls, AttemptCancelled, PauseTask, ResumeTask,
         TerminateTask, QuitRun, StopTask, ConsumeKey, FinishRun
<1>4. CASE ResultEndsFeature \/ ResultLimited \/ ResultFails
  BY <1>4, Zenon DEF ResultEndsFeature, ResultLimited, ResultFails,
                     ReceiveResult
<1>5. CASE Provider \/ Environment
  BY <1>5, Zenon DEF Provider, ProviderStarts, ProviderCannotStart,
                     ProviderExits, TimeoutFires, Environment, CooldownOver,
                     Signal, PressKey
<1>6. CASE UNCHANGED vars BY <1>6 DEF vars
<1> QED
  BY <1>1, <1>2, <1>3, <1>4, <1>5, <1>6 DEF Next, Planner, Terminated

-----------------------------------------------------------------------------
(* No provider call is left behind. The row of the attempt in flight is    *)
(* the last one, and a call whose result is in resCh has its outcome.      *)
OrphanInv ==
    /\ NoOrphanProvider
    /\ task \in {"returned", "unstarted"} => attempts[LastAttempt].got # "none"

LEMMA OrphanStep == TypeInv /\ OrphanInv /\ [Next]_vars => OrphanInv'
<1> SUFFICES ASSUME TypeInv, OrphanInv, [Next]_vars PROVE OrphanInv'
  OBVIOUS
<1> USE DEF OrphanInv, NoOrphanProvider, LastAttempt, input, tables, loop,
            attempt, process, listener
<1>t. attempts \in Seq(AttemptRows) /\ (task # "idle" => LastAttempt # 0)
      /\ (task # "idle" => pc \in InFlight)
  BY DEF TypeInv, TypeOK, IndexOK
<1>1. CASE BeginAttempt
  <2>1. CASE pc' = "phase1"
    <3>1. attempts' = Append(attempts, NewRow) /\ pc = "wait"
          /\ task' = "spawned"
      BY <1>1, <2>1 DEF BeginAttempt, NewRow
    <3> QED BY <1>t, <2>1, <3>1
  <2>2. CASE pc' = "finish"
    <3>1. UNCHANGED <<attempts, task>> /\ pc = "wait"
      BY <1>1, <2>2, Zenon DEF BeginAttempt
    <3> QED BY <1>t, <2>2, <3>1
  <2> QED BY <1>1, <2>1, <2>2, Zenon DEF BeginAttempt
<1>2. CASE ResultEndsFeature \/ ResultLimited \/ ResultFails
  <2>1. /\ ResultReady /\ task' = "idle"
        /\ \/ attempts' = attempts
           \/ attempts' = [attempts EXCEPT ![LastAttempt].row = "closed"]
    BY <1>2, Zenon DEF ResultEndsFeature, ResultLimited, ResultFails,
                       ReceiveResult
  <2>2. \A k \in 1..Len(attempts) : attempts[k].got # "none"
    BY <1>t, <2>1 DEF ResultReady
  <2>3. \A k \in 1..Len(attempts') : attempts'[k].got # "none"
    <3>1. CASE attempts' = attempts BY <2>2, <3>1
    <3>2. CASE attempts' = [attempts EXCEPT ![LastAttempt].row = "closed"]
      <4>1. Len(attempts') = Len(attempts) BY <1>t, <3>2
      <4>2. \A k \in 1..Len(attempts) : attempts'[k].got = attempts[k].got
        <5> TAKE k \in 1..Len(attempts)
        <5>1. attempts[k] \in AttemptRows BY <1>t
        <5>2. CASE k = LastAttempt
          BY <1>t, <3>2, <5>1, <5>2 DEF AttemptRows
        <5>3. CASE k # LastAttempt BY <1>t, <3>2, <5>3
        <5> QED BY <5>2, <5>3
      <4> QED BY <2>2, <4>1, <4>2
    <3> QED BY <2>1, <3>1, <3>2
  <2> QED BY <2>1, <2>3
<1>3. CASE ProviderCannotStart \/ ProviderExits
  <2>1. PICK out \in Outcomes :
          attempts' = [attempts EXCEPT ![LastAttempt].got = out]
    BY <1>3 DEF ProviderCannotStart, ProviderExits, Outcomes
  <2>2. out # "none" BY <2>1 DEF Outcomes
  <2>3. Len(attempts) # 0
    BY <1>t, <1>3 DEF ProviderCannotStart, ProviderExits
  <2>4. Len(attempts') = Len(attempts) BY <1>t, <2>1
  <2>5. attempts'[Len(attempts)].got = out
    <3>1. attempts[Len(attempts)] \in AttemptRows BY <1>t, <2>3
    <3> QED BY <1>t, <2>1, <2>3, <3>1 DEF AttemptRows
  <2>6. \A k \in 1..Len(attempts) :
          k # Len(attempts) => attempts'[k] = attempts[k]
    BY <1>t, <2>1
  <2>7. \A k \in 1..Len(attempts') : attempts'[k].got # "none"
    BY <1>t, <2>2, <2>4, <2>5, <2>6
  <2> QED BY <1>t, <2>2, <2>4, <2>5, <2>7
<1>4. CASE \/ SkipImplemented \/ SkipUnmet \/ StartFeature \/ NoMoreFeatures
           \/ Settle \/ ContinueLoop \/ LeaveLoop \/ WaitInterrupted
           \/ BackoffOver \/ BackoffCancelled \/ FinishRun
  <2>1. UNCHANGED <<attempts, task>> /\ pc \notin InFlight
    BY <1>4, Zenon
       DEF SkipImplemented, SkipUnmet, StartFeature, NoMoreFeatures, Settle,
           ContinueLoop, LeaveLoop, WaitInterrupted, BackoffOver,
           BackoffCancelled, FinishRun
  <2> QED BY <1>t, <2>1
<1>5. CASE \/ TakeControls \/ AttemptCancelled \/ PauseTask \/ ResumeTask
           \/ TerminateTask \/ QuitRun
  <2>1. UNCHANGED <<attempts, task>> /\ pc' \in InFlight
    BY <1>5, Zenon
       DEF TakeControls, AttemptCancelled, PauseTask, ResumeTask,
           TerminateTask, QuitRun, StopTask, ConsumeKey
  <2> QED BY <1>t, <2>1
<1>6. CASE ProviderStarts BY <1>t, <1>6 DEF ProviderStarts
<1>7. CASE TimeoutFires \/ Environment
  <2>1. UNCHANGED <<attempts, task, pc>>
    BY <1>7, Zenon DEF TimeoutFires, Environment, CooldownOver, Signal,
                       PressKey
  <2> QED BY <1>t, <2>1
<1>8. CASE UNCHANGED vars BY <1>t, <1>8 DEF vars
<1> QED
  BY <1>1, <1>2, <1>3, <1>4, <1>5, <1>6, <1>7, <1>8
     DEF Next, Planner, Provider, Terminated

\* While a provider call has not returned, Process is inside executeAttempt
\* and the call is that of the last attempt: there are never two at once, and
\* none is alive when the run ends.
THEOREM NoOrphanProviderHolds == Spec => []NoOrphanProvider
<1>1. Init => OrphanInv
  BY DEF Init, OrphanInv, NoOrphanProvider
<1>2. OrphanInv => NoOrphanProvider BY DEF OrphanInv
<1> QED BY InitType, TypeStep, OrphanStep, <1>1, <1>2, PTL DEF Spec

-----------------------------------------------------------------------------
(* Dependencies come first. The done map speaks of the table as long as    *)
(* the loop runs: a row not reached yet has the status it came with, and   *)
(* the row being worked on is in_progress, so writing it takes nothing     *)
(* from the rows that dependants relied on.                                *)
Untouched ==
    \A k \in 1..Len(rows) :
        k > i \/ (k = i /\ pc = "pick") => store[rows[k]] = was[rows[k]]
CurrentOK ==
    pc \in Working =>
        store[Current] = "in_progress" /\ DependsOn[Current] \subseteq done
DoneOK ==
    pc \notin {"finish", "done"} => \A g \in done : store[g] = "implemented"
Injective == \A j, k \in 1..Len(rows) : rows[j] = rows[k] => j = k

DepInv == Untouched /\ CurrentOK /\ DoneOK /\ Injective /\ DependenciesFirst

LEMMA DepInit == Init => DepInv
<1> SUFFICES ASSUME Init PROVE DepInv OBVIOUS
<1>1. /\ rows \in Seq(Features) /\ Injective
  BY RowListsAssumption DEF Init, Injective
<1>2. /\ was \in [Features -> Statuses] /\ pc = "pick" /\ i = 1
      /\ attempts = <<>> /\ done = ImplementedSet(rows, was)
      /\ store = [g \in Features |-> IF g \in RowIds THEN was[g] ELSE "absent"]
  BY StartStatusesAssumption DEF Init
<1>3. \A k \in 1..Len(rows) : store[rows[k]] = was[rows[k]]
  BY <1>1, <1>2 DEF RowIds
<1>4. Untouched BY <1>3 DEF Untouched
<1>5. CurrentOK BY <1>2 DEF CurrentOK, Working
<1>6. DoneOK BY <1>2, <1>3 DEF DoneOK, ImplementedSet
<1>7. DependenciesFirst BY <1>2 DEF DependenciesFirst
<1> QED BY <1>1, <1>4, <1>5, <1>6, <1>7 DEF DepInv

\* An implemented row stays implemented.
LEMMA ImplementedStays ==
    ASSUME TypeInv, DepInv, [Next]_vars,
           NEW g \in Features, store[g] = "implemented"
    PROVE  store'[g] = "implemented"
<1>t. store \in [Features -> Statuses \cup {"absent"}] BY DEF TypeInv, TypeOK
<1>1. CASE store' = store BY <1>1
<1>2. CASE StartFeature /\ store' = [store EXCEPT ![Current] = "in_progress"]
  <2>1. pc = "pick" /\ i \in 1..Len(rows) /\ was[Current] # "implemented"
    BY <1>2 DEF StartFeature, AlreadyDone, TypeInv, TypeOK, ControlOK
  <2>2. g # Current BY <2>1 DEF DepInv, Untouched, Current
  <2> QED BY <1>t, <1>2, <2>2
<1>3. CASE Settle /\ store' = [store EXCEPT ![Current] = StatusAfter]
  <2>1. store[Current] = "in_progress"
    BY <1>3 DEF Settle, DepInv, CurrentOK, Working
  <2>2. g # Current BY <2>1
  <2> QED BY <1>t, <1>3, <2>2
<1> QED BY <1>1, <1>2, <1>3, StoreStep

LEMMA DependenciesStep ==
    ASSUME TypeInv, DepInv, [Next]_vars PROVE DependenciesFirst'
<1>t. /\ attempts \in Seq(AttemptRows)
      /\ \A k \in 1..Len(attempts) : attempts[k].feature \in Features
  <2>1. attempts \in Seq(AttemptRows) BY DEF TypeInv, TypeOK
  <2>2. ASSUME NEW k \in 1..Len(attempts)
        PROVE attempts[k].feature \in Features
    <3>1. attempts[k] \in AttemptRows BY <2>1
    <3> QED BY <3>1 DEF AttemptRows
  <2> QED BY <2>1, <2>2
<1>s. \A g \in Features : store[g] = "implemented" => store'[g] = "implemented"
  BY ImplementedStays
<1>d. ASSUME NEW g \in Features PROVE DependsOn[g] \subseteq Features
  BY DependsOnAssumption
<1>o. \A k \in 1..Len(attempts) : \A g \in DependsOn[attempts[k].feature] :
         store'[g] = "implemented"
  BY <1>t, <1>s, <1>d DEF DepInv, DependenciesFirst
<1>1. CASE attempts' = attempts BY <1>o, <1>1 DEF DependenciesFirst
<1>2. CASE BeginAttempt /\ attempts' = Append(attempts, NewRow)
  <2>1. pc = "wait" /\ Current \in Features
    <3>1. pc = "wait" BY <1>2 DEF BeginAttempt
    <3> QED BY <3>1 DEF TypeInv, TypeOK, IndexOK, Working, Current
  <2>2. \A g \in DependsOn[Current] : store[g] = "implemented"
    BY <2>1 DEF DepInv, CurrentOK, DoneOK, Working
  <2>3. \A g \in DependsOn[Current] : store'[g] = "implemented"
    BY <2>1, <2>2, <1>s, <1>d
  <2>4. /\ Len(attempts') = Len(attempts) + 1
        /\ \A k \in 1..Len(attempts) : attempts'[k] = attempts[k]
        /\ attempts'[Len(attempts) + 1] = NewRow
    BY <1>t, <1>2
  <2>5. NewRow.feature = Current BY DEF NewRow
  <2>6. ASSUME NEW k \in 1..Len(attempts')
        PROVE \A g \in DependsOn[attempts'[k].feature] : store'[g] = "implemented"
    <3>1. CASE k \in 1..Len(attempts) BY <1>o, <2>4, <3>1
    <3>2. CASE k = Len(attempts) + 1 BY <2>3, <2>4, <2>5, <3>2
    <3> QED BY <1>t, <2>4, <3>1, <3>2
  <2> QED BY <2>6 DEF DependenciesFirst
<1>3. ASSUME /\ Len(attempts') = Len(attempts)
             /\ \A k \in 1..Len(attempts) :
                   attempts'[k].feature = attempts[k].feature
      PROVE  DependenciesFirst'
  BY <1>o, <1>3 DEF DependenciesFirst
<1>4. CASE attempts' = [attempts EXCEPT ![LastAttempt].row = "closed"]
  <2>1. Len(attempts') = Len(attempts) BY <1>t, <1>4
  <2>2. ASSUME NEW k \in 1..Len(attempts)
        PROVE  attempts'[k].feature = attempts[k].feature
    <3>1. attempts[k] \in AttemptRows BY <1>t
    <3>2. CASE k = LastAttempt BY <1>t, <1>4, <3>1, <3>2 DEF AttemptRows
    <3>3. CASE k # LastAttempt BY <1>t, <1>4, <3>3
    <3> QED BY <3>2, <3>3
  <2> QED BY <1>3, <2>1, <2>2
<1>5. CASE \E out \in Outcomes :
             attempts' = [attempts EXCEPT ![LastAttempt].got = out]
  <2> PICK out \in Outcomes :
             attempts' = [attempts EXCEPT ![LastAttempt].got = out]
    BY <1>5
  <2>1. Len(attempts') = Len(attempts) BY <1>t
  <2>2. ASSUME NEW k \in 1..Len(attempts)
        PROVE  attempts'[k].feature = attempts[k].feature
    <3>1. attempts[k] \in AttemptRows BY <1>t
    <3>2. CASE k = LastAttempt BY <1>t, <3>1, <3>2 DEF AttemptRows
    <3>3. CASE k # LastAttempt BY <1>t, <3>3
    <3> QED BY <3>2, <3>3
  <2> QED BY <1>3, <2>1, <2>2
<1> QED BY <1>1, <1>2, <1>4, <1>5, AttemptsStep

LEMMA DepStep == TypeInv /\ DepInv /\ [Next]_vars => DepInv'
<1> SUFFICES ASSUME TypeInv, DepInv, [Next]_vars PROVE DepInv'
  OBVIOUS
<1> USE DEF input, tables, loop, attempt, process, listener
<1>t. /\ rows \in Seq(Features) /\ i \in Nat \ {0}
      /\ store \in [Features -> Statuses \cup {"absent"}]
      /\ done \subseteq Features
      /\ pc \in Working \cup {"check"} => i \in 1..Len(rows)
  BY DEF TypeInv, TypeOK, ControlOK, IndexOK
<1>d. Untouched /\ CurrentOK /\ DoneOK /\ Injective BY DEF DepInv
<1>s. \A g \in Features : store[g] = "implemented" => store'[g] = "implemented"
  BY ImplementedStays
<1>f. DependenciesFirst' BY DependenciesStep
<1>r. rows' = rows /\ was' = was BY TablesStep
<1>j. Injective' BY <1>d, <1>r DEF Injective
<1> DEFINE Rest == Untouched' /\ CurrentOK' /\ DoneOK'
<1>1. CASE StartFeature
  <2>1. /\ pc = "pick" /\ i \in 1..Len(rows) /\ i' = i /\ done' = done
        /\ was[Current] # "implemented" /\ DependsOn[Current] \subseteq done
    BY <1>t, <1>1 DEF StartFeature, AlreadyDone, DepsSatisfied
  <2>2. Current' = Current /\ Current \in Features
    BY <1>t, <1>r, <2>1 DEF Current
  <2>3. ASSUME store' = [store EXCEPT ![Current] = "in_progress"] /\ pc' = "wait"
       PROVE  Rest
    <3>1. Untouched'
      BY <1>t, <1>d, <1>r, <2>1, <2>3 DEF Untouched, Injective, Current
    <3>2. CurrentOK' BY <1>t, <2>1, <2>2, <2>3 DEF CurrentOK
    <3>3. DoneOK' BY <1>t, <1>d, <1>s, <2>1 DEF DoneOK
    <3> QED BY <3>1, <3>2, <3>3
  <2>4. ASSUME store' = store /\ pc' = "finish"
       PROVE  Rest
    BY <1>d, <1>r, <2>1, <2>4 DEF Untouched, CurrentOK, DoneOK, Working
  <2>5. Rest BY <1>1, <2>3, <2>4, Zenon DEF StartFeature
  <2> QED BY <1>f, <1>j, <2>5 DEF DepInv
<1>2. CASE Settle
  <2>1. /\ pc = "settle" /\ i \in 1..Len(rows) /\ i' = i
        /\ store[Current] = "in_progress"
        /\ done' = DoneAfter
    BY <1>t, <1>d, <1>2 DEF Settle, CurrentOK, Working
  <2>2. Current \in Features BY <1>t, <2>1 DEF Current
  <2>3. ASSUME store' = [store EXCEPT ![Current] = StatusAfter] /\ pc' = "check"
       PROVE  Rest
    <3>1. Untouched'
      BY <1>t, <1>d, <1>r, <2>1, <2>3 DEF Untouched, Injective, Current
    <3>2. CurrentOK' BY <2>3 DEF CurrentOK, Working
    <3>3. DoneOK'
      <4>1. result = "ok" => store'[Current] = "implemented"
        BY <1>t, <2>2, <2>3 DEF StatusAfter
      <4> QED BY <1>t, <1>d, <1>s, <2>1, <4>1 DEF DoneOK, DoneAfter
    <3> QED BY <3>1, <3>2, <3>3
  <2>4. ASSUME store' = store /\ pc' = "finish"
       PROVE  Rest
    BY <1>d, <1>r, <2>1, <2>4 DEF Untouched, CurrentOK, DoneOK, Working
  <2>5. Rest BY <1>2, <2>3, <2>4, Zenon DEF Settle
  <2> QED BY <1>f, <1>j, <2>5 DEF DepInv
<1>3. CASE SkipImplemented \/ SkipUnmet \/ ContinueLoop
  <2>1. /\ pc \in {"pick", "check"} /\ pc' = "pick" /\ i' = i + 1
        /\ UNCHANGED <<store, done>>
    BY <1>3 DEF SkipImplemented, SkipUnmet, ContinueLoop
  <2>2. Untouched' BY <1>t, <1>d, <1>r, <2>1 DEF Untouched
  <2>3. CurrentOK' BY <2>1 DEF CurrentOK, Working
  <2>4. DoneOK' BY <1>d, <2>1 DEF DoneOK
  <2> QED BY <1>f, <1>j, <2>2, <2>3, <2>4 DEF DepInv
<1>4. ASSUME UNCHANGED <<i, store, done>>,
             pc' = pc \/ pc' \in {"finish", "done"}
                     \/ (pc \in Working /\ pc' \in Working)
      PROVE  DepInv'
  <2>1. Current' = Current BY <1>r, <1>4 DEF Current
  <2>2. Untouched' BY <1>d, <1>r, <1>4 DEF Untouched, Working
  <2>3. CurrentOK' BY <1>d, <1>4, <2>1 DEF CurrentOK, Working
  <2>4. DoneOK' BY <1>d, <1>4 DEF DoneOK, Working
  <2> QED BY <1>f, <1>j, <2>2, <2>3, <2>4 DEF DepInv
<1>5. CASE \/ NoMoreFeatures \/ LeaveLoop \/ WaitInterrupted \/ BackoffOver
           \/ BackoffCancelled \/ TakeControls \/ AttemptCancelled
           \/ FinishRun
  BY <1>4, <1>5, Zenon
     DEF NoMoreFeatures, LeaveLoop, WaitInterrupted, BackoffOver,
         BackoffCancelled, TakeControls, AttemptCancelled, FinishRun, Working
<1>6. CASE BeginAttempt
  BY <1>4, <1>6, Zenon DEF BeginAttempt, Working
<1>7. CASE ResultEndsFeature \/ ResultLimited \/ ResultFails
  <2>1. UNCHANGED <<i, store, done>> /\ pc \in Working /\ pc' \in Working
    BY <1>7 DEF ResultEndsFeature, ResultLimited, ResultFails, ReceiveResult,
                Working
  <2> QED BY <1>4, <2>1
<1>8. CASE PauseTask \/ ResumeTask \/ TerminateTask \/ QuitRun
  BY <1>4, <1>8, Zenon
     DEF PauseTask, ResumeTask, TerminateTask, QuitRun, StopTask, ConsumeKey
<1>9. CASE Provider \/ Environment
  BY <1>4, <1>9, Zenon
     DEF Provider, ProviderStarts, ProviderCannotStart, ProviderExits,
         TimeoutFires, Environment, CooldownOver, Signal, PressKey
<1>10. CASE UNCHANGED vars BY <1>4, <1>10 DEF vars
<1> QED
  BY <1>1, <1>2, <1>3, <1>5, <1>6, <1>7, <1>8, <1>9, <1>10
     DEF Next, Planner, Terminated

\* A provider is never called for a feature one of whose dependencies is not
\* implemented in the table: true of every row order, dependency relation
\* and starting status, because an implemented row stays implemented.
THEOREM DependenciesFirstHolds == Spec => []DependenciesFirst
<1>1. DepInv => DependenciesFirst BY DEF DepInv
<1> QED BY InitType, TypeStep, DepInit, DepStep, <1>1, PTL DEF Spec

-----------------------------------------------------------------------------
(* The engine's provider is one that ProviderCall allows. Nothing but the  *)
(* provider's own steps, the begin of an attempt and the receipt of its    *)
(* result is visible there.                                                *)
LEMMA ProviderUnseen ==
    ASSUME task' = task, task \in {"idle", "spawned", "running"} \/ result' = result
    PROVE  UNCHANGED Call!callVars
BY DEF Call!callVars, CallState, ResultReady

LEMMA EngineCallStep ==
    ASSUME TypeInv, [Next]_vars
    PROVE  [Call!Next]_(Call!callVars)
<1> USE DEF input, tables, loop, attempt, process, listener
<1>t. /\ task \in Tasks
      /\ task # "idle" => pc \in InFlight
      /\ result \in Outcomes \cup {"none"}
  BY DEF TypeInv, TypeOK, ControlOK, IndexOK
<1>1. CASE BeginAttempt
  <2>1. task = "idle" BY <1>t, <1>1 DEF BeginAttempt
  <2>2. CASE task' = "spawned"
    BY <2>1, <2>2 DEF CallState, ResultReady, Call!Begin, Call!Next
  <2>3. CASE task' = task
    BY <2>1, <2>3, ProviderUnseen
  <2> QED BY <1>1, <2>2, <2>3, Zenon DEF BeginAttempt
<1>2. CASE ResultEndsFeature \/ ResultLimited \/ ResultFails
  <2>1. ResultReady /\ task' = "idle"
    BY <1>2, Zenon DEF ResultEndsFeature, ResultLimited, ResultFails,
                       ReceiveResult
  <2> QED BY <2>1 DEF ResultReady, CallState, Call!Receive, Call!Idle, Call!Next
<1>3. CASE ProviderStarts
  BY <1>3 DEF ProviderStarts, CallState, ResultReady, Call!Work, Call!Next
<1>4. CASE ProviderCannotStart
  BY <1>4 DEF ProviderCannotStart, CallState, ResultReady, Call!Answer,
              Call!Next
<1>5. CASE ProviderExits
  <2>1. task = "running" /\ task' = "returned" /\ result' \in Outcomes
    BY <1>5 DEF ProviderExits
  <2> QED BY <2>1 DEF Outcomes, CallState, ResultReady, Call!Answer, Call!Next
<1>6. CASE StartFeature
  <2>1. task = "idle" /\ task' = task BY <1>t, <1>6 DEF StartFeature
  <2> QED BY <2>1, ProviderUnseen
<1>7. CASE \/ SkipImplemented \/ SkipUnmet \/ NoMoreFeatures \/ Settle
           \/ ContinueLoop \/ LeaveLoop \/ WaitInterrupted \/ BackoffOver
           \/ BackoffCancelled \/ TakeControls \/ AttemptCancelled
           \/ FinishRun
  <2>1. UNCHANGED <<task, result>>
    BY <1>7, Zenon
       DEF SkipImplemented, SkipUnmet, NoMoreFeatures, Settle, ContinueLoop,
           LeaveLoop, WaitInterrupted, BackoffOver, BackoffCancelled,
           TakeControls, AttemptCancelled, FinishRun
  <2> QED BY <2>1, ProviderUnseen
<1>8. CASE PauseTask \/ ResumeTask \/ TerminateTask \/ QuitRun
  <2>1. UNCHANGED <<task, result>>
    BY <1>8, Zenon
       DEF PauseTask, ResumeTask, TerminateTask, QuitRun, StopTask, ConsumeKey
  <2> QED BY <2>1, ProviderUnseen
<1>9. CASE TimeoutFires \/ Environment \/ UNCHANGED vars
  <2>1. UNCHANGED <<task, result>>
    BY <1>9, Zenon
       DEF TimeoutFires, Environment, CooldownOver, Signal, PressKey, vars
  <2> QED BY <2>1, ProviderUnseen
<1> QED
  BY <1>1, <1>2, <1>3, <1>4, <1>5, <1>6, <1>7, <1>8, <1>9
     DEF Next, Planner, Provider, Terminated

\* The provider as the engine sees it keeps the promise that Attempt keeps in
\* detail: so whatever follows from that promise holds of both.
THEOREM ImplementsCallHolds == Spec => ImplementsCall
<1>1. Init => Call!Init
  BY DEF Init, Call!Init, Call!Idle, CallState, ResultReady
<1>2. TypeInv /\ [Next]_vars => [Call!Next]_(Call!callVars)
  BY EngineCallStep
<1> QED
  BY <1>1, <1>2, InitType, TypeStep, PTL DEF Spec, ImplementsCall, Call!Spec

-----------------------------------------------------------------------------
(* What a write to the attempts table changes of what is read from it.     *)

\* A row whose feature and outcome stay is counted as before.
LEMMA SameAnswers ==
    ASSUME Len(attempts') = Len(attempts),
           \A n \in 1..Len(attempts) :
              /\ attempts'[n].feature = attempts[n].feature
              /\ attempts'[n].got = attempts[n].got
    PROVE  /\ Succeeded' = Succeeded
           /\ \A g : CountedFailures(g)' = CountedFailures(g)
           /\ \A g : Attempted(g)' = Attempted(g)
<1>1. Succeeded' = Succeeded BY DEF Succeeded
<1>2. \A g : AttemptsOf(g)' = AttemptsOf(g) BY DEF AttemptsOf
<1>3. \A g : CountedFailures(g)' = CountedFailures(g)
  BY <1>2 DEF CountedFailures, AttemptsOf
<1> QED BY <1>1, <1>2, <1>3 DEF Attempted

LEMMA CloseRowKeeps ==
    ASSUME NEW s \in Seq(AttemptRows), NEW n \in 1..Len(s), NEW k \in 1..Len(s)
    PROVE  /\ [s EXCEPT ![n].row = "closed"][k].feature = s[k].feature
           /\ [s EXCEPT ![n].row = "closed"][k].got = s[k].got
           /\ [s EXCEPT ![n].row = "closed"][k].row
                = IF k = n THEN "closed" ELSE s[k].row
<1>1. s[k] \in AttemptRows OBVIOUS
<1>2. CASE k = n BY <1>1, <1>2 DEF AttemptRows
<1>3. CASE k # n BY <1>3
<1> QED BY <1>2, <1>3

LEMMA SetGotKeeps ==
    ASSUME NEW s \in Seq(AttemptRows), NEW n \in 1..Len(s), NEW out,
           NEW k \in 1..Len(s)
    PROVE  /\ [s EXCEPT ![n].got = out][k].feature = s[k].feature
           /\ [s EXCEPT ![n].got = out][k].row = s[k].row
           /\ [s EXCEPT ![n].got = out][k].got
                = IF k = n THEN out ELSE s[k].got
<1>1. s[k] \in AttemptRows OBVIOUS
<1>2. CASE k = n BY <1>1, <1>2 DEF AttemptRows
<1>3. CASE k # n BY <1>3
<1> QED BY <1>2, <1>3

\* A new row has no outcome; it only makes its feature one that was tried.
LEMMA AppendedRow ==
    ASSUME attempts \in Seq(AttemptRows), Current \in Features,
           attempts' = Append(attempts, NewRow)
    PROVE  /\ Len(attempts') = Len(attempts) + 1
           /\ \A n \in 1..Len(attempts) : attempts'[n] = attempts[n]
           /\ attempts'[Len(attempts')] = NewRow
           /\ Succeeded' = Succeeded
           /\ \A g : CountedFailures(g)' = CountedFailures(g)
           /\ \A g : Attempted(g)' <=> Attempted(g) \/ g = Current
<1> DEFINE last == Len(attempts) + 1
<1>1. /\ Len(attempts) \in Nat /\ Len(attempts') = last
      /\ \A n \in 1..Len(attempts) : attempts'[n] = attempts[n]
      /\ attempts'[last] = NewRow
  BY DEF NewRow, AttemptRows
<1>2. NewRow.feature = Current /\ NewRow.got = "none" BY DEF NewRow
<1>3. 1..last = 1..Len(attempts) \cup {last} BY <1>1
<1>4. \A n \in 1..last : attempts'[n].got \in {"ok", "fail"} =>
           n \in 1..Len(attempts)
  BY <1>1, <1>2, <1>3
<1>5. Succeeded' = Succeeded
  BY <1>1, <1>3, <1>4 DEF Succeeded
<1>6. \A g : CountedFailures(g)' = CountedFailures(g)
  BY <1>1, <1>3, <1>4 DEF CountedFailures, AttemptsOf
<1>7. \A g : Attempted(g)' <=> Attempted(g) \/ g = Current
  BY <1>1, <1>2, <1>3 DEF Attempted, AttemptsOf
<1> QED BY <1>1, <1>5, <1>6, <1>7

LEMMA ClosedRow ==
    ASSUME attempts \in Seq(AttemptRows), LastAttempt \in 1..Len(attempts),
           attempts' = [attempts EXCEPT ![LastAttempt].row = "closed"]
    PROVE  /\ Len(attempts') = Len(attempts)
           /\ \A n \in 1..Len(attempts) :
                /\ attempts'[n].feature = attempts[n].feature
                /\ attempts'[n].got = attempts[n].got
                /\ attempts'[n].row = IF n = LastAttempt THEN "closed"
                                      ELSE attempts[n].row
           /\ Succeeded' = Succeeded
           /\ \A g : CountedFailures(g)' = CountedFailures(g)
           /\ \A g : Attempted(g)' = Attempted(g)
<1>1. Len(attempts') = Len(attempts) BY CloseRow
<1>2. \A n \in 1..Len(attempts) :
         /\ attempts'[n].feature = attempts[n].feature
         /\ attempts'[n].got = attempts[n].got
         /\ attempts'[n].row = IF n = LastAttempt THEN "closed"
                               ELSE attempts[n].row
  BY CloseRowKeeps
<1> QED BY <1>1, <1>2, SameAnswers

\* An answer makes its feature a success, or counts once as a failure.
LEMMA AnsweredRow ==
    ASSUME attempts \in Seq(AttemptRows), LastAttempt \in 1..Len(attempts),
           attempts[LastAttempt].got = "none", NEW out \in Outcomes,
           attempts' = [attempts EXCEPT ![LastAttempt].got = out]
    PROVE  /\ Len(attempts') = Len(attempts)
           /\ \A n \in 1..Len(attempts) :
                /\ attempts'[n].feature = attempts[n].feature
                /\ attempts'[n].row = attempts[n].row
                /\ attempts'[n].got = IF n = LastAttempt THEN out
                                      ELSE attempts[n].got
           /\ Succeeded' = IF out = "ok"
                           THEN Succeeded \cup {attempts[LastAttempt].feature}
                           ELSE Succeeded
           /\ \A g : Attempted(g)' = Attempted(g)
           /\ \A g : LastAttempt \notin CountedFailures(g)
           /\ \A g : CountedFailures(g)' =
                  IF out = "fail" /\ g = attempts[LastAttempt].feature
                  THEN CountedFailures(g) \cup {LastAttempt}
                  ELSE CountedFailures(g)
<1>1. Len(attempts') = Len(attempts) BY SetGot
<1>2. \A n \in 1..Len(attempts) :
         /\ attempts'[n].feature = attempts[n].feature
         /\ attempts'[n].row = attempts[n].row
         /\ attempts'[n].got = IF n = LastAttempt THEN out ELSE attempts[n].got
  BY SetGotKeeps
<1>3. Succeeded' = IF out = "ok"
                   THEN Succeeded \cup {attempts[LastAttempt].feature}
                   ELSE Succeeded
  <2>1. CASE out = "ok" BY <1>1, <1>2, <2>1 DEF Succeeded
  <2>2. CASE out # "ok" BY <1>1, <1>2, <2>2 DEF Succeeded
  <2> QED BY <2>1, <2>2
<1>4. \A g : AttemptsOf(g)' = AttemptsOf(g) BY <1>1, <1>2 DEF AttemptsOf
<1>5. \A g : LastAttempt \notin CountedFailures(g) BY DEF CountedFailures
<1>6. ASSUME NEW g
      PROVE  CountedFailures(g)' =
                  IF out = "fail" /\ g = attempts[LastAttempt].feature
                  THEN CountedFailures(g) \cup {LastAttempt}
                  ELSE CountedFailures(g)
  <2>1. AttemptsOf(g) \subseteq 1..Len(attempts) BY DEF AttemptsOf
  <2>2. LastAttempt \in AttemptsOf(g) <=> g = attempts[LastAttempt].feature
    BY DEF AttemptsOf
  <2>3. CountedFailures(g)' = {k \in AttemptsOf(g) : attempts'[k].got = "fail"}
    BY <1>4 DEF CountedFailures
  <2>4. CASE out = "fail" /\ g = attempts[LastAttempt].feature
    BY <1>2, <2>1, <2>2, <2>3, <2>4 DEF CountedFailures
  <2>5. CASE ~(out = "fail" /\ g = attempts[LastAttempt].feature)
    BY <1>2, <2>1, <2>2, <2>3, <2>5 DEF CountedFailures
  <2> QED BY <2>4, <2>5
<1> QED BY <1>1, <1>2, <1>3, <1>4, <1>5, <1>6 DEF Attempted

-----------------------------------------------------------------------------
(* The rows that the loop has come to, and the call of the present one.    *)
Reached(k) == k < i \/ (k = i /\ pc # "pick")

\* Only reached rows have attempts; the call in flight is the last attempt of
\* the current row; and when it was answered, result is what it answered.
OfReached ==
    \A n \in 1..Len(attempts) : \E k \in 1..Len(rows) :
        Reached(k) /\ attempts[n].feature = rows[k]
CallInv ==
    /\ task # "idle" => /\ attempts[LastAttempt].feature = Current
                        /\ attempts[LastAttempt].got = result
    /\ task \in {"spawned", "running"} => result = "none"
    /\ ResultReady => result # "none"
ResultInv ==
    /\ pc \in InFlight \cup {"backoff", "settle", "check"} => Attempted(Current)
    /\ pc \in {"wait", "backoff"} => result # "ok"
    /\ pc \in {"backoff", "settle"} => result # "none"
    /\ pc \in Working => (Current \in Succeeded <=> result = "ok")
AttemptInv == OfReached /\ CallInv /\ ResultInv

LEMMA AttemptInit == Init => AttemptInv
BY DEF Init, AttemptInv, OfReached, CallInv, ResultInv, Working, ResultReady

LEMMA SucceededIsAttempted ==
    ASSUME NEW g \in Succeeded PROVE Attempted(g)
BY DEF Succeeded, Attempted, AttemptsOf

\* The row that is picked has not been tried in this run.
LEMMA PickedIsFresh ==
    ASSUME TypeInv, Injective, OfReached, pc = "pick", i \in 1..Len(rows)
    PROVE  ~Attempted(Current) /\ Current \notin Succeeded
<1>1. ASSUME NEW n \in 1..Len(attempts) PROVE attempts[n].feature # Current
  <2>1. PICK k \in 1..Len(rows) : Reached(k) /\ attempts[n].feature = rows[k]
    BY DEF OfReached
  <2> QED BY <2>1 DEF Reached, Injective, Current
<1>2. ~Attempted(Current) BY <1>1 DEF Attempted, AttemptsOf
<1> QED BY <1>2, SucceededIsAttempted

\* Types that the steps below need again and again.
LEMMA LedgerTypes ==
    ASSUME TypeInv
    PROVE  /\ rows \in Seq(Features) /\ i \in Nat \ {0}
           /\ store \in [Features -> Statuses \cup {"absent"}]
           /\ attempts \in Seq(AttemptRows)
           /\ result \in Outcomes \cup {"none"} /\ task \in Tasks
           /\ failures \in Nat /\ pc \in Positions /\ faults \in Nat
           /\ ares \in {"normal", "terminated", "quit"}
           /\ pc \in Working \cup {"check"} =>
                  i \in 1..Len(rows) /\ Current \in Features
           /\ task # "idle" => pc \in InFlight
                            /\ LastAttempt \in 1..Len(attempts)
BY DEF TypeInv, TypeOK, ControlOK, IndexOK, Current, LastAttempt

\* How the answered row and the begun one are written, with the places.
LEMMA BeginFacts ==
    ASSUME TypeInv, BeginAttempt
    PROVE  /\ pc = "wait" /\ UNCHANGED <<rows, was, store, run, i, done, sum, failures>>
           /\ \/ /\ pc' = "phase1" /\ task' = "spawned"
                 /\ ares' = "normal" /\ result' = "none" /\ perr' = perr
                 /\ attempts' = Append(attempts, NewRow)
                 /\ UNCHANGED faults
              \/ /\ pc' = "finish" /\ perr'
                 /\ UNCHANGED <<attempts, task, ares, result>>
<1> USE DEF input, process
<1>1. StoreCall(TRUE) => faults' = faults BY DEF StoreCall
<1> QED BY <1>1, Zenon DEF BeginAttempt, NewRow

LEMMA ReceiveFacts ==
    ASSUME TypeInv, ReceiveResult
    PROVE  /\ pc \in InFlight /\ ResultReady /\ task' = "idle"
           /\ UNCHANGED <<rows, was, store, run, i, done, sum, perr, ares, result,
                          cancelled, quitTaken>>
           /\ \/ /\ attempts' = [attempts EXCEPT ![LastAttempt].row = "closed"]
                 /\ UNCHANGED faults
              \/ /\ attempts' = attempts
                 /\ StoreCall(FALSE)
<1> USE DEF input, loop, listener
<1>1. StoreCall(TRUE) => faults' = faults BY DEF StoreCall
<1> QED BY <1>1, Zenon DEF ReceiveResult

LEMMA ReceiveKeeps ==
    ASSUME TypeInv, ReceiveResult
    PROVE  /\ Len(attempts') = Len(attempts)
           /\ \A n \in 1..Len(attempts) :
                attempts'[n].feature = attempts[n].feature
           /\ Succeeded' = Succeeded
           /\ \A g : CountedFailures(g)' = CountedFailures(g)
           /\ \A g : Attempted(g)' = Attempted(g)
<1>1. LastAttempt \in 1..Len(attempts) /\ attempts \in Seq(AttemptRows)
  BY LedgerTypes, ReceiveFacts DEF ResultReady
<1>2. CASE attempts' = [attempts EXCEPT ![LastAttempt].row = "closed"]
  BY <1>1, <1>2, ClosedRow
<1>3. CASE attempts' = attempts BY <1>3, SameAnswers
<1> QED BY <1>2, <1>3, ReceiveFacts

LEMMA AnswerFacts ==
    ASSUME TypeInv, ProviderCannotStart \/ ProviderExits
    PROVE  /\ UNCHANGED <<rows, was, store, run, i, pc, done, sum, perr, ares,
                          failures, cancelled, quitTaken, faults>>
           /\ task \in {"spawned", "running"}
           /\ task' \in {"returned", "unstarted"}
           /\ result' \in Outcomes
           /\ attempts' = [attempts EXCEPT ![LastAttempt].got = result']
<1> USE DEF input, loop, listener
<1>1. CASE ProviderCannotStart BY <1>1 DEF ProviderCannotStart, Outcomes
<1>2. CASE ProviderExits BY <1>2 DEF ProviderExits
<1> QED BY <1>1, <1>2

\* An answer of the provider is recorded in the row of the current feature.
LEMMA AnswerKeeps ==
    ASSUME TypeInv, CallInv, ProviderCannotStart \/ ProviderExits
    PROVE  /\ LastAttempt \in 1..Len(attempts)
           /\ attempts[LastAttempt].feature = Current /\ result = "none"
           /\ pc \in InFlight
           /\ Len(attempts') = Len(attempts)
           /\ \A n \in 1..Len(attempts) :
                /\ attempts'[n].feature = attempts[n].feature
                /\ attempts'[n].row = attempts[n].row
                /\ n = LastAttempt => attempts'[n].got = result'
           /\ Succeeded' = IF result' = "ok" THEN Succeeded \cup {Current}
                           ELSE Succeeded
           /\ \A g : Attempted(g)' = Attempted(g)
           /\ \A g : LastAttempt \notin CountedFailures(g)
           /\ \A g : CountedFailures(g)' =
                  IF result' = "fail" /\ g = Current
                  THEN CountedFailures(g) \cup {LastAttempt}
                  ELSE CountedFailures(g)
<1>1. PICK out \in Outcomes :
         /\ out = result'
         /\ attempts' = [attempts EXCEPT ![LastAttempt].got = out]
  BY AnswerFacts
<1>2. /\ attempts[LastAttempt].got = "none"
      /\ attempts[LastAttempt].feature = Current
      /\ result = "none" /\ LastAttempt \in 1..Len(attempts)
      /\ pc \in InFlight /\ attempts \in Seq(AttemptRows)
  BY AnswerFacts, LedgerTypes DEF CallInv
<1> DEFINE f == attempts[LastAttempt].feature
<1>3. /\ Len(attempts') = Len(attempts)
      /\ \A n \in 1..Len(attempts) :
            /\ attempts'[n].feature = attempts[n].feature
            /\ attempts'[n].row = attempts[n].row
            /\ attempts'[n].got = IF n = LastAttempt THEN out
                                  ELSE attempts[n].got
      /\ Succeeded' = IF out = "ok" THEN Succeeded \cup {f} ELSE Succeeded
      /\ \A g : Attempted(g)' = Attempted(g)
  BY <1>1, <1>2, AnsweredRow
<1>4. /\ \A g : LastAttempt \notin CountedFailures(g)
      /\ \A g : CountedFailures(g)' =
             IF out = "fail" /\ g = f
             THEN CountedFailures(g) \cup {LastAttempt}
             ELSE CountedFailures(g)
  BY <1>1, <1>2, AnsweredRow
<1> QED BY <1>1, <1>2, <1>3, <1>4

\* Steps that write nothing of the ledger: the keys and the signal while an
\* attempt is in flight, and the surroundings.
ledger == <<rows, was, store, attempts, run, i, done, sum, perr, failures, result>>

LEMMA InFlightFacts ==
    ASSUME \/ TakeControls \/ AttemptCancelled \/ PauseTask \/ ResumeTask
           \/ TerminateTask \/ QuitRun
    PROVE  /\ UNCHANGED <<ledger, task, faults, cancelled>>
           /\ pc \in InFlight /\ pc' \in InFlight
BY Zenon DEF TakeControls, AttemptCancelled, PauseTask, ResumeTask,
   TerminateTask, QuitRun, StopTask, ConsumeKey, input, tables, loop, attempt,
   listener, process, ledger

LEMMA SurroundingFacts ==
    ASSUME TimeoutFires \/ Environment \/ UNCHANGED vars
    PROVE  /\ UNCHANGED <<ledger, task, pc, ares, quitTaken, faults>>
           /\ cancelled => cancelled'
           /\ pc = "done" => cancelled' = cancelled
<1> USE DEF input, tables, loop, attempt, listener, process, ledger
<1>1. CASE TimeoutFires \/ CooldownOver \/ PressKey
  BY <1>1 DEF TimeoutFires, CooldownOver, PressKey
<1>2. CASE Signal BY <1>2, Zenon DEF Signal
<1>3. CASE UNCHANGED vars BY <1>3, Zenon DEF vars
<1> QED BY <1>1, <1>2, <1>3 DEF Environment

LEMMA AttemptStep == TypeInv /\ DepInv /\ AttemptInv /\ [Next]_vars => AttemptInv'
<1> SUFFICES ASSUME TypeInv, DepInv, AttemptInv, [Next]_vars PROVE AttemptInv'
  OBVIOUS
<1> USE DEF AttemptInv, input, tables, loop, attempt, process, listener
<1>t. /\ rows \in Seq(Features) /\ i \in Nat \ {0}
      /\ attempts \in Seq(AttemptRows)
      /\ task # "idle" => pc \in InFlight
                       /\ LastAttempt \in 1..Len(attempts)
      /\ pc \in Working => i \in 1..Len(rows) /\ Current \in Features
  BY LedgerTypes
<1>r. rows' = rows BY TablesStep
<1>1. ASSUME UNCHANGED <<attempts, task, result>>, task = "idle",
             pc' \in {"pick", "finish", "done"},
             \A k \in 1..Len(rows) : Reached(k) => Reached(k)'
      PROVE  AttemptInv'
  BY <1>1, <1>r DEF OfReached, CallInv, ResultInv, Working, ResultReady
<1>2. ASSUME UNCHANGED <<attempts, task, result, i>>,
             pc' = pc \/ (pc \in InFlight /\ pc' \in InFlight)
      PROVE  AttemptInv'
  <2>1. Current' = Current /\ Succeeded' = Succeeded
        /\ Attempted(Current)' = Attempted(Current)
    BY <1>2, <1>r DEF Current, Succeeded, Attempted, AttemptsOf
  <2>2. OfReached' BY <1>2, <1>r DEF OfReached, Reached
  <2>3. CallInv' BY <1>2, <2>1 DEF CallInv, LastAttempt, ResultReady
  <2>4. ResultInv' BY <1>2, <2>1 DEF ResultInv, Working
  <2> QED BY <2>2, <2>3, <2>4
<1>3. CASE \/ SkipImplemented \/ SkipUnmet \/ NoMoreFeatures \/ ContinueLoop
           \/ LeaveLoop \/ WaitInterrupted \/ FinishRun
  <2>1. /\ UNCHANGED <<attempts, task, result>> /\ pc \notin InFlight
        /\ pc' \in {"pick", "finish", "done"}
        /\ \/ i' = i /\ pc' # "pick"
           \/ i' = i + 1 /\ pc' = "pick"
    BY <1>3, Zenon
       DEF SkipImplemented, SkipUnmet, NoMoreFeatures, ContinueLoop, LeaveLoop,
           WaitInterrupted, FinishRun
  <2>2. \A k \in 1..Len(rows) : Reached(k) => Reached(k)'
    BY <1>t, <2>1 DEF Reached
  <2> QED BY <1>1, <1>t, <2>1, <2>2
<1>4. CASE StartFeature
  <2>1. /\ pc = "pick" /\ i \in 1..Len(rows)
        /\ UNCHANGED <<attempts, task, i>>
    BY <1>t, <1>4 DEF StartFeature
  <2>2. task = "idle" BY <1>t, <2>1
  <2>3. ~Attempted(Current) /\ Current \notin Succeeded
    BY <2>1, PickedIsFresh DEF DepInv
  <2>4. \A k \in 1..Len(rows) : Reached(k) => Reached(k)'
    BY <1>4, <2>1 DEF Reached, StartFeature
  <2>5. Current' = Current /\ Succeeded' = Succeeded
    BY <1>r, <2>1 DEF Current, Succeeded
  <2>6. CASE pc' = "wait" /\ result' = "none"
    BY <1>r, <2>1, <2>2, <2>3, <2>4, <2>5, <2>6
       DEF OfReached, CallInv, ResultInv, ResultReady
  <2>7. CASE pc' = "finish" /\ result' = result
    BY <1>1, <2>1, <2>2, <2>4, <2>7
  <2> QED BY <1>4, <2>6, <2>7, Zenon DEF StartFeature
<1>5. CASE Settle
  <2>1. /\ pc = "settle" /\ pc' \in {"check", "finish"}
        /\ UNCHANGED <<attempts, task, result, i>>
    BY <1>5 DEF Settle
  <2>2. task = "idle" BY <1>t, <2>1
  <2>3. Current' = Current /\ Attempted(Current)' = Attempted(Current)
    BY <1>r, <2>1 DEF Current, Attempted, AttemptsOf
  <2>4. OfReached' BY <1>r, <2>1 DEF OfReached, Reached
  <2> QED BY <2>1, <2>2, <2>3, <2>4 DEF CallInv, ResultInv, ResultReady, Working
<1>6. CASE BeginAttempt
  <2>1. pc = "wait" /\ i' = i /\ task = "idle"
    BY <1>t, <1>6, BeginFacts
  <2>2. Current' = Current /\ Current \in Features /\ i \in 1..Len(rows)
    BY <1>r, <1>t, <2>1 DEF Current, Working
  <2>3. CASE pc' = "finish" /\ UNCHANGED <<attempts, task, result>>
    BY <1>1, <2>1, <2>3 DEF Reached
  <2>4. CASE /\ pc' = "phase1" /\ task' = "spawned" /\ result' = "none"
             /\ attempts' = Append(attempts, NewRow)
    <3>1. /\ Len(attempts') = Len(attempts) + 1 /\ Len(attempts) \in Nat
          /\ \A n \in 1..Len(attempts) : attempts'[n] = attempts[n]
          /\ attempts'[Len(attempts')] = NewRow
          /\ Succeeded' = Succeeded
          /\ Attempted(Current)'
      BY <1>t, <2>2, <2>4, AppendedRow DEF Attempted, AttemptsOf, NewRow
    <3>2. NewRow.feature = Current /\ NewRow.got = "none" BY DEF NewRow
    <3>3. OfReached'
      <4> SUFFICES ASSUME NEW n \in 1..Len(attempts')
                   PROVE  \E k \in 1..Len(rows) :
                             Reached(k)' /\ attempts'[n].feature = rows[k]
        BY <1>r DEF OfReached
      <4>1. CASE n \in 1..Len(attempts)
        BY <3>1, <4>1, <2>1, <2>4 DEF OfReached, Reached
      <4>2. CASE n = Len(attempts')
        <5>1. attempts'[n].feature = rows[i]
          BY <3>1, <3>2, <4>2 DEF Current
        <5>2. \A k \in 1..Len(rows) : k = i => Reached(k)'
          BY <2>1, <2>4 DEF Reached
        <5> QED BY <2>2, <5>1, <5>2
      <4> QED BY <3>1, <4>1, <4>2
    <3>4. CallInv' BY <2>2, <2>4, <3>1, <3>2 DEF CallInv, LastAttempt, ResultReady
    <3>5. ResultInv' BY <2>1, <2>2, <2>4, <3>1 DEF ResultInv, Working
    <3> QED BY <3>3, <3>4, <3>5
  <2> QED BY <1>6, <2>3, <2>4, BeginFacts
<1>7. CASE BackoffOver \/ BackoffCancelled
  <2>1. /\ pc = "backoff" /\ pc' \in {"wait", "settle"}
        /\ UNCHANGED <<attempts, task, result, i>>
    BY <1>7 DEF BackoffOver, BackoffCancelled
  <2>2. task = "idle" BY <1>t, <2>1
  <2>3. Current' = Current /\ Succeeded' = Succeeded
        /\ Attempted(Current)' = Attempted(Current)
    BY <1>r, <2>1 DEF Current, Attempted, AttemptsOf, Succeeded
  <2>4. OfReached' BY <1>r, <2>1 DEF OfReached, Reached
  <2> QED BY <2>1, <2>2, <2>3, <2>4 DEF CallInv, ResultInv, ResultReady, Working
<1>8. CASE ResultEndsFeature \/ ResultLimited \/ ResultFails
  <2>1. ReceiveResult /\ pc' \in {"settle", "wait", "backoff"}
        /\ (pc' = "wait" => result = "limited")
        /\ (pc' = "backoff" => result = "fail")
    BY <1>8 DEF ResultEndsFeature, ResultLimited, ResultFails, Exhausted
  <2>2. /\ pc \in InFlight /\ task' = "idle" /\ result # "none"
        /\ UNCHANGED <<i, result>>
    BY <2>1, ReceiveFacts DEF CallInv
  <2>3. /\ Len(attempts') = Len(attempts) /\ Succeeded' = Succeeded
        /\ \A n \in 1..Len(attempts) :
              attempts'[n].feature = attempts[n].feature
        /\ \A g : Attempted(g)' = Attempted(g)
    BY <2>1, ReceiveKeeps
  <2>4. Current' = Current BY <1>r, <2>2 DEF Current
  <2>5. OfReached' BY <1>r, <2>1, <2>2, <2>3 DEF OfReached, Reached
  <2>6. CallInv' BY <2>2 DEF CallInv, ResultReady
  <2>7. Attempted(Current)' = Attempted(Current)
    BY <2>3, <2>4 DEF Attempted, AttemptsOf
  <2>8. ResultInv' BY <2>1, <2>2, <2>3, <2>4, <2>7 DEF ResultInv, Working
  <2> QED BY <2>5, <2>6, <2>8
<1>9. CASE ProviderStarts
  <2>1. /\ UNCHANGED <<attempts, result, i, pc>>
        /\ task = "spawned" /\ task' = "running"
    BY <1>9, Zenon DEF ProviderStarts
  <2>2. Current' = Current /\ Succeeded' = Succeeded
        /\ Attempted(Current)' = Attempted(Current)
    BY <2>1, <1>r DEF Current, Succeeded, Attempted, AttemptsOf
  <2>3. OfReached' BY <2>1, <1>r DEF OfReached, Reached
  <2>4. CallInv' BY <2>1, <2>2 DEF CallInv, LastAttempt, ResultReady
  <2>5. ResultInv' BY <2>1, <2>2 DEF ResultInv, Working
  <2> QED BY <2>3, <2>4, <2>5
<1>10. CASE ProviderCannotStart \/ ProviderExits
  <2>1. /\ UNCHANGED <<i, pc>> /\ task \in {"spawned", "running"}
        /\ task' \in {"returned", "unstarted"} /\ result' \in Outcomes
        /\ attempts' = [attempts EXCEPT ![LastAttempt].got = result']
    BY <1>10, AnswerFacts
  <2>2. LastAttempt \in 1..Len(attempts) /\ pc \in InFlight
        /\ attempts[LastAttempt].feature = Current /\ result = "none"
    BY <1>10, AnswerKeeps
  <2>3. /\ Len(attempts') = Len(attempts)
        /\ \A n \in 1..Len(attempts) :
             /\ attempts'[n].feature = attempts[n].feature
             /\ n = LastAttempt => attempts'[n].got = result'
        /\ Succeeded' = IF result' = "ok" THEN Succeeded \cup {Current}
                        ELSE Succeeded
        /\ \A g : Attempted(g)' = Attempted(g)
    BY <1>10, AnswerKeeps
  <2>4. Current' = Current BY <1>r, <2>1 DEF Current
  <2>5. OfReached' BY <1>r, <2>1, <2>3 DEF OfReached, Reached
  <2>6. CallInv' BY <2>1, <2>2, <2>3, <2>4 DEF CallInv, LastAttempt, ResultReady, Outcomes
  <2>7. Attempted(Current)' = Attempted(Current)
    BY <2>3, <2>4 DEF Attempted, AttemptsOf
  <2>8. ResultInv' BY <2>1, <2>2, <2>3, <2>4, <2>7 DEF ResultInv, Working, Outcomes
  <2> QED BY <2>5, <2>6, <2>8
<1>11. CASE \/ TakeControls \/ AttemptCancelled \/ PauseTask \/ ResumeTask
            \/ TerminateTask \/ QuitRun
  BY <1>2, <1>11, InFlightFacts DEF ledger
<1>12. CASE TimeoutFires \/ Environment \/ UNCHANGED vars
  BY <1>2, <1>12, SurroundingFacts DEF ledger
<1> QED
  BY <1>3, <1>4, <1>5, <1>6, <1>7, <1>8, <1>9, <1>10, <1>11, <1>12
     DEF Next, Planner, Provider, Terminated

-----------------------------------------------------------------------------
(* The engine implements Lifecycle. Start, Prove, Finish and End are the   *)
(* writes of StartFeature, the answer of a provider, the write of Settle   *)
(* and the way to "finish"; the rest of the engine is not seen there.      *)
Ended == pc \in {"finish", "done"}

LEMMA Unseen ==
    ASSUME UNCHANGED <<store, attempts, rows, i>>,
           \/ pc' = pc
           \/ pc \in Working /\ pc' \in Working
           \/ pc \notin Working \cup {"finish", "done"}
              /\ pc' \notin Working \cup {"finish", "done"}
           \/ Ended /\ Ended'
    PROVE  UNCHANGED Promise!lifecycleVars
<1>1. Succeeded' = Succeeded BY DEF Succeeded
<1>2. Current' = Current BY DEF Current
<1> QED BY <1>1, <1>2 DEF Promise!lifecycleVars, Working, Ended

LEMMA EngineEnds ==
    ASSUME UNCHANGED <<store, attempts>>, ~Ended, Ended'
    PROVE  Promise!End
<1>1. Succeeded' = Succeeded BY DEF Succeeded
<1> QED BY <1>1 DEF Promise!End, Working, Ended

LEMMA EngineStarts ==
    ASSUME TypeInv, DepInv, StartFeature, pc' = "wait",
           store' = [store EXCEPT ![Current] = "in_progress"]
    PROVE  Promise!Start(Current)
<1>1. /\ pc = "pick" /\ i \in 1..Len(rows) /\ DependsOn[Current] \subseteq done
      /\ was[Current] # "implemented" /\ UNCHANGED <<rows, i, attempts>>
  BY LedgerTypes DEF StartFeature, AlreadyDone, DepsSatisfied, input
<1>2. store[Current] = was[Current] BY <1>1 DEF DepInv, Untouched, Current
<1>3. Current \in Features BY <1>1, LedgerTypes DEF Current
<1>4. was[Current] # "absent" BY <1>3 DEF TypeInv, TypeOK, Statuses
<1>5. DependsOn[Current] \subseteq Promise!Implemented
  <2>1. DependsOn[Current] \subseteq Features BY <1>3, DependsOnAssumption
  <2>2. \A g \in done : store[g] = "implemented" BY <1>1 DEF DepInv, DoneOK
  <2> QED BY <1>1, <2>1, <2>2 DEF Promise!Implemented
<1>6. Succeeded' = Succeeded /\ Current' = Current
  BY <1>1 DEF Succeeded, Current
<1> QED BY <1>1, <1>2, <1>4, <1>5, <1>6 DEF Promise!Start, Working

LEMMA EngineFinishes ==
    ASSUME TypeInv, AttemptInv, Settle, pc' = "check",
           store' = [store EXCEPT ![Current] = StatusAfter]
    PROVE  Promise!Finish(StatusAfter)
<1>1. pc = "settle" /\ UNCHANGED attempts BY DEF Settle
<1>2. Current \in Features BY <1>1, LedgerTypes DEF Working
<1>3. Current \in Succeeded <=> StatusAfter = "implemented"
  BY <1>1 DEF AttemptInv, ResultInv, Working, StatusAfter
<1>4. Succeeded' = Succeeded BY <1>1 DEF Succeeded
<1> QED BY <1>1, <1>2, <1>3, <1>4, NobodyAssumption DEF Promise!Finish, Working

LEMMA EngineProves ==
    ASSUME TypeInv, AttemptInv, ProviderCannotStart \/ ProviderExits
    PROVE  Promise!Prove \/ UNCHANGED Promise!lifecycleVars
<1>1. UNCHANGED <<store, rows, i, pc>> BY AnswerFacts
<1>2. pc \in Working BY AnswerKeeps DEF AttemptInv, Working
<1>3. Current \in Features /\ Current' = Current
  BY <1>1, <1>2, LedgerTypes DEF Current
<1>4. Succeeded' = Succeeded \cup {Current} \/ Succeeded' = Succeeded
  BY AnswerKeeps DEF AttemptInv
<1> QED
  BY <1>1, <1>2, <1>3, <1>4, NobodyAssumption
     DEF Promise!Prove, Promise!lifecycleVars, Working

LEMMA LifecycleStep ==
    ASSUME TypeInv, DepInv, AttemptInv, [Next]_vars
    PROVE  [Promise!Next]_(Promise!lifecycleVars)
<1> USE DEF input, tables, loop, attempt, process, listener
<1>r. rows' = rows BY TablesStep
<1>1. CASE SkipImplemented \/ SkipUnmet \/ ContinueLoop
  <2>1. /\ UNCHANGED <<store, attempts>>
        /\ pc \in {"pick", "check"} /\ pc' = "pick"
    BY <1>1, Zenon DEF SkipImplemented, SkipUnmet, ContinueLoop
  <2>2. Succeeded' = Succeeded BY <2>1 DEF Succeeded
  <2> QED BY <2>1, <2>2 DEF Promise!lifecycleVars, Working
<1>2. CASE StartFeature
  <2>1. pc = "pick" /\ UNCHANGED attempts BY <1>2 DEF StartFeature
  <2>2. CASE pc' = "finish" /\ store' = store
    BY <2>1, <2>2, EngineEnds DEF Ended, Promise!Next
  <2>3. CASE pc' = "wait"
             /\ store' = [store EXCEPT ![Current] = "in_progress"]
    <3>1. Current \in Features
      BY <1>2, LedgerTypes DEF StartFeature, Current
    <3> QED BY <1>2, <2>3, <3>1, EngineStarts DEF Promise!Next
  <2> QED BY <1>2, <2>2, <2>3, Zenon DEF StartFeature
<1>3. CASE Settle
  <2>1. pc = "settle" /\ UNCHANGED attempts BY <1>3 DEF Settle
  <2>2. CASE pc' = "finish" /\ store' = store
    BY <2>1, <2>2, EngineEnds DEF Ended, Promise!Next
  <2>3. CASE pc' = "check" /\ store' = [store EXCEPT ![Current] = StatusAfter]
    <3>1. StatusAfter \in {"implemented", "failed", "pending"}
      BY DEF StatusAfter
    <3> QED BY <1>3, <2>3, <3>1, EngineFinishes DEF Promise!Next
  <2> QED BY <1>3, <2>2, <2>3, Zenon DEF Settle
<1>4. CASE NoMoreFeatures \/ LeaveLoop \/ WaitInterrupted
  <2>1. /\ UNCHANGED <<store, attempts>> /\ pc' = "finish"
        /\ pc \in {"pick", "check", "wait"}
    BY <1>4, Zenon DEF NoMoreFeatures, LeaveLoop, WaitInterrupted
  <2> QED BY <2>1, EngineEnds DEF Ended, Promise!Next
<1>5. CASE BeginAttempt
  <2>1. pc = "wait" /\ UNCHANGED <<store, i>> BY <1>5, BeginFacts
  <2>2. CASE pc' = "finish" /\ attempts' = attempts
    BY <2>1, <2>2, EngineEnds DEF Ended, Promise!Next
  <2>3. CASE pc' = "phase1" /\ attempts' = Append(attempts, NewRow)
    <3>1. Current \in Features /\ attempts \in Seq(AttemptRows)
      BY <2>1, LedgerTypes DEF Working
    <3>2. Succeeded' = Succeeded BY <2>3, <3>1, AppendedRow
    <3>3. Current' = Current BY <1>r, <2>1 DEF Current
    <3> QED BY <2>1, <2>3, <3>2, <3>3 DEF Promise!lifecycleVars, Working
  <2> QED BY <1>5, <2>2, <2>3, BeginFacts
<1>6. CASE ResultEndsFeature \/ ResultLimited \/ ResultFails
  <2>1. ReceiveResult /\ pc' \in Working
    BY <1>6 DEF ResultEndsFeature, ResultLimited, ResultFails, Working
  <2>2. UNCHANGED <<store, i>> /\ pc \in Working
    BY <2>1, ReceiveFacts DEF Working
  <2>3. Succeeded' = Succeeded /\ Current' = Current
    BY <1>r, <2>1, <2>2, ReceiveKeeps DEF Current
  <2> QED BY <2>1, <2>2, <2>3 DEF Promise!lifecycleVars, Working
<1>7. CASE ProviderCannotStart \/ ProviderExits
  BY <1>7, EngineProves DEF Promise!Next
<1>8. CASE BackoffOver \/ BackoffCancelled \/ ProviderStarts \/ FinishRun
  <2>1. /\ UNCHANGED <<store, attempts, i>>
        /\ \/ pc' = pc
           \/ pc = "backoff" /\ pc' \in {"wait", "settle"}
           \/ pc = "finish" /\ pc' = "done"
    BY <1>8 DEF BackoffOver, BackoffCancelled, ProviderStarts, FinishRun
  <2> QED BY <1>r, <2>1, Unseen DEF Working, Ended
<1>9. CASE \/ TakeControls \/ AttemptCancelled \/ PauseTask \/ ResumeTask
           \/ TerminateTask \/ QuitRun
  BY <1>9, InFlightFacts, Unseen DEF ledger, Working
<1>10. CASE TimeoutFires \/ Environment \/ UNCHANGED vars
  BY <1>10, SurroundingFacts, Unseen DEF ledger
<1> QED
  BY <1>1, <1>2, <1>3, <1>4, <1>5, <1>6, <1>7, <1>8, <1>9, <1>10
     DEF Next, Planner, Provider, Terminated

\* Every behaviour of the engine is one that Lifecycle allows: whatever
\* happens to providers, keys, signals and store calls, at most one feature is
\* worked on, only when its dependencies are implemented, and it becomes
\* implemented exactly when the provider reported success for it.
THEOREM ImplementsLifecycleHolds == Spec => ImplementsLifecycle
<1>1. Init => Promise!Init
  <2> SUFFICES ASSUME Init PROVE Promise!Init OBVIOUS
  <2>1. was \in [Features -> Statuses] BY StartStatusesAssumption DEF Init
  <2>2. Succeeded = {} BY DEF Init, Succeeded
  <2> QED BY <2>1, <2>2 DEF Init, Promise!Init, Statuses, Working
<1>2. TypeInv /\ DepInv /\ AttemptInv /\ [Next]_vars
        => [Promise!Next]_(Promise!lifecycleVars)
  BY LifecycleStep
<1> QED
  BY <1>1, <1>2, InitType, TypeStep, DepInit, DepStep, AttemptInit,
     AttemptStep, PTL
     DEF Spec, ImplementsLifecycle, Promise!Spec

-----------------------------------------------------------------------------
(* What a run loses. Every feature that was tried says in its row how it   *)
(* went, but for the one being worked on, or the one at which Process      *)
(* returned an error. An attempt row that is open and not that of the call *)
(* in flight was left open by a store call that failed, or by the signal;  *)
(* the signal costs one row only, because nothing begins after it.         *)
SettledRow(g) ==
    store[g] # "in_progress" /\ (g \in Succeeded => store[g] = "implemented")
LooseRows == {n \in OpenRows : task = "idle" \/ n # LastAttempt}

ErrorEnds == perr => pc \in {"finish", "done"} /\ i \in 1..Len(rows)
NothingLost ==
    \A g \in Features : Attempted(g) =>
        ((perr \/ pc \in Working) /\ g = Current) \/ SettledRow(g)
RowsBounded ==
    Cardinality(LooseRows) <=
        faults + (IF cancelled /\ task = "idle" THEN 1 ELSE 0)
RunInv ==
    /\ run # "running" => pc = "done"
    /\ run = "completed" => ~perr /\ ~cancelled
SettledInv == ErrorEnds /\ NothingLost /\ RowsBounded /\ RunInv

\* A failure of the store or a signal is never forgotten.
LEMMA NeverForgotten ==
    ASSUME TypeInv, [Next]_vars
    PROVE  /\ faults' >= faults
           /\ cancelled => cancelled'
           /\ pc = "done" => cancelled' = cancelled
<1> USE DEF input, tables, loop, attempt, process, listener
<1>t. faults \in Nat BY LedgerTypes
<1>1. \A ok \in BOOLEAN : StoreCall(ok) => faults' >= faults
  BY <1>t DEF StoreCall
<1>2. CASE StartFeature \/ Settle \/ BeginAttempt
  <2>1. (StoreCall(TRUE) \/ StoreCall(FALSE)) /\ UNCHANGED cancelled
    BY <1>2, Zenon DEF StartFeature, Settle, BeginAttempt
  <2>2. pc # "done" BY <1>2 DEF StartFeature, Settle, BeginAttempt
  <2> QED BY <1>1, <2>1, <2>2
<1>3. CASE ResultEndsFeature \/ ResultLimited \/ ResultFails
  <2>1. (StoreCall(TRUE) \/ StoreCall(FALSE)) /\ UNCHANGED cancelled
        /\ pc # "done"
    BY <1>3, Zenon DEF ResultEndsFeature, ResultLimited, ResultFails,
                       ReceiveResult
  <2> QED BY <1>1, <2>1
<1>4. CASE FinishRun
  <2>1. pc = "finish" /\ (faults' = faults \/ faults' = faults + 1)
        /\ UNCHANGED cancelled
    BY <1>4, Zenon DEF FinishRun
  <2> QED BY <1>t, <2>1
<1>5. CASE \/ SkipImplemented \/ SkipUnmet \/ NoMoreFeatures \/ ContinueLoop
           \/ LeaveLoop \/ WaitInterrupted \/ BackoffOver \/ BackoffCancelled
           \/ TakeControls \/ AttemptCancelled \/ PauseTask \/ ResumeTask
           \/ TerminateTask \/ QuitRun
  <2>1. UNCHANGED <<faults, cancelled>>
    BY <1>5, Zenon
       DEF SkipImplemented, SkipUnmet, NoMoreFeatures, ContinueLoop, LeaveLoop,
           WaitInterrupted, BackoffOver, BackoffCancelled, TakeControls,
           AttemptCancelled, PauseTask, ResumeTask, TerminateTask, QuitRun,
           StopTask, ConsumeKey
  <2> QED BY <1>t, <2>1
<1>6. CASE ProviderStarts BY <1>t, <1>6 DEF ProviderStarts
<1>7. CASE ProviderCannotStart \/ ProviderExits BY <1>t, <1>7, AnswerFacts
<1>8. CASE TimeoutFires \/ Environment \/ UNCHANGED vars
  BY <1>t, <1>8, SurroundingFacts
<1> QED
  BY <1>2, <1>3, <1>4, <1>5, <1>6, <1>7, <1>8
     DEF Next, Planner, Provider, Terminated

\* The open rows are finitely many.
LEMMA OpenRowsFinite ==
    ASSUME TypeInv PROVE IsFiniteSet(OpenRows) /\ Cardinality(OpenRows) \in Nat
<1>1. OpenRows \subseteq 1..LastAttempt /\ LastAttempt \in Nat
  BY LedgerTypes DEF OpenRows, LastAttempt
<1>2. IsFiniteSet(1..LastAttempt) BY <1>1, FS_Interval
<1>3. IsFiniteSet(OpenRows) BY <1>1, <1>2, FS_Subset
<1> QED BY <1>3, FS_CardinalityType

\* Without attempts nothing is lost and no row is open.
LEMMA NoAttempts ==
    ASSUME TypeInv, attempts = <<>> PROVE NothingLost /\ RowsBounded
<1>1. NothingLost BY DEF NothingLost, Attempted, AttemptsOf
<1>2. LooseRows = {} BY DEF LooseRows, OpenRows, LastAttempt
<1> QED BY <1>1, <1>2, FS_EmptySet, LedgerTypes DEF RowsBounded

LEMMA SettledInit == Init => SettledInv
<1> SUFFICES ASSUME Init PROVE SettledInv OBVIOUS
<1>1. NothingLost /\ RowsBounded BY InitType, NoAttempts DEF Init
<1> QED BY <1>1 DEF Init, SettledInv, ErrorEnds, RunInv

\* Process returns an error at once, at the feature it is working on.
LEMMA ErrorStep ==
    ASSUME TypeInv, ErrorEnds, [Next]_vars PROVE ErrorEnds'
<1> USE DEF input, tables, loop, attempt, process, listener
<1>t. /\ pc \in Working => i \in 1..Len(rows)
      /\ pc = "pick" /\ i <= Len(rows) => i \in 1..Len(rows)
      /\ perr \in BOOLEAN /\ task # "idle" => pc \in InFlight
  BY LedgerTypes DEF TypeInv, TypeOK, FlagsOK
<1>r. rows' = rows BY TablesStep
<1>1. ASSUME UNCHANGED perr, pc \notin {"finish", "done"} PROVE ErrorEnds'
  BY <1>1 DEF ErrorEnds
<1>2. ASSUME pc' = "finish", i' = i, i \in 1..Len(rows) PROVE ErrorEnds'
  BY <1>2, <1>r DEF ErrorEnds
<1>3. ASSUME UNCHANGED <<perr, i>>, pc' = pc \/ pc' = "done" PROVE ErrorEnds'
  BY <1>3, <1>r DEF ErrorEnds
<1>4. CASE StartFeature
  <2>1. pc = "pick" /\ i <= Len(rows) /\ i' = i
        /\ (pc' = "finish" \/ perr' = perr)
    BY <1>4, Zenon DEF StartFeature
  <2> QED BY <1>t, <1>1, <1>2, <2>1
<1>5. CASE Settle \/ BeginAttempt \/ WaitInterrupted
  <2>1. /\ pc \in {"settle", "wait"} /\ i' = i
        /\ pc' = "finish" \/ perr' = perr
    BY <1>5, Zenon DEF Settle, BeginAttempt, WaitInterrupted
  <2> QED BY <1>t, <1>1, <1>2, <2>1 DEF Working
<1>6. CASE \/ SkipImplemented \/ SkipUnmet \/ NoMoreFeatures \/ ContinueLoop
           \/ LeaveLoop \/ BackoffOver \/ BackoffCancelled
  <2>1. perr' = perr /\ pc \in {"pick", "check", "backoff"}
    BY <1>6, Zenon
       DEF SkipImplemented, SkipUnmet, NoMoreFeatures, ContinueLoop, LeaveLoop,
           BackoffOver, BackoffCancelled
  <2> QED BY <1>1, <2>1
<1>7. CASE ResultEndsFeature \/ ResultLimited \/ ResultFails
  <2>1. ReceiveResult
    BY <1>7, Zenon DEF ResultEndsFeature, ResultLimited, ResultFails
  <2> QED BY <1>1, <2>1, ReceiveFacts
<1>8. CASE \/ TakeControls \/ AttemptCancelled \/ PauseTask \/ ResumeTask
           \/ TerminateTask \/ QuitRun
  BY <1>1, <1>8, InFlightFacts DEF ledger
<1>9. CASE FinishRun BY <1>3, <1>9, Zenon DEF FinishRun
<1>10. CASE ProviderStarts BY <1>3, <1>10, Zenon DEF ProviderStarts
<1>11. CASE ProviderCannotStart \/ ProviderExits BY <1>3, <1>11, AnswerFacts
<1>12. CASE TimeoutFires \/ Environment \/ UNCHANGED vars
  BY <1>3, <1>12, SurroundingFacts DEF ledger
<1> QED
  BY <1>4, <1>5, <1>6, <1>7, <1>8, <1>9, <1>10, <1>11, <1>12
     DEF Next, Planner, Provider, Terminated

LEMMA RunStep ==
    ASSUME TypeInv, RunInv, [Next]_vars PROVE RunInv'
<1> USE DEF input, tables, loop, attempt, process, listener
<1>1. CASE FinishRun
  <2>1. /\ pc = "finish" /\ pc' = "done" /\ UNCHANGED <<perr, cancelled>>
        /\ run' = FinalStatus \/ run' = run
    BY <1>1, Zenon DEF FinishRun
  <2> QED BY <2>1 DEF RunInv, FinalStatus
<1>2. ASSUME UNCHANGED run, pc # "done" PROVE RunInv'
  BY <1>2 DEF RunInv
<1>3. CASE \/ SkipImplemented \/ SkipUnmet \/ StartFeature \/ NoMoreFeatures
           \/ Settle \/ ContinueLoop \/ LeaveLoop \/ BeginAttempt
           \/ WaitInterrupted \/ BackoffOver \/ BackoffCancelled
           \/ TakeControls \/ AttemptCancelled \/ PauseTask \/ ResumeTask
           \/ TerminateTask \/ QuitRun
  <2>1. UNCHANGED run /\ pc # "done"
    BY <1>3, Zenon
       DEF SkipImplemented, SkipUnmet, StartFeature, NoMoreFeatures, Settle,
           ContinueLoop, LeaveLoop, BeginAttempt, WaitInterrupted,
           BackoffOver, BackoffCancelled, TakeControls, AttemptCancelled,
           PauseTask, ResumeTask, TerminateTask, QuitRun, StopTask, ConsumeKey
  <2> QED BY <1>2, <2>1
<1>4. CASE ResultEndsFeature \/ ResultLimited \/ ResultFails
  <2>1. ReceiveResult
    BY <1>4, Zenon DEF ResultEndsFeature, ResultLimited, ResultFails
  <2> QED BY <1>2, <2>1, ReceiveFacts
<1>5. CASE ProviderStarts
  <2>1. UNCHANGED run /\ pc \in InFlight
    BY <1>5, LedgerTypes DEF ProviderStarts
  <2> QED BY <1>2, <2>1
<1>6. CASE ProviderCannotStart \/ ProviderExits
  <2>1. UNCHANGED run /\ pc \in InFlight
    BY <1>6, LedgerTypes, AnswerFacts
  <2> QED BY <1>2, <2>1
<1>7. CASE TimeoutFires \/ Environment \/ UNCHANGED vars
  <2>1. /\ UNCHANGED <<run, pc, perr>>
        /\ pc = "done" => cancelled' = cancelled
    BY <1>7, SurroundingFacts DEF ledger
  <2> QED BY <2>1 DEF RunInv
<1> QED
  BY <1>1, <1>3, <1>4, <1>5, <1>6, <1>7
     DEF Next, Planner, Provider, Terminated

LEMMA RowsStep ==
    ASSUME TypeInv, AttemptInv, RowsBounded, [Next]_vars PROVE RowsBounded'
<1> USE DEF input, tables, loop, attempt, process, listener
<1>t. /\ attempts \in Seq(AttemptRows) /\ faults \in Nat /\ faults' \in Nat
      /\ task # "idle" => pc \in InFlight
                       /\ LastAttempt \in 1..Len(attempts)
      /\ pc \in Working => Current \in Features
      /\ LastAttempt = Len(attempts) /\ LastAttempt \in Nat
  <2>1. faults' \in Nat BY TypeStep, LedgerTypes, ControlStep DEF ControlOK
  <2> QED BY <2>1, LedgerTypes DEF LastAttempt
<1>f. IsFiniteSet(LooseRows) /\ Cardinality(LooseRows) \in Nat
  <2>1. LooseRows \subseteq OpenRows BY DEF LooseRows
  <2>2. IsFiniteSet(LooseRows) BY <2>1, OpenRowsFinite, FS_Subset
  <2> QED BY <2>2, FS_CardinalityType
<1>g. faults' >= faults /\ (cancelled => cancelled') BY NeverForgotten
\* No row is left open, and the signal has cost what it may.
<1>1. ASSUME LooseRows' \subseteq LooseRows,
             cancelled /\ task = "idle" => task' = "idle"
      PROVE  RowsBounded'
  <2>1. Cardinality(LooseRows') <= Cardinality(LooseRows)
        /\ Cardinality(LooseRows') \in Nat
    BY <1>f, <1>1, FS_Subset, FS_CardinalityType
  <2>2. CASE cancelled /\ task = "idle"
    BY <1>t, <1>f, <1>g, <1>1, <2>1, <2>2 DEF RowsBounded
  <2>3. CASE ~(cancelled /\ task = "idle")
    BY <1>t, <1>f, <1>g, <2>1, <2>3 DEF RowsBounded
  <2> QED BY <2>2, <2>3
<1>2. ASSUME UNCHANGED <<attempts, task>> PROVE RowsBounded'
  BY <1>1, <1>2 DEF LooseRows, OpenRows, LastAttempt
<1>3. CASE BeginAttempt
  <2>1. pc = "wait" /\ task = "idle" BY <1>t, <1>3, BeginFacts
  <2>2. CASE task' = "spawned" /\ attempts' = Append(attempts, NewRow)
    <3>1. /\ Len(attempts') = Len(attempts) + 1 /\ Len(attempts) \in Nat
          /\ \A k \in 1..Len(attempts) : attempts'[k] = attempts[k]
      BY <1>t, <2>1, <2>2, AppendedRow DEF Working
    <3>2. LooseRows' \subseteq LooseRows
      <4> SUFFICES ASSUME NEW n \in 1..LastAttempt', n # LastAttempt',
                          attempts'[n].row = "open"
                   PROVE  n \in LooseRows
        BY <2>2 DEF LooseRows, OpenRows
      <4>1. n \in 1..Len(attempts) BY <3>1 DEF LastAttempt
      <4> QED BY <2>1, <3>1, <4>1 DEF LooseRows, OpenRows, LastAttempt
    <3>3. ~cancelled
      <4>1. attempts' # attempts BY <1>t, <3>1
      <4>2. StoreCall(TRUE) BY <1>3, <4>1, Zenon DEF BeginAttempt
      <4> QED BY <4>2 DEF StoreCall
    <3> QED BY <1>1, <3>2, <3>3
  <2> QED BY <1>2, <1>3, <2>2, BeginFacts
<1>4. CASE ResultEndsFeature \/ ResultLimited \/ ResultFails
  <2>1. ReceiveResult
    BY <1>4, Zenon DEF ResultEndsFeature, ResultLimited, ResultFails
  <2>2. /\ task # "idle" /\ task' = "idle" /\ cancelled' = cancelled
        /\ LastAttempt \in 1..Len(attempts)
    BY <1>t, <2>1, ReceiveFacts DEF ResultReady
  <2>3. CASE attempts' = [attempts EXCEPT ![LastAttempt].row = "closed"]
    <3>1. /\ Len(attempts') = Len(attempts)
          /\ \A n \in 1..Len(attempts) :
                attempts'[n].row = IF n = LastAttempt THEN "closed"
                                   ELSE attempts[n].row
      BY <1>t, <2>2, <2>3, ClosedRow
    <3>2. LooseRows' \subseteq LooseRows
      BY <3>1 DEF LooseRows, OpenRows, LastAttempt
    <3> QED BY <1>1, <2>2, <3>2
  <2>4. CASE attempts' = attempts /\ StoreCall(FALSE)
    <3>1. LooseRows' \subseteq LooseRows \cup {LastAttempt}
      BY <2>4 DEF LooseRows, OpenRows, LastAttempt
    <3>2. Cardinality(LooseRows') <= Cardinality(LooseRows) + 1
          /\ Cardinality(LooseRows') \in Nat
      <4>1. /\ IsFiniteSet(LooseRows \cup {LastAttempt})
            /\ Cardinality(LooseRows \cup {LastAttempt})
                 \in {Cardinality(LooseRows), Cardinality(LooseRows) + 1}
        BY <1>f, FS_AddElement
      <4>2. /\ IsFiniteSet(LooseRows')
            /\ Cardinality(LooseRows')
                 <= Cardinality(LooseRows \cup {LastAttempt})
        BY <3>1, <4>1, FS_Subset
      <4> QED BY <1>f, <4>1, <4>2, FS_CardinalityType
    <3>3. Cardinality(LooseRows) <= faults
      BY <1>t, <2>2 DEF RowsBounded
    <3>4. IF cancelled THEN faults' = faults ELSE faults' = faults + 1
      BY <2>4 DEF StoreCall
    <3>5. CASE cancelled
      BY <1>t, <1>f, <2>2, <3>2, <3>3, <3>4, <3>5 DEF RowsBounded
    <3>6. CASE ~cancelled
      BY <1>t, <1>f, <2>2, <3>2, <3>3, <3>4, <3>6 DEF RowsBounded
    <3> QED BY <3>5, <3>6
  <2> QED BY <2>1, <2>3, <2>4, ReceiveFacts
<1>5. CASE ProviderCannotStart \/ ProviderExits
  <2>1. task # "idle" /\ task' # "idle" BY <1>5, AnswerFacts
  <2>2. /\ Len(attempts') = Len(attempts)
        /\ \A k \in 1..Len(attempts) : attempts'[k].row = attempts[k].row
    BY <1>5, AnswerKeeps DEF AttemptInv
  <2> QED BY <1>1, <2>1, <2>2 DEF LooseRows, OpenRows, LastAttempt
<1>6. CASE \/ SkipImplemented \/ SkipUnmet \/ StartFeature \/ NoMoreFeatures
           \/ Settle \/ ContinueLoop \/ LeaveLoop \/ WaitInterrupted
           \/ BackoffOver \/ BackoffCancelled \/ FinishRun
  <2>1. UNCHANGED <<attempts, task>>
    BY <1>6, Zenon
       DEF SkipImplemented, SkipUnmet, StartFeature, NoMoreFeatures, Settle,
           ContinueLoop, LeaveLoop, WaitInterrupted, BackoffOver,
           BackoffCancelled, FinishRun
  <2> QED BY <1>2, <2>1
<1>7. CASE ProviderStarts
  <2>1. UNCHANGED attempts /\ task' = "running" /\ task = "spawned"
    BY <1>7 DEF ProviderStarts
  <2> QED BY <1>1, <2>1 DEF LooseRows, OpenRows, LastAttempt
<1>8. CASE \/ TakeControls \/ AttemptCancelled \/ PauseTask \/ ResumeTask
           \/ TerminateTask \/ QuitRun
  BY <1>2, <1>8, InFlightFacts DEF ledger
<1>9. CASE TimeoutFires \/ Environment \/ UNCHANGED vars
  BY <1>2, <1>9, SurroundingFacts DEF ledger
<1> QED
  BY <1>3, <1>4, <1>5, <1>6, <1>7, <1>8, <1>9
     DEF Next, Planner, Provider, Terminated

LEMMA LostStep ==
    ASSUME TypeInv, DepInv, AttemptInv, ErrorEnds, NothingLost, [Next]_vars
    PROVE  NothingLost'
<1> USE DEF input, tables, loop, attempt, process, listener
<1> DEFINE At == perr \/ pc \in Working
<1> SUFFICES ASSUME NEW g \in Features, Attempted(g)'
             PROVE  (At' /\ g = Current') \/ SettledRow(g)'
  BY DEF NothingLost
<1> DEFINE Goal == (At' /\ g = Current') \/ SettledRow(g)'
<1>t. /\ attempts \in Seq(AttemptRows)
      /\ store \in [Features -> Statuses \cup {"absent"}]
      /\ pc \in Working => Current \in Features
      /\ perr \in BOOLEAN
  BY LedgerTypes DEF TypeInv, TypeOK, FlagsOK
<1>e. perr => pc \in {"finish", "done"} BY DEF ErrorEnds
<1>r. rows' = rows BY TablesStep
<1>n. Attempted(g) => (At /\ g = Current) \/ SettledRow(g) BY DEF NothingLost
\* Steps that change neither a row nor what was tried.
<1>1. ASSUME UNCHANGED store, Attempted(g)' = Attempted(g),
             Succeeded' = Succeeded, At => At' /\ i' = i
      PROVE  Goal
  BY <1>r, <1>n, <1>1 DEF SettledRow, Current
<1>2. ASSUME UNCHANGED <<store, attempts>>, At => At' /\ i' = i
      PROVE  Goal
  BY <1>1, <1>2 DEF Attempted, AttemptsOf, Succeeded
<1>3. CASE SkipImplemented \/ SkipUnmet \/ ContinueLoop
  <2>1. UNCHANGED <<store, perr, attempts>> /\ pc \in {"pick", "check"}
    BY <1>3, Zenon DEF SkipImplemented, SkipUnmet, ContinueLoop
  <2> QED BY <1>2, <1>e, <2>1 DEF Working
<1>4. CASE NoMoreFeatures \/ LeaveLoop \/ FinishRun
  <2>1. UNCHANGED <<store, perr, attempts, i>> /\ pc \in {"pick", "check", "finish"}
    BY <1>4, Zenon DEF NoMoreFeatures, LeaveLoop, FinishRun
  <2> QED BY <1>2, <2>1 DEF Working
<1>5. CASE WaitInterrupted BY <1>2, <1>5 DEF WaitInterrupted
<1>6. CASE StartFeature
  <2>1. /\ pc = "pick" /\ i \in 1..Len(rows) /\ ~perr
        /\ UNCHANGED <<attempts, i>>
    <3>1. pc = "pick" /\ i <= Len(rows) /\ UNCHANGED <<attempts, i>>
      BY <1>6, Zenon DEF StartFeature
    <3> QED BY <1>e, <3>1, LedgerTypes
  <2>2. CASE store' = [store EXCEPT ![Current] = "in_progress"]
    <3>1. ~Attempted(Current) BY <2>1, PickedIsFresh DEF DepInv, AttemptInv
    <3>2. Attempted(g) /\ Succeeded' = Succeeded
      BY <2>1 DEF Attempted, AttemptsOf, Succeeded
    <3>3. g # Current BY <3>1, <3>2
    <3>4. store'[g] = store[g] BY <1>t, <2>2, <3>3
    <3> QED BY <1>n, <2>1, <3>2, <3>4 DEF SettledRow, Working
  <2>3. CASE store' = store BY <1>2, <2>1, <2>3 DEF Working
  <2> QED BY <1>6, <2>2, <2>3, Zenon DEF StartFeature
<1>7. CASE Settle
  <2>1. pc = "settle" /\ UNCHANGED <<attempts, i>> BY <1>7, Zenon DEF Settle
  <2>2. Attempted(g) /\ Succeeded' = Succeeded
    BY <2>1 DEF Attempted, AttemptsOf, Succeeded
  <2>3. CASE store' = [store EXCEPT ![Current] = StatusAfter] /\ g = Current
    <3>1. store'[g] = StatusAfter BY <1>t, <2>1, <2>3
    <3>2. StatusAfter # "in_progress" BY DEF StatusAfter
    <3>3. g \in Succeeded => StatusAfter = "implemented"
      BY <2>1, <2>3 DEF AttemptInv, ResultInv, Working, StatusAfter
    <3> QED BY <2>2, <3>1, <3>2, <3>3 DEF SettledRow
  <2>4. CASE store' = [store EXCEPT ![Current] = StatusAfter] /\ g # Current
    <3>1. store'[g] = store[g] BY <1>t, <2>1, <2>4
    <3> QED BY <1>n, <2>1, <2>2, <2>4, <3>1 DEF SettledRow
  <2>5. CASE store' = store /\ perr' BY <1>2, <2>1, <2>5
  <2> QED BY <1>7, <2>3, <2>4, <2>5, Zenon DEF Settle
<1>8. CASE BeginAttempt
  <2>1. pc = "wait" /\ UNCHANGED <<store, i>> BY <1>8, BeginFacts
  <2>2. CASE pc' = "phase1" /\ attempts' = Append(attempts, NewRow)
    <3>1. Current \in Features /\ Current' = Current
      BY <1>t, <1>r, <2>1 DEF Working, Current
    <3>2. Succeeded' = Succeeded /\ (Attempted(g) \/ g = Current)
      BY <1>t, <2>2, <3>1, AppendedRow
    <3> QED BY <1>n, <2>1, <2>2, <3>1, <3>2 DEF SettledRow, Working
  <2>3. CASE UNCHANGED attempts /\ perr' BY <1>2, <2>1, <2>3
  <2> QED BY <1>8, <2>2, <2>3, BeginFacts
<1>9. CASE BackoffOver \/ BackoffCancelled
  <2>1. /\ pc = "backoff" /\ pc' \in {"wait", "settle"}
        /\ UNCHANGED <<store, perr, attempts, i>>
    BY <1>9 DEF BackoffOver, BackoffCancelled
  <2> QED BY <1>2, <2>1 DEF Working
<1>10. CASE ResultEndsFeature \/ ResultLimited \/ ResultFails
  <2>1. ReceiveResult /\ pc' \in Working
    BY <1>10 DEF ResultEndsFeature, ResultLimited, ResultFails, Working
  <2>2. UNCHANGED <<store, perr, i>> BY <2>1, ReceiveFacts
  <2>3. Attempted(g)' = Attempted(g) /\ Succeeded' = Succeeded
    BY <2>1, ReceiveKeeps
  <2> QED BY <1>1, <2>1, <2>2, <2>3
<1>11. CASE ProviderCannotStart \/ ProviderExits
  <2>1. UNCHANGED <<store, perr, i, pc>> BY <1>11, AnswerFacts
  <2>2. /\ Attempted(g)' = Attempted(g) /\ pc \in Working
        /\ \/ Succeeded' = Succeeded
           \/ Succeeded' = Succeeded \cup {Current}
    BY <1>11, AnswerKeeps DEF AttemptInv, Working
  <2>3. Current' = Current BY <1>r, <2>1 DEF Current
  <2> QED BY <1>n, <2>1, <2>2, <2>3 DEF SettledRow
<1>12. CASE ProviderStarts
  <2>1. UNCHANGED <<store, perr, attempts, pc, i>> BY <1>12 DEF ProviderStarts
  <2> QED BY <1>2, <2>1
<1>13. CASE \/ TakeControls \/ AttemptCancelled \/ PauseTask \/ ResumeTask
            \/ TerminateTask \/ QuitRun
  BY <1>2, <1>13, InFlightFacts DEF ledger, Working
<1>14. CASE TimeoutFires \/ Environment \/ UNCHANGED vars
  BY <1>2, <1>14, SurroundingFacts DEF ledger
<1> QED
  BY <1>3, <1>4, <1>5, <1>6, <1>7, <1>8, <1>9, <1>10, <1>11, <1>12, <1>13,
     <1>14
     DEF Next, Planner, Provider, Terminated

\* A run that is recorded as completed threw no success away, left no feature
\* half done, and no attempt row open unless a store call had failed.
THEOREM CompletedRunIsSettledHolds == Spec => []CompletedRunIsSettled
<1>1. TypeInv /\ DepInv /\ AttemptInv /\ SettledInv /\ [Next]_vars
        => SettledInv'
  BY ErrorStep, LostStep, RowsStep, RunStep DEF SettledInv
<1>2. TypeInv /\ SettledInv => CompletedRunIsSettled
  <2> SUFFICES ASSUME TypeInv, SettledInv, run = "completed"
               PROVE  /\ \A g \in Succeeded : store[g] = "implemented"
                      /\ \A g \in RowIds : Attempted(g) => store[g] # "in_progress"
                      /\ faults = 0 =>
                             \A k \in 1..Len(attempts) :
                                 attempts[k].row = "closed"
    BY DEF CompletedRunIsSettled
  <2>1. pc = "done" /\ ~perr /\ ~cancelled BY DEF SettledInv, RunInv
  <2>2. task = "idle" BY <2>1, LedgerTypes
  <2>3. \A g \in Features : Attempted(g) => SettledRow(g)
    BY <2>1 DEF SettledInv, NothingLost, Working
  <2>4. Succeeded \subseteq Features /\ RowIds \subseteq Features
    <3>1. \A n \in 1..Len(attempts) : attempts[n] \in AttemptRows
      BY LedgerTypes
    <3> QED BY <3>1, LedgerTypes DEF Succeeded, RowIds, AttemptRows
  <2>5. \A g \in Succeeded : store[g] = "implemented"
    BY <2>3, <2>4, SucceededIsAttempted DEF SettledRow
  <2>6. \A k \in 1..Len(attempts) :
           attempts[k].row \in {"open", "closed"}
    <3> TAKE k \in 1..Len(attempts)
    <3>1. attempts[k] \in AttemptRows BY LedgerTypes
    <3> QED BY <3>1 DEF AttemptRows
  <2>7. faults = 0 => \A k \in 1..Len(attempts) : attempts[k].row = "closed"
    <3> SUFFICES ASSUME faults = 0, NEW k \in 1..Len(attempts),
                        attempts[k].row = "open"
                 PROVE  FALSE
      BY <2>6
    <3>1. k \in LooseRows BY <2>2 DEF LooseRows, OpenRows, LastAttempt
    <3>2. LooseRows = OpenRows BY <2>2 DEF LooseRows, OpenRows
    <3>3. Cardinality(OpenRows) <= 0
      BY <2>1, <3>2 DEF SettledInv, RowsBounded
    <3>4. OpenRows = {} BY <3>3, OpenRowsFinite, FS_EmptySet
    <3> QED BY <3>1, <3>2, <3>4
  <2> QED BY <2>3, <2>4, <2>5, <2>7 DEF SettledRow
<1> QED
  BY <1>1, <1>2, InitType, TypeStep, DepInit, DepStep, AttemptInit,
     AttemptStep, SettledInit, PTL DEF Spec

\* However a run ends, it loses at most the feature it was at, and leaves at
\* most one attempt row open for every store call that failed of itself and
\* one for the signal.
THEOREM LossIsBoundedHolds == Spec => []LossIsBounded
<1>1. TypeInv /\ DepInv /\ AttemptInv /\ SettledInv /\ [Next]_vars
        => SettledInv'
  BY ErrorStep, LostStep, RowsStep, RunStep DEF SettledInv
<1>2. TypeInv /\ SettledInv => LossIsBounded
  <2> SUFFICES ASSUME TypeInv, SettledInv, pc = "done"
               PROVE  /\ \A g \in RowIds :
                            Attempted(g) /\ \/ store[g] = "in_progress"
                                            \/ /\ g \in Succeeded
                                               /\ store[g] # "implemented"
                                => perr /\ g = Current
                      /\ Cardinality(OpenRows)
                           <= faults + (IF cancelled THEN 1 ELSE 0)
    BY DEF LossIsBounded
  <2>1. task = "idle" BY LedgerTypes
  <2>2. RowIds \subseteq Features BY LedgerTypes DEF RowIds
  <2>3. \A g \in Features : Attempted(g) => (perr /\ g = Current) \/ SettledRow(g)
    BY DEF SettledInv, NothingLost, Working
  <2>4. LooseRows = OpenRows BY <2>1 DEF LooseRows, OpenRows
  <2>5. Cardinality(OpenRows) <= faults + (IF cancelled THEN 1 ELSE 0)
    BY <2>1, <2>4 DEF SettledInv, RowsBounded
  <2> QED BY <2>2, <2>3, <2>5 DEF SettledRow
<1> QED
  BY <1>1, <1>2, InitType, TypeStep, DepInit, DepStep, AttemptInit,
     AttemptStep, SettledInit, PTL DEF Spec

-----------------------------------------------------------------------------
(* A feature fails only after all its retries. The counter of runFeature   *)
(* is the number of failures in the table, with the one that the call in   *)
(* flight has just answered still to be counted.                           *)
CountOf(g) == Cardinality(CountedFailures(g))

BoundOK ==
    \A g \in Features :
        /\ CountOf(g) <= MaxRetries + 1
        /\ store[g] = "failed" /\ Attempted(g) => CountOf(g) = MaxRetries + 1
CounterOK ==
    /\ pc \in Working \ {"settle"} => failures <= MaxRetries
    /\ pc \in {"wait", "backoff"} \/ task \in {"spawned", "running"}
           => CountOf(Current) = failures
    /\ ResultReady
           => CountOf(Current) = IF result = "fail" THEN failures + 1 ELSE failures
    /\ pc = "settle" /\ ares = "normal" /\ result # "ok"
           => CountOf(Current) = MaxRetries + 1
CountInv == BoundOK /\ CounterOK

LEMMA CountType ==
    ASSUME attempts \in Seq(AttemptRows), NEW g
    PROVE  IsFiniteSet(CountedFailures(g)) /\ CountOf(g) \in Nat
<1>1. CountedFailures(g) \subseteq 1..Len(attempts)
  BY DEF CountedFailures, AttemptsOf
<1>2. IsFiniteSet(1..Len(attempts)) BY FS_Interval
<1>3. IsFiniteSet(CountedFailures(g)) BY <1>1, <1>2, FS_Subset
<1> QED BY <1>3, FS_CardinalityType DEF CountOf

LEMMA UntriedCount ==
    ASSUME NEW g, ~Attempted(g) PROVE CountOf(g) = 0
<1>1. CountedFailures(g) = {} BY DEF Attempted, CountedFailures
<1> QED BY <1>1, FS_EmptySet DEF CountOf

LEMMA CountInit == Init => CountInv
<1> SUFFICES ASSUME Init PROVE CountInv OBVIOUS
<1>1. \A g : ~Attempted(g) BY DEF Init, Attempted, AttemptsOf
<1>2. BoundOK BY <1>1, UntriedCount, RetriesAssumption DEF BoundOK
<1>3. CounterOK BY DEF Init, CounterOK, Working, ResultReady
<1> QED BY <1>2, <1>3 DEF CountInv

LEMMA CountStep ==
    TypeInv /\ DepInv /\ AttemptInv /\ CountInv /\ [Next]_vars => CountInv'
<1> SUFFICES ASSUME TypeInv, DepInv, AttemptInv, CountInv, [Next]_vars
             PROVE  CountInv'
  OBVIOUS
<1> USE RetriesAssumption DEF input, tables, loop, attempt, process, listener
<1>t. /\ attempts \in Seq(AttemptRows) /\ failures \in Nat
      /\ store \in [Features -> Statuses \cup {"absent"}]
      /\ task # "idle" => pc \in InFlight
      /\ pc \in Working => Current \in Features
  BY LedgerTypes
<1>r. rows' = rows BY TablesStep
<1>i. pc \in Working => store[Current] = "in_progress"
  BY DEF DepInv, CurrentOK
<1>b. \A g \in Features :
        /\ CountOf(g) <= MaxRetries + 1
        /\ store[g] = "failed" /\ Attempted(g) => CountOf(g) = MaxRetries + 1
  BY DEF CountInv, BoundOK
<1>c. CounterOK BY DEF CountInv
\* Steps that do not touch the attempts.
<1>1. ASSUME UNCHANGED <<store, attempts>> PROVE BoundOK'
  <2>1. \A g : CountOf(g)' = CountOf(g) /\ Attempted(g)' = Attempted(g)
    BY <1>1 DEF CountOf, CountedFailures, Attempted, AttemptsOf
  <2> QED BY <1>1, <1>b, <2>1 DEF BoundOK
<1>2. ASSUME UNCHANGED <<store, attempts>>, task' = "idle",
             pc' \in {"pick", "check", "finish", "done"}
      PROVE  CountInv'
  BY <1>1, <1>2 DEF CountInv, CounterOK, Working, ResultReady
<1>3. ASSUME UNCHANGED <<store, attempts, failures, result, task, i>>,
             \/ pc' = pc /\ ares' = ares
             \/ pc \in InFlight /\ pc' \in InFlight
             \/ pc = "backoff" /\ pc' = "wait"
             \/ pc = "backoff" /\ pc' = "settle" /\ ares' = "quit"
      PROVE  CountInv'
  <2>1. Current' = Current BY <1>3, <1>r DEF Current
  <2>2. CountOf(Current)' = CountOf(Current)
    BY <1>3, <2>1 DEF CountOf, CountedFailures, AttemptsOf
  <2>3. CounterOK'
    BY <1>3, <1>c, <2>2 DEF CounterOK, Working, ResultReady
  <2> QED BY <1>1, <1>3, <2>3 DEF CountInv
<1>4. CASE \/ SkipImplemented \/ SkipUnmet \/ NoMoreFeatures \/ ContinueLoop
           \/ LeaveLoop \/ WaitInterrupted \/ FinishRun
  <2>1. /\ UNCHANGED <<store, attempts, task>> /\ pc \notin InFlight
        /\ pc' \in {"pick", "finish", "done"}
    BY <1>4, Zenon
       DEF SkipImplemented, SkipUnmet, NoMoreFeatures, ContinueLoop, LeaveLoop,
           WaitInterrupted, FinishRun
  <2> QED BY <1>2, <1>t, <2>1
<1>5. CASE StartFeature
  <2>1. pc = "pick" /\ i \in 1..Len(rows) /\ UNCHANGED <<attempts, i, task>>
    BY <1>5, LedgerTypes DEF StartFeature
  <2>2. task = "idle" BY <1>t, <2>1
  <2>3. CASE pc' = "finish" /\ store' = store BY <1>2, <2>1, <2>2, <2>3
  <2>4. CASE /\ pc' = "wait" /\ failures' = 0
             /\ store' = [store EXCEPT ![Current] = "in_progress"]
    <3>1. ~Attempted(Current) BY <2>1, PickedIsFresh DEF DepInv, AttemptInv
    <3>2. \A g : CountOf(g)' = CountOf(g) /\ Attempted(g)' = Attempted(g)
      BY <2>1 DEF CountOf, CountedFailures, Attempted, AttemptsOf
    <3>3. CountOf(Current)' = 0
      <4>1. Current' = Current BY <1>r, <2>1 DEF Current
      <4>2. CountOf(Current)' = CountOf(Current)
        BY <2>1, <4>1 DEF CountOf, CountedFailures, AttemptsOf
      <4> QED BY <3>1, <4>2, UntriedCount
    <3>4. BoundOK'
      <4> SUFFICES ASSUME NEW g \in Features
                   PROVE  /\ CountOf(g)' <= MaxRetries + 1
                          /\ store'[g] = "failed" /\ Attempted(g)' =>
                                 CountOf(g)' = MaxRetries + 1
        BY DEF BoundOK
      <4>1. store'[g] = "failed" => store[g] = "failed" BY <1>t, <2>4
      <4> QED BY <1>b, <3>2, <4>1
    <3>5. CounterOK' BY <2>1, <2>2, <2>4, <3>3 DEF CounterOK, ResultReady
    <3> QED BY <3>4, <3>5 DEF CountInv
  <2> QED BY <1>5, <2>3, <2>4, Zenon DEF StartFeature
<1>6. CASE Settle
  <2>1. pc = "settle" /\ UNCHANGED <<attempts, i, task>> BY <1>6 DEF Settle
  <2>2. task = "idle" BY <1>t, <2>1
  <2>3. CASE pc' = "finish" /\ store' = store BY <1>2, <2>1, <2>2, <2>3
  <2>4. CASE pc' = "check" /\ store' = [store EXCEPT ![Current] = StatusAfter]
    <3>1. \A g : CountOf(g)' = CountOf(g) /\ Attempted(g)' = Attempted(g)
      BY <2>1 DEF CountOf, CountedFailures, Attempted, AttemptsOf
    <3>2. StatusAfter = "failed" => CountOf(Current) = MaxRetries + 1
      BY <1>c, <2>1 DEF CounterOK, StatusAfter
    <3>3. BoundOK'
      <4> SUFFICES ASSUME NEW g \in Features
                   PROVE  /\ CountOf(g)' <= MaxRetries + 1
                          /\ store'[g] = "failed" /\ Attempted(g)' =>
                                 CountOf(g)' = MaxRetries + 1
        BY DEF BoundOK
      <4>1. store'[g] = IF g = Current THEN StatusAfter ELSE store[g]
        BY <1>t, <2>4
      <4> QED BY <1>b, <3>1, <3>2, <4>1
    <3>4. CounterOK'
      BY <2>1, <2>2, <2>4 DEF CounterOK, Working, ResultReady
    <3> QED BY <3>3, <3>4 DEF CountInv
  <2> QED BY <1>6, <2>3, <2>4, Zenon DEF Settle
<1>7. CASE BeginAttempt
  <2>1. pc = "wait" /\ UNCHANGED <<store, i, failures>> /\ task = "idle"
    BY <1>t, <1>7, BeginFacts
  <2>2. CASE pc' = "finish" /\ UNCHANGED <<attempts, task>>
    BY <1>2, <2>1, <2>2
  <2>3. CASE /\ pc' = "phase1" /\ task' = "spawned"
             /\ attempts' = Append(attempts, NewRow)
    <3>1. Current \in Features /\ Current' = Current
      BY <1>t, <1>r, <2>1 DEF Working, Current
    <3>2. /\ \A g : CountedFailures(g)' = CountedFailures(g)
          /\ \A g : Attempted(g)' <=> Attempted(g) \/ g = Current
      BY <1>t, <2>3, <3>1, AppendedRow
    <3>3. \A g : CountOf(g)' = CountOf(g) BY <3>2 DEF CountOf
    <3>4. store[Current] = "in_progress" BY <1>i, <2>1 DEF Working
    <3>5. BoundOK' BY <1>b, <2>1, <3>2, <3>3, <3>4 DEF BoundOK
    <3>6. CountOf(Current)' = CountOf(Current)
      BY <3>1, <3>2 DEF CountOf, CountedFailures, AttemptsOf
    <3>7. CounterOK'
      BY <1>c, <2>1, <2>3, <3>6 DEF CounterOK, Working, ResultReady
    <3> QED BY <3>5, <3>7 DEF CountInv
  <2> QED BY <1>7, <2>2, <2>3, BeginFacts
<1>8. CASE BackoffOver
  BY <1>3, <1>8, Zenon DEF BackoffOver
<1>9. CASE BackoffCancelled
  BY <1>3, <1>9, Zenon DEF BackoffCancelled
<1>10. CASE ResultEndsFeature \/ ResultLimited \/ ResultFails
  <2>1. ReceiveResult
    BY <1>10, Zenon DEF ResultEndsFeature, ResultLimited, ResultFails
  <2>2. /\ pc \in InFlight /\ ResultReady /\ task' = "idle"
        /\ UNCHANGED <<store, i, ares, result>>
    BY <2>1, ReceiveFacts
  <2>3. /\ \A g : CountedFailures(g)' = CountedFailures(g)
        /\ \A g : Attempted(g)' = Attempted(g)
    BY <2>1, ReceiveKeeps
  <2>4. Current' = Current BY <1>r, <2>2 DEF Current
  <2>5. CountOf(Current)' = CountOf(Current)
    BY <2>3, <2>4 DEF CountOf, CountedFailures, AttemptsOf
  <2>6. BoundOK' BY <1>b, <2>2, <2>3 DEF BoundOK, CountOf
  <2>7. /\ failures <= MaxRetries
        /\ CountOf(Current) = IF result = "fail" THEN failures + 1 ELSE failures
    BY <1>c, <2>2 DEF CounterOK, Working
  <2>8. CASE ResultEndsFeature
    <3>1. pc' = "settle" /\ (ares # "normal" \/ result = "ok")
      BY <2>8 DEF ResultEndsFeature
    <3>2. CounterOK' BY <2>2, <3>1 DEF CounterOK, ResultReady
    <3> QED BY <2>6, <3>2 DEF CountInv
  <2>9. CASE ResultLimited
    <3>1. pc' = "wait" /\ failures' = failures /\ result = "limited"
      BY <2>9 DEF ResultLimited
    <3>2. CounterOK'
      BY <2>2, <2>5, <2>7, <3>1 DEF CounterOK, ResultReady
    <3> QED BY <2>6, <3>2 DEF CountInv
  <2>10. CASE ResultFails
    <3>1. /\ failures' = failures + 1 /\ result = "fail" /\ ares = "normal"
          /\ pc' = IF failures + 1 > MaxRetries THEN "settle" ELSE "backoff"
      BY <2>10 DEF ResultFails, Exhausted
    <3>2. CASE pc' = "settle"
      <4>1. CountOf(Current)' = MaxRetries + 1
        BY <1>t, <2>5, <2>7, <3>1, <3>2
      <4>2. CounterOK' BY <2>2, <3>2, <4>1 DEF CounterOK, ResultReady
      <4> QED BY <2>6, <4>2 DEF CountInv
    <3>3. CASE pc' = "backoff"
      <4>1. CountOf(Current)' = failures' /\ failures' <= MaxRetries
        BY <1>t, <2>5, <2>7, <3>1, <3>3
      <4>2. CounterOK' BY <2>2, <3>3, <4>1 DEF CounterOK, ResultReady
      <4> QED BY <2>6, <4>2 DEF CountInv
    <3> QED BY <3>1, <3>2, <3>3
  <2> QED BY <1>10, <2>8, <2>9, <2>10
<1>11. CASE ProviderStarts
  <2>1. /\ UNCHANGED <<store, attempts, failures, result, pc, ares, i>>
        /\ task = "spawned" /\ task' = "running"
    BY <1>11 DEF ProviderStarts
  <2>2. Current' = Current BY <1>r, <2>1 DEF Current
  <2>3. CountOf(Current)' = CountOf(Current)
    BY <2>1, <2>2 DEF CountOf, CountedFailures, AttemptsOf
  <2>4. CounterOK' BY <1>c, <2>1, <2>3 DEF CounterOK, ResultReady
  <2> QED BY <1>1, <2>1, <2>4 DEF CountInv
<1>12. CASE ProviderCannotStart \/ ProviderExits
  <2>1. /\ UNCHANGED <<store, i, pc, ares, failures>>
        /\ task \in {"spawned", "running"}
        /\ task' \in {"returned", "unstarted"}
    BY <1>12, AnswerFacts
  <2>2. /\ pc \in InFlight
        /\ \A g : Attempted(g)' = Attempted(g)
        /\ \A g : LastAttempt \notin CountedFailures(g)
        /\ \A g : CountedFailures(g)' =
               IF result' = "fail" /\ g = Current
               THEN CountedFailures(g) \cup {LastAttempt}
               ELSE CountedFailures(g)
    BY <1>12, AnswerKeeps DEF AttemptInv
  <2>3. Current' = Current /\ Current \in Features
    BY <1>r, <1>t, <2>1, <2>2 DEF Current, Working
  <2>4. \A g : CountOf(g)' = IF result' = "fail" /\ g = Current
                             THEN CountOf(g) + 1 ELSE CountOf(g)
    <3> TAKE g
    <3>1. CASE result' = "fail" /\ g = Current
      <4>1. CountedFailures(g)' = CountedFailures(g) \cup {LastAttempt}
        BY <2>2, <3>1
      <4>2. IsFiniteSet(CountedFailures(g)) BY <1>t, CountType
      <4>3. Cardinality(CountedFailures(g) \cup {LastAttempt})
              = Cardinality(CountedFailures(g)) + 1
        BY <2>2, <4>2, FS_AddElement
      <4> QED BY <3>1, <4>1, <4>3 DEF CountOf
    <3>2. CASE ~(result' = "fail" /\ g = Current)
      BY <2>2, <3>2 DEF CountOf
    <3> QED BY <3>1, <3>2
  <2>5. CountOf(Current) = failures /\ failures <= MaxRetries
    BY <1>c, <2>1, <2>2 DEF CounterOK, Working
  <2>6. store[Current] = "in_progress" BY <1>i, <2>2 DEF Working
  <2>7. BoundOK'
    <3> SUFFICES ASSUME NEW g \in Features
                 PROVE  /\ CountOf(g)' <= MaxRetries + 1
                        /\ store'[g] = "failed" /\ Attempted(g)' =>
                               CountOf(g)' = MaxRetries + 1
      BY DEF BoundOK
    <3>1. CASE g = Current BY <1>t, <2>1, <2>4, <2>5, <2>6, <3>1
    <3>2. CASE g # Current BY <1>b, <2>1, <2>2, <2>4, <3>2
    <3> QED BY <3>1, <3>2
  <2>8. CountOf(Current)' = IF result' = "fail" THEN failures + 1 ELSE failures
    <3>1. CountOf(Current)' = Cardinality(CountedFailures(Current)')
      BY DEF CountOf
    <3>2. CountedFailures(Current)' =
            IF result' = "fail"
            THEN CountedFailures(Current) \cup {LastAttempt}
            ELSE CountedFailures(Current)
      BY <2>2, <2>3 DEF CountedFailures, AttemptsOf
    <3>3. IsFiniteSet(CountedFailures(Current)) BY <1>t, CountType
    <3>4. Cardinality(CountedFailures(Current) \cup {LastAttempt})
            = Cardinality(CountedFailures(Current)) + 1
      BY <2>2, <3>3, FS_AddElement
    <3> QED BY <2>5, <3>1, <3>2, <3>4 DEF CountOf
  <2>9. CounterOK' BY <2>1, <2>2, <2>5, <2>8 DEF CounterOK, ResultReady, Working
  <2> QED BY <2>7, <2>9 DEF CountInv
<1>13. CASE \/ TakeControls \/ AttemptCancelled \/ PauseTask \/ ResumeTask
            \/ TerminateTask \/ QuitRun
  BY <1>3, <1>13, InFlightFacts DEF ledger
<1>14. CASE TimeoutFires \/ Environment \/ UNCHANGED vars
  BY <1>3, <1>14, SurroundingFacts DEF ledger
<1> QED
  BY <1>4, <1>5, <1>6, <1>7, <1>8, <1>9, <1>10, <1>11, <1>12, <1>13, <1>14
     DEF Next, Planner, Provider, Terminated

\* A feature never gets more than MaxRetries + 1 failed attempts, and is not
\* marked failed before it had that many: limits and attempts that the user or
\* a signal ended do not count.
THEOREM FailedOnlyAfterRetriesHolds == Spec => []FailedOnlyAfterRetries
<1>1. TypeInv /\ CountInv => FailedOnlyAfterRetries
  <2> SUFFICES ASSUME TypeInv, CountInv PROVE FailedOnlyAfterRetries OBVIOUS
  <2>1. RowIds \subseteq Features BY LedgerTypes DEF RowIds
  <2> QED BY <2>1 DEF CountInv, BoundOK, CountOf, FailedOnlyAfterRetries
<1> QED
  BY <1>1, InitType, TypeStep, DepInit, DepStep, AttemptInit, AttemptStep,
     CountInit, CountStep, PTL DEF Spec

-----------------------------------------------------------------------------
(* The summary. Each of its counters is the size of a set of rows, and a   *)
(* step that raises a counter adds one row to its set.                     *)
Tackled == {g \in RowIds : was[g] # "implemented"}
NewlyDone == {g \in RowIds : store[g] = "implemented" /\ was[g] # "implemented"}
NewlyFailed == {g \in RowIds : store[g] = "failed" /\ Attempted(g)}
Passed(k) == k < i \/ (k = i /\ pc \notin Working \cup {"pick"})
Accounted == {g \in Tackled : \E k \in 1..Len(rows) : Passed(k) /\ g = rows[k]}

Totals ==
    /\ sum.implemented = Cardinality(NewlyDone)
    /\ sum.failed = Cardinality(NewlyFailed)
    /\ sum.implemented + sum.failed + sum.skipped = Cardinality(Accounted)
SumInv ==
    /\ pc \in Working \cup {"check"} => was[Current] # "implemented"
    /\ ~perr => Totals

LEMMA RowIdsFinite ==
    ASSUME rows \in Seq(Features) PROVE IsFiniteSet(RowIds)
<1>1. RowIds \subseteq Features BY DEF RowIds
<1> QED BY <1>1, FeaturesAssumption, FS_Subset

\* One more row in one of the sets.
LEMMA OneMore ==
    ASSUME rows \in Seq(Features), NEW S \in SUBSET RowIds, NEW g, g \notin S
    PROVE  Cardinality(S) \in Nat /\ Cardinality(S \cup {g}) = Cardinality(S) + 1
<1>1. IsFiniteSet(S) BY RowIdsFinite, FS_Subset
<1> QED BY <1>1, FS_AddElement, FS_CardinalityType

LEMMA SumInit == Init => SumInv
<1> SUFFICES ASSUME Init PROVE SumInv OBVIOUS
<1>0. RowIds \subseteq Features BY RowListsAssumption DEF Init, RowIds
<1>1. NewlyDone = {} BY <1>0 DEF Init, NewlyDone
<1>2. NewlyFailed = {} BY DEF Init, NewlyFailed, Attempted, AttemptsOf
<1>3. Accounted = {} BY DEF Init, Accounted, Passed
<1>4. Totals BY <1>1, <1>2, <1>3, FS_EmptySet DEF Init, Totals
<1> QED BY <1>4 DEF Init, SumInv, Working

LEMMA SumStep ==
    TypeInv /\ DepInv /\ AttemptInv /\ SumInv /\ [Next]_vars => SumInv'
<1> SUFFICES ASSUME TypeInv, DepInv, AttemptInv, SumInv, [Next]_vars
             PROVE  SumInv'
  OBVIOUS
<1> USE DEF input, tables, loop, attempt, process, listener
<1>t. /\ rows \in Seq(Features) /\ i \in Nat \ {0}
      /\ was \in [Features -> Statuses]
      /\ attempts \in Seq(AttemptRows)
      /\ store \in [Features -> Statuses \cup {"absent"}]
      /\ sum \in [implemented : Nat, failed : Nat, skipped : Nat]
      /\ pc \in Working \cup {"check"} =>
             i \in 1..Len(rows) /\ Current \in Features
  BY LedgerTypes DEF TypeInv, TypeOK
<1>r. rows' = rows /\ was' = was /\ RowIds' = RowIds /\ Tackled' = Tackled
  BY TablesStep DEF RowIds, Tackled
<1>w. pc \in Working \cup {"check"} => was[Current] # "implemented"
  BY DEF SumInv
<1>p. ~perr => Totals BY DEF SumInv
<1>j. Injective BY DEF DepInv
<1>i. pc \in Working => store[Current] = "in_progress" BY DEF DepInv, CurrentOK
\* Steps that leave every set alone.
<1>1. ASSUME UNCHANGED <<store, sum, perr>>,
             \A g : Attempted(g)' = Attempted(g), Accounted' = Accounted
      PROVE  ~perr' => Totals'
  <2>1. NewlyDone' = NewlyDone /\ NewlyFailed' = NewlyFailed
    BY <1>1, <1>r DEF NewlyDone, NewlyFailed
  <2> QED BY <1>1, <1>p, <2>1 DEF Totals
<1>2. ASSUME UNCHANGED <<store, sum, perr, i>>,
             \A g : Attempted(g)' = Attempted(g),
             \/ pc' = pc
             \/ pc \in Working /\ pc' \in Working
             \/ pc \in {"check", "finish"} /\ pc' \in {"finish", "done"}
      PROVE  SumInv'
  <2>1. Current' = Current BY <1>2, <1>r DEF Current
  <2>2. Accounted' = Accounted
    BY <1>2, <1>r DEF Accounted, Passed, Working
  <2> QED BY <1>1, <1>2, <1>w, <1>r, <2>1, <2>2 DEF SumInv, Working
<1>3. ASSUME UNCHANGED attempts PROVE \A g : Attempted(g)' = Attempted(g)
  BY <1>3 DEF Attempted, AttemptsOf
<1>4. CASE SkipImplemented
  <2>1. /\ pc = "pick" /\ pc' = "pick" /\ i \in 1..Len(rows) /\ i' = i + 1
        /\ UNCHANGED <<store, sum, perr, attempts>>
        /\ was[Current] = "implemented"
    BY <1>4, <1>t DEF SkipImplemented, AlreadyDone
  <2>2. Current \notin Tackled BY <2>1 DEF Tackled
  <2>3. \A k \in 1..Len(rows) : Passed(k)' <=> Passed(k) \/ k = i
    BY <2>1, <1>t DEF Passed
  <2>4. Accounted' = Accounted BY <1>r, <2>2, <2>3 DEF Accounted, Current
  <2> QED BY <1>1, <1>3, <2>1, <2>4 DEF SumInv, Working
<1>5. CASE SkipUnmet
  <2>1. /\ pc = "pick" /\ pc' = "pick" /\ i \in 1..Len(rows) /\ i' = i + 1
        /\ UNCHANGED <<store, perr, attempts>>
        /\ was[Current] # "implemented"
        /\ sum' = [sum EXCEPT !.skipped = @ + 1]
    BY <1>5, <1>t DEF SkipUnmet, AlreadyDone
  <2>2. Current \in Tackled BY <2>1, <1>t DEF Tackled, RowIds, Current
  <2>3. \A k \in 1..Len(rows) : Passed(k)' <=> Passed(k) \/ k = i
    BY <2>1, <1>t DEF Passed
  <2>4. Accounted' = Accounted \cup {Current}
    BY <1>r, <2>1, <2>2, <2>3 DEF Accounted, Current
  <2>5. Current \notin Accounted
    BY <1>j, <2>1, <1>t DEF Accounted, Passed, Injective, Current
  <2>6. Cardinality(Accounted') = Cardinality(Accounted) + 1
    BY <1>t, <2>4, <2>5, OneMore DEF Accounted, Tackled
  <2>7. NewlyDone' = NewlyDone /\ NewlyFailed' = NewlyFailed
    BY <1>3, <1>r, <2>1 DEF NewlyDone, NewlyFailed
  <2>8. ~perr' => Totals'
    BY <1>p, <1>t, <2>1, <2>6, <2>7 DEF Totals
  <2> QED BY <2>1, <2>8 DEF SumInv, Working
<1>6. CASE StartFeature
  <2>0. i \in 1..Len(rows) BY <1>6, <1>t DEF StartFeature
  <2>1. /\ pc = "pick" /\ UNCHANGED <<attempts, sum, i>>
        /\ was[Current] # "implemented"
    BY <1>6, Zenon DEF StartFeature, AlreadyDone
  <2>2. CASE pc' = "finish" /\ perr' BY <2>2 DEF SumInv, Working
  <2>3. CASE /\ pc' = "wait" /\ perr' = perr
             /\ store' = [store EXCEPT ![Current] = "in_progress"]
    <3>1. Current' = Current /\ Current \in Features
      BY <1>r, <1>t, <2>0, <2>1 DEF Current
    <3>2. store[Current] = was[Current]
      BY <2>0, <2>1 DEF DepInv, Untouched, Current
    <3>3. ~Attempted(Current)
      BY <2>0, <2>1, PickedIsFresh DEF DepInv, AttemptInv
    <3>4. \A g \in RowIds : store'[g] = IF g = Current THEN "in_progress"
                                        ELSE store[g]
      BY <1>t, <2>3 DEF RowIds
    <3>5. NewlyDone' = NewlyDone /\ NewlyFailed' = NewlyFailed
      BY <1>3, <1>r, <2>1, <3>2, <3>3, <3>4 DEF NewlyDone, NewlyFailed
    <3>6. Accounted' = Accounted
      BY <1>r, <2>1, <2>3 DEF Accounted, Passed, Working
    <3>7. ~perr' => Totals' BY <1>p, <2>1, <2>3, <3>5, <3>6 DEF Totals
    <3> QED BY <1>r, <2>1, <3>1, <3>7 DEF SumInv
  <2> QED BY <1>6, <2>2, <2>3, Zenon DEF StartFeature
<1>7. CASE Settle
  <2>1. /\ pc = "settle" /\ UNCHANGED <<attempts, i>>
        /\ sum' = [sum EXCEPT ![CountedAs] = @ + 1]
    BY <1>7 DEF Settle
  <2>2. CASE pc' = "finish" /\ perr' BY <2>2 DEF SumInv, Working
  <2>3. CASE /\ pc' = "check" /\ perr' = perr
             /\ store' = [store EXCEPT ![Current] = StatusAfter]
    <3>1. /\ Current' = Current /\ Current \in RowIds /\ Current \in Features
          /\ was[Current] # "implemented" /\ i \in 1..Len(rows)
      BY <1>r, <1>t, <1>w, <2>1 DEF Current, RowIds, Working
    <3>2. Attempted(Current) BY <2>1 DEF AttemptInv, ResultInv
    <3>3. store[Current] = "in_progress" BY <1>i, <2>1 DEF Working
    <3>4. \A g \in RowIds : store'[g] = IF g = Current THEN StatusAfter
                                        ELSE store[g]
      BY <1>t, <2>3 DEF RowIds
    <3>5. \A k \in 1..Len(rows) : Passed(k)' <=> Passed(k) \/ k = i
      BY <2>1, <2>3, <1>t DEF Passed, Working
    <3>6. Accounted' = Accounted \cup {Current} /\ Current \notin Accounted
      <4>1. Current \in Tackled BY <3>1 DEF Tackled
      <4>2. Accounted' = Accounted \cup {Current}
        BY <1>r, <3>1, <3>5, <4>1 DEF Accounted, Current
      <4>3. Current \notin Accounted
        BY <1>j, <2>1, <3>1 DEF Accounted, Passed, Injective, Current, Working
      <4> QED BY <4>2, <4>3
    <3>7. Cardinality(Accounted') = Cardinality(Accounted) + 1
      BY <1>t, <3>6, OneMore DEF Accounted, Tackled
    <3>8. Current \notin NewlyDone /\ Current \notin NewlyFailed
      BY <3>3 DEF NewlyDone, NewlyFailed
    <3>9. NewlyDone' = IF StatusAfter = "implemented"
                       THEN NewlyDone \cup {Current} ELSE NewlyDone
      BY <1>r, <3>1, <3>3, <3>4 DEF NewlyDone
    <3>10. NewlyFailed' = IF StatusAfter = "failed"
                          THEN NewlyFailed \cup {Current} ELSE NewlyFailed
      BY <1>3, <1>r, <2>1, <3>1, <3>2, <3>3, <3>4 DEF NewlyFailed
    <3>11. /\ Cardinality(NewlyDone \cup {Current}) = Cardinality(NewlyDone) + 1
           /\ Cardinality(NewlyFailed \cup {Current})
                = Cardinality(NewlyFailed) + 1
      BY <1>t, <3>8, OneMore DEF NewlyDone, NewlyFailed
    <3>12. ~perr' => Totals'
      <4> SUFFICES ASSUME Totals PROVE Totals' BY <1>p, <2>3
      <4>1. CASE StatusAfter = "implemented"
        <5>1. CountedAs = "implemented" BY <4>1 DEF CountedAs
        <5> QED BY <1>t, <2>1, <3>7, <3>9, <3>10, <3>11, <4>1, <5>1 DEF Totals
      <4>2. CASE StatusAfter = "failed"
        <5>1. CountedAs = "failed" BY <4>2 DEF CountedAs
        <5> QED BY <1>t, <2>1, <3>7, <3>9, <3>10, <3>11, <4>2, <5>1 DEF Totals
      <4>3. CASE StatusAfter = "pending"
        <5>1. CountedAs = "skipped" BY <4>3 DEF CountedAs
        <5> QED BY <1>t, <2>1, <3>7, <3>9, <3>10, <3>11, <4>3, <5>1 DEF Totals
      <4> QED BY <4>1, <4>2, <4>3 DEF StatusAfter
    <3> QED BY <1>r, <3>1, <3>12 DEF SumInv
  <2> QED BY <1>7, <2>2, <2>3, Zenon DEF Settle
<1>8. CASE NoMoreFeatures
  <2>1. /\ pc = "pick" /\ pc' = "finish" /\ i > Len(rows)
        /\ UNCHANGED <<store, sum, perr, attempts, i>>
    BY <1>8, Zenon DEF NoMoreFeatures
  <2>2. Accounted' = Accounted
    BY <1>r, <1>t, <2>1 DEF Accounted, Passed, Working
  <2> QED BY <1>1, <1>3, <2>1, <2>2 DEF SumInv, Working
<1>9. CASE ContinueLoop
  <2>1. /\ pc = "check" /\ pc' = "pick" /\ i' = i + 1
        /\ UNCHANGED <<store, sum, perr, attempts>>
    BY <1>9 DEF ContinueLoop
  <2>2. \A k \in 1..Len(rows) : Passed(k)' <=> Passed(k)
    BY <1>t, <2>1 DEF Passed, Working
  <2>3. Accounted' = Accounted BY <1>r, <2>2 DEF Accounted
  <2> QED BY <1>1, <1>3, <2>1, <2>3 DEF SumInv, Working
<1>10. CASE LeaveLoop \/ FinishRun
  <2>1. /\ UNCHANGED <<store, sum, perr, attempts, i>>
        /\ pc \in {"check", "finish"} /\ pc' \in {"finish", "done"}
    BY <1>10, Zenon DEF LeaveLoop, FinishRun
  <2> QED BY <1>2, <1>3, <2>1
<1>11. CASE WaitInterrupted
  BY <1>11 DEF WaitInterrupted, SumInv, Working
<1>12. CASE BeginAttempt
  <2>1. pc = "wait" /\ UNCHANGED <<store, sum, i>> BY <1>12, BeginFacts
  <2>2. CASE pc' = "finish" /\ perr' BY <2>2 DEF SumInv, Working
  <2>3. CASE /\ pc' = "phase1" /\ perr' = perr
             /\ attempts' = Append(attempts, NewRow)
    <3>1. Current' = Current /\ Current \in Features
      BY <1>r, <1>t, <2>1 DEF Current, Working
    <3>2. \A g : Attempted(g)' <=> Attempted(g) \/ g = Current
      BY <1>t, <2>3, <3>1, AppendedRow
    <3>3. store[Current] = "in_progress" BY <1>i, <2>1 DEF Working
    <3>4. NewlyDone' = NewlyDone /\ NewlyFailed' = NewlyFailed
      BY <1>r, <2>1, <3>2, <3>3 DEF NewlyDone, NewlyFailed
    <3>5. Accounted' = Accounted
      BY <1>r, <2>1, <2>3 DEF Accounted, Passed, Working
    <3>6. ~perr' => Totals' BY <1>p, <2>1, <2>3, <3>4, <3>5 DEF Totals
    <3> QED BY <1>r, <1>w, <2>1, <3>1, <3>6 DEF SumInv, Working
  <2> QED BY <1>12, <2>2, <2>3, BeginFacts
<1>13. CASE BackoffOver \/ BackoffCancelled
  <2>1. /\ UNCHANGED <<store, sum, perr, attempts, i>>
        /\ pc \in Working /\ pc' \in Working
    BY <1>13 DEF BackoffOver, BackoffCancelled, Working
  <2> QED BY <1>2, <1>3, <2>1
<1>14. CASE ResultEndsFeature \/ ResultLimited \/ ResultFails
  <2>1. ReceiveResult /\ pc' \in Working
    BY <1>14 DEF ResultEndsFeature, ResultLimited, ResultFails, Working
  <2>2. UNCHANGED <<store, sum, perr, i>> /\ pc \in Working
    BY <2>1, ReceiveFacts DEF Working
  <2>3. \A g : Attempted(g)' = Attempted(g) BY <2>1, ReceiveKeeps
  <2> QED BY <1>2, <2>1, <2>2, <2>3
<1>15. CASE ProviderCannotStart \/ ProviderExits
  <2>1. UNCHANGED <<store, sum, perr, i, pc>> BY <1>15, AnswerFacts
  <2>2. \A g : Attempted(g)' = Attempted(g)
    BY <1>15, AnswerKeeps DEF AttemptInv
  <2> QED BY <1>2, <2>1, <2>2
<1>16. CASE ProviderStarts
  <2>1. UNCHANGED <<store, sum, perr, i, pc, attempts>>
    BY <1>16 DEF ProviderStarts
  <2> QED BY <1>2, <1>3, <2>1
<1>17. CASE \/ TakeControls \/ AttemptCancelled \/ PauseTask \/ ResumeTask
            \/ TerminateTask \/ QuitRun
  BY <1>2, <1>3, <1>17, InFlightFacts DEF ledger, Working
<1>18. CASE TimeoutFires \/ Environment \/ UNCHANGED vars
  BY <1>2, <1>3, <1>18, SurroundingFacts DEF ledger
<1> QED
  BY <1>4, <1>5, <1>6, <1>7, <1>8, <1>9, <1>10, <1>11, <1>12, <1>13, <1>14,
     <1>15, <1>16, <1>17, <1>18
     DEF Next, Planner, Provider, Terminated

\* The summary that is printed when Process returns without an error agrees
\* with the table, and accounts for every row when the loop ran to its end.
THEOREM SummaryMatchesTableHolds == Spec => []SummaryMatchesTable
<1>1. TypeInv /\ SumInv => SummaryMatchesTable
  <2> SUFFICES ASSUME TypeInv, SumInv, pc \in {"finish", "done"}, ~perr
               PROVE  /\ sum.implemented =
                           Cardinality({g \in RowIds :
                                           /\ store[g] = "implemented"
                                           /\ was[g] # "implemented"})
                      /\ sum.failed =
                           Cardinality({g \in RowIds :
                                           store[g] = "failed" /\ Attempted(g)})
                      /\ i > Len(rows) =>
                           sum.implemented + sum.failed + sum.skipped =
                           Cardinality({g \in RowIds : was[g] # "implemented"})
    BY DEF SummaryMatchesTable
  <2>1. Totals BY DEF SumInv
  <2>2. ASSUME i > Len(rows) PROVE Accounted = Tackled
    BY <2>2, LedgerTypes DEF Accounted, Tackled, Passed, RowIds
  <2> QED BY <2>1, <2>2 DEF Totals, NewlyDone, NewlyFailed, Tackled
<1> QED
  BY <1>1, InitType, TypeStep, DepInit, DepStep, AttemptInit, AttemptStep,
     SumInit, SumStep, PTL DEF Spec

-----------------------------------------------------------------------------
(* Quitting. A quit that was consumed and not taken back is the result of  *)
(* the present attempt until Process leaves the loop, and the loop is left *)
(* early for a quit or a signal only.                                      *)
QuitInv ==
    /\ quitTaken => /\ ares = "quit"
                    /\ pc \in {"phase2", "drain", "settle", "check",
                               "finish", "done"}
    /\ ares = "quit" => quitTaken \/ cancelled
    /\ pc \in {"finish", "done"} /\ ~perr =>
           i > Len(rows) \/ quitTaken \/ cancelled

LEMMA QuitInit == Init => QuitInv
BY DEF Init, QuitInv

LEMMA QuitStep == TypeInv /\ QuitInv /\ [Next]_vars => QuitInv'
<1> SUFFICES ASSUME TypeInv, QuitInv, [Next]_vars PROVE QuitInv'
  OBVIOUS
<1> USE DEF QuitInv, input, tables, loop, attempt, process, listener
<1>r. rows' = rows BY TablesStep
<1>b. quitTaken \in BOOLEAN /\ quitTaken' \in BOOLEAN
  BY TypeStep DEF TypeInv, TypeOK, FlagsOK
<1>1. CASE SkipImplemented \/ SkipUnmet
  <2>1. pc = "pick" /\ pc' = "pick" /\ UNCHANGED <<quitTaken, ares, cancelled>>
    BY <1>1, Zenon DEF SkipImplemented, SkipUnmet
  <2> QED BY <1>r, <2>1
<1>2. CASE StartFeature
  <2>1. /\ pc = "pick" /\ UNCHANGED <<quitTaken, cancelled>>
        /\ \/ pc' = "wait" /\ ares' = "normal"
           \/ pc' = "finish" /\ perr' = TRUE /\ ares' = ares
    BY <1>2, Zenon DEF StartFeature
  <2> QED BY <1>r, <2>1
<1>3. CASE NoMoreFeatures
  <2>1. /\ pc = "pick" /\ pc' = "finish" /\ i > Len(rows)
        /\ UNCHANGED <<quitTaken, cancelled, ares, i>>
    BY <1>3, Zenon DEF NoMoreFeatures
  <2> QED BY <1>r, <2>1
<1>4. CASE Settle
  <2>1. /\ pc = "settle" /\ UNCHANGED <<quitTaken, cancelled, ares>>
        /\ pc' = "check" \/ (pc' = "finish" /\ perr' = TRUE)
    BY <1>4, Zenon DEF Settle
  <2> QED BY <1>r, <2>1
<1>5. CASE ContinueLoop
  <2>1. /\ pc' = "pick" /\ ares # "quit" /\ ~cancelled
        /\ UNCHANGED <<quitTaken, cancelled, ares>>
    BY <1>5 DEF ContinueLoop, StopsLoop
  <2> QED BY <1>r, <2>1
<1>6. CASE LeaveLoop
  <2>1. /\ pc = "check" /\ pc' = "finish" /\ (ares = "quit" \/ cancelled)
        /\ UNCHANGED <<quitTaken, cancelled, ares>>
    BY <1>6 DEF LeaveLoop, StopsLoop
  <2> QED BY <1>r, <2>1
<1>7. CASE BeginAttempt
  <2>1. /\ pc = "wait" /\ UNCHANGED <<quitTaken, cancelled>>
        /\ \/ pc' = "phase1" /\ ares' = "normal"
           \/ pc' = "finish" /\ perr' = TRUE /\ ares' = ares
    BY <1>7, Zenon DEF BeginAttempt
  <2> QED BY <1>r, <2>1
<1>8. CASE WaitInterrupted
  <2>1. /\ pc = "wait" /\ pc' = "finish" /\ perr' = TRUE
        /\ UNCHANGED <<quitTaken, cancelled, ares>>
    BY <1>8, Zenon DEF WaitInterrupted
  <2> QED BY <1>r, <2>1
<1>9. CASE BackoffOver
  <2>1. /\ pc = "backoff" /\ pc' = "wait"
        /\ UNCHANGED <<quitTaken, cancelled, ares>>
    BY <1>9, Zenon DEF BackoffOver
  <2> QED BY <1>r, <2>1
<1>10. CASE BackoffCancelled
  <2>1. /\ pc = "backoff" /\ pc' = "settle" /\ ares' = "quit" /\ cancelled
        /\ UNCHANGED <<quitTaken, cancelled>>
    BY <1>10, Zenon DEF BackoffCancelled
  <2> QED BY <1>r, <2>1
<1>11. CASE ResultEndsFeature \/ ResultLimited \/ ResultFails
  <2>1. /\ ReceiveResult /\ pc' \in {"settle", "wait", "backoff"}
        /\ pc' = "settle" \/ ares = "normal"
    BY <1>11 DEF ResultEndsFeature, ResultLimited, ResultFails
  <2>2. UNCHANGED <<quitTaken, cancelled, ares>> BY <2>1, ReceiveFacts
  <2> QED BY <1>r, <2>1, <2>2
<1>12. CASE TakeControls
  <2>1. /\ pc = "phase1" /\ pc' = "phase2"
        /\ UNCHANGED <<quitTaken, cancelled, ares>>
    BY <1>12, Zenon DEF TakeControls
  <2> QED BY <1>r, <2>1
<1>13. CASE AttemptCancelled
  <2>1. /\ pc' = "drain" /\ ares' = "quit" /\ cancelled
        /\ UNCHANGED <<quitTaken, cancelled>>
    BY <1>13, Zenon DEF AttemptCancelled
  <2> QED BY <1>r, <2>1
<1>14. CASE PauseTask \/ ResumeTask
  <2>1. /\ pc = "phase2" /\ UNCHANGED <<pc, cancelled, ares>>
        /\ quitTaken' = quitTaken
    BY <1>b, <1>14 DEF PauseTask, ResumeTask, ConsumeKey
  <2> QED BY <1>r, <2>1
<1>15. CASE TerminateTask
  <2>1. /\ pc = "phase2" /\ UNCHANGED pc /\ ares' = "terminated" /\ ~quitTaken'
    BY <1>15 DEF TerminateTask, StopTask, ConsumeKey
  <2> QED BY <1>r, <2>1
<1>16. CASE QuitRun
  <2>1. /\ pc = "phase2" /\ UNCHANGED pc /\ ares' = "quit" /\ quitTaken'
    BY <1>16 DEF QuitRun, StopTask, ConsumeKey
  <2> QED BY <1>r, <2>1
<1>17. CASE FinishRun
  <2>1. /\ pc = "finish" /\ pc' = "done"
        /\ UNCHANGED <<quitTaken, cancelled, ares, perr, i>>
    BY <1>17, Zenon DEF FinishRun
  <2> QED BY <1>r, <2>1
<1>18. CASE ProviderStarts \/ ProviderCannotStart \/ ProviderExits
  <2>1. UNCHANGED <<quitTaken, cancelled, ares, perr, i, pc>>
    <3>1. CASE ProviderStarts BY <3>1, Zenon DEF ProviderStarts
    <3>2. CASE ProviderCannotStart \/ ProviderExits BY <3>2, AnswerFacts
    <3> QED BY <1>18, <3>1, <3>2
  <2> QED BY <1>r, <2>1
<1>19. CASE TimeoutFires \/ Environment \/ UNCHANGED vars
  <2>1. /\ UNCHANGED <<quitTaken, ares, perr, i, pc>>
        /\ cancelled => cancelled'
    BY <1>19, SurroundingFacts DEF ledger
  <2> QED BY <1>r, <2>1
<1> QED
  BY <1>1, <1>2, <1>3, <1>4, <1>5, <1>6, <1>7, <1>8, <1>9, <1>10, <1>11,
     <1>12, <1>13, <1>14, <1>15, <1>16, <1>17, <1>18, <1>19
     DEF Next, Planner, Provider, Terminated

\* Once a quit was consumed, and no T took it back, no provider call is made:
\* not by the retry loop and not for the next feature, however the attempt in
\* flight ends.
THEOREM NothingStartsAfterQuitHolds == Spec => NothingStartsAfterQuit
<1>1. TypeInv /\ AttemptInv /\ QuitInv /\ [Next]_vars
        => [quitTaken => ~AttemptStarts]_vars
  <2> SUFFICES ASSUME TypeInv, AttemptInv, QuitInv, [Next]_vars, quitTaken
               PROVE  ~AttemptStarts
    OBVIOUS
  <2>1. Len(attempts) \in Nat BY LedgerTypes
  <2>2. CASE attempts' = attempts BY <2>1, <2>2 DEF AttemptStarts
  <2>3. ~BeginAttempt BY DEF QuitInv, BeginAttempt
  <2>4. CASE ReceiveResult BY <2>1, <2>4, ReceiveKeeps DEF AttemptStarts
  <2>5. CASE ProviderCannotStart \/ ProviderExits
    BY <2>1, <2>5, AnswerKeeps DEF AttemptInv, AttemptStarts
  <2> QED BY <2>2, <2>3, <2>4, <2>5, AttemptsStep
<1> QED
  BY <1>1, InitType, TypeStep, DepInit, DepStep, AttemptInit, AttemptStep,
     QuitInit, QuitStep, PTL DEF Spec, NothingStartsAfterQuit

-----------------------------------------------------------------------------
(* What a run leaves untried. The done map holds every row that is         *)
(* implemented; so a row is skipped only when one of its dependencies is   *)
(* not, and in a list in dependency order that dependency was dealt with   *)
(* before, and is not written again.                                       *)
InOrder(r) == \A j, k \in 1..Len(r) : r[j] \in DependsOn[r[k]] => j < k

Outside == \A g \in Features \ RowIds : store[g] = "absent"
DoneIsComplete ==
    ~perr => \A g \in RowIds : store[g] = "implemented" => g \in done
Blocked(k) ==
    \E d \in DependsOn[rows[k]] :
        /\ store[d] # "implemented"
        /\ d \notin RowIds \/ \E j \in 1..Len(rows) : j < k /\ rows[j] = d
UntriedOK ==
    ~perr => \A k \in 1..Len(rows) :
        k < i /\ ~Attempted(rows[k]) /\ was[rows[k]] # "implemented" => Blocked(k)
BlockedInv == InOrder(rows) /\ Outside /\ DoneIsComplete /\ UntriedOK

LEMMA BlockedInit ==
    ASSUME \A r \in RowLists : InOrder(r), Init PROVE BlockedInv
<1>1. InOrder(rows) BY DEF Init
<1>2. RowIds \subseteq Features BY RowListsAssumption DEF Init, RowIds
<1>3. Outside BY DEF Init, Outside
<1>4. DoneIsComplete
  BY <1>2 DEF Init, DoneIsComplete, ImplementedSet, RowIds
<1>5. UntriedOK BY DEF Init, UntriedOK
<1> QED BY <1>1, <1>3, <1>4, <1>5 DEF BlockedInv

\* An error of Process stays, and only three steps move the loop index.
LEMMA LoopStep ==
    ASSUME TypeInv, [Next]_vars
    PROVE  /\ perr => perr'
           /\ i' = i \/ SkipImplemented \/ SkipUnmet \/ ContinueLoop
           /\ done' = done \/ Settle
<1> USE DEF input, tables, loop, attempt, process, listener
<1> DEFINE Same == perr' = perr /\ i' = i /\ done' = done
<1>s. perr \in BOOLEAN /\ (Same => (perr => perr'))
  BY DEF TypeInv, TypeOK, FlagsOK
<1>1. CASE SkipImplemented \/ SkipUnmet \/ ContinueLoop
  <2>1. perr' = perr /\ done' = done
    BY <1>1, Zenon DEF SkipImplemented, SkipUnmet, ContinueLoop
  <2> QED BY <1>1, <2>1
<1>2. CASE Settle
  <2>1. i' = i /\ (perr' = perr \/ perr' = TRUE) BY <1>2, Zenon DEF Settle
  <2> QED BY <1>2, <2>1
<1>3. CASE StartFeature \/ BeginAttempt \/ WaitInterrupted
  <2>1. i' = i /\ done' = done /\ (perr' = perr \/ perr' = TRUE)
    BY <1>3, Zenon DEF StartFeature, BeginAttempt, WaitInterrupted
  <2> QED BY <2>1
<1>4. CASE \/ NoMoreFeatures \/ LeaveLoop \/ BackoffOver \/ BackoffCancelled
           \/ FinishRun \/ ProviderStarts
  BY <1>s, <1>4, Zenon
     DEF NoMoreFeatures, LeaveLoop, BackoffOver, BackoffCancelled, FinishRun,
         ProviderStarts
<1>5. CASE ResultEndsFeature \/ ResultLimited \/ ResultFails
  BY <1>s, <1>5, ReceiveFacts DEF ResultEndsFeature, ResultLimited, ResultFails
<1>6. CASE ProviderCannotStart \/ ProviderExits BY <1>s, <1>6, AnswerFacts
<1>7. CASE \/ TakeControls \/ AttemptCancelled \/ PauseTask \/ ResumeTask
           \/ TerminateTask \/ QuitRun
  BY <1>s, <1>7, InFlightFacts DEF ledger
<1>8. CASE TimeoutFires \/ Environment \/ UNCHANGED vars
  BY <1>s, <1>8, SurroundingFacts DEF ledger
<1> QED
  BY <1>1, <1>2, <1>3, <1>4, <1>5, <1>6, <1>7, <1>8
     DEF Next, Planner, Provider, Terminated

LEMMA TriedStays ==
    ASSUME TypeInv, AttemptInv, [Next]_vars, NEW g, Attempted(g)
    PROVE  Attempted(g)'
<1>1. CASE attempts' = attempts BY <1>1 DEF Attempted, AttemptsOf
<1>2. CASE BeginAttempt /\ attempts' = Append(attempts, NewRow)
  <2>1. Current \in Features /\ attempts \in Seq(AttemptRows)
    BY <1>2, LedgerTypes DEF BeginAttempt, Working
  <2> QED BY <1>2, <2>1, AppendedRow
<1>3. CASE ReceiveResult BY <1>3, ReceiveKeeps
<1>4. CASE ProviderCannotStart \/ ProviderExits
  BY <1>4, AnswerKeeps DEF AttemptInv
<1> QED BY <1>1, <1>2, <1>3, <1>4, AttemptsStep

\* Only the row of the current feature is written.
LEMMA OthersStay ==
    ASSUME TypeInv, [Next]_vars, NEW g \in Features, store'[g] # store[g]
    PROVE  i \in 1..Len(rows) /\ g = Current
<1>1. store \in [Features -> Statuses \cup {"absent"}] BY LedgerTypes
<1>2. CASE StartFeature /\ store' = [store EXCEPT ![Current] = "in_progress"]
  BY <1>1, <1>2, LedgerTypes DEF StartFeature
<1>3. CASE Settle /\ store' = [store EXCEPT ![Current] = StatusAfter]
  BY <1>1, <1>3, LedgerTypes DEF Settle, Working
<1> QED BY <1>2, <1>3, StoreStep

LEMMA BlockedStays ==
    ASSUME TypeInv, DepInv, [Next]_vars, NEW k \in 1..Len(rows), k <= i,
           Blocked(k)
    PROVE  Blocked(k)'
<1>1. PICK d \in DependsOn[rows[k]] :
         /\ store[d] # "implemented"
         /\ d \notin RowIds \/ \E j \in 1..Len(rows) : j < k /\ rows[j] = d
  BY DEF Blocked
<1>2. d \in Features
  <2>1. rows[k] \in Features BY LedgerTypes
  <2> QED BY <2>1, DependsOnAssumption
<1>3. store'[d] = store[d]
  <2>1. SUFFICES ASSUME i \in 1..Len(rows), d = Current PROVE FALSE
    BY <1>2, OthersStay
  <2>2. Current \in RowIds BY <2>1 DEF Current, RowIds
  <2>3. PICK j \in 1..Len(rows) : j < k /\ rows[j] = rows[i]
    BY <1>1, <2>1, <2>2 DEF Current
  <2>4. j = i BY <2>1, <2>3 DEF DepInv, Injective
  <2> QED BY <2>1, <2>3, <2>4
<1>4. rows' = rows /\ RowIds' = RowIds BY TablesStep DEF RowIds
<1> QED BY <1>1, <1>3, <1>4 DEF Blocked

\* A row that is skipped for its dependencies is blocked.
LEMMA SkippedIsBlocked ==
    ASSUME TypeInv, BlockedInv, ~perr, SkipUnmet
    PROVE  i \in 1..Len(rows) /\ Blocked(i)
<1>1. i \in 1..Len(rows) /\ ~DepsSatisfied(Current)
  BY LedgerTypes DEF SkipUnmet
<1>2. PICK d \in DependsOn[Current] : d \notin done BY <1>1 DEF DepsSatisfied
<1>3. CASE d \notin RowIds
  <2>1. d \in Features
    <3>1. Current \in Features BY <1>1, LedgerTypes DEF Current
    <3> QED BY <3>1, DependsOnAssumption
  <2>2. store[d] # "implemented" BY <1>3, <2>1 DEF BlockedInv, Outside
  <2> QED BY <1>1, <1>3, <2>2 DEF Blocked, Current
<1>4. CASE d \in RowIds
  <2>1. PICK j \in 1..Len(rows) : rows[j] = d BY <1>4 DEF RowIds
  <2>2. j < i BY <1>1, <2>1 DEF BlockedInv, InOrder, Current
  <2>3. store[d] # "implemented"
    BY <1>2, <1>4 DEF BlockedInv, DoneIsComplete
  <2> QED BY <1>1, <2>1, <2>2, <2>3 DEF Blocked, Current
<1> QED BY <1>3, <1>4

\* A row is written as the done map has it.
LEMMA RecordedStep ==
    ASSUME TypeInv, Outside, DoneIsComplete, [Next]_vars
    PROVE  Outside' /\ DoneIsComplete'
<1>t. /\ rows \in Seq(Features)
      /\ store \in [Features -> Statuses \cup {"absent"}]
  BY LedgerTypes
<1>r. rows' = rows /\ RowIds' = RowIds BY TablesStep DEF RowIds
<1>p. ~perr' => ~perr BY LoopStep
<1>1. Outside'
  <2>1. i \in 1..Len(rows) => Current \in RowIds BY DEF Current, RowIds
  <2> QED BY <1>r, <2>1, OthersStay DEF Outside
<1>2. DoneIsComplete'
  <2> SUFFICES ASSUME ~perr', NEW g \in RowIds, store'[g] = "implemented"
               PROVE  g \in done'
    BY <1>r DEF DoneIsComplete
  <2>1. g \in Features BY <1>t DEF RowIds
  <2>2. done \subseteq done' BY LoopStep DEF Settle, DoneAfter
  <2>3. CASE store'[g] = store[g] BY <1>p, <2>2, <2>3 DEF DoneIsComplete
  <2>4. CASE store'[g] # store[g]
    <3>1. g = Current BY <2>1, <2>4, OthersStay
    <3>2. CASE StartFeature /\ store' = [store EXCEPT ![Current] = "in_progress"]
      BY <1>t, <2>1, <3>1, <3>2
    <3>3. CASE Settle /\ store' = [store EXCEPT ![Current] = StatusAfter]
      <4>1. StatusAfter = "implemented" BY <1>t, <2>1, <3>1, <3>3
      <4> QED BY <3>1, <3>3, <4>1 DEF StatusAfter, Settle, DoneAfter
    <3> QED BY <2>4, <3>2, <3>3, StoreStep
  <2> QED BY <2>3, <2>4
<1> QED BY <1>1, <1>2

LEMMA BlockedStep ==
    TypeInv /\ DepInv /\ AttemptInv /\ BlockedInv /\ [Next]_vars => BlockedInv'
<1> SUFFICES ASSUME TypeInv, DepInv, AttemptInv, BlockedInv, [Next]_vars
             PROVE  BlockedInv'
  OBVIOUS
<1>t. rows \in Seq(Features) /\ i \in Nat \ {0} BY LedgerTypes
<1>r. rows' = rows /\ was' = was BY TablesStep
<1>p. ~perr' => ~perr BY LoopStep
<1>1. InOrder(rows)' BY <1>r DEF BlockedInv, InOrder
<1>2. Outside' /\ DoneIsComplete' BY RecordedStep DEF BlockedInv
<1>3. UntriedOK'
  <2> SUFFICES ASSUME ~perr', NEW k \in 1..Len(rows), k < i',
                      ~Attempted(rows[k])', was[rows[k]] # "implemented"
               PROVE  Blocked(k)'
    BY <1>r DEF UntriedOK
  <2>1. ~Attempted(rows[k])
    <3> PICK g : g = rows[k] OBVIOUS
    <3>1. ~Attempted(g)' BY <1>r DEF Attempted, AttemptsOf
    <3> QED BY <3>1, TriedStays
  <2>2. CASE k < i
    <3>1. Blocked(k) BY <1>p, <2>1, <2>2 DEF BlockedInv, UntriedOK
    <3> QED BY <1>t, <2>2, <3>1, BlockedStays
  <2>3. CASE k >= i
    <3>1. i' = i + 1 /\ k = i
      BY <1>t, <2>3, LoopStep DEF SkipImplemented, SkipUnmet, ContinueLoop
    <3>2. ~SkipImplemented
      BY <3>1 DEF SkipImplemented, AlreadyDone, Current
    <3>3. ~ContinueLoop
      <4>1. pc # "check" BY <2>1, <3>1 DEF AttemptInv, ResultInv, Current
      <4> QED BY <4>1 DEF ContinueLoop
    <3>4. Blocked(k)
      BY <1>t, <1>p, <3>1, <3>2, <3>3, LoopStep, SkippedIsBlocked
    <3> QED BY <1>t, <3>1, <3>4, BlockedStays
  <2> QED BY <1>t, <2>2, <2>3
<1> QED BY <1>1, <1>2, <1>3 DEF BlockedInv

\* With every list in dependency order, a completed run that was not quit
\* leaves a feature untried only when one of its dependencies is not
\* implemented at the end.
THEOREM UntriedOnlyIfBlockedHolds ==
    ASSUME \A r \in RowLists : InOrder(r)
    PROVE  Spec => []UntriedOnlyIfBlocked
<1>1. Init => BlockedInv BY BlockedInit
<1>2. TypeInv /\ SettledInv /\ QuitInv /\ BlockedInv => UntriedOnlyIfBlocked
  <2> SUFFICES ASSUME TypeInv, SettledInv, QuitInv, BlockedInv,
                      run = "completed", ~quitTaken,
                      NEW g \in RowIds, ~Attempted(g), was[g] # "implemented"
               PROVE  \E d \in DependsOn[g] : store[d] # "implemented"
    BY DEF UntriedOnlyIfBlocked
  <2>1. pc = "done" /\ ~perr /\ ~cancelled BY DEF SettledInv, RunInv
  <2>2. i > Len(rows) BY <2>1 DEF QuitInv
  <2>3. PICK k \in 1..Len(rows) : g = rows[k] BY DEF RowIds
  <2>4. Blocked(k)
    BY <2>1, <2>2, <2>3, LedgerTypes DEF BlockedInv, UntriedOK
  <2> QED BY <2>3, <2>4 DEF Blocked
<1>3. TypeInv /\ DepInv /\ AttemptInv /\ SettledInv /\ [Next]_vars
        => SettledInv'
  BY ErrorStep, LostStep, RowsStep, RunStep DEF SettledInv
<1> QED
  BY <1>1, <1>2, <1>3, InitType, TypeStep, DepInit, DepStep, AttemptInit,
     AttemptStep, SettledInit, QuitInit, QuitStep, BlockedStep, PTL DEF Spec

-----------------------------------------------------------------------------
(* Invocations one after another (Sessions), for any number of them: what a*)
(* run finds of the runs before it. The theorems are about runs over the   *)
(* whole list (WholeRuns) whose rows were all inserted (InsertingSpec), and*)
(* that were then killed, signalled or failed by the store anywhere.       *)
(* Without these two the statements are false, as the code forgets what the*)
(* newest run has no row for. While an invocation is in the engine, its variables satisfy the    *)
(* engine's own invariants, which StartProcess establishes.                *)


\* Every run is over the whole list.
WholeRuns == \A o \in Options : o.feature = NoSelection /\ o.max = 0

SpecIds == {SpecRows[k] : k \in 1..Len(SpecRows)}

-----------------------------------------------------------------------------
(* The invariant, phase by phase.                                          *)

\* A row that is in_progress has all its dependencies implemented, in rows of
\* the same table.
Grounded(s) ==
    \A g \in Features : s[g] = "in_progress" =>
        \A d \in DependsOn[g] : d \in SpecIds /\ s[d] = "implemented"

\* What was implemented in any run is implemented in this table.
Remembered(s) == \A g \in everDone : g \in SpecIds /\ s[g] = "implemented"

OnlySpec == \A g \in Features \ SpecIds : store[g] = "absent"

TableInv == OnlySpec /\ Grounded(store) /\ Remembered(store)

\* Before the first row is worked on: the first rows of the list are inserted,
\* each as it was.
Inserting ==
    /\ rows = SpecRows /\ attempts = <<>> /\ i = 1 /\ run = "running"
    /\ ~perr /\ ~quitTaken /\ ares = "normal" /\ result = "none"
    /\ upserted \in 0..Len(rows)
    /\ \A k \in 1..Len(rows) :
           store[rows[k]] = IF k <= upserted THEN was[rows[k]] ELSE "absent"
    /\ OnlySpec /\ Grounded(was) /\ Remembered(was)
    /\ phase = "planned" => upserted = Len(rows) /\ ~opts.dry

\* The rows behind the loop, and a row that was written, are not in_progress.
Visited ==
    ~perr => \A k \in 1..Len(rows) :
        k < i \/ (k = i /\ pc = "check") => store[rows[k]] # "in_progress"

EngineInv ==
    /\ DepInv /\ AttemptInv /\ SettledInv /\ QuitInv
    /\ Outside /\ DoneIsComplete

Processing == rows = SpecRows /\ EngineInv /\ Visited /\ TableInv

SessionsInv ==
    /\ TypeInv
    /\ phase \in Phases
    /\ phase # "engine" => pc = "done" /\ task = "idle"
    /\ phase = "off" => TableInv /\ CompletedRunLeavesNothingInProgress
    /\ phase \in {"upserting", "planned"} => Inserting
    /\ phase = "engine" => Processing

-----------------------------------------------------------------------------
(* The first state and the launch.                                         *)

\* A run over the whole list is given every row of the spec.
LEMMA WholeSelection ==
    ASSUME NEW status, NEW o, o.feature = NoSelection, o.max = 0
    PROVE  SelectFeatures(status, o) = SpecRows
BY Zenon DEF SelectFeatures

\* The spec lists features, each once.
LEMMA SpecFacts ==
    /\ SpecRows \in Seq(Features)
    /\ \A j, k \in 1..Len(SpecRows) : SpecRows[j] = SpecRows[k] => j = k
    /\ SpecIds \subseteq Features
<1>1. SpecRows \in Seq(Features) BY SpecRowsAssumption
<1>2. \A j, k \in 1..Len(SpecRows) : SpecRows[j] = SpecRows[k] => j = k
  BY <1>1, SpecRowsAssumption DEF IsInjective
<1> QED BY <1>1, <1>2 DEF SpecIds

\* A database that no run has written to satisfies the invariant.
LEMMA SessionsStart == SessionsInit => SessionsInv
<1> SUFFICES ASSUME SessionsInit PROVE SessionsInv OBVIOUS
<1>1. TypeInv
  <2>1. /\ rows \in Seq(Features) /\ attempts \in Seq(AttemptRows)
        /\ keys \in Seq(EventKinds)
    BY DEF SessionsInit
  <2>2. /\ was \in [Features -> Statuses] /\ done \subseteq Features
        /\ store \in [Features -> Statuses \cup {"absent"}]
    BY DEF SessionsInit, Statuses, NoRows
  <2>3. sum \in [implemented : Nat, failed : Nat, skipped : Nat]
    BY DEF SessionsInit
  <2>4. ControlOK BY DEF SessionsInit, ControlOK, Positions, Tasks, Outcomes
  <2>5. FlagsOK BY TimeoutAssumption DEF SessionsInit, FlagsOK
  <2>6. IndexOK BY DEF SessionsInit, IndexOK, Working
  <2> QED BY <2>1, <2>2, <2>3, <2>4, <2>5, <2>6 DEF TypeInv, TypeOK
<1>2. TableInv
  BY SpecFacts
     DEF SessionsInit, NoRows, TableInv, OnlySpec, Grounded, Remembered
<1>3. CompletedRunLeavesNothingInProgress
  BY DEF SessionsInit, NoRows, CompletedRunLeavesNothingInProgress
<1> QED BY <1>1, <1>2, <1>3 DEF SessionsInit, SessionsInv, Phases

\* A new invocation takes over what the last table says.
LEMMA LaunchStep ==
    ASSUME WholeRuns, SessionsInv, Launch, Remember PROVE SessionsInv'
<1>1. /\ phase = "off" /\ phase' = "upserting" /\ pc = "done" /\ pc' = "done"
      /\ task' = "idle" /\ upserted' = 0 /\ TypeInv /\ TableInv
      /\ store' = NoRows /\ attempts' = <<>> /\ i' = 1 /\ run' = "running"
      /\ perr' = FALSE /\ quitTaken' = FALSE /\ ares' = "normal"
      /\ result' = "none" /\ cancelled' = FALSE
  BY DEF Launch, SessionsInv
<1>2. rows' = SpecRows
  <2>1. rows' = SelectFeatures(was', opts') /\ opts' \in Options BY DEF Launch
  <2> QED BY <2>1, WholeSelection DEF WholeRuns
<1>t. store \in [Features -> Statuses \cup {"absent"}]
  BY <1>1, LedgerTypes
<1>3. was' = [g \in Features |-> Reconcile(g)] /\ was' \in [Features -> Statuses]
  <2>1. was' = [g \in Features |-> Reconcile(g)] BY DEF Launch
  <2>2. \A g \in Features : Reconcile(g) \in Statuses
    BY <1>t DEF Reconcile, Statuses
  <2> QED BY <2>1, <2>2
<1>4. TypeInv'
  <2>1. /\ rows' \in Seq(Features) /\ attempts' \in Seq(AttemptRows)
        /\ keys' \in Seq(EventKinds) /\ done' \subseteq Features
    BY <1>1, <1>2, SpecFacts DEF Launch
  <2>2. store' \in [Features -> Statuses \cup {"absent"}]
    BY <1>1 DEF NoRows
  <2>3. sum' \in [implemented : Nat, failed : Nat, skipped : Nat]
    BY DEF Launch
  <2>4. ControlOK'
    BY <1>1 DEF Launch, TypeInv, TypeOK, ControlOK, Positions, Tasks, Outcomes
  <2>5. FlagsOK' BY <1>1 DEF Launch, TypeInv, TypeOK, FlagsOK
  <2>6. IndexOK' BY <1>1 DEF IndexOK, Working
  <2> QED BY <1>3, <2>1, <2>2, <2>3, <2>4, <2>5, <2>6 DEF TypeInv, TypeOK
<1>5. OnlySpec' BY <1>1 DEF OnlySpec, NoRows
<1>6. Grounded(was')
  <2> SUFFICES ASSUME NEW g \in Features, was'[g] = "in_progress",
                      NEW d \in DependsOn[g]
               PROVE  d \in SpecIds /\ was'[d] = "implemented"
    BY DEF Grounded
  <2>1. store[g] = "in_progress" BY <1>3 DEF Reconcile
  <2>2. d \in SpecIds /\ store[d] = "implemented"
    BY <1>1, <2>1 DEF TableInv, Grounded
  <2> QED BY <1>3, <2>2, SpecFacts DEF Reconcile
<1>7. Remembered(was)'
  <2> SUFFICES ASSUME NEW g \in everDone' PROVE g \in SpecIds /\ was'[g] = "implemented"
    BY DEF Remembered
  <2>1. g \in everDone BY <1>1 DEF Remember, NoRows
  <2>2. g \in SpecIds /\ store[g] = "implemented"
    BY <1>1, <2>1 DEF TableInv, Remembered
  <2> QED BY <1>3, <2>2, SpecFacts DEF Reconcile
<1>8. Inserting'
  <2>1. \A k \in 1..Len(rows') : store'[rows'[k]] = "absent" /\ ~(k <= upserted')
    BY <1>1, <1>2, SpecFacts DEF NoRows
  <2>2. upserted' \in 0..Len(rows') BY <1>1, <1>2, SpecFacts
  <2>3. Grounded(was)' BY <1>6 DEF Grounded
  <2> QED BY <1>1, <1>2, <1>5, <1>7, <2>1, <2>2, <2>3 DEF Inserting
<1> QED BY <1>1, <1>4, <1>8 DEF SessionsInv, Phases

-----------------------------------------------------------------------------
(* Inserting the rows, and the steps that end an invocation.               *)

\* When every row is inserted, the new table says what the old one said.
LEMMA AllInserted ==
    ASSUME TypeInv, Inserting, upserted = Len(rows)
    PROVE  /\ TableInv
           /\ \A k \in 1..Len(rows) : store[rows[k]] = was[rows[k]]
<1>1. rows = SpecRows /\ \A k \in 1..Len(rows) : store[rows[k]] = was[rows[k]]
  BY LedgerTypes DEF Inserting
<1>2. \A g \in SpecIds : store[g] = was[g] BY <1>1 DEF SpecIds
<1>3. OnlySpec BY DEF Inserting
<1>4. Grounded(store)
  <2> SUFFICES ASSUME NEW g \in Features, store[g] = "in_progress",
                      NEW d \in DependsOn[g]
               PROVE  d \in SpecIds /\ store[d] = "implemented"
    BY DEF Grounded
  <2>1. was[g] = "in_progress" BY <1>2, <1>3 DEF OnlySpec
  <2> QED BY <1>2, <2>1 DEF Inserting, Grounded
<1>5. Remembered(store) BY <1>2 DEF Inserting, Remembered
<1> QED BY <1>1, <1>3, <1>4, <1>5 DEF TableInv

\* A step that writes no row keeps what the table says of earlier runs.
LEMMA StillRemembered ==
    ASSUME TableInv, UNCHANGED store, Remember PROVE TableInv'
<1>1. OnlySpec' BY DEF TableInv, OnlySpec
<1>2. Grounded(store)' BY DEF TableInv, Grounded
<1>3. \A g \in Features : store[g] = "implemented" => g \in SpecIds
  BY DEF TableInv, OnlySpec
<1>4. Remembered(store)' BY <1>3 DEF TableInv, Remembered, Remember
<1> QED BY <1>1, <1>2, <1>4 DEF TableInv

\* A row that is inserted is as it was.
LEMMA UpsertStep ==
    ASSUME SessionsInv, UpsertRow, RowsInserted, Remember PROVE SessionsInv'
<1>1. /\ phase = "upserting" /\ upserted < Len(rows) /\ TypeInv /\ Inserting
      /\ UNCHANGED <<input, attempts, run, pc, memory, cooling, cancelled, opts>>
  BY DEF UpsertRow, SessionsInv
<1>t. /\ rows = SpecRows /\ rows \in Seq(Features) /\ upserted \in 0..Len(rows)
      /\ store \in [Features -> Statuses \cup {"absent"}]
      /\ was \in [Features -> Statuses] /\ faults \in Nat
  BY <1>1, LedgerTypes DEF Inserting, TypeInv, TypeOK
<1> DEFINE n == upserted + 1
<1>n. n \in 1..Len(rows) /\ rows[n] \in Features BY <1>1, <1>t
<1>2. /\ store' = [store EXCEPT ![rows[n]] = was[rows[n]]]
      /\ upserted' = n /\ phase' = "upserting" /\ faults' = faults
  <2>1. phase' # "off" BY <1>1, <1>t DEF RowsInserted
  <2> QED BY <1>1, <2>1 DEF UpsertRow, StoreCall
<1>u. /\ UNCHANGED <<rows, was, timed, attempts, run, pc, i, done, perr, sum>>
      /\ UNCHANGED <<failures, ares, result, task, paused, acancel, keys,
                     presses, quitTaken, cooling, cancelled, opts>>
  BY <1>1 DEF input, memory, attempt, process, listener
<1>3. TypeInv'
  <2>1. store' \in [Features -> Statuses \cup {"absent"}] BY <1>2, <1>t
  <2>2. ControlOK' /\ FlagsOK' /\ IndexOK'
    BY <1>1, <1>2, <1>u
       DEF TypeInv, TypeOK, ControlOK, FlagsOK, IndexOK, Working, LastAttempt
  <2> QED BY <1>1, <1>u, <2>1, <2>2 DEF TypeInv, TypeOK
<1>4. \A k \in 1..Len(rows) :
          store'[rows[k]] = IF k <= n THEN was[rows[k]] ELSE "absent"
  <2> SUFFICES ASSUME NEW k \in 1..Len(rows)
               PROVE  store'[rows[k]] = IF k <= n THEN was[rows[k]] ELSE "absent"
    OBVIOUS
  <2>1. CASE k = n BY <1>t, <1>n, <1>2, <2>1
  <2>2. CASE k # n
    <3>1. rows[k] # rows[n] BY <1>t, <1>n, <2>2, SpecFacts
    <3>2. store'[rows[k]] = store[rows[k]] BY <1>t, <1>2, <3>1
    <3>3. store[rows[k]] = IF k <= upserted THEN was[rows[k]] ELSE "absent"
      BY <1>1 DEF Inserting
    <3> QED BY <1>t, <2>2, <3>2, <3>3
  <2> QED BY <2>1, <2>2
<1>5. OnlySpec'
  <2>1. rows[n] \in SpecIds BY <1>t, <1>n DEF SpecIds
  <2> QED BY <1>1, <1>2, <1>t, <2>1 DEF Inserting, OnlySpec
<1>6. Grounded(was)' BY <1>1, <1>u DEF Inserting, Grounded
<1>7. Remembered(was)'
  <2> SUFFICES ASSUME NEW g \in everDone'
               PROVE  g \in SpecIds /\ was[g] = "implemented"
    BY <1>u DEF Remembered
  <2>1. CASE g \in everDone BY <1>1, <2>1 DEF Inserting, Remembered
  <2>2. CASE g \in Features /\ store'[g] = "implemented"
    <3>1. g \in SpecIds BY <1>5, <2>2 DEF OnlySpec
    <3>2. PICK k \in 1..Len(rows) : g = rows[k] BY <1>t, <3>1 DEF SpecIds
    <3> QED BY <1>4, <2>2, <3>1, <3>2
  <2> QED BY <2>1, <2>2 DEF Remember
<1>8. Inserting'
  BY <1>1, <1>2, <1>n, <1>u, <1>4, <1>5, <1>6, <1>7 DEF Inserting
<1> QED BY <1>1, <1>2, <1>u, <1>3, <1>8 DEF SessionsInv, Phases

\* An invocation that ends leaves its table behind.
LEMMA EndsWell ==
    ASSUME TypeInv', TableInv, UNCHANGED store, Remember, phase' = "off",
           pc' = "done", task' = "idle", CompletedRunLeavesNothingInProgress'
    PROVE  SessionsInv'
<1>1. TableInv' BY StillRemembered
<1> QED BY <1>1 DEF SessionsInv, Phases

\* A run over the whole list that completed came to every row.
LEMMA CompletedIsClean ==
    ASSUME TypeInv, Processing, run = "completed", ~quitTaken
    PROVE  \A g \in Features : store[g] # "in_progress"
<1>1. pc = "done" /\ ~perr /\ ~cancelled
  BY DEF Processing, EngineInv, SettledInv, RunInv
<1>2. i > Len(rows) BY <1>1 DEF Processing, EngineInv, QuitInv
<1>3. \A k \in 1..Len(rows) : store[rows[k]] # "in_progress"
  BY <1>1, <1>2, LedgerTypes DEF Processing, Visited
<1> QED BY <1>3 DEF Processing, TableInv, OnlySpec, SpecIds

\* While rows are inserted, a step that writes none forgets nothing.
LEMMA InsertingRemembered ==
    ASSUME Inserting, Remember, UNCHANGED <<rows, was, store>>, TypeInv
    PROVE  Grounded(was)' /\ Remembered(was)'
<1>1. Grounded(was)' BY DEF Inserting, Grounded
<1>2. /\ OnlySpec
      /\ \A k \in 1..Len(rows) : store[rows[k]] \in {was[rows[k]], "absent"}
  BY DEF Inserting
<1>3. ASSUME NEW g \in everDone' PROVE g \in SpecIds /\ was[g] = "implemented"
  <2>1. CASE g \in everDone BY <2>1 DEF Inserting, Remembered
  <2>2. CASE g \in Features /\ store[g] = "implemented"
    <3>1. g \in SpecIds BY <1>2, <2>2 DEF OnlySpec
    <3>2. PICK k \in 1..Len(rows) : g = rows[k]
      BY <3>1 DEF Inserting, SpecIds
    <3> QED BY <1>2, <2>2, <3>1, <3>2
  <2> QED BY <1>3, <2>1, <2>2 DEF Remember
<1>4. Remembered(was)' BY <1>3 DEF Remembered
<1> QED BY <1>1, <1>4

\* A dry run ends with its table complete; any other goes on.
LEMMA PlanStep ==
    ASSUME SessionsInv, PlanReady, Remember PROVE SessionsInv'
<1>1. /\ phase = "upserting" /\ upserted = Len(rows) /\ TypeInv /\ Inserting
      /\ pc = "done" /\ task = "idle"
      /\ UNCHANGED <<input, store, attempts, pc, memory, cooling, cancelled,
                     faults, opts, upserted>>
  BY DEF PlanReady, SessionsInv
<1>u. /\ UNCHANGED <<rows, was, timed, store, attempts, pc, i, done, perr, sum>>
      /\ UNCHANGED <<failures, ares, result, task, paused, acancel, keys,
                     presses, quitTaken, cooling, cancelled, faults, opts, upserted>>
  BY <1>1 DEF input, memory, attempt, process, listener
<1>2. \/ opts.dry /\ phase' = "off" /\ run' = "completed"
      \/ ~opts.dry /\ phase' = "planned" /\ run' = run
  BY DEF PlanReady
<1>3. TypeInv'
  BY <1>1, <1>2, <1>u
     DEF TypeInv, TypeOK, ControlOK, FlagsOK, IndexOK, Working, LastAttempt
<1>4. TableInv BY <1>1, AllInserted
<1>5. CASE phase' = "off"
  <2>1. CompletedRunLeavesNothingInProgress'
    BY <1>2, <1>5, <1>u DEF CompletedRunLeavesNothingInProgress
  <2> QED BY <1>1, <1>3, <1>4, <1>5, <1>u, <2>1, EndsWell
<1>6. CASE phase' = "planned"
  <2>1. Grounded(was)' /\ Remembered(was)'
    BY <1>1, <1>u, InsertingRemembered
  <2>2. Inserting'
    BY <1>1, <1>2, <1>6, <1>u, <2>1 DEF Inserting, OnlySpec
  <2> QED BY <1>1, <1>3, <1>6, <1>u, <2>2 DEF SessionsInv, Phases
<1> QED BY <1>2, <1>5, <1>6

\* The steps that leave the engine's variables alone.
LEMMA RestStep ==
    ASSUME SessionsInv, Remember,
           Declined \/ Exit \/ EditSpec \/ NoMoreLaunches
    PROVE  SessionsInv'
<1>1. /\ UNCHANGED vars /\ UNCHANGED opts /\ phase' = "off"
      /\ phase \in {"off", "planned", "engine"}
      /\ TypeInv /\ (phase # "engine" => pc = "done" /\ task = "idle")
  BY Zenon DEF Declined, Exit, EditSpec, NoMoreLaunches, sessionVars, SessionsInv
<1>u. /\ UNCHANGED <<rows, store, run, pc, task, quitTaken>>
  BY <1>1 DEF vars, input, tables, process, listener
<1>2. TypeInv' BY <1>1, TypeStep
<1>3. pc = "done" /\ task = "idle"
  <2>1. CASE phase = "engine"
    <3>1. pc = "done" BY <1>1, <2>1 DEF Declined, Exit, EditSpec, NoMoreLaunches
    <3> QED BY <1>1, <3>1 DEF TypeInv, IndexOK
  <2> QED BY <1>1, <2>1
<1>4. TableInv /\ CompletedRunLeavesNothingInProgress'
  <2>1. CASE phase = "off"
    BY <1>1, <1>u, <2>1 DEF SessionsInv, CompletedRunLeavesNothingInProgress
  <2>2. CASE phase = "planned"
    <3>1. Inserting /\ upserted = Len(rows) /\ run = "running"
      BY <2>2 DEF SessionsInv, Inserting
    <3> QED
      BY <1>1, <1>u, <3>1, AllInserted DEF CompletedRunLeavesNothingInProgress
  <2>3. CASE phase = "engine"
    <3>1. Processing BY <2>3 DEF SessionsInv
    <3> QED
      BY <1>1, <1>u, <3>1, CompletedIsClean
         DEF Processing, CompletedRunLeavesNothingInProgress
  <2> QED BY <1>1, <2>1, <2>2, <2>3
<1> QED BY <1>1, <1>2, <1>3, <1>4, <1>u, EndsWell

\* A killed process leaves the table as it was.
LEMMA CrashStep ==
    ASSUME SessionsInv, Crash, RowsInserted, Remember PROVE SessionsInv'
<1>1. /\ phase \in {"upserting", "planned", "engine"} /\ phase' = "off"
      /\ pc' = "done" /\ task' = "idle" /\ TypeInv
      /\ UNCHANGED <<input, tables, loop, attempt, paused, acancel, cooling,
                     cancelled, listener, faults, opts>>
  BY SessionsAssumption DEF Crash, SessionsInv, Phases
<1>u. /\ UNCHANGED <<rows, was, timed, store, attempts, run, i, done, perr, sum>>
      /\ UNCHANGED <<failures, ares, result, paused, acancel, keys,
                     presses, quitTaken, cooling, cancelled, faults, opts>>
  BY <1>1 DEF input, tables, loop, attempt, listener
<1>2. TypeInv'
  BY <1>1, <1>u
     DEF TypeInv, TypeOK, ControlOK, FlagsOK, IndexOK, Working, Positions, Tasks
<1>3. TableInv /\ CompletedRunLeavesNothingInProgress'
  <2>1. CASE phase \in {"upserting", "planned"}
    <3>1. Inserting /\ upserted = Len(rows) /\ run = "running"
      BY <1>1, <2>1 DEF SessionsInv, Inserting, RowsInserted
    <3> QED
      BY <1>1, <1>u, <3>1, AllInserted DEF CompletedRunLeavesNothingInProgress
  <2>2. CASE phase = "engine"
    <3>1. Processing BY <2>2 DEF SessionsInv
    <3> QED
      BY <1>1, <1>u, <3>1, CompletedIsClean
         DEF Processing, CompletedRunLeavesNothingInProgress
  <2> QED BY <1>1, <2>1, <2>2
<1> QED BY <1>1, <1>2, <1>3, <1>u, EndsWell

\* A signal before the engine starts changes no table.
LEMMA EarlySignalStep ==
    ASSUME SessionsInv, EarlySignal, Remember PROVE SessionsInv'
<1>1. /\ phase \in {"upserting", "planned"} /\ cancelled' = TRUE /\ TypeInv /\ Inserting
      /\ pc = "done" /\ task = "idle"
      /\ UNCHANGED <<input, tables, pc, memory, cooling, faults, sessionVars>>
  BY SessionsAssumption DEF EarlySignal, SessionsInv, Phases
<1>u. /\ UNCHANGED <<rows, was, timed, store, attempts, run, pc, i, done, perr>>
      /\ UNCHANGED <<sum, failures, ares, result, task, paused, acancel, keys,
                     presses, quitTaken, cooling, faults, phase, opts, upserted>>
  BY <1>1 DEF input, tables, memory, attempt, process, listener, sessionVars
<1>2. TypeInv'
  BY <1>1, <1>u
     DEF TypeInv, TypeOK, ControlOK, FlagsOK, IndexOK, Working, LastAttempt
<1>3. Grounded(was)' /\ Remembered(was)'
  BY <1>1, <1>u, InsertingRemembered
<1>4. Inserting' BY <1>1, <1>u, <1>3 DEF Inserting, OnlySpec
<1> QED BY <1>1, <1>2, <1>4, <1>u DEF SessionsInv, Phases

-----------------------------------------------------------------------------
(* The engine within an invocation.                                        *)

\* The engine starts in a state its invariants allow, as from its own Init.
LEMMA StartStep ==
    ASSUME SessionsInv, StartProcess, Remember PROVE SessionsInv'
<1>1. /\ phase = "planned" /\ phase' = "engine" /\ pc' = "pick"
      /\ task = "idle" /\ TypeInv /\ Inserting /\ upserted = Len(rows)
      /\ done' = ImplementedSet(rows, was)
      /\ UNCHANGED <<input, tables, i, perr, sum, attempt, process, cooling,
                     cancelled, listener, faults>>
  BY DEF StartProcess, SessionsInv, Inserting
<1>u. /\ UNCHANGED <<rows, was, timed, store, attempts, run, i, perr, sum>>
      /\ UNCHANGED <<failures, ares, result, task, paused, acancel, keys,
                     presses, quitTaken, cooling, cancelled, faults>>
  BY <1>1 DEF input, tables, attempt, process, listener
<1>t. rows \in Seq(Features) /\ was \in [Features -> Statuses]
  BY <1>1, LedgerTypes DEF TypeInv, TypeOK
<1>2. TableInv /\ \A k \in 1..Len(rows) : store[rows[k]] = was[rows[k]]
  BY <1>1, AllInserted
<1>3. rows = SpecRows /\ attempts = <<>> /\ i = 1 /\ run = "running"
      /\ ~perr /\ ~quitTaken /\ ares = "normal" /\ result = "none"
  BY <1>1 DEF Inserting
<1>4. TypeInv'
  <2>1. done' \subseteq Features BY <1>1, <1>t DEF ImplementedSet
  <2> QED
    BY <1>1, <1>u, <2>1
       DEF TypeInv, TypeOK, ControlOK, FlagsOK, IndexOK, Working, Positions,
           LastAttempt
<1>5. DepInv'
  <2>1. Untouched' BY <1>2, <1>u DEF Untouched
  <2>2. CurrentOK' BY <1>1 DEF CurrentOK, Working
  <2>3. DoneOK' BY <1>1, <1>2, <1>u, <1>t DEF DoneOK, ImplementedSet
  <2>4. Injective' BY <1>3, <1>u, SpecFacts DEF Injective
  <2>5. DependenciesFirst' BY <1>3, <1>u DEF DependenciesFirst
  <2> QED BY <2>1, <2>2, <2>3, <2>4, <2>5 DEF DepInv
<1>6. AttemptInv'
  BY <1>1, <1>3, <1>u
     DEF AttemptInv, OfReached, CallInv, ResultInv, Working, ResultReady
<1>7. SettledInv'
  <2>1. NothingLost' BY <1>3, <1>u DEF NothingLost, Attempted, AttemptsOf
  <2>2. RowsBounded BY <1>1, <1>3, NoAttempts
  <2>3. RowsBounded'
    BY <1>u, <2>2 DEF RowsBounded, LooseRows, OpenRows, LastAttempt
  <2> QED BY <1>3, <1>u, <2>1, <2>3 DEF SettledInv, ErrorEnds, RunInv
<1>8. QuitInv' BY <1>1, <1>3, <1>u DEF QuitInv
<1>9. Outside' /\ DoneIsComplete'
  <2>1. RowIds' = SpecIds /\ RowIds = SpecIds
    BY <1>3, <1>u DEF RowIds, SpecIds
  <2>2. Outside' BY <1>2, <1>u, <2>1 DEF TableInv, OnlySpec, Outside
  <2>3. DoneIsComplete'
    BY <1>1, <1>2, <1>t, <1>u, <2>1 DEF DoneIsComplete, ImplementedSet, RowIds
  <2> QED BY <2>2, <2>3
<1>10. Visited' BY <1>1, <1>3, <1>t, <1>u DEF Visited
<1>11. TableInv' BY <1>2, <1>u, StillRemembered
<1>12. Processing'
  BY <1>3, <1>u, <1>5, <1>6, <1>7, <1>8, <1>9, <1>10, <1>11
     DEF Processing, EngineInv
<1> QED BY <1>1, <1>4, <1>12 DEF SessionsInv, Phases

\* The engine's invariants, which its own proofs show to be inductive.
LEMMA EngineInvStep ==
    ASSUME TypeInv, EngineInv, [Next]_vars PROVE EngineInv'
BY DepStep, AttemptStep, ErrorStep, LostStep, RowsStep, RunStep, QuitStep, RecordedStep
   DEF EngineInv, SettledInv

\* A row becomes in_progress only when its dependencies are implemented.
LEMMA GroundedStep ==
    ASSUME TypeInv, Processing, [Next]_vars PROVE Grounded(store)'
<1> SUFFICES ASSUME NEW g \in Features, store'[g] = "in_progress",
                    NEW d \in DependsOn[g]
             PROVE  d \in SpecIds /\ store'[d] = "implemented"
  BY DEF Grounded
<1>t. /\ store \in [Features -> Statuses \cup {"absent"}]
      /\ d \in Features
  BY LedgerTypes, DependsOnAssumption
<1>i. DepInv /\ OnlySpec /\ Grounded(store)
  BY DEF Processing, EngineInv, TableInv
<1> SUFFICES store[d] = "implemented"
  BY <1>i, <1>t, ImplementedStays DEF OnlySpec
<1>1. CASE store[g] = "in_progress" BY <1>i, <1>1 DEF Grounded
<1>2. CASE StartFeature /\ store' = [store EXCEPT ![Current] = "in_progress"]
  <2>1. CASE g = Current
    <3>1. pc = "pick" /\ DependsOn[g] \subseteq done
      BY <1>2, <2>1 DEF StartFeature, DepsSatisfied
    <3> QED BY <1>i, <3>1 DEF DepInv, DoneOK
  <2>2. CASE g # Current BY <1>1, <1>2, <1>t, <2>2
  <2> QED BY <2>1, <2>2
<1>3. CASE Settle /\ store' = [store EXCEPT ![Current] = StatusAfter]
  BY <1>1, <1>3, <1>t DEF StatusAfter
<1> QED BY <1>1, <1>2, <1>3, StoreStep

\* Process comes to the loop condition by writing the row.
LEMMA CheckStep ==
    ASSUME TypeInv, [Next]_vars, pc' = "check"
    PROVE  \/ pc = "check" /\ i' = i
           \/ Settle /\ store' = [store EXCEPT ![Current] = StatusAfter]
<1> USE DEF input, tables, loop, attempt, process, listener
<1>1. CASE Settle BY <1>1 DEF Settle
<1>2. CASE \/ SkipImplemented \/ SkipUnmet \/ ContinueLoop
  BY <1>2, Zenon DEF SkipImplemented, SkipUnmet, ContinueLoop
<1>3. CASE StartFeature \/ BeginAttempt \/ WaitInterrupted
  BY <1>3, Zenon DEF StartFeature, BeginAttempt, WaitInterrupted
<1>4. CASE \/ NoMoreFeatures \/ LeaveLoop \/ BackoffOver \/ BackoffCancelled
           \/ FinishRun
  BY <1>4, Zenon
     DEF NoMoreFeatures, LeaveLoop, BackoffOver, BackoffCancelled, FinishRun
<1>5. CASE ResultEndsFeature \/ ResultLimited \/ ResultFails
  BY <1>5, Zenon DEF ResultEndsFeature, ResultLimited, ResultFails
<1>6. CASE ProviderCannotStart \/ ProviderExits BY <1>6, AnswerFacts
<1>7. CASE \/ TakeControls \/ AttemptCancelled \/ PauseTask \/ ResumeTask
           \/ TerminateTask \/ QuitRun
  BY <1>7, InFlightFacts
<1>8. CASE TimeoutFires \/ Environment \/ UNCHANGED vars
  BY <1>8, SurroundingFacts DEF ledger
<1>9. CASE ProviderStarts BY <1>9, Zenon DEF ProviderStarts
<1> QED
  BY <1>1, <1>2, <1>3, <1>4, <1>5, <1>6, <1>7, <1>8, <1>9
     DEF Next, Planner, Provider, Terminated

\* The loop leaves no row behind that is in_progress: such a row has its
\* dependencies implemented, so it is not skipped.
LEMMA VisitedStep ==
    ASSUME TypeInv, Processing, [Next]_vars PROVE Visited'
<1>t. /\ store \in [Features -> Statuses \cup {"absent"}]
      /\ rows \in Seq(Features) /\ i \in Nat \ {0}
  BY LedgerTypes
<1>r. rows' = rows /\ (~perr' => ~perr) BY TablesStep, LoopStep
<1>i. DepInv /\ Visited /\ Grounded(store) /\ DoneIsComplete /\ rows = SpecRows
  BY DEF Processing, EngineInv, TableInv
<1> SUFFICES ASSUME ~perr', NEW k \in 1..Len(rows),
                    k < i' \/ (k = i' /\ pc' = "check")
             PROVE  store'[rows[k]] # "in_progress"
  BY <1>r DEF Visited
<1>k. /\ rows[k] \in Features
      /\ i \in 1..Len(rows) /\ rows[k] = Current => k = i
  BY <1>t, <1>i DEF DepInv, Injective, Current
<1>1. CASE Settle /\ store' = [store EXCEPT ![Current] = StatusAfter]
  <2>1. i' = i /\ i \in 1..Len(rows)
    BY <1>1, LedgerTypes DEF Settle, Working
  <2>2. CASE k = i BY <1>1, <1>t, <1>k, <2>2 DEF Current, StatusAfter
  <2>3. CASE k # i
    <3>1. store'[rows[k]] = store[rows[k]] BY <1>1, <1>t, <1>k, <2>1, <2>3
    <3>2. k < i BY <1>t, <2>1, <2>3
    <3> QED BY <1>i, <1>r, <3>1, <3>2 DEF Visited
  <2> QED BY <2>2, <2>3
<1>2. CASE StartFeature /\ store' = [store EXCEPT ![Current] = "in_progress"]
  <2>1. i' = i /\ i \in 1..Len(rows) /\ pc' # "check"
    <3>1. i' = i /\ i <= Len(rows) /\ pc' \in {"wait", "finish"}
      BY <1>2, Zenon DEF StartFeature
    <3> QED BY <1>t, <3>1
  <2>2. store'[rows[k]] = store[rows[k]] BY <1>2, <1>t, <1>k, <2>1
  <2> QED BY <1>i, <1>r, <2>1, <2>2 DEF Visited
<1>3. CASE /\ store' = store
           /\ ~(Settle /\ store' = [store EXCEPT ![Current] = StatusAfter])
  <2> SUFFICES ASSUME store[rows[k]] = "in_progress" PROVE FALSE
    BY <1>3
  <2>1. k >= i /\ (k = i => pc # "check") BY <1>i, <1>r, <1>t DEF Visited
  <2>2. i' # i BY <1>3, <1>t, <2>1, CheckStep
  <2>3. SkipImplemented \/ SkipUnmet \/ ContinueLoop BY <2>2, LoopStep
  <2>4. i' = i + 1 BY <2>3 DEF SkipImplemented, SkipUnmet, ContinueLoop
  <2>5. k = i
    <3>1. pc' # "check" \/ k # i'
      BY <1>t, <2>1, <2>2, CheckStep, <1>3
    <3> QED BY <1>t, <2>1, <2>4, <3>1
  <2>6. CASE SkipImplemented
    BY <1>i, <2>5, <2>6
       DEF SkipImplemented, AlreadyDone, Current, DepInv, Untouched
  <2>7. CASE SkipUnmet
    <3>1. DependsOn[Current] \subseteq done
      <4> SUFFICES ASSUME NEW d \in DependsOn[rows[k]] PROVE d \in done
        BY <2>5 DEF Current
      <4>1. d \in SpecIds /\ store[d] = "implemented"
        BY <1>i, <1>k DEF Grounded
      <4> QED BY <1>i, <1>r, <4>1 DEF DoneIsComplete, RowIds, SpecIds
    <3> QED BY <2>7, <3>1 DEF SkipUnmet, DepsSatisfied
  <2>8. CASE ContinueLoop BY <2>1, <2>5, <2>8 DEF ContinueLoop
  <2> QED BY <2>3, <2>6, <2>7, <2>8
<1> QED BY <1>1, <1>2, <1>3, StoreStep

\* A step of the engine, or none, within an invocation.
LEMMA ProcessingStep ==
    ASSUME SessionsInv, phase = "engine", phase' = "engine", [Next]_vars,
           everDone' \subseteq everDone \cup
                                {g \in Features : store'[g] = "implemented"}
    PROVE  SessionsInv'
<1>1. TypeInv /\ Processing BY DEF SessionsInv
<1>2. TypeInv' /\ EngineInv' /\ Visited' /\ Grounded(store)'
  BY <1>1, TypeStep, EngineInvStep, VisitedStep, GroundedStep DEF Processing
<1>3. rows' = SpecRows BY <1>1, TablesStep DEF Processing
<1>4. OnlySpec'
  BY <1>2, <1>3 DEF EngineInv, Outside, OnlySpec, RowIds, SpecIds
<1>5. Remembered(store)'
  <2> SUFFICES ASSUME NEW g \in everDone'
               PROVE  g \in SpecIds /\ store'[g] = "implemented"
    BY DEF Remembered
  <2>1. CASE g \in everDone
    <3>1. g \in SpecIds /\ store[g] = "implemented"
      BY <1>1, <2>1 DEF Processing, TableInv, Remembered
    <3>2. g \in Features BY <3>1, SpecFacts
    <3> QED BY <1>1, <3>1, <3>2, ImplementedStays DEF Processing, EngineInv
  <2>2. CASE g \in Features /\ store'[g] = "implemented"
    BY <1>4, <2>2 DEF OnlySpec
  <2> QED BY <2>1, <2>2
<1> QED
  BY <1>2, <1>3, <1>4, <1>5
     DEF SessionsInv, Phases, Processing, TableInv

\* The invariant speaks of allVars only.
LEMMA StutterStep == SessionsInv /\ UNCHANGED allVars => SessionsInv'
<1> SUFFICES ASSUME SessionsInv, UNCHANGED allVars PROVE SessionsInv'
  OBVIOUS
<1>1. /\ UNCHANGED vars /\ UNCHANGED everDone
      /\ UNCHANGED <<phase, opts, upserted>>
  BY Zenon DEF allVars, sessionVars
<1>u. /\ UNCHANGED <<rows, was, store, attempts, run, pc, i, perr, ares>>
      /\ UNCHANGED <<result, task, cancelled, quitTaken>>
  BY <1>1 DEF vars, input, tables, loop, attempt, process, listener
<1>2. TypeInv' BY <1>1, TypeStep DEF SessionsInv
<1>3. CASE phase = "engine" BY <1>1, <1>3, ProcessingStep
<1>4. CASE phase = "off"
  <2>1. TableInv'
    BY <1>1, <1>4, <1>u DEF SessionsInv, TableInv, OnlySpec, Grounded, Remembered
  <2>2. CompletedRunLeavesNothingInProgress'
    BY <1>1, <1>4, <1>u DEF SessionsInv, CompletedRunLeavesNothingInProgress
  <2> QED BY <1>1, <1>2, <1>4, <1>u, <2>1, <2>2 DEF SessionsInv
<1>5. CASE phase \in {"upserting", "planned"}
  <2>1. Inserting'
    BY <1>1, <1>5, <1>u DEF SessionsInv, Inserting, OnlySpec, Grounded, Remembered
  <2> QED BY <1>1, <1>2, <1>5, <1>u, <2>1 DEF SessionsInv
<1> QED BY <1>3, <1>4, <1>5 DEF SessionsInv, Phases

\* The invariant is kept by every step of any invocation.
LEMMA SessionsStep ==
    ASSUME WholeRuns
    PROVE  SessionsInv /\ [SessionsNext /\ RowsInserted]_allVars => SessionsInv'
<1> SUFFICES ASSUME SessionsInv, [SessionsNext /\ RowsInserted]_allVars
             PROVE  SessionsInv'
  OBVIOUS
<1>1. CASE EngineStep /\ Remember
  <2>1. phase = "engine" /\ phase' = "engine" /\ Next
    BY <1>1 DEF EngineStep, sessionVars, Next
  <2> QED BY <1>1, <2>1, ProcessingStep DEF Remember
<1> QED
  BY <1>1, LaunchStep, UpsertStep, PlanStep, RestStep, StartStep, CrashStep,
     EarlySignalStep, StutterStep
     DEF SessionsNext

\* When a run over the whole list completes that was neither dry nor quit,
\* nothing is in_progress, however the runs before it ended.
THEOREM CompletedRunLeavesNothingInProgressHolds ==
    ASSUME WholeRuns
    PROVE  InsertingSpec => []CompletedRunLeavesNothingInProgress
<1>1. SessionsInv => CompletedRunLeavesNothingInProgress
  BY DEF SessionsInv, Phases, CompletedRunLeavesNothingInProgress
<1> QED BY <1>1, SessionsStart, SessionsStep, PTL DEF InsertingSpec

\* README 31, where every run is over the whole list and inserts all its rows
\* before it is killed, signalled or failed by the store: no provider is called for a feature that the
\* table of any run had as implemented.
THEOREM CompletedNeverReimplementedHolds ==
    ASSUME WholeRuns
    PROVE  InsertingSpec => CompletedNeverReimplemented
<1>1. SessionsInv /\ [SessionsNext /\ RowsInserted]_allVars
        => [AttemptStarts => Current \notin everDone]_allVars
  <2> SUFFICES ASSUME SessionsInv, SessionsNext, AttemptStarts
               PROVE  Current \notin everDone
    OBVIOUS
  <2>t. attempts \in Seq(AttemptRows) BY LedgerTypes DEF SessionsInv
  <2>1. EngineStep
    <3>1. attempts' # attempts /\ attempts' # <<>>
      BY <2>t DEF AttemptStarts
    <3>2. ~Launch BY <3>1 DEF Launch
    <3>3. ~(UpsertRow \/ PlanReady \/ StartProcess)
      BY <3>1 DEF UpsertRow, PlanReady, StartProcess, tables
    <3>4. ~(Declined \/ Exit \/ EditSpec \/ NoMoreLaunches)
      BY <3>1 DEF Declined, Exit, EditSpec, NoMoreLaunches, vars, tables
    <3>5. ~(EarlySignal \/ Crash) BY <3>1 DEF EarlySignal, Crash, tables
    <3> QED BY <3>2, <3>3, <3>4, <3>5 DEF SessionsNext
  <2>2. TypeInv /\ Processing /\ Next
    BY <2>1 DEF EngineStep, SessionsInv, Next
  <2>3. BeginAttempt
    <3>1. ASSUME ReceiveResult,
                 attempts' = [attempts EXCEPT ![LastAttempt].row = "closed"]
          PROVE  FALSE
      BY <2>2, <3>1, ReceiveKeeps, <2>t DEF AttemptStarts
    <3>2. ASSUME ProviderCannotStart \/ ProviderExits PROVE FALSE
      BY <2>2, <2>t, <3>2, AnswerKeeps
         DEF AttemptStarts, Processing, EngineInv, AttemptInv
    <3>3. attempts' # attempts BY <2>t DEF AttemptStarts
    <3> QED BY <2>2, <3>1, <3>2, <3>3, AttemptsStep
  <2>4. store[Current] = "in_progress"
    BY <2>2, <2>3
       DEF BeginAttempt, Processing, EngineInv, DepInv, CurrentOK, Working
  <2> QED BY <2>2, <2>4 DEF Processing, TableInv, Remembered
<1> QED
  BY <1>1, SessionsStart, SessionsStep, PTL
     DEF InsertingSpec, CompletedNeverReimplemented
=============================================================================
