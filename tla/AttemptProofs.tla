---------------------------- MODULE AttemptProofs ----------------------------
(***************************************************************************)
(* An attempt never has two subprocesses at once and leaves none behind,   *)
(* with or without a fallback provider, for any number of keys, and with   *)
(* cancellation, deadline and Stop at any moment.                          *)
(***************************************************************************)
EXTENDS Attempt, FiniteSetTheorems, TLAPS

\* The provider goroutine goes through the subprocesses one after another and
\* is past a subprocess only when it is reaped: so only the one it is at may
\* be unreaped, and none when it has sent its result, without which the
\* planner does not return.
GoneOrNever(p) == life[p] \in {"none", "reaped"}

GoroutineInv ==
    /\ life \in [Subprocesses -> Lives]
    /\ cur \in Subprocesses
    /\ \A p \in Subprocesses : p # cur => GoneOrNever(p)
    /\ gpc = "launch" => life[cur] = "none"
    /\ cur = 1 => life[2] = "none"
    /\ gpc = "sent" => GoneOrNever(cur)
    /\ resCh # "empty" => gpc = "sent"
    /\ pc = "returned" => gpc = "sent"

LEMMA GoroutineInit == Init => GoroutineInv
BY DEF Init, GoroutineInv, GoneOrNever, Subprocesses, Lives

LEMMA GoroutineStep == GoroutineInv /\ [Next]_vars => GoroutineInv'
<1> SUFFICES ASSUME GoroutineInv, [Next]_vars PROVE GoroutineInv'
  OBVIOUS
<1> USE DEF GoroutineInv, GoneOrNever, Subprocesses, Lives, config, planner,
            goroutine, os
<1>1. CASE Planner
  <2>1. UNCHANGED <<life, cur, gpc, resCh>>
    BY <1>1 DEF Planner, TakeControls, CancelledBeforeStart,
                CancelledInFlight, Suspend, StopKey, ConsumeKey, StopReturns,
                ReceiveResult
  <2>2. pc' = "returned" => gpc = "sent"
    BY <1>1 DEF Planner, TakeControls, CancelledBeforeStart,
                CancelledInFlight, Suspend, StopKey, ConsumeKey, StopReturns,
                ReceiveResult
  <2> QED BY <2>1, <2>2
<1>2. CASE Launch BY <1>2 DEF Launch
<1>3. CASE Announce BY <1>3 DEF Announce
<1>4. CASE FallBack BY <1>4 DEF FallBack, FallsBack, WaitOver
<1>5. CASE SendResult BY <1>5 DEF SendResult, WaitOver
<1>6. CASE Signal \/ Deadline BY <1>6 DEF Signal, Deadline
<1>7. CASE \E p \in Subprocesses : Exits(p) BY <1>7 DEF Exits
<1>8. CASE \E p \in Subprocesses : PipesClose(p) \/ Reap(p)
  BY <1>8 DEF PipesClose, Reap
<1>9. CASE \E p \in Subprocesses : WatcherStops(p)
  BY <1>9 DEF WatcherStops
<1>10. CASE \E a \in Stoppers : StopStep(a)
  BY <1>10 DEF StopStep, StopResumes, StopTerminates, StopSucceeds, StopKills
<1>11. CASE UNCHANGED vars BY <1>11 DEF vars
<1> QED
  BY <1>1, <1>2, <1>3, <1>4, <1>5, <1>6, <1>7, <1>8, <1>9, <1>10, <1>11
     DEF Next, Goroutine

\* Only the subprocess that the provider goroutine is at may be unreaped.
LEMMA OnlyCurrent == GoroutineInv => Unreaped \subseteq {cur}
BY DEF GoroutineInv, GoneOrNever, Unreaped

\* The secondary provider starts only when the primary's subprocess is gone.
THEOREM OneSubprocessAtATimeHolds == Spec => []OneSubprocessAtATime
<1>1. GoroutineInv => OneSubprocessAtATime
  <2> SUFFICES ASSUME GoroutineInv PROVE Cardinality(Unreaped) <= 1
    BY DEF OneSubprocessAtATime
  <2>1. Unreaped = {} \/ Unreaped = {cur} BY OnlyCurrent
  <2>2. Cardinality({}) = 0 /\ Cardinality({cur}) = 1
    BY FS_EmptySet, FS_Singleton
  <2> QED BY <2>1, <2>2
<1> QED BY GoroutineInit, GoroutineStep, <1>1, PTL DEF Spec

\* When executeAttempt returns, every subprocess it started has been reaped
\* and its goroutine is done.
THEOREM NothingOutlivesAttemptHolds == Spec => []NothingOutlivesAttempt
<1>1. GoroutineInv => NothingOutlivesAttempt
  <2> SUFFICES ASSUME GoroutineInv, pc = "returned"
               PROVE  Unreaped = {} /\ gpc = "sent"
    BY DEF NothingOutlivesAttempt
  <2>1. gpc = "sent" /\ GoneOrNever(cur) BY DEF GoroutineInv
  <2>2. cur \notin Unreaped BY <2>1 DEF GoneOrNever, Unreaped
  <2> QED BY <2>1, <2>2, OnlyCurrent
<1> QED BY GoroutineInit, GoroutineStep, <1>1, PTL DEF Spec

-----------------------------------------------------------------------------
(* Attempt implements ProviderCall.                                        *)

\* What a subprocess made of its task is known when it has exited.
OutcomeInv ==
    /\ outcome \in [Subprocesses -> Outcomes \cup {"none"}]
    /\ \A p \in Subprocesses :
          life[p] \in {"exited", "reaped"} => outcome[p] \in Outcomes
    /\ resCh \in Outcomes \cup {"empty"}
    /\ gpc \in ProviderAt /\ pc \in PlannerAt
    /\ resCh \in {"ok", "limited"} => \E p \in Subprocesses : life[p] # "none"

CallInv == GoroutineInv /\ OutcomeInv

LEMMA CallInvInit == Init => CallInv
<1>1. Init => OutcomeInv
  BY DEF Init, OutcomeInv, Outcomes, ProviderAt, PlannerAt, Subprocesses
<1> QED BY <1>1, GoroutineInit DEF CallInv

LEMMA OutcomeStep == CallInv /\ [Next]_vars => OutcomeInv'
<1> SUFFICES ASSUME CallInv, [Next]_vars PROVE OutcomeInv'
  OBVIOUS
<1> USE DEF CallInv, OutcomeInv, Outcomes, ProviderAt, PlannerAt, planner,
            goroutine, os
<1>0. GoroutineInv BY DEF CallInv
<1>1. CASE Planner
  BY <1>1 DEF Planner, TakeControls, CancelledBeforeStart,
              CancelledInFlight, Suspend, StopKey, ConsumeKey, StopReturns,
              ReceiveResult
<1>2. CASE Launch BY <1>2, <1>0 DEF Launch, GoroutineInv
<1>3. CASE Announce BY <1>3 DEF Announce
<1>4. CASE FallBack BY <1>4 DEF FallBack
<1>5. CASE SendResult BY <1>5, <1>0 DEF SendResult, WaitOver, GoroutineInv
<1>6. CASE Signal \/ Deadline BY <1>6 DEF Signal, Deadline
<1>7. CASE \E p \in Subprocesses : Exits(p)
  BY <1>7, <1>0 DEF Exits, GoroutineInv
<1>8. CASE \E p \in Subprocesses : PipesClose(p) \/ Reap(p)
  BY <1>8, <1>0 DEF PipesClose, Reap, GoroutineInv
<1>9. CASE \E p \in Subprocesses : WatcherStops(p)
  BY <1>9 DEF WatcherStops
<1>10. CASE \E a \in Stoppers : StopStep(a)
  BY <1>10 DEF StopStep, StopResumes, StopTerminates, StopSucceeds, StopKills
<1>11. CASE UNCHANGED vars BY <1>11 DEF vars
<1> QED
  BY <1>1, <1>2, <1>3, <1>4, <1>5, <1>6, <1>7, <1>8, <1>9, <1>10, <1>11
     DEF Next, Goroutine

LEMMA CallInvStep == CallInv /\ [Next]_vars => CallInv'
BY OutcomeStep, GoroutineStep DEF CallInv

\* What ProviderCall sees is a function of three variables.
LEMMA NothingSeen ==
    ASSUME UNCHANGED <<life, resCh>>, pc' = "returned" <=> pc = "returned"
    PROVE  UNCHANGED Call!callVars
BY DEF Call!callVars, CallState, Worked, AnswerGiven, Unreaped

LEMMA CallStep ==
    ASSUME CallInv, [Next]_vars
    PROVE  [Call!Next]_(Call!callVars)
<1> USE DEF CallInv, planner, goroutine, os
<1>0. GoroutineInv /\ OutcomeInv /\ Unreaped \subseteq {cur}
  BY OnlyCurrent
<1>1. CASE ReceiveResult
  <2>1. CallState = "answered" /\ CallState' = "none"
    BY <1>1 DEF ReceiveResult, CallState
  <2>2. Unreaped' = {} /\ ~Worked' /\ AnswerGiven' = "none"
    BY <1>0, <1>1, <2>1
       DEF ReceiveResult, GoroutineInv, GoneOrNever, Unreaped, Worked,
           AnswerGiven
  <2> QED BY <2>1, <2>2 DEF Call!Receive, Call!Next, Call!Idle
<1>2. CASE Planner /\ ~ReceiveResult
  BY <1>2, NothingSeen
     DEF Planner, TakeControls, CancelledBeforeStart, CancelledInFlight,
         Suspend, StopKey, ConsumeKey, StopReturns
<1>3. CASE Launch
  <2>1. CallState = "open" /\ Unreaped = {} /\ pc' = pc /\ pc # "returned"
        /\ AnswerGiven = "none" /\ cur \in Subprocesses
    BY <1>0, <1>3
       DEF Launch, GoroutineInv, GoneOrNever, Unreaped, CallState, AnswerGiven
  <2>2. CASE gpc' = "announce"
    <3>1. life' = [life EXCEPT ![cur] = "alive"] /\ UNCHANGED resCh
      BY <1>3, <2>2 DEF Launch
    <3>2. cur \in Unreaped' /\ Worked' /\ CallState' = "open"
          /\ AnswerGiven' = "none"
      BY <1>0, <2>1, <3>1
         DEF GoroutineInv, Unreaped, Worked, CallState, AnswerGiven
    <3> QED BY <2>1, <3>2 DEF Call!Work, Call!Next
  <2>3. CASE gpc' = "sent"
    <3>1. life' = life /\ resCh' = "fail"
      BY <1>3, <2>3 DEF Launch
    <3>2. Unreaped' = {} /\ Worked' = Worked /\ CallState' = "answered"
          /\ AnswerGiven' = "fail"
      BY <2>1, <3>1 DEF Unreaped, Worked, CallState, AnswerGiven
    <3> QED BY <2>1, <3>2 DEF Call!Answer, Call!Next
  <2> QED BY <1>3, <2>2, <2>3 DEF Launch
<1>4. CASE SendResult
  <2>1. life[cur] = "reaped" /\ CallState = "open" /\ pc # "returned"
        /\ pc' = pc /\ life' = life /\ resCh' = outcome[cur]
        /\ outcome[cur] \in Outcomes /\ cur \in Subprocesses
    BY <1>0, <1>4
       DEF SendResult, WaitOver, GoroutineInv, OutcomeInv, CallState
  <2>2. Unreaped' = {} /\ Worked /\ Worked'
    BY <1>0, <2>1 DEF Unreaped, Worked
  <2>3. CallState' = "answered" /\ AnswerGiven' \in Outcomes
    BY <2>1 DEF CallState, AnswerGiven, Outcomes
  <2> QED BY <2>1, <2>2, <2>3 DEF Call!Answer, Call!Next, Outcomes
<1>5. CASE \E p \in Subprocesses : Reap(p)
  <2>1. PICK p \in Subprocesses : Reap(p) BY <1>5
  <2>2. p = cur /\ p \in Unreaped BY <1>0, <2>1 DEF Reap, Unreaped
  <2>3. CallState = "open" /\ UNCHANGED <<pc, resCh>>
    BY <1>0, <2>1, <2>2
       DEF Reap, GoroutineInv, GoneOrNever, Unreaped, CallState
  <2>4. Unreaped' = {} /\ Worked' = Worked /\ CallState' = "open"
        /\ AnswerGiven' = AnswerGiven
    BY <1>0, <2>1, <2>2, <2>3
       DEF Reap, GoroutineInv, Unreaped, Worked, CallState, AnswerGiven
  <2> QED BY <2>2, <2>3, <2>4 DEF Call!Rest, Call!Next
<1>6. CASE \E p \in Subprocesses : Exits(p)
  <2>1. PICK p \in Subprocesses : Exits(p) BY <1>6
  <2>2. Unreaped' = Unreaped /\ Worked' = Worked
        /\ UNCHANGED <<pc, resCh>>
    BY <1>0, <2>1 DEF Exits, GoroutineInv, Unreaped, Worked
  <2> QED BY <2>2 DEF Call!callVars, CallState, AnswerGiven
<1>7. CASE Announce \/ FallBack \/ Signal \/ Deadline
  BY <1>7, NothingSeen DEF Announce, FallBack, Signal, Deadline
<1>8. CASE \E p \in Subprocesses : PipesClose(p) \/ WatcherStops(p)
  BY <1>8, NothingSeen DEF PipesClose, WatcherStops
<1>9. CASE \E a \in Stoppers : StopStep(a)
  BY <1>9, NothingSeen
     DEF StopStep, StopResumes, StopTerminates, StopSucceeds, StopKills
<1>10. CASE UNCHANGED vars BY <1>10, NothingSeen DEF vars
<1> QED
  BY <1>1, <1>2, <1>3, <1>4, <1>5, <1>6, <1>7, <1>8, <1>9, <1>10
     DEF Next, Goroutine

\* However fallback, keys, signal, deadline, the goroutines in Stop and what
\* subprocesses leave behind interleave, an attempt is one provider call.
THEOREM ImplementsCallHolds == Spec => ImplementsCall
<1>1. Init => Call!Init
  BY DEF Init, Call!Init, Call!Idle, CallState, Worked, AnswerGiven, Unreaped,
         Subprocesses
<1>2. CallInv /\ [Next]_vars => [Call!Next]_(Call!callVars)
  BY CallStep
<1> QED
  BY <1>1, <1>2, CallInvInit, CallInvStep, PTL
     DEF Spec, ImplementsCall, Call!Spec

-----------------------------------------------------------------------------
(* The shape of the state.                                                 *)

LEMMA FlagsStep == FlagsOK /\ [Next]_vars => FlagsOK'
<1> SUFFICES ASSUME FlagsOK, [Next]_vars PROVE FlagsOK'
  OBVIOUS
<1> USE DEF FlagsOK, config, os
<1>1. ASSUME UNCHANGED <<config, cancelled, stopped, killed>>,
             acancel' = acancel \/ acancel' = TRUE
      PROVE  FlagsOK'
  BY <1>1
<1>2. CASE TakeControls \/ CancelledInFlight
  BY <1>1, <1>2 DEF TakeControls, CancelledInFlight
<1>3. CASE CancelledBeforeStart \/ StopReturns \/ ReceiveResult \/ Deadline
  BY <1>1, <1>3 DEF CancelledBeforeStart, StopReturns, ReceiveResult, Deadline
<1>4. CASE \E kind \in KeyKinds, to \in BOOLEAN : Suspend(kind, to)
  <2>1. PICK kind \in KeyKinds, to \in BOOLEAN : Suspend(kind, to)
    BY <1>4
  <2>2. stopped' = stopped \/ stopped' = [stopped EXCEPT ![controls] = to]
    BY <2>1 DEF Suspend
  <2>3. stopped' \in [Subprocesses -> BOOLEAN]
    BY <2>2
  <2>4. UNCHANGED <<config, cancelled, acancel, killed>>
    BY <2>1 DEF Suspend, ConsumeKey
  <2> QED BY <2>3, <2>4
<1>5. CASE StopKey("terminate", "terminated") \/ StopKey("quit", "quit")
  BY <1>1, <1>5 DEF StopKey, ConsumeKey
<1>6. CASE Goroutine
  BY <1>1, <1>6 DEF Goroutine, Launch, Announce, FallBack, SendResult
<1>7. CASE Signal
  BY <1>7 DEF Signal
<1>8. CASE \E p \in Subprocesses :
             Exits(p) \/ PipesClose(p) \/ Reap(p) \/ WatcherStops(p)
  BY <1>1, <1>8 DEF Exits, PipesClose, Reap, WatcherStops
<1>9. CASE \E a \in Stoppers : StopStep(a)
  <2>1. PICK a \in Stoppers : StopStep(a) BY <1>9
  <2>2. CASE StopResumes(a)
    <3>1. stopped' \in [Subprocesses -> BOOLEAN]
      BY <2>2 DEF StopResumes
    <3> QED BY <2>2, <3>1 DEF StopResumes
  <2>3. CASE StopKills(a)
    <3>1. killed' \in [Subprocesses -> BOOLEAN]
      BY <2>3 DEF StopKills
    <3> QED BY <2>3, <3>1 DEF StopKills
  <2>4. CASE StopTerminates(a) \/ StopSucceeds(a)
    BY <1>1, <2>4 DEF StopTerminates, StopSucceeds
  <2> QED BY <2>1, <2>2, <2>3, <2>4 DEF StopStep
<1>10. CASE UNCHANGED vars BY <1>1, <1>10 DEF vars
<1>11. ASSUME Suspend("pause", TRUE) \/ Suspend("resume", FALSE)
       PROVE  \E kind \in KeyKinds, to \in BOOLEAN : Suspend(kind, to)
  BY <1>11 DEF Suspend, ConsumeKey
<1> QED
  BY <1>2, <1>3, <1>4, <1>5, <1>6, <1>7, <1>8, <1>9, <1>10, <1>11
     DEF Next, Planner

LEMMA PlacesStep == CallInv /\ PlacesOK /\ [Next]_vars => PlacesOK'
<1> SUFFICES ASSUME CallInv, PlacesOK, [Next]_vars PROVE PlacesOK'
  OBVIOUS
<1> USE DEF PlacesOK, Outcomes, PlannerAt, ProviderAt, Lives, StopAt,
            Keepers, config, planner, goroutine, os, BeginStop
<1>1. CASE TakeControls
  <2>1. Head(ctrlCh) \in Subprocesses /\ Tail(ctrlCh) \in Seq(Subprocesses)
        /\ Len(Tail(ctrlCh)) = Len(ctrlCh) - 1
    BY <1>1 DEF TakeControls
  <2> QED BY <1>1, <2>1 DEF TakeControls
<1>2. CASE CancelledBeforeStart BY <1>2 DEF CancelledBeforeStart
<1>3. CASE CancelledInFlight BY <1>3 DEF CancelledInFlight
<1>4. CASE Suspend("pause", TRUE) \/ Suspend("resume", FALSE)
  BY <1>4 DEF Suspend, ConsumeKey
<1>5. CASE StopKey("terminate", "terminated") \/ StopKey("quit", "quit")
  BY <1>5 DEF StopKey, ConsumeKey
<1>6. CASE StopReturns BY <1>6 DEF StopReturns
<1>7. CASE ReceiveResult BY <1>7 DEF ReceiveResult
<1>8. CASE Launch BY <1>8 DEF Launch
<1>9. CASE Announce
  <2>1. ctrlCh' = Append(ctrlCh, cur) /\ ctrlCh = <<>>
    BY <1>9 DEF Announce, SendReady
  <2>2. ctrlCh' \in Seq(Subprocesses) /\ Len(ctrlCh') = Len(ctrlCh) + 1
        /\ Len(ctrlCh) = 0
    BY <2>1
  <2> QED BY <1>9, <2>2 DEF Announce
<1>10. CASE FallBack
  <2>1. 2 \in Subprocesses BY DEF Subprocesses
  <2> QED BY <1>10, <2>1 DEF FallBack
<1>11. CASE SendResult
  <2>1. outcome[cur] \in Outcomes
    BY <1>11 DEF SendResult, WaitOver, CallInv, OutcomeInv
  <2> QED BY <1>11, <2>1 DEF SendResult
<1>12. CASE Signal \/ Deadline BY <1>12 DEF Signal, Deadline
<1>13. CASE \E p \in Subprocesses : Exits(p)
  BY <1>13, LeftoversAssumption DEF Exits
<1>14. CASE \E p \in Subprocesses : PipesClose(p) \/ Reap(p)
  BY <1>14 DEF PipesClose, Reap
<1>15. CASE \E p \in Subprocesses : WatcherStops(p)
  BY <1>15 DEF WatcherStops
<1>16. CASE \E a \in Stoppers : StopStep(a)
  BY <1>16 DEF StopStep, StopResumes, StopTerminates, StopSucceeds, StopKills
<1>17. CASE UNCHANGED vars BY <1>17 DEF vars
<1> QED
  BY <1>1, <1>2, <1>3, <1>4, <1>5, <1>6, <1>7, <1>8, <1>9, <1>10, <1>11,
     <1>12, <1>13, <1>14, <1>15, <1>16, <1>17 DEF Next, Planner, Goroutine

\* However often OnStart is called, its channel holds one control at most, and
\* whatever happens the result is one of three.
THEOREM TypeCorrect == Spec => []TypeOK
<1>1. ASSUME Init PROVE FlagsOK
  <2>1. fallback \in BOOLEAN BY <1>1, FallbacksAssumption DEF Init
  <2>2. timed \in BOOLEAN BY <1>1, TimeoutsAssumption DEF Init
  <2> QED BY <1>1, <2>1, <2>2 DEF Init, FlagsOK
<1>2. ASSUME Init PROVE PlacesOK
  <2>1. ctrlCh \in Seq(Subprocesses) /\ Len(ctrlCh) <= 1
    BY <1>2 DEF Init
  <2>2. 1 \in Subprocesses BY DEF Subprocesses
  <2> QED
    BY <1>2, <2>1, <2>2
       DEF Init, PlacesOK, PlannerAt, ProviderAt, Lives, StopAt, Keepers
<1> QED
  BY <1>1, <1>2, FlagsStep, PlacesStep, CallInvInit, CallInvStep, PTL
     DEF Spec, TypeOK
=============================================================================
