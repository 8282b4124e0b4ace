---------------------------- MODULE ConsoleProofs ----------------------------
(***************************************************************************)
(* The screen of `pave run`, for any list of rows and any number of keys   *)
(* and retries. The mutex makes the argument: while the animator holds a   *)
(* frame no callback runs, so the frame agrees with the planner's place;   *)
(* and outside of a started feature the cursor's line is free. And the     *)
(* keys: what was typed, mapped to key events, is what the planner was     *)
(* given followed by what the goroutines and the terminal still hold.      *)
(***************************************************************************)
EXTENDS Console, RecursionLemmas

Ids == {Rows[k].id : k \in 1..Len(Rows)}
Shows == {"start", "retry", "end"}
Entries == [id : Ids, shows : Shows]

Shape ==
    /\ ansi \in BOOLEAN /\ i \in Nat \ {0} /\ active \in Ids \cup {None}
    /\ pc \in PlannerAt /\ apc \in AnimatorAt

\* A screen on which every line has one entry.
Clean(s) == s \in Seq(Seq(Entries)) /\ \A n \in 1..Len(s) : Len(s[n]) = 1

\* What is being drawn is what Progress holds.
FrameInv ==
    /\ apc # "draw" => frame = <<>>
    /\ frame # <<>> => /\ ansi /\ active # None
                       /\ frame[1].id = active /\ frame[1].retry = retry

\* What Progress holds is where the planner is.
PlaceInv ==
    /\ pc = "pick" => active = None
    /\ pc \in {"wait", "attempt", "decide"} =>
           active = Rows[i].id /\ i <= Len(Rows)
    /\ ansi /\ active # None =>
           i <= Len(Rows) /\ active = Rows[i].id /\ retry = tries
    /\ Over => active = None \/ ~ansi

LineInv == active = None \/ ~ansi => line = <<>>

Inv == Shape /\ FrameInv /\ PlaceInv /\ LineInv /\ Clean(screen)

\* The row the planner is at has an ID that can be shown.
LEMMA RowIds ==
    ASSUME NEW k \in Nat \ {0}, k <= Len(Rows)
    PROVE  Rows[k].id \in Ids /\ Rows[k].id # None
  <1>1. Len(Rows) \in Nat
    BY RowsAssumption
  <1>2. k \in 1..Len(Rows)
    BY <1>1
  <1> QED BY <1>2, RowsAssumption DEF Ids

LEMMA InitInv == Init => Inv
  <1> SUFFICES ASSUME Init PROVE Inv
    OBVIOUS
  <1>2. Shape
    BY ConsoleAssumption DEF Init, Shape, PlannerAt, AnimatorAt
  <1>3. <<>> \in Seq(Seq(Entries)) /\ Len(<<>>) = 0
    OBVIOUS
  <1>4. Clean(<<>>)
    BY <1>3 DEF Clean
  <1> QED BY <1>2, <1>4 DEF Init, Inv, FrameInv, PlaceInv, LineInv, Over

\* A new line with one entry keeps the screen clean. The entry is what a
\* callback writes on a line that it has erased, or that was free.
LEMMA NewLine ==
    ASSUME NEW s, Clean(s), NEW id \in Ids, NEW shows \in Shows
    PROVE  /\ Clean(Append(s, <<Shown(id, shows)>>))
           /\ Clean(Append(s, Append(<<>>, Shown(id, shows))))
  <1> DEFINE e == Shown(id, shows)
             l == <<e>>
  <1>1. e \in Entries
    BY DEF Shown, Entries
  <1> HIDE DEF e
  <1>2. l \in Seq(Entries) /\ Len(l) = 1 /\ l = Append(<<>>, e)
    BY <1>1
  <1> HIDE DEF l
  <1> DEFINE t == Append(s, l)
  <1>3. t \in Seq(Seq(Entries)) /\ Len(t) = Len(s) + 1
    BY <1>2 DEF Clean
  <1>4. ASSUME NEW n \in 1..Len(t) PROVE Len(t[n]) = 1
    <2>1. CASE n \in 1..Len(s) BY <2>1, <1>2 DEF Clean
    <2>2. CASE n = Len(s) + 1 BY <2>2, <1>2 DEF Clean
    <2>3. Len(s) \in Nat BY DEF Clean
    <2> QED BY <2>1, <2>2, <2>3, <1>3, <1>4
  <1>5. Clean(t)
    BY <1>3, <1>4 DEF Clean
  <1> QED BY <1>5, <1>2 DEF l, e

LEMMA NewShown ==
    ASSUME Inv, i <= Len(Rows), NEW shows \in Shows
    PROVE  /\ Clean(Append(screen, <<Shown(Rows[i].id, shows)>>))
           /\ Clean(Append(screen, Append(<<>>, Shown(Rows[i].id, shows))))
  <1>1. Clean(screen) /\ Rows[i].id \in Ids
    BY RowIds DEF Inv, Shape
  <1> QED BY <1>1, NewLine

\* The parts of the state that Inv looks at.
seen == <<ansi, pc, i, tries, active, retry, apc, frame, line, screen>>

LEMMA KeyboardKeepsInv ==
    Inv /\ UNCHANGED seen => Inv'
  BY DEF Inv, Shape, FrameInv, PlaceInv, LineInv, Over, seen

LEMMA AnimatorKeepsInv ==
    ASSUME Inv, Animator PROVE Inv'
  <1> USE DEF Inv, Shape, FrameInv, PlaceInv, LineInv, AnimatorAt, Over,
              planner, progress, display, keyboard
  <1>1. CASE Tick BY <1>1 DEF Tick
  <1>2. CASE Lock BY <1>2 DEF Lock
  <1>3. CASE AnimatorEnds BY <1>3 DEF AnimatorEnds
  <1>4. CASE Draw BY <1>4 DEF Draw
  <1> QED BY <1>1, <1>2, <1>3, <1>4 DEF Animator

LEMMA PlannerKeepsInv ==
    ASSUME Inv, Planner PROVE Inv'
  <1>0. i <= Len(Rows) =>
          \A shows \in Shows :
            /\ Clean(Append(screen, <<Shown(Rows[i].id, shows)>>))
            /\ Clean(Append(screen, Append(<<>>, Shown(Rows[i].id, shows))))
    BY NewShown
  <1> USE DEF Inv, Shape, FrameInv, PlaceInv, LineInv, PlannerAt, AnimatorAt,
              Over, keyboard, display, animator, MayLock
  <1>1. CASE PassImplemented BY <1>1 DEF PassImplemented, progress
  <1>2. CASE SkipFeature
    <2>1. line = <<>> /\ i <= Len(Rows)
      BY <1>2 DEF SkipFeature, ToDo, FeatureSkipped
    <2>2. Clean(Append(screen, Append(<<>>, Shown(Rows[i].id, "end"))))
      BY <2>1, <1>0 DEF Shows
    <2> QED BY <2>1, <2>2, <1>2 DEF SkipFeature, FeatureSkipped, ToDo
  <1>3. CASE StartFeature
    <2>1. i <= Len(Rows)
      BY <1>3 DEF StartFeature, ToDo
    <2>2. Clean(Append(screen, <<Shown(Rows[i].id, "start")>>))
      BY <2>1, <1>0 DEF Shows
    <2> QED BY <2>1, <2>2, <1>3, RowIds
            DEF StartFeature, FeatureStarted, ToDo, RetryAtStart
  <1>4. CASE BeginAttempt BY <1>4 DEF BeginAttempt, progress
  <1>5. CASE EndAttempt BY <1>5 DEF EndAttempt, progress
  <1>6. CASE RetryFeature
    <2>1. Clean(Append(screen, <<Shown(Rows[i].id, "retry")>>))
      BY <1>0, <1>6 DEF RetryFeature, Shows
    <2> QED BY <2>1, <1>6 DEF RetryFeature, FeatureRetry
  <1>7. CASE FinishFeature
    <2>1. i <= Len(Rows)
      BY <1>7 DEF FinishFeature
    <2>2. Clean(Append(screen, Append(<<>>, Shown(Rows[i].id, "end"))))
      BY <2>1, <1>0 DEF Shows
    <2> QED BY <2>1, <2>2, <1>7 DEF FinishFeature, FeatureFinished, Erased
  <1>8. CASE LeaveProcess BY <1>8 DEF LeaveProcess, progress
  <1>9. CASE CloseStop BY <1>9 DEF CloseStop
  <1>10. CASE FinishStop
    <2>1. CASE Flushes
      <3>1. active = Rows[i].id /\ i <= Len(Rows)
        BY <2>1 DEF Flushes
      <3>2. Clean(Append(screen, Append(<<>>, Shown(active, "end"))))
        BY <3>1, <1>0 DEF Shows
      <3> QED BY <2>1, <3>2, <1>10 DEF FinishStop, Erased
    <2>2. CASE ~Flushes BY <2>2, <1>10 DEF FinishStop, Flushes
    <2> QED BY <2>1, <2>2
  <1>11. CASE LeaveRun BY <1>11 DEF LeaveRun, progress
  <1>12. CASE Exit BY <1>12 DEF Exit, progress
  <1> QED
    BY <1>1, <1>2, <1>3, <1>4, <1>5, <1>6, <1>7, <1>8, <1>9, <1>10, <1>11,
       <1>12
    DEF Planner

LEMMA StepInv == Inv /\ [Next]_vars => Inv'
  <1> SUFFICES ASSUME Inv, [Next]_vars PROVE Inv'
    OBVIOUS
  <1> USE DEF keyboard, planner, progress, animator, display
  <1>1. ASSUME TypeKey \/ HangUp \/ Listener \/ PassEvent \/ Restore
               \/ Signal \/ Terminated \/ UNCHANGED vars
        PROVE  UNCHANGED seen
    BY <1>1 DEF TypeKey, HangUp, Listener, ReadByte, ReaderEnds, PassByte,
       MapperEnds, PassEvent, Restore, Signal, Terminated, vars, seen
  <1> QED
    BY <1>1, KeyboardKeepsInv, AnimatorKeepsInv, PlannerKeepsInv DEF Next

LEMMA Invariance == Spec => []Inv
  BY InitInv, StepInv, PTL DEF Spec

\* For all rows: a frame shows the feature that is worked on and its retries.
THEOREM FrameIsCurrentHolds == Spec => []FrameIsCurrent
  <1>1. Inv => FrameIsCurrent
    BY DEF Inv, FrameInv, PlaceInv, FrameIsCurrent
  <1> QED BY <1>1, Invariance, PTL

\* For all rows: no line above the cursor has the rest of a spinner on it, and
\* Stop leaves none behind and none comes after it.
THEOREM CleanScreenHolds == Spec => []CleanScreen
  <1>1. Inv => \A n \in 1..Len(screen) : Len(screen[n]) = 1
    BY DEF Inv, Clean
  <1>2. Inv /\ Over => line = <<>> /\ frame = <<>>
    BY DEF Inv, Shape, FrameInv, PlaceInv, LineInv, Over
  <1>3. Inv => CleanScreen
    BY <1>1, <1>2 DEF CleanScreen
  <1> QED BY <1>3, Invariance, PTL

-----------------------------------------------------------------------------
(* What the screen tells of the run. On a terminal a feature's line is     *)
(* written when it ends; so the lines name the features that were          *)
(* reported, but for the one that Progress holds.                          *)
Told == [n \in 1..Len(screen) |-> Last(screen[n]).id]
TellInv ==
    /\ reported \in Seq(Ids)
    /\ ansi => reported = IF active = None THEN Told ELSE Append(Told, active)

\* One more line at the end.
LEMMA OneMoreLine ==
    ASSUME Clean(screen), NEW id \in Ids, NEW shows \in Shows,
           screen' = Append(screen, Append(<<>>, Shown(id, shows)))
    PROVE  Told \in Seq(Ids) /\ Told' = Append(Told, id)
  <1>1. /\ Len(screen) \in Nat /\ Len(screen') = Len(screen) + 1
        /\ \A n \in 1..Len(screen) : screen'[n] = screen[n]
        /\ screen'[Len(screen) + 1] = <<Shown(id, shows)>>
    BY DEF Clean
  <1>2. Last(<<Shown(id, shows)>>).id = id
    BY DEF Last, Shown
  <1>3. \A n \in 1..Len(screen) : Last(screen[n]).id \in Ids
    <2> TAKE n \in 1..Len(screen)
    <2>1. screen[n] \in Seq(Entries) /\ Len(screen[n]) = 1
      BY DEF Clean
    <2>2. screen[n][1] \in Entries
      BY <2>1
    <2> QED BY <2>1, <2>2 DEF Last, Entries
  <1>4. Told \in Seq(Ids) /\ Len(Told) = Len(screen)
    BY <1>1, <1>3 DEF Told
  <1>5. Told' = [n \in 1..Len(screen) + 1 |-> Last(screen'[n]).id]
    BY <1>1 DEF Told
  <1>6. \A n \in 1..Len(screen) + 1 :
           Last(screen'[n]).id = Append(Told, id)[n]
    BY <1>1, <1>2, <1>4 DEF Told
  <1>7. Told' \in Seq(Ids) /\ Len(Told') = Len(screen) + 1
    BY <1>1, <1>2, <1>3, <1>5
  <1>8. Append(Told, id) \in Seq(Ids) /\ Len(Append(Told, id)) = Len(Told')
    BY <1>1, <1>4, <1>7
  <1>9. Told' = Append(Told, id)
    BY <1>5, <1>6, <1>7, <1>8, SeqEqual
  <1> QED BY <1>4, <1>9

LEMMA TellInit == Init => TellInv
  BY DEF Init, TellInv, Told

LEMMA TellStep == Inv /\ TellInv /\ [Next]_vars => TellInv'
  <1> SUFFICES ASSUME Inv, TellInv, [Next]_vars PROVE TellInv'
    OBVIOUS
  <1> USE DEF TellInv, keyboard, planner, progress, animator, display
  <1>i. i <= Len(Rows) => Rows[i].id \in Ids /\ Rows[i].id # None
    BY RowIds DEF Inv, Shape
  <1>1. ASSUME UNCHANGED <<screen, active, reported, ansi>> PROVE TellInv'
    BY <1>1 DEF Told
  <1>2. CASE SkipFeature
    <2>1. /\ i <= Len(Rows) /\ active = None /\ line = <<>>
          /\ screen' = Append(screen, Append(line, Shown(Rows[i].id, "end")))
          /\ reported' = Append(reported, Rows[i].id)
          /\ UNCHANGED <<active, ansi>>
      BY <1>2 DEF SkipFeature, ToDo, FeatureSkipped, Inv, PlaceInv, LineInv
    <2>2. Told' = Append(Told, Rows[i].id)
      BY <1>i, <2>1, OneMoreLine DEF Inv, Shows
    <2> QED BY <1>i, <2>1, <2>2
  <1>3. CASE StartFeature
    <2>1. /\ i <= Len(Rows) /\ active = None /\ active' = Rows[i].id
          /\ ansi => screen' = screen
          /\ reported' = Append(reported, Rows[i].id)
          /\ UNCHANGED ansi
      BY <1>3 DEF StartFeature, ToDo, FeatureStarted, Inv, PlaceInv
    <2> QED BY <1>i, <2>1 DEF Told
  <1>4. CASE RetryFeature
    <2>1. (ansi => screen' = screen) /\ UNCHANGED <<active, reported, ansi>>
      BY <1>4 DEF RetryFeature, FeatureRetry
    <2> QED BY <2>1 DEF Told
  <1>5. CASE FinishFeature
    <2>1. /\ i <= Len(Rows) /\ active = Rows[i].id /\ active' = None
          /\ screen' = Append(screen, Append(<<>>, Shown(Rows[i].id, "end")))
          /\ UNCHANGED <<reported, ansi>>
      BY <1>5 DEF FinishFeature, FeatureFinished, Erased, Inv, PlaceInv
    <2>2. Told' = Append(Told, Rows[i].id)
      BY <1>i, <2>1, OneMoreLine DEF Inv, Shows
    <2> QED BY <1>i, <2>1, <2>2
  <1>6. CASE FinishStop
    <2>1. CASE Flushes
      <3>1. /\ ansi /\ active # None /\ active' = None
            /\ screen' = Append(screen, Append(<<>>, Shown(active, "end")))
            /\ UNCHANGED <<reported, ansi>>
        BY <1>6, <2>1 DEF FinishStop, Flushes, Erased
      <3>2. active \in Ids
        BY <3>1 DEF Inv, Shape
      <3>3. Told' = Append(Told, active)
        BY <3>1, <3>2, OneMoreLine DEF Inv, Shows
      <3> QED BY <3>1, <3>3
    <2>2. CASE ~Flushes
      BY <1>1, <1>6, <2>2, Zenon DEF FinishStop
    <2> QED BY <2>1, <2>2
  <1>7. CASE TypeKey \/ HangUp \/ Listener \/ PassEvent \/ Restore
             \/ Signal \/ Terminated \/ UNCHANGED vars
    BY <1>1, <1>7 DEF TypeKey, HangUp, Listener, ReadByte, ReaderEnds, PassByte,
       MapperEnds, PassEvent, Restore, Signal, Terminated, vars
  <1>8. CASE Animator
    BY <1>1, <1>8, Zenon DEF Animator, Tick, Lock, Draw, AnimatorEnds
  <1>9. CASE PassImplemented \/ BeginAttempt \/ EndAttempt \/ LeaveProcess
             \/ CloseStop \/ LeaveRun \/ Exit
    BY <1>1, <1>9, Zenon
       DEF PassImplemented, BeginAttempt, EndAttempt, LeaveProcess, CloseStop,
           LeaveRun, Exit
  <1> QED
    BY <1>2, <1>3, <1>4, <1>5, <1>6, <1>7, <1>8, <1>9 DEF Next, Planner

\* For all rows: on a terminal each feature that was started or skipped has
\* left exactly one line, in order, however Process ended.
THEOREM ScreenTellsRunHolds == Spec => []ScreenTellsRun
  <1>1. Inv /\ TellInv => ScreenTellsRun
    BY DEF Inv, PlaceInv, TellInv, ScreenTellsRun, Told
  <1> QED BY <1>1, InitInv, StepInv, TellInit, TellStep, PTL DEF Spec

-----------------------------------------------------------------------------
(* The keys on their way through the two goroutines. Each step moves the   *)
(* front of what is behind it to the end of what is in front of it.        *)
Words == Bytes \cup {"pause", "resume", "terminate", "quit", None}
InHand == IF rpc = "send" THEN MapKey(byte) ELSE <<>>
Offered == IF mpc = "send" THEN <<event>> ELSE <<>>

KeyInv ==
    /\ typed \in Seq(Words) /\ tty \in Seq(Words) /\ taken \in Seq(Words)
    /\ byte \in Words /\ event \in Words
    /\ pc \in {"left", "exited"} => cancelled
    /\ ~cancelled =>
           Mapped(typed) = (taken \o Offered) \o (InHand \o Mapped(tty))

\* Of one byte comes at most one event.
LEMMA MapKeyType ==
    ASSUME NEW b
    PROVE  /\ MapKey(b) \in Seq(Words)
           /\ MapKey(b) # <<>> => MapKey(b) = <<Head(MapKey(b))>>
                                  /\ Head(MapKey(b)) \in Words
  <1>1. ASSUME NEW e \in Words, MapKey(b) = <<e>>
        PROVE  MapKey(b) \in Seq(Words) /\ Head(MapKey(b)) = e
    <2>1. <<e>> \in Seq(Words) /\ Head(<<e>>) = e
      OBVIOUS
    <2> QED BY <1>1, <2>1, Zenon
  <1>2. /\ "pause" \in Words /\ "resume" \in Words
        /\ "terminate" \in Words /\ "quit" \in Words
    BY DEF Words
  <1>3. CASE b = "p"
    <2>1. MapKey(b) = <<"pause">> BY <1>3 DEF MapKey
    <2> QED BY <1>1, <1>2, <2>1, Zenon
  <1>4. CASE b = "r"
    <2>1. MapKey(b) = <<"resume">> BY <1>4 DEF MapKey
    <2> QED BY <1>1, <1>2, <2>1, Zenon
  <1>5. CASE b = "t"
    <2>1. MapKey(b) = <<"terminate">> BY <1>5 DEF MapKey
    <2> QED BY <1>1, <1>2, <2>1, Zenon
  <1>6. CASE b \in {"q", "ctrl-c"}
    <2>1. MapKey(b) = <<"quit">> BY <1>6 DEF MapKey
    <2> QED BY <1>1, <1>2, <2>1, Zenon
  <1>7. CASE b \notin {"p", "r", "t", "q", "ctrl-c"}
    BY <1>7 DEF MapKey
  <1> QED BY <1>3, <1>4, <1>5, <1>6, <1>7

LEMMA MappedType ==
    ASSUME NEW bytes \in Seq(Words)
    PROVE  Mapped(bytes) \in Seq(Words)
  <1>1. [k \in 1..Len(bytes) |-> MapKey(bytes[k])] \in Seq(Seq(Words))
    BY MapKeyType
  <1> QED BY <1>1, FlattenType DEF Mapped

LEMMA MappedAppend ==
    ASSUME NEW bytes \in Seq(Words), NEW b \in Words
    PROVE  Mapped(Append(bytes, b)) = Mapped(bytes) \o MapKey(b)
  <1> DEFINE s == [k \in 1..Len(bytes) |-> MapKey(bytes[k])]
             t == [k \in 1..Len(Append(bytes, b)) |->
                      MapKey(Append(bytes, b)[k])]
  <1>1. s \in Seq(Seq(Words)) /\ Len(s) = Len(bytes)
    BY MapKeyType
  <1>2. MapKey(b) \in Seq(Words)
    BY MapKeyType
  <1>0. /\ Append(bytes, b) \in Seq(Words)
        /\ Len(Append(bytes, b)) = Len(bytes) + 1 /\ Len(bytes) \in Nat
        /\ \A k \in 1..Len(bytes) : Append(bytes, b)[k] = bytes[k]
        /\ Append(bytes, b)[Len(bytes) + 1] = b
    OBVIOUS
  <1>3. t \in Seq(Seq(Words)) /\ Len(t) = Len(bytes) + 1
    BY <1>0, MapKeyType
  <1>4. /\ \A k \in 1..Len(bytes) : t[k] = s[k]
        /\ t[Len(bytes) + 1] = MapKey(b)
    BY <1>0
  <1>5. t = Append(s, MapKey(b))
    <2> HIDE DEF s, t
    <2> DEFINE u == Append(s, MapKey(b))
    <2>1. u \in Seq(Seq(Words)) /\ Len(u) = Len(t)
      BY <1>1, <1>2, <1>3
    <2>3. ASSUME NEW k \in 1..Len(t) PROVE u[k] = t[k]
      <3>1. /\ \A j \in 1..Len(s) : u[j] = s[j]
            /\ u[Len(s) + 1] = MapKey(b)
        BY <1>1, <1>2
      <3>2. k \in 1..Len(s) \/ k = Len(s) + 1
        BY <1>0, <1>1, <1>3
      <3> HIDE DEF u
      <3> QED BY <1>1, <1>4, <3>1, <3>2
    <2> HIDE DEF u
    <2>2. t = u
      BY <1>3, <2>1, <2>3, SeqEqual
    <2> QED BY <2>2 DEF u
  <1> HIDE DEF s, t
  <1>6. FlattenSeq(t) = FlattenSeq(s) \o MapKey(b)
    BY <1>1, <1>2, <1>5, FlattenAppend
  <1> QED BY <1>6, Zenon DEF Mapped, s, t

LEMMA MappedHead ==
    ASSUME NEW bytes \in Seq(Words), bytes # <<>>
    PROVE  Mapped(bytes) = MapKey(Head(bytes)) \o Mapped(Tail(bytes))
  <1> DEFINE s == [k \in 1..Len(bytes) |-> MapKey(bytes[k])]
             t == [k \in 1..Len(Tail(bytes)) |-> MapKey(Tail(bytes)[k])]
  <1>0. /\ Tail(bytes) \in Seq(Words) /\ Len(bytes) \in Nat \ {0}
        /\ Len(Tail(bytes)) = Len(bytes) - 1
        /\ Head(bytes) = bytes[1]
        /\ \A k \in 1..Len(Tail(bytes)) : Tail(bytes)[k] = bytes[k + 1]
    BY HeadTailProperties, EmptySeq
  <1>1. /\ s \in Seq(Seq(Words)) /\ Len(s) = Len(bytes) /\ s # <<>>
        /\ Head(s) = MapKey(Head(bytes))
    BY <1>0, MapKeyType
  <1>2. /\ t \in Seq(Seq(Words)) /\ Len(t) = Len(bytes) - 1
        /\ \A k \in 1..Len(t) : t[k] = s[k + 1]
    <2>1. t \in Seq(Seq(Words)) /\ Len(t) = Len(bytes) - 1
      BY <1>0, MapKeyType
    <2>2. ASSUME NEW k \in 1..Len(t) PROVE t[k] = s[k + 1]
      <3>1. k \in 1..Len(Tail(bytes)) /\ k + 1 \in 1..Len(bytes)
        BY <1>0, <2>1
      <3>2. Tail(bytes)[k] = bytes[k + 1]
        BY <1>0, <3>1
      <3>3. t[k] = MapKey(Tail(bytes)[k]) /\ s[k + 1] = MapKey(bytes[k + 1])
        BY <3>1
      <3> QED BY <3>2, <3>3, Zenon
    <2> QED BY <2>1, <2>2
  <1>3. t = Tail(s)
    <2> HIDE DEF s, t
    <2> DEFINE u == Tail(s)
    <2>0. /\ u \in Seq(Seq(Words)) /\ Len(u) = Len(s) - 1
          /\ \A k \in 1..Len(u) : u[k] = s[k + 1]
      <3> DEFINE S == Seq(Words)
      <3>1. s \in Seq(S) /\ s # <<>>
        BY <1>1
      <3> HIDE DEF S
      <3>2. /\ Tail(s) \in Seq(S) /\ Len(Tail(s)) = Len(s) - 1
            /\ \A k \in 1..Len(Tail(s)) : Tail(s)[k] = s[k + 1]
        BY <3>1, HeadTailProperties
      <3> QED BY <3>2 DEF S
    <2> HIDE DEF u
    <2>1. /\ u \in Seq(Seq(Words)) /\ Len(u) = Len(t)
          /\ \A k \in 1..Len(t) : u[k] = t[k]
      BY <1>1, <1>2, <2>0
    <2>2. t = u
      BY <1>2, <2>1, SeqEqual
    <2> QED BY <2>2 DEF u
  <1> HIDE DEF s, t
  <1>4. FlattenSeq(s) = Head(s) \o FlattenSeq(Tail(s))
    BY <1>1, FlattenHead
  <1> QED BY <1>1, <1>3, <1>4, Zenon DEF Mapped, s, t

LEMMA KeyTypes ==
    ASSUME KeyInv
    PROVE  /\ InHand \in Seq(Words) /\ Offered \in Seq(Words)
           /\ Mapped(tty) \in Seq(Words) /\ MapKey(byte) \in Seq(Words)
  <1>1. MapKey(byte) \in Seq(Words)
    BY MapKeyType
  <1>2. <<>> \in Seq(Words) /\ <<event>> \in Seq(Words)
    BY DEF KeyInv
  <1>3. Mapped(tty) \in Seq(Words)
    BY MappedType DEF KeyInv
  <1> QED BY <1>1, <1>2, <1>3 DEF InHand, Offered

LEMMA KeyInit == Init => KeyInv
  <1> SUFFICES ASSUME Init PROVE KeyInv
    OBVIOUS
  <1>1. [k \in 1..Len(<<>>) |-> MapKey(<<>>[k])] = <<>>
    OBVIOUS
  <1>2. Mapped(<<>>) = <<>>
    BY <1>1 DEF Mapped, FlattenSeq
  <1>3. Offered = <<>> /\ InHand = <<>>
    BY DEF Init, Offered, InHand
  <1>4. (<<>> \o <<>>) \o (<<>> \o <<>>) = <<>>
    OBVIOUS
  <1>5. Mapped(typed) = <<>> /\ Mapped(tty) = <<>> /\ taken = <<>>
    BY <1>2 DEF Init
  <1>6. None \in Words
    BY DEF Words
  <1> QED BY <1>3, <1>4, <1>5, <1>6 DEF Init, KeyInv

LEMMA KeyStep == KeyInv /\ [Next]_vars => KeyInv'
  <1> SUFFICES ASSUME KeyInv, [Next]_vars PROVE KeyInv'
    OBVIOUS
  <1> USE DEF KeyInv, keyboard, planner, progress, animator, display
  <1>t. /\ InHand \in Seq(Words) /\ Offered \in Seq(Words)
        /\ Mapped(tty) \in Seq(Words) /\ MapKey(byte) \in Seq(Words)
    BY KeyTypes
  <1>1. ASSUME UNCHANGED <<typed, tty, byte, event, taken, rpc, mpc, cancelled>>,
               UNCHANGED pc \/ pc' \notin {"left", "exited"}
        PROVE  KeyInv'
    BY <1>1 DEF InHand, Offered, Mapped
  <1>2. CASE TypeKey
    <2>1. PICK b \in Bytes : typed' = Append(typed, b) /\ tty' = Append(tty, b)
      BY <1>2, Zenon DEF TypeKey
    <2>2. UNCHANGED <<byte, event, taken, rpc, mpc, cancelled, pc>>
      BY <1>2 DEF TypeKey
    <2>3. b \in Words /\ MapKey(b) \in Seq(Words)
      BY MapKeyType DEF Words
    <2>4. /\ typed' \in Seq(Words) /\ tty' \in Seq(Words)
          /\ Mapped(typed') = Mapped(typed) \o MapKey(b)
          /\ Mapped(tty') = Mapped(tty) \o MapKey(b)
      <3>1. typed \in Seq(Words) /\ tty \in Seq(Words)
        OBVIOUS
      <3>2. /\ Mapped(Append(typed, b)) = Mapped(typed) \o MapKey(b)
            /\ Mapped(Append(tty, b)) = Mapped(tty) \o MapKey(b)
        BY <2>3, <3>1, MappedAppend, Zenon
      <3>3. Append(typed, b) \in Seq(Words) /\ Append(tty, b) \in Seq(Words)
        BY <2>3, <3>1
      <3> QED BY <2>1, <3>2, <3>3, Zenon
    <2>5. InHand' = InHand /\ Offered' = Offered
      BY <2>2 DEF InHand, Offered
    <2>6. taken \o Offered \in Seq(Words)
      BY <1>t
    <2>7. ((taken \o Offered) \o (InHand \o Mapped(tty))) \o MapKey(b)
            = (taken \o Offered) \o (InHand \o (Mapped(tty) \o MapKey(b)))
      <3>1. PICK r \in Seq(Words) : r = taken \o Offered
        BY <2>6
      <3>2. PICK h \in Seq(Words), m \in Seq(Words), k \in Seq(Words) :
               h = InHand /\ m = Mapped(tty) /\ k = MapKey(b)
        BY <1>t, <2>3
      <3>3. (r \o (h \o m)) \o k = r \o (h \o (m \o k))
        <4>1. (r \o (h \o m)) \o k = r \o ((h \o m) \o k)
          BY SMTT(30)
        <4>2. (h \o m) \o k = h \o (m \o k)
          BY SMTT(30)
        <4> QED BY <4>1, <4>2
      <3> QED BY <3>1, <3>2, <3>3, Zenon
    <2>8. ~cancelled => Mapped(typed') =
              (taken \o Offered) \o (InHand \o Mapped(tty'))
      BY <2>4, <2>7
    <2>9. Mapped(typed)' = Mapped(typed') /\ Mapped(tty)' = Mapped(tty')
      BY DEF Mapped
    <2> QED BY <2>2, <2>4, <2>5, <2>8, <2>9
  <1>3. CASE ReadByte
    <2>1. /\ rpc = "read" /\ rpc' = "send" /\ tty # <<>>
          /\ byte' = Head(tty) /\ tty' = Tail(tty)
          /\ UNCHANGED <<typed, event, taken, mpc, cancelled, pc>>
      BY <1>3 DEF ReadByte
    <2>2. byte' \in Words /\ tty' \in Seq(Words)
      BY <2>1, HeadTailProperties
    <2>3. /\ InHand = <<>> /\ InHand' = MapKey(Head(tty)) /\ Offered' = Offered
      BY <2>1 DEF InHand, Offered, MapKey
    <2>4. <<>> \o Mapped(tty) = Mapped(tty)
      BY <1>t
    <2>5. Mapped(tty) = MapKey(Head(tty)) \o Mapped(tty')
      BY <2>1, MappedHead
    <2>6. Mapped(typed)' = Mapped(typed) /\ Mapped(tty)' = Mapped(tty')
      BY <2>1 DEF Mapped
    <2> QED BY <2>1, <2>2, <2>3, <2>4, <2>5, <2>6
  <1>4. CASE PassByte
    <2>1. /\ rpc = "send" /\ rpc' = "read" /\ mpc = "receive"
          /\ IF MapKey(byte) = <<>>
             THEN UNCHANGED <<mpc, event>>
             ELSE mpc' = "send" /\ event' = Head(MapKey(byte))
          /\ UNCHANGED <<typed, tty, byte, taken, cancelled, pc>>
      BY <1>4 DEF PassByte, MapperReady
    <2>2. Mapped(typed)' = Mapped(typed) /\ Mapped(tty)' = Mapped(tty)
      BY <2>1 DEF Mapped
    <2>3. InHand = MapKey(byte) /\ InHand' = <<>> /\ Offered = <<>>
      BY <2>1 DEF InHand, Offered
    <2>4. event' \in Words
      BY <2>1, MapKeyType
    <2>5. Offered' = MapKey(byte)
      BY <2>1, MapKeyType DEF Offered
    <2>6. (taken \o <<>>) \o (MapKey(byte) \o Mapped(tty))
             = (taken \o MapKey(byte)) \o (<<>> \o Mapped(tty))
      <3>1. taken \o <<>> = taken /\ <<>> \o Mapped(tty) = Mapped(tty)
        BY <1>t
      <3>2. ASSUME NEW r \in Seq(Words), NEW s \in Seq(Words),
                   NEW t \in Seq(Words)
            PROVE  r \o (s \o t) = (r \o s) \o t
        OBVIOUS
      <3>3. taken \o (MapKey(byte) \o Mapped(tty))
               = (taken \o MapKey(byte)) \o Mapped(tty)
        BY <1>t, <3>2, Zenon
      <3> QED BY <3>1, <3>3
    <2> QED BY <2>1, <2>2, <2>3, <2>4, <2>5, <2>6
  <1>5. CASE PassEvent
    <2>1. /\ mpc = "send" /\ mpc' = "receive" /\ taken' = Append(taken, event)
          /\ UNCHANGED <<typed, tty, byte, event, rpc, cancelled, pc>>
      BY <1>5 DEF PassEvent
    <2>2. Mapped(typed)' = Mapped(typed) /\ Mapped(tty)' = Mapped(tty)
      BY <2>1 DEF Mapped
    <2>3. InHand' = InHand /\ Offered = <<event>> /\ Offered' = <<>>
      BY <2>1 DEF InHand, Offered
    <2>4. taken' \in Seq(Words)
      BY <2>1
    <2>5. taken' \o <<>> = taken \o <<event>>
      BY <2>1
    <2> QED BY <2>1, <2>2, <2>3, <2>4, <2>5
  <1>6. CASE ReaderEnds
    <2>1. CASE cancelled
      BY <1>6, <2>1 DEF ReaderEnds
    <2>2. CASE ~cancelled
      <3>1. /\ rpc = "read" /\ rpc' = "gone"
            /\ UNCHANGED <<typed, tty, byte, event, taken, mpc, cancelled, pc>>
        BY <1>6, <2>2 DEF ReaderEnds
      <3>2. InHand' = InHand /\ Offered' = Offered
        BY <3>1 DEF InHand, Offered
      <3>3. Mapped(typed)' = Mapped(typed) /\ Mapped(tty)' = Mapped(tty)
        BY <3>1 DEF Mapped
      <3> QED BY <3>1, <3>2, <3>3
    <2> QED BY <2>1, <2>2
  <1>7. CASE MapperEnds
    <2>1. CASE cancelled
      BY <1>7, <2>1 DEF MapperEnds
    <2>2. CASE ~cancelled
      <3>1. /\ mpc = "receive" /\ mpc' = "gone"
            /\ UNCHANGED <<typed, tty, byte, event, taken, rpc, cancelled, pc>>
        BY <1>7, <2>2 DEF MapperEnds
      <3>2. InHand' = InHand /\ Offered' = Offered
        BY <3>1 DEF InHand, Offered
      <3>3. Mapped(typed)' = Mapped(typed) /\ Mapped(tty)' = Mapped(tty)
        BY <3>1 DEF Mapped
      <3> QED BY <3>1, <3>2, <3>3
    <2> QED BY <2>1, <2>2
  <1>8. CASE Signal \/ LeaveRun
    BY <1>8 DEF Signal, LeaveRun
  <1>9. CASE Exit
    BY <1>9 DEF Exit
  <1>10. CASE HangUp \/ Animator \/ Restore \/ Terminated \/ UNCHANGED vars
    <2>1. UNCHANGED <<typed, tty, byte, event, taken, rpc, mpc, cancelled, pc>>
      BY <1>10 DEF HangUp, Animator, Tick, Lock, Draw, AnimatorEnds, Restore,
         Terminated, vars
    <2> QED BY <1>1, <2>1
  <1>11. CASE PassImplemented \/ SkipFeature \/ StartFeature \/ BeginAttempt
              \/ EndAttempt \/ RetryFeature \/ FinishFeature \/ LeaveProcess
              \/ CloseStop \/ FinishStop
    <2>1. UNCHANGED <<typed, tty, byte, event, taken, rpc, mpc, cancelled>>
      BY <1>11
      DEF PassImplemented, SkipFeature, StartFeature, BeginAttempt, EndAttempt,
          RetryFeature, FinishFeature, LeaveProcess, CloseStop, FinishStop
    <2>2. UNCHANGED pc \/ pc' \notin {"left", "exited"}
      BY <1>11
      DEF PassImplemented, SkipFeature, StartFeature, BeginAttempt, EndAttempt,
          RetryFeature, FinishFeature, LeaveProcess, CloseStop, FinishStop
    <2> QED BY <1>1, <2>1, <2>2
  <1> QED
    BY <1>2, <1>3, <1>4, <1>5, <1>6, <1>7, <1>8, <1>9, <1>10, <1>11
    DEF Next, Listener, Planner

\* For all bytes and any number of them: until ctx is cancelled no key is lost,
\* doubled or overtaken on its way to the planner.
THEOREM KeysConservedHolds == Spec => []KeysConserved
  <1>1. KeyInv => KeysConserved
    <2> SUFFICES ASSUME KeyInv, ~cancelled
                 PROVE  Mapped(typed)
                          = ((taken \o Offered) \o InHand) \o Mapped(tty)
      BY DEF KeysConserved, Offered, InHand
    <2>1. /\ taken \in Seq(Words) /\ Offered \in Seq(Words)
          /\ InHand \in Seq(Words) /\ Mapped(tty) \in Seq(Words)
          /\ Mapped(typed) = (taken \o Offered) \o (InHand \o Mapped(tty))
      BY KeyTypes DEF KeyInv
    <2>2. ASSUME NEW r \in Seq(Words), NEW s \in Seq(Words),
                 NEW t \in Seq(Words)
          PROVE  r \o (s \o t) = (r \o s) \o t
      OBVIOUS
    <2>3. taken \o Offered \in Seq(Words)
      BY <2>1
    <2> QED BY <2>1, <2>2, <2>3, Zenon
  <1> QED BY <1>1, KeyInit, KeyStep, PTL DEF Spec
=============================================================================
