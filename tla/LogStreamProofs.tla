--------------------------- MODULE LogStreamProofs ---------------------------
(***************************************************************************)
(* The live log for any number of lines, connections and faults: over one  *)
(* connection the lines arrive in order, none twice and none left out; and *)
(* a stream that streamLogs closes by itself has sent everything, whatever *)
(* number of idle polls (at least one) it waits for.                       *)
(***************************************************************************)
EXTENDS LogStream, RecursionLemmas, FiniteSetTheorems

\* An idle poll is counted only when the run is over; so when one was counted
\* before, the lines that the present poll did not find will never come.
IdleInv ==
    /\ idle \in Nat
    /\ idle > 0 => status # "running"
    /\ idle > 0 /\ spc = "check" => UnseenLines = {}

LEMMA IdleInit == Init => IdleInv
BY DEF Init, IdleInv

LEMMA IdleStep == IdleInv /\ [Next]_vars => IdleInv'
<1> SUFFICES ASSUME IdleInv, [Next]_vars PROVE IdleInv'
  OBVIOUS
<1> USE DEF IdleInv, UnseenLines, Unseen, writer, server, client
<1>1. CASE AppendLogLine BY <1>1 DEF AppendLogLine
<1>2. CASE OtherRunAppends BY <1>2 DEF OtherRunAppends
<1>3. CASE EndRun BY <1>3 DEF EndRun, RunStatuses
<1>4. CASE SendLines BY <1>4 DEF SendLines
<1>5. CASE NothingNew BY <1>5 DEF NothingNew
<1>6. CASE ListFails BY <1>6 DEF ListFails
<1>7. CASE RunGoesOn BY <1>7 DEF RunGoesOn
<1>8. CASE IdleTick BY <1>8 DEF IdleTick, IsOver
<1>9. CASE CloseStream BY <1>9 DEF CloseStream, IsOver
<1>10. CASE CheckFails BY <1>10 DEF CheckFails
<1>11. CASE PollAgain BY <1>11 DEF PollAgain
<1>12. CASE OpenPage BY <1>12 DEF OpenPage
<1>13. CASE Connect \/ ConnectRefused BY <1>13 DEF Connect, ConnectRefused
<1>14. CASE Receive BY <1>14 DEF Receive
<1>15. CASE Disconnect BY <1>15 DEF Disconnect
<1>16. CASE ClosePage BY <1>16 DEF ClosePage
<1>17. CASE StopServer \/ StartServer BY <1>17 DEF StopServer, StartServer
<1>18. CASE ExitServer BY <1>18 DEF ExitServer
<1>19. CASE UNCHANGED vars BY <1>19 DEF vars
<1> QED
  BY <1>1, <1>2, <1>3, <1>4, <1>5, <1>6, <1>7, <1>8, <1>9, <1>10, <1>11,
     <1>12, <1>13, <1>14, <1>15, <1>16, <1>17, <1>18, <1>19 DEF Next, StreamLogs

\* For every Grace: a stream closed by itself has sent every line of the run.
THEOREM ClosedStreamIsCompleteHolds == Spec => ClosedStreamIsComplete
<1>1. IdleInv /\ [Next]_vars
        => [CloseStream => ~\E id \in log : id > lastId]_vars
  <2> SUFFICES ASSUME IdleInv, CloseStream
               PROVE  ~\E id \in log : id > lastId
    OBVIOUS
  <2>1. idle > 0
    BY GraceAssumption DEF IdleInv, CloseStream, MayClose
  <2> QED BY <2>1 DEF IdleInv, CloseStream, UnseenLines, Unseen
<1> QED BY IdleInit, IdleStep, <1>1, PTL DEF Spec, ClosedStreamIsComplete

-----------------------------------------------------------------------------
(* InOrder: each finite set of ids has exactly one list.                   *)
Ascends(s) == \A j, k \in 1..Len(s) : j < k => s[j] < s[k]
Lists(s, ids) ==
    /\ s \in Seq(Nat) /\ Ascends(s)
    /\ \A j \in 1..Len(s) : s[j] \in ids
    /\ \A id \in ids : \E j \in 1..Len(s) : s[j] = id

\* When two lists of the same ids agree up to k, the next id of the one has a
\* place in the other, which is not before k + 1.
LEMMA NextListed ==
    ASSUME NEW ids, NEW u, NEW v, Lists(u, ids), Lists(v, ids), NEW k \in Nat,
           k + 1 \in 1..Len(u),
           \A j \in 1..k : j \in 1..Len(v) => j \in 1..Len(u) /\ u[j] = v[j]
    PROVE  k + 1 \in 1..Len(v) /\ u[k + 1] >= v[k + 1]
<1>0. Len(u) \in Nat /\ Len(v) \in Nat
  BY DEF Lists
<1>1. /\ \A i, j \in 1..Len(u) : i < j => u[i] < u[j]
      /\ \A i, j \in 1..Len(v) : i < j => v[i] < v[j]
  BY DEF Lists, Ascends
<1>2. \A j \in 1..Len(u) : u[j] \in Nat
  BY DEF Lists
<1>3. \A j \in 1..Len(v) : v[j] \in Nat
  BY DEF Lists
<1>4. PICK j \in 1..Len(v) : v[j] = u[k + 1]
  BY DEF Lists
<1>5. ~(j <= k)
  <2> SUFFICES ASSUME j <= k PROVE FALSE
    OBVIOUS
  <2>1. j \in 1..k /\ j < k + 1
    BY <1>0
  <2>2. j \in 1..Len(u) /\ u[j] = v[j]
    BY <2>1
  <2>3. u[j] < u[k + 1]
    BY <1>1, <2>1, <2>2
  <2> QED BY <1>2, <1>4, <2>2, <2>3
<1>6. k + 1 \in 1..Len(v) /\ (k + 1 < j \/ k + 1 = j)
  BY <1>0, <1>5
<1>7. CASE k + 1 = j
  BY <1>3, <1>4, <1>6, <1>7
<1>8. CASE k + 1 < j
  <2>1. v[k + 1] < v[j]
    BY <1>1, <1>6, <1>8
  <2>2. v[k + 1] \in Nat /\ v[j] \in Nat
    BY <1>3, <1>6
  <2> QED BY <1>4, <1>6, <2>1, <2>2
<1> QED BY <1>6, <1>7, <1>8

\* There is only one list of given ids.
LEMMA ListsAgree ==
    ASSUME NEW ids, NEW s, NEW t, Lists(s, ids), Lists(t, ids)
    PROVE  s = t
<1>0. /\ Len(s) \in Nat /\ Len(t) \in Nat
      /\ s \in Seq(Nat) /\ t \in Seq(Nat)
  BY DEF Lists
<1> DEFINE Same(j) == /\ j \in 1..Len(s) <=> j \in 1..Len(t)
                      /\ j \in 1..Len(s) => s[j] = t[j]
           K == {k \in Nat : \A j \in 1..k : Same(j)}
<1>1. 0 \in K
  OBVIOUS
<1>2. ASSUME NEW k \in Nat, k \in K PROVE k + 1 \in K
  <2>1. \A j \in 1..k : Same(j)
    BY <1>2
  <2>2. k + 1 \in 1..Len(s) => k + 1 \in 1..Len(t) /\ s[k + 1] >= t[k + 1]
    BY <2>1, NextListed
  <2>3. k + 1 \in 1..Len(t) => k + 1 \in 1..Len(s) /\ t[k + 1] >= s[k + 1]
    BY <2>1, NextListed
  <2>4. k + 1 \in 1..Len(s) => s[k + 1] \in Nat
    BY <1>0
  <2>5. k + 1 \in 1..Len(t) => t[k + 1] \in Nat
    BY <1>0
  <2>6. Same(k + 1)
    BY <2>2, <2>3, <2>4, <2>5
  <2>7. \A j \in 1..k + 1 : j \in 1..k \/ j = k + 1
    OBVIOUS
  <2> HIDE DEF Same
  <2> QED BY <2>1, <2>6, <2>7
<1> HIDE DEF K
<1>3. Nat \subseteq K
  BY <1>1, <1>2, NatSetInduction
<1>4. ASSUME NEW j \in Nat, j # 0 PROVE Same(j)
  <2>1. j \in K /\ j \in 1..j
    BY <1>3, <1>4
  <2> HIDE DEF Same
  <2> QED BY <2>1 DEF K
<1>5. Same(Len(s)) \/ Len(s) = 0
  BY <1>0, <1>4
<1>6. Same(Len(t)) \/ Len(t) = 0
  BY <1>0, <1>4
<1>7. Len(s) = Len(t)
  BY <1>0, <1>5, <1>6
<1>8. \A j \in 1..Len(s) : s[j] = t[j]
  BY <1>0, <1>4
<1> QED BY <1>0, <1>7, <1>8, SeqEqual

LEMMA ListExists ==
    ASSUME NEW n \in Nat, NEW ids \in SUBSET (1..n)
    PROVE  \E s \in Seq(Nat) : Lists(s, ids)
<1> DEFINE K == {m \in Nat : \A S \in SUBSET (1..m) :
                                \E s \in Seq(Nat) : Lists(s, S)}
<1>1. 0 \in K
  <2>1. ASSUME NEW S \in SUBSET (1..0)
        PROVE  \E s \in Seq(Nat) : Lists(s, S)
    <3>1. <<>> \in Seq(Nat) /\ Lists(<<>>, S)
      BY DEF Lists, Ascends
    <3> QED BY <3>1
  <2> QED BY <2>1
<1>2. ASSUME NEW m \in Nat, m \in K PROVE m + 1 \in K
  <2>1. ASSUME NEW S \in SUBSET (1..m + 1)
        PROVE  \E s \in Seq(Nat) : Lists(s, S)
    <3> DEFINE R == S \ {m + 1}
    <3>1. R \in SUBSET (1..m)
      OBVIOUS
    <3>2. PICK s \in Seq(Nat) : Lists(s, R)
      BY <1>2, <3>1
    <3>3. CASE m + 1 \notin S
      BY <3>2, <3>3
    <3>4. CASE m + 1 \in S
      <4> DEFINE t == Append(s, m + 1)
      <4>1. /\ t \in Seq(Nat) /\ Len(t) = Len(s) + 1 /\ Len(s) \in Nat
            /\ \A j \in 1..Len(s) : t[j] = s[j]
            /\ t[Len(s) + 1] = m + 1
        BY <3>2
      <4> HIDE DEF t
      <4>2. \A j \in 1..Len(t) : j \in 1..Len(s) \/ j = Len(s) + 1
        BY <4>1
      <4>3. \A j \in 1..Len(s) : s[j] \in S /\ s[j] < m + 1 /\ s[j] \in Nat
        BY <3>1, <3>2 DEF Lists
      <4>4. Ascends(t)
        <5> SUFFICES ASSUME NEW i \in 1..Len(t), NEW j \in 1..Len(t), i < j
                     PROVE  t[i] < t[j]
          BY DEF Ascends
        <5>1. i \in 1..Len(s)
          BY <4>1
        <5>2. CASE j \in 1..Len(s)
          BY <3>2, <4>1, <5>1, <5>2 DEF Lists, Ascends
        <5>3. CASE j = Len(s) + 1
          BY <4>1, <4>3, <5>1, <5>3
        <5> QED BY <4>2, <5>2, <5>3
      <4>5. \A j \in 1..Len(t) : t[j] \in S
        BY <3>4, <4>1, <4>2, <4>3
      <4>6. ASSUME NEW id \in S PROVE \E j \in 1..Len(t) : t[j] = id
        <5>1. CASE id = m + 1
          BY <4>1, <5>1
        <5>2. CASE id # m + 1
          <6>1. PICK j \in 1..Len(s) : s[j] = id
            BY <3>2, <5>2 DEF Lists
          <6> QED BY <4>1, <6>1
        <5> QED BY <5>1, <5>2
      <4> QED BY <4>1, <4>4, <4>5, <4>6 DEF Lists
    <3> QED BY <3>3, <3>4
  <2> QED BY <2>1
<1> HIDE DEF K
<1>3. Nat \subseteq K
  BY <1>1, <1>2, NatSetInduction
<1> QED BY <1>3 DEF K

\* InOrder gives that list.
LEMMA InOrderLists ==
    ASSUME NEW n \in Nat, NEW ids \in SUBSET (1..n)
    PROVE  Lists(InOrder(ids), ids)
<1>1. PICK s \in Seq(Nat) : Lists(s, ids)
  BY ListExists
<1> DEFINE c == Cardinality(ids)
<1>2. IsFiniteSet(ids)
  <2>1. 1 \in Int /\ n \in Int
    OBVIOUS
  <2>2. IsFiniteSet(1..n)
    BY <2>1, FS_Interval, Zenon
  <2> QED BY <2>2, FS_Subset, Zenon
<1>3. c = Len(s) /\ c \in Nat
  <2>1. /\ s \in [1..Len(s) -> ids]
        /\ \A i, j \in 1..Len(s) : s[i] = s[j] => i = j
        /\ \A id \in ids : \E j \in 1..Len(s) : s[j] = id
    <3>1. \A i, j \in 1..Len(s) : s[i] = s[j] => i = j
      <4> SUFFICES ASSUME NEW i \in 1..Len(s), NEW j \in 1..Len(s), s[i] = s[j], i # j
                   PROVE  FALSE
        OBVIOUS
      <4>1. s[i] \in Nat /\ s[j] \in Nat /\ i \in Nat /\ j \in Nat
        OBVIOUS
      <4>2. i < j \/ j < i
        BY <4>1
      <4> QED BY <1>1, <4>1, <4>2 DEF Lists, Ascends
    <3>2. s \in [1..Len(s) -> ids]
      BY <1>1 DEF Lists
    <3> QED BY <1>1, <3>1, <3>2 DEF Lists
  <2>2. s \in Bijection(1..Len(s), ids)
    BY <2>1, Zenon DEF Bijection, Injection, Surjection, IsInjective
  <2>3. ExistsBijection(1..Len(s), ids)
    BY <2>2 DEF ExistsBijection
  <2> QED BY <2>3, FS_CountingElements
<1>4. s \in [1..c -> ids] /\ \A j, k \in 1..c : j < k => s[j] < s[k]
  BY <1>1, <1>3 DEF Lists, Ascends
<1> DEFINE t == InOrder(ids)
<1>5. t \in [1..c -> ids] /\ \A j, k \in 1..c : j < k => t[j] < t[k]
  BY <1>4 DEF InOrder
<1> HIDE DEF t
<1>6. t \in Seq(Nat) /\ Len(t) = c
  <2>1. ids \subseteq Nat
    OBVIOUS
  <2> HIDE DEF c
  <2>2. t \in [1..c -> Nat]
    BY <1>5, <2>1
  <2> QED BY <1>3, <2>2
<1>7. \A id \in ids : \E j \in 1..c : t[j] = id
  <2>1. \A i, j \in 1..c : t[i] = t[j] => i = j
    <3> SUFFICES ASSUME NEW i \in 1..c, NEW j \in 1..c, t[i] = t[j], i # j
                 PROVE  FALSE
      OBVIOUS
    <3>1. t[i] \in Nat /\ t[j] \in Nat /\ i \in Nat /\ j \in Nat
      BY <1>6
    <3>2. i < j \/ j < i
      BY <3>1
    <3> QED BY <1>5, <3>1, <3>2
  <2>2. t \in Injection(1..c, ids)
    BY <1>5, <2>1, Zenon DEF Injection, IsInjective
  <2>3. Cardinality(1..c) = c
    <3>1. \A m \in Nat : Cardinality(1..m) = m
      BY FS_Interval
    <3> QED BY <1>3, <3>1, Zenon
  <2>4. t \in Surjection(1..c, ids)
    BY <1>2, <2>2, <2>3, FS_Injection, Zenon
  <2> QED BY <2>4 DEF Surjection
<1>8. Lists(t, ids)
  BY <1>5, <1>6, <1>7 DEF Lists, Ascends
<1> QED BY <1>8 DEF t

\* The list of ids followed by later ones is the list of both.
LEMMA InOrderUnion ==
    ASSUME NEW n \in Nat, NEW old \in SUBSET (1..n), NEW new \in SUBSET (1..n),
           \A a \in old, b \in new : a < b
    PROVE  InOrder(old \cup new) = InOrder(old) \o InOrder(new)
<1>1. PICK s, t : s = InOrder(old) /\ t = InOrder(new)
  OBVIOUS
<1>2. Lists(s, old) /\ Lists(t, new)
  BY <1>1, InOrderLists
<1> DEFINE u == s \o t
<1>3. /\ u \in Seq(Nat) /\ Len(u) = Len(s) + Len(t)
      /\ Len(s) \in Nat /\ Len(t) \in Nat
      /\ \A j \in 1..Len(s) : u[j] = s[j]
      /\ \A j \in 1..Len(t) : u[Len(s) + j] = t[j]
  BY <1>2 DEF Lists
<1> HIDE DEF u
<1>4. ASSUME NEW j \in 1..Len(u), j \notin 1..Len(s)
      PROVE  j - Len(s) \in 1..Len(t) /\ u[j] = t[j - Len(s)]
  <2>1. j - Len(s) \in 1..Len(t) /\ Len(s) + (j - Len(s)) = j
    BY <1>3, <1>4
  <2> QED BY <1>3, <2>1
<1>5. \A j \in 1..Len(s) : s[j] \in old
  BY <1>2 DEF Lists
<1>6. \A j \in 1..Len(t) : t[j] \in new
  BY <1>2 DEF Lists
<1>7. ASSUME NEW i \in 1..Len(u), NEW j \in 1..Len(u), i < j
      PROVE  u[i] < u[j]
  <2>1. CASE j \in 1..Len(s)
    <3>1. i \in 1..Len(s)
      BY <1>3, <1>7, <2>1
    <3> QED BY <1>2, <1>3, <1>7, <2>1, <3>1 DEF Lists, Ascends
  <2>2. CASE i \in 1..Len(s) /\ j \notin 1..Len(s)
    BY <1>3, <1>4, <1>5, <1>6, <2>2
  <2>3. CASE i \notin 1..Len(s) /\ j \notin 1..Len(s)
    <3>1. i - Len(s) < j - Len(s)
      BY <1>3, <1>7
    <3> QED BY <1>2, <1>4, <2>3, <3>1 DEF Lists, Ascends
  <2>4. i \in 1..Len(s) \/ j \notin 1..Len(s)
    BY <1>3, <1>7
  <2> QED BY <2>1, <2>2, <2>3, <2>4
<1>8. \A j \in 1..Len(u) : u[j] \in old \cup new
  BY <1>3, <1>4, <1>5, <1>6
<1>9. ASSUME NEW id \in old \cup new PROVE \E j \in 1..Len(u) : u[j] = id
  <2>1. CASE id \in old
    <3>1. PICK j \in 1..Len(s) : s[j] = id
      BY <1>2, <2>1 DEF Lists
    <3>2. j \in 1..Len(u) /\ u[j] = id
      BY <1>3, <3>1
    <3> QED BY <3>2
  <2>2. CASE id \in new
    <3>1. PICK j \in 1..Len(t) : t[j] = id
      BY <1>2, <2>2 DEF Lists
    <3>2. Len(s) + j \in 1..Len(u) /\ u[Len(s) + j] = id
      BY <1>3, <3>1
    <3> QED BY <3>2
  <2> QED BY <2>1, <2>2
<1>10. Lists(u, old \cup new)
  BY <1>3, <1>7, <1>8, <1>9 DEF Lists, Ascends
<1>11. Lists(InOrder(old \cup new), old \cup new)
  BY InOrderLists
<1>12. InOrder(old \cup new) = u
  BY <1>10, <1>11, ListsAgree
<1> QED BY <1>1, <1>12 DEF u

\* The last of a list is the latest id.
LEMMA LastIsLatest ==
    ASSUME NEW ids, NEW s, Lists(s, ids), ids # {}
    PROVE  Last(s) \in ids /\ \A id \in ids : id <= Last(s)
<1>1. Len(s) \in 1..Len(s) /\ Len(s) \in Nat
  BY DEF Lists
<1>2. ASSUME NEW id \in ids PROVE id <= s[Len(s)]
  <2>1. PICK j \in 1..Len(s) : s[j] = id
    BY DEF Lists
  <2>2. s[j] \in Nat /\ s[Len(s)] \in Nat
    BY <1>1 DEF Lists
  <2>3. j = Len(s) \/ j < Len(s)
    BY <1>1
  <2> QED BY <1>1, <2>1, <2>2, <2>3 DEF Lists, Ascends
<1> QED BY <1>1, <1>2 DEF Lists, Last

\* The list of no ids, and a list without its order.
LEMMA InOrderNone == InOrder({}) = <<>>
<1>1. Lists(InOrder({}), {})
  <2>1. 0 \in Nat /\ {} \in SUBSET (1..0)
    OBVIOUS
  <2> QED BY <2>1, InOrderLists, Zenon
<1>2. InOrder({}) \in Seq(Nat) /\ Len(InOrder({})) = 0
  BY <1>1 DEF Lists
<1> QED BY <1>2, EmptySeq

-----------------------------------------------------------------------------
(* The stream in order. What was sent over the connection is what the      *)
(* client has and what is on the wire; it ends at lastId, and a line that  *)
(* the planner writes later comes after it.                                *)
Sent == {id \in log : from < id /\ id <= lastId}

StreamShape ==
    /\ nextId \in Nat \ {0} /\ log \in SUBSET (1..nextId - 1)
    /\ from \in Nat /\ lastId \in Nat
    /\ got \in Seq(Nat) /\ wire \in Seq(Seq(Nat))

StreamInv ==
    /\ StreamShape
    /\ page # "streaming" => spc = "closed"
    /\ spc # "closed" =>
           /\ from <= lastId /\ (lastId = from \/ lastId < nextId)
           /\ got \o FlattenSeq(wire) = InOrder(Sent)

LEMMA StreamInit == Init => StreamInv
<1> SUFFICES ASSUME Init PROVE StreamInv
  OBVIOUS
<1>1. nextId = 1 /\ log = {} /\ from = 0 /\ lastId = 0 /\ got = <<>>
      /\ wire = <<>> /\ spc = "closed"
  BY DEF Init
<1>2. StreamShape
  BY <1>1 DEF StreamShape
<1> QED BY <1>1, <1>2 DEF StreamInv

\* A poll adds the lines after lastId.
LEMMA SendKeepsOrder == ASSUME StreamInv, SendLines PROVE StreamInv'
<1>1. /\ spc = "list" /\ spc' = "wait" /\ UnseenLines # {}
      /\ wire' = Append(wire, InOrder(UnseenLines))
      /\ lastId' = Last(InOrder(UnseenLines))
      /\ UNCHANGED <<log, nextId, page, from, got>>
  BY DEF SendLines, NewLines, Seen, writer, client
<1>2. StreamShape /\ from <= lastId /\ got \o FlattenSeq(wire) = InOrder(Sent)
      /\ page = "streaming"
  BY <1>1 DEF StreamInv
<1>3. PICK n \in Nat : n = nextId - 1
  BY <1>2 DEF StreamShape
<1>4. log \in SUBSET (1..n) /\ lastId \in Nat /\ from \in Nat
  BY <1>2, <1>3 DEF StreamShape
<1>5. UnseenLines = {id \in log : id > lastId}
  BY DEF UnseenLines, Unseen
<1>6. UnseenLines \in SUBSET (1..n) /\ Sent \in SUBSET (1..n)
  BY <1>4, <1>5 DEF Sent
<1>7. PICK b : b = InOrder(UnseenLines)
  OBVIOUS
<1>8. Lists(b, UnseenLines)
  BY <1>6, <1>7, InOrderLists
<1>9. /\ lastId' \in UnseenLines
      /\ \A id \in UnseenLines : id <= lastId'
  BY <1>1, <1>7, <1>8, LastIsLatest
<1>10. lastId' \in 1..n /\ lastId' > lastId
  BY <1>5, <1>6, <1>9
<1>11. b \in Seq(Nat) /\ got \in Seq(Nat) /\ wire \in Seq(Seq(Nat))
  BY <1>2, <1>8 DEF Lists, StreamShape
<1>12. Sent' = Sent \cup UnseenLines
  <2>1. Sent' = {id \in log : from < id /\ id <= lastId'}
    BY <1>1 DEF Sent
  <2>2. PICK m \in Nat : m = lastId'
    BY <1>10
  <2>3. ASSUME NEW id \in log
        PROVE  from < id /\ id <= m <=> id \in Sent \/ id \in UnseenLines
    <3>1. id \in Nat /\ lastId < m
      BY <1>4, <1>10, <2>2
    <3>2. id > lastId => id <= m
      BY <1>5, <1>9, <2>2
    <3> QED BY <1>2, <1>4, <1>5, <3>1, <3>2 DEF Sent
  <2>4. Sent \subseteq log /\ UnseenLines \subseteq log
    BY <1>5 DEF Sent
  <2>5. Sent' = {id \in log : from < id /\ id <= m}
    BY <2>1, <2>2
  <2> QED BY <2>3, <2>4, <2>5
<1>13. InOrder(Sent \cup UnseenLines) = InOrder(Sent) \o b
  <2>1. \A i \in Sent, j \in UnseenLines : i < j
    BY <1>4, <1>5, <1>6 DEF Sent
  <2>2. InOrder(Sent \cup UnseenLines) = InOrder(Sent) \o InOrder(UnseenLines)
    BY <1>6, <2>1, InOrderUnion
  <2> QED BY <1>7, <2>2
<1>14. got \o FlattenSeq(wire') = (got \o FlattenSeq(wire)) \o b
  <2>1. FlattenSeq(Append(wire, b)) = FlattenSeq(wire) \o b
    BY <1>11, FlattenAppend
  <2>2. PICK f \in Seq(Nat) : f = FlattenSeq(wire)
    BY <1>11, FlattenType
  <2>3. got \o (f \o b) = (got \o f) \o b
    BY <1>11, SMTT(30)
  <2>4. wire' = Append(wire, b)
    BY <1>1, <1>7
  <2> QED BY <2>1, <2>2, <2>3, <2>4, Zenon
<1>15. (got \o FlattenSeq(wire))' = InOrder(Sent')
  <2>1. (got \o FlattenSeq(wire))' = got \o FlattenSeq(wire')
    BY <1>1
  <2>2. InOrder(Sent') = InOrder(Sent) \o b
    BY <1>12, <1>13, Zenon
  <2> QED BY <1>2, <1>14, <2>1, <2>2, Zenon
<1>16. StreamShape'
  <2>1. wire' \in Seq(Seq(Nat))
    BY <1>1, <1>7, <1>11
  <2>2. lastId' \in Nat
    BY <1>10
  <2> QED BY <1>1, <1>2, <2>1, <2>2 DEF StreamShape
<1>17. from' <= lastId' /\ lastId' < nextId'
  BY <1>1, <1>2, <1>3, <1>4, <1>10 DEF StreamShape
<1>18. page' = "streaming"
  BY <1>1, <1>2
<1> QED BY <1>15, <1>16, <1>17, <1>18 DEF StreamInv

\* Receive moves the first frame from the wire to the end of what was received.
LEMMA ReceiveKeepsOrder == ASSUME StreamInv, Receive PROVE StreamInv'
<1>1. /\ wire # <<>> /\ got' = got \o Head(wire) /\ wire' = Tail(wire)
      /\ UNCHANGED <<log, nextId, page, from, lastId, spc>>
  BY DEF Receive, writer, client, server
<1>2. got \in Seq(Nat) /\ wire \in Seq(Seq(Nat))
  BY DEF StreamInv, StreamShape
<1>3. Head(wire) \in Seq(Nat) /\ Tail(wire) \in Seq(Seq(Nat))
  BY <1>1, <1>2, HeadTailProperties
<1>4. StreamShape'
  <2>1. got' \in Seq(Nat) /\ wire' \in Seq(Seq(Nat))
    BY <1>1, <1>2, <1>3
  <2> QED BY <1>1, <2>1 DEF StreamInv, StreamShape
<1>5. (got \o FlattenSeq(wire))' = got \o FlattenSeq(wire)
  <2>1. FlattenSeq(wire) = Head(wire) \o FlattenSeq(Tail(wire))
    BY <1>1, <1>2, FlattenHead
  <2>2. PICK h \in Seq(Nat), f \in Seq(Nat) :
           h = Head(wire) /\ f = FlattenSeq(Tail(wire))
    BY <1>3, FlattenType
  <2>3. (got \o h) \o f = got \o (h \o f)
    BY <1>2
  <2> QED BY <1>1, <2>1, <2>2, <2>3, Zenon
<1>6. Sent' = Sent
  BY <1>1 DEF Sent
<1> QED BY <1>1, <1>4, <1>5, <1>6 DEF StreamInv

LEMMA StreamStep == StreamInv /\ [Next]_vars => StreamInv'
<1> SUFFICES ASSUME StreamInv, [Next]_vars PROVE StreamInv'
  OBVIOUS
<1> USE DEF writer, server, client
<1>s. StreamShape
  BY DEF StreamInv
<1>1. CASE AppendLogLine
  <2>1. /\ log' = log \cup {nextId} /\ nextId' = nextId + 1
        /\ UNCHANGED <<spc, lastId, wire, page, from, got>>
    BY <1>1 DEF AppendLogLine
  <2>2. StreamShape'
    BY <1>s, <2>1 DEF StreamShape
  <2>3. spc # "closed" => Sent' = Sent
    <3>1. spc # "closed" => ~(from < nextId /\ nextId <= lastId)
      BY <1>s DEF StreamInv, StreamShape
    <3> QED BY <2>1, <3>1 DEF Sent
  <2>4. lastId < nextId => lastId' < nextId'
    BY <1>s, <2>1 DEF StreamShape
  <2> QED BY <2>1, <2>2, <2>3, <2>4 DEF StreamInv
<1>2. CASE OtherRunAppends
  <2>1. /\ nextId' = nextId + 1
        /\ UNCHANGED <<log, spc, lastId, wire, page, from, got>>
    BY <1>2 DEF OtherRunAppends
  <2>2. StreamShape'
    BY <1>s, <2>1 DEF StreamShape
  <2>3. Sent' = Sent /\ (lastId < nextId => lastId' < nextId')
    BY <1>s, <2>1 DEF StreamShape, Sent
  <2> QED BY <2>1, <2>2, <2>3 DEF StreamInv
<1>3. ASSUME UNCHANGED <<log, nextId, lastId, wire, from, got>>,
             \/ UNCHANGED <<spc, page>>
             \/ spc # "closed" /\ UNCHANGED page
             \/ spc = "closed" /\ UNCHANGED spc
      PROVE  StreamInv'
  <2>1. StreamShape' /\ Sent' = Sent
    BY <1>s, <1>3 DEF StreamShape, Sent
  <2> QED BY <1>3, <2>1 DEF StreamInv
<1>4. CASE EndRun \/ StopServer \/ StartServer \/ UNCHANGED vars
  BY <1>3, <1>4 DEF EndRun, StopServer, StartServer, vars
<1>5. CASE NothingNew \/ ListFails \/ RunGoesOn \/ IdleTick \/ CloseStream
           \/ CheckFails \/ PollAgain
  BY <1>3, <1>5 DEF NothingNew, ListFails, RunGoesOn, IdleTick, CloseStream,
     CheckFails, PollAgain
<1>6. CASE ConnectRefused
  BY <1>3, <1>6 DEF ConnectRefused
<1>7. CASE ExitServer
  <2>1. PICK n \in 0..Len(wire) : wire' = SubSeq(wire, 1, n)
    BY <1>7, Zenon DEF ExitServer
  <2>2. spc' = "closed" /\ UNCHANGED <<log, nextId, page, from, lastId, got>>
    BY <1>7 DEF ExitServer
  <2>3. wire' \in Seq(Seq(Nat))
    BY <1>s, <2>1 DEF StreamShape
  <2> QED BY <1>s, <2>2, <2>3 DEF StreamInv, StreamShape
<1>8. CASE OpenPage
  <2>1. /\ page = "closed" /\ from' \in Nat
        /\ UNCHANGED <<log, nextId, lastId, wire, got, spc>>
    BY <1>8, AftersAssumption DEF OpenPage
  <2>2. spc' = "closed"
    BY <2>1 DEF StreamInv
  <2> QED BY <1>s, <2>1, <2>2 DEF StreamInv, StreamShape
<1>9. CASE Connect
  <2>1. /\ page = "streaming" /\ wire = <<>> /\ lastId' = from /\ got' = <<>>
        /\ UNCHANGED <<log, nextId, page, from, wire>>
    BY <1>9 DEF Connect
  <2>2. StreamShape'
    BY <1>s, <2>1 DEF StreamShape
  <2>3. Sent' = {}
    <3>1. Sent' = {id \in log : from < id /\ id <= from}
      BY <2>1 DEF Sent
    <3>2. \A id \in log : ~(from < id /\ id <= from)
      BY <1>s DEF StreamShape
    <3> QED BY <3>1, <3>2
  <2>4. (got \o FlattenSeq(wire))' = <<>>
    <3>1. FlattenSeq(<<>>) = <<>>
      BY DEF FlattenSeq
    <3>2. <<>> \o <<>> = <<>>
      OBVIOUS
    <3>3. got' = <<>> /\ wire' = <<>>
      BY <2>1
    <3> QED BY <3>1, <3>2, <3>3, Zenon
  <2>5. (got \o FlattenSeq(wire))' = InOrder(Sent')
    BY <2>3, <2>4, InOrderNone, Zenon
  <2>6. from' <= lastId' /\ lastId' = from' /\ page' = "streaming"
    BY <1>s, <2>1 DEF StreamShape
  <2> QED BY <2>2, <2>5, <2>6 DEF StreamInv
<1>10. CASE Disconnect \/ ClosePage
  <2>1. wire' = <<>> /\ spc' = "closed" /\ UNCHANGED <<log, nextId, from, lastId, got>>
    BY <1>10 DEF Disconnect, ClosePage
  <2> QED BY <1>s, <2>1 DEF StreamInv, StreamShape
<1> QED
  BY <1>1, <1>2, <1>4, <1>5, <1>6, <1>7, <1>8, <1>9, <1>10, SendKeepsOrder,
     ReceiveKeepsOrder
  DEF Next, StreamLogs

\* For any number of lines, connections and faults: over one connection the
\* lines arrive in the order they were written, none twice and none left out.
THEOREM StreamIsInOrderHolds == Spec => []StreamIsInOrder
<1>1. StreamInv => StreamIsInOrder
  BY DEF StreamInv, StreamIsInOrder, Sent
<1> QED BY StreamInit, StreamStep, <1>1, PTL DEF Spec
=============================================================================
