--------------------------- MODULE RecursionLemmas ---------------------------
(***************************************************************************)
(* What the proofs need of recursive definitions: induction over the       *)
(* naturals for a set (the library's theorems take an operator, which the  *)
(* provers cannot instantiate), that a nonempty set of naturals has a least*)
(* one, that a function can be defined by primitive recursion, and         *)
(* what FlattenSeq, which concatenates a sequence of sequences, makes of   *)
(* one more sequence at either end.                                        *)
(***************************************************************************)
EXTENDS Integers, Sequences, SequencesExt, SequenceTheorems, WellFoundedInduction, TLAPS

-----------------------------------------------------------------------------
(* Induction and recursion over the naturals.                              *)

\* A set that has 0, and n + 1 with every n, has every natural number.
LEMMA NatSetInduction ==
    ASSUME NEW S, 0 \in S, \A n \in Nat : n \in S => n + 1 \in S
    PROVE  Nat \subseteq S
<1> DEFINE T == Nat \ S
           R == OpToRel(<, Nat)
<1> SUFFICES ASSUME T # {} PROVE FALSE
  OBVIOUS
<1>1. IsWellFoundedOn(R, Nat) BY NatLessThanWellFounded
<1>2. T \subseteq Nat OBVIOUS
<1> HIDE DEF R, T
<1>3. PICK n \in T : \A m \in T : ~(<<m, n>> \in R)
  BY <1>1, <1>2, WFMin
<1>4. n \in Nat /\ n # 0 BY <1>3 DEF T
<1>5. n - 1 \in Nat /\ n - 1 \in T BY <1>4, <1>3 DEF T
<1>6. <<n - 1, n>> \in R BY <1>4, <1>5 DEF R, OpToRel
<1> QED BY <1>3, <1>5, <1>6

\* A nonempty set of naturals has a least one.
LEMMA HasLeast ==
    ASSUME NEW T, T \subseteq Nat, T # {}
    PROVE  \E n \in T : \A m \in T : n <= m
<1> DEFINE S == {n \in Nat : \A k \in Nat : k <= n => k \notin T}
<1> SUFFICES ASSUME \A n \in T : \E m \in T : m < n PROVE FALSE
  OBVIOUS
<1>1. 0 \in S OBVIOUS
<1>2. ASSUME NEW n \in Nat, n \in S PROVE n + 1 \in S
  <2>1. \A k \in Nat : k <= n => k \notin T BY <1>2
  <2>2. n + 1 \notin T BY <2>1
  <2> QED BY <2>1, <2>2
<1> HIDE DEF S
<1>3. Nat \subseteq S BY <1>1, <1>2, NatSetInduction
<1>4. PICK n \in T : TRUE OBVIOUS
<1>5. n \in Nat /\ n \in S BY <1>3, <1>4
<1>6. n \notin T BY <1>5 DEF S
<1> QED BY <1>4, <1>6

\* g holds the first values, up to n, of the function that s continues from v.
Continues(g, n, v, s) == g[0] = v /\ \A k \in 0..n - 1 : g[k + 1] = s[g[k]]

\* Two such lists of values agree as far as both go.
LEMMA ContinuesOnce ==
    ASSUME NEW V, NEW v \in V, NEW s \in [V -> V],
           NEW n \in Nat, NEW m \in Nat, n <= m,
           NEW g, NEW h, Continues(g, n, v, s), Continues(h, m, v, s)
    PROVE  \A k \in 0..n : g[k] = h[k]
<1> DEFINE S == {k \in Nat : k <= n => g[k] = h[k]}
<1>1. 0 \in S BY DEF Continues
<1>2. ASSUME NEW k \in Nat, k \in S PROVE k + 1 \in S
  <2> SUFFICES ASSUME k + 1 <= n PROVE g[k + 1] = h[k + 1] OBVIOUS
  <2>1. k \in 0..n - 1 /\ k \in 0..m - 1 /\ k <= n OBVIOUS
  <2>2. g[k] = h[k] BY <1>2, <2>1
  <2>3. g[k + 1] = s[g[k]] /\ h[k + 1] = s[h[k]]
    BY <2>1, Zenon DEF Continues
  <2> QED BY <2>2, <2>3
<1> HIDE DEF S
<1>3. Nat \subseteq S BY <1>1, <1>2, NatSetInduction
<1> QED BY <1>3 DEF S

\* There are such values up to every n.
LEMMA ContinuesExists ==
    ASSUME NEW V, NEW v \in V, NEW s \in [V -> V]
    PROVE  \A n \in Nat : \E g \in [0..n -> V] : Continues(g, n, v, s)
<1> DEFINE S == {n \in Nat : \E g \in [0..n -> V] : Continues(g, n, v, s)}
<1>1. 0 \in S
  <2> DEFINE g == [k \in 0..0 |-> v]
  <2>1. g \in [0..0 -> V] /\ Continues(g, 0, v, s) BY DEF Continues
  <2> QED BY <2>1
<1>2. ASSUME NEW n \in Nat, n \in S PROVE n + 1 \in S
  <2>1. PICK g \in [0..n -> V] : Continues(g, n, v, s) BY <1>2
  <2> DEFINE h == [k \in 0..n + 1 |-> IF k <= n THEN g[k] ELSE s[g[n]]]
  <2>2. h \in [0..n + 1 -> V] OBVIOUS
  <2>3. h[0] = v BY <2>1 DEF Continues
  <2>4. ASSUME NEW k \in 0..(n + 1) - 1 PROVE h[k + 1] = s[h[k]]
    <3>1. CASE k < n
      <4>1. g[k + 1] = s[g[k]]
        <5>1. k \in 0..n - 1 BY <3>1
        <5> QED BY <2>1, <5>1, Zenon DEF Continues
      <4>2. h[k + 1] = g[k + 1] /\ h[k] = g[k] BY <3>1
      <4> QED BY <4>1, <4>2
    <3>2. CASE k = n BY <3>2
    <3> QED BY <3>1, <3>2
  <2>5. Continues(h, n + 1, v, s) BY <2>3, <2>4 DEF Continues
  <2> QED BY <2>2, <2>5
<1> HIDE DEF S
<1>3. Nat \subseteq S BY <1>1, <1>2, NatSetInduction
<1> QED BY <1>3 DEF S

\* f has the value v at 0, and s makes of each value the next one.
Repeats(f, v, s) == f[0] = v /\ \A n \in Nat : f[n + 1] = s[f[n]]

\* A function on the naturals can be defined by primitive recursion.
LEMMA NatFunctionExists ==
    ASSUME NEW V, NEW v \in V, NEW s \in [V -> V]
    PROVE  \E f \in [Nat -> V] : Repeats(f, v, s)
<1> DEFINE G(n) == CHOOSE g \in [0..n -> V] : Continues(g, n, v, s)
           f == [n \in Nat |-> G(n)[n]]
<1>1. \A n \in Nat : G(n) \in [0..n -> V] /\ Continues(G(n), n, v, s)
  BY ContinuesExists
<1> HIDE DEF G
<1>2. f \in [Nat -> V] BY <1>1
<1>3. f[0] = v BY <1>1 DEF Continues
<1>4. ASSUME NEW n \in Nat PROVE f[n + 1] = s[f[n]]
  <2>1. /\ G(n) \in [0..n -> V] /\ Continues(G(n), n, v, s)
        /\ G(n + 1) \in [0..n + 1 -> V]
        /\ Continues(G(n + 1), n + 1, v, s)
    BY <1>1
  <2>2. \A k \in 0..n : G(n)[k] = G(n + 1)[k] BY <2>1, ContinuesOnce
  <2>3. G(n)[n] = G(n + 1)[n] BY <2>2
  <2>4. G(n + 1)[n + 1] = s[G(n + 1)[n]] BY <2>1 DEF Continues
  <2> QED BY <2>3, <2>4
<1> QED BY <1>2, <1>3, <1>4 DEF Repeats

-----------------------------------------------------------------------------
(* Concatenation.                                                          *)

\* f[n] is the concatenation of the first n sequences of seqs, for n \in 1..Len(seqs)
Flattens(f, seqs, n) ==
    f = [i \in 1..n |-> IF i = 1 THEN seqs[i] ELSE f[i - 1] \o seqs[i]]

\* The first concatenation is the first sequence, and each next one is longer
\* by the next sequence.
LEMMA FlattensFacts ==
    ASSUME NEW f, NEW s, NEW n \in Nat, Flattens(f, s, n)
    PROVE  /\ n # 0 => f[1] = s[1]
           /\ \A i \in 1..n : i # n => f[i + 1] = f[i] \o s[i + 1]
<1>1. \A i \in 1..n : f[i] = IF i = 1 THEN s[i] ELSE f[i - 1] \o s[i]
  BY Zenon DEF Flattens
<1>2. n # 0 => f[1] = s[1]
  <2>1. n # 0 => 1 \in 1..n OBVIOUS
  <2> QED BY <1>1, <2>1, Zenon
<1>3. ASSUME NEW i \in 1..n, i # n PROVE f[i + 1] = f[i] \o s[i + 1]
  <2>1. i + 1 \in 1..n /\ i + 1 # 1 /\ (i + 1) - 1 = i BY <1>3
  <2>2. f[i + 1] = f[(i + 1) - 1] \o s[i + 1] BY <1>1, <2>1, Zenon
  <2> QED BY <2>1, <2>2, Zenon
<1> QED BY <1>2, <1>3

\* There is such a function for every sequence of sequences.
LEMMA FlattenExists ==
    ASSUME NEW X, NEW seqs \in Seq(Seq(X))
    PROVE  \E f \in [1..Len(seqs) -> Seq(X)] : Flattens(f, seqs, Len(seqs))
<1> DEFINE S == {n \in Nat : n <= Len(seqs) =>
                    \E f \in [1..n -> Seq(X)] : Flattens(f, seqs, n)}
<1>1. 0 \in S
  <2> DEFINE f == [i \in 1..0 |-> <<>>]
  <2>1. f \in [1..0 -> Seq(X)] /\ Flattens(f, seqs, 0) BY DEF Flattens
  <2> QED BY <2>1
<1>2. ASSUME NEW n \in Nat, n \in S PROVE n + 1 \in S
  <2> SUFFICES ASSUME n + 1 <= Len(seqs)
               PROVE  \E f \in [1..n + 1 -> Seq(X)] : Flattens(f, seqs, n + 1)
    OBVIOUS
  <2>1. PICK f \in [1..n -> Seq(X)] : Flattens(f, seqs, n) BY <1>2
  <2> DEFINE g == [i \in 1..n + 1 |->
                     IF i <= n THEN f[i]
                     ELSE IF n = 0 THEN seqs[i] ELSE f[n] \o seqs[i]]
  <2>2. seqs[n + 1] \in Seq(X) OBVIOUS
  <2>3. n # 0 => f[n] \o seqs[n + 1] \in Seq(X) BY <2>2
  <2>4. g \in [1..n + 1 -> Seq(X)] BY <2>2, <2>3
  <2>5. \A i \in 1..n : f[i] = IF i = 1 THEN seqs[i] ELSE f[i - 1] \o seqs[i]
    BY <2>1, Zenon DEF Flattens
  <2>6. \A i \in 1..n + 1 :
           g[i] = IF i = 1 THEN seqs[i] ELSE g[i - 1] \o seqs[i]
    <3> TAKE i \in 1..n + 1
    <3>1. CASE i <= n
      <4>1. i \in 1..n /\ g[i] = f[i] BY <3>1
      <4>2. i # 1 => i - 1 \in 1..n + 1 /\ i - 1 <= n BY <3>1
      <4>3. i # 1 => g[i - 1] = f[i - 1] BY <4>2
      <4>4. f[i] = IF i = 1 THEN seqs[i] ELSE f[i - 1] \o seqs[i]
        BY <2>5, <4>1
      <4> HIDE DEF g
      <4> QED BY <4>1, <4>3, <4>4, Zenon
    <3>2. CASE i = n + 1 BY <3>2
    <3> QED BY <3>1, <3>2
  <2>7. Flattens(g, seqs, n + 1) BY <2>6 DEF Flattens
  <2> QED BY <2>4, <2>7
<1> HIDE DEF S
<1>3. Nat \subseteq S BY <1>1, <1>2, NatSetInduction
<1> QED BY <1>3 DEF S

\* f and g concatenate sequences that agree in the first m places; what f[i]
\* is depends on the first i sequences only.
BothFlatten(f, s, m, g, t, n) ==
    /\ Flattens(f, s, m) /\ Flattens(g, t, n)
    /\ m <= n /\ \A i \in 1..m : s[i] = t[i]

Agree(f, g, m) == \A i \in 1..m : f[i] = g[i]

\* Where two sequences of sequences agree, so do their concatenations.
LEMMA FlattenAgrees ==
    ASSUME NEW f, NEW s, NEW m \in Nat, NEW g, NEW t, NEW n \in Nat,
           BothFlatten(f, s, m, g, t, n)
    PROVE  Agree(f, g, m)
<1>0. /\ Flattens(f, s, m) /\ Flattens(g, t, n)
      /\ m <= n /\ \A i \in 1..m : s[i] = t[i]
  BY Zenon DEF BothFlatten
<1> DEFINE S == {i \in Nat : i \in 1..m => f[i] = g[i]}
<1>1. 0 \in S OBVIOUS
<1>2. /\ m # 0 => f[1] = s[1]
      /\ \A i \in 1..m : i # m => f[i + 1] = f[i] \o s[i + 1]
  BY <1>0, FlattensFacts, Zenon
<1>3. /\ n # 0 => g[1] = t[1]
      /\ \A i \in 1..n : i # n => g[i + 1] = g[i] \o t[i + 1]
  BY <1>0, FlattensFacts, Zenon
<1>4. ASSUME NEW i \in Nat, i \in S PROVE i + 1 \in S
  <2> SUFFICES ASSUME i + 1 \in 1..m PROVE f[i + 1] = g[i + 1]
    OBVIOUS
  <2>0. s[i + 1] = t[i + 1] BY <1>0
  <2>1. CASE i = 0 BY <1>0, <1>2, <1>3, <2>0, <2>1
  <2>2. CASE i # 0
    <3>1. /\ f[i] = g[i] /\ i \in 1..m /\ i # m /\ i \in 1..n /\ i # n
      BY <1>0, <1>4, <2>2
    <3>2. f[i + 1] = f[i] \o s[i + 1] BY <1>2, <3>1, Zenon
    <3>3. g[i + 1] = g[i] \o t[i + 1] BY <1>3, <3>1, Zenon
    <3> QED BY <2>0, <3>1, <3>2, <3>3, Zenon
  <2> QED BY <2>1, <2>2
<1> HIDE DEF S
<1>5. Nat \subseteq S BY <1>1, <1>4, NatSetInduction
<1>6. ASSUME NEW i \in 1..m PROVE f[i] = g[i]
  <2>1. i \in Nat OBVIOUS
  <2> QED BY <1>5, <2>1 DEF S
<1> QED BY <1>6 DEF Agree

\* FlattenSeq by the function that it computes.
LEMMA FlattenIs ==
    ASSUME NEW X, NEW seqs \in Seq(Seq(X)), seqs # <<>>
    PROVE  \E f \in [1..Len(seqs) -> Seq(X)] :
              Flattens(f, seqs, Len(seqs)) /\ FlattenSeq(seqs) = f[Len(seqs)]
<1> DEFINE flatten[i \in 1..Len(seqs)] ==
             IF i = 1 THEN seqs[i] ELSE flatten[i-1] \o seqs[i]
<1>0. Len(seqs) # 0 BY EmptySeq
<1>1. FlattenSeq(seqs) = flatten[Len(seqs)] BY <1>0 DEF FlattenSeq
<1>2. PICK f \in [1..Len(seqs) -> Seq(X)] : Flattens(f, seqs, Len(seqs))
  BY FlattenExists
<1>3. Flattens(flatten, seqs, Len(seqs)) BY <1>2 DEF Flattens
<1> HIDE DEF flatten
<1>4. flatten[Len(seqs)] = f[Len(seqs)]
  <2>1. Len(seqs) \in Nat OBVIOUS
  <2>2. \A n \in Nat : n = Len(seqs) => \A i \in 1..n : flatten[i] = f[i]
    <3> TAKE n \in Nat
    <3> HAVE n = Len(seqs)
    <3>1. Flattens(f, seqs, n) /\ Flattens(flatten, seqs, n) BY <1>2, <1>3
    <3>2. n <= n /\ \A i \in 1..n : seqs[i] = seqs[i] OBVIOUS
    <3>3. BothFlatten(flatten, seqs, n, f, seqs, n)
      BY <3>1, <3>2, Zenon DEF BothFlatten
    <3>4. Agree(flatten, f, n) BY <3>1, <3>3, FlattenAgrees, Zenon
    <3> QED BY <3>4 DEF Agree
  <2> QED BY <1>0, <2>1, <2>2
<1> QED BY <1>1, <1>2, <1>4

\* A concatenation has the elements of its parts.
LEMMA FlattenType ==
    ASSUME NEW X, NEW seqs \in Seq(Seq(X))
    PROVE  FlattenSeq(seqs) \in Seq(X)
<1>1. CASE seqs = <<>> BY <1>1 DEF FlattenSeq
<1>2. CASE seqs # <<>>
  <2>1. Len(seqs) \in 1..Len(seqs) BY <1>2, EmptySeq
  <2>2. PICK f \in [1..Len(seqs) -> Seq(X)] : FlattenSeq(seqs) = f[Len(seqs)]
    BY <1>2, FlattenIs, Zenon
  <2>3. f[Len(seqs)] \in Seq(X) BY <2>1
  <2> QED BY <2>2, <2>3, Zenon
<1> QED BY <1>1, <1>2

\* The concatenation of one sequence is that sequence.
LEMMA FlattenOne ==
    ASSUME NEW X, NEW x \in Seq(X)
    PROVE  FlattenSeq(<<x>>) = x
<1>1. <<x>> \in Seq(Seq(X)) /\ Len(<<x>>) = 1 /\ <<x>> # <<>> OBVIOUS
<1>2. PICK f \in [1..1 -> Seq(X)] :
         Flattens(f, <<x>>, 1) /\ FlattenSeq(<<x>>) = f[1]
  BY <1>1, FlattenIs
<1>3. f[1] = <<x>>[1]
  <2>1. 1 \in Nat /\ 1 # 0 OBVIOUS
  <2> QED BY <1>2, <2>1, FlattensFacts, Zenon
<1> QED BY <1>2, <1>3

\* A sequence more at the end is appended.
LEMMA FlattenAppend ==
    ASSUME NEW X, NEW seqs \in Seq(Seq(X)), NEW x \in Seq(X)
    PROVE  FlattenSeq(Append(seqs, x)) = FlattenSeq(seqs) \o x
<1> DEFINE more == Append(seqs, x)
           n == Len(seqs)
<1>1. /\ more \in Seq(Seq(X)) /\ Len(more) = n + 1 /\ more # <<>>
      /\ n \in Nat /\ \A i \in 1..n : more[i] = seqs[i] /\ more[n + 1] = x
  OBVIOUS
<1>2. CASE seqs = <<>>
  <2>1. more = <<x>> /\ FlattenSeq(seqs) = <<>> BY <1>2 DEF FlattenSeq
  <2>2. <<>> \o x = x BY ConcatEmptySeq
  <2> QED BY <2>1, <2>2, FlattenOne
<1>3. CASE seqs # <<>>
  <2>1. n # 0 BY <1>3, EmptySeq
  <2>2. PICK f \in [1..n -> Seq(X)] :
           Flattens(f, seqs, n) /\ FlattenSeq(seqs) = f[n]
    BY <1>3, FlattenIs
  <2> HIDE DEF more
  <2>3. PICK g \in [1..n + 1 -> Seq(X)] :
           Flattens(g, more, n + 1) /\ FlattenSeq(more) = g[n + 1]
    BY <1>1, FlattenIs
  <2>4. n \in 1..n /\ n <= n + 1 /\ n + 1 \in Nat BY <1>1, <2>1
  <2>5. \A i \in 1..n : f[i] = g[i]
    <3>1. n \in Nat /\ n <= n /\ \A i \in 1..n : seqs[i] = more[i] BY <1>1
    <3>2. Flattens(f, seqs, n) /\ Flattens(g, more, n + 1) BY <2>2, <2>3
    <3> HIDE DEF n
    <3>3. BothFlatten(f, seqs, n, g, more, n + 1)
      BY <2>4, <3>1, <3>2, Zenon DEF BothFlatten
    <3>4. Agree(f, g, n) BY <2>4, <3>1, <3>3, FlattenAgrees, Zenon
    <3> QED BY <3>4 DEF Agree
  <2>6. n \in 1..n + 1 /\ n # n + 1 BY <1>1, <2>1
  <2>7. g[n + 1] = g[n] \o more[n + 1] BY <2>3, <2>4, <2>6, FlattensFacts
  <2> QED BY <1>1, <2>1, <2>2, <2>3, <2>4, <2>5, <2>7 DEF more
<1> QED BY <1>2, <1>3

\* The first sequence comes first.
LEMMA FlattenHead ==
    ASSUME NEW X, NEW seqs \in Seq(Seq(X)), seqs # <<>>
    PROVE  FlattenSeq(seqs) = Head(seqs) \o FlattenSeq(Tail(seqs))
<1> DEFINE rest == Tail(seqs)
           n == Len(rest)
<1>1. /\ rest \in Seq(Seq(X)) /\ n \in Nat /\ Len(seqs) = n + 1
      /\ \A i \in 1..n : rest[i] = seqs[i + 1]
      /\ seqs[1] = Head(seqs) /\ Head(seqs) \in Seq(X)
  BY HeadTailProperties
<1>2. PICK f \in [1..n + 1 -> Seq(X)] :
         Flattens(f, seqs, n + 1) /\ FlattenSeq(seqs) = f[n + 1]
  BY <1>1, FlattenIs
<1>3. /\ f[1] = Head(seqs)
      /\ \A i \in 1..n : f[i + 1] = f[i] \o rest[i]
  <2>1. n + 1 \in Nat /\ n + 1 # 0 BY <1>1
  <2>2. /\ f[1] = seqs[1]
        /\ \A i \in 1..n + 1 : i # n + 1 => f[i + 1] = f[i] \o seqs[i + 1]
    BY <1>2, <2>1, FlattensFacts
  <2> HIDE DEF rest
  <2>3. ASSUME NEW i \in 1..n PROVE f[i + 1] = f[i] \o rest[i]
    <3>1. i \in 1..n + 1 /\ i # n + 1 BY <1>1
    <3>2. f[i + 1] = f[i] \o seqs[i + 1] BY <2>2, <3>1, Zenon
    <3> QED BY <1>1, <3>2, Zenon
  <2> QED BY <1>1, <2>2, <2>3
<1>4. CASE n = 0
  <2>1. rest = <<>> BY <1>1, <1>4, EmptySeq
  <2>2. FlattenSeq(rest) = <<>> BY <2>1 DEF FlattenSeq
  <2>3. Head(seqs) \o <<>> = Head(seqs) BY <1>1, ConcatEmptySeq
  <2>4. n + 1 = 1 BY <1>4
  <2>5. FlattenSeq(seqs) = f[1] BY <1>2, <2>4, Zenon
  <2> QED BY <1>3, <2>2, <2>3, <2>5
<1>5. CASE n # 0
  <2> HIDE DEF rest
  <2>1. rest # <<>> BY <1>1, <1>5, EmptySeq
  <2>2. PICK g \in [1..n -> Seq(X)] :
           Flattens(g, rest, n) /\ FlattenSeq(rest) = g[n]
    BY <1>1, <2>1, FlattenIs
  <2>3. /\ g[1] = rest[1]
        /\ \A i \in 1..n : i # n => g[i + 1] = g[i] \o rest[i + 1]
    BY <1>1, <1>5, <2>2, FlattensFacts
  <2> DEFINE P(i) == i \in 1..n => f[i + 1] = f[1] \o g[i]
             S == {i \in Nat : P(i)}
  <2>4. 0 \in S OBVIOUS
  <2>5. ASSUME NEW i \in Nat, i \in S PROVE i + 1 \in S
    <3> SUFFICES P(i + 1)
      <4> HIDE DEF P
      <4> QED OBVIOUS
    <3> HAVE i + 1 \in 1..n
    <3>1. f[(i + 1) + 1] = f[i + 1] \o rest[i + 1] BY <1>3, Zenon
    <3>2. CASE i = 0
      <4>1. i + 1 = 1 BY <3>2
      <4> QED BY <2>3, <3>1, <4>1, Zenon
    <3>3. CASE i # 0
      <4>0. i \in 1..n /\ i # n BY <1>1, <3>3
      <4>1. f[i + 1] = f[1] \o g[i] BY <2>5, <4>0
      <4>2. g[i + 1] = g[i] \o rest[i + 1] BY <2>3, <4>0, Zenon
      <4>3. /\ f[1] \in Seq(X) /\ g[i] \in Seq(X)
            /\ rest[i + 1] \in Seq(X)
        <5>1. 1 \in 1..n + 1 BY <1>1
        <5>2. rest[i + 1] \in Seq(X) BY <1>1, ElementOfSeq
        <5> QED BY <4>0, <5>1, <5>2
      <4>4. (f[1] \o g[i]) \o rest[i + 1] = f[1] \o (g[i] \o rest[i + 1])
        <5>1. ASSUME NEW a \in Seq(X), NEW b \in Seq(X), NEW c \in Seq(X)
              PROVE  (a \o b) \o c = a \o (b \o c)
          OBVIOUS
        <5> QED BY <4>3, <5>1, Zenon
      <4> QED BY <3>1, <4>1, <4>2, <4>4, Zenon
    <3> QED BY <3>2, <3>3
  <2> HIDE DEF S
  <2>6. Nat \subseteq S BY <2>4, <2>5, NatSetInduction
  <2>7. n \in S /\ n \in 1..n BY <1>1, <1>5, <2>6
  <2>8. f[n + 1] = f[1] \o g[n] BY <2>7 DEF S
  <2> QED BY <1>2, <1>3, <2>2, <2>8 DEF rest
<1> QED BY <1>4, <1>5
=============================================================================
