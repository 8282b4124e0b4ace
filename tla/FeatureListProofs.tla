-------------------------- MODULE FeatureListProofs --------------------------
(***************************************************************************)
(* FEATURES.md and the rows of runs, for every set of lines an author may  *)
(* write, every file that is made of them, and every outcome of the runs:  *)
(* IDs are unique, an edit does not touch what is recorded for the titles  *)
(* elsewhere, declared dependencies come first, and a scan adds what is    *)
(* mentioned. All of it comes from what Parse's loop makes of one line     *)
(* more.                                                                   *)
(***************************************************************************)
EXTENDS FeatureList, RecursionLemmas, FiniteSetTheorems

-----------------------------------------------------------------------------
(* The loop that appends.                                                  *)

\* u holds what the loop has after each of the first n elements of s.
Loop(u, s, S, n) ==
    /\ u[0] = <<>>
    /\ \A k \in 1..n :
           u[k] = IF s[k] \in S THEN Append(u[k-1], s[k]) ELSE u[k-1]

\* What it has after k elements are at most k elements of S.
LEMMA LoopType ==
    ASSUME NEW X, NEW s \in Seq(X), NEW S, NEW u, NEW n \in Nat,
           n <= Len(s), Loop(u, s, S, n)
    PROVE  \A k \in 0..n : u[k] \in Seq(X \cap S) /\ Len(u[k]) <= k
<1> DEFINE Good == {k \in Nat : k <= n => u[k] \in Seq(X \cap S) /\ Len(u[k]) <= k}
<1>1. 0 \in Good
  <2>1. <<>> \in Seq(X \cap S) /\ Len(<<>>) = 0 OBVIOUS
  <2>2. u[0] = <<>> BY DEF Loop
  <2>3. u[0] \in Seq(X \cap S) /\ Len(u[0]) = 0 BY <2>1, <2>2, Zenon
  <2>4. Len(u[0]) <= 0 BY <2>3
  <2> QED BY <2>3, <2>4
<1>2. ASSUME NEW k \in Nat, k \in Good PROVE k + 1 \in Good
  <2> SUFFICES ASSUME k + 1 <= n
               PROVE  u[k + 1] \in Seq(X \cap S) /\ Len(u[k + 1]) <= k + 1
    OBVIOUS
  <2>1. u[k] \in Seq(X \cap S) /\ Len(u[k]) <= k BY <1>2
  <2>2. k + 1 \in 1..n /\ (k + 1) - 1 = k /\ s[k + 1] \in X OBVIOUS
  <2>3. u[k + 1] = IF s[k + 1] \in S THEN Append(u[k], s[k + 1]) ELSE u[k]
    BY <2>2 DEF Loop
  <2> QED BY <2>1, <2>2, <2>3
<1> HIDE DEF Good
<1>3. Nat \subseteq Good BY <1>1, <1>2, NatSetInduction
<1>4. ASSUME NEW k \in 0..n
      PROVE  u[k] \in Seq(X \cap S) /\ Len(u[k]) <= k
  <2>1. k \in Nat /\ k <= n OBVIOUS
  <2> QED BY <1>3, <2>1 DEF Good
<1> QED BY <1>4

\* There is such a function.
LEMMA LoopExists ==
    ASSUME NEW X, NEW s \in Seq(X), NEW S
    PROVE  \E u : /\ u \in [0..Len(s) -> Seq(X)]
                  /\ Loop(u, s, S, Len(s))
<1> DEFINE Good == {n \in Nat : n <= Len(s) =>
                      \E u : u \in [0..n -> Seq(X)] /\ Loop(u, s, S, n)}
<1>1. 0 \in Good
  <2> DEFINE u == [k \in 0..0 |-> <<>>]
  <2>1. u \in [0..0 -> Seq(X)] /\ Loop(u, s, S, 0) BY DEF Loop
  <2> HIDE DEF u
  <2> QED BY <2>1
<1>2. ASSUME NEW n \in Nat, n \in Good PROVE n + 1 \in Good
  <2> SUFFICES ASSUME n + 1 <= Len(s)
               PROVE  \E g : g \in [0..n + 1 -> Seq(X)] /\ Loop(g, s, S, n + 1)
    OBVIOUS
  <2>1. PICK u : u \in [0..n -> Seq(X)] /\ Loop(u, s, S, n) BY <1>2
  <2>2. s[n + 1] \in X /\ n \in 0..n OBVIOUS
  <2> DEFINE next == IF s[n + 1] \in S THEN Append(u[n], s[n + 1]) ELSE u[n]
             g == [k \in 0..n + 1 |-> IF k = n + 1 THEN next ELSE u[k]]
  <2>3. next \in Seq(X) BY <2>1, <2>2
  <2>4. \A k \in 0..n : g[k] = u[k] OBVIOUS
  <2>5. g[n + 1] = next OBVIOUS
  <2>6. g \in [0..n + 1 -> Seq(X)] BY <2>1, <2>3
  <2>7. u[0] = <<>> /\ \A k \in 1..n :
           u[k] = IF s[k] \in S THEN Append(u[k-1], s[k]) ELSE u[k-1]
    BY <2>1, Zenon DEF Loop
  <2> HIDE DEF g
  <2>8. g[0] = <<>> BY <2>4, <2>7
  <2>9. ASSUME NEW k \in 1..n + 1
        PROVE  g[k] = IF s[k] \in S THEN Append(g[k-1], s[k]) ELSE g[k-1]
    <3>1. CASE k = n + 1
      <4>1. g[k - 1] = u[n] BY <2>2, <2>4, <3>1
      <4> QED BY <2>5, <3>1, <4>1
    <3>2. CASE k # n + 1
      <4>1. k \in 1..n /\ k \in 0..n /\ k - 1 \in 0..n BY <3>2
      <4>2. g[k] = u[k] /\ g[k - 1] = u[k - 1] BY <2>4, <4>1
      <4> QED BY <2>7, <4>1, <4>2
    <3> QED BY <3>1, <3>2
  <2>10. Loop(g, s, S, n + 1) BY <2>8, <2>9 DEF Loop
  <2> QED BY <2>6, <2>10
<1> HIDE DEF Good
<1>3. Nat \subseteq Good BY <1>1, <1>2, NatSetInduction
<1>4. Len(s) \in Good BY <1>3
<1> QED BY <1>4 DEF Good

\* Two loops do the same as far as their sequences are the same.
TwoLoops(u, s, m, v, t, n, S) ==
    /\ Loop(u, s, S, m) /\ Loop(v, t, S, n)
    /\ m <= n /\ \A k \in 1..m : s[k] = t[k]
Alike(u, v, m) == \A k \in 0..m : u[k] = v[k]

LEMMA LoopOnce ==
    ASSUME NEW u, NEW s, NEW m \in Nat, NEW v, NEW t, NEW n \in Nat, NEW S,
           TwoLoops(u, s, m, v, t, n, S)
    PROVE  Alike(u, v, m)
<1>0. /\ Loop(u, s, S, m) /\ Loop(v, t, S, n)
      /\ m <= n /\ \A k \in 1..m : s[k] = t[k]
  BY Zenon DEF TwoLoops
<1> DEFINE Good == {k \in Nat : k <= m => u[k] = v[k]}
<1>1. 0 \in Good BY <1>0 DEF Loop
<1>2. ASSUME NEW k \in Nat, k \in Good PROVE k + 1 \in Good
  <2> SUFFICES ASSUME k + 1 <= m PROVE u[k + 1] = v[k + 1]
    OBVIOUS
  <2>1. u[k] = v[k] BY <1>2
  <2>2. k + 1 \in 1..m /\ k + 1 \in 1..n /\ (k + 1) - 1 = k BY <1>0
  <2>3. u[k + 1] = IF s[k + 1] \in S THEN Append(u[k], s[k + 1]) ELSE u[k]
    BY <1>0, <2>2 DEF Loop
  <2>4. v[k + 1] = IF t[k + 1] \in S THEN Append(v[k], t[k + 1]) ELSE v[k]
    BY <1>0, <2>2 DEF Loop
  <2>5. s[k + 1] = t[k + 1] BY <1>0, <2>2
  <2> QED BY <2>1, <2>3, <2>4, <2>5
<1> HIDE DEF Good
<1>3. Nat \subseteq Good BY <1>1, <1>2, NatSetInduction
<1>4. ASSUME NEW k \in 0..m PROVE u[k] = v[k]
  <2>1. k \in Nat /\ k <= m OBVIOUS
  <2> QED BY <1>3, <2>1 DEF Good
<1> QED BY <1>4 DEF Alike

\* Only is where such a loop ends.
LEMMA OnlyIs ==
    ASSUME NEW X, NEW s \in Seq(X), NEW S
    PROVE  \E u : Loop(u, s, S, Len(s)) /\ Only(s, S) = u[Len(s)]
<1> DEFINE IsLoop(u) == u = [k \in 0..Len(s) |->
             IF k = 0 THEN <<>>
             ELSE IF s[k] \in S THEN Append(u[k-1], s[k]) ELSE u[k-1]]
           upTo == CHOOSE u : IsLoop(u)
<1>1. PICK f : f \in [0..Len(s) -> Seq(X)] /\ Loop(f, s, S, Len(s))
  BY LoopExists
<1>2. IsLoop(f)
  <2>1. ASSUME NEW k \in 0..Len(s)
        PROVE  f[k] = IF k = 0 THEN <<>>
                      ELSE IF s[k] \in S THEN Append(f[k-1], s[k]) ELSE f[k-1]
    <3>1. CASE k = 0 BY <1>1, <3>1 DEF Loop
    <3>2. CASE k # 0
      <4>1. k \in 1..Len(s) BY <3>2
      <4> QED BY <1>1, <3>2, <4>1 DEF Loop
    <3> QED BY <3>1, <3>2
  <2> QED BY <1>1, <2>1
<1>3. IsLoop(upTo) BY <1>2
<1>4. Only(s, S) = upTo[Len(s)] BY DEF Only
<1> HIDE DEF upTo
<1>5. upTo[0] = <<>> BY <1>3
<1>6. ASSUME NEW k \in 1..Len(s)
      PROVE  upTo[k] = IF s[k] \in S THEN Append(upTo[k-1], s[k])
                       ELSE upTo[k-1]
  <2>1. k \in 0..Len(s) /\ k # 0 OBVIOUS
  <2> QED BY <1>3, <2>1
<1> QED BY <1>4, <1>5, <1>6 DEF Loop

\* The result is made of elements of both, and not longer.
LEMMA OnlyType ==
    ASSUME NEW X, NEW s \in Seq(X), NEW S
    PROVE  Only(s, S) \in Seq(X \cap S) /\ Len(Only(s, S)) <= Len(s)
<1>1. PICK u : Loop(u, s, S, Len(s)) /\ Only(s, S) = u[Len(s)] BY OnlyIs
<1>2. Len(s) \in Nat /\ Len(s) \in 0..Len(s) /\ Len(s) <= Len(s) OBVIOUS
<1>3. \A k \in 0..Len(s) : u[k] \in Seq(X \cap S) /\ Len(u[k]) <= k
  BY <1>1, <1>2, LoopType, Zenon
<1> QED BY <1>1, <1>2, <1>3

\* One element more is appended when it is in S.
LEMMA OnlyAppend ==
    ASSUME NEW X, NEW s \in Seq(X), NEW x \in X, NEW S
    PROVE  Only(Append(s, x), S)
             = IF x \in S THEN Append(Only(s, S), x) ELSE Only(s, S)
<1> DEFINE t == Append(s, x)
           n == Len(s)
<1>1. /\ t \in Seq(X) /\ Len(t) = n + 1 /\ n \in Nat
      /\ \A k \in 1..n : s[k] = t[k]
      /\ t[n + 1] = x
  OBVIOUS
<1> HIDE DEF t
<1>2. PICK u : Loop(u, s, S, n) /\ Only(s, S) = u[n] BY OnlyIs
<1>3. PICK v : Loop(v, t, S, n + 1) /\ Only(t, S) = v[n + 1]
  BY <1>1, OnlyIs
<1> HIDE DEF n
<1>4. \A k \in 0..n : u[k] = v[k]
  <2>1. n \in Nat /\ n + 1 \in Nat /\ n <= n + 1 BY <1>1
  <2>2. TwoLoops(u, s, n, v, t, n + 1, S)
    BY <1>1, <1>2, <1>3, <2>1, Zenon DEF TwoLoops
  <2>3. Alike(u, v, n) BY <2>1, <2>2, LoopOnce, Zenon
  <2> QED BY <2>3 DEF Alike
<1>5. n \in 0..n /\ n + 1 \in 1..n + 1 /\ (n + 1) - 1 = n BY <1>1
<1>6. v[n + 1] = IF t[n + 1] \in S THEN Append(v[n], t[n + 1]) ELSE v[n]
  BY <1>3, <1>5 DEF Loop
<1>7. Only(t, S) = IF x \in S THEN Append(Only(s, S), x) ELSE Only(s, S)
  BY <1>1, <1>2, <1>3, <1>4, <1>5, <1>6
<1> QED BY <1>7 DEF t

LEMMA OnlyEmpty == ASSUME NEW S PROVE Only(<<>>, S) = <<>>
<1>1. <<>> \in Seq(Nat) /\ Len(<<>>) = 0 OBVIOUS
<1>2. PICK u : Loop(u, <<>>, S, 0) /\ Only(<<>>, S) = u[0]
  BY <1>1, OnlyIs
<1> QED BY <1>2 DEF Loop

\* The first k elements of a sequence; each begins with the one before it.
Prefix(s, k) == [j \in 1..k |-> s[j]]

LEMMA PrefixFacts ==
    ASSUME NEW X, NEW s \in Seq(X)
    PROVE  /\ Prefix(s, 0) = <<>> /\ Prefix(s, Len(s)) = s
           /\ \A k \in 0..Len(s) :
                 Prefix(s, k) \in Seq(X) /\ Len(Prefix(s, k)) = k
           /\ \A k \in 1..Len(s) :
                 Prefix(s, k) = Append(Prefix(s, k-1), s[k])
<1>1. Prefix(s, 0) = <<>> BY DEF Prefix
<1>2. Prefix(s, Len(s)) = s BY DEF Prefix
<1>3. ASSUME NEW k \in 0..Len(s)
      PROVE  Prefix(s, k) \in Seq(X) /\ Len(Prefix(s, k)) = k
  BY DEF Prefix
<1>4. ASSUME NEW k \in 1..Len(s)
      PROVE  Prefix(s, k) = Append(Prefix(s, k-1), s[k])
  <2>1. k - 1 \in Nat /\ (k - 1) + 1 = k /\ k - 1 \in 0..Len(s) OBVIOUS
  <2> DEFINE p == Prefix(s, k-1)
             q == Append(p, s[k])
  <2>2. p \in Seq(X) /\ Len(p) = k - 1 /\ s[k] \in X BY <1>3, <2>1
  <2>3. q \in Seq(X) /\ Len(q) = k BY <2>1, <2>2
  <2>4. \A j \in 1..k : q[j] = s[j]
    <3>1. \A j \in 1..k-1 : p[j] = s[j] BY DEF Prefix
    <3>2. \A j \in 1..k-1 : q[j] = p[j] BY <2>2
    <3>3. q[k] = s[k] BY <2>1, <2>2
    <3> HIDE DEF p, q
    <3> QED BY <3>1, <3>2, <3>3
  <2> HIDE DEF q
  <2>5. q = [j \in 1..k |-> q[j]] BY <2>3
  <2>6. q = Prefix(s, k) BY <2>4, <2>5 DEF Prefix
  <2> QED BY <2>6 DEF q
<1> QED BY <1>1, <1>2, <1>3, <1>4

-----------------------------------------------------------------------------
(* What Parse returns.                                                     *)

LEMMA TitleType ==
    ASSUME NEW text \in Seq(STRING) PROVE Title(text) \in Seq(STRING)
<1> DEFINE used == {n \in 1..Len(Separators) : Occurs(Separators[n], text)}
<1>1. CASE used = {} BY <1>1 DEF Title
<1>2. CASE used # {}
  <2> DEFINE sep == Separators[Min(used)]
             places == {j \in 1..Len(text) : text[j] = sep}
  <2>a. used \subseteq Nat OBVIOUS
  <2> HIDE DEF used
  <2>1. PICK n \in used : \A m \in used : n <= m
    BY <1>2, <2>a, HasLeast
  <2>2. Min(used) \in used BY <2>1 DEF Min
  <2>3. places # {} BY <2>2 DEF Occurs, used
  <2>b. places \subseteq Nat OBVIOUS
  <2> HIDE DEF sep, places
  <2>4. PICK j \in places : \A h \in places : j <= h
    BY <2>3, <2>b, HasLeast
  <2>5. j \in 1..Len(text) /\ text[j] = sep /\ \A h \in 1..j-1 : text[h] # sep
    BY <2>4 DEF places
  <2>6. FirstAt(sep, text) \in 1..Len(text) BY <2>5 DEF FirstAt
  <2>7. SubSeq(text, 1, FirstAt(sep, text) - 1) \in Seq(STRING) BY <2>6
  <2> QED BY <1>2, <2>7 DEF Title, used, sep
<1> QED BY <1>1, <1>2

LEMMA SlugType ==
    ASSUME NEW l \in Lines
    PROVE  /\ Slug(l.text) \in Seq(STRING)
           /\ Slug(l.text) \in Seq(STRING \ NonWords)
<1>1. Title(l.text) \in Seq(STRING) BY LinesAssumption, TitleType
<1> DEFINE S == STRING \ NonWords
<1>2. Only(Title(l.text), S) \in Seq(STRING \cap S) BY <1>1, OnlyType
<1>3. Slug(l.text) = Only(Title(l.text), S) BY DEF Slug
<1>4. STRING \cap S = S /\ S \subseteq STRING OBVIOUS
<1>5. Slug(l.text) \in Seq(S) BY <1>2, <1>3, <1>4, Zenon
<1>6. Seq(S) \subseteq Seq(STRING) OBVIOUS
<1> QED BY <1>5, <1>6, Zenon

\* How many of the items up to the k-th have its slug.
SlugOf(items, k) == Slug(items[k].text)
Ordinal(items, k) ==
    Cardinality({j \in 1..k : SlugOf(items, j) = SlugOf(items, k)})

LEMMA ItemsType ==
    ASSUME NEW f \in Seq(Lines)
    PROVE  /\ Only(f, Items) \in Seq(Items) /\ Only(f, Items) \in Seq(Lines)
           /\ Len(Only(f, Items)) <= Len(f)
<1>1. Lines \cap Items = Items BY DEF Items
<1>2. Only(f, Items) \in Seq(Lines \cap Items)
      /\ Len(Only(f, Items)) <= Len(f)
  BY OnlyType
<1>3. Items \subseteq Lines BY DEF Items
<1> QED BY <1>1, <1>2, <1>3

\* The feature that Parse makes of the k-th item.
Feature(items, k) ==
    [id     |-> Suffixed(SlugOf(items, k), Ordinal(items, k)),
     status |-> Mark(items[k]),
     deps   |-> DependsOn(items[k].meta)]

LEMMA ParseIs ==
    ASSUME NEW f \in Seq(Lines), NEW items, items = Only(f, Items)
    PROVE  Parse(f) = [k \in 1..Len(items) |-> Feature(items, k)]
<1>1. items \in Seq(Items) /\ Len(items) \in Nat BY ItemsType
<1> DEFINE slugs == [k \in 1..Len(items) |-> Slug(items[k].text)]
           Count(k) == Cardinality({j \in 1..k : SameSlug(slugs, j, k)})
           Made(k) == [id     |-> Suffixed(slugs[k], Count(k)),
                       status |-> Mark(items[k]),
                       deps   |-> DependsOn(items[k].meta)]
<1>2. Parse(f) = [k \in 1..Len(items) |-> Made(k)] BY Zenon DEF Parse
<1>3. ASSUME NEW k \in 1..Len(items) PROVE Made(k) = Feature(items, k)
  <2>1. \A j \in 1..k : slugs[j] = SlugOf(items, j)
    <3> TAKE j \in 1..k
    <3>1. j \in 1..Len(items) BY <1>1
    <3> QED BY <3>1 DEF SlugOf
  <2>2. k \in 1..k BY <1>1
  <2>3. {j \in 1..k : SameSlug(slugs, j, k)}
          = {j \in 1..k : SlugOf(items, j) = SlugOf(items, k)}
    BY <2>1, <2>2 DEF SameSlug
  <2> HIDE DEF slugs
  <2> QED BY <2>1, <2>2, <2>3 DEF Ordinal, Feature
<1> HIDE DEF Made
<1> QED BY <1>2, <1>3

\* A plan has the same features with other statuses.
LEMMA PlanIs ==
    ASSUME NEW f \in Seq(Lines), NEW r, NEW items, items = Only(f, Items)
    PROVE  /\ Len(Plan(f, r)) = Len(items)
           /\ \A k \in 1..Len(items) :
                 /\ Plan(f, r)[k].id = Feature(items, k).id
                 /\ Plan(f, r)[k].deps = Feature(items, k).deps
                 /\ Plan(f, r)[k].status = KeptStatus(Feature(items, k), r)
<1>1. items \in Seq(Items) /\ Len(items) \in Nat BY ItemsType
<1> DEFINE list == [k \in 1..Len(items) |-> Feature(items, k)]
           Kept(k) == [Feature(items, k) EXCEPT
                          !.status = KeptStatus(Feature(items, k), r)]
<1>2. Parse(f) = list BY ParseIs
<1>3. Len(list) = Len(items) /\ \A k \in 1..Len(items) : list[k] = Feature(items, k)
  BY <1>1
<1> HIDE DEF list
<1>4. Plan(f, r) = [k \in 1..Len(items) |-> Kept(k)]
  BY <1>2, <1>3 DEF Plan, Reconcile
<1>5. ASSUME NEW k
      PROVE  /\ Kept(k).id = Feature(items, k).id
             /\ Kept(k).deps = Feature(items, k).deps
             /\ Kept(k).status = KeptStatus(Feature(items, k), r)
  <2>1. PICK kept : kept = KeptStatus(Feature(items, k), r) OBVIOUS
  <2> QED BY <2>1 DEF Feature
<1> HIDE DEF Kept
<1> QED BY <1>1, <1>4, <1>5

-----------------------------------------------------------------------------
(* The file is made of lines, and not longer than its bound.               *)
FileOK == file \in Seq(Lines) /\ Len(file) <= MaxLines

LEMMA FileStart == Init => FileOK
<1> SUFFICES ASSUME Init PROVE FileOK
  OBVIOUS
<1>1. <<>> \in Seq(Lines) /\ Len(<<>>) = 0 OBVIOUS
<1>2. file = <<>> BY DEF Init
<1>3. file \in Seq(Lines) /\ Len(file) = 0 BY <1>1, <1>2, Zenon
<1> QED BY <1>3, BoundsAssumption DEF FileOK

\* Two pieces of a file, with a line between them or without.
LEMMA Pieces ==
    ASSUME NEW a \in Seq(Lines), NEW b \in Seq(Lines), NEW l \in Lines
    PROVE  /\ a \o b \in Seq(Lines) /\ Len(a \o b) = Len(a) + Len(b)
           /\ a \o <<l>> \o b \in Seq(Lines)
           /\ Len(a \o <<l>> \o b) = Len(a) + Len(b) + 1
<1>1. a \o b \in Seq(Lines) /\ Len(a \o b) = Len(a) + Len(b) OBVIOUS
<1>2. <<l>> \in Seq(Lines) /\ Len(<<l>>) = 1 OBVIOUS
<1>3. a \o <<l>> \in Seq(Lines) /\ Len(a \o <<l>>) = Len(a) + 1
  BY <1>2
<1> PICK c \in Seq(Lines) : c = a \o <<l>> BY <1>3
<1>4. c \o b \in Seq(Lines) /\ Len(c \o b) = Len(c) + Len(b) OBVIOUS
<1>5. a \o <<l>> \o b \in Seq(Lines)
      /\ Len(a \o <<l>> \o b) = Len(a) + 1 + Len(b)
  BY <1>3, <1>4
<1> QED BY <1>1, <1>5

LEMMA FileStep == FileOK /\ [Next]_vars => FileOK'
<1> SUFFICES ASSUME FileOK, [Next]_vars PROVE FileOK'
  OBVIOUS
<1> USE DEF FileOK
<1>m. MaxLines \in Nat BY BoundsAssumption
<1>1. CASE InsertLine
  <2>1. Len(file) < MaxLines BY <1>1 DEF InsertLine
  <2>2. PICK l \in Lines, k \in 1..Len(file) + 1 :
           file' = SubSeq(file, 1, k-1) \o <<l>> \o SubSeq(file, k, Len(file))
    BY <1>1 DEF InsertLine, InsertAt
  <2>3. /\ SubSeq(file, 1, k-1) \in Seq(Lines) /\ Len(SubSeq(file, 1, k-1)) = k-1
        /\ SubSeq(file, k, Len(file)) \in Seq(Lines)
        /\ Len(SubSeq(file, k, Len(file))) = Len(file) - k + 1
    OBVIOUS
  <2> DEFINE a == SubSeq(file, 1, k-1)
             b == SubSeq(file, k, Len(file))
  <2> HIDE DEF a, b
  <2>4. file' \in Seq(Lines) /\ Len(file') = (k-1) + (Len(file) - k + 1) + 1
    <3>1. a \in Seq(Lines) /\ b \in Seq(Lines) BY <2>3 DEF a, b
    <3>2. a \o <<l>> \o b \in Seq(Lines)
          /\ Len(a \o <<l>> \o b) = Len(a) + Len(b) + 1
      BY <3>1, Pieces
    <3>3. file' = a \o <<l>> \o b BY <2>2 DEF a, b
    <3>4. Len(a) = k-1 /\ Len(b) = Len(file) - k + 1 BY <2>3 DEF a, b
    <3> QED BY <3>2, <3>3, <3>4
  <2>5. Len(file') = Len(file) + 1 BY <2>4
  <2> QED BY <1>m, <2>1, <2>4, <2>5
<1>2. CASE RemoveLine
  <2>1. PICK k \in 1..Len(file) :
           file' = SubSeq(file, 1, k-1) \o SubSeq(file, k+1, Len(file))
    BY <1>2 DEF RemoveLine, RemoveAt
  <2>2. /\ SubSeq(file, 1, k-1) \in Seq(Lines) /\ Len(SubSeq(file, 1, k-1)) = k-1
        /\ SubSeq(file, k+1, Len(file)) \in Seq(Lines)
        /\ Len(SubSeq(file, k+1, Len(file))) = Len(file) - k
    OBVIOUS
  <2>3. file[k] \in Lines OBVIOUS
  <2> DEFINE a == SubSeq(file, 1, k-1)
             b == SubSeq(file, k+1, Len(file))
  <2> HIDE DEF a, b
  <2>4. a \in Seq(Lines) /\ b \in Seq(Lines) /\ file' = a \o b
        /\ Len(a) = k-1 /\ Len(b) = Len(file) - k
    BY <2>1, <2>2 DEF a, b
  <2>5. file' \in Seq(Lines) /\ Len(file') = (k-1) + (Len(file) - k)
    <3>1. a \o b \in Seq(Lines) /\ Len(a \o b) = Len(a) + Len(b)
      BY <2>3, <2>4, Pieces
    <3> QED BY <2>4, <3>1
  <2>6. Len(file') = Len(file) - 1 BY <2>5
  <2> QED BY <1>m, <2>5, <2>6
<1>3. CASE WriteCode BY <1>3 DEF WriteCode
<1>4. CASE WriteHidden BY <1>4 DEF WriteHidden
<1>5. CASE PaveRun BY <1>5 DEF PaveRun
<1>6. CASE UNCHANGED vars BY <1>6 DEF vars
<1> QED BY <1>1, <1>2, <1>3, <1>4, <1>5, <1>6 DEF Next

LEMMA FileItems ==
    ASSUME FileOK, NEW items, items = Only(file, Items)
    PROVE  items \in Seq(Items) /\ Len(items) \in 0..Len(Numerals)
<1>1. items \in Seq(Items) /\ Len(items) <= Len(file) BY ItemsType DEF FileOK
<1>2. Len(items) \in Nat /\ Len(file) \in Nat BY <1>1 DEF FileOK
<1> QED BY <1>1, <1>2, BoundsAssumption DEF FileOK, Numerals

-----------------------------------------------------------------------------
(* IDs.                                                                    *)

LEMMA WiderSeq ==
    ASSUME NEW S, NEW T, S \subseteq T, NEW s \in Seq(S) PROVE s \in Seq(T)
OBVIOUS

\* What IDs are made of. (The provers do not know that a literal is a string.)
Words == STRING \cup {Numerals[n] : n \in 1..9}

LEMMA NumeralFacts ==
    /\ Len(Numerals) = 9
    /\ \A n \in 1..9 : Numerals[n] \in Words
    /\ \A n, m \in 1..9 : Numerals[n] = Numerals[m] => n = m
<1>1. Len(Numerals) = 9 BY DEF Numerals
<1>2. \A n \in 1..9 : Numerals[n] \in Words BY DEF Words
<1>3. ASSUME NEW n \in 1..9, NEW m \in 1..9, Numerals[n] = Numerals[m]
      PROVE  n = m
  BY <1>3 DEF Numerals
<1> QED BY <1>1, <1>2, <1>3

LEMMA OrdinalFacts ==
    ASSUME NEW items \in Seq(Items), NEW k \in 1..Len(items)
    PROVE  /\ Ordinal(items, k) \in 1..k
           /\ \A j \in 1..k-1 : SlugOf(items, j) = SlugOf(items, k)
                                  => Ordinal(items, j) < Ordinal(items, k)
<1> DEFINE Same(j) == {h \in 1..j : SlugOf(items, h) = SlugOf(items, j)}
<1>1. ASSUME NEW j \in 1..Len(items)
      PROVE  /\ IsFiniteSet(Same(j)) /\ Ordinal(items, j) = Cardinality(Same(j))
             /\ Cardinality(Same(j)) \in 1..j
  <2>1. /\ IsFiniteSet(1..j) /\ Cardinality(1..j) = j
    BY FS_Interval
  <2>2. Same(j) \subseteq 1..j /\ j \in Same(j) OBVIOUS
  <2>3. IsFiniteSet(Same(j)) /\ Cardinality(Same(j)) <= j
    BY <2>1, <2>2, FS_Subset
  <2>4. Cardinality(Same(j)) \in Nat /\ Cardinality(Same(j)) # 0
    BY <2>2, <2>3, FS_CardinalityType, FS_EmptySet
  <2>5. Ordinal(items, j) = Cardinality(Same(j)) BY DEF Ordinal
  <2> QED BY <2>3, <2>4, <2>5
<1>2. ASSUME NEW j \in 1..k-1, SlugOf(items, j) = SlugOf(items, k)
      PROVE  Ordinal(items, j) < Ordinal(items, k)
  <2>1. j \in 1..Len(items) OBVIOUS
  <2>2. Same(j) \subseteq Same(k) BY <1>2
  <2>3. k \in Same(k) /\ k \notin Same(j) OBVIOUS
  <2>4. IsFiniteSet(Same(k)) BY <1>1
  <2> HIDE DEF Same
  <2>5. Same(j) # Same(k) BY <2>3
  <2>6. /\ Cardinality(Same(j)) <= Cardinality(Same(k))
        /\ Cardinality(Same(j)) # Cardinality(Same(k))
    BY <2>2, <2>4, <2>5, FS_Subset
  <2>7. /\ Ordinal(items, j) = Cardinality(Same(j))
        /\ Ordinal(items, k) = Cardinality(Same(k))
        /\ Cardinality(Same(j)) \in 1..j /\ Cardinality(Same(k)) \in 1..k
    BY <1>1, <2>1
  <2>8. Cardinality(Same(j)) \in Nat /\ Cardinality(Same(k)) \in Nat
    BY <2>7
  <2> QED BY <2>6, <2>7, <2>8
<1>3. Ordinal(items, k) \in 1..k BY <1>1
<1> QED BY <1>2, <1>3

LEMMA DistinctIds ==
    ASSUME OwnTitles, NEW items \in Seq(Items),
           Len(items) \in 0..Len(Numerals),
           NEW k \in 1..Len(items), NEW j \in 1..k-1
    PROVE  Feature(items, j).id # Feature(items, k).id
<1> DEFINE a == SlugOf(items, j)
           b == SlugOf(items, k)
           m == Ordinal(items, j)
           n == Ordinal(items, k)
<1>1. j \in 1..Len(items) /\ items[j] \in Items /\ items[k] \in Items
  OBVIOUS
<1>2. items[j] \in Lines /\ items[k] \in Lines BY <1>1 DEF Items
<1>3. a \in Seq(Words) /\ b \in Seq(Words)
  <2>1. a \in Seq(STRING) /\ b \in Seq(STRING) BY <1>2, SlugType DEF SlugOf
  <2>2. STRING \subseteq Words BY DEF Words
  <2> HIDE DEF a, b
  <2> QED BY <2>1, <2>2, WiderSeq, Zenon
<1>4. a # <<>> /\ b # <<>> BY <1>1 DEF Items, SlugOf
<1>5. m \in 1..9 /\ n \in 1..9
  <2>1. m \in 1..j BY <1>1, OrdinalFacts
  <2>2. n \in 1..k BY OrdinalFacts
  <2>3. Len(items) \in 0..9 BY NumeralFacts
  <2> HIDE DEF m, n
  <2> QED BY <1>1, <2>1, <2>2, <2>3
<1>6. a = b => m < n BY OrdinalFacts
<1>7. /\ \A h \in 2..9 : a[Len(a)] # Numerals[h]
      /\ \A h \in 2..9 : b[Len(b)] # Numerals[h]
  BY <1>1, NumeralFacts DEF OwnTitles, SlugOf
<1>8. /\ Feature(items, j).id = Suffixed(a, m)
      /\ Feature(items, k).id = Suffixed(b, n)
  BY DEF Feature
<1> HIDE DEF a, b, m, n
<1>9. Suffixed(a, m) # Suffixed(b, n)
  <2> DEFINE A == Append(a, Numerals[m])
             B == Append(b, Numerals[n])
  <2>1. /\ A \in Seq(Words) /\ Len(A) = Len(a) + 1 /\ A[Len(A)] = Numerals[m]
        /\ \A h \in 1..Len(a) : A[h] = a[h]
    BY <1>3, <1>5, NumeralFacts
  <2>2. /\ B \in Seq(Words) /\ Len(B) = Len(b) + 1 /\ B[Len(B)] = Numerals[n]
        /\ \A h \in 1..Len(b) : B[h] = b[h]
    BY <1>3, <1>5, NumeralFacts
  <2> HIDE DEF A, B
  <2>3. CASE m = 1 /\ n = 1 BY <1>6, <2>3 DEF Suffixed
  <2>4. CASE m = 1 /\ n # 1
    <3>1. n \in 2..9 BY <1>5, <2>4
    <3>2. Suffixed(a, m) = a BY <2>4 DEF Suffixed
    <3>3. Suffixed(b, n) = B BY <3>1 DEF Suffixed, B
    <3>4. a[Len(a)] # B[Len(B)] BY <1>7, <2>2, <3>1, Zenon
    <3> QED BY <3>2, <3>3, <3>4, Zenon
  <2>5. CASE m # 1 /\ n = 1
    <3>1. m \in 2..9 BY <1>5, <2>5
    <3>2. Suffixed(a, m) = A BY <3>1 DEF Suffixed, A
    <3>3. Suffixed(b, n) = b BY <2>5 DEF Suffixed
    <3>4. A[Len(A)] # b[Len(b)] BY <1>7, <2>1, <3>1, Zenon
    <3> QED BY <3>2, <3>3, <3>4, Zenon
  <2>6. CASE m # 1 /\ n # 1
    <3>1. Suffixed(a, m) = A /\ Suffixed(b, n) = B
      BY <1>5, <2>6 DEF Suffixed, A, B
    <3>2. ASSUME A = B PROVE FALSE
      <4>1. Len(a) = Len(b) /\ Len(a) \in Nat BY <1>3, <2>1, <2>2, <3>2
      <4>2. m = n BY <1>5, <2>1, <2>2, <3>2, NumeralFacts
      <4>3. \A h \in 1..Len(a) : a[h] = b[h] BY <2>1, <2>2, <3>2, <4>1
      <4>4. a = b BY <1>3, <4>1, <4>3
      <4> QED BY <1>5, <1>6, <4>2, <4>4
    <3> QED BY <3>1, <3>2
  <2> QED BY <2>3, <2>4, <2>5, <2>6
<1> QED BY <1>8, <1>9

\* However titles repeat, and whatever stands between them, no two features
\* of a file share an ID, as long as no title ends in a number of its own.
THEOREM UniqueIdsHolds ==
    ASSUME OwnTitles
    PROVE  Spec => []UniqueIds
<1>1. FileOK => UniqueIds
  <2> SUFFICES ASSUME FileOK PROVE UniqueIds
    OBVIOUS
  <2>1. PICK items : items = Only(file, Items) OBVIOUS
  <2>2. items \in Seq(Items) /\ Len(items) \in 0..Len(Numerals)
    BY <2>1, FileItems
  <2>3. Parse(file) = [k \in 1..Len(items) |-> Feature(items, k)]
    BY <2>1, ParseIs DEF FileOK
  <2>4. Len(items) \in Nat BY <2>2
  <2>5. /\ Len(Parse(file)) = Len(items)
        /\ \A k \in 1..Len(items) : Parse(file)[k] = Feature(items, k)
    BY <2>3, <2>4
  <2>6. ASSUME NEW j \in 1..Len(items), NEW k \in 1..Len(items), j < k
        PROVE  Feature(items, j).id # Feature(items, k).id
    <3>1. j \in 1..k-1 BY <2>6
    <3> QED BY <2>2, <3>1, DistinctIds
  <2> QED BY <2>4, <2>5, <2>6 DEF UniqueIds
<1> QED BY <1>1, FileStart, FileStep, PTL DEF Spec

-----------------------------------------------------------------------------
(* The scan.                                                               *)

\* What `pave status --scan` shows for the k-th item.
Seen(items, k) ==
    IF Feature(items, k).status = "pending" /\ Mentioned(Feature(items, k).id)
    THEN [Feature(items, k) EXCEPT !.status = "implemented"]
    ELSE Feature(items, k)

LEMMA ViewIs ==
    ASSUME FileOK, NEW items, items = Only(file, Items)
    PROVE  \A k \in 1..Len(items) :
              ScanView[k].status = KeptStatus(Seen(items, k), rows)
<1>1. items \in Seq(Items) /\ Len(items) \in Nat BY ItemsType DEF FileOK
<1> DEFINE list == [k \in 1..Len(items) |-> Feature(items, k)]
           refined == [k \in 1..Len(items) |-> Seen(items, k)]
<1>2. Parse(file) = list BY ParseIs DEF FileOK
<1>3. Len(list) = Len(items) /\ \A k \in 1..Len(items) : list[k] = Feature(items, k)
  BY <1>1
<1> HIDE DEF list
<1>4. Refine(Parse(file)) = refined
  BY <1>2, <1>3 DEF Refine, Seen
<1>5. Len(refined) = Len(items) /\ \A k \in 1..Len(items) : refined[k] = Seen(items, k)
  BY <1>1
<1> HIDE DEF refined
<1>6. \A k \in 1..Len(items) :
         ScanView[k] = [Seen(items, k) EXCEPT !.status = KeptStatus(Seen(items, k), rows)]
  BY <1>4, <1>5 DEF ScanView, Reconcile
<1>7. ASSUME NEW k \in 1..Len(items), NEW kept
      PROVE  [Seen(items, k) EXCEPT !.status = kept].status = kept
  BY DEF Seen, Feature
<1> QED
  <2> TAKE k \in 1..Len(items)
  <2>1. PICK kept : kept = KeptStatus(Seen(items, k), rows) OBVIOUS
  <2>2. ScanView[k] = [Seen(items, k) EXCEPT !.status = kept]
    BY <1>6, <2>1, Zenon
  <2>3. [Seen(items, k) EXCEPT !.status = kept].status = kept BY <1>7, Zenon
  <2> QED BY <2>1, <2>2, <2>3, Zenon

\* For every file, table and code base: the scan shows what is recorded, except
\* that what is mentioned is implemented, although it is added before what is
\* recorded is looked at.
THEOREM ScanAddsTheMentionedHolds == Spec => []ScanAddsTheMentioned
<1>1. FileOK => ScanAddsTheMentioned
  <2> SUFFICES ASSUME FileOK PROVE ScanAddsTheMentioned
    OBVIOUS
  <2>1. PICK items : items = Only(file, Items) OBVIOUS
  <2>2. file \in Seq(Lines) BY DEF FileOK
  <2>3. /\ Len(Plan(file, rows)) = Len(items)
        /\ \A k \in 1..Len(items) :
              /\ Plan(file, rows)[k].id = Feature(items, k).id
              /\ Plan(file, rows)[k].status = KeptStatus(Feature(items, k), rows)
    BY <2>1, <2>2, PlanIs
  <2>4. ASSUME NEW k \in 1..Len(items)
        PROVE  ScanView[k].status =
                 IF Mentioned(Plan(file, rows)[k].id)
                 THEN "implemented" ELSE Plan(file, rows)[k].status
    <3>1. ScanView[k].status = KeptStatus(Seen(items, k), rows)
      BY <2>1, ViewIs
    <3>2. CASE /\ Feature(items, k).status = "pending"
               /\ Mentioned(Feature(items, k).id)
      <4>1. Seen(items, k) = [Feature(items, k) EXCEPT !.status = "implemented"]
        BY <3>2 DEF Seen
      <4>2. Seen(items, k).status = "implemented" BY <4>1 DEF Feature
      <4>3. KeptStatus(Seen(items, k), rows) = "implemented"
        BY <4>2 DEF KeptStatus
      <4> QED BY <2>3, <3>1, <3>2, <4>3
    <3>3. CASE ~Mentioned(Feature(items, k).id)
      <4>1. Seen(items, k) = Feature(items, k) BY <3>3 DEF Seen
      <4> QED BY <2>3, <3>1, <3>3, <4>1
    <3>4. CASE Feature(items, k).status = "implemented"
      <4>1. Seen(items, k) = Feature(items, k) BY <3>4 DEF Seen
      <4>2. KeptStatus(Feature(items, k), rows) = "implemented"
        BY <3>4 DEF KeptStatus
      <4> QED BY <2>3, <3>1, <4>1, <4>2
    <3>5. Feature(items, k).status \in {"pending", "implemented"}
      BY DEF Feature, Mark
    <3> QED BY <3>2, <3>3, <3>4, <3>5
  <2> QED BY <2>3, <2>4 DEF ScanAddsTheMentioned, Mentioned, Searched
<1> QED BY <1>1, FileStart, FileStep, PTL DEF Spec

-----------------------------------------------------------------------------
(* Dependencies.                                                           *)

\* What is declared is found by applyMeta, unless it finds something that no
\* feature has as its ID.
LEMMA DeclaredIsFound ==
    ASSUME NEW l \in Lines, NEW d \in Declared(l.meta)
    PROVE  d \in DependsOn(l.meta) \/ WithBlanks \in DependsOn(l.meta)
<1>1. l.meta \in Seq([key : STRING, val : Seq(Seq(STRING))]) BY LinesAssumption
<1>2. Len(l.meta) \in Nat BY <1>1
<1>a. PICK h \in 1..Len(l.meta) :
         /\ d \in Range(l.meta[h].val)
         /\ \E j \in 1..h : /\ l.meta[j].key = "depends"
                           /\ \A e \in j+1..h : l.meta[e].key = "bare"
  BY Zenon DEF Declared
<1>3. PICK k \in 1..h : /\ l.meta[k].key = "depends"
                       /\ \A e \in k+1..h : l.meta[e].key = "bare"
  BY <1>a
<1> DEFINE part == l.meta[h]
<1>4. part \in Range(l.meta)
  <2>1. DOMAIN l.meta = 1..Len(l.meta) BY <1>1
  <2> QED BY <2>1 DEF Range
<1>5. part.val \in Seq(Seq(STRING))
  <2> DEFINE Parts == [key : STRING, val : Seq(Seq(STRING))]
  <2>1. l.meta \in Seq(Parts) BY <1>1
  <2> HIDE DEF Parts
  <2>2. part \in Parts BY <2>1
  <2> HIDE DEF part
  <2> QED BY <2>2 DEF Parts
<1>6. part.key = "depends" \/ part.key = "bare"
  <2>1. CASE k = h BY <1>3, <2>1
  <2>2. CASE k # h
    <3>1. h \in k+1..h BY <1>2, <2>2
    <3> QED BY <1>3, <3>1
  <2> QED BY <2>1, <2>2
<1>7. Len(part.val) \in Nat /\ Len(part.val) # 0
  <2>1. Len(part.val) \in Nat /\ DOMAIN part.val = 1..Len(part.val) BY <1>5
  <2>2. DOMAIN part.val # {} BY <1>a DEF Range
  <2> HIDE DEF part
  <2>3. Len(part.val) = 0 => 1..Len(part.val) = {} BY <2>1
  <2> QED BY <2>1, <2>2, <2>3
<1>8. d \in Range(part.val) BY <1>a
<1> HIDE DEF part
<1>9. CASE part.key = "depends" \/ Len(part.val) = 1
  BY <1>4, <1>6, <1>8, <1>9 DEF DependsOn
<1>10. CASE part.key = "bare" /\ Len(part.val) > 1
  <2> DEFINE S == {q \in Range(l.meta) : q.key = "bare" /\ Len(q.val) > 1}
  <2>1. part \in S BY <1>4, <1>10
  <2> DEFINE T == {WithBlanks : p \in S}
             U == UNION {Range(p.val) : p \in {q \in Range(l.meta) :
                    \/ q.key \in {"depends", "dependson", "deps"}
                    \/ q.key = "bare" /\ Len(q.val) = 1}}
  <2>2. DependsOn(l.meta) = U \cup T BY DEF DependsOn
  <2> HIDE DEF S
  <2>3. WithBlanks \in T BY <2>1
  <2> HIDE DEF T, U
  <2> QED BY <2>2, <2>3
<1>11. Len(part.val) = 1 \/ Len(part.val) > 1
  <2>1. \A n \in Nat : n # 0 => n = 1 \/ n > 1 OBVIOUS
  <2> QED BY <1>7, <2>1, Zenon
<1> QED BY <1>6, <1>9, <1>10, <1>11, Zenon

LEMMA NobodysId ==
    ASSUME NEW items \in Seq(Items), NEW k \in 1..Len(items)
    PROVE  Feature(items, k).id # WithBlanks
<1> DEFINE slug == SlugOf(items, k)
<1>1. items[k] \in Lines /\ Slug(items[k].text) # <<>> BY DEF Items
<1>2. slug \in Seq(STRING \ NonWords) /\ slug # <<>>
  BY <1>1, SlugType DEF SlugOf
<1> HIDE DEF slug
<1>3. slug[1] \notin NonWords /\ Len(slug) \in Nat /\ Len(slug) >= 1 BY <1>2
<1>4. ASSUME NEW n PROVE Suffixed(slug, n)[1] = slug[1]
  <2>1. Append(slug, Numerals[n])[1] = slug[1]
    <3>1. PICK x : x = Numerals[n] OBVIOUS
    <3>2. Append(slug, x)[1] = slug[1] BY <1>2, <1>3
    <3> QED BY <3>1, <3>2
  <2> QED BY <2>1 DEF Suffixed
<1>5. Feature(items, k).id = Suffixed(slug, Ordinal(items, k)) BY DEF Feature, slug
<1>6. WithBlanks[1] = "blank" /\ "blank" \in NonWords
  BY DEF WithBlanks, NonWords, Symbols
<1> QED BY <1>3, <1>4, <1>5, <1>6

\* A table written by a run over features with distinct IDs has what the run
\* gave to each of them.
Distinct(plan) ==
    \A j, k \in 1..Len(plan) : plan[j].id = plan[k].id => j = k
Written(plan, after) ==
    [id \in {plan[k].id : k \in 1..Len(plan)} |->
        after[Max({k \in 1..Len(plan) : plan[k].id = id})]]
Holds(table, plan, after) ==
    /\ DOMAIN table = {plan[k].id : k \in 1..Len(plan)}
    /\ \A k \in 1..Len(plan) : table[plan[k].id] = after[k]

LEMMA TableIs ==
    ASSUME NEW plan, Len(plan) \in Nat, NEW after, Distinct(plan)
    PROVE  Holds(Written(plan, after), plan, after)
<1>1. ASSUME NEW k \in 1..Len(plan)
      PROVE  Written(plan, after)[plan[k].id] = after[k]
  <2>1. {j \in 1..Len(plan) : plan[j].id = plan[k].id} = {k} BY DEF Distinct
  <2>2. Max({k}) = k BY DEF Max
  <2> QED BY <2>1, <2>2 DEF Written
<1>2. DOMAIN Written(plan, after) = {plan[k].id : k \in 1..Len(plan)}
  BY DEF Written
<1> QED BY <1>1, <1>2 DEF Holds

\* No run implements a feature while one that it declares as a dependency is
\* not implemented, as long as IDs are unique.
THEOREM DeclaredDependenciesFirstHolds ==
    ASSUME OwnTitles
    PROVE  Spec => DeclaredDependenciesFirst
<1> DEFINE Step == rows' # rows =>
          \A plan \in {Plan(file, rows)}, items \in {Only(file, Items)} :
          \A k \in 1..Len(plan) :
              plan[k].status # "implemented" /\ Has(rows', plan[k].id) =>
                  \A d \in Declared(items[k].meta) : Has(rows', d)
<1>1. FileOK /\ [Next]_vars => [Step]_vars
  <2> SUFFICES ASSUME FileOK, Next, rows' # rows,
                      NEW plan, plan = Plan(file, rows),
                      NEW items, items = Only(file, Items),
                      NEW k \in 1..Len(plan),
                      plan[k].status # "implemented", Has(rows', plan[k].id),
                      NEW d \in Declared(items[k].meta)
               PROVE  Has(rows', d)
    BY DEF vars
  <2>1. PaveRun
    BY DEF Next, InsertLine, RemoveLine, WriteCode, WriteHidden
  <2>2. PICK after \in Runs(plan) :
           rows' = Written(plan, after)
    BY <2>1 DEF PaveRun, Written
  <2>3. /\ Len(plan) = Len(items)
        /\ \A j \in 1..Len(items) : /\ plan[j].id = Feature(items, j).id
                                    /\ plan[j].deps = Feature(items, j).deps
    BY PlanIs DEF FileOK
  <2>4. items \in Seq(Items) /\ Len(items) \in 0..Len(Numerals)
    BY FileItems
  <2>5. Len(plan) \in Nat BY <2>3, <2>4
  <2>6. Distinct(plan)
    <3>1. ASSUME NEW h \in 1..Len(plan), NEW j \in 1..Len(plan), h < j
          PROVE  plan[h].id # plan[j].id
      <4>1. h \in 1..j-1 /\ j \in 1..Len(items) /\ h \in 1..Len(items)
        BY <2>3, <2>5, <3>1
      <4> QED BY <2>3, <2>4, <4>1, DistinctIds
    <3> QED BY <2>5, <3>1 DEF Distinct
  <2>7. /\ DOMAIN rows' = {plan[j].id : j \in 1..Len(plan)}
        /\ \A j \in 1..Len(plan) : rows'[plan[j].id] = after[j]
    <3>1. Holds(Written(plan, after), plan, after) BY <2>5, <2>6, TableIs, Zenon
    <3> QED BY <2>2, <3>1 DEF Holds
  <2>8. after[k] = "implemented" BY <2>7 DEF Has
  <2> DEFINE Done == IdsWith(plan, "implemented") \cup
                       {plan[j].id : j \in {h \in 1..k-1 : after[h] = "implemented"}}
  <2>9. plan[k].deps \subseteq Done /\ \A j \in 1..Len(plan) :
           after[j] # plan[j].status => plan[j].status # "implemented"
    BY <2>2, <2>8 DEF Runs
  <2>10. ASSUME NEW x \in Done
         PROVE  \E j \in 1..Len(plan) : x = plan[j].id /\ after[j] = "implemented"
    <3>1. CASE x \in IdsWith(plan, "implemented")
      BY <2>9, <3>1 DEF IdsWith
    <3>2. CASE \E h \in 1..k-1 : after[h] = "implemented" /\ x = plan[h].id
      BY <2>5, <3>2
    <3> QED BY <2>10, <3>1, <3>2
  <2> HIDE DEF Done
  <2>11. WithBlanks \notin Done
    <3>1. \A j \in 1..Len(plan) : plan[j].id # WithBlanks
      BY <2>3, <2>4, NobodysId
    <3> QED BY <2>10, <3>1
  <2>12. d \in Done
    <3>1. k \in 1..Len(items) /\ items[k] \in Items BY <2>3, <2>4
    <3>2. items[k] \in Lines BY <3>1 DEF Items
    <3>3. plan[k].deps = DependsOn(items[k].meta) BY <2>3, <3>1 DEF Feature
    <3>4. d \in plan[k].deps \/ WithBlanks \in plan[k].deps
      BY <3>2, <3>3, DeclaredIsFound
    <3> QED BY <2>9, <2>11, <3>4
  <2>13. PICK j \in 1..Len(plan) : d = plan[j].id /\ after[j] = "implemented"
    BY <2>10, <2>12
  <2> QED BY <2>7, <2>13 DEF Has
<1> QED BY <1>1, FileStart, FileStep, PTL DEF Spec, DeclaredDependenciesFirst

-----------------------------------------------------------------------------
(* Edits. What is recorded for the items of one title depends on these     *)
(* items and on the table, and on nothing else in the file.                *)
ItemsOf(slug) == {l \in Items : Slug(l.text) = slug}

\* The items of a title can be picked from the items as well as from the file.
LEMMA GroupOfItems ==
    ASSUME NEW f \in Seq(Lines), NEW slug
    PROVE  Group(f, slug) = Only(Only(f, Items), ItemsOf(slug))
<1> DEFINE S == ItemsOf(slug)
           Good == {k \in Nat : k <= Len(f) =>
                      Only(Prefix(f, k), S) = Only(Only(Prefix(f, k), Items), S)}
<1>0. S \subseteq Items /\ Len(f) \in Nat BY DEF ItemsOf
<1> HIDE DEF S
<1>1. 0 \in Good
  <2>1. Prefix(f, 0) = <<>> BY PrefixFacts
  <2>2. Only(<<>>, S) = <<>> /\ Only(<<>>, Items) = <<>> BY OnlyEmpty
  <2> QED BY <2>1, <2>2
<1>2. ASSUME NEW k \in Nat, k \in Good PROVE k + 1 \in Good
  <2> SUFFICES ASSUME k + 1 <= Len(f)
               PROVE  Only(Prefix(f, k + 1), S)
                        = Only(Only(Prefix(f, k + 1), Items), S)
    OBVIOUS
  <2>1. k + 1 \in 1..Len(f) /\ (k + 1) - 1 = k /\ k \in 0..Len(f) OBVIOUS
  <2> DEFINE p == Prefix(f, k)
             x == f[k + 1]
             o == Only(p, Items)
  <2>2. p \in Seq(Lines) BY <2>1, PrefixFacts
  <2>3. Prefix(f, k + 1) = Append(p, x)
    <3>1. \A j \in 1..Len(f) : Prefix(f, j) = Append(Prefix(f, j-1), f[j])
      BY PrefixFacts
    <3> QED BY <2>1, <3>1
  <2>4. x \in Lines BY <2>1
  <2>5. Only(p, S) = Only(o, S) BY <1>2, <2>1
  <2> HIDE DEF p, x
  <2>6. o \in Seq(Items) BY <2>2, ItemsType
  <2> HIDE DEF o
  <2>7. /\ Only(Append(p, x), S) = IF x \in S THEN Append(Only(p, S), x) ELSE Only(p, S)
        /\ Only(Append(p, x), Items) = IF x \in Items THEN Append(o, x) ELSE o
    BY <2>2, <2>4, OnlyAppend DEF o
  <2>8. x \in Items => Only(Append(o, x), S)
                         = IF x \in S THEN Append(Only(o, S), x) ELSE Only(o, S)
    BY <2>6, OnlyAppend
  <2> QED BY <1>0, <2>3, <2>5, <2>7, <2>8
<1> HIDE DEF Good
<1>3. Len(f) \in Good BY <1>0, <1>1, <1>2, NatSetInduction
<1>4. Only(Prefix(f, Len(f)), S) = Only(Only(Prefix(f, Len(f)), Items), S)
  BY <1>0, <1>3 DEF Good
<1>5. Prefix(f, Len(f)) = f BY PrefixFacts
<1> QED BY <1>4, <1>5 DEF Group, S, ItemsOf

\* What is recorded for the n-th of the items of a title, and for all of them.
StatusAt(l, slug, n, r) ==
    KeptStatus([id |-> Suffixed(slug, n), status |-> Mark(l),
                deps |-> DependsOn(l.meta)], r)
RecordOf(group, slug, r) ==
    [n \in 1..Len(group) |-> <<slug, StatusAt(group[n], slug, n, r)>>]

LEMMA RecordAppend ==
    ASSUME NEW group \in Seq(Items), NEW x \in Items, NEW slug, NEW r
    PROVE  RecordOf(Append(group, x), slug, r)
             = Append(RecordOf(group, slug, r),
                      <<slug, StatusAt(x, slug, Len(group) + 1, r)>>)
<1> DEFINE more == Append(group, x)
           Pair(l, n) == <<slug, StatusAt(l, slug, n, r)>>
           old == [n \in 1..Len(group) |-> Pair(group[n], n)]
<1>1. /\ Len(group) \in Nat /\ Len(more) = Len(group) + 1
      /\ \A n \in 1..Len(group) : more[n] = group[n]
      /\ more[Len(group) + 1] = x
  OBVIOUS
<1> HIDE DEF more, Pair
<1>2. [n \in 1..Len(more) |-> Pair(more[n], n)] = Append(old, Pair(x, Len(group) + 1))
  BY <1>1
<1> QED BY <1>2 DEF RecordOf, more, Pair

\* How many of the first k items have the slug.
Before(items, slug, k) == {j \in 1..k : SlugOf(items, j) = slug}

LEMMA BeforeNext ==
    ASSUME NEW items, NEW slug, NEW k \in Nat
    PROVE  /\ Cardinality(Before(items, slug, 0)) = 0
           /\ Cardinality(Before(items, slug, k)) \in Nat
           /\ Cardinality(Before(items, slug, k + 1))
                = IF SlugOf(items, k + 1) = slug
                  THEN Cardinality(Before(items, slug, k)) + 1
                  ELSE Cardinality(Before(items, slug, k))
<1>1. Before(items, slug, 0) = {} BY DEF Before
<1>2. IsFiniteSet(Before(items, slug, k))
  <2>1. IsFiniteSet(1..k) BY FS_Interval
  <2>2. Before(items, slug, k) \subseteq 1..k BY DEF Before
  <2> QED BY <2>1, <2>2, FS_Subset
<1>3. k + 1 \notin Before(items, slug, k) BY DEF Before
<1>4. Before(items, slug, k + 1)
        = IF SlugOf(items, k + 1) = slug
          THEN Before(items, slug, k) \cup {k + 1} ELSE Before(items, slug, k)
  BY DEF Before
<1>5. Cardinality(Before(items, slug, k) \cup {k + 1})
        = Cardinality(Before(items, slug, k)) + 1
  BY <1>2, <1>3, FS_AddElement
<1>6. Cardinality(Before(items, slug, k)) \in Nat BY <1>2, FS_CardinalityType
<1>7. Cardinality(Before(items, slug, 0)) = 0 BY <1>1, FS_EmptySet
<1> QED BY <1>4, <1>5, <1>6, <1>7

\* What a plan has for the items of a title.
LEMMA RecordedOf ==
    ASSUME NEW f \in Seq(Lines), NEW r, NEW slug
    PROVE  Of(Recorded(f, Plan(f, r)), slug) = RecordOf(Group(f, slug), slug, r)
<1> DEFINE items == Only(f, Items)
           pairs == Recorded(f, Plan(f, r))
           S == {p \in Range(pairs) : p[1] = slug}
           G(k) == Only(Prefix(items, k), ItemsOf(slug))
           Good == {k \in Nat : k <= Len(items) =>
                      /\ Len(G(k)) = Cardinality(Before(items, slug, k))
                      /\ Only(Prefix(pairs, k), S) = RecordOf(G(k), slug, r)}
           StatusOf(k) == KeptStatus(Feature(items, k), r)
<1>1. items \in Seq(Items) /\ Len(items) \in Nat BY ItemsType
<1>2. ItemsOf(slug) \subseteq Items BY DEF ItemsOf
<1>3. \A k \in 1..Len(items) : Plan(f, r)[k].status = StatusOf(k) BY PlanIs
<1>4. pairs = [k \in 1..Len(items) |-> <<SlugOf(items, k), StatusOf(k)>>]
  BY <1>3 DEF Recorded, SlugOf
<1> HIDE DEF items, StatusOf, pairs
<1>5. /\ Len(pairs) = Len(items)
      /\ \A k \in 1..Len(items) : /\ pairs[k] = <<SlugOf(items, k), StatusOf(k)>>
                                  /\ pairs[k] \in Range(pairs)
  BY <1>1, <1>4 DEF Range
<1>6. pairs \in Seq(Range(pairs)) BY <1>1, <1>4 DEF Range
<1>7. 0 \in Good
  <2>1. Prefix(items, 0) = <<>> BY <1>1, PrefixFacts
  <2>2. Prefix(pairs, 0) = <<>> BY <1>6, PrefixFacts
  <2>3. Only(<<>>, S) = <<>> /\ Only(<<>>, ItemsOf(slug)) = <<>>
    BY OnlyEmpty
  <2>4. RecordOf(<<>>, slug, r) = <<>> BY DEF RecordOf
  <2>5. Len(<<>>) = 0 OBVIOUS
  <2>6. Cardinality(Before(items, slug, 0)) = 0 BY BeforeNext
  <2> HIDE DEF S
  <2>7. G(0) = <<>> BY <2>1, <2>3, Zenon
  <2>8. Only(Prefix(pairs, 0), S) = RecordOf(G(0), slug, r)
    BY <2>2, <2>3, <2>4, <2>7, Zenon
  <2>9. Len(G(0)) = Cardinality(Before(items, slug, 0))
    BY <2>5, <2>6, <2>7, Zenon
  <2> QED BY <2>8, <2>9
<1>8. ASSUME NEW k \in Nat, k \in Good PROVE k + 1 \in Good
  <2> SUFFICES ASSUME k + 1 <= Len(items)
               PROVE  /\ Len(G(k + 1)) = Cardinality(Before(items, slug, k + 1))
                      /\ Only(Prefix(pairs, k + 1), S)
                           = RecordOf(G(k + 1), slug, r)
    OBVIOUS
  <2>1. k + 1 \in 1..Len(items) /\ (k + 1) - 1 = k /\ k \in 0..Len(items)
    BY <1>1
  <2> DEFINE p == Prefix(items, k)
             q == Prefix(pairs, k)
             x == items[k + 1]
             y == pairs[k + 1]
  <2>2. /\ Len(G(k)) = Cardinality(Before(items, slug, k))
        /\ Only(q, S) = RecordOf(G(k), slug, r)
    BY <1>8, <2>1
  <2>3. p \in Seq(Items) /\ x \in Items /\ Prefix(items, k + 1) = Append(p, x)
    <3>1. /\ \A j \in 0..Len(items) : Prefix(items, j) \in Seq(Items)
          /\ \A j \in 1..Len(items) :
                Prefix(items, j) = Append(Prefix(items, j-1), items[j])
      BY <1>1, PrefixFacts
    <3> QED BY <1>1, <2>1, <3>1
  <2>4. q \in Seq(Range(pairs)) /\ y \in Range(pairs)
        /\ Prefix(pairs, k + 1) = Append(q, y)
    <3>1. /\ \A j \in 0..Len(pairs) : Prefix(pairs, j) \in Seq(Range(pairs))
          /\ \A j \in 1..Len(pairs) :
                Prefix(pairs, j) = Append(Prefix(pairs, j-1), pairs[j])
      BY <1>6, PrefixFacts
    <3> QED BY <1>5, <2>1, <3>1
  <2> HIDE DEF p, q, x, y
  <2>5. G(k) \in Seq(Items)
    <3>1. Only(p, ItemsOf(slug)) \in Seq(Items \cap ItemsOf(slug))
      BY <2>3, OnlyType
    <3> QED BY <1>2, <3>1 DEF p
  <2>6. Only(Append(p, x), ItemsOf(slug))
          = IF x \in ItemsOf(slug) THEN Append(Only(p, ItemsOf(slug)), x)
            ELSE Only(p, ItemsOf(slug))
    BY <2>3, OnlyAppend, Zenon
  <2>7. Only(Append(q, y), S) = IF y \in S THEN Append(Only(q, S), y) ELSE Only(q, S)
    <3> HIDE DEF S
    <3> QED BY <2>4, OnlyAppend, Zenon
  <2>8. G(k + 1) = IF x \in ItemsOf(slug) THEN Append(G(k), x) ELSE G(k)
    BY <2>3, <2>6 DEF p
  <2>9. y = <<SlugOf(items, k + 1), StatusOf(k + 1)>> BY <1>5, <2>1 DEF y
  <2>10. /\ x \in ItemsOf(slug) <=> SlugOf(items, k + 1) = slug
         /\ y \in S <=> SlugOf(items, k + 1) = slug
    BY <2>3, <2>4, <2>9 DEF ItemsOf, SlugOf, x
  <2>11. /\ Cardinality(Before(items, slug, k)) \in Nat
         /\ Cardinality(Before(items, slug, k + 1))
              = IF SlugOf(items, k + 1) = slug
                THEN Cardinality(Before(items, slug, k)) + 1
                ELSE Cardinality(Before(items, slug, k))
    BY BeforeNext
  <2> HIDE DEF G, S
  <2>12. CASE SlugOf(items, k + 1) = slug
    <3>1. G(k + 1) = Append(G(k), x) BY <2>8, <2>10, <2>12
    <3>2. Len(G(k + 1)) = Len(G(k)) + 1 BY <2>3, <2>5, <3>1
    <3>3. Ordinal(items, k + 1) = Len(G(k)) + 1
      <4>1. Ordinal(items, k + 1) = Cardinality(Before(items, slug, k + 1))
        BY <2>12 DEF Ordinal, Before
      <4> QED BY <2>2, <2>11, <2>12, <4>1
    <3>4. StatusOf(k + 1) = StatusAt(x, slug, Len(G(k)) + 1, r)
      BY <2>12, <3>3, Zenon DEF StatusOf, StatusAt, Feature, x
    <3>5. y = <<slug, StatusAt(x, slug, Len(G(k)) + 1, r)>>
      BY <2>9, <2>12, <3>4
    <3>6. Only(Prefix(pairs, k + 1), S) = Append(RecordOf(G(k), slug, r), y)
      BY <2>2, <2>4, <2>7, <2>10, <2>12
    <3>7. RecordOf(Append(G(k), x), slug, r) = Append(RecordOf(G(k), slug, r), y)
      BY <2>3, <2>5, <3>5, RecordAppend
    <3> QED BY <2>2, <2>11, <2>12, <3>1, <3>2, <3>6, <3>7
  <2>13. CASE SlugOf(items, k + 1) # slug
    BY <2>2, <2>4, <2>7, <2>8, <2>10, <2>11, <2>13
  <2> QED BY <2>12, <2>13
<1> HIDE DEF Good
<1>9. Len(items) \in Good BY <1>1, <1>7, <1>8, NatSetInduction
<1>10. Only(Prefix(pairs, Len(items)), S) = RecordOf(G(Len(items)), slug, r)
  BY <1>1, <1>9 DEF Good
<1>11. Prefix(items, Len(items)) = items BY <1>1, PrefixFacts
<1>12. Prefix(pairs, Len(items)) = pairs BY <1>5, <1>6, PrefixFacts
<1>13. G(Len(items)) = Group(f, slug) BY <1>11, GroupOfItems DEF items
<1> QED BY <1>10, <1>12, <1>13 DEF Of, pairs

\* For every edit: what is recorded for the items of one title is the same as
\* before when these items are.
THEOREM EditsAreLocalHolds == Spec => EditsAreLocal
<1> DEFINE Step == file' # file =>
          \A plan \in {Plan(file, rows)}, next \in {Plan(file', rows)} :
          \A s \in {Slug(l.text) : l \in Range(file)} :
              Group(file', s) = Group(file, s) =>
                  Of(Recorded(file', next), s) = Of(Recorded(file, plan), s)
<1>1. FileOK /\ FileOK' => Step
  <2> SUFFICES ASSUME FileOK, FileOK', NEW s, Group(file', s) = Group(file, s)
               PROVE  Of(Recorded(file', Plan(file', rows)), s)
                        = Of(Recorded(file, Plan(file, rows)), s)
    OBVIOUS
  <2>1. file \in Seq(Lines) /\ file' \in Seq(Lines) BY DEF FileOK
  <2>2. Of(Recorded(file, Plan(file, rows)), s)
          = RecordOf(Group(file, s), s, rows)
    BY <2>1, RecordedOf
  <2>3. Of(Recorded(file', Plan(file', rows)), s)
          = RecordOf(Group(file', s), s, rows)
    BY <2>1, RecordedOf
  <2> QED BY <2>2, <2>3
<1>2. FileOK /\ FileOK' /\ [Next]_vars => [Step]_vars BY <1>1
<1> QED BY <1>2, FileStart, FileStep, PTL DEF Spec, EditsAreLocal
=============================================================================
