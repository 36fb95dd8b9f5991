----------------------------- MODULE TextProofs -----------------------------
(***************************************************************************)
(* Theorems about the two components that work on text.                    *)
(*                                                                         *)
(* Redaction (internal/backup/secrets.go): whatever the tools write, in    *)
(* whatever chunks, no secret reaches the log, the log is what one reads   *)
(* in the text symbol by symbol, and the line buffer keeps its limit.      *)
(*                                                                         *)
(* Selection (internal/backup/config.go and app.go): a backup run selects  *)
(* what the settings mean, each database once; restore looks for the key   *)
(* that a backup was stored under; and retention deletes nothing but       *)
(* earlier backups of the same mode, prefix and databases, since a key     *)
(* tells them apart whatever characters a name holds.                      *)
(*                                                                         *)
(* Both are defined by recursive functions on sequences.  What these       *)
(* compute is proved from the first-order induction on Nat below.          *)
(***************************************************************************)
EXTENDS Redaction, Selection, FiniteSetTheorems, NaturalsInduction, SequenceTheorems, TLAPS

-----------------------------------------------------------------------------
(* Induction and recursion.                                                *)

\* What holds of zero and goes on from each number holds of all.
LEMMA Induction ==
  ASSUME NEW S, S \subseteq Nat, 0 \in S, \A n \in S : n + 1 \in S
  PROVE  S = Nat
<1> DEFINE T == Nat \ S
<1>1. SUFFICES ASSUME T # {} PROVE FALSE
  OBVIOUS
<1>2. PICK x \in T : \A y \in T : ~(<<y, x>> \in OpToRel(<, Nat))
  <2>1. T \subseteq Nat /\ T # {}
    BY <1>1
  <2> HIDE DEF T
  <2>2. QED
    BY <2>1, NatLessThanWellFounded, WFMin
<1>3. x \in Nat /\ x # 0 /\ x \notin S
  OBVIOUS
<1>4. x - 1 \in Nat /\ (x - 1) + 1 = x
  BY <1>3
<1>5. x - 1 \notin S
  BY <1>3, <1>4
<1>6. <<x - 1, x>> \in OpToRel(<, Nat)
  BY <1>3, <1>4 DEF OpToRel
<1>7. QED
  BY <1>2, <1>4, <1>5, <1>6

\* A function that is defined by its value at the number before.
Recurs(f, n, base, step) == f[0] = base /\ \A k \in 1..n : f[k] = step[<<k, f[k - 1]>>]

\* There is such a function, when the next value is a function of the one before.
LEMMA Recursion ==
  ASSUME NEW n \in Nat, NEW S, NEW base \in S, NEW step \in [(1..n) \X S -> S]
  PROVE  \E f \in [0..n -> S] : Recurs(f, n, base, step)
<1> DEFINE Up(m) == \E f \in [0..m -> S] :
                      f[0] = base /\ \A k \in 1..m : f[k] = step[<<k, f[k - 1]>>]
           N == {m \in Nat : m <= n => Up(m)}
<1>1. 0 \in N
  <2>1. [k \in 0..0 |-> base] \in [0..0 -> S] /\ 0 \in 0..0
    OBVIOUS
  <2>2. [k \in 0..0 |-> base][0] = base /\ 1..0 = {}
    BY <2>1
  <2>3. Up(0)
    BY <2>1, <2>2, Zenon
  <2>4. QED
    BY <2>3
<1>2. ASSUME NEW m \in N PROVE m + 1 \in N
  <2>1. SUFFICES ASSUME m + 1 <= n PROVE Up(m + 1)
    OBVIOUS
  <2>2. m \in Nat /\ Up(m)
    <3> HIDE DEF Up
    <3>1. m \in Nat /\ (m <= n => Up(m))
      OBVIOUS
    <3>2. QED
      BY <2>1, <3>1
  <2>3. PICK f \in [0..m -> S] :
               f[0] = base /\ \A k \in 1..m : f[k] = step[<<k, f[k - 1]>>]
    BY <2>2
  <2> DEFINE g == [k \in 0..m + 1 |-> IF k = m + 1 THEN step[<<m + 1, f[m]>>] ELSE f[k]]
  <2>4. m \in 0..m /\ m + 1 \in 1..n /\ \A k \in 1..m + 1 : k - 1 \in 0..m /\ k - 1 \in 0..m + 1
    BY <2>1, <2>2
  <2>5. f[m] \in S /\ <<m + 1, f[m]>> \in (1..n) \X S
    BY <2>3, <2>4
  <2>6. step[<<m + 1, f[m]>>] \in S
    BY <2>5
  <2>7. g \in [0..m + 1 -> S] /\ \A k \in 0..m : g[k] = f[k]
    BY <2>2, <2>6
  <2>8. ASSUME NEW k \in 1..m + 1 PROVE g[k] = step[<<k, g[k - 1]>>]
    <3>1. g[k - 1] = f[k - 1]
      BY <2>2, <2>4, <2>7
    <3>2. CASE k = m + 1
      <4>1. g[k] = step[<<m + 1, f[m]>>] /\ k - 1 = m
        BY <2>2, <3>2
      <4> HIDE DEF g
      <4>2. QED
        BY <3>1, <3>2, <4>1
    <3>3. CASE k # m + 1
      <4>1. k \in 1..m /\ k \in 0..m
        BY <2>2, <3>3
      <4> HIDE DEF g
      <4>2. QED
        BY <2>3, <2>7, <3>1, <4>1
    <3>4. QED
      BY <3>2, <3>3
  <2>9. g[0] = base
    BY <2>2, <2>3, <2>7
  <2>10. QED
    BY <2>7, <2>8, <2>9, Zenon
<1>3. Up(n)
  <2> HIDE DEF Up
  <2>1. N = Nat
    <3> HIDE DEF N
    <3>1. N \subseteq Nat
      BY DEF N
    <3>2. QED
      BY <1>1, <1>2, <3>1, Induction
  <2>2. QED
    BY <2>1
<1>4. QED
  BY <1>3, Zenon DEF Recurs

-----------------------------------------------------------------------------
(* Hide.                                                                   *)

\* Everything that can be in a line or in the log.
Text == Symbols \cup {NL, Redacted, Omitted}

Matches(s, old, i) == IsPrefix(old, SubSeq(s, i, Len(s)))

\* A match lies within the line.
LEMMA MatchFits ==
  ASSUME NEW s \in Seq(Text), NEW old \in Seq(Symbols) \ {<<>>},
         NEW i \in 1..Len(s), Matches(s, old, i)
  PROVE  /\ i + Len(old) \in i + 1..Len(s) + 1
         /\ \A j \in 1..Len(old) : s[i + j - 1] = old[j]
<1>1. /\ SubSeq(s, i, Len(s)) \in Seq(Text) /\ Len(SubSeq(s, i, Len(s))) = Len(s) - i + 1
      /\ \A j \in 1..Len(s) - i + 1 : SubSeq(s, i, Len(s))[j] = s[i + j - 1]
  OBVIOUS
<1>2. Len(old) \in Nat /\ Len(old) > 0 /\ Len(old) <= Len(s) - i + 1
  BY <1>1 DEF Matches, IsPrefix
<1>3. \A j \in 1..Len(old) : old[j] = SubSeq(s, i, Len(s))[j]
  <2> DEFINE rest == SubSeq(s, i, Len(s))
  <2>1. SubSeq(old, 1, Len(old)) = SubSeq(rest, 1, Len(old))
    BY DEF Matches, IsPrefix
  <2>2. \A j \in 1..Len(old) : SubSeq(old, 1, Len(old))[j] = old[j]
    BY <1>2
  <2>3. \A j \in 1..Len(old) : SubSeq(rest, 1, Len(old))[j] = rest[j]
    BY <1>1, <1>2
  <2>4. QED
    BY <2>1, <2>2, <2>3
<1>4. QED
  BY <1>1, <1>2, <1>3

\* Its recursion is well founded: each value needs only later ones.
LEMMA HideUnfolds ==
  ASSUME NEW s \in Seq(Text), NEW old \in Seq(Symbols) \ {<<>>}
  PROVE  \E from :
           /\ Hide(s, old) = from[1]
           /\ from[Len(s) + 1] = <<>>
           /\ \A i \in 1..Len(s) :
                from[i] = IF Matches(s, old, i) THEN <<Redacted>> \o from[i + Len(old)]
                          ELSE <<s[i]>> \o from[i + 1]
<1> DEFINE n == Len(s)
           Def(f, i) == IF i > n THEN <<>>
                        ELSE IF Matches(s, old, i) THEN <<Redacted>> \o f[i + Len(old)]
                        ELSE <<s[i]>> \o f[i + 1]
           Down(k) == \E f : \A i \in n + 1 - k..n + 1 : f[i] = Def(f, i)
           S == {k \in Nat : k <= n => Down(k)}
<1>1. /\ n \in Nat
      /\ \A i \in 1..n : Matches(s, old, i) => i + Len(old) \in i + 1..n + 1
  BY MatchFits
<1>2. \A f, g, i : /\ i \in 1..n + 1
                   /\ \A j \in i + 1..n + 1 : f[j] = g[j]
                   => Def(f, i) = Def(g, i)
  <2> SUFFICES ASSUME NEW f, NEW g, NEW i \in 1..n + 1,
                      \A j \in i + 1..n + 1 : f[j] = g[j]
               PROVE  Def(f, i) = Def(g, i)
    OBVIOUS
  <2>1. CASE i > n
    BY <2>1
  <2>2. CASE i <= n
    <3>1. i \in 1..n /\ i + 1 \in i + 1..n + 1
      BY <1>1, <2>2
    <3>2. f[i + 1] = g[i + 1] /\ (Matches(s, old, i) => f[i + Len(old)] = g[i + Len(old)])
      BY <1>1, <3>1
    <3>3. QED
      BY <3>2
  <2>3. QED
    BY <1>1, <2>1, <2>2
<1>3. 0 \in S
  <2>1. \A i \in n + 1 - 0..n + 1 : i > n /\ [j \in n + 1 - 0..n + 1 |-> <<>>][i] = <<>>
    BY <1>1
  <2>2. \A i \in n + 1 - 0..n + 1 :
          [j \in n + 1 - 0..n + 1 |-> <<>>][i] = Def([j \in n + 1 - 0..n + 1 |-> <<>>], i)
    BY <2>1
  <2>3. QED
    BY <2>2
<1>4. ASSUME NEW k \in S PROVE k + 1 \in S
  <2>1. SUFFICES ASSUME k + 1 <= n PROVE Down(k + 1)
    <3> HIDE DEF Down
    <3>1. k \in Nat
      OBVIOUS
    <3>2. QED
      BY <3>1
  <2>2. k \in Nat /\ Down(k)
    <3> HIDE DEF Down
    <3>1. k \in Nat /\ (k <= n => Down(k))
      OBVIOUS
    <3>2. QED
      BY <1>1, <2>1, <3>1
  <2>3. PICK f : \A i \in n + 1 - k..n + 1 : f[i] = Def(f, i)
    BY <2>2
  <2> DEFINE first == n - k
             g == [i \in first..n + 1 |-> IF i = first THEN Def(f, first) ELSE f[i]]
  <2> HIDE DEF Def
  <2>4. /\ first \in 1..n /\ n + 1 - (k + 1) = first /\ n + 1 - k = first + 1
        /\ \A i \in first + 1..n + 1 : g[i] = f[i]
        /\ g[first] = Def(f, first)
    BY <1>1, <2>1, <2>2
  <2> HIDE DEF g, first
  <2>5. ASSUME NEW i \in first..n + 1 PROVE g[i] = Def(g, i)
    <3>1. i \in 1..n + 1 /\ \A j \in i + 1..n + 1 : g[j] = f[j]
      BY <1>1, <2>4
    <3>2. g[i] = Def(f, i)
      <4>1. CASE i = first
        BY <2>4, <4>1
      <4>2. CASE i # first
        <5>1. i \in first + 1..n + 1
          BY <1>1, <2>4, <4>2
        <5>2. QED
          BY <2>3, <2>4, <5>1
      <4>3. QED
        BY <4>1, <4>2
    <3>3. QED
      BY <1>2, <3>1, <3>2
  <2>6. QED
    BY <2>4, <2>5, Zenon
<1>5. \E f : \A i \in 1..n + 1 : f[i] = Def(f, i)
  <2>1. n \in S
    <3> HIDE DEF S
    <3>1. S \subseteq Nat
      BY DEF S
    <3>2. S = Nat
      BY <1>3, <1>4, <3>1, Induction
    <3>3. QED
      BY <1>1, <3>2
  <2>2. Down(n)
    <3> HIDE DEF Down
    <3>1. QED
      BY <1>1, <2>1
  <2>3. n + 1 - n = 1
    BY <1>1
  <2>4. QED
    BY <2>2, <2>3
<1>6. PICK f : \A i \in 1..n + 1 : f[i] = Def(f, i)
  BY <1>5
<1> DEFINE h == [i \in 1..n + 1 |-> f[i]]
<1>7. h = [i \in 1..n + 1 |-> Def(h, i)]
  <2> HIDE DEF Def
  <2>1. ASSUME NEW i \in 1..n + 1 PROVE f[i] = Def(h, i)
    <3>1. \A j \in i + 1..n + 1 : h[j] = f[j]
      BY <1>1
    <3>2. QED
      BY <1>2, <1>6, <3>1
  <2>2. QED
    BY <2>1
<1>8. \E from : from = [i \in 1..Len(s) + 1 |->
                         IF i > Len(s) THEN <<>>
                         ELSE IF IsPrefix(old, SubSeq(s, i, Len(s)))
                              THEN <<Redacted>> \o from[i + Len(old)]
                         ELSE <<s[i]>> \o from[i + 1]]
  BY <1>7, Zenon DEF Matches
<1> HIDE DEF h, Def, Down, S
<1> DEFINE from[i \in 1..Len(s) + 1] ==
             IF i > Len(s) THEN <<>>
             ELSE IF IsPrefix(old, SubSeq(s, i, Len(s))) THEN <<Redacted>> \o from[i + Len(old)]
             ELSE <<s[i]>> \o from[i + 1]
<1>9. Hide(s, old) = from[1]
  BY Zenon DEF Hide
<1>10. from = [i \in 1..Len(s) + 1 |->
                 IF i > Len(s) THEN <<>>
                 ELSE IF IsPrefix(old, SubSeq(s, i, Len(s)))
                      THEN <<Redacted>> \o from[i + Len(old)]
                 ELSE <<s[i]>> \o from[i + 1]]
  BY <1>8, Zenon
<1> HIDE DEF from
<1>11. /\ from[Len(s) + 1] = <<>>
       /\ \A i \in 1..Len(s) :
            from[i] = IF Matches(s, old, i) THEN <<Redacted>> \o from[i + Len(old)]
                      ELSE <<s[i]>> \o from[i + 1]
  <2>1. Len(s) + 1 \in 1..Len(s) + 1 /\ Len(s) + 1 > Len(s)
        /\ \A i \in 1..Len(s) : i \in 1..Len(s) + 1 /\ ~(i > Len(s))
    BY <1>1
  <2>2. QED
    BY <1>10, <2>1 DEF Matches
<1>12. QED
  BY <1>9, <1>11

\* What stands there is found.
LEMMA MatchesWhatIsThere ==
  ASSUME NEW s \in Seq(Text), NEW old \in Seq(Symbols) \ {<<>>}, NEW i \in 1..Len(s),
         i + Len(old) <= Len(s) + 1, \A j \in 1..Len(old) : s[i + j - 1] = old[j]
  PROVE  Matches(s, old, i)
<1> DEFINE rest == SubSeq(s, i, Len(s))
<1>1. /\ rest \in Seq(Text) /\ Len(rest) = Len(s) - i + 1
      /\ \A j \in 1..Len(s) - i + 1 : rest[j] = s[i + j - 1]
  OBVIOUS
<1>2. Len(old) \in Nat /\ Len(old) > 0 /\ Len(old) <= Len(rest)
  BY <1>1
<1>3. \A j \in 1..Len(old) : old[j] = rest[j]
  BY <1>1, <1>2
<1> HIDE DEF rest
<1>4. SubSeq(old, 1, Len(old)) = SubSeq(rest, 1, Len(old))
  <2>1. SubSeq(old, 1, Len(old)) = old
    BY <1>2
  <2>2. /\ SubSeq(rest, 1, Len(old)) \in Seq(Text)
        /\ Len(SubSeq(rest, 1, Len(old))) = Len(old)
        /\ \A j \in 1..Len(old) : SubSeq(rest, 1, Len(old))[j] = rest[j]
    BY <1>1, <1>2
  <2>3. old \in Seq(Text)
    BY DEF Text
  <2>4. SubSeq(rest, 1, Len(old)) = old
    BY <1>2, <1>3, <2>2, <2>3
  <2>5. QED
    BY <2>1, <2>4
<1>5. QED
  BY <1>2, <1>4 DEF Matches, IsPrefix, rest

\* The m symbols of t from the a-th one on, none of them a redaction.
Window(t, a, m) == a + m <= Len(t) + 1 /\ \A j \in 0..m - 1 : t[a + j] # Redacted

\* What can be read in t stood in s from i on, where nothing had to be hidden.
Copied(t, s, old, i) ==
  \A a, m \in Nat \ {0} : Window(t, a, m) =>
    \E b \in i..Len(s) : /\ b + m <= Len(s) + 1 /\ (a = 1 => b = i)
                         /\ ~Matches(s, old, b)
                         /\ \A j \in 0..m - 1 : t[a + j] = s[b + j]

\* A symbol in front moves the others by one.
LEMMA Prepended ==
  ASSUME NEW X, NEW x \in X, NEW r \in Seq(X)
  PROVE  /\ <<x>> \o r \in Seq(X) /\ Len(<<x>> \o r) = Len(r) + 1
         /\ (<<x>> \o r)[1] = x /\ \A j \in 1..Len(r) : (<<x>> \o r)[j + 1] = r[j]
<1> DEFINE u == <<x>>
           v == u \o r
<1>1. u \in Seq(X) /\ Len(u) = 1 /\ u[1] = x
  OBVIOUS
<1> HIDE DEF u
<1>2. ASSUME NEW s \in Seq(X), NEW t \in Seq(X)
      PROVE  /\ s \o t \in Seq(X) /\ Len(s \o t) = Len(s) + Len(t) /\ Len(t) \in Nat
             /\ \A i \in 1..Len(s) : (s \o t)[i] = s[i]
             /\ \A i \in 1..Len(t) : (s \o t)[Len(s) + i] = t[i]
  OBVIOUS
<1>3. /\ v \in Seq(X) /\ Len(v) = Len(u) + Len(r) /\ Len(r) \in Nat
      /\ \A i \in 1..Len(u) : v[i] = u[i]
      /\ \A i \in 1..Len(r) : v[Len(u) + i] = r[i]
  BY <1>1, <1>2, Zenon
<1> HIDE DEF v
<1>4. v \in Seq(X) /\ Len(v) = Len(r) + 1 /\ v[1] = x /\ \A i \in 1..Len(r) : v[i + 1] = r[i]
  BY <1>1, <1>3
<1>5. QED
  BY <1>4, Zenon DEF u, v

\* What Hide has written from the i-th symbol of s on: s, and redactions.
LEMMA HideCopies ==
  ASSUME NEW s \in Seq(Text), NEW old \in Seq(Symbols) \ {<<>>}, NEW from,
         from[Len(s) + 1] = <<>>,
         \A i \in 1..Len(s) :
           from[i] = IF Matches(s, old, i) THEN <<Redacted>> \o from[i + Len(old)]
                     ELSE <<s[i]>> \o from[i + 1],
         NEW i \in 1..Len(s) + 1
  PROVE  from[i] \in Seq(Text) /\ Copied(from[i], s, old, i)
<1> DEFINE n == Len(s)
           Copies(k, a, m, b) == /\ b \in k..n /\ b + m <= n + 1 /\ (a = 1 => b = k)
                                 /\ ~Matches(s, old, b)
                                 /\ \A j \in 0..m - 1 : from[k][a + j] = s[b + j]
           Good(k) == /\ from[k] \in Seq(Text)
                      /\ \A a, m \in Nat \ {0} : Window(from[k], a, m) => \E b : Copies(k, a, m, b)
           S == {d \in Nat : \A k \in 1..n + 1 : k >= n + 1 - d => Good(k)}
<1>1. n \in Nat /\ Len(old) \in Nat \ {0}
  OBVIOUS
<1>2. 0 \in S
  <2>1. Good(n + 1)
    <3>1. from[n + 1] = <<>> /\ \A a, m \in Nat \ {0} : ~Window(<<>>, a, m)
      BY DEF Window
    <3>2. QED
      BY <3>1
  <2> HIDE DEF Good
  <2>2. \A k \in 1..n + 1 : k >= n + 1 - 0 => k = n + 1
    BY <1>1
  <2>3. QED
    BY <2>1, <2>2
<1>3. ASSUME NEW d \in S PROVE d + 1 \in S
  <2>1. d \in Nat /\ \A k \in 1..n + 1 : k >= n + 1 - d => Good(k)
    <3> HIDE DEF Good
    <3>1. QED
      OBVIOUS
  <2>2. ASSUME NEW k \in 1..n + 1, k = n + 1 - (d + 1) PROVE Good(k)
    <3>1. /\ k \in 1..n /\ k + 1 \in 1..n + 1 /\ k + 1 >= n + 1 - d
      BY <1>1, <2>1, <2>2
    <3>2. CASE Matches(s, old, k)
      <4> DEFINE e == k + Len(old)
      <4>1. e \in k + 1..n + 1 /\ e \in 1..n + 1 /\ e >= n + 1 - d
        BY <1>1, <2>1, <2>2, <3>1, <3>2, MatchFits
      <4>2. Good(e) /\ from[k] = <<Redacted>> \o from[e]
        <5> HIDE DEF Good, e
        <5>1. Good(e)
          BY <2>1, <4>1
        <5>2. from[k] = <<Redacted>> \o from[e]
          BY <3>1, <3>2 DEF e
        <5>3. QED
          BY <5>1, <5>2
      <4> HIDE DEF e, Copies
      <4>3. /\ from[e] \in Seq(Text) /\ from[k] \in Seq(Text) /\ Len(from[k]) = Len(from[e]) + 1
            /\ from[k][1] = Redacted /\ \A j \in 1..Len(from[e]) : from[k][j + 1] = from[e][j]
        <5> DEFINE r == from[e]
        <5>1. Redacted \in Text /\ r \in Seq(Text) /\ from[k] = <<Redacted>> \o r
          BY <4>2 DEF Text
        <5> HIDE DEF r
        <5>2. /\ from[k] \in Seq(Text) /\ Len(from[k]) = Len(r) + 1
              /\ from[k][1] = Redacted /\ \A j \in 1..Len(r) : from[k][j + 1] = r[j]
          <6>1. /\ <<Redacted>> \o r \in Seq(Text) /\ Len(<<Redacted>> \o r) = Len(r) + 1
                /\ (<<Redacted>> \o r)[1] = Redacted
                /\ \A j \in 1..Len(r) : (<<Redacted>> \o r)[j + 1] = r[j]
            BY <5>1, Prepended
          <6>2. QED
            BY <5>1, <6>1, Zenon
        <5>3. QED
          BY <5>1, <5>2 DEF r
      <4>4. ASSUME NEW a \in Nat \ {0}, NEW m \in Nat \ {0}, Window(from[k], a, m)
            PROVE  \E b : Copies(k, a, m, b)
        <5>1. a # 1
          <6>1. 0 \in 0..m - 1 /\ a + 0 = a
            OBVIOUS
          <6>2. QED
            BY <4>3, <4>4, <6>1 DEF Window
        <5>2. /\ a - 1 \in Nat \ {0}
              /\ \A j \in 0..m - 1 : a + j <= Len(from[k]) /\ a - 1 + j \in 1..Len(from[e])
          BY <4>3, <4>4, <5>1 DEF Window
        <5>3. ASSUME NEW j \in 0..m - 1 PROVE from[k][a + j] = from[e][a - 1 + j]
          <6>1. a - 1 + j \in 1..Len(from[e])
            BY <5>2
          <6>2. from[k][(a - 1 + j) + 1] = from[e][a - 1 + j]
            BY <4>3, <6>1
          <6>3. (a - 1 + j) + 1 = a + j
            OBVIOUS
          <6>4. QED
            BY <6>2, <6>3
        <5>4. Window(from[e], a - 1, m)
          <6>1. a - 1 + m <= Len(from[e]) + 1
            BY <4>3, <4>4 DEF Window
          <6>2. \A j \in 0..m - 1 : from[e][a - 1 + j] # Redacted
            BY <4>4, <5>3 DEF Window
          <6>3. QED
            BY <6>1, <6>2 DEF Window
        <5>5. PICK b : Copies(e, a - 1, m, b)
          BY <4>2, <5>2, <5>4
        <5>6. Copies(k, a, m, b)
          <6>1. b \in k..n /\ b + m <= n + 1 /\ (a = 1 => b = k) /\ ~Matches(s, old, b)
            BY <1>1, <3>1, <4>1, <5>1, <5>5 DEF Copies
          <6>2. \A j \in 0..m - 1 : from[e][a - 1 + j] = s[b + j]
            BY <5>5 DEF Copies
          <6>3. \A j \in 0..m - 1 : from[k][a + j] = s[b + j]
            BY <5>3, <6>2
          <6>4. QED
            BY <6>1, <6>3 DEF Copies
        <5>7. QED
          BY <5>6
      <4>5. QED
        BY <4>3, <4>4
    <3>3. CASE ~Matches(s, old, k)
      <4> DEFINE r == from[k + 1]
      <4>2. Good(k + 1) /\ from[k] = <<s[k]>> \o r
        <5> HIDE DEF Good
        <5>1. Good(k + 1)
          BY <2>1, <3>1
        <5>2. QED
          BY <3>1, <3>3, <5>1
      <4> HIDE DEF r, Copies
      <4>3. /\ r \in Seq(Text) /\ from[k] \in Seq(Text) /\ Len(from[k]) = Len(r) + 1
            /\ from[k][1] = s[k] /\ \A j \in 1..Len(r) : from[k][j + 1] = r[j]
        <5>1. s[k] \in Text /\ r \in Seq(Text)
          BY <3>1, <4>2 DEF r
        <5>2. from[k] = <<s[k]>> \o r
          BY <4>2
        <5> DEFINE x == s[k]
        <5> HIDE DEF r, x
        <5>3. /\ <<x>> \o r \in Seq(Text) /\ Len(<<x>> \o r) = Len(r) + 1
              /\ (<<x>> \o r)[1] = x /\ \A j \in 1..Len(r) : (<<x>> \o r)[j + 1] = r[j]
          BY <5>1, Prepended DEF x
        <5>4. QED
          BY <5>1, <5>2, <5>3, Zenon DEF x
      <4>4. ASSUME NEW a \in Nat \ {0}, NEW m \in Nat \ {0}, Window(from[k], a, m)
            PROVE  \E b : Copies(k, a, m, b)
        <5>1. CASE a # 1
          <6>2. /\ a - 1 \in Nat \ {0}
                /\ \A j \in 0..m - 1 : a + j <= Len(from[k]) /\ a - 1 + j \in 1..Len(r)
            BY <4>3, <4>4, <5>1 DEF Window
          <6>3. ASSUME NEW j \in 0..m - 1 PROVE from[k][a + j] = r[a - 1 + j]
            <7>1. a - 1 + j \in 1..Len(r)
              BY <6>2
            <7>2. from[k][(a - 1 + j) + 1] = r[a - 1 + j]
              BY <4>3, <7>1
            <7>3. (a - 1 + j) + 1 = a + j
              OBVIOUS
            <7>4. QED
              BY <7>2, <7>3
          <6>4. Window(r, a - 1, m)
            <7>1. a - 1 + m <= Len(r) + 1
              BY <4>3, <4>4 DEF Window
            <7>2. \A j \in 0..m - 1 : r[a - 1 + j] # Redacted
              BY <4>4, <6>3 DEF Window
            <7>3. QED
              BY <7>1, <7>2 DEF Window
          <6>5. PICK b : Copies(k + 1, a - 1, m, b)
            BY <4>2, <6>2, <6>4 DEF r
          <6>6. Copies(k, a, m, b)
            <7>1. b \in k..n /\ b + m <= n + 1 /\ (a = 1 => b = k) /\ ~Matches(s, old, b)
              BY <1>1, <3>1, <5>1, <6>5 DEF Copies
            <7>2. \A j \in 0..m - 1 : r[a - 1 + j] = s[b + j]
              BY <6>5 DEF Copies, r
            <7>3. \A j \in 0..m - 1 : from[k][a + j] = s[b + j]
              BY <6>3, <7>2
            <7>4. QED
              BY <7>1, <7>3 DEF Copies
          <6>7. QED
            BY <6>6
        <5>2. CASE a = 1 /\ m = 1
          <6>1. Copies(k, a, m, k)
            BY <1>1, <3>1, <3>3, <4>3, <5>2 DEF Copies
          <6>2. QED
            BY <6>1
        <5>3. CASE a = 1 /\ m # 1
          <6>2. m - 1 \in Nat \ {0} /\ \A j \in 0..m - 2 : j + 1 \in 0..m - 1 /\ 1 + j \in 1..Len(r)
            BY <4>3, <4>4, <5>3 DEF Window
          <6>3. \A j \in 0..m - 2 : from[k][1 + (j + 1)] = r[1 + j]
            BY <4>3, <6>2
          <6>4. Window(r, 1, m - 1)
            <7>1. 1 + (m - 1) <= Len(r) + 1 /\ (m - 1) - 1 = m - 2
              BY <4>3, <4>4, <5>3 DEF Window
            <7>2. \A j \in 0..m - 2 : r[1 + j] # Redacted
              BY <4>4, <5>3, <6>2, <6>3 DEF Window
            <7>3. QED
              BY <7>1, <7>2 DEF Window
          <6>5. PICK b : Copies(k + 1, 1, m - 1, b)
            BY <4>2, <6>2, <6>4 DEF r
          <6>6. /\ b = k + 1 /\ k + m <= n + 1
                /\ \A j \in 0..m - 2 : r[1 + j] = s[k + 1 + j]
            BY <1>1, <3>1, <6>2, <6>5 DEF Copies, r
          <6>7. ASSUME NEW j \in 0..m - 1 PROVE from[k][1 + j] = s[k + j]
            <7>1. CASE j = 0
              BY <3>1, <4>3, <7>1
            <7>2. CASE j # 0
              <8>1. j - 1 \in 0..m - 2 /\ 1 + ((j - 1) + 1) = 1 + j /\ k + 1 + (j - 1) = k + j
                BY <3>1, <7>2
              <8>2. from[k][1 + j] = r[1 + (j - 1)] /\ r[1 + (j - 1)] = s[k + j]
                BY <6>3, <6>6, <8>1
              <8>3. QED
                BY <8>2
            <7>3. QED
              BY <7>1, <7>2
          <6>8. Copies(k, a, m, k)
            BY <1>1, <3>1, <3>3, <5>3, <6>6, <6>7 DEF Copies
          <6>9. QED
            BY <6>8
        <5>4. QED
          BY <5>1, <5>2, <5>3
      <4>5. QED
        BY <4>3, <4>4
    <3>4. QED
      BY <3>2, <3>3
  <2> HIDE DEF Good, S
  <2>3. \A k \in 1..n + 1 : k >= n + 1 - (d + 1) => k >= n + 1 - d \/ k = n + 1 - (d + 1)
    BY <1>1, <2>1
  <2>4. \A k \in 1..n + 1 : k >= n + 1 - (d + 1) => Good(k)
    BY <2>1, <2>2, <2>3
  <2>5. d + 1 \in Nat
    BY <2>1
  <2>6. QED
    BY <2>4, <2>5 DEF S
<1>4. S = Nat
  <2> HIDE DEF Good
  <2>1. S \subseteq Nat
    OBVIOUS
  <2> HIDE DEF S
  <2>2. QED
    BY <1>2, <1>3, <2>1, Induction
<1>5. Good(i)
  <2> HIDE DEF Good
  <2>1. n \in S /\ i >= n + 1 - n
    <3> HIDE DEF S
    <3>1. QED
      BY <1>1, <1>4
  <2>2. QED
    BY <2>1
<1>6. QED
  BY <1>5, Zenon DEF Copied

\* x stands somewhere in t.
Occurs(x, t) == \E a \in 1..Len(t) : /\ a + Len(x) <= Len(t) + 1
                                     /\ \A j \in 0..Len(x) - 1 : t[a + j] = x[j + 1]

\* Hide leaves nothing of the secret, and nothing comes up that was not there.
LEMMA HideReplaces ==
  ASSUME RedactionAssumption, NEW s \in Seq(Text), NEW old \in Seq(Symbols) \ {<<>>}
  PROVE  /\ Hide(s, old) \in Seq(Text)
         /\ ~Occurs(old, Hide(s, old))
         /\ \A x \in Seq(Symbols) \ {<<>>} : Occurs(x, Hide(s, old)) => Occurs(x, s)
<1>1. PICK from : /\ Hide(s, old) = from[1]
                  /\ from[Len(s) + 1] = <<>>
                  /\ \A i \in 1..Len(s) :
                       from[i] = IF Matches(s, old, i) THEN <<Redacted>> \o from[i + Len(old)]
                                 ELSE <<s[i]>> \o from[i + 1]
  BY HideUnfolds, Zenon
<1> DEFINE h == Hide(s, old)
<1>2. h \in Seq(Text) /\ Copied(h, s, old, 1)
  <2>1. 1 \in 1..Len(s) + 1
    OBVIOUS
  <2>2. from[1] \in Seq(Text) /\ Copied(from[1], s, old, 1)
    BY <1>1, <2>1, HideCopies, Zenon
  <2>3. QED
    BY <1>1, <2>2, Zenon
<1> HIDE DEF h
<1>3. ASSUME NEW x \in Seq(Symbols) \ {<<>>}, Occurs(x, h)
      PROVE  \E b \in 1..Len(s) : /\ b + Len(x) <= Len(s) + 1 /\ ~Matches(s, old, b)
                                  /\ \A j \in 0..Len(x) - 1 : s[b + j] = x[j + 1]
  <2>1. PICK a \in 1..Len(h) : /\ a + Len(x) <= Len(h) + 1
                               /\ \A j \in 0..Len(x) - 1 : h[a + j] = x[j + 1]
    BY <1>3 DEF Occurs
  <2>2. /\ a \in Nat \ {0} /\ Len(x) \in Nat \ {0}
        /\ \A j \in 0..Len(x) - 1 : x[j + 1] \in Symbols
    BY <1>2
  <2>3. Redacted \notin Symbols
    BY DEF RedactionAssumption
  <2>4. Window(h, a, Len(x))
    BY <2>1, <2>2, <2>3 DEF Window
  <2>5. PICK b \in 1..Len(s) : /\ b + Len(x) <= Len(s) + 1 /\ (a = 1 => b = 1)
                               /\ ~Matches(s, old, b)
                               /\ \A j \in 0..Len(x) - 1 : h[a + j] = s[b + j]
    BY <1>2, <2>2, <2>4, Zenon DEF Copied
  <2>6. QED
    BY <2>1, <2>5
<1>4. ~Occurs(old, h)
  <2>1. SUFFICES ASSUME Occurs(old, h) PROVE FALSE
    OBVIOUS
  <2>2. PICK b \in 1..Len(s) : /\ b + Len(old) <= Len(s) + 1 /\ ~Matches(s, old, b)
                               /\ \A j \in 0..Len(old) - 1 : s[b + j] = old[j + 1]
    BY <1>3, <2>1
  <2>3. ASSUME NEW j \in 1..Len(old) PROVE s[b + j - 1] = old[j]
    <3>1. j - 1 \in 0..Len(old) - 1 /\ b + (j - 1) = b + j - 1 /\ (j - 1) + 1 = j
      OBVIOUS
    <3>2. QED
      BY <2>2, <3>1
  <2>4. Matches(s, old, b)
    BY <2>2, <2>3, MatchesWhatIsThere
  <2>5. QED
    BY <2>2, <2>4
<1>5. ASSUME NEW x \in Seq(Symbols) \ {<<>>}, Occurs(x, h) PROVE Occurs(x, s)
  BY <1>3, <1>5 DEF Occurs
<1>6. QED
  BY <1>2, <1>4, <1>5 DEF h

EndsLine(t) == t # <<>> /\ Last(t) = NL

\* A line stays a line.
LEMMA HideEndsLine ==
  ASSUME RedactionAssumption, NEW s \in Seq(Text), NEW old \in Seq(Symbols) \ {<<>>},
         EndsLine(s)
  PROVE  EndsLine(Hide(s, old))
<1>1. PICK from : /\ Hide(s, old) = from[1]
                  /\ from[Len(s) + 1] = <<>>
                  /\ \A i \in 1..Len(s) :
                       from[i] = IF Matches(s, old, i) THEN <<Redacted>> \o from[i + Len(old)]
                                 ELSE <<s[i]>> \o from[i + 1]
  BY HideUnfolds, Zenon
<1> DEFINE n == Len(s)
           S == {d \in Nat : \A k \in 1..n : k >= n - d => EndsLine(from[k])}
<1>2. n \in Nat \ {0} /\ s[n] = NL /\ Len(old) \in Nat \ {0} /\ NL \notin Symbols
  BY DEF EndsLine, Last, RedactionAssumption
<1>3. \A k \in 1..n + 1 : from[k] \in Seq(Text)
  BY <1>1, HideCopies, Zenon
<1>4. ASSUME NEW k \in 1..n, Matches(s, old, k) PROVE k + Len(old) \in k + 1..n
  <2>1. /\ k + Len(old) \in k + 1..n + 1
        /\ \A j \in 1..Len(old) : s[k + j - 1] = old[j]
    BY <1>4, MatchFits
  <2>2. k + Len(old) # n + 1
    <3>1. SUFFICES ASSUME k + Len(old) = n + 1 PROVE FALSE
      OBVIOUS
    <3>2. Len(old) \in 1..Len(old) /\ k + Len(old) - 1 = n /\ old[Len(old)] \in Symbols
      <4>1. Len(old) \in 1..Len(old) /\ k + Len(old) - 1 = n
        BY <1>2, <3>1
      <4>2. QED
        BY <4>1
    <3>3. s[k + Len(old) - 1] = old[Len(old)]
      BY <2>1, <3>2
    <3>4. QED
      BY <1>2, <3>2, <3>3
  <2>3. k + Len(old) \in k + 1..n + 1
    BY <2>1
  <2>4. \A l \in k + 1..n + 1 : l # n + 1 => l \in k + 1..n
    OBVIOUS
  <2>5. QED
    BY <2>2, <2>3, <2>4, Zenon
<1>5. ASSUME NEW e \in Text, NEW r \in Seq(Text), EndsLine(r) PROVE EndsLine(<<e>> \o r)
  BY <1>5 DEF EndsLine, Last
<1>6. Redacted \in Text /\ \A k \in 1..n : s[k] \in Text
  BY DEF Text
<1> HIDE DEF n
<1>7. ASSUME NEW k \in 1..n, \A j \in k + 1..n : EndsLine(from[j]) PROVE EndsLine(from[k])
  <2>1. CASE Matches(s, old, k)
    <3> DEFINE e == k + Len(old)
    <3>1. e \in k + 1..n /\ e \in 1..n + 1
      BY <1>2, <1>4, <2>1
    <3>2. from[k] = <<Redacted>> \o from[e]
      BY <1>1, <2>1 DEF n
    <3> HIDE DEF e
    <3>3. QED
      BY <1>3, <1>5, <1>6, <1>7, <3>1, <3>2
  <2>2. CASE ~Matches(s, old, k) /\ k # n
    <3>1. k + 1 \in k + 1..n /\ k + 1 \in 1..n + 1
      BY <1>2, <2>2
    <3>2. from[k] = <<s[k]>> \o from[k + 1]
      BY <1>1, <2>2 DEF n
    <3>3. QED
      BY <1>3, <1>5, <1>6, <1>7, <3>1, <3>2
  <2>3. CASE ~Matches(s, old, k) /\ k = n
    <3>1. from[k] = <<s[k]>> \o from[k + 1] /\ from[k + 1] = <<>> /\ s[k] = NL
      BY <1>1, <1>2, <2>3 DEF n
    <3>2. from[k] = <<NL>>
      BY <3>1
    <3>3. QED
      BY <3>2 DEF EndsLine, Last
  <2>4. QED
    BY <2>1, <2>2, <2>3
<1>8. 0 \in S
  <2>1. \A k \in 1..n : k >= n - 0 => k = n /\ k + 1..n = {}
    BY <1>2
  <2>2. QED
    BY <1>7, <2>1
<1>9. ASSUME NEW d \in S PROVE d + 1 \in S
  <2>1. ASSUME NEW k \in 1..n, k >= n - (d + 1) PROVE EndsLine(from[k])
    <3>1. \A j \in k + 1..n : j \in 1..n /\ j >= n - d
      BY <1>2, <2>1
    <3>2. QED
      BY <1>7, <3>1
  <2>2. QED
    BY <2>1
<1>10. S = Nat
  <2>1. S \subseteq Nat
    OBVIOUS
  <2> HIDE DEF S
  <2>2. QED
    BY <1>8, <1>9, <2>1, Induction
<1>11. EndsLine(from[1])
  <2>1. n \in S
    BY <1>2, <1>10
  <2>2. 1 \in 1..n /\ 1 >= n - n
    BY <1>2
  <2>3. QED
    BY <2>1, <2>2
<1>12. QED
  BY <1>1, <1>11

-----------------------------------------------------------------------------
(* Emit.                                                                   *)

\* The secrets are hidden one after the other.
LEMMA EmitUnfolds ==
  ASSUME RedactionAssumption, NEW line \in Seq(Text)
  PROVE  \E hidden \in [0..Len(Secrets) -> Seq(Text)] :
           /\ Emit(line) = hidden[Len(Secrets)]
           /\ hidden[0] = line
           /\ \A n \in 1..Len(Secrets) : hidden[n] = Hide(hidden[n - 1], Secrets[n])
<1> DEFINE m == Len(Secrets)
           step == [p \in (1..m) \X Seq(Text) |-> Hide(p[2], Secrets[p[1]])]
<1>1. m \in Nat /\ \A n \in 1..m : Secrets[n] \in Seq(Symbols) \ {<<>>}
  BY DEF RedactionAssumption
<1>2. step \in [(1..m) \X Seq(Text) -> Seq(Text)]
  BY <1>1, HideReplaces
<1>3. PICK f \in [0..m -> Seq(Text)] :
             f[0] = line /\ \A n \in 1..m : f[n] = step[<<n, f[n - 1]>>]
  <2> HIDE DEF step
  <2>1. m \in Nat
    BY <1>1
  <2> HIDE DEF m
  <2>2. \E f \in [0..m -> Seq(Text)] : Recurs(f, m, line, step)
    BY <1>2, <2>1, Recursion, Zenon
  <2>3. QED
    BY <2>2, Zenon DEF Recurs
<1>4. \A n \in 1..m : n - 1 \in 0..m /\ n \in 0..m /\ n # 0
  BY <1>1
<1>5. ASSUME NEW n \in 1..m PROVE f[n] = Hide(f[n - 1], Secrets[n])
  <2>1. <<n, f[n - 1]>> \in (1..m) \X Seq(Text)
    BY <1>3, <1>4
  <2>2. step[<<n, f[n - 1]>>] = Hide(f[n - 1], Secrets[n])
    BY <2>1
  <2>3. QED
    BY <1>3, <2>2
<1>6. f = [n \in 0..m |-> IF n = 0 THEN line ELSE Hide(f[n - 1], Secrets[n])]
  <2>1. \A n \in 0..m : f[n] = IF n = 0 THEN line ELSE Hide(f[n - 1], Secrets[n])
    <3>1. \A n \in 0..m : n = 0 \/ n \in 1..m
      BY <1>1
    <3> HIDE DEF m
    <3>2. QED
      BY <1>3, <1>5, <3>1
  <2> HIDE DEF m
  <2>2. QED
    BY <1>3, <2>1
<1>7. \E hidden : hidden = [n \in 0..Len(Secrets) |->
                             IF n = 0 THEN line ELSE Hide(hidden[n - 1], Secrets[n])]
  BY <1>6, Zenon
<1> HIDE DEF step
<1> DEFINE hidden[n \in 0..Len(Secrets)] ==
             IF n = 0 THEN line ELSE Hide(hidden[n - 1], Secrets[n])
<1>8. Emit(line) = hidden[Len(Secrets)]
  BY Zenon DEF Emit
<1>9. hidden = [n \in 0..Len(Secrets) |->
                 IF n = 0 THEN line ELSE Hide(hidden[n - 1], Secrets[n])]
  BY <1>7, Zenon
<1> HIDE DEF hidden
<1> DEFINE S == {n \in Nat : n <= m => hidden[n] = f[n]}
<1>10. /\ hidden[0] = line
       /\ \A n \in 1..m : hidden[n] = Hide(hidden[n - 1], Secrets[n])
  <2>1. 0 \in 0..m
    BY <1>1
  <2>2. QED
    BY <1>4, <1>9, <2>1
<1>11. 0 \in S
  BY <1>3, <1>10
<1>12. ASSUME NEW n \in S PROVE n + 1 \in S
  <2>1. SUFFICES ASSUME n + 1 <= m PROVE hidden[n + 1] = f[n + 1]
    OBVIOUS
  <2>2. n + 1 \in 1..m /\ (n + 1) - 1 = n /\ n <= m
    BY <1>1, <2>1
  <2>3. hidden[n] = f[n]
    BY <2>2
  <2>4. QED
    BY <1>5, <1>10, <2>2, <2>3
<1>13. S = Nat
  <2>1. S \subseteq Nat
    OBVIOUS
  <2> HIDE DEF S
  <2>2. QED
    BY <1>11, <1>12, <2>1, Induction
<1>14. hidden[m] = f[m]
  BY <1>1, <1>13
<1>15. QED
  BY <1>3, <1>5, <1>8, <1>14

\* After the last one none of them is left, and a line is still a line.
LEMMA EmitHides ==
  ASSUME RedactionAssumption, NEW line \in Seq(Text)
  PROVE  /\ Emit(line) \in Seq(Text)
         /\ \A i \in DOMAIN Secrets : ~Occurs(Secrets[i], Emit(line))
         /\ EndsLine(line) => EndsLine(Emit(line))
<1> DEFINE m == Len(Secrets)
<1>1. PICK hidden \in [0..m -> Seq(Text)] :
             /\ Emit(line) = hidden[m]
             /\ hidden[0] = line
             /\ \A n \in 1..m : hidden[n] = Hide(hidden[n - 1], Secrets[n])
  BY EmitUnfolds, Zenon
<1>2. /\ m \in Nat /\ DOMAIN Secrets = 1..m
      /\ \A n \in 1..m : Secrets[n] \in Seq(Symbols) \ {<<>>}
  BY DEF RedactionAssumption
<1> HIDE DEF m
<1> DEFINE Clean(n) == /\ \A i \in 1..n : ~Occurs(Secrets[i], hidden[n])
                       /\ EndsLine(line) => EndsLine(hidden[n])
           S == {n \in Nat : n <= m => Clean(n)}
<1>3. 0 \in S
  <2>1. 1..0 = {}
    OBVIOUS
  <2>2. Clean(0)
    BY <1>1, <2>1
  <2> HIDE DEF Clean
  <2>3. QED
    BY <2>2
<1>4. ASSUME NEW n \in S PROVE n + 1 \in S
  <2>1. SUFFICES ASSUME n + 1 <= m PROVE Clean(n + 1)
    <3> HIDE DEF Clean
    <3>1. n + 1 \in Nat
      OBVIOUS
    <3>2. QED
      BY <3>1
  <2> DEFINE k == n + 1
  <2>2. /\ n \in 0..m /\ k \in 1..m /\ k - 1 = n
        /\ \A i \in 1..k : i \in 1..m /\ (i # k => i \in 1..n)
    BY <1>2, <2>1
  <2>3. Clean(n)
    <3> HIDE DEF Clean
    <3>1. QED
      BY <1>2, <2>1
  <2> HIDE DEF k
  <2>4. /\ hidden[n] \in Seq(Text) /\ Secrets[k] \in Seq(Symbols) \ {<<>>}
        /\ hidden[k] = Hide(hidden[n], Secrets[k])
    BY <1>1, <1>2, <2>2
  <2>5. /\ ~Occurs(Secrets[k], hidden[k])
        /\ \A x \in Seq(Symbols) \ {<<>>} : Occurs(x, hidden[k]) => Occurs(x, hidden[n])
    BY <2>4, HideReplaces, Zenon
  <2>6. \A i \in 1..k : ~Occurs(Secrets[i], hidden[k])
    BY <1>2, <2>2, <2>3, <2>5
  <2>7. EndsLine(line) => EndsLine(hidden[k])
    BY <2>3, <2>4, HideEndsLine
  <2>8. QED
    BY <2>6, <2>7 DEF k
<1>5. S = Nat
  <2> HIDE DEF Clean
  <2>1. S \subseteq Nat
    OBVIOUS
  <2> HIDE DEF S
  <2>2. QED
    BY <1>3, <1>4, <2>1, Induction
<1>6. Clean(m)
  <2> HIDE DEF Clean
  <2>1. m \in S /\ m <= m
    <3> HIDE DEF S
    <3>1. QED
      BY <1>2, <1>5
  <2>2. QED
    BY <2>1
<1>7. QED
  BY <1>1, <1>2, <1>6

\* A string without newline is not found across the end of a line.
LEMMA NothingAcrossLines ==
  ASSUME RedactionAssumption, NEW d \in Seq(Text), NEW e \in Seq(Text),
         NEW x \in Seq(Symbols) \ {<<>>},
         d = <<>> \/ EndsLine(d), ~Occurs(x, d), ~Occurs(x, e)
  PROVE  ~Occurs(x, d \o e)
<1>1. SUFFICES ASSUME NEW a \in 1..Len(d \o e), a + Len(x) <= Len(d \o e) + 1,
                      \A j \in 0..Len(x) - 1 : (d \o e)[a + j] = x[j + 1]
               PROVE  FALSE
  BY DEF Occurs
<1> DEFINE n == Len(x)
<1>2. /\ n \in Nat \ {0} /\ Len(d) \in Nat /\ Len(e) \in Nat /\ Len(d \o e) = Len(d) + Len(e)
      /\ \A i \in 1..Len(d) : (d \o e)[i] = d[i]
      /\ \A i \in 1..Len(e) : (d \o e)[Len(d) + i] = e[i]
      /\ \A j \in 0..n - 1 : x[j + 1] \in Symbols
  OBVIOUS
<1>3. CASE a + n <= Len(d) + 1
  <2>1. a \in 1..Len(d) /\ \A j \in 0..n - 1 : a + j \in 1..Len(d)
    BY <1>2, <1>3
  <2>2. \A j \in 0..n - 1 : d[a + j] = x[j + 1]
    BY <1>1, <1>2, <2>1
  <2>3. QED
    BY <1>3, <2>1, <2>2 DEF Occurs
<1>4. CASE a > Len(d)
  <2> DEFINE b == a - Len(d)
  <2>1. /\ b \in 1..Len(e) /\ b + n <= Len(e) + 1
        /\ \A j \in 0..n - 1 : b + j \in 1..Len(e) /\ Len(d) + (b + j) = a + j
    BY <1>1, <1>2, <1>4
  <2> HIDE DEF b
  <2>2. ASSUME NEW j \in 0..n - 1 PROVE e[b + j] = x[j + 1]
    <3>1. (d \o e)[Len(d) + (b + j)] = e[b + j]
      BY <1>2, <2>1
    <3>2. QED
      BY <1>1, <2>1, <3>1
  <2>3. QED
    BY <2>1, <2>2 DEF Occurs
<1>5. CASE a + n > Len(d) + 1 /\ a <= Len(d)
  <2> DEFINE j == Len(d) - a
  <2>1. j \in 0..n - 1 /\ a + j = Len(d) /\ Len(d) \in 1..Len(d)
    BY <1>2, <1>5
  <2>2. d[Len(d)] = NL
    BY <1>2, <2>1 DEF EndsLine, Last
  <2> HIDE DEF j
  <2>3. x[j + 1] = NL
    BY <1>1, <1>2, <2>1, <2>2
  <2>4. QED
    BY <1>2, <2>1, <2>3 DEF RedactionAssumption
<1>6. QED
  BY <1>2, <1>3, <1>4, <1>5

\* The subsequences that NoSecretLogged asks for are windows of the log.
LEMMA FindsWhatIsThere ==
  ASSUME NEW t \in Seq(Text), NEW x \in Seq(Symbols) \ {<<>>}, x \in SubSeqs(t)
  PROVE  Occurs(x, t)
<1>1. PICK i \in 0..Len(t), j \in 0..Len(t) : x = SubSeq(t, i + 1, j)
  BY DEF SubSeqs
<1>2. Len(x) \in Nat \ {0}
  OBVIOUS
<1>3. i + 1 <= j
  <2>1. i + 1 > j => SubSeq(t, i + 1, j) = <<>>
    OBVIOUS
  <2>2. QED
    BY <1>1, <1>2, <2>1
<1>4. Len(x) = j - i /\ \A k \in 1..j - i : x[k] = t[i + k]
  <2>1. \A k \in 1..j - i : SubSeq(t, i + 1, j)[k] = t[(i + 1) + k - 1] /\ (i + 1) + k - 1 = i + k
    BY <1>3
  <2>2. Len(SubSeq(t, i + 1, j)) = j - i
    BY <1>3
  <2>3. QED
    BY <1>1, <2>1, <2>2
<1>5. ASSUME NEW k \in 0..Len(x) - 1 PROVE t[(i + 1) + k] = x[k + 1]
  <2>1. k + 1 \in 1..j - i /\ i + (k + 1) = (i + 1) + k
    BY <1>4
  <2>2. QED
    BY <1>4, <2>1
<1>6. i + 1 \in 1..Len(t) /\ (i + 1) + Len(x) <= Len(t) + 1
  BY <1>3, <1>4
<1>7. QED
  BY <1>5, <1>6 DEF Occurs

-----------------------------------------------------------------------------
(* The writer.                                                             *)

Letters == Symbols \cup {NL}

WriterTypeOK ==
  /\ chunk \in Seq(Letters) /\ pending \in Seq(Letters) /\ written \in Seq(Letters)
  /\ dst \in Seq(Text) /\ dropping \in BOOLEAN /\ flushed \in BOOLEAN

\* Of one turn of the loop: the part is of the text, and the rest of the chunk too.
LEMMA PartOfChunk ==
  ASSUME NEW t \in Seq(Letters), NEW end \in DOMAIN t
  PROVE  /\ SubSeq(t, 1, end) \in Seq(Letters) /\ Len(SubSeq(t, 1, end)) = end
         /\ \A i \in 1..end : SubSeq(t, 1, end)[i] = t[i]
         /\ SubSeq(t, end + 1, Len(t)) \in Seq(Letters)
         /\ end \in Nat \ {0}
<1>1. end \in 1..Len(t) /\ Len(t) \in Nat
  OBVIOUS
<1>2. SubSeq(t, end + 1, Len(t)) \in Seq(Letters)
  BY <1>1
<1>3. QED
  BY <1>1, <1>2

\* A type invariant: the log is made of the text and the two notes.
THEOREM WriterTyped == ASSUME RedactionAssumption PROVE WriterSpec => []WriterTypeOK
<1>1. WriterInit => WriterTypeOK
  <2>1. <<>> \in Seq(Letters) /\ <<>> \in Seq(Text)
    OBVIOUS
  <2>2. QED
    BY <2>1, Zenon DEF WriterInit, WriterTypeOK
<1>2. Letters \subseteq Text /\ <<Omitted, NL>> \in Seq(Text)
  BY DEF Letters, Text
<1>3. \A s \in Seq(Letters) : s \in Seq(Text)
  BY <1>2
<1>4. \A s \in Seq(Letters) : Emit(s) \in Seq(Text)
  BY <1>3, EmitHides
<1>5. ASSUME WriterTypeOK, [WriterNext]_writerVars PROVE WriterTypeOK'
  <2> USE <1>5
  <2>1. CASE TakePart
    <3>1. PICK end \in DOMAIN chunk :
                /\ Take(SubSeq(chunk, 1, end))
                /\ chunk' = SubSeq(chunk, end + 1, Len(chunk))
                /\ written' = written \o SubSeq(chunk, 1, end)
                /\ flushed' = flushed
      BY <2>1 DEF TakePart
    <3> DEFINE part == SubSeq(chunk, 1, end)
    <3>2. part \in Seq(Letters) /\ chunk' \in Seq(Letters)
      BY <3>1, PartOfChunk DEF WriterTypeOK
    <3> HIDE DEF part
    <3>3. /\ pending' \in Seq(Letters) /\ dropping' \in BOOLEAN /\ dst' \in Seq(Text)
      <4>1. pending \o part \in Seq(Letters) /\ <<>> \in Seq(Letters)
        BY <3>2 DEF WriterTypeOK
      <4>2. Overflows(part) \in BOOLEAN
        BY DEF Overflows
      <4>3. CASE Ends(part)
        <5>1. /\ pending' = <<>> /\ dropping' = FALSE
              /\ dst' = dst \o <<Omitted, NL>> \/ dst' = dst \o Emit(<<>>)
                 \/ dst' = dst \o Emit(pending \o part)
          BY <3>1, <4>3 DEF Take, part
        <5>2. Emit(<<>>) \in Seq(Text) /\ Emit(pending \o part) \in Seq(Text)
          BY <1>4, <4>1
        <5>3. \A u \in Seq(Text) : dst \o u \in Seq(Text)
          BY DEF WriterTypeOK
        <5>4. dst' \in Seq(Text)
          BY <1>2, <5>1, <5>2, <5>3, Zenon
        <5>5. QED
          BY <4>1, <5>1, <5>4
      <4>4. CASE ~Ends(part)
        BY <3>1, <4>1, <4>2, <4>4 DEF Take, WriterTypeOK, part
      <4>5. QED
        BY <4>3, <4>4
    <3>4. written' \in Seq(Letters) /\ flushed' \in BOOLEAN
      BY <3>1, <3>2 DEF WriterTypeOK, part
    <3>5. QED
      BY <3>2, <3>3, <3>4 DEF WriterTypeOK
  <2>2. CASE Flush
    <3>1. dst' \in Seq(Text)
      BY <1>4, <2>2 DEF Flush, WriterTypeOK
    <3>2. QED
      BY <2>2, <3>1 DEF Flush, WriterTypeOK
  <2>3. CASE Closed
    BY <2>3 DEF Closed, writerVars, WriterTypeOK
  <2>4. ASSUME NEW p \in BoundedSeq(Symbols \cup {NL}, MaxChunk) \ {<<>>}, Write(p)
        PROVE  WriterTypeOK'
    <3>1. p \in Seq(Letters)
      BY DEF BoundedSeq, SeqOf, Letters
    <3>2. QED
      BY <2>4, <3>1 DEF Write, WriterTypeOK
  <2>5. CASE UNCHANGED writerVars
    BY <2>5 DEF writerVars, WriterTypeOK
  <2>6. QED
    BY <2>1, <2>2, <2>3, <2>4, <2>5 DEF WriterNext
<1>6. QED
  BY <1>1, <1>5, PTL DEF WriterSpec

\* What has reached the log is clean, and until the flush it is whole lines;
\* the flush comes after the last chunk.
Clean ==
  /\ flushed => chunk = <<>>
  /\ \A i \in DOMAIN Secrets : ~Occurs(Secrets[i], dst)
  /\ ~flushed => dst = <<>> \/ EndsLine(dst)

\* There is no secret in an empty log.
LEMMA NothingInNothing ==
  ASSUME NEW x \in Seq(Symbols) \ {<<>>} PROVE ~Occurs(x, <<>>)
<1>1. Len(<<>>) = 0
  OBVIOUS
<1>2. QED
  BY <1>1 DEF Occurs

\* One step: each line that is added is clean and ends the line before it.
LEMMA LogStaysClean ==
  ASSUME RedactionAssumption, WriterTypeOK, WriterTypeOK', Clean, [WriterNext]_writerVars
  PROVE  Clean'
<1> USE DEF RedactionAssumption
<1>1. /\ Letters \subseteq Text /\ \A s \in Seq(Letters) : s \in Seq(Text)
      /\ \A i \in DOMAIN Secrets : Secrets[i] \in Seq(Symbols) \ {<<>>}
  BY DEF Letters, Text
<1>2. ASSUME NEW e \in Seq(Text), ~flushed,
             \A i \in DOMAIN Secrets : ~Occurs(Secrets[i], e)
      PROVE  \A i \in DOMAIN Secrets : ~Occurs(Secrets[i], dst \o e)
  BY <1>1, <1>2, NothingAcrossLines DEF Clean, WriterTypeOK
<1>3. ASSUME NEW e \in Seq(Text), EndsLine(e) PROVE EndsLine(dst \o e)
  BY <1>3 DEF EndsLine, Last, WriterTypeOK
<1>4. <<Omitted, NL>> \in Seq(Text) /\ EndsLine(<<Omitted, NL>>)
  BY DEF Text, EndsLine, Last
<1>5. ASSUME NEW i \in DOMAIN Secrets PROVE ~Occurs(Secrets[i], <<Omitted, NL>>)
  <2> DEFINE x == Secrets[i]
             note == <<Omitted, NL>>
  <2>1. SUFFICES ASSUME NEW a \in 1..Len(note), \A j \in 0..Len(x) - 1 : note[a + j] = x[j + 1]
                 PROVE  FALSE
    BY Zenon DEF Occurs
  <2>2. x \in Seq(Symbols) \ {<<>>}
    BY <1>1
  <2> HIDE DEF x
  <2>3. 0 \in 0..Len(x) - 1 /\ x[1] \in Symbols
    BY <2>2
  <2>4. note[a + 0] = x[0 + 1] /\ a + 0 = a /\ 0 + 1 = 1
    <3>1. a \in Nat
      OBVIOUS
    <3> HIDE DEF note
    <3>2. note[a + 0] = x[0 + 1]
      BY <2>1, <2>3, Zenon
    <3>3. QED
      BY <3>1, <3>2
  <2>5. note[a] \in {Omitted, NL}
    OBVIOUS
  <2> HIDE DEF note
  <2>6. QED
    BY <2>3, <2>4, <2>5
<1>6. CASE TakePart
  <2>1. PICK end \in DOMAIN chunk : /\ Take(SubSeq(chunk, 1, end)) /\ flushed' = flushed
                                   /\ chunk' = SubSeq(chunk, end + 1, Len(chunk))
    BY <1>6 DEF TakePart
  <2> DEFINE part == SubSeq(chunk, 1, end)
  <2>2. part \in Seq(Letters) /\ part # <<>> /\ ~flushed
    <3>1. part \in Seq(Letters) /\ Len(part) = end /\ end \in Nat \ {0}
      BY PartOfChunk DEF WriterTypeOK
    <3>2. chunk # <<>>
      OBVIOUS
    <3>3. ~flushed
      BY <3>2, Zenon DEF Clean
    <3> HIDE DEF part
    <3>4. QED
      BY <3>1, <3>3
  <2> HIDE DEF part
  <2>3. CASE ~Ends(part)
    BY <2>1, <2>2, <2>3 DEF Take, Clean, part
  <2>4. CASE Ends(part)
    <3>1. pending \o part \in Seq(Letters) /\ EndsLine(pending \o part)
      BY <2>2, <2>4 DEF WriterTypeOK, EndsLine, Ends, Last
    <3>2. \/ dst' = dst \o <<Omitted, NL>>
          \/ dst' = dst \o Emit(pending \o part)
      BY <2>1, <2>4 DEF Take, part
    <3>3. /\ Emit(pending \o part) \in Seq(Text) /\ EndsLine(Emit(pending \o part))
          /\ \A i \in DOMAIN Secrets : ~Occurs(Secrets[i], Emit(pending \o part))
      BY <1>1, <3>1, EmitHides
    <3>4. \A i \in DOMAIN Secrets : ~Occurs(Secrets[i], dst')
      BY <1>2, <1>4, <1>5, <2>2, <3>2, <3>3
    <3>5. EndsLine(dst')
      BY <1>3, <1>4, <3>2, <3>3
    <3>6. ~flushed'
      BY <2>1, <2>2
    <3>7. QED
      BY <3>4, <3>5, <3>6, Zenon DEF Clean
  <2>5. QED
    BY <2>3, <2>4
<1>7. CASE Flush
  <2>1. ~flushed /\ chunk' = <<>> /\ flushed' = TRUE /\ (dst' = dst \/ dst' = dst \o Emit(pending))
    BY <1>7 DEF Flush
  <2>2. /\ Emit(pending) \in Seq(Text)
        /\ \A i \in DOMAIN Secrets : ~Occurs(Secrets[i], Emit(pending))
    BY <1>1, EmitHides DEF WriterTypeOK
  <2>3. \A i \in DOMAIN Secrets : ~Occurs(Secrets[i], dst')
    BY <1>2, <2>1, <2>2 DEF Clean
  <2>4. QED
    BY <2>1, <2>3 DEF Clean
<1>8. CASE UNCHANGED writerVars
  BY <1>8 DEF writerVars, Clean
<1>9. ASSUME NEW p, Write(p) PROVE Clean'
  BY <1>9 DEF Write, Clean
<1>10. QED
  BY <1>6, <1>7, <1>8, <1>9 DEF WriterNext, Closed

LEMMA AlwaysClean == ASSUME RedactionAssumption PROVE WriterSpec => []Clean
<1>1. WriterInit => Clean
  <2>1. \A i \in DOMAIN Secrets : ~Occurs(Secrets[i], <<>>)
    BY NothingInNothing DEF RedactionAssumption
  <2>2. QED
    BY <2>1, Zenon DEF WriterInit, Clean
<1>2. WriterTypeOK /\ WriterTypeOK' /\ Clean /\ [WriterNext]_writerVars => Clean'
  BY LogStaysClean
<1>3. QED
  BY <1>1, <1>2, WriterTyped, PTL DEF WriterSpec

\* No secret is in the log, however the text is cut and however long its lines
\* are (NoSecretLogged; emit and Write of secrets.go).
THEOREM NeverLogsASecret == ASSUME RedactionAssumption PROVE WriterSpec => []NoSecretLogged
<1>1. WriterTypeOK /\ Clean => NoSecretLogged
  <2>1. \A i \in DOMAIN Secrets : Secrets[i] \in Seq(Symbols) \ {<<>>}
    BY DEF RedactionAssumption
  <2>2. QED
    BY <2>1, FindsWhatIsThere DEF WriterTypeOK, Clean, NoSecretLogged
<1>2. QED
  BY <1>1, WriterTyped, AlwaysClean, PTL

-----------------------------------------------------------------------------
(* The reader of the text.                                                 *)

Seen == [line : Seq(Letters), log : Seq(Text)]

\* What is logged of a line.
LEMMA LoggedIsText ==
  ASSUME RedactionAssumption, NEW line \in Seq(Letters) PROVE Logged(line) \in Seq(Text)
<1>1. line \in Seq(Text) /\ <<Omitted, NL>> \in Seq(Text) /\ <<>> \in Seq(Text)
  BY DEF Letters, Text
<1>2. Emit(line) \in Seq(Text)
  BY <1>1, EmitHides
<1>3. QED
  BY <1>1, <1>2, Zenon DEF Logged

\* One symbol read.
LEMMA ReadOnIsSeen ==
  ASSUME RedactionAssumption, NEW seen \in Seen, NEW c \in Letters PROVE ReadOn(seen, c) \in Seen
<1>1. Append(seen.line, c) \in Seq(Letters) /\ seen.log \in Seq(Text)
  BY DEF Seen
<1>2. Logged(Append(seen.line, c)) \in Seq(Text)
  BY <1>1, LoggedIsText
<1>3. seen.log \o Logged(Append(seen.line, c)) \in Seq(Text) /\ <<>> \in Seq(Letters)
  BY <1>1, <1>2
<1>4. QED
  BY <1>1, <1>3 DEF ReadOn, Seen

\* The reader goes on from what it has read before.
LEMMA ReadUnfolds ==
  ASSUME RedactionAssumption, NEW text \in Seq(Letters)
  PROVE  \E at \in [0..Len(text) -> Seen] :
           /\ Read(text) = at[Len(text)]
           /\ at[0] = [line |-> <<>>, log |-> <<>>]
           /\ \A n \in 1..Len(text) : at[n] = ReadOn(at[n - 1], text[n])
<1> DEFINE m == Len(text)
           base == [line |-> <<>>, log |-> <<>>]
           step == [p \in (1..m) \X Seen |-> ReadOn(p[2], text[p[1]])]
<1>1. m \in Nat /\ \A n \in 1..m : text[n] \in Letters
  OBVIOUS
<1>2. step \in [(1..m) \X Seen -> Seen] /\ base \in Seen
  <2>1. <<>> \in Seq(Letters) /\ <<>> \in Seq(Text)
    OBVIOUS
  <2>2. base \in Seen
    BY <2>1 DEF Seen
  <2>3. QED
    BY <1>1, <2>2, ReadOnIsSeen
<1> HIDE DEF base
<1>3. PICK f \in [0..m -> Seen] :
             f[0] = base /\ \A n \in 1..m : f[n] = step[<<n, f[n - 1]>>]
  <2> HIDE DEF step
  <2>1. m \in Nat
    BY <1>1
  <2> HIDE DEF m
  <2>2. \E f \in [0..m -> Seen] : Recurs(f, m, base, step)
    BY <1>2, <2>1, Recursion, Zenon
  <2>3. QED
    BY <2>2, Zenon DEF Recurs
<1>4. \A n \in 1..m : n - 1 \in 0..m /\ n \in 0..m /\ n # 0
  BY <1>1
<1>5. ASSUME NEW n \in 1..m PROVE f[n] = ReadOn(f[n - 1], text[n])
  <2>1. <<n, f[n - 1]>> \in (1..m) \X Seen
    BY <1>3, <1>4
  <2>2. step[<<n, f[n - 1]>>] = ReadOn(f[n - 1], text[n])
    BY <2>1
  <2>3. QED
    BY <1>3, <2>2
<1>6. f = [n \in 0..m |-> IF n = 0 THEN base ELSE ReadOn(f[n - 1], text[n])]
  <2>1. \A n \in 0..m : f[n] = IF n = 0 THEN base ELSE ReadOn(f[n - 1], text[n])
    <3>1. \A n \in 0..m : n = 0 \/ n \in 1..m
      BY <1>1
    <3> HIDE DEF m
    <3>2. QED
      BY <1>3, <1>5, <3>1
  <2> HIDE DEF m
  <2>2. QED
    BY <1>3, <2>1
<1>7. \E at : at = [n \in 0..Len(text) |->
                     IF n = 0 THEN [line |-> <<>>, log |-> <<>>] ELSE ReadOn(at[n - 1], text[n])]
  BY <1>6, Zenon DEF base
<1> HIDE DEF step
<1> DEFINE at[n \in 0..Len(text)] ==
             IF n = 0 THEN [line |-> <<>>, log |-> <<>>] ELSE ReadOn(at[n - 1], text[n])
<1>8. Read(text) = at[Len(text)]
  BY Zenon DEF Read
<1>9. at = [n \in 0..Len(text) |->
             IF n = 0 THEN base ELSE ReadOn(at[n - 1], text[n])]
  BY <1>7, Zenon DEF base
<1> HIDE DEF at
<1> DEFINE S == {n \in Nat : n <= m => at[n] = f[n]}
<1>10. at[0] = base /\ \A n \in 1..m : at[n] = ReadOn(at[n - 1], text[n])
  <2>1. 0 \in 0..m
    BY <1>1
  <2>2. QED
    BY <1>4, <1>9, <2>1
<1>11. 0 \in S
  BY <1>3, <1>10
<1>12. ASSUME NEW n \in S PROVE n + 1 \in S
  <2>1. SUFFICES ASSUME n + 1 <= m PROVE at[n + 1] = f[n + 1]
    OBVIOUS
  <2>2. n + 1 \in 1..m /\ (n + 1) - 1 = n /\ n <= m
    BY <1>1, <2>1
  <2>3. at[n] = f[n]
    BY <2>2
  <2>4. QED
    BY <1>5, <1>10, <2>2, <2>3
<1>13. S = Nat
  <2>1. S \subseteq Nat
    OBVIOUS
  <2> HIDE DEF S
  <2>2. QED
    BY <1>11, <1>12, <2>1, Induction
<1>14. at[m] = f[m]
  BY <1>1, <1>13
<1>15. QED
  BY <1>3, <1>5, <1>8, <1>14 DEF base

\* A text with one more symbol.
LEMMA ReadAppend ==
  ASSUME RedactionAssumption, NEW t \in Seq(Letters), NEW c \in Letters
  PROVE  Read(t) \in Seen /\ Read(Append(t, c)) = ReadOn(Read(t), c)
<1> DEFINE m == Len(t)
           u == Append(t, c)
<1>1. /\ u \in Seq(Letters) /\ Len(u) = m + 1 /\ u[m + 1] = c
      /\ m \in Nat /\ \A n \in 1..m : u[n] = t[n]
  OBVIOUS
<1>2. PICK at \in [0..m -> Seen] :
             /\ Read(t) = at[m] /\ at[0] = [line |-> <<>>, log |-> <<>>]
             /\ \A n \in 1..m : at[n] = ReadOn(at[n - 1], t[n])
  BY ReadUnfolds, Zenon
<1>3. PICK au \in [0..Len(u) -> Seen] :
             /\ Read(u) = au[Len(u)] /\ au[0] = [line |-> <<>>, log |-> <<>>]
             /\ \A n \in 1..Len(u) : au[n] = ReadOn(au[n - 1], u[n])
  BY <1>1, ReadUnfolds, Zenon
<1> HIDE DEF u, m
<1> DEFINE S == {n \in Nat : n <= m => au[n] = at[n]}
<1>4. 0 \in S
  BY <1>2, <1>3
<1>5. ASSUME NEW n \in S PROVE n + 1 \in S
  <2>1. SUFFICES ASSUME n + 1 <= m PROVE au[n + 1] = at[n + 1]
    OBVIOUS
  <2>2. n + 1 \in 1..m /\ n + 1 \in 1..Len(u) /\ (n + 1) - 1 = n /\ n <= m
    BY <1>1, <2>1
  <2>3. au[n] = at[n] /\ u[n + 1] = t[n + 1]
    BY <1>1, <2>2
  <2>4. QED
    BY <1>2, <1>3, <2>2, <2>3
<1>6. S = Nat
  <2>1. S \subseteq Nat
    OBVIOUS
  <2> HIDE DEF S
  <2>2. QED
    BY <1>4, <1>5, <2>1, Induction
<1>7. au[m] = at[m]
  <2>1. m \in S /\ m <= m
    <3> HIDE DEF S
    <3>1. QED
      BY <1>1, <1>6
  <2>2. QED
    BY <2>1
<1>8. m + 1 \in 1..Len(u) /\ (m + 1) - 1 = m /\ m \in 0..m
  BY <1>1
<1>9. au[m + 1] = ReadOn(au[m], c)
  BY <1>1, <1>3, <1>8
<1>10. Read(t) \in Seen
  BY <1>2, <1>8
<1>11. QED
  BY <1>1, <1>2, <1>3, <1>7, <1>9, <1>10 DEF u

\* Up to and with the end of a line, or up to where a chunk ends in one.
LEMMA ReadPart ==
  ASSUME RedactionAssumption, NEW t \in Seq(Letters), NEW part \in Seq(Letters), part # <<>>,
         \A i \in 1..Len(part) - 1 : part[i] # NL
  PROVE  LET line == Read(t).line \o part
         IN Read(t \o part) = IF Ends(part)
                              THEN [line |-> <<>>, log |-> Read(t).log \o Logged(line)]
                              ELSE [line |-> line, log |-> Read(t).log]
<1> DEFINE m == Len(part)
           before(k) == SubSeq(part, 1, k)
           seen == Read(t)
           Reads(k) == Read(t \o before(k)) = [line |-> seen.line \o before(k), log |-> seen.log]
           S == {k \in Nat : k < m => Reads(k)}
<1>1. /\ m \in Nat \ {0} /\ \A i \in 1..m : part[i] \in Letters
      /\ before(0) = <<>> /\ before(m) = part
  OBVIOUS
<1>2. \A k \in 0..m : before(k) \in Seq(Letters) /\ t \o before(k) \in Seq(Letters)
  OBVIOUS
<1>3. ASSUME NEW k \in 1..m, NEW s \in Seq(Letters)
      PROVE  s \o before(k) = Append(s \o before(k - 1), part[k])
  <2>1. before(k) = Append(before(k - 1), part[k])
    <3>1. /\ before(k - 1) \in Seq(Letters) /\ Len(before(k - 1)) = k - 1
          /\ before(k) \in Seq(Letters) /\ Len(before(k)) = k
          /\ \A i \in 1..k : before(k)[i] = part[i]
          /\ \A i \in 1..k - 1 : before(k - 1)[i] = part[i]
      BY <1>1
    <3> HIDE DEF before
    <3>2. QED
      BY <1>1, <3>1
  <2>2. before(k - 1) \in Seq(Letters)
    BY <1>1, <1>2
  <2> HIDE DEF before
  <2>3. QED
    BY <1>1, <2>1, <2>2
<1>4. seen \in Seen
  <2>1. NL \in Letters
    BY DEF Letters
  <2>2. QED
    BY <2>1, ReadAppend
<1> HIDE DEF before, seen
<1>5. seen.line \in Seq(Letters) /\ seen.log \in Seq(Text)
      /\ seen = [line |-> seen.line, log |-> seen.log]
  BY <1>4 DEF Seen
<1>6. ASSUME NEW k \in 1..m, Reads(k - 1)
      PROVE  Read(t \o before(k))
                = ReadOn([line |-> seen.line \o before(k - 1), log |-> seen.log], part[k])
  <2>1. t \o before(k - 1) \in Seq(Letters) /\ part[k] \in Letters
    BY <1>1, <1>2
  <2>2. t \o before(k) = Append(t \o before(k - 1), part[k])
    BY <1>3
  <2>3. Read(t \o before(k)) = ReadOn(Read(t \o before(k - 1)), part[k])
    BY <2>1, <2>2, ReadAppend
  <2>4. QED
    BY <1>6, <2>3
<1>7. 0 \in S
  <2>1. t \o <<>> = t /\ seen.line \o <<>> = seen.line
    BY <1>5
  <2>2. Reads(0)
    BY <1>1, <1>5, <2>1 DEF seen
  <2>3. QED
    BY <2>2
<1>8. ASSUME NEW k \in S PROVE k + 1 \in S
  <2>1. SUFFICES ASSUME k + 1 < m PROVE Reads(k + 1)
    <3> HIDE DEF Reads
    <3>1. k + 1 \in Nat
      OBVIOUS
    <3>2. QED
      BY <3>1
  <2> DEFINE l == k + 1
  <2>2. l \in 1..m /\ l \in 1..m - 1 /\ l - 1 = k /\ k < m
    BY <1>1, <2>1
  <2>3. Reads(k)
    <3> HIDE DEF Reads
    <3>1. QED
      BY <2>2
  <2> HIDE DEF l
  <2>4. Read(t \o before(l)) = ReadOn([line |-> seen.line \o before(k), log |-> seen.log], part[l])
    BY <1>6, <2>2, <2>3
  <2>5. seen.line \o before(l) = Append(seen.line \o before(k), part[l])
    BY <1>3, <1>5, <2>2
  <2>6. part[l] # NL
    BY <2>2
  <2>7. Read(t \o before(l)) = [line |-> seen.line \o before(l), log |-> seen.log]
    BY <2>4, <2>5, <2>6 DEF ReadOn
  <2>8. QED
    BY <2>7 DEF l
<1>9. S = Nat
  <2>1. S \subseteq Nat
    OBVIOUS
  <2> HIDE DEF S
  <2>2. QED
    BY <1>7, <1>8, <2>1, Induction
<1>10. Reads(m - 1)
  <2> HIDE DEF Reads
  <2>1. m - 1 \in S /\ m - 1 < m
    <3> HIDE DEF S
    <3>1. QED
      BY <1>1, <1>9
  <2>2. QED
    BY <2>1
<1>11. Read(t \o part) = ReadOn([line |-> seen.line \o before(m - 1), log |-> seen.log], part[m])
  <2>1. m \in 1..m
    BY <1>1
  <2> HIDE DEF Reads, m
  <2>2. QED
    BY <1>1, <1>6, <1>10, <2>1
<1>12. seen.line \o part = Append(seen.line \o before(m - 1), part[m])
  <2>1. m \in 1..m
    BY <1>1
  <2> HIDE DEF m
  <2>2. QED
    BY <1>1, <1>3, <1>5, <2>1
<1>13. Ends(part) <=> part[m] = NL
  BY DEF Ends, Last
<1>14. QED
  BY <1>11, <1>12, <1>13 DEF ReadOn, seen

-----------------------------------------------------------------------------
(* The writer keeps up with the reader.                                    *)

\* What is pending, and whether the line is dropped, is what the reader has
\* before it; the log is what it has seen.
UpToDate ==
  LET seen == Read(written)
  IN /\ \A i \in DOMAIN seen.line : seen.line[i] # NL
     /\ ~flushed => /\ dst = seen.log /\ (dropping <=> Len(seen.line) > Limit)
                    /\ pending = IF dropping THEN <<>> ELSE seen.line
     /\ flushed => /\ dst = seen.log \o Logged(seen.line)
                   /\ pending = <<>> /\ chunk = <<>>

\* One step of the writer is some symbols read.
LEMMA StaysUpToDate ==
  ASSUME RedactionAssumption, WriterTypeOK, UpToDate, [WriterNext]_writerVars
  PROVE  UpToDate'
<1> DEFINE line == Read(written).line
           log == Read(written).log
<1>1. line \in Seq(Letters) /\ log \in Seq(Text) /\ Len(line) \in Nat /\ Limit \in Nat
  <2>1. NL \in Letters
    BY DEF Letters
  <2>2. Read(written) \in Seen
    BY <2>1, ReadAppend DEF WriterTypeOK
  <2>3. QED
    BY <2>2 DEF Seen, RedactionAssumption
<1>2. CASE TakePart
  <2>1. PICK end \in DOMAIN chunk :
               /\ \A i \in 1..end - 1 : chunk[i] # NL
               /\ Ends(SubSeq(chunk, 1, end)) \/ end = Len(chunk)
               /\ Take(SubSeq(chunk, 1, end))
               /\ chunk' = SubSeq(chunk, end + 1, Len(chunk))
               /\ written' = written \o SubSeq(chunk, 1, end)
               /\ UNCHANGED flushed
    BY <1>2, Zenon DEF TakePart
  <2> DEFINE part == SubSeq(chunk, 1, end)
             whole == line \o part
  <2>2. /\ part \in Seq(Letters) /\ part # <<>> /\ ~flushed
        /\ \A i \in 1..Len(part) - 1 : part[i] # NL
    <3>1. /\ part \in Seq(Letters) /\ Len(part) = end /\ end \in Nat \ {0}
          /\ \A i \in 1..end : part[i] = chunk[i]
      BY PartOfChunk DEF WriterTypeOK
    <3>2. chunk # <<>>
      OBVIOUS
    <3>3. ~flushed
      BY <3>2, Zenon DEF UpToDate
    <3> HIDE DEF part
    <3>4. QED
      BY <2>1, <3>1, <3>3
  <2>3. Read(written') = IF Ends(part) THEN [line |-> <<>>, log |-> log \o Logged(whole)]
                         ELSE [line |-> whole, log |-> log]
    BY <2>1, <2>2, ReadPart DEF WriterTypeOK
  <2>4. /\ dst = log /\ (dropping <=> Len(line) > Limit)
        /\ pending = IF dropping THEN <<>> ELSE line
    BY <2>2 DEF UpToDate
  <2>5. (dropping \/ Overflows(part)) <=> Len(whole) > Limit
    <3>1. Len(whole) = Len(line) + Len(part) /\ Len(part) \in Nat
      BY <1>1, <2>2
    <3> HIDE DEF line, part, whole
    <3>2. QED
      BY <1>1, <2>4, <3>1 DEF Overflows
  <2>6. CASE Ends(part)
    <3>1. Ends(whole) 
      BY <1>1, <2>2, <2>6 DEF Ends, Last
    <3>2. /\ pending' = <<>> /\ ~dropping'
          /\ dst' = dst \o (IF Len(whole) > Limit THEN <<Omitted, NL>> ELSE Emit(whole))
      <4> HIDE DEF line, log
      <4>1. QED
        BY <2>1, <2>4, <2>5, <2>6 DEF Take
    <3>3. dst' = log \o Logged(whole)
      <4> HIDE DEF line, log, whole
      <4>1. QED
        BY <2>4, <3>1, <3>2 DEF Logged
    <3>4. /\ Read(written').line = <<>> /\ Read(written').log = dst'
          /\ Len(<<>>) = 0 /\ DOMAIN <<>> = {}
      <4> HIDE DEF line, log, whole
      <4>1. QED
        BY <2>3, <2>6, <3>3
    <3>5. ~flushed'
      BY <2>1, <2>2
    <3> HIDE DEF line, log, whole, part
    <3>6. QED
      BY <1>1, <3>2, <3>4, <3>5 DEF UpToDate
  <2>7. CASE ~Ends(part)
    <3>1. /\ dst' = dst /\ (dropping' <=> Len(whole) > Limit)
          /\ pending' = IF dropping' THEN <<>> ELSE whole
      <4> HIDE DEF line, log
      <4>1. QED
        BY <2>1, <2>4, <2>5, <2>7 DEF Take
    <3>2. \A i \in DOMAIN whole : whole[i] # NL
      <4>1. \A i \in 1..Len(part) : part[i] # NL
        BY <2>2, <2>7 DEF Ends, Last
      <4>2. \A i \in 1..Len(line) : line[i] # NL
        BY <1>1 DEF UpToDate
      <4> HIDE DEF line, part
      <4>3. QED
        BY <1>1, <2>2, <4>1, <4>2
    <3>3. Read(written').line = whole /\ Read(written').log = log
      <4> HIDE DEF line, log, whole
      <4>1. QED
        BY <2>3, <2>7
    <3>4. ~flushed'
      BY <2>1, <2>2
    <3> HIDE DEF line, log, whole, part
    <3>5. QED
      BY <2>4, <3>1, <3>2, <3>3, <3>4 DEF UpToDate
  <2>8. QED
    BY <2>6, <2>7
<1>3. CASE Flush
  <2>1. /\ ~flushed /\ flushed' = TRUE /\ pending' = <<>> /\ chunk' = <<>> /\ written' = written
        /\ dst' = IF dropping THEN dst ELSE dst \o Emit(pending)
    BY <1>3 DEF Flush
  <2>2. /\ dst = log /\ (dropping <=> Len(line) > Limit)
        /\ pending = IF dropping THEN <<>> ELSE line
    BY <2>1 DEF UpToDate
  <2>3. dropping => Logged(line) = <<>>
    <3>1. SUFFICES ASSUME dropping PROVE Logged(line) = <<>>
      OBVIOUS
    <3>2. Len(line) > Limit /\ Len(line) \in DOMAIN line
      <4> HIDE DEF line
      <4>1. QED
        BY <1>1, <2>2, <3>1
    <3>3. ~Ends(line)
      BY <3>2 DEF UpToDate, Ends, Last
    <3>4. QED
      BY <3>2, <3>3, Zenon DEF Logged
  <2>4. ~dropping => Logged(line) = Emit(line)
    BY <2>2, Zenon DEF Logged
  <2>5. dst' = log \o Logged(line)
    <3>1. log \o <<>> = log
      BY <1>1
    <3> HIDE DEF line, log
    <3>2. QED
      BY <2>1, <2>2, <2>3, <2>4, <3>1
  <2>6. QED
    BY <2>1, <2>5 DEF UpToDate
<1>4. CASE UNCHANGED writerVars
  BY <1>4 DEF writerVars, UpToDate
<1>5. ASSUME NEW p, Write(p) PROVE UpToDate'
  BY <1>5 DEF Write, UpToDate
<1>6. QED
  BY <1>2, <1>3, <1>4, <1>5 DEF WriterNext, Closed

LEMMA AlwaysUpToDate == ASSUME RedactionAssumption PROVE WriterSpec => []UpToDate
<1>1. WriterInit => UpToDate
  <2>1. SUFFICES ASSUME WriterInit PROVE UpToDate
    OBVIOUS
  <2>2. <<>> \in Seq(Letters) /\ Len(<<>>) = 0 /\ DOMAIN <<>> = {} /\ Limit \in Nat
    BY DEF RedactionAssumption
  <2>3. Read(<<>>) = [line |-> <<>>, log |-> <<>>]
    <3>1. QED
      BY <2>2, ReadUnfolds
  <2>4. Read(written).line = <<>> /\ Read(written).log = <<>>
    BY <2>1, <2>3 DEF WriterInit
  <2>5. ~(Len(<<>>) > Limit)
    BY <2>2
  <2>6. /\ \A i \in DOMAIN Read(written).line : Read(written).line[i] # NL
        /\ dst = Read(written).log /\ (dropping <=> Len(Read(written).line) > Limit)
    BY <2>1, <2>2, <2>4, <2>5 DEF WriterInit
  <2>7. pending = <<>> /\ ~flushed
    BY <2>1 DEF WriterInit
  <2>8. QED
    BY <2>4, <2>6, <2>7, Zenon DEF UpToDate
<1>2. WriterTypeOK /\ UpToDate /\ [WriterNext]_writerVars => UpToDate'
  BY StaysUpToDate
<1>3. QED
  BY <1>1, <1>2, WriterTyped, PTL DEF WriterSpec

\* The log is what one reads in the text symbol by symbol, for every cut into
\* chunks (LogFollowsText; Write and Flush of secrets.go).
THEOREM LogIsWhatWasRead == ASSUME RedactionAssumption PROVE WriterSpec => []LogFollowsText
<1>1. WriterTypeOK /\ UpToDate => LogFollowsText
  <2>1. SUFFICES ASSUME WriterTypeOK, UpToDate PROVE LogFollowsText
    OBVIOUS
  <2>2. dst \o <<>> = dst
    BY <2>1 DEF WriterTypeOK
  <2>3. QED
    BY <2>1, <2>2 DEF UpToDate, LogFollowsText
<1>2. QED
  BY <1>1, WriterTyped, AlwaysUpToDate, PTL

\* The buffer keeps its limit (BoundedBuffer; secrets.go:54).
THEOREM KeepsTheLimit == ASSUME RedactionAssumption PROVE WriterSpec => []BoundedBuffer
<1>1. WriterTypeOK /\ UpToDate => BoundedBuffer
  <2>1. SUFFICES ASSUME WriterTypeOK, UpToDate PROVE BoundedBuffer
    OBVIOUS
  <2>2. Limit \in Nat /\ Len(<<>>) = 0 /\ Len(pending) \in Nat
    BY <2>1 DEF RedactionAssumption, WriterTypeOK
  <2>3. CASE pending = <<>>
    BY <2>2, <2>3 DEF BoundedBuffer
  <2>4. CASE pending # <<>>
    <3>1. ~flushed
      BY <2>1, <2>4, Zenon DEF UpToDate
    <3>2. (dropping <=> Len(Read(written).line) > Limit)
          /\ pending = IF dropping THEN <<>> ELSE Read(written).line
      BY <2>1, <3>1 DEF UpToDate
    <3>3. pending = Read(written).line /\ ~(Len(Read(written).line) > Limit)
      BY <2>4, <3>2, Zenon
    <3>4. QED
      BY <2>2, <3>3 DEF BoundedBuffer
  <2>5. QED
    BY <2>3, <2>4
<1>2. QED
  BY <1>1, WriterTyped, AlwaysUpToDate, PTL

-----------------------------------------------------------------------------
(* The selection.                                                          *)

\* A name more.
LEMMA AppendedRange ==
  ASSUME NEW X, NEW s \in Seq(X), NEW e \in X
  PROVE  Append(s, e) \in Seq(X) /\ Range(Append(s, e)) = Range(s) \cup {e}
<1>1. /\ Append(s, e) \in Seq(X) /\ Len(Append(s, e)) = Len(s) + 1 /\ Len(s) \in Nat
      /\ \A i \in 1..Len(s) : Append(s, e)[i] = s[i]
      /\ Append(s, e)[Len(s) + 1] = e
  OBVIOUS
<1>2. /\ DOMAIN Append(s, e) = 1..Len(s) + 1 /\ DOMAIN s = 1..Len(s)
      /\ 1..Len(s) + 1 = (1..Len(s)) \cup {Len(s) + 1}
  BY <1>1
<1>3. QED
  BY <1>1, <1>2 DEF Range

\* The names are taken one after the other.
LEMMA WithoutUnfolds ==
  ASSUME NEW X, NEW names \in Seq(X), NEW dropped
  PROVE  \E kept :
           /\ Without(names, dropped) = kept[Len(names)]
           /\ kept[0] = <<>>
           /\ \A n \in 1..Len(names) :
                kept[n] = IF names[n] \in dropped THEN kept[n - 1]
                          ELSE Append(kept[n - 1], names[n])
<1> DEFINE m == Len(names)
           step == [p \in (1..m) \X Seq(X) |->
                      IF names[p[1]] \in dropped THEN p[2] ELSE Append(p[2], names[p[1]])]
<1>1. m \in Nat /\ \A n \in 1..m : names[n] \in X /\ n - 1 \in 0..m /\ n \in 0..m /\ n # 0
  OBVIOUS
<1>2. step \in [(1..m) \X Seq(X) -> Seq(X)] /\ <<>> \in Seq(X)
  BY <1>1
<1>3. PICK f \in [0..m -> Seq(X)] :
             f[0] = <<>> /\ \A n \in 1..m : f[n] = step[<<n, f[n - 1]>>]
  <2> HIDE DEF step
  <2>1. m \in Nat
    BY <1>1
  <2> HIDE DEF m
  <2>2. \E f \in [0..m -> Seq(X)] : Recurs(f, m, <<>>, step)
    BY <1>2, <2>1, Recursion, Zenon
  <2>3. QED
    BY <2>2, Zenon DEF Recurs
<1>4. ASSUME NEW n \in 1..m
      PROVE  f[n] = IF names[n] \in dropped THEN f[n - 1] ELSE Append(f[n - 1], names[n])
  <2>1. <<n, f[n - 1]>> \in (1..m) \X Seq(X)
    BY <1>1, <1>3
  <2>2. step[<<n, f[n - 1]>>]
          = IF names[n] \in dropped THEN f[n - 1] ELSE Append(f[n - 1], names[n])
    BY <2>1
  <2>3. QED
    BY <1>3, <2>2
<1>5. f = [n \in 0..m |-> IF n = 0 THEN <<>>
                          ELSE IF names[n] \in dropped THEN f[n - 1]
                          ELSE Append(f[n - 1], names[n])]
  <2>1. \A n \in 0..m : n = 0 \/ n \in 1..m
    BY <1>1
  <2> HIDE DEF m
  <2>2. QED
    BY <1>3, <1>4, <2>1
<1>6. \E kept : kept = [n \in 0..Len(names) |->
                         IF n = 0 THEN <<>>
                         ELSE IF names[n] \in dropped THEN kept[n - 1]
                         ELSE Append(kept[n - 1], names[n])]
  BY <1>5, Zenon
<1> HIDE DEF step
<1> DEFINE kept[n \in 0..Len(names)] ==
             IF n = 0 THEN <<>>
             ELSE IF names[n] \in dropped THEN kept[n - 1]
             ELSE Append(kept[n - 1], names[n])
<1>7. Without(names, dropped) = kept[Len(names)]
  BY Zenon DEF Without
<1>8. kept = [n \in 0..Len(names) |->
               IF n = 0 THEN <<>>
               ELSE IF names[n] \in dropped THEN kept[n - 1]
               ELSE Append(kept[n - 1], names[n])]
  BY <1>6, Zenon
<1> HIDE DEF kept
<1>9. 0 \in 0..m
  BY <1>1
<1>10. QED
  BY <1>1, <1>7, <1>8, <1>9

\* Without drops those names and keeps the others.
LEMMA WithoutKeepsTheRest ==
  ASSUME NEW X, NEW names \in Seq(X), NEW dropped
  PROVE  /\ Without(names, dropped) \in Seq(X)
         /\ Range(Without(names, dropped)) = Range(names) \ dropped
<1> DEFINE m == Len(names)
           Set(n) == {names[i] : i \in 1..n}
<1>1. PICK kept : /\ Without(names, dropped) = kept[m]
                  /\ kept[0] = <<>>
                  /\ \A n \in 1..m :
                       kept[n] = IF names[n] \in dropped THEN kept[n - 1]
                                 ELSE Append(kept[n - 1], names[n])
  BY WithoutUnfolds
<1> DEFINE Good(n) == kept[n] \in Seq(X) /\ Range(kept[n]) = Set(n) \ dropped
           S == {n \in Nat : n <= m => Good(n)}
<1>2. m \in Nat /\ Range(names) = Set(m)
  BY DEF Range
<1>3. 0 \in S
  <2>1. Set(0) = {} /\ Range(<<>>) = {} /\ <<>> \in Seq(X)
    BY DEF Range
  <2>2. Good(0)
    BY <1>1, <2>1
  <2> HIDE DEF Good
  <2>3. QED
    BY <2>2
<1>4. ASSUME NEW n \in S PROVE n + 1 \in S
  <2>1. SUFFICES ASSUME n + 1 <= m PROVE Good(n + 1)
    <3> HIDE DEF Good
    <3>1. n + 1 \in Nat
      OBVIOUS
    <3>2. QED
      BY <3>1
  <2> DEFINE k == n + 1
  <2>2. /\ n \in Nat /\ n <= m /\ k \in 1..m /\ k - 1 = n
        /\ Set(k) = Set(n) \cup {names[k]} /\ names[k] \in X
    <3>1. n \in Nat /\ n <= m /\ k \in 1..m /\ k - 1 = n /\ 1..k = (1..n) \cup {k}
      BY <1>2, <2>1
    <3>2. QED
      BY <3>1
  <2>3. Good(n)
    <3> HIDE DEF Good
    <3>1. QED
      BY <2>2
  <2> HIDE DEF k, Set
  <2>4. CASE names[k] \in dropped
    <3>1. kept[k] = kept[n]
      BY <1>1, <2>2, <2>4
    <3>2. QED
      BY <2>2, <2>3, <2>4, <3>1 DEF k
  <2>5. CASE names[k] \notin dropped
    <3>1. kept[k] = Append(kept[n], names[k])
      BY <1>1, <2>2, <2>5
    <3>2. kept[k] \in Seq(X) /\ Range(kept[k]) = Range(kept[n]) \cup {names[k]}
      BY <2>2, <2>3, <3>1, AppendedRange
    <3>3. QED
      BY <2>2, <2>3, <2>5, <3>2 DEF k
  <2>6. QED
    BY <2>4, <2>5
<1>5. S = Nat
  <2> HIDE DEF Good
  <2>1. S \subseteq Nat
    OBVIOUS
  <2> HIDE DEF S
  <2>2. QED
    BY <1>3, <1>4, <2>1, Induction
<1>6. Good(m)
  <2> HIDE DEF Good
  <2>1. m \in S /\ m <= m
    <3> HIDE DEF S
    <3>1. QED
      BY <1>2, <1>5
  <2>2. QED
    BY <2>1
<1>7. QED
  BY <1>1, <1>2, <1>6

\* No two elements are the same.
Apart(s) == \A i, j \in 1..Len(s) : s[i] = s[j] => i = j

\* A new name is apart from the others.
LEMMA AppendedApart ==
  ASSUME NEW X, NEW s \in Seq(X), NEW e \in X, Apart(s), e \notin Range(s)
  PROVE  Apart(Append(s, e))
<1> DEFINE t == Append(s, e)
<1>1. /\ Len(t) = Len(s) + 1 /\ Len(s) \in Nat
      /\ \A i \in 1..Len(s) : t[i] = s[i] /\ s[i] # e
      /\ t[Len(s) + 1] = e
  BY DEF Range
<1>2. \A i \in 1..Len(t) : i \in 1..Len(s) \/ i = Len(s) + 1
  BY <1>1
<1> HIDE DEF t
<1>3. ASSUME NEW i \in 1..Len(t), NEW j \in 1..Len(t), t[i] = t[j] PROVE i = j
  BY <1>1, <1>2, <1>3 DEF Apart
<1>4. QED
  BY <1>3 DEF Apart, t

\* Different names are counted by the length.
LEMMA ApartCounts ==
  ASSUME NEW X, NEW s \in Seq(X), Apart(s) PROVE Cardinality(Range(s)) = Len(s)
<1>1. s \in Bijection(1..Len(s), Range(s))
  <2>1. s \in [1..Len(s) -> Range(s)] /\ \A r \in Range(s) : \E i \in 1..Len(s) : s[i] = r
    BY DEF Range
  <2>2. \A i, j \in 1..Len(s) : s[i] = s[j] => i = j
    BY DEF Apart
  <2>3. QED
    BY <2>1, <2>2 DEF Bijection, Injection, Surjection, IsInjective
<1>2. ExistsBijection(1..Len(s), Range(s))
  BY <1>1 DEF ExistsBijection
<1>3. Len(s) \in Nat
  OBVIOUS
<1>4. IsFiniteSet(1..Len(s)) /\ Cardinality(1..Len(s)) = Len(s)
  BY <1>3, FS_Interval
<1>5. QED
  BY <1>2, <1>4, FS_Bijection

\* The names are taken one after the other.
LEMMA DistinctUnfolds ==
  ASSUME NEW X, NEW names \in Seq(X), NEW excluded
  PROVE  \E kept :
           /\ Distinct(names, excluded) = kept[Len(names)]
           /\ kept[0] = <<>>
           /\ \A n \in 1..Len(names) :
                kept[n] = IF names[n] \in excluded \cup Range(kept[n - 1]) THEN kept[n - 1]
                          ELSE Append(kept[n - 1], names[n])
<1> DEFINE m == Len(names)
           step == [p \in (1..m) \X Seq(X) |->
                      IF names[p[1]] \in excluded \cup Range(p[2]) THEN p[2]
                      ELSE Append(p[2], names[p[1]])]
<1>1. m \in Nat /\ \A n \in 1..m : names[n] \in X /\ n - 1 \in 0..m /\ n \in 0..m /\ n # 0
  OBVIOUS
<1>2. step \in [(1..m) \X Seq(X) -> Seq(X)] /\ <<>> \in Seq(X)
  BY <1>1
<1>3. PICK f \in [0..m -> Seq(X)] :
             f[0] = <<>> /\ \A n \in 1..m : f[n] = step[<<n, f[n - 1]>>]
  <2> HIDE DEF step
  <2>1. m \in Nat
    BY <1>1
  <2> HIDE DEF m
  <2>2. \E f \in [0..m -> Seq(X)] : Recurs(f, m, <<>>, step)
    BY <1>2, <2>1, Recursion, Zenon
  <2>3. QED
    BY <2>2, Zenon DEF Recurs
<1>4. ASSUME NEW n \in 1..m
      PROVE  f[n] = IF names[n] \in excluded \cup Range(f[n - 1]) THEN f[n - 1]
                     ELSE Append(f[n - 1], names[n])
  <2>1. <<n, f[n - 1]>> \in (1..m) \X Seq(X)
    BY <1>1, <1>3
  <2>2. step[<<n, f[n - 1]>>]
          = IF names[n] \in excluded \cup Range(f[n - 1]) THEN f[n - 1]
            ELSE Append(f[n - 1], names[n])
    BY <2>1
  <2>3. QED
    BY <1>3, <2>2
<1>5. f = [n \in 0..m |-> IF n = 0 THEN <<>>
                          ELSE IF names[n] \in excluded \cup Range(f[n - 1]) THEN f[n - 1]
                          ELSE Append(f[n - 1], names[n])]
  <2>1. \A n \in 0..m : n = 0 \/ n \in 1..m
    BY <1>1
  <2> HIDE DEF m
  <2>2. QED
    BY <1>3, <1>4, <2>1
<1>6. \E kept : kept = [n \in 0..Len(names) |->
                         IF n = 0 THEN <<>>
                         ELSE IF names[n] \in excluded \cup Range(kept[n - 1]) THEN kept[n - 1]
                         ELSE Append(kept[n - 1], names[n])]
  BY <1>5, Zenon
<1> HIDE DEF step
<1> DEFINE kept[n \in 0..Len(names)] ==
             IF n = 0 THEN <<>>
             ELSE IF names[n] \in excluded \cup Range(kept[n - 1]) THEN kept[n - 1]
             ELSE Append(kept[n - 1], names[n])
<1>7. Distinct(names, excluded) = kept[Len(names)]
  BY Zenon DEF Distinct
<1>8. kept = [n \in 0..Len(names) |->
               IF n = 0 THEN <<>>
               ELSE IF names[n] \in excluded \cup Range(kept[n - 1]) THEN kept[n - 1]
               ELSE Append(kept[n - 1], names[n])]
  BY <1>6, Zenon
<1> HIDE DEF kept
<1>9. 0 \in 0..m
  BY <1>1
<1>10. QED
  BY <1>1, <1>7, <1>8, <1>9

\* Distinct keeps each name that is not excluded, once.
LEMMA DistinctKeepsEachOnce ==
  ASSUME NEW X, NEW names \in Seq(X), NEW excluded
  PROVE  /\ Distinct(names, excluded) \in Seq(X)
         /\ Range(Distinct(names, excluded)) = Range(names) \ excluded
         /\ Apart(Distinct(names, excluded))
<1> DEFINE m == Len(names)
           Set(n) == {names[i] : i \in 1..n}
<1>1. PICK kept : /\ Distinct(names, excluded) = kept[m]
                  /\ kept[0] = <<>>
                  /\ \A n \in 1..m :
                       kept[n] = IF names[n] \in excluded \cup Range(kept[n - 1]) THEN kept[n - 1]
                                 ELSE Append(kept[n - 1], names[n])
  BY DistinctUnfolds
<1> DEFINE Good(n) == kept[n] \in Seq(X) /\ Range(kept[n]) = Set(n) \ excluded /\ Apart(kept[n])
           S == {n \in Nat : n <= m => Good(n)}
<1>2. m \in Nat /\ Range(names) = Set(m)
  BY DEF Range
<1>3. 0 \in S
  <2>1. Set(0) = {} /\ Range(<<>>) = {} /\ <<>> \in Seq(X) /\ Apart(<<>>)
    BY DEF Range, Apart
  <2>2. Good(0)
    BY <1>1, <2>1
  <2> HIDE DEF Good
  <2>3. QED
    BY <2>2
<1>4. ASSUME NEW n \in S PROVE n + 1 \in S
  <2>1. SUFFICES ASSUME n + 1 <= m PROVE Good(n + 1)
    <3> HIDE DEF Good
    <3>1. n + 1 \in Nat
      OBVIOUS
    <3>2. QED
      BY <3>1
  <2> DEFINE k == n + 1
  <2>2. /\ n \in Nat /\ n <= m /\ k \in 1..m /\ k - 1 = n
        /\ Set(k) = Set(n) \cup {names[k]} /\ names[k] \in X
    <3>1. n \in Nat /\ n <= m /\ k \in 1..m /\ k - 1 = n /\ 1..k = (1..n) \cup {k}
      BY <1>2, <2>1
    <3>2. QED
      BY <3>1
  <2>3. Good(n)
    <3> HIDE DEF Good
    <3>1. QED
      BY <2>2
  <2> HIDE DEF k, Set
  <2>4. CASE names[k] \in excluded \cup Range(kept[n])
    <3>1. kept[k] = kept[n]
      BY <1>1, <2>2, <2>4
    <3>2. QED
      BY <2>2, <2>3, <2>4, <3>1 DEF k
  <2>5. CASE names[k] \notin excluded \cup Range(kept[n])
    <3>1. kept[k] = Append(kept[n], names[k])
      BY <1>1, <2>2, <2>5
    <3>2. kept[k] \in Seq(X) /\ Range(kept[k]) = Range(kept[n]) \cup {names[k]}
      BY <2>2, <2>3, <3>1, AppendedRange
    <3>3. Apart(kept[k])
      BY <2>2, <2>3, <2>5, <3>1, AppendedApart
    <3>4. QED
      BY <2>2, <2>3, <2>5, <3>2, <3>3 DEF k
  <2>6. QED
    BY <2>4, <2>5
<1>5. S = Nat
  <2> HIDE DEF Good
  <2>1. S \subseteq Nat
    OBVIOUS
  <2> HIDE DEF S
  <2>2. QED
    BY <1>3, <1>4, <2>1, Induction
<1>6. Good(m)
  <2> HIDE DEF Good
  <2>1. m \in S /\ m <= m
    <3> HIDE DEF S
    <3>1. QED
      BY <1>2, <1>5
  <2>2. QED
    BY <2>1
<1>7. QED
  BY <1>1, <1>2, <1>6

\* A sequence is one of its own elements.
LEMMA OfItsRange ==
  ASSUME NEW X, NEW s \in Seq(X) PROVE s \in Seq(Range(s))
<1>1. Len(s) \in Nat /\ s \in [1..Len(s) -> Range(s)]
  BY DEF Range
<1>2. QED
  BY <1>1

Left == {o \in Backups : o.c.mode = "full" <=> o.db = <<>>}

SelectionTypeOK ==
  /\ conf \in Config /\ phase \in {"start", "valid", "selected", "failed"}
  /\ catalog \in Catalogs \cup {<<>>} /\ bucket \subseteq Left

\* Nothing is selected but by valid settings, and then what they mean.
Chosen ==
  /\ phase \in {"valid", "selected"} => SelectorsAgree
  /\ phase # "selected" => selected = <<>>
  /\ phase = "selected" /\ conf.mode = "full" => selected = <<<<>>>>
  /\ phase = "selected" /\ conf.mode # "full" =>
       /\ Range(selected) = Meant /\ Range(selected) \subseteq Range(catalog)
       /\ Cardinality(Range(selected)) = Len(selected)
       /\ \A name \in Range(selected) : ValidateDatabases(<<name>>)

\* The names of a list setting are its trimmed parts.
LEMMA ParsedList ==
  ASSUME NEW X, NEW value \in Seq(X)
  PROVE  /\ ParseDatabaseList(value) \in Seq(Range(ParseDatabaseList(value)))
         /\ Range(ParseDatabaseList(value)) = {TrimSpace(v) : v \in Range(value)}
<1> DEFINE names == ParseDatabaseList(value)
<1>1. Len(value) \in Nat /\ DOMAIN value = 1..Len(value)
  OBVIOUS
<1>2. DOMAIN names = 1..Len(value) /\ \A i \in 1..Len(value) : names[i] = TrimSpace(value[i])
  BY <1>1 DEF ParseDatabaseList
<1>3. names = [i \in 1..Len(value) |-> names[i]]
  BY <1>1, Zenon DEF ParseDatabaseList
<1>4. \A i \in 1..Len(value) : names[i] \in Range(names)
  BY <1>2 DEF Range
<1>5. Range(names) = {TrimSpace(v) : v \in Range(value)}
  BY <1>1, <1>2 DEF Range
<1> HIDE DEF names
<1>6. names \in [1..Len(value) -> Range(names)]
  BY <1>3, <1>4
<1>7. names \in Seq(Range(names))
  BY <1>1, <1>6
<1>8. QED
  BY <1>5, <1>7 DEF names

\* A type invariant: the objects that are left in the bucket are backups, each
\* with the key that its writer gave it (backupKey).
THEOREM SelectionTyped == ASSUME SelectionAssumption PROVE Spec => []SelectionTypeOK
<1>1. Init => SelectionTypeOK
  BY DEF Init, SelectionTypeOK, Left
<1>2. SelectionTypeOK /\ [Next]_vars => SelectionTypeOK'
  <2> SUFFICES ASSUME SelectionTypeOK, [Next]_vars PROVE SelectionTypeOK'
    OBVIOUS
  <2>1. CASE ValidateBackup
    BY <2>1 DEF ValidateBackup, SelectionTypeOK
  <2>2. ASSUME NEW all \in Catalogs, Select(all) PROVE SelectionTypeOK'
    BY <2>2 DEF Select, SelectionTypeOK
  <2>3. ASSUME NEW db, RemoveOldBackups(db) PROVE SelectionTypeOK'
    BY <2>3 DEF RemoveOldBackups, SelectionTypeOK
  <2>4. CASE UNCHANGED vars
    BY <2>4 DEF vars, SelectionTypeOK
  <2>5. QED
    BY <2>1, <2>2, <2>3, <2>4 DEF Next, Done
<1>3. QED
  BY <1>1, <1>2, PTL DEF Spec

\* What selection keeps of the candidates.
LEMMA CandidatesKept ==
  ASSUME SelectionAssumption, SelectionTypeOK, SelectorsAgree, conf.mode # "full",
         NEW all \in Catalogs
  PROVE  LET names == Candidates(all)
             excluded == Range(ParseDatabaseList(conf.exclude))
         IN /\ names \in Seq(Range(names))
            /\ conf.all => Range(names) \ excluded
                             = {n \in Range(all) : ~SystemDatabase(n)}
                               \ {TrimSpace(v) : v \in Range(conf.exclude)}
            /\ ~conf.all => Range(names) \ excluded
                              = IF conf.databases # <<>>
                                THEN {TrimSpace(v) : v \in Range(conf.databases)}
                                ELSE {conf.database}
<1> DEFINE names == Candidates(all)
<1>1. /\ all \in Seq(Seq(STRING)) /\ conf.exclude \in Seq(Seq(STRING))
      /\ conf.databases \in Seq(Seq(STRING)) /\ conf.all \in BOOLEAN
  <2>1. /\ conf.exclude \in Lists \cup {<<>>} /\ conf.databases \in Lists \cup {<<>>}
        /\ conf.all \in BOOLEAN
    BY DEF SelectionTypeOK, Config
  <2>2. Lists \subseteq Seq(Seq(STRING)) /\ Catalogs \subseteq Seq(Seq(STRING))
    BY DEF SelectionAssumption
  <2>3. <<>> \in Seq(Seq(STRING))
    OBVIOUS
  <2>4. QED
    BY <2>1, <2>2, <2>3
<1>2. Range(ParseDatabaseList(conf.exclude)) = {TrimSpace(v) : v \in Range(conf.exclude)}
  BY <1>1, ParsedList
<1>3. CASE conf.all
  <2>1. names = Without(all, Internal)
    BY <1>3 DEF Candidates
  <2>2. names \in Seq(Seq(STRING)) /\ Range(names) = Range(all) \ Internal
    BY <1>1, <2>1, WithoutKeepsTheRest
  <2>3. names \in Seq(Range(names))
    BY <2>2, OfItsRange
  <2> HIDE DEF names
  <2>4. Range(names) = {n \in Range(all) : ~SystemDatabase(n)}
    BY <2>2 DEF SystemDatabase
  <2>5. QED
    BY <1>2, <1>3, <2>3, <2>4 DEF names
<1>4. CASE ~conf.all
  <2>1. conf.exclude = <<>> /\ Range(<<>>) = {}
    BY <1>4 DEF SelectorsAgree, Range
  <2>2. Range(ParseDatabaseList(conf.exclude)) = {}
    BY <1>2, <2>1
  <2>3. CASE conf.databases # <<>>
    <3>1. names = ParseDatabaseList(conf.databases)
      BY <1>4, <2>3 DEF Candidates
    <3>2. /\ names \in Seq(Range(names))
          /\ Range(names) = {TrimSpace(v) : v \in Range(conf.databases)}
      BY <1>1, <3>1, ParsedList
    <3> HIDE DEF names
    <3>3. QED
      BY <1>4, <2>2, <2>3, <3>2 DEF names
  <2>4. CASE conf.databases = <<>>
    <3>1. names = <<conf.database>>
      BY <1>4, <2>4 DEF Candidates
    <3>2. names \in Seq({conf.database}) /\ Range(names) = {conf.database}
      BY <3>1 DEF Range
    <3> HIDE DEF names
    <3>3. QED
      BY <1>4, <2>2, <2>4, <3>2 DEF names
  <2>5. QED
    BY <2>3, <2>4
<1>5. QED
  BY <1>1, <1>3, <1>4

\* One step: only Select changes what is selected.
LEMMA StaysChosen ==
  ASSUME SelectionAssumption, SelectionTypeOK, Chosen, [Next]_vars
  PROVE  Chosen'
<1>1. CASE ValidateBackup
  BY <1>1 DEF ValidateBackup, Valid, Chosen, SelectorsAgree
<1>2. ASSUME NEW all \in Catalogs, Select(all) PROVE Chosen'
  <2> DEFINE names == Candidates(all)
             excluded == Range(ParseDatabaseList(conf.exclude))
  <2>1. /\ phase = "valid" /\ conf' = conf /\ catalog' = all /\ SelectorsAgree /\ SelectorsAgree'
    BY <1>2 DEF Select, Chosen, SelectorsAgree
  <2>2. CASE conf.mode = "full"
    <3>1. <<<<>>>> # <<>>
      OBVIOUS
    <3>2. selected' = <<<<>>>> /\ phase' = "selected"
      BY <1>2, <2>2, <3>1 DEF Select
    <3>3. QED
      BY <2>1, <2>2, <3>2 DEF Chosen
  <2>3. CASE /\ conf.mode # "full"
             /\ ~ValidateDatabases(names) \/ ~(Range(names) \subseteq Range(all))
    <3>1. selected' = <<>> /\ phase' = "failed"
      BY <1>2, <2>3 DEF Select
    <3>2. QED
      BY <3>1 DEF Chosen
  <2>4. CASE conf.mode # "full" /\ ValidateDatabases(names) /\ Range(names) \subseteq Range(all)
    <3> DEFINE chosen == Distinct(names, excluded)
    <3>1. selected' = chosen /\ phase' = IF chosen = <<>> THEN "failed" ELSE "selected"
      BY <1>2, <2>4, Zenon DEF Select
    <3>2. names \in Seq(Range(names))
      BY <2>1, <2>4, CandidatesKept
    <3>3. /\ chosen \in Seq(Range(names)) /\ Range(chosen) = Range(names) \ excluded
          /\ Apart(chosen)
      BY <3>2, DistinctKeepsEachOnce
    <3>4. Cardinality(Range(chosen)) = Len(chosen)
      BY <3>3, ApartCounts
    <3>5. ASSUME NEW name \in Range(names) PROVE ValidateDatabases(<<name>>)
      <4>1. <<name>> # <<>> /\ Range(<<name>>) = {name}
        BY DEF Range
      <4>2. QED
        BY <2>4, <4>1 DEF ValidateDatabases
    <3>6. Meant' = Range(chosen)
      <4>1. conf.all \in BOOLEAN
        BY DEF SelectionTypeOK, Config
      <4>2. Meant' = IF conf.all THEN {n \in Range(all) : ~SystemDatabase(n)}
                                      \ {TrimSpace(v) : v \in Range(conf.exclude)}
                     ELSE IF conf.databases # <<>>
                          THEN {TrimSpace(v) : v \in Range(conf.databases)}
                     ELSE {conf.database}
        BY <2>1 DEF Meant
      <4>3. /\ conf.all => Range(names) \ excluded
                             = {n \in Range(all) : ~SystemDatabase(n)}
                               \ {TrimSpace(v) : v \in Range(conf.exclude)}
            /\ ~conf.all => Range(names) \ excluded
                              = IF conf.databases # <<>>
                                THEN {TrimSpace(v) : v \in Range(conf.databases)}
                                ELSE {conf.database}
        BY <2>1, <2>4, CandidatesKept
      <4> HIDE DEF names, excluded, chosen
      <4>4. QED
        BY <3>3, <4>1, <4>2, <4>3
    <3> HIDE DEF names, excluded, chosen
    <3>7. QED
      BY <2>1, <2>4, <3>1, <3>3, <3>4, <3>5, <3>6 DEF Chosen
  <2>5. QED
    BY <2>2, <2>3, <2>4
<1>3. ASSUME NEW db, RemoveOldBackups(db) PROVE Chosen'
  BY <1>3 DEF RemoveOldBackups, Chosen, SelectorsAgree, Meant
<1>4. CASE UNCHANGED vars
  BY <1>4 DEF vars, Chosen, SelectorsAgree, Meant
<1>5. QED
  BY <1>1, <1>2, <1>3, <1>4 DEF Next, Done

LEMMA AlwaysChosen == ASSUME SelectionAssumption PROVE Spec => []Chosen
<1>1. Init => Chosen
  BY DEF Init, Chosen
<1>2. SelectionTypeOK /\ Chosen /\ [Next]_vars => Chosen'
  BY StaysChosen
<1>3. QED
  BY <1>1, <1>2, SelectionTyped, PTL DEF Spec

\* What is backed up is what the settings mean, each database once
\* (SelectsWhatIsMeant; App.databases).
THEOREM BacksUpWhatIsMeant == ASSUME SelectionAssumption PROVE Spec => []SelectsWhatIsMeant
<1>1. SelectionTypeOK /\ Chosen => SelectsWhatIsMeant
  <2>1. SUFFICES ASSUME SelectionTypeOK, Chosen, phase = "selected"
                 PROVE  /\ Range(selected) = Meant
                        /\ conf.mode = "per-database" => Range(selected) \subseteq Range(catalog)
                        /\ Cardinality(Range(selected)) = Len(selected)
    BY DEF SelectsWhatIsMeant
  <2>2. CASE conf.mode = "full"
    <3>1. selected = <<<<>>>> /\ SelectorsAgree
      BY <2>1, <2>2 DEF Chosen
    <3>2. Range(selected) = {<<>>} /\ Len(selected) = 1
      BY <3>1 DEF Range
    <3>3. Meant = {<<>>}
      BY <2>2, <3>1 DEF SelectorsAgree, Meant
    <3>4. Cardinality({<<>>}) = 1
      BY FS_Singleton
    <3>5. QED
      BY <2>2, <3>2, <3>3, <3>4
  <2>3. CASE conf.mode # "full"
    BY <2>1, <2>3 DEF Chosen
  <2>4. QED
    BY <2>2, <2>3
<1>2. QED
  BY <1>1, SelectionTyped, AlwaysChosen, PTL

\* Restore finds every backup by its database alone (EveryBackupCanBeNamed;
\* validateRestore, backupKey).
THEOREM RestoreFindsEveryBackup == ASSUME SelectionAssumption PROVE Spec => []EveryBackupCanBeNamed
<1>1. SelectionTypeOK /\ Chosen => EveryBackupCanBeNamed
  <2>1. SUFFICES ASSUME SelectionTypeOK, Chosen, phase = "selected",
                        NEW db \in Range(selected), NEW t \in Stamps
                 PROVE  LET c == [conf EXCEPT !.database = db, !.databases = <<>>,
                                              !.exclude = <<>>, !.all = FALSE]
                            args == IF conf.filename = "fixed" THEN <<>> ELSE <<t>>
                        IN RestoreKey(c, args) = {BackupKey(conf, db, t)}
    BY Zenon DEF EveryBackupCanBeNamed
  <2> DEFINE c == [conf EXCEPT !.database = db, !.databases = <<>>, !.exclude = <<>>, !.all = FALSE]
             args == IF conf.filename = "fixed" THEN <<>> ELSE <<t>>
  <2>2. /\ c.database = db /\ c.databases = <<>> /\ c.exclude = <<>> /\ c.all = FALSE
        /\ c.mode = conf.mode /\ c.prefix = conf.prefix /\ c.filename = conf.filename
        /\ c.encrypted = conf.encrypted
    BY <2>1 DEF SelectionTypeOK, Config
  <2> HIDE DEF c
  <2>3. RestoreAccepts(c)
    <3>1. CASE conf.mode = "full"
      <4>1. selected = <<<<>>>>
        BY <2>1, <3>1 DEF Chosen
      <4>2. db = <<>>
        BY <4>1 DEF Range
      <4>3. QED
        BY <2>2, <3>1, <4>2 DEF RestoreAccepts
    <3>2. CASE conf.mode # "full"
      <4>1. ValidateDatabases(<<db>>)
        BY <2>1, <3>2 DEF Chosen
      <4>2. QED
        BY <2>2, <3>2, <4>1 DEF RestoreAccepts
    <3>3. QED
      BY <3>1, <3>2
  <2>4. /\ TimestampPrefix(c, db) = TimestampPrefix(conf, db) /\ FileType(c) = FileType(conf)
        /\ FixedKey(c, db) = FixedKey(conf, db)
    <3>1. TimestampPrefix(c, db) = TimestampPrefix(conf, db)
      BY <2>2, Zenon DEF TimestampPrefix
    <3>2. FileType(c) = FileType(conf)
      BY <2>2, Zenon DEF FileType
    <3>3. QED
      BY <3>1, <3>2, Zenon DEF FixedKey
  <2>5. CASE conf.filename = "fixed"
    <3>1. RestoreKey(c, args) = {FixedKey(c, db)} /\ BackupKey(conf, db, t) = FixedKey(conf, db)
      BY <2>2, <2>3, <2>5, Zenon DEF RestoreKey, BackupKey
    <3>2. QED
      BY <2>4, <3>1 DEF c
  <2>6. CASE conf.filename # "fixed"
    <3>1. Range(args) \cap Stamps = {t}
      BY <2>6 DEF Range
    <3>2. RestoreKey(c, args)
            = {TimestampPrefix(c, db) \o <<u>> \o FileType(c) : u \in Range(args) \cap Stamps}
      BY <2>2, <2>3, <2>6, Zenon DEF RestoreKey
    <3>3. RestoreKey(c, args) = {TimestampPrefix(conf, db) \o <<t>> \o FileType(conf)}
      BY <2>4, <3>1, <3>2
    <3>4. BackupKey(conf, db, t) = TimestampPrefix(conf, db) \o <<t>> \o FileType(conf)
      BY <2>6, Zenon DEF BackupKey
    <3>5. QED
      BY <3>3, <3>4 DEF c
  <2>7. QED
    BY <2>5, <2>6
<1>2. QED
  BY <1>1, SelectionTyped, AlwaysChosen, PTL

-----------------------------------------------------------------------------
(* Sequences that are cut in two.                                          *)

\* Beginnings of one length are equal, and so are the rests.
LEMMA SplitLeft ==
  ASSUME NEW X, NEW a \in Seq(X), NEW b \in Seq(X), NEW s \in Seq(X), NEW t \in Seq(X),
         Len(a) = Len(b), a \o s = b \o t
  PROVE  a = b /\ s = t
<1>1. /\ Len(a) \in Nat /\ Len(s) \in Nat /\ Len(t) \in Nat
      /\ Len(a \o s) = Len(a) + Len(s) /\ Len(b \o t) = Len(b) + Len(t)
      /\ \A i \in 1..Len(a) : (a \o s)[i] = a[i] /\ (b \o t)[i] = b[i]
      /\ \A i \in 1..Len(s) : (a \o s)[Len(a) + i] = s[i]
      /\ \A i \in 1..Len(t) : (b \o t)[Len(b) + i] = t[i]
  <2>1. ASSUME NEW c \in Seq(X), NEW u \in Seq(X)
        PROVE  /\ Len(c) \in Nat /\ Len(u) \in Nat /\ Len(c \o u) = Len(c) + Len(u)
               /\ \A i \in 1..Len(c) : (c \o u)[i] = c[i]
               /\ \A i \in 1..Len(u) : (c \o u)[Len(c) + i] = u[i]
    OBVIOUS
  <2>2. /\ Len(a \o s) = Len(a) + Len(s)
        /\ \A i \in 1..Len(a) : (a \o s)[i] = a[i]
        /\ \A i \in 1..Len(s) : (a \o s)[Len(a) + i] = s[i]
    BY <2>1, Zenon
  <2>3. /\ Len(b \o t) = Len(b) + Len(t)
        /\ \A i \in 1..Len(b) : (b \o t)[i] = b[i]
        /\ \A i \in 1..Len(t) : (b \o t)[Len(b) + i] = t[i]
    BY <2>1, Zenon
  <2>4. Len(a) \in Nat /\ Len(s) \in Nat /\ Len(t) \in Nat
    OBVIOUS
  <2>5. QED
    BY <2>2, <2>3, <2>4, Zenon
<1>2. Len(s) = Len(t)
  BY <1>1
<1>3. \A i \in 1..Len(a) : a[i] = b[i]
  BY <1>1
<1>4. \A i \in 1..Len(s) : s[i] = t[i]
  BY <1>1, <1>2
<1>5. a = b
  BY <1>3
<1>6. s = t
  BY <1>2, <1>4, SeqEqual
<1>7. QED
  BY <1>5, <1>6

\* Ends of one length are equal, and so are the beginnings.
LEMMA SplitRight ==
  ASSUME NEW X, NEW a \in Seq(X), NEW b \in Seq(X), NEW s \in Seq(X), NEW t \in Seq(X),
         Len(s) = Len(t), a \o s = b \o t
  PROVE  a = b /\ s = t
<1>1. /\ Len(a) \in Nat /\ Len(b) \in Nat /\ Len(s) \in Nat
      /\ Len(a \o s) = Len(a) + Len(s) /\ Len(b \o t) = Len(b) + Len(t)
  OBVIOUS
<1>2. Len(a) = Len(b)
  BY <1>1
<1>3. QED
  BY <1>2, SplitLeft

\* The provers see the elements of such a concatenation only one by one.
LEMMA Pair ==
  ASSUME NEW X, NEW x \in X, NEW y \in X PROVE <<x>> \o <<y>> = <<x, y>>
<1> DEFINE s == <<x>> \o <<y>>
           t == <<x, y>>
<1>1. <<x>> \in Seq(X) /\ <<y>> \in Seq(X)
  OBVIOUS
<1>2. Len(s) = 2 /\ s[1] = x /\ s[2] = y /\ s \in Seq(X)
  BY <1>1
<1>3. Len(t) = 2 /\ t[1] = x /\ t[2] = y /\ t \in Seq(X)
  OBVIOUS
<1> HIDE DEF s, t
<1>4. \A i \in 1..Len(s) : i = 1 \/ i = 2
  BY <1>2
<1>5. \A i \in 1..Len(s) : s[i] = t[i]
  BY <1>2, <1>3, <1>4
<1>6. s = t
  BY <1>2, <1>3, <1>5, SeqEqual
<1>7. QED
  BY <1>6 DEF s, t

LEMMA Associates ==
  ASSUME NEW X, NEW a \in Seq(X), NEW b \in Seq(X), NEW c \in Seq(X)
  PROVE  (a \o b) \o c = a \o (b \o c) /\ a \o b \in Seq(X)
BY SMT

LEMMA ConcatTwice ==
  ASSUME NEW X, NEW a \in Seq(X), NEW b \in Seq(X), NEW c \in Seq(X), NEW d \in Seq(X)
  PROVE  a \o (b \o c \o d) = ((a \o b) \o c) \o d
<1> DEFINE ab == a \o b
           bc == b \o c
<1>1. /\ ab \in Seq(X) /\ bc \in Seq(X) /\ ab \o c = a \o bc
  BY Associates
<1>2. bc \o d \in Seq(X) /\ (a \o bc) \o d = a \o (bc \o d)
  <2> HIDE DEF ab, bc
  <2> QED BY <1>1
<1>5. QED
  <2> HIDE DEF ab
  <2>1. (ab \o c) \o d = a \o (bc \o d)
    BY <1>1, <1>2, Zenon
  <2> QED
    BY <2>1, Zenon DEF ab, bc

\* A concatenation ends like its last part.
LEMMA EndsLikeLast ==
  ASSUME NEW X, NEW a \in Seq(X), NEW b \in Seq(X), b # <<>>
  PROVE  /\ a \o b \in Seq(X) /\ a \o b # <<>> /\ Len(a \o b) >= Len(b)
         /\ (a \o b)[Len(a \o b)] = b[Len(b)]
<1> DEFINE s == a \o b
<1>1. /\ s \in Seq(X) /\ Len(s) = Len(a) + Len(b) /\ Len(a) \in Nat /\ Len(b) \in Nat /\ Len(b) # 0
  OBVIOUS
<1>2. s[Len(a) + Len(b)] = b[Len(b)]
  OBVIOUS
<1> HIDE DEF s
<1>3. s # <<>>
  BY <1>1
<1>4. QED
  BY <1>1, <1>2, <1>3 DEF s

\* The same end can be taken away.
LEMMA RightCancels ==
  ASSUME NEW X, NEW a \in Seq(X), NEW b \in Seq(X), NEW c \in Seq(X), a \o c = b \o c
  PROVE  a = b
BY SplitRight

-----------------------------------------------------------------------------
(* The keys.                                                               *)

\* The provers know of no string that it is in STRING.
Strings ==
  STRING \cup {"%", "(", "2", "5", "8", "/", "full", "per-database", "latest", ".zip", ".gpg"}

\* The symbols of a database's name.
Plain == Strings \ {"/"}

\* The bytes that are encoded, with their digits.
LEMMA BytesEncoded ==
  /\ "%" \in DOMAIN Hex
  /\ \A b \in DOMAIN Hex : b \in Plain /\ \E x, y \in Plain : Hex[b] = <<x, y>>
  /\ \A a, b \in DOMAIN Hex : Hex[a] = Hex[b] => a = b
<1>1. DOMAIN Hex = {"%", "("} /\ Hex["%"] = <<"2", "5">> /\ Hex["("] = <<"2", "8">>
  BY DEF Hex
<1>2. "%" \in Plain /\ "(" \in Plain /\ "2" \in Plain /\ "5" \in Plain /\ "8" \in Plain
  BY DEF Plain, Strings
<1>3. <<"2", "5">> # <<"2", "8">>
  OBVIOUS
<1>4. QED
  BY <1>1, <1>2, <1>3

\* No encoding of a byte is the beginning of another's.
LEMMA ByteCancels ==
  ASSUME NEW a \in Plain, NEW b \in Plain, NEW x \in Seq(Plain), NEW y \in Seq(Plain),
         EncodeByte(a) \o x = EncodeByte(b) \o y
  PROVE  a = b /\ x = y
<1> DEFINE three(h, k) == <<"%">> \o <<h, k>>
<1>1. ASSUME NEW c \in Plain, c \in DOMAIN Hex
      PROVE  \E h, k \in Plain : Hex[c] = <<h, k>> /\ EncodeByte(c) = three(h, k)
  <2>1. PICK h \in Plain, k \in Plain : Hex[c] = <<h, k>>
    BY <1>1, BytesEncoded
  <2>2. EncodeByte(c) = three(h, k)
    BY <1>1, <2>1, Zenon DEF EncodeByte
  <2>3. QED
    BY <2>1, <2>2
<1>2. ASSUME NEW c \in Plain, c \notin DOMAIN Hex PROVE EncodeByte(c) = <<c>> /\ c # "%"
  BY <1>2, BytesEncoded, Zenon DEF EncodeByte
<1>3. ASSUME NEW h \in Plain, NEW k \in Plain
      PROVE  /\ three(h, k) \in Seq(Plain) /\ Len(three(h, k)) = 3
             /\ three(h, k)[1] = "%" /\ three(h, k)[2] = h /\ three(h, k)[3] = k
  <2>1. "%" \in Plain
    BY BytesEncoded, Zenon
  <2>2. <<"%">> \in Seq(Plain) /\ <<h, k>> \in Seq(Plain)
    BY <2>1
  <2>3. QED
    BY <2>1, <2>2
<1> HIDE DEF three
<1>4. CASE a \in DOMAIN Hex /\ b \in DOMAIN Hex
  <2>1. PICK h \in Plain, k \in Plain : Hex[a] = <<h, k>> /\ EncodeByte(a) = three(h, k)
    BY <1>1, <1>4
  <2>2. PICK i \in Plain, j \in Plain : Hex[b] = <<i, j>> /\ EncodeByte(b) = three(i, j)
    BY <1>1, <1>4
  <2>3. three(h, k) \o x = three(i, j) \o y
    BY <2>1, <2>2
  <2>4. three(h, k) = three(i, j) /\ x = y
    <3> DEFINE p == three(h, k)
               q == three(i, j)
    <3>1. p \in Seq(Plain) /\ q \in Seq(Plain) /\ Len(p) = Len(q) /\ p \o x = q \o y
      BY <1>3, <2>3
    <3> HIDE DEF p, q
    <3>2. p = q /\ x = y
      BY <3>1, SplitLeft
    <3>3. QED
      BY <3>2 DEF p, q
  <2>5. h = i /\ k = j
    BY <1>3, <2>4
  <2>6. QED
    BY <1>4, <2>1, <2>2, <2>4, <2>5, BytesEncoded
<1>5. CASE a \notin DOMAIN Hex /\ b \notin DOMAIN Hex
  <2>1. EncodeByte(a) = <<a>> /\ EncodeByte(b) = <<b>>
    BY <1>2, <1>5
  <2> DEFINE p == <<a>>
             q == <<b>>
  <2>2. p \in Seq(Plain) /\ q \in Seq(Plain) /\ Len(p) = Len(q)
    OBVIOUS
  <2>3. p \o x = q \o y
    BY <2>1
  <2> HIDE DEF p, q
  <2>4. p = q /\ x = y
    BY <2>2, <2>3, SplitLeft
  <2>5. QED
    BY <2>4 DEF p, q
<1>6. ASSUME NEW c \in Plain, c \in DOMAIN Hex, NEW z \in Seq(Plain),
             NEW d \in Plain, d \notin DOMAIN Hex, NEW w \in Seq(Plain),
             EncodeByte(c) \o z = EncodeByte(d) \o w
      PROVE  FALSE
  <2>1. PICK h \in Plain, k \in Plain : EncodeByte(c) = three(h, k)
    BY <1>1, <1>6
  <2>2. EncodeByte(d) \o w = <<d>> \o w /\ d # "%"
    BY <1>2, <1>6
  <2>3. three(h, k) \o z = <<d>> \o w
    BY <1>6, <2>1, <2>2
  <2>4. (three(h, k) \o z)[1] = "%"
    BY <1>3
  <2>5. (<<d>> \o w)[1] = d
    OBVIOUS
  <2>6. QED
    BY <2>2, <2>3, <2>4, <2>5
<1>7. QED
  BY <1>4, <1>5, <1>6

\* A name is encoded from its last symbol on.
LEMMA EncodeUnfolds ==
  ASSUME NEW value \in Seq(Plain)
  PROVE  \E last \in [0..Len(value) -> Seq(Plain)] :
           /\ EncodeComponent(value) = last[Len(value)]
           /\ last[0] = <<>>
           /\ \A n \in 1..Len(value) :
                last[n] = EncodeByte(value[Len(value) + 1 - n]) \o last[n - 1]
<1> DEFINE m == Len(value)
           step == [p \in (1..m) \X Seq(Plain) |-> EncodeByte(value[m + 1 - p[1]]) \o p[2]]
<1>1. /\ m \in Nat
      /\ \A n \in 1..m : value[m + 1 - n] \in Plain /\ n - 1 \in 0..m /\ n \in 0..m /\ n # 0
  <2>1. \A n \in 1..m : m + 1 - n \in 1..m
    OBVIOUS
  <2>2. QED
    BY <2>1
<1>2. ASSUME NEW b \in Plain PROVE EncodeByte(b) \in Seq(Plain)
  <2>1. CASE b \in DOMAIN Hex
    <3>1. PICK x \in Plain, y \in Plain : Hex[b] = <<x, y>>
      BY <2>1, BytesEncoded
    <3>2. EncodeByte(b) = <<"%">> \o <<x, y>> /\ "%" \in Plain
      BY <2>1, <3>1, BytesEncoded, Zenon DEF EncodeByte
    <3>3. QED
      BY <3>2
  <2>2. CASE b \notin DOMAIN Hex
    <3>1. EncodeByte(b) = <<b>>
      BY <2>2, Zenon DEF EncodeByte
    <3>2. QED
      BY <3>1
  <2>3. QED
    BY <2>1, <2>2
<1>3. step \in [(1..m) \X Seq(Plain) -> Seq(Plain)] /\ <<>> \in Seq(Plain)
  <2>1. ASSUME NEW n \in 1..m, NEW s \in Seq(Plain)
        PROVE  EncodeByte(value[m + 1 - n]) \o s \in Seq(Plain)
    BY <1>1, <1>2
  <2>2. QED
    BY <2>1
<1>4. PICK f \in [0..m -> Seq(Plain)] :
             f[0] = <<>> /\ \A n \in 1..m : f[n] = step[<<n, f[n - 1]>>]
  <2> HIDE DEF step
  <2>1. m \in Nat
    BY <1>1
  <2> HIDE DEF m
  <2>2. \E f \in [0..m -> Seq(Plain)] : Recurs(f, m, <<>>, step)
    BY <1>3, <2>1, Recursion, Zenon
  <2>3. QED
    BY <2>2, Zenon DEF Recurs
<1>5. ASSUME NEW n \in 1..m PROVE f[n] = EncodeByte(value[m + 1 - n]) \o f[n - 1]
  <2>1. <<n, f[n - 1]>> \in (1..m) \X Seq(Plain)
    BY <1>1, <1>4
  <2>2. step[<<n, f[n - 1]>>] = EncodeByte(value[m + 1 - n]) \o f[n - 1]
    BY <2>1
  <2>3. QED
    BY <1>4, <2>2
<1>6. f = [n \in 0..m |-> IF n = 0 THEN <<>> ELSE EncodeByte(value[m + 1 - n]) \o f[n - 1]]
  <2>1. \A n \in 0..m : n = 0 \/ n \in 1..m
    BY <1>1
  <2> HIDE DEF m
  <2>2. QED
    BY <1>4, <1>5, <2>1
<1>7. \E last : last = [n \in 0..Len(value) |->
                         IF n = 0 THEN <<>>
                         ELSE EncodeByte(value[Len(value) + 1 - n]) \o last[n - 1]]
  BY <1>6, Zenon
<1> HIDE DEF step
<1> DEFINE last[n \in 0..Len(value)] ==
             IF n = 0 THEN <<>> ELSE EncodeByte(value[Len(value) + 1 - n]) \o last[n - 1]
<1>8. EncodeComponent(value) = last[Len(value)]
  BY Zenon DEF EncodeComponent
<1>9. last = [n \in 0..Len(value) |->
               IF n = 0 THEN <<>> ELSE EncodeByte(value[Len(value) + 1 - n]) \o last[n - 1]]
  BY <1>7, Zenon
<1> HIDE DEF last
<1>10. last[0] = <<>> /\ \A n \in 1..m : last[n] = EncodeByte(value[m + 1 - n]) \o last[n - 1]
  <2>1. 0 \in 0..m
    BY <1>1
  <2>2. QED
    BY <1>1, <1>9, <2>1
<1> DEFINE S == {n \in Nat : n <= m => last[n] = f[n]}
<1>11. 0 \in S
  BY <1>4, <1>10
<1>12. ASSUME NEW n \in S PROVE n + 1 \in S
  <2>1. SUFFICES ASSUME n + 1 <= m PROVE last[n + 1] = f[n + 1]
    OBVIOUS
  <2>2. n + 1 \in 1..m /\ (n + 1) - 1 = n /\ n <= m
    BY <1>1, <2>1
  <2>3. last[n] = f[n]
    BY <2>2
  <2>4. QED
    BY <1>5, <1>10, <2>2, <2>3
<1>13. S = Nat
  <2>1. S \subseteq Nat
    OBVIOUS
  <2> HIDE DEF S
  <2>2. QED
    BY <1>11, <1>12, <2>1, Induction
<1>14. last[m] = f[m]
  <2>1. m \in S /\ m <= m
    <3> HIDE DEF S
    <3>1. QED
      BY <1>1, <1>13
  <2>2. QED
    BY <2>1
<1>15. QED
  BY <1>4, <1>5, <1>8, <1>14

\* Different names have different directories (encodeComponent).
LEMMA EncodingIsInjective ==
  ASSUME NEW v \in Seq(Plain), NEW w \in Seq(Plain), EncodeComponent(v) = EncodeComponent(w)
  PROVE  v = w
<1> DEFINE m == Len(v)
           l == Len(w)
<1>1. PICK f \in [0..m -> Seq(Plain)] :
             /\ EncodeComponent(v) = f[m] /\ f[0] = <<>>
             /\ \A n \in 1..m : f[n] = EncodeByte(v[m + 1 - n]) \o f[n - 1]
  BY EncodeUnfolds, Zenon
<1>2. PICK g \in [0..l -> Seq(Plain)] :
             /\ EncodeComponent(w) = g[l] /\ g[0] = <<>>
             /\ \A n \in 1..l : g[n] = EncodeByte(w[l + 1 - n]) \o g[n - 1]
  BY EncodeUnfolds, Zenon
<1>3. /\ m \in Nat /\ \A n \in 1..m : v[m + 1 - n] \in Plain /\ n - 1 \in 0..m /\ n \in 0..m
      /\ l \in Nat /\ \A n \in 1..l : w[l + 1 - n] \in Plain /\ n - 1 \in 0..l /\ n \in 0..l
  <2>1. /\ \A n \in 1..m : m + 1 - n \in 1..m /\ n - 1 \in 0..m /\ n \in 0..m
        /\ \A n \in 1..l : l + 1 - n \in 1..l /\ n - 1 \in 0..l /\ n \in 0..l
    OBVIOUS
  <2>2. QED
    BY <2>1
<1>4. ASSUME NEW b \in Plain, NEW s \in Seq(Plain) PROVE EncodeByte(b) \o s # <<>>
  <2>1. CASE b \in DOMAIN Hex
    <3>1. PICK x \in Plain, y \in Plain : Hex[b] = <<x, y>>
      BY <2>1, BytesEncoded
    <3>2. EncodeByte(b) = <<"%">> \o <<x, y>> /\ "%" \in Plain
      BY <2>1, <3>1, BytesEncoded, Zenon DEF EncodeByte
    <3>3. QED
      BY <3>2
  <2>2. CASE b \notin DOMAIN Hex
    <3>1. EncodeByte(b) = <<b>>
      BY <2>2, Zenon DEF EncodeByte
    <3>2. QED
      BY <3>1
  <2>3. QED
    BY <2>1, <2>2
<1>5. \A a, b \in Plain, x, y \in Seq(Plain) :
        EncodeByte(a) \o x = EncodeByte(b) \o y => a = b /\ x = y
  BY ByteCancels, Zenon
<1> HIDE DEF m, l
<1> DEFINE Same(n) == \A k \in 0..l : f[n] = g[k] =>
                        k = n /\ \A i \in 1..n : v[m + 1 - i] = w[l + 1 - i]
           S == {n \in Nat : n <= m => Same(n)}
<1>6. 0 \in S
  <2>1. ASSUME NEW k \in 0..l, f[0] = g[k] PROVE k = 0
    <3>1. SUFFICES ASSUME k # 0 PROVE FALSE
      OBVIOUS
    <3>2. k \in 1..l /\ k - 1 \in 0..l
      BY <1>3, <3>1
    <3>3. g[k] = EncodeByte(w[l + 1 - k]) \o g[k - 1] /\ w[l + 1 - k] \in Plain
      BY <1>2, <1>3, <3>2
    <3>4. g[k] # <<>>
      BY <1>4, <3>2, <3>3
    <3>5. QED
      BY <1>1, <2>1, <3>4
  <2>2. 1..0 = {}
    OBVIOUS
  <2>3. Same(0)
    BY <2>1, <2>2
  <2> HIDE DEF Same
  <2>4. QED
    BY <2>3
<1>7. ASSUME NEW n \in S PROVE n + 1 \in S
  <2>1. SUFFICES ASSUME n + 1 <= m PROVE Same(n + 1)
    <3> HIDE DEF Same
    <3>1. n + 1 \in Nat
      OBVIOUS
    <3>2. QED
      BY <3>1
  <2> DEFINE q == n + 1
  <2>2. n \in Nat /\ n <= m /\ n \in 0..m /\ q \in 1..m /\ q - 1 = n
    BY <1>3, <2>1
  <2>3. Same(n)
    <3> HIDE DEF Same
    <3>1. QED
      BY <2>2
  <2> HIDE DEF q
  <2>4. f[q] = EncodeByte(v[m + 1 - q]) \o f[n] /\ v[m + 1 - q] \in Plain /\ f[n] \in Seq(Plain)
    BY <1>1, <1>3, <2>2
  <2>5. ASSUME NEW k \in 0..l, f[q] = g[k]
        PROVE  k = q /\ \A i \in 1..q : v[m + 1 - i] = w[l + 1 - i]
    <3>1. k # 0
      BY <1>2, <1>4, <2>4, <2>5
    <3>2. k \in 1..l /\ k - 1 \in 0..l
      BY <1>3, <3>1
    <3>3. /\ g[k] = EncodeByte(w[l + 1 - k]) \o g[k - 1] /\ w[l + 1 - k] \in Plain
          /\ g[k - 1] \in Seq(Plain)
      BY <1>2, <1>3, <3>2
    <3>4. v[m + 1 - q] = w[l + 1 - k] /\ f[n] = g[k - 1]
      <4>1. EncodeByte(v[m + 1 - q]) \o f[n] = EncodeByte(w[l + 1 - k]) \o g[k - 1]
        BY <2>4, <2>5, <3>3
      <4>2. /\ v[m + 1 - q] \in Plain
            /\ w[l + 1 - k] \in Plain /\ f[n] \in Seq(Plain) /\ g[k - 1] \in Seq(Plain)
        BY <2>4, <3>3, Zenon
      <4>3. \A b \in Plain, x, y \in Seq(Plain) :
        EncodeByte(v[m + 1 - q]) \o x = EncodeByte(b) \o y => v[m + 1 - q] = b /\ x = y
        BY <1>5, <4>2, Zenon
      <4>4. \A x, y \in Seq(Plain) :
        EncodeByte(v[m + 1 - q]) \o x = EncodeByte(w[l + 1 - k]) \o y
        => v[m + 1 - q] = w[l + 1 - k] /\ x = y
        BY <4>3, <4>2, Zenon
      <4>5. QED
        BY <4>1, <4>2, <4>4, Zenon
    <3>5. k - 1 = n /\ \A i \in 1..n : v[m + 1 - i] = w[l + 1 - i]
      BY <2>3, <3>2, <3>4
    <3>6. k = q
      BY <2>2, <3>2, <3>5
    <3>7. \A i \in 1..q : i \in 1..n \/ i = q
      BY <2>2
    <3>8. QED
      BY <3>4, <3>5, <3>6, <3>7
  <2>6. QED
    BY <2>5 DEF q
<1>8. S = Nat
  <2> HIDE DEF Same
  <2>1. S \subseteq Nat
    OBVIOUS
  <2> HIDE DEF S
  <2>2. QED
    BY <1>6, <1>7, <2>1, Induction
<1>9. Same(m)
  <2> HIDE DEF Same
  <2>1. m \in S /\ m <= m
    <3> HIDE DEF S
    <3>1. QED
      BY <1>3, <1>8
  <2>2. QED
    BY <2>1
<1>10. l = m /\ \A i \in 1..m : v[m + 1 - i] = w[l + 1 - i]
  <2>1. l \in 0..l /\ f[m] = g[l]
    <3>1. l \in 0..l
      BY <1>3
    <3>2. f[m] = g[l]
      BY <1>1, <1>2 DEF m, l
    <3>3. QED
      BY <3>1, <3>2
  <2>2. QED
    BY <1>9, <2>1
<1>11. ASSUME NEW i \in 1..m PROVE v[i] = w[i]
  <2>1. m + 1 - i \in 1..m /\ m + 1 - (m + 1 - i) = i
    BY <1>3
  <2>2. v[m + 1 - (m + 1 - i)] = w[l + 1 - (m + 1 - i)]
    BY <1>10, <2>1
  <2>3. QED
    BY <1>10, <2>1, <2>2
<1>12. QED
  BY <1>10, <1>11 DEF m, l

\* What stands behind the last "/" is told from what stands before it.
LEMMA SplitAtSlash ==
  ASSUME NEW a \in Seq(Strings), NEW b \in Seq(Strings), a # <<>>, b # <<>>,
         a[Len(a)] = "/", b[Len(b)] = "/",
         NEW e \in Seq(Plain), NEW f \in Seq(Plain), a \o e = b \o f
  PROVE  a = b /\ e = f
<1>1. e \in Seq(Strings) /\ f \in Seq(Strings)
  BY DEF Plain
<1>2. ASSUME NEW c \in Seq(Strings), NEW d \in Seq(Strings), d # <<>>, d[Len(d)] = "/",
             c # <<>>, NEW g \in Seq(Plain), NEW h \in Seq(Plain), c \o g = d \o h,
             Len(c) < Len(d)
      PROVE  FALSE
  <2>1. g \in Seq(Strings) /\ h \in Seq(Strings)
    BY DEF Plain
  <2>2. /\ Len(c) \in Nat /\ Len(d) \in Nat /\ Len(g) \in Nat /\ Len(h) \in Nat
        /\ Len(c \o g) = Len(c) + Len(g) /\ Len(d \o h) = Len(d) + Len(h)
        /\ \A i \in 1..Len(g) : (c \o g)[Len(c) + i] = g[i]
        /\ \A i \in 1..Len(d) : (d \o h)[i] = d[i]
    BY <2>1
  <2> DEFINE i == Len(d) - Len(c)
  <2>3. i \in 1..Len(g) /\ Len(c) + i = Len(d) /\ Len(d) \in 1..Len(d)
    BY <1>2, <2>2
  <2> HIDE DEF i
  <2>4. g[i] = "/"
    BY <1>2, <2>2, <2>3
  <2>5. g[i] \in Plain
    BY <2>3
  <2>6. QED
    BY <2>4, <2>5 DEF Plain
<1>3. ~(Len(a) < Len(b)) /\ ~(Len(b) < Len(a))
  BY <1>2
<1>4. Len(a) = Len(b)
  BY <1>3
<1>5. QED
  BY <1>1, <1>4, SplitLeft

\* The greatest of finitely many numbers is one of them.
LEMMA GreatestKept ==
  ASSUME NEW n \in Nat, NEW S \in SUBSET (0..n), 0 \in S PROVE Max(S) \in S
<1> DEFINE T == {n - k : k \in S}
<1>1. T \subseteq Nat /\ T # {}
  OBVIOUS
<1>2. PICK x \in T : \A y \in T : ~(<<y, x>> \in OpToRel(<, Nat))
  <2> HIDE DEF T
  <2>1. QED
    BY <1>1, NatLessThanWellFounded, WFMin
<1>3. PICK k \in S : x = n - k
  BY <1>2
<1>4. ASSUME NEW j \in S PROVE k >= j
  <2>1. n - j \in T /\ n - j \in Nat /\ x \in Nat
    BY <1>1
  <2>2. ~(n - j < x)
    BY <1>2, <2>1 DEF OpToRel
  <2>3. QED
    BY <1>3, <2>2
<1>5. QED
  BY <1>4, Zenon DEF Max

\* A directory is empty or ends in "/".
LEMMA DirectoryIsPath ==
  ASSUME NEW p \in Seq(STRING)
  PROVE  /\ TrimRight(p, "/") \in Seq(Strings) /\ Directory(p) \in Seq(Strings)
         /\ Directory(p) # <<>> => Directory(p)[Len(Directory(p))] = "/"
<1> DEFINE n == Max(Kept(p, "/"))
<1>1. n \in 0..Len(p)
  <2>1. Len(p) \in Nat /\ Kept(p, "/") \in SUBSET (0..Len(p)) /\ 0 \in Kept(p, "/")
    BY DEF Kept
  <2>2. QED
    BY <2>1, GreatestKept
<1>2. TrimRight(p, "/") \in Seq(Strings)
  <2>1. p \in Seq(Strings)
    BY DEF Strings
  <2> HIDE DEF n
  <2>2. SubSeq(p, 1, n) \in Seq(Strings)
    BY <1>1, <2>1
  <2>3. QED
    BY <2>2 DEF TrimRight, n
<1>3. "/" \in Strings
  BY DEF Strings
<1>4. CASE TrimRight(p, "/") = <<>>
  BY <1>2, <1>4, Zenon DEF Directory
<1>5. CASE TrimRight(p, "/") # <<>>
  <2> DEFINE q == TrimRight(p, "/")
  <2>1. Directory(p) = Append(q, "/")
    BY <1>5, Zenon DEF Directory
  <2> HIDE DEF q
  <2>2. q \in Seq(Strings)
    BY <1>2 DEF q
  <2>3. Append(q, "/") \in Seq(Strings) /\ Append(q, "/")[Len(Append(q, "/"))] = "/"
    BY <1>3, <2>2
  <2>4. QED
    BY <1>2, <2>1, <2>3
<1>6. QED
  BY <1>4, <1>5

\* A directory tells its prefix up to the "/" at the end (config.go:254-257).
LEMMA DirectoryTells ==
  ASSUME NEW p \in Seq(STRING), NEW q \in Seq(STRING), Directory(p) = Directory(q)
  PROVE  TrimRight(p, "/") = TrimRight(q, "/")
<1> DEFINE s == TrimRight(p, "/")
           t == TrimRight(q, "/")
<1>1. s \in Seq(Strings) /\ t \in Seq(Strings) /\ "/" \in Strings
  BY DirectoryIsPath DEF Strings
<1>2. /\ Directory(p) = IF s # <<>> THEN Append(s, "/") ELSE s
      /\ Directory(q) = IF t # <<>> THEN Append(t, "/") ELSE t
  BY Zenon DEF Directory
<1> HIDE DEF s, t
<1>3. /\ Append(s, "/") # <<>> /\ Append(t, "/") # <<>>
      /\ Append(s, "/") = Append(t, "/") => s = t
  BY <1>1, AppendInjective, AppendProperties
<1>4. s = t
  BY <1>2, <1>3
<1>5. QED
  BY <1>4 DEF s, t

\* The keys' parts regrouped: the directory, the database, the last "/".
LEMMA Regrouped ==
  ASSUME NEW D \in Seq(Strings), NEW E \in Seq(Strings)
  PROVE  /\ D \o <<"full", "/">> = (D \o <<"full">>) \o <<"/">>
         /\ D \o (<<"per-database", "/">> \o E \o <<"/">>)
              = ((D \o <<"per-database", "/">>) \o E) \o <<"/">>
<1> DEFINE full == <<"full">>
           per == <<"per-database", "/">>
           slash == <<"/">>
<1>1. "full" \in Strings /\ "/" \in Strings /\ "per-database" \in Strings
  BY DEF Strings
<1>2. full \in Seq(Strings) /\ per \in Seq(Strings) /\ slash \in Seq(Strings)
  BY <1>1
<1>3. full \o slash = <<"full", "/">>
  BY <1>1, Pair, Zenon
<1> HIDE DEF full, per, slash
<1>4. D \o (full \o slash) = (D \o full) \o slash
  BY <1>2
<1>5. D \o (per \o E \o slash) = ((D \o per) \o E) \o slash
  BY <1>2
<1>6. D \o <<"full", "/">> = (D \o full) \o slash
  BY <1>3, <1>4, Zenon
<1>7. QED
  BY <1>5, <1>6, Zenon DEF full, per, slash

\* The prefix of a key tells the mode, the S3 prefix and the database.
LEMMA PrefixTells ==
  ASSUME SelectionAssumption, PrefixesApart, NEW c, NEW d,
         c.prefix \in S3Prefixes, d.prefix \in S3Prefixes,
         c.mode \in {"full", "per-database"}, d.mode \in {"full", "per-database"},
         NEW a \in Seq(Plain), NEW b \in Seq(Plain),
         TimestampPrefix(c, a) = TimestampPrefix(d, b)
  PROVE  /\ c.mode = d.mode /\ Directory(c.prefix) = Directory(d.prefix)
         /\ c.mode = "per-database" => a = b
<1> DEFINE full == <<"full">>
           per == <<"per-database", "/">>
           slash == <<"/">>
<1>1. /\ full \in Seq(Plain) /\ Len(full) = 1 /\ full \in Seq(Strings)
      /\ per \in Seq(Strings) /\ per # <<>> /\ per[Len(per)] = "/" /\ Len(per) = 2
      /\ slash \in Seq(Strings) /\ Len(slash) = 1
  <2>1. "full" \in Plain /\ "per-database" \in Strings /\ "/" \in Strings /\ "full" \in Strings
    BY DEF Plain, Strings
  <2>2. QED
    BY <2>1
<1>2. ASSUME NEW p \in S3Prefixes
      PROVE  /\ Directory(p) \in Seq(Strings)
             /\ Directory(p) # <<>> => Directory(p)[Len(Directory(p))] = "/"
             /\ Directory(p) \o per \in Seq(Strings) /\ Directory(p) \o per # <<>>
             /\ (Directory(p) \o per)[Len(Directory(p) \o per)] = "/"
             /\ Len(Directory(p) \o per) >= 2
  <2> DEFINE D == Directory(p)
  <2>1. p \in Seq(STRING)
    BY DEF SelectionAssumption
  <2>2. D \in Seq(Strings) /\ (D # <<>> => D[Len(D)] = "/")
    BY <2>1, DirectoryIsPath
  <2> HIDE DEF D, per
  <2>3. /\ D \o per \in Seq(Strings) /\ D \o per # <<>> /\ Len(D \o per) >= Len(per)
        /\ (D \o per)[Len(D \o per)] = per[Len(per)]
    BY <1>1, <2>2, EndsLikeLast
  <2>4. QED
    BY <1>1, <2>2, <2>3 DEF D
<1>3. ASSUME NEW s \in Seq(Plain)
      PROVE  EncodeComponent(s) \in Seq(Plain) /\ EncodeComponent(s) \in Seq(Strings)
  <2>1. PICK last \in [0..Len(s) -> Seq(Plain)] : EncodeComponent(s) = last[Len(s)]
    BY EncodeUnfolds
  <2>2. EncodeComponent(s) \in Seq(Plain)
    BY <2>1
  <2>3. QED
    BY <2>2 DEF Plain
<1>4. ASSUME NEW e, NEW s \in Seq(Plain),
             e.prefix \in S3Prefixes, e.mode \in {"full", "per-database"}
      PROVE  TimestampPrefix(e, s)
               = (IF e.mode = "full" THEN Directory(e.prefix) \o full
                  ELSE (Directory(e.prefix) \o per) \o EncodeComponent(s)) \o slash
  <2> DEFINE D == Directory(e.prefix)
             E == EncodeComponent(s)
  <2>1. D \in Seq(Strings) /\ E \in Seq(Strings)
    BY <1>2, <1>3, <1>4
  <2>2. CASE e.mode = "full"
    <3>1. TimestampPrefix(e, s) = D \o <<"full", "/">>
      BY <2>2, Zenon DEF TimestampPrefix
    <3> HIDE DEF D, E
    <3>2. D \o <<"full", "/">> = (D \o full) \o slash
      BY <2>1, Regrouped, Zenon
    <3>3. QED
      BY <2>2, <3>1, <3>2, Zenon DEF D
  <2>3. CASE e.mode # "full"
    <3>1. TimestampPrefix(e, s) = D \o (per \o E \o slash)
      BY <2>3, Zenon DEF TimestampPrefix
    <3> HIDE DEF D, E
    <3>2. D \o (per \o E \o slash) = ((D \o per) \o E) \o slash
      BY <2>1, Regrouped, Zenon
    <3>3. QED
      BY <2>3, <3>1, <3>2, Zenon DEF D, E
  <2>4. QED
    BY <2>2, <2>3
<1> DEFINE C == Directory(c.prefix)
           D == Directory(d.prefix)
           E == EncodeComponent(a)
           F == EncodeComponent(b)
<1>5. /\ C \in Seq(Strings) /\ D \in Seq(Strings) /\ E \in Seq(Plain) /\ F \in Seq(Plain)
      /\ E \in Seq(Strings) /\ F \in Seq(Strings)
      /\ C \o per \in Seq(Strings) /\ D \o per \in Seq(Strings)
      /\ C \o per # <<>> /\ D \o per # <<>>
      /\ (C \o per)[Len(C \o per)] = "/" /\ (D \o per)[Len(D \o per)] = "/"
  BY <1>2, <1>3
<1> HIDE DEF full, per, slash
<1>6. \A p, q, s, t \in Seq(Strings) :
         Len(s) = Len(t) /\ p \o s = q \o t => p = q /\ s = t
  BY SplitRight, Zenon
<1>7. \A p, q \in Seq(Strings), s, t \in Seq(Plain) :
         /\ p # <<>> /\ q # <<>> /\ p[Len(p)] = "/" /\ q[Len(q)] = "/" /\ p \o s = q \o t
         => p = q /\ s = t
  BY SplitAtSlash, Zenon
<1>8. (IF c.mode = "full" THEN C \o full ELSE (C \o per) \o E)
        = (IF d.mode = "full" THEN D \o full ELSE (D \o per) \o F)
  <2> DEFINE l == IF c.mode = "full" THEN C \o full ELSE (C \o per) \o E
             r == IF d.mode = "full" THEN D \o full ELSE (D \o per) \o F
  <2>1. l \in Seq(Strings) /\ r \in Seq(Strings)
    <3> HIDE DEF C, D, E, F
    <3>1. /\ C \o full \in Seq(Strings) /\ (C \o per) \o E \in Seq(Strings)
          /\ D \o full \in Seq(Strings) /\ (D \o per) \o F \in Seq(Strings)
      BY <1>1, <1>5
    <3>2. QED
      BY <3>1
  <2>2. l \o slash = r \o slash
    BY <1>4
  <2> HIDE DEF l, r
  <2>3. l = r
    BY <1>1, <2>1, <2>2, RightCancels
  <2>4. QED
    BY <2>3 DEF l, r
\* A directory of the full mode is not one of a database's.
<1>9. ASSUME NEW p \in S3Prefixes, NEW q \in S3Prefixes, NEW G \in Seq(Plain),
             Directory(p) \o full = (Directory(q) \o per) \o G
      PROVE  FALSE
  <2> DEFINE P == Directory(p)
             Q == Directory(q) \o per
  <2>1. /\ P \in Seq(Strings) /\ (P # <<>> => P[Len(P)] = "/")
        /\ Q \in Seq(Strings) /\ Q # <<>> /\ Q[Len(Q)] = "/" /\ Len(Q) >= 2
    BY <1>2
  <2>2. P \o full = Q \o G /\ P # Q
    BY <1>9 DEF PrefixesApart, per
  <2> HIDE DEF P, Q
  <2>3. CASE P # <<>>
    <3>1. \A s, t \in Seq(Plain) :
            /\ P # <<>> /\ Q # <<>> /\ P[Len(P)] = "/" /\ Q[Len(Q)] = "/" /\ P \o s = Q \o t
            => P = Q /\ s = t
      BY <1>7, <2>1, Zenon
    <3>2. P \o full = Q \o G => P = Q
      BY <1>1, <2>1, <2>3, <3>1, Zenon
    <3>3. QED
      BY <2>2, <3>2, Zenon
  <2>4. CASE P = <<>>
    <3>1. G \in Seq(Strings)
      BY DEF Plain
    <3>2. Len(P \o full) = 1 /\ Len(Q \o G) >= 2
      BY <1>1, <2>1, <2>4, <3>1
    <3>3. QED
      BY <2>2, <3>2
  <2>5. QED
    BY <2>3, <2>4
<1>10. CASE c.mode = "full" /\ d.mode = "full"
  <2>1. C \o full = D \o full
    BY <1>8, <1>10
  <2>2. C = D
    <3> HIDE DEF C, D
    <3>1. QED
      BY <1>1, <1>5, <2>1, RightCancels
  <2>3. QED
    BY <1>10, <2>2
<1>11. CASE c.mode # "full" /\ d.mode # "full"
  <2>1. (C \o per) \o E = (D \o per) \o F
    BY <1>8, <1>11
  <2>2. C \o per = D \o per /\ E = F
    <3> DEFINE p == C \o per
               q == D \o per
    <3>1. /\ p \in Seq(Strings) /\ q \in Seq(Strings) /\ p # <<>> /\ q # <<>>
          /\ p[Len(p)] = "/" /\ q[Len(q)] = "/" /\ p \o E = q \o F
      BY <1>5, <2>1
    <3> HIDE DEF p, q, E, F
    <3>2. p = q /\ E = F
      <4>1. \A s, t \in Seq(Plain) :
              /\ p # <<>> /\ q # <<>> /\ p[Len(p)] = "/" /\ q[Len(q)] = "/" /\ p \o s = q \o t
              => p = q /\ s = t
        BY <1>7, <3>1, Zenon
      <4>2. p \o E = q \o F => p = q /\ E = F
        BY <1>5, <3>1, <4>1, Zenon
      <4>3. QED
        BY <3>1, <4>2, Zenon
    <3>3. QED
      BY <3>2 DEF p, q
  <2>3. C = D
    <3> HIDE DEF C, D
    <3>1. QED
      BY <1>1, <1>5, <2>2, RightCancels
  <2>4. a = b
    BY <2>2, EncodingIsInjective
  <2>5. QED
    BY <1>11, <2>3, <2>4
<1>12. CASE c.mode = "full" /\ d.mode # "full"
  <2>1. C \o full = (D \o per) \o F
    BY <1>8, <1>12
  <2>2. QED
    BY <1>5, <1>9, <2>1
<1>13. CASE c.mode # "full" /\ d.mode = "full"
  <2>1. D \o full = (C \o per) \o E
    BY <1>8, <1>13
  <2>2. QED
    BY <1>5, <1>9, <2>1
<1>14. QED
  BY <1>10, <1>11, <1>12, <1>13

\* The prefix of a key.
LEMMA PrefixTyped ==
  ASSUME SelectionAssumption, NEW c, c.prefix \in S3Prefixes, NEW a \in Seq(Plain)
  PROVE  TimestampPrefix(c, a) \in Seq(Strings)
<1> DEFINE D == Directory(c.prefix)
           E == EncodeComponent(a)
           per == <<"per-database", "/">>
           slash == <<"/">>
<1>1. D \in Seq(Strings)
  BY DirectoryIsPath DEF SelectionAssumption
<1>2. E \in Seq(Strings)
  <2>1. PICK last \in [0..Len(a) -> Seq(Plain)] : E = last[Len(a)]
    BY EncodeUnfolds
  <2>2. E \in Seq(Plain)
    BY <2>1
  <2>3. QED
    BY <2>2 DEF Plain
<1>3. <<"full", "/">> \in Seq(Strings) /\ per \in Seq(Strings) /\ slash \in Seq(Strings)
  BY DEF Strings
<1> HIDE DEF D, E, per, slash
<1>4. per \o E \in Seq(Strings)
  BY <1>2, <1>3
<1>5. per \o E \o slash \in Seq(Strings)
  BY <1>3, <1>4
<1> DEFINE rest == IF c.mode = "full" THEN <<"full", "/">> ELSE per \o E \o slash
<1>6. rest \in Seq(Strings)
  BY <1>3, <1>5
<1>7. TimestampPrefix(c, a) = D \o rest
  BY Zenon DEF TimestampPrefix, D, E, per, slash
<1> HIDE DEF rest
<1>8. D \o rest \in Seq(Strings)
  BY <1>1, <1>6
<1>9. QED
  BY <1>7, <1>8

Types == {<<".zip">>, <<".zip", ".gpg">>}

\* A key tells its prefix and the time in its name.
LEMMA KeyTells ==
  ASSUME NEW P \in Seq(Strings), NEW Q \in Seq(Strings), NEW x \in Strings, NEW y \in Strings,
         NEW s \in Types, NEW t \in Types, P \o <<x>> \o s = Q \o <<y>> \o t
  PROVE  P = Q /\ x = y
<1> DEFINE p == P \o <<x>>
           q == Q \o <<y>>
<1>1. <<x>> \in Seq(Strings) /\ <<y>> \in Seq(Strings) /\ Len(<<x>>) = Len(<<y>>)
  OBVIOUS
<1>2. p \in Seq(Strings) /\ q \in Seq(Strings)
  BY <1>1
<1> DEFINE zip == <<".zip">>
           gpg == <<".zip", ".gpg">>
<1>3. /\ zip \in Seq(Strings) /\ gpg \in Seq(Strings) /\ zip # <<>> /\ gpg # <<>>
      /\ zip[Len(zip)] # gpg[Len(gpg)]
  <2>1. ".zip" \in Strings /\ ".gpg" \in Strings
    BY DEF Strings
  <2>2. zip \in Seq(Strings) /\ gpg \in Seq(Strings) /\ zip # <<>> /\ gpg # <<>>
    BY <2>1
  <2>3. zip[Len(zip)] = ".zip" /\ gpg[Len(gpg)] = ".gpg"
    OBVIOUS
  <2>4. QED
    BY <2>2, <2>3
<1>4. s \in {zip, gpg} /\ t \in {zip, gpg}
  BY Zenon DEF Types
<1> HIDE DEF zip, gpg
<1>5. ASSUME s # t PROVE s[Len(s)] # t[Len(t)]
  BY <1>3, <1>5, <1>4
<1> HIDE DEF p, q
<1>6. s \in Seq(Strings) /\ t \in Seq(Strings) /\ s # <<>> /\ t # <<>>
  BY <1>3, <1>4
<1>7. (p \o s)[Len(p \o s)] = s[Len(s)] /\ (q \o t)[Len(q \o t)] = t[Len(t)]
  BY <1>2, <1>6, EndsLikeLast
<1>8. p \o s = q \o t
  BY Zenon DEF p, q
<1>9. s = t
  BY <1>5, <1>7, <1>8, Zenon
<1>10. p = q
  BY <1>2, <1>6, <1>8, <1>9, RightCancels
<1> DEFINE v == <<x>>
           w == <<y>>
<1>11. P \o v = Q \o w /\ v \in Seq(Strings) /\ w \in Seq(Strings) /\ Len(v) = Len(w)
  BY <1>1, <1>10 DEF p, q
<1>12. v[1] = x /\ w[1] = y
  OBVIOUS
<1> HIDE DEF v, w
<1>13. P = Q /\ v = w
  <2>1. \A a, b, c, d \in Seq(Strings) : Len(c) = Len(d) /\ a \o c = b \o d => a = b /\ c = d
    BY SplitRight, Zenon
  <2>2. \A c, d \in Seq(Strings) : Len(c) = Len(d) /\ P \o c = Q \o d => P = Q /\ c = d
    BY <2>1, Zenon
  <2>3. QED
    BY <1>11, <2>2, Zenon
<1>14. QED
  BY <1>12, <1>13, Zenon

\* The symbols that no name holds include the "/" (ValidateDatabases).
LEMMA LegalIsPlain ==
  ASSUME NEW n \in Seq(STRING), ValidateDatabases(<<n>>) PROVE n \in Seq(Plain)
<1>1. Range(<<n>>) = {n}
  BY DEF Range
<1>2. Range(n) \cap Forbidden = {}
  BY <1>1, Zenon DEF ValidateDatabases
<1>3. "/" \in Forbidden
  BY Zenon DEF Forbidden
<1>4. Len(n) \in Nat /\ n \in [1..Len(n) -> STRING]
  OBVIOUS
<1>5. \A i \in 1..Len(n) : n[i] \in Range(n) /\ n[i] \in STRING
  BY <1>4 DEF Range
<1>6. \A i \in 1..Len(n) : n[i] \in Plain
  <2>1. TAKE i \in 1..Len(n)
  <2>2. n[i] # "/"
    BY <1>2, <1>3, <1>5
  <2>3. QED
    BY <1>5, <2>2 DEF Plain, Strings
<1>7. QED
  BY <1>4, <1>6

\* An object in the bucket has the key that its writer gave it.
LEMMA OfABackup ==
  \A p \in Backups :
    \E w \in [mode : {"full", "per-database"}, prefix : S3Prefixes,
              filename : {"timestamp", "fixed"}, encrypted : BOOLEAN],
       n \in {n \in Names : ValidateDatabases(<<n>>)} \cup {<<>>}, t \in Stamps :
      p = [c |-> w, db |-> n, key |-> BackupKey(w, n, t)]
<1> DEFINE R == [mode : {"full", "per-database"}, prefix : S3Prefixes,
                 filename : {"timestamp", "fixed"}, encrypted : BOOLEAN]
           N == {n \in Names : ValidateDatabases(<<n>>)} \cup {<<>>}
           S == {[c |-> c, db |-> db, key |-> BackupKey(c, db, t)] :
                   c \in R, db \in N, t \in Stamps}
<1>1. Backups = S
  BY SMT DEF Backups
<1> HIDE DEF R, N
<1>2. \A p \in S : \E w \in R, n \in N, t \in Stamps :
        p = [c |-> w, db |-> n, key |-> BackupKey(w, n, t)]
  OBVIOUS
<1> HIDE DEF S
<1>3. \A p \in Backups : \E w \in R, n \in N, t \in Stamps :
        p = [c |-> w, db |-> n, key |-> BackupKey(w, n, t)]
  BY <1>1, <1>2
<1>4. QED
  BY <1>3, Zenon DEF R, N

\* PrefixTells, for the provers that cannot use it there.
LEMMA PrefixesTell ==
  \A p, q :
    /\ SelectionAssumption /\ PrefixesApart
    /\ p.prefix \in S3Prefixes /\ p.mode \in {"full", "per-database"}
    /\ q.prefix \in S3Prefixes /\ q.mode \in {"full", "per-database"}
    => \A a, b \in Seq(Plain) : TimestampPrefix(p, a) = TimestampPrefix(q, b) =>
         /\ p.mode = q.mode /\ Directory(p.prefix) = Directory(q.prefix)
         /\ p.mode = "per-database" => a = b
BY PrefixTells, Zenon

\* A timestamped key under the prefix of a selected database is a backup of it.
LEMMA DeletesItsOwn ==
  ASSUME SelectionAssumption, PrefixesApart, SelectionTypeOK, Chosen, phase = "selected",
         NEW db \in Range(selected), NEW o \in bucket, IsTimestampBackup(conf, db, o.key)
  PROVE  /\ o.c.mode = conf.mode /\ o.db \in Range(selected) /\ o.c.filename = "timestamp"
         /\ TrimRight(o.c.prefix, "/") = TrimRight(conf.prefix, "/")
<1>1. PICK c \in [mode : {"full", "per-database"}, prefix : S3Prefixes,
                  filename : {"timestamp", "fixed"}, encrypted : BOOLEAN],
           name \in {n \in Names : ValidateDatabases(<<n>>)} \cup {<<>>}, t \in Stamps :
        o = [c |-> c, db |-> name, key |-> BackupKey(c, name, t)]
  <2>1. o \in Backups
    BY DEF SelectionTypeOK, Left
  <2>2. QED
    BY <2>1, OfABackup, Zenon
<1>2. /\ o.c = c /\ o.db = name /\ o.key = BackupKey(c, name, t)
      /\ c.mode \in {"full", "per-database"} /\ c.prefix \in S3Prefixes
      /\ c.filename \in {"timestamp", "fixed"}
  BY <1>1
<1>3. c.mode = "full" <=> name = <<>>
  BY <1>2 DEF SelectionTypeOK, Left
<1>4. conf.mode \in {"full", "per-database"} /\ conf.prefix \in S3Prefixes
  BY DEF SelectionTypeOK, Config
<1>5. name \in Seq(Plain)
  <2>1. CASE name = <<>>
    BY <2>1
  <2>2. CASE name # <<>>
    <3>1. name \in Seq(STRING) /\ ValidateDatabases(<<name>>)
      BY <2>2 DEF SelectionAssumption
    <3>2. QED
      BY <3>1, LegalIsPlain
  <2>3. QED
    BY <2>1, <2>2
<1>6. db \in Seq(Plain) /\ (conf.mode = "full" => db = <<>>)
  <2>1. CASE conf.mode = "full"
    <3>1. selected = <<<<>>>>
      BY <2>1 DEF Chosen
    <3>2. db = <<>>
      BY <3>1 DEF Range
    <3>3. QED
      BY <3>2
  <2>2. CASE conf.mode # "full"
    <3>1. ValidateDatabases(<<db>>) /\ db \in Range(catalog)
      BY <2>2 DEF Chosen
    <3>2. catalog \in Seq(Seq(STRING))
      <4>1. catalog \in Catalogs \/ catalog = <<>>
        BY DEF SelectionTypeOK
      <4>2. Catalogs \subseteq Seq(Seq(STRING))
        BY DEF SelectionAssumption
      <4>3. <<>> \in Seq(Seq(STRING))
        OBVIOUS
      <4>4. QED
        BY <4>1, <4>2, <4>3, Zenon
    <3>3. db \in Seq(STRING)
      BY <3>1, <3>2 DEF Range
    <3>4. QED
      BY <2>2, <3>1, <3>3, LegalIsPlain
  <2>3. QED
    BY <2>1, <2>2
<1> DEFINE P == TimestampPrefix(c, name)
           Q == TimestampPrefix(conf, db)
           x == IF c.filename = "fixed" THEN "latest" ELSE t
<1>7. P \in Seq(Strings) /\ Q \in Seq(Strings)
  BY <1>2, <1>4, <1>5, <1>6, PrefixTyped
<1>8. FileType(c) \in Types /\ o.key = P \o <<x>> \o FileType(c)
  <2>1. FileType(c) \in Types
    BY Zenon DEF FileType, Types
  <2>2. CASE c.filename = "fixed"
    <3>1. x = "latest"
      BY <2>2
    <3>2. BackupKey(c, name, t) = P \o <<"latest">> \o FileType(c)
      BY <2>2, Zenon DEF BackupKey, FixedKey
    <3>3. QED
      BY <1>2, <2>1, <3>1, <3>2, Zenon
  <2>3. CASE c.filename # "fixed"
    <3>1. x = t
      BY <2>3
    <3>2. BackupKey(c, name, t) = P \o <<t>> \o FileType(c)
      BY <2>3, Zenon DEF BackupKey
    <3>3. QED
      BY <1>2, <2>1, <3>1, <3>2, Zenon
  <2>4. QED
    BY <2>2, <2>3
<1>9. PICK u \in Stamps, type \in Types : o.key = Q \o <<u>> \o type
  BY Zenon DEF IsTimestampBackup, Types
<1>10. u \in Strings /\ u # "latest" /\ x \in Strings
  BY DEF SelectionAssumption, Strings
<1>11. P = Q /\ x = u
  <2> HIDE DEF P, Q, x
  <2>1. P \o <<x>> \o FileType(c) = Q \o <<u>> \o type
    BY <1>8, <1>9, Zenon
  <2>2. \A X, Y \in Seq(Strings), v, w \in Strings, r, s \in Types :
          X \o <<v>> \o r = Y \o <<w>> \o s => X = Y /\ v = w
    BY KeyTells, Zenon
  <2>3. \A v, w \in Strings, r, s \in Types :
          P \o <<v>> \o r = Q \o <<w>> \o s => P = Q /\ v = w
    BY <1>7, <2>2, Zenon
  <2>4. P \o <<x>> \o FileType(c) = Q \o <<u>> \o type => P = Q /\ x = u
    BY <1>8, <1>10, <2>3, Zenon
  <2>5. QED
    BY <2>1, <2>4, Zenon
<1>12. c.filename = "timestamp"
  BY <1>2, <1>10, <1>11
<1>13. /\ c.mode = conf.mode /\ Directory(c.prefix) = Directory(conf.prefix)
       /\ c.mode = "per-database" => name = db
  <2>1. TimestampPrefix(c, name) = TimestampPrefix(conf, db)
    BY <1>11
  <2>2. /\ c.prefix \in S3Prefixes /\ c.mode \in {"full", "per-database"}
        /\ conf.prefix \in S3Prefixes /\ conf.mode \in {"full", "per-database"}
    BY <1>2, <1>4
  <2>3. QED
    <3>1. \A a, b \in Seq(Plain) : TimestampPrefix(c, a) = TimestampPrefix(conf, b) =>
            /\ c.mode = conf.mode /\ Directory(c.prefix) = Directory(conf.prefix)
            /\ c.mode = "per-database" => a = b
      BY <2>2, PrefixesTell, Zenon
    <3>2. QED
      BY <1>5, <1>6, <2>1, <3>1, Zenon
<1>14. TrimRight(c.prefix, "/") = TrimRight(conf.prefix, "/")
  <2>1. c.prefix \in Seq(STRING) /\ conf.prefix \in Seq(STRING)
    BY <1>2, <1>4 DEF SelectionAssumption
  <2>2. QED
    BY <1>13, <2>1, DirectoryTells, Zenon
<1>15. name = db
  BY <1>2, <1>3, <1>6, <1>13
<1>16. QED
  BY <1>2, <1>12, <1>13, <1>14, <1>15, Zenon

\* Retention deletes what the configuration has backed up before, of any
\* other mode, prefix or database nothing (RetentionIsScoped; removeOldBackups).
THEOREM RetentionDeletesItsOwn ==
  ASSUME SelectionAssumption, PrefixesApart PROVE Spec => RetentionIsScoped
<1> DEFINE A == \A o \in bucket \ bucket' :
                  /\ o.c.mode = conf.mode /\ o.db \in Range(selected) /\ o.c.filename = "timestamp"
                  /\ TrimRight(o.c.prefix, "/") = TrimRight(conf.prefix, "/")
<1>1. SelectionTypeOK /\ Chosen /\ [Next]_vars => A
  <2> SUFFICES ASSUME SelectionTypeOK, Chosen, [Next]_vars PROVE A
    OBVIOUS
  <2>1. ASSUME bucket' = bucket PROVE A
    BY <2>1
  <2>2. ASSUME NEW db \in Range(selected), RemoveOldBackups(db) PROVE A
    <3>1. phase = "selected" /\ bucket' = {o \in bucket : ~IsTimestampBackup(conf, db, o.key)}
      BY <2>2 DEF RemoveOldBackups
    <3>2. \A o \in bucket \ bucket' : o \in bucket /\ IsTimestampBackup(conf, db, o.key)
      BY <3>1
    <3>3. QED
      BY <3>1, <3>2, DeletesItsOwn
  <2>3. CASE ValidateBackup
    BY <2>1, <2>3 DEF ValidateBackup
  <2>4. ASSUME NEW all \in Catalogs, Select(all) PROVE A
    BY <2>1, <2>4 DEF Select
  <2>5. CASE UNCHANGED vars
    BY <2>1, <2>5 DEF vars
  <2> HIDE DEF A
  <2>6. QED
    BY <2>2, <2>3, <2>4, <2>5 DEF Next, Done
<1>2. QED
  BY <1>1, SelectionTyped, AlwaysChosen, PTL DEF Spec, RetentionIsScoped
=============================================================================
