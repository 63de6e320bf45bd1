--------------------------- MODULE IdentityProofs ---------------------------
(***************************************************************************)
(* Proofs about module Identity.  Pre-images and content addresses are     *)
(* texts that are folded, framed and sorted, so what holds of texts, of    *)
(* frames and of sorting comes first: it is used here and in KernelProofs. *)
(***************************************************************************)
EXTENDS Identity, Provenance, WellFoundedInduction, TLAPS

Less == {nn \in Nat \X Nat : nn[1] < nn[2]}

\* The natural numbers are well ordered.
LEMMA LessIsWellFounded == IsWellFoundedOn(Less, Nat)
BY NatLessThanWellFounded DEF OpToRel, Less

\* A set of positions that is not empty has a first.
LEMMA LeastNatural ==
  ASSUME NEW T \in SUBSET Nat, T # {}
  PROVE  \E x \in T : \A y \in T : x <= y
<1>1. PICK x \in T : \A y \in T : ~ (<<y, x>> \in Less)
  BY LessIsWellFounded, WFMin, Zenon
<1>2. ASSUME NEW y \in T PROVE ~(y < x)
  <2>1. <<y, x>> \notin Less
    BY <1>1
  <2>2. QED
    BY <2>1 DEF Less
<1>3. QED
  BY <1>2

\* Induction, over a set: it holds every number when it holds 0 and goes on.
LEMMA Induction ==
  ASSUME NEW S, 0 \in S, \A n \in Nat : n \in S => n + 1 \in S
  PROVE  \A n \in Nat : n \in S
<1> SUFFICES ASSUME {n \in Nat : n \notin S} # {} PROVE FALSE
  OBVIOUS
<1> DEFINE T == {n \in Nat : n \notin S}
<1>1. PICK x \in T : \A y \in T : x <= y
  BY LeastNatural
<1>2. x # 0 /\ x \in Nat
  OBVIOUS
<1>3. x - 1 \in Nat /\ x - 1 \notin T
  BY <1>1, <1>2
<1>4. x - 1 \in S
  BY <1>3
<1>5. QED
  BY <1>1, <1>2, <1>3, <1>4

\* Induction up to a bound.
LEMMA BoundedInduction ==
  ASSUME NEW m \in Nat, NEW S, 0 \in S, \A i \in 1..m : i - 1 \in S => i \in S
  PROVE  \A i \in 0..m : i \in S
<1> DEFINE T == {n \in Nat : n <= m => n \in S}
<1>1. 0 \in T
  OBVIOUS
<1>2. ASSUME NEW n \in Nat, n \in T PROVE n + 1 \in T
  <2>1. CASE n + 1 <= m
    <3>1. n + 1 \in 1..m /\ (n + 1) - 1 = n
      BY <2>1
    <3>2. n \in S
      BY <1>2, <2>1
    <3>3. QED
      BY <3>1, <3>2
  <2>2. CASE ~(n + 1 <= m)
    BY <2>2
  <2>3. QED
    BY <2>1, <2>2
<1> HIDE DEF T
<1>3. \A n \in Nat : n \in T
  BY <1>1, <1>2, Induction
<1>4. QED
  BY <1>3 DEF T

\* A function goes from a value on, by a step at every position.
Goes(f, m, S, base, step) ==
  /\ f \in [0..m -> S]
  /\ f[0] = base
  /\ \A i \in 1..m : f[i] = step[i][f[i - 1]]

\* Recursion over positions: there is such a function.
LEMMA Recursion ==
  ASSUME NEW m \in Nat, NEW S, NEW base \in S, NEW step \in [1..m -> [S -> S]]
  PROVE  \E f : Goes(f, m, S, base, step)
<1> DEFINE F(f, n) == f[0] = base /\ \A i \in 1..n : f[i] = step[i][f[i - 1]]
           T == {n \in Nat : \E f \in [0..n -> S] : F(f, n)}
<1>1. 0 \in T
  <2> DEFINE f == [i \in 0..0 |-> base]
  <2>1. f \in [0..0 -> S] /\ F(f, 0)
    OBVIOUS
  <2>2. QED
    BY <2>1
<1>2. ASSUME NEW n \in 1..m, n - 1 \in T PROVE n \in T
  <2>1. PICK f \in [0..n - 1 -> S] : F(f, n - 1)
    BY <1>2
  <2> DEFINE g == [i \in 0..n |-> IF i = n THEN step[n][f[n - 1]] ELSE f[i]]
  <2>2. step[n][f[n - 1]] \in S
    OBVIOUS
  <2>3. g \in [0..n -> S]
    BY <2>2
  <2>4. \A i \in 0..n - 1 : g[i] = f[i]
    OBVIOUS
  <2>5. g[n] = step[n][f[n - 1]]
    OBVIOUS
  <2> HIDE DEF g
  <2>6. F(g, n)
    <3>1. g[0] = base
      BY <2>1, <2>4
    <3>2. ASSUME NEW i \in 1..n PROVE g[i] = step[i][g[i - 1]]
      <4>1. CASE i = n
        BY <2>4, <2>5, <4>1
      <4>2. CASE i # n
        BY <2>1, <2>4, <4>2
      <4>3. QED
        BY <4>1, <4>2
    <3>3. QED
      BY <3>1, <3>2
  <2>7. QED
    BY <2>3, <2>6
<1> HIDE DEF T
<1>3. \A n \in 0..m : n \in T
  BY <1>1, <1>2, BoundedInduction
<1>4. m \in T
  BY <1>3
<1>5. QED
  BY <1>4 DEF T, Goes

-----------------------------------------------------------------------------
(* Texts *)

\* What joining texts does, position by position.
LEMMA Join ==
  ASSUME NEW s \in Text, NEW t \in Text
  PROVE  /\ s \o t \in Text
         /\ Len(s \o t) = Len(s) + Len(t)
         /\ \A i \in 1..Len(s) : (s \o t)[i] = s[i]
         /\ \A i \in 1..Len(t) : (s \o t)[Len(s) + i] = t[i]
BY DEF Text

\* Texts of one length with the same characters are one text.
LEMMA SameText ==
  ASSUME NEW s \in Text, NEW t \in Text, Len(s) = Len(t), \A i \in 1..Len(s) : s[i] = t[i]
  PROVE  s = t
BY DEF Text

-----------------------------------------------------------------------------
(* Framing *)

\* Written is what its definition says, part by part, and all of it is text.
LEMMA WrittenSteps ==
  ASSUME NEW parts \in Seq(Text)
  PROVE  /\ Written(parts) \in [0..Len(parts) -> Text]
         /\ Written(parts)[0] = <<>>
         /\ \A i \in 1..Len(parts) :
              Written(parts)[i] = Written(parts)[i - 1] \o <<Len(parts[i])>> \o parts[i]
<1> DEFINE m == Len(parts)
           Next(x, i) == x \o <<Len(parts[i])>> \o parts[i]
           step == [i \in 1..m |-> [x \in Text |-> Next(x, i)]]
           w == Written(parts)
<1>1. m \in Nat /\ <<>> \in Text
  BY DEF Text
<1>2. ASSUME NEW x \in Text, NEW i \in 1..m PROVE Next(x, i) \in Text
  <2>1. parts[i] \in Text /\ <<Len(parts[i])>> \in Text
    BY DEF Text
  <2>2. QED
    BY <2>1, Join
<1>3. \E b : b = [i \in 0..m |-> IF i = 0 THEN <<>> ELSE Next(b[i - 1], i)]
  <2> HIDE DEF Next, m
  <2>1. step \in [1..m -> [Text -> Text]]
    BY <1>2
  <2> HIDE DEF step
  <2>2. PICK f : Goes(f, m, Text, <<>>, step)
    BY <1>1, <2>1, Recursion
  <2>3. /\ f \in [0..m -> Text] /\ f[0] = <<>>
        /\ \A i \in 1..m : f[i] = step[i][f[i - 1]]
    BY <2>2 DEF Goes
  <2>4. ASSUME NEW i \in 0..m PROVE f[i] = IF i = 0 THEN <<>> ELSE Next(f[i - 1], i)
    <3>1. CASE i = 0
      BY <2>3, <3>1
    <3>2. CASE i # 0
      <4>1. i \in 1..m /\ f[i - 1] \in Text
        BY <1>1, <2>3, <3>2
      <4>2. step[i][f[i - 1]] = Next(f[i - 1], i)
        BY <4>1 DEF step
      <4>3. QED
        BY <2>3, <3>2, <4>1, <4>2
    <3>3. QED
      BY <3>1, <3>2
  <2>5. f = [i \in 0..m |-> IF i = 0 THEN <<>> ELSE Next(f[i - 1], i)]
    BY <2>3, <2>4
  <2>6. QED
    BY <2>5
<1>4. w = [i \in 0..m |-> IF i = 0 THEN <<>> ELSE Next(w[i - 1], i)]
  BY <1>3, Zenon DEF Written
<1> HIDE DEF w, Next, m
<1>5. w[0] = <<>> /\ \A i \in 1..m : w[i] = Next(w[i - 1], i)
  BY <1>1, <1>4
<1>6. \A i \in 0..m : w[i] \in Text
  <2> DEFINE T == {i \in 0..m : w[i] \in Text}
  <2>1. 0 \in T /\ \A i \in 1..m : i - 1 \in T => i \in T
    BY <1>1, <1>2, <1>5
  <2> HIDE DEF T
  <2>2. \A i \in 0..m : i \in T
    BY <1>1, <2>1, BoundedInduction
  <2>3. QED
    BY <2>2 DEF T
<1>7. w \in [0..m -> Text]
  BY <1>4, <1>6
<1>8. QED
  BY <1>5, <1>7 DEF w, Next, m

\* What has been written stays: after more parts it is longer, and begins with
\* what was written before.
LEMMA WrittenGrows ==
  ASSUME NEW parts \in Seq(Text), NEW j \in 0..Len(parts)
  PROVE  \A i \in 0..j :
           /\ i < j => Len(Written(parts)[i]) < Len(Written(parts)[j])
           /\ Len(Written(parts)[i]) <= Len(Written(parts)[j])
           /\ \A k \in 1..Len(Written(parts)[i]) : Written(parts)[j][k] = Written(parts)[i][k]
<1> DEFINE m == Len(parts)
           w == Written(parts)
           Begins(i, n) == /\ i < n => Len(w[i]) < Len(w[n])
                           /\ Len(w[i]) <= Len(w[n])
                           /\ \A k \in 1..Len(w[i]) : w[n][k] = w[i][k]
           T == {n \in 0..m : \A i \in 0..n : Begins(i, n)}
<1>0. m \in Nat
  OBVIOUS
<1>1. /\ w \in [0..m -> Text]
      /\ \A i \in 1..m : w[i] = w[i - 1] \o <<Len(parts[i])>> \o parts[i]
  BY WrittenSteps, Zenon
<1>2. \A i \in 1..m : parts[i] \in Text /\ Len(parts[i]) \in Nat
  BY DEF Text
<1> HIDE DEF m, w
<1>3. ASSUME NEW i \in 0..m PROVE w[i] \in Text /\ Len(w[i]) \in Nat
  <2>1. w[i] \in Text
    BY <1>1
  <2>2. QED
    BY <2>1 DEF Text
<1>4. ASSUME NEW n \in 1..m
      PROVE  /\ Len(w[n]) = Len(w[n - 1]) + 1 + Len(parts[n])
             /\ \A k \in 1..Len(w[n - 1]) : w[n][k] = w[n - 1][k]
  <2> DEFINE a == w[n - 1]
             b == <<Len(parts[n])>>
             c == parts[n]
             ab == a \o b
  <2>0. n - 1 \in 0..m
    BY <1>0
  <2>1. a \in Text /\ Len(a) \in Nat /\ c \in Text /\ Len(c) \in Nat
    BY <1>2, <1>3, <2>0
  <2>2. b \in Text /\ Len(b) = 1
    BY <2>1 DEF Text
  <2>3. w[n] = ab \o c
    BY <1>1, Zenon
  <2> HIDE DEF a, b, c
  <2>4. /\ ab \in Text /\ Len(ab) = Len(a) + Len(b)
        /\ \A i \in 1..Len(a) : ab[i] = a[i]
    BY <2>1, <2>2, Join, Zenon
  <2> HIDE DEF ab
  <2>5. /\ Len(ab \o c) = Len(ab) + Len(c)
        /\ \A i \in 1..Len(ab) : (ab \o c)[i] = ab[i]
    BY <2>1, <2>4, Join, Zenon
  <2>6. /\ Len(w[n]) = Len(a) + 1 + Len(c)
        /\ \A k \in 1..Len(a) : w[n][k] = a[k]
    BY <2>1, <2>2, <2>3, <2>4, <2>5
  <2>7. QED
    BY <2>6 DEF a, c
<1>5. 0 \in T
  <2>1. 0 \in 0..m /\ 0..0 = {0} /\ ~(0 < 0)
    BY <1>0
  <2>2. Len(w[0]) <= Len(w[0])
    BY <1>3, <2>1
  <2>3. QED
    BY <2>1, <2>2, Zenon
<1>6. ASSUME NEW n \in 1..m, n - 1 \in T PROVE n \in T
  <2> SUFFICES ASSUME NEW i \in 0..n PROVE Begins(i, n)
    BY <1>0
  <2>1. CASE i = n
    BY <1>3, <2>1
  <2>2. CASE i # n
    <3>1. i \in 0..n - 1 /\ i \in 0..m /\ n - 1 \in 0..m
      BY <1>0, <2>2
    <3>2. Begins(i, n - 1)
      BY <1>6, <3>1
    <3>3. Len(w[i]) \in Nat /\ Len(w[n - 1]) \in Nat /\ Len(parts[n]) \in Nat
      BY <1>2, <1>3, <3>1
    <3>4. Len(w[i]) < Len(w[n])
      <4>1. Len(w[n]) = Len(w[n - 1]) + 1 + Len(parts[n])
        BY <1>4
      <4>2. Len(w[i]) <= Len(w[n - 1])
        BY <3>2
      <4> DEFINE x == Len(w[i])
                 y == Len(w[n - 1])
                 u == Len(parts[n])
      <4>3. x \in Nat /\ y \in Nat /\ u \in Nat /\ x <= y
        BY <3>3, <4>2
      <4> HIDE DEF x, y, u
      <4>4. x < y + 1 + u
        BY <4>3
      <4>5. QED
        BY <4>1, <4>4 DEF x, y, u
    <3>5. ASSUME NEW k \in 1..Len(w[i]) PROVE w[n][k] = w[i][k]
      <4>1. k \in 1..Len(w[n - 1])
        BY <3>2, <3>3
      <4>2. QED
        BY <1>4, <3>2, <4>1
    <3>6. Len(w[n]) \in Nat
      BY <1>1, <1>3
    <3>7. QED
      BY <3>3, <3>4, <3>5, <3>6
  <2>3. QED
    BY <2>1, <2>2
<1> HIDE DEF T
<1>7. \A n \in 0..m : n \in T
  BY <1>0, <1>5, <1>6, BoundedInduction
<1>8. j \in T
  BY <1>7 DEF m
<1>9. QED
  BY <1>8 DEF T, w

\* The next part of what is written, given where it starts.
LEMMA NextPart ==
  ASSUME NEW parts \in Seq(Text), NEW n \in 1..Len(parts)
  PROVE  LET w == Written(parts)
             l == Len(w[n - 1])
         IN  /\ w[n - 1] \in Text /\ w[n] \in Text /\ parts[n] \in Text /\ l \in Nat
             /\ Len(w[n]) = l + 1 + Len(parts[n])
             /\ w[n][l + 1] = Len(parts[n])
             /\ \A k \in 1..Len(parts[n]) : w[n][l + 1 + k] = parts[n][k]
<1> DEFINE w == Written(parts)
           a == w[n - 1]
           b == <<Len(parts[n])>>
           c == parts[n]
           ab == a \o b
<1>1. /\ w \in [0..Len(parts) -> Text]
      /\ \A i \in 1..Len(parts) : w[i] = w[i - 1] \o <<Len(parts[i])>> \o parts[i]
  BY WrittenSteps, Zenon
<1>2. c \in Text /\ n \in 0..Len(parts) /\ n - 1 \in 0..Len(parts)
  OBVIOUS
<1> HIDE DEF w
<1>3. a \in Text /\ w[n] \in Text
  BY <1>1, <1>2
<1>4. w[n] = ab \o c
  BY <1>1, Zenon
<1>5. b \in Text /\ Len(b) = 1 /\ b[1] = Len(c)
  BY <1>2 DEF Text
<1> HIDE DEF a, b, c
<1>6. Len(a) \in Nat /\ Len(c) \in Nat
  BY <1>2, <1>3 DEF Text
<1>7. /\ ab \in Text /\ Len(ab) = Len(a) + Len(b)
      /\ \A i \in 1..Len(b) : ab[Len(a) + i] = b[i]
  BY <1>3, <1>5, Join, Zenon
<1> HIDE DEF ab
<1>8. /\ Len(ab \o c) = Len(ab) + Len(c)
      /\ \A i \in 1..Len(ab) : (ab \o c)[i] = ab[i]
      /\ \A i \in 1..Len(c) : (ab \o c)[Len(ab) + i] = c[i]
  BY <1>2, <1>7, Join, Zenon
<1>9. Len(w[n]) = Len(a) + 1 + Len(c) /\ w[n][Len(a) + 1] = Len(c)
  BY <1>4, <1>5, <1>6, <1>7, <1>8
<1>10. \A k \in 1..Len(c) : w[n][Len(a) + 1 + k] = c[k]
  BY <1>4, <1>5, <1>6, <1>7, <1>8
<1>11. QED
  BY <1>2, <1>3, <1>6, <1>9, <1>10 DEF a, c, w

\* What is written says what the parts were: nothing is lost, and no part can be
\* taken for two or two for one.
LEMMA WrittenOnce ==
  ASSUME NEW p \in Seq(Text), NEW q \in Seq(Text),
         Written(p)[Len(p)] = Written(q)[Len(q)]
  PROVE  p = q
<1> DEFINE w == Written(p)
           z == Written(q)
           m == Len(p)
           n == Len(q)
           least == IF m <= n THEN m ELSE n
           Agree(i) == w[i] = z[i] /\ \A k \in 1..i : p[k] = q[k]
           T == {i \in 0..least : Agree(i)}
<1>0. w[0] = <<>> /\ z[0] = <<>>
  BY WrittenSteps, Zenon
<1>1. m \in Nat /\ n \in Nat /\ w[0] = z[0]
  BY <1>0
<1>2. least \in Nat /\ least <= m /\ least <= n /\ (least = m \/ least = n)
  BY <1>1
<1>3. /\ \A i \in 0..m : /\ i < m => Len(w[i]) < Len(w[m])
                         /\ Len(w[i]) <= Len(w[m])
                         /\ \A k \in 1..Len(w[i]) : w[m][k] = w[i][k]
      /\ \A i \in 0..n : /\ i < n => Len(z[i]) < Len(z[n])
                         /\ Len(z[i]) <= Len(z[n])
                         /\ \A k \in 1..Len(z[i]) : z[n][k] = z[i][k]
  <2>1. m \in 0..m /\ n \in 0..n
    BY <1>1
  <2>2. QED
    BY <2>1, WrittenGrows, Zenon
<1>4. w[m] = z[n]
  OBVIOUS
<1>5. ASSUME NEW i \in 1..m
      PROVE  /\ w[i - 1] \in Text /\ w[i] \in Text /\ p[i] \in Text /\ Len(w[i - 1]) \in Nat
             /\ Len(w[i]) = Len(w[i - 1]) + 1 + Len(p[i])
             /\ w[i][Len(w[i - 1]) + 1] = Len(p[i])
             /\ \A k \in 1..Len(p[i]) : w[i][Len(w[i - 1]) + 1 + k] = p[i][k]
  BY NextPart
<1>6. ASSUME NEW i \in 1..n
      PROVE  /\ z[i - 1] \in Text /\ z[i] \in Text /\ q[i] \in Text /\ Len(z[i - 1]) \in Nat
             /\ Len(z[i]) = Len(z[i - 1]) + 1 + Len(q[i])
             /\ z[i][Len(z[i - 1]) + 1] = Len(q[i])
             /\ \A k \in 1..Len(q[i]) : z[i][Len(z[i - 1]) + 1 + k] = q[i][k]
  BY NextPart
<1> HIDE DEF w, z, m, n, least
<1>7. 0 \in T
  BY <1>1, <1>2
<1>8. ASSUME NEW i \in 1..least, i - 1 \in T PROVE i \in T
  <2> DEFINE l == Len(w[i - 1])
  <2>1. i \in 1..m /\ i \in 1..n /\ i \in 0..m /\ i \in 0..n /\ i \in 0..least
    BY <1>1, <1>2
  <2>2. w[i - 1] = z[i - 1] /\ \A k \in 1..i - 1 : p[k] = q[k]
    BY <1>8
  <2>3. /\ w[i] \in Text /\ p[i] \in Text /\ l \in Nat
        /\ Len(w[i]) = l + 1 + Len(p[i]) /\ w[i][l + 1] = Len(p[i])
        /\ \A k \in 1..Len(p[i]) : w[i][l + 1 + k] = p[i][k]
    BY <1>5, <2>1
  <2>4. /\ z[i] \in Text /\ q[i] \in Text
        /\ Len(z[i]) = l + 1 + Len(q[i]) /\ z[i][l + 1] = Len(q[i])
        /\ \A k \in 1..Len(q[i]) : z[i][l + 1 + k] = q[i][k]
    BY <1>6, <2>1, <2>2
  <2>5. Len(p[i]) \in Nat /\ Len(q[i]) \in Nat
    <3>1. p[i] \in Text /\ q[i] \in Text
      BY <2>3, <2>4
    <3>2. QED
      BY <3>1 DEF Text
  <2>6. /\ \A k \in 1..Len(w[i]) : w[m][k] = w[i][k]
        /\ \A k \in 1..Len(z[i]) : w[m][k] = z[i][k]
    BY <1>3, <1>4, <2>1
  <2> HIDE DEF l
  <2>7. Len(p[i]) = Len(q[i])
    <3>1. l \in Nat /\ Len(w[i]) = l + 1 + Len(p[i]) /\ Len(z[i]) = l + 1 + Len(q[i])
      BY <2>3, <2>4
    <3>2. l + 1 \in 1..Len(w[i]) /\ l + 1 \in 1..Len(z[i])
      <4> DEFINE x == Len(p[i])
                 y == Len(q[i])
      <4>1. x \in Nat /\ y \in Nat
        BY <2>5
      <4> HIDE DEF x, y
      <4>2. l + 1 \in 1..l + 1 + x /\ l + 1 \in 1..l + 1 + y
        BY <3>1, <4>1
      <4>3. QED
        BY <3>1, <4>2 DEF x, y
    <3>3. QED
      BY <2>3, <2>4, <2>6, <3>2
  <2>8. ASSUME NEW k \in 1..Len(p[i]) PROVE p[i][k] = q[i][k]
    <3>1. l + 1 + k \in 1..Len(w[i]) /\ l + 1 + k \in 1..Len(z[i])
      BY <2>3, <2>4, <2>5, <2>7
    <3>2. w[i][l + 1 + k] = p[i][k] /\ z[i][l + 1 + k] = q[i][k]
      BY <2>3, <2>4, <2>7
    <3>3. QED
      BY <2>6, <3>1, <3>2
  <2>9. p[i] = q[i]
    BY <2>3, <2>4, <2>7, <2>8, SameText
  <2>10. w[i] = z[i]
    <3>1. Len(w[i]) = Len(z[i])
      BY <2>3, <2>4, <2>7
    <3>2. \A k \in 1..Len(w[i]) : w[i][k] = z[i][k]
      BY <2>6, <3>1
    <3>3. QED
      BY <2>3, <2>4, <3>1, <3>2, SameText
  <2>11. \A k \in 1..i : p[k] = q[k]
    <3> SUFFICES ASSUME NEW k \in 1..i PROVE p[k] = q[k]
      OBVIOUS
    <3>1. CASE k = i
      BY <2>9, <3>1
    <3>2. CASE k # i
      BY <2>2, <3>2
    <3>3. QED
      BY <3>1, <3>2
  <2>12. QED
    BY <2>1, <2>10, <2>11
<1> HIDE DEF T
<1>9. \A i \in 0..least : i \in T
  BY <1>2, <1>7, <1>8, BoundedInduction
<1>10. Agree(least)
  <2>1. least \in T
    BY <1>2, <1>9
  <2>2. QED
    BY <2>1 DEF T
<1>11. m = n
  <2>1. least \in 0..m /\ least \in 0..n
    BY <1>1, <1>2
  <2>2. CASE m < n
    <3>1. least = m /\ m \in 0..n
      BY <1>1, <1>2, <2>2
    <3>2. z[m] = z[n]
      BY <1>4, <1>10, <3>1
    <3>3. Len(z[m]) < Len(z[n])
      BY <1>3, <2>2, <3>1
    <3>4. Len(z[n]) \in Int
      <4>1. n \in 1..n
        BY <1>1, <2>2
      <4>2. z[n] \in Text
        BY <1>6, <4>1
      <4>3. QED
        BY <4>2 DEF Text
    <3>5. QED
      BY <3>2, <3>3, <3>4
  <2>3. CASE n < m
    <3>1. least = n /\ n \in 0..m
      BY <1>1, <1>2, <2>3
    <3>2. w[n] = w[m]
      BY <1>4, <1>10, <3>1
    <3>3. Len(w[n]) < Len(w[m])
      BY <1>3, <2>3, <3>1
    <3>4. Len(w[m]) \in Int
      <4>1. m \in 1..m
        BY <1>1, <2>3
      <4>2. w[m] \in Text
        BY <1>5, <4>1
      <4>3. QED
        BY <4>2 DEF Text
    <3>5. QED
      BY <3>2, <3>3, <3>4
  <2>4. QED
    BY <1>1, <2>2, <2>3
<1>12. Len(p) = Len(q) /\ \A k \in 1..Len(p) : p[k] = q[k]
  BY <1>2, <1>10, <1>11 DEF m, n
<1>13. QED
  BY <1>12

\* A frame is text, and says what its tag and its components were.
LEMMA FrameIsText ==
  ASSUME NEW tag \in Text, NEW c \in Seq(Text)
  PROVE  Frame(tag, c) \in Text
<1> DEFINE p == <<tag>> \o c
<1>1. p \in Seq(Text) /\ Len(p) = Len(c) + 1 /\ Len(c) \in Nat
  OBVIOUS
<1> HIDE DEF p
<1>2. Written(p) \in [0..Len(p) -> Text]
  BY <1>1, WrittenSteps, Zenon
<1>3. Len(c) + 1 \in 0..Len(p)
  BY <1>1
<1>4. QED
  BY <1>2, <1>3 DEF Frame, p

\* A frame is written from one tag and one list of components.
LEMMA FrameOnce ==
  ASSUME NEW t \in Text, NEW c \in Seq(Text), NEW u \in Text, NEW d \in Seq(Text),
         Frame(t, c) = Frame(u, d)
  PROVE  t = u /\ c = d
<1> DEFINE p == <<t>> \o c
           q == <<u>> \o d
<1>1. /\ p \in Seq(Text) /\ Len(p) = Len(c) + 1 /\ Len(c) \in Nat /\ p[1] = t
      /\ \A i \in 1..Len(c) : p[i + 1] = c[i]
  OBVIOUS
<1>2. /\ q \in Seq(Text) /\ Len(q) = Len(d) + 1 /\ Len(d) \in Nat /\ q[1] = u
      /\ \A i \in 1..Len(d) : q[i + 1] = d[i]
  OBVIOUS
<1>3. Written(p)[Len(c) + 1] = Written(q)[Len(d) + 1]
  BY DEF Frame
<1> HIDE DEF p, q
<1>4. p = q
  BY <1>1, <1>2, <1>3, WrittenOnce
<1>5. Len(c) = Len(d) /\ \A i \in 1..Len(c) : c[i] = d[i]
  BY <1>1, <1>2, <1>4
<1>6. QED
  BY <1>1, <1>2, <1>4, <1>5

-----------------------------------------------------------------------------
(* Byte order *)

\* A text is not below one that is below it.
LEMMA OrderAsymmetric ==
  ASSUME NEW s \in Text, NEW t \in Text, TextLess(s, t)
  PROVE  ~TextLess(t, s)
<1> SUFFICES ASSUME TextLess(t, s) PROVE FALSE
  OBVIOUS
<1>1. /\ DOMAIN s = 1..Len(s) /\ DOMAIN t = 1..Len(t) /\ Len(s) \in Nat /\ Len(t) \in Nat
      /\ \A i \in DOMAIN s : s[i] \in Nat
      /\ \A i \in DOMAIN t : t[i] \in Nat
  BY DEF Text
<1>2. PICK n \in DOMAIN t : /\ \A i \in 1..n - 1 : i \in DOMAIN s /\ s[i] = t[i]
                            /\ n \in DOMAIN s => s[n] < t[n]
  BY DEF TextLess
<1>3. PICK k \in DOMAIN s : /\ \A i \in 1..k - 1 : i \in DOMAIN t /\ t[i] = s[i]
                            /\ k \in DOMAIN t => t[k] < s[k]
  BY DEF TextLess
<1> DEFINE a == Len(s)
           b == Len(t)
<1>4. n \in 1..b /\ k \in 1..a /\ a \in Nat /\ b \in Nat
  BY <1>1
<1> HIDE DEF a, b
<1>5. n \in Nat /\ k \in Nat
  BY <1>4
<1>6. CASE n < k
  <2>1. n \in 1..k - 1 /\ n \in 1..a
    BY <1>4, <1>6
  <2>2. s[n] = t[n] /\ s[n] < t[n] /\ s[n] \in Nat
    BY <1>1, <1>2, <1>3, <2>1 DEF a
  <2>3. QED
    BY <2>2
<1>7. CASE k < n
  <2>1. k \in 1..n - 1 /\ k \in 1..b
    BY <1>4, <1>7
  <2>2. s[k] = t[k] /\ t[k] < s[k] /\ s[k] \in Nat
    BY <1>1, <1>2, <1>3, <2>1 DEF b
  <2>3. QED
    BY <2>2
<1>8. CASE k = n
  <2>1. s[k] < t[k] /\ t[k] < s[k] /\ s[k] \in Nat /\ t[k] \in Nat
    BY <1>1, <1>2, <1>3, <1>8
  <2>2. QED
    BY <2>1
<1>9. QED
  BY <1>5, <1>6, <1>7, <1>8

\* Below what is below is below.
LEMMA OrderTransitive ==
  ASSUME NEW s \in Text, NEW t \in Text, NEW u \in Text, TextLess(s, t), TextLess(t, u)
  PROVE  TextLess(s, u)
<1>1. /\ DOMAIN s = 1..Len(s) /\ DOMAIN t = 1..Len(t) /\ DOMAIN u = 1..Len(u)
      /\ \A i \in DOMAIN s : s[i] \in Nat
      /\ \A i \in DOMAIN t : t[i] \in Nat
      /\ \A i \in DOMAIN u : u[i] \in Nat
  BY DEF Text
<1>2. PICK n \in DOMAIN t : /\ \A i \in 1..n - 1 : i \in DOMAIN s /\ s[i] = t[i]
                            /\ n \in DOMAIN s => s[n] < t[n]
  BY DEF TextLess
<1>3. PICK k \in DOMAIN u : /\ \A i \in 1..k - 1 : i \in DOMAIN t /\ t[i] = u[i]
                            /\ k \in DOMAIN t => t[k] < u[k]
  BY DEF TextLess
<1> DEFINE a == Len(s)
           b == Len(t)
           c == Len(u)
<1>4. n \in 1..b /\ k \in 1..c /\ a \in Nat /\ b \in Nat /\ c \in Nat
  BY <1>1 DEF Text
<1> HIDE DEF a, b, c
<1>5. n \in Nat /\ k \in Nat
  BY <1>4
<1>6. CASE n < k
  <2>1. n \in 1..k - 1 /\ n \in 1..c /\ \A i \in 1..n - 1 : i \in 1..k - 1
    BY <1>4, <1>6
  <2>2. /\ n \in DOMAIN u
        /\ \A i \in 1..n - 1 : i \in DOMAIN s /\ s[i] = u[i]
        /\ n \in DOMAIN s => s[n] < u[n]
    BY <1>1, <1>2, <1>3, <2>1 DEF c
  <2>3. QED
    BY <2>2, Zenon DEF TextLess
<1>7. CASE k < n
  <2>1. k \in 1..n - 1 /\ k \in 1..b /\ \A i \in 1..k - 1 : i \in 1..n - 1
    BY <1>4, <1>7
  <2>2. /\ k \in DOMAIN u
        /\ \A i \in 1..k - 1 : i \in DOMAIN s /\ s[i] = u[i]
        /\ k \in DOMAIN s => s[k] < u[k]
    BY <1>1, <1>2, <1>3, <2>1 DEF b
  <2>3. QED
    BY <2>2, Zenon DEF TextLess
<1>8. CASE k = n
  <2>1. /\ k \in DOMAIN u
        /\ \A i \in 1..k - 1 : i \in DOMAIN s /\ s[i] = u[i]
    BY <1>1, <1>2, <1>3, <1>8
  <2>2. ASSUME k \in DOMAIN s PROVE s[k] < u[k]
    <3>1. s[k] < t[k] /\ t[k] < u[k] /\ s[k] \in Nat /\ t[k] \in Nat /\ u[k] \in Nat
      BY <1>1, <1>2, <1>3, <1>8, <2>2
    <3>2. QED
      BY <3>1
  <2>3. QED
    BY <2>1, <2>2, Zenon DEF TextLess
<1>9. QED
  BY <1>5, <1>6, <1>7, <1>8

\* Of two texts one is below the other.
LEMMA OrderTotal ==
  ASSUME NEW s \in Text, NEW t \in Text, s # t
  PROVE  TextLess(s, t) \/ TextLess(t, s)
<1> DEFINE a == Len(s)
           b == Len(t)
           D == {i \in Nat : i > 0 /\ (i > a \/ i > b \/ s[i] # t[i])}
<1>1. /\ DOMAIN s = 1..a /\ DOMAIN t = 1..b /\ a \in Nat /\ b \in Nat
      /\ \A i \in 1..a : s[i] \in Nat
      /\ \A i \in 1..b : t[i] \in Nat
  BY DEF Text
<1>2. ~(a = b /\ \A i \in 1..a : s[i] = t[i])
  BY SameText
<1> HIDE DEF a, b
<1>3. a + 1 \in D
  BY <1>1
<1>4. PICK n \in D : \A i \in D : n <= i
  BY <1>3, LeastNatural
<1>5. n \in Nat /\ n > 0 /\ (n > a \/ n > b \/ s[n] # t[n])
  OBVIOUS
<1>6. \A i \in 1..n - 1 : i <= a /\ i <= b /\ s[i] = t[i]
  <2> SUFFICES ASSUME NEW i \in 1..n - 1 PROVE i \notin D
    BY <1>1, <1>5
  <2>1. QED
    BY <1>4, <1>5
<1> HIDE DEF D
<1>7. \A i \in 1..n - 1 : i \in DOMAIN s /\ i \in DOMAIN t /\ s[i] = t[i] /\ t[i] = s[i]
  BY <1>1, <1>5, <1>6
<1>8. CASE n > a /\ n > b
  <2>1. n - 1 <= a /\ n - 1 <= b
    <3>1. CASE n = 1
      BY <1>1, <3>1
    <3>2. CASE n # 1
      BY <1>5, <1>6, <3>2
    <3>3. QED
      BY <3>1, <3>2
  <2>2. a = b /\ a = n - 1
    BY <1>1, <1>5, <1>8, <2>1
  <2>3. QED
    BY <1>2, <1>6, <2>2
<1>9. CASE n > a /\ ~(n > b)
  <2>1. n \in DOMAIN t /\ n \notin DOMAIN s
    BY <1>1, <1>5, <1>9
  <2>2. QED
    BY <1>7, <2>1, Zenon DEF TextLess
<1>10. CASE ~(n > a) /\ n > b
  <2>1. n \in DOMAIN s /\ n \notin DOMAIN t
    BY <1>1, <1>5, <1>10
  <2>2. QED
    BY <1>7, <2>1, Zenon DEF TextLess
<1>11. CASE ~(n > a) /\ ~(n > b)
  <2>1. n \in 1..a /\ n \in 1..b /\ s[n] # t[n]
    BY <1>1, <1>5, <1>11
  <2>2. s[n] \in Nat /\ t[n] \in Nat
    BY <1>1, <2>1
  <2>3. s[n] < t[n] \/ t[n] < s[n]
    BY <2>1, <2>2
  <2>4. n \in DOMAIN s /\ n \in DOMAIN t
    BY <1>1, <2>1
  <2>5. QED
    BY <1>7, <2>3, <2>4, Zenon DEF TextLess
<1>12. QED
  BY <1>8, <1>9, <1>10, <1>11

\* Not below is an order too.
LEMMA NotBelow ==
  ASSUME NEW s \in Text, NEW t \in Text, NEW u \in Text, ~TextLess(t, s), ~TextLess(u, t)
  PROVE  ~TextLess(u, s)
<1> SUFFICES ASSUME TextLess(u, s) PROVE FALSE
  OBVIOUS
<1>1. CASE s = t
  BY <1>1
<1>2. CASE s # t
  <2>1. TextLess(s, t)
    BY <1>2, OrderTotal
  <2>2. TextLess(u, t)
    BY <2>1, OrderTransitive
  <2>3. QED
    BY <2>2
<1>3. QED
  BY <1>1, <1>2

-----------------------------------------------------------------------------
(* Sorting *)

\* An order of the first n positions in which no key is below an earlier one.
Orders(p, keys, n) ==
  /\ p \in [1..n -> 1..n]
  /\ \A x \in 1..n : \E i \in 1..n : p[i] = x
  /\ \A i, j \in 1..n : i < j => p[i] # p[j] /\ ~TextLess(keys[p[j]], keys[p[i]])

\* A position more: it goes before the first one whose key is above its own.
LEMMA Inserted ==
  ASSUME NEW keys \in Seq(Text), NEW n \in 1..Len(keys), NEW p, Orders(p, keys, n - 1)
  PROVE  \E q : Orders(q, keys, n)
<1> DEFINE C == {i \in 1..n : i = n \/ TextLess(keys[n], keys[p[i]])}
<1>1. /\ n \in Nat /\ n > 0
      /\ \A i \in 1..n : keys[i] \in Text
  OBVIOUS
<1>2. /\ p \in [1..n - 1 -> 1..n - 1]
      /\ \A x \in 1..n - 1 : \E i \in 1..n - 1 : p[i] = x
      /\ \A i, j \in 1..n - 1 : i < j => p[i] # p[j] /\ ~TextLess(keys[p[j]], keys[p[i]])
  BY DEF Orders
<1>3. \A i \in 1..n - 1 : p[i] \in 1..n - 1 /\ p[i] \in 1..n /\ p[i] # n
  BY <1>1, <1>2
<1>4. PICK k \in C : \A i \in C : k <= i
  <2>1. n \in C /\ C \in SUBSET Nat
    BY <1>1
  <2>2. QED
    BY <2>1, LeastNatural
<1>5. k \in 1..n /\ (k = n \/ TextLess(keys[n], keys[p[k]]))
  OBVIOUS
<1>6. ASSUME NEW i \in 1..n - 1, i < k PROVE ~TextLess(keys[n], keys[p[i]])
  <2>1. i \in 1..n /\ ~(k <= i)
    BY <1>1, <1>5, <1>6
  <2>2. QED
    BY <1>4, <2>1
<1>7. ASSUME NEW i \in 1..n - 1, k <= i PROVE ~TextLess(keys[p[i]], keys[n])
  <2>1. k \in 1..n - 1 /\ k # n
    BY <1>1, <1>5, <1>7
  <2>2. keys[n] \in Text /\ keys[p[i]] \in Text /\ keys[p[k]] \in Text
    BY <1>1, <1>3, <2>1
  <2>3. ~TextLess(keys[p[k]], keys[n])
    BY <1>5, <2>1, <2>2, OrderAsymmetric
  <2>4. CASE i = k
    BY <2>3, <2>4
  <2>5. CASE i # k
    <3>1. k < i
      BY <1>1, <1>5, <1>7, <2>5
    <3>2. ~TextLess(keys[p[i]], keys[p[k]])
      BY <1>2, <2>1, <3>1
    <3>3. QED
      BY <2>2, <2>3, <3>2, NotBelow
  <2>6. QED
    BY <2>4, <2>5
<1> DEFINE q == [i \in 1..n |-> IF i < k THEN p[i] ELSE IF i = k THEN n ELSE p[i - 1]]
<1>8. ASSUME NEW i \in 1..n
      PROVE  /\ i < k => i \in 1..n - 1 /\ q[i] = p[i]
             /\ i = k => q[i] = n
             /\ i > k => i - 1 \in 1..n - 1 /\ k <= i - 1 /\ q[i] = p[i - 1]
  BY <1>1, <1>5
<1>9. q \in [1..n -> 1..n]
  <2>1. ASSUME NEW i \in 1..n PROVE q[i] \in 1..n
    <3>1. i < k \/ i = k \/ i > k
      BY <1>5
    <3>2. QED
      BY <1>1, <1>3, <1>8, <3>1
  <2>2. QED
    BY <2>1
<1> HIDE DEF q, C
<1>10. ASSUME NEW x \in 1..n PROVE \E i \in 1..n : q[i] = x
  <2>1. CASE x = n
    BY <1>5, <1>8, <2>1
  <2>2. CASE x # n
    <3>1. PICK i \in 1..n - 1 : p[i] = x
      BY <1>1, <1>2, <2>2
    <3>2. CASE i < k
      <4>1. i \in 1..n
        BY <1>1
      <4>2. QED
        BY <1>8, <3>1, <3>2, <4>1
    <3>3. CASE ~(i < k)
      <4>1. i + 1 \in 1..n /\ i + 1 > k /\ (i + 1) - 1 = i
        BY <1>1, <1>5, <3>3
      <4>2. QED
        BY <1>8, <3>1, <4>1
    <3>4. QED
      BY <3>2, <3>3
  <2>3. QED
    BY <2>1, <2>2
<1>11. ASSUME NEW i \in 1..n, NEW j \in 1..n, i < j
       PROVE  q[i] # q[j] /\ ~TextLess(keys[q[j]], keys[q[i]])
  <2>1. CASE j < k
    <3>1. i < k /\ i \in 1..n - 1 /\ j \in 1..n - 1 /\ q[i] = p[i] /\ q[j] = p[j]
      BY <1>5, <1>8, <1>11, <2>1
    <3>2. QED
      BY <1>2, <1>11, <3>1
  <2>2. CASE j = k
    <3>1. i < k /\ i \in 1..n - 1 /\ q[i] = p[i] /\ q[j] = n
      BY <1>5, <1>8, <1>11, <2>2
    <3>2. QED
      BY <1>3, <1>6, <3>1
  <2>3. CASE j > k /\ i < k
    <3>1. /\ i \in 1..n - 1 /\ j - 1 \in 1..n - 1 /\ i < j - 1
          /\ q[i] = p[i] /\ q[j] = p[j - 1]
      BY <1>5, <1>8, <2>3
    <3>2. QED
      BY <1>2, <3>1
  <2>4. CASE j > k /\ i = k
    <3>1. j - 1 \in 1..n - 1 /\ k <= j - 1 /\ q[i] = n /\ q[j] = p[j - 1]
      BY <1>8, <2>4
    <3>2. QED
      BY <1>3, <1>7, <3>1
  <2>5. CASE j > k /\ i > k
    <3>1. /\ i - 1 \in 1..n - 1 /\ j - 1 \in 1..n - 1 /\ i - 1 < j - 1
          /\ q[i] = p[i - 1] /\ q[j] = p[j - 1]
      BY <1>8, <1>11, <2>5
    <3>2. QED
      BY <1>2, <3>1
  <2>6. QED
    BY <1>5, <2>1, <2>2, <2>3, <2>4, <2>5
<1>12. Orders(q, keys, n)
  BY <1>9, <1>10, <1>11 DEF Orders
<1>13. QED
  BY <1>12

\* Keys can be put in order.
LEMMA AscendingExists ==
  ASSUME NEW keys \in Seq(Text) PROVE \E p : p \in Ascending(keys)
<1> DEFINE m == Len(keys)
           T == {n \in 0..m : \E p : Orders(p, keys, n)}
<1>1. m \in Nat /\ DOMAIN keys = 1..m
  OBVIOUS
<1>2. 0 \in T
  <2> DEFINE p == [i \in 1..0 |-> i]
  <2>1. Orders(p, keys, 0)
    BY DEF Orders
  <2>2. QED
    BY <1>1, <2>1
<1>3. ASSUME NEW n \in 1..m, n - 1 \in T PROVE n \in T
  <2>1. \E q : Orders(q, keys, n)
    BY <1>3, Inserted
  <2>2. QED
    BY <1>1, <2>1
<1> HIDE DEF T, m
<1>4. \A n \in 0..m : n \in T
  BY <1>1, <1>2, <1>3, BoundedInduction
<1>5. PICK p : Orders(p, keys, m)
  BY <1>1, <1>4 DEF T
<1>6. p \in Ascending(keys)
  BY <1>1, <1>5 DEF Orders, Ascending
<1>7. QED
  BY <1>6

\* What sorting by keys does: the elements are those of the list, each once, and
\* their keys ascend.
Sorts(order, seq, keys) ==
  /\ SortSlice(seq, keys) = [i \in 1..Len(seq) |-> seq[order[i]]]
  /\ \A i \in 1..Len(seq) : order[i] \in 1..Len(seq)
  /\ \A x \in 1..Len(seq) : \E i \in 1..Len(seq) : order[i] = x
  /\ \A i, j \in 1..Len(seq) :
       i < j => order[i] # order[j] /\ ~TextLess(keys[order[j]], keys[order[i]])

\* SortSlice takes one of the orders there are.
LEMMA SortSliceSorts ==
  ASSUME NEW S, NEW seq \in Seq(S), NEW keys \in Seq(Text), Len(keys) = Len(seq)
  PROVE  \E order : Sorts(order, seq, keys)
<1> DEFINE order == CHOOSE p \in Ascending(keys) : TRUE
<1>1. order \in Ascending(keys)
  BY AscendingExists, Zenon
<1>2. DOMAIN keys = 1..Len(seq) /\ DOMAIN seq = 1..Len(seq)
  OBVIOUS
<1>3. SortSlice(seq, keys) = [i \in DOMAIN seq |-> seq[order[i]]]
  BY Zenon DEF SortSlice
<1> HIDE DEF order
<1>4. Sorts(order, seq, keys)
  BY <1>1, <1>2, <1>3 DEF Sorts, Ascending
<1>5. QED
  BY <1>4

-----------------------------------------------------------------------------
(* Normalising texts *)

\* A character more.
LEMMA OneMore ==
  ASSUME NEW s \in Text, NEW c \in Nat
  PROVE  /\ Append(s, c) \in Text
         /\ Len(Append(s, c)) = Len(s) + 1
         /\ \A i \in 1..Len(s) : Append(s, c)[i] = s[i]
         /\ Append(s, c)[Len(s) + 1] = c
BY DEF Text

\* The upper case of a character is no whitespace, and is its own upper case.
LEMMA UpperIs ==
  ASSUME NEW c \in Nat
  PROVE  /\ Upper(c) \in Nat /\ Upper(Upper(c)) = Upper(c)
         /\ c \notin Whitespace => Upper(c) \notin Whitespace
<1>1. CASE c \in 97..122
  <2>1. Upper(c) = c - 32 /\ c - 32 \in Nat /\ c - 32 \notin 97..122
    BY <1>1 DEF Upper
  <2>2. c - 32 # 9 /\ c - 32 # 32
    BY <1>1
  <2>3. QED
    BY <2>1, <2>2 DEF Upper, Whitespace
<1>2. CASE c \notin 97..122
  BY <1>2 DEF Upper
<1>3. QED
  BY <1>1, <1>2

\* Stripped is what its definition says, character by character.
LEMMA StrippedSteps ==
  ASSUME NEW s \in Text
  PROVE  /\ Stripped(s) \in [0..Len(s) -> Text]
         /\ Stripped(s)[0] = <<>>
         /\ \A i \in 1..Len(s) :
              Stripped(s)[i] = IF s[i] \in Whitespace THEN Stripped(s)[i - 1]
                               ELSE Append(Stripped(s)[i - 1], s[i])
<1> DEFINE m == Len(s)
           Next(x, i) == IF s[i] \in Whitespace THEN x ELSE Append(x, s[i])
           step == [i \in 1..m |-> [x \in Text |-> Next(x, i)]]
           w == Stripped(s)
<1>1. m \in Nat /\ <<>> \in Text
  BY DEF Text
<1>2. ASSUME NEW x \in Text, NEW i \in 1..m PROVE Next(x, i) \in Text
  <2>1. s[i] \in Nat
    BY DEF Text
  <2>2. QED
    BY <2>1, OneMore
<1>3. \E b : b = [i \in 0..m |-> IF i = 0 THEN <<>> ELSE Next(b[i - 1], i)]
  <2> HIDE DEF Next, m
  <2>1. step \in [1..m -> [Text -> Text]]
    BY <1>2
  <2> HIDE DEF step
  <2>2. PICK f : Goes(f, m, Text, <<>>, step)
    BY <1>1, <2>1, Recursion
  <2>3. /\ f \in [0..m -> Text] /\ f[0] = <<>>
        /\ \A i \in 1..m : f[i] = step[i][f[i - 1]]
    BY <2>2 DEF Goes
  <2>4. ASSUME NEW i \in 0..m PROVE f[i] = IF i = 0 THEN <<>> ELSE Next(f[i - 1], i)
    <3>1. CASE i = 0
      BY <2>3, <3>1
    <3>2. CASE i # 0
      <4>1. i \in 1..m /\ f[i - 1] \in Text
        BY <1>1, <2>3, <3>2
      <4>2. step[i][f[i - 1]] = Next(f[i - 1], i)
        BY <4>1 DEF step
      <4>3. QED
        BY <2>3, <3>2, <4>1, <4>2
    <3>3. QED
      BY <3>1, <3>2
  <2>5. f = [i \in 0..m |-> IF i = 0 THEN <<>> ELSE Next(f[i - 1], i)]
    BY <2>3, <2>4
  <2>6. QED
    BY <2>5
<1>4. w = [i \in 0..m |-> IF i = 0 THEN <<>> ELSE Next(w[i - 1], i)]
  BY <1>3, Zenon DEF Stripped
<1> HIDE DEF w, Next, m
<1>5. w[0] = <<>> /\ \A i \in 1..m : w[i] = Next(w[i - 1], i)
  BY <1>1, <1>4
<1>6. \A i \in 0..m : w[i] \in Text
  <2> DEFINE T == {i \in 0..m : w[i] \in Text}
  <2>1. 0 \in T /\ \A i \in 1..m : i - 1 \in T => i \in T
    BY <1>1, <1>2, <1>5
  <2> HIDE DEF T
  <2>2. \A i \in 0..m : i \in T
    BY <1>1, <2>1, BoundedInduction
  <2>3. QED
    BY <2>2 DEF T
<1>7. w \in [0..m -> Text]
  BY <1>4, <1>6
<1>8. QED
  BY <1>5, <1>7 DEF w, Next, m

\* Normalised is what its definition says, character by character.
LEMMA NormalisedSteps ==
  ASSUME NEW s \in Text
  PROVE  /\ Normalised(s) \in [0..Len(s) -> Text]
         /\ Normalised(s)[0] = <<>>
         /\ \A i \in 1..Len(s) :
              Normalised(s)[i] =
                IF s[i] \notin Whitespace THEN Append(Normalised(s)[i - 1], Upper(s[i]))
                ELSE IF EndsField(s, i) THEN Append(Normalised(s)[i - 1], 32)
                ELSE Normalised(s)[i - 1]
<1> DEFINE m == Len(s)
           Next(x, i) == IF s[i] \notin Whitespace THEN Append(x, Upper(s[i]))
                         ELSE IF EndsField(s, i) THEN Append(x, 32)
                         ELSE x
           step == [i \in 1..m |-> [x \in Text |-> Next(x, i)]]
           w == Normalised(s)
<1>1. m \in Nat /\ <<>> \in Text
  BY DEF Text
<1>2. ASSUME NEW x \in Text, NEW i \in 1..m PROVE Next(x, i) \in Text
  <2>1. s[i] \in Nat
    BY DEF Text
  <2>2. Upper(s[i]) \in Nat /\ 32 \in Nat
    BY <2>1, UpperIs
  <2>3. Append(x, Upper(s[i])) \in Text /\ Append(x, 32) \in Text
    BY <2>2, OneMore
  <2>4. QED
    BY <2>3
<1>3. \E b : b = [i \in 0..m |-> IF i = 0 THEN <<>> ELSE Next(b[i - 1], i)]
  <2> HIDE DEF Next, m
  <2>1. step \in [1..m -> [Text -> Text]]
    BY <1>2
  <2> HIDE DEF step
  <2>2. PICK f : Goes(f, m, Text, <<>>, step)
    BY <1>1, <2>1, Recursion
  <2>3. /\ f \in [0..m -> Text] /\ f[0] = <<>>
        /\ \A i \in 1..m : f[i] = step[i][f[i - 1]]
    BY <2>2 DEF Goes
  <2>4. ASSUME NEW i \in 0..m PROVE f[i] = IF i = 0 THEN <<>> ELSE Next(f[i - 1], i)
    <3>1. CASE i = 0
      BY <2>3, <3>1
    <3>2. CASE i # 0
      <4>1. i \in 1..m /\ f[i - 1] \in Text
        BY <1>1, <2>3, <3>2
      <4>2. step[i][f[i - 1]] = Next(f[i - 1], i)
        BY <4>1 DEF step
      <4>3. QED
        BY <2>3, <3>2, <4>1, <4>2
    <3>3. QED
      BY <3>1, <3>2
  <2>5. f = [i \in 0..m |-> IF i = 0 THEN <<>> ELSE Next(f[i - 1], i)]
    BY <2>3, <2>4
  <2>6. QED
    BY <2>5
<1>4. w = [i \in 0..m |-> IF i = 0 THEN <<>> ELSE Next(w[i - 1], i)]
  BY <1>3, Zenon DEF Normalised
<1> HIDE DEF w, Next, m
<1>5. w[0] = <<>> /\ \A i \in 1..m : w[i] = Next(w[i - 1], i)
  BY <1>1, <1>4
<1>6. \A i \in 0..m : w[i] \in Text
  <2> DEFINE T == {i \in 0..m : w[i] \in Text}
  <2>1. 0 \in T /\ \A i \in 1..m : i - 1 \in T => i \in T
    BY <1>1, <1>2, <1>5
  <2> HIDE DEF T
  <2>2. \A i \in 0..m : i \in T
    BY <1>1, <2>1, BoundedInduction
  <2>3. QED
    BY <2>2 DEF T
<1>7. w \in [0..m -> Text]
  BY <1>4, <1>6
<1>8. QED
  BY <1>5, <1>7 DEF w, Next, m

\* Stripping keeps texts texts, whatever the fold.
LEMMA ApplyIsText ==
  ASSUME NEW fold, NEW value \in Text
  PROVE  Apply(fold, value) \in Text
<1>1. Stripped(value) \in [0..Len(value) -> Text]
  BY StrippedSteps, Zenon
<1>2. Len(value) \in 0..Len(value)
  BY DEF Text
<1>3. QED
  BY <1>1, <1>2 DEF Apply

\* Folded is what its definition says, fold by fold.
LEMMA FoldedSteps ==
  ASSUME NEW folds \in Seq(STRING), NEW value \in Text
  PROVE  /\ Folded(folds, value) \in [0..Len(folds) -> Text]
         /\ Folded(folds, value)[0] = value
         /\ \A i \in 1..Len(folds) :
              Folded(folds, value)[i] = Apply(folds[i], Folded(folds, value)[i - 1])
<1> DEFINE m == Len(folds)
           Next(x, i) == Apply(folds[i], x)
           step == [i \in 1..m |-> [x \in Text |-> Next(x, i)]]
           w == Folded(folds, value)
<1>1. m \in Nat /\ value \in Text
  OBVIOUS
<1>2. ASSUME NEW x \in Text, NEW i \in 1..m PROVE Next(x, i) \in Text
  BY ApplyIsText
<1>3. \E b : b = [i \in 0..m |-> IF i = 0 THEN value ELSE Next(b[i - 1], i)]
  <2> HIDE DEF Next, m
  <2>1. step \in [1..m -> [Text -> Text]]
    BY <1>2
  <2> HIDE DEF step
  <2>2. PICK f : Goes(f, m, Text, value, step)
    BY <1>1, <2>1, Recursion
  <2>3. /\ f \in [0..m -> Text] /\ f[0] = value
        /\ \A i \in 1..m : f[i] = step[i][f[i - 1]]
    BY <2>2 DEF Goes
  <2>4. ASSUME NEW i \in 0..m PROVE f[i] = IF i = 0 THEN value ELSE Next(f[i - 1], i)
    <3>1. CASE i = 0
      BY <2>3, <3>1
    <3>2. CASE i # 0
      <4>1. i \in 1..m /\ f[i - 1] \in Text
        BY <1>1, <2>3, <3>2
      <4>2. step[i][f[i - 1]] = Next(f[i - 1], i)
        BY <4>1 DEF step
      <4>3. QED
        BY <2>3, <3>2, <4>1, <4>2
    <3>3. QED
      BY <3>1, <3>2
  <2>5. f = [i \in 0..m |-> IF i = 0 THEN value ELSE Next(f[i - 1], i)]
    BY <2>3, <2>4
  <2>6. QED
    BY <2>5
<1>4. w = [i \in 0..m |-> IF i = 0 THEN value ELSE Next(w[i - 1], i)]
  BY <1>3, Zenon DEF Folded
<1> HIDE DEF w, Next, m
<1>5. w[0] = value /\ \A i \in 1..m : w[i] = Next(w[i - 1], i)
  BY <1>1, <1>4
<1>6. \A i \in 0..m : w[i] \in Text
  <2> DEFINE T == {i \in 0..m : w[i] \in Text}
  <2>1. 0 \in T /\ \A i \in 1..m : i - 1 \in T => i \in T
    BY <1>1, <1>2, <1>5
  <2> HIDE DEF T
  <2>2. \A i \in 0..m : i \in T
    BY <1>1, <2>1, BoundedInduction
  <2>3. QED
    BY <2>2 DEF T
<1>7. w \in [0..m -> Text]
  BY <1>4, <1>6
<1>8. QED
  BY <1>5, <1>7 DEF w, Next, m

\* A canonical seed is text.
LEMMA SeedIsText ==
  ASSUME NEW s \in Text PROVE CanonicaliseSeed(s) \in Text
<1>1. Normalised(s) \in [0..Len(s) -> Text]
  BY NormalisedSteps, Zenon
<1>2. Len(s) \in 0..Len(s)
  BY DEF Text
<1>3. QED
  BY <1>1, <1>2 DEF CanonicaliseSeed

-----------------------------------------------------------------------------
(* Claims *)

Claim == [scheme : Text, value : Text]

\* The folds of a rule make a text of a text.
LEMMA RuleFoldIsText ==
  ASSUME NEW r, r.folds \in Seq(STRING), NEW v \in Text
  PROVE  RuleFold(r, v) \in Text
<1>1. Folded(r.folds, v) \in [0..Len(r.folds) -> Text]
  BY FoldedSteps, Zenon
<1>2. Len(r.folds) \in 0..Len(r.folds)
  OBVIOUS
<1>3. QED
  BY <1>1, <1>2 DEF RuleFold

\* A rule lists its folds.
LEMMA RulesHaveFolds ==
  ASSUME NEW s, NEW r \in RuleFor(s) PROVE r.folds \in Seq(STRING)
<1>1. PICK i \in DOMAIN Ruleset : r = Ruleset[i]
  BY DEF RuleFor
<1> DEFINE R == [scheme : Text, standard : Text, length : Int, folds : Seq(STRING)]
<1>2. Ruleset \in Seq(R)
  BY RulesetAssumption, Zenon
<1>3. \A x \in R : x.folds \in Seq(STRING)
  OBVIOUS
<1> HIDE DEF R
<1>4. QED
  BY <1>1, <1>2, <1>3

\* A folded claim has the scheme it had, and its value or what a rule of its
\* scheme makes of it.
LEMMA FoldClaimIs ==
  ASSUME NEW c \in Claim
  PROVE  /\ FoldClaim(c) \in Claim
         /\ FoldClaim(c).scheme = c.scheme
         /\ FoldClaim(c).value = c.value
            \/ \E r \in RuleFor(c.scheme) : FoldClaim(c).value = RuleFold(r, c.value)
<1> DEFINE folded == {RuleFold(r, c.value) : r \in RuleFor(c.scheme)} \ {<<>>}
<1>1. c.value \in Text /\ c.scheme \in Text
  BY DEF Claim
<1>2. CASE folded = {}
  BY <1>2 DEF FoldClaim
<1>3. CASE folded # {}
  <2> DEFINE v == CHOOSE x \in folded : TRUE
  <2>1. FoldClaim(c) = [c EXCEPT !.value = v]
    BY <1>3, Zenon DEF FoldClaim
  <2>2. v \in folded
    BY <1>3, Zenon
  <2> HIDE DEF v
  <2>3. PICK r \in RuleFor(c.scheme) : v = RuleFold(r, c.value)
    BY <2>2
  <2>4. r.folds \in Seq(STRING)
    BY RulesHaveFolds
  <2>5. v \in Text
    BY <1>1, <2>3, <2>4, RuleFoldIsText
  <2>6. /\ [c EXCEPT !.value = v] \in Claim
        /\ [c EXCEPT !.value = v].scheme = c.scheme
        /\ [c EXCEPT !.value = v].value = v
    BY <2>5 DEF Claim
  <2>7. QED
    BY <2>1, <2>3, <2>6
<1>4. QED
  BY <1>2, <1>3

\* Every claim stated is one that a provider may state.
StatedOK == stated \subseteq {c \in Claim : IsClaim(c)}

\* Whatever is stated is a claim.
LEMMA AlwaysStatedOK == IdentitySpec => []StatedOK
<1>1. StatedInit => StatedOK
  BY DEF StatedInit, StatedOK
<1>2. StatedOK /\ [\E c \in Statements : NewClaim(c)]_stated => StatedOK'
  BY StatementsAssumption DEF StatedOK, NewClaim, Claim
<1>3. QED
  BY <1>1, <1>2, PTL DEF IdentitySpec

\* The parts of a claim that its pre-image is framed from.
Seed(c) == CanonicaliseSeed(FoldClaim(c).scheme)
Full(c) == CanonicaliseSeed(Joined(FoldClaim(c)))

\* The seed of a claim and its pre-image are texts.
LEMMA SeedsAreText ==
  ASSUME NEW c \in Claim PROVE Seed(c) \in Text /\ Full(c) \in Text
<1> DEFINE f == FoldClaim(c)
<1>1. f \in Claim
  BY FoldClaimIs
<1> HIDE DEF f
<1>2. f.scheme \in Text /\ f.value \in Text /\ <<Colon>> \in Text
  BY <1>1 DEF Claim, Colon, Text
<1>3. Joined(f) \in Text
  BY <1>2, Join DEF Joined
<1>4. QED
  BY <1>2, <1>3, SeedIsText DEF Seed, Full, f

\* Claims have one pre-image when both parts agree.
LEMMA PreimageParts ==
  ASSUME NEW c \in Claim, NEW d \in Claim
  PROVE  CanonicalPreimage(c) = CanonicalPreimage(d) <=> Seed(c) = Seed(d) /\ Full(c) = Full(d)
<1> DEFINE p == <<Seed(c), Full(c)>>
           q == <<Seed(d), Full(d)>>
<1>1. CanonicalPreimage(c) = Frame(TagClaimSeed, p) /\ CanonicalPreimage(d) = Frame(TagClaimSeed, q)
  BY Zenon DEF CanonicalPreimage, Seed, Full
<1>2. p \in Seq(Text) /\ q \in Seq(Text)
  BY SeedsAreText
<1>3. TagClaimSeed \in Text
  BY DEF TagClaimSeed, Text
<1>4. p = q <=> Seed(c) = Seed(d) /\ Full(c) = Full(d)
  OBVIOUS
<1> HIDE DEF p, q
<1>5. QED
  BY <1>1, <1>2, <1>3, <1>4, FrameOnce

\* Minting derives one identifier when both parts and the kinds agree.
LEMMA MintedParts ==
  ASSUME NEW c \in Claim, NEW d \in Claim,
         NEW kind \in {"account", "instrument"}, NEW other \in {"account", "instrument"}
  PROVE  MintedID(kind, c) = MintedID(other, d)
           <=> kind = other /\ Seed(c) = Seed(d) /\ Full(c) = Full(d)
<1> DEFINE p == <<KindText[kind], Seed(c), Full(c)>>
           q == <<KindText[other], Seed(d), Full(d)>>
<1>1. /\ MintedID(kind, c) = [kind |-> kind, value |-> [uuid |-> Frame(TagClaimSeed, p)]]
      /\ MintedID(other, d) = [kind |-> other, value |-> [uuid |-> Frame(TagClaimSeed, q)]]
  BY Zenon DEF MintedID, DeriveClaim, UUIDv5, Seed, Full
<1>2. KindText[kind] \in Text /\ KindText[other] \in Text
  <2>1. KindText["account"] = <<97>> /\ KindText["instrument"] = <<105>>
    BY DEF KindText
  <2>2. <<97>> \in Text /\ <<105>> \in Text
    BY DEF Text
  <2>3. ASSUME NEW k \in {"account", "instrument"} PROVE KindText[k] \in Text
    <3>1. CASE k = "account"
      BY <2>1, <2>2, <3>1
    <3>2. CASE k = "instrument"
      BY <2>1, <2>2, <3>2
    <3>3. QED
      BY <3>1, <3>2
  <2>4. QED
    BY <2>3
<1>3. p \in Seq(Text) /\ q \in Seq(Text)
  BY <1>2, SeedsAreText
<1>4. TagClaimSeed \in Text
  BY DEF TagClaimSeed, Text
<1>5. p = q => Seed(c) = Seed(d) /\ Full(c) = Full(d)
  OBVIOUS
<1>6. kind = other /\ Seed(c) = Seed(d) /\ Full(c) = Full(d) => p = q
  OBVIOUS
<1> HIDE DEF p, q
<1>7. Frame(TagClaimSeed, p) = Frame(TagClaimSeed, q) <=> p = q
  BY <1>3, <1>4, FrameOnce
<1> DEFINE x == Frame(TagClaimSeed, p)
           y == Frame(TagClaimSeed, q)
<1> HIDE DEF x, y
<1>8. [kind |-> kind, value |-> [uuid |-> x]] = [kind |-> other, value |-> [uuid |-> y]]
        <=> kind = other /\ x = y
  OBVIOUS
<1>9. QED
  BY <1>1, <1>5, <1>6, <1>7, <1>8 DEF x, y

\* Resolution agrees with minting, whatever the rules and the claims: the two
\* frame the same parts, and a frame says what its parts were.
THEOREM ResolutionAgreesWithMinting == IdentitySpec => []ResolvedAsMinted
<1>1. StatedOK => ResolvedAsMinted
  <2> SUFFICES ASSUME StatedOK, NEW c \in stated, NEW d \in stated,
                      NEW kind \in {"account", "instrument"}, NEW other \in {"account", "instrument"}
               PROVE  MintedID(kind, c) = MintedID(other, d)
                        <=> kind = other /\ CanonicalPreimage(c) = CanonicalPreimage(d)
    BY Zenon DEF ResolvedAsMinted
  <2>1. c \in Claim /\ d \in Claim
    BY DEF StatedOK
  <2>2. QED
    BY <2>1, PreimageParts, MintedParts
<1>2. QED
  BY <1>1, AlwaysStatedOK, PTL

-----------------------------------------------------------------------------
(* The letters of a text *)

Strip(s) == Stripped(s)[Len(s)]
Raised(t) == [i \in DOMAIN t |-> Upper(t[i])]

\* A stripped text is text.
LEMMA StripIsText ==
  ASSUME NEW s \in Text PROVE Strip(s) \in Text
<1>1. Stripped(s) \in [0..Len(s) -> Text]
  BY StrippedSteps, Zenon
<1>2. Len(s) \in 0..Len(s)
  BY DEF Text
<1>3. QED
  BY <1>1, <1>2 DEF Strip

\* Raising keeps texts texts, and goes part by part.
LEMMA RaisedIsText ==
  ASSUME NEW s \in Text
  PROVE  Raised(s) \in Text /\ Len(Raised(s)) = Len(s) /\ \A i \in 1..Len(s) : Raised(s)[i] = Upper(s[i])
<1>1. \A i \in DOMAIN s : Upper(s[i]) \in Nat
  BY UpperIs DEF Text
<1>2. QED
  BY <1>1 DEF Raised, Text

\* Letter case is raised part by part.
LEMMA RaisedJoin ==
  ASSUME NEW s \in Text, NEW t \in Text PROVE Raised(s \o t) = Raised(s) \o Raised(t)
<1> DEFINE a == Len(s)
           b == Len(t)
           st == s \o t
           x == Raised(st)
           p == Raised(s)
           q == Raised(t)
           y == p \o q
<1>1. /\ st \in Text /\ a \in Nat /\ b \in Nat /\ Len(st) = a + b
      /\ \A i \in 1..a : st[i] = s[i]
      /\ \A i \in 1..b : st[a + i] = t[i]
  <2>1. a \in Nat /\ b \in Nat
    BY DEF Text
  <2>2. QED
    BY <2>1, Join
<1>2. /\ p \in Text /\ Len(p) = a /\ \A i \in 1..a : p[i] = Upper(s[i])
      /\ q \in Text /\ Len(q) = b /\ \A i \in 1..b : q[i] = Upper(t[i])
  BY RaisedIsText
<1> HIDE DEF p, q, a, b
<1>3. /\ y \in Text /\ Len(y) = a + b
      /\ \A i \in 1..a : y[i] = p[i]
      /\ \A i \in 1..b : y[a + i] = q[i]
  <2>1. /\ y \in Text /\ Len(y) = Len(p) + Len(q)
        /\ \A i \in 1..Len(p) : y[i] = p[i]
        /\ \A i \in 1..Len(q) : y[Len(p) + i] = q[i]
    BY <1>2, Join, Zenon
  <2> HIDE DEF y
  <2>2. QED
    BY <1>2, <2>1
<1> HIDE DEF st
<1>4. x \in Text /\ Len(x) = a + b /\ \A i \in 1..(a + b) : x[i] = Upper(st[i])
  BY <1>1, RaisedIsText
<1> HIDE DEF x, y
<1>5. ASSUME NEW i \in 1..(a + b) PROVE x[i] = y[i]
  <2>1. CASE i <= a
    BY <1>1, <1>2, <1>3, <1>4, <2>1
  <2>2. CASE i > a
    <3>1. PICK k \in 1..b : i = a + k
      <4>1. i - a \in 1..b /\ i = a + (i - a)
        BY <1>1, <2>2
      <4>2. QED
        BY <4>1
    <3>2. st[i] = t[k] /\ y[i] = q[k]
      BY <1>1, <1>3, <3>1
    <3>3. QED
      BY <1>2, <1>4, <3>2
  <2>3. QED
    BY <1>1, <2>1, <2>2
<1>6. x = y
  BY <1>3, <1>4, <1>5, SameText
<1>7. QED
  BY <1>6 DEF x, y, st, p, q

\* What is left after a character depends on the characters so far.
LEMMA StripPrefix ==
  ASSUME NEW s \in Text, NEW t \in Text, NEW n \in Nat, n <= Len(s), n <= Len(t),
         \A i \in 1..n : s[i] = t[i]
  PROVE  Stripped(s)[n] = Stripped(t)[n]
<1> DEFINE v == Stripped(s)
           w == Stripped(t)
           a == Len(s)
           b == Len(t)
           T == {i \in 0..n : v[i] = w[i]}
<1>1. a \in Nat /\ b \in Nat
  BY DEF Text
<1>2. /\ v[0] = <<>> /\ w[0] = <<>>
      /\ \A i \in 1..a : v[i] = IF s[i] \in Whitespace THEN v[i - 1] ELSE Append(v[i - 1], s[i])
      /\ \A i \in 1..b : w[i] = IF t[i] \in Whitespace THEN w[i - 1] ELSE Append(w[i - 1], t[i])
  BY StrippedSteps, Zenon
<1> HIDE DEF v, w, a, b
<1>3. n <= a /\ n <= b
  BY DEF a, b
<1>4. 0 \in T
  BY <1>2
<1>5. ASSUME NEW i \in 1..n, i - 1 \in T PROVE i \in T
  <2>1. i \in 1..a /\ i \in 1..b /\ s[i] = t[i]
    BY <1>1, <1>3
  <2>2. v[i - 1] = w[i - 1]
    BY <1>5
  <2>3. v[i] = w[i]
    BY <1>2, <2>1, <2>2
  <2>4. QED
    BY <2>3
<1> HIDE DEF T
<1>6. \A i \in 0..n : i \in T
  BY <1>4, <1>5, BoundedInduction
<1>7. n \in T
  BY <1>6
<1>8. QED
  BY <1>7 DEF T, v, w

\* Appending after joining.
LEMMA AppendJoin ==
  ASSUME NEW s \in Text, NEW t \in Text, NEW c \in Nat
  PROVE  /\ Append(s \o t, c) = s \o Append(t, c)
         /\ Append(s, c) = s \o <<c>>
         /\ s \o <<>> = s
<1> DEFINE a == Len(s)
           b == Len(t)
           st == s \o t
           tc == Append(t, c)
           x == Append(st, c)
           y == s \o tc
<1>1. a \in Nat /\ b \in Nat
  BY DEF Text
<1>2. /\ st \in Text /\ Len(st) = a + b
      /\ \A i \in 1..a : st[i] = s[i]
      /\ \A i \in 1..b : st[a + i] = t[i]
  BY Join
<1>3. /\ tc \in Text /\ Len(tc) = b + 1
      /\ \A i \in 1..b : tc[i] = t[i]
      /\ tc[b + 1] = c
  BY OneMore
<1> HIDE DEF st, tc, b
<1>4. /\ x \in Text /\ Len(x) = (a + b) + 1
      /\ \A i \in 1..(a + b) : x[i] = st[i]
      /\ x[(a + b) + 1] = c
  <2>1. /\ x \in Text /\ Len(x) = Len(st) + 1
        /\ \A i \in 1..Len(st) : x[i] = st[i]
        /\ x[Len(st) + 1] = c
    BY <1>2, OneMore, Zenon
  <2> HIDE DEF x
  <2>2. QED
    BY <1>2, <2>1
<1>5. /\ y \in Text /\ Len(y) = a + (b + 1)
      /\ \A i \in 1..a : y[i] = s[i]
      /\ \A i \in 1..(b + 1) : y[a + i] = tc[i]
  <2>1. /\ y \in Text /\ Len(y) = Len(s) + Len(tc)
        /\ \A i \in 1..Len(s) : y[i] = s[i]
        /\ \A i \in 1..Len(tc) : y[Len(s) + i] = tc[i]
    BY <1>3, Join, Zenon
  <2> HIDE DEF y
  <2>2. QED
    BY <1>3, <2>1
<1> HIDE DEF x, y, a
<1>6. ASSUME NEW i \in 1..((a + b) + 1) PROVE x[i] = y[i]
  <2>1. CASE i <= a
    BY <1>1, <1>2, <1>4, <1>5, <2>1
  <2>2. CASE i > a
    <3>1. PICK k \in 1..(b + 1) : i = a + k
      <4>1. i - a \in 1..(b + 1) /\ i = a + (i - a)
        BY <1>1, <2>2
      <4>2. QED
        BY <4>1
    <3>2. y[i] = tc[k]
      BY <1>5, <3>1
    <3>3. CASE k = b + 1
      BY <1>1, <1>3, <1>4, <3>1, <3>2, <3>3
    <3>4. CASE k \in 1..b
      <4>1. i \in 1..(a + b) /\ st[i] = t[k] /\ tc[k] = t[k]
        BY <1>1, <1>2, <1>3, <3>1, <3>4
      <4>2. QED
        BY <1>4, <3>2, <4>1
    <3>5. QED
      BY <1>1, <3>3, <3>4
  <2>3. QED
    BY <1>1, <2>1, <2>2
<1>7. Len(y) = Len(x) /\ Len(x) = (a + b) + 1
  BY <1>1, <1>4, <1>5
<1>8. x = y
  BY <1>4, <1>5, <1>6, <1>7, SameText
<1>9. Append(s, c) = s \o <<c>> /\ s \o <<>> = s
  BY DEF Text
<1>10. QED
  BY <1>8, <1>9 DEF x, y, st, tc

\* Stripping goes part by part.
LEMMA StripJoin ==
  ASSUME NEW s \in Text, NEW t \in Text PROVE Strip(s \o t) = Strip(s) \o Strip(t)
<1> DEFINE a == Len(s)
           b == Len(t)
           st == s \o t
           v == Stripped(st)
           w == Stripped(t)
           x == Strip(s)
           T == {i \in 0..b : v[a + i] = x \o w[i]}
<1>1. a \in Nat /\ b \in Nat
  BY DEF Text
<1>2. /\ st \in Text /\ Len(st) = a + b
      /\ \A i \in 1..a : st[i] = s[i]
      /\ \A i \in 1..b : st[a + i] = t[i]
  BY Join
<1> HIDE DEF st
<1>3. /\ w[0] = <<>> /\ w \in [0..b -> Text]
      /\ \A i \in 1..b : w[i] = IF t[i] \in Whitespace THEN w[i - 1] ELSE Append(w[i - 1], t[i])
  BY StrippedSteps, Zenon
<1>4. \A i \in 1..Len(st) :
        v[i] = IF st[i] \in Whitespace THEN v[i - 1] ELSE Append(v[i - 1], st[i])
  BY <1>2, StrippedSteps, Zenon
<1>5. v[a] = x
  <2>1. a <= Len(st)
    BY <1>1, <1>2
  <2>2. Stripped(st)[a] = Stripped(s)[a]
    <3>1. a <= Len(s)
      BY <1>1
    <3>2. \A i \in 1..a : s[i] = st[i]
      BY <1>2
    <3> HIDE DEF a
    <3>3. QED
      BY <1>1, <1>2, <2>1, <3>1, <3>2, StripPrefix
  <2>3. QED
    BY <2>2 DEF Strip
<1>6. x \in Text
  BY StripIsText
<1> HIDE DEF v, w, x, a, b
<1>7. 0 \in T
  <2>1. a + 0 = a /\ x \o <<>> = x
    BY <1>1, <1>6 DEF Text
  <2>2. v[a + 0] = x \o w[0]
    BY <1>3, <1>5, <2>1
  <2>3. QED
    BY <1>1, <2>2
<1>8. ASSUME NEW i \in 1..b, i - 1 \in T PROVE i \in T
  <2>1. a + i \in 1..Len(st) /\ (a + i) - 1 = a + (i - 1) /\ i - 1 \in 0..b
    BY <1>1, <1>2
  <2>2. v[a + (i - 1)] = x \o w[i - 1]
    BY <1>8
  <2>3. t[i] \in Nat /\ w[i - 1] \in Text /\ st[a + i] = t[i]
    <3>1. w[i - 1] \in Text /\ st[a + i] = t[i]
      BY <1>2, <1>3, <2>1
    <3>2. t[i] \in Nat
      BY DEF b, Text
    <3>3. QED
      BY <3>1, <3>2
  <2>4. v[a + i] = IF t[i] \in Whitespace THEN v[a + (i - 1)] ELSE Append(v[a + (i - 1)], t[i])
    BY <1>4, <2>1, <2>3
  <2>5. Append(x \o w[i - 1], t[i]) = x \o Append(w[i - 1], t[i])
    BY <1>6, <2>3, AppendJoin, Zenon
  <2>6. CASE t[i] \in Whitespace
    <3>1. v[a + i] = v[a + (i - 1)] /\ w[i] = w[i - 1]
      BY <1>3, <2>4, <2>6
    <3>2. QED
      BY <2>2, <3>1
  <2>7. CASE t[i] \notin Whitespace
    <3>1. v[a + i] = Append(v[a + (i - 1)], t[i]) /\ w[i] = Append(w[i - 1], t[i])
      BY <1>3, <2>4, <2>7
    <3>2. v[a + i] = x \o w[i]
      BY <2>2, <2>5, <3>1, Zenon
    <3>3. QED
      BY <3>2
  <2>8. QED
    BY <2>6, <2>7
<1> HIDE DEF T
<1>9. \A i \in 0..b : i \in T
  BY <1>1, <1>7, <1>8, BoundedInduction
<1>10. b \in T
  BY <1>1, <1>9
<1>11. v[a + b] = x \o w[b]
  BY <1>10 DEF T
<1>12. Strip(st) = v[a + b] /\ w[b] = Strip(t)
  BY <1>2 DEF Strip, v, w, b
<1>13. QED
  BY <1>11, <1>12, Zenon DEF x, st

\* Letters are the raised characters that are left, and go part by part.
LEMMA LettersAre ==
  ASSUME NEW s \in Text PROVE Letters(s) \in Text /\ Letters(s) = Raised(Strip(s))
<1>1. Letters(s) = Raised(Strip(s))
  BY Zenon DEF Letters, Raised, Strip
<1>2. QED
  BY <1>1, StripIsText, RaisedIsText

\* The letters of a text are those of its parts.
LEMMA LettersJoin ==
  ASSUME NEW s \in Text, NEW t \in Text PROVE Letters(s \o t) = Letters(s) \o Letters(t)
<1>1. s \o t \in Text
  BY Join
<1>2. Strip(s \o t) = Strip(s) \o Strip(t) /\ Strip(s) \in Text /\ Strip(t) \in Text
  BY StripJoin, StripIsText
<1>3. Raised(Strip(s) \o Strip(t)) = Raised(Strip(s)) \o Raised(Strip(t))
  BY <1>2, RaisedJoin
<1>4. Letters(s \o t) = Raised(Strip(s \o t)) /\ Letters(s) = Raised(Strip(s)) /\ Letters(t) = Raised(Strip(t))
  BY <1>1, LettersAre
<1>5. QED
  BY <1>2, <1>3, <1>4, Zenon

\* Whitespace is no letter; another character is one, in upper case.
LEMMA LettersOne ==
  ASSUME NEW c \in Nat
  PROVE  /\ <<c>> \in Text
         /\ c \in Whitespace => Letters(<<c>>) = <<>>
         /\ c \notin Whitespace => Letters(<<c>>) = <<Upper(c)>>
<1> DEFINE s == <<c>>
<1>1. s \in Text /\ Len(s) = 1 /\ s[1] = c
  BY DEF Text
<1> HIDE DEF s
<1>2. /\ Stripped(s)[0] = <<>>
      /\ \A i \in 1..Len(s) : Stripped(s)[i] = IF s[i] \in Whitespace THEN Stripped(s)[i - 1]
                                               ELSE Append(Stripped(s)[i - 1], s[i])
  BY <1>1, StrippedSteps, Zenon
<1>3. Strip(s) = IF c \in Whitespace THEN <<>> ELSE Append(<<>>, c)
  <2>1. Stripped(s)[1] = IF s[1] \in Whitespace THEN Stripped(s)[1 - 1] ELSE Append(Stripped(s)[1 - 1], s[1])
    BY <1>1, <1>2
  <2>2. Stripped(s)[1] = IF c \in Whitespace THEN <<>> ELSE Append(<<>>, c)
    <3>1. 1 - 1 = 0
      OBVIOUS
    <3>2. QED
      BY <1>1, <1>2, <2>1, <3>1, Zenon
  <2>3. Strip(s) = Stripped(s)[1]
    BY <1>1 DEF Strip
  <2>4. QED
    BY <2>2, <2>3, Zenon
<1>4. Letters(s) = Raised(Strip(s))
  BY <1>1, LettersAre
<1>5. Append(<<>>, c) = <<c>> /\ Raised(<<c>>) = <<Upper(c)>> /\ Raised(<<>>) = <<>>
  BY DEF Raised
<1>6. QED
  BY <1>1, <1>3, <1>4, <1>5 DEF s

\* A character more among the letters.
LEMMA LettersAppend ==
  ASSUME NEW s \in Text, NEW c \in Nat
  PROVE  /\ c \in Whitespace => Letters(Append(s, c)) = Letters(s)
         /\ c \notin Whitespace => Letters(Append(s, c)) = Append(Letters(s), Upper(c))
<1>1. Append(s, c) = s \o <<c>> /\ <<c>> \in Text
  BY LettersOne, AppendJoin
<1>2. Letters(Append(s, c)) = Letters(s) \o Letters(<<c>>)
  BY <1>1, LettersJoin
<1>3. Letters(s) \in Text /\ Upper(c) \in Nat
  BY LettersAre, UpperIs
<1>4. /\ Append(Letters(s), Upper(c)) = Letters(s) \o <<Upper(c)>>
      /\ Letters(s) \o <<>> = Letters(s)
  BY <1>3, AppendJoin
<1>5. CASE c \in Whitespace
  BY <1>2, <1>4, <1>5, LettersOne
<1>6. CASE c \notin Whitespace
  BY <1>2, <1>4, <1>6, LettersOne
<1>7. QED
  BY <1>5, <1>6

\* Raising a character more.
LEMMA RaisedAppend ==
  ASSUME NEW s \in Text, NEW c \in Nat PROVE Raised(Append(s, c)) = Append(Raised(s), Upper(c))
<1>1. Append(s, c) = s \o <<c>> /\ <<c>> \in Text
  BY LettersOne, AppendJoin
<1>2. Raised(Append(s, c)) = Raised(s) \o Raised(<<c>>)
  BY <1>1, RaisedJoin
<1>3. Raised(<<c>>) = <<Upper(c)>>
  BY DEF Raised
<1>4. Raised(s) \in Text /\ Upper(c) \in Nat
  BY RaisedIsText, UpperIs
<1>5. Append(Raised(s), Upper(c)) = Raised(s) \o <<Upper(c)>>
  BY <1>4, AppendJoin
<1>6. QED
  BY <1>2, <1>3, <1>5

\* A text without its whitespace has the letters it had.
LEMMA LettersOfStripped ==
  ASSUME NEW s \in Text PROVE Letters(Strip(s)) = Letters(s)
<1> DEFINE m == Len(s)
           w == Stripped(s)
           T == {i \in 0..m : Letters(w[i]) = Raised(w[i])}
<1>1. m \in Nat
  BY DEF Text
<1>2. /\ w \in [0..m -> Text] /\ w[0] = <<>>
      /\ \A i \in 1..m : w[i] = IF s[i] \in Whitespace THEN w[i - 1] ELSE Append(w[i - 1], s[i])
  BY StrippedSteps, Zenon
<1>3. \A i \in 1..m : s[i] \in Nat
  BY DEF Text
<1> HIDE DEF w, m
<1>4. 0 \in T
  <2>1. Strip(<<>>) = <<>> /\ <<>> \in Text
    <3>1. <<>> \in Text /\ Len(<<>>) = 0
      BY DEF Text
    <3>2. Stripped(<<>>)[0] = <<>>
      BY <3>1, StrippedSteps, Zenon
    <3>3. QED
      BY <3>1, <3>2 DEF Strip
  <2>2. Letters(<<>>) = Raised(<<>>)
    BY <2>1, LettersAre
  <2>3. QED
    BY <1>1, <1>2, <2>2
<1>5. ASSUME NEW i \in 1..m, i - 1 \in T PROVE i \in T
  <2>1. i - 1 \in 0..m /\ w[i - 1] \in Text /\ Letters(w[i - 1]) = Raised(w[i - 1]) /\ s[i] \in Nat
    BY <1>1, <1>2, <1>3, <1>5
  <2>2. CASE s[i] \in Whitespace
    BY <1>2, <2>1, <2>2
  <2>3. CASE s[i] \notin Whitespace
    <3>1. w[i] = Append(w[i - 1], s[i])
      BY <1>2, <2>3
    <3>2. Letters(w[i]) = Append(Letters(w[i - 1]), Upper(s[i]))
      BY <2>1, <2>3, <3>1, LettersAppend
    <3>3. Raised(w[i]) = Append(Raised(w[i - 1]), Upper(s[i]))
      BY <2>1, <3>1, RaisedAppend
    <3>4. Letters(w[i]) = Raised(w[i])
      BY <2>1, <3>2, <3>3, Zenon
    <3>5. QED
      BY <3>4
  <2>4. QED
    BY <2>2, <2>3
<1> HIDE DEF T
<1>6. \A i \in 0..m : i \in T
  BY <1>1, <1>4, <1>5, BoundedInduction
<1>7. m \in T
  BY <1>1, <1>6
<1>8. Letters(w[m]) = Raised(w[m])
  BY <1>7 DEF T
<1>9. QED
  BY <1>8, LettersAre DEF w, m, Strip

\* Normalising keeps the letters so far, and their order.
LEMMA LettersOfNormalised ==
  ASSUME NEW s \in Text
  PROVE  \A i \in 0..Len(s) : Letters(Normalised(s)[i]) = Raised(Stripped(s)[i])
<1> DEFINE m == Len(s)
           w == Stripped(s)
           z == Normalised(s)
           T == {i \in 0..m : Letters(z[i]) = Raised(w[i])}
<1>1. m \in Nat
  BY DEF Text
<1>2. /\ w \in [0..m -> Text] /\ w[0] = <<>>
      /\ \A i \in 1..m : w[i] = IF s[i] \in Whitespace THEN w[i - 1] ELSE Append(w[i - 1], s[i])
  BY StrippedSteps, Zenon
<1>3. /\ z \in [0..m -> Text] /\ z[0] = <<>>
      /\ \A i \in 1..m : z[i] = IF s[i] \notin Whitespace THEN Append(z[i - 1], Upper(s[i]))
                                ELSE IF EndsField(s, i) THEN Append(z[i - 1], 32)
                                ELSE z[i - 1]
  BY NormalisedSteps, Zenon
<1>4. \A i \in 1..m : s[i] \in Nat
  BY DEF Text
<1> HIDE DEF w, m, z
<1>5. 0 \in T
  <2>1. Strip(<<>>) = <<>> /\ <<>> \in Text
    <3>1. <<>> \in Text /\ Len(<<>>) = 0
      BY DEF Text
    <3>2. Stripped(<<>>)[0] = <<>>
      BY <3>1, StrippedSteps, Zenon
    <3>3. QED
      BY <3>1, <3>2 DEF Strip
  <2>2. Letters(<<>>) = Raised(<<>>)
    BY <2>1, LettersAre
  <2>3. QED
    BY <1>1, <1>2, <1>3, <2>2
<1>6. ASSUME NEW i \in 1..m, i - 1 \in T PROVE i \in T
  <2>1. /\ i - 1 \in 0..m /\ w[i - 1] \in Text /\ z[i - 1] \in Text /\ s[i] \in Nat
        /\ Letters(z[i - 1]) = Raised(w[i - 1])
    BY <1>1, <1>2, <1>3, <1>4, <1>6
  <2>2. CASE s[i] \in Whitespace
    <3>1. w[i] = w[i - 1]
      BY <1>2, <2>2
    <3>2. z[i] = Append(z[i - 1], 32) \/ z[i] = z[i - 1]
      BY <1>3, <2>2
    <3>3. 32 \in Whitespace /\ 32 \in Nat
      BY DEF Whitespace
    <3>4. Letters(z[i]) = Letters(z[i - 1])
      BY <2>1, <3>2, <3>3, LettersAppend
    <3>5. QED
      BY <2>1, <3>1, <3>4
  <2>3. CASE s[i] \notin Whitespace
    <3>1. w[i] = Append(w[i - 1], s[i]) /\ z[i] = Append(z[i - 1], Upper(s[i]))
      BY <1>2, <1>3, <2>3
    <3>2. Upper(s[i]) \in Nat /\ Upper(s[i]) \notin Whitespace /\ Upper(Upper(s[i])) = Upper(s[i])
      BY <2>1, <2>3, UpperIs
    <3>3. Letters(z[i]) = Append(Letters(z[i - 1]), Upper(Upper(s[i])))
      BY <2>1, <3>1, <3>2, LettersAppend
    <3>4. Raised(w[i]) = Append(Raised(w[i - 1]), Upper(s[i]))
      BY <2>1, <3>1, RaisedAppend
    <3>5. Letters(z[i]) = Raised(w[i])
      BY <2>1, <3>2, <3>3, <3>4, Zenon
    <3>6. QED
      BY <3>5
  <2>4. QED
    BY <2>2, <2>3
<1> HIDE DEF T
<1>7. \A i \in 0..m : i \in T
  BY <1>1, <1>5, <1>6, BoundedInduction
<1>8. QED
  BY <1>7 DEF T, w, m, z

\* A seed has the letters of what it was made from.
LEMMA LettersOfSeed ==
  ASSUME NEW s \in Text PROVE Letters(CanonicaliseSeed(s)) = Letters(s)
<1>1. Len(s) \in 0..Len(s)
  BY DEF Text
<1>2. Letters(Normalised(s)[Len(s)]) = Raised(Stripped(s)[Len(s)])
  BY <1>1, LettersOfNormalised, Zenon
<1>3. QED
  BY <1>2, LettersAre DEF Strip, CanonicaliseSeed

\* Folds keep the letters.
LEMMA LettersOfRuleFold ==
  ASSUME NEW r, r.folds \in Seq(STRING), NEW v \in Text
  PROVE  Letters(RuleFold(r, v)) = Letters(v)
<1> DEFINE folds == r.folds
           m == Len(folds)
           w == Folded(folds, v)
           T == {i \in 0..m : Letters(w[i]) = Letters(v)}
<1>1. m \in Nat
  OBVIOUS
<1>2. /\ w \in [0..m -> Text] /\ w[0] = v
      /\ \A i \in 1..m : w[i] = Apply(folds[i], w[i - 1])
  BY FoldedSteps, Zenon
<1> HIDE DEF w, m, folds
<1>3. 0 \in T
  BY <1>1, <1>2
<1>4. ASSUME NEW i \in 1..m, i - 1 \in T PROVE i \in T
  <2>1. i - 1 \in 0..m /\ w[i - 1] \in Text /\ Letters(w[i - 1]) = Letters(v)
    BY <1>1, <1>2, <1>4
  <2>2. w[i] = Strip(w[i - 1]) \/ w[i] = w[i - 1]
    BY <1>2, Zenon DEF Apply, Strip
  <2>3. Letters(w[i]) = Letters(v)
    BY <2>1, <2>2, LettersOfStripped
  <2>4. QED
    BY <2>3
<1> HIDE DEF T
<1>5. \A i \in 0..m : i \in T
  BY <1>1, <1>3, <1>4, BoundedInduction
<1>6. m \in T
  BY <1>1, <1>5
<1>7. QED
  BY <1>6 DEF T, w, m, folds, RuleFold

\* The parts of a pre-image have the letters of the claim as it was stated.
LEMMA LettersOfParts ==
  ASSUME NEW c \in Claim
  PROVE  /\ Letters(Seed(c)) = Letters(c.scheme)
         /\ Letters(Full(c)) = (Letters(c.scheme) \o Letters(<<Colon>>)) \o Letters(c.value)
         /\ Letters(c.scheme) \in Text /\ Letters(<<Colon>>) \in Text /\ Letters(c.value) \in Text
<1> DEFINE f == FoldClaim(c)
<1>1. f \in Claim /\ f.scheme = c.scheme
  BY FoldClaimIs
<1>2. Letters(f.value) = Letters(c.value)
  <2>1. CASE f.value = c.value
    BY <2>1
  <2>2. CASE f.value # c.value
    <3>1. PICK r \in RuleFor(c.scheme) : f.value = RuleFold(r, c.value)
      BY <2>2, FoldClaimIs
    <3>2. r.folds \in Seq(STRING)
      BY RulesHaveFolds
    <3>3. c.value \in Text
      BY DEF Claim
    <3>4. QED
      BY <3>1, <3>2, <3>3, LettersOfRuleFold
  <2>3. QED
    BY <2>1, <2>2
<1> HIDE DEF f
<1>3. /\ f.scheme \in Text /\ f.value \in Text /\ <<Colon>> \in Text
      /\ c.scheme \in Text /\ c.value \in Text
  BY <1>1 DEF Claim, Colon, Text
<1> DEFINE a == f.scheme
           b == <<Colon>>
           v == f.value
           ab == a \o b
           abv == ab \o v
<1>4. Joined(f) = abv
  BY Zenon DEF Joined
<1>5. ab \in Text /\ Letters(ab) = Letters(a) \o Letters(b)
  BY <1>3, Join, LettersJoin
<1>6. abv \in Text /\ Letters(abv) = Letters(ab) \o Letters(v)
  <2> HIDE DEF ab
  <2>1. QED
    BY <1>3, <1>5, Join, LettersJoin
<1>7. Seed(c) = CanonicaliseSeed(a) /\ Full(c) = CanonicaliseSeed(abv)
  BY <1>4, Zenon DEF Seed, Full, f
<1>8. Letters(CanonicaliseSeed(a)) = Letters(a) /\ Letters(CanonicaliseSeed(abv)) = Letters(abv)
  <2> HIDE DEF abv
  <2>1. QED
    BY <1>3, <1>6, LettersOfSeed
<1>9. Letters(a) \in Text /\ Letters(b) \in Text /\ Letters(c.value) \in Text
  BY <1>3, LettersAre
<1>10. QED
  BY <1>1, <1>2, <1>5, <1>6, <1>7, <1>8, <1>9, Zenon

\* Joining is undone.
LEMMA JoinCancels ==
  ASSUME NEW s \in Text, NEW t \in Text, NEW u \in Text, s \o t = s \o u PROVE t = u
<1> DEFINE a == Len(s)
           b == Len(t)
           n == Len(u)
           st == s \o t
           su == s \o u
<1>1. a \in Nat /\ b \in Nat /\ n \in Nat
  BY DEF Text
<1>2. /\ Len(st) = a + b /\ \A i \in 1..b : st[a + i] = t[i]
      /\ Len(su) = a + n /\ \A i \in 1..n : su[a + i] = u[i]
  BY Join, Zenon
<1>3. st = su
  OBVIOUS
<1> HIDE DEF st, su, a, b, n
<1>4. b = n
  BY <1>1, <1>2, <1>3
<1>5. \A i \in 1..b : t[i] = u[i]
  BY <1>2, <1>3, <1>4
<1>6. QED
  BY <1>4, <1>5, SameText DEF b, n

\* Resolution never takes two claims for one unless they are spellings of one
\* claim, whatever the rules: normalising and folding keep every letter and
\* its place, and a frame keeps the scheme apart from the rest.
THEOREM SpellingsAlone == IdentitySpec => []MergesAreSpellings
<1>1. StatedOK => MergesAreSpellings
  <2> SUFFICES ASSUME StatedOK, NEW c \in stated, NEW d \in stated,
                      CanonicalPreimage(c) = CanonicalPreimage(d)
               PROVE  Letters(c.scheme) = Letters(d.scheme) /\ Letters(c.value) = Letters(d.value)
    BY Zenon DEF MergesAreSpellings
  <2>1. c \in Claim /\ d \in Claim
    BY DEF StatedOK
  <2>2. Seed(c) = Seed(d) /\ Full(c) = Full(d)
    BY <2>1, PreimageParts
  <2> DEFINE a == Letters(c.scheme)
             p == Letters(<<Colon>>)
             v == Letters(c.value)
             x == Letters(d.value)
             ap == a \o p
  <2>3. Letters(c.scheme) = Letters(d.scheme)
    BY <2>1, <2>2, LettersOfParts
  <2>4. ap \o v = ap \o x
    BY <2>1, <2>2, <2>3, LettersOfParts
  <2>5. a \in Text /\ p \in Text /\ v \in Text /\ x \in Text
    BY <2>1, LettersOfParts
  <2>6. ap \in Text
    BY <2>5, Join
  <2> HIDE DEF ap, v, x
  <2>7. v = x
    BY <2>4, <2>5, <2>6, JoinCancels
  <2>8. QED
    BY <2>3, <2>7 DEF v, x
<1>2. QED
  BY <1>1, AlwaysStatedOK, PTL

-----------------------------------------------------------------------------
(* The spaces of a text *)

\* How many letters a text has after each of its characters.
Count(s, i) == Len(Stripped(s)[i])

\* Every character but whitespace counts for one.
LEMMA CountSteps ==
  ASSUME NEW s \in Text
  PROVE  /\ Len(s) \in Nat /\ Count(s, 0) = 0 /\ Count(s, Len(s)) = Len(Strip(s))
         /\ \A i \in 0..Len(s) : Count(s, i) \in Nat
         /\ \A i \in 1..Len(s) :
              /\ s[i] \in Whitespace => Count(s, i) = Count(s, i - 1)
              /\ s[i] \notin Whitespace => Count(s, i) = Count(s, i - 1) + 1
<1> DEFINE m == Len(s)
           w == Stripped(s)
<1>1. m \in Nat
  BY DEF Text
<1>2. /\ w \in [0..m -> Text] /\ w[0] = <<>>
      /\ \A i \in 1..m : w[i] = IF s[i] \in Whitespace THEN w[i - 1] ELSE Append(w[i - 1], s[i])
  BY StrippedSteps, Zenon
<1>3. \A i \in 1..m : s[i] \in Nat
  BY DEF Text
<1>4. Count(s, m) = Len(Strip(s)) /\ \A i \in 0..m : Count(s, i) = Len(w[i])
  BY Zenon DEF Count, Strip
<1> HIDE DEF w, m
<1>5. ASSUME NEW i \in 0..m PROVE Len(w[i]) \in Nat
  BY <1>2 DEF Text
<1>6. ASSUME NEW i \in 1..m
      PROVE  /\ s[i] \in Whitespace => Len(w[i]) = Len(w[i - 1])
             /\ s[i] \notin Whitespace => Len(w[i]) = Len(w[i - 1]) + 1
  <2>1. i - 1 \in 0..m
    BY <1>1
  <2>2. w[i - 1] \in Text /\ s[i] \in Nat
    BY <1>2, <1>3, <2>1
  <2>3. Len(Append(w[i - 1], s[i])) = Len(w[i - 1]) + 1
    BY <2>2, OneMore
  <2>4. QED
    BY <1>2, <2>3
<1>7. Len(w[0]) = 0
  BY <1>2
<1>8. \A i \in 1..m : i \in 0..m /\ i - 1 \in 0..m
  BY <1>1
<1>9. 0 \in 0..m
  BY <1>1
<1>10. QED
  BY <1>1, <1>4, <1>5, <1>6, <1>7, <1>8, <1>9 DEF m

\* The number of letters never falls, and a letter raises it.
LEMMA CountGrows ==
  ASSUME NEW s \in Text, NEW j \in 0..Len(s)
  PROVE  \A i \in 0..j :
           /\ Count(s, i) <= Count(s, j)
           /\ \A p \in (i + 1)..j : s[p] \notin Whitespace => Count(s, i) < Count(s, j)
<1> DEFINE m == Len(s)
           C(i) == Count(s, i)
           L(i, n) == \E p \in (i + 1)..n : s[p] \notin Whitespace
           T == {n \in 0..m : \A i \in 0..n : C(i) <= C(n) /\ (L(i, n) => C(i) < C(n))}
<1>1. /\ m \in Nat
      /\ \A i \in 0..m : C(i) \in Nat
      /\ \A i \in 1..m : /\ s[i] \in Whitespace => C(i) = C(i - 1)
                         /\ s[i] \notin Whitespace => C(i) = C(i - 1) + 1
  BY CountSteps
<1> HIDE DEF C, m
<1>2. 0 \in T
  BY <1>1
<1>3. ASSUME NEW n \in 1..m, n - 1 \in T PROVE n \in T
  <2> SUFFICES ASSUME NEW i \in 0..n PROVE C(i) <= C(n) /\ (L(i, n) => C(i) < C(n))
    BY <1>1
  <2>1. CASE i = n
    BY <1>1, <2>1
  <2>2. CASE i # n
    <3>1. i \in 0..(n - 1) /\ i \in 0..m /\ n - 1 \in 0..m /\ n \in 0..m
      BY <1>1, <2>2
    <3>2. C(i) \in Nat /\ C(n) \in Nat /\ C(n - 1) \in Nat
      BY <1>1, <3>1
    <3>3. C(i) <= C(n - 1) /\ (L(i, n - 1) => C(i) < C(n - 1))
      BY <1>3, <3>1
    <3>4. CASE s[n] \in Whitespace
      <4>1. C(n) = C(n - 1)
        BY <1>1, <3>4
      <4>2. L(i, n) => L(i, n - 1)
        <5> SUFFICES ASSUME NEW p \in (i + 1)..n, s[p] \notin Whitespace PROVE L(i, n - 1)
          OBVIOUS
        <5>1. p # n
          BY <3>4
        <5>2. p \in (i + 1)..(n - 1)
          BY <1>1, <5>1
        <5>3. QED
          BY <5>2
      <4>3. QED
        BY <3>3, <4>1, <4>2
    <3>5. CASE s[n] \notin Whitespace
      <4>1. C(n) = C(n - 1) + 1
        BY <1>1, <3>5
      <4>2. C(i) < C(n)
        BY <3>2, <3>3, <4>1
      <4>3. QED
        BY <3>2, <4>2
    <3>6. QED
      BY <3>4, <3>5
  <2>3. QED
    BY <2>1, <2>2
<1> HIDE DEF T
<1>4. \A n \in 0..m : n \in T
  BY <1>1, <1>2, <1>3, BoundedInduction
<1>5. j \in T
  BY <1>4 DEF m
<1>6. QED
  BY <1>5 DEF T, C

\* Where the number of letters rises there is a letter.
LEMMA CountRises ==
  ASSUME NEW s \in Text, NEW j \in 0..Len(s), NEW i \in 0..j, Count(s, i) # Count(s, j)
  PROVE  \E p \in (i + 1)..j : s[p] \notin Whitespace
<1> SUFFICES ASSUME \A p \in (i + 1)..j : s[p] \in Whitespace PROVE FALSE
  OBVIOUS
<1> DEFINE T == {n \in 0..j : n >= i => Count(s, n) = Count(s, i)}
<1>1. Len(s) \in Nat /\ \A n \in 1..Len(s) : s[n] \in Whitespace => Count(s, n) = Count(s, n - 1)
  BY CountSteps
<1>2. j \in Nat /\ i \in Nat /\ j \in 0..j
  BY <1>1
<1>3. 0 \in T
  BY <1>2
<1>4. ASSUME NEW n \in 1..j, n - 1 \in T PROVE n \in T
  <2>1. CASE n > i
    <3>1. n \in (i + 1)..j /\ n \in 1..Len(s) /\ n - 1 >= i
      BY <1>1, <1>2, <2>1
    <3>2. Count(s, n) = Count(s, n - 1)
      BY <1>1, <3>1
    <3>3. QED
      BY <1>4, <3>1, <3>2
  <2>2. CASE n <= i
    BY <1>2, <2>2
  <2>3. QED
    BY <1>2, <2>1, <2>2
<1> HIDE DEF T
<1>5. \A n \in 0..j : n \in T
  BY <1>2, <1>3, <1>4, BoundedInduction
<1>6. j \in T
  BY <1>2, <1>5
<1>7. QED
  BY <1>2, <1>6 DEF T

\* The numbers of letters before each whitespace, space at the end included.
Breaks(s) == {Count(s, i - 1) : i \in {j \in 1..Len(s) : s[j] \in Whitespace}}

\* The gaps of a text are where it breaks before its last letter.
LEMMA GapsAre ==
  ASSUME NEW s \in Text PROVE Gaps(s) = Breaks(s) \ {Count(s, Len(s))}
<1> DEFINE m == Len(s)
           D == {j \in DOMAIN s : s[j] \in Whitespace}
           E == {j \in 1..m : s[j] \in Whitespace}
<1>1. m \in Nat /\ DOMAIN s = 1..m
  BY DEF Text
<1>2. Len(Letters(s)) = Count(s, m)
  BY LettersAre, StripIsText, RaisedIsText, CountSteps
<1>3. ASSUME NEW i \in 1..m PROVE Len(Letters(SubSeq(s, 1, i - 1))) = Count(s, i - 1)
  <2> DEFINE t == SubSeq(s, 1, i - 1)
  <2>1. t \in Text /\ Len(t) = i - 1 /\ \A k \in 1..(i - 1) : t[k] = s[k]
    BY <1>1 DEF Text
  <2> HIDE DEF t
  <2>2. i - 1 \in Nat /\ i - 1 <= Len(s) /\ i - 1 <= Len(t)
    BY <1>1, <2>1
  <2>3. Stripped(t)[i - 1] = Stripped(s)[i - 1]
    BY <2>1, <2>2, StripPrefix
  <2>4. Len(Letters(t)) = Len(Strip(t))
    BY <2>1, LettersAre, StripIsText, RaisedIsText
  <2>5. Strip(t) = Stripped(s)[i - 1]
    BY <2>1, <2>3 DEF Strip
  <2>6. QED
    BY <2>4, <2>5 DEF Count, t
<1>4. D = E
  BY <1>1
<1>5. {Len(Letters(SubSeq(s, 1, i - 1))) : i \in D} = {Count(s, i - 1) : i \in E}
  <2>1. \A i \in E : Len(Letters(SubSeq(s, 1, i - 1))) = Count(s, i - 1)
    BY <1>3
  <2> HIDE DEF D, E
  <2>2. QED
    BY <1>4, <2>1, Zenon
<1>6. QED
  BY <1>2, <1>5, Zenon DEF Gaps, Breaks

\* The letters of a text after another are counted on top of the other's.
LEMMA CountJoin ==
  ASSUME NEW s \in Text, NEW t \in Text
  PROVE  /\ \A i \in 0..Len(s) : Count(s \o t, i) = Count(s, i)
         /\ \A i \in 0..Len(t) : Count(s \o t, Len(s) + i) = Count(s, Len(s)) + Count(t, i)
<1> DEFINE a == Len(s)
           b == Len(t)
           st == s \o t
           T == {i \in 0..b : Count(st, a + i) = Count(s, a) + Count(t, i)}
<1>1. a \in Nat /\ b \in Nat
  BY DEF Text
<1>2. /\ st \in Text /\ Len(st) = a + b
      /\ \A i \in 1..a : st[i] = s[i]
      /\ \A i \in 1..b : st[a + i] = t[i]
  BY Join
<1> HIDE DEF st
<1>3. ASSUME NEW i \in 0..a PROVE Count(st, i) = Count(s, i)
  <2>1. i \in Nat /\ i <= Len(st) /\ i <= Len(s)
    BY <1>1, <1>2
  <2>2. \A k \in 1..i : st[k] = s[k]
    BY <1>1, <1>2
  <2>3. Stripped(st)[i] = Stripped(s)[i]
    BY <1>2, <2>1, <2>2, StripPrefix
  <2>4. QED
    BY <2>3 DEF Count
<1>4. /\ Count(t, 0) = 0 /\ Count(s, a) \in Nat
      /\ \A i \in 0..b : Count(t, i) \in Nat
      /\ \A i \in 1..b : /\ t[i] \in Whitespace => Count(t, i) = Count(t, i - 1)
                         /\ t[i] \notin Whitespace => Count(t, i) = Count(t, i - 1) + 1
  BY <1>1, CountSteps
<1>5. \A i \in 1..Len(st) : /\ st[i] \in Whitespace => Count(st, i) = Count(st, i - 1)
                            /\ st[i] \notin Whitespace => Count(st, i) = Count(st, i - 1) + 1
  BY <1>2, CountSteps
<1>6. Count(st, a) = Count(s, a)
  BY <1>1, <1>3
<1> HIDE DEF a, b
<1>7. 0 \in T
  BY <1>1, <1>4, <1>6
<1>8. ASSUME NEW i \in 1..b, i - 1 \in T PROVE i \in T
  <2>1. a + i \in 1..Len(st) /\ (a + i) - 1 = a + (i - 1) /\ i - 1 \in 0..b /\ i \in 0..b
    BY <1>1, <1>2
  <2>2. Count(st, a + (i - 1)) = Count(s, a) + Count(t, i - 1)
    BY <1>8
  <2>3. st[a + i] = t[i]
    BY <1>2
  <2>4. /\ st[a + i] \in Whitespace => Count(st, a + i) = Count(st, a + (i - 1))
        /\ st[a + i] \notin Whitespace => Count(st, a + i) = Count(st, a + (i - 1)) + 1
    BY <1>5, <2>1
  <2>5. Count(t, i - 1) \in Nat
    BY <1>4, <2>1
  <2>6. CASE t[i] \in Whitespace
    BY <1>4, <2>2, <2>3, <2>4, <2>6
  <2>7. CASE t[i] \notin Whitespace
    <3>1. Count(st, a + i) = (Count(s, a) + Count(t, i - 1)) + 1 /\ Count(t, i) = Count(t, i - 1) + 1
      BY <1>4, <2>2, <2>3, <2>4, <2>7
    <3>2. Count(st, a + i) = Count(s, a) + Count(t, i)
      BY <1>4, <2>5, <3>1
    <3>3. QED
      BY <3>2
  <2>8. QED
    BY <2>6, <2>7
<1> HIDE DEF T
<1>9. \A i \in 0..b : i \in T
  BY <1>1, <1>7, <1>8, BoundedInduction
<1>10. \A i \in 0..b : Count(st, a + i) = Count(s, a) + Count(t, i)
  BY <1>9 DEF T
<1>11. QED
  BY <1>3, <1>10 DEF a, b, st

\* A text breaks where its parts do.
LEMMA BreaksJoin ==
  ASSUME NEW s \in Text, NEW t \in Text
  PROVE  Breaks(s \o t) = Breaks(s) \union {Count(s, Len(s)) + n : n \in Breaks(t)}
<1> DEFINE a == Len(s)
           b == Len(t)
           st == s \o t
           U == {Count(s, a) + n : n \in Breaks(t)}
<1>1. a \in Nat /\ b \in Nat
  BY DEF Text
<1>2. /\ st \in Text /\ Len(st) = a + b
      /\ \A i \in 1..a : st[i] = s[i]
      /\ \A i \in 1..b : st[a + i] = t[i]
  BY Join
<1>3. /\ \A i \in 0..a : Count(st, i) = Count(s, i)
      /\ \A i \in 0..b : Count(st, a + i) = Count(s, a) + Count(t, i)
  BY CountJoin
<1>4. /\ Breaks(s) = {Count(s, i - 1) : i \in {j \in 1..a : s[j] \in Whitespace}}
      /\ Breaks(t) = {Count(t, i - 1) : i \in {j \in 1..b : t[j] \in Whitespace}}
  BY DEF Breaks
<1> HIDE DEF st, a, b
<1>5. Breaks(st) = {Count(st, i - 1) : i \in {j \in 1..(a + b) : st[j] \in Whitespace}}
  BY <1>2 DEF Breaks
<1>6. ASSUME NEW x \in Breaks(st) PROVE x \in Breaks(s) \union U
  <2>1. PICK i \in 1..(a + b) : st[i] \in Whitespace /\ x = Count(st, i - 1)
    BY <1>5
  <2>2. CASE i <= a
    <3>1. i \in 1..a /\ i - 1 \in 0..a
      BY <1>1, <2>2
    <3>2. s[i] \in Whitespace /\ x = Count(s, i - 1)
      BY <1>2, <1>3, <2>1, <3>1
    <3>3. QED
      BY <1>4, <3>1, <3>2
  <2>3. CASE i > a
    <3>1. PICK k \in 1..b : i = a + k
      <4>1. i - a \in 1..b /\ i = a + (i - a)
        BY <1>1, <2>3
      <4>2. QED
        BY <4>1
    <3>2. k - 1 \in 0..b /\ i - 1 = a + (k - 1)
      BY <1>1, <3>1
    <3>3. t[k] \in Whitespace /\ x = Count(s, a) + Count(t, k - 1)
      BY <1>2, <1>3, <2>1, <3>1, <3>2
    <3>4. Count(t, k - 1) \in Breaks(t)
      BY <1>4, <3>3
    <3>5. QED
      BY <3>3, <3>4
  <2>4. QED
    BY <1>1, <2>2, <2>3
<1>7. ASSUME NEW x \in Breaks(s) PROVE x \in Breaks(st)
  <2>1. PICK i \in 1..a : s[i] \in Whitespace /\ x = Count(s, i - 1)
    BY <1>4
  <2>2. i \in 1..(a + b) /\ i - 1 \in 0..a
    BY <1>1
  <2>3. st[i] \in Whitespace /\ x = Count(st, i - 1)
    BY <1>2, <1>3, <2>1, <2>2
  <2>4. QED
    BY <1>5, <2>2, <2>3
<1>8. ASSUME NEW x \in U PROVE x \in Breaks(st)
  <2>1. PICK n \in Breaks(t) : x = Count(s, a) + n
    OBVIOUS
  <2>2. PICK k \in 1..b : t[k] \in Whitespace /\ n = Count(t, k - 1)
    BY <1>4
  <2>3. a + k \in 1..(a + b) /\ (a + k) - 1 = a + (k - 1) /\ k - 1 \in 0..b
    BY <1>1
  <2>4. st[a + k] \in Whitespace /\ x = Count(st, (a + k) - 1)
    BY <1>2, <1>3, <2>1, <2>2, <2>3
  <2>5. QED
    BY <1>5, <2>3, <2>4
<1> HIDE DEF U
<1>9. Breaks(st) = Breaks(s) \union U
  BY <1>6, <1>7, <1>8
<1>10. QED
  BY <1>9 DEF st, U, a

\* A character more breaks a text when it is whitespace.
LEMMA BreaksAppend ==
  ASSUME NEW s \in Text, NEW c \in Nat
  PROVE  /\ c \in Whitespace => Breaks(Append(s, c)) = Breaks(s) \union {Count(s, Len(s))}
         /\ c \notin Whitespace => Breaks(Append(s, c)) = Breaks(s)
<1> DEFINE k == Count(s, Len(s))
           t == <<c>>
<1>1. Append(s, c) = s \o t /\ t \in Text
  BY LettersOne, AppendJoin
<1>2. Breaks(Append(s, c)) = Breaks(s) \union {k + n : n \in Breaks(t)}
  BY <1>1, BreaksJoin
<1>3. k \in Nat
  BY CountSteps
<1>4. Len(t) = 1 /\ t[1] = c /\ Count(t, 0) = 0
  BY <1>1, CountSteps
<1> HIDE DEF k, t
<1>5. CASE c \in Whitespace
  <2>1. Breaks(t) = {0}
    BY <1>4, <1>5 DEF Breaks
  <2>2. {k + n : n \in Breaks(t)} = {k}
    BY <1>3, <2>1
  <2>3. QED
    BY <1>2, <1>5, <2>2 DEF k
<1>6. CASE c \notin Whitespace
  <2>1. Breaks(t) = {}
    BY <1>4, <1>6 DEF Breaks
  <2>2. QED
    BY <1>2, <1>6, <2>1
<1>7. QED
  BY <1>5, <1>6

\* The numbers of letters before each space that normalising keeps.
Ends(s, i) == {Count(s, j - 1) : j \in {n \in 1..i : EndsField(s, n)}}

\* A normalised text breaks where a field ends and another is to come.
LEMMA BreaksOfSeed ==
  ASSUME NEW s \in Text
  PROVE  /\ CanonicaliseSeed(s) \in Text
         /\ Breaks(CanonicaliseSeed(s)) = Ends(s, Len(s))
         /\ Count(CanonicaliseSeed(s), Len(CanonicaliseSeed(s))) = Count(s, Len(s))
<1> DEFINE m == Len(s)
           z == Normalised(s)
           T == {i \in 0..m : Breaks(z[i]) = Ends(s, i)}
<1>1. m \in Nat
  BY DEF Text
<1>2. /\ z \in [0..m -> Text] /\ z[0] = <<>>
      /\ \A i \in 1..m : z[i] = IF s[i] \notin Whitespace THEN Append(z[i - 1], Upper(s[i]))
                                ELSE IF EndsField(s, i) THEN Append(z[i - 1], 32)
                                ELSE z[i - 1]
  BY NormalisedSteps, Zenon
<1>3. \A i \in 1..m : s[i] \in Nat
  BY DEF Text
<1>4. ASSUME NEW i \in 0..m PROVE Count(z[i], Len(z[i])) = Count(s, i)
  <2>1. z[i] \in Text
    BY <1>2
  <2>2. Letters(z[i]) = Raised(Stripped(s)[i])
    BY LettersOfNormalised, Zenon
  <2>3. Stripped(s)[i] \in Text
    <3>1. Stripped(s) \in [0..m -> Text]
      BY StrippedSteps, Zenon
    <3>2. QED
      BY <3>1
  <2> HIDE DEF z
  <2>4. Letters(z[i]) = Raised(Strip(z[i])) /\ Strip(z[i]) \in Text
    BY <2>1, LettersAre, StripIsText
  <2>5. Len(Raised(Strip(z[i]))) = Len(Strip(z[i])) /\ Len(Raised(Stripped(s)[i])) = Len(Stripped(s)[i])
    BY <2>3, <2>4, RaisedIsText
  <2>6. Count(z[i], Len(z[i])) = Len(Strip(z[i]))
    BY <2>1, CountSteps
  <2>7. QED
    BY <2>2, <2>4, <2>5, <2>6 DEF Count
<1> HIDE DEF m, z
<1>5. 0 \in T
  <2>1. Breaks(z[0]) = {}
    BY <1>2 DEF Breaks
  <2>2. Ends(s, 0) = {}
    BY DEF Ends
  <2>3. QED
    BY <1>1, <2>1, <2>2
<1>6. ASSUME NEW i \in 1..m, i - 1 \in T PROVE i \in T
  <2>1. i - 1 \in 0..m /\ z[i - 1] \in Text /\ s[i] \in Nat /\ Breaks(z[i - 1]) = Ends(s, i - 1)
    BY <1>1, <1>2, <1>3, <1>6
  <2>2. Count(z[i - 1], Len(z[i - 1])) = Count(s, i - 1)
    BY <1>4, <2>1
  <2> DEFINE E == {n \in 1..i : EndsField(s, n)}
             F == {n \in 1..(i - 1) : EndsField(s, n)}
  <2>3. Ends(s, i) = {Count(s, j - 1) : j \in E} /\ Ends(s, i - 1) = {Count(s, j - 1) : j \in F}
    BY DEF Ends
  <2>4. CASE EndsField(s, i)
    <3>1. s[i] \in Whitespace
      BY <2>4 DEF EndsField
    <3>2. z[i] = Append(z[i - 1], 32)
      BY <1>2, <2>4, <3>1
    <3>3. 32 \in Whitespace /\ 32 \in Nat
      BY DEF Whitespace
    <3>4. Breaks(z[i]) = Ends(s, i - 1) \union {Count(s, i - 1)}
      BY <2>1, <2>2, <3>2, <3>3, BreaksAppend
    <3>5. E = F \union {i}
      BY <1>1, <2>4
    <3> HIDE DEF E, F
    <3>6. Ends(s, i) = Ends(s, i - 1) \union {Count(s, i - 1)}
      BY <2>3, <3>5, Zenon
    <3>7. Breaks(z[i]) = Ends(s, i) /\ i \in 0..m
      <4>1. i \in 0..m
        BY <1>1
      <4> HIDE DEF T
      <4>2. QED
        BY <3>4, <3>6, <4>1, Zenon
    <3>8. QED
      BY <3>7
  <2>5. CASE ~EndsField(s, i)
    <3>1. E = F
      BY <1>1, <2>5
    <3> HIDE DEF E, F
    <3>2. Ends(s, i) = Ends(s, i - 1)
      BY <2>3, <3>1
    <3>3. Upper(s[i]) \in Nat /\ (s[i] \notin Whitespace => Upper(s[i]) \notin Whitespace)
      BY <2>1, UpperIs
    <3>4. z[i] = z[i - 1] \/ (s[i] \notin Whitespace /\ z[i] = Append(z[i - 1], Upper(s[i])))
      <4>1. z[i] = IF s[i] \notin Whitespace THEN Append(z[i - 1], Upper(s[i]))
                   ELSE IF EndsField(s, i) THEN Append(z[i - 1], 32)
                   ELSE z[i - 1]
        BY <1>2, Zenon
      <4>2. CASE s[i] \in Whitespace
        BY <2>5, <4>1, <4>2, Zenon
      <4>3. CASE s[i] \notin Whitespace
        BY <4>1, <4>3, Zenon
      <4>4. QED
        BY <4>2, <4>3, Zenon
    <3>5. Breaks(z[i]) = Breaks(z[i - 1])
      BY <2>1, <3>3, <3>4, BreaksAppend
    <3>6. QED
      BY <1>1, <2>1, <3>2, <3>5
  <2>6. QED
    BY <2>4, <2>5
<1> HIDE DEF T
<1>7. \A i \in 0..m : i \in T
  BY <1>1, <1>5, <1>6, BoundedInduction
<1>8. m \in T /\ m \in 0..m
  BY <1>1, <1>7
<1>9. z[m] \in Text /\ Breaks(z[m]) = Ends(s, m) /\ Count(z[m], Len(z[m])) = Count(s, m)
  BY <1>2, <1>4, <1>8 DEF T
<1>10. QED
  BY <1>9 DEF m, z, CanonicaliseSeed

\* A space is kept exactly when it is between two letters, one before it at
\* least: of every run of whitespace, its first.
LEMMA EndsAreGaps ==
  ASSUME NEW s \in Text PROVE Ends(s, Len(s)) = Gaps(s) \ {0}
<1> DEFINE m == Len(s)
           C(i) == Count(s, i)
<1>1. /\ m \in Nat /\ C(0) = 0
      /\ \A i \in 0..m : C(i) \in Nat
      /\ \A i \in 1..m : /\ s[i] \in Whitespace => C(i) = C(i - 1)
                         /\ s[i] \notin Whitespace => C(i) = C(i - 1) + 1
  BY CountSteps
<1>2. Gaps(s) = {C(i - 1) : i \in {j \in 1..m : s[j] \in Whitespace}} \ {C(m)}
  BY GapsAre DEF Breaks
<1>3. Ends(s, m) = {C(j - 1) : j \in {n \in 1..m : EndsField(s, n)}}
  BY DEF Ends
<1>4. ASSUME NEW x \in Ends(s, m) PROVE x \in Gaps(s) \ {0}
  <2>1. PICK i \in 1..m : EndsField(s, i) /\ x = C(i - 1)
    BY <1>3
  <2>2. /\ s[i] \in Whitespace /\ i > 1 /\ s[i - 1] \notin Whitespace
        /\ \E j \in i..m : s[j] \notin Whitespace
    BY <2>1 DEF EndsField
  <2>3. PICK j \in i..m : s[j] \notin Whitespace
    BY <2>2
  <2>4. i - 1 \in 1..m /\ i - 1 \in 0..m /\ (i - 1) - 1 \in 0..m
    BY <1>1, <2>2
  <2>5. x # 0
    <3>1. C(i - 1) = C((i - 1) - 1) + 1 /\ C((i - 1) - 1) \in Nat
      BY <1>1, <2>2, <2>4
    <3>2. QED
      BY <2>1, <3>1
  <2>6. C(i - 1) < C(m)
    <3>1. m \in 0..Len(s) /\ i - 1 \in 0..m /\ j \in ((i - 1) + 1)..m
      BY <1>1, <2>3, <2>4
    <3>2. QED
      BY <2>3, <3>1, CountGrows
  <2>7. C(i - 1) # C(m)
    BY <1>1, <2>4, <2>6
  <2>8. QED
    BY <1>2, <2>1, <2>2, <2>5, <2>7
<1>5. ASSUME NEW x \in Gaps(s) \ {0} PROVE x \in Ends(s, m)
  <2>1. PICK i \in 1..m : s[i] \in Whitespace /\ x = C(i - 1)
    BY <1>2
  <2>2. x # C(m) /\ x # 0
    BY <1>2
  <2> DEFINE T == {n \in 0..m : C(n) = x}
  <2>3. i - 1 \in T /\ T \in SUBSET Nat
    BY <1>1, <2>1
  <2> HIDE DEF C
  <2>4. PICK n \in T : \A y \in T : n <= y
    <3> HIDE DEF T
    <3>1. T # {}
      BY <2>3
    <3>2. QED
      BY <2>3, <3>1, LeastNatural
  <2>5. n \in 0..m /\ C(n) = x /\ n <= i - 1
    BY <2>3, <2>4
  <2>6. n # 0 /\ n # m
    BY <1>1, <2>2, <2>5
  <2>7. n \in 1..m /\ n - 1 \in 0..m /\ n + 1 \in 1..m
    BY <1>1, <2>5, <2>6
  <2>8. s[n] \notin Whitespace
    <3> SUFFICES ASSUME s[n] \in Whitespace PROVE FALSE
      OBVIOUS
    <3>1. C(n - 1) = x
      BY <1>1, <2>5, <2>7
    <3>2. n - 1 \in T
      BY <2>7, <3>1
    <3>3. QED
      BY <1>1, <2>4, <2>7, <3>2
  <2>9. s[n + 1] \in Whitespace
    <3>1. CASE n = i - 1
      <4>1. n + 1 = i
        BY <1>1, <3>1
      <4>2. QED
        BY <2>1, <4>1
    <3>2. CASE n # i - 1
      <4> SUFFICES ASSUME s[n + 1] \notin Whitespace PROVE FALSE
        OBVIOUS
      <4>1. i - 1 \in 0..Len(s) /\ n \in 0..(i - 1) /\ n + 1 \in (n + 1)..(i - 1)
        BY <1>1, <2>5, <2>7, <3>2
      <4>2. C(n) < C(i - 1)
        BY <4>1, CountGrows DEF C
      <4>3. C(n) \in Nat /\ C(n) = C(i - 1)
        BY <1>1, <2>1, <2>5
      <4>4. QED
        BY <4>2, <4>3
    <3>3. QED
      BY <3>1, <3>2
  <2>10. \E j \in (n + 1)..m : s[j] \notin Whitespace
    <3>1. m \in 0..Len(s) /\ n \in 0..m
      BY <1>1, <2>5
    <3>2. Count(s, n) # Count(s, m)
      BY <2>2, <2>5 DEF C
    <3> HIDE DEF m
    <3>3. QED
      BY <3>1, <3>2, CountRises
  <2>11. (n + 1) - 1 = n /\ n + 1 > 1
    BY <1>1, <2>7
  <2>12. EndsField(s, n + 1)
    BY <2>8, <2>9, <2>10, <2>11 DEF EndsField
  <2>13. QED
    BY <1>3, <2>5, <2>7, <2>11, <2>12
<1>6. QED
  BY <1>4, <1>5

\* Normalising keeps the gaps, a gap before the first letter left out.
LEMMA GapsOfSeed ==
  ASSUME NEW s \in Text PROVE Gaps(CanonicaliseSeed(s)) = Gaps(s) \ {0}
<1> DEFINE t == CanonicaliseSeed(s)
<1>1. t \in Text /\ Breaks(t) = Ends(s, Len(s)) /\ Count(t, Len(t)) = Count(s, Len(s))
  BY BreaksOfSeed
<1>2. Gaps(t) = Breaks(t) \ {Count(t, Len(t))}
  BY <1>1, GapsAre
<1>3. Gaps(s) = Breaks(s) \ {Count(s, Len(s))}
  BY GapsAre
<1>4. QED
  BY <1>1, <1>2, <1>3, EndsAreGaps

\* The gaps of a text after one that ends in a letter are counted on top.
LEMMA GapsJoin ==
  ASSUME NEW s \in Text, NEW t \in Text, s # <<>>, s[Len(s)] \notin Whitespace
  PROVE  /\ Count(s, Len(s)) \in Nat /\ Count(s, Len(s)) > 0
         /\ Gaps(t) \subseteq Nat
         /\ \A n \in Nat : n \in Gaps(t) <=> Count(s, Len(s)) + n \in Gaps(s \o t)
<1> DEFINE a == Len(s)
           b == Len(t)
           k == Count(s, a)
           e == Count(t, b)
           st == s \o t
           U == {k + n : n \in Breaks(t)}
<1>1. a \in Nat /\ a > 0 /\ b \in Nat
  BY DEF Text
<1>2. /\ k \in Nat /\ e \in Nat /\ Count(s, 0) = 0
      /\ \A i \in 0..a : Count(s, i) \in Nat
      /\ \A i \in 0..b : Count(t, i) \in Nat
  BY <1>1, CountSteps
<1>3. ASSUME NEW i \in 0..(a - 1) PROVE Count(s, i) < k
  <2>1. a \in 0..Len(s) /\ i \in 0..a /\ a \in (i + 1)..a
    BY <1>1
  <2>2. QED
    BY <2>1, CountGrows
<1>4. k > 0
  BY <1>1, <1>2, <1>3
<1>5. Breaks(s) = {Count(s, i - 1) : i \in {j \in 1..a : s[j] \in Whitespace}}
  BY DEF Breaks
<1>6. Breaks(t) \subseteq Nat
  <2>1. Breaks(t) = {Count(t, i - 1) : i \in {j \in 1..b : t[j] \in Whitespace}}
    BY DEF Breaks
  <2>2. \A i \in 1..b : Count(t, i - 1) \in Nat
    BY <1>1, <1>2
  <2>3. QED
    BY <2>1, <2>2
<1>7. ASSUME NEW x \in Breaks(s) PROVE x \in Nat /\ x < k
  <2>1. PICK i \in 1..a : x = Count(s, i - 1)
    BY <1>5
  <2>2. i - 1 \in 0..(a - 1) /\ i - 1 \in 0..a
    BY <1>1
  <2>3. QED
    BY <1>2, <1>3, <2>1, <2>2
<1>8. Gaps(t) = Breaks(t) \ {e}
  BY GapsAre
<1>9. Gaps(st) = (Breaks(s) \union U) \ {k + e}
  <2>1. st \in Text /\ Len(st) = a + b
    BY Join
  <2>2. Breaks(st) = Breaks(s) \union U
    BY BreaksJoin
  <2>3. Count(st, a + b) = k + e
    <3>1. b \in 0..b
      BY <1>1
    <3>2. QED
      BY <3>1, CountJoin
  <2>4. Gaps(st) = Breaks(st) \ {Count(st, Len(st))}
    BY <2>1, GapsAre
  <2> HIDE DEF st, U
  <2>5. QED
    BY <2>1, <2>2, <2>3, <2>4
<1> HIDE DEF a, b, k, e, st
<1>10. ASSUME NEW n \in Nat PROVE n \in Gaps(t) <=> k + n \in Gaps(st)
  <2>1. k + n \notin Breaks(s)
    BY <1>2, <1>7
  <2>2. k + n \in U <=> n \in Breaks(t)
    <3>1. ASSUME k + n \in U PROVE n \in Breaks(t)
      <4>1. PICK x \in Breaks(t) : k + n = k + x
        BY <3>1
      <4>2. x = n
        BY <1>2, <1>6, <4>1
      <4>3. QED
        BY <4>2
    <3>2. QED
      BY <3>1
  <2>3. k + n = k + e <=> n = e
    BY <1>2
  <2> HIDE DEF U
  <2>4. QED
    BY <1>8, <1>9, <2>1, <2>2, <2>3
<1>11. QED
  BY <1>2, <1>4, <1>6, <1>8, <1>10 DEF a, k, st

\* A text without whitespace.
Solid(s) == \A i \in DOMAIN s : s[i] \notin Whitespace

\* It is what stripping leaves of it.
LEMMA SolidStrip ==
  ASSUME NEW s \in Text, Solid(s) PROVE Strip(s) = s
<1> DEFINE m == Len(s)
           w == Stripped(s)
           T == {i \in 0..m : Len(w[i]) = i /\ \A k \in 1..i : w[i][k] = s[k]}
<1>1. m \in Nat
  BY DEF Text
<1>2. /\ w \in [0..m -> Text] /\ w[0] = <<>>
      /\ \A i \in 1..m : w[i] = IF s[i] \in Whitespace THEN w[i - 1] ELSE Append(w[i - 1], s[i])
  BY StrippedSteps, Zenon
<1>3. \A i \in 1..m : s[i] \in Nat /\ s[i] \notin Whitespace
  BY DEF Text, Solid
<1> HIDE DEF w, m
<1>4. 0 \in T
  BY <1>1, <1>2
<1>5. ASSUME NEW i \in 1..m, i - 1 \in T PROVE i \in T
  <2>1. /\ i - 1 \in 0..m /\ w[i - 1] \in Text /\ s[i] \in Nat
        /\ Len(w[i - 1]) = i - 1 /\ \A k \in 1..(i - 1) : w[i - 1][k] = s[k]
    BY <1>1, <1>2, <1>3, <1>5
  <2>2. w[i] = Append(w[i - 1], s[i])
    BY <1>2, <1>3
  <2> DEFINE x == w[i - 1]
             c == s[i]
             y == Append(x, c)
  <2>3. /\ Len(y) = Len(x) + 1
        /\ \A k \in 1..Len(x) : y[k] = x[k]
        /\ y[Len(x) + 1] = c
    BY <2>1, OneMore, Zenon
  <2>4. Len(x) = i - 1 /\ (i - 1) + 1 = i
    BY <1>1, <2>1
  <2> HIDE DEF x, c, y
  <2>5. Len(y) = i /\ y[i] = c /\ \A k \in 1..(i - 1) : y[k] = x[k]
    BY <2>3, <2>4
  <2>6. w[i] = y /\ c = s[i] /\ \A k \in 1..(i - 1) : x[k] = s[k]
    BY <2>1, <2>2 DEF x, y, c
  <2>7. \A k \in 1..i : k = i \/ k \in 1..(i - 1)
    BY <1>1
  <2>8. Len(w[i]) = i /\ \A k \in 1..i : w[i][k] = s[k]
    BY <2>5, <2>6, <2>7
  <2>9. QED
    BY <1>1, <2>8
<1> HIDE DEF T
<1>6. \A i \in 0..m : i \in T
  BY <1>1, <1>4, <1>5, BoundedInduction
<1>7. m \in T /\ m \in 0..m
  BY <1>1, <1>6
<1>8. Len(w[m]) = m /\ w[m] \in Text /\ \A k \in 1..m : w[m][k] = s[k]
  BY <1>2, <1>7 DEF T
<1>9. w[m] = s
  BY <1>8, SameText DEF m
<1>10. QED
  BY <1>9 DEF w, m, Strip

\* A text has no break exactly when it has no whitespace.
LEMMA SolidBreaks ==
  ASSUME NEW s \in Text, Solid(s) PROVE Gaps(s) = {}
<1>1. DOMAIN s = 1..Len(s)
  BY DEF Text
<1>2. Breaks(s) = {}
  BY <1>1 DEF Breaks, Solid
<1>3. QED
  BY <1>2, GapsAre

\* A scheme without a gap after its first letter has no whitespace: it is
\* never padded.
LEMMA SchemeSolid ==
  ASSUME NEW s \in Text, IsScheme(s), Gaps(s) \subseteq {0} PROVE Solid(s)
<1> DEFINE m == Len(s)
<1>1. m \in Nat /\ m > 0 /\ DOMAIN s = 1..m
  BY DEF IsScheme, Text
<1>2. s[1] \notin Whitespace /\ s[m] \notin Whitespace
  BY DEF IsScheme, IsPadded
<1> SUFFICES ASSUME NEW i \in 1..m, s[i] \in Whitespace PROVE FALSE
  BY <1>1 DEF Solid
<1>3. Count(s, 0) = 0 /\ \A n \in 0..m : Count(s, n) \in Nat
  BY CountSteps
<1>4. i # 1 /\ i # m
  BY <1>2
<1>5. i - 1 \in 0..Len(s) /\ m \in 0..Len(s) /\ i - 1 \in 0..m /\ 0 \in 0..(i - 1)
  BY <1>1
<1>6. 1 \in (0 + 1)..(i - 1) /\ m \in ((i - 1) + 1)..m
  <2> HIDE DEF m
  <2>1. i \in Nat /\ i > 1 /\ i <= m
    BY <1>1, <1>4
  <2>2. 0 + 1 = 1 /\ (i - 1) + 1 = i /\ i - 1 \in Nat /\ 1 <= i - 1
    BY <2>1
  <2>3. QED
    BY <1>1, <2>1, <2>2
<1>7. Count(s, 0) < Count(s, i - 1)
  BY <1>2, <1>5, <1>6, CountGrows
<1>8. Count(s, i - 1) < Count(s, m)
  BY <1>2, <1>5, <1>6, CountGrows
<1>9. Count(s, i - 1) \in Breaks(s)
  BY DEF Breaks
<1>10. Count(s, i - 1) # 0 /\ Count(s, i - 1) # Count(s, m)
  BY <1>3, <1>5, <1>7, <1>8
<1>11. QED
  BY <1>9, <1>10, GapsAre

\* Lower-case texts with one upper case are one.
LEMMA LowerOnce ==
  ASSUME NEW s \in Text, NEW t \in Text, IsLower(s), IsLower(t), Raised(s) = Raised(t)
  PROVE  s = t
<1> DEFINE a == Len(s)
           x == Raised(s)
<1>1. /\ Len(x) = a /\ \A i \in 1..a : x[i] = Upper(s[i])
      /\ Len(x) = Len(t) /\ \A i \in 1..Len(t) : x[i] = Upper(t[i])
  BY RaisedIsText
<1>2. a = Len(t)
  BY <1>1
<1>3. ASSUME NEW i \in 1..a PROVE s[i] = t[i]
  <2>1. /\ s[i] \in Nat /\ t[i] \in Nat
        /\ s[i] \notin 65..90 /\ t[i] \notin 65..90
    <3>1. i \in DOMAIN s /\ i \in DOMAIN t
      BY <1>2 DEF Text
    <3>2. QED
      <4>1. s[i] \in Nat /\ t[i] \in Nat
        BY <3>1 DEF Text
      <4>2. s[i] \notin 65..90 /\ t[i] \notin 65..90
        BY <3>1, Zenon DEF IsLower
      <4>3. QED
        BY <4>1, <4>2, Zenon
  <2>2. Upper(s[i]) = Upper(t[i])
    BY <1>1, <1>2
  <2> DEFINE p == s[i]
             q == t[i]
  <2> HIDE DEF p, q
  <2>3. p = q
    <3>1. p \in Nat /\ q \in Nat /\ ~(65 <= p /\ p <= 90) /\ ~(65 <= q /\ q <= 90)
      <4>1. p \in Nat /\ q \in Nat /\ p \notin 65..90 /\ q \notin 65..90
        BY <2>1, Zenon DEF p, q
      <4>2. QED
        BY <4>1
    <3>2. /\ Upper(p) = IF 97 <= p /\ p <= 122 THEN p - 32 ELSE p
          /\ Upper(q) = IF 97 <= q /\ q <= 122 THEN q - 32 ELSE q
      BY <3>1 DEF Upper
    <3>3. Upper(p) = Upper(q)
      BY <2>2 DEF p, q
    <3>4. QED
      BY <3>1, <3>2, <3>3
  <2>4. QED
    BY <2>3 DEF p, q
<1>4. QED
  BY <1>2, <1>3, SameText

\* No rule is for a scheme that holds whitespace.
RulesSolid == \A i \in DOMAIN Ruleset : Solid(Ruleset[i].scheme)

\* None of the deployed rules is.
LEMMA DeployedSolid == Ruleset = Canonicalisation => RulesSolid
<1> SUFFICES ASSUME Ruleset = Canonicalisation PROVE RulesSolid
  OBVIOUS
<1>1. ASSUME NEW i \in DOMAIN Canonicalisation
      PROVE  \/ Canonicalisation[i].scheme = <<105, 115, 105, 110>>
             \/ Canonicalisation[i].scheme = <<99, 117, 115, 105, 112>>
             \/ Canonicalisation[i].scheme = <<115, 101, 100, 111, 108>>
             \/ Canonicalisation[i].scheme = <<102, 105, 103, 105>>
  BY DEF Canonicalisation
<1>2. /\ Solid(<<105, 115, 105, 110>>) /\ Solid(<<99, 117, 115, 105, 112>>)
      /\ Solid(<<115, 101, 100, 111, 108>>) /\ Solid(<<102, 105, 103, 105>>)
  BY DEF Solid, Whitespace
<1>3. QED
  BY <1>1, <1>2 DEF RulesSolid

\* A claim without a rule of its scheme is not taken for one with a rule of its.
LEMMA UnruledAlike ==
  ASSUME RulesSolid, NEW c \in Claim, NEW d \in Claim, IsScheme(c.scheme), IsScheme(d.scheme),
         RuleFor(c.scheme) = {}, Seed(c) = Seed(d)
  PROVE  RuleFor(d.scheme) = {}
<1> SUFFICES ASSUME NEW r \in RuleFor(d.scheme) PROVE FALSE
  OBVIOUS
<1> DEFINE s == c.scheme
           t == d.scheme
<1>1. s \in Text /\ t \in Text
  BY DEF Claim
<1>2. Seed(c) = CanonicaliseSeed(s) /\ Seed(d) = CanonicaliseSeed(t)
  BY FoldClaimIs DEF Seed
<1>3. Solid(t)
  <2>1. PICK i \in DOMAIN Ruleset : r = Ruleset[i] /\ r.scheme = t
    BY DEF RuleFor
  <2>2. QED
    BY <2>1 DEF RulesSolid
<1> HIDE DEF s, t
<1>4. Gaps(t) = {}
  BY <1>1, <1>3, SolidBreaks
<1>5. Gaps(s) \ {0} = Gaps(t) \ {0}
  BY <1>1, <1>2, GapsOfSeed
<1>6. Solid(s)
  <2>1. Gaps(s) \subseteq {0} /\ IsScheme(s)
    BY <1>4, <1>5 DEF s
  <2>2. QED
    BY <1>1, <2>1, SchemeSolid
<1>7. Letters(s) = Letters(t)
  BY <1>1, <1>2, LettersOfSeed
<1>8. Raised(s) = Raised(t)
  BY <1>1, <1>3, <1>6, <1>7, LettersAre, SolidStrip
<1>9. s = t
  BY <1>1, <1>8, LowerOnce DEF IsScheme, s, t
<1>10. QED
  BY <1>9 DEF s, t

\* The gaps of the value of a claim that no rule folds, from its pre-image.
LEMMA UnruledGaps ==
  ASSUME NEW c \in Claim, IsScheme(c.scheme), RuleFor(c.scheme) = {}
  PROVE  LET k == Len(Letters(c.scheme) \o Letters(<<Colon>>))
         IN  Gaps(c.value) = {n \in Nat : k + n \in Gaps(Full(c))}
<1> DEFINE a == c.scheme \o <<Colon>>
           v == c.value
           k == Len(Letters(c.scheme) \o Letters(<<Colon>>))
<1>1. c.scheme \in Text /\ v \in Text /\ <<Colon>> \in Text /\ Colon \notin Whitespace
  BY DEF Claim, Colon, Text, Whitespace
<1>2. FoldClaim(c) = c
  BY DEF FoldClaim
<1>3. Full(c) = CanonicaliseSeed(a \o v)
  BY <1>2 DEF Full, Joined
<1>4. /\ a \in Text /\ Len(a) = Len(c.scheme) + 1 /\ a # <<>> /\ a[Len(a)] = Colon
  BY <1>1 DEF Text
<1>5. Count(a, Len(a)) = k
  <2>1. Letters(a) = Letters(c.scheme) \o Letters(<<Colon>>)
    BY <1>1, LettersJoin
  <2> HIDE DEF a
  <2>2. Len(Letters(a)) = Len(Strip(a)) /\ Count(a, Len(a)) = Len(Strip(a))
    BY <1>4, LettersAre, StripIsText, RaisedIsText, CountSteps
  <2>3. QED
    BY <2>1, <2>2
<1> HIDE DEF a, v, k
<1>6. /\ k \in Nat /\ k > 0 /\ Gaps(v) \subseteq Nat
      /\ \A n \in Nat : n \in Gaps(v) <=> k + n \in Gaps(a \o v)
  BY <1>1, <1>4, <1>5, GapsJoin
<1>7. a \o v \in Text
  BY <1>1, <1>4, Join DEF v
<1>8. Gaps(Full(c)) = Gaps(a \o v) \ {0}
  BY <1>3, <1>7, GapsOfSeed
<1>9. \A n \in Nat : k + n # 0
  BY <1>6
<1>10. Gaps(v) = {n \in Nat : k + n \in Gaps(Full(c))}
  BY <1>6, <1>8, <1>9
<1>11. QED
  BY <1>10 DEF v, k

\* A value without a rule of its scheme keeps its spaces, when no rule is for a
\* scheme that holds whitespace: normalising keeps of every run of whitespace
\* between two letters one space, and the scheme and the colon before the
\* value shift all of its gaps by one distance.
THEOREM SpacesOfUnruledKept == RulesSolid => (IdentitySpec => []UnruledKeepSpaces)
<1> SUFFICES ASSUME RulesSolid PROVE IdentitySpec => []UnruledKeepSpaces
  OBVIOUS
<1>1. StatedOK => UnruledKeepSpaces
  <2> SUFFICES ASSUME StatedOK, NEW c \in stated, NEW d \in stated,
                      RuleFor(c.scheme) = {}, CanonicalPreimage(c) = CanonicalPreimage(d)
               PROVE  Gaps(c.value) = Gaps(d.value)
    BY Zenon DEF UnruledKeepSpaces
  <2>1. c \in Claim /\ d \in Claim /\ IsScheme(c.scheme) /\ IsScheme(d.scheme)
    BY DEF StatedOK, IsClaim
  <2>2. Seed(c) = Seed(d) /\ Full(c) = Full(d)
    BY <2>1, PreimageParts
  <2>3. RuleFor(d.scheme) = {}
    BY <2>1, <2>2, UnruledAlike
  <2>4. Letters(c.scheme) = Letters(d.scheme)
    BY <2>1, <2>2, LettersOfParts
  <2>5. QED
    BY <2>1, <2>2, <2>3, <2>4, UnruledGaps
<1>2. QED
  BY <1>1, AlwaysStatedOK, PTL
=============================================================================
