-------------------------- MODULE AlgorithmProofs --------------------------
(***************************************************************************)
(* Five of the pure parts, for every input.  A search path with its        *)
(* duplicates removed finds the executable its cleaned entries find,       *)
(* whatever its length, the extensions and the files; every day, however   *)
(* far from 1970, has the date of the calendar, which gives back the day;  *)
(* numbers of two words, whatever the width of a word, are computed with   *)
(* as integers; so are durations, whatever the width of their words and    *)
(* the lengths of their units, unless they leave the range and become      *)
(* infinite; and a command line gives back the arguments it was made of,   *)
(* whatever they are, unless a line break in one of them is not quoted.    *)
(***************************************************************************)
EXTENDS Inputs, SequenceTheorems, NaturalsInduction, WellFoundedInduction, TLAPS

-----------------------------------------------------------------------------
(* Organize is defined by a recursive function.  That there is one is      *)
(* shown by induction over the set of the numbers up to which there is,    *)
(* whose complement would have a least element.                            *)

\* A set of naturals has a least element, by well-founded induction.
LEMMA LeastOfSet == ASSUME NEW T, T \subseteq Nat, T # {} PROVE \E n \in T : \A m \in T : n <= m
<1> DEFINE R == {p \in Nat \X Nat : p[1] < p[2]}
<1>1. IsWellFoundedOn(R, Nat)
  BY NatLessThanWellFounded, Zenon DEF OpToRel
<1>2. \A m, n \in Nat : <<m, n>> \in R <=> m < n
  OBVIOUS
<1> HIDE DEF R
<1>3. PICK n \in T : \A m \in T : <<m, n>> \notin R
  BY <1>1, WFMin
<1>4. ASSUME NEW m \in T PROVE n <= m
  <2>1. m \in Nat /\ n \in Nat
    OBVIOUS
  <2>2. ~(m < n)
    BY <1>2, <1>3, <2>1
  <2>3. QED
    BY <2>1, <2>2
<1>5. QED
  BY <1>4

\* Induction up to N, over the set of the numbers that have what is to be shown.
LEMMA UpTo ==
  ASSUME NEW N \in Nat, NEW T, 0 \in T, \A n \in 0 .. N : n # N /\ n \in T => n + 1 \in T
  PROVE  0 .. N \subseteq T
<1> SUFFICES ASSUME (0 .. N) \ T # {} PROVE FALSE
  OBVIOUS
<1> DEFINE B == (0 .. N) \ T
<1>1. PICK n \in B : \A m \in B : n <= m
  <2>1. B \subseteq Nat
    OBVIOUS
  <2> HIDE DEF B
  <2>2. QED
    BY <2>1, LeastOfSet DEF B
<1>2. n \in 0 .. N /\ n # 0 /\ n \notin T
  BY <1>1
<1>3. n - 1 \in 0 .. N /\ n - 1 # N /\ ~(n <= n - 1) /\ n - 1 + 1 = n
  BY <1>2
<1>4. n - 1 \in T
  BY <1>1, <1>3
<1>5. QED
  BY <1>2, <1>3, <1>4

\* What Organize keeps when it comes to the entry e, and of the first n entries, up to N.
Keep(a, e) ==
  LET p == PathCat(e)
  IN  IF \E i \in DOMAIN a : SameDir(p, a[i]) THEN a ELSE Append(a, p)
IsKept(g, N, ps) == g = [n \in 0 .. N |-> IF n = 0 THEN <<>> ELSE Keep(g[n - 1], ps[n])]

LEMMA KeptExists ==
  ASSUME NEW ps, NEW N \in Nat
  PROVE  \E g : IsKept(g, N, ps)
<1> DEFINE T == {k \in 0 .. N : \E g : IsKept(g, k, ps)}
           Next(a, n) == Keep(a, ps[n])
<1>0. \A g, k : IsKept(g, k, ps) <=> g = [n \in 0 .. k |-> IF n = 0 THEN <<>> ELSE Next(g[n - 1], n)]
  BY DEF IsKept
<1> HIDE DEF Next
<1>1. 0 \in T
  <2> DEFINE g == [n \in 0 .. 0 |-> <<>>]
  <2>1. g = [n \in 0 .. 0 |-> IF n = 0 THEN <<>> ELSE Next(g[n - 1], n)]
    OBVIOUS
  <2> HIDE DEF g
  <2>2. IsKept(g, 0, ps)
    BY <1>0, <2>1
  <2>3. 0 \in 0 .. N
    OBVIOUS
  <2>4. QED
    BY <2>2, <2>3, Zenon
<1>2. ASSUME NEW k \in 0 .. N, k # N, k \in T PROVE k + 1 \in T
  <2>1. PICK g : g = [n \in 0 .. k |-> IF n = 0 THEN <<>> ELSE Next(g[n - 1], n)]
    BY <1>0, <1>2
  <2> DEFINE h == [n \in 0 .. k + 1 |-> IF n = k + 1 THEN Next(g[k], n) ELSE g[n]]
  <2>2. ASSUME NEW n \in 0 .. k + 1 PROVE h[n] = IF n = 0 THEN <<>> ELSE Next(h[n - 1], n)
    <3>1. CASE n = k + 1
      <4>1. n # 0 /\ n - 1 = k /\ k \in 0 .. k + 1 /\ k # k + 1
        BY <3>1
      <4>2. h[n - 1] = g[k] /\ h[n] = Next(g[k], n)
        BY <3>1, <4>1
      <4>3. QED
        BY <4>1, <4>2
    <3>2. CASE n = 0
      <4>1. 0 # k + 1 /\ 0 \in 0 .. k /\ 0 \in 0 .. k + 1
        OBVIOUS
      <4>2. h[0] = g[0]
        BY <4>1
      <4>3. g[0] = <<>>
        BY <2>1, <4>1, Zenon
      <4>4. QED
        BY <3>2, <4>2, <4>3
    <3>3. CASE n # 0 /\ n # k + 1
      <4>1. n \in 0 .. k /\ n - 1 \in 0 .. k + 1 /\ n - 1 # k + 1
        BY <3>3
      <4>2. h[n] = g[n] /\ h[n - 1] = g[n - 1]
        BY <3>3, <4>1
      <4>3. g[n] = Next(g[n - 1], n)
        BY <2>1, <3>3, <4>1
      <4>4. QED
        BY <3>3, <4>2, <4>3
    <3>4. QED
      BY <3>1, <3>2, <3>3
  <2>3. h = [n \in 0 .. k + 1 |-> h[n]]
    OBVIOUS
  <2> HIDE DEF h
  <2>4. h = [n \in 0 .. k + 1 |-> IF n = 0 THEN <<>> ELSE Next(h[n - 1], n)]
    BY <2>2, <2>3
  <2>5. k + 1 \in 0 .. N
    BY <1>2
  <2>6. QED
    BY <1>0, <2>4, <2>5
<1> HIDE DEF T
<1>3. N \in T
  <2>1. N \in 0 .. N
    OBVIOUS
  <2>2. QED
    BY <1>1, <1>2, <2>1, UpTo
<1>4. QED
  BY <1>3 DEF T

\* Organize is the last of them.
LEMMA OrganizeKept ==
  ASSUME NEW ps, Len(ps) \in Nat
  PROVE  \E g : IsKept(g, Len(ps), ps) /\ Organize(ps) = g[Len(ps)]
<1> DEFINE g == CHOOSE f : IsKept(f, Len(ps), ps)
<1>1. IsKept(g, Len(ps), ps)
  BY KeptExists
<1>2. Organize(ps) = g[Len(ps)]
  BY Zenon DEF Organize, IsKept, Keep
<1>3. QED
  BY <1>1, <1>2

\* Place[i] is where the i-th entry kept of D was first: entries are kept in
\* their order, and there is one kept for each entry, not after it.
FirstPlaces(Place, E, D) ==
  /\ Place \in [DOMAIN E -> DOMAIN D]
  /\ \A i, j \in DOMAIN E : i < j => Place[i] < Place[j]
  /\ \A i \in DOMAIN E : E[i] = D[Place[i]]
  /\ \A m \in DOMAIN D : \E i \in DOMAIN E : Place[i] <= m /\ E[i] = D[m]

\* Of lists so related, the same is found first.
LEMMA FoundFirst ==
  ASSUME NEW D, NEW E, NEW exts, NEW Files, DOMAIN D \subseteq Nat, DOMAIN E \subseteq Nat,
         NEW Place, FirstPlaces(Place, E, D)
  PROVE  LookPath(D, exts, Files) = LookPath(E, exts, Files)
<1> DEFINE I == DOMAIN D
           J == DOMAIN E
           K == DOMAIN exts
           HitD(i, j) == <<D[i], exts[j]>> \in Files
           HitE(i, j) == <<E[i], exts[j]>> \in Files
           FirstD(i, j) == HitD(i, j) /\ \A k \in I, m \in K : HitD(k, m) => i < k \/ (i = k /\ j <= m)
           FirstE(i, j) == HitE(i, j) /\ \A k \in J, m \in K : HitE(k, m) => i < k \/ (i = k /\ j <= m)
<1>2. /\ \A i \in J : Place[i] \in I /\ E[i] = D[Place[i]]
      /\ \A i, j \in J : i < j => Place[i] < Place[j]
      /\ \A m \in I : \E i \in J : Place[i] <= m /\ E[i] = D[m]
  BY DEF FirstPlaces
<1>3. I \subseteq Nat /\ J \subseteq Nat
  OBVIOUS
<1>4. LookPath(D, exts, Files) = {<<D[x[1]], exts[x[2]]>> : x \in {y \in I \X K : FirstD(y[1], y[2])}}
  BY Zenon DEF LookPath
<1>5. LookPath(E, exts, Files) = {<<E[x[1]], exts[x[2]]>> : x \in {y \in J \X K : FirstE(y[1], y[2])}}
  BY Zenon DEF LookPath
<1> HIDE DEF I, J, K
<1>6. ASSUME NEW i \in J, NEW j \in K, FirstE(i, j)
      PROVE  FirstD(Place[i], j)
  <2>1. ASSUME NEW k \in I, NEW m \in K, HitD(k, m) PROVE Place[i] < k \/ (Place[i] = k /\ j <= m)
    <3>1. PICK h \in J : Place[h] <= k /\ E[h] = D[k]
      BY <1>2
    <3>2. i < h \/ (i = h /\ j <= m)
      BY <1>6, <2>1, <3>1
    <3>3. i < h => Place[i] < Place[h]
      BY <1>2
    <3>4. Place[i] \in Nat /\ Place[h] \in Nat /\ k \in Nat
      BY <1>2, <1>3
    <3>5. QED
      BY <3>1, <3>2, <3>3, <3>4
  <2>2. HitD(Place[i], j)
    BY <1>2, <1>6
  <2>3. QED
    BY <2>1, <2>2
<1>7. ASSUME NEW k \in I, NEW j \in K, FirstD(k, j)
      PROVE  \E i \in J : Place[i] = k /\ FirstE(i, j)
  <2>1. PICK i \in J : Place[i] <= k /\ E[i] = D[k]
    BY <1>2
  <2>2. Place[i] = k
    <3>1. HitD(Place[i], j) /\ Place[i] \in I
      BY <1>2, <1>7, <2>1
    <3>2. k < Place[i] \/ k = Place[i]
      BY <1>7, <3>1
    <3>3. k \in Nat /\ Place[i] \in Nat
      BY <1>3, <3>1
    <3>4. QED
      BY <2>1, <3>2, <3>3
  <2>3. ASSUME NEW h \in J, NEW m \in K, HitE(h, m) PROVE i < h \/ (i = h /\ j <= m)
    <3>1. Place[h] \in I /\ HitD(Place[h], m)
      BY <1>2, <2>3
    <3>2. Place[i] < Place[h] \/ (Place[i] = Place[h] /\ j <= m)
      BY <1>7, <2>2, <3>1
    <3>3. h < i => Place[h] < Place[i]
      BY <1>2
    <3>4. i \in Nat /\ h \in Nat /\ Place[i] \in Nat /\ Place[h] \in Nat
      BY <1>2, <1>3
    <3>5. QED
      BY <3>2, <3>3, <3>4
  <2>4. HitE(i, j)
    BY <1>7, <2>1
  <2>5. QED
    BY <2>2, <2>3, <2>4
<1> HIDE DEF FirstD, FirstE
<1>8. ASSUME NEW i \in J, NEW j \in K, FirstE(i, j)
      PROVE  <<E[i], exts[j]>> \in LookPath(D, exts, Files)
  <2>1. <<Place[i], j>> \in {y \in I \X K : FirstD(y[1], y[2])}
    BY <1>2, <1>6, <1>8
  <2>2. E[i] = D[Place[i]]
    BY <1>2
  <2>3. QED
    BY <1>4, <2>1, <2>2
<1>9. ASSUME NEW k \in I, NEW j \in K, FirstD(k, j)
      PROVE  <<D[k], exts[j]>> \in LookPath(E, exts, Files)
  <2>1. PICK i \in J : Place[i] = k /\ FirstE(i, j)
    BY <1>7, <1>9
  <2>2. <<i, j>> \in {y \in J \X K : FirstE(y[1], y[2])}
    BY <2>1
  <2>3. E[i] = D[k]
    BY <1>2, <2>1
  <2>4. QED
    BY <1>5, <2>2, <2>3
<1>10. ASSUME NEW found \in LookPath(D, exts, Files) PROVE found \in LookPath(E, exts, Files)
  <2>1. PICK x \in I \X K : FirstD(x[1], x[2]) /\ found = <<D[x[1]], exts[x[2]]>>
    BY <1>4, <1>10
  <2>2. QED
    BY <1>9, <2>1
<1>11. ASSUME NEW found \in LookPath(E, exts, Files) PROVE found \in LookPath(D, exts, Files)
  <2>1. PICK x \in J \X K : FirstE(x[1], x[2]) /\ found = <<E[x[1]], exts[x[2]]>>
    BY <1>5, <1>11
  <2>2. QED
    BY <1>8, <2>1
<1>12. QED
  BY <1>10, <1>11

\* Place[i] is where the text kept i-th was first in the n cleaned entries.
Placed(Place, k, n, ps) ==
  /\ Place \in [1 .. Len(k) -> 1 .. n]
  /\ \A i, j \in 1 .. Len(k) : i < j => Place[i] < Place[j]
  /\ \A i \in 1 .. Len(k) : SameDir(PathCat(ps[Place[i]]), k[i])
  /\ \A m \in 1 .. n : \E i \in 1 .. Len(k) : Place[i] <= m /\ SameDir(PathCat(ps[m]), k[i])

\* After n entries, no two of the kept ones are of one text, and they are the first ones.
KeptWell(k, n, ps, A) ==
  /\ k \in Seq(A) /\ Len(k) <= n
  /\ \A i, j \in 1 .. Len(k) : i # j => ~SameDir(k[i], k[j])
  /\ \E Place : Placed(Place, k, n, ps)

LEMMA OrganizeWell ==
  ASSUME NEW A, \A e \in A : PathCat(e) \in A, NEW ps \in Seq(A)
  PROVE  KeptWell(Organize(ps), Len(ps), ps, A)
<1>1. Len(ps) \in Nat
  OBVIOUS
<1>2. PICK g : IsKept(g, Len(ps), ps) /\ Organize(ps) = g[Len(ps)]
  BY <1>1, OrganizeKept
<1> DEFINE N == Len(ps)
           T == {n \in 0 .. N : KeptWell(g[n], n, ps, A)}
<1>3. 0 \in T
  <2>1. g[0] = <<>> /\ 0 \in 0 .. N
    BY <1>1, <1>2 DEF IsKept
  <2>2. KeptWell(<<>>, 0, ps, A)
    <3>1. <<>> \in Seq(A) /\ Len(<<>>) = 0
      OBVIOUS
    <3>2. \A i \in 1 .. 0 : FALSE
      OBVIOUS
    <3>3. Placed([i \in 1 .. 0 |-> 0], <<>>, 0, ps)
      BY <3>1, <3>2 DEF Placed
    <3>4. QED
      BY <3>1, <3>2, <3>3 DEF KeptWell
  <2>3. QED
    BY <2>1, <2>2
<1>4. ASSUME NEW n \in 0 .. N, n # N, n \in T PROVE n + 1 \in T
  <2> DEFINE k == g[n]
             L == Len(k)
             p == PathCat(ps[n + 1])
             Same(e, i) == SameDir(PathCat(ps[e]), k[i])
  <2>1. n \in Nat /\ n + 1 \in 0 .. N /\ n + 1 \in 1 .. N /\ n + 1 # 0 /\ n + 1 - 1 = n
    BY <1>1, <1>4
  <2>2. g[n + 1] = IF \E i \in DOMAIN k : SameDir(p, k[i]) THEN k ELSE Append(k, p)
    <3>1. g[n + 1] = Keep(g[n], ps[n + 1])
      BY <1>2, <2>1 DEF IsKept
    <3>2. QED
      BY <3>1 DEF Keep
  <2>3. p \in A
    BY <2>1
  <2>4. SameDir(p, p) /\ \A q, r : SameDir(q, r) <=> SameDir(r, q)
    BY Zenon DEF SameDir
  <2> HIDE DEF k
  <2>5. KeptWell(k, n, ps, A)
    BY <1>4 DEF k
  <2>6. k \in Seq(A) /\ L <= n /\ L \in Nat /\ DOMAIN k = 1 .. L
    BY <2>5 DEF KeptWell
  <2>7. PICK Place :
          /\ Place \in [1 .. L -> 1 .. n]
          /\ \A i, j \in 1 .. L : i < j => Place[i] < Place[j]
          /\ \A i \in 1 .. L : Same(Place[i], i)
          /\ \A m \in 1 .. n : \E i \in 1 .. L : Place[i] <= m /\ Same(m, i)
    BY <2>5 DEF KeptWell, Placed
  <2>9. \A i, j \in 1 .. L : i # j => ~SameDir(k[i], k[j])
    BY <2>5 DEF KeptWell
  <2> HIDE DEF L
  <2>10. \A m \in 1 .. n + 1 : m \in 1 .. n \/ m = n + 1
    BY <2>1
  <2>11. CASE \E i \in DOMAIN k : SameDir(p, k[i])
    <3>1. PICK e \in 1 .. L : Same(n + 1, e)
      BY <2>6, <2>11
    <3>2. \A i \in 1 .. L : Place[i] \in 1 .. n /\ Place[i] \in 1 .. n + 1 /\ Place[i] <= n + 1
      BY <2>1, <2>7
    <3> HIDE DEF Same
    <3>3. Place \in [1 .. L -> 1 .. n + 1]
      BY <2>7, <3>2
    <3>4. \A m \in 1 .. n + 1 : \E i \in 1 .. L : Place[i] <= m /\ Same(m, i)
      BY <2>7, <2>10, <3>1, <3>2
    <3>5. L <= n + 1
      BY <2>1, <2>6
    <3>6. Placed(Place, k, n + 1, ps)
      BY <2>7, <3>3, <3>4 DEF Placed, L, Same
    <3>7. KeptWell(k, n + 1, ps, A)
      BY <2>6, <2>9, <3>5, <3>6 DEF KeptWell, L
    <3>8. QED
      BY <2>1, <2>2, <2>11, <3>7
  <2>12. CASE ~\E i \in DOMAIN k : SameDir(p, k[i])
    <3> DEFINE r == Append(k, p)
               More == [i \in 1 .. L + 1 |-> IF i = L + 1 THEN n + 1 ELSE Place[i]]
               Now(e, i) == SameDir(PathCat(ps[e]), r[i])
    <3>1. /\ r \in Seq(A) /\ Len(r) = L + 1 /\ r[L + 1] = p
          /\ \A i \in 1 .. L : r[i] = k[i]
      BY <2>3, <2>6, AppendProperties DEF L
    <3> HIDE DEF r
    <3>2. \A i \in 1 .. L + 1 : i = L + 1 \/ (i \in 1 .. L /\ i # L + 1)
      BY <2>6
    <3>3. \A i \in 1 .. L : ~SameDir(p, k[i]) /\ ~SameDir(k[i], p)
      BY <2>4, <2>6, <2>12, Zenon
    <3>4. Now(n + 1, L + 1) /\ \A i \in 1 .. L : \A e : Now(e, i) <=> Same(e, i)
      BY <2>4, <3>1
    <3> HIDE DEF p
    <3>5. \A i, j \in 1 .. L + 1 : i # j => ~SameDir(r[i], r[j])
      BY <2>9, <3>1, <3>2, <3>3
    <3> HIDE DEF Same, Now
    <3>6. \A i \in 1 .. L : Place[i] \in 1 .. n /\ Place[i] \in 1 .. n + 1 /\ Place[i] < n + 1
      BY <2>1, <2>7
    <3>7. n + 1 \in 1 .. n + 1 /\ L + 1 \in 1 .. L + 1
      BY <2>1, <2>6
    <3>8. /\ More[L + 1] = n + 1
          /\ \A i \in 1 .. L : i \in 1 .. L + 1 /\ More[i] = Place[i]
      BY <2>6
    <3>9. More \in [1 .. L + 1 -> 1 .. n + 1]
      BY <3>2, <3>6, <3>7
    <3> HIDE DEF More
    <3>10. \A i, j \in 1 .. L + 1 : i < j => More[i] < More[j]
      <4>1. ASSUME NEW i \in 1 .. L + 1, NEW j \in 1 .. L + 1, i < j PROVE More[i] < More[j]
        <5>1. i \in 1 .. L
          BY <2>6, <4>1
        <5>2. CASE j = L + 1
          BY <3>6, <3>8, <5>1, <5>2
        <5>3. CASE j \in 1 .. L
          BY <2>7, <3>8, <4>1, <5>1, <5>3
        <5>4. QED
          BY <3>2, <5>2, <5>3
      <4>2. QED
        BY <4>1
    <3>11. \A i \in 1 .. L + 1 : Now(More[i], i)
      BY <2>7, <3>2, <3>4, <3>8
    <3>12. \A m \in 1 .. n + 1 : \E i \in 1 .. L + 1 : More[i] <= m /\ Now(m, i)
      <4>1. ASSUME NEW m \in 1 .. n PROVE \E i \in 1 .. L + 1 : More[i] <= m /\ Now(m, i)
        BY <2>7, <3>4, <3>8
      <4>2. More[L + 1] <= n + 1
        BY <2>1, <3>8
      <4>3. QED
        BY <2>10, <3>4, <3>7, <4>1, <4>2
    <3>13. Len(r) <= n + 1
      BY <2>1, <2>6, <3>1
    <3>14. Placed(More, r, n + 1, ps)
      BY <3>1, <3>9, <3>10, <3>11, <3>12 DEF Placed, Now
    <3>15. KeptWell(r, n + 1, ps, A)
      BY <3>1, <3>5, <3>13, <3>14 DEF KeptWell
    <3>16. QED
      BY <2>1, <2>2, <2>12, <3>15 DEF r
  <2>13. QED
    BY <2>11, <2>12
<1> HIDE DEF T
<1>5. N \in T
  <2>1. N \in 0 .. N
    BY <1>1
  <2>2. QED
    BY <1>1, <1>3, <1>4, <2>1, UpTo
<1>6. QED
  BY <1>2, <1>5 DEF T

\* A cleaned entry is an entry, and the same directory if it was anchored.
LEMMA CleanedIs ==
  ASSUME NEW e \in Entries
  PROVE  PathCat(e) \in Entries /\ (Dir(PathCat(e)) = Dir(e) <=> Anchored(e))
<1> DEFINE names == IF e.up THEN <<>> ELSE e.names
<1>1. <<>> \in Seq(STRING)
  OBVIOUS
<1>2. /\ PathCat(e) \in Entries /\ PathCat(e).root = e.root /\ PathCat(e).names = names /\ PathCat(e).up = FALSE
      /\ PathCat(e).sep = (e.root # <<>> /\ names # <<>>) /\ PathCat(e).bare = (names = <<>>)
  BY <1>1 DEF PathCat, Entries
<1>3. Rooted(PathCat(e)) = (e.root # <<>> \/ names = <<>>) /\ Rooted(e) \in BOOLEAN /\ e.up \in BOOLEAN
  BY <1>2 DEF Rooted, Entries
<1>4. Dir(PathCat(e)) = Dir(e) <=> /\ Rooted(e) = (e.root # <<>> \/ names = <<>>)
                                   /\ names = e.names /\ ~(e.up /\ ~Rooted(e))
  BY <1>2, <1>3 DEF Dir
<1>5. QED
  BY <1>2, <1>3, <1>4 DEF Anchored

\* KeepsAnswer, for every search path, list of extensions and files: organised, a
\* search path has each directory once and finds what its cleaned entries find, which
\* is what they found before exactly where each is anchored.
THEOREM OrganizeFindsTheSame ==
  ASSUME NEW ps \in Seq(Entries), NEW es, NEW Files
  PROVE  KeepsAnswer(ps, es, Files)
<1> DEFINE qs == Organize(ps)
           cleaned == [i \in DOMAIN ps |-> PathCat(ps[i])]
<1>1. KeptWell(qs, Len(ps), ps, Entries)
  BY CleanedIs, OrganizeWell
<1>2. /\ Len(ps) \in Nat /\ DOMAIN ps = 1 .. Len(ps) /\ \A i \in 1 .. Len(ps) : ps[i] \in Entries
      /\ Len(cleaned) = Len(ps) /\ \A i \in 1 .. Len(ps) : cleaned[i] = PathCat(ps[i])
  <2>1. Len(ps) \in Nat /\ DOMAIN ps = 1 .. Len(ps) /\ \A i \in 1 .. Len(ps) : ps[i] \in Entries
    OBVIOUS
  <2>2. cleaned = [i \in 1 .. Len(ps) |-> PathCat(ps[i])]
    BY <2>1, Zenon
  <2>3. \A c, n : n \in Nat /\ c = [i \in 1 .. n |-> PathCat(ps[i])] =>
                  Len(c) = n /\ \A i \in 1 .. n : c[i] = PathCat(ps[i])
    OBVIOUS
  <2> HIDE DEF cleaned
  <2>4. QED
    BY <2>1, <2>2, <2>3, Zenon
<1> HIDE DEF qs, cleaned
<1>3. /\ Len(qs) \in Nat /\ DOMAIN qs = 1 .. Len(qs)
      /\ \A i, j \in DOMAIN qs : i # j => ~SameDir(qs[i], qs[j])
  BY <1>1 DEF KeptWell
<1>4. PICK Place :
        /\ Place \in [1 .. Len(qs) -> 1 .. Len(ps)]
        /\ \A i, j \in 1 .. Len(qs) : i < j => Place[i] < Place[j]
        /\ \A i \in 1 .. Len(qs) : Dir(cleaned[Place[i]]) = Dir(qs[i])
        /\ \A m \in 1 .. Len(ps) : \E i \in 1 .. Len(qs) : Place[i] <= m /\ Dir(cleaned[m]) = Dir(qs[i])
  <2>1. \A p, q : SameDir(p, q) => Dir(p) = Dir(q)
    BY Zenon DEF SameDir, Dir, Rooted
  <2>2. PICK Place : Placed(Place, qs, Len(ps), ps)
    BY <1>1 DEF KeptWell
  <2>3. /\ Place \in [1 .. Len(qs) -> 1 .. Len(ps)]
        /\ \A i, j \in 1 .. Len(qs) : i < j => Place[i] < Place[j]
        /\ \A i \in 1 .. Len(qs) : SameDir(PathCat(ps[Place[i]]), qs[i])
        /\ \A m \in 1 .. Len(ps) : \E i \in 1 .. Len(qs) : Place[i] <= m /\ SameDir(PathCat(ps[m]), qs[i])
    BY <2>2, Zenon DEF Placed
  <2>4. \A i \in 1 .. Len(qs) : Place[i] \in 1 .. Len(ps)
    BY <2>3
  <2>5. \A i \in 1 .. Len(qs) : Dir(cleaned[Place[i]]) = Dir(qs[i])
    BY <1>2, <2>1, <2>3, <2>4, Zenon
  <2>6. ASSUME NEW m \in 1 .. Len(ps) PROVE \E i \in 1 .. Len(qs) : Place[i] <= m /\ Dir(cleaned[m]) = Dir(qs[i])
    <3>1. PICK i \in 1 .. Len(qs) : Place[i] <= m /\ SameDir(PathCat(ps[m]), qs[i])
      BY <2>3
    <3>2. Dir(cleaned[m]) = Dir(qs[i])
      BY <1>2, <2>1, <3>1, Zenon
    <3>3. QED
      BY <3>1, <3>2
  <2>7. QED
    BY <2>3, <2>5, <2>6, Zenon
<1>5. ASSUME NEW absPath \in BOOLEAN, NEW hasExt \in BOOLEAN
      PROVE  Found(qs, es, Files, absPath, hasExt) = Found(cleaned, es, Files, absPath, hasExt)
  <2> DEFINE D == TriedDirs(cleaned, absPath)
             E == TriedDirs(qs, absPath)
             first == IF absPath THEN 1 ELSE 0
             Q == [i \in first .. Len(qs) |-> IF i = 0 THEN 0 ELSE Place[i]]
  <2>1. /\ DOMAIN D = first .. Len(ps) /\ DOMAIN E = first .. Len(qs) /\ first \in {0, 1}
        /\ \A i \in DOMAIN D : D[i] = IF i = 0 THEN Cwd ELSE Dir(cleaned[i])
        /\ \A i \in DOMAIN E : E[i] = IF i = 0 THEN Cwd ELSE Dir(qs[i])
    BY <1>2 DEF TriedDirs
  <2> HIDE DEF D, E, first
  <2>2. DOMAIN D \subseteq Nat /\ DOMAIN E \subseteq Nat /\ (0 \in DOMAIN D <=> 0 \in DOMAIN E)
    <3>1. Len(ps) \in Nat /\ Len(qs) \in Nat
      BY <1>2, <1>3
    <3>2. first .. Len(ps) \subseteq Nat /\ first .. Len(qs) \subseteq Nat
          /\ (0 \in first .. Len(ps) <=> first = 0) /\ (0 \in first .. Len(qs) <=> first = 0)
      BY <2>1, <3>1
    <3>3. QED
      BY <2>1, <3>2, Zenon
  <2>3. /\ \A i \in DOMAIN E : i = 0 \/ i \in 1 .. Len(qs)
        /\ \A m \in DOMAIN D : m = 0 \/ m \in 1 .. Len(ps)
        /\ 1 .. Len(qs) \subseteq DOMAIN E /\ 1 .. Len(ps) \subseteq DOMAIN D
    BY <1>2, <1>3, <2>1
  <2>4. \A i \in DOMAIN E : Q[i] = IF i = 0 THEN 0 ELSE Place[i]
    BY <2>1
  <2>5. Q \in [DOMAIN E -> DOMAIN D]
    BY <1>4, <2>1, <2>2, <2>3
  <2> HIDE DEF Q
  <2>6. \A i \in 1 .. Len(qs) : Place[i] \in 1 .. Len(ps) /\ Place[i] # 0 /\ 0 < Place[i] /\ i # 0
    BY <1>2, <1>3, <1>4
  <2>7. ASSUME NEW i \in DOMAIN E, NEW j \in DOMAIN E, i < j PROVE Q[i] < Q[j]
    <3>1. j \in 1 .. Len(qs)
      BY <2>2, <2>3, <2>7
    <3>2. QED
      BY <1>4, <2>3, <2>4, <2>6, <2>7, <3>1
  <2>8. ASSUME NEW i \in DOMAIN E PROVE E[i] = D[Q[i]]
    <3>1. CASE i = 0
      BY <2>1, <2>2, <2>4, <3>1, Zenon
    <3>2. CASE i \in 1 .. Len(qs)
      <4>1. Place[i] \in DOMAIN D /\ Place[i] # 0 /\ i # 0
        BY <2>3, <2>6, <3>2, Zenon
      <4>2. Q[i] = Place[i] /\ E[i] = Dir(qs[i]) /\ D[Place[i]] = Dir(cleaned[Place[i]])
        BY <2>1, <2>4, <4>1, Zenon
      <4>3. QED
        BY <1>4, <3>2, <4>2, Zenon
    <3>3. QED
      BY <2>3, <3>1, <3>2, Zenon
  <2>9. ASSUME NEW m \in DOMAIN D PROVE \E i \in DOMAIN E : Q[i] <= m /\ E[i] = D[m]
    <3>1. CASE m = 0
      BY <2>1, <2>2, <2>4, <3>1
    <3>2. CASE m \in 1 .. Len(ps)
      <4>1. PICK i \in 1 .. Len(qs) : Place[i] <= m /\ Dir(cleaned[m]) = Dir(qs[i])
        BY <1>4, <3>2
      <4>2. i \in DOMAIN E /\ i # 0 /\ m # 0
        BY <2>3, <2>6, <3>2
      <4>3. QED
        BY <2>1, <2>4, <4>1, <4>2
    <3>3. QED
      BY <2>3, <3>1, <3>2
  <2>10. FirstPlaces(Q, E, D)
    BY <2>5, <2>7, <2>8, <2>9 DEF FirstPlaces
  <2>11. QED
    BY <2>2, <2>10, FoundFirst DEF Found, D, E
<1>6. ASSUME \A i \in DOMAIN ps : Anchored(ps[i]), NEW absPath \in BOOLEAN
      PROVE  TriedDirs(ps, absPath) = TriedDirs(cleaned, absPath)
  <2>1. \A i \in 1 .. Len(ps) : Dir(cleaned[i]) = Dir(ps[i])
    BY <1>2, <1>6, CleanedIs
  <2>2. \A i \in (IF absPath THEN 1 ELSE 0) .. Len(ps) : i # 0 => i \in 1 .. Len(ps)
    BY <1>2
  <2>3. QED
    BY <1>2, <2>1, <2>2 DEF TriedDirs
<1>7. QED
  BY <1>2, <1>3, <1>5, <1>6, CleanedIs DEF KeepsAnswer, Found, qs, cleaned

-----------------------------------------------------------------------------
(* The calendar.  MakeDateTime divides the days into cycles of 400, 100    *)
(* and 4 years; a day is in only one of each, so that the next day's are   *)
(* known from this one's.                                                  *)

\* The tables, which add up the lengths of the months.
LEMMA BeforeIs ==
  /\ Before[1] = 0 /\ Before[2] = 31 /\ Before[3] = 59 /\ Before[4] = 90 /\ Before[5] = 120 /\ Before[6] = 151
  /\ Before[7] = 181 /\ Before[8] = 212 /\ Before[9] = 243 /\ Before[10] = 273 /\ Before[11] = 304 /\ Before[12] = 334
<1> DEFINE Adds(f) == f = [mon \in 1 .. 12 |-> IF mon = 1 THEN 0 ELSE f[mon - 1] + Months[mon - 1]]
           table == <<0, 31, 59, 90, 120, 151, 181, 212, 243, 273, 304, 334>>
           g == [mon \in 1 .. 12 |-> table[mon]]
<1>1. Adds(g)
  <2>1. \A mon \in 1 .. 12 : g[mon] = IF mon = 1 THEN 0 ELSE g[mon - 1] + Months[mon - 1]
    BY DEF Months
  <2>2. g = [mon \in 1 .. 12 |-> g[mon]]
    OBVIOUS
  <2> HIDE DEF g
  <2>3. QED
    BY <2>1, <2>2
<1>2. Before = CHOOSE f : Adds(f)
  BY DEF Before
<1>3. Adds(Before)
  <2> HIDE DEF Adds
  <2>1. QED
    BY <1>1, <1>2
<1>4. \A mon \in 1 .. 12 : Before[mon] = IF mon = 1 THEN 0 ELSE Before[mon - 1] + Months[mon - 1]
  BY <1>3
<1>5. /\ Before[1] = 0
      /\ \A mon \in 2 .. 12 : Before[mon] = Before[mon - 1] + Months[mon - 1]
  BY <1>4
<1>6. QED
  BY <1>5 DEF Months

LEMMA PastIs ==
  /\ Past[0] = 0 /\ Past[1] = 31 /\ Past[2] = 61 /\ Past[3] = 92 /\ Past[4] = 122 /\ Past[5] = 153 /\ Past[6] = 184
  /\ Past[7] = 214 /\ Past[8] = 245 /\ Past[9] = 275 /\ Past[10] = 306 /\ Past[11] = 337 /\ Past[12] = 366
<1> DEFINE Adds(f) == f = [m \in 0 .. 12 |-> IF m = 0 THEN 0 ELSE f[m - 1] + DaysInMonth[m]]
           table == <<0, 31, 61, 92, 122, 153, 184, 214, 245, 275, 306, 337, 366>>
           g == [m \in 0 .. 12 |-> table[m + 1]]
<1>1. Adds(g)
  <2>1. \A m \in 0 .. 12 : g[m] = IF m = 0 THEN 0 ELSE g[m - 1] + DaysInMonth[m]
    BY DEF DaysInMonth
  <2>2. g = [m \in 0 .. 12 |-> g[m]]
    OBVIOUS
  <2> HIDE DEF g
  <2>3. QED
    BY <2>1, <2>2
<1>2. Past = CHOOSE f : Adds(f)
  BY DEF Past
<1>3. Adds(Past)
  <2> HIDE DEF Adds
  <2>1. QED
    BY <1>1, <1>2
<1>4. \A m \in 0 .. 12 : Past[m] = IF m = 0 THEN 0 ELSE Past[m - 1] + DaysInMonth[m]
  BY <1>3
<1>5. /\ Past[0] = 0
      /\ \A m \in 1 .. 12 : Past[m] = Past[m - 1] + DaysInMonth[m]
  BY <1>4
<1>6. QED
  BY <1>5 DEF DaysInMonth

\* A day in cycles of 400, 100 and 4 years, years of March to February and days
\* of them, counted from 2000-03-01.  Only the last year of a cycle has 366 days,
\* but for three of the four that end a century.
InCycles(day, qc, c, q, y, r) ==
  /\ qc \in Int /\ c \in 0 .. 3 /\ q \in 0 .. 24 /\ y \in 0 .. 3 /\ r \in 0 .. 365
  /\ day = 146097 * qc + 36524 * c + 1461 * q + 365 * y + r
  /\ r = 365 => y = 3 /\ (q = 24 => c = 3)

\* A day is only one day.
LEMMA CyclesUnique ==
  ASSUME NEW day, NEW qc, NEW c, NEW q, NEW y, NEW r, InCycles(day, qc, c, q, y, r),
         NEW qc2, NEW c2, NEW q2, NEW y2, NEW r2, InCycles(day, qc2, c2, q2, y2, r2)
  PROVE  qc = qc2 /\ c = c2 /\ q = q2 /\ y = y2 /\ r = r2
<1>1. qc = qc2
  BY DEF InCycles
<1>2. c = c2
  BY <1>1 DEF InCycles
<1>3. q = q2
  BY <1>1, <1>2 DEF InCycles
<1>4. y = y2
  BY <1>1, <1>2, <1>3 DEF InCycles
<1>5. QED
  BY <1>1, <1>2, <1>3, <1>4 DEF InCycles

\* The month that a day of such a year is in, from March on.
InMonth(m, r) == m \in 0 .. 11 /\ Past[m] <= r /\ r < Past[m + 1]

LEMMA MonthExists == ASSUME NEW r \in 0 .. 365 PROVE \E m \in 0 .. 11 : InMonth(m, r)
<1>1. CASE r < Past[6]
  BY <1>1, PastIs DEF InMonth
<1>2. CASE r >= Past[6]
  BY <1>2, PastIs DEF InMonth
<1>3. QED
  BY <1>1, <1>2, PastIs

LEMMA MonthUnique ==
  ASSUME NEW r \in Int, NEW m, NEW k, InMonth(m, r), InMonth(k, r)
  PROVE  m = k
BY PastIs DEF InMonth

\* The date of a day in cycles, at a time of the day.
DateOf(day, qc, c, q, y, r, m, secs) ==
  [year |-> 2000 + y + 4 * q + 100 * c + 400 * qc + (IF m >= 10 THEN 1 ELSE 0),
   month |-> m + 3 - (IF m >= 10 THEN 12 ELSE 0), day |-> r - Past[m] + 1, wday |-> (3 + day) % 7,
   hour |-> secs \div PerHour, minute |-> (secs % PerHour) \div PerMinute, second |-> secs % PerMinute]

DayOf(second) == (second - LeapEpoch * PerDay) \div PerDay
TimeOf(second) == (second - LeapEpoch * PerDay) % PerDay

\* Whole cycles of which the last has a day more.
LEMMA WholeIs ==
  ASSUME NEW n \in Nat
  PROVE  /\ n < 146097 => LET k == Whole(n, 36524, 3)
                          IN  k \in 0 .. 3 /\ 36524 * k <= n /\ n <= 36524 * k + 36524 /\ (n = 36524 * k + 36524 => k = 3)
         /\ n <= 36524 => LET k == Whole(n, 1461, 24)
                          IN  k \in 0 .. 24 /\ 1461 * k <= n /\ n <= 1461 * k + 1460
         /\ n <= 1460 => LET k == Whole(n, 365, 3)
                         IN  k \in 0 .. 3 /\ 365 * k <= n /\ n <= 365 * k + 365 /\ (n = 365 * k + 365 => k = 3 /\ n = 1460)
<1> DEFINE a == n \div 36524
           b == n \div 1461
           d == n \div 365
<1>1. /\ a \in Nat /\ 36524 * a <= n /\ n < 36524 * a + 36524
      /\ b \in Nat /\ 1461 * b <= n /\ n < 1461 * b + 1461
      /\ d \in Nat /\ 365 * d <= n /\ n < 365 * d + 365
  OBVIOUS
<1>2. /\ Whole(n, 36524, 3) = IF a = 4 THEN 3 ELSE a
      /\ Whole(n, 1461, 24) = IF b = 25 THEN 24 ELSE b
      /\ Whole(n, 365, 3) = IF d = 4 THEN 3 ELSE d
  BY DEF Whole
<1> HIDE DEF a, b, d
<1> DEFINE A == IF a = 4 THEN 3 ELSE a
           B == IF b = 25 THEN 24 ELSE b
           D == IF d = 4 THEN 3 ELSE d
<1>3. n < 146097 => A \in 0 .. 3 /\ 36524 * A <= n /\ n <= 36524 * A + 36524 /\ (n = 36524 * A + 36524 => A = 3)
  BY <1>1
<1>4. n <= 36524 => B \in 0 .. 24 /\ 1461 * B <= n /\ n <= 1461 * B + 1460
  BY <1>1
<1>5. n <= 1460 => D \in 0 .. 3 /\ 365 * D <= n /\ n <= 365 * D + 365 /\ (n = 365 * D + 365 => D = 3 /\ n = 1460)
  BY <1>1
<1> HIDE DEF A, B, D
<1>6. Whole(n, 36524, 3) = A /\ Whole(n, 1461, 24) = B /\ Whole(n, 365, 3) = D
  BY <1>2 DEF A, B, D
<1>7. QED
  BY <1>3, <1>4, <1>5, <1>6

\* MakeDateTime finds the cycles and the month.
LEMMA MakesDate ==
  ASSUME NEW second \in Int
  PROVE  \E qc, c, q, y, r, m :
           /\ InCycles(DayOf(second), qc, c, q, y, r) /\ InMonth(m, r)
           /\ MakeDateTime(second) = DateOf(DayOf(second), qc, c, q, y, r, m, TimeOf(second))
<1> DEFINE days == DayOf(second)
           qc   == days \div DaysPer400
           rem0 == days % DaysPer400
           c    == Whole(rem0, DaysPer100, 3)
           rem1 == rem0 - c * DaysPer100
           q    == Whole(rem1, DaysPer4, 24)
           rem2 == rem1 - q * DaysPer4
           y    == Whole(rem2, 365, 3)
           rem3 == rem2 - y * 365
           m    == CHOOSE k \in 0 .. 11 : Past[k] <= rem3 /\ rem3 < Past[k + 1]
<1>1. DaysPer400 = 146097 /\ DaysPer100 = 36524 /\ DaysPer4 = 1461
  BY DEF DaysPer400, DaysPer100, DaysPer4
<1>2. days \in Int
  BY DEF DayOf, LeapEpoch, PerDay, PerHour, PerMinute
<1> HIDE DEF days
<1>3. qc \in Int /\ rem0 \in Nat /\ rem0 < 146097 /\ days = 146097 * qc + rem0
  BY <1>1, <1>2
<1> HIDE DEF qc, rem0
<1>4. c \in 0 .. 3 /\ 36524 * c <= rem0 /\ rem0 <= 36524 * c + 36524 /\ (rem0 = 36524 * c + 36524 => c = 3)
  BY <1>1, <1>3, WholeIs
<1> HIDE DEF c
<1>5. rem1 \in Nat /\ rem1 <= 36524 /\ rem0 = 36524 * c + rem1
  BY <1>1, <1>3, <1>4
<1> HIDE DEF rem1
<1>6. q \in 0 .. 24 /\ 1461 * q <= rem1 /\ rem1 <= 1461 * q + 1460
  BY <1>1, <1>5, WholeIs
<1> HIDE DEF q
<1>7. rem2 \in Nat /\ rem2 <= 1460 /\ rem1 = 1461 * q + rem2
  BY <1>1, <1>5, <1>6
<1> HIDE DEF rem2
<1>8. y \in 0 .. 3 /\ 365 * y <= rem2 /\ rem2 <= 365 * y + 365 /\ (rem2 = 365 * y + 365 => y = 3 /\ rem2 = 1460)
  BY <1>7, WholeIs
<1> HIDE DEF y
<1>9. rem3 \in 0 .. 365 /\ rem2 = 365 * y + rem3
  BY <1>7, <1>8
<1> HIDE DEF rem3
<1>10. InCycles(days, qc, c, q, y, rem3)
  BY <1>3, <1>4, <1>5, <1>6, <1>7, <1>8, <1>9 DEF InCycles
<1>11. InMonth(m, rem3)
  BY <1>9, MonthExists DEF InMonth
<1>12. MakeDateTime(second) = DateOf(days, qc, c, q, y, rem3, m, TimeOf(second))
  BY DEF MakeDateTime, DateOf, DayOf, TimeOf, days, qc, rem0, c, rem1, q, rem2, y, rem3
<1>13. QED
  BY <1>10, <1>11, <1>12 DEF days

\* The year that a cycle's March is in, and whether the February behind it has 29 days.
YearOf(qc, c, q, y) == 2000 + y + 4 * q + 100 * c + 400 * qc
LeapBehind(c, q, y) == y = 3 /\ (q = 24 => c = 3)
\* The last day of February.
LastOfYear(c, q, y, r) == r = 365 \/ (r = 364 /\ ~LeapBehind(c, q, y))

\* The first day of a year of the cycles.
FirstOfYear(day, n) == \E qc, c, q, y : InCycles(day, qc, c, q, y, 0) /\ YearOf(qc, c, q, y) = n

\* Behind the last day of February the next year of the cycles begins.
LEMMA NextInCycles ==
  ASSUME NEW day, NEW qc, NEW c, NEW q, NEW y, NEW r, InCycles(day, qc, c, q, y, r)
  PROVE  /\ day \in Int /\ day + 1 \in Int
         /\ ~LastOfYear(c, q, y, r) => InCycles(day + 1, qc, c, q, y, r + 1)
         /\ LastOfYear(c, q, y, r) => FirstOfYear(day + 1, YearOf(qc, c, q, y) + 1)
<1>1. day \in Int /\ day + 1 \in Int
  BY DEF InCycles
<1>2. ASSUME ~LastOfYear(c, q, y, r) PROVE InCycles(day + 1, qc, c, q, y, r + 1)
  BY <1>2 DEF InCycles, LastOfYear, LeapBehind
<1>3. ASSUME LastOfYear(c, q, y, r)
      PROVE  FirstOfYear(day + 1, YearOf(qc, c, q, y) + 1)
  <2>1. CASE y < 3
    <3>1. InCycles(day + 1, qc, c, q, y + 1, 0)
      BY <1>3, <2>1 DEF InCycles, LastOfYear, LeapBehind
    <3>2. YearOf(qc, c, q, y + 1) = YearOf(qc, c, q, y) + 1
      BY DEF InCycles, YearOf
    <3>3. QED
      BY <3>1, <3>2, Zenon DEF FirstOfYear
  <2>2. CASE y = 3 /\ q < 24
    <3>1. InCycles(day + 1, qc, c, q + 1, 0, 0)
      BY <1>3, <2>2 DEF InCycles, LastOfYear, LeapBehind
    <3>2. YearOf(qc, c, q + 1, 0) = YearOf(qc, c, q, y) + 1
      BY <2>2 DEF InCycles, YearOf
    <3>3. QED
      BY <3>1, <3>2, Zenon DEF FirstOfYear
  <2>3. CASE y = 3 /\ q = 24 /\ c < 3
    <3>1. InCycles(day + 1, qc, c + 1, 0, 0, 0)
      BY <1>3, <2>3 DEF InCycles, LastOfYear, LeapBehind
    <3>2. YearOf(qc, c + 1, 0, 0) = YearOf(qc, c, q, y) + 1
      BY <2>3 DEF InCycles, YearOf
    <3>3. QED
      BY <3>1, <3>2, Zenon DEF FirstOfYear
  <2>4. CASE y = 3 /\ q = 24 /\ c = 3
    <3>1. InCycles(day + 1, qc + 1, 0, 0, 0, 0)
      BY <1>3, <2>4 DEF InCycles, LastOfYear, LeapBehind
    <3>2. YearOf(qc + 1, 0, 0, 0) = YearOf(qc, c, q, y) + 1
      BY <2>4 DEF InCycles, YearOf
    <3>3. QED
      BY <3>1, <3>2, Zenon DEF FirstOfYear
  <2>5. y < 3 \/ (y = 3 /\ q < 24) \/ (y = 3 /\ q = 24 /\ c < 3) \/ (y = 3 /\ q = 24 /\ c = 3)
    BY DEF InCycles
  <2>6. QED
    BY <2>1, <2>2, <2>3, <2>4, <2>5
<1>4. QED
  BY <1>1, <1>2, <1>3

\* The year before has a day more if it is a leap year.
LEMMA YearLength ==
  ASSUME NEW n \in Int
  PROVE  YearDays(n) \in Int /\ YearDays(n + 1) = YearDays(n) + 365 + (IF IsLeapYear(n) THEN 1 ELSE 0)
<1>1. n \div 4 = (n - 1) \div 4 + (IF n % 4 = 0 THEN 1 ELSE 0)
  OBVIOUS
<1>2. n \div 100 = (n - 1) \div 100 + (IF n % 100 = 0 THEN 1 ELSE 0)
  OBVIOUS
<1>3. n \div 400 = (n - 1) \div 400 + (IF n % 400 = 0 THEN 1 ELSE 0)
  OBVIOUS
<1>4. (n % 400 = 0 => n % 100 = 0) /\ (n % 100 = 0 => n % 4 = 0)
  OBVIOUS
<1> DEFINE a == (n - 1) \div 4
           b == (n - 1) \div 100
           d == (n - 1) \div 400
<1>5. YearDays(n) = (n - 1) * 365 + a - b + d
  BY DEF YearDays
<1>6. YearDays(n + 1) = n * 365 + n \div 4 - n \div 100 + n \div 400
  BY DEF YearDays
<1>7. IsLeapYear(n) <=> n % 4 = 0 /\ (n % 100 # 0 \/ n % 400 = 0)
  BY DEF IsLeapYear
<1>8. a \in Int /\ b \in Int /\ d \in Int
  OBVIOUS
<1> HIDE DEF a, b, d
<1>9. YearDays(n + 1) = n * 365 + (a + (IF n % 4 = 0 THEN 1 ELSE 0)) - (b + (IF n % 100 = 0 THEN 1 ELSE 0))
                         + (d + (IF n % 400 = 0 THEN 1 ELSE 0))
  BY <1>1, <1>2, <1>3, <1>6 DEF a, b, d
<1>10. CASE n % 4 # 0
  BY <1>4, <1>5, <1>7, <1>8, <1>9, <1>10
<1>11. CASE n % 4 = 0 /\ n % 100 # 0
  BY <1>4, <1>5, <1>7, <1>8, <1>9, <1>11
<1>12. CASE n % 100 = 0 /\ n % 400 # 0
  BY <1>4, <1>5, <1>7, <1>8, <1>9, <1>12
<1>13. CASE n % 400 = 0
  BY <1>4, <1>5, <1>7, <1>8, <1>9, <1>13
<1>14. QED
  BY <1>4, <1>10, <1>11, <1>12, <1>13

\* The year of a cycle's January: the days before it, and whether it is a leap year.
LEMMA JanuaryOf ==
  ASSUME NEW day, NEW qc, NEW c, NEW q, NEW y, NEW r, InCycles(day, qc, c, q, y, r)
  PROVE  LET n == YearOf(qc, c, q, y) + 1
         IN  n \in Int /\ YearDays(n) = 730485 + day - r /\ (IsLeapYear(n) <=> LeapBehind(c, q, y))
<1> DEFINE n == YearOf(qc, c, q, y) + 1
<1>1. /\ qc \in Int /\ c \in 0 .. 3 /\ q \in 0 .. 24 /\ y \in 0 .. 3 /\ r \in 0 .. 365
      /\ day = 146097 * qc + 36524 * c + 1461 * q + 365 * y + r
  BY DEF InCycles
<1>2. n = 2001 + y + 4 * q + 100 * c + 400 * qc /\ n \in Int
  BY <1>1 DEF YearOf
<1> HIDE DEF n
<1>3. (n - 1) \div 4 = 500 + q + 25 * c + 100 * qc /\ (n % 4 = 0 <=> y = 3)
  BY <1>1, <1>2
<1>4. (n - 1) \div 100 = 20 + c + 4 * qc /\ (n % 100 = 0 <=> y = 3 /\ q = 24)
  BY <1>1, <1>2
<1>5. (n - 1) \div 400 = 5 + qc /\ (n % 400 = 0 <=> y = 3 /\ q = 24 /\ c = 3)
  BY <1>1, <1>2
<1>6. YearDays(n) = (n - 1) * 365 + (500 + q + 25 * c + 100 * qc) - (20 + c + 4 * qc) + (5 + qc)
  BY <1>3, <1>4, <1>5 DEF YearDays
<1>7. YearDays(n) = 730485 + day - r
  BY <1>1, <1>2, <1>6
<1>8. IsLeapYear(n) <=> LeapBehind(c, q, y)
  BY <1>1, <1>3, <1>4, <1>5 DEF IsLeapYear, LeapBehind
<1>9. QED
  BY <1>2, <1>7, <1>8 DEF n

\* The tables of a year that begins in January and of one that begins in March.
MonthOf(m) == m + 3 - (IF m >= 10 THEN 12 ELSE 0)

LEMMA TablesAgree ==
  ASSUME NEW m \in 0 .. 11
  PROVE  /\ MonthOf(m) \in 1 .. 12 /\ (MonthOf(m) = 2 <=> m = 11) /\ (MonthOf(m) > 2 <=> m < 10)
         /\ (MonthOf(m) = 12 <=> m = 9)
         /\ Past[m] \in 0 .. 365 /\ Past[m + 1] \in 0 .. 366 /\ (m = 11 => Past[m] = 337)
         /\ Before[MonthOf(m)] = IF m >= 10 THEN Past[m] - 306 ELSE Past[m] + 59
         /\ Months[MonthOf(m)] = IF m = 11 THEN 28 ELSE Past[m + 1] - Past[m]
         /\ LeapMonths[MonthOf(m)] = IF m = 11 THEN 29 ELSE Past[m + 1] - Past[m]
<1>1. /\ MonthOf(m) \in 1 .. 12 /\ (MonthOf(m) = 2 <=> m = 11) /\ (MonthOf(m) > 2 <=> m < 10)
      /\ (MonthOf(m) = 12 <=> m = 9)
  BY DEF MonthOf
<1>2. Past[m] \in 0 .. 365 /\ Past[m + 1] \in 0 .. 366 /\ (m = 11 => Past[m] = 337)
  BY PastIs
<1>3. Before[MonthOf(m)] = IF m >= 10 THEN Past[m] - 306 ELSE Past[m] + 59
  BY PastIs, BeforeIs DEF MonthOf
<1>4. Months[MonthOf(m)] = IF m = 11 THEN 28 ELSE Past[m + 1] - Past[m]
  BY PastIs DEF MonthOf, Months
<1>5. LeapMonths[MonthOf(m)] = IF m = 11 THEN 29 ELSE Months[MonthOf(m)]
  BY DEF MonthOf, LeapMonths, Months
<1>6. QED
  BY <1>1, <1>2, <1>3, <1>4, <1>5

\* Year, month and day of a date are those of the calendar.
LEMMA DateCounts ==
  ASSUME NEW day, NEW qc, NEW c, NEW q, NEW y, NEW r, InCycles(day, qc, c, q, y, r), NEW m, InMonth(m, r), NEW secs
  PROVE  LET dt == DateOf(day, qc, c, q, y, r, m, secs)
         IN  /\ dt.year \in Int /\ dt.month = MonthOf(m) /\ dt.day = r - Past[m] + 1
             /\ dt.year = YearOf(qc, c, q, y) + (IF m >= 10 THEN 1 ELSE 0)
             /\ MonthDays(dt.year, dt.month) = IF m = 11 THEN (IF LeapBehind(c, q, y) THEN 29 ELSE 28) ELSE Past[m + 1] - Past[m]
             /\ dt.day \in 1 .. MonthDays(dt.year, dt.month)
             /\ YearDays(dt.year) + Before[dt.month] + (IF dt.month > 2 /\ IsLeapYear(dt.year) THEN 1 ELSE 0) + dt.day - 1
                  = day + 730179
<1> DEFINE dt == DateOf(day, qc, c, q, y, r, m, secs)
           n == YearOf(qc, c, q, y)
<1>1. /\ qc \in Int /\ c \in 0 .. 3 /\ q \in 0 .. 24 /\ y \in 0 .. 3 /\ r \in 0 .. 365 /\ day \in Int
      /\ (r = 365 => LeapBehind(c, q, y))
  BY SMT DEF InCycles, LeapBehind
<1>2. m \in 0 .. 11 /\ Past[m] <= r /\ r < Past[m + 1]
  BY SMT DEF InMonth
<1>3. n \in Int /\ YearDays(n + 1) = 730485 + day - r /\ (IsLeapYear(n + 1) <=> LeapBehind(c, q, y))
  <2>1. n + 1 \in Int /\ YearDays(n + 1) = 730485 + day - r /\ (IsLeapYear(n + 1) <=> LeapBehind(c, q, y))
    BY SMT, JanuaryOf
  <2>2. n \in Int
    BY SMT, <1>1 DEF YearOf
  <2>3. QED
    BY SMT, <2>1, <2>2
<1>4. /\ dt.month = MonthOf(m) /\ dt.day = r - Past[m] + 1
      /\ dt.year = n + (IF m >= 10 THEN 1 ELSE 0)
  BY SMT DEF DateOf, YearOf, MonthOf
<1> HIDE DEF dt, n
<1>5. dt.year \in Int
  BY SMT, <1>3, <1>4
<1>6. MonthDays(dt.year, dt.month) = IF m = 11 THEN (IF LeapBehind(c, q, y) THEN 29 ELSE 28) ELSE Past[m + 1] - Past[m]
  <2>1. CASE m = 11
    <3>1. dt.year = n + 1
      BY SMT, <1>3, <1>4, <2>1
    <3>2. QED
      BY SMT, <1>2, <1>3, <1>4, <2>1, <3>1, TablesAgree DEF MonthDays
  <2>2. CASE m # 11
    BY SMT, <1>2, <1>4, <2>2, TablesAgree DEF MonthDays
  <2>3. QED
    BY SMT, <2>1, <2>2
<1>7. Past[m] \in 0 .. 365 /\ Past[m + 1] \in 0 .. 366 /\ (m = 11 => Past[m] = 337)
  BY SMT, <1>2, TablesAgree
<1>8. dt.day \in 1 .. MonthDays(dt.year, dt.month)
  <2>1. CASE m # 11
    <3>1. MonthDays(dt.year, dt.month) = Past[m + 1] - Past[m]
      BY <1>6, <2>1, Zenon
    <3>2. r - Past[m] + 1 \in 1 .. (Past[m + 1] - Past[m])
      <4> DEFINE a == Past[m]
                 b == Past[m + 1]
      <4>1. a \in 0 .. 365 /\ b \in 0 .. 366 /\ a <= r /\ r < b
        BY <1>2, <1>7
      <4> HIDE DEF a, b
      <4>2. r - a + 1 \in 1 .. (b - a)
        BY <1>1, <4>1
      <4>3. QED
        BY <4>2 DEF a, b
    <3>3. QED
      BY <1>4, <3>1, <3>2, Zenon
  <2>2. CASE m = 11
    <3>1. Past[12] = 366 /\ Past[11] = 337
      BY SMT, PastIs
    <3>2. QED
      BY SMT, <1>1, <1>2, <1>4, <1>6, <1>7, <2>2, <3>1
  <2>3. QED
    BY SMT, <2>1, <2>2
<1>9. YearDays(dt.year) + Before[dt.month] + (IF dt.month > 2 /\ IsLeapYear(dt.year) THEN 1 ELSE 0) + dt.day - 1
        = day + 730179
  <2>1. YearDays(n) \in Int /\ YearDays(n + 1) = YearDays(n) + 365 + (IF IsLeapYear(n) THEN 1 ELSE 0)
    BY SMT, <1>3, YearLength
  <2>2. /\ Before[dt.month] = IF m >= 10 THEN Past[m] - 306 ELSE Past[m] + 59
        /\ dt.month > 2 <=> m < 10
    BY SMT, <1>2, <1>4, TablesAgree
  <2>3. CASE m >= 10
    <3>1. dt.year = n + 1 /\ ~(dt.month > 2) /\ Before[dt.month] = Past[m] - 306
      BY SMT, <1>2, <1>4, <2>2, <2>3
    <3>2. QED
      BY SMT, <1>1, <1>3, <1>4, <1>7, <3>1
  <2>4. CASE m < 10
    <3>1. dt.year = n /\ dt.month > 2 /\ Before[dt.month] = Past[m] + 59
      BY SMT, <1>2, <1>3, <1>4, <2>2, <2>4
    <3>2. CASE IsLeapYear(n)
      <4>1. (IF dt.month > 2 /\ IsLeapYear(dt.year) THEN 1 ELSE 0) = 1
        BY <3>1, <3>2, Zenon
      <4>2. YearDays(n + 1) = YearDays(n) + 366
        BY SMT, <2>1, <3>2
      <4>3. YearDays(dt.year) = YearDays(n)
        BY <3>1, Zenon
      <4>4. QED
        BY SMT, <1>1, <1>3, <1>4, <1>7, <2>1, <3>1, <4>1, <4>2, <4>3
    <3>3. CASE ~IsLeapYear(n)
      <4>1. (IF dt.month > 2 /\ IsLeapYear(dt.year) THEN 1 ELSE 0) = 0
        BY <3>1, <3>3, Zenon
      <4>2. YearDays(n + 1) = YearDays(n) + 365
        BY SMT, <2>1, <3>3
      <4>3. YearDays(dt.year) = YearDays(n)
        BY <3>1, Zenon
      <4>4. QED
        BY SMT, <1>1, <1>3, <1>4, <1>7, <2>1, <3>1, <4>1, <4>2, <4>3
    <3>4. QED
      BY SMT, <3>2, <3>3
  <2>5. QED
    BY SMT, <1>2, <2>3, <2>4
<1>10. QED
  BY SMT, <1>4, <1>5, <1>6, <1>8, <1>9 DEF dt, n

\* A day later it is the same time of the next day.
LEMMA DayAndTime ==
  ASSUME NEW u \in Int
  PROVE  /\ DayOf(u) \in Int /\ TimeOf(u) \in 0 .. 15 /\ u = (DayOf(u) + LeapEpoch) * PerDay + TimeOf(u)
         /\ u + PerDay \in Int /\ DayOf(u + PerDay) = DayOf(u) + 1 /\ TimeOf(u + PerDay) = TimeOf(u)
<1>1. PerDay = 16 /\ LeapEpoch = 11017
  BY DEF PerDay, PerHour, PerMinute, LeapEpoch
<1> DEFINE v == u - LeapEpoch * PerDay
<1>2. v \in Int /\ u + PerDay - LeapEpoch * PerDay = v + 16 /\ u = LeapEpoch * 16 + v
  BY <1>1
<1>3. DayOf(u) = v \div 16 /\ TimeOf(u) = v % 16 /\ DayOf(u + PerDay) = (v + 16) \div 16 /\ TimeOf(u + PerDay) = (v + 16) % 16
  BY <1>1, <1>2 DEF DayOf, TimeOf
<1> HIDE DEF v
<1>4. v \div 16 \in Int /\ v % 16 \in 0 .. 15 /\ v = 16 * (v \div 16) + (v % 16) /\ (v + 16) \div 16 = v \div 16 + 1 /\ (v + 16) % 16 = v % 16
  BY <1>2
<1>5. QED
  BY <1>1, <1>2, <1>3, <1>4

\* What NextDay does to the parts of a date.
LEMMA NextDayOf ==
  ASSUME NEW yr, NEW mon, NEW d, NEW w, NEW h, NEW mi, NEW s
  PROVE  LET last == d = MonthDays(yr, mon)
         IN  NextDay([year |-> yr, month |-> mon, day |-> d, wday |-> w, hour |-> h, minute |-> mi, second |-> s])
               = [year |-> IF last /\ mon = 12 THEN yr + 1 ELSE yr,
                  month |-> IF ~last THEN mon ELSE IF mon = 12 THEN 1 ELSE mon + 1,
                  day |-> IF last THEN 1 ELSE d + 1, wday |-> (w + 1) % 7, hour |-> h, minute |-> mi, second |-> s]
<1> DEFINE dt == [year |-> yr, month |-> mon, day |-> d, wday |-> w, hour |-> h, minute |-> mi, second |-> s]
           last == d = MonthDays(yr, mon)
<1>1. dt.year = yr /\ dt.month = mon /\ dt.day = d /\ dt.wday = w
  OBVIOUS
<1>2. \A k1, k2, k3, k4 :
        [dt EXCEPT !.day = k1, !.month = k2, !.year = k3, !.wday = k4]
          = [year |-> k3, month |-> k2, day |-> k1, wday |-> k4, hour |-> h, minute |-> mi, second |-> s]
  <2> SUFFICES ASSUME NEW k1, NEW k2, NEW k3, NEW k4
               PROVE  [dt EXCEPT !.day = k1, !.month = k2, !.year = k3, !.wday = k4]
                        = [year |-> k3, month |-> k2, day |-> k1, wday |-> k4, hour |-> h, minute |-> mi, second |-> s]
    OBVIOUS
  <2> DEFINE d1 == [year |-> yr, month |-> mon, day |-> k1, wday |-> w, hour |-> h, minute |-> mi, second |-> s]
             d2 == [year |-> yr, month |-> k2, day |-> k1, wday |-> w, hour |-> h, minute |-> mi, second |-> s]
             d3 == [year |-> k3, month |-> k2, day |-> k1, wday |-> w, hour |-> h, minute |-> mi, second |-> s]
  <2>1. [dt EXCEPT !.day = k1] = d1
    OBVIOUS
  <2>2. [d1 EXCEPT !.month = k2] = d2
    OBVIOUS
  <2>3. [d2 EXCEPT !.year = k3] = d3
    OBVIOUS
  <2>4. [d3 EXCEPT !.wday = k4]
          = [year |-> k3, month |-> k2, day |-> k1, wday |-> k4, hour |-> h, minute |-> mi, second |-> s]
    OBVIOUS
  <2> HIDE DEF dt, d1, d2, d3
  <2>5. [dt EXCEPT !.day = k1, !.month = k2, !.year = k3, !.wday = k4]
          = [[[[dt EXCEPT !.day = k1] EXCEPT !.month = k2] EXCEPT !.year = k3] EXCEPT !.wday = k4]
    OBVIOUS
  <2>6. QED
    BY <2>1, <2>2, <2>3, <2>4, <2>5, Zenon
<1> HIDE DEF dt
<1>3. NextDay(dt) = [dt EXCEPT !.day = IF last THEN 1 ELSE d + 1,
                               !.month = IF ~last THEN mon ELSE IF mon = 12 THEN 1 ELSE mon + 1,
                               !.year = IF last /\ mon = 12 THEN yr + 1 ELSE yr,
                               !.wday = (w + 1) % 7]
  BY <1>1, Zenon DEF NextDay
<1> HIDE DEF last
<1>4. NextDay(dt) = [year |-> IF last /\ mon = 12 THEN yr + 1 ELSE yr,
                     month |-> IF ~last THEN mon ELSE IF mon = 12 THEN 1 ELSE mon + 1,
                     day |-> IF last THEN 1 ELSE d + 1, wday |-> (w + 1) % 7, hour |-> h, minute |-> mi, second |-> s]
  BY <1>2, <1>3
<1>5. QED
  BY <1>4 DEF dt, last

\* The last day of a month, in the years of the cycles.
LEMMA LastOfMonth ==
  ASSUME NEW day, NEW qc, NEW c, NEW q, NEW y, NEW r, InCycles(day, qc, c, q, y, r), NEW m, InMonth(m, r)
  PROVE  LET yr == YearOf(qc, c, q, y) + (IF m >= 10 THEN 1 ELSE 0)
         IN  r - Past[m] + 1 = MonthDays(yr, MonthOf(m))
               <=> IF m = 11 THEN LastOfYear(c, q, y, r) ELSE r + 1 = Past[m + 1]
<1> DEFINE yr == YearOf(qc, c, q, y) + (IF m >= 10 THEN 1 ELSE 0)
           dt == DateOf(day, qc, c, q, y, r, m, 0)
<1>1. MonthDays(dt.year, dt.month) = (IF m = 11 THEN (IF LeapBehind(c, q, y) THEN 29 ELSE 28) ELSE Past[m + 1] - Past[m])
      /\ dt.year = yr /\ dt.month = MonthOf(m)
  BY DateCounts
<1> HIDE DEF dt, yr
<1>2. MonthDays(yr, MonthOf(m)) = IF m = 11 THEN (IF LeapBehind(c, q, y) THEN 29 ELSE 28) ELSE Past[m + 1] - Past[m]
  BY <1>1
<1>3. r \in 0 .. 365 /\ m \in 0 .. 11 /\ (r = 365 => LeapBehind(c, q, y))
  BY DEF InCycles, InMonth, LeapBehind
<1>4. Past[m] \in 0 .. 365 /\ Past[m + 1] \in 0 .. 366 /\ (m = 11 => Past[m] = 337)
  BY <1>3, TablesAgree
<1> DEFINE a == Past[m]
           b == Past[m + 1]
           w == MonthDays(yr, MonthOf(m))
<1>5. CASE m = 11
  <2>1. a = 337 /\ w = IF LeapBehind(c, q, y) THEN 29 ELSE 28
    BY <1>2, <1>4, <1>5
  <2> HIDE DEF a, w
  <2>2. r - a + 1 = w <=> LastOfYear(c, q, y, r)
    BY <1>3, <2>1 DEF LastOfYear
  <2>3. QED
    BY <1>5, <2>2 DEF a, w, yr
<1>6. CASE m # 11
  <2>1. a \in Int /\ b \in Int /\ w = b - a
    BY <1>2, <1>4, <1>6
  <2> HIDE DEF a, b, w
  <2>2. r - a + 1 = w <=> r + 1 = b
    BY <1>3, <2>1
  <2>3. QED
    BY <1>6, <2>2 DEF a, b, w, yr
<1>7. QED
  BY <1>5, <1>6

\* Dates follow each other as in the calendar.
LEMMA DaysFollow == ASSUME NEW u \in Int PROVE MakeDateTime(u + PerDay) = NextDay(MakeDateTime(u))
<1> DEFINE day == DayOf(u)
           secs == TimeOf(u)
<1>1. PICK qc, c, q, y, r, m :
        InCycles(day, qc, c, q, y, r) /\ InMonth(m, r) /\ MakeDateTime(u) = DateOf(day, qc, c, q, y, r, m, secs)
  BY MakesDate
<1>2. PICK qc2, c2, q2, y2, r2, m2 :
        InCycles(day + 1, qc2, c2, q2, y2, r2) /\ InMonth(m2, r2)
        /\ MakeDateTime(u + PerDay) = DateOf(day + 1, qc2, c2, q2, y2, r2, m2, secs)
  <2>1. u + PerDay \in Int /\ DayOf(u + PerDay) = day + 1 /\ TimeOf(u + PerDay) = secs
    BY DayAndTime
  <2>2. QED
    BY <2>1, MakesDate
<1> DEFINE yr == YearOf(qc, c, q, y) + (IF m >= 10 THEN 1 ELSE 0)
           last == r - Past[m] + 1 = MonthDays(yr, MonthOf(m))
           h == secs \div PerHour
           mi == (secs % PerHour) \div PerMinute
           s == secs % PerMinute
<1>3. NextDay(MakeDateTime(u))
        = [year |-> IF last /\ MonthOf(m) = 12 THEN yr + 1 ELSE yr,
           month |-> IF ~last THEN MonthOf(m) ELSE IF MonthOf(m) = 12 THEN 1 ELSE MonthOf(m) + 1,
           day |-> IF last THEN 1 ELSE (r - Past[m] + 1) + 1, wday |-> (((3 + day) % 7) + 1) % 7, hour |-> h, minute |-> mi, second |-> s]
  <2>1. MakeDateTime(u) = [year |-> yr, month |-> MonthOf(m), day |-> r - Past[m] + 1, wday |-> (3 + day) % 7,
                           hour |-> h, minute |-> mi, second |-> s]
    BY <1>1 DEF DateOf, YearOf, MonthOf
  <2> HIDE DEF day, yr, h, mi, s
  <2>2. QED
    BY <2>1, NextDayOf
<1>4. MakeDateTime(u + PerDay)
        = [year |-> YearOf(qc2, c2, q2, y2) + (IF m2 >= 10 THEN 1 ELSE 0), month |-> MonthOf(m2),
           day |-> r2 - Past[m2] + 1, wday |-> (3 + (day + 1)) % 7, hour |-> h, minute |-> mi, second |-> s]
  BY <1>2 DEF DateOf, YearOf, MonthOf
<1> HIDE DEF h, mi, s
<1>5. (((3 + day) % 7) + 1) % 7 = (3 + (day + 1)) % 7
  BY DayAndTime
<1> HIDE DEF day, secs
<1>6. last <=> IF m = 11 THEN LastOfYear(c, q, y, r) ELSE r + 1 = Past[m + 1]
  BY <1>1, LastOfMonth
<1> HIDE DEF last
<1>7. /\ r \in 0 .. 365 /\ m \in 0 .. 11 /\ Past[m] <= r /\ r < Past[m + 1] /\ Past[m] \in 0 .. 365 /\ Past[m + 1] \in 0 .. 366
      /\ m = 11 => Past[m] = 337
  <2>1. r \in 0 .. 365 /\ m \in 0 .. 11 /\ Past[m] <= r /\ r < Past[m + 1]
    BY <1>1 DEF InCycles, InMonth
  <2>2. QED
    BY <2>1, TablesAgree
<1>8. yr \in Int /\ YearOf(qc, c, q, y) \in Int
  BY <1>1 DEF InCycles, YearOf
<1>9. CASE ~last
  <2>1. ~LastOfYear(c, q, y, r)
    BY <1>6, <1>7, <1>9, PastIs DEF LastOfYear
  <2>2. InCycles(day + 1, qc, c, q, y, r + 1)
    BY <1>1, <2>1, NextInCycles
  <2>3. qc2 = qc /\ c2 = c /\ q2 = q /\ y2 = y /\ r2 = r + 1
    BY <1>2, <2>2, CyclesUnique
  <2>4. InMonth(m, r + 1)
    BY <1>6, <1>7, <1>9, PastIs DEF InMonth, LastOfYear
  <2>5. m2 = m
    BY <1>2, <1>7, <2>3, <2>4, MonthUnique
  <2>6. r2 - Past[m2] + 1 = (r - Past[m] + 1) + 1
    BY <1>7, <2>3, <2>5
  <2>7. QED
    BY <1>3, <1>4, <1>5, <1>9, <2>3, <2>5, <2>6, Zenon DEF yr
<1>10. CASE last /\ m < 11
  <2>1. r + 1 = Past[m + 1]
    BY <1>6, <1>7, <1>10
  <2>2. r < 337
    BY <1>7, <1>10, <2>1, PastIs
  <2>3. InCycles(day + 1, qc, c, q, y, r + 1)
    <3>1. ~LastOfYear(c, q, y, r)
      BY <1>7, <2>2 DEF LastOfYear
    <3>2. QED
      BY <1>1, <3>1, NextInCycles
  <2>4. qc2 = qc /\ c2 = c /\ q2 = q /\ y2 = y /\ r2 = r + 1
    BY <1>2, <2>3, CyclesUnique
  <2>5. InMonth(m + 1, r + 1)
    BY <1>7, <1>10, <2>1, PastIs DEF InMonth
  <2>6. m2 = m + 1
    BY <1>2, <1>7, <2>4, <2>5, MonthUnique
  <2>7. r2 - Past[m2] + 1 = 1
    BY <1>7, <2>1, <2>4, <2>6
  <2>8. /\ MonthOf(m2) = IF MonthOf(m) = 12 THEN 1 ELSE MonthOf(m) + 1
        /\ YearOf(qc, c, q, y) + (IF m2 >= 10 THEN 1 ELSE 0) = IF MonthOf(m) = 12 THEN yr + 1 ELSE yr
    BY <1>7, <1>8, <1>10, <2>6 DEF MonthOf, yr
  <2>9. QED
    BY <1>3, <1>4, <1>5, <1>10, <2>4, <2>7, <2>8, Zenon
<1>11. CASE last /\ m = 11
  <2>1. PICK qc3, c3, q3, y3 : InCycles(day + 1, qc3, c3, q3, y3, 0) /\ YearOf(qc3, c3, q3, y3) = YearOf(qc, c, q, y) + 1
    <3>1. LastOfYear(c, q, y, r)
      BY <1>6, <1>11, Zenon
    <3>2. FirstOfYear(day + 1, YearOf(qc, c, q, y) + 1)
      BY <1>1, <3>1, NextInCycles
    <3>3. QED
      BY <3>2, Zenon DEF FirstOfYear
  <2>2. qc2 = qc3 /\ c2 = c3 /\ q2 = q3 /\ y2 = y3 /\ r2 = 0
    BY <1>2, <2>1, CyclesUnique
  <2>3. InMonth(0, 0)
    BY PastIs DEF InMonth
  <2>4. m2 = 0
    BY <1>2, <2>2, <2>3, MonthUnique
  <2>5. r2 - Past[m2] + 1 = 1
    BY <2>2, <2>4, PastIs
  <2>6. /\ MonthOf(m2) = 3 /\ MonthOf(m) = 2 /\ yr = YearOf(qc, c, q, y) + 1
        /\ YearOf(qc2, c2, q2, y2) + (IF m2 >= 10 THEN 1 ELSE 0) = yr
    BY <1>8, <1>11, <2>1, <2>2, <2>4 DEF MonthOf, yr
  <2>7. QED
    BY <1>3, <1>4, <1>5, <1>11, <2>5, <2>6
<1>12. QED
  BY <1>7, <1>9, <1>10, <1>11

\* The days up to a date, from year 1 on.
DaysCounted(dt) ==
  YearDays(dt.year) + Before[dt.month] + (IF dt.month > 2 /\ IsLeapYear(dt.year) THEN 1 ELSE 0) + dt.day - 1

\* A date is one of the calendar and gives back the day and the time it is of.
LEMMA DateGivesBack ==
  ASSUME NEW u \in Int
  PROVE  LET dt == MakeDateTime(u)
         IN  /\ dt = [year |-> dt.year, month |-> dt.month, day |-> dt.day, wday |-> dt.wday,
                      hour |-> dt.hour, minute |-> dt.minute, second |-> dt.second]
             /\ dt.year \in Int /\ dt.month \in 1 .. 12 /\ MonthDays(dt.year, dt.month) \in Int
             /\ dt.day \in 1 .. MonthDays(dt.year, dt.month)
             /\ DaysCounted(dt) = DayOf(u) + LeapEpoch + UnixEpochDays /\ dt.wday = (3 + DayOf(u)) % 7
             /\ dt.hour \in 0 .. 1 /\ dt.minute \in 0 .. 1 /\ dt.second \in 0 .. 3
             /\ dt.hour * PerHour + dt.minute * PerMinute + dt.second = TimeOf(u)
<1> DEFINE dt == MakeDateTime(u)
           day == DayOf(u)
           secs == TimeOf(u)
<1>1. PICK qc, c, q, y, r, m :
        InCycles(day, qc, c, q, y, r) /\ InMonth(m, r) /\ MakeDateTime(u) = DateOf(day, qc, c, q, y, r, m, secs)
  BY MakesDate
<1>2. dt = [year |-> dt.year, month |-> dt.month, day |-> dt.day, wday |-> dt.wday,
            hour |-> dt.hour, minute |-> dt.minute, second |-> dt.second]
      /\ dt.wday = (3 + day) % 7
      /\ dt.hour = secs \div PerHour /\ dt.minute = (secs % PerHour) \div PerMinute /\ dt.second = secs % PerMinute
  BY <1>1 DEF DateOf
<1>3. dt.year \in Int /\ dt.month = MonthOf(m) /\ dt.day \in 1 .. MonthDays(dt.year, dt.month)
  BY <1>1, DateCounts
<1>4. MonthDays(dt.year, dt.month) = IF m = 11 THEN (IF LeapBehind(c, q, y) THEN 29 ELSE 28) ELSE Past[m + 1] - Past[m]
  BY <1>1, DateCounts
<1>5. m \in 0 .. 11
  BY <1>1 DEF InMonth
<1>6. Past[m] \in Int /\ Past[m + 1] \in Int /\ MonthOf(m) \in 1 .. 12
  <2>1. Past[m] \in Int /\ Past[m + 1] \in Int
    BY <1>5, PastIs
  <2>2. MonthOf(m) \in 1 .. 12
    BY <1>5 DEF MonthOf
  <2>3. QED
    BY <2>1, <2>2
<1> HIDE DEF dt
<1>7. MonthDays(dt.year, dt.month) \in Int
  BY <1>4, <1>6
<1>8. LeapEpoch + UnixEpochDays = 730179 /\ LeapEpoch \in Int /\ UnixEpochDays \in Int
  BY SMT DEF LeapEpoch, UnixEpochDays
<1>9. DaysCounted(dt) = day + 730179
  <2>1. DaysCounted(DateOf(day, qc, c, q, y, r, m, secs)) = day + 730179
    BY <1>1, DateCounts, SMT DEF DaysCounted
  <2>2. QED
    BY <1>1, <2>1, SMT DEF dt
<1>10. day \in Int /\ secs \in 0 .. 15
  BY DayAndTime
<1> HIDE DEF day, secs
<1>11. DaysCounted(dt) = day + LeapEpoch + UnixEpochDays
  BY <1>8, <1>9, <1>10, SMT
<1>12. PerHour = 8 /\ PerMinute = 4
  BY DEF PerHour, PerMinute
<1>13. dt.hour \in 0 .. 1 /\ dt.minute \in 0 .. 1 /\ dt.second \in 0 .. 3
       /\ dt.hour * PerHour + dt.minute * PerMinute + dt.second = secs
  BY <1>2, <1>10, <1>12
<1>14. QED
  BY <1>2, <1>3, <1>5, <1>6, <1>7, <1>11, <1>13 DEF dt, day, secs

\* The first date is that of the epoch.
LEMMA EpochIs == MakeDateTime(0) = Epoch
<1>1. LeapEpoch = 11017 /\ PerDay = 16 /\ PerHour = 8 /\ PerMinute = 4
  BY SMT DEF LeapEpoch, PerDay, PerHour, PerMinute
<1>2. DayOf(0) = 0 - 11017 /\ TimeOf(0) = 0
  BY <1>1, SMT DEF DayOf, TimeOf
<1>3. PICK qc, c, q, y, r, m :
        InCycles(DayOf(0), qc, c, q, y, r) /\ InMonth(m, r) /\ MakeDateTime(0) = DateOf(DayOf(0), qc, c, q, y, r, m, TimeOf(0))
  BY MakesDate
<1>4. InCycles(DayOf(0), 0 - 1, 3, 17, 1, 306)
  BY <1>2, SMT DEF InCycles
<1>5. qc = 0 - 1 /\ c = 3 /\ q = 17 /\ y = 1 /\ r = 306
  BY <1>3, <1>4, CyclesUnique
<1>6. InMonth(10, 306)
  BY PastIs, SMT DEF InMonth
<1>7. m = 10
  BY <1>3, <1>5, <1>6, MonthUnique
<1>8. /\ 2000 + y + 4 * q + 100 * c + 400 * qc + (IF m >= 10 THEN 1 ELSE 0) = 1970
      /\ m + 3 - (IF m >= 10 THEN 12 ELSE 0) = 1 /\ r - Past[m] + 1 = 1
  BY <1>5, <1>7, PastIs, SMT
<1>9. /\ (3 + DayOf(0)) % 7 = 4 /\ TimeOf(0) \div PerHour = 0
      /\ (TimeOf(0) % PerHour) \div PerMinute = 0 /\ TimeOf(0) % PerMinute = 0
  BY <1>1, <1>2, SMT
<1>10. QED
  BY <1>3, <1>8, <1>9 DEF DateOf, Epoch

\* DOS words give back the date and time they are made of, to two seconds.
DateWord(y, m, d) == y * 512 + m * 32 + d
InWord(y, m, d) == y \in Nat /\ m \in Nat /\ d \in Nat /\ y < 128 /\ m < 16 /\ d < 32
Unpacks(w, y, m, d) == w \div 512 = y /\ (w \div 32) % 16 = m /\ w % 32 = d
LEMMA DateUnpacks == ASSUME NEW y, NEW m, NEW d, InWord(y, m, d) PROVE Unpacks(DateWord(y, m, d), y, m, d)
<1> USE DEF DateWord, InWord, Unpacks
<1>1. DateWord(y, m, d) \div 512 = y
  OBVIOUS
<1>2. DateWord(y, m, d) \div 32 = y * 16 + m /\ (y * 16 + m) % 16 = m
  OBVIOUS
<1>3. DateWord(y, m, d) % 32 = d
  OBVIOUS
<1>4. QED
  BY <1>1, <1>2, <1>3

LEMMA DosUnpacks ==
  ASSUME NEW dt, dt.year \in Nat, 1980 <= dt.year, dt.year < 2108, dt.month \in 1 .. 12, dt.day \in 1 .. MonthDays(dt.year, dt.month),
         dt.hour \in 0 .. 1, dt.minute \in 0 .. 1, dt.second \in 0 .. 3
  PROVE  FromDosDateTime(DosDate(dt), DosTime(dt)) = DosSeconds(dt) - (dt.second % 2)
<1>2. \A h \in 0 .. 1, m \in 0 .. 1, s \in 0 .. 3 :
        /\ (h * 16 + m * 4 + s \div 2) \div 16 = h /\ (h * 16 + m * 4 + s \div 2) \div 4 = h * 4 + m
        /\ (h * 4 + m) % 4 = m /\ 2 * ((h * 16 + m * 4 + s \div 2) % 4) = s - (s % 2) /\ s - (s % 2) \in 0 .. 3
  OBVIOUS
<1>3. dt.year - 1980 \in Nat /\ dt.year - 1980 < 128 /\ dt.day \in 1 .. 31 /\ dt.year - 1980 + 1980 = dt.year
  BY SMT DEF MonthDays, Months, LeapMonths
<1> DEFINE s == dt.second - (dt.second % 2)
           e == [year |-> dt.year, month |-> dt.month, day |-> dt.day, hour |-> dt.hour, minute |-> dt.minute, second |-> s]
           days == YearDays(dt.year) - WindowsEpochDays + Before[dt.month]
                   + (IF dt.month > 2 /\ IsLeapYear(dt.year) THEN 1 ELSE 0) + dt.day - 1
           At(n) == days * PerDay + dt.hour * PerHour + dt.minute * PerMinute + n - UnixEpochStart
<1>4. FromDosDateTime(DosDate(dt), DosTime(dt)) = DosSeconds(e)
  <2>1. 2^9 = 512 /\ 2^5 = 32 /\ 2^4 = 16 /\ 2^2 = 4
    BY SMT
  <2>2. /\ DosDate(dt) \div 512 + 1980 = dt.year /\ (DosDate(dt) \div 32) % 16 = dt.month /\ DosDate(dt) % 32 = dt.day
    <3> DEFINE y == dt.year - 1980
    <3>1. DosDate(dt) = DateWord(y, dt.month, dt.day)
      BY <2>1 DEF DosDate, DateWord
    <3>2. InWord(y, dt.month, dt.day) /\ y + 1980 = dt.year
      BY <1>3 DEF InWord
    <3> HIDE DEF y
    <3>3. Unpacks(DosDate(dt), y, dt.month, dt.day)
      BY <3>1, <3>2, DateUnpacks
    <3>4. QED
      BY <3>2, <3>3 DEF Unpacks
  <2>3. DosTime(dt) \div 16 = dt.hour /\ (DosTime(dt) \div 4) % 4 = dt.minute /\ 2 * (DosTime(dt) % 4) = s
    BY <1>2, <2>1 DEF DosTime
  <2>4. QED
    BY <2>1, <2>2, <2>3 DEF FromDosDateTime
<1>5. s \in 0 .. 3
  BY <1>2
<1>6. DosSeconds(e) = At(s) /\ DosSeconds(dt) = At(dt.second)
  <2>1. /\ e.year = dt.year /\ e.month = dt.month /\ e.day = dt.day
        /\ e.hour = dt.hour /\ e.minute = dt.minute /\ e.second = s
    OBVIOUS
  <2> HIDE DEF e, s
  <2>2. QED
    BY <1>5, <2>1, SMT DEF DosSeconds
<1>7. PerDay = 16 /\ PerHour = 8 /\ PerMinute = 4 /\ UnixEpochStart \in Int /\ days \in Int
  <2>1. dt.year \in Int /\ WindowsEpochDays \in Int /\ Before[dt.month] \in Int
    BY BeforeIs, SMT DEF WindowsEpochDays
  <2>2. YearDays(dt.year) \in Int
    BY <2>1, YearLength
  <2>3. QED
    BY <1>3, <2>1, <2>2, SMT DEF PerDay, PerHour, PerMinute, UnixEpochStart
<1> HIDE DEF days
<1>8. At(s) = At(dt.second) - (dt.second % 2)
  BY <1>7, SMT
<1> HIDE DEF At, e, s
<1>9. QED
  BY <1>4, <1>6, <1>8 DEF s

\* The parts of the property, for every day and time.
CountedBack(dt, t, tz) ==
  /\ Time(dt, tz) = IF dt.year < 1970 THEN 0 ELSE t
  /\ GetWeekday(dt.year, dt.month, dt.day) = dt.wday
  /\ dt.hour * PerHour + dt.minute * PerMinute + dt.second = (t - tz) % PerDay
  /\ DosSeconds(dt) = t - tz
LEMMA CountsBack == ASSUME NEW t \in Int, NEW tz \in Int PROVE CountedBack(LocalDateTime(t, tz), t, tz)
<1> DEFINE u == t - tz
           dt == MakeDateTime(u)
           day == DayOf(u)
           time == dt.hour * PerHour + dt.minute * PerMinute + dt.second
<1>1. u \in Int
  OBVIOUS
<1>2. /\ dt.year \in Int /\ dt.month \in 1 .. 12 /\ dt.day \in 1 .. MonthDays(dt.year, dt.month)
      /\ DaysCounted(dt) = day + LeapEpoch + UnixEpochDays /\ dt.wday = (3 + day) % 7
      /\ dt.hour \in 0 .. 1 /\ dt.minute \in 0 .. 1 /\ dt.second \in 0 .. 3 /\ time = TimeOf(u)
  BY <1>1, DateGivesBack
<1>3. LocalDateTime(t, tz) = dt
  BY DEF LocalDateTime
<1>4. day \in Int /\ TimeOf(u) \in 0 .. 15 /\ u = (day + LeapEpoch) * PerDay + TimeOf(u)
  BY <1>1, DayAndTime
<1>5. LeapEpoch = 11017 /\ PerDay = 16 /\ UnixEpochDays = 719162 /\ WindowsEpochDays = 584388 /\ UnixEpochStart = 134774 * 16
      /\ PerHour = 8 /\ PerMinute = 4
  BY SMT DEF LeapEpoch, PerDay, PerHour, PerMinute, UnixEpochDays, WindowsEpochDays, UnixEpochStart
<1> HIDE DEF dt, day
<1> DEFINE b == Before[dt.month]
           l == IF dt.month > 2 /\ IsLeapYear(dt.year) THEN 1 ELSE 0
<1>6. b \in Int
  BY <1>2, BeforeIs, SMT
<1>7. l \in {0, 1}
  BY Zenon
<1>8. YearDays(dt.year) \in Int /\ dt.day \in Int
  BY <1>2, YearLength, SMT
<1>9. YearDays(dt.year) + b + l + dt.day - 1 = day + LeapEpoch + UnixEpochDays
  BY <1>2, Zenon DEF DaysCounted
<1>10. DaysSinceEpoch(dt.year, dt.month, dt.day) = YearDays(dt.year) - UnixEpochDays + b + l + dt.day - 1
  BY <1>2, Zenon DEF DaysSinceEpoch
<1> HIDE DEF b, l
<1>11. DaysSinceEpoch(dt.year, dt.month, dt.day) = day + LeapEpoch
  BY <1>4, <1>5, <1>6, <1>7, <1>8, <1>9, <1>10, SMT
<1>12. GetWeekday(dt.year, dt.month, dt.day) = dt.wday
  <2>1. (day + LeapEpoch + 4) % 7 = (3 + day) % 7
    BY <1>4, <1>5, SMT
  <2>2. QED
    BY <1>2, <1>11, <2>1, Zenon DEF GetWeekday
<1>13. time = u % PerDay
  <2>1. TimeOf(u) = u % PerDay
    BY <1>1, <1>5, SMT DEF TimeOf
  <2>2. QED
    BY <1>2, <2>1, Zenon
<1>14. dt.hour * PerHour + dt.minute * PerMinute + dt.second = time
  OBVIOUS
<1>15. Time(dt, tz) = IF dt.year < 1970 THEN 0 ELSE t
  <2> DEFINE count == DaysSinceEpoch(dt.year, dt.month, dt.day) * PerDay + dt.hour * PerHour + dt.minute * PerMinute
                        + dt.second + tz
  <2>1. Time(dt, tz) = IF dt.year < 1970 THEN 0 ELSE count
    BY <1>2, SMT DEF Time
  <2>2. count = t
    BY <1>2, <1>4, <1>5, <1>11, SMT
  <2> HIDE DEF count
  <2>3. QED
    BY <2>1, <2>2, SMT
<1>16. DosSeconds(dt) = t - tz
  <2>1. DosSeconds(dt) = (YearDays(dt.year) - WindowsEpochDays + b + l + dt.day - 1) * PerDay
                                + dt.hour * PerHour + dt.minute * PerMinute + dt.second - UnixEpochStart
    BY <1>2, Zenon DEF DosSeconds, b, l
  <2>2. YearDays(dt.year) - WindowsEpochDays + b + l + dt.day - 1 = day + 11017 + 134774
    BY <1>4, <1>5, <1>6, <1>7, <1>8, <1>9, SMT
  <2>3. (day + 11017 + 134774) * 16 + dt.hour * 8 + dt.minute * 4 + dt.second - 134774 * 16 = t - tz
    BY <1>2, <1>4, <1>5, SMT
  <2>4. QED
    BY <1>5, <2>1, <2>2, <2>3, SMT
<1> HIDE DEF time
<1>17. QED
  BY <1>3, <1>12, <1>13, <1>14, <1>15, <1>16 DEF CountedBack

\* MakeDateTime gives the dates of the calendar, of any days.
THEOREM DatesFollow == ASSUME NEW days, days \subseteq Int PROVE FollowsTheCalendar(days)
<1>1. SUFFICES ASSUME NEW n \in days, NEW s \in {0, PerDay - 1}
               PROVE  LET t  == n * PerDay + s
                          tz == IF s = 0 THEN 5 ELSE -PerHour
                          dt == LocalDateTime(t, tz)
                          over == [dt EXCEPT !.day = MonthDays(dt.year, dt.month) + 1]
                      IN  /\ LocalDateTime(t + PerDay, tz) = NextDay(dt)
                          /\ Time(dt, tz) = IF dt.year < 1970 THEN 0 ELSE t
                          /\ GetWeekday(dt.year, dt.month, dt.day) = dt.wday
                          /\ dt.hour * PerHour + dt.minute * PerMinute + dt.second = (t - tz) % PerDay
                          /\ dt.year \in 1980 .. 2107 => FromDosDateTime(DosDate(dt), DosTime(dt)) + tz = t - (dt.second % 2)
                          /\ DosSeconds(over) = 0 /\ GetWeekday(over.year, over.month, over.day) = 4
  BY EpochIs, SMT DEF FollowsTheCalendar
<1> DEFINE at == n * PerDay + s
           zone == IF s = 0 THEN 5 ELSE -PerHour
           dt == LocalDateTime(at, zone)
           over == [dt EXCEPT !.day = MonthDays(dt.year, dt.month) + 1]
<1>2. at \in Int /\ zone \in Int /\ PerDay \in Int
  BY SMT DEF PerDay, PerHour, PerMinute
<1> HIDE DEF at, zone
<1>3. LocalDateTime(at + PerDay, zone) = NextDay(dt)
  <2>1. at + PerDay - zone = (at - zone) + PerDay /\ at - zone \in Int
    BY <1>2, SMT
  <2>2. MakeDateTime((at - zone) + PerDay) = NextDay(MakeDateTime(at - zone))
    BY <2>1, DaysFollow
  <2>3. LocalDateTime(at + PerDay, zone) = MakeDateTime((at - zone) + PerDay) /\ dt = MakeDateTime(at - zone)
    <3>1. LocalDateTime(at + PerDay, zone) = MakeDateTime(at + PerDay - zone)
      BY <1>2 DEF LocalDateTime
    <3>2. dt = MakeDateTime(at - zone)
      BY DEF LocalDateTime
    <3>3. QED
      BY <2>1, <3>1, <3>2
  <2>4. QED
    BY <2>2, <2>3, Zenon
<1>4. CountedBack(dt, at, zone)
  BY <1>2, CountsBack, Zenon
<1>5. /\ dt = [year |-> dt.year, month |-> dt.month, day |-> dt.day, wday |-> dt.wday,
               hour |-> dt.hour, minute |-> dt.minute, second |-> dt.second]
      /\ MonthDays(dt.year, dt.month) \in Int
      /\ dt.year \in 1980 .. 2107 => FromDosDateTime(DosDate(dt), DosTime(dt)) + zone = at - (dt.second % 2)
  <2>1. at - zone \in Int
    BY <1>2, SMT
  <2>2. ASSUME dt.year \in 1980 .. 2107 PROVE FromDosDateTime(DosDate(dt), DosTime(dt)) = DosSeconds(dt) - (dt.second % 2)
    BY <2>1, <2>2, DateGivesBack, DosUnpacks, SMT DEF LocalDateTime
  <2>3. dt.year \in 1980 .. 2107 => FromDosDateTime(DosDate(dt), DosTime(dt)) + zone = at - (dt.second % 2)
    <3>1. dt.second \in Int
      BY <2>1, DateGivesBack, SMT DEF LocalDateTime
    <3> HIDE DEF dt
    <3>2. QED
      BY <1>2, <1>4, <2>2, <3>1, SMT DEF CountedBack
  <2>4. QED
    BY <2>1, <2>3, DateGivesBack, SMT DEF LocalDateTime
<1> HIDE DEF dt
<1> DEFINE size == MonthDays(dt.year, dt.month)
<1>6. over.year = dt.year /\ over.month = dt.month /\ over.day = size + 1
  BY <1>5, SMT
<1> HIDE DEF over
<1>7. over.day \notin 1 .. MonthDays(over.year, over.month)
  <2>1. size \in Int /\ size + 1 \notin 1 .. size
    BY <1>5, SMT
  <2>2. QED
    BY <1>6, <2>1, Zenon
<1>8. DosSeconds(over) = 0
  BY <1>7, SMT DEF DosSeconds
<1>9. GetWeekday(over.year, over.month, over.day) = 4
  <2>1. DaysSinceEpoch(over.year, over.month, over.day) = 0
    BY <1>7, SMT DEF DaysSinceEpoch
  <2>2. QED
    BY <2>1, SMT DEF GetWeekday
<1>10. QED
  BY <1>3, <1>4, <1>5, <1>8, <1>9, SMT DEF CountedBack, at, zone, dt, over

-----------------------------------------------------------------------------
(* Two words.  What is known of division by the words is said with products.*)

LEMMA ProductIs == ASSUME NEW a \in Int, NEW b \in Int PROVE a * b \in Int
  OBVIOUS
LEMMA Scaling ==
  ASSUME NEW a \in Int, NEW b \in Int, NEW w \in Int, w > 0
  PROVE  /\ a < b <=> a * w < b * w
         /\ a <= b <=> a * w <= b * w
         /\ a * w < b * w => (a + 1) * w <= b * w
         /\ (a + 1) * w = a * w + w
<1>1. ASSUME NEW x \in Int, NEW y \in Int, x < y PROVE x * w < y * w
  <2>1. (y - x) * w > 0
    BY <1>1, SMT
  <2>2. QED
    BY <2>1, SMT
<1>2. (a + 1) * w = a * w + w
  BY SMT
<1>3. a < b => a * w < b * w
  BY <1>1
<1>4. b < a => b * w < a * w
  BY <1>1
<1>5. a + 1 < b => (a + 1) * w < b * w
  BY <1>1
<1>6. a * w \in Int /\ b * w \in Int
  BY ProductIs
<1>7. a + 1 = b => (a + 1) * w = b * w
  OBVIOUS
<1>8. a = b => a * w = b * w
  OBVIOUS

<1>9. a < b \/ a = b \/ b < a
  BY SMT
<1>10. a < b => a + 1 < b \/ a + 1 = b
  BY SMT
<1>11. (a + 1) * w \in Int
  BY ProductIs
<1>12. QED
  BY <1>2, <1>3, <1>4, <1>5, <1>6, <1>7, <1>8, <1>9, <1>10, <1>11, SMT

LEMMA DivModIs ==
  ASSUME NEW n \in Int, NEW w \in Int, w > 0
  PROVE  n \div w \in Int /\ n % w \in 0 .. w - 1 /\ n = (n \div w) * w + (n % w)
<1>1. n \div w \in Int /\ n % w \in 0 .. w - 1
  OBVIOUS
<1>2. n = (n \div w) * w + (n % w)
  OBVIOUS
<1>3. QED
  BY <1>1, <1>2

\* A quotient and what remains are the only ones.
LEMMA DivModOnly ==
  ASSUME NEW n \in Int, NEW w \in Int, w > 0, NEW q \in Int, NEW r \in 0 .. w - 1, n = q * w + r
  PROVE  n \div w = q /\ n % w = r
<1> DEFINE p == n \div w
           s == n % w
<1>1. p \in Int /\ s \in 0 .. w - 1 /\ n = p * w + s
  BY DivModIs
<1> HIDE DEF p, s
<1>2. p * w \in Int /\ q * w \in Int
  BY <1>1, ProductIs
<1>3. ~(p < q)
  <2>1. p < q => (p + 1) * w <= q * w /\ (p + 1) * w = p * w + w
    BY <1>1, Scaling
  <2>2. QED
    BY <1>1, <1>2, <2>1, SMT
<1>4. ~(q < p)
  <2>1. q < p => (q + 1) * w <= p * w /\ (q + 1) * w = q * w + w
    BY <1>1, Scaling
  <2>2. QED
    BY <1>1, <1>2, <2>1, SMT
<1>5. p = q
  BY <1>1, <1>3, <1>4, SMT
<1>6. r = s
  BY <1>1, <1>2, <1>5, SMT
<1>7. QED
  BY <1>5, <1>6 DEF p, s

\* Congruence: x and y differ by a multiple of w.
Cong(x, y, w) == \E k \in Int : x - y = k * w

LEMMA LessThanAWord == ASSUME NEW w \in Int, w > 0, NEW n \in 0 .. w - 1 PROVE n % w = n
<1>1. PICK z \in Int : z = 0
  OBVIOUS
<1>2. n \in Int /\ z * w = 0
  BY <1>1
<1>3. n = z * w + n
  BY <1>2
<1>4. QED
  BY <1>2, <1>3, DivModOnly, Zenon

LEMMA CongFacts ==
  ASSUME NEW w \in Int, w > 0, NEW a \in Int, NEW b \in Int, NEW c \in Int, NEW d \in Int,
         Cong(a, b, w), Cong(c, d, w)
  PROVE  Cong(a + c, b + d, w) /\ Cong(a - c, b - d, w) /\ Cong(a * c, b * d, w) /\ Cong(b, a, w)
<1>1. PICK k \in Int : a - b = k * w
  BY DEF Cong
<1>2. PICK m \in Int : c - d = m * w
  BY DEF Cong
<1>3. k * w \in Int /\ m * w \in Int /\ k + m \in Int /\ k - m \in Int /\ -k \in Int
  BY <1>1, <1>2, ProductIs
<1>4. (k + m) * w = k * w + m * w /\ (k - m) * w = k * w - m * w /\ (-k) * w = -(k * w)
  BY <1>1, <1>2, SMT
<1>5. Cong(a + c, b + d, w) /\ Cong(a - c, b - d, w) /\ Cong(b, a, w)
  <2>1. (a + c) - (b + d) = (k + m) * w
    BY <1>1, <1>2, <1>3, <1>4, SMT
  <2>2. (a - c) - (b - d) = (k - m) * w
    BY <1>1, <1>2, <1>3, <1>4, SMT
  <2>3. b - a = (-k) * w
    BY <1>1, <1>3, <1>4, SMT
  <2>4. QED
    BY <1>3, <2>1, <2>2, <2>3 DEF Cong
<1>6. Cong(a * c, b * d, w)
  <2> DEFINE e == k * c + b * m
  <2>1. k * c \in Int /\ b * m \in Int /\ a * c \in Int /\ b * d \in Int /\ e \in Int
    BY <1>1, <1>2, ProductIs
  <2>2. a * c - b * d = e * w
    <3>1. a * c - b * d = (a - b) * c + b * (c - d)
      BY SMT
    <3>2. (k * w) * c + b * (m * w) = e * w
      BY <1>1, <1>2, SMT
    <3>3. QED
      BY <1>1, <1>2, <3>1, <3>2
  <2> HIDE DEF e
  <2>3. QED
    BY <2>1, <2>2 DEF Cong
<1>7. QED
  BY <1>5, <1>6

LEMMA CongSelf == ASSUME NEW w \in Int, NEW a \in Int PROVE Cong(a, a, w)
<1>1. a - a = 0 * w
  OBVIOUS
<1>2. QED
  BY <1>1 DEF Cong

LEMMA CongThrough ==
  ASSUME NEW w \in Int, NEW a \in Int, NEW b \in Int, NEW c \in Int, Cong(a, b, w), Cong(b, c, w)
  PROVE  Cong(a, c, w)
<1>1. PICK k \in Int : a - b = k * w
  BY DEF Cong
<1>2. PICK m \in Int : b - c = m * w
  BY DEF Cong
<1>3. k + m \in Int /\ a - c = (k + m) * w
  <2>1. k * w \in Int /\ m * w \in Int /\ (k + m) * w = k * w + m * w
    BY <1>1, <1>2, SMT
  <2>2. QED
    BY <1>1, <1>2, <2>1, SMT
<1>4. QED
  BY <1>3 DEF Cong

\* A number is congruent to what remains of it.
LEMMA CongMod == ASSUME NEW w \in Int, w > 0, NEW n \in Int PROVE Cong(n, n % w, w) /\ Cong(n % w, n, w)
<1>1. n \div w \in Int /\ n % w \in Int /\ n = (n \div w) * w + (n % w)
  BY DivModIs
<1> DEFINE q == n \div w
           r == n % w
<1>2. n - r = q * w /\ r - n = (-q) * w
  <2>1. q * w \in Int /\ (-q) * w = -(q * w)
    BY <1>1, SMT
  <2> HIDE DEF q, r
  <2>2. QED
    BY <1>1, <2>1, SMT DEF q, r
<1>3. q \in Int /\ -q \in Int
  BY <1>1
<1> HIDE DEF q
<1>4. QED
  BY <1>2, <1>3 DEF Cong

\* There is one number congruent to another in a range of w numbers.
LEMMA CongOnce ==
  ASSUME NEW w \in Int, w > 0, NEW a \in Int, NEW b \in Int, Cong(a, b, w), a - b < w, b - a < w
  PROVE  a = b
<1>1. PICK k \in Int : a - b = k * w
  BY DEF Cong
<1>2. ~(0 < k)
  <2>1. 0 < k => (0 + 1) * w <= k * w
    BY <1>1, Scaling
  <2>2. QED
    BY <1>1, <2>1, SMT
<1>3. ~(k < 0)
  <2>1. k < 0 => (k + 1) * w <= 0 * w /\ (k + 1) * w = k * w + w
    BY <1>1, Scaling
  <2>2. k * w \in Int
    BY <1>1
  <2>3. QED
    BY <1>1, <2>1, <2>2, SMT
<1>4. k = 0
  BY <1>2, <1>3
<1>5. QED
  BY <1>1, <1>4

LEMMA CongIsMod ==
  ASSUME NEW w \in Int, w > 0, NEW n \in Int, NEW r \in 0 .. w - 1, Cong(r, n, w)
  PROVE  n % w = r
<1> DEFINE s == n % w
<1>1. s \in 0 .. w - 1 /\ Cong(n, s, w)
  BY DivModIs, CongMod
<1> HIDE DEF s
<1>2. Cong(r, s, w)
  BY <1>1, CongThrough
<1>3. r \in Int /\ s \in Int /\ r - s < w /\ s - r < w
  BY <1>1
<1>4. r = s
  BY <1>2, <1>3, CongOnce
<1>5. QED
  BY <1>4 DEF s

-----------------------------------------------------------------------------
(* Powers of two, and the words they are of.                               *)

LEMMA PowersArePositive == \A i \in 0 .. 4 * Half + 1 : 2^i \in Nat \ {0}
<1> DEFINE N == 4 * Half + 1
           T == {i \in 0 .. N : 2^i \in Nat \ {0}}
<1>1. N \in Nat /\ 0 \in 0 .. N
  BY HalfAssumption
<1>2. 0 \in T
  BY <1>1, PowersOfTwo
<1>3. ASSUME NEW n \in 0 .. N, n # N, n \in T PROVE n + 1 \in T
  <2>1. n \in 0 .. 4 * Half /\ n + 1 \in 0 .. N
    BY <1>3, HalfAssumption
  <2>2. 2^(n + 1) = 2 * 2^n /\ 2^n \in Nat \ {0}
    BY <1>3, <2>1, PowersOfTwo
  <2>3. 2 * 2^n \in Nat \ {0}
    BY <2>2
  <2>4. QED
    BY <2>1, <2>2, <2>3
<1> HIDE DEF T
<1>4. 0 .. N \subseteq T
  <2> HIDE DEF N
  <2>1. QED
    BY <1>1, <1>2, <1>3, UpTo
<1>5. QED
  BY <1>4 DEF T

LEMMA PowersMultiply ==
  ASSUME NEW i \in Nat, NEW j \in Nat, i + j <= 4 * Half + 1
  PROVE  2^(i + j) = 2^i * 2^j
<1> DEFINE N == 4 * Half + 1 - i
           T == {k \in 0 .. N : 2^(i + k) = 2^i * 2^k}
<1>1. N \in Nat /\ 0 \in 0 .. N /\ j \in 0 .. N /\ i \in 0 .. 4 * Half + 1
  BY HalfAssumption
<1>2. 0 \in T
  <2>1. i + 0 = i /\ 2^i \in Int
    BY <1>1, PowersArePositive
  <2>2. 2^i * 2^0 = 2^i
    BY <2>1, PowersOfTwo
  <2>3. QED
    BY <1>1, <2>1, <2>2
<1>3. ASSUME NEW n \in 0 .. N, n # N, n \in T PROVE n + 1 \in T
  <2>1. n \in 0 .. 4 * Half /\ i + n \in 0 .. 4 * Half /\ n + 1 \in 0 .. N /\ i + (n + 1) = (i + n) + 1 /\ n \in 0 .. 4 * Half + 1
    BY <1>3, HalfAssumption
  <2>2. 2^(n + 1) = 2 * 2^n /\ 2^((i + n) + 1) = 2 * 2^(i + n)
    BY <2>1, PowersOfTwo
  <2>3. 2^(i + n) = 2^i * 2^n
    BY <1>3
  <2>4. 2^i \in Int /\ 2^n \in Int
    BY <1>1, <2>1, PowersArePositive
  <2>5. \A x, y \in Int : 2 * (x * y) = x * (2 * y)
    BY SMT
  <2>6. 2^(i + (n + 1)) = 2^i * 2^(n + 1)
    BY <2>1, <2>2, <2>3, <2>4, <2>5
  <2>7. QED
    BY <2>1, <2>6
<1> HIDE DEF T
<1>4. 0 .. N \subseteq T
  <2> HIDE DEF N
  <2>1. QED
    BY <1>1, <1>2, <1>3, UpTo
<1>5. j \in T
  BY <1>1, <1>4
<1>6. QED
  BY <1>5 DEF T

H == WI!HalfWord
W == WI!Word
R == WI!Range128

LEMMA WordsAre ==
  /\ WI!WordBits = 2 * Half
  /\ H \in Nat \ {0} /\ W \in Nat \ {0} /\ R \in Nat \ {0}
  /\ W = H * H /\ R = W * W
  /\ W = 2 * 2^(WI!WordBits - 1) /\ W \div 2 = 2^(WI!WordBits - 1) /\ 2^(WI!WordBits - 1) \in Nat \ {0}
<1>1. WI!WordBits = 2 * Half /\ Half \in Nat \ {0} /\ Half + Half = 2 * Half
  BY HalfAssumption DEF WI!WordBits
<1>2. Half \in 0 .. 4 * Half + 1 /\ 2 * Half \in 0 .. 4 * Half + 1 /\ Half + Half <= 4 * Half + 1
  BY <1>1
<1>3. H \in Nat \ {0} /\ W \in Nat \ {0}
  BY <1>1, <1>2, PowersArePositive DEF H, W, WI!HalfWord, WI!Word
<1>4. W = H * H
  BY <1>1, <1>2, PowersMultiply DEF H, W, WI!HalfWord, WI!Word
<1>5. R = W * W
  BY DEF R, W, WI!Range128
<1>6. R \in Nat \ {0}
  BY <1>3, <1>5
<1> DEFINE half == 2^(WI!WordBits - 1)
<1>7. W = 2 * half /\ half \in Nat \ {0}
  <2>1. 2 * Half - 1 \in 0 .. 4 * Half /\ 2 * Half - 1 \in 0 .. 4 * Half + 1 /\ (2 * Half - 1) + 1 = 2 * Half
    BY <1>1
  <2>2. 2^((2 * Half - 1) + 1) = 2 * 2^(2 * Half - 1) /\ 2^(2 * Half - 1) \in Nat \ {0}
    BY <2>1, PowersOfTwo, PowersArePositive
  <2>3. QED
    BY <1>1, <2>1, <2>2 DEF W, WI!Word
<1> HIDE DEF half
<1>8. W \div 2 = half
  BY <1>7
<1>9. QED
  BY <1>1, <1>3, <1>4, <1>5, <1>6, <1>7, <1>8 DEF half

-----------------------------------------------------------------------------
(* Pairs of words, without and with a sign.                                *)

Pairs == [hi : 0 .. W - 1, lo : 0 .. W - 1]
SignedPairs == [hi : -(W \div 2) .. (W \div 2) - 1, lo : 0 .. W - 1]

LEMMA ValueIs == ASSUME NEW v PROVE WI!Value(v) = v.hi * W + v.lo
  BY DEF WI!Value, W

\* The words of a number are found again in it.
LEMMA Carried ==
  ASSUME NEW a \in Int, NEW b \in Int, NEW l \in Int, Cong(a, b, W)
  PROVE  Cong(a * W + l, b * W + l, R)
<1>1. PICK k \in Int : a - b = k * W
  BY DEF Cong
<1>2. W \in Int /\ R = W * W
  BY WordsAre
<1>3. (a * W + l) - (b * W + l) = (a - b) * W
  BY <1>2, SMT
<1>4. (k * W) * W = k * R
  BY <1>1, <1>2, SMT
<1>5. (a * W + l) - (b * W + l) = k * R
  BY <1>1, <1>3, <1>4
<1>6. QED
  BY <1>1, <1>5 DEF Cong

LEMMA PairsAre ==
  ASSUME NEW v \in Pairs
  PROVE  v.hi \in 0 .. W - 1 /\ v.lo \in 0 .. W - 1 /\ WI!Value(v) = v.hi * W + v.lo /\ WI!Value(v) \in 0 .. R - 1
<1>1. v.hi \in 0 .. W - 1 /\ v.lo \in 0 .. W - 1 /\ W \in Nat \ {0} /\ R = W * W
  BY WordsAre DEF Pairs
<1>2. 0 * W <= v.hi * W /\ (v.hi + 1) * W <= W * W /\ (v.hi + 1) * W = v.hi * W + W
  <2>1. v.hi \in Int /\ 0 <= v.hi /\ v.hi + 1 <= W /\ v.hi + 1 \in Int /\ W > 0
    BY <1>1
  <2>2. 0 * W <= v.hi * W
    BY <1>1, <2>1, Scaling
  <2>3. (v.hi + 1) * W <= W * W
    BY <1>1, <2>1, Scaling
  <2>4. QED
    BY <1>1, <2>1, <2>2, <2>3, Scaling
<1>3. v.hi * W \in Int /\ W * W \in Int
  BY <1>1
<1>4. QED
  BY <1>1, <1>2, <1>3, ValueIs, SMT

LEMMA SignedPairsAre ==
  ASSUME NEW v \in SignedPairs
  PROVE  /\ v.hi \in -(W \div 2) .. (W \div 2) - 1 /\ v.hi \in Int /\ v.lo \in 0 .. W - 1
         /\ WI!Value(v) = v.hi * W + v.lo /\ WI!Value(v) \in WI!Least .. WI!Greatest
<1> DEFINE half == W \div 2
<1>1. v.hi \in -half .. half - 1 /\ v.lo \in 0 .. W - 1 /\ W \in Nat \ {0} /\ R = W * W /\ half \in Nat /\ W = 2 * half
  BY WordsAre DEF SignedPairs
<1> HIDE DEF half
<1>2. R = 2 * (half * W)
  BY <1>1, SMT
<1>3. R \div 2 = half * W /\ half * W \in Int /\ v.hi * W \in Int
  <2>1. half * W \in Int /\ v.hi * W \in Int
    BY <1>1
  <2>2. QED
    BY <1>2, <2>1
<1>4. (-half) * W <= v.hi * W /\ (v.hi + 1) * W <= half * W /\ (v.hi + 1) * W = v.hi * W + W /\ (-half) * W = -(half * W)
  <2>1. v.hi \in Int /\ -half <= v.hi /\ v.hi + 1 <= half /\ v.hi + 1 \in Int /\ W > 0 /\ -half \in Int
    BY <1>1
  <2>2. (-half) * W <= v.hi * W
    BY <1>1, <2>1, Scaling
  <2>3. (v.hi + 1) * W <= half * W
    BY <1>1, <2>1, Scaling
  <2>4. (-half) * W = -(half * W)
    BY <1>1, SMT
  <2>5. QED
    BY <1>1, <2>1, <2>2, <2>3, <2>4, Scaling
<1>5. WI!Least = -(half * W) /\ WI!Greatest = half * W - 1
  BY <1>3 DEF WI!Least, WI!Greatest, R
<1>6. v.hi * W + v.lo \in -(half * W) .. half * W - 1
  BY <1>1, <1>3, <1>4, SMT
<1>7. QED
  BY <1>1, <1>5, <1>6, ValueIs DEF half

\* MakeUint128 has the words of a number, and its value but for multiples of their range.
LEMMA MakeIs ==
  ASSUME NEW x \in Int, NEW y \in Int
  PROVE  LET v == WI!MakeUint128(x, y)
         IN  /\ v \in Pairs /\ v = [hi |-> x % W, lo |-> y % W]
             /\ v.hi = x % W /\ v.lo = y % W
             /\ y \in 0 .. W - 1 => v.lo = y /\ Cong(WI!Value(v), x * W + y, R) /\ WI!Value(v) = (x % W) * W + y
<1> DEFINE v == WI!MakeUint128(x, y)
<1>1. W \in Int /\ W > 0
  BY WordsAre
<1>2. v = [hi |-> x % W, lo |-> y % W]
  BY DEF WI!MakeUint128, W
<1>3. v.hi = x % W /\ v.lo = y % W
  BY <1>2
<1>4. x % W \in 0 .. W - 1 /\ y % W \in 0 .. W - 1
  BY <1>1, DivModIs
<1>5. v \in Pairs
  BY <1>2, <1>4 DEF Pairs
<1> HIDE DEF v
<1>6. ASSUME y \in 0 .. W - 1 PROVE v.lo = y /\ Cong(WI!Value(v), x * W + y, R) /\ WI!Value(v) = (x % W) * W + y
  <2>1. y % W = y
    BY <1>1, <1>6, CongSelf, CongIsMod
  <2>2. Cong(x % W, x, W) /\ x % W \in Int
    BY <1>1, <1>4, CongMod
  <2>3. WI!Value(v) = (x % W) * W + y
    BY <1>3, <2>1, ValueIs
  <2>4. QED
    BY <1>3, <2>1, <2>2, <2>3, Carried
<1>7. QED
  BY <1>2, <1>3, <1>5, <1>6 DEF v

LEMMA CastIs ==
  ASSUME NEW u \in 0 .. W - 1
  PROVE  LET s == WI!BitCastToSigned(u)
         IN  s \in -(W \div 2) .. (W \div 2) - 1 /\ s \in Int /\ Cong(s, u, W)
<1> DEFINE s == WI!BitCastToSigned(u)
           half == W \div 2
<1>1. W \in Nat \ {0} /\ half \in Nat /\ W = 2 * half
  BY WordsAre
<1>2. s = IF u >= half THEN u - W ELSE u
  BY DEF WI!BitCastToSigned, W
<1> HIDE DEF s, half
<1>3. s \in -half .. half - 1 /\ s \in Int
  BY <1>1, <1>2
<1>4. u - W - u = (-1) * W /\ u - u = 0 * W
  BY <1>1
<1>5. Cong(s, u, W)
  <2>1. s - u = (-1) * W \/ s - u = 0 * W
    BY <1>2, <1>4
  <2>2. -1 \in Int /\ 0 \in Int
    OBVIOUS
  <2>3. QED
    BY <2>1, <2>2, Zenon DEF Cong
<1>6. QED
  BY <1>3, <1>5 DEF s, half

LEMMA MakeSignedIs ==
  ASSUME NEW x \in Int, NEW y \in Int
  PROVE  LET v == WI!MakeInt128(x, y)
         IN  /\ v \in SignedPairs /\ v = [hi |-> WI!BitCastToSigned(x % W), lo |-> y % W]
             /\ Cong(v.hi, x, W) /\ v.lo = y % W
             /\ y \in 0 .. W - 1 => v.lo = y /\ Cong(WI!Value(v), x * W + y, R)
<1> DEFINE v == WI!MakeInt128(x, y)
           u == x % W
           s == WI!BitCastToSigned(u)
<1>1. W \in Int /\ W > 0
  BY WordsAre
<1>2. v = [hi |-> s, lo |-> y % W]
  BY DEF WI!MakeInt128, W
<1>3. v.hi = s /\ v.lo = y % W
  BY <1>2
<1>4. u \in 0 .. W - 1 /\ u \in Int /\ y % W \in 0 .. W - 1
  BY <1>1, DivModIs
<1>5. s \in -(W \div 2) .. (W \div 2) - 1 /\ s \in Int /\ Cong(s, x, W)
  <2>1. Cong(u, x, W)
    BY <1>1, CongMod
  <2> HIDE DEF u
  <2>2. s \in -(W \div 2) .. (W \div 2) - 1 /\ s \in Int /\ Cong(s, u, W)
    BY <1>4, CastIs
  <2> HIDE DEF s
  <2>3. QED
    BY <1>1, <1>4, <2>1, <2>2, CongThrough
<1>6. v \in SignedPairs
  BY <1>2, <1>4, <1>5 DEF SignedPairs
<1> HIDE DEF v, s, u
<1>7. ASSUME y \in 0 .. W - 1 PROVE v.lo = y /\ Cong(WI!Value(v), x * W + y, R)
  <2>1. y % W = y
    BY <1>1, <1>7, CongSelf, CongIsMod
  <2>2. WI!Value(v) = s * W + y
    BY <1>3, <2>1, ValueIs
  <2>3. QED
    BY <1>3, <1>5, <2>1, <2>2, Carried
<1>8. QED
  BY <1>2, <1>3, <1>5, <1>6, <1>7 DEF v, s, u

\* Sums and differences of the low words carry into the high ones.
LEMMA CarryIs ==
  ASSUME NEW x \in Int, NEW h \in Int, Cong(h, x, W), NEW s \in Int, NEW c \in Int, s - c * W \in 0 .. W - 1
  PROVE  s % W = s - c * W /\ Cong((h + c) * W + (s - c * W), x * W + s, R)
<1>1. W \in Int /\ W > 0 /\ c * W \in Int
  BY WordsAre
<1> DEFINE l == s - c * W
<1>2. Cong(l, s, W)
  <2>1. l - s = (-c) * W /\ -c \in Int
    BY <1>1, SMT
  <2>2. QED
    BY <2>1 DEF Cong
<1>3. s % W = l
  BY <1>1, <1>2, CongIsMod
<1>4. Cong(h + c, x + c, W)
  BY <1>1, CongSelf, CongFacts
<1>5. Cong((h + c) * W + l, (x + c) * W + l, R)
  <2>1. h + c \in Int /\ x + c \in Int /\ l \in Int
    BY <1>1
  <2> HIDE DEF l
  <2>2. QED
    BY <1>4, <2>1, Carried
<1>6. (x + c) * W + l = x * W + s
  BY <1>1, SMT
<1>7. QED
  BY <1>3, <1>5, <1>6

LEMMA LessIs ==
  ASSUME NEW a, NEW b, a.hi \in Int, b.hi \in Int, a.lo \in 0 .. W - 1, b.lo \in 0 .. W - 1
  PROVE  WI!Less(a, b) <=> WI!Value(a) < WI!Value(b)
<1>1. W \in Int /\ W > 0
  BY WordsAre
<1> DEFINE m == a.hi * W
           n == b.hi * W
<1>2. m \in Int /\ n \in Int
  BY <1>1
<1>3. a.hi < b.hi => m + W <= n
  BY <1>1, Scaling
<1>4. b.hi < a.hi => n + W <= m
  BY <1>1, Scaling
<1>5. a.hi = b.hi => m = n
  OBVIOUS
<1>6. WI!Value(a) = m + a.lo /\ WI!Value(b) = n + b.lo
  BY ValueIs
<1> HIDE DEF m, n
<1>7. QED
  BY <1>1, <1>2, <1>3, <1>4, <1>5, <1>6, SMT DEF WI!Less

\* A pair for n, and the number that the pair stands for.
IsFor(v, n) == v \in Pairs /\ Cong(WI!Value(v), n, R)
IsSignedFor(v, n) == v \in SignedPairs /\ Cong(WI!Value(v), n, R)

LEMMA MakesFor ==
  ASSUME NEW x \in Int, NEW l \in 0 .. W - 1, NEW n \in Int, Cong(x * W + l, n, R)
  PROVE  IsFor(WI!MakeUint128(x, l), n) /\ IsSignedFor(WI!MakeInt128(x, l), n)
<1>1. W \in Int /\ R \in Int /\ l \in Int /\ x * W + l \in Int
  BY WordsAre
<1> DEFINE u == WI!MakeUint128(x, l)
           s == WI!MakeInt128(x, l)
<1>2. u \in Pairs /\ Cong(WI!Value(u), x * W + l, R)
  BY <1>1, MakeIs
<1>3. s \in SignedPairs /\ Cong(WI!Value(s), x * W + l, R)
  BY <1>1, MakeSignedIs
<1> HIDE DEF u, s
<1>4. WI!Value(u) \in Int
  BY <1>2, PairsAre
<1>5. WI!Value(s) \in Int
  <2>1. s.hi \in Int /\ s.lo \in Int /\ WI!Value(s) = s.hi * W + s.lo
    BY <1>3, SignedPairsAre
  <2>2. QED
    BY <1>1, <2>1
<1>6. Cong(WI!Value(u), n, R)
  BY <1>1, <1>2, <1>4, CongThrough
<1>7. Cong(WI!Value(s), n, R)
  BY <1>1, <1>3, <1>5, CongThrough
<1>8. QED
  BY <1>2, <1>3, <1>6, <1>7 DEF u, s, IsFor, IsSignedFor

LEMMA PlusIs ==
  ASSUME NEW a, NEW b, a.hi \in Int, b.hi \in Int, a.lo \in 0 .. W - 1, b.lo \in 0 .. W - 1
  PROVE  /\ IsFor(WI!Plus(a, b), WI!Value(a) + WI!Value(b))
         /\ IsSignedFor(WI!SignedPlus(a, b), WI!Value(a) + WI!Value(b))
<1> DEFINE x == a.hi + b.hi
           s == a.lo + b.lo
           c == IF s < W THEN 0 ELSE 1
           l == s - c * W
           n == WI!Value(a) + WI!Value(b)
           u == WI!MakeUint128(x, s)
           v == WI!MakeInt128(x, s)
<1>1. W \in Int /\ W > 0 /\ x \in Int /\ s \in Int /\ c \in {0, 1} /\ a.lo \in Int
  BY WordsAre
<1>2. n = x * W + s /\ n \in Int
  <2>1. WI!Value(a) = a.hi * W + a.lo /\ WI!Value(b) = b.hi * W + b.lo
    BY ValueIs
  <2>2. QED
    BY <1>1, <2>1, SMT
<1>3. l \in 0 .. W - 1 /\ l \in Int /\ (l < a.lo <=> c = 1)
  <2>1. 0 * W = 0 /\ 1 * W = W
    BY <1>1
  <2>2. l = IF s < W THEN s ELSE s - W
    <3> HIDE DEF s
    <3>1. QED
      BY <1>1, <2>1
  <2>3. b.lo \in Int /\ 0 <= b.lo /\ b.lo < W /\ 0 <= a.lo /\ a.lo < W
    BY <1>1
  <2> HIDE DEF l
  <2>4. QED
    BY <1>1, <2>2, <2>3
<1> HIDE DEF x, s
<1>4. u.hi = x % W /\ u.lo = s % W /\ Cong(v.hi, x, W) /\ v.lo = s % W /\ v \in SignedPairs /\ u \in Pairs
  <2>1. u \in Pairs /\ u.hi = x % W /\ u.lo = s % W
    BY <1>1, MakeIs, Zenon
  <2>2. v \in SignedPairs /\ Cong(v.hi, x, W) /\ v.lo = s % W
    BY <1>1, MakeSignedIs, Zenon
  <2>3. QED
    BY <2>1, <2>2
<1> HIDE DEF n, u, v
<1>5. u.hi \in Int /\ Cong(u.hi, x, W)
  <2>1. x % W \in Int /\ Cong(x % W, x, W)
    BY <1>1, DivModIs, CongMod
  <2>2. QED
    BY <1>4, <2>1
<1>6. v.hi \in Int
  BY <1>4, SignedPairsAre
<1> HIDE DEF c
<1>7. s % W = l /\ Cong((u.hi + c) * W + l, x * W + s, R) /\ Cong((v.hi + c) * W + l, x * W + s, R)
  <2>1. c \in Int
    BY <1>1
  <2>2. s % W = l /\ Cong((u.hi + c) * W + l, x * W + s, R)
    BY <1>1, <1>3, <1>5, <2>1, CarryIs
  <2>3. Cong((v.hi + c) * W + l, x * W + s, R)
    BY <1>1, <1>3, <1>4, <1>6, <2>1, CarryIs
  <2>4. QED
    BY <2>2, <2>3
<1>8. WI!Plus(a, b) = IF u.lo < a.lo THEN WI!MakeUint128(u.hi + 1, u.lo) ELSE u
  BY DEF WI!Plus, u, x, s
<1>9. WI!SignedPlus(a, b) = IF v.lo < a.lo THEN WI!MakeInt128(v.hi + 1, v.lo) ELSE v
  BY DEF WI!SignedPlus, v, x, s
<1> HIDE DEF l
<1>10. CASE c = 1
  <2>1. IsFor(WI!MakeUint128(u.hi + 1, l), n) /\ IsSignedFor(WI!MakeInt128(v.hi + 1, l), n)
    <3>1. u.hi + 1 \in Int /\ v.hi + 1 \in Int
      BY <1>5, <1>6
    <3>2. Cong((u.hi + 1) * W + l, n, R) /\ Cong((v.hi + 1) * W + l, n, R)
      BY <1>2, <1>7, <1>10
    <3>3. QED
      BY <1>2, <1>3, <3>1, <3>2, MakesFor
  <2>2. QED
    BY <1>3, <1>4, <1>7, <1>8, <1>9, <1>10, <2>1 DEF n
<1>11. CASE c = 0
  <2>1. u.lo = l /\ v.lo = l /\ u.hi + 0 = u.hi /\ v.hi + 0 = v.hi
    BY <1>4, <1>5, <1>6, <1>7
  <2>2. WI!Value(u) = u.hi * W + l /\ WI!Value(v) = v.hi * W + l
    BY <2>1, ValueIs
  <2>3. Cong(WI!Value(u), n, R) /\ Cong(WI!Value(v), n, R)
    BY <1>2, <1>7, <1>11, <2>1, <2>2
  <2>4. WI!Plus(a, b) = u /\ WI!SignedPlus(a, b) = v
    BY <1>3, <1>8, <1>9, <1>11, <2>1
  <2>5. QED
    BY <1>4, <2>3, <2>4 DEF n, IsFor, IsSignedFor
<1>12. QED
  BY <1>1, <1>10, <1>11

LEMMA MinusIs ==
  ASSUME NEW a, NEW b, a.hi \in Int, b.hi \in Int, a.lo \in 0 .. W - 1, b.lo \in 0 .. W - 1
  PROVE  /\ IsFor(WI!Minus(a, b), WI!Value(a) - WI!Value(b))
         /\ IsSignedFor(WI!SignedMinus(a, b), WI!Value(a) - WI!Value(b))
<1> DEFINE x == a.hi - b.hi
           s == a.lo - b.lo
           c == IF a.lo < b.lo THEN -1 ELSE 0
           l == s - c * W
           n == WI!Value(a) - WI!Value(b)
           u == WI!MakeUint128(x, s)
           v == WI!MakeInt128(x, s)
<1>1. W \in Int /\ W > 0 /\ x \in Int /\ s \in Int /\ c \in {0, -1} /\ c \in Int /\ (a.lo < b.lo <=> c = -1)
  BY WordsAre
<1>2. n = x * W + s /\ n \in Int
  <2>1. WI!Value(a) = a.hi * W + a.lo /\ WI!Value(b) = b.hi * W + b.lo
    BY ValueIs
  <2>2. QED
    BY <1>1, <2>1, SMT
<1>3. l \in 0 .. W - 1 /\ l \in Int
  BY <1>1
<1> HIDE DEF x, s
<1>4. u.hi = x % W /\ u.lo = s % W /\ Cong(v.hi, x, W) /\ v.lo = s % W /\ v \in SignedPairs /\ u \in Pairs
  <2>1. u \in Pairs /\ u.hi = x % W /\ u.lo = s % W
    BY <1>1, MakeIs, Zenon
  <2>2. v \in SignedPairs /\ Cong(v.hi, x, W) /\ v.lo = s % W
    BY <1>1, MakeSignedIs, Zenon
  <2>3. QED
    BY <2>1, <2>2
<1> HIDE DEF n, u, v
<1>5. u.hi \in Int /\ Cong(u.hi, x, W)
  <2>1. x % W \in Int /\ Cong(x % W, x, W)
    BY <1>1, DivModIs, CongMod
  <2>2. QED
    BY <1>4, <2>1
<1>6. v.hi \in Int
  BY <1>4, SignedPairsAre
<1> HIDE DEF c
<1>7. s % W = l /\ Cong((u.hi + c) * W + l, x * W + s, R) /\ Cong((v.hi + c) * W + l, x * W + s, R)
  <2>1. s % W = l /\ Cong((u.hi + c) * W + l, x * W + s, R)
    BY <1>1, <1>3, <1>5, CarryIs
  <2>2. Cong((v.hi + c) * W + l, x * W + s, R)
    BY <1>1, <1>3, <1>4, <1>6, CarryIs
  <2>3. QED
    BY <2>1, <2>2
<1>8. WI!Minus(a, b) = IF a.lo < b.lo THEN WI!MakeUint128(u.hi - 1, u.lo) ELSE u
  BY DEF WI!Minus, u, x, s
<1>9. WI!SignedMinus(a, b) = IF a.lo < b.lo THEN WI!MakeInt128(v.hi - 1, v.lo) ELSE v
  BY DEF WI!SignedMinus, v, x, s
<1> HIDE DEF l
<1>10. CASE c = -1
  <2>1. IsFor(WI!MakeUint128(u.hi - 1, l), n) /\ IsSignedFor(WI!MakeInt128(v.hi - 1, l), n)
    <3>1. u.hi - 1 \in Int /\ v.hi - 1 \in Int /\ u.hi + (-1) = u.hi - 1 /\ v.hi + (-1) = v.hi - 1
      BY <1>5, <1>6
    <3>2. Cong((u.hi - 1) * W + l, n, R) /\ Cong((v.hi - 1) * W + l, n, R)
      BY <1>2, <1>7, <1>10, <3>1
    <3>3. QED
      BY <1>2, <1>3, <3>1, <3>2, MakesFor
  <2>2. QED
    BY <1>1, <1>4, <1>7, <1>8, <1>9, <1>10, <2>1 DEF n
<1>11. CASE c = 0
  <2>1. u.lo = l /\ v.lo = l /\ u.hi + 0 = u.hi /\ v.hi + 0 = v.hi
    BY <1>4, <1>5, <1>6, <1>7
  <2>2. WI!Value(u) = u.hi * W + l /\ WI!Value(v) = v.hi * W + l
    BY <2>1, ValueIs
  <2>3. Cong(WI!Value(u), n, R) /\ Cong(WI!Value(v), n, R)
    BY <1>2, <1>7, <1>11, <2>1, <2>2
  <2>4. WI!Minus(a, b) = u /\ WI!SignedMinus(a, b) = v
    BY <1>1, <1>8, <1>9, <1>11
  <2>5. QED
    BY <1>4, <2>3, <2>4 DEF n, IsFor, IsSignedFor
<1>12. QED
  BY <1>1, <1>10, <1>11

\* The words of -n: the low one carries when it is zero.
LEMMA NegatedIs ==
  ASSUME NEW v, v.hi \in Int, v.lo \in 0 .. W - 1
  PROVE  IsFor(WI!Negated(v), -WI!Value(v)) /\ IsSignedFor(WI!SignedNegated(v), -WI!Value(v))
<1> DEFINE n == -WI!Value(v)
           c == IF v.lo = 0 THEN 0 ELSE -1
           x == -v.hi
           s == -v.lo
           l == s - c * W
<1>1. W \in Int /\ W > 0 /\ x \in Int /\ s \in Int /\ c \in Int /\ v.lo \in Int
  BY WordsAre
<1>2. n = x * W + s /\ n \in Int
  <2>1. WI!Value(v) = v.hi * W + v.lo
    BY ValueIs
  <2>2. QED
    BY <1>1, <2>1, SMT
<1>3. l \in 0 .. W - 1 /\ (l = 0 <=> v.lo = 0)
  BY <1>1
<1>4. WI!Not(v.lo) + 1 = s /\ WI!Not(v.hi) + (IF v.lo = 0 THEN 1 ELSE 0) = x + c /\ x + c \in Int
  BY <1>1 DEF WI!Not
<1>5. WI!Negated(v) = WI!MakeUint128(WI!Not(v.hi) + (IF s % W = 0 THEN 1 ELSE 0), s % W)
  BY <1>4, Zenon DEF WI!Negated, W
<1>6. WI!SignedNegated(v) = WI!MakeInt128(x + c, s)
  BY <1>4 DEF WI!SignedNegated
<1> HIDE DEF x, s, n, c
<1>7. s % W = l /\ Cong((x + c) * W + l, n, R)
  <2>1. Cong(x, x, W)
    BY <1>1, CongSelf
  <2>2. QED
    BY <1>1, <1>2, <1>3, <2>1, CarryIs
<1>8. WI!Negated(v) = WI!MakeUint128(x + c, l)
  BY <1>3, <1>4, <1>5, <1>7
<1>9. WI!SignedNegated(v) = WI!MakeInt128(x + c, l)
  <2>1. WI!MakeInt128(x + c, s) = WI!MakeInt128(x + c, s % W)
    <3>1. s % W \in 0 .. W - 1
      BY <1>3, <1>7
    <3>2. (s % W) % W = s % W
      BY <1>1, <3>1, CongSelf, CongIsMod
    <3>3. QED
      BY <3>2 DEF WI!MakeInt128, W
  <2>2. QED
    BY <1>6, <1>7, <2>1
<1> HIDE DEF l
<1>10. QED
  BY <1>2, <1>3, <1>4, <1>7, <1>8, <1>9, MakesFor DEF n

-----------------------------------------------------------------------------
(* Shifts: the bits of a word are split where it is cut.                   *)

LEMMA BitsSplit ==
  ASSUME NEW k \in 0 .. WI!WordBits
  PROVE  2^k \in Nat \ {0} /\ 2^(WI!WordBits - k) \in Nat \ {0} /\ W = 2^k * 2^(WI!WordBits - k)
<1>1. WI!WordBits = 2 * Half /\ Half \in Nat
  BY WordsAre, HalfAssumption
<1>2. k \in Nat /\ WI!WordBits - k \in Nat /\ k + (WI!WordBits - k) = WI!WordBits /\ WI!WordBits <= 4 * Half + 1
      /\ k \in 0 .. 4 * Half + 1 /\ WI!WordBits - k \in 0 .. 4 * Half + 1
  BY <1>1
<1>3. 2^(k + (WI!WordBits - k)) = 2^k * 2^(WI!WordBits - k)
  BY <1>2, PowersMultiply
<1>4. QED
  BY <1>2, <1>3, PowersArePositive DEF W, WI!Word
LEMMA BitsBeyond ==
  ASSUME NEW k \in WI!WordBits .. 2 * WI!WordBits
  PROVE  2^(k - WI!WordBits) \in Nat \ {0} /\ 2^k = W * 2^(k - WI!WordBits)
<1>1. WI!WordBits = 2 * Half /\ Half \in Nat
  BY WordsAre, HalfAssumption
<1>2. WI!WordBits \in Nat /\ k - WI!WordBits \in Nat /\ WI!WordBits + (k - WI!WordBits) = k /\ k <= 4 * Half + 1
      /\ k - WI!WordBits \in 0 .. 4 * Half + 1
  BY <1>1
<1>3. 2^(WI!WordBits + (k - WI!WordBits)) = 2^WI!WordBits * 2^(k - WI!WordBits)
  BY <1>2, PowersMultiply
<1>4. QED
  BY <1>2, <1>3, PowersArePositive DEF W, WI!Word

\* A word times 2^k, in two words: what is above its last bits, and these.
LEMMA CutsLeft ==
  ASSUME NEW p \in Nat \ {0}, NEW q \in Nat \ {0}, W = p * q, NEW l \in 0 .. W - 1
  PROVE  l \div q \in 0 .. p - 1 /\ (l * p) % W \in 0 .. W - 1 /\ l * p = (l \div q) * W + ((l * p) % W)
<1> DEFINE d == l \div q
           r == l % q
<1>1. d \in Int /\ r \in 0 .. q - 1 /\ l = d * q + r /\ l \in Int /\ W \in Int /\ W > 0 /\ p > 0 /\ q > 0
  BY WordsAre, DivModIs
<1> HIDE DEF d, r
<1>2. l * p = d * W + r * p
  <2>1. (d * q + r) * p = d * (p * q) + r * p
    BY <1>1, SMT
  <2>2. QED
    BY <1>1, <2>1
<1>3. r * p \in 0 .. W - 1
  <2>1. (r + 1) * p <= q * p /\ (r + 1) * p = r * p + p /\ 0 * p <= r * p /\ q * p = W /\ r * p \in Int
    <3>1. r \in Int /\ r + 1 \in Int /\ r + 1 <= q /\ 0 <= r
      BY <1>1
    <3>2. (r + 1) * p <= q * p
      BY <1>1, <3>1, Scaling
    <3>3. 0 * p <= r * p
      BY <1>1, <3>1, Scaling
    <3>4. q * p = W
      BY <1>1, SMT
    <3>5. QED
      BY <1>1, <3>1, <3>2, <3>3, <3>4, Scaling
  <2>2. QED
    BY <1>1, <2>1
<1>4. l * p \in Int
  BY <1>1
<1>5. (l * p) % W = r * p
  BY <1>1, <1>2, <1>3, <1>4, DivModOnly
<1>6. d \in 0 .. p - 1
  <2>1. d * q \in Int /\ p * q = W
    BY <1>1
  <2>2. d < 0 => (d + 1) * q <= 0 * q /\ (d + 1) * q = d * q + q
    BY <1>1, Scaling
  <2>3. p <= d => p * q <= d * q
    BY <1>1, Scaling
  <2>4. 0 * q = 0
    BY <1>1
  <2>5. QED
    BY <1>1, <2>1, <2>2, <2>3, <2>4, SMT
<1>7. QED
  BY <1>2, <1>3, <1>5, <1>6 DEF d

LEMMA MakesTheSame ==
  ASSUME NEW x, NEW y \in Int
  PROVE  WI!MakeUint128(x, y) = WI!MakeUint128(x, y % W) /\ WI!MakeInt128(x, y) = WI!MakeInt128(x, y % W)
<1>1. W \in Int /\ W > 0
  BY WordsAre
<1>2. y % W \in 0 .. W - 1
  BY <1>1, DivModIs
<1>3. (y % W) % W = y % W
  BY <1>1, <1>2, CongSelf, CongIsMod
<1>4. QED
  BY <1>3 DEF WI!MakeUint128, WI!MakeInt128, W

LEMMA ShiftsLeft ==
  ASSUME NEW v, v.hi \in Int, v.lo \in 0 .. W - 1, NEW k \in 1 .. 2 * WI!WordBits - 1
  PROVE  IsFor(WI!ShiftLeft(v, k), WI!Value(v) * 2^k) /\ IsSignedFor(WI!SignedShiftLeft(v, k), WI!Value(v) * 2^k)
<1>1. WI!WordBits \in Nat /\ W \in Int /\ W > 0 /\ v.lo \in Int /\ R = W * W /\ R \in Int
  BY WordsAre, HalfAssumption
<1>2. WI!Value(v) = v.hi * W + v.lo
  BY ValueIs
<1>3. CASE k < WI!WordBits
  <2> DEFINE p == 2^k
             q == 2^(WI!WordBits - k)
             d == v.lo \div q
             l == (v.lo * p) % W
             n == WI!Value(v) * p
             x == v.hi * p + d
  <2>1. p \in Nat \ {0} /\ q \in Nat \ {0} /\ W = p * q
    <3>1. k \in 0 .. WI!WordBits
      BY <1>1, <1>3
    <3>2. QED
      BY <3>1, BitsSplit
  <2>2. WI!ShiftLeft(v, k) = WI!MakeUint128(x, v.lo * p) /\ WI!SignedShiftLeft(v, k) = WI!MakeInt128(x, v.lo * p)
    <3>1. k # 0 /\ k > 0 /\ ~(k >= WI!WordBits)
      BY <1>1, <1>3
    <3>2. QED
      BY <1>3, <3>1 DEF WI!ShiftLeft, WI!SignedShiftLeft
  <2> HIDE DEF p, q
  <2>3. d \in 0 .. p - 1 /\ l \in 0 .. W - 1 /\ v.lo * p = d * W + l
    BY <2>1, CutsLeft
  <2>4. d \in Int /\ l \in Int /\ p \in Int /\ v.lo * p \in Int
    BY <1>1, <2>1, <2>3
  <2> HIDE DEF d
  <2>5. x \in Int
    BY <2>4
  <2>6. WI!MakeUint128(x, v.lo * p) = WI!MakeUint128(x, l) /\ WI!MakeInt128(x, v.lo * p) = WI!MakeInt128(x, l)
    BY <2>4, MakesTheSame
  <2> HIDE DEF l
  <2>7. x * W + l = n /\ n \in Int
    <3>1. (v.hi * p + d) * W + l = (v.hi * W) * p + (d * W + l)
      BY <1>1, <2>4, SMT
    <3>2. n = (v.hi * W) * p + v.lo * p
      BY <1>1, <1>2, <2>4, SMT
    <3>3. (v.hi * W) * p \in Int
      BY <1>1, <2>4
    <3>4. QED
      BY <2>3, <2>4, <3>1, <3>2, <3>3
  <2> HIDE DEF x, n
  <2>8. Cong(x * W + l, n, R)
    BY <1>1, <2>7, CongSelf
  <2>9. IsFor(WI!MakeUint128(x, l), n) /\ IsSignedFor(WI!MakeInt128(x, l), n)
    BY <2>3, <2>5, <2>7, <2>8, MakesFor
  <2>10. QED
    BY <2>2, <2>6, <2>9 DEF n, p
<1>4. CASE k >= WI!WordBits
  <2> DEFINE p == 2^(k - WI!WordBits)
             n == WI!Value(v) * 2^k
             x == v.lo * p
  <2>1. p \in Nat \ {0} /\ 2^k = W * p
    <3>1. k \in WI!WordBits .. 2 * WI!WordBits
      BY <1>1, <1>4
    <3>2. QED
      BY <3>1, BitsBeyond
  <2>2. WI!ShiftLeft(v, k) = WI!MakeUint128(x, 0) /\ WI!SignedShiftLeft(v, k) = WI!MakeInt128(x, 0)
    <3>1. k # 0 /\ ~(k > 0 /\ k < WI!WordBits)
      BY <1>1, <1>4
    <3>2. QED
      BY <1>4, <3>1 DEF WI!ShiftLeft, WI!SignedShiftLeft
  <2> HIDE DEF p
  <2>3. x \in Int /\ p \in Int
    BY <1>1, <2>1
  <2>4. n = (v.hi * W + v.lo) * (W * p) /\ n \in Int
    <3>1. n = (v.hi * W + v.lo) * (W * p)
      BY <1>2, <2>1
    <3>2. v.hi * W + v.lo \in Int /\ W * p \in Int
      BY <1>1, <2>3
    <3>3. QED
      BY <3>1, <3>2
  <2>5. Cong(x * W + 0, n, R)
    <3> DEFINE e == -(v.hi * p)
    <3>1. e \in Int
      BY <1>1, <2>3
    <3>2. (x * W + 0) - n = e * R
      <4>1. (v.lo * p) * W - (v.hi * W + v.lo) * (W * p) = (-(v.hi * p)) * (W * W)
        BY <1>1, <2>3, SMT
      <4>2. x * W + 0 = (v.lo * p) * W
        BY <1>1, <2>3
      <4>3. QED
        BY <1>1, <2>4, <4>1, <4>2
    <3> HIDE DEF e
    <3>3. QED
      BY <3>1, <3>2 DEF Cong
  <2>6. 0 \in 0 .. W - 1
    BY <1>1
  <2> HIDE DEF x, n
  <2>7. QED
    BY <2>2, <2>3, <2>4, <2>5, <2>6, MakesFor DEF n
<1>5. QED
  BY <1>1, <1>3, <1>4

LEMMA ShiftsNothing == ASSUME NEW v PROVE WI!ShiftLeft(v, 0) = v /\ WI!ShiftRight(v, 0) = v
                                          /\ WI!SignedShiftLeft(v, 0) = v /\ WI!SignedShiftRight(v, 0) = v
<1>1. WI!WordBits \in Nat \ {0}
  BY WordsAre, HalfAssumption
<1>2. ~(0 >= WI!WordBits)
  BY <1>1
<1>3. QED
  BY <1>2 DEF WI!ShiftLeft, WI!ShiftRight, WI!SignedShiftLeft, WI!SignedShiftRight

\* Towards the low bits: the quotient of the number, rounded down.
LEMMA DividesBoth ==
  ASSUME NEW p \in Nat \ {0}, NEW q \in Nat \ {0}, W = p * q, NEW h \in Int, NEW l \in 0 .. W - 1
  PROVE  LET low == (l \div p) + ((h * q) % W)
         IN  low \in 0 .. W - 1 /\ (h * W + l) \div p = (h \div p) * W + low
<1> DEFINE d == h \div p
           r == h % p
           e == l \div p
           f == l % p
           g == r * q
<1>1. /\ d \in Int /\ r \in 0 .. p - 1 /\ r \in Int /\ h = d * p + r
      /\ e \in Int /\ f \in 0 .. p - 1 /\ f \in Int /\ l = e * p + f
      /\ W \in Int /\ W > 0 /\ p > 0 /\ q > 0 /\ p \in Int /\ q \in Int /\ l \in Int
  BY WordsAre, DivModIs
<1> HIDE DEF d, r, e, f
<1>2. e \in 0 .. q - 1
  <2>1. e * p \in Int /\ q * p = W
    BY <1>1, SMT
  <2>2. e < 0 => (e + 1) * p <= 0 * p /\ (e + 1) * p = e * p + p
    BY <1>1, Scaling
  <2>3. q <= e => q * p <= e * p
    BY <1>1, Scaling
  <2>4. 0 * p = 0
    BY <1>1
  <2>5. QED
    BY <1>1, <2>1, <2>2, <2>3, <2>4, SMT
<1>3. g \in 0 .. W - q /\ g \in Int
  <2>1. (r + 1) * q <= p * q
    BY <1>1, Scaling
  <2>2. 0 * q <= r * q
    BY <1>1, Scaling
  <2>3. (r + 1) * q = r * q + q /\ r * q \in Int /\ 0 * q = 0
    BY <1>1, Scaling
  <2>4. QED
    BY <1>1, <2>1, <2>2, <2>3
<1>4. h * q = d * W + g /\ h * q \in Int
  <2>1. (d * p + r) * q = d * (p * q) + r * q
    BY <1>1, SMT
  <2>2. QED
    BY <1>1, <2>1
<1>5. (h * q) % W = g
  <2>1. g \in 0 .. W - 1
    BY <1>1, <1>3
  <2> HIDE DEF g
  <2>2. QED
    BY <1>1, <1>4, <2>1, DivModOnly
<1>6. e + g \in 0 .. W - 1
  BY <1>1, <1>2, <1>3
<1>7. (h * W + l) \div p = d * W + (e + g)
  <2>1. h * W + l = (d * W + (e + g)) * p + f
    <3>1. (d * p + r) * (p * q) + (e * p + f) = (d * (p * q) + (e + r * q)) * p + f
      BY <1>1, SMT
    <3>2. QED
      BY <1>1, <3>1
  <2> DEFINE n == h * W + l
             o == d * W + (e + g)
  <2>2. o \in Int /\ n \in Int /\ n = o * p + f
    BY <1>1, <1>3, <2>1
  <2> HIDE DEF n, o
  <2>3. n \div p = o
    BY <1>1, <2>2, DivModOnly
  <2>4. QED
    BY <2>3 DEF n, o
<1>8. QED
  BY <1>5, <1>6, <1>7 DEF d, e

LEMMA DividesHigh ==
  ASSUME NEW p \in Nat \ {0}, NEW w \in Nat \ {0}, NEW h \in Int, NEW l \in 0 .. w - 1
  PROVE  (h * w + l) \div (w * p) = h \div p
<1> DEFINE d == h \div p
           r == h % p
           n == h * w + l
           wp == w * p
           s == r * w + l
<1>1. d \in Int /\ r \in 0 .. p - 1 /\ r \in Int /\ h = d * p + r /\ w > 0 /\ p > 0 /\ p \in Int /\ w \in Int /\ l \in Int
  BY DivModIs
<1> HIDE DEF d, r
<1>2. wp \in Int /\ wp > 0 /\ n \in Int
  <2>1. 0 * p < w * p /\ 0 * p = 0
    BY <1>1, Scaling
  <2>2. QED
    BY <1>1, <2>1
<1>3. s \in 0 .. wp - 1
  <2>1. (r + 1) * w <= p * w /\ (r + 1) * w = r * w + w /\ 0 * w <= r * w /\ 0 * w = 0 /\ p * w = w * p
    <3>1. (r + 1) * w <= p * w
      BY <1>1, Scaling
    <3>2. 0 * w <= r * w
      BY <1>1, Scaling
    <3>3. QED
      BY <1>1, <3>1, <3>2, Scaling
  <2>2. r * w \in Int /\ p * w \in Int
    BY <1>1
  <2>3. QED
    BY <1>1, <2>1, <2>2
<1>4. n = d * wp + s
  <2>1. (d * p + r) * w + l = d * (w * p) + (r * w + l)
    BY <1>1, SMT
  <2>2. QED
    BY <1>1, <2>1
<1> HIDE DEF n, wp, s
<1>5. n \div wp = d
  BY <1>1, <1>2, <1>3, <1>4, DivModOnly
<1>6. QED
  BY <1>5 DEF n, wp, d

\* Quotients are not further from zero.
LEMMA QuotientIn ==
  ASSUME NEW n \in Int, NEW p \in Nat \ {0}, NEW a \in Nat, NEW b \in Nat, n \in -a .. b - 1
  PROVE  n \div p \in -a .. b - 1 /\ n \div p \in Int /\ (n \div p < 0 <=> n < 0)
<1> DEFINE d == n \div p
           r == n % p
<1>1. d \in Int /\ r \in 0 .. p - 1 /\ n = d * p + r /\ p \in Int /\ 1 <= p
  BY DivModIs
<1> HIDE DEF d, r
<1>2. d >= 0 => d * p >= d
  <2>1. d >= 0 => 1 * d <= p * d \/ d = 0
    BY <1>1, Scaling
  <2>2. 1 * d = d /\ p * d = d * p
    BY <1>1
  <2>3. QED
    BY <1>1, <2>1, <2>2
<1>3. d < 0 => d * p + p <= d + 1
  <2>1. d < 0 /\ d + 1 < 0 => (d + 1) * p <= d + 1
    <3>1. d + 1 < 0 => 1 * (-(d + 1)) <= p * (-(d + 1))
      BY <1>1, Scaling
    <3>2. 1 * (-(d + 1)) = -(d + 1) /\ p * (-(d + 1)) = -((d + 1) * p)
      BY <1>1, SMT
    <3>3. (d + 1) * p \in Int
      BY <1>1
    <3>4. QED
      BY <1>1, <3>1, <3>2, <3>3
  <2>2. (d + 1) * p = d * p + p
    BY <1>1, SMT
  <2>3. d + 1 = 0 => (d + 1) * p = 0
    BY <1>1
  <2>4. d * p \in Int
    BY <1>1
  <2>5. QED
    BY <1>1, <2>1, <2>2, <2>3, <2>4
<1>4. d * p \in Int
  BY <1>1
<1>5. d \in -a .. b - 1 /\ (d < 0 <=> n < 0)
  BY <1>1, <1>2, <1>3, <1>4, SMT
<1>6. QED
  BY <1>1, <1>5 DEF d

LEMMA ShiftsRight ==
  ASSUME NEW v \in Pairs, NEW k \in 1 .. 2 * WI!WordBits - 1
  PROVE  WI!ShiftRight(v, k) \in Pairs /\ WI!Value(WI!ShiftRight(v, k)) = WI!Value(v) \div 2^k
<1>1. WI!WordBits \in Nat /\ W \in Nat \ {0} /\ v.hi \in 0 .. W - 1 /\ v.lo \in 0 .. W - 1 /\ v.hi \in Int
  BY WordsAre, HalfAssumption, PairsAre
<1>2. WI!Value(v) = v.hi * W + v.lo
  BY ValueIs
<1>3. CASE k < WI!WordBits
  <2> DEFINE p == 2^k
             q == 2^(WI!WordBits - k)
             x == v.hi \div p
             l == (v.lo \div p) + ((v.hi * q) % W)
  <2>1. p \in Nat \ {0} /\ q \in Nat \ {0} /\ W = p * q
    <3>1. k \in 0 .. WI!WordBits
      BY <1>1, <1>3
    <3>2. QED
      BY <3>1, BitsSplit
  <2>2. WI!ShiftRight(v, k) = WI!MakeUint128(x, l)
    <3>1. k # 0 /\ k > 0
      OBVIOUS
    <3>2. QED
      BY <1>3, <3>1 DEF WI!ShiftRight, W
  <2> HIDE DEF p, q
  <2>3. l \in 0 .. W - 1 /\ WI!Value(v) \div p = x * W + l
    <3>1. \A h \in Int, m \in 0 .. W - 1 :
            /\ (m \div p) + ((h * q) % W) \in 0 .. W - 1
            /\ (h * W + m) \div p = (h \div p) * W + ((m \div p) + ((h * q) % W))
      BY <2>1, DividesBoth, Zenon
    <3>2. l \in 0 .. W - 1 /\ (v.hi * W + v.lo) \div p = x * W + l
      BY <1>1, <3>1
    <3>3. QED
      BY <1>2, <3>2
  <2>4. x \in 0 .. W - 1 /\ x \in Int
    <3>1. v.hi \in -0 .. W - 1
      BY <1>1
    <3>2. x \in -0 .. W - 1 /\ x \in Int
      BY <1>1, <2>1, <3>1, QuotientIn
    <3>3. QED
      BY <3>2
  <2> HIDE DEF x, l
  <2>5. x % W = x
    BY <1>1, <2>4, CongSelf, CongIsMod
  <2>6. l \in Int
    BY <2>3
  <2>7. QED
    BY <2>2, <2>3, <2>4, <2>5, <2>6, MakeIs DEF p
<1>4. CASE k >= WI!WordBits
  <2> DEFINE p == 2^(k - WI!WordBits)
             y == v.hi \div p
  <2>1. p \in Nat \ {0} /\ 2^k = W * p
    <3>1. k \in WI!WordBits .. 2 * WI!WordBits
      BY <1>1, <1>4
    <3>2. QED
      BY <3>1, BitsBeyond
  <2>2. WI!ShiftRight(v, k) = WI!MakeUint128(0, y)
    <3>1. k # 0 /\ ~(k > 0 /\ k < WI!WordBits)
      BY <1>1, <1>4
    <3>2. QED
      BY <3>1 DEF WI!ShiftRight
  <2> HIDE DEF p
  <2>3. WI!Value(v) \div 2^k = y
    <3>1. (v.hi * W + v.lo) \div (W * p) = y
      BY <1>1, <2>1, DividesHigh
    <3>2. QED
      BY <1>2, <2>1, <3>1
  <2>4. y \in 0 .. W - 1 /\ y \in Int
    <3>1. v.hi \in -0 .. W - 1
      BY <1>1
    <3>2. y \in -0 .. W - 1 /\ y \in Int
      BY <1>1, <2>1, <3>1, QuotientIn
    <3>3. QED
      BY <3>2
  <2> HIDE DEF y
  <2>5. 0 % W = 0 /\ 0 * W + y = y
    <3>1. 0 \in 0 .. W - 1 /\ W > 0 /\ W \in Int
      BY <1>1
    <3>2. 0 % W = 0
      BY <3>1, CongSelf, CongIsMod
    <3>3. QED
      BY <1>1, <2>4, <3>2
  <2>6. QED
    BY <2>2, <2>3, <2>4, <2>5, MakeIs
<1>5. QED
  BY <1>1, <1>3, <1>4

LEMMA HalvesTwice == ASSUME NEW h \in -(W \div 2) .. (W \div 2) - 1
                     PROVE  (h \div H) \div H = IF h < 0 THEN -1 ELSE 0
<1> DEFINE g == h \div H
           r == h % H
           e == g \div H
           s == g % H
           t == s * H + r
<1>1. H \in Int /\ H > 0 /\ W = H * H /\ W \in Int /\ W > 0 /\ h \in Int /\ -W <= h /\ h < W
  BY WordsAre
<1>2. g \in Int /\ r \in 0 .. H - 1 /\ r \in Int /\ h = g * H + r
  BY <1>1, DivModIs
<1> HIDE DEF g, r
<1>3. e \in Int /\ s \in 0 .. H - 1 /\ s \in Int /\ g = e * H + s
  BY <1>1, <1>2, DivModIs
<1> HIDE DEF e, s
<1>4. t \in 0 .. W - 1 /\ t \in Int
  <2>1. (s + 1) * H <= H * H /\ (s + 1) * H = s * H + H /\ 0 * H <= s * H /\ 0 * H = 0 /\ s * H \in Int
    <3>1. (s + 1) * H <= H * H
      BY <1>1, <1>3, Scaling
    <3>2. 0 * H <= s * H
      BY <1>1, <1>3, Scaling
    <3>3. QED
      BY <1>1, <1>3, <3>1, <3>2, Scaling
  <2>2. QED
    BY <1>1, <1>2, <2>1
<1>5. h = e * W + t
  <2>1. (e * H + s) * H + r = e * (H * H) + (s * H + r)
    BY <1>1, <1>2, <1>3, SMT
  <2>2. QED
    BY <1>1, <1>2, <1>3, <2>1
<1> HIDE DEF t
<1>6. e * W \in Int
  BY <1>1, <1>3
<1>7. ~(0 < e) /\ ~(e + 1 < 0)
  <2>1. 0 < e => (0 + 1) * W <= e * W
    BY <1>1, <1>3, Scaling
  <2>2. e + 1 < 0 => (e + 2) * W <= 0 * W
    <3>1. e + 1 < 0 => e + 2 <= 0
      BY <1>3
    <3>2. e + 2 \in Int
      BY <1>3
    <3>3. QED
      BY <1>1, <3>1, <3>2, Scaling
  <2>3. (e + 2) * W = e * W + 2 * W /\ 0 * W = 0 /\ (0 + 1) * W = W
    BY <1>1, <1>3, SMT
  <2>4. QED
    BY <1>1, <1>3, <1>4, <1>5, <1>6, <2>1, <2>2, <2>3
<1>8. e = 0 \/ e = -1
  BY <1>3, <1>7
<1>9. e = IF h < 0 THEN -1 ELSE 0
  <2>1. (-1) * W = -W /\ 0 * W = 0
    BY <1>1
  <2>2. QED
    BY <1>1, <1>4, <1>5, <1>8, <2>1
<1>10. QED
  BY <1>9 DEF e, g

LEMMA SignedShiftsRight ==
  ASSUME NEW v \in SignedPairs, NEW k \in 1 .. 2 * WI!WordBits - 1
  PROVE  IsSignedFor(WI!SignedShiftRight(v, k), WI!Value(v) \div 2^k)
<1> DEFINE half == W \div 2
<1>1. /\ WI!WordBits \in Nat /\ W \in Nat \ {0} /\ v.hi \in -half .. half - 1 /\ v.lo \in 0 .. W - 1 /\ v.hi \in Int
      /\ half \in Nat /\ W = 2 * half /\ R \in Int
  BY WordsAre, HalfAssumption, SignedPairsAre
<1>2. WI!Value(v) = v.hi * W + v.lo
  BY ValueIs
<1>3. CASE k < WI!WordBits
  <2> DEFINE p == 2^k
             q == 2^(WI!WordBits - k)
             x == v.hi \div p
             l == (v.lo \div p) + ((v.hi * q) % W)
  <2>1. p \in Nat \ {0} /\ q \in Nat \ {0} /\ W = p * q
    <3>1. k \in 0 .. WI!WordBits
      BY <1>1, <1>3
    <3>2. QED
      BY <3>1, BitsSplit
  <2>2. WI!SignedShiftRight(v, k) = WI!MakeInt128(x, l)
    <3>1. k # 0 /\ ~(k >= WI!WordBits)
      BY <1>1, <1>3
    <3>2. QED
      BY <3>1 DEF WI!SignedShiftRight, W
  <2> HIDE DEF p, q
  <2>3. l \in 0 .. W - 1 /\ WI!Value(v) \div p = x * W + l
    <3>1. \A h \in Int, m \in 0 .. W - 1 :
            /\ (m \div p) + ((h * q) % W) \in 0 .. W - 1
            /\ (h * W + m) \div p = (h \div p) * W + ((m \div p) + ((h * q) % W))
      BY <2>1, DividesBoth, Zenon
    <3>2. l \in 0 .. W - 1 /\ (v.hi * W + v.lo) \div p = x * W + l
      BY <1>1, <3>1
    <3>3. QED
      BY <1>2, <3>2
  <2>4. x \in Int
    BY <1>1, <2>1, QuotientIn
  <2> HIDE DEF x, l
  <2> DEFINE n == x * W + l
  <2>5. n \in Int /\ Cong(x * W + l, n, R)
    BY <1>1, <2>3, <2>4, CongSelf
  <2>6. IsSignedFor(WI!MakeInt128(x, l), n)
    <3> HIDE DEF n
    <3>1. QED
      BY <2>3, <2>4, <2>5, MakesFor
  <2>7. QED
    BY <2>2, <2>3, <2>6 DEF p
<1>4. CASE k >= WI!WordBits
  <2> DEFINE p == 2^(k - WI!WordBits)
             y == v.hi \div p
             e == IF v.hi < 0 THEN -1 ELSE 0
             l == y % W
  <2>1. p \in Nat \ {0} /\ 2^k = W * p
    <3>1. k \in WI!WordBits .. 2 * WI!WordBits
      BY <1>1, <1>4
    <3>2. QED
      BY <3>1, BitsBeyond
  <2>2. WI!SignedShiftRight(v, k) = WI!MakeInt128(e, y)
    <3>1. (v.hi \div H) \div H = e
      BY <1>1, HalvesTwice
    <3>2. QED
      BY <1>4, <3>1 DEF WI!SignedShiftRight, H
  <2> HIDE DEF p
  <2>3. WI!Value(v) \div 2^k = y
    <3>1. (v.hi * W + v.lo) \div (W * p) = y
      BY <1>1, <2>1, DividesHigh
    <3>2. QED
      BY <1>2, <2>1, <3>1
  <2>4. y \in -half .. half - 1 /\ y \in Int /\ (y < 0 <=> v.hi < 0)
    BY <1>1, <2>1, QuotientIn
  <2>5. e \in Int /\ y - e * W \in 0 .. W - 1
    BY <1>1, <2>4
  <2> HIDE DEF y, e
  <2>6. y % W = y - e * W
    <3>1. W > 0 /\ W \in Int /\ y = e * W + (y - e * W)
      BY <1>1, <2>4, <2>5
    <3>2. QED
      BY <2>4, <2>5, <3>1, DivModOnly
  <2>7. l \in 0 .. W - 1 /\ e * W + l = y
    BY <1>1, <2>4, <2>5, <2>6
  <2>8. Cong(e * W + l, y, R)
    BY <1>1, <2>4, <2>7, CongSelf
  <2>9. WI!MakeInt128(e, y) = WI!MakeInt128(e, l)
    BY <2>4, MakesTheSame
  <2> HIDE DEF l
  <2>10. QED
    BY <2>2, <2>3, <2>4, <2>5, <2>7, <2>8, <2>9, MakesFor
<1>5. QED
  BY <1>1, <1>3, <1>4

-----------------------------------------------------------------------------
(* Products: of the halves, each in its place.                             *)

LEMMA ForTheSame ==
  ASSUME NEW u \in Pairs, NEW v \in Pairs, Cong(WI!Value(u), WI!Value(v), R)
  PROVE  u = v
<1>1. WI!Value(u) \in 0 .. R - 1 /\ WI!Value(v) \in 0 .. R - 1 /\ R \in Int /\ R > 0
  BY PairsAre, WordsAre
<1>2. WI!Value(u) = WI!Value(v)
  <2>1. WI!Value(u) \in Int /\ WI!Value(v) \in Int /\ WI!Value(u) - WI!Value(v) < R /\ WI!Value(v) - WI!Value(u) < R
    BY <1>1
  <2>2. QED
    BY <1>1, <2>1, CongOnce
<1>3. u.hi \in Int /\ u.lo \in 0 .. W - 1 /\ v.hi \in Int /\ v.lo \in 0 .. W - 1 /\ W \in Int /\ W > 0
  BY PairsAre, WordsAre
<1>4. u.hi * W + u.lo = v.hi * W + v.lo /\ u.hi * W + u.lo \in Int
  BY <1>2, <1>3, ValueIs
<1>5. u.hi = v.hi /\ u.lo = v.lo
  <2> DEFINE n == u.hi * W + u.lo
  <2>1. n \in Int /\ n = u.hi * W + u.lo /\ n = v.hi * W + v.lo
    BY <1>4
  <2> HIDE DEF n
  <2>2. n \div W = u.hi /\ n % W = u.lo
    BY <1>3, <2>1, DivModOnly
  <2>3. n \div W = v.hi /\ n % W = v.lo
    BY <1>3, <2>1, DivModOnly
  <2>4. QED
    BY <2>2, <2>3
<1>6. QED
  BY <1>5 DEF Pairs

\* A number that fits is that of its pair.
LEMMA ForIs ==
  ASSUME NEW n \in Int
  PROVE  /\ \A v : IsFor(v, n) => WI!Value(v) = n % R /\ (n \in 0 .. R - 1 => WI!Value(v) = n)
         /\ \A v : IsSignedFor(v, n) /\ n \in WI!Least .. WI!Greatest => WI!Value(v) = n
<1>1. R \in Int /\ R > 0
  BY WordsAre
<1>2. ASSUME NEW v, IsFor(v, n) PROVE WI!Value(v) = n % R
  <2>1. WI!Value(v) \in 0 .. R - 1 /\ Cong(WI!Value(v), n, R)
    BY <1>2, PairsAre DEF IsFor
  <2>2. QED
    BY <1>1, <2>1, CongIsMod
<1>3. n \in 0 .. R - 1 => n % R = n
  BY <1>1, CongSelf, CongIsMod
<1>4. ASSUME NEW v, IsSignedFor(v, n), n \in WI!Least .. WI!Greatest PROVE WI!Value(v) = n
  <2> DEFINE half == R \div 2
  <2>1. WI!Least = -half /\ WI!Greatest = half - 1 /\ half \in Int /\ 2 * half <= R
    BY <1>1 DEF WI!Least, WI!Greatest, R
  <2> HIDE DEF half
  <2>2. WI!Value(v) \in WI!Least .. WI!Greatest /\ Cong(WI!Value(v), n, R)
    BY <1>4, SignedPairsAre DEF IsSignedFor
  <2>3. WI!Value(v) \in Int /\ WI!Value(v) - n < R /\ n - WI!Value(v) < R
    BY <1>1, <1>4, <2>1, <2>2
  <2>4. QED
    BY <1>1, <2>2, <2>3, CongOnce
<1>5. QED
  BY <1>2, <1>3, <1>4

LEMMA PlusFor ==
  ASSUME NEW u, NEW v, NEW m \in Int, NEW n \in Int, IsFor(u, m), IsFor(v, n)
  PROVE  IsFor(WI!Plus(u, v), m + n)
<1>1. R \in Int /\ R > 0 /\ u \in Pairs /\ v \in Pairs /\ Cong(WI!Value(u), m, R) /\ Cong(WI!Value(v), n, R)
  BY WordsAre DEF IsFor
<1>2. /\ u.hi \in Int /\ v.hi \in Int /\ u.lo \in 0 .. W - 1 /\ v.lo \in 0 .. W - 1
      /\ WI!Value(u) \in Int /\ WI!Value(v) \in Int
  BY <1>1, PairsAre
<1> DEFINE s == WI!Plus(u, v)
           i == WI!Value(u)
           j == WI!Value(v)
<1>3. s \in Pairs /\ Cong(WI!Value(s), i + j, R)
  BY <1>2, PlusIs DEF IsFor
<1> HIDE DEF s, i, j
<1>4. WI!Value(s) \in Int
  BY <1>3, PairsAre
<1>5. Cong(i + j, m + n, R)
  BY <1>1, <1>2, CongFacts DEF i, j
<1>6. i + j \in Int /\ m + n \in Int
  BY <1>2 DEF i, j
<1>7. Cong(WI!Value(s), m + n, R)
  BY <1>1, <1>3, <1>4, <1>5, <1>6, CongThrough
<1>8. QED
  BY <1>3, <1>7 DEF s, IsFor

LEMMA ProductFits ==
  ASSUME NEW i \in 0 .. H - 1, NEW j \in 0 .. H - 1
  PROVE  i * j \in 0 .. W - 1 /\ i * j \in Int
<1>1. H \in Int /\ H > 0 /\ W = H * H /\ i \in Int /\ j \in Int
  BY WordsAre
<1>2. i * j <= (H - 1) * (H - 1)
  <2>1. j >= 0 => i * j <= (H - 1) * j
    <3>1. j > 0 => i * j <= (H - 1) * j
      BY <1>1, Scaling
    <3>2. j = 0 => i * j = 0 /\ (H - 1) * j = 0
      BY <1>1
    <3>3. QED
      BY <1>1, <3>1, <3>2
  <2>2. H - 1 > 0 => j * (H - 1) <= (H - 1) * (H - 1)
    BY <1>1, Scaling
  <2>3. H - 1 = 0 => (H - 1) * j = 0 /\ (H - 1) * (H - 1) = 0
    BY <1>1
  <2>4. (H - 1) * j = j * (H - 1) /\ i * j \in Int /\ (H - 1) * j \in Int /\ (H - 1) * (H - 1) \in Int
    BY <1>1, SMT
  <2>5. QED
    BY <1>1, <2>1, <2>2, <2>3, <2>4
<1>3. 0 <= i * j
  <2>1. j > 0 => 0 * j <= i * j
    BY <1>1, Scaling
  <2>2. j = 0 => i * j = 0
    BY <1>1
  <2>3. QED
    BY <1>1, <2>1, <2>2
<1>4. (H - 1) * (H - 1) = W - 2 * H + 1
  BY <1>1, SMT
<1>5. i * j \in Int /\ W \in Int
  BY <1>1
<1>6. QED
  BY <1>1, <1>2, <1>3, <1>4, <1>5

LEMMA InTheMiddle ==
  ASSUME NEW n \in 0 .. W - 1
  PROVE  IsFor(WI!ShiftLeft(WI!MakeUint128(0, n), Half), n * H)
<1> DEFINE v == WI!MakeUint128(0, n)
<1>1. n \in Int /\ 0 \in Int /\ Half \in 1 .. 2 * WI!WordBits - 1 /\ W \in Int /\ W > 0
  BY WordsAre, HalfAssumption
<1>2. v \in Pairs /\ WI!Value(v) = (0 % W) * W + n
  BY <1>1, MakeIs
<1> HIDE DEF v
<1>3. 0 % W = 0
  <2>1. 0 \in 0 .. W - 1
    BY <1>1
  <2>2. QED
    BY <1>1, <2>1, CongSelf, CongIsMod
<1>4. WI!Value(v) = n
  BY <1>1, <1>2, <1>3
<1>5. v.hi \in Int /\ v.lo \in 0 .. W - 1
  BY <1>2, PairsAre
<1>6. IsFor(WI!ShiftLeft(v, Half), WI!Value(v) * 2^Half)
  BY <1>1, <1>5, ShiftsLeft
<1>7. QED
  BY <1>4, <1>6 DEF v, H, WI!HalfWord

LEMMA TimesIs ==
  ASSUME NEW a \in Pairs, NEW b \in Pairs
  PROVE  IsFor(WI!Times(a, b), WI!Value(a) * WI!Value(b))
<1> DEFINE a32 == a.lo \div H
           a00 == a.lo % H
           b32 == b.lo \div H
           b00 == b.lo % H
           x == a.hi * b.lo + a.lo * b.hi + a32 * b32
           y == a00 * b00
           i == a32 * b00
           j == a00 * b32
           first == WI!MakeUint128(x, y)
           second == WI!ShiftLeft(WI!MakeUint128(0, i), Half)
           third == WI!ShiftLeft(WI!MakeUint128(0, j), Half)
           n == WI!Value(a) * WI!Value(b)
           t == ((x * W + y) + i * H) + j * H
<1>1. /\ H \in Int /\ H > 0 /\ H \in Nat \ {0} /\ W = H * H /\ W \in Int /\ W > 0 /\ R \in Int /\ R = W * W
      /\ a.hi \in Int /\ b.hi \in Int /\ a.lo \in 0 .. W - 1 /\ b.lo \in 0 .. W - 1 /\ a.lo \in Int /\ b.lo \in Int
  BY WordsAre, PairsAre
<1>2. \A l \in 0 .. W - 1 : l \div H \in 0 .. H - 1 /\ l % H \in 0 .. H - 1 /\ l = (l \div H) * H + (l % H)
  <2>1. SUFFICES ASSUME NEW l \in 0 .. W - 1
                 PROVE  l \div H \in 0 .. H - 1 /\ l % H \in 0 .. H - 1 /\ l = (l \div H) * H + (l % H)
    OBVIOUS
  <2>2. l \div H \in 0 .. H - 1
    BY <1>1, CutsLeft
  <2>3. l \in Int
    BY <1>1
  <2>4. QED
    BY <1>1, <2>2, <2>3, DivModIs
<1>3. a32 \in 0 .. H - 1 /\ a00 \in 0 .. H - 1 /\ b32 \in 0 .. H - 1 /\ b00 \in 0 .. H - 1
  BY <1>1, <1>2
<1>4. a.lo = a32 * H + a00 /\ b.lo = b32 * H + b00
  BY <1>1, <1>2
<1>5. WI!Times(a, b) = WI!Plus(WI!Plus(first, second), third)
  BY Zenon DEF WI!Times, H
<1> HIDE DEF a32, a00, b32, b00
<1>6. y \in 0 .. W - 1 /\ i \in 0 .. W - 1 /\ j \in 0 .. W - 1 /\ a32 * b32 \in Int
  BY <1>3, ProductFits
<1>7. x \in Int /\ y \in Int /\ i * H \in Int /\ j * H \in Int /\ x * W \in Int /\ (x * W + y) + i * H \in Int
  <2>1. a.hi * b.lo \in Int /\ a.lo * b.hi \in Int /\ i \in Int /\ j \in Int
    BY <1>1, <1>6
  <2>2. x \in Int /\ y \in Int
    BY <1>6, <2>1
  <2> HIDE DEF x, y, i, j
  <2>3. QED
    BY <1>1, <2>1, <2>2
<1>8. Cong(t, n, R) /\ n \in Int
  <2> DEFINE e == -(a.hi * b.hi)
  <2>1. n = (a.hi * W + a.lo) * (b.hi * W + b.lo)
    BY ValueIs
  <2>2. a.lo * b.lo = (a32 * b32) * W + (a32 * b00) * H + (a00 * b32) * H + a00 * b00
    <3>1. a32 \in Int /\ a00 \in Int /\ b32 \in Int /\ b00 \in Int
      BY <1>3
    <3>2. (a32 * H + a00) * (b32 * H + b00) = (a32 * b32) * (H * H) + (a32 * b00) * H + (a00 * b32) * H + a00 * b00
      BY <1>1, <3>1, SMT
    <3>3. QED
      BY <1>1, <1>4, <3>2
  <2>3. n = (a.hi * b.hi) * R + (a.hi * b.lo + a.lo * b.hi) * W + a.lo * b.lo
    <3>1. (a.hi * W + a.lo) * (b.hi * W + b.lo) = (a.hi * b.hi) * (W * W) + (a.hi * b.lo + a.lo * b.hi) * W + a.lo * b.lo
      BY <1>1, SMT
    <3>2. QED
      BY <1>1, <2>1, <3>1
  <2>4. e \in Int /\ a.hi * b.hi \in Int /\ (a.hi * b.hi) * R \in Int /\ e * R = -((a.hi * b.hi) * R) /\ a.lo * b.lo \in Int
        /\ a.hi * b.lo + a.lo * b.hi \in Int
    <3>1. a.hi * b.hi \in Int /\ a.lo * b.lo \in Int /\ a.hi * b.lo \in Int /\ a.lo * b.hi \in Int
      BY <1>1
    <3>2. QED
      BY <1>1, <3>1
  <2>5. x * W = (a.hi * b.lo + a.lo * b.hi) * W + (a32 * b32) * W /\ (a.hi * b.lo + a.lo * b.hi) * W \in Int /\ (a32 * b32) * W \in Int
    BY <1>1, <1>6, <2>4
  <2> HIDE DEF e, n
  <2>6. n \in Int /\ t - n = e * R
    BY <1>6, <1>7, <2>2, <2>3, <2>4, <2>5
  <2>7. QED
    BY <2>4, <2>6 DEF Cong
<1>9. IsFor(second, i * H) /\ IsFor(third, j * H)
  BY <1>6, InTheMiddle
<1>10. IsFor(first, x * W + y)
  <2>1. Cong(x * W + y, x * W + y, R) /\ x * W + y \in Int
    BY <1>1, <1>7, CongSelf
  <2>2. QED
    BY <1>6, <1>7, <2>1, MakesFor
<1> HIDE DEF x, y, i, j, first, second, third
<1>11. IsFor(WI!Plus(WI!Plus(first, second), third), t)
  <2>1. x * W + y \in Int
    BY <1>7
  <2>2. IsFor(WI!Plus(first, second), (x * W + y) + i * H)
    BY <1>7, <1>9, <1>10, <2>1, PlusFor
  <2>3. QED
    BY <1>7, <1>9, <2>2, PlusFor
<1> HIDE DEF t, n
<1>12. QED
  <2> DEFINE v == WI!Times(a, b)
  <2>1. v \in Pairs /\ Cong(WI!Value(v), t, R)
    BY <1>5, <1>11 DEF IsFor
  <2> HIDE DEF v
  <2>2. WI!Value(v) \in Int /\ t \in Int
    BY <1>7, <2>1, PairsAre DEF t
  <2>3. Cong(WI!Value(v), n, R)
    BY <1>1, <1>8, <2>1, <2>2, CongThrough
  <2>4. QED
    BY <2>1, <2>3 DEF IsFor, v, n

-----------------------------------------------------------------------------
(* Quotients: DivModImpl brings the divisor under the first bit of the     *)
(* dividend, and takes it away one bit of the quotient at a time.          *)

LEMMA LastBitIs ==
  ASSUME NEW n \in 1 .. W - 1
  PROVE  WI!LastBit(n) \in 0 .. WI!WordBits - 1 /\ n \in 2^WI!LastBit(n) .. 2^(WI!LastBit(n) + 1) - 1
<1> DEFINE T == {k \in Nat : k < WI!WordBits /\ n < 2^(k + 1)}
<1>1. WI!WordBits \in Nat \ {0} /\ WI!WordBits <= 4 * Half /\ W = 2^WI!WordBits /\ n \in Int
  BY WordsAre, HalfAssumption DEF W, WI!Word
<1>2. WI!WordBits - 1 \in T
  <2>1. WI!WordBits - 1 \in Nat /\ WI!WordBits - 1 < WI!WordBits /\ (WI!WordBits - 1) + 1 = WI!WordBits
    BY <1>1
  <2>2. n < W /\ W \in Int
    BY <1>1, WordsAre
  <2>3. QED
    BY <1>1, <2>1, <2>2
<1>3. PICK k \in T : \A m \in T : k <= m
  <2>1. T \subseteq Nat /\ T # {}
    BY <1>2
  <2> HIDE DEF T
  <2>2. QED
    BY <2>1, LeastOfSet
<1>4. k \in 0 .. WI!WordBits - 1 /\ n < 2^(k + 1)
  BY <1>1, <1>3
<1>5. k \in 0 .. 4 * Half + 1 /\ k + 1 \in 0 .. 4 * Half + 1
  BY <1>1, <1>4, HalfAssumption
<1>6. 2^k <= n
  <2>1. CASE k = 0
    BY <1>1, <2>1, PowersOfTwo
  <2>2. CASE k # 0
    <3>1. k - 1 \in Nat /\ k - 1 < WI!WordBits /\ (k - 1) + 1 = k /\ ~(k <= k - 1)
      BY <1>1, <1>4, <2>2
    <3>2. k - 1 \notin T
      BY <1>3, <3>1
    <3>3. ~(n < 2^k)
      BY <3>1, <3>2
    <3>4. 2^k \in Int
      BY <1>5, PowersArePositive
    <3>5. QED
      BY <1>1, <3>3, <3>4
  <2>3. QED
    BY <2>1, <2>2
<1>7. 2^k \in Int /\ 2^(k + 1) \in Int
  BY <1>5, PowersArePositive
<1>8. n \in 2^k .. 2^(k + 1) - 1
  BY <1>1, <1>4, <1>6, <1>7
<1> HIDE DEF T
<1>9. WI!LastBit(n) \in 0 .. WI!WordBits - 1 /\ n \in 2^WI!LastBit(n) .. 2^(WI!LastBit(n) + 1) - 1
  BY <1>4, <1>8, Zenon DEF WI!LastBit
<1>10. QED
  BY <1>9

LEMMA Fls128Is ==
  ASSUME NEW v \in Pairs, WI!Value(v) > 0
  PROVE  LET f == WI!Fls128(v)
         IN  f \in 0 .. 2 * WI!WordBits - 1 /\ 2^f <= WI!Value(v) /\ WI!Value(v) < 2^(f + 1)
<1>1. v.hi \in 0 .. W - 1 /\ v.lo \in 0 .. W - 1 /\ WI!Value(v) = v.hi * W + v.lo /\ W \in Int /\ W > 0 /\ v.hi \in Int
  BY PairsAre, WordsAre
<1>2. WI!WordBits \in Nat \ {0} /\ 2 * WI!WordBits = 4 * Half /\ Half \in Nat
  BY WordsAre, HalfAssumption
<1>3. CASE v.hi # 0
  <2> DEFINE k == WI!LastBit(v.hi)
             p == 2^k
             q == 2^(k + 1)
             h == v.hi * W
  <2>1. v.hi \in 1 .. W - 1
    BY <1>1, <1>3
  <2>2. k \in 0 .. WI!WordBits - 1 /\ v.hi \in p .. q - 1
    BY <2>1, LastBitIs
  <2>3. WI!Fls128(v) = WI!WordBits + k
    BY <1>3 DEF WI!Fls128
  <2> HIDE DEF k
  <2>4. 2^(WI!WordBits + k) = W * p /\ 2^((WI!WordBits + k) + 1) = W * q /\ p \in Int /\ q \in Int
    <3>1. k \in Nat /\ k + 1 \in Nat /\ WI!WordBits + k <= 4 * Half + 1 /\ WI!WordBits + (k + 1) <= 4 * Half + 1
          /\ (WI!WordBits + k) + 1 = WI!WordBits + (k + 1) /\ k \in 0 .. 4 * Half + 1 /\ k + 1 \in 0 .. 4 * Half + 1 /\ WI!WordBits \in Nat
      BY <1>2, <2>2
    <3>2. 2^(WI!WordBits + k) = 2^WI!WordBits * 2^k /\ 2^(WI!WordBits + (k + 1)) = 2^WI!WordBits * 2^(k + 1)
      BY <3>1, PowersMultiply
    <3>3. p \in Int /\ q \in Int
      BY <3>1, PowersArePositive
    <3>4. QED
      BY <3>1, <3>2, <3>3 DEF W, WI!Word
  <2> HIDE DEF p, q
  <2>5. p * W <= v.hi * W /\ (v.hi + 1) * W <= q * W /\ (v.hi + 1) * W = v.hi * W + W
    <3>1. p <= v.hi /\ v.hi + 1 <= q /\ v.hi + 1 \in Int
      BY <1>1, <2>2, <2>4
    <3>2. p * W <= v.hi * W
      BY <1>1, <2>4, <3>1, Scaling
    <3>3. (v.hi + 1) * W <= q * W
      BY <1>1, <2>4, <3>1, Scaling
    <3>4. QED
      BY <1>1, <2>4, <3>2, <3>3, Scaling
  <2>6. h \in Int /\ p * W \in Int /\ q * W \in Int /\ W * p = p * W /\ W * q = q * W
    BY <1>1, <2>4
  <2>7. W * p <= WI!Value(v) /\ WI!Value(v) < W * q
    BY <1>1, <2>5, <2>6
  <2>8. WI!WordBits + k \in 0 .. 2 * WI!WordBits - 1
    BY <1>2, <2>2
  <2>9. QED
    BY <2>3, <2>4, <2>7, <2>8
<1>4. CASE v.hi = 0
  <2> DEFINE k == WI!LastBit(v.lo)
  <2>1. v.lo \in 1 .. W - 1 /\ WI!Value(v) = v.lo
    BY <1>1, <1>4
  <2>2. k \in 0 .. WI!WordBits - 1 /\ v.lo \in 2^k .. 2^(k + 1) - 1
    BY <2>1, LastBitIs
  <2>3. WI!Fls128(v) = k
    BY <1>4 DEF WI!Fls128
  <2> HIDE DEF k
  <2>4. k \in 0 .. 4 * Half + 1 /\ k + 1 \in 0 .. 4 * Half + 1 /\ k \in 0 .. 2 * WI!WordBits - 1
    BY <1>2, <2>2
  <2>5. 2^k \in Int /\ 2^(k + 1) \in Int /\ v.lo \in Int
    BY <1>1, <2>4, PowersArePositive
  <2>6. QED
    BY <2>1, <2>2, <2>3, <2>4, <2>5
<1>5. QED
  BY <1>3, <1>4

\* A step of the division: D is where the divisor is, Q and M what has been found.
LEMMA StepDivides ==
  ASSUME NEW s, s.quo \in Pairs, s.rem \in Pairs, s.den \in Pairs,
         NEW n \in 0 .. R - 1, NEW D \in Nat \ {0}, D = WI!Value(s.den),
         n = WI!Value(s.quo) * (2 * D) + WI!Value(s.rem), WI!Value(s.rem) < 2 * D
  PROVE  LET t == WI!Step(s)
         IN  /\ t.quo \in Pairs /\ t.rem \in Pairs /\ t.den \in Pairs
             /\ n = WI!Value(t.quo) * D + WI!Value(t.rem) /\ WI!Value(t.rem) < D
             /\ WI!Value(t.den) = D \div 2
<1> DEFINE q == WI!Value(s.quo)
           m == WI!Value(s.rem)
           fits == ~WI!Less(s.rem, s.den)
           twice == WI!ShiftLeft(s.quo, 1)
           more == WI!MakeUint128(twice.hi, twice.lo + 1)
           less == WI!Minus(s.rem, s.den)
           t == WI!Step(s)
<1>1. /\ q \in 0 .. R - 1 /\ m \in 0 .. R - 1 /\ D \in 0 .. R - 1 /\ R \in Int /\ R > 0 /\ q \in Int /\ m \in Int /\ n \in Int
      /\ s.rem.hi \in Int /\ s.den.hi \in Int /\ s.rem.lo \in 0 .. W - 1 /\ s.den.lo \in 0 .. W - 1
      /\ s.quo.hi \in Int /\ s.quo.lo \in 0 .. W - 1
  BY PairsAre, WordsAre
<1>2. fits <=> D <= m
  <2>1. WI!Less(s.rem, s.den) <=> m < D
    BY <1>1, LessIs
  <2>2. QED
    BY <1>1, <2>1
<1>3. t.quo = (IF fits THEN more ELSE twice) /\ t.rem = (IF fits THEN less ELSE s.rem) /\ t.den = WI!ShiftRight(s.den, 1)
  BY DEF WI!Step
<1>4. 1 \in 1 .. 2 * WI!WordBits - 1 /\ 2^1 = 2
  <2>1. 0 \in 0 .. 4 * Half /\ 0 + 1 = 1
    BY HalfAssumption
  <2>2. 2^(0 + 1) = 2 * 2^0
    BY <2>1, PowersOfTwo
  <2>3. QED
    BY <2>1, <2>2, PowersOfTwo, WordsAre, HalfAssumption
<1>5. WI!ShiftRight(s.den, 1) \in Pairs /\ WI!Value(WI!ShiftRight(s.den, 1)) = D \div 2
  BY <1>4, ShiftsRight
<1>6. 2 * q < R /\ 2 * q \in Int
  <2>1. q * (2 * D) = (2 * q) * D /\ (2 * q) * D \in Int /\ 2 * q \in Int
    BY <1>1, SMT
  <2>2. 1 * (2 * q) <= D * (2 * q)
    <3>1. 2 * q > 0 => 1 * (2 * q) <= D * (2 * q)
      BY <1>1, <2>1, Scaling
    <3>2. 2 * q = 0 => 1 * (2 * q) = 0 /\ D * (2 * q) = 0
      BY <1>1
    <3>3. QED
      BY <1>1, <3>1, <3>2
  <2>3. 1 * (2 * q) = 2 * q /\ D * (2 * q) = (2 * q) * D
    BY <1>1, <2>1
  <2>4. n = q * (2 * D) + m
    OBVIOUS
  <2> HIDE DEF q, m
  <2>5. QED
    BY <1>1, <2>1, <2>2, <2>3, <2>4
<1>7. twice \in Pairs /\ WI!Value(twice) = 2 * q
  <2>1. IsFor(twice, q * 2)
    BY <1>1, <1>4, ShiftsLeft
  <2>2. q * 2 = 2 * q /\ 2 * q \in 0 .. R - 1
    BY <1>1, <1>6
  <2> HIDE DEF twice, q
  <2>3. WI!Value(twice) = 2 * q
    BY <1>6, <2>1, <2>2, ForIs
  <2>4. QED
    BY <2>1, <2>3 DEF IsFor
<1> HIDE DEF q, m, twice
<1>8. more \in Pairs /\ WI!Value(more) = 2 * q + 1
  <2> DEFINE half == W \div 2
             e == q - twice.hi * half
  <2>1. /\ W = 2 * half /\ half \in Int /\ W \in Int /\ W > 0 /\ twice.hi \in 0 .. W - 1 /\ twice.lo \in 0 .. W - 1
        /\ 2 * q = twice.hi * W + twice.lo /\ twice.hi \in Int
    BY <1>7, PairsAre, WordsAre
  <2> HIDE DEF half
  <2>2. e \in Int /\ twice.hi * (2 * half) = 2 * (twice.hi * half) /\ twice.hi * half \in Int
    BY <1>1, <2>1
  <2>3. twice.lo = 2 * e
    <3>1. twice.hi * W = 2 * (twice.hi * half)
      BY <2>1, <2>2
    <3>2. twice.lo = 2 * q - 2 * (twice.hi * half)
      BY <1>1, <2>1, <2>2, <3>1
    <3>3. QED
      BY <1>1, <2>2, <3>2
  <2> HIDE DEF e
  <2>4. twice.lo + 1 \in 0 .. W - 1 /\ twice.lo + 1 \in Int
    BY <2>1, <2>2, <2>3
  <2>5. twice.hi % W = twice.hi
    BY <2>1, CongSelf, CongIsMod
  <2>6. more \in Pairs /\ WI!Value(more) = (twice.hi % W) * W + (twice.lo + 1)
    BY <2>1, <2>4, MakeIs
  <2>7. twice.hi * W \in Int
    BY <2>1
  <2> HIDE DEF more
  <2>8. QED
    BY <2>1, <2>5, <2>6, <2>7
<1>9. fits => less \in Pairs /\ WI!Value(less) = m - D
  <2>1. SUFFICES ASSUME fits PROVE less \in Pairs /\ WI!Value(less) = m - D
    OBVIOUS
  <2>2. IsFor(less, m - D)
    BY <1>1, MinusIs DEF m
  <2>3. m - D \in 0 .. R - 1 /\ m - D \in Int
    BY <1>1, <1>2, <2>1
  <2> HIDE DEF less
  <2>4. WI!Value(less) = m - D
    BY <2>2, <2>3, ForIs
  <2>5. QED
    BY <2>2, <2>4 DEF IsFor
<1> HIDE DEF fits, more, less, t
<1>10. q * (2 * D) = (2 * q) * D /\ (2 * q + 1) * D = (2 * q) * D + D /\ (2 * q) * D \in Int
  BY <1>1, <1>6, SMT
<1>11. n = (2 * q) * D + m /\ m < 2 * D
  BY <1>10 DEF q, m
<1>12. CASE fits
  <2>1. t.quo = more /\ t.rem = less
    BY <1>3, <1>12
  <2>2. n = (2 * q + 1) * D + (m - D) /\ m - D < D
    BY <1>1, <1>10, <1>11
  <2>3. QED
    BY <1>3, <1>5, <1>8, <1>9, <1>12, <2>1, <2>2 DEF t
<1>13. CASE ~fits
  <2>1. t.quo = twice /\ t.rem = s.rem
    BY <1>3, <1>13
  <2>2. m < D
    BY <1>1, <1>2, <1>13
  <2>3. WI!Value(t.rem) = m /\ WI!Value(t.quo) = 2 * q
    BY <1>7, <2>1 DEF m
  <2>4. QED
    BY <1>3, <1>5, <1>7, <1>11, <2>1, <2>2, <2>3 DEF t
<1>14. QED
  BY <1>12, <1>13

\* The steps of a division, up to N.
IsDivision(g, start, N) == g = [i \in 0 .. N |-> IF i = 0 THEN start ELSE WI!Step(g[i - 1])]

LEMMA DivisionExists ==
  ASSUME NEW start, NEW N \in Nat
  PROVE  \E g : IsDivision(g, start, N)
<1> DEFINE T == {k \in 0 .. N : \E g : IsDivision(g, start, k)}
<1>1. 0 \in T
  <2> DEFINE g == [n \in 0 .. 0 |-> start]
  <2>1. g = [n \in 0 .. 0 |-> IF n = 0 THEN start ELSE WI!Step(g[n - 1])]
    OBVIOUS
  <2> HIDE DEF g
  <2>2. IsDivision(g, start, 0)
    BY <2>1 DEF IsDivision
  <2>3. 0 \in 0 .. N
    OBVIOUS
  <2>4. QED
    BY <2>2, <2>3, Zenon
<1>2. ASSUME NEW k \in 0 .. N, k # N, k \in T PROVE k + 1 \in T
  <2>1. PICK g : g = [n \in 0 .. k |-> IF n = 0 THEN start ELSE WI!Step(g[n - 1])]
    BY <1>2 DEF IsDivision
  <2> DEFINE h == [n \in 0 .. k + 1 |-> IF n = k + 1 THEN WI!Step(g[k]) ELSE g[n]]
  <2>2. ASSUME NEW n \in 0 .. k + 1 PROVE h[n] = IF n = 0 THEN start ELSE WI!Step(h[n - 1])
    <3>1. CASE n = k + 1
      <4>1. n # 0 /\ n - 1 = k /\ k \in 0 .. k + 1 /\ k # k + 1
        BY <3>1
      <4>2. h[n - 1] = g[k] /\ h[n] = WI!Step(g[k])
        BY <3>1, <4>1
      <4>3. QED
        BY <4>1, <4>2
    <3>2. CASE n = 0
      <4>1. 0 # k + 1 /\ 0 \in 0 .. k /\ 0 \in 0 .. k + 1
        OBVIOUS
      <4>2. h[0] = g[0]
        BY <4>1
      <4>3. g[0] = start
        BY <2>1, <4>1, Zenon
      <4>4. QED
        BY <3>2, <4>2, <4>3
    <3>3. CASE n # 0 /\ n # k + 1
      <4>1. n \in 0 .. k /\ n - 1 \in 0 .. k + 1 /\ n - 1 # k + 1
        BY <3>3
      <4>2. h[n] = g[n] /\ h[n - 1] = g[n - 1]
        BY <3>3, <4>1
      <4>3. g[n] = WI!Step(g[n - 1])
        BY <2>1, <3>3, <4>1
      <4>4. QED
        BY <3>3, <4>2, <4>3
    <3>4. QED
      BY <3>1, <3>2, <3>3
  <2>3. h = [n \in 0 .. k + 1 |-> h[n]]
    OBVIOUS
  <2> HIDE DEF h
  <2>4. h = [n \in 0 .. k + 1 |-> IF n = 0 THEN start ELSE WI!Step(h[n - 1])]
    BY <2>2, <2>3
  <2>5. k + 1 \in 0 .. N
    BY <1>2
  <2>6. QED
    BY <2>4, <2>5 DEF IsDivision
<1> HIDE DEF T
<1>3. N \in T
  <2>1. N \in 0 .. N
    OBVIOUS
  <2>2. QED
    BY <1>1, <1>2, <2>1, UpTo
<1>4. QED
  BY <1>3 DEF T

\* Of the n that is divided by d, what the steps up to i of the shift have found.
Divided(s, n, d, i, shift) ==
  /\ s.quo \in Pairs /\ s.rem \in Pairs /\ s.den \in Pairs
  /\ n = WI!Value(s.quo) * (d * 2^(shift + 1 - i)) + WI!Value(s.rem)
  /\ WI!Value(s.rem) < d * 2^(shift + 1 - i)
  /\ i <= shift => WI!Value(s.den) = d * 2^(shift - i)

LEMMA LongDivisionIs ==
  ASSUME NEW a \in Pairs, NEW b \in Pairs, WI!Value(b) > 0, WI!Value(b) <= WI!Value(a)
  PROVE  LET e == WI!LongDivision(a, b)
         IN  /\ e.quo \in Pairs /\ e.rem \in Pairs
             /\ WI!Value(a) = WI!Value(e.quo) * WI!Value(b) + WI!Value(e.rem) /\ WI!Value(e.rem) < WI!Value(b)
<1> DEFINE n == WI!Value(a)
           d == WI!Value(b)
           fa == WI!Fls128(a)
           fb == WI!Fls128(b)
           shift == fa - fb
           start == WI!Start(a, WI!ShiftLeft(b, shift))
           N == shift + 1
<1>1. n \in 0 .. R - 1 /\ d \in 0 .. R - 1 /\ R \in Int /\ R > 0 /\ n \in Int /\ d \in Int /\ d > 0 /\ d <= n
  BY PairsAre, WordsAre
<1>2. fa \in 0 .. 4 * Half - 1 /\ 2^fa <= n /\ n < 2^(fa + 1) /\ fb \in 0 .. 4 * Half - 1 /\ 2^fb <= d /\ d < 2^(fb + 1)
  <2>1. 2 * WI!WordBits - 1 = 4 * Half - 1
    BY WordsAre, HalfAssumption
  <2>2. WI!Value(a) > 0
    BY <1>1
  <2>3. QED
    BY <2>1, <2>2, Fls128Is
<1>3. \A i \in 0 .. 4 * Half + 1 : 2^i \in Nat \ {0} /\ 2^i \in Int
  BY PowersArePositive
<1>4. Half \in Nat
  BY HalfAssumption
<1> HIDE DEF n, d, fa, fb
<1>5. fb <= fa
  <2>1. SUFFICES ASSUME fa + 1 <= fb PROVE FALSE
    BY <1>2
  <2> DEFINE g == fb - (fa + 1)
             p == 2^(fa + 1)
             q == 2^g
  <2>2. fa + 1 \in Nat /\ g \in Nat /\ (fa + 1) + g = fb /\ fb <= 4 * Half + 1 /\ fa + 1 \in 0 .. 4 * Half + 1 /\ g \in 0 .. 4 * Half + 1
    BY <1>2, <1>4, <2>1
  <2> HIDE DEF g
  <2>3. 2^((fa + 1) + g) = p * q
    BY <2>2, PowersMultiply
  <2>4. 2^fb = p * q /\ p \in Int /\ q \in Int /\ p > 0 /\ 1 <= q
    <3>1. p \in Nat \ {0} /\ q \in Nat \ {0}
      BY <1>3, <2>2
    <3>2. QED
      BY <2>2, <2>3, <3>1
  <2> HIDE DEF p, q
  <2>5. 1 * p <= q * p /\ 1 * p = p /\ q * p = p * q
    BY <2>4, Scaling
  <2>6. p * q \in Int
    BY <2>4
  <2>7. QED
    BY <1>1, <1>2, <2>4, <2>5, <2>6 DEF p
<1>6. shift \in 0 .. 4 * Half - 1 /\ shift \in Int /\ N \in Nat
  BY <1>2, <1>4, <1>5
<1>7. d * 2^(shift + 1) > n /\ d * 2^shift \in 1 .. R - 1
  <2> DEFINE p == 2^fb
             q == 2^shift
             t == 2^(shift + 1)
             u == 2^(fb + 1)
  <2>1. /\ fb + (shift + 1) = fa + 1 /\ (fb + 1) + shift = fa + 1 /\ fa + 1 <= 4 * Half + 1
        /\ fb \in Nat /\ shift + 1 \in Nat /\ fb + 1 \in Nat /\ shift \in Nat
        /\ fb \in 0 .. 4 * Half + 1 /\ shift + 1 \in 0 .. 4 * Half + 1 /\ fb + 1 \in 0 .. 4 * Half + 1 /\ shift \in 0 .. 4 * Half + 1
        /\ fa + 1 <= 4 * Half /\ fa + 1 \in Nat /\ fa + 1 \in 0 .. 4 * Half + 1
    BY <1>2, <1>4, <1>6
  <2> HIDE DEF shift
  <2>2. 2^(fb + (shift + 1)) = p * t /\ 2^((fb + 1) + shift) = u * q
    BY <2>1, PowersMultiply
  <2>3. p \in Int /\ p > 0 /\ q \in Int /\ 1 <= q /\ t \in Int /\ t > 0 /\ u \in Int /\ 2^(fa + 1) \in Int
    <3>1. p \in Nat \ {0} /\ q \in Nat \ {0} /\ t \in Nat \ {0} /\ u \in Nat \ {0} /\ 2^(fa + 1) \in Nat \ {0}
      BY <1>3, <2>1
    <3>2. QED
      BY <3>1
  <2>4. 2^(fa + 1) <= R
    <3>1. R = 2^(4 * Half)
      <4>1. WI!WordBits + WI!WordBits = 4 * Half /\ WI!WordBits \in Nat /\ 4 * Half <= 4 * Half + 1
        BY WordsAre, HalfAssumption
      <4>2. 2^(WI!WordBits + WI!WordBits) = 2^WI!WordBits * 2^WI!WordBits
        BY <4>1, PowersMultiply
      <4>3. QED
        BY <4>1, <4>2, WordsAre DEF W, WI!Word
    <3> DEFINE g == 4 * Half - (fa + 1)
               x == 2^(fa + 1)
               y == 2^g
    <3>2. g \in Nat /\ (fa + 1) + g = 4 * Half /\ g \in 0 .. 4 * Half + 1
      BY <1>4, <2>1
    <3> HIDE DEF g
    <3>3. 2^((fa + 1) + g) = x * y
      <4>1. (fa + 1) + g <= 4 * Half + 1
        BY <1>4, <3>2
      <4>2. QED
        BY <2>1, <3>2, <4>1, PowersMultiply
    <3>4. x \in Int /\ x > 0 /\ y \in Int /\ 1 <= y
      <4>1. x \in Nat \ {0} /\ y \in Nat \ {0}
        BY <1>3, <2>1, <3>2
      <4>2. QED
        BY <4>1
    <3>5. R = x * y
      BY <3>1, <3>2, <3>3
    <3> HIDE DEF x, y
    <3>6. 1 * x <= y * x /\ 1 * x = x /\ y * x = x * y /\ x * y \in Int
      BY <3>4, Scaling
    <3>7. QED
      BY <3>4, <3>5, <3>6 DEF x
  <2> DEFINE z == 2^(fa + 1)
  <2>5. z = p * t /\ z = u * q /\ z <= R /\ z \in Int /\ n < z /\ p <= d /\ d < u
    BY <1>2, <2>1, <2>2, <2>3, <2>4
  <2> HIDE DEF p, q, t, u, z
  <2>6. p * t <= d * t
    BY <1>1, <2>3, <2>5, Scaling
  <2>7. d * q < u * q
    BY <1>1, <2>3, <2>5, Scaling
  <2>8. 1 * d <= q * d /\ 1 * d = d /\ q * d = d * q
    BY <1>1, <2>3, Scaling
  <2>9. d * t \in Int /\ d * q \in Int
    BY <1>1, <2>3
  <2>10. n < d * t /\ d * q \in 1 .. R - 1
    BY <1>1, <2>3, <2>5, <2>6, <2>7, <2>8, <2>9
  <2>11. QED
    BY <2>10 DEF q, t
<1>8. WI!ShiftLeft(b, shift) \in Pairs /\ WI!Value(WI!ShiftLeft(b, shift)) = d * 2^shift
  <2> DEFINE v == WI!ShiftLeft(b, shift)
  <2>1. IsFor(v, d * 2^shift)
    <3>1. CASE shift = 0
      <4>1. v = b
        BY <3>1, ShiftsNothing
      <4>2. d * 2^shift = d
        <5>1. 2^shift = 1
          <6> HIDE DEF shift
          <6>1. QED
            BY <3>1, PowersOfTwo
        <5>2. d * 1 = d /\ d \in Int
          BY <1>1
        <5> HIDE DEF shift, d
        <5>3. QED
          BY <5>1, <5>2
      <4>3. Cong(d, d, R)
        BY <1>1, CongSelf
      <4>4. QED
        BY <4>1, <4>2, <4>3 DEF IsFor, d
    <3>2. CASE shift # 0
      <4>1. shift \in 1 .. 2 * WI!WordBits - 1
        BY <1>6, <3>2, WordsAre, HalfAssumption
      <4>2. b.hi \in Int /\ b.lo \in 0 .. W - 1
        BY PairsAre
      <4> HIDE DEF shift
      <4>3. QED
        BY <4>1, <4>2, ShiftsLeft DEF d
    <3>3. QED
      BY <3>1, <3>2
  <2> DEFINE m == d * 2^shift
  <2>2. m \in Int /\ m \in 0 .. R - 1
    BY <1>7
  <2> HIDE DEF v, m
  <2>3. WI!Value(v) = m
    BY <2>1, <2>2, ForIs DEF m
  <2>4. QED
    BY <2>1, <2>3 DEF v, m, IsFor
<1>9. PICK g : IsDivision(g, start, N) /\ WI!LongDivision(a, b) = g[N]
  <2> DEFINE f == CHOOSE h : IsDivision(h, start, N)
  <2>1. IsDivision(f, start, N)
    <3> HIDE DEF start, N
    <3>1. QED
      BY <1>6, DivisionExists
  <2>2. WI!LongDivision(a, b) = f[N]
    BY Zenon DEF WI!LongDivision, IsDivision, shift, fa, fb
  <2>3. QED
    BY <2>1, <2>2
<1> DEFINE T == {i \in 0 .. N : Divided(g[i], n, d, i, shift)}
<1>10. 0 \in T
  <2>1. 0 \in 0 .. N
    BY <1>6
  <2>2. g[0] = start
    BY <1>9, <2>1, Zenon DEF IsDivision
  <2> DEFINE zero == WI!MakeUint128(0, 0)
  <2>3. zero \in Pairs /\ WI!Value(zero) = 0
    <3>1. 0 \in 0 .. W - 1 /\ 0 \in Int /\ W > 0 /\ W \in Int
      BY WordsAre
    <3>2. 0 % W = 0
      BY <3>1, CongSelf, CongIsMod
    <3>3. zero \in Pairs /\ WI!Value(zero) = (0 % W) * W + 0
      BY <3>1, MakeIs
    <3>4. QED
      BY <3>1, <3>2, <3>3
  <2>4. start.quo = zero /\ start.rem = a /\ start.den = WI!ShiftLeft(b, shift)
    BY DEF WI!Start
  <2> HIDE DEF zero, start
  <2>5. shift + 1 - 0 = shift + 1 /\ shift - 0 = shift
    BY <1>6
  <2> DEFINE t == d * 2^(shift + 1)
  <2>6. 0 * t + n = n
    <3>1. 2^(shift + 1) \in Int
      BY <1>3, <1>4, <1>6
    <3>2. t \in Int
      BY <1>1, <3>1
    <3> HIDE DEF t
    <3>3. QED
      BY <1>1, <3>2
  <2>7. Divided(start, n, d, 0, shift)
    BY <1>1, <1>7, <1>8, <2>3, <2>4, <2>5, <2>6 DEF Divided, n
  <2>8. QED
    BY <2>1, <2>2, <2>7
<1>11. ASSUME NEW i \in 0 .. N, i # N, i \in T PROVE i + 1 \in T
  <2> DEFINE s == g[i]
             e == 2^(shift - i)
             D == d * e
  <2>1. /\ i \in 0 .. shift /\ i + 1 \in 0 .. N /\ shift + 1 - i = (shift - i) + 1 /\ shift + 1 - (i + 1) = shift - i
        /\ shift - i \in 0 .. 4 * Half /\ shift - i \in 0 .. 4 * Half + 1 /\ i + 1 # 0 /\ (i + 1) - 1 = i
    BY <1>4, <1>6, <1>11
  <2>2. g[i + 1] = WI!Step(s)
    <3>1. g[i + 1] = IF i + 1 = 0 THEN start ELSE WI!Step(g[(i + 1) - 1])
      <4> HIDE DEF start, N
      <4>1. QED
        BY <1>9, <2>1, Zenon DEF IsDivision
    <3>2. QED
      BY <2>1, <3>1
  <2>3. 2^((shift - i) + 1) = 2 * e /\ e \in Nat \ {0}
    BY <1>3, <2>1, PowersOfTwo
  <2>4. Divided(s, n, d, i, shift)
    BY <1>11
  <2> HIDE DEF e, s, shift
  <2>5. D \in Nat \ {0} /\ d * (2 * e) = 2 * D
    <3>1. e \in Int /\ 1 <= e /\ e > 0 /\ d * (2 * e) = 2 * D /\ D \in Int
      BY <1>1, <2>3, SMT
    <3>2. 0 * e < d * e /\ 0 * e = 0
      BY <1>1, <3>1, Scaling
    <3>3. QED
      BY <3>1, <3>2
  <2>6. /\ s.quo \in Pairs /\ s.rem \in Pairs /\ s.den \in Pairs
        /\ n = WI!Value(s.quo) * (2 * D) + WI!Value(s.rem) /\ WI!Value(s.rem) < 2 * D /\ D = WI!Value(s.den)
    <3>1. i <= shift
      BY <1>6, <2>1
    <3>2. QED
      BY <2>1, <2>3, <2>4, <2>5, <3>1 DEF Divided, e
  <2> DEFINE t == WI!Step(s)
  <2> HIDE DEF D
  <2>7. /\ t.quo \in Pairs /\ t.rem \in Pairs /\ t.den \in Pairs
        /\ n = WI!Value(t.quo) * D + WI!Value(t.rem) /\ WI!Value(t.rem) < D
        /\ WI!Value(t.den) = D \div 2
    <3>1. n \in 0 .. R - 1
      BY <1>1
    <3>2. s.quo \in Pairs /\ s.rem \in Pairs /\ s.den \in Pairs /\ D \in Nat \ {0}
          /\ D = WI!Value(s.den) /\ n = WI!Value(s.quo) * (2 * D) + WI!Value(s.rem) /\ WI!Value(s.rem) < 2 * D
      BY <2>5, <2>6
    <3> HIDE DEF n
    <3>3. PICK x : x = s
      OBVIOUS
    <3>4. PICK m : m = n
      OBVIOUS
    <3>5. PICK E : E = D
      OBVIOUS
    <3>6. /\ m \in 0 .. R - 1 /\ x.quo \in Pairs /\ x.rem \in Pairs /\ x.den \in Pairs /\ E \in Nat \ {0}
          /\ E = WI!Value(x.den) /\ m = WI!Value(x.quo) * (2 * E) + WI!Value(x.rem) /\ WI!Value(x.rem) < 2 * E
      BY <3>1, <3>2, <3>3, <3>4, <3>5
    <3>7. /\ WI!Step(x).quo \in Pairs /\ WI!Step(x).rem \in Pairs /\ WI!Step(x).den \in Pairs
          /\ m = WI!Value(WI!Step(x).quo) * E + WI!Value(WI!Step(x).rem) /\ WI!Value(WI!Step(x).rem) < E
          /\ WI!Value(WI!Step(x).den) = E \div 2
      BY <3>6, StepDivides
    <3>8. QED
      BY <3>3, <3>4, <3>5, <3>7
  <2> HIDE DEF t
  <2>8. i + 1 <= shift => D \div 2 = d * 2^(shift - (i + 1))
    <3>1. SUFFICES ASSUME i + 1 <= shift PROVE D \div 2 = d * 2^(shift - (i + 1))
      OBVIOUS
    <3> DEFINE j == shift - (i + 1)
               c == 2^j
    <3>2. j \in 0 .. 4 * Half /\ j + 1 = shift - i /\ j \in 0 .. 4 * Half + 1
      BY <1>4, <1>6, <2>1, <3>1
    <3> HIDE DEF j
    <3>3. 2^(j + 1) = 2 * c /\ c \in Int
      BY <1>3, <3>2, PowersOfTwo
    <3>4. e = 2 * c
      BY <3>2, <3>3 DEF e
    <3> HIDE DEF c
    <3>5. D = 2 * (d * c) /\ d * c \in Int
      BY <1>1, <3>3, <3>4 DEF D
    <3>6. D \div 2 = d * c
      BY <3>5
    <3>7. QED
      BY <3>6 DEF c, j
  <2>9. Divided(t, n, d, i + 1, shift)
    BY <2>1, <2>7, <2>8 DEF Divided, D, e
  <2>10. QED
    BY <2>1, <2>2, <2>9 DEF t
<1>12. N \in T
  <2>1. N \in 0 .. N
    BY <1>6
  <2> HIDE DEF T, N
  <2>2. 0 .. N \subseteq T
    BY <1>6, <1>10, <1>11, UpTo
  <2>3. QED
    BY <2>1, <2>2
<1>13. shift + 1 - N = 0 /\ d * 2^0 = d
  BY <1>1, <1>6, PowersOfTwo
<1>14. Divided(g[N], n, d, N, shift)
  BY <1>12
<1> HIDE DEF shift, N, T
<1>15. QED
  BY <1>9, <1>13, <1>14 DEF Divided, n, d

\* The quotient and the remainder are the ones of the integers.
LEMMA DivModImplIs ==
  ASSUME NEW a \in Pairs, NEW b \in Pairs, WI!Value(b) # 0
  PROVE  LET d == WI!DivModImpl(a, b)
         IN  /\ d.quo \in Pairs /\ d.rem \in Pairs
             /\ WI!Value(d.quo) = WI!Value(a) \div WI!Value(b) /\ WI!Value(d.rem) = WI!Value(a) % WI!Value(b)
<1> DEFINE m == WI!Value(a)
           n == WI!Value(b)
           d == WI!DivModImpl(a, b)
           zero == WI!MakeUint128(0, 0)
           one == WI!MakeUint128(0, 1)
<1>1. /\ m \in 0 .. R - 1 /\ n \in 0 .. R - 1 /\ m \in Int /\ n \in Int /\ n > 0 /\ R \in Int
      /\ a.hi \in Int /\ b.hi \in Int /\ a.lo \in 0 .. W - 1 /\ b.lo \in 0 .. W - 1
  BY PairsAre, WordsAre
<1>2. zero \in Pairs /\ WI!Value(zero) = 0 /\ one \in Pairs /\ WI!Value(one) = 1
  <2>1. 0 \in 0 .. W - 1 /\ 1 \in 0 .. W - 1 /\ W > 0 /\ W \in Int /\ 0 \in 0 .. R - 1 /\ 1 \in 0 .. R - 1 /\ R \in Int /\ R > 0
    BY WordsAre
  <2>2. 0 * W + 0 = 0 /\ 0 * W + 1 = 1
    BY <2>1
  <2>3. Cong(0, 0, R) /\ Cong(1, 1, R)
    BY <2>1, CongSelf
  <2>4. IsFor(zero, 0) /\ IsFor(one, 1)
    BY <2>1, <2>2, <2>3, MakesFor
  <2>5. QED
    BY <2>1, <2>4, ForIs DEF IsFor
<1>3. WI!Less(a, b) <=> m < n
  BY <1>1, LessIs
<1>4. \A q, r \in Pairs : m = WI!Value(q) * n + WI!Value(r) /\ WI!Value(r) < n => WI!Value(q) = m \div n /\ WI!Value(r) = m % n
  <2>1. SUFFICES ASSUME NEW q \in Pairs, NEW r \in Pairs, m = WI!Value(q) * n + WI!Value(r), WI!Value(r) < n
                 PROVE  WI!Value(q) = m \div n /\ WI!Value(r) = m % n
    OBVIOUS
  <2>2. WI!Value(q) \in Int /\ WI!Value(r) \in 0 .. n - 1
    BY <1>1, <2>1, PairsAre, WordsAre
  <2> HIDE DEF m, n
  <2>3. QED
    BY <1>1, <2>1, <2>2, DivModOnly
<1>5. CASE m < n
  <2>1. d = WI!Result(zero, a)
    <3>1. WI!Less(a, b)
      BY <1>3, <1>5
    <3>2. a # b
      BY <1>1, <1>5
    <3>3. QED
      BY <3>1, <3>2 DEF WI!DivModImpl
  <2>2. d.quo = zero /\ d.rem = a
    BY <2>1 DEF WI!Result
  <2>3. m = WI!Value(zero) * n + m
    <3> HIDE DEF m, n, zero
    <3>1. QED
      BY <1>1, <1>2
  <2>4. QED
    BY <1>2, <1>4, <1>5, <2>2, <2>3
<1>6. CASE ~(m < n) /\ a = b
  <2>1. d = WI!Result(one, zero)
    BY <1>3, <1>6 DEF WI!DivModImpl
  <2>2. d.quo = one /\ d.rem = zero
    BY <2>1 DEF WI!Result
  <2>3. m = WI!Value(one) * n + WI!Value(zero) /\ WI!Value(zero) < n
    <3>1. m = n
      BY <1>6
    <3> HIDE DEF m, n, zero, one
    <3>2. QED
      BY <1>1, <1>2, <3>1
  <2>4. QED
    BY <1>2, <1>4, <2>2, <2>3
<1>7. CASE ~(m < n) /\ a # b
  <2> DEFINE e == WI!LongDivision(a, b)
  <2>1. d = WI!Result(e.quo, e.rem)
    BY <1>3, <1>7 DEF WI!DivModImpl
  <2>2. d.quo = e.quo /\ d.rem = e.rem
    BY <2>1 DEF WI!Result
  <2>3. n > 0 /\ n <= m
    BY <1>1, <1>7
  <2>4. e.quo \in Pairs /\ e.rem \in Pairs /\ m = WI!Value(e.quo) * n + WI!Value(e.rem) /\ WI!Value(e.rem) < n
    BY <2>3, LongDivisionIs
  <2>5. QED
    BY <1>4, <2>2, <2>4
<1>8. QED
  BY <1>5, <1>6, <1>7

\* Without a sign, on every two pairs.
LEMMA UnsignedAlwaysExact == ASSUME NEW a \in Pairs, NEW b \in Pairs PROVE WI!UnsignedExact(a, b)
<1> DEFINE m == WI!Value(a)
           n == WI!Value(b)
<1>1. /\ m \in 0 .. R - 1 /\ n \in 0 .. R - 1 /\ m \in Int /\ n \in Int
      /\ a.hi \in Int /\ b.hi \in Int /\ a.lo \in 0 .. W - 1 /\ b.lo \in 0 .. W - 1
  BY PairsAre, WordsAre
<1>2. WI!Less(a, b) <=> m < n
  BY <1>1, LessIs
<1>3. IsFor(WI!Plus(a, b), m + n) /\ IsFor(WI!Minus(a, b), m - n) /\ IsFor(WI!Times(a, b), m * n) /\ IsFor(WI!Negated(a), -m)
  BY <1>1, PlusIs, MinusIs, TimesIs, NegatedIs
<1>4. n # 0 => LET d == WI!DivModImpl(a, b) IN WI!Value(d.quo) = m \div n /\ WI!Value(d.rem) = m % n
  BY DivModImplIs
<1> HIDE DEF m, n
<1>5. m + n \in Int /\ m - n \in Int /\ m * n \in Int /\ -m \in Int
  BY <1>1
<1>6. /\ WI!Value(WI!Plus(a, b)) = (m + n) % R /\ WI!Value(WI!Minus(a, b)) = (m - n) % R
      /\ WI!Value(WI!Times(a, b)) = (m * n) % R /\ WI!Value(WI!Negated(a)) = (-m) % R
  BY <1>3, <1>5, ForIs
<1>7. QED
  BY <1>2, <1>4, <1>6, Zenon DEF WI!UnsignedExact, m, n, R

\* Taken for signed or for unsigned, a number stays the same.
LEMMA UnsignedFor ==
  ASSUME NEW v, v.hi \in Int, v.lo \in 0 .. W - 1
  PROVE  IsFor(WI!Unsigned(v), WI!Value(v))
<1>1. WI!Value(v) = v.hi * W + v.lo /\ v.lo \in Int /\ W \in Int /\ R \in Int
  BY ValueIs, WordsAre
<1>2. WI!Value(v) \in Int
  BY <1>1
<1>3. Cong(v.hi * W + v.lo, WI!Value(v), R)
  BY <1>1, <1>2, CongSelf
<1>4. QED
  BY <1>2, <1>3, MakesFor DEF WI!Unsigned
LEMMA SignedFor ==
  ASSUME NEW u, NEW m \in Int, IsFor(u, m)
  PROVE  IsSignedFor(WI!Signed(u), m)
<1>1. u \in Pairs /\ Cong(WI!Value(u), m, R)
  BY DEF IsFor
<1>2. u.hi \in Int /\ u.lo \in 0 .. W - 1 /\ WI!Value(u) = u.hi * W + u.lo
  BY <1>1, PairsAre, WordsAre
<1>3. Cong(u.hi * W + u.lo, m, R)
  BY <1>1, <1>2
<1>4. QED
  BY <1>2, <1>3, MakesFor DEF WI!Signed

LEMMA AbsoluteIs ==
  ASSUME NEW v \in SignedPairs
  PROVE  LET u == WI!UnsignedAbsoluteValue(v)
         IN  /\ u \in Pairs /\ WI!Value(u) = WI!Magnitude(WI!Value(v))
             /\ v.hi < 0 <=> WI!Value(v) < 0
<1> DEFINE m == WI!Value(v)
<1>1. /\ v.hi \in Int /\ v.lo \in 0 .. W - 1 /\ v.lo \in Int /\ m = v.hi * W + v.lo /\ m \in WI!Least .. WI!Greatest
      /\ W \in Int /\ W > 0 /\ R \in Int /\ R > 0
  BY SignedPairsAre, WordsAre
<1>2. R \div 2 < R /\ R \div 2 \in Nat
  BY <1>1
<1>3. m \in Int /\ m >= -(R \div 2) /\ m <= R \div 2 - 1
  BY <1>1, <1>2 DEF WI!Least, WI!Greatest, R
<1>4. v.hi < 0 <=> m < 0
  <2>1. v.hi + 1 <= 0 <=> (v.hi + 1) * W <= 0 * W
    BY <1>1, Scaling
  <2>2. 0 <= v.hi <=> 0 * W <= v.hi * W
    BY <1>1, Scaling
  <2>3. (v.hi + 1) * W = v.hi * W + W /\ 0 * W = 0
    BY <1>1, Scaling
  <2>4. v.hi * W \in Int
    BY <1>1
  <2>5. QED
    BY <1>1, <2>1, <2>2, <2>3, <2>4
<1>5. IsFor(WI!Unsigned(v), m)
  BY <1>1, UnsignedFor
<1>6. IsFor(WI!Negated(WI!Unsigned(v)), -m)
  <2> DEFINE u == WI!Unsigned(v)
  <2>1. u \in Pairs /\ Cong(WI!Value(u), m, R)
    BY <1>5 DEF IsFor
  <2>2. u.hi \in Int /\ u.lo \in 0 .. W - 1 /\ WI!Value(u) \in Int
    BY <2>1, PairsAre, WordsAre
  <2> HIDE DEF u, m
  <2>3. IsFor(WI!Negated(u), -WI!Value(u))
    BY <2>2, NegatedIs
  <2>4. Cong(0 - WI!Value(u), 0 - m, R)
    <3>1. Cong(0, 0, R)
      BY <1>1, CongSelf
    <3>2. QED
      BY <1>1, <1>3, <2>1, <2>2, <3>1, CongFacts
  <2>5. Cong(-WI!Value(u), -m, R)
    <3>1. 0 - WI!Value(u) = -WI!Value(u) /\ 0 - m = -m
      BY <1>3, <2>2
    <3>2. QED
      BY <2>4, <3>1
  <2>6. -WI!Value(u) \in Int /\ -m \in Int /\ WI!Negated(u) \in Pairs /\ Cong(WI!Value(WI!Negated(u)), -WI!Value(u), R)
    BY <1>3, <2>2, <2>3 DEF IsFor
  <2>7. WI!Value(WI!Negated(u)) \in Int
    BY <2>6, PairsAre, WordsAre
  <2>8. Cong(WI!Value(WI!Negated(u)), -m, R)
    BY <1>1, <2>5, <2>6, <2>7, CongThrough
  <2>9. QED
    BY <2>6, <2>8 DEF IsFor, u
<1>7. CASE m < 0
  <2>1. WI!UnsignedAbsoluteValue(v) = WI!Negated(WI!Unsigned(v)) /\ WI!Magnitude(m) = -m
    BY <1>4, <1>7 DEF WI!UnsignedAbsoluteValue, WI!Magnitude
  <2>2. -m \in Int /\ -m \in 0 .. R - 1
    BY <1>1, <1>2, <1>3, <1>7
  <2> HIDE DEF m
  <2>3. QED
    BY <1>4, <1>6, <2>1, <2>2, ForIs DEF IsFor, m
<1>8. CASE ~(m < 0)
  <2>1. WI!UnsignedAbsoluteValue(v) = WI!Unsigned(v) /\ WI!Magnitude(m) = m
    BY <1>4, <1>8 DEF WI!UnsignedAbsoluteValue, WI!Magnitude
  <2>2. m \in 0 .. R - 1
    BY <1>1, <1>2, <1>3, <1>8
  <2> HIDE DEF m
  <2>3. QED
    BY <1>3, <1>4, <1>5, <2>1, <2>2, ForIs DEF IsFor, m
<1>9. QED
  BY <1>7, <1>8

LEMMA QuotientIs ==
  ASSUME NEW m \in Int, NEW n \in Int, n # 0
  PROVE  LET x == WI!Magnitude(m)
             y == WI!Magnitude(n)
             q == x \div y
             r == x % y
         IN  /\ q \in Int /\ r \in 0 .. y - 1 /\ x \in Nat /\ y \in Nat \ {0} /\ y \in {n, -n}
             /\ WI!Quotient(m, n) = IF (m < 0) # (n < 0) THEN -q ELSE q
             /\ m - n * WI!Quotient(m, n) = IF m < 0 THEN -r ELSE r
<1> DEFINE x == WI!Magnitude(m)
           y == WI!Magnitude(n)
           q == x \div y
           r == x % y
           z == WI!Quotient(m, n)
<1>1. x \in Nat /\ y \in Nat \ {0} /\ x \in Int /\ y \in Int /\ y > 0
  BY DEF WI!Magnitude
<1>2. (m < 0 => m = -x) /\ (~(m < 0) => m = x) /\ (n < 0 => n = -y) /\ (~(n < 0) => n = y) /\ y \in {n, -n}
  BY DEF WI!Magnitude
<1>3. z = IF (m < 0) # (n < 0) THEN -q ELSE q
  BY DEF WI!Quotient
<1> HIDE DEF x, y
<1>4. q \in Int /\ r \in 0 .. y - 1 /\ r \in Int /\ x = q * y + r
  BY <1>1, DivModIs
<1> HIDE DEF q, r, z
<1>5. q * y \in Int /\ y * q = q * y /\ (-y) * (-q) = q * y /\ y * (-q) = -(q * y) /\ (-y) * q = -(q * y)
  BY <1>1, <1>4
<1>6. m - n * z = IF m < 0 THEN -r ELSE r
  <2>1. CASE m < 0 /\ n < 0
    <3>1. z = q
      BY <1>3, <2>1
    <3>2. n * z = -(q * y)
      BY <1>2, <1>5, <2>1, <3>1
    <3>3. QED
      BY <1>1, <1>2, <1>4, <1>5, <2>1, <3>2
  <2>2. CASE m < 0 /\ ~(n < 0)
    <3>1. z = -q
      BY <1>3, <2>2
    <3>2. n * z = -(q * y)
      BY <1>2, <1>5, <2>2, <3>1
    <3>3. QED
      BY <1>1, <1>2, <1>4, <1>5, <2>2, <3>2
  <2>3. CASE ~(m < 0) /\ n < 0
    <3>1. z = -q
      BY <1>3, <2>3
    <3>2. n * z = q * y
      BY <1>2, <1>5, <2>3, <3>1
    <3>3. QED
      BY <1>1, <1>2, <1>4, <1>5, <2>3, <3>2
  <2>4. CASE ~(m < 0) /\ ~(n < 0)
    <3>1. z = q
      BY <1>3, <2>4
    <3>2. n * z = q * y
      BY <1>2, <1>5, <2>4, <3>1
    <3>3. QED
      BY <1>1, <1>2, <1>4, <1>5, <2>4, <3>2
  <2>5. QED
    BY <2>1, <2>2, <2>3, <2>4
<1>7. QED
  BY <1>1, <1>2, <1>3, <1>4, <1>6 DEF x, y, q, r, z

\* A pair with its sign turned round, or not, and then taken for signed.
LEMMA SignsFor ==
  ASSUME NEW u \in Pairs, NEW negative \in BOOLEAN
  PROVE  IsSignedFor(WI!Signed(IF negative THEN WI!Negated(u) ELSE u), IF negative THEN -WI!Value(u) ELSE WI!Value(u))
<1>1. u.hi \in Int /\ u.lo \in 0 .. W - 1 /\ WI!Value(u) \in Int /\ -WI!Value(u) \in Int /\ R \in Int
  BY PairsAre, WordsAre
<1>2. CASE negative
  <2>1. IsFor(WI!Negated(u), -WI!Value(u))
    BY <1>1, NegatedIs
  <2>2. IsSignedFor(WI!Signed(WI!Negated(u)), -WI!Value(u))
    BY <1>1, <2>1, SignedFor
  <2>3. QED
    BY <1>2, <2>2
<1>3. CASE ~negative
  <2>1. IsFor(u, WI!Value(u))
    BY <1>1, CongSelf DEF IsFor
  <2>2. IsSignedFor(WI!Signed(u), WI!Value(u))
    BY <1>1, <2>1, SignedFor
  <2>3. QED
    BY <1>3, <2>2
<1>4. QED
  BY <1>2, <1>3

LEMMA SignedDivisionIs ==
  ASSUME NEW a \in SignedPairs, NEW b \in SignedPairs, WI!Value(b) # 0
  PROVE  LET m == WI!Value(a)
             n == WI!Value(b)
         IN  /\ IsSignedFor(WI!SignedDivided(a, b), WI!Quotient(m, n))
             /\ WI!Value(WI!SignedRemainder(a, b)) = m - n * WI!Quotient(m, n)
<1> DEFINE m == WI!Value(a)
           n == WI!Value(b)
           u == WI!UnsignedAbsoluteValue(a)
           v == WI!UnsignedAbsoluteValue(b)
           d == WI!DivModImpl(u, v)
           x == WI!Magnitude(m)
           y == WI!Magnitude(n)
           q == x \div y
           r == x % y
<1>1. /\ m \in WI!Least .. WI!Greatest /\ n \in WI!Least .. WI!Greatest /\ R \in Int /\ R > 0
      /\ WI!Least = -(R \div 2) /\ WI!Greatest = R \div 2 - 1 /\ R \div 2 \in Int
  BY SignedPairsAre, WordsAre DEF WI!Least, WI!Greatest, R
<1>2. m \in Int /\ n \in Int /\ n # 0
  BY <1>1
<1>3. /\ u \in Pairs /\ v \in Pairs /\ WI!Value(u) = x /\ WI!Value(v) = y
      /\ (a.hi < 0 <=> m < 0) /\ (b.hi < 0 <=> n < 0)
  BY AbsoluteIs
<1>4. /\ q \in Int /\ r \in 0 .. y - 1 /\ y \in Nat \ {0} /\ y \in {n, -n}
      /\ WI!Quotient(m, n) = (IF (m < 0) # (n < 0) THEN -q ELSE q)
      /\ m - n * WI!Quotient(m, n) = IF m < 0 THEN -r ELSE r
  <2> HIDE DEF m, n
  <2>1. QED
    BY <1>2, QuotientIs
<1>5. d.quo \in Pairs /\ d.rem \in Pairs /\ WI!Value(d.quo) = q /\ WI!Value(d.rem) = r
  <2>1. WI!Value(v) # 0
    BY <1>3, <1>4
  <2>2. d.quo \in Pairs /\ d.rem \in Pairs /\ WI!Value(d.quo) = WI!Value(u) \div WI!Value(v) /\ WI!Value(d.rem) = WI!Value(u) % WI!Value(v)
    <3> HIDE DEF u, v
    <3>1. QED
      BY <1>3, <2>1, DivModImplIs
  <2>3. QED
    BY <1>3, <2>2
<1>6. /\ WI!SignedDivided(a, b) = WI!Signed(IF (a.hi < 0) # (b.hi < 0) THEN WI!Negated(d.quo) ELSE d.quo)
      /\ WI!SignedRemainder(a, b) = WI!Signed(IF a.hi < 0 THEN WI!Negated(d.rem) ELSE d.rem)
  BY DEF WI!SignedDivided, WI!SignedRemainder
<1> HIDE DEF m, n, u, v, d
<1>7. IsSignedFor(WI!SignedDivided(a, b), WI!Quotient(m, n))
  <2> DEFINE s == (a.hi < 0) # (b.hi < 0)
  <2>1. s \in BOOLEAN /\ (s <=> (m < 0) # (n < 0))
    BY <1>3
  <2> HIDE DEF s
  <2>2. IsSignedFor(WI!Signed(IF s THEN WI!Negated(d.quo) ELSE d.quo), IF s THEN -WI!Value(d.quo) ELSE WI!Value(d.quo))
    BY <1>5, <2>1, SignsFor
  <2>3. WI!Quotient(m, n) = IF s THEN -WI!Value(d.quo) ELSE WI!Value(d.quo)
    <3> HIDE DEF q
    <3>1. QED
      BY <1>4, <1>5, <2>1
  <2>4. QED
    BY <1>6, <2>2, <2>3 DEF s
<1>8. WI!Value(WI!SignedRemainder(a, b)) = m - n * WI!Quotient(m, n)
  <2> DEFINE s == a.hi < 0
             k == IF s THEN -WI!Value(d.rem) ELSE WI!Value(d.rem)
  <2>1. s \in BOOLEAN /\ (s <=> m < 0)
    BY <1>3
  <2> HIDE DEF s
  <2>2. IsSignedFor(WI!Signed(IF s THEN WI!Negated(d.rem) ELSE d.rem), k)
    BY <1>5, <2>1, SignsFor
  <2>3. m - n * WI!Quotient(m, n) = k
    <3> HIDE DEF r
    <3>1. QED
      BY <1>4, <1>5, <2>1
  <2>4. k \in WI!Least .. WI!Greatest /\ k \in Int
    <3>1. y <= R \div 2
      <4> HIDE DEF y
      <4>1. QED
        BY <1>1, <1>2, <1>4
    <3> HIDE DEF r, y
    <3>2. WI!Value(d.rem) = r /\ r >= 0 /\ r < R \div 2 /\ r \in Int
      BY <1>1, <1>4, <1>5, <3>1
    <3>3. QED
      BY <1>1, <3>2
  <2>5. WI!SignedRemainder(a, b) = WI!Signed(IF s THEN WI!Negated(d.rem) ELSE d.rem)
    BY <1>6 DEF s
  <2> HIDE DEF k
  <2>6. WI!Value(WI!SignedRemainder(a, b)) = k
    BY <2>2, <2>4, <2>5, ForIs
  <2>7. QED
    BY <2>3, <2>6
<1>9. QED
  BY <1>7, <1>8 DEF m, n

\* With a sign, on every two pairs: exact where the result fits.
LEMMA SignedAlwaysExact == ASSUME NEW a \in SignedPairs, NEW b \in SignedPairs PROVE WI!SignedExact(a, b)
<1> DEFINE m == WI!Value(a)
           n == WI!Value(b)
           Fits(k) == k \in WI!Least .. WI!Greatest
<1>1. /\ a.hi \in Int /\ b.hi \in Int /\ a.lo \in 0 .. W - 1 /\ b.lo \in 0 .. W - 1
      /\ m \in WI!Least .. WI!Greatest /\ n \in WI!Least .. WI!Greatest /\ R \in Int /\ R > 0
      /\ WI!Least = -(R \div 2) /\ WI!Greatest = R \div 2 - 1 /\ R \div 2 \in Int
  BY SignedPairsAre, WordsAre DEF WI!Least, WI!Greatest, R
<1>2. m \in Int /\ n \in Int
  BY <1>1
<1>3. WI!SignedLess(a, b) <=> m < n
  BY <1>1, LessIs DEF WI!SignedLess
<1>4. IsSignedFor(WI!SignedPlus(a, b), m + n) /\ IsSignedFor(WI!SignedMinus(a, b), m - n) /\ IsSignedFor(WI!SignedNegated(a), -m)
  BY <1>1, PlusIs, MinusIs, NegatedIs
<1>5. IsSignedFor(WI!SignedTimes(a, b), m * n)
  <2> DEFINE u == WI!Unsigned(a)
             v == WI!Unsigned(b)
             t == WI!Times(u, v)
  <2>1. IsFor(u, m) /\ IsFor(v, n)
    BY <1>1, UnsignedFor
  <2>2. u \in Pairs /\ v \in Pairs /\ Cong(WI!Value(u), m, R) /\ Cong(WI!Value(v), n, R)
    BY <2>1 DEF IsFor
  <2> HIDE DEF u, v, m, n
  <2>3. IsFor(t, WI!Value(u) * WI!Value(v)) /\ WI!Value(u) \in Int /\ WI!Value(v) \in Int
    BY <1>1, <2>2, TimesIs, PairsAre
  <2>4. Cong(WI!Value(u) * WI!Value(v), m * n, R)
    BY <1>1, <1>2, <2>2, <2>3, CongFacts
  <2>5. WI!Value(u) * WI!Value(v) \in Int /\ m * n \in Int
    BY <1>2, <2>3
  <2>6. IsFor(t, m * n)
    <3>1. t \in Pairs /\ Cong(WI!Value(t), WI!Value(u) * WI!Value(v), R)
      BY <2>3 DEF IsFor
    <3>2. WI!Value(t) \in Int
      BY <1>1, <3>1, PairsAre
    <3> HIDE DEF t
    <3>3. Cong(WI!Value(t), m * n, R)
      BY <1>1, <2>4, <2>5, <3>1, <3>2, CongThrough
    <3>4. QED
      BY <3>1, <3>3 DEF IsFor
  <2>7. IsSignedFor(WI!Signed(t), m * n)
    BY <2>5, <2>6, SignedFor
  <2>8. QED
    BY <2>7 DEF WI!SignedTimes, t, u, v
<1>6. n # 0 => /\ IsSignedFor(WI!SignedDivided(a, b), WI!Quotient(m, n))
               /\ WI!Value(WI!SignedRemainder(a, b)) = m - n * WI!Quotient(m, n)
  BY SignedDivisionIs
<1> HIDE DEF m, n
<1>7. m + n \in Int /\ m - n \in Int /\ m * n \in Int /\ -m \in Int /\ \A k : Fits(k) => k \in Int
  BY <1>1, <1>2
<1>8. \A v, k : IsSignedFor(v, k) /\ Fits(k) => WI!Value(v) = k
  BY <1>7, ForIs
<1>9. QED
  BY <1>3, <1>4, <1>5, <1>6, <1>8, Zenon DEF WI!SignedExact, m, n

LEMMA MakesPairs ==
  ASSUME NEW m \in Int
  PROVE  WI!Make(m) \in Pairs /\ WI!Signed(WI!Make(m)) \in SignedPairs
<1>1. m \div W \in Int /\ WI!Make(m) = WI!MakeUint128(m \div W, m)
  BY WordsAre, DivModIs DEF WI!Make, W
<1>2. WI!Make(m) \in Pairs
  BY <1>1, MakeIs
<1>3. WI!Make(m).hi \in Int /\ WI!Make(m).lo \in Int
  BY <1>2, PairsAre, WordsAre
<1>4. QED
  BY <1>2, <1>3, MakeSignedIs DEF WI!Signed

\* int128.hpp, int128.cc: whatever the width of a word, two words are added,
\* subtracted, multiplied, divided and compared as the integers are, up to what
\* two words can hold.
THEOREM WideNumbersAreExact == \A m, n \in Int : WI!Exact(m, n)
<1>1. SUFFICES ASSUME NEW m \in Int, NEW n \in Int PROVE WI!Exact(m, n)
  OBVIOUS
<1>2. WI!UnsignedExact(WI!Make(m), WI!Make(n))
  BY MakesPairs, UnsignedAlwaysExact
<1>3. WI!SignedExact(WI!Signed(WI!Make(m)), WI!Signed(WI!Make(n)))
  BY MakesPairs, SignedAlwaysExact
<1>4. QED
  BY <1>2, <1>3 DEF WI!Exact

\* int128.hpp: and shifted by fewer bits than they have, in one direction
\* multiplied by a power of two, in the other divided, a signed number too.
THEOREM WideShiftsAreExact == \A m \in Int : WI!ShiftsExact(m)
<1>1. SUFFICES ASSUME NEW m \in Int, NEW k \in 0 .. 2 * WI!WordBits - 1
               PROVE  LET v == WI!Make(m)
                          s == WI!Signed(v)
                      IN  /\ WI!Value(WI!ShiftLeft(v, k)) = (WI!Value(v) * 2^k) % R
                          /\ WI!Value(WI!ShiftRight(v, k)) = WI!Value(v) \div 2^k
                          /\ WI!Unsigned(WI!SignedShiftLeft(s, k)) = WI!ShiftLeft(v, k)
                          /\ WI!Value(WI!SignedShiftRight(s, k)) = WI!Value(s) \div 2^k
  BY Zenon DEF WI!ShiftsExact, R
<1> DEFINE v == WI!Make(m)
           s == WI!Signed(v)
<1>2. v \in Pairs /\ s \in SignedPairs
  BY MakesPairs
<1> HIDE DEF v
<1>3. /\ v.hi \in Int /\ v.lo \in 0 .. W - 1 /\ s.hi \in Int /\ s.lo \in 0 .. W - 1
      /\ WI!Value(v) \in 0 .. R - 1 /\ WI!Value(s) \in WI!Least .. WI!Greatest /\ R \in Int /\ R > 0
      /\ WI!Least = -(R \div 2) /\ WI!Greatest = R \div 2 - 1 /\ R \div 2 \in Int
  BY <1>2, PairsAre, SignedPairsAre, WordsAre DEF WI!Least, WI!Greatest, R
<1>4. WI!Value(v) \in Int /\ WI!Value(s) \in Int
  BY <1>3
<1>5. Cong(WI!Value(s), WI!Value(v), R)
  <2>1. IsFor(v, WI!Value(v))
    BY <1>2, <1>3, <1>4, CongSelf DEF IsFor
  <2>2. IsSignedFor(s, WI!Value(v))
    BY <1>4, <2>1, SignedFor
  <2>3. QED
    BY <2>2 DEF IsSignedFor
<1>6. 2^k \in Int /\ 2^k > 0 /\ 1 <= 2^k
  <2>1. k \in 0 .. 4 * Half + 1
    BY WordsAre, HalfAssumption
  <2>2. 2^k \in Nat \ {0}
    BY <2>1, PowersArePositive
  <2>3. QED
    BY <2>2
<1>7. CASE k = 0
  <2>1. 2^k = 1
    BY <1>7, PowersOfTwo
  <2>2. WI!ShiftLeft(v, k) = v /\ WI!ShiftRight(v, k) = v
    BY <1>7, ShiftsNothing
  <2>3. WI!SignedShiftLeft(s, k) = s /\ WI!SignedShiftRight(s, k) = s
    <3>1. ~(k >= WI!WordBits)
      BY <1>7, WordsAre, HalfAssumption
    <3>2. QED
      BY <1>7, <3>1 DEF WI!SignedShiftLeft, WI!SignedShiftRight
  <2>4. WI!Unsigned(s) = v
    <3>1. IsFor(WI!Unsigned(s), WI!Value(s))
      BY <1>3, UnsignedFor
    <3>2. WI!Unsigned(s) \in Pairs /\ Cong(WI!Value(WI!Unsigned(s)), WI!Value(s), R)
      BY <3>1 DEF IsFor
    <3>3. WI!Value(WI!Unsigned(s)) \in Int
      BY <1>3, <3>2, PairsAre
    <3>4. Cong(WI!Value(WI!Unsigned(s)), WI!Value(v), R)
      BY <1>3, <1>4, <1>5, <3>2, <3>3, CongThrough
    <3> HIDE DEF s
    <3>5. QED
      BY <1>2, <3>2, <3>4, ForTheSame
  <2>5. \A n \in Int : n \div 1 = n
    OBVIOUS
  <2>6. (WI!Value(v) * 1) % R = WI!Value(v)
    <3>1. WI!Value(v) * 1 = WI!Value(v) /\ Cong(WI!Value(v), WI!Value(v), R)
      BY <1>4, <1>3, CongSelf
    <3>2. QED
      BY <1>3, <1>4, <3>1, CongIsMod
  <2> HIDE DEF s
  <2>7. WI!Value(v) \div 2^k = WI!Value(v) /\ WI!Value(s) \div 2^k = WI!Value(s)
    BY <1>4, <2>1, <2>5
  <2>8. QED
    BY <2>1, <2>2, <2>3, <2>4, <2>6, <2>7 DEF v, s
<1>8. CASE k # 0
  <2>1. k \in 1 .. 2 * WI!WordBits - 1
    BY <1>8, WordsAre, HalfAssumption
  <2> DEFINE p == 2^k
             x == WI!SignedShiftLeft(s, k)
             y == WI!ShiftLeft(v, k)
  <2> HIDE DEF s
  <2>2. IsFor(y, WI!Value(v) * p) /\ IsSignedFor(x, WI!Value(s) * p)
    BY <1>3, <2>1, ShiftsLeft
  <2>3. p \in Int /\ WI!Value(v) * p \in Int /\ WI!Value(s) * p \in Int
    BY <1>4, <1>6
  <2> HIDE DEF p, x, y
  <2>4. WI!Value(y) = (WI!Value(v) * p) % R
    BY <2>2, <2>3, ForIs
  <2>5. WI!Value(WI!ShiftRight(v, k)) = WI!Value(v) \div p
    BY <1>2, <2>1, ShiftsRight DEF p
  <2>6. WI!Unsigned(x) = y
    <3>1. x \in SignedPairs /\ y \in Pairs /\ Cong(WI!Value(x), WI!Value(s) * p, R) /\ Cong(WI!Value(y), WI!Value(v) * p, R)
      BY <2>2 DEF IsFor, IsSignedFor
    <3>2. x.hi \in Int /\ x.lo \in 0 .. W - 1 /\ WI!Value(x) \in Int /\ WI!Value(y) \in Int
      <4>1. WI!Value(x) \in WI!Least .. WI!Greatest /\ WI!Value(y) \in 0 .. R - 1 /\ x.hi \in Int /\ x.lo \in 0 .. W - 1
        BY <3>1, SignedPairsAre, PairsAre
      <4>2. QED
        BY <1>3, <4>1
    <3>3. Cong(WI!Value(s) * p, WI!Value(v) * p, R)
      <4>1. Cong(p, p, R)
        BY <1>3, <2>3, CongSelf
      <4>2. QED
        BY <1>3, <1>4, <1>5, <2>3, <4>1, CongFacts
    <3>4. Cong(WI!Value(v) * p, WI!Value(y), R)
      <4>1. QED
        BY <1>3, <2>3, <3>1, <3>2, CongFacts
    <3> DEFINE u == WI!Unsigned(x)
    <3>5. IsFor(u, WI!Value(x))
      BY <3>2, UnsignedFor
    <3>6. u \in Pairs /\ Cong(WI!Value(u), WI!Value(x), R)
      BY <3>5 DEF IsFor
    <3>7. WI!Value(u) \in Int
      BY <1>3, <3>6, PairsAre
    <3> HIDE DEF u
    <3>8. Cong(WI!Value(u), WI!Value(s) * p, R)
      BY <1>3, <2>3, <3>1, <3>2, <3>6, <3>7, CongThrough
    <3>9. Cong(WI!Value(u), WI!Value(v) * p, R)
      BY <1>3, <2>3, <3>3, <3>7, <3>8, CongThrough
    <3>10. Cong(WI!Value(u), WI!Value(y), R)
      BY <1>3, <2>3, <3>2, <3>4, <3>7, <3>9, CongThrough
    <3>11. QED
      BY <3>1, <3>6, <3>10, ForTheSame DEF u
  <2>7. WI!Value(WI!SignedShiftRight(s, k)) = WI!Value(s) \div p
    <3> DEFINE m1 == WI!Value(s) \div p
    <3>1. IsSignedFor(WI!SignedShiftRight(s, k), m1)
      BY <1>2, <2>1, SignedShiftsRight DEF p, s
    <3>2. m1 \in WI!Least .. WI!Greatest /\ m1 \in Int
      <4>1. p > 0 /\ 1 <= p
        BY <1>6 DEF p
      <4>2. QED
        BY <1>3, <1>4, <2>3, <4>1, QuotientIn
    <3> HIDE DEF m1
    <3>3. WI!Value(WI!SignedShiftRight(s, k)) = m1
      BY <3>1, <3>2, ForIs
    <3>4. QED
      BY <3>3 DEF m1
  <2>8. QED
    BY <2>4, <2>5, <2>6, <2>7 DEF v, s, p, x, y
<1>9. QED
  BY <1>7, <1>8

-----------------------------------------------------------------------------
(* Durations: seconds, and ticks of a second.                              *)

Finite == [hi : DU!HiMin .. HiMax, lo : 0 .. DU!Ticks - 1]

\* The constants of Durations.
LEMMA TicksAre ==
  /\ HiMax \in Nat \ {0} /\ HiMax \in Int /\ DU!HiMin \in Int /\ DU!HiMin = -HiMax - 1
  /\ Unit \in Nat \ {0} /\ Unit \in Int /\ PerSecond \in Nat \ {0, 1} /\ PerSecond \in Int
  /\ SecondsPerMinute \in Nat \ {0} /\ SecondsPerMinute \in Int
  /\ DU!Ticks \in Nat \ {0} /\ DU!Ticks \in Int /\ DU!Ticks = PerSecond * Unit /\ DU!Ticks > Unit
  /\ LoWord \in Int /\ LoWord > DU!Ticks /\ DU!NoLo \in Int /\ DU!NoLo >= DU!Ticks /\ DU!NoLo = LoWord - 1
<1>1. PerSecond * Unit >= 2 * Unit /\ PerSecond * Unit \in Int
  <2>1. PerSecond \in Int /\ Unit \in Int /\ PerSecond > 1 /\ Unit > 0 /\ 2 \in Int /\ 2 <= PerSecond
    BY DurationAssumption
  <2>2. QED
    BY <2>1, ProductIs, Scaling
<1>2. QED
  BY <1>1, DurationAssumption DEF DU!HiMin, DU!Ticks, DU!NoLo

LEMMA DurIs == ASSUME NEW h, NEW l PROVE DU!Dur(h, l).hi = h /\ DU!Dur(h, l).lo = l /\ DU!Dur(h, l) = [hi |-> h, lo |-> l]
  BY DEF DU!Dur

\* The infinities are apart from each other and from the rest.
LEMMA InfinitiesAre ==
  /\ DU!Infinite.hi = HiMax /\ DU!Infinite.lo = DU!NoLo /\ DU!IsInfinite(DU!Infinite)
  /\ DU!MinusInfinite.hi = DU!HiMin /\ DU!MinusInfinite.lo = DU!NoLo /\ DU!IsInfinite(DU!MinusInfinite)
  /\ DU!Infinite # DU!MinusInfinite
  /\ DU!Infinite \in DU!Durations /\ DU!MinusInfinite \in DU!Durations
<1>1. HiMax # DU!HiMin
  BY TicksAre
<1>2. QED
  BY <1>1 DEF DU!Infinite, DU!MinusInfinite, DU!Dur, DU!IsInfinite, DU!Durations

LEMMA FiniteIs ==
  ASSUME NEW d \in Finite
  PROVE  /\ d.hi \in Int /\ DU!HiMin <= d.hi /\ d.hi <= HiMax /\ d.lo \in Int /\ d.lo \in 0 .. DU!Ticks - 1
         /\ ~DU!IsInfinite(d) /\ d # DU!Infinite /\ d # DU!MinusInfinite /\ d = DU!Dur(d.hi, d.lo) /\ d \in DU!Durations
         /\ DU!Value(d) \in Int /\ DU!Value(d) = d.hi * DU!Ticks + d.lo /\ d.hi * DU!Ticks \in Int
<1>1. d.hi \in Int /\ DU!HiMin <= d.hi /\ d.hi <= HiMax /\ d.lo \in Int /\ d.lo \in 0 .. DU!Ticks - 1
  BY TicksAre DEF Finite
<1>2. ~DU!IsInfinite(d)
  BY <1>1, TicksAre DEF DU!IsInfinite
<1>3. d = DU!Dur(d.hi, d.lo)
  BY DEF Finite, DU!Dur
<1>4. DU!Value(d) \in Int /\ DU!Value(d) = d.hi * DU!Ticks + d.lo /\ d.hi * DU!Ticks \in Int
  BY <1>1, TicksAre, ProductIs DEF DU!Value
<1>5. d \in DU!Durations
  BY DEF Finite, DU!Durations
<1>6. QED
  BY <1>1, <1>2, <1>3, <1>4, <1>5, InfinitiesAre

LEMMA DurationsAre ==
  ASSUME NEW d \in DU!Durations
  PROVE  /\ d.hi \in Int /\ DU!HiMin <= d.hi /\ d.hi <= HiMax
         /\ DU!IsInfinite(d) => d \in {DU!Infinite, DU!MinusInfinite} /\ d.lo = DU!NoLo
         /\ ~DU!IsInfinite(d) => d \in Finite
<1>1. d \in Finite \/ d = DU!Infinite \/ d = DU!MinusInfinite
  BY DEF DU!Durations, Finite
<1>2. QED
  BY <1>1, FiniteIs, InfinitiesAre, TicksAre

LEMMA MakesFinite ==
  ASSUME NEW h \in Int, NEW l \in 0 .. DU!Ticks - 1, DU!HiMin <= h, h <= HiMax
  PROVE  DU!Dur(h, l) \in Finite
  BY TicksAre DEF Finite, DU!Dur

\* The duration of so many ticks, by its seconds.
LEMMA SaturatedIs ==
  ASSUME NEW h \in Int, NEW l \in 0 .. DU!Ticks - 1
  PROVE  /\ h * DU!Ticks + l \in Int
         /\ h > HiMax => DU!Saturated(h * DU!Ticks + l) = DU!Infinite
         /\ h < DU!HiMin => DU!Saturated(h * DU!Ticks + l) = DU!MinusInfinite
         /\ DU!HiMin <= h /\ h <= HiMax => DU!Saturated(h * DU!Ticks + l) = DU!Dur(h, l)
<1> DEFINE n == h * DU!Ticks + l
<1>1. l \in Int /\ h * DU!Ticks \in Int /\ HiMax * DU!Ticks \in Int /\ DU!HiMin * DU!Ticks \in Int
  BY TicksAre, ProductIs
<1>2. n \in Int
  BY <1>1
<1>3. DU!Most = HiMax * DU!Ticks + DU!Ticks - 1 /\ DU!Least = DU!HiMin * DU!Ticks /\ DU!Most \in Int /\ DU!Least \in Int
  BY <1>1, TicksAre DEF DU!Most, DU!Least
<1>4. n > DU!Most <=> h > HiMax
  <2>1. (HiMax + 1) * DU!Ticks = HiMax * DU!Ticks + DU!Ticks
    BY TicksAre, Scaling
  <2>2. h > HiMax => (HiMax + 1) * DU!Ticks <= h * DU!Ticks
    BY TicksAre, Scaling
  <2>3. ~(h > HiMax) => h * DU!Ticks <= HiMax * DU!Ticks
    <3>1. ~(h > HiMax) => h <= HiMax
      BY TicksAre
    <3>2. QED
      BY <3>1, TicksAre, Scaling
  <2>4. QED
    BY <1>1, <1>3, <2>1, <2>2, <2>3, TicksAre
<1>5. n < DU!Least <=> h < DU!HiMin
  <2>1. (h + 1) * DU!Ticks = h * DU!Ticks + DU!Ticks
    BY TicksAre, Scaling
  <2>2. h < DU!HiMin => (h + 1) * DU!Ticks <= DU!HiMin * DU!Ticks
    BY TicksAre, Scaling
  <2>3. ~(h < DU!HiMin) => DU!HiMin * DU!Ticks <= h * DU!Ticks
    <3>1. ~(h < DU!HiMin) => DU!HiMin <= h
      BY TicksAre
    <3>2. QED
      BY <3>1, TicksAre, Scaling
  <2>4. QED
    BY <1>1, <1>3, <2>1, <2>2, <2>3, TicksAre
<1>6. n \div DU!Ticks = h /\ n % DU!Ticks = l
  <2>1. n \in Int /\ n = h * DU!Ticks + l /\ DU!Ticks \in Int /\ DU!Ticks > 0
    BY <1>1, <1>2, TicksAre
  <2> HIDE DEF n
  <2>2. QED
    BY <2>1, DivModOnly, Zenon
<1> HIDE DEF n
<1>7. DU!Saturated(n) = IF n > DU!Most THEN DU!Infinite ELSE IF n < DU!Least THEN DU!MinusInfinite ELSE DU!Dur(h, l)
  <2>1. ~(n > DU!Most /\ n < DU!Least)
    BY <1>4, <1>5, TicksAre
  <2>2. QED
    BY <1>6, <2>1 DEF DU!Saturated
<1>8. h > HiMax => ~(h < DU!HiMin)
  BY TicksAre
<1>9. DU!HiMin <= h /\ h <= HiMax => ~(h > HiMax) /\ ~(h < DU!HiMin)
  BY TicksAre
<1>10. h < DU!HiMin => ~(h > HiMax)
  BY TicksAre
<1>11. (h > HiMax => DU!Saturated(n) = DU!Infinite) /\ (h < DU!HiMin => DU!Saturated(n) = DU!MinusInfinite)
  BY <1>4, <1>5, <1>7, <1>10
<1>12. DU!HiMin <= h /\ h <= HiMax => DU!Saturated(n) = DU!Dur(h, l)
  BY <1>4, <1>5, <1>7, <1>9
<1>13. QED
  BY <1>2, <1>11, <1>12 DEF n

\* Any number is so many seconds and ticks.
LEMMA WordsOf ==
  ASSUME NEW n \in Int
  PROVE  /\ n \div DU!Ticks \in Int /\ n % DU!Ticks \in 0 .. DU!Ticks - 1
         /\ n = (n \div DU!Ticks) * DU!Ticks + (n % DU!Ticks)
  BY TicksAre, DivModIs

LEMMA FiniteSaturated == ASSUME NEW d \in Finite PROVE DU!Saturated(DU!Value(d)) = d
<1>1. DU!Saturated(d.hi * DU!Ticks + d.lo) = DU!Dur(d.hi, d.lo)
  BY FiniteIs, SaturatedIs
<1>2. QED
  BY <1>1, FiniteIs

LEMMA WrapIs ==
  ASSUME NEW h \in Int, 2 * DU!HiMin <= h, h <= 2 * HiMax + 1
  PROVE  DU!Wrap(h) = IF h > HiMax THEN h - 2 * HiMax - 2 ELSE IF h < DU!HiMin THEN h + 2 * HiMax + 2 ELSE h
<1> DEFINE w == HiMax - DU!HiMin + 1
           n == h - DU!HiMin
<1>1. w \in Int /\ w = 2 * HiMax + 2 /\ w > 0 /\ n \in Int /\ n = h + HiMax + 1
  BY TicksAre
<1>2. DU!Wrap(h) = (n % w) + DU!HiMin
  BY DEF DU!Wrap
<1> HIDE DEF w, n
<1>3. 1 * w = w /\ 0 * w = 0 /\ (-1) * w = -w
  BY <1>1
<1>4. CASE h > HiMax
  <2>1. n - w \in 0 .. w - 1 /\ n = 1 * w + (n - w)
    BY <1>1, <1>3, <1>4, TicksAre
  <2>2. n % w = n - w
    BY <1>1, <2>1, DivModOnly
  <2>3. QED
    BY <1>1, <1>2, <1>4, <2>2, TicksAre
<1>5. CASE h < DU!HiMin
  <2>1. n + w \in 0 .. w - 1 /\ n = (-1) * w + (n + w)
    BY <1>1, <1>3, <1>5, TicksAre
  <2>2. n % w = n + w
    BY <1>1, <2>1, DivModOnly
  <2>3. QED
    BY <1>1, <1>2, <1>5, <2>2, TicksAre
<1>6. CASE ~(h > HiMax) /\ ~(h < DU!HiMin)
  <2>1. n \in 0 .. w - 1
    BY <1>1, <1>6, TicksAre
  <2>2. n % w = n
    BY <1>1, <2>1, LessThanAWord, Zenon
  <2>3. QED
    BY <1>1, <1>2, <1>6, <2>2, TicksAre
<1>7. QED
  BY <1>4, <1>5, <1>6

LEMMA LowIs == ASSUME NEW l \in 0 .. DU!Ticks PROVE l % LoWord = l
<1>1. LoWord > 0 /\ l \in 0 .. LoWord - 1 /\ l \in Int /\ LoWord \in Int /\ 0 \in Int /\ l = 0 * LoWord + l
  BY TicksAre
<1>2. QED
  BY <1>1, DivModOnly

LEMMA ValuesOrder ==
  ASSUME NEW d \in Finite, NEW e \in Finite
  PROVE  /\ d.hi < e.hi => DU!Value(d) < DU!Value(e)
         /\ d.hi = e.hi => (DU!Value(d) < DU!Value(e) <=> d.lo < e.lo)
<1>1. d.hi * DU!Ticks \in Int /\ e.hi * DU!Ticks \in Int
  BY FiniteIs
<1>2. d.hi < e.hi => (d.hi + 1) * DU!Ticks <= e.hi * DU!Ticks /\ (d.hi + 1) * DU!Ticks = d.hi * DU!Ticks + DU!Ticks
  BY FiniteIs, TicksAre, Scaling
<1>3. d.hi = e.hi => d.hi * DU!Ticks = e.hi * DU!Ticks
  OBVIOUS
<1>4. QED
  BY <1>1, <1>2, <1>3, FiniteIs, TicksAre

LEMMA BoundsAre ==
  /\ DU!Least \in Int /\ DU!Most \in Int /\ DU!Least < 0 /\ DU!Most > 0
  /\ DU!Least = DU!HiMin * DU!Ticks /\ DU!Most = (HiMax + 1) * DU!Ticks - 1 /\ DU!Least = -DU!Most - 1
  /\ DU!Most = HiMax * DU!Ticks + DU!Ticks - 1 /\ HiMax * DU!Ticks \in Int
<1>1. HiMax * DU!Ticks \in Int /\ DU!HiMin * DU!Ticks \in Int /\ DU!HiMin * DU!Ticks = -(HiMax * DU!Ticks) - DU!Ticks
  BY TicksAre
<1>2. 0 * DU!Ticks <= HiMax * DU!Ticks /\ 0 * DU!Ticks = 0
  <2>1. 0 * DU!Ticks = 0
    BY TicksAre
  <2>2. 0 * DU!Ticks <= HiMax * DU!Ticks
    BY TicksAre, Scaling
  <2>3. QED
    BY <2>1, <2>2
<1>3. (HiMax + 1) * DU!Ticks = HiMax * DU!Ticks + DU!Ticks
  BY TicksAre, Scaling
<1>4. DU!Least = DU!HiMin * DU!Ticks /\ DU!Most = HiMax * DU!Ticks + DU!Ticks - 1
  BY DEF DU!Least, DU!Most
<1>5. QED
  BY <1>1, <1>2, <1>3, <1>4, TicksAre

LEMMA RankIs ==
  /\ \A d \in Finite : DU!Rank(d) = DU!Value(d) /\ DU!Least <= DU!Value(d) /\ DU!Value(d) <= DU!Most
  /\ DU!Rank(DU!Infinite) = DU!Most + 1 /\ DU!Rank(DU!MinusInfinite) = DU!Least - 1
<1>1. ASSUME NEW d \in Finite PROVE DU!Rank(d) = DU!Value(d) /\ DU!Least <= DU!Value(d) /\ DU!Value(d) <= DU!Most
  <2>1. DU!Rank(d) = DU!Value(d)
    BY FiniteIs DEF DU!Rank
  <2>2. DU!HiMin * DU!Ticks <= d.hi * DU!Ticks /\ d.hi * DU!Ticks <= HiMax * DU!Ticks
    BY FiniteIs, TicksAre, Scaling
  <2>3. QED
    BY <2>1, <2>2, FiniteIs, BoundsAre, TicksAre
<1>2. DU!Rank(DU!Infinite) = DU!Most + 1 /\ DU!Rank(DU!MinusInfinite) = DU!Least - 1
  BY InfinitiesAre DEF DU!Rank
<1>3. QED
  BY <1>1, <1>2

\* One more, in a word: nothing behind the greatest.
LEMMA NextLow ==
  /\ \A d \in Finite : (d.lo + 1) % LoWord = d.lo + 1
  /\ (DU!NoLo + 1) % LoWord = 0
<1>1. ASSUME NEW d \in Finite PROVE (d.lo + 1) % LoWord = d.lo + 1
  <2>1. d.lo + 1 \in 0 .. DU!Ticks
    BY FiniteIs, TicksAre
  <2>2. QED
    BY <2>1, LowIs
<1>2. (DU!NoLo + 1) % LoWord = 0
  <2>1. DU!NoLo + 1 = LoWord
    BY TicksAre
  <2>2. LoWord = 1 * LoWord + 0 /\ LoWord \in Int /\ LoWord > 0 /\ 0 \in 0 .. LoWord - 1
    BY TicksAre
  <2>3. LoWord % LoWord = 0
    BY <2>2, DivModOnly
  <2>4. QED
    BY <2>1, <2>3
<1>3. QED
  BY <1>1, <1>2

\* Earlier: LessIs is of the wide numbers.
LEMMA EarlierIs ==
  ASSUME NEW d \in DU!Durations, NEW e \in DU!Durations
  PROVE  DU!Less(d, e) <=> DU!Rank(d) < DU!Rank(e)
<1>1. ASSUME NEW f, NEW g
      PROVE  /\ f.hi # g.hi => (DU!Less(f, g) <=> f.hi < g.hi)
             /\ f.hi = g.hi /\ f.hi = DU!HiMin => (DU!Less(f, g) <=> (f.lo + 1) % LoWord < (g.lo + 1) % LoWord)
             /\ f.hi = g.hi /\ f.hi # DU!HiMin => (DU!Less(f, g) <=> f.lo < g.lo)
  BY Zenon DEF DU!Less
<1>2. HiMax # DU!HiMin /\ DU!HiMin < HiMax /\ DU!Least < DU!Most /\ DU!Least \in Int /\ DU!Most \in Int
  BY TicksAre, BoundsAre
<1>3. CASE d \in Finite /\ e \in Finite
  <2>1. DU!Rank(d) = DU!Value(d) /\ DU!Rank(e) = DU!Value(e) /\ DU!Value(d) \in Int /\ DU!Value(e) \in Int
    BY <1>3, RankIs, FiniteIs
  <2>2. (d.lo + 1) % LoWord = d.lo + 1 /\ (e.lo + 1) % LoWord = e.lo + 1
    BY <1>3, NextLow
  <2>3. d.hi < e.hi => DU!Value(d) < DU!Value(e)
    BY <1>3, ValuesOrder
  <2>4. e.hi < d.hi => DU!Value(e) < DU!Value(d)
    BY <1>3, ValuesOrder
  <2>5. d.hi = e.hi => (DU!Value(d) < DU!Value(e) <=> d.lo < e.lo)
    BY <1>3, ValuesOrder
  <2>6. d.hi \in Int /\ e.hi \in Int /\ d.lo \in Int /\ e.lo \in Int
    BY <1>3, FiniteIs
  <2>7. CASE d.hi = e.hi
    <3>1. DU!Less(d, e) <=> d.lo < e.lo
      <4>1. d.hi = DU!HiMin => (DU!Less(d, e) <=> d.lo + 1 < e.lo + 1)
        BY <1>1, <2>2, <2>7
      <4>2. d.lo + 1 < e.lo + 1 <=> d.lo < e.lo
        BY <2>6
      <4>3. QED
        BY <1>1, <2>7, <4>1, <4>2
    <3>2. QED
      BY <2>1, <2>5, <2>6, <2>7, <3>1
  <2>8. CASE d.hi # e.hi
    <3>1. DU!Less(d, e) <=> d.hi < e.hi
      BY <1>1, <2>8
    <3>2. QED
      BY <2>1, <2>3, <2>4, <2>6, <2>8, <3>1
  <2>9. QED
    BY <2>7, <2>8
<1>4. ASSUME NEW f \in Finite
      PROVE  /\ (DU!Less(f, DU!Infinite) <=> DU!Rank(f) < DU!Rank(DU!Infinite))
             /\ (DU!Less(DU!Infinite, f) <=> DU!Rank(DU!Infinite) < DU!Rank(f))
             /\ (DU!Less(f, DU!MinusInfinite) <=> DU!Rank(f) < DU!Rank(DU!MinusInfinite))
             /\ (DU!Less(DU!MinusInfinite, f) <=> DU!Rank(DU!MinusInfinite) < DU!Rank(f))
  <2>1. (f.lo + 1) % LoWord = f.lo + 1 /\ (DU!NoLo + 1) % LoWord = 0
    BY NextLow
  <2>2. f.hi \in Int /\ DU!HiMin <= f.hi /\ f.hi <= HiMax /\ f.lo \in Int /\ f.lo < DU!NoLo /\ 0 <= f.lo
    BY FiniteIs, TicksAre
  <2>3. DU!Less(f, DU!Infinite) /\ ~DU!Less(DU!Infinite, f)
    BY <1>1, <1>2, <2>2, InfinitiesAre, TicksAre
  <2>4. ~DU!Less(f, DU!MinusInfinite) /\ DU!Less(DU!MinusInfinite, f)
    BY <1>1, <1>2, <2>1, <2>2, InfinitiesAre, TicksAre
  <2>5. DU!Least <= DU!Rank(f) /\ DU!Rank(f) <= DU!Most /\ DU!Rank(f) \in Int
    BY RankIs, FiniteIs
  <2>6. /\ DU!Rank(f) < DU!Rank(DU!Infinite) /\ ~(DU!Rank(DU!Infinite) < DU!Rank(f))
        /\ DU!Rank(DU!MinusInfinite) < DU!Rank(f) /\ ~(DU!Rank(f) < DU!Rank(DU!MinusInfinite))
    BY <1>2, <2>5, RankIs
  <2>7. QED
    BY <2>3, <2>4, <2>6
<1>5. ASSUME NEW x \in {DU!Infinite, DU!MinusInfinite}, NEW y \in {DU!Infinite, DU!MinusInfinite}
      PROVE  DU!Less(x, y) <=> DU!Rank(x) < DU!Rank(y)
  <2>1. DU!NoLo \in Int /\ (DU!NoLo + 1) % LoWord = 0
    BY TicksAre, NextLow
  <2>2. /\ ~DU!Less(DU!Infinite, DU!Infinite) /\ ~DU!Less(DU!MinusInfinite, DU!MinusInfinite)
        /\ ~DU!Less(DU!Infinite, DU!MinusInfinite) /\ DU!Less(DU!MinusInfinite, DU!Infinite)
    BY <1>1, <1>2, <2>1, InfinitiesAre, TicksAre
  <2>3. /\ (DU!Less(DU!Infinite, DU!Infinite) <=> DU!Rank(DU!Infinite) < DU!Rank(DU!Infinite))
        /\ (DU!Less(DU!MinusInfinite, DU!MinusInfinite) <=> DU!Rank(DU!MinusInfinite) < DU!Rank(DU!MinusInfinite))
        /\ (DU!Less(DU!Infinite, DU!MinusInfinite) <=> DU!Rank(DU!Infinite) < DU!Rank(DU!MinusInfinite))
        /\ (DU!Less(DU!MinusInfinite, DU!Infinite) <=> DU!Rank(DU!MinusInfinite) < DU!Rank(DU!Infinite))
    <3>1. /\ ~(DU!Rank(DU!Infinite) < DU!Rank(DU!Infinite)) /\ ~(DU!Rank(DU!MinusInfinite) < DU!Rank(DU!MinusInfinite))
          /\ ~(DU!Rank(DU!Infinite) < DU!Rank(DU!MinusInfinite)) /\ DU!Rank(DU!MinusInfinite) < DU!Rank(DU!Infinite)
      BY <1>2, RankIs
    <3>2. QED
      BY <2>2, <3>1
  <2>4. QED
    BY <2>3, Zenon
<1>6. CASE d \in Finite /\ e \in {DU!Infinite, DU!MinusInfinite}
  BY <1>4, <1>6, Zenon
<1>7. CASE d \in {DU!Infinite, DU!MinusInfinite} /\ e \in Finite
  BY <1>4, <1>7, Zenon
<1>8. CASE d \in {DU!Infinite, DU!MinusInfinite} /\ e \in {DU!Infinite, DU!MinusInfinite}
  BY <1>5, <1>8, Zenon
<1>9. QED
  BY <1>3, <1>6, <1>7, <1>8, DurationsAre

LEMMA LessIsBoolean ==
  ASSUME NEW d \in DU!Durations, NEW e \in DU!Durations
  PROVE  DU!Less(d, e) \in BOOLEAN
<1>1. d.hi \in Int /\ e.hi \in Int /\ d.lo \in Int /\ e.lo \in Int
  BY DurationsAre, FiniteIs, TicksAre
<1>2. (d.lo + 1) % LoWord \in Int /\ (e.lo + 1) % LoWord \in Int
  BY <1>1, TicksAre
<1>3. \A a, b \in Int : (a < b) \in BOOLEAN
  OBVIOUS
<1>4. QED
  BY <1>1, <1>2, <1>3, Zenon DEF DU!Less

\* What is less than zero has its seconds below it.
LEMMA NegativeIs ==
  ASSUME NEW d \in DU!Durations
  PROVE  /\ (DU!Negative(d) <=> d.hi < 0)
         /\ d \in Finite => (DU!Negative(d) <=> DU!Value(d) < 0)
<1>1. DU!Zero \in Finite /\ DU!Zero.hi = 0 /\ DU!Zero.lo = 0
  BY TicksAre DEF DU!Zero, DU!Dur, Finite
<1>2. DU!Value(DU!Zero) = 0 /\ DU!Rank(DU!Zero) = 0
  <2>1. DU!Value(DU!Zero) = 0 * DU!Ticks + 0 /\ 0 * DU!Ticks = 0
    BY <1>1, FiniteIs, TicksAre
  <2>2. QED
    BY <1>1, <2>1, RankIs
<1>3. DU!Negative(d) <=> DU!Rank(d) < 0
  <2>1. DU!Negative(d) <=> DU!Rank(d) < DU!Rank(DU!Zero)
    <3>1. DU!Zero \in DU!Durations
      BY <1>1, FiniteIs
    <3>2. DU!Less(d, DU!Zero) <=> DU!Rank(d) < DU!Rank(DU!Zero)
      BY <3>1, EarlierIs
    <3>3. QED
      BY <3>2 DEF DU!Negative
  <2>2. QED
    BY <1>2, <2>1
<1>4. CASE d \in Finite
  <2>1. DU!Rank(d) = DU!Value(d) /\ d.lo \in Int /\ 0 <= d.lo
    BY <1>4, RankIs, FiniteIs
  <2>2. d.hi < 0 => DU!Value(d) < DU!Value(DU!Zero)
    BY <1>1, <1>4, ValuesOrder
  <2>3. 0 < d.hi => DU!Value(DU!Zero) < DU!Value(d)
    BY <1>1, <1>4, ValuesOrder
  <2>4. d.hi = 0 => (DU!Value(d) < DU!Value(DU!Zero) <=> d.lo < 0)
    BY <1>1, <1>4, ValuesOrder
  <2>5. d.hi \in Int /\ DU!Value(d) \in Int
    BY <1>4, FiniteIs
  <2>6. QED
    BY <1>2, <1>3, <2>1, <2>2, <2>3, <2>4, <2>5
<1>5. CASE d \in {DU!Infinite, DU!MinusInfinite}
  <2>1. d \notin Finite
    BY <1>5, FiniteIs
  <2>2. QED
    BY <1>3, <1>5, <2>1, RankIs, BoundsAre, InfinitiesAre, TicksAre
<1>6. QED
  BY <1>4, <1>5, DurationsAre

LEMMA SumIs ==
  ASSUME NEW d \in Finite, NEW e \in Finite
  PROVE  DU!Plus(d, e) = DU!Saturated(DU!Value(d) + DU!Value(e))
<1> DEFINE c == IF d.lo >= DU!Ticks - e.lo THEN 1 ELSE 0
           h == d.hi + e.hi + c
           l == d.lo + e.lo - c * DU!Ticks
           over == IF e.hi < 0 THEN DU!Wrap(h) > d.hi ELSE DU!Wrap(h) < d.hi
<1>1. /\ d.hi \in Int /\ e.hi \in Int /\ d.lo \in Int /\ e.lo \in Int
      /\ DU!HiMin <= d.hi /\ d.hi <= HiMax /\ DU!HiMin <= e.hi /\ e.hi <= HiMax
      /\ 0 <= d.lo /\ d.lo < DU!Ticks /\ 0 <= e.lo /\ e.lo < DU!Ticks
  BY FiniteIs, TicksAre
<1>2. c \in {0, 1} /\ c \in Int /\ h \in Int /\ 0 * DU!Ticks = 0 /\ 1 * DU!Ticks = DU!Ticks
  BY <1>1, TicksAre
<1>3. c * DU!Ticks = IF d.lo >= DU!Ticks - e.lo THEN DU!Ticks ELSE 0
  BY <1>2
<1>4. l \in 0 .. DU!Ticks - 1 /\ l = d.lo + e.lo - (IF d.lo >= DU!Ticks - e.lo THEN DU!Ticks ELSE 0)
  BY <1>1, <1>3, TicksAre
<1>5. l % LoWord = l
  BY <1>4, LowIs, TicksAre
<1>6. DU!Plus(d, e) = IF over THEN DU!Signed(e.hi < 0) ELSE DU!Dur(DU!Wrap(h), l)
  BY <1>4, <1>5, FiniteIs DEF DU!Plus
<1>7. DU!Value(d) + DU!Value(e) = h * DU!Ticks + l
  <2>1. h * DU!Ticks = d.hi * DU!Ticks + e.hi * DU!Ticks + c * DU!Ticks
    <3> HIDE DEF c
    <3>1. PICK x \in Int : x = c
      BY <1>2
    <3>2. (d.hi + e.hi + x) * DU!Ticks = d.hi * DU!Ticks + e.hi * DU!Ticks + x * DU!Ticks
      BY <1>1, TicksAre
    <3>3. QED
      BY <3>1, <3>2
  <2>2. c * DU!Ticks \in Int
    BY <1>2, TicksAre
  <2> HIDE DEF c, h
  <2>3. QED
    BY <1>1, <2>1, <2>2, FiniteIs
<1>8. 2 * DU!HiMin <= h /\ h <= 2 * HiMax + 1
  BY <1>1, <1>2, TicksAre
<1> HIDE DEF l
<1>9. h - d.hi <= HiMax + 1 /\ h - d.hi >= DU!HiMin /\ (e.hi < 0 => h <= d.hi) /\ (~(e.hi < 0) => h >= d.hi)
  BY <1>1, <1>2, TicksAre
<1> HIDE DEF h, c
<1>10. CASE h > HiMax
  <2>1. DU!Wrap(h) = h - 2 * HiMax - 2
    BY <1>2, <1>8, <1>10, WrapIs
  <2>2. ~(e.hi < 0) /\ over
    BY <1>1, <1>2, <1>9, <1>10, <2>1, TicksAre
  <2>3. DU!Plus(d, e) = DU!Infinite
    BY <1>6, <2>2 DEF DU!Signed
  <2>4. QED
    BY <1>2, <1>4, <1>7, <1>10, <2>3, SaturatedIs
<1>11. CASE h < DU!HiMin
  <2>1. DU!Wrap(h) = h + 2 * HiMax + 2
    BY <1>2, <1>8, <1>11, WrapIs, TicksAre
  <2>2. e.hi < 0 /\ over
    BY <1>1, <1>2, <1>9, <1>11, <2>1, TicksAre
  <2>3. DU!Plus(d, e) = DU!MinusInfinite
    BY <1>6, <2>2 DEF DU!Signed
  <2>4. QED
    BY <1>2, <1>4, <1>7, <1>11, <2>3, SaturatedIs
<1>12. CASE DU!HiMin <= h /\ h <= HiMax
  <2>1. DU!Wrap(h) = h
    BY <1>2, <1>8, <1>12, WrapIs, TicksAre
  <2>2. ~over
    BY <1>1, <1>2, <1>9, <2>1
  <2>3. DU!Plus(d, e) = DU!Dur(h, l)
    BY <1>6, <2>1, <2>2
  <2>4. QED
    BY <1>2, <1>4, <1>7, <1>12, <2>3, SaturatedIs
<1>13. QED
  BY <1>2, <1>10, <1>11, <1>12, TicksAre

LEMMA DifferenceIs ==
  ASSUME NEW d \in Finite, NEW e \in Finite
  PROVE  DU!Minus(d, e) = DU!Saturated(DU!Value(d) - DU!Value(e))
<1> DEFINE c == IF d.lo < e.lo THEN 1 ELSE 0
           h == d.hi - e.hi - c
           l == d.lo - e.lo + c * DU!Ticks
           over == IF e.hi < 0 THEN DU!Wrap(h) < d.hi ELSE DU!Wrap(h) > d.hi
<1>1. /\ d.hi \in Int /\ e.hi \in Int /\ d.lo \in Int /\ e.lo \in Int
      /\ DU!HiMin <= d.hi /\ d.hi <= HiMax /\ DU!HiMin <= e.hi /\ e.hi <= HiMax
      /\ 0 <= d.lo /\ d.lo < DU!Ticks /\ 0 <= e.lo /\ e.lo < DU!Ticks
  BY FiniteIs, TicksAre
<1>2. c \in {0, 1} /\ c \in Int /\ h \in Int /\ 0 * DU!Ticks = 0 /\ 1 * DU!Ticks = DU!Ticks
  BY <1>1, TicksAre
<1>3. c * DU!Ticks = IF d.lo < e.lo THEN DU!Ticks ELSE 0
  BY <1>2
<1>4. l \in 0 .. DU!Ticks - 1 /\ l = d.lo - e.lo + (IF d.lo < e.lo THEN DU!Ticks ELSE 0)
  BY <1>1, <1>3, TicksAre
<1>5. l % LoWord = l
  BY <1>4, LowIs, TicksAre
<1>6. DU!Minus(d, e) = IF over THEN DU!Signed(e.hi >= 0) ELSE DU!Dur(DU!Wrap(h), l)
  BY <1>4, <1>5, FiniteIs DEF DU!Minus
<1>7. DU!Value(d) - DU!Value(e) = h * DU!Ticks + l
  <2>1. h * DU!Ticks = d.hi * DU!Ticks - e.hi * DU!Ticks - c * DU!Ticks
    <3> HIDE DEF c
    <3>1. PICK x \in Int : x = c
      BY <1>2
    <3>2. (d.hi - e.hi - x) * DU!Ticks = d.hi * DU!Ticks - e.hi * DU!Ticks - x * DU!Ticks
      BY <1>1, TicksAre
    <3>3. QED
      BY <3>1, <3>2
  <2>2. c * DU!Ticks \in Int
    BY <1>2, TicksAre
  <2> HIDE DEF c, h
  <2>3. QED
    BY <1>1, <2>1, <2>2, FiniteIs
<1>8. 2 * DU!HiMin <= h /\ h <= 2 * HiMax + 1
  BY <1>1, <1>2, TicksAre
<1> HIDE DEF l
<1>9. h - d.hi <= HiMax + 1 /\ h - d.hi >= DU!HiMin /\ (e.hi < 0 => h >= d.hi) /\ (~(e.hi < 0) => h <= d.hi)
  BY <1>1, <1>2, TicksAre
<1> HIDE DEF h, c
<1>10. CASE h > HiMax
  <2>1. DU!Wrap(h) = h - 2 * HiMax - 2
    BY <1>2, <1>8, <1>10, WrapIs
  <2>2. ~(e.hi >= 0) /\ over
    BY <1>1, <1>2, <1>9, <1>10, <2>1, TicksAre
  <2>3. DU!Minus(d, e) = DU!Infinite
    BY <1>6, <2>2 DEF DU!Signed
  <2>4. QED
    BY <1>2, <1>4, <1>7, <1>10, <2>3, SaturatedIs
<1>11. CASE h < DU!HiMin
  <2>1. DU!Wrap(h) = h + 2 * HiMax + 2
    BY <1>2, <1>8, <1>11, WrapIs, TicksAre
  <2>2. e.hi >= 0 /\ over
    BY <1>1, <1>2, <1>9, <1>11, <2>1, TicksAre
  <2>3. DU!Minus(d, e) = DU!MinusInfinite
    BY <1>6, <2>2 DEF DU!Signed
  <2>4. QED
    BY <1>2, <1>4, <1>7, <1>11, <2>3, SaturatedIs
<1>12. CASE DU!HiMin <= h /\ h <= HiMax
  <2>1. DU!Wrap(h) = h
    BY <1>2, <1>8, <1>12, WrapIs, TicksAre
  <2>2. ~over
    BY <1>1, <1>2, <1>9, <2>1
  <2>3. DU!Minus(d, e) = DU!Dur(h, l)
    BY <1>6, <2>1, <2>2
  <2>4. QED
    BY <1>2, <1>4, <1>7, <1>12, <2>3, SaturatedIs
<1>13. QED
  BY <1>2, <1>10, <1>11, <1>12, TicksAre

LEMMA OppositeIs ==
  /\ \A d \in Finite : DU!Opposite(d) = DU!Saturated(-DU!Value(d))
  /\ DU!Opposite(DU!Infinite) = DU!MinusInfinite /\ DU!Opposite(DU!MinusInfinite) = DU!Infinite
<1>1. ASSUME NEW d \in Finite PROVE DU!Opposite(d) = DU!Saturated(-DU!Value(d))
  <2>1. /\ d.hi \in Int /\ d.lo \in Int /\ DU!HiMin <= d.hi /\ d.hi <= HiMax /\ 0 <= d.lo /\ d.lo < DU!Ticks
        /\ d.hi * DU!Ticks \in Int /\ DU!Value(d) = d.hi * DU!Ticks + d.lo /\ ~DU!IsInfinite(d)
    BY FiniteIs, TicksAre
  <2>2. DU!Opposite(d) = IF d.lo = 0 THEN (IF d.hi = DU!HiMin THEN DU!Infinite ELSE DU!Dur(-d.hi, 0))
                         ELSE DU!Dur(-(d.hi + 1), DU!Ticks - d.lo)
    BY <2>1 DEF DU!Opposite
  <2>3. CASE d.lo = 0
    <3>1. -DU!Value(d) = (-d.hi) * DU!Ticks + 0 /\ -d.hi \in Int /\ 0 \in 0 .. DU!Ticks - 1
      BY <2>1, <2>3, TicksAre
    <3>2. d.hi = DU!HiMin => -d.hi > HiMax
      BY TicksAre
    <3>3. d.hi # DU!HiMin => DU!HiMin <= -d.hi /\ -d.hi <= HiMax
      BY <2>1, TicksAre
    <3>4. QED
      BY <2>2, <2>3, <3>1, <3>2, <3>3, SaturatedIs
  <2>4. CASE d.lo # 0
    <3>1. -(d.hi + 1) \in Int /\ DU!Ticks - d.lo \in 0 .. DU!Ticks - 1
      BY <2>1, <2>4, TicksAre
    <3>2. -DU!Value(d) = (-(d.hi + 1)) * DU!Ticks + (DU!Ticks - d.lo)
      <4>1. (-(d.hi + 1)) * DU!Ticks = -(d.hi * DU!Ticks) - DU!Ticks
        BY <2>1, TicksAre
      <4>2. QED
        BY <2>1, <4>1, TicksAre
    <3>3. DU!HiMin <= -(d.hi + 1) /\ -(d.hi + 1) <= HiMax
      BY <2>1, TicksAre
    <3>4. QED
      BY <2>2, <2>4, <3>1, <3>2, <3>3, SaturatedIs
  <2>5. QED
    BY <2>3, <2>4
<1>2. DU!Opposite(DU!Infinite) = DU!MinusInfinite
  <2>1. DU!Infinite.lo # 0 /\ DU!Infinite.hi >= 0
    BY InfinitiesAre, TicksAre
  <2>2. QED
    BY <2>1, InfinitiesAre DEF DU!Opposite, DU!Signed
<1>3. DU!Opposite(DU!MinusInfinite) = DU!Infinite
  <2>1. DU!MinusInfinite.lo # 0 /\ ~(DU!MinusInfinite.hi >= 0)
    BY InfinitiesAre, TicksAre
  <2>2. QED
    BY <2>1, InfinitiesAre DEF DU!Opposite, DU!Signed
<1>4. QED
  BY <1>1, <1>2, <1>3

LEMMA SumsAre == ASSUME NEW d \in DU!Durations, NEW e \in DU!Durations PROVE DU!Sums(d, e)
<1>1. DU!Less(d, e) = (DU!Rank(d) < DU!Rank(e))
  <2>1. DU!Rank(d) \in Int /\ DU!Rank(e) \in Int
    BY DurationsAre, RankIs, FiniteIs, BoundsAre
  <2>2. (DU!Rank(d) < DU!Rank(e)) \in BOOLEAN
    BY <2>1
  <2>3. QED
    BY <2>2, EarlierIs, LessIsBoolean, Zenon
<1>2. ~DU!IsInfinite(d) /\ ~DU!IsInfinite(e) =>
        DU!Plus(d, e) = DU!Saturated(DU!Value(d) + DU!Value(e)) /\ DU!Minus(d, e) = DU!Saturated(DU!Value(d) - DU!Value(e))
  BY DurationsAre, SumIs, DifferenceIs
<1>3. DU!IsInfinite(d) => DU!Plus(d, e) = d /\ DU!Minus(d, e) = d
  BY DEF DU!Plus, DU!Minus
<1>4. DU!IsInfinite(e) /\ ~DU!IsInfinite(d) => DU!Plus(d, e) = e /\ DU!Minus(d, e) = DU!Opposite(e)
  <2>1. SUFFICES ASSUME DU!IsInfinite(e), ~DU!IsInfinite(d) PROVE DU!Plus(d, e) = e /\ DU!Minus(d, e) = DU!Opposite(e)
    OBVIOUS
  <2>2. DU!Plus(d, e) = e
    BY <2>1 DEF DU!Plus
  <2>3. DU!Minus(d, e) = DU!Signed(e.hi >= 0)
    BY <2>1 DEF DU!Minus
  <2>4. e.lo # 0
    BY <2>1, TicksAre DEF DU!IsInfinite
  <2>5. DU!Opposite(e) = DU!Signed(e.hi >= 0)
    BY <2>1, <2>4 DEF DU!Opposite
  <2>6. QED
    BY <2>2, <2>3, <2>5
<1>5. IF DU!IsInfinite(d) THEN {d, DU!Opposite(d)} = {DU!Infinite, DU!MinusInfinite} ELSE DU!Opposite(d) = DU!Saturated(-DU!Value(d))
  <2>1. CASE DU!IsInfinite(d)
    <3>1. d \in {DU!Infinite, DU!MinusInfinite}
      BY <2>1, DurationsAre
    <3>2. {d, DU!Opposite(d)} = {DU!Infinite, DU!MinusInfinite}
      BY <3>1, OppositeIs
    <3>3. QED
      BY <2>1, <3>2
  <2>2. CASE ~DU!IsInfinite(d)
    BY <2>2, DurationsAre, OppositeIs
  <2>3. QED
    BY <2>1, <2>2
<1>6. QED
  BY <1>1, <1>2, <1>3, <1>4, <1>5, Zenon DEF DU!Sums

\* Magnitudes, and the division of C++.
LEMMA SizeIs ==
  ASSUME NEW n \in Int
  PROVE  /\ DU!Magnitude(n) \in Nat /\ DU!Magnitude(n) \in Int
         /\ (n < 0 => DU!Magnitude(n) = -n) /\ (~(n < 0) => DU!Magnitude(n) = n)
         /\ (n # 0 => DU!Magnitude(n) > 0) /\ DU!Magnitude(-n) = DU!Magnitude(n)
  BY DEF DU!Magnitude

LEMMA QuotIs ==
  ASSUME NEW m \in Int, NEW n \in Int, n # 0
  PROVE  LET x == DU!Magnitude(m)
             y == DU!Magnitude(n)
             q == x \div y
             r == x % y
         IN  /\ q \in Int /\ r \in 0 .. y - 1 /\ x \in Nat /\ y \in Nat \ {0} /\ y \in {n, -n}
             /\ DU!Quot(m, n) = IF (m < 0) # (n < 0) THEN -q ELSE q
             /\ DU!Remainder(m, n) = IF m < 0 THEN -r ELSE r
<1>1. DU!Magnitude(m) = WI!Magnitude(m) /\ DU!Magnitude(n) = WI!Magnitude(n)
  BY DEF DU!Magnitude, WI!Magnitude
<1>2. DU!Quot(m, n) = WI!Quotient(m, n)
  BY <1>1, Zenon DEF DU!Quot, WI!Quotient
<1>3. DU!Remainder(m, n) = m - n * WI!Quotient(m, n)
  BY <1>2 DEF DU!Remainder
<1>4. QED
  BY <1>1, <1>2, <1>3, QuotientIs

LEMMA TicksOf ==
  ASSUME NEW d \in Finite
  PROVE  /\ DU!MakeU128Ticks(d) = DU!Magnitude(DU!Value(d)) /\ DU!MakeU128Ticks(d) \in Nat
         /\ (DU!Value(d) < 0 <=> d.hi < 0)
<1>1. /\ d.hi \in Int /\ d.lo \in Int /\ d.hi * DU!Ticks \in Int /\ DU!Value(d) = d.hi * DU!Ticks + d.lo
      /\ DU!Value(d) \in Int
  BY FiniteIs
<1>2. DU!Value(d) < 0 <=> d.hi < 0
  BY FiniteIs, NegativeIs
<1>3. CASE d.hi < 0
  <2>1. -(d.hi + 1) * DU!Ticks = -(d.hi * DU!Ticks) - DU!Ticks
    BY <1>1, TicksAre
  <2>2. DU!MakeU128Ticks(d) = -(d.hi + 1) * DU!Ticks + (DU!Ticks - d.lo)
    BY <1>3 DEF DU!MakeU128Ticks
  <2>3. DU!MakeU128Ticks(d) = -DU!Value(d)
    BY <1>1, <2>1, <2>2, TicksAre
  <2>4. QED
    BY <1>1, <1>2, <1>3, <2>3, SizeIs
<1>4. CASE ~(d.hi < 0)
  <2>1. DU!MakeU128Ticks(d) = DU!Value(d)
    BY <1>1, <1>4 DEF DU!MakeU128Ticks
  <2>2. QED
    BY <1>1, <1>2, <1>4, <2>1, SizeIs
<1>5. QED
  BY <1>3, <1>4

\* The words of a magnitude, with its sign, are those of the number.
LEMMA MakesDuration ==
  ASSUME NEW u \in Nat, NEW neg \in BOOLEAN
  PROVE  DU!MakeDurationFromU128(u, neg) = DU!Saturated(IF neg THEN -u ELSE u)
<1> DEFINE hi == u \div DU!Ticks
           lo == u % DU!Ticks
<1>1. hi \in Int /\ lo \in 0 .. DU!Ticks - 1 /\ lo \in Int /\ u = hi * DU!Ticks + lo /\ u \in Int
  BY WordsOf
<1>2. DU!MakeDurationFromU128(u, neg) =
        IF hi > HiMax THEN (IF neg /\ u = -DU!HiMin * DU!Ticks THEN DU!Dur(DU!HiMin, 0) ELSE DU!Signed(neg))
        ELSE IF neg /\ lo # 0 THEN DU!Dur(-hi - 1, DU!Ticks - lo) ELSE DU!Dur(IF neg THEN -hi ELSE hi, lo)
  <2>1. hi > HiMax \/ (hi <= HiMax /\ ~(hi > HiMax))
    BY <1>1, TicksAre
  <2>2. ~(hi > HiMax /\ hi <= HiMax)
    BY <1>1, TicksAre
  <2> HIDE DEF hi, lo
  <2>3. CASE hi > HiMax
    BY <2>1, <2>2, <2>3 DEF DU!MakeDurationFromU128, hi, lo
  <2>4. CASE ~(hi > HiMax)
    BY <2>1, <2>2, <2>4 DEF DU!MakeDurationFromU128, hi, lo
  <2>5. QED
    BY <2>3, <2>4
<1> HIDE DEF hi, lo
<1>3. hi >= 0
  <2>1. hi < 0 => (hi + 1) * DU!Ticks <= 0 * DU!Ticks /\ (hi + 1) * DU!Ticks = hi * DU!Ticks + DU!Ticks
    BY <1>1, TicksAre, Scaling
  <2>2. 0 * DU!Ticks = 0 /\ hi * DU!Ticks \in Int
    BY <1>1, TicksAre
  <2>3. QED
    BY <1>1, <2>1, <2>2, TicksAre
<1>4. CASE ~neg
  <2>1. DU!MakeDurationFromU128(u, neg) = IF hi > HiMax THEN DU!Infinite ELSE DU!Dur(hi, lo)
    BY <1>2, <1>4 DEF DU!Signed
  <2>2. hi > HiMax => DU!Saturated(u) = DU!Infinite
    BY <1>1, SaturatedIs
  <2>3. ~(hi > HiMax) => DU!Saturated(u) = DU!Dur(hi, lo)
    <3>1. ~(hi > HiMax) => DU!HiMin <= hi /\ hi <= HiMax
      BY <1>1, <1>3, TicksAre
    <3>2. QED
      BY <1>1, <3>1, SaturatedIs
  <2>4. QED
    BY <1>4, <2>1, <2>2, <2>3
<1>5. CASE neg /\ lo # 0
  <2>1. -u = (-hi - 1) * DU!Ticks + (DU!Ticks - lo) /\ -hi - 1 \in Int /\ DU!Ticks - lo \in 0 .. DU!Ticks - 1
    <3>1. (-hi - 1) * DU!Ticks = -(hi * DU!Ticks) - DU!Ticks /\ hi * DU!Ticks \in Int
      BY <1>1, TicksAre
    <3>2. QED
      BY <1>1, <1>5, <3>1, TicksAre
  <2>2. u # -DU!HiMin * DU!Ticks
    <3>1. -DU!HiMin * DU!Ticks = (-DU!HiMin) * DU!Ticks + 0 /\ -DU!HiMin \in Int /\ 0 \in 0 .. DU!Ticks - 1
      BY TicksAre
    <3>2. ASSUME u = -DU!HiMin * DU!Ticks PROVE u % DU!Ticks = 0
      <4>1. u = (-DU!HiMin) * DU!Ticks + 0
        BY <3>1, <3>2
      <4>2. u \in Int /\ DU!Ticks \in Int /\ DU!Ticks > 0
        BY <1>1, TicksAre
      <4>3. PICK k \in Int : k = -DU!HiMin
        BY <3>1
      <4>4. PICK z \in 0 .. DU!Ticks - 1 : z = 0
        BY <3>1
      <4>5. u = k * DU!Ticks + z
        BY <4>1, <4>3, <4>4, Zenon
      <4>6. u % DU!Ticks = z
        BY <4>2, <4>5, DivModOnly
      <4>7. QED
        BY <4>4, <4>6
    <3>3. QED
      BY <1>5, <3>2 DEF lo
  <2>3. DU!MakeDurationFromU128(u, neg) = IF hi > HiMax THEN DU!MinusInfinite ELSE DU!Dur(-hi - 1, DU!Ticks - lo)
    BY <1>2, <1>5, <2>2 DEF DU!Signed
  <2>4. hi > HiMax => -hi - 1 < DU!HiMin
    BY <1>1, TicksAre
  <2>5. ~(hi > HiMax) => DU!HiMin <= -hi - 1 /\ -hi - 1 <= HiMax
    BY <1>1, <1>3, TicksAre
  <2>6. (hi > HiMax => DU!Saturated(-u) = DU!MinusInfinite)
        /\ (~(hi > HiMax) => DU!Saturated(-u) = DU!Dur(-hi - 1, DU!Ticks - lo))
    BY <2>1, <2>4, <2>5, SaturatedIs
  <2>7. QED
    BY <1>5, <2>3, <2>6
<1>6. CASE neg /\ lo = 0
  <2>1. -u = (-hi) * DU!Ticks + 0 /\ -hi \in Int /\ 0 \in 0 .. DU!Ticks - 1 /\ u = hi * DU!Ticks
    BY <1>1, <1>6, TicksAre
  <2>2. u = -DU!HiMin * DU!Ticks <=> hi = -DU!HiMin
    <3>1. -DU!HiMin * DU!Ticks = (-DU!HiMin) * DU!Ticks + 0 /\ -DU!HiMin \in Int
      BY TicksAre
    <3>2. u = -DU!HiMin * DU!Ticks => u \div DU!Ticks = -DU!HiMin
      BY <1>1, <2>1, <3>1, TicksAre, DivModOnly
    <3>3. hi = -DU!HiMin => u = -DU!HiMin * DU!Ticks
      BY <2>1, <3>1, TicksAre
    <3>4. QED
      BY <3>2, <3>3 DEF hi
  <2>3. DU!MakeDurationFromU128(u, neg) =
          IF hi > HiMax THEN (IF hi = -DU!HiMin THEN DU!Dur(DU!HiMin, 0) ELSE DU!MinusInfinite) ELSE DU!Dur(-hi, 0)
    BY <1>2, <1>6, <2>2 DEF DU!Signed
  <2>4. hi > HiMax /\ hi # -DU!HiMin => -hi < DU!HiMin
    BY <1>1, TicksAre
  <2>5. ~(hi > HiMax) \/ hi = -DU!HiMin => DU!HiMin <= -hi /\ -hi <= HiMax
    BY <1>1, <1>3, TicksAre
  <2>6. hi = -DU!HiMin => -hi = DU!HiMin /\ hi > HiMax
    BY TicksAre
  <2>7. (hi > HiMax /\ hi # -DU!HiMin => DU!Saturated(-u) = DU!MinusInfinite)
        /\ (~(hi > HiMax) \/ hi = -DU!HiMin => DU!Saturated(-u) = DU!Dur(-hi, 0))
    BY <2>1, <2>4, <2>5, SaturatedIs
  <2>8. QED
    BY <1>6, <2>3, <2>6, <2>7
<1>7. QED
  BY <1>4, <1>5, <1>6

LEMMA ScalesAre == ASSUME NEW d \in DU!Durations, NEW r \in Int PROVE DU!Scales(d, r)
<1> DEFINE neg == (d.hi < 0) # (r < 0)
           V == DU!Value(d)
<1>1. CASE DU!IsInfinite(d)
  BY <1>1 DEF DU!Scales, DU!Times, DU!Divided
<1>2. CASE ~DU!IsInfinite(d)
  <2>1. d \in Finite
    BY <1>2, DurationsAre
  <2>2. V \in Int /\ (V < 0 <=> d.hi < 0) /\ DU!MakeU128Ticks(d) = DU!Magnitude(V) /\ neg \in BOOLEAN
    BY <2>1, FiniteIs, TicksOf
  <2>3. /\ DU!Times(d, r) = DU!MakeDurationFromU128(DU!Magnitude(V) * DU!Magnitude(r), neg)
        /\ r # 0 => DU!Divided(d, r) = DU!MakeDurationFromU128(DU!Magnitude(V) \div DU!Magnitude(r), neg)
        /\ r = 0 => DU!Divided(d, r) = DU!Signed(neg)
    BY <1>2, <2>2 DEF DU!Times, DU!Divided
  <2> HIDE DEF V
  <2>4. neg <=> (V < 0) # (r < 0)
    BY <2>2
  <2>5. DU!Times(d, r) = DU!Saturated(V * r)
    <3> DEFINE u == DU!Magnitude(V) * DU!Magnitude(r)
    <3>1. u \in Nat
      BY <2>2, SizeIs
    <3>2. (IF neg THEN -u ELSE u) = V * r
      <4>1. (-V) * r = -(V * r) /\ V * (-r) = -(V * r) /\ (-V) * (-r) = V * r
        BY <2>2
      <4>2. u = IF V < 0 THEN (IF r < 0 THEN (-V) * (-r) ELSE (-V) * r) ELSE (IF r < 0 THEN V * (-r) ELSE V * r)
        BY <2>2, SizeIs
      <4>3. V * r \in Int
        BY <2>2, ProductIs
      <4> HIDE DEF u, neg
      <4>4. QED
        BY <2>4, <4>1, <4>2, <4>3
    <3> HIDE DEF u, neg
    <3>3. QED
      BY <2>2, <2>3, <3>1, <3>2, MakesDuration DEF u
  <2>6. r # 0 => DU!Divided(d, r) = DU!Saturated(DU!Quot(V, r))
    <3>1. SUFFICES ASSUME r # 0 PROVE DU!Divided(d, r) = DU!Saturated(DU!Quot(V, r))
      OBVIOUS
    <3> DEFINE q == DU!Magnitude(V) \div DU!Magnitude(r)
    <3>2. DU!Quot(V, r) = IF (V < 0) # (r < 0) THEN -q ELSE q
      BY <2>2, <3>1, QuotIs
    <3>3. q \in Nat
      <4>1. DU!Magnitude(V) \in Nat /\ DU!Magnitude(r) \in Nat \ {0}
        BY <2>2, <3>1, SizeIs
      <4>2. QED
        BY <4>1
    <3> HIDE DEF q, neg
    <3>4. QED
      BY <2>2, <2>3, <2>4, <3>1, <3>2, <3>3, MakesDuration DEF q
  <2>7. QED
    BY <1>2, <2>3, <2>5, <2>6 DEF DU!Scales, V
<1>3. QED
  BY <1>1, <1>2

LEMMA QuotParts ==
  ASSUME NEW m \in Int, NEW n \in Int, n > 0
  PROVE  LET x == DU!Magnitude(m)
         IN  /\ x \in Nat /\ (m >= 0 => x = m) /\ (m <= 0 => x = -m)
             /\ DU!Quot(m, n) = IF m < 0 THEN -(x \div n) ELSE x \div n
             /\ DU!Remainder(m, n) = IF m < 0 THEN -(x % n) ELSE x % n
<1> DEFINE x == DU!Magnitude(m)
<1>1. x \in Nat /\ DU!Magnitude(n) = n /\ (m >= 0 => x = m) /\ (m <= 0 => x = -m)
  BY SizeIs
<1>2. n # 0
  OBVIOUS
<1>3. /\ DU!Quot(m, n) = IF (m < 0) # (n < 0) THEN -(x \div DU!Magnitude(n)) ELSE x \div DU!Magnitude(n)
      /\ DU!Remainder(m, n) = IF m < 0 THEN -(x % DU!Magnitude(n)) ELSE x % DU!Magnitude(n)
  BY <1>2, QuotIs, Zenon
<1> HIDE DEF x
<1>4. QED
  BY <1>1, <1>3 DEF x

LEMMA QuotUp ==
  ASSUME NEW m \in Int, NEW n \in Int, n > 0, NEW q \in Int, NEW r \in 0 .. n - 1, m >= 0, m = q * n + r
  PROVE  DU!Quot(m, n) = q /\ DU!Remainder(m, n) = r
<1>1. m \div n = q /\ m % n = r
  BY DivModOnly, Zenon
<1>2. DU!Magnitude(m) = m /\ ~(m < 0)
  BY QuotParts
<1>3. QED
  BY <1>1, <1>2, QuotParts, Zenon

LEMMA QuotDown ==
  ASSUME NEW m \in Int, NEW n \in Int, n > 0, NEW q \in Int, NEW r \in 0 .. n - 1, m <= 0, -m = q * n + r
  PROVE  DU!Quot(m, n) = -q /\ DU!Remainder(m, n) = -r
<1> DEFINE x == DU!Magnitude(m)
<1>1. x \in Nat /\ (m <= 0 => x = -m) /\ (m >= 0 => x = m)
  BY QuotParts
<1>2. /\ DU!Quot(m, n) = IF m < 0 THEN -(x \div n) ELSE x \div n
      /\ DU!Remainder(m, n) = IF m < 0 THEN -(x % n) ELSE x % n
  BY QuotParts, Zenon
<1> HIDE DEF x
<1>3. x \div n = q /\ x % n = r
  <2>1. x \in Int /\ x = q * n + r
    BY <1>1
  <2>2. QED
    BY <2>1, DivModOnly, Zenon
<1>4. CASE m < 0
  BY <1>2, <1>3, <1>4
<1>5. CASE m = 0
  <2>1. x \in 0 .. n - 1 /\ x = 0
    <3>1. m >= 0
      BY <1>5
    <3>2. x = m
      BY <1>1, <3>1, Zenon
    <3>3. x = 0
      BY <1>5, <3>2, Zenon
    <3>4. 0 \in 0 .. n - 1
      OBVIOUS
    <3>5. QED
      BY <3>3, <3>4, Zenon
  <2>2. x % n = x
    BY <2>1, LessThanAWord, Zenon
  <2>3. r = 0
    BY <1>3, <2>1, <2>2
  <2>4. q * n = 0 /\ q * n \in Int
    <3>1. x = q * n + r
      BY <1>1
    <3>2. QED
      BY <2>1, <2>3, <3>1
  <2>5. q = 0
    BY <2>4
  <2>6. QED
    BY <1>2, <1>3, <1>5, <2>3, <2>5
<1>6. QED
  BY <1>4, <1>5

\* Seconds and ticks divided by whole seconds.
LEMMA BySeconds ==
  ASSUME NEW g \in Nat, NEW f \in 0 .. DU!Ticks - 1, NEW s \in Nat \ {0}
  PROVE  /\ g \div s \in Int /\ g % s \in 0 .. s - 1 /\ g = (g \div s) * s + (g % s) /\ g \div s >= 0 /\ g \div s <= g
         /\ s * DU!Ticks \in Int /\ s * DU!Ticks > 0
         /\ (g % s) * DU!Ticks + f \in 0 .. s * DU!Ticks - 1
         /\ g * DU!Ticks + f = (g \div s) * (s * DU!Ticks) + ((g % s) * DU!Ticks + f)
<1> DEFINE q == g \div s
           r == g % s
<1>1. q \in Int /\ r \in 0 .. s - 1 /\ r \in Int /\ g = q * s + r /\ f \in Int /\ g \in Int /\ s \in Int
  BY DivModIs, TicksAre
<1>2. q >= 0 /\ q <= g
  BY SMT DEF q
<1> HIDE DEF q, r
<1>3. s * DU!Ticks \in Int /\ s * DU!Ticks > 0
  <2>1. 0 * DU!Ticks < s * DU!Ticks /\ 0 * DU!Ticks = 0
    BY <1>1, TicksAre, Scaling
  <2>2. QED
    BY <1>1, <2>1, TicksAre, ProductIs
<1>4. r * DU!Ticks + f \in 0 .. s * DU!Ticks - 1
  <2>1. (r + 1) * DU!Ticks = r * DU!Ticks + DU!Ticks /\ (r + 1) * DU!Ticks <= s * DU!Ticks
    BY <1>1, TicksAre, Scaling
  <2>2. 0 * DU!Ticks <= r * DU!Ticks /\ 0 * DU!Ticks = 0 /\ r * DU!Ticks \in Int
    BY <1>1, TicksAre, Scaling
  <2>3. QED
    BY <1>1, <1>3, <2>1, <2>2, TicksAre
<1>5. g * DU!Ticks = q * (s * DU!Ticks) + r * DU!Ticks
  <2>1. (q * s + r) * DU!Ticks = q * (s * DU!Ticks) + r * DU!Ticks
    BY <1>1, TicksAre, SMT
  <2>2. QED
    BY <1>1, <2>1
<1>6. q * (s * DU!Ticks) \in Int /\ r * DU!Ticks \in Int
  BY <1>1, <1>3, TicksAre, ProductIs
<1>7. QED
  BY <1>1, <1>2, <1>3, <1>4, <1>5, <1>6 DEF q, r

\* Ticks divided by those of a unit.
LEMMA ByUnits ==
  ASSUME NEW g \in Int, NEW f \in 0 .. DU!Ticks - 1
  PROVE  /\ f \div Unit \in 0 .. PerSecond - 1 /\ f % Unit \in 0 .. Unit - 1
         /\ g * DU!Ticks + f = (g * PerSecond + f \div Unit) * Unit + (f % Unit)
         /\ g * PerSecond \in Int
<1> DEFINE q == f \div Unit
           r == f % Unit
<1>1. q \in Int /\ r \in 0 .. Unit - 1 /\ r \in Int /\ f = q * Unit + r /\ f \in Int
  BY DivModIs, TicksAre
<1> HIDE DEF q, r
<1>2. q >= 0
  <2>1. q < 0 => (q + 1) * Unit <= 0 * Unit /\ (q + 1) * Unit = q * Unit + Unit /\ 0 * Unit = 0
    BY <1>1, TicksAre, Scaling
  <2>2. q * Unit \in Int
    BY <1>1, TicksAre, ProductIs
  <2>3. QED
    BY <1>1, <2>1, <2>2, TicksAre
<1>3. q < PerSecond
  <2>1. PerSecond <= q => PerSecond * Unit <= q * Unit
    BY <1>1, TicksAre, Scaling
  <2>2. q * Unit \in Int
    BY <1>1, TicksAre, ProductIs
  <2>3. QED
    BY <1>1, <2>1, <2>2, TicksAre
<1>4. g * DU!Ticks + f = (g * PerSecond + q) * Unit + r
  <2>1. g * (PerSecond * Unit) + (q * Unit + r) = (g * PerSecond + q) * Unit + r
    BY <1>1, TicksAre, SMT
  <2>2. QED
    BY <1>1, <2>1, TicksAre
<1>5. g * PerSecond \in Int
  BY TicksAre, ProductIs
<1>6. QED
  BY <1>1, <1>2, <1>3, <1>4, <1>5, TicksAre DEF q, r

LEMMA DivisionsAre == ASSUME NEW q, NEW r PROVE DU!Division(q, r).q = q /\ DU!Division(q, r).rem = r
  BY DEF DU!Division

\* Both fast paths divide as the integers are, without leaving a word.
LEMMA FastPathIs ==
  ASSUME NEW num \in Finite, NEW den \in Finite, DU!ByUnit(num, den) \/ (den.hi > 0 /\ den.lo = 0)
  PROVE  LET V == DU!Value(num)
             D == DU!Value(den)
         IN  /\ DU!IDivFastPath(num, den) = DU!Division(DU!Quot(V, D), DU!Saturated(DU!Remainder(V, D)))
             /\ DU!Quot(V, D) \in Int /\ DU!HiMin <= DU!Quot(V, D) /\ DU!Quot(V, D) <= HiMax
<1> DEFINE V == DU!Value(num)
           D == DU!Value(den)
           h == num.hi
           l == num.lo
           s == den.hi
           Wanted == /\ DU!IDivFastPath(num, den) = DU!Division(DU!Quot(V, D), DU!Saturated(DU!Remainder(V, D)))
                     /\ DU!Quot(V, D) \in Int /\ DU!HiMin <= DU!Quot(V, D) /\ DU!Quot(V, D) <= HiMax
<1>1. /\ h \in Int /\ DU!HiMin <= h /\ h <= HiMax /\ l \in 0 .. DU!Ticks - 1 /\ l \in Int
      /\ s \in Int /\ s <= HiMax /\ den.lo \in Int
      /\ V = h * DU!Ticks + l /\ V \in Int /\ D = s * DU!Ticks + den.lo /\ D \in Int
      /\ (V < 0 <=> h < 0)
  BY FiniteIs, TicksOf
<1> HIDE DEF V, D
<1>2. CASE DU!ByUnit(num, den)
  <2>1. s = 0 /\ den.lo = Unit /\ h >= 0 /\ h < (HiMax - DU!Ticks) \div PerSecond
    BY <1>2 DEF DU!ByUnit
  <2> DEFINE q == h * PerSecond + l \div Unit
             r == l % Unit
  <2>2. D = Unit /\ Unit > 0
    <3>1. 0 * DU!Ticks = 0
      BY TicksAre
    <3>2. QED
      BY <1>1, <2>1, <3>1, TicksAre
  <2>3. l \div Unit \in 0 .. PerSecond - 1 /\ r \in 0 .. Unit - 1 /\ V = q * Unit + r /\ h * PerSecond \in Int
    BY <1>1, ByUnits
  <2>4. DU!IDivFastPath(num, den) = DU!Division(q, DU!Dur(0, r))
    BY <1>2, <2>1 DEF DU!IDivFastPath
  <2>5. q \in Int /\ q <= HiMax /\ 0 <= q
    <3> DEFINE b == (HiMax - DU!Ticks) \div PerSecond
    <3>1. b \in Int /\ b * PerSecond <= HiMax - DU!Ticks
      <4>1. b \in Int /\ (HiMax - DU!Ticks) % PerSecond \in 0 .. PerSecond - 1
            /\ HiMax - DU!Ticks = b * PerSecond + ((HiMax - DU!Ticks) % PerSecond)
        BY TicksAre, DivModIs
      <4>2. b * PerSecond \in Int
        BY <4>1, TicksAre, ProductIs
      <4> HIDE DEF b
      <4>3. QED
        BY <4>1, <4>2, TicksAre
    <3>2. h < b
      BY <2>1
    <3> HIDE DEF b
    <3>3. (h + 1) * PerSecond = h * PerSecond + PerSecond /\ (h + 1) * PerSecond <= b * PerSecond
      BY <1>1, <3>1, <3>2, TicksAre, Scaling
    <3>4. 0 * PerSecond <= h * PerSecond /\ 0 * PerSecond = 0 /\ b * PerSecond \in Int
      BY <1>1, <2>1, <3>1, TicksAre, Scaling
    <3>5. QED
      BY <1>1, <2>3, <3>1, <3>3, <3>4, TicksAre
  <2> HIDE DEF q, r
  <2>6. V >= 0
    BY <1>1, <2>1
  <2>7. DU!Quot(V, D) = q /\ DU!Remainder(V, D) = r
    <3>1. DU!Quot(V, Unit) = q /\ DU!Remainder(V, Unit) = r
      <4>1. V \in Int /\ Unit \in Int /\ Unit > 0 /\ q \in Int /\ r \in 0 .. Unit - 1 /\ V >= 0 /\ V = q * Unit + r
        BY <1>1, <2>2, <2>3, <2>5, <2>6, TicksAre
      <4>2. QED
        BY <4>1, QuotUp
    <3>2. QED
      BY <2>2, <3>1
  <2>8. DU!Saturated(r) = DU!Dur(0, r)
    <3>1. r \in 0 .. DU!Ticks - 1 /\ r = 0 * DU!Ticks + r
      BY <2>3, TicksAre
    <3>2. DU!HiMin <= 0 /\ 0 <= HiMax
      BY TicksAre
    <3>3. QED
      BY <3>1, <3>2, SaturatedIs
  <2>9. QED
    BY <2>4, <2>5, <2>7, <2>8, TicksAre DEF V, D
<1>3. CASE ~DU!ByUnit(num, den) /\ s > 0 /\ den.lo = 0
  <2>1. D = s * DU!Ticks /\ s \in Nat \ {0}
    <3>1. s * DU!Ticks \in Int
      BY <1>1, TicksAre, ProductIs
    <3>2. QED
      BY <1>1, <1>3, <3>1
  <2>2. CASE h >= 0
    <3>1. DU!IDivFastPath(num, den) = DU!Division(h \div s, DU!Dur(h % s, l))
      BY <1>3, <2>2 DEF DU!IDivFastPath
    <3>2. /\ h \div s \in Int /\ h % s \in 0 .. s - 1 /\ h \div s >= 0 /\ h \div s <= h
          /\ D > 0 /\ (h % s) * DU!Ticks + l \in 0 .. D - 1
          /\ V = (h \div s) * D + ((h % s) * DU!Ticks + l)
      <4>1. h \in Nat /\ V = h * DU!Ticks + l /\ l \in 0 .. DU!Ticks - 1
        BY <1>1, <2>2, <1>3
      <4>2. /\ h \div s \in Int /\ h % s \in 0 .. s - 1 /\ h \div s >= 0 /\ h \div s <= h
            /\ s * DU!Ticks > 0 /\ (h % s) * DU!Ticks + l \in 0 .. s * DU!Ticks - 1
            /\ h * DU!Ticks + l = (h \div s) * (s * DU!Ticks) + ((h % s) * DU!Ticks + l)
        <5>1. PICK g \in Nat : g = h
          BY <4>1
        <5>2. PICK f \in 0 .. DU!Ticks - 1 : f = l
          BY <4>1
        <5>3. /\ g \div s \in Int /\ g % s \in 0 .. s - 1 /\ g \div s >= 0 /\ g \div s <= g
              /\ s * DU!Ticks > 0 /\ (g % s) * DU!Ticks + f \in 0 .. s * DU!Ticks - 1
              /\ g * DU!Ticks + f = (g \div s) * (s * DU!Ticks) + ((g % s) * DU!Ticks + f)
          BY <2>1, BySeconds, Zenon
        <5>4. QED
          BY <5>1, <5>2, <5>3, Zenon
      <4>3. QED
        BY <2>1, <4>1, <4>2, Zenon
    <3> DEFINE q == h \div s
               r == h % s
    <3> HIDE DEF q, r
    <3>3. DU!Quot(V, D) = q /\ DU!Remainder(V, D) = r * DU!Ticks + l
      <4>1. V >= 0
        BY <1>1, <2>2
      <4>2. q \in Int /\ r * DU!Ticks + l \in 0 .. D - 1 /\ V = q * D + (r * DU!Ticks + l) /\ D > 0
        BY <3>2 DEF q, r
      <4>3. PICK x \in Int : x = r * DU!Ticks + l
        BY <4>2
      <4>4. PICK y \in Int : y = D
        BY <1>1, <4>2
      <4>5. V \in Int /\ y > 0 /\ x \in 0 .. y - 1
        BY <1>1, <4>2, <4>3, <4>4
      <4>6. V = q * y + x
        BY <4>2, <4>3, <4>4, Zenon
      <4>7. DU!Quot(V, y) = q /\ DU!Remainder(V, y) = x
        BY <4>1, <4>2, <4>5, <4>6, QuotUp
      <4>8. QED
        BY <4>3, <4>4, <4>7
    <3>4. DU!Saturated(r * DU!Ticks + l) = DU!Dur(r, l)
      <4>1. r \in Int /\ DU!HiMin <= r /\ r <= HiMax
        BY <1>1, <3>2, TicksAre DEF r
      <4>2. QED
        BY <1>1, <4>1, SaturatedIs
    <3>5. DU!HiMin <= q /\ q <= HiMax /\ q \in Int
      BY <1>1, <3>2, TicksAre DEF q
    <3>6. QED
      BY <3>1, <3>3, <3>4, <3>5 DEF V, D, q, r
  <2>3. CASE ~(h >= 0)
    <3> DEFINE up == IF l # 0 THEN 1 ELSE 0
               g == -(h + up)
               f == IF l # 0 THEN DU!Ticks - l ELSE 0
               q == g \div s
               r == g % s
    <3>1. g \in Nat /\ g \in Int /\ f \in 0 .. DU!Ticks - 1 /\ f \in Int /\ up \in {0, 1} /\ up \in Int /\ g <= HiMax + 1 /\ h + up = -g
      BY <1>1, <2>3, TicksAre
    <3>2. -V = g * DU!Ticks + f
      <4>1. CASE l # 0
        <5>1. up = 1 /\ f = DU!Ticks - l /\ g = -(h + 1)
          BY <4>1
        <5>2. (-(h + 1)) * DU!Ticks = -(h * DU!Ticks) - DU!Ticks /\ h * DU!Ticks \in Int
          BY <1>1, TicksAre
        <5> HIDE DEF up, f, g
        <5>3. QED
          BY <1>1, <5>1, <5>2, TicksAre
      <4>2. CASE l = 0
        <5>1. up = 0 /\ f = 0 /\ g = -h
          BY <1>1, <4>2
        <5>2. (-h) * DU!Ticks = -(h * DU!Ticks) /\ h * DU!Ticks \in Int
          BY <1>1, TicksAre
        <5> HIDE DEF up, f, g
        <5>3. QED
          BY <1>1, <4>2, <5>1, <5>2, TicksAre
      <4>3. QED
        BY <4>1, <4>2
    <3>3. DU!IDivFastPath(num, den) = DU!Division(DU!Quot(h + up, s), DU!Dur(DU!Remainder(h + up, s) - up, l))
      BY <1>3, <2>3 DEF DU!IDivFastPath
    <3>4. (up = 1 /\ f = DU!Ticks - l) \/ (up = 0 /\ f = 0 /\ l = 0)
      OBVIOUS
    <3> HIDE DEF up, g, f
    <3>5. /\ q \in Int /\ r \in 0 .. s - 1 /\ g = q * s + r /\ q >= 0 /\ q <= g
          /\ D > 0 /\ r * DU!Ticks + f \in 0 .. D - 1
          /\ -V = q * D + (r * DU!Ticks + f)
      <4>1. s \in Nat \ {0} /\ D = s * DU!Ticks
        BY <1>1, <2>1
      <4> HIDE DEF V, D
      <4>2. /\ q \in Int /\ r \in 0 .. s - 1 /\ g = q * s + r /\ q >= 0 /\ q <= g
            /\ D > 0 /\ r * DU!Ticks + f \in 0 .. D - 1
            /\ g * DU!Ticks + f = q * D + (r * DU!Ticks + f)
        BY <3>1, <4>1, BySeconds, Zenon
      <4>3. QED
        BY <3>2, <4>2, Zenon
    <3> HIDE DEF q, r
    <3>6. DU!Quot(V, D) = -q /\ DU!Remainder(V, D) = -(r * DU!Ticks + f)
      <4>1. PICK x \in Int : x = r * DU!Ticks + f
        BY <3>5
      <4>2. PICK y \in Int : y = D
        BY <1>1, <3>5
      <4>3. V \in Int /\ V <= 0 /\ y > 0 /\ q \in Int /\ x \in 0 .. y - 1
        BY <1>1, <2>3, <3>5, <4>1, <4>2
      <4>4. -V = q * y + x
        BY <3>5, <4>1, <4>2, Zenon
      <4>5. DU!Quot(V, y) = -q /\ DU!Remainder(V, y) = -x
        BY <4>3, <4>4, QuotDown
      <4>6. QED
        BY <4>1, <4>2, <4>5
    <3>7. DU!Quot(h + up, s) = -q /\ DU!Remainder(h + up, s) = -r
      <4>1. h + up \in Int /\ h + up <= 0 /\ -(h + up) = q * s + r
        BY <1>1, <3>1, <3>5
      <4>2. PICK m \in Int : m = h + up
        BY <4>1
      <4>3. DU!Quot(m, s) = -q /\ DU!Remainder(m, s) = -r
        <5>1. PICK y \in Int : y = s
          BY <1>1
        <5>2. y > 0 /\ q \in Int /\ r \in 0 .. y - 1 /\ m <= 0 /\ -m = q * y + r
          BY <1>1, <1>3, <3>5, <4>1, <4>2, <5>1
        <5>3. DU!Quot(m, y) = -q /\ DU!Remainder(m, y) = -r
          BY <5>2, QuotDown
        <5>4. QED
          BY <5>1, <5>3
      <4>4. QED
        BY <4>2, <4>3
    <3>8. DU!Saturated(-(r * DU!Ticks + f)) = DU!Dur(-r - up, l)
      <4>1. -(r * DU!Ticks + f) = (-r - up) * DU!Ticks + l
        <5>1. r * DU!Ticks \in Int /\ (-r - up) * DU!Ticks = -(r * DU!Ticks) - up * DU!Ticks
          <6>1. r \in Int /\ up \in Int
            BY <1>1, <3>1, <3>5
          <6>2. QED
            BY <6>1, TicksAre
        <5>2. 1 * DU!Ticks = DU!Ticks /\ 0 * DU!Ticks = 0
          BY TicksAre
        <5>3. up * DU!Ticks \in Int /\ (up = 1 => up * DU!Ticks = DU!Ticks) /\ (up = 0 => up * DU!Ticks = 0)
          BY <3>1, <5>2, TicksAre
        <5>4. CASE up = 1 /\ f = DU!Ticks - l
          BY <1>1, <3>1, <5>1, <5>3, <5>4, TicksAre
        <5>5. CASE up = 0 /\ f = 0 /\ l = 0
          BY <1>1, <3>1, <5>1, <5>3, <5>5, TicksAre
        <5>6. QED
          BY <3>4, <5>4, <5>5
      <4>2. -r - up \in Int /\ DU!HiMin <= -r - up /\ -r - up <= HiMax
        BY <1>1, <3>1, <3>5, TicksAre
      <4>3. QED
        BY <1>1, <4>1, <4>2, SaturatedIs
    <3>9. -q \in Int /\ DU!HiMin <= -q /\ -q <= HiMax
      BY <3>1, <3>5, TicksAre
    <3>10. QED
      BY <3>3, <3>6, <3>7, <3>8, <3>9 DEF V, D
  <2>4. QED
    BY <2>2, <2>3
<1>4. QED
  BY <1>2, <1>3

LEMMA NegativeSame ==
  ASSUME NEW d \in DU!Durations
  PROVE  DU!Negative(d) = (d.hi < 0) /\ (d \in Finite => DU!Negative(d) = (DU!Value(d) < 0))
<1>1. DU!Zero \in DU!Durations
  BY TicksAre, FiniteIs DEF DU!Zero, DU!Dur, Finite
<1>2. DU!Negative(d) \in BOOLEAN
  BY <1>1, LessIsBoolean, Zenon DEF DU!Negative
<1>3. (d.hi < 0) \in BOOLEAN /\ (DU!Negative(d) <=> d.hi < 0)
  BY DurationsAre, NegativeIs
<1>4. DU!Negative(d) = (d.hi < 0)
  BY <1>2, <1>3, Zenon
<1>5. d \in Finite => (d.hi < 0) = (DU!Value(d) < 0)
  BY TicksOf, FiniteIs
<1>6. QED
  BY <1>4, <1>5, Zenon

LEMMA CountIs ==
  ASSUME NEW n \in Int
  PROVE  /\ DU!Count(n) \in Int
         /\ n > HiMax => DU!Count(n) = HiMax
         /\ n < DU!HiMin => DU!Count(n) = DU!HiMin
         /\ DU!HiMin <= n /\ n <= HiMax => DU!Count(n) = n
<1>1. n > HiMax => ~(n < DU!HiMin)
  BY TicksAre
<1>2. DU!HiMin <= n /\ n <= HiMax => ~(n < DU!HiMin) /\ ~(n > HiMax)
  BY TicksAre
<1>3. n > HiMax \/ n < DU!HiMin \/ (DU!HiMin <= n /\ n <= HiMax)
  BY TicksAre
<1>4. n > HiMax => DU!Count(n) = HiMax
  BY <1>1 DEF DU!Count
<1>5. n < DU!HiMin => DU!Count(n) = DU!HiMin
  BY <1>1 DEF DU!Count
<1>6. DU!HiMin <= n /\ n <= HiMax => DU!Count(n) = n
  BY <1>2 DEF DU!Count
<1>7. QED
  BY <1>3, <1>4, <1>5, <1>6, TicksAre

LEMMA NotZero == ASSUME NEW d \in Finite, d # DU!Zero PROVE DU!Value(d) # 0
<1>1. d.hi \in Int /\ d.lo \in 0 .. DU!Ticks - 1 /\ DU!Value(d) = d.hi * DU!Ticks + d.lo /\ d = DU!Dur(d.hi, d.lo)
  BY FiniteIs
<1>2. SUFFICES ASSUME DU!Value(d) = 0 PROVE FALSE
  OBVIOUS
<1>3. 0 \div DU!Ticks = d.hi /\ 0 % DU!Ticks = d.lo
  BY <1>1, <1>2, TicksAre, DivModOnly
<1>4. 0 \div DU!Ticks = 0 /\ 0 % DU!Ticks = 0
  <2>1. 0 = 0 * DU!Ticks + 0 /\ 0 \in 0 .. DU!Ticks - 1
    BY TicksAre
  <2>2. QED
    BY <2>1, TicksAre, DivModOnly
<1>5. QED
  BY <1>1, <1>3, <1>4 DEF DU!Zero

\* What is divided by, when a quotient is not to leave a word.
Wanted(satq, V, D) == IF satq THEN DU!Count(DU!Quot(V, D)) ELSE DU!Quot(V, D)

\* The long way through the magnitudes.
LEMMA LongPathIs ==
  ASSUME NEW num \in Finite, NEW den \in Finite, den # DU!Zero, NEW satq \in BOOLEAN,
         ~DU!ByUnit(num, den), ~(den.hi > 0 /\ den.lo = 0)
  PROVE  LET V == DU!Value(num)
             D == DU!Value(den)
             r == DU!IDivDuration(satq, num, den)
         IN  /\ r.rem = DU!Saturated(V - Wanted(satq, V, D) * D)
             /\ satq => r = DU!Division(DU!Count(DU!Quot(V, D)), r.rem)
<1> DEFINE V == DU!Value(num)
           D == DU!Value(den)
           a == DU!MakeU128Ticks(num)
           b == DU!MakeU128Ticks(den)
           p == a \div b
           neg == (V < 0) # (D < 0)
           q == IF satq /\ p > HiMax THEN (IF neg THEN -DU!HiMin ELSE HiMax) ELSE p
           Low(n) == n % (HiMax + 1)
           rem == DU!MakeDurationFromU128(a - q * b, V < 0)
           quot == IF ~neg \/ q = 0 THEN Low(q) ELSE -Low(q - 1) - 1
           c == Wanted(satq, V, D)
<1>1. V \in Int /\ D \in Int /\ D # 0 /\ a = DU!Magnitude(V) /\ b = DU!Magnitude(D)
  BY FiniteIs, NotZero, TicksOf
<1>2. DU!IDivDuration(satq, num, den) = DU!Division(quot, rem)
  <2>1. ~DU!IsInfinite(num) /\ ~DU!IsInfinite(den)
    BY FiniteIs
  <2>2. DU!Negative(num) = (V < 0) /\ DU!Negative(den) = (D < 0)
    BY NegativeSame, FiniteIs, Zenon
  <2> DEFINE neg1 == DU!Negative(num) # DU!Negative(den)
             q1 == IF satq /\ p > HiMax THEN (IF neg1 THEN -DU!HiMin ELSE HiMax) ELSE p
  <2>3. DU!IDivDuration(satq, num, den) =
          DU!Division(IF ~neg1 \/ q1 = 0 THEN Low(q1) ELSE -Low(q1 - 1) - 1,
                      DU!MakeDurationFromU128(a - q1 * b, DU!Negative(num)))
    BY <2>1 DEF DU!IDivDuration
  <2>4. QED
    BY <2>2, <2>3, Zenon
<1>3. /\ a \in Nat /\ a \in Int /\ b \in Nat \ {0} /\ b \in Int /\ b > 0 /\ p \in Int /\ p >= 0
      /\ DU!Quot(V, D) = (IF neg THEN -p ELSE p)
      /\ (V < 0 => a = -V) /\ (~(V < 0) => a = V) /\ (D < 0 => b = -D) /\ (~(D < 0) => b = D)
  <2>1. a \in Nat /\ b \in Nat \ {0} /\ (V < 0 => a = -V) /\ (~(V < 0) => a = V) /\ (D < 0 => b = -D) /\ (~(D < 0) => b = D)
    BY <1>1, SizeIs
  <2>2. DU!Quot(V, D) = (IF neg THEN -p ELSE p)
    BY <1>1, QuotIs
  <2> HIDE DEF a, b, V, D
  <2>3. p \in Int /\ p >= 0
    BY <2>1
  <2>4. QED
    BY <2>1, <2>2, <2>3
<1>4. p * b <= a /\ p * b \in Int
  <2>1. a % b \in 0 .. b - 1 /\ a = p * b + (a % b)
    BY <1>3, DivModIs
  <2>2. p * b \in Int
    BY <1>3, ProductIs
  <2>3. QED
    BY <1>3, <2>1, <2>2
<1>5. neg \in BOOLEAN
  BY <1>1
<1> HIDE DEF V, D, a, b, p, neg
<1>6. q \in Int /\ 0 <= q /\ q <= p /\ c = (IF neg THEN -q ELSE q) /\ c \in Int
      /\ (satq => q <= HiMax + 1 /\ (~neg => q <= HiMax) /\ c = DU!Count(DU!Quot(V, D)))
  <2>1. CASE ~satq
    BY <1>3, <2>1 DEF Wanted
  <2>2. CASE satq /\ neg
    <3>1. c = DU!Count(-p)
      BY <1>3, <2>2 DEF Wanted
    <3>2. -p \in Int /\ (p > HiMax => q = -DU!HiMin /\ -DU!HiMin = HiMax + 1) /\ (~(p > HiMax) => q = p)
      BY <1>3, <2>2, TicksAre
    <3>3. (p > HiMax => DU!Count(-p) = DU!HiMin) /\ (~(p > HiMax) => DU!Count(-p) = -p)
      <4>1. p > HiMax => -p < DU!HiMin \/ (DU!HiMin <= -p /\ -p <= HiMax /\ -p = DU!HiMin)
        BY <1>3, TicksAre
      <4>2. ~(p > HiMax) => DU!HiMin <= -p /\ -p <= HiMax
        BY <1>3, TicksAre
      <4>3. QED
        BY <3>2, <4>1, <4>2, CountIs
    <3> HIDE DEF q, c
    <3>4. q \in Int /\ 0 <= q /\ q <= p /\ q <= HiMax + 1 /\ c = -q
      BY <1>3, <3>1, <3>2, <3>3, TicksAre
    <3>5. c = DU!Count(DU!Quot(V, D))
      BY <1>3, <2>2, <3>1
    <3>6. QED
      BY <2>2, <3>4, <3>5
  <2>3. CASE satq /\ ~neg
    <3>1. c = DU!Count(p)
      BY <1>3, <2>3 DEF Wanted
    <3>2. (p > HiMax => q = HiMax) /\ (~(p > HiMax) => q = p)
      BY <2>3
    <3>3. (p > HiMax => DU!Count(p) = HiMax) /\ (~(p > HiMax) => DU!Count(p) = p)
      <4>1. ~(p > HiMax) => DU!HiMin <= p /\ p <= HiMax
        BY <1>3, TicksAre
      <4>2. QED
        BY <1>3, <4>1, CountIs
    <3> HIDE DEF q, c
    <3>4. q \in Int /\ 0 <= q /\ q <= p /\ q <= HiMax /\ c = q
      BY <1>3, <3>1, <3>2, <3>3, TicksAre
    <3>5. c = DU!Count(DU!Quot(V, D))
      BY <1>3, <2>3, <3>1
    <3>6. QED
      BY <2>3, <3>4, <3>5, TicksAre
  <2>4. QED
    BY <1>5, <2>1, <2>2, <2>3
<1>7. satq => quot = c
  <2>1. SUFFICES ASSUME satq PROVE quot = c
    OBVIOUS
  <2>2. HiMax + 1 > 0 /\ HiMax + 1 \in Int
    BY TicksAre
  <2>3. \A n \in 0 .. HiMax : Low(n) = n
    <3>1. ASSUME NEW n \in 0 .. HiMax PROVE n % (HiMax + 1) = n
      <4>1. n \in Int /\ n \in 0 .. (HiMax + 1) - 1 /\ n = 0 * (HiMax + 1) + n
        BY TicksAre
      <4>2. QED
        BY <2>2, <4>1, DivModOnly
    <3>2. QED
      BY <3>1
  <2> HIDE DEF q, c
  <2>4. CASE ~neg
    <3>1. q \in 0 .. HiMax
      BY <1>6, <2>1, <2>4, TicksAre
    <3>2. QED
      BY <1>6, <2>3, <2>4, <3>1
  <2>5. CASE neg /\ q = 0
    <3>1. 0 \in 0 .. HiMax
      BY TicksAre
    <3>2. c = 0
      <4>1. c = -q /\ q = 0
        BY <1>6, <2>5, Zenon
      <4>2. -q = 0 - q
        BY <1>6
      <4>3. QED
        BY <4>1, <4>2
    <3>3. quot = Low(0)
      BY <2>5
    <3>4. QED
      BY <2>3, <3>1, <3>2, <3>3
  <2>6. CASE neg /\ q # 0
    <3>1. q - 1 \in 0 .. HiMax /\ c = -q /\ q \in Int
      BY <1>6, <2>1, <2>6, TicksAre
    <3>2. Low(q - 1) = q - 1
      BY <2>3, <3>1
    <3>3. quot = -(q - 1) - 1
      BY <2>6, <3>2
    <3>4. QED
      BY <3>1, <3>3
  <2>7. QED
    BY <2>4, <2>5, <2>6
<1> HIDE DEF quot, c
<1>8. a - q * b \in Nat
  <2>1. q * b <= p * b /\ q * b \in Int
    BY <1>3, <1>6, Scaling, ProductIs
  <2>2. QED
    BY <1>3, <1>4, <2>1
<1>9. (IF V < 0 THEN -(a - q * b) ELSE a - q * b) = V - c * D
  <2>1. q * b \in Int /\ q \in Int
    BY <1>3, <1>6, ProductIs
  <2> HIDE DEF q
  <2>2. c * D = IF V < 0 THEN -(q * b) ELSE q * b
    <3>1. (-q) * b = -(q * b) /\ q * (-b) = -(q * b) /\ (-q) * (-b) = q * b
      BY <1>3, <2>1
    <3>2. /\ V < 0 /\ D < 0 => c = q /\ D = -b
          /\ V < 0 /\ ~(D < 0) => c = -q /\ D = b
          /\ ~(V < 0) /\ D < 0 => c = -q /\ D = -b
          /\ ~(V < 0) /\ ~(D < 0) => c = q /\ D = b
      BY <1>1, <1>3, <1>6 DEF neg
    <3>3. QED
      BY <3>1, <3>2
  <2>3. QED
    BY <1>1, <1>3, <2>1, <2>2
<1>10. rem = DU!Saturated(V - c * D)
  <2>1. (V < 0) \in BOOLEAN
    BY <1>1
  <2>2. rem = DU!Saturated(IF V < 0 THEN -(a - q * b) ELSE a - q * b)
    <3> DEFINE u == a - q * b
    <3> HIDE DEF u
    <3>1. u \in Nat
      BY <1>8 DEF u
    <3>2. DU!MakeDurationFromU128(u, V < 0) = DU!Saturated(IF V < 0 THEN -u ELSE u)
      BY <2>1, <3>1, MakesDuration, Zenon
    <3>3. QED
      BY <3>2 DEF u
  <2>3. QED
    BY <1>9, <2>2
<1> HIDE DEF rem, q
<1>11. QED
  BY <1>2, <1>6, <1>7, <1>10, DivisionsAre DEF c, V, D

\* Division, whichever way is taken.
LEMMA DivisionIs ==
  ASSUME NEW num \in Finite, NEW den \in Finite, den # DU!Zero, NEW satq \in BOOLEAN
  PROVE  LET V == DU!Value(num)
             D == DU!Value(den)
             r == DU!IDivDuration(satq, num, den)
         IN  /\ r.rem = DU!Saturated(V - Wanted(satq, V, D) * D)
             /\ satq => r = DU!Division(DU!Count(DU!Quot(V, D)), r.rem)
<1> DEFINE V == DU!Value(num)
           D == DU!Value(den)
           r == DU!IDivDuration(satq, num, den)
<1>1. CASE DU!ByUnit(num, den) \/ (den.hi > 0 /\ den.lo = 0)
  <2>1. r = DU!IDivFastPath(num, den)
    BY <1>1, FiniteIs DEF DU!IDivDuration
  <2>2. /\ DU!IDivFastPath(num, den) = DU!Division(DU!Quot(V, D), DU!Saturated(DU!Remainder(V, D)))
        /\ DU!Quot(V, D) \in Int /\ DU!HiMin <= DU!Quot(V, D) /\ DU!Quot(V, D) <= HiMax
    BY <1>1, FastPathIs
  <2>3. DU!Count(DU!Quot(V, D)) = DU!Quot(V, D) /\ Wanted(satq, V, D) = DU!Quot(V, D)
    BY <2>2, CountIs DEF Wanted
  <2>4. DU!Remainder(V, D) = V - DU!Quot(V, D) * D
    <3>1. V \in Int /\ D \in Int
      BY FiniteIs
    <3>2. D * DU!Quot(V, D) = DU!Quot(V, D) * D
      BY <2>2, <3>1
    <3>3. QED
      BY <3>2 DEF DU!Remainder
  <2>5. QED
    BY <2>1, <2>2, <2>3, <2>4, DivisionsAre
<1>2. CASE ~(DU!ByUnit(num, den) \/ (den.hi > 0 /\ den.lo = 0))
  BY <1>2, LongPathIs
<1>3. QED
  BY <1>1, <1>2

\* A number within the range is that of a duration.
LEMMA SaturatedValue ==
  ASSUME NEW n \in Int
  PROVE  /\ DU!Least <= n /\ n <= DU!Most => DU!Saturated(n) \in Finite /\ DU!Value(DU!Saturated(n)) = n
         /\ n > DU!Most => DU!Saturated(n) = DU!Infinite
         /\ n < DU!Least => DU!Saturated(n) = DU!MinusInfinite
         /\ DU!Saturated(n) \in DU!Durations
<1> DEFINE h == n \div DU!Ticks
           l == n % DU!Ticks
<1>1. h \in Int /\ l \in 0 .. DU!Ticks - 1 /\ l \in Int /\ n = h * DU!Ticks + l /\ h * DU!Ticks \in Int
  <2>1. h \in Int /\ l \in 0 .. DU!Ticks - 1 /\ n = h * DU!Ticks + l
    BY WordsOf
  <2> HIDE DEF h, l
  <2>2. QED
    BY <2>1, TicksAre, ProductIs
<1> HIDE DEF h, l
<1>2. (h + 1) * DU!Ticks = h * DU!Ticks + DU!Ticks
  BY <1>1, TicksAre, Scaling
<1>3. h > HiMax <=> n > DU!Most
  <2>1. h > HiMax => (HiMax + 1) * DU!Ticks <= h * DU!Ticks
    BY <1>1, TicksAre, Scaling
  <2>2. ~(h > HiMax) => h * DU!Ticks <= HiMax * DU!Ticks
    <3>1. ~(h > HiMax) => h <= HiMax
      BY <1>1, TicksAre
    <3>2. QED
      BY <1>1, <3>1, TicksAre, Scaling
  <2>3. QED
    BY <1>1, <2>1, <2>2, BoundsAre, TicksAre
<1>4. h < DU!HiMin <=> n < DU!Least
  <2>1. h < DU!HiMin => (h + 1) * DU!Ticks <= DU!HiMin * DU!Ticks
    BY <1>1, TicksAre, Scaling
  <2>2. ~(h < DU!HiMin) => DU!HiMin * DU!Ticks <= h * DU!Ticks
    <3>1. ~(h < DU!HiMin) => DU!HiMin <= h
      BY <1>1, TicksAre
    <3>2. QED
      BY <1>1, <3>1, TicksAre, Scaling
  <2>3. QED
    BY <1>1, <1>2, <2>1, <2>2, BoundsAre, TicksAre
<1>5. n > DU!Most => DU!Saturated(n) = DU!Infinite
  BY <1>1, <1>3, SaturatedIs
<1>6. n < DU!Least => DU!Saturated(n) = DU!MinusInfinite
  BY <1>1, <1>4, SaturatedIs
<1>7. ASSUME DU!Least <= n, n <= DU!Most
      PROVE  DU!Saturated(n) \in Finite /\ DU!Value(DU!Saturated(n)) = n
  <2>1. DU!HiMin <= h /\ h <= HiMax
    BY <1>1, <1>3, <1>4, <1>7, BoundsAre, TicksAre
  <2>2. DU!Saturated(n) = DU!Dur(h, l)
    BY <1>1, <2>1, SaturatedIs
  <2>3. DU!Dur(h, l) \in Finite
    BY <1>1, <2>1, MakesFinite
  <2>4. DU!Value(DU!Dur(h, l)) = n
    BY <1>1, DurIs DEF DU!Value
  <2>5. QED
    BY <2>2, <2>3, <2>4
<1>8. DU!Saturated(n) \in DU!Durations
  <2>1. n > DU!Most \/ n < DU!Least \/ (DU!Least <= n /\ n <= DU!Most)
    BY BoundsAre
  <2>2. QED
    BY <1>5, <1>6, <1>7, <2>1, InfinitiesAre, FiniteIs
<1>9. QED
  BY <1>5, <1>6, <1>7, <1>8

\* What remains, and what is left without it, are durations.
LEMMA TruncIs ==
  ASSUME NEW d \in Finite, NEW e \in Finite, e # DU!Zero
  PROVE  LET V == DU!Value(d)
             D == DU!Value(e)
             t == DU!Quot(V, D) * D
         IN  /\ DU!Modulo(d, e) = DU!Saturated(DU!Remainder(V, D))
             /\ DU!Trunc(d, e) = DU!Saturated(t)
             /\ DU!Trunc(d, e) \in Finite /\ DU!Value(DU!Trunc(d, e)) = t /\ t \in Int
             /\ DU!Quot(V, D) \in Int /\ DU!Remainder(V, D) = V - t
             /\ DU!Magnitude(D) \in Nat \ {0} /\ DU!Magnitude(V) % DU!Magnitude(D) \in Nat
             /\ V < 0 => t = V + (DU!Magnitude(V) % DU!Magnitude(D))
             /\ ~(V < 0) => t = V - (DU!Magnitude(V) % DU!Magnitude(D))
<1> DEFINE V == DU!Value(d)
           D == DU!Value(e)
           Q == DU!Quot(V, D)
           t == Q * D
           a == DU!Magnitude(V)
           b == DU!Magnitude(D)
           r == a % b
           m == DU!Remainder(V, D)
<1>1. V \in Int /\ D \in Int /\ D # 0 /\ DU!Least <= V /\ V <= DU!Most /\ DU!Least < 0 /\ DU!Most > 0 /\ DU!Least \in Int /\ DU!Most \in Int
  BY FiniteIs, NotZero, RankIs, BoundsAre
<1>2. a \in Nat /\ b \in Nat \ {0} /\ (V < 0 => a = -V) /\ (~(V < 0) => a = V)
  BY <1>1, SizeIs
<1>3. m = (IF V < 0 THEN -r ELSE r) /\ Q \in Int /\ r \in 0 .. b - 1 /\ r \in Int
  <2>1. /\ Q = IF (V < 0) # (D < 0) THEN -(a \div b) ELSE a \div b
        /\ m = (IF V < 0 THEN -r ELSE r) /\ a \div b \in Int /\ r \in 0 .. b - 1
    BY <1>1, QuotIs
  <2> HIDE DEF Q, r, m, a, b, V, D
  <2>2. QED
    BY <1>2, <2>1
<1> HIDE DEF V, D, Q, a, b
<1>4. r <= a
  BY <1>2
<1> HIDE DEF r
<1>5. m = V - t /\ t \in Int
  <2>1. D * Q = Q * D /\ Q * D \in Int
    BY <1>1, <1>3
  <2>2. m = V - D * Q
    BY DEF DU!Remainder, Q
  <2>3. QED
    BY <2>1, <2>2
<1> HIDE DEF m, t
<1>6. m \in Int /\ DU!Least <= m /\ m <= DU!Most /\ DU!Least <= t /\ t <= DU!Most
      /\ (V < 0 => t = V + r) /\ (~(V < 0) => t = V - r)
  BY <1>1, <1>2, <1>3, <1>4, <1>5
<1>7. DU!Modulo(d, e) = DU!Saturated(m)
  <2>1. DU!IDivDuration(FALSE, d, e).rem = DU!Saturated(V - Wanted(FALSE, V, D) * D)
    BY DivisionIs DEF V, D
  <2>2. Wanted(FALSE, V, D) = Q
    BY DEF Wanted, Q
  <2>3. QED
    BY <1>5, <2>1, <2>2 DEF DU!Modulo, t
<1>8. DU!Saturated(m) \in Finite /\ DU!Value(DU!Saturated(m)) = m
  BY <1>6, SaturatedValue
<1>9. DU!Trunc(d, e) = DU!Saturated(t)
  <2>1. DU!Trunc(d, e) = DU!Minus(d, DU!Saturated(m))
    BY <1>7 DEF DU!Trunc
  <2>2. DU!Minus(d, DU!Saturated(m)) = DU!Saturated(V - m)
    BY <1>8, DifferenceIs DEF V
  <2>3. V - m = t
    BY <1>1, <1>5
  <2>4. QED
    BY <2>1, <2>2, <2>3
<1>10. DU!Trunc(d, e) \in Finite /\ DU!Value(DU!Trunc(d, e)) = t
  BY <1>5, <1>6, <1>9, SaturatedValue
<1>11. r \in Nat /\ (V < 0 => t = V + r) /\ (~(V < 0) => t = V - r) /\ Q \in Int /\ t \in Int /\ b \in Nat \ {0}
  BY <1>2, <1>3, <1>5, <1>6
<1>12. QED
  BY <1>5, <1>7, <1>9, <1>10, <1>11, Zenon DEF V, D, Q, a, b, r, m, t

LEMMA AbsIs ==
  ASSUME NEW e \in Finite
  PROVE  DU!Abs(e) = DU!Saturated(DU!Magnitude(DU!Value(e)))
<1>1. DU!Value(e) \in Int
  BY FiniteIs
<1>2. DU!Negative(e) <=> DU!Value(e) < 0
  BY FiniteIs, NegativeIs
<1>3. CASE DU!Value(e) < 0
  BY <1>1, <1>2, <1>3, OppositeIs, SizeIs DEF DU!Abs
<1>4. CASE ~(DU!Value(e) < 0)
  BY <1>1, <1>2, <1>4, FiniteSaturated, SizeIs DEF DU!Abs
<1>5. QED
  BY <1>3, <1>4

\* Rounded down and up, with the magnitudes.
LEMMA RoundIs ==
  ASSUME NEW v \in Int, NEW y \in Nat \ {0}
  PROVE  LET r == DU!Magnitude(v) % y
         IN  /\ v < 0 /\ r # 0 => (v \div y) * y = v + r - y
             /\ v < 0 /\ r = 0 => (v \div y) * y = v
             /\ ~(v < 0) => (v \div y) * y = v - r
<1> DEFINE a == DU!Magnitude(v)
           p == a \div y
           r == a % y
<1>1. a \in Nat /\ a \in Int /\ (v < 0 => a = -v) /\ (~(v < 0) => a = v) /\ y \in Int /\ y > 0
  BY SizeIs
<1> HIDE DEF a
<1>2. p \in Int /\ r \in 0 .. y - 1 /\ r \in Int /\ a = p * y + r
  BY <1>1, DivModIs
<1> HIDE DEF p, r
<1>3. p * y \in Int /\ (-p) * y = -(p * y) /\ (-p - 1) * y = -(p * y) - y
  BY <1>1, <1>2
<1>4. ASSUME v < 0, r # 0 PROVE (v \div y) * y = v + r - y
  <2>1. -p - 1 \in Int /\ y - r \in 0 .. y - 1 /\ v = (-p - 1) * y + (y - r)
    BY <1>1, <1>2, <1>3, <1>4
  <2>2. v \div y = -p - 1
    BY <1>1, <2>1, DivModOnly
  <2>3. QED
    BY <1>1, <1>2, <1>3, <1>4, <2>2
<1>5. ASSUME v < 0, r = 0 PROVE (v \div y) * y = v
  <2>1. -p \in Int /\ 0 \in 0 .. y - 1 /\ v = (-p) * y + 0
    BY <1>1, <1>2, <1>3, <1>5
  <2>2. v \div y = -p
    BY <1>1, <2>1, DivModOnly
  <2>3. QED
    BY <1>1, <1>2, <1>3, <1>5, <2>2
<1>6. ASSUME ~(v < 0) PROVE (v \div y) * y = v - r
  <2>1. v = p * y + r
    BY <1>1, <1>2, <1>6
  <2>2. v \div y = p
    BY <1>1, <1>2, <2>1, DivModOnly
  <2>3. QED
    BY <1>1, <1>2, <1>3, <2>1, <2>2
<1>7. QED
  BY <1>4, <1>5, <1>6 DEF a, r

\* Rounded to multiples of a duration.
LEMMA FloorIs ==
  ASSUME NEW d \in Finite, NEW e \in Finite, e # DU!Zero, DU!Value(e) # DU!Least
  PROVE  LET y == DU!Magnitude(DU!Value(e)) IN DU!Floor(d, e) = DU!Saturated((DU!Value(d) \div y) * y)
<1> DEFINE V == DU!Value(d)
           D == DU!Value(e)
           y == DU!Magnitude(D)
           r == DU!Magnitude(V) % y
           t == DU!Quot(V, D) * D
           td == DU!Trunc(d, e)
<1>1. V \in Int /\ D \in Int /\ DU!Least \in Int /\ DU!Most \in Int /\ DU!Least = -DU!Most - 1 /\ DU!Least <= D /\ D <= DU!Most /\ DU!Least < 0
  BY FiniteIs, RankIs, BoundsAre
<1>2. /\ td = DU!Saturated(t) /\ td \in Finite /\ DU!Value(td) = t /\ t \in Int /\ y \in Nat \ {0} /\ r \in Nat
      /\ (V < 0 => t = V + r) /\ (~(V < 0) => t = V - r)
  BY TruncIs, Zenon
<1>3. /\ (V < 0 /\ r # 0 => (V \div y) * y = V + r - y)
      /\ (V < 0 /\ r = 0 => (V \div y) * y = V)
      /\ (~(V < 0) => (V \div y) * y = V - r)
  BY <1>1, <1>2, RoundIs, Zenon
<1>4. DU!Abs(e) \in Finite /\ DU!Value(DU!Abs(e)) = y
  <2>1. DU!Least <= y /\ y <= DU!Most /\ y \in Int
    BY <1>1, SizeIs
  <2>2. DU!Abs(e) = DU!Saturated(y)
    BY AbsIs
  <2>3. QED
    BY <2>1, <2>2, SaturatedValue
<1>5. DU!Less(d, td) <=> V < t
  <2>1. DU!Rank(d) = V /\ DU!Rank(td) = t /\ d \in DU!Durations /\ td \in DU!Durations
    BY <1>2, RankIs, FiniteIs
  <2>2. QED
    BY <2>1, EarlierIs
<1>6. DU!Minus(td, DU!Abs(e)) = DU!Saturated(t - y)
  BY <1>2, <1>4, DifferenceIs
<1>7. DU!Floor(d, e) = IF ~DU!Less(d, td) THEN td ELSE DU!Minus(td, DU!Abs(e))
  BY DEF DU!Floor
<1> HIDE DEF V, D, y, r, t, td
<1>8. CASE V < t
  <2>1. V < 0 /\ r # 0 /\ t - y = V + r - y
    BY <1>1, <1>2, <1>8
  <2>2. QED
    BY <1>3, <1>5, <1>6, <1>7, <1>8, <2>1 DEF V, D, y
<1>9. CASE ~(V < t)
  <2>1. (V \div y) * y = t
    BY <1>1, <1>2, <1>3, <1>9
  <2>2. QED
    BY <1>2, <1>5, <1>7, <1>9, <2>1 DEF V, D, y
<1>10. QED
  BY <1>8, <1>9

LEMMA CeilIs ==
  ASSUME NEW d \in Finite, NEW e \in Finite, e # DU!Zero
  PROVE  LET y == DU!Magnitude(DU!Value(e)) IN DU!Ceil(d, e) = DU!Saturated(-((-DU!Value(d)) \div y) * y)
<1> DEFINE V == DU!Value(d)
           D == DU!Value(e)
           y == DU!Magnitude(D)
           r == DU!Magnitude(V) % y
           t == DU!Quot(V, D) * D
           td == DU!Trunc(d, e)
           n == (-V) \div y
           up == -n * y
<1>1. /\ V \in Int /\ D \in Int /\ -V \in Int /\ DU!Magnitude(-V) = DU!Magnitude(V)
      /\ DU!Least \in Int /\ DU!Most \in Int /\ DU!Least = -DU!Most - 1 /\ DU!Least <= D /\ D <= DU!Most /\ DU!Least < 0
  BY FiniteIs, RankIs, BoundsAre, SizeIs
<1>2. /\ td = DU!Saturated(t) /\ td \in Finite /\ DU!Value(td) = t /\ t \in Int /\ y \in Nat \ {0} /\ r \in Nat
      /\ (V < 0 => t = V + r) /\ (~(V < 0) => t = V - r)
  BY TruncIs, Zenon
<1>3. /\ (-V < 0 /\ r # 0 => n * y = -V + r - y)
      /\ (-V < 0 /\ r = 0 => n * y = -V)
      /\ (~(-V < 0) => n * y = -V - r)
  <2>1. LET s == DU!Magnitude(-V) % y
        IN  /\ -V < 0 /\ s # 0 => n * y = -V + s - y
            /\ -V < 0 /\ s = 0 => n * y = -V
            /\ ~(-V < 0) => n * y = -V - s
    BY <1>1, <1>2, RoundIs, Zenon
  <2>2. QED
    BY <1>1, <2>1, Zenon
<1>4. DU!Less(td, d) <=> t < V
  <2>1. DU!Rank(d) = V /\ DU!Rank(td) = t /\ d \in DU!Durations /\ td \in DU!Durations
    BY <1>2, RankIs, FiniteIs
  <2>2. QED
    BY <2>1, EarlierIs
<1>5. DU!Abs(e) = DU!Saturated(y)
  BY AbsIs
<1>6. DU!Ceil(d, e) = IF ~DU!Less(td, d) THEN td ELSE DU!Plus(td, DU!Abs(e))
  BY DEF DU!Ceil
<1>7. n \in Int /\ y \in Int /\ y > 0 /\ n * y \in Int /\ up = -(n * y)
  <2>1. y \in Int /\ y > 0 /\ n \in Int
    <3>1. y \in Int /\ y > 0
      BY <1>2
    <3> HIDE DEF y, V
    <3>2. QED
      BY <1>1, <3>1
  <2> HIDE DEF n, y
  <2>2. QED
    BY <2>1
<1>8. V = 0 => r = 0
  <2>1. SUFFICES ASSUME V = 0 PROVE r = 0
    OBVIOUS
  <2>2. DU!Magnitude(V) = 0
    BY <1>1, <2>1, SizeIs
  <2> HIDE DEF y
  <2>3. 0 = 0 * y + 0 /\ 0 \in 0 .. y - 1
    BY <1>7
  <2>4. 0 % y = 0
    BY <1>7, <2>3, DivModOnly
  <2>5. QED
    BY <2>2, <2>4
<1> HIDE DEF V, D, y, r, t, td, up, n
<1>9. CASE t < V
  <2>1. V > 0 /\ r # 0 /\ up = t + y /\ t >= 0
    <3>1. V > 0 /\ r # 0 /\ t = V - r /\ -V < 0
      BY <1>1, <1>2, <1>8, <1>9
    <3>2. up = t + y
      BY <1>1, <1>2, <1>3, <1>7, <3>1
    <3>3. r <= V
      <4>1. DU!Magnitude(V) = V
        BY <1>1, <3>1, SizeIs
      <4>2. r <= V
        BY <1>1, <1>7, <3>1, <4>1 DEF r
      <4>3. QED
        BY <4>2
    <3>4. QED
      BY <1>1, <1>2, <3>1, <3>2, <3>3
  <2>2. CASE D # DU!Least
    <3>1. DU!Least <= y /\ y <= DU!Most
      <4>1. (D < 0 => y = -D) /\ (~(D < 0) => y = D)
        BY <1>1, SizeIs DEF y
      <4>2. QED
        BY <1>1, <2>2, <4>1
    <3>2. DU!Abs(e) \in Finite /\ DU!Value(DU!Abs(e)) = y
      BY <1>5, <1>7, <3>1, SaturatedValue
    <3>3. DU!Plus(td, DU!Abs(e)) = DU!Saturated(t + y)
      BY <1>2, <3>2, SumIs
    <3>4. QED
      BY <1>4, <1>6, <1>9, <2>1, <3>3 DEF up, n, y, D, V
  <2>3. CASE D = DU!Least
    <3>1. y = DU!Most + 1
      <4>1. y = -D
        BY <1>1, <2>3, SizeIs DEF y
      <4>2. QED
        BY <1>1, <2>3, <4>1
    <3>2. DU!Abs(e) = DU!Infinite
      BY <1>1, <1>5, <1>7, <3>1, SaturatedValue
    <3>3. DU!Plus(td, DU!Infinite) = DU!Infinite
      BY <1>2, FiniteIs, InfinitiesAre DEF DU!Plus
    <3>4. DU!Saturated(up) = DU!Infinite
      <4>1. up \in Int /\ up > DU!Most
        BY <1>1, <1>2, <1>7, <2>1, <3>1
      <4>2. QED
        BY <4>1, SaturatedValue
    <3>5. QED
      BY <1>4, <1>6, <1>9, <3>2, <3>3, <3>4 DEF up, n, y, D, V
  <2>4. QED
    BY <2>2, <2>3
<1>10. CASE ~(t < V)
  <2>1. up = t
    BY <1>1, <1>2, <1>3, <1>7, <1>8, <1>10
  <2>2. QED
    BY <1>2, <1>4, <1>6, <1>10, <2>1 DEF up, n, y, D, V
<1>11. QED
  BY <1>9, <1>10

LEMMA DividesAre == ASSUME NEW d \in DU!Durations, NEW e \in DU!Durations PROVE DU!Divides(d, e)
<1> DEFINE V == DU!Value(d)
           D == DU!Value(e)
           y == DU!Magnitude(D)
           r == DU!IDivDuration(TRUE, d, e)
<1>1. DU!Zero.hi = 0 /\ DU!Zero.lo = 0 /\ ~DU!IsInfinite(DU!Zero)
  BY TicksAre DEF DU!Zero, DU!Dur, DU!IsInfinite
<1>2. CASE DU!IsInfinite(d) \/ e = DU!Zero
  <2>1. ~(~DU!IsInfinite(d) /\ ~DU!IsInfinite(e) /\ (DU!ByUnit(d, e) \/ (e.hi > 0 /\ e.lo = 0)))
    BY <1>1, <1>2, TicksAre DEF DU!ByUnit
  <2>2. r = DU!Division(IF DU!Negative(d) # DU!Negative(e) THEN DU!HiMin ELSE HiMax, DU!Signed(DU!Negative(d)))
    BY <1>1, <1>2, <2>1 DEF DU!IDivDuration
  <2>3. QED
    BY <1>2, <2>2 DEF DU!Divides
<1>3. CASE ~DU!IsInfinite(d) /\ e # DU!Zero /\ DU!IsInfinite(e)
  <2>1. r = DU!Division(0, d) /\ DU!IDivDuration(FALSE, d, e) = DU!Division(0, d)
    BY <1>3 DEF DU!IDivDuration
  <2>2. DU!Modulo(d, e) = d
    BY <2>1, DivisionsAre DEF DU!Modulo
  <2>3. QED
    BY <1>3, <2>1, <2>2 DEF DU!Divides
<1>4. CASE ~DU!IsInfinite(d) /\ e # DU!Zero /\ ~DU!IsInfinite(e)
  <2>1. d \in Finite /\ e \in Finite
    BY <1>4, DurationsAre
  <2>2. r = DU!Division(DU!Count(DU!Quot(V, D)), DU!Saturated(V - DU!Count(DU!Quot(V, D)) * D))
    <3>1. Wanted(TRUE, V, D) = DU!Count(DU!Quot(V, D))
      BY DEF Wanted
    <3>2. QED
      BY <1>4, <2>1, <3>1, DivisionIs
  <2>3. DU!Modulo(d, e) = DU!Saturated(DU!Remainder(V, D)) /\ DU!Trunc(d, e) = DU!Saturated(DU!Quot(V, D) * D)
    BY <1>4, <2>1, TruncIs
  <2>4. D # DU!Least => DU!Floor(d, e) = DU!Saturated((V \div y) * y)
    BY <1>4, <2>1, FloorIs
  <2>5. DU!Ceil(d, e) = DU!Saturated(-((-V) \div y) * y)
    BY <1>4, <2>1, CeilIs
  <2>6. QED
    BY <1>4, <2>2, <2>3, <2>4, <2>5 DEF DU!Divides
<1>5. QED
  BY <1>2, <1>3, <1>4

\* Counts of units and the ticks of them.
LEMMA UnitTicks ==
  ASSUME NEW n \in Int
  PROVE  /\ n * Unit \in Int
         /\ n \in 0 .. PerSecond - 1 => n * Unit \in 0 .. DU!Ticks - 1 /\ n * Unit <= DU!Ticks - Unit
<1>1. n * Unit \in Int
  BY TicksAre, ProductIs
<1>2. ASSUME n \in 0 .. PerSecond - 1 PROVE n * Unit \in 0 .. DU!Ticks - 1 /\ n * Unit <= DU!Ticks - Unit
  <2>1. 0 * Unit <= n * Unit /\ 0 * Unit = 0
    BY <1>2, TicksAre, Scaling
  <2>2. (n + 1) * Unit <= PerSecond * Unit /\ (n + 1) * Unit = n * Unit + Unit
    BY <1>2, TicksAre, Scaling
  <2>3. QED
    BY <1>1, <2>1, <2>2, TicksAre
<1>3. QED
  BY <1>1, <1>2

LEMMA FromUnitsIs ==
  ASSUME NEW v \in DU!HiMin .. HiMax
  PROVE  DU!FromUnits(v) \in Finite /\ DU!Value(DU!FromUnits(v)) = v * Unit
<1> DEFINE a == DU!Magnitude(v)
           q == a \div PerSecond
           r == a % PerSecond
           sec == DU!Quot(v, PerSecond)
           ticks == DU!Remainder(v, PerSecond) * Unit
<1>1. v \in Int /\ DU!HiMin <= v /\ v <= HiMax /\ PerSecond # 0 /\ DU!Magnitude(PerSecond) = PerSecond /\ ~(PerSecond < 0)
  BY TicksAre, SizeIs
<1>2. a \in Nat /\ a \in Int /\ a <= HiMax + 1 /\ (v < 0 => a = -v) /\ (~(v < 0) => a = v)
  BY <1>1, SizeIs, TicksAre
<1>3. sec = (IF v < 0 THEN -q ELSE q) /\ DU!Remainder(v, PerSecond) = (IF v < 0 THEN -r ELSE r)
  <2>1. /\ DU!Quot(v, PerSecond) = IF (v < 0) # (PerSecond < 0) THEN -(a \div DU!Magnitude(PerSecond)) ELSE a \div DU!Magnitude(PerSecond)
        /\ DU!Remainder(v, PerSecond) = IF v < 0 THEN -(a % DU!Magnitude(PerSecond)) ELSE a % DU!Magnitude(PerSecond)
    BY <1>1, TicksAre, QuotIs, Zenon
  <2> HIDE DEF a
  <2>2. QED
    BY <1>1, <2>1
<1> HIDE DEF a
<1>4. q \in Int /\ r \in 0 .. PerSecond - 1 /\ r \in Int /\ a = q * PerSecond + r
  BY <1>2, TicksAre, DivModIs
<1> HIDE DEF q, r
<1>5. 0 <= q /\ q <= HiMax
  <2>1. q * PerSecond \in Int
    BY <1>4, TicksAre, ProductIs
  <2>2. q >= 0
    <3>1. q < 0 => (q + 1) * PerSecond <= 0 * PerSecond /\ (q + 1) * PerSecond = q * PerSecond + PerSecond /\ 0 * PerSecond = 0
      BY <1>4, TicksAre, Scaling
    <3>2. QED
      BY <1>2, <1>4, <2>1, <3>1, TicksAre
  <2>3. q * 2 <= q * PerSecond
    <3>1. 0 * q = 0 /\ PerSecond - 2 \in Int /\ 0 <= PerSecond - 2
      BY <1>4, TicksAre
    <3>2. q * (PerSecond - 2) = q * PerSecond - q * 2
      BY <1>4, TicksAre
    <3>3. q * (PerSecond - 2) >= 0
      BY <1>4, <2>2, <3>1
    <3>4. QED
      BY <1>4, <2>1, <3>2, <3>3
  <2>4. QED
    BY <1>2, <1>4, <2>1, <2>2, <2>3, TicksAre
<1>6. r * Unit \in Int /\ r * Unit \in 0 .. DU!Ticks - 1
  BY <1>4, UnitTicks
<1>7. a * Unit = q * DU!Ticks + r * Unit
  <2>1. (q * PerSecond + r) * Unit = q * (PerSecond * Unit) + r * Unit
    BY <1>4, TicksAre
  <2>2. QED
    BY <1>4, <2>1, TicksAre
<1>8. q * DU!Ticks \in Int /\ a * Unit \in Int /\ v * Unit \in Int /\ (v < 0 => v * Unit = -(a * Unit)) /\ (~(v < 0) => v * Unit = a * Unit)
  <2>1. (-a) * Unit = -(a * Unit) /\ a * Unit \in Int /\ q * DU!Ticks \in Int
    BY <1>2, <1>4, TicksAre
  <2>2. v < 0 => v = -a
    BY <1>1, <1>2
  <2>3. QED
    BY <1>1, <1>2, <2>1, <2>2, TicksAre, ProductIs
<1>9. DU!FromUnits(v) = IF ticks < 0 THEN DU!Dur(sec - 1, ticks + DU!Ticks) ELSE DU!Dur(sec, ticks)
  BY DEF DU!FromUnits
<1>10. ticks = IF v < 0 THEN -(r * Unit) ELSE r * Unit
  <2>1. (-r) * Unit = -(r * Unit)
    BY <1>4, TicksAre
  <2>2. QED
    BY <1>3, <2>1
<1> HIDE DEF sec, ticks
<1>11. CASE ticks < 0
  <2>1. v < 0 /\ ticks = -(r * Unit) /\ sec = -q /\ r * Unit > 0
    BY <1>3, <1>6, <1>10, <1>11
  <2>2. sec - 1 \in Int /\ DU!HiMin <= sec - 1 /\ sec - 1 <= HiMax /\ ticks + DU!Ticks \in 0 .. DU!Ticks - 1
    BY <1>4, <1>5, <1>6, <2>1, TicksAre
  <2>3. DU!FromUnits(v) \in Finite
    BY <1>9, <1>11, <2>2, MakesFinite
  <2>4. DU!Value(DU!FromUnits(v)) = (sec - 1) * DU!Ticks + (ticks + DU!Ticks)
    BY <1>9, <1>11, DurIs DEF DU!Value
  <2>5. (sec - 1) * DU!Ticks = -(q * DU!Ticks) - DU!Ticks
    <3>1. (-q - 1) * DU!Ticks = -(q * DU!Ticks) - DU!Ticks
      BY <1>4, TicksAre
    <3>2. QED
      BY <2>1, <3>1
  <2>6. QED
    BY <1>6, <1>7, <1>8, <2>1, <2>3, <2>4, <2>5, TicksAre
<1>12. CASE ~(ticks < 0)
  <2>1. ticks = r * Unit /\ (v < 0 => r * Unit = 0)
    BY <1>6, <1>10, <1>12
  <2>2. sec \in Int /\ DU!HiMin <= sec /\ sec <= HiMax /\ ticks \in 0 .. DU!Ticks - 1
    BY <1>3, <1>4, <1>5, <1>6, <2>1, TicksAre
  <2>3. DU!FromUnits(v) \in Finite
    BY <1>9, <1>12, <2>2, MakesFinite
  <2>4. DU!Value(DU!FromUnits(v)) = sec * DU!Ticks + ticks
    BY <1>9, <1>12, DurIs DEF DU!Value
  <2>5. sec * DU!Ticks = IF v < 0 THEN -(q * DU!Ticks) ELSE q * DU!Ticks
    <3>1. (-q) * DU!Ticks = -(q * DU!Ticks)
      BY <1>4, TicksAre
    <3>2. QED
      BY <1>3, <3>1
  <2>6. QED
    BY <1>6, <1>7, <1>8, <2>1, <2>3, <2>4, <2>5, TicksAre
<1>13. QED
  BY <1>11, <1>12

\* A unit, as a duration.
LEMMA UnitIs ==
  /\ DU!Dur(0, Unit) \in Finite /\ DU!Dur(0, Unit) # DU!Zero /\ DU!Value(DU!Dur(0, Unit)) = Unit
  /\ DU!Negative(DU!Dur(0, Unit)) = FALSE
<1>1. DU!Dur(0, Unit) \in Finite
  BY TicksAre, MakesFinite
<1>2. DU!Dur(0, Unit) # DU!Zero
  <2>1. DU!Dur(0, Unit).lo # DU!Zero.lo
    BY TicksAre, DurIs DEF DU!Zero
  <2>2. QED
    BY <2>1
<1>3. DU!Value(DU!Dur(0, Unit)) = Unit
  <2>1. DU!Value(DU!Dur(0, Unit)) = 0 * DU!Ticks + Unit /\ 0 * DU!Ticks = 0
    BY DurIs, TicksAre DEF DU!Value
  <2>2. QED
    BY <2>1, TicksAre
<1>4. DU!Negative(DU!Dur(0, Unit)) = FALSE
  <2>1. DU!Negative(DU!Dur(0, Unit)) = (DU!Dur(0, Unit).hi < 0) /\ DU!Dur(0, Unit).hi = 0
    BY <1>1, FiniteIs, NegativeSame, DurIs, Zenon
  <2>2. (0 < 0) = FALSE
    OBVIOUS
  <2>3. QED
    BY <2>1, <2>2, Zenon
<1>5. QED
  BY <1>1, <1>2, <1>3, <1>4

\* What is short is counted in one word.
LEMMA ShortIs ==
  ASSUME NEW d \in Finite
  PROVE  LET n == d.hi * PerSecond + (d.lo \div Unit)
         IN  /\ n \in Int /\ DU!Value(d) = n * Unit + (d.lo % Unit) /\ d.lo % Unit \in 0 .. Unit - 1
             /\ DU!Value(d) \div Unit = n
             /\ ~(d.hi < 0) => DU!Quot(DU!Value(d), Unit) = n
             /\ DU!Short(d) => DU!Count(n) = n
             /\ d.lo \div Unit \in 0 .. PerSecond - 1
<1> DEFINE p == d.lo \div Unit
           r == d.lo % Unit
           n == d.hi * PerSecond + p
           V == DU!Value(d)
<1>1. d.hi \in Int /\ d.lo \in 0 .. DU!Ticks - 1 /\ V = d.hi * DU!Ticks + d.lo /\ V \in Int
  BY FiniteIs
<1>2. p \in 0 .. PerSecond - 1 /\ r \in 0 .. Unit - 1 /\ d.hi * DU!Ticks + d.lo = n * Unit + r /\ d.hi * PerSecond \in Int
  BY <1>1, ByUnits
<1>3. n \in Int /\ V = n * Unit + r
  BY <1>1, <1>2, TicksAre
<1>4. V < 0 <=> d.hi < 0
  BY TicksOf
<1> HIDE DEF p, r, V
<1>5. n * Unit \in Int
  BY <1>3, UnitTicks
<1>6. DU!Short(d) => n >= 0 /\ n <= HiMax
  <2>1. SUFFICES ASSUME DU!Short(d) PROVE n >= 0 /\ n <= HiMax
    OBVIOUS
  <2>2. d.hi >= 0 /\ d.hi + 1 <= ShortSeconds /\ ShortSeconds \in Int /\ ShortSeconds * PerSecond <= HiMax + 1
    BY <1>1, <2>1, DurationAssumption DEF DU!Short
  <2>3. (d.hi + 1) * PerSecond = d.hi * PerSecond + PerSecond /\ (d.hi + 1) * PerSecond <= ShortSeconds * PerSecond
    <3>1. d.hi + 1 \in Int
      BY <1>1
    <3>2. QED
      BY <1>1, <2>2, <3>1, TicksAre, Scaling
  <2>4. 0 * PerSecond <= d.hi * PerSecond /\ 0 * PerSecond = 0
    BY <1>1, <2>2, TicksAre, Scaling
  <2>5. ShortSeconds * PerSecond \in Int
    BY <2>2, TicksAre, ProductIs
  <2>6. QED
    BY <1>1, <1>2, <2>2, <2>3, <2>4, <2>5, TicksAre
<1> HIDE DEF n
<1>7. V \div Unit = n
  <2>1. V \in Int /\ Unit \in Int /\ Unit > 0 /\ n \in Int /\ r \in 0 .. Unit - 1 /\ V = n * Unit + r
    BY <1>1, <1>2, <1>3, TicksAre
  <2>2. QED
    BY <2>1, DivModOnly
<1>8. ~(d.hi < 0) => DU!Quot(V, Unit) = n
  <2>1. SUFFICES ASSUME ~(d.hi < 0) PROVE DU!Quot(V, Unit) = n
    OBVIOUS
  <2>2. V \in Int /\ Unit \in Int /\ Unit > 0 /\ n \in Int /\ r \in 0 .. Unit - 1 /\ V >= 0 /\ V = n * Unit + r
    BY <1>1, <1>2, <1>3, <1>4, <2>1, TicksAre DEF V
  <2>3. QED
    BY <2>2, QuotUp
<1>9. DU!Short(d) => DU!Count(n) = n
  BY <1>3, <1>6, CountIs, TicksAre
<1>10. QED
  BY <1>2, <1>3, <1>7, <1>8, <1>9 DEF p, r, n, V

LEMMA ToUnitsIs ==
  ASSUME NEW d \in DU!Durations
  PROVE  /\ d \in Finite => DU!ToUnits(d) = DU!Count(DU!Quot(DU!Value(d), Unit))
         /\ DU!IsInfinite(d) => DU!ToUnits(d) = d.hi
<1> DEFINE unit == DU!Dur(0, Unit)
<1>1. unit \in Finite /\ unit # DU!Zero /\ DU!Value(unit) = Unit /\ ~DU!IsInfinite(unit) /\ DU!Negative(unit) = FALSE
  BY UnitIs, FiniteIs
<1>2. DU!ToUnits(d) = IF DU!Short(d) THEN d.hi * PerSecond + (d.lo \div Unit) ELSE DU!IDivDuration(TRUE, d, unit).q
  BY DEF DU!ToUnits
<1> HIDE DEF unit
<1>3. ASSUME d \in Finite PROVE DU!ToUnits(d) = DU!Count(DU!Quot(DU!Value(d), Unit))
  <2>1. CASE DU!Short(d)
    <3>1. ~(d.hi < 0)
      BY <1>3, <2>1, FiniteIs DEF DU!Short
    <3>2. DU!ToUnits(d) = d.hi * PerSecond + (d.lo \div Unit)
      BY <1>2, <2>1, Zenon
    <3>3. QED
      BY <1>3, <2>1, <3>1, <3>2, ShortIs
  <2>2. CASE ~DU!Short(d)
    <3>1. DU!IDivDuration(TRUE, d, unit) =
            DU!Division(DU!Count(DU!Quot(DU!Value(d), Unit)), DU!IDivDuration(TRUE, d, unit).rem)
      BY <1>1, <1>3, DivisionIs
    <3>2. DU!IDivDuration(TRUE, d, unit).q = DU!Count(DU!Quot(DU!Value(d), Unit))
      BY <3>1, DivisionsAre, Zenon
    <3>3. QED
      BY <1>2, <2>2, <3>2
  <2>3. QED
    BY <2>1, <2>2
<1>4. ASSUME DU!IsInfinite(d) PROVE DU!ToUnits(d) = d.hi
  <2>1. d \in {DU!Infinite, DU!MinusInfinite}
    BY <1>4, DurationsAre
  <2>2. ShortSeconds <= HiMax
    <3>1. ShortSeconds \in Int /\ ShortSeconds >= 0 /\ ShortSeconds * PerSecond <= HiMax + 1
      BY DurationAssumption
    <3>2. ShortSeconds * (PerSecond - 2) >= 0
      BY <3>1, TicksAre
    <3>3. ShortSeconds * (PerSecond - 2) = ShortSeconds * PerSecond - ShortSeconds * 2 /\ ShortSeconds * PerSecond \in Int
      BY <3>1, TicksAre
    <3>4. QED
      BY <3>1, <3>2, <3>3, TicksAre
  <2>3. ~DU!Short(d)
    <3>1. d.hi \in Int /\ (d.hi = HiMax \/ ~(d.hi >= 0))
      BY <2>1, InfinitiesAre, TicksAre
    <3>2. ShortSeconds \in Int
      BY DurationAssumption
    <3>3. QED
      BY <2>2, <3>1, <3>2, TicksAre DEF DU!Short
  <2>4. DU!IDivDuration(TRUE, d, unit) =
          DU!Division(IF DU!Negative(d) # DU!Negative(unit) THEN DU!HiMin ELSE HiMax, DU!Signed(DU!Negative(d)))
    <3>1. DU!Divides(d, unit)
      BY <1>1, FiniteIs, DividesAre
    <3>2. QED
      BY <1>4, <3>1, Zenon DEF DU!Divides
  <2>5. DU!IDivDuration(TRUE, d, unit).q = IF DU!Negative(d) # FALSE THEN DU!HiMin ELSE HiMax
    BY <1>1, <2>4, DivisionsAre, Zenon
  <2>6. DU!Negative(d) = (d.hi < 0)
    BY NegativeSame
  <2>7. DU!IDivDuration(TRUE, d, unit).q = d.hi
    <3>1. CASE d = DU!Infinite
      <4>1. (d.hi < 0) = FALSE /\ d.hi = HiMax
        BY <3>1, InfinitiesAre, TicksAre
      <4>2. QED
        BY <2>5, <2>6, <4>1, Zenon
    <3>2. CASE d = DU!MinusInfinite
      <4>1. (d.hi < 0) = TRUE /\ d.hi = DU!HiMin
        BY <3>2, InfinitiesAre, TicksAre
      <4>2. QED
        BY <2>5, <2>6, <4>1, Zenon
    <3>3. QED
      BY <2>1, <3>1, <3>2
  <2>8. QED
    BY <1>2, <2>3, <2>7
<1>5. QED
  BY <1>3, <1>4

LEMMA NegativeSaturated == ASSUME NEW n \in Int PROVE DU!Negative(DU!Saturated(n)) <=> n < 0
<1>1. DU!Saturated(n) \in DU!Durations
  BY SaturatedValue
<1>2. CASE DU!Least <= n /\ n <= DU!Most
  BY <1>1, <1>2, SaturatedValue, NegativeIs
<1>3. CASE n > DU!Most
  <2>1. DU!Saturated(n) = DU!Infinite /\ ~(DU!Infinite.hi < 0) /\ ~(n < 0)
    BY <1>3, SaturatedValue, InfinitiesAre, TicksAre, BoundsAre
  <2>2. QED
    BY <1>1, <2>1, NegativeIs
<1>4. CASE n < DU!Least
  <2>1. DU!Saturated(n) = DU!MinusInfinite /\ DU!MinusInfinite.hi < 0 /\ n < 0
    BY <1>4, SaturatedValue, InfinitiesAre, TicksAre, BoundsAre
  <2>2. QED
    BY <1>1, <2>1, NegativeIs
<1>5. QED
  BY <1>2, <1>3, <1>4, BoundsAre

LEMMA ToUnixUnitsIs ==
  ASSUME NEW d \in Finite
  PROVE  DU!ToUnixUnits(d) = DU!Count(DU!Value(d) \div Unit)
<1> DEFINE unit == DU!Dur(0, Unit)
           V == DU!Value(d)
           Q == DU!Quot(V, Unit)
           C == DU!Count(Q)
           n == V \div Unit
           a == DU!Magnitude(V)
           r == a % Unit
           div == DU!IDivDuration(TRUE, d, unit)
<1>1. unit \in Finite /\ unit # DU!Zero /\ DU!Value(unit) = Unit
  BY UnitIs
<1>2. DU!ToUnixUnits(d) = IF DU!Short(d) THEN d.hi * PerSecond + (d.lo \div Unit)
                          ELSE IF div.q > 0 \/ ~DU!Negative(div.rem) \/ div.q = DU!HiMin THEN div.q ELSE div.q - 1
  BY DEF DU!ToUnixUnits, DU!FloorToUnit
<1> HIDE DEF unit
<1>3. div.q = C /\ div.rem = DU!Saturated(V - C * Unit)
  <2>1. div = DU!Division(C, div.rem) /\ div.rem = DU!Saturated(V - Wanted(TRUE, V, Unit) * Unit)
    BY <1>1, DivisionIs
  <2>2. Wanted(TRUE, V, Unit) = C
    BY DEF Wanted
  <2>3. QED
    BY <2>1, <2>2, DivisionsAre
<1>4. V \in Int /\ DU!Magnitude(Unit) = Unit /\ Unit # 0 /\ ~(Unit < 0) /\ Unit \in Int /\ Unit > 0 /\ Unit \in Nat \ {0}
  BY FiniteIs, TicksAre, SizeIs
<1>5. /\ Q = (IF V < 0 THEN -(a \div Unit) ELSE a \div Unit) /\ a \in Nat /\ (V < 0 => a = -V) /\ (~(V < 0) => a = V)
      /\ DU!Remainder(V, Unit) = IF V < 0 THEN -r ELSE r
  <2>1. /\ Q = IF (V < 0) # (Unit < 0) THEN -(a \div DU!Magnitude(Unit)) ELSE a \div DU!Magnitude(Unit)
        /\ DU!Remainder(V, Unit) = IF V < 0 THEN -(a % DU!Magnitude(Unit)) ELSE a % DU!Magnitude(Unit)
    BY <1>4, QuotIs, Zenon
  <2>2. a \in Nat /\ (V < 0 => a = -V) /\ (~(V < 0) => a = V)
    BY <1>4, SizeIs
  <2> HIDE DEF a, V, Q
  <2>3. QED
    BY <1>4, <2>1, <2>2
<1>6. /\ (V < 0 /\ r # 0 => n * Unit = V + r - Unit)
      /\ (V < 0 /\ r = 0 => n * Unit = V)
      /\ (~(V < 0) => n * Unit = V - r)
  BY <1>4, RoundIs, Zenon
<1> HIDE DEF V, Q, a
<1>7. n \in Int /\ a \div Unit \in Int /\ r \in 0 .. Unit - 1 /\ r \in Int /\ a = (a \div Unit) * Unit + r /\ Q \in Int /\ n * Unit \in Int /\ Q * Unit \in Int
  <2>1. n \in Int /\ a \div Unit \in Int /\ r \in 0 .. Unit - 1 /\ a = (a \div Unit) * Unit + r
    BY <1>4, <1>5, DivModIs
  <2> HIDE DEF n, r
  <2>2. Q \in Int
    BY <1>5, <2>1
  <2>3. QED
    BY <1>4, <2>1, <2>2, ProductIs
<1> HIDE DEF n, r
<1>8. Q * Unit = IF V < 0 THEN V + r ELSE V - r
  <2>1. DU!Remainder(V, Unit) = V - Unit * Q
    BY DEF DU!Remainder, Q
  <2>2. Unit * Q = Q * Unit
    BY <1>4, <1>7
  <2>3. QED
    BY <1>4, <1>5, <1>7, <2>1, <2>2
<1>9. /\ (V < 0 /\ r # 0 => n = Q - 1) /\ (~(V < 0 /\ r # 0) => n = Q)
  <2>1. (Q - 1) * Unit = Q * Unit - Unit /\ Q - 1 \in Int
    BY <1>4, <1>7
  <2>2. \A x, y \in Int : x * Unit = y * Unit => x = y
    <3>1. ASSUME NEW x \in Int, NEW y \in Int, x * Unit = y * Unit PROVE x = y
      <4>1. ~(x * Unit < y * Unit) /\ ~(y * Unit < x * Unit)
        BY <1>4, <3>1, ProductIs
      <4>2. ~(x < y) /\ ~(y < x)
        BY <1>4, <4>1, Scaling
      <4>3. QED
        BY <4>2
    <3>2. QED
      BY <3>1
  <2>3. V < 0 /\ r # 0 => n * Unit = (Q - 1) * Unit
    BY <1>4, <1>6, <1>7, <1>8, <2>1
  <2>4. ~(V < 0 /\ r # 0) => n * Unit = Q * Unit
    BY <1>4, <1>5, <1>6, <1>7, <1>8
  <2>5. QED
    BY <1>7, <2>1, <2>2, <2>3, <2>4
<1>10. C \in Int
  BY <1>7, CountIs
<1> HIDE DEF C, div
<1>11. C * Unit \in Int
  BY <1>4, <1>10, ProductIs
<1>12. DU!Negative(div.rem) <=> V < C * Unit
  <2>1. V - C * Unit \in Int
    BY <1>4, <1>11
  <2>2. DU!Negative(DU!Saturated(V - C * Unit)) <=> V - C * Unit < 0
    BY <2>1, NegativeSaturated
  <2>3. V - C * Unit < 0 <=> V < C * Unit
    BY <1>4, <1>11
  <2>4. QED
    BY <1>3, <2>2, <2>3
<1>13. CASE DU!Short(d)
  <2>1. d.hi * PerSecond + (d.lo \div Unit) = n /\ DU!Count(d.hi * PerSecond + (d.lo \div Unit)) = d.hi * PerSecond + (d.lo \div Unit)
    BY <1>13, ShortIs DEF n, V
  <2>2. QED
    BY <1>2, <1>13, <2>1 DEF n, V
<1>14. CASE ~DU!Short(d) /\ ~(V < 0)
  <2>1. Q >= 0 /\ n = Q
    <3>1. a >= 0 /\ Q = a \div Unit
      BY <1>5, <1>14
    <3>2. Q >= 0
      BY <1>4, <1>5, <3>1
    <3>3. QED
      BY <1>9, <1>14, <3>2
  <2>2. C <= Q /\ C >= 0
    <3>1. (Q > HiMax => C = HiMax) /\ (~(Q > HiMax) => C = Q)
      <4>1. ~(Q > HiMax) => DU!HiMin <= Q /\ Q <= HiMax
        BY <1>7, <2>1, TicksAre
      <4>2. QED
        BY <1>7, <4>1, CountIs DEF C
    <3>2. QED
      BY <1>7, <1>10, <2>1, <3>1, TicksAre
  <2>3. C * Unit <= Q * Unit
    BY <1>4, <1>7, <1>10, <2>2, Scaling
  <2>4. ~(V < C * Unit)
    BY <1>4, <1>7, <1>8, <1>11, <1>14, <2>3
  <2>5. DU!ToUnixUnits(d) = C
    BY <1>2, <1>3, <1>12, <1>14, <2>4
  <2>6. QED
    BY <2>1, <2>5 DEF C, n, V
<1>15. CASE ~DU!Short(d) /\ V < 0
  <2>1. Q <= 0 /\ n <= Q
    <3>1. a >= 0 /\ Q = -(a \div Unit)
      BY <1>5, <1>15
    <3>2. a \div Unit >= 0
      BY <1>4, <1>5, <3>1
    <3>3. Q <= 0
      BY <1>7, <3>1, <3>2
    <3>4. n <= Q
      BY <1>7, <1>9
    <3>5. QED
      BY <3>3, <3>4
  <2>2. CASE Q <= DU!HiMin
    <3>1. C = DU!HiMin /\ DU!Count(n) = DU!HiMin
      <4>1. \A x \in Int : x <= DU!HiMin => DU!Count(x) = DU!HiMin
        <5>1. ASSUME NEW x \in Int, x <= DU!HiMin PROVE DU!Count(x) = DU!HiMin
          <6>1. x < DU!HiMin \/ (x = DU!HiMin /\ DU!HiMin <= x /\ x <= HiMax)
            BY <5>1, TicksAre
          <6>2. QED
            BY <6>1, CountIs
        <5>2. QED
          BY <5>1
      <4>2. n <= DU!HiMin
        BY <1>7, <2>1, <2>2, TicksAre
      <4>3. QED
        BY <1>7, <2>2, <4>1, <4>2 DEF C
    <3>2. DU!ToUnixUnits(d) = DU!HiMin
      BY <1>2, <1>3, <1>15, <3>1
    <3>3. QED
      BY <3>1, <3>2 DEF n, V
  <2>3. CASE ~(Q <= DU!HiMin)
    <3>1. C = Q /\ ~(C > 0) /\ C # DU!HiMin
      <4>1. DU!HiMin <= Q /\ Q <= HiMax /\ ~(Q > 0) /\ Q # DU!HiMin
        BY <1>7, <2>1, <2>3, TicksAre
      <4>2. QED
        BY <1>7, <4>1, CountIs DEF C
    <3>2. DU!Negative(div.rem) <=> r # 0
      BY <1>4, <1>7, <1>8, <1>12, <1>15, <3>1
    <3>3. DU!ToUnixUnits(d) = n
      <4>1. DU!ToUnixUnits(d) = IF r = 0 THEN Q ELSE Q - 1
        BY <1>2, <1>3, <1>15, <3>1, <3>2
      <4>2. QED
        BY <1>9, <1>15, <4>1
    <3>4. DU!Count(n) = n
      <4>1. DU!HiMin <= n /\ n <= HiMax
        BY <1>7, <1>9, <2>1, <2>3, TicksAre
      <4>2. QED
        BY <1>7, <4>1, CountIs
    <3>5. QED
      BY <3>3, <3>4 DEF n, V
  <2>4. QED
    BY <2>2, <2>3
<1>16. QED
  BY <1>13, <1>14, <1>15

LEMMA ToSecondsIs ==
  ASSUME NEW d \in Finite
  PROVE  DU!ToSeconds(d) = DU!Quot(DU!Value(d), DU!Ticks)
<1> DEFINE V == DU!Value(d)
<1>1. /\ d.hi \in Int /\ d.lo \in 0 .. DU!Ticks - 1 /\ d.lo \in Int /\ V = d.hi * DU!Ticks + d.lo /\ V \in Int
      /\ d.hi * DU!Ticks \in Int /\ ~DU!IsInfinite(d) /\ (V < 0 <=> d.hi < 0)
  BY FiniteIs, TicksOf
<1>2. DU!ToSeconds(d) = IF d.hi < 0 /\ d.lo # 0 THEN d.hi + 1 ELSE d.hi
  BY <1>1 DEF DU!ToSeconds
<1> HIDE DEF V
<1>3. CASE ~(d.hi < 0)
  <2>1. V >= 0 /\ DU!Ticks \in Int /\ DU!Ticks > 0
    BY <1>1, <1>3, TicksAre
  <2>2. DU!Quot(V, DU!Ticks) = d.hi
    BY <1>1, <2>1, QuotUp
  <2>3. QED
    BY <1>2, <1>3, <2>2 DEF V
<1>4. CASE d.hi < 0 /\ d.lo # 0
  <2>1. V <= 0 /\ DU!Ticks \in Int /\ DU!Ticks > 0 /\ -(d.hi + 1) \in Int /\ DU!Ticks - d.lo \in 0 .. DU!Ticks - 1
    BY <1>1, <1>4, TicksAre
  <2>2. -V = (-(d.hi + 1)) * DU!Ticks + (DU!Ticks - d.lo)
    <3>1. (-(d.hi + 1)) * DU!Ticks = -(d.hi * DU!Ticks) - DU!Ticks
      BY <1>1, TicksAre
    <3>2. PICK x \in Int : x = d.hi * DU!Ticks
      BY <1>1
    <3>3. PICK y \in Int : y = (-(d.hi + 1)) * DU!Ticks
      BY <1>1, <3>1, TicksAre
    <3>4. V = x + d.lo /\ y = -x - DU!Ticks
      BY <1>1, <3>1, <3>2, <3>3, Zenon
    <3>5. -V = y + (DU!Ticks - d.lo)
      BY <1>1, <2>1, <3>4
    <3>6. QED
      BY <3>3, <3>5
  <2>3. DU!Quot(V, DU!Ticks) = -(-(d.hi + 1))
    BY <1>1, <2>1, <2>2, QuotDown
  <2>4. QED
    BY <1>1, <1>2, <1>4, <2>3 DEF V
<1>5. CASE d.hi < 0 /\ d.lo = 0
  <2>1. V <= 0 /\ DU!Ticks \in Int /\ DU!Ticks > 0 /\ -d.hi \in Int /\ 0 \in 0 .. DU!Ticks - 1
    BY <1>1, <1>5, TicksAre
  <2>2. -V = (-d.hi) * DU!Ticks + 0
    <3>1. (-d.hi) * DU!Ticks = -(d.hi * DU!Ticks)
      BY <1>1, TicksAre
    <3>2. QED
      BY <1>1, <1>5, <3>1, TicksAre
  <2>3. DU!Quot(V, DU!Ticks) = -(-d.hi)
    BY <1>1, <2>1, <2>2, QuotDown
  <2>4. QED
    BY <1>1, <1>2, <1>5, <2>3 DEF V
<1>6. QED
  BY <1>3, <1>4, <1>5

\* Seconds, and then minutes, are the minutes of the ticks.
LEMMA ToMinutesIs ==
  ASSUME NEW d \in Finite
  PROVE  DU!ToMinutes(d) = DU!Quot(DU!Value(d), DU!Ticks * SecondsPerMinute)
<1> DEFINE V == DU!Value(d)
           K == SecondsPerMinute
           a == DU!Magnitude(V)
           g == a \div DU!Ticks
           f == a % DU!Ticks
           sec == DU!Quot(V, DU!Ticks)
<1>1. V \in Int /\ ~DU!IsInfinite(d) /\ K \in Nat \ {0} /\ K \in Int /\ K > 0 /\ DU!Ticks \in Int /\ DU!Ticks > 0
  BY FiniteIs, TicksAre
<1>2. a \in Nat /\ a \in Int /\ (V < 0 => a = -V) /\ (~(V < 0) => a = V)
  BY <1>1, SizeIs
<1> HIDE DEF a, V
<1>3. g \in Nat /\ g \in Int /\ f \in 0 .. DU!Ticks - 1 /\ a = g * DU!Ticks + f
  <2>1. g >= 0
    BY <1>1, <1>2
  <2>2. QED
    BY <1>2, <2>1, WordsOf
<1> HIDE DEF g, f
<1> DEFINE q == g \div K
           r == g % K
           s == r * DU!Ticks + f
<1>4. /\ q \in Int /\ r \in 0 .. K - 1 /\ g = q * K + r /\ K * DU!Ticks \in Int /\ K * DU!Ticks > 0
      /\ s \in 0 .. K * DU!Ticks - 1 /\ g * DU!Ticks + f = q * (K * DU!Ticks) + s
  BY <1>1, <1>3, BySeconds
<1>5. DU!Ticks * K = K * DU!Ticks
  BY <1>1
<1>6. DU!ToMinutes(d) = DU!Quot(sec, K)
  BY <1>1, ToSecondsIs DEF DU!ToMinutes, V
<1> HIDE DEF q, r, s, sec, K
<1> DEFINE w == K * DU!Ticks
<1>7. w \in Int /\ w > 0 /\ s \in 0 .. w - 1 /\ a = q * w + s
  BY <1>3, <1>4
<1> HIDE DEF w
<1>8. CASE V < 0
  <2>1. V <= 0 /\ -V = g * DU!Ticks + f /\ -V = q * w + s
    BY <1>1, <1>2, <1>3, <1>7, <1>8
  <2>2. sec = -g
    BY <1>1, <1>3, <2>1, QuotDown DEF sec
  <2>3. DU!Quot(V, w) = -q
    <3>1. V \in Int /\ w \in Int /\ w > 0 /\ q \in Int /\ s \in 0 .. w - 1
      BY <1>1, <1>4, <1>7
    <3>2. V <= 0 /\ -V = q * w + s
      BY <2>1
    <3>3. QED
      BY <3>1, <3>2, QuotDown
  <2>4. sec \in Int /\ sec <= 0 /\ -sec = q * K + r
    BY <1>3, <1>4, <2>2
  <2>5. DU!Quot(sec, K) = -q
    BY <1>1, <1>4, <2>4, QuotDown
  <2>6. QED
    BY <1>5, <1>6, <2>3, <2>5 DEF V, K, w
<1>9. CASE ~(V < 0)
  <2>1. V >= 0 /\ V = g * DU!Ticks + f /\ V = q * w + s
    BY <1>1, <1>2, <1>3, <1>7, <1>9
  <2>2. sec = g
    BY <1>1, <1>3, <2>1, QuotUp DEF sec
  <2>3. DU!Quot(V, w) = q
    BY <1>1, <1>4, <1>7, <2>1, QuotUp
  <2>4. sec \in Int /\ sec >= 0 /\ sec = q * K + r
    BY <1>3, <1>4, <2>2
  <2>5. DU!Quot(sec, K) = q
    BY <1>1, <1>4, <2>4, QuotUp
  <2>6. QED
    BY <1>5, <1>6, <2>3, <2>5 DEF V, K, w
<1>10. QED
  BY <1>8, <1>9

\* Towards zero is up from below it.
LEMMA QuotBelow ==
  ASSUME NEW v \in Int, NEW q \in Int, NEW r \in 0 .. Unit - 1, v < 0, v + Unit - 1 = q * Unit + r
  PROVE  DU!Quot(v, Unit) = q
<1>1. Unit \in Int /\ Unit > 0 /\ -q \in Int /\ Unit - 1 - r \in 0 .. Unit - 1 /\ v <= 0
  BY TicksAre
<1>2. -v = (-q) * Unit + (Unit - 1 - r)
  <2>1. (-q) * Unit = -(q * Unit) /\ q * Unit \in Int
    BY <1>1
  <2>2. QED
    BY <1>1, <2>1
<1>3. PICK k \in Int : k = -q
  BY <1>1
<1>4. PICK s \in 0 .. Unit - 1 : s = Unit - 1 - r
  BY <1>1
<1>5. -v = k * Unit + s
  BY <1>2, <1>3, <1>4
<1>6. DU!Quot(v, Unit) = -k
  <2>1. PICK n \in Int : n = Unit
    BY <1>1
  <2>2. n > 0 /\ s \in 0 .. n - 1 /\ v <= 0 /\ -v = k * n + s
    BY <1>1, <1>5, <2>1
  <2>3. DU!Quot(v, n) = -k
    BY <2>2, QuotDown
  <2>4. QED
    BY <2>1, <2>3
<1>7. QED
  BY <1>3, <1>6

LEMMA TimespecIs ==
  ASSUME NEW d \in Finite
  PROVE  LET ts == DU!DurationToTimespec(d)
             down == DU!TimeToTimespec(d)
             V == DU!Value(d)
         IN  /\ ts.sec * PerSecond + ts.nsec = DU!Quot(V, Unit) /\ ts.nsec \in 0 .. PerSecond - 1
             /\ down.sec * PerSecond + down.nsec = V \div Unit /\ down.nsec \in 0 .. PerSecond - 1
             /\ DU!DurationFromTimespec(down) = DU!Saturated((V \div Unit) * Unit)
<1> DEFINE ts == DU!DurationToTimespec(d)
           down == DU!TimeToTimespec(d)
           V == DU!Value(d)
           lo == IF d.hi < 0 THEN d.lo + Unit - 1 ELSE d.lo
           p == d.lo \div Unit
           n == d.hi * PerSecond + p
<1>1. /\ d.hi \in Int /\ d.lo \in Int /\ 0 <= d.lo /\ d.lo < DU!Ticks /\ V = d.hi * DU!Ticks + d.lo /\ V \in Int
      /\ d.hi * DU!Ticks \in Int /\ ~DU!IsInfinite(d) /\ (V < 0 <=> d.hi < 0) /\ DU!HiMin <= d.hi /\ d.hi <= HiMax
  BY FiniteIs, TicksOf, TicksAre
<1>2. n \in Int /\ V \div Unit = n /\ (~(d.hi < 0) => DU!Quot(V, Unit) = n) /\ p \in 0 .. PerSecond - 1
  BY ShortIs
<1>3. ASSUME NEW s, NEW m PROVE DU!Pair(s, m).sec = s /\ DU!Pair(s, m).nsec = m
  BY DEF DU!Pair
<1>4. down.sec = d.hi /\ down.nsec = p
  BY <1>1, <1>3 DEF DU!TimeToTimespec
<1>5. ts = IF lo >= DU!Ticks THEN DU!Pair(d.hi + 1, (lo - DU!Ticks) \div Unit) ELSE DU!Pair(d.hi, lo \div Unit)
  BY <1>1 DEF DU!DurationToTimespec
<1>6. DU!DurationFromTimespec(down) = DU!Saturated((V \div Unit) * Unit)
  <2>1. DU!DurationFromTimespec(down) = DU!Dur(d.hi, p * Unit)
    BY <1>2, <1>4 DEF DU!DurationFromTimespec
  <2> HIDE DEF p, V, n
  <2>2. p \in Int /\ p * Unit \in 0 .. DU!Ticks - 1
    BY <1>2, UnitTicks
  <2>3. n * Unit = d.hi * DU!Ticks + p * Unit
    <3>1. (d.hi * PerSecond + p) * Unit = d.hi * (PerSecond * Unit) + p * Unit
      BY <1>1, <2>2, TicksAre
    <3>2. QED
      BY <3>1, TicksAre DEF n
  <2>4. QED
    BY <1>1, <1>2, <2>1, <2>2, <2>3, SaturatedIs
<1>7. ts.sec * PerSecond + ts.nsec = DU!Quot(V, Unit) /\ ts.nsec \in 0 .. PerSecond - 1
  <2>1. CASE ~(d.hi < 0)
    <3>1. lo = d.lo /\ ~(lo >= DU!Ticks)
      BY <1>1, <2>1, TicksAre
    <3>2. ts = DU!Pair(d.hi, p)
      BY <1>5, <3>1
    <3>3. QED
      BY <1>2, <1>3, <2>1, <3>2
  <2>2. CASE d.hi < 0
    <3>1. lo = d.lo + Unit - 1 /\ lo \in Int /\ V < 0 /\ V + Unit - 1 = d.hi * DU!Ticks + lo /\ 0 <= lo
      BY <1>1, <2>2, TicksAre
    <3> HIDE DEF lo, V
    <3>2. CASE lo >= DU!Ticks
      <4>1. lo - DU!Ticks \in 0 .. Unit - 1 /\ lo - DU!Ticks \in Int
        BY <1>1, <3>1, <3>2, TicksAre
      <4>2. (lo - DU!Ticks) \div Unit = 0
        <5>1. lo - DU!Ticks = 0 * Unit + (lo - DU!Ticks) /\ Unit \in Int /\ Unit > 0
          BY <4>1, TicksAre
        <5>2. QED
          BY <4>1, <5>1, DivModOnly
      <4>3. ts.sec = d.hi + 1 /\ ts.nsec = 0
        BY <1>3, <1>5, <3>2, <4>2
      <4>4. V + Unit - 1 = ((d.hi + 1) * PerSecond) * Unit + (lo - DU!Ticks) /\ (d.hi + 1) * PerSecond \in Int
        <5>1. ((d.hi + 1) * PerSecond) * Unit = d.hi * (PerSecond * Unit) + PerSecond * Unit
          BY <1>1, TicksAre
        <5>2. QED
          BY <1>1, <3>1, <5>1, TicksAre, ProductIs
      <4>5. DU!Quot(V, Unit) = (d.hi + 1) * PerSecond
        BY <1>1, <3>1, <4>1, <4>4, QuotBelow
      <4>6. QED
        BY <4>3, <4>4, <4>5, TicksAre
    <3>3. CASE ~(lo >= DU!Ticks)
      <4> DEFINE m == lo \div Unit
                 r == lo % Unit
      <4>1. lo \in 0 .. DU!Ticks - 1
        BY <3>1, <3>3, TicksAre
      <4>2. /\ m \in 0 .. PerSecond - 1 /\ r \in 0 .. Unit - 1
            /\ d.hi * DU!Ticks + lo = (d.hi * PerSecond + m) * Unit + r /\ d.hi * PerSecond \in Int
        BY <1>1, <4>1, ByUnits
      <4>3. ts.sec = d.hi /\ ts.nsec = m
        BY <1>3, <1>5, <3>3
      <4> HIDE DEF m, r
      <4>4. d.hi * PerSecond + m \in Int /\ V + Unit - 1 = (d.hi * PerSecond + m) * Unit + r
        BY <3>1, <4>2, TicksAre
      <4>5. DU!Quot(V, Unit) = d.hi * PerSecond + m
        BY <1>1, <3>1, <4>2, <4>4, QuotBelow
      <4>6. QED
        BY <4>2, <4>3, <4>5
    <3>4. QED
      BY <3>2, <3>3
  <2>3. QED
    BY <2>1, <2>2
<1>8. QED
  BY <1>2, <1>4, <1>6, <1>7

LEMMA FromMinutesIs ==
  ASSUME NEW v \in DU!HiMin .. HiMax
  PROVE  DU!FromMinutes(v) = DU!Saturated(v * SecondsPerMinute * DU!Ticks)
<1> DEFINE K == SecondsPerMinute
           x == v * K
<1>1. v \in Int /\ K \in Int /\ K > 0 /\ x \in Int /\ HiMax >= 0 /\ DU!HiMin <= 0 /\ -DU!HiMin = HiMax + 1 /\ DU!HiMin \in Int /\ HiMax \in Int
  BY TicksAre, ProductIs
<1>2. v <= DU!Quot(HiMax, K) <=> x <= HiMax
  <2> DEFINE q == HiMax \div K
             r == HiMax % K
  <2>1. q \in Int /\ r \in 0 .. K - 1 /\ HiMax = q * K + r
    BY <1>1, DivModIs
  <2> HIDE DEF q, r, K
  <2>2. DU!Quot(HiMax, K) = q
    BY <1>1, <2>1, QuotUp
  <2>3. v <= q => v * K <= q * K
    BY <1>1, <2>1, Scaling
  <2>4. q < v => (q + 1) * K <= v * K /\ (q + 1) * K = q * K + K
    <3>1. q < v => q + 1 <= v /\ q + 1 \in Int
      BY <1>1, <2>1
    <3>2. QED
      BY <1>1, <2>1, <3>1, Scaling
  <2>5. q * K \in Int
    BY <1>1, <2>1, ProductIs
  <2>6. QED
    BY <1>1, <2>1, <2>2, <2>3, <2>4, <2>5
<1>3. v >= DU!Quot(DU!HiMin, K) <=> x >= DU!HiMin
  <2> DEFINE q == (HiMax + 1) \div K
             r == (HiMax + 1) % K
  <2>1. q \in Int /\ r \in 0 .. K - 1 /\ HiMax + 1 = q * K + r
    BY <1>1, DivModIs
  <2> HIDE DEF q, r, K
  <2>2. DU!Quot(DU!HiMin, K) = -q
    BY <1>1, <2>1, QuotDown
  <2>3. -q <= v => (-q) * K <= v * K
    BY <1>1, <2>1, Scaling
  <2>4. v < -q => v * K <= (-q - 1) * K
    <3>1. v < -q => v <= -q - 1 /\ -q - 1 \in Int
      BY <1>1, <2>1
    <3>2. QED
      BY <1>1, <2>1, <3>1, Scaling
  <2>5. q * K \in Int /\ (-q) * K = -(q * K) /\ (-q - 1) * K = -(q * K) - K
    BY <1>1, <2>1, ProductIs
  <2>6. QED
    BY <1>1, <2>1, <2>2, <2>3, <2>4, <2>5
<1>4. DU!FromMinutes(v) = IF x <= HiMax /\ x >= DU!HiMin THEN DU!Dur(x, 0) ELSE DU!Signed(v <= 0)
  BY <1>2, <1>3 DEF DU!FromMinutes
<1>5. v > 0 => x > 0
  <2>1. v > 0 => 0 * K < v * K /\ 0 * K = 0
    BY <1>1, Scaling
  <2>2. QED
    BY <2>1
<1>6. v <= 0 => x <= 0
  <2>1. v <= 0 => v * K <= 0 * K /\ 0 * K = 0
    BY <1>1, Scaling
  <2>2. QED
    BY <2>1
<1>7. v * SecondsPerMinute * DU!Ticks = x * DU!Ticks + 0 /\ 0 \in 0 .. DU!Ticks - 1
  BY <1>1, TicksAre
<1> HIDE DEF x
<1>8. CASE x > HiMax
  <2>1. ~(v <= 0) /\ ~(x <= HiMax)
    BY <1>1, <1>6, <1>8
  <2>2. DU!FromMinutes(v) = DU!Infinite
    BY <1>4, <2>1 DEF DU!Signed
  <2>3. QED
    BY <1>1, <1>7, <1>8, <2>2, SaturatedIs
<1>9. CASE x < DU!HiMin
  <2>1. v <= 0 /\ ~(x >= DU!HiMin)
    BY <1>1, <1>5, <1>9
  <2>2. DU!FromMinutes(v) = DU!MinusInfinite
    BY <1>4, <2>1 DEF DU!Signed
  <2>3. QED
    BY <1>1, <1>7, <1>9, <2>2, SaturatedIs
<1>10. CASE DU!HiMin <= x /\ x <= HiMax
  <2>1. DU!FromMinutes(v) = DU!Dur(x, 0)
    BY <1>1, <1>4, <1>10
  <2>2. QED
    BY <1>1, <1>7, <1>10, <2>1, SaturatedIs
<1>11. QED
  BY <1>1, <1>8, <1>9, <1>10

LEMMA FromTimespecIs ==
  ASSUME NEW h \in DU!HiMin .. HiMax, NEW v \in DU!HiMin .. HiMax
  PROVE  DU!DurationFromTimespec(DU!Pair(h, v)) = DU!Saturated(h * DU!Ticks + v * Unit)
<1>1. h \in Int /\ DU!HiMin <= h /\ h <= HiMax /\ v \in Int /\ v * Unit \in Int /\ h * DU!Ticks \in Int
  BY TicksAre, UnitTicks, ProductIs
<1>2. DU!DurationFromTimespec(DU!Pair(h, v)) =
        IF v \in 0 .. PerSecond - 1 THEN DU!Dur(h, v * Unit) ELSE DU!Plus(DU!Dur(h, 0), DU!FromUnits(v))
  BY DEF DU!DurationFromTimespec, DU!Pair
<1>3. CASE v \in 0 .. PerSecond - 1
  <2>1. v * Unit \in 0 .. DU!Ticks - 1
    BY <1>1, <1>3, UnitTicks
  <2>2. QED
    BY <1>1, <1>2, <1>3, <2>1, SaturatedIs
<1>4. CASE v \notin 0 .. PerSecond - 1
  <2>1. DU!Dur(h, 0) \in Finite
    BY <1>1, TicksAre, MakesFinite
  <2>2. DU!Value(DU!Dur(h, 0)) = h * DU!Ticks
    <3>1. DU!Value(DU!Dur(h, 0)) = h * DU!Ticks + 0
      BY DurIs DEF DU!Value
    <3>2. QED
      BY <1>1, <3>1
  <2>3. DU!Plus(DU!Dur(h, 0), DU!FromUnits(v)) = DU!Saturated(h * DU!Ticks + v * Unit)
    BY <2>1, <2>2, FromUnitsIs, SumIs
  <2>4. QED
    BY <1>2, <1>4, <2>3
<1>5. QED
  BY <1>3, <1>4

LEMMA ConvertsAre == ASSUME NEW d \in DU!Durations, NEW v \in DU!HiMin .. HiMax PROVE DU!Converts(d, v)
<1> DEFINE ts == DU!DurationToTimespec(d)
           down == DU!TimeToTimespec(d)
           V == DU!Value(d)
<1>1. v \in Int /\ DU!HiMin <= v /\ v <= HiMax /\ v * Unit \in Int /\ Unit \in Int /\ Unit > 0 /\ DU!Count(v) = v
  BY TicksAre, UnitTicks, CountIs
<1>2. DU!ToUnits(DU!FromUnits(v)) = v
  <2>1. DU!Quot(v * Unit, Unit) = v
    <3>1. 0 \in 0 .. Unit - 1 /\ v * Unit = v * Unit + 0 /\ -(v * Unit) = (-v) * Unit + 0 /\ -v \in Int
      BY <1>1
    <3>2. CASE v * Unit >= 0
      <4>1. PICK m \in Int : m = v * Unit
        BY <1>1
      <4>2. m >= 0 /\ m = v * Unit + 0
        BY <3>1, <3>2, <4>1
      <4>3. DU!Quot(m, Unit) = v
        BY <1>1, <3>1, <4>2, QuotUp
      <4>4. QED
        BY <4>1, <4>3
    <3>3. CASE v * Unit <= 0
      <4>1. PICK m \in Int : m = v * Unit
        BY <1>1
      <4>2. PICK k \in Int : k = -v
        BY <3>1
      <4>3. m <= 0 /\ -m = k * Unit + 0
        BY <3>1, <3>3, <4>1, <4>2
      <4>4. DU!Quot(m, Unit) = -k
        <5>1. PICK n \in Int : n = Unit
          BY <1>1
        <5>2. PICK s \in 0 .. n - 1 : s = 0
          BY <1>1, <5>1
        <5>3. n > 0 /\ m <= 0 /\ -m = k * n + s
          BY <1>1, <4>3, <5>1, <5>2
        <5>4. DU!Quot(m, n) = -k
          BY <5>3, QuotDown
        <5>5. QED
          BY <5>1, <5>4
      <4>5. QED
        BY <1>1, <4>1, <4>2, <4>4
    <3>4. QED
      BY <1>1, <3>2, <3>3
  <2>2. DU!FromUnits(v) \in Finite /\ DU!FromUnits(v) \in DU!Durations /\ DU!Value(DU!FromUnits(v)) = v * Unit
    BY FromUnitsIs, FiniteIs
  <2>3. QED
    BY <1>1, <2>1, <2>2, ToUnitsIs
<1>3. DU!ToUnixUnits(DU!FromUnits(v)) = v
  <2>1. (v * Unit) \div Unit = v
    <3>1. 0 \in 0 .. Unit - 1 /\ v * Unit = v * Unit + 0
      BY <1>1
    <3>2. PICK m \in Int : m = v * Unit
      BY <1>1
    <3>3. m \div Unit = v
      BY <1>1, <3>1, <3>2, DivModOnly
    <3>4. QED
      BY <3>2, <3>3
  <2>2. DU!FromUnits(v) \in Finite /\ DU!Value(DU!FromUnits(v)) = v * Unit
    BY FromUnitsIs
  <2>3. QED
    BY <1>1, <2>1, <2>2, ToUnixUnitsIs
<1>4. DU!FromMinutes(v) = DU!Saturated(v * SecondsPerMinute * DU!Ticks)
  BY FromMinutesIs
<1>5. DU!DurationFromTimespec(DU!Pair(d.hi, v)) = DU!Saturated(d.hi * DU!Ticks + v * Unit)
  <2>1. d.hi \in DU!HiMin .. HiMax
    BY DurationsAre, TicksAre
  <2>2. QED
    BY <2>1, FromTimespecIs
<1>6. ASSUME ~DU!IsInfinite(d)
      PROVE  /\ DU!ToUnits(d) = DU!Count(DU!Quot(V, Unit))
             /\ DU!ToUnixUnits(d) = DU!Count(V \div Unit)
             /\ DU!ToSeconds(d) = DU!Quot(V, DU!Ticks)
             /\ DU!ToMinutes(d) = DU!Quot(V, DU!Ticks * SecondsPerMinute)
             /\ ts.sec * PerSecond + ts.nsec = DU!Quot(V, Unit)
             /\ down.sec * PerSecond + down.nsec = V \div Unit
             /\ ts.nsec \in 0 .. PerSecond - 1 /\ down.nsec \in 0 .. PerSecond - 1
             /\ DU!DurationFromTimespec(down) = DU!Saturated((V \div Unit) * Unit)
  <2>1. d \in Finite
    BY <1>6, DurationsAre
  <2>2. QED
    BY <2>1, ToUnitsIs, ToUnixUnitsIs, ToSecondsIs, ToMinutesIs, TimespecIs, Zenon
<1>7. ASSUME DU!IsInfinite(d) PROVE DU!ToUnits(d) = d.hi /\ DU!ToSeconds(d) = d.hi /\ ts = down
  <2>1. DU!ToSeconds(d) = d.hi
    BY <1>7 DEF DU!ToSeconds
  <2>2. ts = down
    BY <1>7 DEF DU!DurationToTimespec, DU!TimeToTimespec
  <2>3. QED
    BY <1>7, <2>1, <2>2, ToUnitsIs
<1>8. QED
  BY <1>2, <1>3, <1>4, <1>5, <1>6, <1>7, Zenon DEF DU!Converts

\* duration.cc, time.cc: sums, products, quotients and conversions are those of the
\* integers or infinite, whatever the widths of the words and the lengths of the units.
THEOREM DurationsAreExact == \A d, e \in DU!Durations : DU!ExactOrInfinite(d, e)
<1>1. ASSUME NEW d \in DU!Durations, NEW e \in DU!Durations PROVE DU!ExactOrInfinite(d, e)
  <2>1. e.hi \in Int /\ e.hi \in DU!HiMin .. HiMax
    BY DurationsAre, TicksAre
  <2>2. QED
    BY <2>1, SumsAre, ScalesAre, DividesAre, ConvertsAre DEF DU!ExactOrInfinite
<1>2. QED
  BY <1>1

-----------------------------------------------------------------------------
(* Command lines.  A recursive function over 0 .. N exists if each value   *)
(* is made from the one before, F saying how; the step is a function, not  *)
(* an operator, so that this can be cited.                                 *)

IsMade(f, a, F, N) == f[0] = a /\ \A n \in 1 .. N : f[n] = F[<<n, f[n - 1]>>]

\* By induction: a longer function is made from a shorter one.
LEMMA MadeExists ==
  ASSUME NEW N \in Nat, NEW S, NEW a \in S, NEW F \in [(1 .. N) \X S -> S]
  PROVE  \E f \in [0 .. N -> S] : IsMade(f, a, F, N)
<1> DEFINE T == {k \in 0 .. N : \E f \in [0 .. k -> S] : IsMade(f, a, F, k)}
<1>1. 0 \in T
  <2> DEFINE g == [n \in 0 .. 0 |-> a]
  <2>1. g \in [0 .. 0 -> S] /\ g[0] = a /\ 1 .. 0 = {} /\ 0 \in 0 .. N
    OBVIOUS
  <2> HIDE DEF g
  <2>2. IsMade(g, a, F, 0)
    BY <2>1 DEF IsMade
  <2>3. QED
    BY <2>1, <2>2
<1>2. ASSUME NEW k \in 0 .. N, k # N, k \in T PROVE k + 1 \in T
  <2>1. PICK f \in [0 .. k -> S] : IsMade(f, a, F, k)
    BY <1>2
  <2> DEFINE g == [n \in 0 .. k + 1 |-> IF n = k + 1 THEN F[<<n, f[k]>>] ELSE f[n]]
  <2>2. k + 1 \in 1 .. N /\ k \in 0 .. k /\ k + 1 \in 0 .. N
    BY <1>2
  <2>3. F[<<k + 1, f[k]>>] \in S
    BY <2>1, <2>2
  <2>4. g \in [0 .. k + 1 -> S]
    <3>1. ASSUME NEW n \in 0 .. k + 1, n # k + 1 PROVE n \in 0 .. k
      BY <3>1
    <3>2. QED
      BY <2>1, <2>3, <3>1
  <2>5. g[0] = a
    BY <2>1 DEF IsMade
  <2>6. ASSUME NEW n \in 1 .. k + 1 PROVE g[n] = F[<<n, g[n - 1]>>]
    <3>1. CASE n = k + 1
      <4>1. n - 1 = k /\ k # k + 1 /\ k \in 0 .. k + 1 /\ n \in 0 .. k + 1
        BY <3>1
      <4>2. g[n] = F[<<n, f[k]>>] /\ g[k] = f[k]
        BY <3>1, <4>1
      <4>3. QED
        BY <4>1, <4>2
    <3>2. CASE n # k + 1
      <4>1. n \in 1 .. k /\ n \in 0 .. k + 1 /\ n - 1 \in 0 .. k + 1 /\ n - 1 # k + 1
        BY <3>2
      <4>2. g[n] = f[n] /\ g[n - 1] = f[n - 1]
        BY <3>2, <4>1
      <4>3. QED
        BY <2>1, <4>1, <4>2 DEF IsMade
    <3>3. QED
      BY <3>1, <3>2
  <2> HIDE DEF g
  <2>7. IsMade(g, a, F, k + 1)
    BY <2>5, <2>6 DEF IsMade
  <2>8. QED
    BY <2>2, <2>4, <2>7
<1> HIDE DEF T
<1>3. N \in T
  <2>1. N \in 0 .. N
    OBVIOUS
  <2>2. QED
    BY <1>1, <1>2, <2>1, UpTo
<1>4. QED
  BY <1>3 DEF T
\* Two functions that are made alike have the same values.
LEMMA SameValues ==
  ASSUME NEW N \in Nat, NEW f, NEW g, g[0] = f[0], \A n \in 1 .. N : g[n - 1] = f[n - 1] => g[n] = f[n]
  PROVE  \A n \in 0 .. N : g[n] = f[n]
<1> DEFINE T == {n \in 0 .. N : g[n] = f[n]}
<1>1. 0 \in T
  OBVIOUS
<1>2. ASSUME NEW n \in 0 .. N, n # N, n \in T PROVE n + 1 \in T
  <2>1. PICK m \in 1 .. N : m = n + 1 /\ m - 1 = n /\ m \in 0 .. N
    BY <1>2
  <2>2. g[m] = f[m]
    BY <1>2, <2>1
  <2>3. QED
    BY <2>1, <2>2
<1> HIDE DEF T
<1>3. 0 .. N \subseteq T
  BY <1>1, <1>2, UpTo
<1>4. QED
  BY <1>3 DEF T

\* The characters: any texts, and those that mean something (which are texts, but
\* the provers do not know it).
Chars == STRING \cup {"space", "break", "quote", "slash"}

\* What EscapeChar carries from one character to the next.
Escapes == [text : Seq(Chars), slashes : Nat]

\* Slashes(n) is a text of n backslashes.
LEMMA SlashesAre ==
  ASSUME NEW n \in Nat
  PROVE  /\ CL!Slashes(n) \in Seq(Chars) /\ Len(CL!Slashes(n)) = n
         /\ \A i \in 1 .. n : CL!Slashes(n)[i] = "slash"
<1> DEFINE s == CL!Slashes(n)
<1>1. s \in [1 .. n -> Chars] /\ \A i \in 1 .. n : s[i] = "slash"
  <2>1. "slash" \in Chars
    BY DEF Chars
  <2>2. QED
    BY <2>1 DEF CL!Slashes
<1>2. s \in Seq(Chars)
  <2>1. [1 .. n -> Chars] \in {[1 .. k -> Chars] : k \in Nat}
    BY Zenon
  <2>2. QED
    BY <1>1, <2>1, SeqDef, Zenon
<1> HIDE DEF s
<1>3. Len(s) \in Nat /\ 1 .. Len(s) = 1 .. n
  BY <1>1, <1>2, LenProperties
<1>4. Len(s) = n
  BY <1>3
<1>5. QED
  BY <1>1, <1>2, <1>4 DEF s

\* EscapeChar keeps to the type of what it carries.
LEMMA EscapeCharIs ==
  ASSUME NEW e \in Escapes, NEW c \in Chars
  PROVE  CL!EscapeChar(e, c) \in Escapes
<1>1. e.text \in Seq(Chars) /\ e.slashes \in Nat
  BY DEF Escapes
<1>2. CL!Slashes(e.slashes + 1) \in Seq(Chars) /\ <<c>> \in Seq(Chars)
  BY <1>1, SlashesAre
<1>3. Append(e.text, c) \in Seq(Chars) /\ e.text \o CL!Slashes(e.slashes + 1) \o <<c>> \in Seq(Chars)
  BY <1>1, <1>2
<1>4. QED
  BY <1>1, <1>3 DEF CL!EscapeChar, Escapes

\* Escaped is made from an empty text, one character after the other.
LEMMA EscapedIs ==
  ASSUME NEW arg \in Seq(Chars)
  PROVE  LET E == CL!Escaped(arg)
         IN  /\ E[0] = [text |-> <<>>, slashes |-> 0]
             /\ \A n \in 0 .. Len(arg) : E[n] \in Escapes
             /\ \A n \in 1 .. Len(arg) : E[n] = CL!EscapeChar(E[n - 1], arg[n])
<1> DEFINE N == Len(arg)
           a == [text |-> <<>>, slashes |-> 0]
           F == [x \in (1 .. N) \X Escapes |-> CL!EscapeChar(x[2], arg[x[1]])]
           Step(f) == [n \in 0 .. N |-> IF n = 0 THEN a ELSE CL!EscapeChar(f[n - 1], arg[n])]
           E == CHOOSE f : f = Step(f)
<1>1. N \in Nat /\ a \in Escapes /\ \A n \in 1 .. N : arg[n] \in Chars
  BY DEF Escapes
<1>2. F \in [(1 .. N) \X Escapes -> Escapes]
  <2>1. ASSUME NEW x \in (1 .. N) \X Escapes PROVE CL!EscapeChar(x[2], arg[x[1]]) \in Escapes
    <3>1. x[1] \in 1 .. N /\ x[2] \in Escapes
      OBVIOUS
    <3>2. QED
      BY <1>1, <3>1, EscapeCharIs
  <2>2. QED
    BY <2>1
<1>3. ASSUME NEW n \in 1 .. N, NEW e \in Escapes PROVE F[<<n, e>>] = CL!EscapeChar(e, arg[n])
  BY Zenon
<1>4. CL!Escaped(arg) = E
  BY Zenon DEF CL!Escaped
<1> HIDE DEF N, a, F
<1>5. PICK f \in [0 .. N -> Escapes] : IsMade(f, a, F, N)
  BY <1>1, <1>2, MadeExists, Zenon
<1>6. f[0] = a /\ \A n \in 1 .. N : f[n] = CL!EscapeChar(f[n - 1], arg[n])
  <2>1. ASSUME NEW n \in 1 .. N PROVE n - 1 \in 0 .. N
    BY <1>1
  <2>2. QED
    BY <1>3, <1>5, <2>1 DEF IsMade
<1>7. f = Step(f)
  <2>1. ASSUME NEW n \in 0 .. N PROVE f[n] = Step(f)[n]
    BY <1>1, <1>6
  <2>2. QED
    BY <2>1
<1>8. E = Step(E)
  BY <1>7, Zenon
<1> HIDE DEF E
<1>9. E[0] = a /\ \A n \in 1 .. N : E[n] = CL!EscapeChar(E[n - 1], arg[n])
  BY <1>1, <1>8
<1>10. \A n \in 0 .. N : E[n] = f[n]
  <2>1. E[0] = f[0] /\ \A n \in 1 .. N : E[n - 1] = f[n - 1] => E[n] = f[n]
    BY <1>6, <1>9, Zenon
  <2>2. QED
    BY <1>1, <2>1, SameValues, Zenon
<1>11. \A n \in 0 .. N : E[n] \in Escapes
  BY <1>10
<1>12. QED
  BY <1>4, <1>9, <1>11 DEF N, a

\* What is written of an argument is a text.
LEMMA ArgTextIs == ASSUME NEW arg \in Seq(Chars) PROVE CL!ArgText(arg) \in Seq(Chars)
<1>1. Len(arg) \in 0 .. Len(arg)
  OBVIOUS
<1>2. CL!Body(arg) \in Escapes
  BY <1>1, EscapedIs DEF CL!Body
<1>3. CL!Body(arg).text \in Seq(Chars) /\ CL!Body(arg).slashes \in Nat
  BY <1>2 DEF Escapes
<1>4. CL!Slashes(CL!Body(arg).slashes) \in Seq(Chars)
  BY <1>3, SlashesAre
<1>5. "quote" \in Chars
  BY DEF Chars
<1>6. QED
  BY <1>3, <1>4, <1>5 DEF CL!ArgText

\* So is the line behind which it is written.
LEMMA AppendArgIs ==
  ASSUME NEW saver \in Seq(Chars), NEW arg \in Seq(Chars)
  PROVE  CL!AppendArg(saver, arg) \in Seq(Chars)
<1>1. CL!ArgText(arg) \in Seq(Chars)
  BY ArgTextIs
<1>2. "space" \in Chars
  BY DEF Chars
<1>3. QED
  BY <1>1, <1>2 DEF CL!AppendArg

\* Assigned is made from the saver, one argument after the other.
LEMMA AssignedIs ==
  ASSUME NEW saver \in Seq(Chars), NEW args \in Seq(Seq(Chars))
  PROVE  LET Y == CL!Assigned(saver, args)
         IN  /\ Y[0] = saver
             /\ \A n \in 0 .. Len(args) : Y[n] \in Seq(Chars)
             /\ \A n \in 1 .. Len(args) : Y[n] = CL!AppendArg(Y[n - 1], args[n])
<1> DEFINE N == Len(args)
           F == [x \in (1 .. N) \X Seq(Chars) |-> CL!AppendArg(x[2], args[x[1]])]
           Step(f) == [n \in 0 .. N |-> IF n = 0 THEN saver ELSE CL!AppendArg(f[n - 1], args[n])]
           Y == CHOOSE f : f = Step(f)
<1>1. N \in Nat /\ \A n \in 1 .. N : args[n] \in Seq(Chars)
  OBVIOUS
<1>2. F \in [(1 .. N) \X Seq(Chars) -> Seq(Chars)]
  <2>1. ASSUME NEW x \in (1 .. N) \X Seq(Chars) PROVE CL!AppendArg(x[2], args[x[1]]) \in Seq(Chars)
    <3>1. x[1] \in 1 .. N /\ x[2] \in Seq(Chars)
      OBVIOUS
    <3>2. QED
      BY <1>1, <3>1, AppendArgIs
  <2>2. QED
    BY <2>1
<1>3. ASSUME NEW n \in 1 .. N, NEW w \in Seq(Chars) PROVE F[<<n, w>>] = CL!AppendArg(w, args[n])
  BY Zenon
<1>4. CL!Assigned(saver, args) = Y
  BY Zenon DEF CL!Assigned
<1> HIDE DEF N, F
<1>5. PICK f \in [0 .. N -> Seq(Chars)] : IsMade(f, saver, F, N)
  BY <1>1, <1>2, MadeExists, Zenon
<1>6. f[0] = saver /\ \A n \in 1 .. N : f[n] = CL!AppendArg(f[n - 1], args[n])
  <2>1. ASSUME NEW n \in 1 .. N PROVE n - 1 \in 0 .. N
    BY <1>1
  <2>2. QED
    BY <1>3, <1>5, <2>1 DEF IsMade
<1>7. f = Step(f)
  <2>1. ASSUME NEW n \in 0 .. N PROVE f[n] = Step(f)[n]
    BY <1>1, <1>6
  <2>2. QED
    BY <2>1
<1>8. Y = Step(Y)
  BY <1>7, Zenon
<1> HIDE DEF Y
<1>9. Y[0] = saver /\ \A n \in 1 .. N : Y[n] = CL!AppendArg(Y[n - 1], args[n])
  BY <1>1, <1>8
<1>10. \A n \in 0 .. N : Y[n] = f[n]
  <2>1. Y[0] = f[0] /\ \A n \in 1 .. N : Y[n - 1] = f[n - 1] => Y[n] = f[n]
    BY <1>6, <1>9, Zenon
  <2>2. QED
    BY <1>1, <2>1, SameValues, Zenon
<1>11. \A n \in 0 .. N : Y[n] \in Seq(Chars)
  BY <1>10
<1>12. QED
  BY <1>4, <1>9, <1>11 DEF N

\* There are backslashes from i on until there is none, and so many.
LEMMA RunIs ==
  ASSUME NEW L \in Seq(Chars), NEW i \in 1 .. Len(L), NEW k \in 1 .. Len(L) - i + 1, CL!IsRun(L, i, k)
  PROVE  (CHOOSE n \in 1 .. Len(L) - i + 1 : CL!IsRun(L, i, n)) = k
<1> DEFINE n == CHOOSE n \in 1 .. Len(L) - i + 1 : CL!IsRun(L, i, n)
<1>1. n \in 1 .. Len(L) - i + 1 /\ CL!IsRun(L, i, n)
  OBVIOUS
<1> HIDE DEF n
<1>2. ~(n < k)
  <2> SUFFICES ASSUME n < k PROVE FALSE
    OBVIOUS
  <2>1. i + n \in i .. i + k - 1 /\ ~(i + n > Len(L))
    BY <1>1
  <2>2. QED
    BY <1>1, <2>1 DEF CL!IsRun
<1>3. ~(k < n)
  <2> SUFFICES ASSUME k < n PROVE FALSE
    OBVIOUS
  <2>1. i + k \in i .. i + n - 1 /\ ~(i + k > Len(L))
    BY <1>1
  <2>2. QED
    BY <1>1, <2>1 DEF CL!IsRun
<1>4. QED
  BY <1>1, <1>2, <1>3 DEF n

\* At a backslash there are some.
LEMMA RunExists ==
  ASSUME NEW L \in Seq(Chars), NEW i \in 1 .. Len(L), L[i] = "slash"
  PROVE  \E k \in 1 .. Len(L) - i + 1 : CL!IsRun(L, i, k)
<1> DEFINE T == {k \in 1 .. Len(L) - i + 1 : i + k > Len(L) \/ L[i + k] # "slash"}
<1>1. T \subseteq Nat /\ Len(L) - i + 1 \in T
  OBVIOUS
<1> HIDE DEF T
<1>2. PICK k \in T : \A m \in T : k <= m
  BY <1>1, LeastOfSet, Zenon
<1>3. k \in 1 .. Len(L) - i + 1 /\ (i + k > Len(L) \/ L[i + k] # "slash")
  BY <1>2 DEF T
<1>4. ASSUME NEW j \in i .. i + k - 1 PROVE L[j] = "slash"
  <2>1. CASE j = i
    BY <2>1
  <2>2. CASE j # i
    <3>1. PICK m \in 1 .. Len(L) - i + 1 : m = j - i /\ i + m = j /\ ~(k <= m)
      BY <1>3, <2>2
    <3>2. m \notin T
      BY <1>2, <3>1
    <3>3. QED
      BY <3>1, <3>2 DEF T
  <2>3. QED
    BY <2>1, <2>2
<1>5. CL!IsRun(L, i, k)
  BY <1>3, <1>4 DEF CL!IsRun
<1>6. QED
  BY <1>3, <1>5

\* The states of the Tokenizer, and what it carries from one character to the next.
States == {"INIT", "UNQUOTED", "QUOTED"}
Readers == [next : Nat, state : States, token : Seq(Chars), done : Seq(Seq(Chars))]

\* Readings of the right types are readers.
LEMMA ReadingIs ==
  ASSUME NEW n \in Nat, NEW s \in States, NEW t \in Seq(Chars), NEW d \in Seq(Seq(Chars))
  PROVE  CL!Reading(n, s, t, d) \in Readers
BY DEF CL!Reading, Readers

\* Backslashes are read as a text.
LEMMA BackslashesRead ==
  ASSUME NEW L \in Seq(Chars), NEW i \in 1 .. Len(L), L[i] = "slash"
  PROVE  CL!ParseBackslash(L, i).chars \in Seq(Chars) /\ CL!ParseBackslash(L, i).next \in Nat
<1>1. PICK n \in 1 .. Len(L) - i + 1 : CL!IsRun(L, i, n)
  BY RunExists
<1>2. (CHOOSE k \in 1 .. Len(L) - i + 1 : CL!IsRun(L, i, k)) = n
  BY <1>1, RunIs
<1>3. PICK h \in Nat : h = n \div 2
  OBVIOUS
<1>4. CL!Slashes(n) \in Seq(Chars) /\ CL!Slashes(h) \in Seq(Chars) /\ "quote" \in Chars
  BY SlashesAre DEF Chars
<1>5. i + n \in Nat /\ i + n + 1 \in Nat /\ Append(CL!Slashes(h), "quote") \in Seq(Chars)
  BY <1>4
<1>6. QED
  BY <1>2, <1>3, <1>4, <1>5, Zenon DEF CL!ParseBackslash

\* Whatever the character, what is carried keeps to its type.
LEMMA ReadCharIs ==
  ASSUME NEW L \in Seq(Chars), NEW i \in 1 .. Len(L), NEW r \in Readers
  PROVE  CL!ReadChar(L, i, r) \in Readers
<1>1. r.state \in States /\ r.token \in Seq(Chars) /\ r.done \in Seq(Seq(Chars)) /\ L[i] \in Chars
  BY DEF Readers
<1>2. CL!Inside(r.state) \in States /\ "UNQUOTED" \in States /\ "QUOTED" \in States /\ "INIT" \in States
  BY <1>1 DEF CL!Inside, States
<1>3. CASE L[i] = "slash"
  <2>1. CL!ParseBackslash(L, i).chars \in Seq(Chars) /\ CL!ParseBackslash(L, i).next \in Nat
    BY <1>3, BackslashesRead
  <2>2. r.token \o CL!ParseBackslash(L, i).chars \in Seq(Chars)
    BY <1>1, <2>1
  <2>3. CL!ReadChar(L, i, r)
          = CL!Reading(CL!ParseBackslash(L, i).next, CL!Inside(r.state), r.token \o CL!ParseBackslash(L, i).chars, r.done)
    BY <1>3 DEF CL!ReadChar, CL!Whitespace
  <2>4. QED
    BY <1>1, <1>2, <2>1, <2>2, <2>3, ReadingIs, Zenon
<1>4. CASE L[i] # "slash"
  <2>1. /\ i + 1 \in Nat /\ i + 2 \in Nat /\ Append(r.token, L[i]) \in Seq(Chars)
        /\ Append(r.done, r.token) \in Seq(Seq(Chars)) /\ <<>> \in Seq(Chars)
    BY <1>1
  <2>2. \/ CL!ReadChar(L, i, r) = CL!Reading(i + 2, r.state, Append(r.token, L[i]), r.done)
        \/ CL!ReadChar(L, i, r) = CL!Reading(i + 1, "UNQUOTED", r.token, r.done)
        \/ CL!ReadChar(L, i, r) = CL!Reading(i + 1, "QUOTED", r.token, r.done)
        \/ CL!ReadChar(L, i, r) = CL!Reading(i + 1, r.state, r.token, r.done)
        \/ CL!ReadChar(L, i, r) = CL!Reading(i + 1, "INIT", <<>>, Append(r.done, r.token))
        \/ CL!ReadChar(L, i, r) = CL!Reading(i + 1, CL!Inside(r.state), Append(r.token, L[i]), r.done)
    BY <1>4 DEF CL!ReadChar
  <2>3. /\ CL!Reading(i + 2, r.state, Append(r.token, L[i]), r.done) \in Readers
        /\ CL!Reading(i + 1, CL!Inside(r.state), Append(r.token, L[i]), r.done) \in Readers
    BY <1>1, <1>2, <2>1, ReadingIs, Zenon
  <2>4. /\ CL!Reading(i + 1, "UNQUOTED", r.token, r.done) \in Readers
        /\ CL!Reading(i + 1, "QUOTED", r.token, r.done) \in Readers
        /\ CL!Reading(i + 1, r.state, r.token, r.done) \in Readers
    BY <1>1, <1>2, <2>1, ReadingIs, Zenon
  <2>5. CL!Reading(i + 1, "INIT", <<>>, Append(r.done, r.token)) \in Readers
    BY <1>2, <2>1, ReadingIs, Zenon
  <2>6. QED
    BY <2>2, <2>3, <2>4, <2>5
<1>5. QED
  BY <1>3, <1>4

\* That is so of a character that is passed over too.
LEMMA AdvanceIs ==
  ASSUME NEW L \in Seq(Chars), NEW i \in 1 .. Len(L), NEW r \in Readers
  PROVE  CL!Advance(L, i, r) \in Readers
BY ReadCharIs DEF CL!Advance

\* Reads is made from the start of the line, one character after the other.
LEMMA ReadsIs ==
  ASSUME NEW L \in Seq(Chars)
  PROVE  LET Z == CL!Reads(L)
         IN  /\ Z[0] = CL!Reading(1, "INIT", <<>>, <<>>)
             /\ \A i \in 0 .. Len(L) : Z[i] \in Readers
             /\ \A i \in 1 .. Len(L) : Z[i] = CL!Advance(L, i, Z[i - 1])
<1> DEFINE N == Len(L)
           a == CL!Reading(1, "INIT", <<>>, <<>>)
           F == [x \in (1 .. N) \X Readers |-> CL!Advance(L, x[1], x[2])]
           Step(f) == [i \in 0 .. N |-> IF i = 0 THEN a ELSE CL!Advance(L, i, f[i - 1])]
           Z == CHOOSE f : f = Step(f)
<1>1. N \in Nat /\ a \in Readers
  <2>1. Len(L) \in Nat /\ 1 \in Nat /\ "INIT" \in States /\ <<>> \in Seq(Chars) /\ <<>> \in Seq(Seq(Chars))
    BY DEF States
  <2>2. QED
    BY <2>1, ReadingIs
<1>2. F \in [(1 .. N) \X Readers -> Readers]
  <2>1. ASSUME NEW x \in (1 .. N) \X Readers PROVE CL!Advance(L, x[1], x[2]) \in Readers
    <3>1. x[1] \in 1 .. Len(L) /\ x[2] \in Readers
      OBVIOUS
    <3>2. QED
      BY <3>1, AdvanceIs
  <2>2. QED
    BY <2>1
<1>3. ASSUME NEW i \in 1 .. N, NEW r \in Readers PROVE F[<<i, r>>] = CL!Advance(L, i, r)
  BY Zenon
<1>4. CL!Reads(L) = Z
  BY Zenon DEF CL!Reads
<1> HIDE DEF N, a, F
<1>5. PICK f \in [0 .. N -> Readers] : IsMade(f, a, F, N)
  BY <1>1, <1>2, MadeExists, Zenon
<1>6. f[0] = a /\ \A i \in 1 .. N : f[i] = CL!Advance(L, i, f[i - 1])
  <2>1. ASSUME NEW i \in 1 .. N PROVE i - 1 \in 0 .. N
    BY <1>1
  <2>2. QED
    BY <1>3, <1>5, <2>1 DEF IsMade
<1>7. f = Step(f)
  <2>1. ASSUME NEW i \in 0 .. N PROVE f[i] = Step(f)[i]
    BY <1>1, <1>6
  <2>2. QED
    BY <2>1
<1>8. Z = Step(Z)
  BY <1>7, Zenon
<1> HIDE DEF Z
<1>9. Z[0] = a /\ \A i \in 1 .. N : Z[i] = CL!Advance(L, i, Z[i - 1])
  BY <1>1, <1>8
<1>10. \A i \in 0 .. N : Z[i] = f[i]
  <2>1. Z[0] = f[0] /\ \A i \in 1 .. N : Z[i - 1] = f[i - 1] => Z[i] = f[i]
    BY <1>6, <1>9, Zenon
  <2>2. QED
    BY <1>1, <2>1, SameValues, Zenon
<1>11. \A i \in 0 .. N : Z[i] \in Readers
  BY <1>10
<1>12. QED
  BY <1>4, <1>9, <1>11 DEF N, a

\* The first p characters of L are read.
At(L, p, s, t, d) == CL!Reads(L)[p] = CL!Reading(p + 1, s, t, d)

\* A reading that goes k characters on is what is carried behind them.
LEMMA Passes ==
  ASSUME NEW L \in Seq(Chars), NEW p \in 0 .. Len(L), NEW k \in 1 .. Len(L) - p,
         NEW s, NEW t, NEW d, At(L, p, s, t, d),
         NEW s2, NEW t2, NEW d2,
         CL!ReadChar(L, p + 1, CL!Reading(p + 1, s, t, d)) = CL!Reading(p + 1 + k, s2, t2, d2)
  PROVE  At(L, p + k, s2, t2, d2)
<1> DEFINE Z == CL!Reads(L)
           r == CL!Reading(p + 1 + k, s2, t2, d2)
           T == {j \in 0 .. k - 1 : Z[p + 1 + j] = r}
<1>1. \A i \in 1 .. Len(L) : Z[i] = CL!Advance(L, i, Z[i - 1])
  BY ReadsIs
<1>2. k - 1 \in Nat /\ k - 1 \in 0 .. k - 1 /\ p + 1 + (k - 1) = p + k
  OBVIOUS
<1>3. 0 \in T
  <2>1. PICK i \in 1 .. Len(L) : i = p + 1 /\ i - 1 = p /\ p + 1 + 0 = i /\ 0 \in 0 .. k - 1
    OBVIOUS
  <2>2. Z[i] = CL!Advance(L, i, Z[p])
    BY <1>1, <2>1
  <2>3. Z[p] = CL!Reading(i, s, t, d)
    BY <2>1 DEF At
  <2>4. CL!Reading(i, s, t, d).next = i
    BY DEF CL!Reading
  <2>5. Z[i] = CL!ReadChar(L, i, CL!Reading(i, s, t, d))
    BY <2>2, <2>3, <2>4, Zenon DEF CL!Advance
  <2>6. Z[i] = r
    BY <2>1, <2>5
  <2>7. QED
    BY <2>1, <2>6
<1>4. ASSUME NEW j \in 0 .. k - 1, j # k - 1, j \in T PROVE j + 1 \in T
  <2>1. PICK i \in 1 .. Len(L) : i = p + 1 + (j + 1) /\ i - 1 = p + 1 + j /\ i # p + 1 + k /\ j + 1 \in 0 .. k - 1
    BY <1>4
  <2>2. Z[i - 1] = r
    BY <1>4, <2>1
  <2>3. r.next = p + 1 + k
    BY DEF CL!Reading
  <2> HIDE DEF r
  <2>4. Z[i] = r
    BY <1>1, <2>1, <2>2, <2>3, Zenon DEF CL!Advance
  <2>5. QED
    BY <2>1, <2>4
<1> HIDE DEF T
<1>5. k - 1 \in T
  BY <1>2, <1>3, <1>4, UpTo
<1>6. Z[p + k] = r
  BY <1>2, <1>5 DEF T
<1>7. p + k + 1 = p + 1 + k
  OBVIOUS
<1>8. QED
  BY <1>6, <1>7 DEF At

\* A character that is read by itself.
LEMMA PassesOne ==
  ASSUME NEW L \in Seq(Chars), NEW p \in 0 .. Len(L) - 1,
         NEW s, NEW t, NEW d, At(L, p, s, t, d),
         NEW s2, NEW t2, NEW d2,
         CL!ReadChar(L, p + 1, CL!Reading(p + 1, s, t, d)) = CL!Reading(p + 2, s2, t2, d2)
  PROVE  At(L, p + 1, s2, t2, d2)
<1>1. PICK k \in 1 .. Len(L) - p : k = 1 /\ p + 1 + k = p + 2 /\ p + k = p + 1 /\ p \in 0 .. Len(L)
  OBVIOUS
<1>2. CL!ReadChar(L, p + 1, CL!Reading(p + 1, s, t, d)) = CL!Reading(p + 1 + k, s2, t2, d2)
  BY <1>1
<1>3. At(L, p + k, s2, t2, d2)
  BY <1>1, <1>2, Passes
<1>4. QED
  BY <1>1, <1>3

\* A letter is appended to the token, and so is whitespace in quotes.
LEMMA PassesLetter ==
  ASSUME NEW L \in Seq(Chars), NEW p \in 0 .. Len(L) - 1, NEW s, NEW t, NEW d, At(L, p, s, t, d),
         L[p + 1] \notin {"slash", "quote"}, L[p + 1] \in CL!Whitespace => s = "QUOTED"
  PROVE  At(L, p + 1, CL!Inside(s), Append(t, L[p + 1]), d)
<1>1. CL!ReadChar(L, p + 1, CL!Reading(p + 1, s, t, d)) = CL!Reading(p + 2, CL!Inside(s), Append(t, L[p + 1]), d)
  <2> DEFINE r == CL!Reading(p + 1, s, t, d)
  <2>1. r.state = s /\ r.token = t /\ r.done = d
    BY DEF CL!Reading
  <2> HIDE DEF r
  <2>2. CL!ReadChar(L, p + 1, r) = CL!Reading(p + 1 + 1, CL!Inside(r.state), Append(r.token, L[p + 1]), r.done)
    BY <2>1 DEF CL!ReadChar
  <2>3. p + 1 + 1 = p + 2
    OBVIOUS
  <2>4. QED
    BY <2>1, <2>2, <2>3 DEF r
<1>2. QED
  BY <1>1, PassesOne

\* A quote opens quotes;
LEMMA PassesOpening ==
  ASSUME NEW L \in Seq(Chars), NEW p \in 0 .. Len(L) - 1, NEW s, NEW t, NEW d, At(L, p, s, t, d),
         L[p + 1] = "quote", s # "QUOTED"
  PROVE  At(L, p + 1, "QUOTED", t, d)
<1>1. CL!ReadChar(L, p + 1, CL!Reading(p + 1, s, t, d)) = CL!Reading(p + 2, "QUOTED", t, d)
  BY DEF CL!ReadChar, CL!Reading, CL!Whitespace
<1>2. QED
  BY <1>1, PassesOne

\* and closes them, unless another follows.
LEMMA PassesClosing ==
  ASSUME NEW L \in Seq(Chars), NEW p \in 0 .. Len(L) - 1, NEW t, NEW d, At(L, p, "QUOTED", t, d),
         L[p + 1] = "quote", p + 1 = Len(L) \/ L[p + 2] # "quote"
  PROVE  At(L, p + 1, "UNQUOTED", t, d)
<1>1. CL!ReadChar(L, p + 1, CL!Reading(p + 1, "QUOTED", t, d)) = CL!Reading(p + 2, "UNQUOTED", t, d)
  BY DEF CL!ReadChar, CL!Reading, CL!Whitespace
<1>2. QED
  BY <1>1, PassesOne

\* Whitespace out of quotes ends the token, if there is one.
LEMMA PassesWhitespace ==
  ASSUME NEW L \in Seq(Chars), NEW p \in 0 .. Len(L) - 1, NEW s, NEW t, NEW d, At(L, p, s, t, d),
         L[p + 1] \in CL!Whitespace
  PROVE  /\ s = "INIT" => At(L, p + 1, "INIT", t, d)
         /\ s = "UNQUOTED" => At(L, p + 1, "INIT", <<>>, Append(d, t))
<1>1. CASE s = "INIT"
  <2>1. CL!ReadChar(L, p + 1, CL!Reading(p + 1, s, t, d)) = CL!Reading(p + 2, "INIT", t, d)
    BY <1>1 DEF CL!ReadChar, CL!Reading, CL!Whitespace
  <2>2. QED
    BY <1>1, <2>1, PassesOne
<1>2. CASE s = "UNQUOTED"
  <2>1. CL!ReadChar(L, p + 1, CL!Reading(p + 1, s, t, d)) = CL!Reading(p + 2, "INIT", <<>>, Append(d, t))
    <3> DEFINE r == CL!Reading(p + 1, s, t, d)
    <3>1. r.state = "UNQUOTED" /\ r.token = t /\ r.done = d
      BY <1>2 DEF CL!Reading
    <3> HIDE DEF r
    <3>2. CL!ReadChar(L, p + 1, r) = CL!Reading(p + 1 + 1, "INIT", <<>>, Append(r.done, r.token))
      BY <3>1 DEF CL!ReadChar, CL!Whitespace
    <3>3. p + 1 + 1 = p + 2
      OBVIOUS
    <3>4. QED
      BY <3>1, <3>2, <3>3 DEF r
  <2>2. QED
    BY <1>2, <2>1, PassesOne
<1>3. QED
  BY <1>1, <1>2

\* Backslashes: before a quote half of them, elsewhere all of them.
LEMMA PassesSlashes ==
  ASSUME NEW L \in Seq(Chars), NEW p \in 0 .. Len(L), NEW k \in 1 .. Len(L) - p,
         NEW s, NEW t, NEW d, At(L, p, s, t, d),
         \A j \in 1 .. k : L[p + j] = "slash", p + k = Len(L) \/ L[p + k + 1] # "slash"
  PROVE  /\ p + k = Len(L) \/ L[p + k + 1] # "quote" => At(L, p + k, CL!Inside(s), t \o CL!Slashes(k), d)
         /\ p + k # Len(L) /\ L[p + k + 1] = "quote" /\ k % 2 = 0
              => At(L, p + k, CL!Inside(s), t \o CL!Slashes(k \div 2), d)
         /\ p + k # Len(L) /\ L[p + k + 1] = "quote" /\ k % 2 # 0
              => At(L, p + (k + 1), CL!Inside(s), t \o Append(CL!Slashes(k \div 2), "quote"), d)
<1> DEFINE r == CL!Reading(p + 1, s, t, d)
           b == CL!ParseBackslash(L, p + 1)
<1>1. PICK i \in 1 .. Len(L) : i = p + 1
  OBVIOUS
<1>2. k \in 1 .. Len(L) - i + 1 /\ CL!IsRun(L, i, k)
  <2>1. ASSUME NEW j \in i .. i + k - 1 PROVE L[j] = "slash"
    <3>1. PICK m \in 1 .. k : m = j - p /\ p + m = j
      BY <1>1
    <3>2. QED
      BY <3>1
  <2>2. k \in 1 .. Len(L) - i + 1 /\ (i + k > Len(L) <=> p + k = Len(L)) /\ i + k = p + k + 1
    BY <1>1
  <2>3. QED
    BY <2>1, <2>2 DEF CL!IsRun
<1>3. (CHOOSE n \in 1 .. Len(L) - i + 1 : CL!IsRun(L, i, n)) = k
  BY <1>2, RunIs
<1>4. L[p + 1] = "slash"
  OBVIOUS
<1>5. CL!ReadChar(L, p + 1, r) = CL!Reading(b.next, CL!Inside(s), t \o b.chars, d)
  <2>1. r.state = s /\ r.token = t /\ r.done = d
    BY DEF CL!Reading
  <2> HIDE DEF r, b
  <2>2. CL!ReadChar(L, p + 1, r) = CL!Reading(b.next, CL!Inside(r.state), r.token \o b.chars, r.done)
    BY <1>4 DEF CL!ReadChar, CL!Whitespace, b
  <2>3. QED
    BY <2>1, <2>2
<1>6. (i + k <= Len(L) <=> p + k # Len(L)) /\ i + k = p + k + 1 /\ i + k = p + 1 + k
  BY <1>1
<1> DEFINE Q == i + k <= Len(L) /\ L[i + k] = "quote"
<1>7. b = IF ~Q THEN [chars |-> CL!Slashes(k), next |-> i + k]
          ELSE IF k % 2 = 0 THEN [chars |-> CL!Slashes(k \div 2), next |-> i + k]
          ELSE [chars |-> Append(CL!Slashes(k \div 2), "quote"), next |-> i + k + 1]
  BY <1>1, <1>3, Zenon DEF CL!ParseBackslash
<1> HIDE DEF r, b
<1>8. CASE ~Q
  <2>1. b.chars = CL!Slashes(k) /\ b.next = p + 1 + k
    BY <1>6, <1>7, <1>8
  <2>2. CL!ReadChar(L, p + 1, r) = CL!Reading(p + 1 + k, CL!Inside(s), t \o CL!Slashes(k), d)
    BY <1>5, <2>1
  <2>3. At(L, p + k, CL!Inside(s), t \o CL!Slashes(k), d)
    BY <2>2, Passes DEF r
  <2>4. QED
    BY <1>6, <1>8, <2>3
<1>9. CASE Q /\ k % 2 = 0
  <2>1. b.chars = CL!Slashes(k \div 2) /\ b.next = p + 1 + k
    BY <1>6, <1>7, <1>9
  <2>2. CL!ReadChar(L, p + 1, r) = CL!Reading(p + 1 + k, CL!Inside(s), t \o CL!Slashes(k \div 2), d)
    BY <1>5, <2>1
  <2>3. At(L, p + k, CL!Inside(s), t \o CL!Slashes(k \div 2), d)
    BY <2>2, Passes DEF r
  <2>4. QED
    BY <1>6, <1>9, <2>3
<1>10. CASE Q /\ k % 2 # 0
  <2>1. PICK m \in 1 .. Len(L) - p : m = k + 1 /\ p + 1 + m = i + k + 1
    BY <1>1, <1>6, <1>10
  <2>2. b.chars = Append(CL!Slashes(k \div 2), "quote") /\ b.next = p + 1 + m
    BY <1>6, <1>7, <1>10, <2>1
  <2>3. CL!ReadChar(L, p + 1, r) = CL!Reading(p + 1 + m, CL!Inside(s), t \o Append(CL!Slashes(k \div 2), "quote"), d)
    BY <1>5, <2>2
  <2>4. At(L, p + m, CL!Inside(s), t \o Append(CL!Slashes(k \div 2), "quote"), d)
    BY <2>3, Passes DEF r
  <2>5. QED
    BY <1>6, <1>10, <2>1, <2>4
<1>11. QED
  BY <1>8, <1>9, <1>10

\* A text is the start of another.
Starts(t, u) == Len(t) <= Len(u) /\ \A i \in 1 .. Len(t) : u[i] = t[i]

\* What a concatenation consists of.
LEMMA ConcatIs ==
  ASSUME NEW t \in Seq(Chars), NEW u \in Seq(Chars)
  PROVE  /\ t \o u \in Seq(Chars) /\ Len(t \o u) = Len(t) + Len(u)
         /\ \A i \in 1 .. Len(t) : (t \o u)[i] = t[i]
         /\ \A i \in 1 .. Len(u) : (t \o u)[Len(t) + i] = u[i]
OBVIOUS

\* What EscapeChar appends to the text, and how many backslashes there then are.
LEMMA EscapeCharMakes ==
  ASSUME NEW e \in Escapes, NEW c \in Chars
  PROVE  LET x == CL!EscapeChar(e, c)
             l == Len(e.text)
         IN  /\ Starts(e.text, x.text)
             /\ c = "slash" => x.slashes = e.slashes + 1 /\ Len(x.text) = l + 1 /\ x.text[l + 1] = c
             /\ c = "quote" => /\ x.slashes = 0 /\ Len(x.text) = l + e.slashes + 2
                               /\ \A j \in 1 .. e.slashes + 1 : x.text[l + j] = "slash"
                               /\ x.text[l + e.slashes + 2] = c
             /\ c \notin {"slash", "quote"} => x.slashes = 0 /\ Len(x.text) = l + 1 /\ x.text[l + 1] = c
<1> DEFINE x == CL!EscapeChar(e, c)
           l == Len(e.text)
<1>1. e.text \in Seq(Chars) /\ e.slashes \in Nat /\ l \in Nat
  BY DEF Escapes
<1>2. ASSUME x.text = Append(e.text, c) PROVE Starts(e.text, x.text) /\ Len(x.text) = l + 1 /\ x.text[l + 1] = c
  BY <1>1, <1>2 DEF Starts
<1>3. CASE c = "slash"
  <2>1. x.text = Append(e.text, c) /\ x.slashes = e.slashes + 1
    BY <1>3 DEF CL!EscapeChar
  <2>2. QED
    BY <1>2, <1>3, <2>1
<1>4. CASE c = "quote"
  <2>1. PICK k \in Nat : k = e.slashes + 1
    BY <1>1
  <2> DEFINE u == CL!Slashes(k)
             v == e.text \o u
  <2>2. x.text = v \o <<c>> /\ x.slashes = 0
    BY <1>4, <2>1 DEF CL!EscapeChar
  <2>3. u \in Seq(Chars) /\ Len(u) = k /\ \A j \in 1 .. k : u[j] = "slash"
    BY SlashesAre
  <2> HIDE DEF u, x
  <2>4. /\ v \in Seq(Chars) /\ Len(v) = l + k
        /\ \A i \in 1 .. l : v[i] = e.text[i]
        /\ \A i \in 1 .. k : v[l + i] = u[i]
    <3>1. v \in Seq(Chars) /\ Len(v) = Len(e.text) + Len(u)
          /\ (\A i \in 1 .. Len(e.text) : v[i] = e.text[i])
          /\ \A i \in 1 .. Len(u) : v[Len(e.text) + i] = u[i]
      <4>1. PICK t \in Seq(Chars) : t = e.text
        BY <1>1
      <4>2. /\ t \o u \in Seq(Chars) /\ Len(t \o u) = Len(t) + Len(u)
            /\ (\A i \in 1 .. Len(t) : (t \o u)[i] = t[i])
            /\ \A i \in 1 .. Len(u) : (t \o u)[Len(t) + i] = u[i]
        BY <2>3, ConcatIs, Zenon
      <4>3. QED
        BY <4>1, <4>2
    <3> HIDE DEF v
    <3>2. QED
      BY <2>3, <3>1
  <2> HIDE DEF v
  <2>5. x.text = Append(v, c)
    BY <2>2, <2>4
  <2>6. Len(x.text) = l + k + 1 /\ x.text[l + k + 1] = c /\ \A i \in 1 .. l + k : x.text[i] = v[i]
    BY <1>1, <2>4, <2>5
  <2>7. Starts(e.text, x.text)
    BY <1>1, <2>4, <2>6 DEF Starts
  <2>8. ASSUME NEW j \in 1 .. k PROVE x.text[l + j] = "slash"
    <3>1. l + j \in 1 .. l + k
      BY <1>1
    <3>2. QED
      BY <2>3, <2>4, <2>6, <3>1
  <2>9. l + k + 1 = l + e.slashes + 2
    BY <1>1, <2>1
  <2>10. QED
    BY <1>4, <2>1, <2>2, <2>6, <2>7, <2>8, <2>9 DEF x
<1>5. CASE c \notin {"slash", "quote"}
  <2>1. x.text = Append(e.text, c) /\ x.slashes = 0
    BY <1>5 DEF CL!EscapeChar
  <2>2. QED
    BY <1>2, <1>5, <2>1
<1>6. QED
  BY <1>3, <1>4, <1>5

\* The start of a start is a start.
LEMMA StartsTransitive ==
  ASSUME NEW t \in Seq(Chars), NEW u \in Seq(Chars), NEW v \in Seq(Chars), Starts(t, u), Starts(u, v)
  PROVE  Starts(t, v)
BY DEF Starts

\* What is written of an argument up to a character starts what is written of it.
LEMMA EscapedStarts ==
  ASSUME NEW arg \in Seq(Chars), NEW n \in 0 .. Len(arg)
  PROVE  Starts(CL!Escaped(arg)[n].text, CL!Body(arg).text)
<1> DEFINE E == CL!Escaped(arg)
           N == Len(arg)
           T == {k \in 0 .. N : Starts(E[N - k].text, E[N].text)}
<1>1. N \in Nat /\ \A i \in 1 .. N : arg[i] \in Chars
  OBVIOUS
<1>2. (\A i \in 0 .. N : E[i] \in Escapes) /\ \A i \in 1 .. N : E[i] = CL!EscapeChar(E[i - 1], arg[i])
  BY EscapedIs
<1> HIDE DEF E, N
<1>3. \A i \in 0 .. N : E[i].text \in Seq(Chars)
  BY <1>2 DEF Escapes
<1>4. 0 \in T
  <2>1. 0 \in 0 .. N /\ N - 0 = N /\ N \in 0 .. N
    BY <1>1
  <2>2. Starts(E[N].text, E[N].text)
    BY <1>3, <2>1 DEF Starts
  <2>3. QED
    BY <2>1, <2>2
<1>5. ASSUME NEW k \in 0 .. N, k # N, k \in T PROVE k + 1 \in T
  <2>1. PICK m \in 1 .. N :
        /\ m = N - k /\ m - 1 = N - (k + 1) /\ m - 1 \in 0 .. N /\ m \in 0 .. N /\ k + 1 \in 0 .. N
        /\ N \in 0 .. N
    BY <1>1, <1>5
  <2>2. Starts(E[m].text, E[N].text)
    BY <1>5, <2>1
  <2>3. Starts(E[m - 1].text, E[m].text)
    BY <1>1, <1>2, <2>1, EscapeCharMakes
  <2>4. Starts(E[m - 1].text, E[N].text)
    BY <1>3, <2>1, <2>2, <2>3, StartsTransitive
  <2>5. QED
    BY <2>1, <2>4
<1> HIDE DEF T
<1>6. 0 .. N \subseteq T
  BY <1>1, <1>4, <1>5, UpTo
<1>7. PICK k \in 0 .. N : k = N - n /\ N - k = n
  BY <1>1 DEF N
<1>8. QED
  BY <1>6, <1>7 DEF T, CL!Body, E, N

\* The backslashes before a character: what was written ends in them, too.
Pending(e, arg, n) ==
  /\ e.slashes <= n /\ e.slashes <= Len(e.text)
  /\ \A j \in 1 .. e.slashes : arg[n - e.slashes + j] = "slash" /\ e.text[Len(e.text) - e.slashes + j] = "slash"

\* The count of the backslashes is right, however much of the argument is written.
LEMMA EscapedPending ==
  ASSUME NEW arg \in Seq(Chars), NEW n \in 0 .. Len(arg)
  PROVE  Pending(CL!Escaped(arg)[n], arg, n)
<1> DEFINE E == CL!Escaped(arg)
           N == Len(arg)
           T == {k \in 0 .. N : Pending(E[k], arg, k)}
<1>1. N \in Nat /\ \A i \in 1 .. N : arg[i] \in Chars
  OBVIOUS
<1>2. E[0] = [text |-> <<>>, slashes |-> 0] /\ (\A i \in 0 .. N : E[i] \in Escapes)
      /\ \A i \in 1 .. N : E[i] = CL!EscapeChar(E[i - 1], arg[i])
  BY EscapedIs
<1> HIDE DEF E, N
<1>3. \A i \in 0 .. N : E[i].text \in Seq(Chars) /\ E[i].slashes \in Nat
  BY <1>2 DEF Escapes
<1>4. 0 \in T
  BY <1>1, <1>2 DEF Pending
<1>5. ASSUME NEW k \in 0 .. N, k # N, k \in T PROVE k + 1 \in T
  <2>1. PICK m \in 1 .. N : m = k + 1 /\ m - 1 = k /\ m \in 0 .. N
    BY <1>1, <1>5
  <2> DEFINE e == E[k]
             x == E[m]
             c == arg[m]
             l == Len(e.text)
  <2>2. Pending(e, arg, k) /\ e \in Escapes /\ c \in Chars /\ x = CL!EscapeChar(e, c)
    BY <1>1, <1>2, <1>5, <2>1
  <2>3. l \in Nat /\ e.slashes \in Nat /\ k \in Int /\ m \in Int
    BY <1>3
  <2>4. e.slashes <= l
    BY <2>2 DEF Pending
  <2> HIDE DEF e, c
  <2>5. /\ Starts(e.text, x.text)
        /\ c = "slash" => x.slashes = e.slashes + 1 /\ Len(x.text) = l + 1 /\ x.text[l + 1] = c
        /\ c = "quote" => x.slashes = 0
        /\ c \notin {"slash", "quote"} => x.slashes = 0
    BY <2>2, EscapeCharMakes
  <2> HIDE DEF x
  <2>6. Len(x.text) \in Nat
    BY <1>3, <2>1 DEF x
  <2>7. CASE c # "slash"
    <3>1. x.slashes = 0
      BY <2>5, <2>7
    <3>2. Pending(x, arg, m)
      BY <2>6, <3>1 DEF Pending
    <3>3. QED
      BY <2>1, <3>2 DEF x
  <2>8. CASE c = "slash"
    <3>1. x.slashes = e.slashes + 1 /\ Len(x.text) = l + 1 /\ x.text[l + 1] = "slash"
      BY <2>5, <2>8
    <3>2. ASSUME NEW j \in 1 .. e.slashes + 1
          PROVE  arg[m - (e.slashes + 1) + j] = "slash" /\ x.text[l + 1 - (e.slashes + 1) + j] = "slash"
      <4>1. CASE j = e.slashes + 1
        <5>1. m - (e.slashes + 1) + j = m /\ l + 1 - (e.slashes + 1) + j = l + 1
          BY <2>3, <4>1
        <5>2. QED
          BY <2>8, <3>1, <5>1 DEF c
      <4>2. CASE j # e.slashes + 1
        <5>1. j \in 1 .. e.slashes
          BY <2>3, <4>2
        <5>2. m - (e.slashes + 1) + j = k - e.slashes + j
          <6>1. m = k + 1
            BY <2>1
          <6>2. QED
            BY <2>3, <5>1, <6>1
        <5>3. l + 1 - (e.slashes + 1) + j = l - e.slashes + j
          BY <2>3, <5>1
        <5>4. arg[k - e.slashes + j] = "slash" /\ e.text[l - e.slashes + j] = "slash"
          BY <2>2, <5>1 DEF Pending
        <5>5. l - e.slashes + j \in 1 .. l
          <6>1. \A y, z \in Nat : \A i \in 1 .. z : z <= y => y - z + i \in 1 .. y
            OBVIOUS
          <6>2. QED
            BY <2>3, <2>4, <5>1, <6>1, Zenon
        <5>6. x.text[l - e.slashes + j] = "slash"
          BY <2>5, <5>4, <5>5 DEF Starts
        <5>7. QED
          BY <5>2, <5>3, <5>4, <5>6, Zenon
      <4>3. QED
        BY <4>1, <4>2
    <3>3. e.slashes + 1 <= m /\ e.slashes + 1 <= l + 1
      <4>1. e.slashes <= k /\ e.slashes <= l /\ m = k + 1
        BY <2>1, <2>2 DEF Pending
      <4>2. QED
        BY <2>3, <4>1
    <3>4. \A j \in 1 .. x.slashes : arg[m - x.slashes + j] = "slash" /\ x.text[Len(x.text) - x.slashes + j] = "slash"
      <4> SUFFICES ASSUME NEW j \in 1 .. x.slashes
                   PROVE  arg[m - x.slashes + j] = "slash" /\ x.text[Len(x.text) - x.slashes + j] = "slash"
        OBVIOUS
      <4>1. j \in 1 .. e.slashes + 1
        BY <3>1
      <4>2. arg[m - (e.slashes + 1) + j] = "slash" /\ x.text[l + 1 - (e.slashes + 1) + j] = "slash"
        BY <3>2, <4>1
      <4>3. m - x.slashes + j = m - (e.slashes + 1) + j /\ Len(x.text) - x.slashes + j = l + 1 - (e.slashes + 1) + j
        <5>1. PICK y \in Nat, q \in Nat, u \in Nat :
              /\ y = l /\ q = e.slashes /\ u = Len(x.text) /\ u = y + 1 /\ x.slashes = q + 1
          BY <2>3, <2>6, <3>1, Zenon
        <5>2. u - (q + 1) + j = y + 1 - (q + 1) + j
          <6>1. j \in Int /\ u = y + 1
            BY <5>1
          <6>2. QED
            BY <6>1
        <5>3. QED
          BY <5>1, <5>2, Zenon
      <4>4. QED
        BY <4>2, <4>3
    <3>5. Pending(x, arg, m)
      BY <3>1, <3>3, <3>4, Zenon DEF Pending
    <3>6. QED
      BY <2>1, <3>5 DEF x
  <2>9. QED
    BY <2>7, <2>8
<1> HIDE DEF T
<1>6. 0 .. N \subseteq T
  BY <1>1, <1>4, <1>5, UpTo
<1>7. QED
  BY <1>6 DEF T, E, N

\* What a part of a text consists of.
LEMMA SubIs ==
  ASSUME NEW s \in Seq(Chars), NEW m \in 0 .. Len(s), NEW k \in m .. Len(s)
  PROVE  /\ SubSeq(s, m + 1, k) \in Seq(Chars) /\ Len(SubSeq(s, m + 1, k)) = k - m
         /\ \A i \in 1 .. k - m : SubSeq(s, m + 1, k)[i] = s[m + i]
<1>1. \A i \in m + 1 .. k : s[i] \in Chars
  OBVIOUS
<1>2. PICK n \in Int : n = m + 1
  OBVIOUS
<1>3. k \in Int /\ \A i \in n .. k : s[i] \in Chars
  BY <1>1, <1>2
<1>4. SubSeq(s, n, k) \in Seq(Chars) /\ Len(SubSeq(s, n, k)) = (IF n <= k THEN k - n + 1 ELSE 0)
      /\ \A i \in 1 .. k - n + 1 : SubSeq(s, n, k)[i] = s[n + i - 1]
  BY <1>3, SubSeqProperties
<1>5. (IF n <= k THEN k - n + 1 ELSE 0) = k - m /\ k - n + 1 = k - m
  BY <1>2
<1>6. ASSUME NEW i \in 1 .. k - m PROVE n + i - 1 = m + i
  BY <1>2
<1>7. QED
  BY <1>2, <1>4, <1>5, <1>6

\* A part of an argument goes on with the characters that follow.
LEMMA SubGoesOn ==
  ASSUME NEW s \in Seq(Chars), NEW m \in 0 .. Len(s), NEW k \in m .. Len(s), NEW n \in k .. Len(s),
         NEW x \in Seq(Chars), Len(x) = n - k, \A i \in 1 .. n - k : x[i] = s[k + i]
  PROVE  SubSeq(s, m + 1, k) \o x = SubSeq(s, m + 1, n)
<1> DEFINE t == SubSeq(s, m + 1, k)
           u == SubSeq(s, m + 1, n)
<1>1. t \in Seq(Chars) /\ Len(t) = k - m /\ \A i \in 1 .. k - m : t[i] = s[m + i]
  BY SubIs
<1>2. u \in Seq(Chars) /\ Len(u) = n - m /\ \A i \in 1 .. n - m : u[i] = s[m + i]
  <2>1. n \in m .. Len(s)
    OBVIOUS
  <2>2. QED
    BY <2>1, SubIs
<1> HIDE DEF t, u
<1>3. t \o x \in Seq(Chars) /\ Len(t \o x) = n - m
      /\ (\A i \in 1 .. k - m : (t \o x)[i] = t[i])
      /\ \A i \in 1 .. n - k : (t \o x)[(k - m) + i] = x[i]
  <2>1. t \o x \in Seq(Chars) /\ Len(t \o x) = Len(t) + Len(x)
        /\ (\A i \in 1 .. Len(t) : (t \o x)[i] = t[i])
        /\ \A i \in 1 .. Len(x) : (t \o x)[Len(t) + i] = x[i]
    BY <1>1, ConcatIs
  <2>2. (k - m) + (n - k) = n - m
    OBVIOUS
  <2>3. QED
    BY <1>1, <2>1, <2>2
<1>4. ASSUME NEW i \in 1 .. n - m PROVE (t \o x)[i] = u[i]
  <2>1. CASE i <= k - m
    <3>1. i \in 1 .. k - m
      BY <2>1
    <3>2. QED
      BY <1>1, <1>2, <1>3, <3>1
  <2>2. CASE ~(i <= k - m)
    <3>1. PICK j \in 1 .. n - k : (k - m) + j = i /\ k + j = m + i
      <4>1. i - (k - m) \in 1 .. n - k /\ (k - m) + (i - (k - m)) = i /\ k + (i - (k - m)) = m + i
        BY <2>2
      <4>2. QED
        BY <4>1
    <3>2. (t \o x)[i] = x[j] /\ x[j] = s[m + i]
      BY <1>3, <3>1
    <3>3. QED
      BY <1>2, <3>2
  <2>3. QED
    BY <2>1, <2>2
<1>5. Len(t \o x) = Len(u) /\ \A i \in 1 .. Len(t \o x) : (t \o x)[i] = u[i]
  BY <1>2, <1>3, <1>4
<1>6. t \o x = u
  BY <1>2, <1>3, <1>5, SeqEqual
<1>7. QED
  BY <1>6 DEF t, u

\* Of none of the arguments would anything be lost.
AllSafe(d) == \A i \in DOMAIN d : CL!Safe(d[i])

\* What the reader is doing at k characters of an argument of which it has dropped m.
StateIn(arg, m, k) == IF CL!Has(arg, "space") THEN "QUOTED" ELSE IF m = k THEN "INIT" ELSE "UNQUOTED"

\* With p characters of the line, k of an argument are read: to the token, or to
\* tokens that are done, if there are breaks and no quotes.
Ahead(L, p, k, arg, d0) ==
  \E m \in 0 .. k, d \in Seq(Seq(Chars)) :
    /\ At(L, p, StateIn(arg, m, k), SubSeq(arg, m + 1, k), d)
    /\ m = 0 => d = d0
    /\ m # 0 => ~CL!Safe(arg)
    /\ ~CL!Has(arg, "space") => \A i \in m + 1 .. k : arg[i] # "break"
    /\ AllSafe(d0) => AllSafe(d)

\* More of the argument is read, none of it whitespace that ends the token.
LEMMA AheadMore ==
  ASSUME NEW L, NEW p, NEW q, NEW arg \in Seq(Chars), NEW k \in 0 .. Len(arg), NEW n \in k + 1 .. Len(arg), NEW d0,
         Ahead(L, p, k, arg, d0),
         NEW x \in Seq(Chars), Len(x) = n - k, \A i \in 1 .. n - k : x[i] = arg[k + i],
         CL!Has(arg, "space") \/ \A i \in 1 .. n - k : x[i] # "break",
         \A s \in States, t \in Seq(Chars), d \in Seq(Seq(Chars)) :
           At(L, p, s, t, d) /\ (CL!Has(arg, "space") => s = "QUOTED") => At(L, q, CL!Inside(s), t \o x, d)
  PROVE  Ahead(L, q, n, arg, d0)
<1>1. PICK m \in 0 .. k, d \in Seq(Seq(Chars)) :
        /\ At(L, p, StateIn(arg, m, k), SubSeq(arg, m + 1, k), d)
        /\ m = 0 => d = d0
        /\ m # 0 => ~CL!Safe(arg)
        /\ ~CL!Has(arg, "space") => \A i \in m + 1 .. k : arg[i] # "break"
        /\ AllSafe(d0) => AllSafe(d)
  BY Zenon DEF Ahead
<1>2. m \in 0 .. n /\ m # n /\ m \in 0 .. Len(arg) /\ k \in m .. Len(arg) /\ n \in k .. Len(arg)
  OBVIOUS
<1>3. SubSeq(arg, m + 1, k) \in Seq(Chars)
  BY <1>2, SubIs
<1>4. SubSeq(arg, m + 1, k) \o x = SubSeq(arg, m + 1, n)
  BY <1>2, SubGoesOn
<1>5. StateIn(arg, m, k) \in States /\ (CL!Has(arg, "space") => StateIn(arg, m, k) = "QUOTED")
      /\ CL!Inside(StateIn(arg, m, k)) = StateIn(arg, m, n)
  BY <1>2 DEF StateIn, States, CL!Inside
<1>6. At(L, q, StateIn(arg, m, n), SubSeq(arg, m + 1, n), d)
  BY <1>1, <1>3, <1>4, <1>5, Zenon
<1>7. ASSUME ~CL!Has(arg, "space"), NEW i \in m + 1 .. n PROVE arg[i] # "break"
  <2>1. CASE i <= k
    <3>1. i \in m + 1 .. k
      BY <2>1
    <3>2. QED
      BY <1>1, <1>7, <3>1
  <2>2. CASE ~(i <= k)
    <3>1. PICK j \in 1 .. n - k : k + j = i
      <4>1. i - k \in 1 .. n - k /\ k + (i - k) = i
        BY <2>2
      <4>2. QED
        BY <4>1
    <3>2. QED
      BY <1>7, <3>1
  <2>3. QED
    BY <2>1, <2>2
<1>8. QED
  BY <1>1, <1>2, <1>6, <1>7, Zenon DEF Ahead

\* The backslashes of an argument, as a text.
LEMMA SlashesIn ==
  ASSUME NEW arg \in Seq(Chars), NEW k \in Nat, NEW s \in Nat, \A j \in 1 .. s : arg[k + j] = "slash"
  PROVE  /\ CL!Slashes(s) \in Seq(Chars) /\ Len(CL!Slashes(s)) = s
         /\ \A j \in 1 .. s : CL!Slashes(s)[j] = arg[k + j] /\ CL!Slashes(s)[j] # "break"
BY SlashesAre

\* Backslashes that are before neither a quote nor another one are read as they are.
LEMMA AheadSlashes ==
  ASSUME NEW L \in Seq(Chars), NEW p \in 0 .. Len(L), NEW s \in 0 .. Len(L) - p,
         NEW arg \in Seq(Chars), NEW k \in 0 .. Len(arg), k + s <= Len(arg), NEW d0,
         Ahead(L, p, k, arg, d0),
         \A j \in 1 .. s : L[p + j] = "slash" /\ arg[k + j] = "slash",
         p + s = Len(L) \/ L[p + s + 1] \notin {"slash", "quote"}
  PROVE  Ahead(L, p + s, k + s, arg, d0)
<1>1. CASE s = 0
  <2>1. p + s = p /\ k + s = k
    BY <1>1
  <2>2. QED
    BY <2>1, Zenon
<1>2. CASE s # 0
  <2>1. s \in 1 .. Len(L) - p /\ s \in Nat /\ k \in Nat
    BY <1>2
  <2>2. PICK n \in k + 1 .. Len(arg) : n = k + s /\ n - k = s
    BY <1>2
  <2> DEFINE x == CL!Slashes(s)
  <2>3. x \in Seq(Chars) /\ Len(x) = s /\ \A j \in 1 .. s : x[j] = arg[k + j] /\ x[j] # "break"
    <3>1. s \in Nat /\ k \in Nat /\ \A j \in 1 .. s : arg[k + j] = "slash"
      BY <2>1
    <3>2. QED
      BY <3>1, SlashesIn
  <2>4. ASSUME NEW st \in States, NEW t \in Seq(Chars), NEW d \in Seq(Seq(Chars)), At(L, p, st, t, d)
        PROVE  At(L, p + s, CL!Inside(st), t \o x, d)
    BY <2>1, <2>4, PassesSlashes
  <2> HIDE DEF x
  <2>5. Len(x) = n - k /\ (\A i \in 1 .. n - k : x[i] = arg[k + i]) /\ (\A i \in 1 .. n - k : x[i] # "break")
    BY <2>2, <2>3
  <2>6. Ahead(L, p + s, n, arg, d0)
    BY <2>3, <2>4, <2>5, AheadMore
  <2>7. QED
    BY <2>2, <2>6
<1>3. QED
  BY <1>1, <1>2

\* Of twice the backslashes before a quote half are read.
LEMMA AheadHalf ==
  ASSUME NEW L \in Seq(Chars), NEW p \in 0 .. Len(L), NEW s \in Nat, p + 2 * s < Len(L),
         NEW arg \in Seq(Chars), NEW k \in 0 .. Len(arg), k + s <= Len(arg), NEW d0,
         Ahead(L, p, k, arg, d0),
         \A j \in 1 .. 2 * s : L[p + j] = "slash", \A j \in 1 .. s : arg[k + j] = "slash",
         L[p + 2 * s + 1] = "quote"
  PROVE  Ahead(L, p + 2 * s, k + s, arg, d0)
<1>1. CASE s = 0
  <2>1. p + 2 * s = p /\ k + s = k
    BY <1>1
  <2>2. QED
    BY <2>1, Zenon
<1>2. CASE s # 0
  <2>1. PICK h \in 1 .. Len(L) - p : h = 2 * s /\ h % 2 = 0 /\ h \div 2 = s /\ p + h # Len(L) /\ L[p + h + 1] = "quote"
    <3>1. 2 * s \in 1 .. Len(L) - p /\ (2 * s) % 2 = 0 /\ (2 * s) \div 2 = s /\ p + 2 * s # Len(L)
      BY <1>2
    <3>2. QED
      BY <3>1
  <2>2. PICK n \in k + 1 .. Len(arg) : n = k + s /\ n - k = s
    BY <1>2
  <2> DEFINE x == CL!Slashes(s)
  <2>3. x \in Seq(Chars) /\ Len(x) = s /\ \A j \in 1 .. s : x[j] = arg[k + j] /\ x[j] # "break"
    <3>1. k \in Nat
      OBVIOUS
    <3>2. QED
      BY <3>1, SlashesIn
  <2>4. (\A j \in 1 .. h : L[p + j] = "slash") /\ L[p + h + 1] # "slash"
    BY <2>1
  <2>5. ASSUME NEW st \in States, NEW t \in Seq(Chars), NEW d \in Seq(Seq(Chars)), At(L, p, st, t, d)
        PROVE  At(L, p + h, CL!Inside(st), t \o x, d)
    <3>1. At(L, p + h, CL!Inside(st), t \o CL!Slashes(h \div 2), d)
      BY <2>1, <2>4, <2>5, PassesSlashes
    <3>2. QED
      BY <2>1, <3>1
  <2> HIDE DEF x
  <2>6. Len(x) = n - k /\ (\A i \in 1 .. n - k : x[i] = arg[k + i]) /\ (\A i \in 1 .. n - k : x[i] # "break")
    BY <2>2, <2>3
  <2>7. Ahead(L, p + h, n, arg, d0)
    BY <2>3, <2>5, <2>6, AheadMore
  <2>8. QED
    BY <2>1, <2>2, <2>7
<1>3. QED
  BY <1>1, <1>2

\* What an appended text consists of.
LEMMA AppendIs ==
  ASSUME NEW t \in Seq(Chars), NEW c \in Chars
  PROVE  /\ Append(t, c) \in Seq(Chars) /\ Len(Append(t, c)) = Len(t) + 1
         /\ Append(t, c)[Len(t) + 1] = c /\ \A j \in 1 .. Len(t) : Append(t, c)[j] = t[j]
OBVIOUS

\* An odd number of backslashes before a quote makes it one of the argument.
LEMMA AheadQuote ==
  ASSUME NEW L \in Seq(Chars), NEW p \in 0 .. Len(L), NEW s \in Nat, p + 2 * s + 2 <= Len(L),
         NEW arg \in Seq(Chars), NEW k \in 0 .. Len(arg), k + s + 1 <= Len(arg), NEW d0,
         Ahead(L, p, k, arg, d0),
         \A j \in 1 .. 2 * s + 1 : L[p + j] = "slash", \A j \in 1 .. s : arg[k + j] = "slash",
         L[p + 2 * s + 2] = "quote", arg[k + s + 1] = "quote"
  PROVE  Ahead(L, p + 2 * s + 2, k + s + 1, arg, d0)
<1>1. PICK h \in 1 .. Len(L) - p :
        h = 2 * s + 1 /\ h % 2 # 0 /\ h \div 2 = s /\ p + h # Len(L) /\ L[p + h + 1] = "quote" /\ p + (h + 1) = p + 2 * s + 2
  <2>1. 2 * s + 1 \in 1 .. Len(L) - p /\ (2 * s + 1) % 2 # 0 /\ (2 * s + 1) \div 2 = s /\ p + (2 * s + 1) # Len(L)
        /\ p + (2 * s + 1) + 1 = p + 2 * s + 2 /\ p + ((2 * s + 1) + 1) = p + 2 * s + 2
    OBVIOUS
  <2>2. QED
    BY <2>1
<1>2. PICK n \in k + 1 .. Len(arg) : n = k + s + 1 /\ n - k = s + 1
  OBVIOUS
<1> DEFINE y == CL!Slashes(s)
           x == Append(y, "quote")
<1>3. y \in Seq(Chars) /\ Len(y) = s /\ \A j \in 1 .. s : y[j] = arg[k + j] /\ y[j] # "break"
  <2>1. k \in Nat
    OBVIOUS
  <2>2. QED
    BY <2>1, SlashesIn
<1> HIDE DEF y
<1>4. x \in Seq(Chars) /\ Len(x) = s + 1 /\ x[s + 1] = "quote" /\ \A j \in 1 .. s : x[j] = y[j]
  <2>1. PICK c \in Chars : c = "quote"
    BY DEF Chars
  <2>2. /\ Append(y, c) \in Seq(Chars) /\ Len(Append(y, c)) = Len(y) + 1
        /\ Append(y, c)[Len(y) + 1] = c /\ \A j \in 1 .. Len(y) : Append(y, c)[j] = y[j]
    BY <1>3, AppendIs
  <2>3. QED
    BY <1>3, <2>1, <2>2
<1>5. ASSUME NEW i \in 1 .. s + 1 PROVE x[i] = arg[k + i] /\ x[i] # "break"
  <2>1. CASE i = s + 1
    <3>1. k + i = k + s + 1
      BY <2>1
    <3>2. QED
      BY <1>4, <2>1, <3>1
  <2>2. CASE i # s + 1
    <3>1. i \in 1 .. s
      BY <2>2
    <3>2. QED
      BY <1>3, <1>4, <3>1
  <2>3. QED
    BY <2>1, <2>2
<1>6. (\A j \in 1 .. h : L[p + j] = "slash") /\ L[p + h + 1] # "slash"
  BY <1>1
<1>7. ASSUME NEW st \in States, NEW t \in Seq(Chars), NEW d \in Seq(Seq(Chars)), At(L, p, st, t, d)
      PROVE  At(L, p + (h + 1), CL!Inside(st), t \o x, d)
  <2>1. At(L, p + (h + 1), CL!Inside(st), t \o Append(CL!Slashes(h \div 2), "quote"), d)
    BY <1>1, <1>6, <1>7, PassesSlashes
  <2>2. QED
    BY <1>1, <2>1 DEF y
<1> HIDE DEF x
<1>8. Len(x) = n - k /\ (\A i \in 1 .. n - k : x[i] = arg[k + i]) /\ (\A i \in 1 .. n - k : x[i] # "break")
  BY <1>2, <1>4, <1>5
<1>9. Ahead(L, p + (h + 1), n, arg, d0)
  <2>1. \A st \in States, t \in Seq(Chars), d \in Seq(Seq(Chars)) :
          At(L, p, st, t, d) /\ (CL!Has(arg, "space") => st = "QUOTED") => At(L, p + (h + 1), CL!Inside(st), t \o x, d)
    BY <1>7
  <2>2. /\ x \in Seq(Chars) /\ Len(x) = n - k /\ \A i \in 1 .. n - k : x[i] = arg[k + i]
        /\ CL!Has(arg, "space") \/ \A i \in 1 .. n - k : x[i] # "break"
    BY <1>4, <1>8, Zenon
  <2>3. QED
    BY <2>1, <2>2, AheadMore, Zenon
<1>10. QED
  BY <1>1, <1>2, <1>9

\* A letter, or in quotes whitespace.
LEMMA AheadLetter ==
  ASSUME NEW L \in Seq(Chars), NEW p \in 0 .. Len(L) - 1,
         NEW arg \in Seq(Chars), NEW k \in 0 .. Len(arg) - 1, NEW d0, Ahead(L, p, k, arg, d0),
         L[p + 1] = arg[k + 1], L[p + 1] \notin {"slash", "quote"},
         CL!Has(arg, "space") \/ L[p + 1] # "break"
  PROVE  Ahead(L, p + 1, k + 1, arg, d0)
<1>1. k \in 0 .. Len(arg) /\ k + 1 \in 1 .. Len(arg)
  OBVIOUS
<1>2. PICK n \in k + 1 .. Len(arg) : n = k + 1 /\ n - k = 1
  OBVIOUS
<1>3. L[p + 1] \in CL!Whitespace => CL!Has(arg, "space")
  BY <1>1 DEF CL!Whitespace, CL!Has
<1> DEFINE c == L[p + 1]
           x == <<c>>
<1>4. c \in Chars
  OBVIOUS
<1>5. ASSUME NEW st \in States, NEW t \in Seq(Chars), NEW d \in Seq(Seq(Chars)), At(L, p, st, t, d),
             CL!Has(arg, "space") => st = "QUOTED"
      PROVE  At(L, p + 1, CL!Inside(st), t \o x, d)
  <2>1. At(L, p + 1, CL!Inside(st), Append(t, c), d)
    BY <1>3, <1>5, PassesLetter
  <2>2. Append(t, c) = t \o x
    BY <1>4
  <2>3. QED
    BY <2>1, <2>2, Zenon
<1>6. c = arg[k + 1] /\ (CL!Has(arg, "space") \/ c # "break")
  OBVIOUS
<1> HIDE DEF c
<1>7. /\ x \in Seq(Chars) /\ Len(x) = n - k /\ (\A i \in 1 .. n - k : x[i] = arg[k + i])
      /\ CL!Has(arg, "space") \/ \A i \in 1 .. n - k : x[i] # "break"
  BY <1>2, <1>4, <1>6
<1> HIDE DEF x
<1>8. Ahead(L, p + 1, n, arg, d0)
  BY <1>1, <1>5, <1>7, AheadMore
<1>9. QED
  BY <1>2, <1>8

\* A break out of quotes: the token, if there is one, is done.
LEMMA AheadBreak ==
  ASSUME NEW L \in Seq(Chars), NEW p \in 0 .. Len(L) - 1,
         NEW arg \in Seq(Chars), NEW k \in 0 .. Len(arg) - 1, NEW d0, Ahead(L, p, k, arg, d0),
         L[p + 1] = "break", arg[k + 1] = "break", ~CL!Has(arg, "space")
  PROVE  Ahead(L, p + 1, k + 1, arg, d0)
<1>1. k + 1 \in 1 .. Len(arg) /\ k + 1 # 0 /\ k + 1 \in 0 .. k + 1
  OBVIOUS
<1>2. ~CL!Safe(arg)
  BY <1>1 DEF CL!Safe, CL!Has
<1>3. PICK m \in 0 .. k, d \in Seq(Seq(Chars)) :
        /\ At(L, p, StateIn(arg, m, k), SubSeq(arg, m + 1, k), d)
        /\ \A i \in m + 1 .. k : arg[i] # "break"
        /\ AllSafe(d0) => AllSafe(d)
  BY Zenon DEF Ahead
<1> DEFINE t == SubSeq(arg, m + 1, k)
<1>4. t \in Seq(Chars) /\ Len(t) = k - m /\ \A i \in 1 .. k - m : t[i] = arg[m + i]
  <2>1. m \in 0 .. Len(arg) /\ k \in m .. Len(arg)
    OBVIOUS
  <2>2. QED
    BY <2>1, SubIs
<1>5. CL!Safe(t)
  <2> HIDE DEF t
  <2>1. ASSUME NEW i \in DOMAIN t PROVE t[i] # "break"
    <3>1. i \in 1 .. k - m /\ m + i \in m + 1 .. k
      <4>1. DOMAIN t = 1 .. k - m
        <5>1. DOMAIN t = 1 .. Len(t) /\ Len(t) = k - m
          BY <1>4
        <5>2. QED
          BY <5>1, Zenon
      <4>2. i \in 1 .. k - m
        BY <4>1
      <4>3. QED
        BY <4>2
    <3>2. QED
      BY <1>3, <1>4, <3>1
  <2>2. QED
    BY <2>1 DEF CL!Safe, CL!Has
<1>6. SubSeq(arg, k + 1 + 1, k + 1) = <<>>
  <2>1. PICK a \in Int, b \in Int : a = k + 1 + 1 /\ b = k + 1 /\ b < a
    OBVIOUS
  <2>2. QED
    BY <2>1, SubSeqEmpty
<1>7. StateIn(arg, k + 1, k + 1) = "INIT"
  BY DEF StateIn
<1>8. L[p + 1] \in CL!Whitespace
  BY DEF CL!Whitespace
<1>9. PICK e \in Seq(Seq(Chars)) : At(L, p + 1, "INIT", <<>>, e) /\ (AllSafe(d0) => AllSafe(e))
  <2>1. CASE m = k
    <3>1. StateIn(arg, m, k) = "INIT"
      BY <2>1 DEF StateIn
    <3>2. t = <<>>
      <4> HIDE DEF t
      <4>1. Len(t) = 0
        BY <1>4, <2>1
      <4>2. QED
        BY <1>4, <4>1
    <3>3. At(L, p + 1, "INIT", <<>>, d)
      BY <1>3, <1>8, <3>1, <3>2, PassesWhitespace
    <3>4. QED
      BY <1>3, <3>3
  <2>2. CASE m # k
    <3>1. StateIn(arg, m, k) = "UNQUOTED"
      BY <2>2 DEF StateIn
    <3>2. At(L, p, "UNQUOTED", t, d)
      BY <1>3, <3>1
    <3> HIDE DEF t
    <3>3. At(L, p + 1, "INIT", <<>>, Append(d, t))
      BY <1>8, <3>2, PassesWhitespace
    <3>4. Append(d, t) \in Seq(Seq(Chars))
      BY <1>4
    <3>5. AllSafe(d) => AllSafe(Append(d, t))
      BY <1>4, <1>5 DEF AllSafe
    <3>6. QED
      BY <1>3, <3>3, <3>4, <3>5
  <2>3. QED
    BY <2>1, <2>2
<1>10. \A i \in k + 1 + 1 .. k + 1 : arg[i] # "break"
  OBVIOUS
<1>11. QED
  BY <1>1, <1>2, <1>6, <1>7, <1>9, <1>10, Zenon DEF Ahead

\* An argument is read one character after the other; backslashes are read when
\* it is clear what comes after them.
LEMMA AheadStep ==
  ASSUME NEW L \in Seq(Chars), NEW b \in Nat, NEW arg \in Seq(Chars), NEW n \in 0 .. Len(arg) - 1, NEW d0,
         NEW e \in Escapes, Pending(e, arg, n), NEW x \in Escapes, x = CL!EscapeChar(e, arg[n + 1]),
         b + Len(x.text) <= Len(L), \A i \in 1 .. Len(x.text) : L[b + i] = x.text[i],
         Ahead(L, b + Len(e.text) - e.slashes, n - e.slashes, arg, d0)
  PROVE  Ahead(L, b + Len(x.text) - x.slashes, (n + 1) - x.slashes, arg, d0)
<1> DEFINE c == arg[n + 1]
<1>1. PICK l \in Nat, s \in Nat : l = Len(e.text) /\ s = e.slashes
  BY DEF Escapes
<1>2. PICK xl \in Nat, xs \in Nat : xl = Len(x.text) /\ xs = x.slashes
  BY DEF Escapes
<1>3. c \in Chars /\ n \in Nat /\ n + 1 <= Len(arg)
  OBVIOUS
<1>4. /\ Starts(e.text, x.text)
      /\ c = "slash" => xs = s + 1 /\ xl = l + 1
      /\ c = "quote" => xs = 0 /\ xl = l + s + 2 /\ (\A j \in 1 .. s + 1 : x.text[l + j] = "slash") /\ x.text[l + s + 2] = c
      /\ c \notin {"slash", "quote"} => xs = 0 /\ xl = l + 1 /\ x.text[l + 1] = c
  <2>1. /\ Starts(e.text, x.text)
        /\ c = "slash" => x.slashes = e.slashes + 1 /\ Len(x.text) = Len(e.text) + 1
        /\ c = "quote" => /\ x.slashes = 0 /\ Len(x.text) = Len(e.text) + e.slashes + 2
                          /\ \A j \in 1 .. e.slashes + 1 : x.text[Len(e.text) + j] = "slash"
                          /\ x.text[Len(e.text) + e.slashes + 2] = c
        /\ c \notin {"slash", "quote"} => x.slashes = 0 /\ Len(x.text) = Len(e.text) + 1 /\ x.text[Len(e.text) + 1] = c
    <3> DEFINE z == CL!EscapeChar(e, c)
    <3>1. /\ Starts(e.text, z.text)
          /\ c = "slash" => z.slashes = e.slashes + 1 /\ Len(z.text) = Len(e.text) + 1
          /\ c = "quote" => /\ z.slashes = 0 /\ Len(z.text) = Len(e.text) + e.slashes + 2
                            /\ \A j \in 1 .. e.slashes + 1 : z.text[Len(e.text) + j] = "slash"
                            /\ z.text[Len(e.text) + e.slashes + 2] = c
          /\ c \notin {"slash", "quote"} => z.slashes = 0 /\ Len(z.text) = Len(e.text) + 1 /\ z.text[Len(e.text) + 1] = c
      BY <1>3, EscapeCharMakes, Zenon
    <3> HIDE DEF z
    <3>2. x = z
      BY DEF z
    <3>3. QED
      BY <3>1, <3>2, Zenon
  <2> HIDE DEF c
  <2>2. QED
    BY <1>1, <1>2, <2>1, Zenon
<1>5. s <= n /\ s <= l /\ \A j \in 1 .. s : arg[n - s + j] = "slash" /\ e.text[l - s + j] = "slash"
  BY <1>1 DEF Pending
<1>6. b + xl <= Len(L) /\ \A i \in 1 .. xl : L[b + i] = x.text[i]
  BY <1>2
<1>7. PICK p \in Nat, k \in Nat : p = b + l - s /\ k = n - s /\ p + s = b + l /\ k + s = n
  <2>1. b + l - s \in Nat /\ n - s \in Nat /\ b + l - s + s = b + l /\ n - s + s = n
    BY <1>5
  <2>2. QED
    BY <2>1
<1>8. Ahead(L, p, k, arg, d0)
  BY <1>1, <1>7
<1> HIDE DEF c
<1>9. xl >= l
  BY <1>4
<1>10. ASSUME NEW j \in 1 .. s PROVE L[p + j] = "slash" /\ arg[k + j] = "slash"
  <2>1. PICK i \in 1 .. l : i = l - s + j /\ b + i = p + j
    <3>1. l - s + j \in 1 .. l /\ b + (l - s + j) = p + j
      BY <1>5, <1>7
    <3>2. QED
      BY <3>1
  <2>2. i \in 1 .. xl
    BY <1>9
  <2>3. e.text[i] = "slash"
    BY <1>5, <2>1
  <2>4. x.text[i] = e.text[i]
    BY <1>1, <1>4 DEF Starts
  <2>5. L[b + i] = x.text[i]
    BY <1>6, <2>2
  <2>6. n - s + j = k + j
    BY <1>7
  <2>7. arg[n - s + j] = "slash"
    BY <1>5
  <2>8. QED
    BY <2>1, <2>3, <2>4, <2>5, <2>6, <2>7
<1>11. p \in 0 .. Len(L) /\ k \in 0 .. Len(arg) /\ k + s <= Len(arg)
  <2>1. p <= b + l /\ b + l <= b + xl
    BY <1>5, <1>7, <1>9
  <2>2. QED
    BY <1>3, <1>6, <1>7, <2>1
<1>12. CASE c = "slash"
  <2>1. b + xl - xs = p /\ (n + 1) - xs = k
    <3>1. xs = s + 1 /\ xl = l + 1
      BY <1>4, <1>12
    <3>2. b + (l + 1) - (s + 1) = p /\ n + 1 - (s + 1) = k
      BY <1>3, <1>7
    <3>3. QED
      BY <3>1, <3>2
  <2>2. QED
    BY <1>2, <1>8, <2>1
<1>13. CASE c = "quote"
  <2>1. xs = 0 /\ xl = l + s + 2 /\ (\A j \in 1 .. s + 1 : x.text[l + j] = "slash") /\ x.text[l + s + 2] = "quote"
    BY <1>4, <1>13
  <2>2. ASSUME NEW j \in 1 .. 2 * s + 1 PROVE L[p + j] = "slash"
    <3>1. CASE j <= s
      <4>1. j \in 1 .. s
        BY <3>1
      <4>2. QED
        BY <1>10, <4>1
    <3>2. CASE ~(j <= s)
      <4>1. PICK i \in 1 .. s + 1 : i = j - s
        BY <3>2
      <4>2. PICK f \in 1 .. xl : f = l + i /\ b + f = p + j
        <5>1. l + i \in 1 .. xl /\ b + (l + i) = p + j
          BY <1>7, <2>1, <4>1
        <5>2. QED
          BY <5>1
      <4>3. L[b + f] = x.text[f] /\ x.text[f] = "slash"
        BY <1>6, <2>1, <4>2
      <4>4. QED
        BY <4>2, <4>3
    <3>3. QED
      BY <3>1, <3>2
  <2>3. L[p + 2 * s + 2] = "quote"
    <3>1. PICK f \in 1 .. xl : f = l + s + 2 /\ b + f = p + 2 * s + 2
      <4>1. l + s + 2 \in 1 .. xl /\ b + (l + s + 2) = p + 2 * s + 2
        BY <1>7, <2>1
      <4>2. QED
        BY <4>1
    <3>2. L[b + f] = x.text[f] /\ x.text[f] = "quote"
      BY <1>6, <2>1, <3>1
    <3>3. QED
      BY <3>1, <3>2
  <2>4. arg[k + s + 1] = "quote"
    BY <1>7, <1>13 DEF c
  <2>5. p + 2 * s + 2 = b + xl - xs /\ k + s + 1 = (n + 1) - xs /\ p + 2 * s + 2 <= Len(L) /\ k + s + 1 <= Len(arg)
    <3>1. b + (l + s + 2) <= Len(L) /\ xl = l + s + 2
      BY <1>6, <2>1
    <3>2. p + 2 * s + 2 = b + (l + s + 2)
      BY <1>7
    <3>3. b + xl - xs = b + (l + s + 2) /\ (n + 1) - xs = n + 1 /\ k + s + 1 = n + 1
      BY <1>3, <1>7, <2>1
    <3>4. QED
      BY <1>3, <3>1, <3>2, <3>3
  <2>6. Ahead(L, p + 2 * s + 2, k + s + 1, arg, d0)
    BY <1>8, <1>10, <1>11, <2>2, <2>3, <2>4, <2>5, AheadQuote
  <2>7. QED
    BY <1>2, <2>5, <2>6
<1>14. CASE c \notin {"slash", "quote"}
  <2>1. xs = 0 /\ xl = l + 1 /\ x.text[l + 1] = c
    BY <1>4, <1>14
  <2>2. L[p + s + 1] = c /\ p + s + 1 <= Len(L)
    <3>1. PICK f \in 1 .. xl : f = l + 1 /\ b + f = p + s + 1
      <4>1. l + 1 \in 1 .. xl /\ b + (l + 1) = p + s + 1
        BY <1>7, <2>1
      <4>2. QED
        BY <4>1
    <3>2. L[b + f] = x.text[f] /\ b + f <= Len(L)
      <4>1. L[b + f] = x.text[f]
        BY <1>6
      <4>2. b + f <= b + xl /\ b + xl <= Len(L) /\ b + xl \in Nat /\ b + f \in Nat /\ Len(L) \in Nat
        BY <1>6
      <4>3. QED
        BY <4>1, <4>2
    <3>3. QED
      BY <2>1, <3>1, <3>2
  <2>3. PICK q \in 0 .. Len(L) - 1 : q = p + s
    BY <1>7, <2>2
  <2>4. s \in 0 .. Len(L) - p
    BY <1>7, <2>2
  <2>5. Ahead(L, p + s, k + s, arg, d0)
    BY <1>8, <1>10, <1>11, <1>14, <2>2, <2>4, AheadSlashes
  <2>6. Ahead(L, q, n, arg, d0)
    BY <1>7, <2>3, <2>5
  <2>7. L[q + 1] = c /\ arg[n + 1] = c
    BY <2>2, <2>3 DEF c
  <2>8. n \in 0 .. Len(arg) - 1
    OBVIOUS
  <2>9. Ahead(L, q + 1, n + 1, arg, d0)
    <3>1. CASE CL!Has(arg, "space") \/ c # "break"
      BY <1>14, <2>6, <2>7, <3>1, AheadLetter
    <3>2. CASE ~(CL!Has(arg, "space") \/ c # "break")
      BY <2>6, <2>7, <3>2, AheadBreak
    <3>3. QED
      BY <3>1, <3>2
  <2>10. q + 1 = b + xl - xs /\ n + 1 = (n + 1) - xs
    BY <1>3, <1>7, <2>1, <2>3
  <2>11. QED
    BY <1>2, <2>9, <2>10
<1>15. QED
  BY <1>12, <1>13, <1>14

\* What is written of an argument is read as its characters, up to the backslashes at its end.
LEMMA AheadOfAll ==
  ASSUME NEW L \in Seq(Chars), NEW b \in Nat, NEW arg \in Seq(Chars), NEW d0 \in Seq(Seq(Chars)),
         At(L, b, StateIn(arg, 0, 0), <<>>, d0),
         b + Len(CL!Body(arg).text) <= Len(L), \A i \in 1 .. Len(CL!Body(arg).text) : L[b + i] = CL!Body(arg).text[i]
  PROVE  Ahead(L, b + Len(CL!Body(arg).text) - CL!Body(arg).slashes, Len(arg) - CL!Body(arg).slashes, arg, d0)
<1> DEFINE E == CL!Escaped(arg)
           N == Len(arg)
           T == {n \in 0 .. N : Ahead(L, b + Len(E[n].text) - E[n].slashes, n - E[n].slashes, arg, d0)}
<1>1. N \in Nat /\ \A n \in 0 .. N : Starts(E[n].text, E[N].text) /\ Pending(E[n], arg, n)
  BY EscapedStarts, EscapedPending DEF CL!Body
<1>2. E[0] = [text |-> <<>>, slashes |-> 0] /\ (\A i \in 0 .. N : E[i] \in Escapes)
      /\ \A i \in 1 .. N : E[i] = CL!EscapeChar(E[i - 1], arg[i])
  BY EscapedIs
<1>3. b + Len(E[N].text) <= Len(L) /\ \A i \in 1 .. Len(E[N].text) : L[b + i] = E[N].text[i]
  BY DEF CL!Body
<1> HIDE DEF E
<1>4. \A i \in 0 .. N : E[i].text \in Seq(Chars) /\ E[i].slashes \in Nat
  BY <1>2 DEF Escapes
<1>5. 0 \in T
  <2>1. b + Len(E[0].text) - E[0].slashes = b /\ 0 - E[0].slashes = 0
    BY <1>2
  <2>2. SubSeq(arg, 0 + 1, 0) = <<>>
    <3>1. PICK i \in Int, j \in Int : i = 0 + 1 /\ j = 0 /\ j < i
      OBVIOUS
    <3>2. QED
      BY <3>1, SubSeqEmpty
  <2>3. \A i \in 0 + 1 .. 0 : arg[i] # "break"
    OBVIOUS
  <2>4. 0 \in 0 .. 0 /\ 0 \in 0 .. N
    BY <1>1
  <2>5. Ahead(L, b, 0, arg, d0)
    BY <2>2, <2>3, <2>4, Zenon DEF Ahead
  <2>6. QED
    BY <2>1, <2>4, <2>5
<1>6. ASSUME NEW n \in 0 .. N, n # N, n \in T PROVE n + 1 \in T
  <2>1. PICK m \in 1 .. N : m = n + 1 /\ m - 1 = n /\ n \in 0 .. Len(arg) - 1 /\ m \in 0 .. N /\ N \in 0 .. N
    BY <1>1, <1>6
  <2> DEFINE e == E[n]
             x == E[m]
  <2>2. e \in Escapes /\ x \in Escapes /\ x = CL!EscapeChar(e, arg[n + 1]) /\ Pending(e, arg, n)
    BY <1>1, <1>2, <2>1
  <2>3. Starts(x.text, E[N].text) /\ x.text \in Seq(Chars) /\ E[N].text \in Seq(Chars)
    BY <1>1, <1>4, <2>1
  <2>4. Ahead(L, b + Len(e.text) - e.slashes, n - e.slashes, arg, d0)
    BY <1>6
  <2> HIDE DEF e, x
  <2>5. b + Len(x.text) <= Len(L) /\ \A i \in 1 .. Len(x.text) : L[b + i] = x.text[i]
    <3>1. PICK u \in Seq(Chars) : u = E[N].text
      BY <2>3
    <3>2. Len(x.text) <= Len(u) /\ (\A i \in 1 .. Len(x.text) : u[i] = x.text[i]) /\ Len(x.text) \in Nat
      BY <2>3, <3>1 DEF Starts
    <3>3. b + Len(u) <= Len(L) /\ (\A i \in 1 .. Len(u) : L[b + i] = u[i]) /\ Len(u) \in Nat /\ Len(L) \in Nat
      BY <1>3, <3>1
    <3>4. b + Len(x.text) <= Len(L)
      <4>1. PICK y \in Nat, v \in Nat, z \in Nat : y = Len(x.text) /\ v = Len(u) /\ z = Len(L) /\ y <= v /\ b + v <= z
        BY <3>2, <3>3, Zenon
      <4>2. b + y <= z
        BY <4>1
      <4>3. QED
        BY <4>1, <4>2, Zenon
    <3>5. ASSUME NEW i \in 1 .. Len(x.text) PROVE L[b + i] = x.text[i]
      <4>1. i \in 1 .. Len(u)
        BY <3>2, <3>3
      <4>2. QED
        BY <3>2, <3>3, <4>1, Zenon
    <3>6. QED
      BY <3>4, <3>5, Zenon
  <2>6. Ahead(L, b + Len(x.text) - x.slashes, (n + 1) - x.slashes, arg, d0)
    BY <2>1, <2>2, <2>4, <2>5, AheadStep
  <2>9. Ahead(L, b + Len(x.text) - x.slashes, m - x.slashes, arg, d0)
    BY <2>1, <2>6, Zenon
  <2>7. m \in T
    BY <2>1, <2>9 DEF x
  <2>8. QED
    BY <2>1, <2>7
<1> HIDE DEF T
<1>7. 0 .. N \subseteq T
  <2>1. N \in Nat
    BY <1>1
  <2> HIDE DEF N
  <2>2. QED
    BY <1>5, <1>6, <2>1, UpTo
<1>8. N \in T
  <2>1. N \in 0 .. N
    BY <1>1
  <2>2. QED
    BY <1>7, <2>1
<1>9. QED
  BY <1>8 DEF T, E, CL!Body

\* Behind an argument, which is the token, and safe if it could be lost.
Behind(L, p, arg, d0) ==
  \E s \in {"INIT", "UNQUOTED"}, t \in Seq(Chars), d \in Seq(Seq(Chars)) :
    /\ At(L, p, s, t, d)
    /\ s = "INIT" => t = <<>>
    /\ CL!Safe(t)
    /\ AllSafe(d0) => AllSafe(d)
    /\ CL!Safe(arg) => s = "UNQUOTED" /\ t = arg /\ d = d0

\* All of a text is a part of it.
LEMMA WholeOf == ASSUME NEW s \in Seq(Chars) PROVE SubSeq(s, 1, Len(s)) = s
BY SubSeqFull

\* An empty argument is read behind its two quotes.
LEMMA EmptyBehind ==
  ASSUME NEW L \in Seq(Chars), NEW b \in Nat, NEW d0 \in Seq(Seq(Chars)), At(L, b, "INIT", <<>>, d0),
         b + 2 <= Len(L), L[b + 1] = "quote", L[b + 2] = "quote", b + 2 = Len(L) \/ L[b + 3] = "space"
  PROVE  Behind(L, b + 2, <<>>, d0)
<1>1. b \in 0 .. Len(L) - 1
  OBVIOUS
<1>2. At(L, b + 1, "QUOTED", <<>>, d0)
  BY <1>1, PassesOpening
<1>3. PICK p \in 0 .. Len(L) - 1 : p = b + 1 /\ p + 1 = b + 2 /\ p + 2 = b + 3
  OBVIOUS
<1>4. At(L, p, "QUOTED", <<>>, d0) /\ L[p + 1] = "quote" /\ (p + 1 = Len(L) \/ L[p + 2] # "quote")
  BY <1>2, <1>3
<1>5. At(L, p + 1, "UNQUOTED", <<>>, d0)
  BY <1>4, PassesClosing
<1>6. CL!Safe(<<>>) /\ <<>> \in Seq(Chars)
  BY DEF CL!Safe, CL!Has
<1>7. At(L, b + 2, "UNQUOTED", <<>>, d0)
  BY <1>3, <1>5
<1>8. QED
  BY <1>6, <1>7 DEF Behind

\* What is written of all characters of an argument.
LEMMA BodyIs ==
  ASSUME NEW arg \in Seq(Chars)
  PROVE  /\ CL!Body(arg).text \in Seq(Chars) /\ CL!Body(arg).slashes \in Nat
         /\ Pending(CL!Body(arg), arg, Len(arg))
<1>1. Len(arg) \in 0 .. Len(arg)
  OBVIOUS
<1>2. CL!Body(arg) \in Escapes
  BY <1>1, EscapedIs DEF CL!Body
<1>3. Pending(CL!Body(arg), arg, Len(arg))
  BY <1>1, EscapedPending DEF CL!Body
<1>4. QED
  BY <1>2, <1>3 DEF Escapes

\* A text is in the line, behind b characters; and it is the last, or before a space.
Written(L, b, text) == b + Len(text) <= Len(L) /\ \A i \in 1 .. Len(text) : L[b + i] = text[i]
Ends(L, p) == p = Len(L) \/ L[p + 1] = "space"

\* An argument that is not quoted is read, its last backslashes as they are.
LEMMA PlainBehind ==
  ASSUME NEW L \in Seq(Chars), NEW b \in Nat, NEW arg \in Seq(Chars), arg # <<>>, ~CL!Has(arg, "space"),
         NEW d0 \in Seq(Seq(Chars)), At(L, b, "INIT", <<>>, d0),
         Written(L, b, CL!Body(arg).text), Ends(L, b + Len(CL!Body(arg).text))
  PROVE  Behind(L, b + Len(CL!Body(arg).text), arg, d0)
<1> DEFINE text == CL!Body(arg).text
<1>1. text \in Seq(Chars) /\ CL!Body(arg).slashes \in Nat /\ Pending(CL!Body(arg), arg, Len(arg))
  BY BodyIs
<1>2. Written(L, b, text) /\ Ends(L, b + Len(text))
  OBVIOUS
<1>3. PICK l \in Nat, s \in Nat, N \in Nat : l = Len(text) /\ s = CL!Body(arg).slashes /\ N = Len(arg)
  BY <1>1
<1>4. s <= N /\ s <= l /\ \A j \in 1 .. s : arg[N - s + j] = "slash" /\ text[l - s + j] = "slash"
  BY <1>1, <1>3 DEF Pending
<1>5. Ahead(L, b + l - s, N - s, arg, d0)
  <2>1. StateIn(arg, 0, 0) = "INIT"
    BY DEF StateIn
  <2>2. Ahead(L, b + Len(text) - CL!Body(arg).slashes, Len(arg) - CL!Body(arg).slashes, arg, d0)
    BY <1>2, <2>1, AheadOfAll DEF Written
  <2>3. QED
    BY <1>3, <2>2
<1> HIDE DEF text
<1>6. b + l <= Len(L) /\ \A i \in 1 .. l : L[b + i] = text[i]
  BY <1>2, <1>3 DEF Written
<1>7. PICK p \in Nat, k \in Nat : p = b + l - s /\ k = N - s /\ p + s = b + l /\ k + s = N
  <2>1. b + l - s \in Nat /\ N - s \in Nat /\ b + l - s + s = b + l /\ N - s + s = N
    BY <1>4
  <2>2. QED
    BY <2>1
<1>8. ASSUME NEW j \in 1 .. s PROVE L[p + j] = "slash" /\ arg[k + j] = "slash"
  <2>1. PICK i \in 1 .. l : i = l - s + j /\ b + i = p + j
    <3>1. l - s + j \in 1 .. l /\ b + (l - s + j) = p + j
      BY <1>4, <1>7
    <3>2. QED
      BY <3>1
  <2>2. L[b + i] = text[i]
    BY <1>6
  <2>3. text[l - s + j] = "slash" /\ arg[N - s + j] = "slash"
    BY <1>4
  <2>4. N - s + j = k + j
    BY <1>7
  <2>5. QED
    BY <2>1, <2>2, <2>3, <2>4
<1>9. p + s = Len(L) \/ L[p + s + 1] \notin {"slash", "quote"}
  BY <1>2, <1>3, <1>7 DEF Ends
<1>10. Ahead(L, p + s, k + s, arg, d0)
  <2>1. Ahead(L, p, k, arg, d0)
    BY <1>5, <1>7
  <2>2. p \in 0 .. Len(L) /\ s \in 0 .. Len(L) - p /\ k \in 0 .. Len(arg) /\ k + s <= Len(arg)
    <3>1. p + s <= Len(L) /\ Len(L) \in Nat /\ k + s = Len(arg)
      BY <1>3, <1>6, <1>7
    <3>2. QED
      BY <3>1
  <2>3. QED
    BY <1>8, <1>9, <2>1, <2>2, AheadSlashes
<1>11. Ahead(L, b + l, N, arg, d0)
  BY <1>7, <1>10
<1>12. PICK m \in 0 .. N, d \in Seq(Seq(Chars)) :
        /\ At(L, b + l, StateIn(arg, m, N), SubSeq(arg, m + 1, N), d)
        /\ m = 0 => d = d0
        /\ m # 0 => ~CL!Safe(arg)
        /\ \A i \in m + 1 .. N : arg[i] # "break"
        /\ AllSafe(d0) => AllSafe(d)
  BY <1>11, Zenon DEF Ahead
<1> DEFINE t == SubSeq(arg, m + 1, N)
<1>13. t \in Seq(Chars) /\ Len(t) = N - m /\ \A i \in 1 .. N - m : t[i] = arg[m + i]
  <2>1. m \in 0 .. Len(arg) /\ N \in m .. Len(arg) /\ Len(arg) = N
    BY <1>3
  <2>2. QED
    BY <2>1, SubIs
<1>14. m = 0 => t = arg
  BY <1>3, WholeOf
<1> HIDE DEF t
<1>15. CL!Safe(t)
  <2>1. ASSUME NEW i \in DOMAIN t PROVE t[i] # "break"
    <3>1. i \in 1 .. N - m
      BY <1>13
    <3>2. PICK j \in m + 1 .. N : j = m + i
      BY <3>1
    <3>3. QED
      BY <1>12, <1>13, <3>1, <3>2
  <2>2. QED
    BY <2>1 DEF CL!Safe, CL!Has
<1>16. StateIn(arg, m, N) = IF m = N THEN "INIT" ELSE "UNQUOTED"
  BY DEF StateIn
<1>17. N # 0
  BY <1>3
<1>18. m = N => t = <<>>
  BY <1>13
<1>19. QED
  <2> DEFINE st == StateIn(arg, m, N)
  <2>1. At(L, b + Len(text), st, t, d)
    BY <1>3, <1>12 DEF t
  <2>2. st \in {"INIT", "UNQUOTED"} /\ (st = "INIT" => t = <<>>) /\ (CL!Safe(arg) => st = "UNQUOTED" /\ t = arg /\ d = d0)
    BY <1>12, <1>14, <1>16, <1>17, <1>18
  <2> HIDE DEF st
  <2>3. QED
    BY <1>12, <1>13, <1>15, <2>1, <2>2, Zenon DEF Behind, text

\* An argument in quotes is read: its last backslashes were doubled.
LEMMA QuotedBehind ==
  ASSUME NEW L \in Seq(Chars), NEW b \in Nat, NEW arg \in Seq(Chars), arg # <<>>, CL!Has(arg, "space"),
         NEW d0 \in Seq(Seq(Chars)), At(L, b, "INIT", <<>>, d0),
         Written(L, b, CL!ArgText(arg)), Ends(L, b + Len(CL!ArgText(arg)))
  PROVE  Behind(L, b + Len(CL!ArgText(arg)), arg, d0)
<1> DEFINE text == CL!Body(arg).text
           x == CL!ArgText(arg)
<1>1. text \in Seq(Chars) /\ CL!Body(arg).slashes \in Nat /\ Pending(CL!Body(arg), arg, Len(arg))
  BY BodyIs
<1>2. PICK a \in Nat, l \in Nat, s \in Nat, N \in Nat :
        a = b + 1 /\ l = Len(text) /\ s = CL!Body(arg).slashes /\ N = Len(arg)
  <2>1. b + 1 \in Nat /\ Len(arg) \in Nat
    OBVIOUS
  <2>2. Len(text) \in Nat
    BY <1>1
  <2>3. QED
    BY <1>1, <2>1, <2>2, Zenon
<1>25. a = b + 1
  BY <1>2
<1>3. s <= N /\ s <= l /\ \A j \in 1 .. s : arg[N - s + j] = "slash" /\ text[l - s + j] = "slash"
  BY <1>1, <1>2 DEF Pending
<1>4. /\ Len(x) = l + s + 2 /\ x[1] = "quote" /\ x[l + s + 2] = "quote"
      /\ \A i \in 1 .. l : x[1 + i] = text[i]
      /\ \A i \in 1 .. s : x[1 + l + i] = "slash"
  <2> HIDE DEF text
  <2>1. PICK o \in Seq(Chars) : o = <<"quote">> /\ Len(o) = 1 /\ o[1] = "quote"
    <3>1. "quote" \in Chars
      BY DEF Chars
    <3>2. <<"quote">> \in Seq(Chars) /\ Len(<<"quote">>) = 1 /\ <<"quote">>[1] = "quote"
      BY <3>1
    <3>3. QED
      BY <3>2
  <2>2. PICK u \in Seq(Chars) : u = CL!Slashes(s) /\ Len(u) = s /\ \A i \in 1 .. s : u[i] = "slash"
    BY SlashesAre
  <2>3. l = Len(text)
    BY <1>2
  <2>4. PICK v \in Seq(Chars) :
        /\ v = o \o text /\ Len(v) = 1 + l /\ v[1] = "quote" /\ \A i \in 1 .. l : v[1 + i] = text[i]
    <3>1. /\ o \o text \in Seq(Chars) /\ Len(o \o text) = Len(o) + Len(text)
          /\ \A i \in 1 .. Len(o) : (o \o text)[i] = o[i]
          /\ \A i \in 1 .. Len(text) : (o \o text)[Len(o) + i] = text[i]
      BY <1>1, <2>1, ConcatIs
    <3>2. 1 \in 1 .. Len(o)
      BY <2>1
    <3>3. QED
      BY <2>1, <2>3, <3>1, <3>2
  <2>5. PICK w \in Seq(Chars) :
          /\ w = v \o u /\ Len(w) = (1 + l) + s /\ \A i \in 1 .. 1 + l : w[i] = v[i]
          /\ \A i \in 1 .. s : w[(1 + l) + i] = "slash"
    <3>1. /\ v \o u \in Seq(Chars) /\ Len(v \o u) = Len(v) + Len(u)
          /\ \A i \in 1 .. Len(v) : (v \o u)[i] = v[i]
          /\ \A i \in 1 .. Len(u) : (v \o u)[Len(v) + i] = u[i]
      BY ConcatIs
    <3>2. Len(v) = 1 + l /\ Len(u) = s
      BY <2>2, <2>4
    <3>3. \A i \in 1 .. s : u[i] = "slash"
      BY <2>2
    <3> DEFINE w == v \o u
    <3> HIDE DEF w
    <3>4. /\ w \in Seq(Chars) /\ Len(w) = (1 + l) + s
          /\ \A i \in 1 .. 1 + l : w[i] = v[i]
          /\ \A i \in 1 .. s : w[(1 + l) + i] = u[i]
      BY <3>1, <3>2, Zenon DEF w
    <3>5. QED
      BY <3>3, <3>4 DEF w
  <2> DEFINE y == w \o o
  <2>6. /\ Len(y) = Len(w) + 1
        /\ \A i \in 1 .. Len(w) : y[i] = w[i]
        /\ y[Len(w) + 1] = "quote"
    <3>1. /\ Len(y) = Len(w) + Len(o)
          /\ \A i \in 1 .. Len(w) : y[i] = w[i]
          /\ \A i \in 1 .. Len(o) : y[Len(w) + i] = o[i]
      BY ConcatIs
    <3> HIDE DEF y
    <3>2. 1 \in 1 .. Len(o)
      BY <2>1
    <3>3. QED
      BY <2>1, <3>1, <3>2
  <2>7. y = x
    <3>1. x = <<"quote">> \o text \o CL!Slashes(CL!Body(arg).slashes) \o <<"quote">>
      BY Zenon DEF CL!ArgText, text
    <3> HIDE DEF text, x
    <3>2. QED
      BY <1>2, <2>1, <2>2, <2>4, <2>5, <3>1, Zenon
  <2> HIDE DEF y
  <2>8. Len(y) = l + s + 2 /\ y[l + s + 2] = "quote"
    <3>1. Len(w) + 1 = l + s + 2
      BY <2>5
    <3>2. QED
      BY <2>6, <3>1
  <2>9. \A i \in 1 .. (1 + l) + s : y[i] = w[i]
    BY <2>5, <2>6
  <2>10. y[1] = "quote"
    <3>1. 1 \in 1 .. (1 + l) + s /\ 1 \in 1 .. 1 + l
      OBVIOUS
    <3>2. QED
      BY <2>4, <2>5, <2>9, <3>1
  <2>11. ASSUME NEW i \in 1 .. l PROVE y[1 + i] = text[i]
    <3>1. 1 + i \in 1 .. (1 + l) + s /\ 1 + i \in 1 .. 1 + l
      OBVIOUS
    <3>2. QED
      BY <2>4, <2>5, <2>9, <3>1
  <2>12. ASSUME NEW i \in 1 .. s PROVE y[1 + l + i] = "slash"
    <3>1. (1 + l) + i \in 1 .. (1 + l) + s
      OBVIOUS
    <3>2. QED
      BY <2>5, <2>9, <3>1
  <2>13. QED
    BY <2>3, <2>7, <2>8, <2>10, <2>11, <2>12
<1>5. Written(L, b, x) /\ Ends(L, b + Len(x))
  OBVIOUS
<1> HIDE DEF x
<1>6. b + (l + s + 2) <= Len(L) /\ \A i \in 1 .. l + s + 2 : L[b + i] = x[i]
  BY <1>4, <1>5, Zenon DEF Written
<1>7. a + l + s + 1 <= Len(L) /\ a + l + s + 1 = b + (l + s + 2) /\ b \in 0 .. Len(L) - 1
  <2>1. b + (l + s + 2) <= Len(L)
    BY <1>6
  <2>2. QED
    BY <1>25, <2>1
<1>8. L[b + 1] = "quote" /\ L[a + l + s + 1] = "quote"
  <2>1. 1 \in 1 .. l + s + 2 /\ l + s + 2 \in 1 .. l + s + 2
    OBVIOUS
  <2>2. QED
    BY <1>4, <1>6, <1>7, <2>1
<1>9. ASSUME NEW i \in 1 .. l PROVE L[a + i] = text[i]
  <2>1. 1 + i \in 1 .. l + s + 2 /\ b + (1 + i) = a + i
    BY <1>25
  <2>2. QED
    BY <1>4, <1>6, <2>1
<1>10. ASSUME NEW i \in 1 .. s PROVE L[a + l + i] = "slash"
  <2>1. 1 + l + i \in 1 .. l + s + 2 /\ b + (1 + l + i) = a + l + i
    BY <1>25
  <2>2. QED
    BY <1>4, <1>6, <2>1
<1>11. At(L, a, "QUOTED", <<>>, d0)
  BY <1>2, <1>7, <1>8, PassesOpening
<1>12. Ahead(L, a + l - s, N - s, arg, d0)
  <2>1. StateIn(arg, 0, 0) = "QUOTED"
    BY DEF StateIn
  <2>2. a + Len(text) <= Len(L) /\ \A i \in 1 .. Len(text) : L[a + i] = text[i]
    <3>1. a + l <= Len(L)
      BY <1>7
    <3>2. QED
      BY <1>2, <1>9, <3>1
  <2>3. Ahead(L, a + Len(text) - CL!Body(arg).slashes, Len(arg) - CL!Body(arg).slashes, arg, d0)
    BY <1>11, <2>1, <2>2, AheadOfAll
  <2>4. QED
    BY <1>2, <2>3
<1> HIDE DEF text
<1>13. PICK p \in Nat, k \in Nat : p = a + l - s /\ k = N - s /\ k + s = N /\ p + 2 * s = a + l + s
  <2>1. a + l - s \in Nat /\ N - s \in Nat /\ N - s + s = N /\ a + l - s + 2 * s = a + l + s
    BY <1>3
  <2>2. QED
    BY <2>1
<1>14. ASSUME NEW j \in 1 .. 2 * s PROVE L[p + j] = "slash"
  <2>1. CASE j <= s
    <3>1. PICK i \in 1 .. l : i = l - s + j /\ a + i = p + j
      <4>1. l - s + j \in 1 .. l /\ a + (l - s + j) = p + j
        BY <1>3, <1>13, <2>1
      <4>2. QED
        BY <4>1
    <3>2. j \in 1 .. s
      BY <2>1
    <3>3. text[l - s + j] = "slash"
      BY <1>3, <3>2
    <3>4. QED
      BY <1>9, <3>1, <3>3
  <2>2. CASE ~(j <= s)
    <3>1. PICK i \in 1 .. s : i = j - s /\ a + l + i = p + j
      <4>1. j - s \in 1 .. s /\ a + l + (j - s) = p + j
        BY <1>13, <2>2
      <4>2. QED
        BY <4>1
    <3>2. QED
      BY <1>10, <3>1
  <2>3. QED
    BY <2>1, <2>2
<1>15. ASSUME NEW j \in 1 .. s PROVE arg[k + j] = "slash"
  <2>1. arg[N - s + j] = "slash"
    BY <1>3
  <2>2. N - s + j = k + j
    BY <1>13
  <2>3. QED
    BY <2>1, <2>2
<1>16. PICK q \in 0 .. Len(L) - 1 : q = p + 2 * s /\ q = a + l + s
  BY <1>7, <1>13
<1>17. L[q + 1] = "quote" /\ (q + 1 = Len(L) \/ L[q + 2] # "quote")
  <2>1. q + 1 = a + l + s + 1 /\ q + 1 = b + Len(x) /\ q + 1 + 1 = q + 2
    <3>1. Len(x) = l + s + 2
      BY <1>4
    <3>2. q + 1 = a + l + s + 1 /\ q + 1 = b + (l + s + 2) /\ q + 1 + 1 = q + 2
      BY <1>7, <1>16
    <3>3. QED
      BY <3>1, <3>2
  <2>2. q + 1 = Len(L) \/ L[q + 2] = "space"
    BY <1>5, <2>1 DEF Ends
  <2>3. QED
    BY <1>8, <2>1, <2>2
<1>18. Ahead(L, q, N, arg, d0)
  <2>1. Ahead(L, p, k, arg, d0)
    BY <1>12, <1>13, Zenon
  <2>5. k + s <= Len(arg) /\ k \in 0 .. Len(arg) /\ s \in Nat
    <3>1. k + s = N /\ N = Len(arg)
      BY <1>2, <1>13
    <3>2. k + s <= N /\ k \in 0 .. N
      BY <3>1
    <3>3. QED
      BY <3>1, <3>2, Zenon
  <2>2. p \in 0 .. Len(L) /\ p + 2 * s < Len(L) /\ L[p + 2 * s + 1] = "quote"
    BY <1>13, <1>16, <1>17
  <2>3. Ahead(L, p + 2 * s, k + s, arg, d0)
    BY <1>14, <1>15, <2>1, <2>2, <2>5, AheadHalf
  <2>4. QED
    BY <1>13, <1>16, <2>3
<1>19. CL!Safe(arg)
  BY DEF CL!Safe
<1>20. At(L, q, "QUOTED", SubSeq(arg, 0 + 1, N), d0)
  BY <1>18, <1>19, Zenon DEF Ahead, StateIn
<1>21. At(L, q, "QUOTED", arg, d0)
  <2>1. 0 + 1 = 1
    OBVIOUS
  <2>2. QED
    BY <1>2, <1>20, <2>1, WholeOf
<1>22. At(L, q + 1, "UNQUOTED", arg, d0)
  BY <1>17, <1>21, PassesClosing
<1>23. At(L, b + Len(x), "UNQUOTED", arg, d0)
  BY <1>4, <1>7, <1>16, <1>22
<1>24. QED
  BY <1>19, <1>23 DEF Behind, x

\* Every argument is read behind what is written of it.
LEMMA TextBehind ==
  ASSUME NEW L \in Seq(Chars), NEW b \in Nat, NEW arg \in Seq(Chars),
         NEW d0 \in Seq(Seq(Chars)), At(L, b, "INIT", <<>>, d0),
         Written(L, b, CL!ArgText(arg)), Ends(L, b + Len(CL!ArgText(arg)))
  PROVE  Behind(L, b + Len(CL!ArgText(arg)), arg, d0)
<1>1. CASE arg = <<>>
  <2>1. PICK t \in Seq(Chars) : t = CL!ArgText(arg) /\ Len(t) = 2 /\ t[1] = "quote" /\ t[2] = "quote"
    <3>1. CL!ArgText(arg) = <<"quote", "quote">>
      BY <1>1 DEF CL!ArgText
    <3>2. CL!ArgText(arg) \in Seq(Chars)
      BY ArgTextIs
    <3>3. Len(<<"quote", "quote">>) = 2 /\ <<"quote", "quote">>[1] = "quote" /\ <<"quote", "quote">>[2] = "quote"
      OBVIOUS
    <3>4. QED
      BY <3>1, <3>2, <3>3
  <2>2. b + 2 <= Len(L) /\ \A i \in 1 .. 2 : L[b + i] = t[i]
    BY <2>1, Zenon DEF Written
  <2>3. L[b + 1] = "quote" /\ L[b + 2] = "quote"
    BY <2>1, <2>2
  <2>4. b + 2 = Len(L) \/ L[b + 2 + 1] = "space"
    BY <2>1, Zenon DEF Ends
  <2>5. b + 2 + 1 = b + 3
    OBVIOUS
  <2>6. b + 2 = Len(L) \/ L[b + 3] = "space"
    BY <2>4, <2>5
  <2>7. Behind(L, b + 2, <<>>, d0)
    BY <2>2, <2>3, <2>6, EmptyBehind
  <2>8. QED
    BY <1>1, <2>1, <2>7, Zenon
<1>2. CASE arg # <<>> /\ ~CL!Has(arg, "space")
  <2>1. CL!ArgText(arg) = CL!Body(arg).text
    BY <1>2 DEF CL!ArgText
  <2>2. Written(L, b, CL!Body(arg).text) /\ Ends(L, b + Len(CL!Body(arg).text))
    BY <2>1, Zenon
  <2>3. Behind(L, b + Len(CL!Body(arg).text), arg, d0)
    BY <1>2, <2>2, PlainBehind
  <2>4. QED
    BY <2>1, <2>3, Zenon
<1>3. CASE arg # <<>> /\ CL!Has(arg, "space")
  BY <1>3, QuotedBehind
<1>4. QED
  BY <1>1, <1>2, <1>3

\* Something is written of every argument.
LEMMA ArgTextIsLong == ASSUME NEW arg \in Seq(Chars) PROVE Len(CL!ArgText(arg)) \in Nat \ {0}
<1>1. Len(CL!ArgText(arg)) \in Nat
  BY ArgTextIs
<1>2. CASE arg = <<>>
  <2>1. CL!ArgText(arg) = <<"quote", "quote">>
    BY <1>2 DEF CL!ArgText
  <2>2. QED
    BY <2>1
<1>3. CASE arg # <<>> /\ CL!Has(arg, "space")
  <2>1. CL!Body(arg).text \in Seq(Chars) /\ CL!Body(arg).slashes \in Nat /\ "quote" \in Chars
    BY BodyIs DEF Chars
  <2>2. CL!Slashes(CL!Body(arg).slashes) \in Seq(Chars)
    BY <2>1, SlashesAre
  <2>3. CL!ArgText(arg) = <<"quote">> \o CL!Body(arg).text \o CL!Slashes(CL!Body(arg).slashes) \o <<"quote">>
    BY <1>3 DEF CL!ArgText
  <2>4. PICK w \in Seq(Chars) : CL!ArgText(arg) = w \o <<"quote">>
    <3>1. PICK o \in Seq(Chars), u \in Seq(Chars), v \in Seq(Chars) :
            o = <<"quote">> /\ u = CL!Body(arg).text /\ v = CL!Slashes(CL!Body(arg).slashes)
      <4>1. <<"quote">> \in Seq(Chars)
        BY <2>1
      <4>2. QED
        BY <2>1, <2>2, <4>1, Zenon
    <3>2. o \o u \o v \in Seq(Chars)
      OBVIOUS
    <3>3. CL!ArgText(arg) = (o \o u \o v) \o <<"quote">>
      BY <2>3, <3>1, Zenon
    <3>4. QED
      BY <3>2, <3>3, Zenon
  <2>5. Len(w \o <<"quote">>) = Len(w) + 1
    OBVIOUS
  <2>6. QED
    BY <2>4, <2>5
<1>4. CASE arg # <<>> /\ ~CL!Has(arg, "space")
  <2> DEFINE E == CL!Escaped(arg)
  <2>1. CL!ArgText(arg) = CL!Body(arg).text
    BY <1>4 DEF CL!ArgText
  <2>2. PICK N \in 1 .. Len(arg) : N = Len(arg) /\ N - 1 \in 0 .. Len(arg) /\ N \in 0 .. Len(arg)
    BY <1>4
  <2>3. E[N] = CL!EscapeChar(E[N - 1], arg[N]) /\ E[N - 1] \in Escapes /\ E[N] \in Escapes /\ arg[N] \in Chars
    BY <2>2, EscapedIs
  <2> HIDE DEF E
  <2>4. PICK e \in Escapes, c \in Chars : E[N] = CL!EscapeChar(e, c)
    BY <2>3
  <2> DEFINE x == CL!EscapeChar(e, c)
  <2>5. /\ c = "slash" => Len(x.text) = Len(e.text) + 1
        /\ c = "quote" => Len(x.text) = Len(e.text) + e.slashes + 2
        /\ c \notin {"slash", "quote"} => Len(x.text) = Len(e.text) + 1
    BY EscapeCharMakes
  <2> HIDE DEF x
  <2>6. Len(e.text) \in Nat /\ e.slashes \in Nat
    BY DEF Escapes
  <2>7. Len(x.text) # 0
    BY <2>5, <2>6
  <2>8. CL!ArgText(arg) = x.text
    BY <2>1, <2>2, <2>4 DEF CL!Body, E, x
  <2>9. QED
    BY <1>1, <2>7, <2>8
<1>5. QED
  BY <1>2, <1>3, <1>4

\* What is appended to the line: a space if it is not empty, and the argument.
LEMMA AppendArgMakes ==
  ASSUME NEW w \in Seq(Chars), NEW arg \in Seq(Chars), NEW b \in Nat, b = Len(w) + (IF w = <<>> THEN 0 ELSE 1)
  PROVE  /\ Len(CL!AppendArg(w, arg)) = b + Len(CL!ArgText(arg)) /\ Starts(w, CL!AppendArg(w, arg))
         /\ w # <<>> => CL!AppendArg(w, arg)[b] = "space"
         /\ Written(CL!AppendArg(w, arg), b, CL!ArgText(arg))
<1>1. PICK t \in Seq(Chars) : t = CL!ArgText(arg)
  BY ArgTextIs
<1>2. PICK v \in Seq(Chars) :
        /\ v = w \o (IF w = <<>> THEN <<>> ELSE <<"space">>) /\ Len(v) = b
        /\ \A i \in 1 .. Len(w) : v[i] = w[i]
        /\ w # <<>> => v[b] = "space"
  <2>1. CASE w = <<>>
    <3>1. w \o (IF w = <<>> THEN <<>> ELSE <<"space">>) = w /\ Len(w) = b
      BY <2>1
    <3>2. QED
      BY <2>1, <3>1, Zenon
  <2>2. CASE w # <<>>
    <3>1. PICK c \in Chars : c = "space"
      BY DEF Chars
    <3>2. PICK o \in Seq(Chars) : o = <<c>> /\ Len(o) = 1 /\ o[1] = c
      <4>1. <<c>> \in Seq(Chars) /\ Len(<<c>>) = 1 /\ <<c>>[1] = c
        OBVIOUS
      <4>2. QED
        BY <4>1
    <3>3. /\ w \o o \in Seq(Chars) /\ Len(w \o o) = Len(w) + Len(o)
          /\ \A i \in 1 .. Len(w) : (w \o o)[i] = w[i]
          /\ \A i \in 1 .. Len(o) : (w \o o)[Len(w) + i] = o[i]
      BY ConcatIs
    <3>4. b = Len(w) + 1 /\ 1 \in 1 .. Len(o)
      BY <2>2, <3>2
    <3>5. (w \o o)[b] = "space" /\ Len(w \o o) = b
      BY <3>1, <3>2, <3>3, <3>4
    <3>6. w \o o = w \o (IF w = <<>> THEN <<>> ELSE <<"space">>)
      BY <2>2, <3>1, <3>2, Zenon
    <3>7. QED
      BY <3>3, <3>5, <3>6, Zenon
  <2>3. QED
    BY <2>1, <2>2
<1> DEFINE x == v \o t
<1>3. x = CL!AppendArg(w, arg)
  BY <1>1, <1>2, Zenon DEF CL!AppendArg
<1>4. /\ x \in Seq(Chars) /\ Len(x) = Len(v) + Len(t)
      /\ \A i \in 1 .. Len(v) : x[i] = v[i]
      /\ \A i \in 1 .. Len(t) : x[Len(v) + i] = t[i]
  BY ConcatIs
<1> HIDE DEF x
<1>5. Len(v) = b
  BY <1>2
<1>6. /\ Len(x) = b + Len(t)
      /\ \A i \in 1 .. b : x[i] = v[i]
      /\ \A i \in 1 .. Len(t) : x[b + i] = t[i]
  BY <1>4, <1>5, Zenon
<1>7. Len(w) <= b /\ Len(w) \in Nat /\ (w # <<>> => b \in 1 .. b)
  OBVIOUS
<1>8. Starts(w, x)
  <2>1. Len(w) <= Len(x)
    BY <1>6, <1>7
  <2>2. ASSUME NEW i \in 1 .. Len(w) PROVE x[i] = w[i]
    <3>1. i \in 1 .. b
      BY <1>7
    <3>2. QED
      BY <1>2, <1>6, <3>1
  <2>3. QED
    BY <2>1, <2>2 DEF Starts
<1>9. w # <<>> => x[b] = "space"
  BY <1>2, <1>6, <1>7
<1>10. Written(x, b, t)
  <2>1. b + Len(t) <= Len(x)
    BY <1>6
  <2>2. QED
    BY <1>6, <2>1 DEF Written
<1>11. QED
  BY <1>1, <1>3, <1>6, <1>8, <1>9, <1>10, Zenon

\* What is written first stays.
LEMMA AssignedStarts ==
  ASSUME NEW saver \in Seq(Chars), NEW args \in Seq(Seq(Chars)), NEW n \in 0 .. Len(args)
  PROVE  Starts(CL!Assigned(saver, args)[n], CL!AssignFull(saver, args))
<1> DEFINE Y == CL!Assigned(saver, args)
           N == Len(args)
           T == {k \in 0 .. N : Starts(Y[N - k], Y[N])}
<1>1. N \in Nat /\ \A i \in 1 .. N : args[i] \in Seq(Chars)
  OBVIOUS
<1>2. (\A i \in 0 .. N : Y[i] \in Seq(Chars)) /\ \A i \in 1 .. N : Y[i] = CL!AppendArg(Y[i - 1], args[i])
  BY AssignedIs
<1> HIDE DEF Y, N
<1>3. 0 \in T
  <2>1. 0 \in 0 .. N /\ N - 0 = N /\ N \in 0 .. N
    BY <1>1
  <2>2. Starts(Y[N], Y[N])
    BY <1>2, <2>1 DEF Starts
  <2>3. QED
    BY <2>1, <2>2
<1>4. ASSUME NEW k \in 0 .. N, k # N, k \in T PROVE k + 1 \in T
  <2>1. PICK m \in 1 .. N :
        /\ m = N - k /\ m - 1 = N - (k + 1) /\ m - 1 \in 0 .. N /\ m \in 0 .. N /\ k + 1 \in 0 .. N
        /\ N \in 0 .. N
    BY <1>1, <1>4
  <2>2. Starts(Y[m], Y[N])
    BY <1>4, <2>1
  <2>3. PICK w \in Seq(Chars), a \in Seq(Chars) : w = Y[m - 1] /\ a = args[m] /\ Y[m] = CL!AppendArg(w, a)
    BY <1>1, <1>2, <2>1
  <2>4. PICK b \in Nat : b = Len(w) + (IF w = <<>> THEN 0 ELSE 1)
    OBVIOUS
  <2>5. Starts(w, CL!AppendArg(w, a))
    BY <2>4, AppendArgMakes
  <2>6. Starts(Y[m - 1], Y[m])
    BY <2>3, <2>5
  <2>7. Starts(Y[m - 1], Y[N])
    BY <1>2, <2>1, <2>2, <2>6, StartsTransitive
  <2>8. QED
    BY <2>1, <2>7
<1> HIDE DEF T
<1>5. 0 .. N \subseteq T
  BY <1>1, <1>3, <1>4, UpTo
<1>6. PICK k \in 0 .. N : k = N - n /\ N - k = n
  <2>1. N \in Nat /\ n \in 0 .. N
    BY DEF N
  <2>2. N - n \in 0 .. N /\ N - (N - n) = n
    BY <2>1
  <2>3. QED
    BY <2>2
<1>7. QED
  BY <1>5, <1>6 DEF T, CL!AssignFull, Y, N

\* With p characters of the line, n arguments are read.
ReadBack(L, p, args, n) ==
  \E s \in {"INIT", "UNQUOTED"}, t \in Seq(Chars), d \in Seq(Seq(Chars)) :
    /\ At(L, p, s, t, d)
    /\ s = "INIT" => t = <<>>
    /\ CL!Safe(t)
    /\ AllSafe(d)
    /\ (\A i \in 1 .. n : CL!Safe(args[i])) => s = "UNQUOTED" /\ Append(d, t) = SubSeq(args, 1, n)

\* The first n arguments are those before and the nth.
LEMMA ArgsGoOn ==
  ASSUME NEW args \in Seq(Seq(Chars)), NEW n \in 1 .. Len(args)
  PROVE  Append(SubSeq(args, 1, n - 1), args[n]) = SubSeq(args, 1, n)
<1>1. SubSeq(args, 1, n) = SubSeq(args, 1, n - 1) \o <<args[n]>>
  <2>1. 1 \in 1 .. Len(args) /\ n \in 1 .. Len(args)
    OBVIOUS
  <2>2. QED
    BY <2>1, SubSeqRecursiveSecond
<1>2. SubSeq(args, 1, n - 1) \in Seq(Seq(Chars)) /\ args[n] \in Seq(Chars)
  <2>1. PICK j \in Int : j = n - 1
    OBVIOUS
  <2>2. 1 \in Int /\ \A i \in 1 .. j : args[i] \in Seq(Chars)
    BY <2>1
  <2>3. SubSeq(args, 1, j) \in Seq(Seq(Chars))
    BY <2>2, SubSeqProperties
  <2>4. QED
    BY <2>1, <2>3
<1>3. QED
  BY <1>1, <1>2

\* From the front of an argument to behind it.
LEMMA ReadsOne ==
  ASSUME NEW L \in Seq(Chars), NEW b \in Nat, NEW args \in Seq(Seq(Chars)), NEW n \in 1 .. Len(args),
         NEW d0 \in Seq(Seq(Chars)), At(L, b, "INIT", <<>>, d0), AllSafe(d0),
         (\A i \in 1 .. n - 1 : CL!Safe(args[i])) => d0 = SubSeq(args, 1, n - 1),
         Written(L, b, CL!ArgText(args[n])), Ends(L, b + Len(CL!ArgText(args[n])))
  PROVE  ReadBack(L, b + Len(CL!ArgText(args[n])), args, n)
<1> DEFINE p == b + Len(CL!ArgText(args[n]))
<1>1. PICK arg \in Seq(Chars) : arg = args[n]
  OBVIOUS
<1>2. Behind(L, p, arg, d0)
  BY <1>1, TextBehind
<1> HIDE DEF p
<1>3. PICK s \in {"INIT", "UNQUOTED"}, t \in Seq(Chars), d \in Seq(Seq(Chars)) :
        /\ At(L, p, s, t, d)
        /\ s = "INIT" => t = <<>>
        /\ CL!Safe(t)
        /\ AllSafe(d)
        /\ CL!Safe(arg) => s = "UNQUOTED" /\ t = arg /\ d = d0
  BY <1>2, Zenon DEF Behind
<1>4. ASSUME \A i \in 1 .. n : CL!Safe(args[i]) PROVE s = "UNQUOTED" /\ Append(d, t) = SubSeq(args, 1, n)
  <2>1. n \in 1 .. n /\ \A i \in 1 .. n - 1 : i \in 1 .. n
    OBVIOUS
  <2>2. s = "UNQUOTED" /\ t = arg /\ d = SubSeq(args, 1, n - 1)
    BY <1>1, <1>3, <1>4, <2>1
  <2>3. QED
    BY <1>1, <2>2, ArgsGoOn
<1>5. QED
  BY <1>3, <1>4, Zenon DEF ReadBack, p

\* The space behind an argument is read.
AtFront(L, p, args, n) ==
  \E d \in Seq(Seq(Chars)) :
    At(L, p, "INIT", <<>>, d) /\ AllSafe(d) /\ ((\A i \in 1 .. n : CL!Safe(args[i])) => d = SubSeq(args, 1, n))

\* The space ends the token, so that the next argument is at the front of one.
LEMMA ReadsSpace ==
  ASSUME NEW L \in Seq(Chars), NEW p \in 0 .. Len(L) - 1, NEW args, NEW n, ReadBack(L, p, args, n), L[p + 1] = "space"
  PROVE  AtFront(L, p + 1, args, n)
<1>1. PICK s \in {"INIT", "UNQUOTED"}, t \in Seq(Chars), d \in Seq(Seq(Chars)) :
        /\ At(L, p, s, t, d)
        /\ s = "INIT" => t = <<>>
        /\ CL!Safe(t)
        /\ AllSafe(d)
        /\ (\A i \in 1 .. n : CL!Safe(args[i])) => s = "UNQUOTED" /\ Append(d, t) = SubSeq(args, 1, n)
  BY Zenon DEF ReadBack
<1>2. L[p + 1] \in CL!Whitespace
  BY DEF CL!Whitespace
<1>3. CASE s = "INIT"
  <2>1. At(L, p + 1, "INIT", <<>>, d)
    BY <1>1, <1>2, <1>3, PassesWhitespace
  <2>2. QED
    BY <1>1, <1>3, <2>1 DEF AtFront
<1>4. CASE s = "UNQUOTED"
  <2>1. At(L, p + 1, "INIT", <<>>, Append(d, t))
    BY <1>1, <1>2, <1>4, PassesWhitespace
  <2>2. Append(d, t) \in Seq(Seq(Chars)) /\ AllSafe(Append(d, t))
    BY <1>1 DEF AllSafe
  <2>3. QED
    BY <1>1, <2>1, <2>2, Zenon DEF AtFront
<1>5. QED
  BY <1>1, <1>3, <1>4

\* The whole line is read, one argument after the other.
LEMMA ReadsAll ==
  ASSUME NEW args \in Seq(Seq(Chars)), args # <<>>
  PROVE  LET L == CL!AssignFull(<<>>, args)
             t == CL!ArgText(args[Len(args)])
         IN  /\ ReadBack(L, Len(L), args, Len(args))
             /\ \E b \in Nat : Written(L, b, t) /\ Len(L) = b + Len(t)
             /\ L \in Seq(Chars)
<1> DEFINE Y == CL!Assigned(<<>>, args)
           N == Len(args)
           L == CL!AssignFull(<<>>, args)
           T == {n \in 0 .. N : n = 0 \/ ReadBack(L, Len(Y[n]), args, n)}
<1>1. N \in Nat \ {0} /\ \A i \in 1 .. N : args[i] \in Seq(Chars)
  OBVIOUS
<1>2. Y[0] = <<>> /\ (\A i \in 0 .. N : Y[i] \in Seq(Chars)) /\ \A i \in 1 .. N : Y[i] = CL!AppendArg(Y[i - 1], args[i])
  <2>1. <<>> \in Seq(Chars)
    OBVIOUS
  <2>2. QED
    BY <2>1, AssignedIs
<1>3. \A i \in 0 .. N : Starts(Y[i], L)
  <2>1. <<>> \in Seq(Chars)
    OBVIOUS
  <2>2. QED
    BY <2>1, AssignedStarts
<1>4. L = Y[N]
  BY DEF CL!AssignFull
<1>5. L \in Seq(Chars)
  BY <1>1, <1>2, <1>4
<1>6. At(L, 0, "INIT", <<>>, <<>>)
  <2>1. CL!Reads(L)[0] = CL!Reading(1, "INIT", <<>>, <<>>)
    BY <1>5, ReadsIs
  <2>2. 0 + 1 = 1
    OBVIOUS
  <2>3. QED
    BY <2>1, <2>2, Zenon DEF At
<1> HIDE DEF Y, N, L
\* What the line has of each argument.
<1>7. ASSUME NEW n \in 1 .. N
      PROVE  \E b \in Nat : /\ b = Len(Y[n - 1]) + (IF n = 1 THEN 0 ELSE 1)
                            /\ Len(Y[n]) = b + Len(CL!ArgText(args[n])) /\ Len(Y[n]) # 0
                            /\ Written(L, b, CL!ArgText(args[n]))
                            /\ b <= Len(L) /\ (n # 1 => L[b] = "space")
  <2>1. PICK w \in Seq(Chars), a \in Seq(Chars), x \in Seq(Chars) :
          w = Y[n - 1] /\ a = args[n] /\ x = Y[n] /\ x = CL!AppendArg(w, a) /\ Starts(x, L)
    <3>1. n - 1 \in 0 .. N /\ n \in 0 .. N
      BY <1>1
    <3>2. QED
      BY <1>1, <1>2, <1>3, <3>1
  <2>2. n = 1 <=> w = <<>>
    <3>1. CASE n = 1
      <4>1. n - 1 = 0
        BY <3>1
      <4>2. QED
        BY <1>2, <2>1, <3>1, <4>1
    <3>2. CASE n # 1
      <4>1. PICK m \in 1 .. N : m = n - 1 /\ m - 1 \in 0 .. N
        BY <1>1, <3>2
      <4>2. PICK v \in Seq(Chars), c \in Seq(Chars) : v = Y[m - 1] /\ c = args[m] /\ w = CL!AppendArg(v, c)
        BY <1>1, <1>2, <2>1, <4>1
      <4>3. PICK b \in Nat : b = Len(v) + (IF v = <<>> THEN 0 ELSE 1)
        OBVIOUS
      <4>4. Len(CL!AppendArg(v, c)) = b + Len(CL!ArgText(c))
        BY <4>3, AppendArgMakes
      <4>5. Len(CL!ArgText(c)) \in Nat \ {0}
        BY ArgTextIsLong
      <4>6. Len(w) # 0
        BY <4>2, <4>4, <4>5
      <4>7. QED
        BY <3>2, <4>6
    <3>3. QED
      BY <3>1, <3>2
  <2>3. PICK b \in Nat : b = Len(w) + (IF w = <<>> THEN 0 ELSE 1)
    OBVIOUS
  <2>4. /\ Len(x) = b + Len(CL!ArgText(a)) /\ (w # <<>> => x[b] = "space")
        /\ Written(x, b, CL!ArgText(a))
    <3>1. /\ Len(CL!AppendArg(w, a)) = b + Len(CL!ArgText(a)) /\ (w # <<>> => CL!AppendArg(w, a)[b] = "space")
          /\ Written(CL!AppendArg(w, a), b, CL!ArgText(a))
      BY <2>3, AppendArgMakes
    <3>2. x = CL!AppendArg(w, a)
      BY <2>1
    <3>3. QED
      BY <3>1, <3>2, Zenon
  <2>5. PICK t \in Seq(Chars) : t = CL!ArgText(a) /\ Len(t) # 0
    BY ArgTextIs, ArgTextIsLong
  <2>6. Len(x) = b + Len(t) /\ Len(x) <= Len(L) /\ \A i \in 1 .. Len(x) : L[i] = x[i]
    BY <2>1, <2>4, <2>5 DEF Starts
  <2>7. Written(L, b, t)
    <3>1. ASSUME NEW i \in 1 .. Len(t) PROVE L[b + i] = t[i]
      <4>1. b + i \in 1 .. Len(x)
        BY <2>6
      <4>2. x[b + i] = t[i]
        BY <2>4, <2>5 DEF Written
      <4>3. QED
        BY <2>6, <4>1, <4>2
    <3>2. b + Len(t) <= Len(L)
      BY <2>6
    <3>3. QED
      BY <3>1, <3>2 DEF Written
  <2>8. w # <<>> => b \in 1 .. Len(x) /\ L[b] = "space"
    <3>1. w # <<>> => b \in 1 .. Len(x)
      BY <2>3, <2>6
    <3>2. QED
      BY <2>4, <2>6, <3>1
  <2>9. b <= Len(L) /\ Len(x) # 0
    <3>1. Len(t) \in Nat /\ Len(L) \in Nat /\ Len(t) # 0
      BY <1>5, <2>5
    <3>2. Len(x) = b + Len(t) /\ Len(x) <= Len(L)
      BY <2>6
    <3>3. QED
      BY <3>1, <3>2
  <2>10. b = Len(Y[n - 1]) + (IF n = 1 THEN 0 ELSE 1)
    BY <2>1, <2>2, <2>3, Zenon
  <2>11. Len(Y[n]) = b + Len(CL!ArgText(args[n])) /\ Len(Y[n]) # 0
    BY <2>1, <2>4, <2>9, Zenon
  <2>12. Written(L, b, CL!ArgText(args[n])) /\ (n # 1 => L[b] = "space")
    BY <2>1, <2>2, <2>5, <2>7, <2>8, Zenon
  <2>13. QED
    BY <2>9, <2>10, <2>11, <2>12, Zenon
<1>8. ASSUME NEW n \in 1 .. N PROVE Ends(L, Len(Y[n]))
  <2>1. CASE n = N
    BY <1>4, <2>1 DEF Ends
  <2>2. CASE n # N
    <3>1. PICK m \in 1 .. N : m = n + 1 /\ m - 1 = n /\ m # 1
      BY <1>1, <2>2
    <3>2. PICK b \in Nat : b = Len(Y[n]) + 1 /\ L[b] = "space"
      BY <1>7, <3>1
    <3>3. QED
      BY <3>2 DEF Ends
  <2>3. QED
    BY <2>1, <2>2
<1>9. 0 \in T
  BY <1>1
<1>10. ASSUME NEW n \in 0 .. N, n # N, n \in T PROVE n + 1 \in T
  <2>1. PICK m \in 1 .. N : m = n + 1 /\ m - 1 = n /\ m \in 0 .. N
    BY <1>1, <1>10
  <2>2. PICK b \in Nat : /\ b = Len(Y[n]) + (IF m = 1 THEN 0 ELSE 1)
                         /\ Len(Y[m]) = b + Len(CL!ArgText(args[m]))
                         /\ Written(L, b, CL!ArgText(args[m]))
                         /\ b <= Len(L) /\ (m # 1 => L[b] = "space")
    BY <1>7, <2>1
  <2>3. PICK d0 \in Seq(Seq(Chars)) :
          At(L, b, "INIT", <<>>, d0) /\ AllSafe(d0) /\ ((\A i \in 1 .. n : CL!Safe(args[i])) => d0 = SubSeq(args, 1, n))
    <3>1. CASE n = 0
      <4>1. b = 0
        BY <1>2, <2>1, <2>2, <3>1
      <4>2. SubSeq(args, 1, n) = <<>>
        <5>1. PICK i \in Int, j \in Int : i = 1 /\ j = n /\ j < i
          BY <3>1
        <5>2. QED
          BY <5>1, SubSeqEmpty
      <4>3. <<>> \in Seq(Seq(Chars)) /\ AllSafe(<<>>)
        BY DEF AllSafe
      <4>4. QED
        BY <1>6, <4>1, <4>2, <4>3
    <3>2. CASE n # 0
      <4>1. ReadBack(L, Len(Y[n]), args, n)
        BY <1>10, <3>2
      <4>2. PICK p \in 0 .. Len(L) - 1 : p = Len(Y[n]) /\ b = p + 1
        <5>1. m # 1
          BY <2>1, <3>2
        <5>2. PICK l \in Nat, z \in Nat : l = Len(Y[n]) /\ z = Len(L)
          BY <1>2, <1>5
        <5>3. b = l + 1 /\ b <= z
          BY <2>2, <5>1, <5>2, Zenon
        <5>4. l \in 0 .. z - 1
          BY <5>3
        <5>5. QED
          BY <5>2, <5>3, <5>4, Zenon
      <4>3. ReadBack(L, p, args, n) /\ L[p + 1] = "space"
        <5>1. m # 1
          BY <2>1, <3>2
        <5>2. L[b] = "space"
          BY <2>2, <5>1
        <5>3. QED
          BY <4>1, <4>2, <5>2, Zenon
      <4>4. QED
        <5>1. AtFront(L, p + 1, args, n)
          BY <1>5, <4>3, ReadsSpace
        <5>2. b = p + 1
          BY <4>2
        <5>3. QED
          BY <5>1, <5>2, Zenon DEF AtFront
    <3>3. QED
      BY <3>1, <3>2
  <2>4. m \in 1 .. Len(args)
    BY DEF N
  <2>5. (\A i \in 1 .. m - 1 : CL!Safe(args[i])) => d0 = SubSeq(args, 1, m - 1)
    BY <2>1, <2>3, Zenon
  <2>6. Ends(L, b + Len(CL!ArgText(args[m])))
    BY <1>8, <2>2, Zenon
  <2>7. ReadBack(L, b + Len(CL!ArgText(args[m])), args, m)
    BY <1>5, <2>2, <2>3, <2>4, <2>5, <2>6, ReadsOne
  <2>8. m \in T
    BY <2>1, <2>2, <2>7, Zenon
  <2>9. QED
    BY <2>1, <2>8
<1> HIDE DEF T
<1>11. 0 .. N \subseteq T
  <2>1. N \in Nat
    BY <1>1
  <2>2. QED
    BY <1>9, <1>10, <2>1, UpTo
<1>12. N \in T
  <2>1. N \in 0 .. N
    BY <1>1
  <2>2. QED
    BY <1>11, <2>1
<1>13. ReadBack(L, Len(L), args, N)
  BY <1>1, <1>4, <1>12, Zenon DEF T
<1>14. \E b \in Nat : Written(L, b, CL!ArgText(args[N])) /\ Len(L) = b + Len(CL!ArgText(args[N]))
  <2>1. N \in 1 .. N
    BY <1>1
  <2>2. QED
    BY <1>4, <1>7, <2>1, Zenon
<1>15. QED
  BY <1>5, <1>13, <1>14, Zenon DEF L, N

\* What ends in whitespace is an argument with a break out of quotes.
LEMMA LastOfText ==
  ASSUME NEW arg \in Seq(Chars), CL!Safe(arg)
  PROVE  CL!ArgText(arg)[Len(CL!ArgText(arg))] \notin CL!Whitespace
<1>1. CASE arg = <<>>
  <2>1. CL!ArgText(arg) = <<"quote", "quote">>
    BY <1>1 DEF CL!ArgText
  <2>2. Len(<<"quote", "quote">>) = 2 /\ <<"quote", "quote">>[2] = "quote"
    OBVIOUS
  <2>3. CL!ArgText(arg)[Len(CL!ArgText(arg))] = "quote"
    BY <2>1, <2>2
  <2>4. QED
    BY <2>3 DEF CL!Whitespace
<1>2. CASE arg # <<>> /\ CL!Has(arg, "space")
  <2>1. CL!Body(arg).text \in Seq(Chars) /\ CL!Body(arg).slashes \in Nat /\ "quote" \in Chars
    BY BodyIs DEF Chars
  <2>2. CL!Slashes(CL!Body(arg).slashes) \in Seq(Chars)
    BY <2>1, SlashesAre
  <2>3. CL!ArgText(arg) = <<"quote">> \o CL!Body(arg).text \o CL!Slashes(CL!Body(arg).slashes) \o <<"quote">>
    BY <1>2 DEF CL!ArgText
  <2>4. PICK w \in Seq(Chars) : CL!ArgText(arg) = w \o <<"quote">>
    <3>1. PICK o \in Seq(Chars), u \in Seq(Chars), v \in Seq(Chars) :
            o = <<"quote">> /\ u = CL!Body(arg).text /\ v = CL!Slashes(CL!Body(arg).slashes)
      <4>1. <<"quote">> \in Seq(Chars)
        BY <2>1
      <4>2. QED
        BY <2>1, <2>2, <4>1, Zenon
    <3>2. o \o u \o v \in Seq(Chars)
      OBVIOUS
    <3>3. CL!ArgText(arg) = (o \o u \o v) \o <<"quote">>
      BY <2>3, <3>1, Zenon
    <3>4. QED
      BY <3>2, <3>3, Zenon
  <2>5. Len(w \o <<"quote">>) = Len(w) + 1 /\ (w \o <<"quote">>)[Len(w) + 1] = "quote"
    OBVIOUS
  <2>6. CL!ArgText(arg)[Len(CL!ArgText(arg))] = "quote"
    BY <2>4, <2>5, Zenon
  <2>7. QED
    BY <2>6 DEF CL!Whitespace
<1>3. CASE arg # <<>> /\ ~CL!Has(arg, "space")
  <2> DEFINE E == CL!Escaped(arg)
  <2>1. CL!ArgText(arg) = CL!Body(arg).text
    BY <1>3 DEF CL!ArgText
  <2>2. PICK N \in 1 .. Len(arg) : N = Len(arg) /\ N - 1 \in 0 .. Len(arg) /\ N \in 0 .. Len(arg)
    BY <1>3
  <2>3. E[N] = CL!EscapeChar(E[N - 1], arg[N]) /\ E[N - 1] \in Escapes /\ arg[N] \in Chars
    BY <2>2, EscapedIs
  <2>4. arg[N] # "space" /\ arg[N] # "break"
    BY <1>3, <2>2 DEF CL!Has, CL!Safe
  <2> HIDE DEF E
  <2>5. PICK e \in Escapes, c \in Chars : E[N] = CL!EscapeChar(e, c) /\ c # "space" /\ c # "break"
    BY <2>3, <2>4
  <2> DEFINE x == CL!EscapeChar(e, c)
  <2>6. /\ c = "slash" => Len(x.text) = Len(e.text) + 1 /\ x.text[Len(e.text) + 1] = c
        /\ c = "quote" => Len(x.text) = Len(e.text) + e.slashes + 2 /\ x.text[Len(e.text) + e.slashes + 2] = c
        /\ c \notin {"slash", "quote"} => Len(x.text) = Len(e.text) + 1 /\ x.text[Len(e.text) + 1] = c
    BY EscapeCharMakes
  <2> HIDE DEF x
  <2>7. x.text[Len(x.text)] = c
    BY <2>6
  <2>8. CL!ArgText(arg) = x.text
    BY <2>1, <2>2, <2>5 DEF CL!Body, E, x
  <2>9. QED
    BY <2>5, <2>7, <2>8 DEF CL!Whitespace
<1>4. QED
  BY <1>1, <1>2, <1>3

\* The line without the whitespace at its end: its first e characters.
IsStripped(L, src, e) ==
  /\ src \in Seq(Chars) /\ Len(src) = e /\ \A i \in 1 .. e : src[i] = L[i]
  /\ \A i \in e + 1 .. Len(L) : L[i] \in CL!Whitespace
  /\ e = 0 <=> src = <<>>

\* There is such an e, and the character there is no whitespace.
LEMMA StripIs ==
  ASSUME NEW L \in Seq(Chars)
  PROVE  \E e \in 0 .. Len(L) : IsStripped(L, CL!StripTrailingWhitespace(L), e) /\ (e # 0 => L[e] \notin CL!Whitespace)
<1> DEFINE ends == {i \in DOMAIN L : L[i] \notin CL!Whitespace}
           src == CL!StripTrailingWhitespace(L)
<1>1. PICK N \in Nat : N = Len(L) /\ DOMAIN L = 1 .. N
  OBVIOUS
<1>2. CASE ends = {}
  <2>1. src = <<>>
    BY <1>2, Zenon DEF CL!StripTrailingWhitespace
  <2>2. \A i \in 1 .. N : L[i] \in CL!Whitespace
    BY <1>1, <1>2
  <2>3. <<>> \in Seq(Chars) /\ Len(<<>>) = 0 /\ (\A i \in 1 .. 0 : <<>>[i] = L[i]) /\ 0 + 1 = 1
    OBVIOUS
  <2> HIDE DEF src, ends
  <2>4. IsStripped(L, src, 0)
    BY <1>1, <2>1, <2>2, <2>3 DEF IsStripped
  <2>5. 0 \in 0 .. Len(L)
    BY <1>1
  <2>6. QED
    BY <2>4, <2>5 DEF src
<1>3. CASE ends # {}
  <2> DEFINE T == {N - i : i \in ends}
  <2>1. T \subseteq Nat /\ T # {}
    BY <1>1, <1>3
  <2>2. PICK k \in T : \A m \in T : k <= m
    <3> HIDE DEF T
    <3>1. QED
      BY <2>1, LeastOfSet
  <2>3. PICK e \in ends : k = N - e
    BY <2>2
  <2>4. \A i \in ends : i <= e
    <3>1. ASSUME NEW i \in ends PROVE i <= e
      <4>1. N - i \in T /\ i \in 1 .. N /\ e \in 1 .. N
        BY <1>1
      <4>2. N - e <= N - i
        BY <2>2, <2>3, <4>1
      <4>3. QED
        BY <4>1, <4>2
    <3>2. QED
      BY <3>1
  <2>5. e \in 1 .. N /\ L[e] \notin CL!Whitespace
    BY <1>1
  <2> DEFINE P(i) == \A j \in ends : j <= i
             z == CHOOSE i \in ends : P(i)
  <2>6. z = e
    <3>1. e \in ends /\ P(e)
      BY <2>4
    <3>2. z \in ends /\ P(z)
      BY <3>1, Zenon
    <3>3. e <= z /\ z <= e
      BY <2>4, <3>1, <3>2
    <3>4. z \in 1 .. N
      BY <1>1, <3>2
    <3> HIDE DEF z
    <3>5. QED
      BY <2>5, <3>3, <3>4
  <2>7. src = SubSeq(L, 1, z)
    BY <1>3, Zenon DEF CL!StripTrailingWhitespace
  <2>8. src = SubSeq(L, 1, e)
    BY <2>6, <2>7, Zenon
  <2> HIDE DEF src, z
  <2>9. PICK m \in 0 .. Len(L), n \in 0 .. Len(L) : m = 0 /\ n = e /\ m + 1 = 1 /\ n \in m .. Len(L)
    BY <1>1, <2>5
  <2>10. /\ SubSeq(L, m + 1, n) \in Seq(Chars) /\ Len(SubSeq(L, m + 1, n)) = n - m
         /\ \A i \in 1 .. n - m : SubSeq(L, m + 1, n)[i] = L[m + i]
    BY <2>9, SubIs
  <2>11. n - m = e /\ \A i \in 1 .. e : m + i = i
    BY <2>5, <2>9
  <2>12. src \in Seq(Chars) /\ Len(src) = e /\ \A i \in 1 .. e : src[i] = L[i]
    BY <2>8, <2>9, <2>10, <2>11
  <2>13. ASSUME NEW i \in e + 1 .. Len(L) PROVE L[i] \in CL!Whitespace
    <3>1. i \in 1 .. N /\ ~(i <= e)
      BY <1>1, <2>5
    <3>2. i \notin ends
      BY <2>4, <3>1
    <3>3. QED
      BY <1>1, <3>1, <3>2
  <2>14. e = 0 <=> src = <<>>
    BY <2>5, <2>12
  <2>15. IsStripped(L, src, e)
    BY <2>12, <2>13, <2>14, Zenon DEF IsStripped
  <2>16. e \in 0 .. Len(L)
    BY <1>1, <2>5
  <2>17. QED
    BY <2>5, <2>15, <2>16 DEF src
<1>4. QED
  BY <1>2, <1>3

\* What is stripped is not looked at when what is left is read.
LEMMA SameParse ==
  ASSUME NEW L \in Seq(Chars), NEW e \in 0 .. Len(L), NEW src, IsStripped(L, src, e),
         NEW i \in 1 .. e, src[i] = "slash"
  PROVE  CL!ParseBackslash(src, i) = CL!ParseBackslash(L, i)
<1>1. src \in Seq(Chars) /\ Len(src) = e /\ i \in 1 .. Len(src) /\ i \in 1 .. Len(L)
  BY DEF IsStripped
<1>2. PICK k \in 1 .. Len(src) - i + 1 : CL!IsRun(src, i, k)
  BY <1>1, RunExists
<1>3. k \in 1 .. Len(L) - i + 1 /\ i + k - 1 <= e /\ Len(L) \in Nat
  BY <1>1, <1>2
<1>4. i + k <= e => L[i + k] = src[i + k]
  BY <1>2, <1>3 DEF IsStripped
<1>5. ~(i + k <= e) => i + k > Len(L) \/ L[i + k] \notin {"slash", "quote"}
  <2>1. SUFFICES ASSUME ~(i + k <= e), i + k <= Len(L) PROVE L[i + k] \notin {"slash", "quote"}
    BY <1>3
  <2>2. i + k \in e + 1 .. Len(L)
    BY <1>3, <2>1
  <2>3. L[i + k] \in CL!Whitespace
    BY <2>2 DEF IsStripped
  <2>4. QED
    BY <2>3 DEF CL!Whitespace
<1>6. CL!IsRun(L, i, k)
  <2>1. ASSUME NEW j \in i .. i + k - 1 PROVE L[j] = "slash"
    <3>1. j \in 1 .. e
      BY <1>3
    <3>2. QED
      BY <1>2, <3>1 DEF CL!IsRun, IsStripped
  <2>2. i + k > Len(L) \/ L[i + k] # "slash"
    <3>1. i + k > e \/ src[i + k] # "slash"
      BY <1>1, <1>2 DEF CL!IsRun
    <3>2. QED
      BY <1>4, <1>5, <3>1
  <2>3. QED
    BY <2>1, <2>2 DEF CL!IsRun
<1>7. /\ (CHOOSE n \in 1 .. Len(src) - i + 1 : CL!IsRun(src, i, n)) = k
      /\ (CHOOSE n \in 1 .. Len(L) - i + 1 : CL!IsRun(L, i, n)) = k
  BY <1>1, <1>2, <1>3, <1>6, RunIs
<1>8. (i + k <= Len(src) /\ src[i + k] = "quote") <=> (i + k <= Len(L) /\ L[i + k] = "quote")
  BY <1>1, <1>3, <1>4, <1>5
<1> DEFINE value(Q) ==
      IF ~Q THEN [chars |-> CL!Slashes(k), next |-> i + k]
      ELSE IF k % 2 = 0 THEN [chars |-> CL!Slashes(k \div 2), next |-> i + k]
      ELSE [chars |-> Append(CL!Slashes(k \div 2), "quote"), next |-> i + k + 1]
<1>9. /\ CL!ParseBackslash(src, i) = value(i + k <= Len(src) /\ src[i + k] = "quote")
      /\ CL!ParseBackslash(L, i) = value(i + k <= Len(L) /\ L[i + k] = "quote")
  BY <1>7, Zenon DEF CL!ParseBackslash
<1>10. CL!ParseBackslash(src, i) = CL!ParseBackslash(L, i)
  <2>1. CASE i + k <= Len(src) /\ src[i + k] = "quote"
    BY <1>8, <1>9, <2>1
  <2>2. CASE ~(i + k <= Len(src) /\ src[i + k] = "quote")
    BY <1>8, <1>9, <2>2
  <2>3. QED
    BY <2>1, <2>2
<1>11. QED
  BY <1>10

\* So every character is read as it was,
LEMMA SameChar ==
  ASSUME NEW L \in Seq(Chars), NEW e \in 0 .. Len(L), NEW src, IsStripped(L, src, e), NEW i \in 1 .. e, NEW r
  PROVE  CL!ReadChar(src, i, r) = CL!ReadChar(L, i, r)
<1>1. src \in Seq(Chars) /\ Len(src) = e /\ src[i] = L[i] /\ Len(L) \in Nat
  BY DEF IsStripped
<1>2. CASE src[i] = "slash"
  <2> DEFINE value(b) == CL!Reading(b.next, CL!Inside(r.state), r.token \o b.chars, r.done)
  <2>1. CL!ReadChar(src, i, r) = value(CL!ParseBackslash(src, i)) /\ CL!ReadChar(L, i, r) = value(CL!ParseBackslash(L, i))
    BY <1>1, <1>2 DEF CL!ReadChar, CL!Whitespace
  <2>2. CL!ParseBackslash(src, i) = CL!ParseBackslash(L, i)
    BY <1>2, SameParse
  <2>3. QED
    BY <2>1, <2>2, Zenon
<1>3. CASE src[i] # "slash"
  <2>1. (i < Len(src) /\ src[i + 1] = "quote") <=> (i < Len(L) /\ L[i + 1] = "quote")
    <3>1. CASE i < e
      <4>1. i + 1 \in 1 .. e
        BY <3>1
      <4>2. QED
        BY <1>1, <3>1, <4>1 DEF IsStripped
    <3>2. CASE i = e
      <4>1. SUFFICES ASSUME i < Len(L) PROVE L[i + 1] # "quote"
        BY <1>1, <3>2
      <4>2. i + 1 \in e + 1 .. Len(L)
        BY <1>1, <3>2, <4>1
      <4>3. L[i + 1] \in CL!Whitespace
        BY <4>2 DEF IsStripped
      <4>4. QED
        BY <4>3 DEF CL!Whitespace
    <3>3. QED
      BY <3>1, <3>2
  <2>2. QED
    BY <1>1, <1>3, <2>1 DEF CL!ReadChar
<1>4. QED
  BY <1>2, <1>3

\* and all that is left is.
LEMMA SameReads ==
  ASSUME NEW L \in Seq(Chars), NEW e \in 0 .. Len(L), NEW src, IsStripped(L, src, e)
  PROVE  CL!LastRead(src) = CL!Reads(L)[e]
<1> DEFINE Z == CL!Reads(L)
           S == CL!Reads(src)
<1>1. src \in Seq(Chars) /\ Len(src) = e /\ e \in Nat /\ e <= Len(L) /\ Len(L) \in Nat
  BY DEF IsStripped
<1>2. S[0] = Z[0]
  BY <1>1, ReadsIs
<1>3. \A i \in 1 .. e : S[i] = CL!Advance(src, i, S[i - 1])
  BY <1>1, ReadsIs
<1>4. \A i \in 1 .. Len(L) : Z[i] = CL!Advance(L, i, Z[i - 1])
  BY ReadsIs
<1> HIDE DEF Z, S
<1>5. ASSUME NEW i \in 1 .. e, S[i - 1] = Z[i - 1] PROVE S[i] = Z[i]
  <2>1. i \in 1 .. Len(L)
    BY <1>1
  <2>2. CL!ReadChar(src, i, Z[i - 1]) = CL!ReadChar(L, i, Z[i - 1])
    BY SameChar
  <2>3. S[i] = CL!Advance(src, i, Z[i - 1]) /\ Z[i] = CL!Advance(L, i, Z[i - 1])
    BY <1>3, <1>4, <1>5, <2>1
  <2>4. QED
    BY <2>2, <2>3, Zenon DEF CL!Advance
<1>6. \A i \in 0 .. e : S[i] = Z[i]
  <2>1. \A i \in 1 .. e : S[i - 1] = Z[i - 1] => S[i] = Z[i]
    BY <1>5
  <2>2. e \in Nat
    BY <1>1
  <2>3. QED
    BY <1>2, <2>1, <2>2, SameValues, Zenon
<1>7. S[e] = Z[e]
  <2>1. e \in 0 .. e
    BY <1>1
  <2>2. QED
    BY <1>6, <2>1
<1>8. QED
  BY <1>1, <1>7 DEF CL!LastRead, Z, S

\* Not in quotes, with nothing unsafe read.
Calm(r) == r.state # "QUOTED" /\ CL!Safe(r.token) /\ AllSafe(r.done)

\* Whitespace cannot end quotes, so that it was calm before.
LEMMA CalmBefore ==
  ASSUME NEW L \in Seq(Chars), NEW i \in 1 .. Len(L), L[i] \in CL!Whitespace, Calm(CL!Reads(L)[i])
  PROVE  Calm(CL!Reads(L)[i - 1])
<1>1. PICK r \in Readers : r = CL!Reads(L)[i - 1] /\ CL!Reads(L)[i] = CL!Advance(L, i, r)
  <2>1. i - 1 \in 0 .. Len(L)
    OBVIOUS
  <2>2. QED
    BY <2>1, ReadsIs
<1>2. CASE r.next # i
  BY <1>1, <1>2, Zenon DEF CL!Advance
<1>3. CASE r.next = i
  <2>1. Calm(CL!ReadChar(L, i, r))
    BY <1>1, <1>3, Zenon DEF CL!Advance
  <2>2. r.state \in States /\ r.token \in Seq(Chars) /\ r.done \in Seq(Seq(Chars))
    BY DEF Readers
  <2>3. CASE r.state = "QUOTED"
    <3>1. CL!ReadChar(L, i, r) = CL!Reading(i + 1, "QUOTED", Append(r.token, L[i]), r.done)
      BY <2>3 DEF CL!ReadChar, CL!Whitespace, CL!Inside
    <3>2. CL!ReadChar(L, i, r).state = "QUOTED"
      BY <3>1 DEF CL!Reading
    <3>3. QED
      BY <2>1, <3>2 DEF Calm
  <2>4. CASE r.state = "INIT"
    <3>1. CL!ReadChar(L, i, r) = CL!Reading(i + 1, r.state, r.token, r.done)
      BY <2>4 DEF CL!ReadChar, CL!Whitespace
    <3>2. CL!Safe(r.token) /\ AllSafe(r.done)
      BY <2>1, <3>1 DEF Calm, CL!Reading
    <3>3. QED
      BY <1>1, <2>4, <3>2 DEF Calm
  <2>5. CASE r.state = "UNQUOTED"
    <3>1. CL!ReadChar(L, i, r) = CL!Reading(i + 1, "INIT", <<>>, Append(r.done, r.token))
      BY <2>5 DEF CL!ReadChar, CL!Whitespace
    <3>2. AllSafe(Append(r.done, r.token))
      BY <2>1, <3>1 DEF Calm, CL!Reading
    <3>3. CL!Safe(r.token) /\ AllSafe(r.done)
      <4> DEFINE n == Len(r.done) + 1
                 a == Append(r.done, r.token)
      <4>1. n \in DOMAIN a /\ a[n] = r.token
        BY <2>2
      <4>2. \A j \in DOMAIN r.done : j \in DOMAIN a /\ a[j] = r.done[j]
        BY <2>2
      <4>3. QED
        BY <3>2, <4>1, <4>2, Zenon DEF AllSafe
    <3>4. QED
      BY <1>1, <2>5, <3>3 DEF Calm
  <2>6. QED
    BY <2>2, <2>3, <2>4, <2>5 DEF States
<1>4. QED
  BY <1>2, <1>3

\* Nor was it otherwise before all of the whitespace at the end.
LEMMA CalmAtEnd ==
  ASSUME NEW L \in Seq(Chars), NEW e \in 0 .. Len(L), \A i \in e + 1 .. Len(L) : L[i] \in CL!Whitespace,
         Calm(CL!Reads(L)[Len(L)])
  PROVE  Calm(CL!Reads(L)[e])
<1>1. PICK N \in Nat : N = Len(L) - e
  OBVIOUS
<1> DEFINE T == {k \in 0 .. N : Calm(CL!Reads(L)[Len(L) - k])}
<1>2. 0 \in T
  <2>1. Len(L) - 0 = Len(L) /\ 0 \in 0 .. N
    OBVIOUS
  <2>2. QED
    BY <2>1
<1>3. ASSUME NEW k \in 0 .. N, k # N, k \in T PROVE k + 1 \in T
  <2>1. PICK i \in e + 1 .. Len(L) : i = Len(L) - k /\ i - 1 = Len(L) - (k + 1) /\ k + 1 \in 0 .. N /\ i \in 1 .. Len(L)
    BY <1>1, <1>3
  <2>2. Calm(CL!Reads(L)[i])
    BY <1>3, <2>1
  <2>3. Calm(CL!Reads(L)[i - 1])
    BY <2>1, <2>2, CalmBefore
  <2>4. QED
    BY <2>1, <2>3
<1> HIDE DEF T
<1>4. N \in T
  <2>1. N \in 0 .. N
    OBVIOUS
  <2>2. QED
    BY <1>2, <1>3, <2>1, UpTo
<1>5. Len(L) - N = e
  BY <1>1
<1>6. QED
  BY <1>4, <1>5 DEF T

\* The Tokenizer has read as much as there is before the whitespace at the end.
LEMMA TokenizeIs ==
  ASSUME NEW L \in Seq(Chars), NEW e \in 0 .. Len(L), IsStripped(L, CL!StripTrailingWhitespace(L), e)
  PROVE  CL!Tokenize(L) = IF e = 0 THEN <<>> ELSE Append(CL!Reads(L)[e].done, CL!Reads(L)[e].token)
<1> DEFINE src == CL!StripTrailingWhitespace(L)
<1>1. CL!LastRead(src) = CL!Reads(L)[e]
  BY SameReads
<1>2. CL!Tokenize(L) = IF src = <<>> THEN <<>> ELSE Append(CL!LastRead(src).done, CL!LastRead(src).token)
  BY Zenon DEF CL!Tokenize, CL!Scan
<1>3. e = 0 <=> src = <<>>
  BY DEF IsStripped
<1> HIDE DEF src
<1>4. QED
  BY <1>1, <1>2, <1>3

\* Behind an argument of which nothing would be lost a line has no whitespace.
LEMMA EndOfLine ==
  ASSUME NEW L \in Seq(Chars), NEW b \in Nat, NEW arg \in Seq(Chars), CL!Safe(arg),
         Written(L, b, CL!ArgText(arg)), Len(L) = b + Len(CL!ArgText(arg))
  PROVE  Len(L) # 0 /\ L[Len(L)] \notin CL!Whitespace
<1>1. PICK t \in Seq(Chars) : t = CL!ArgText(arg) /\ Len(t) # 0 /\ t[Len(t)] \notin CL!Whitespace
  BY ArgTextIs, ArgTextIsLong, LastOfText
<1>2. PICK n \in Nat, l \in Nat : n = Len(t) /\ l = Len(L) /\ l = b + n /\ n # 0
  BY <1>1
<1>3. n \in 1 .. n /\ l # 0
  BY <1>2
<1>4. L[b + n] = t[n]
  BY <1>1, <1>2, <1>3, Zenon DEF Written
<1>5. Len(L) # 0
  BY <1>2, <1>3, Zenon
<1>6. L[Len(L)] = t[Len(t)]
  BY <1>2, <1>4, Zenon
<1>7. QED
  BY <1>1, <1>5, <1>6

\* The arguments are read back if and only if all of them are safe.
LEMMA TokenizesBack ==
  ASSUME NEW args \in Seq(Seq(Chars))
  PROVE  CL!Tokenize(CL!AssignFull(<<>>, args)) = args <=> \A i \in DOMAIN args : CL!Safe(args[i])
<1> DEFINE L == CL!AssignFull(<<>>, args)
           Z == CL!Reads(L)
<1>1. CASE args = <<>>
  <2>1. PICK v \in Seq(Chars), N \in Nat : v = <<>> /\ N = 0 /\ N = Len(args) /\ Len(v) = 0
    <3>1. <<>> \in Seq(Chars) /\ 0 \in Nat /\ Len(<<>>) = 0
      OBVIOUS
    <3>2. QED
      BY <1>1, <3>1, Zenon
  <2>2. L = <<>>
    <3>1. CL!Assigned(v, args)[0] = v
      BY AssignedIs
    <3>2. QED
      BY <2>1, <3>1, Zenon DEF CL!AssignFull
  <2>3. PICK e \in 0 .. Len(v) : IsStripped(v, CL!StripTrailingWhitespace(v), e)
    BY StripIs
  <2>4. e = 0
    BY <2>1, <2>3
  <2>5. CL!Tokenize(v) = <<>>
    BY <2>3, <2>4, TokenizeIs
  <2>6. \A i \in DOMAIN args : CL!Safe(args[i])
    BY <1>1
  <2> HIDE DEF L
  <2>7. QED
    BY <1>1, <2>1, <2>2, <2>5, <2>6, Zenon DEF L
<1>2. CASE args # <<>>
  <2>1. PICK N \in Nat : N = Len(args) /\ DOMAIN args = 1 .. N /\ N \in 1 .. N /\ args[N] \in Seq(Chars)
    BY <1>2
  <2>2. ReadBack(L, Len(L), args, N) /\ L \in Seq(Chars)
    BY <1>2, <2>1, ReadsAll
  <2>3. PICK b \in Nat : Written(L, b, CL!ArgText(args[N])) /\ Len(L) = b + Len(CL!ArgText(args[N]))
    BY <1>2, <2>1, ReadsAll
  <2> HIDE DEF L
  <2>4. PICK e \in 0 .. Len(L) : IsStripped(L, CL!StripTrailingWhitespace(L), e)
    BY <2>2, StripIs
  <2>5. CL!Tokenize(L) = IF e = 0 THEN <<>> ELSE Append(Z[e].done, Z[e].token)
    BY <2>2, <2>4, TokenizeIs
  <2>6. PICK s \in {"INIT", "UNQUOTED"}, t \in Seq(Chars), d \in Seq(Seq(Chars)) :
          /\ At(L, Len(L), s, t, d)
          /\ CL!Safe(t)
          /\ AllSafe(d)
          /\ (\A i \in 1 .. N : CL!Safe(args[i])) => Append(d, t) = SubSeq(args, 1, N)
    BY <2>2, Zenon DEF ReadBack
  <2>7. Z[Len(L)].state = s /\ Z[Len(L)].token = t /\ Z[Len(L)].done = d
    BY <2>6 DEF At, CL!Reading
  <2> HIDE DEF Z
  <2>8. CASE \A i \in DOMAIN args : CL!Safe(args[i])
    <3>1. Len(L) # 0 /\ L[Len(L)] \notin CL!Whitespace
      BY <2>1, <2>2, <2>3, <2>8, EndOfLine
    <3>2. e = Len(L)
      <4>1. SUFFICES ASSUME e # Len(L) PROVE FALSE
        OBVIOUS
      <4>2. Len(L) \in e + 1 .. Len(L)
        BY <2>2, <4>1
      <4>3. QED
        BY <2>4, <3>1, <4>2 DEF IsStripped
    <3>3. CL!Tokenize(L) = Append(d, t)
      BY <2>5, <2>7, <3>1, <3>2
    <3>4. Append(d, t) = args
      BY <2>1, <2>6, <2>8, SubSeqFull
    <3>5. QED
      BY <2>8, <3>3, <3>4 DEF L
  <2>9. CASE ~(\A i \in DOMAIN args : CL!Safe(args[i]))
    <3>1. Calm(Z[Len(L)])
      BY <2>6, <2>7 DEF Calm
    <3>2. Calm(Z[e]) /\ Z[e] \in Readers
      <4>1. \A i \in e + 1 .. Len(L) : L[i] \in CL!Whitespace
        BY <2>4 DEF IsStripped
      <4>2. L \in Seq(Chars)
        BY <2>2
      <4>3. Calm(Z[e])
        BY <3>1, <4>1, <4>2, CalmAtEnd DEF Z
      <4>4. Z[e] \in Readers
        BY <4>2, ReadsIs DEF Z
      <4>5. QED
        BY <4>3, <4>4
    <3>3. PICK u \in Seq(Chars), f \in Seq(Seq(Chars)) :
          /\ u = Z[e].token /\ f = Z[e].done /\ CL!Safe(u) /\ AllSafe(f)
      BY <3>2 DEF Readers, Calm
    <3>4. AllSafe(Append(f, u))
      <4>1. CL!Safe(u) /\ AllSafe(f)
        BY <3>3
      <4> DEFINE a == Append(f, u)
      <4>2. \A i \in DOMAIN a : a[i] = u \/ (i \in DOMAIN f /\ a[i] = f[i])
        OBVIOUS
      <4> HIDE DEF a
      <4>3. AllSafe(a)
        BY <4>1, <4>2, Zenon DEF AllSafe
      <4>4. QED
        BY <4>3 DEF a
    <3>5. Append(f, u) # args
      BY <2>9, <3>4 DEF AllSafe
    <3>6. CL!Tokenize(L) # args
      BY <1>2, <2>5, <3>3, <3>5
    <3>7. QED
      BY <2>9, <3>6 DEF L
  <2>10. QED
    BY <2>8, <2>9
<1>3. QED
  BY <1>1, <1>2

\* Writing behind a line is writing all of it.
LEMMA AssignTwice ==
  ASSUME NEW args \in Seq(Seq(Chars))
  PROVE  CL!AssignFull(CL!AssignFull(<<>>, args), args) = CL!AssignFull(<<>>, args \o args)
<1> DEFINE N == Len(args)
           both == args \o args
           Y == CL!Assigned(<<>>, args)
           V == CL!Assigned(Y[N], args)
           U == CL!Assigned(<<>>, both)
           g == [n \in 0 .. N |-> U[N + n]]
<1>1. N \in Nat /\ <<>> \in Seq(Chars) /\ N \in 0 .. N
  OBVIOUS
<1>2. /\ both \in Seq(Seq(Chars)) /\ Len(both) = N + N
      /\ \A i \in 1 .. N : both[i] = args[i] /\ both[N + i] = args[i]
  OBVIOUS
<1>3. Y[0] = <<>> /\ Y[N] \in Seq(Chars) /\ \A n \in 1 .. N : Y[n] = CL!AppendArg(Y[n - 1], args[n])
  BY <1>1, AssignedIs
<1>4. V[0] = Y[N] /\ \A n \in 1 .. N : V[n] = CL!AppendArg(V[n - 1], args[n])
  BY <1>3, AssignedIs
<1> HIDE DEF both
<1>5. U[0] = <<>> /\ \A n \in 1 .. N + N : U[n] = CL!AppendArg(U[n - 1], both[n])
  <2>1. U[0] = <<>> /\ \A n \in 1 .. Len(both) : U[n] = CL!AppendArg(U[n - 1], both[n])
    BY <1>1, <1>2, AssignedIs
  <2>2. Len(both) = N + N
    BY <1>2
  <2> HIDE DEF U
  <2>3. QED
    BY <2>1, <2>2, Zenon
<1> HIDE DEF Y, V, U
<1>6. \A n \in 0 .. N : U[n] = Y[n]
  <2>1. ASSUME NEW n \in 1 .. N, U[n - 1] = Y[n - 1] PROVE U[n] = Y[n]
    <3>1. n \in 1 .. N + N
      BY <1>1
    <3>2. QED
      BY <1>2, <1>3, <1>5, <2>1, <3>1
  <2>2. \A n \in 1 .. N : U[n - 1] = Y[n - 1] => U[n] = Y[n]
    BY <2>1
  <2>3. U[0] = Y[0] /\ N \in Nat
    BY <1>1, <1>3, <1>5
  <2> HIDE DEF N
  <2>4. QED
    BY <2>2, <2>3, SameValues, Zenon
<1>7. \A n \in 0 .. N : g[n] = V[n]
  <2>1. ASSUME NEW n \in 1 .. N, g[n - 1] = V[n - 1] PROVE g[n] = V[n]
    <3>1. N + n \in 1 .. N + N /\ N + n - 1 = N + (n - 1) /\ n - 1 \in 0 .. N /\ n \in 0 .. N
      BY <1>1
    <3>2. U[N + n] = CL!AppendArg(U[N + (n - 1)], both[N + n])
      BY <1>5, <3>1
    <3>3. g[n] = U[N + n] /\ g[n - 1] = U[N + (n - 1)]
      BY <3>1
    <3>4. both[N + n] = args[n]
      BY <1>2
    <3> HIDE DEF g
    <3>5. QED
      BY <1>4, <2>1, <3>2, <3>3, <3>4
  <2>2. \A n \in 1 .. N : g[n - 1] = V[n - 1] => g[n] = V[n]
    BY <2>1
  <2>3. g[0] = V[0]
    <3>1. 0 \in 0 .. N /\ N + 0 = N
      BY <1>1
    <3>2. QED
      BY <1>1, <1>4, <1>6, <3>1
  <2>4. N \in Nat
    BY <1>1
  <2> HIDE DEF N, g
  <2>5. QED
    BY <2>2, <2>3, <2>4, SameValues, Zenon
<1>8. V[N] = U[N + N]
  BY <1>1, <1>7
<1>9. CL!AssignFull(<<>>, args) = Y[N] /\ CL!AssignFull(Y[N], args) = V[N]
  BY Zenon DEF CL!AssignFull, V, Y
<1>10. CL!AssignFull(<<>>, both) = U[N + N]
  BY <1>2, Zenon DEF CL!AssignFull, U
<1>11. QED
  BY <1>8, <1>9, <1>10 DEF both

\* escapeargv.hpp, tokenizecmdline.hpp: whatever the arguments, the Tokenizer reads them
\* back from the command line EscapeArgv wrote if and only if no argument has a line break
\* without a space; and what is written behind a line is read behind its arguments.
THEOREM CommandLinesRoundTrip == \A args \in Seq(Seq(Chars)) : CL!RoundTrips(args)
<1> TAKE args \in Seq(Seq(Chars))
<1>1. CL!Tokenize(CL!AssignFull(<<>>, args)) = args <=> \A i \in DOMAIN args : CL!Safe(args[i])
  BY TokenizesBack
<1>2. ASSUME \A i \in DOMAIN args : CL!Safe(args[i])
      PROVE  CL!Tokenize(CL!AssignFull(CL!AssignFull(<<>>, args), args)) = args \o args
  <2> DEFINE both == args \o args
  <2>1. both \in Seq(Seq(Chars)) /\ \A i \in DOMAIN both : \E j \in DOMAIN args : both[i] = args[j]
    <3>1. PICK N \in Nat : N = Len(args) /\ DOMAIN args = 1 .. N
      OBVIOUS
    <3>2. both \in Seq(Seq(Chars)) /\ DOMAIN both = 1 .. N + N
      BY <3>1
    <3>3. \A i \in 1 .. N : both[i] = args[i] /\ both[N + i] = args[i]
      BY <3>1
    <3> HIDE DEF both
    <3>4. ASSUME NEW i \in 1 .. N + N PROVE \E j \in 1 .. N : both[i] = args[j]
      <4>1. CASE i <= N
        <5>1. i \in 1 .. N
          BY <4>1
        <5>2. QED
          BY <3>3, <5>1, Zenon
      <4>2. CASE ~(i <= N)
        <5>1. PICK j \in 1 .. N : j = i - N /\ N + j = i
          BY <4>2
        <5>2. QED
          BY <3>3, <5>1
      <4>3. QED
        BY <4>1, <4>2
    <3>5. QED
      BY <3>1, <3>2, <3>4, Zenon
  <2> HIDE DEF both
  <2>2. \A i \in DOMAIN both : CL!Safe(both[i])
    BY <1>2, <2>1
  <2>3. CL!Tokenize(CL!AssignFull(<<>>, both)) = both
    BY <2>1, <2>2, TokenizesBack
  <2>4. QED
    BY <2>3, AssignTwice DEF both
<1>3. QED
  BY <1>1, <1>2 DEF CL!RoundTrips

\* The parts of an input are texts, and there is one at least.
Texts == {p \in Seq(Seq(Chars)) : Len(p) # 0}

\* A token more leaves them so.
LEMMA AddTokenIs ==
  ASSUME NEW p \in Texts, NEW t \in Chars, NEW sep
  PROVE  AddToken(p, t, sep) \in Texts
<1>1. p \in Seq(Seq(Chars)) /\ Len(p) \in DOMAIN p
  BY DEF Texts
<1>2. CASE t = sep
  <2>1. <<>> \in Seq(Chars)
    OBVIOUS
  <2>2. Append(p, <<>>) \in Seq(Seq(Chars)) /\ Len(Append(p, <<>>)) # 0
    BY <1>1, <2>1
  <2>3. QED
    BY <1>2, <2>2 DEF AddToken, Texts
<1>3. CASE t # sep
  <2>1. PICK u \in Seq(Chars) : u = Append(p[Len(p)], t)
    <3>1. PICK v \in Seq(Chars) : v = p[Len(p)]
      BY <1>1
    <3>2. Append(v, t) \in Seq(Chars)
      OBVIOUS
    <3>3. QED
      BY <3>1, <3>2
  <2> DEFINE q == [p EXCEPT ![Len(p)] = u]
  <2>2. q \in Seq(Seq(Chars)) /\ Len(q) # 0
    BY <1>1 DEF Texts
  <2>3. AddToken(p, t, sep) = q
    BY <1>3, <2>1 DEF AddToken
  <2>4. QED
    BY <2>2, <2>3 DEF Texts
<1>4. QED
  BY <1>2, <1>3

\* The parts of a text are made from one empty text.
LEMMA PartsAre ==
  ASSUME NEW s \in Seq(Chars), NEW sep
  PROVE  Parts(s, sep) \in Seq(Seq(Chars))
<1> DEFINE N == Len(s)
           a == <<<<>>>>
           F == [x \in (1 .. N) \X Texts |-> AddToken(x[2], s[x[1]], sep)]
           Step(f) == [n \in 0 .. N |-> IF n = 0 THEN a ELSE AddToken(f[n - 1], s[n], sep)]
           Y == CHOOSE f : f = Step(f)
<1>1. N \in Nat /\ (\A n \in 1 .. N : s[n] \in Chars) /\ a \in Texts
  <2>1. <<>> \in Seq(Chars)
    OBVIOUS
  <2>2. a \in Seq(Seq(Chars)) /\ Len(a) = 1
    <3>1. PICK v \in Seq(Chars) : v = <<>>
      BY <2>1
    <3>2. <<v>> \in Seq(Seq(Chars)) /\ Len(<<v>>) = 1
      OBVIOUS
    <3>3. QED
      BY <3>1, <3>2, Zenon
  <2>3. a \in Texts
    <3>1. PICK p \in Seq(Seq(Chars)) : p = a /\ Len(p) = 1
      BY <2>2, Zenon
    <3>2. p \in Texts
      BY <3>1 DEF Texts
    <3>3. QED
      BY <3>1, <3>2, Zenon
  <2> HIDE DEF a
  <2>4. QED
    BY <2>3
<1>2. F \in [(1 .. N) \X Texts -> Texts]
  <2>1. ASSUME NEW x \in (1 .. N) \X Texts PROVE AddToken(x[2], s[x[1]], sep) \in Texts
    <3>1. x[1] \in 1 .. N /\ x[2] \in Texts
      OBVIOUS
    <3>2. QED
      BY <1>1, <3>1, AddTokenIs
  <2>2. QED
    BY <2>1
<1>3. ASSUME NEW n \in 1 .. N, NEW w \in Texts PROVE F[<<n, w>>] = AddToken(w, s[n], sep)
  BY Zenon
<1>4. Parts(s, sep) = Y[N]
  BY Zenon DEF Parts
<1> HIDE DEF N, F, a
<1>5. PICK f \in [0 .. N -> Texts] : IsMade(f, a, F, N)
  BY <1>1, <1>2, MadeExists, Zenon
<1>6. f[0] = a /\ \A n \in 1 .. N : f[n] = AddToken(f[n - 1], s[n], sep)
  <2>1. ASSUME NEW n \in 1 .. N PROVE n - 1 \in 0 .. N
    BY <1>1
  <2>2. QED
    BY <1>3, <1>5, <2>1 DEF IsMade
<1>7. f = Step(f)
  <2>1. ASSUME NEW n \in 0 .. N PROVE f[n] = Step(f)[n]
    BY <1>1, <1>6
  <2>2. QED
    BY <2>1
<1>8. Y = Step(Y)
  BY <1>7, Zenon
<1> HIDE DEF Y
<1>9. Y[0] = a /\ \A n \in 1 .. N : Y[n] = AddToken(Y[n - 1], s[n], sep)
  BY <1>1, <1>8
<1>10. \A n \in 0 .. N : Y[n] = f[n]
  <2>1. Y[0] = f[0] /\ \A n \in 1 .. N : Y[n - 1] = f[n - 1] => Y[n] = f[n]
    BY <1>6, <1>9, Zenon
  <2>2. QED
    BY <1>1, <2>1, SameValues, Zenon
<1>11. Y[N] \in Texts
  <2>1. N \in 0 .. N
    BY <1>1
  <2>2. QED
    BY <1>10, <2>1
<1>12. QED
  BY <1>4, <1>11 DEF Texts

-----------------------------------------------------------------------------
(* The specification asks each question about sequences of its tokens.     *)

Asked == input \in Seq(Alphabet[what])

LEMMA AskedHolds == Spec => []Asked
<1>1. Init => Asked
  BY DEF Init, Asked
<1>2. Asked /\ [Extend]_vars => Asked'
  <2>1. ASSUME Asked, Extend PROVE Asked'
    <3>1. PICK t \in Alphabet[what] : input' = Append(input, t)
      BY <2>1 DEF Extend
    <3>2. what' = what
      BY <2>1 DEF Extend
    <3>3. Append(input, t) \in Seq(Alphabet[what])
      BY <2>1, AppendProperties DEF Asked
    <3>4. QED
      BY <3>1, <3>2, <3>3 DEF Asked
  <2>2. ASSUME Asked, UNCHANGED vars PROVE Asked'
    BY <2>2 DEF Asked, vars
  <2>3. QED
    BY <2>1, <2>2
<1>3. QED
  BY <1>1, <1>2, PTL DEF Spec

LEMMA AskedInDomain == Spec => [](what \in DOMAIN Alphabet)
<1>1. Init => what \in DOMAIN Alphabet
  BY DEF Init
<1>2. what \in DOMAIN Alphabet /\ [Extend]_vars => (what \in DOMAIN Alphabet)'
  BY DEF Extend, vars
<1>3. QED
  BY <1>1, <1>2, PTL DEF Spec

\* simulator.cc: PathOrganize leaves what LookPath finds with the cleaned entries, and with
\* those that are anchored, for search paths and lists of extensions of any length.
THEOREM OrganizeAlwaysKeeps == Spec => []OrganizeKeepsAnswer
<1>1. Asked /\ what \in DOMAIN Alphabet => OrganizeKeepsAnswer
  <2>1. SUFFICES ASSUME Asked, what \in DOMAIN Alphabet, what = "SearchPath", NEW Files \in Placements
                 PROVE  KeepsAnswer(input, Exts, Files)
    BY DEF OrganizeKeepsAnswer
  <2>2. Alphabet["SearchPath"] \subseteq Entries
    BY <2>1, TokensAssumption
  <2>3. input \in Seq(Entries)
    <3>1. input \in Seq(Alphabet["SearchPath"])
      BY <2>1 DEF Asked
    <3>2. QED
      BY <2>2, <3>1, SeqMonotonic
  <2>4. QED
    BY <2>3, OrganizeFindsTheSame
<1>2. QED
  BY <1>1, AskedHolds, AskedInDomain, PTL

\* datetime.cc, dos.cc: the dates of any days follow each other as in the calendar and
\* give back the time they are of.
THEOREM DatesAlwaysFollow == Spec => []DatesFollowTheCalendar
<1>1. Asked /\ what \in DOMAIN Alphabet => DatesFollowTheCalendar
  <2>1. SUFFICES ASSUME Asked, what \in DOMAIN Alphabet, what = "DateTime", Len(input) = 2
                 PROVE  LET first == -76701 + 366 * (20 * input[1] + input[2]) IN FollowsTheCalendar(first .. first + 365)
    BY SMT DEF DatesFollowTheCalendar
  <2> DEFINE first == -76701 + 366 * (20 * input[1] + input[2])
  <2>2. first .. first + 365 \subseteq Int
    OBVIOUS
  <2> HIDE DEF first
  <2>3. FollowsTheCalendar(first .. first + 365)
    BY <2>2, DatesFollow, Zenon
  <2>4. QED
    BY <2>3, SMT DEF first
<1>2. QED
  BY <1>1, AskedHolds, AskedInDomain, PTL

\* int128.hpp, int128.cc: whatever the width of a word, no pair of numbers is computed
\* with wrongly and no number is wrongly shifted.
THEOREM WideNumbersStayExact == Spec => []WideNumbersExact
<1>1. Asked /\ what \in DOMAIN Alphabet => WideNumbersExact
  <2>1. SUFFICES ASSUME Asked, what \in DOMAIN Alphabet, what \in {"Wide numbers", "Wide shifts"} PROVE WideNumbersExact
    BY DEF WideNumbersExact
  <2>2. Alphabet[what] \subseteq Int
    BY <2>1, TokensAssumption
  <2>3. input \in Seq(Int)
    BY <2>1, <2>2, SeqMonotonic DEF Asked
  <2>4. \A i \in 1 .. Len(input) : input[i] \in Int
    BY <2>3, ElementOfSeq
  <2>5. Len(input) = 2 => WI!Exact(input[1], input[2])
    <3>1. SUFFICES ASSUME Len(input) = 2 PROVE WI!Exact(input[1], input[2])
      OBVIOUS
    <3>2. input[1] \in Int /\ input[2] \in Int
      BY <2>4, <3>1
    <3>3. QED
      BY <3>2, WideNumbersAreExact, Zenon
  <2>6. \A i \in DOMAIN input : WI!ShiftsExact(input[i])
    <3>1. DOMAIN input = 1 .. Len(input)
      BY <2>3
    <3>2. QED
      BY <2>4, <3>1, WideShiftsAreExact, Zenon
  <2>7. QED
    BY <2>5, <2>6 DEF WideNumbersExact
<1>2. QED
  BY <1>1, AskedHolds, AskedInDomain, PTL

\* duration.cc, time.cc: whatever the widths of the words and the lengths of the units,
\* durations are added, scaled, divided and converted as the integers are, or infinite.
THEOREM DurationsStayExact == Spec => []DurationsExactOrInfinite
<1>1. Asked /\ what \in DOMAIN Alphabet => DurationsExactOrInfinite
  <2>1. SUFFICES ASSUME Asked, what \in DOMAIN Alphabet, what = "Durations", Len(input) = 2
                 PROVE  DU!ExactOrInfinite(input[1], input[2])
    BY DEF DurationsExactOrInfinite
  <2>2. Alphabet[what] \subseteq DU!Durations
    BY <2>1, TokensAreDurations
  <2>3. input \in Seq(DU!Durations)
    BY <2>1, <2>2, SeqMonotonic DEF Asked
  <2>4. input[1] \in DU!Durations /\ input[2] \in DU!Durations
    BY <2>1, <2>3, ElementOfSeq
  <2>5. QED
    BY <2>4, DurationsAreExact, Zenon
<1>2. QED
  BY <1>1, AskedHolds, AskedInDomain, PTL

\* escapeargv.hpp, tokenizecmdline.hpp: the arguments of any length and number that an
\* input asks about are read back, and read behind others.
THEOREM CommandLinesAlwaysRoundTrip == Spec => []CommandLineRoundTrips
<1>1. Asked /\ what \in DOMAIN Alphabet => CommandLineRoundTrips
  <2>1. SUFFICES ASSUME Asked, what \in DOMAIN Alphabet, what = "CommandLine"
                 PROVE  CL!RoundTrips(Parts(input, ","))
    BY DEF CommandLineRoundTrips
  <2>2. Alphabet[what] \subseteq Chars
    BY <2>1, CharactersAreTexts DEF Chars
  <2>3. input \in Seq(Chars)
    BY <2>1, <2>2, SeqMonotonic DEF Asked
  <2>4. Parts(input, ",") \in Seq(Seq(Chars))
    BY <2>3, PartsAre
  <2>5. QED
    BY <2>4, CommandLinesRoundTrip
<1>2. QED
  BY <1>1, AskedHolds, AskedInDomain, PTL
=============================================================================
