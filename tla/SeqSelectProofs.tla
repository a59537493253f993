-------------------------- MODULE SeqSelectProofs --------------------------
(***************************************************************************)
(* What Select returns, for every sequence and every set.                   *)
(***************************************************************************)
EXTENDS SeqSelect, WellFoundedInduction, TLAPS

(***************************************************************************)
(* A set of naturals that is not empty has a least element.                 *)
(***************************************************************************)
LEMMA LeastNatural ==
    ASSUME NEW T, T \subseteq Nat, T # {}
    PROVE  \E x \in T : \A y \in T : x <= y
<1>1. \E x \in T : \A y \in T : ~ (<<y, x>> \in OpToRel(<, Nat))
  BY WFMin, NatLessThanWellFounded, Zenon
<1>2. PICK x \in T : \A y \in T : ~ (<<y, x>> \in OpToRel(<, Nat))
  BY <1>1
<1>3. \A y \in T : ~ (y < x)
  BY <1>2 DEF OpToRel
<1>4. QED
  BY <1>3

(***************************************************************************)
(* The recursive function of Select is defined on every prefix.             *)
(***************************************************************************)
Picks(s, S, n, f) ==
    f = [i \in 0 .. n |->
           IF i = 0 THEN <<>>
           ELSE IF s[i] \in S THEN Append(f[i - 1], s[i])
                ELSE f[i - 1]]

LEMMA PicksExists ==
    ASSUME NEW X, NEW s \in Seq(X), NEW S
    PROVE  \E f : Picks(s, S, Len(s), f)
<1> DEFINE Bad == {n \in Nat : ~ \E f : Picks(s, S, n, f)}
<1>1. Len(s) \in Nat
  OBVIOUS
<1>2. SUFFICES ASSUME Bad # {} PROVE FALSE
  <2>1. Len(s) \notin Bad
    OBVIOUS
  <2>2. QED
    BY <1>1, <2>1
<1>3. PICK m \in Bad : \A y \in Bad : m <= y
  <2> HIDE DEF Bad
  <2>1. Bad \subseteq Nat
    BY DEF Bad
  <2>2. QED
    BY <1>2, <2>1, LeastNatural
<1>4. CASE m = 0
  <2> DEFINE g == [i \in 0 .. 0 |-> <<>>]
  <2>1. Picks(s, S, 0, g)
    BY DEF Picks
  <2>2. QED
    BY <2>1, <1>3, <1>4
<1>5. CASE m # 0
  <2>1. m \in Nat /\ m - 1 \in Nat /\ m - 1 \notin Bad
    BY <1>3, <1>5
  <2>2. PICK f : Picks(s, S, m - 1, f)
    BY <2>1
  <2> DEFINE g == [i \in 0 .. m |->
                     IF i < m THEN f[i]
                     ELSE IF s[i] \in S THEN Append(f[i - 1], s[i])
                          ELSE f[i - 1]]
             h == [i \in 0 .. m |->
                     IF i = 0 THEN <<>>
                     ELSE IF s[i] \in S THEN Append(g[i - 1], s[i])
                          ELSE g[i - 1]]
  <2>3. \A i \in 0 .. m : i # 0 => g[i - 1] = f[i - 1]
    BY <2>1
  <2>4. \A i \in 0 .. m - 1 : f[i] = IF i = 0 THEN <<>>
                                     ELSE IF s[i] \in S THEN Append(f[i - 1], s[i])
                                          ELSE f[i - 1]
    BY <2>1, <2>2 DEF Picks
  <2>5. \A i \in 0 .. m : g[i] = h[i]
    <3> TAKE i \in 0 .. m
    <3>1. CASE i = m
      BY <3>1, <2>1, <2>3, <1>5
    <3>2. CASE i # m
      <4>1. i \in 0 .. m - 1 /\ i < m
        BY <3>2, <2>1
      <4>2. g[i] = f[i]
        BY <4>1
      <4>3. QED
        BY <4>1, <4>2, <2>3, <2>4
    <3>3. QED
      BY <3>1, <3>2
  <2>6. g = h
    BY <2>5
  <2>7. Picks(s, S, m, g)
    BY <2>6 DEF Picks
  <2>8. QED
    BY <2>7, <1>3
<1>6. QED
  BY <1>4, <1>5

LEMMA SelectUnfolds ==
    ASSUME NEW X, NEW s \in Seq(X), NEW S
    PROVE  \E f : Picks(s, S, Len(s), f) /\ Select(s, S) = f[Len(s)]
<1> DEFINE F == CHOOSE f : Picks(s, S, Len(s), f)
<1>1. Picks(s, S, Len(s), F)
  BY PicksExists
<1>2. Select(s, S) = F[Len(s)]
  BY DEF Select, Picks
<1>3. QED
  BY <1>1, <1>2

(***************************************************************************)
(* Select returns elements of the sequence that belong to the set, all of   *)
(* them, and no more than there were.                                      *)
(***************************************************************************)
THEOREM SelectSpec ==
    ASSUME NEW X, NEW s \in Seq(X), NEW S
    PROVE  /\ Select(s, S) \in Seq(X)
           /\ Len(Select(s, S)) <= Len(s)
           /\ \A k \in 1 .. Len(Select(s, S)) :
                 \E j \in 1 .. Len(s) : Select(s, S)[k] = s[j] /\ s[j] \in S
           /\ \A j \in 1 .. Len(s) :
                 s[j] \in S => \E k \in 1 .. Len(Select(s, S)) : Select(s, S)[k] = s[j]
<1>1. PICK f : Picks(s, S, Len(s), f) /\ Select(s, S) = f[Len(s)]
  BY SelectUnfolds
<1> DEFINE Good(n) == /\ f[n] \in Seq(X)
                      /\ Len(f[n]) <= n
                      /\ \A k \in 1 .. Len(f[n]) :
                            \E j \in 1 .. n : f[n][k] = s[j] /\ s[j] \in S
                      /\ \A j \in 1 .. n :
                            s[j] \in S => \E k \in 1 .. Len(f[n]) : f[n][k] = s[j]
           Bad == {n \in 0 .. Len(s) : ~ Good(n)}
<1>2. Len(s) \in Nat
  OBVIOUS
<1>3. \A i \in 0 .. Len(s) : f[i] = IF i = 0 THEN <<>>
                                    ELSE IF s[i] \in S THEN Append(f[i - 1], s[i])
                                         ELSE f[i - 1]
  BY <1>1 DEF Picks
<1>4. Good(0)
  <2>1. f[0] = <<>>
    BY <1>2, <1>3
  <2>2. QED
    BY <2>1
<1>5. ASSUME NEW m \in 1 .. Len(s), Good(m - 1)
      PROVE  Good(m)
  <2>1. m - 1 \in Nat /\ m \in Nat /\ s[m] \in X
    BY <1>2
  <2>2. CASE s[m] \in S
    <3>1. f[m] = Append(f[m - 1], s[m])
      <4>1. m \in 0 .. Len(s) /\ m # 0
        BY <1>2
      <4>2. QED
        BY <4>1, <1>3, <2>2, Zenon
    <3> DEFINE p == f[m - 1]
    <3>2. p \in Seq(X) /\ Len(p) \in Nat /\ f[m] \in Seq(X) /\ Len(f[m]) = Len(p) + 1
      BY <3>1, <1>5, <2>1
    <3>3. \A k \in 1 .. Len(p) : f[m][k] = p[k]
      BY <3>1, <3>2
    <3>4. f[m][Len(f[m])] = s[m]
      BY <3>1, <3>2
    <3>5. \A k \in 1 .. Len(f[m]) : \E j \in 1 .. m : f[m][k] = s[j] /\ s[j] \in S
      <4> TAKE k \in 1 .. Len(f[m])
      <4>1. CASE k = Len(f[m])
        BY <4>1, <3>4, <2>1, <2>2
      <4>2. CASE k # Len(f[m])
        <5>1. k \in 1 .. Len(p)
          BY <4>2, <3>2
        <5>2. PICK j \in 1 .. m - 1 : p[k] = s[j] /\ s[j] \in S
          BY <5>1, <1>5
        <5>3. QED
          BY <5>1, <5>2, <3>3, <2>1
      <4>3. QED
        BY <4>1, <4>2
    <3>6. \A j \in 1 .. m : s[j] \in S => \E k \in 1 .. Len(f[m]) : f[m][k] = s[j]
      <4> SUFFICES ASSUME NEW j \in 1 .. m, s[j] \in S
                   PROVE  \E k \in 1 .. Len(f[m]) : f[m][k] = s[j]
        OBVIOUS
      <4>1. CASE j = m
        BY <4>1, <3>2, <3>4
      <4>2. CASE j # m
        <5>1. j \in 1 .. m - 1
          BY <4>2, <2>1
        <5>2. PICK k \in 1 .. Len(p) : p[k] = s[j]
          BY <5>1, <1>5
        <5>3. k \in 1 .. Len(f[m]) /\ f[m][k] = s[j]
          BY <5>2, <3>2, <3>3
        <5>4. QED
          BY <5>3
      <4>3. QED
        BY <4>1, <4>2
    <3>7. QED
      BY <3>2, <3>5, <3>6, <1>5, <2>1
  <2>3. CASE s[m] \notin S
    <3>1. f[m] = f[m - 1]
      BY <1>2, <1>3, <2>3
    <3>2. \A j \in 1 .. m : s[j] \in S => j \in 1 .. m - 1
      BY <2>1, <2>3
    <3>3. QED
      BY <3>1, <3>2, <1>5, <2>1
  <2>4. QED
    BY <2>2, <2>3
<1>6. Bad = {}
  <2> SUFFICES ASSUME Bad # {} PROVE FALSE
    OBVIOUS
  <2>1. Bad \subseteq Nat
    BY <1>2
  <2>2. PICK m \in Bad : \A y \in Bad : m <= y
    <3> HIDE DEF Bad
    <3>1. QED
      BY <2>1, LeastNatural
  <2>3. m # 0
    BY <1>4, <2>2
  <2>4. m \in 1 .. Len(s) /\ m - 1 \in 0 .. Len(s) /\ m - 1 \notin Bad
    BY <1>2, <2>2, <2>3
  <2>5. Good(m - 1)
    BY <2>4
  <2>6. QED
    BY <1>5, <2>2, <2>4, <2>5
<1>7. Good(Len(s))
  BY <1>2, <1>6
<1>8. QED
  <2> DEFINE r == Select(s, S)
             n == Len(s)
  <2>1. f[n] = r
    BY <1>1
  <2>2. Good(n)
    BY <1>7
  <2> HIDE DEF r
  <2>3. /\ r \in Seq(X) /\ Len(r) <= n
        /\ \A k \in 1 .. Len(r) : \E j \in 1 .. n : r[k] = s[j] /\ s[j] \in S
        /\ \A j \in 1 .. n : s[j] \in S => \E k \in 1 .. Len(r) : r[k] = s[j]
    BY <2>1, <2>2
  <2>4. QED
    BY <2>3 DEF r

(***************************************************************************)
(* Splitting a sequence between two disjoint sets makes nothing up.          *)
(***************************************************************************)
THEOREM SelectDisjoint ==
    ASSUME NEW X, NEW s \in Seq(X), NEW S, NEW T, S \cap T = {}
    PROVE  Len(Select(s, S)) + Len(Select(s, T)) <= Len(s)
<1>1. PICK f : Picks(s, S, Len(s), f) /\ Select(s, S) = f[Len(s)]
  BY SelectUnfolds
<1>2. PICK g : Picks(s, T, Len(s), g) /\ Select(s, T) = g[Len(s)]
  BY SelectUnfolds
<1> DEFINE Good(n) == /\ f[n] \in Seq(X) /\ g[n] \in Seq(X)
                      /\ Len(f[n]) + Len(g[n]) <= n
           Bad == {n \in 0 .. Len(s) : ~ Good(n)}
<1>3. Len(s) \in Nat
  OBVIOUS
<1>4. \A i \in 0 .. Len(s) : f[i] = IF i = 0 THEN <<>>
                                    ELSE IF s[i] \in S THEN Append(f[i - 1], s[i])
                                         ELSE f[i - 1]
  BY <1>1 DEF Picks
<1>5. \A i \in 0 .. Len(s) : g[i] = IF i = 0 THEN <<>>
                                    ELSE IF s[i] \in T THEN Append(g[i - 1], s[i])
                                         ELSE g[i - 1]
  BY <1>2 DEF Picks
<1>6. Good(0)
  <2>1. f[0] = <<>> /\ g[0] = <<>>
    BY <1>3, <1>4, <1>5
  <2>2. QED
    BY <2>1
<1>7. ASSUME NEW m \in 1 .. Len(s), Good(m - 1)
      PROVE  Good(m)
  <2>1. m \in 0 .. Len(s) /\ m # 0 /\ s[m] \in X
    BY <1>3
  <2> DEFINE p == f[m - 1]
             q == g[m - 1]
  <2>2. p \in Seq(X) /\ q \in Seq(X) /\ Len(p) + Len(q) <= m - 1
    BY <1>7
  <2>3. f[m] = IF s[m] \in S THEN Append(p, s[m]) ELSE p
    BY <1>4, <2>1, Zenon
  <2>4. g[m] = IF s[m] \in T THEN Append(q, s[m]) ELSE q
    BY <1>5, <2>1, Zenon
  <2>5. ~ (s[m] \in S /\ s[m] \in T)
    OBVIOUS
  <2>6. s[m] \in S => f[m] \in Seq(X) /\ Len(f[m]) = Len(p) + 1
    <3> HIDE DEF p
    <3>1. QED
      BY <2>1, <2>2, <2>3
  <2>7. s[m] \in T => g[m] \in Seq(X) /\ Len(g[m]) = Len(q) + 1
    <3> HIDE DEF q
    <3>1. QED
      BY <2>1, <2>2, <2>4
  <2>8. Len(p) \in Nat /\ Len(q) \in Nat /\ m \in Nat
    BY <2>1, <2>2
  <2>9. s[m] \notin S => f[m] = p
    BY <2>3
  <2>10. s[m] \notin T => g[m] = q
    BY <2>4
  <2> HIDE DEF p, q
  <2>11. CASE s[m] \in S
    <3>1. g[m] = q /\ g[m] \in Seq(X)
      BY <2>11, <2>2, <2>5, <2>10
    <3>2. f[m] \in Seq(X) /\ Len(f[m]) = Len(p) + 1
      BY <2>11, <2>6
    <3>3. (Len(p) + 1) + Len(q) <= m
      BY <2>2, <2>8
    <3>4. QED
      BY <3>1, <3>2, <3>3
  <2>12. CASE s[m] \notin S /\ s[m] \in T
    <3>1. f[m] = p /\ f[m] \in Seq(X)
      BY <2>12, <2>2, <2>9
    <3>2. g[m] \in Seq(X) /\ Len(g[m]) = Len(q) + 1
      BY <2>12, <2>7
    <3>3. Len(p) + (Len(q) + 1) <= m
      BY <2>2, <2>8
    <3>4. QED
      BY <3>1, <3>2, <3>3
  <2>13. CASE s[m] \notin S /\ s[m] \notin T
    <3>1. f[m] = p /\ g[m] = q
      BY <2>13, <2>9, <2>10
    <3>2. Len(p) + Len(q) <= m
      BY <2>2, <2>8
    <3>3. QED
      BY <3>1, <3>2, <2>2
  <2>14. QED
    BY <2>11, <2>12, <2>13
<1>8. Bad = {}
  <2> SUFFICES ASSUME Bad # {} PROVE FALSE
    OBVIOUS
  <2> HIDE DEF Good
  <2>1. Bad \subseteq Nat
    BY <1>3
  <2>2. PICK m \in Bad : \A y \in Bad : m <= y
    <3> HIDE DEF Bad
    <3>1. QED
      BY <2>1, LeastNatural
  <2>3. m # 0
    BY <1>6, <2>2
  <2>4. m \in 1 .. Len(s) /\ m - 1 \in 0 .. Len(s) /\ m - 1 \notin Bad
    BY <1>3, <2>2, <2>3
  <2>5. Good(m - 1)
    BY <2>4
  <2>6. QED
    BY <1>7, <2>2, <2>4, <2>5
<1>9. Good(Len(s))
  <2> HIDE DEF Good
  <2>1. QED
    BY <1>3, <1>8
<1>10. QED
  BY <1>1, <1>2, <1>9

(***************************************************************************)
(* e is s with some elements taken out: each of its elements is one of s, and *)
(* two of them stand in e as they stand in s.                                *)
(***************************************************************************)
Thins(e, s) ==
    /\ \A k \in 1 .. Len(e) : \E j \in 1 .. Len(s) : e[k] = s[j]
    /\ \A k, l \in 1 .. Len(e) :
          k < l => \E i, j \in 1 .. Len(s) : i < j /\ e[k] = s[i] /\ e[l] = s[j]

(***************************************************************************)
(* Select keeps the order of what it selects.                               *)
(***************************************************************************)
THEOREM SelectThins ==
    ASSUME NEW X, NEW s \in Seq(X), NEW S
    PROVE  Thins(Select(s, S), s)
<1>1. PICK f : Picks(s, S, Len(s), f) /\ Select(s, S) = f[Len(s)]
  BY SelectUnfolds
<1> DEFINE Good(n) == /\ f[n] \in Seq(X)
                      /\ \A k \in 1 .. Len(f[n]) : \E j \in 1 .. n : f[n][k] = s[j]
                      /\ \A k, l \in 1 .. Len(f[n]) :
                            k < l => \E i, j \in 1 .. n :
                                        i < j /\ f[n][k] = s[i] /\ f[n][l] = s[j]
           Bad == {n \in 0 .. Len(s) : ~ Good(n)}
<1>2. Len(s) \in Nat
  OBVIOUS
<1>3. \A i \in 0 .. Len(s) : f[i] = IF i = 0 THEN <<>>
                                    ELSE IF s[i] \in S THEN Append(f[i - 1], s[i])
                                         ELSE f[i - 1]
  BY <1>1 DEF Picks
<1>4. Good(0)
  <2>1. f[0] = <<>>
    BY <1>2, <1>3
  <2>2. QED
    BY <2>1
<1>5. ASSUME NEW m \in 1 .. Len(s), Good(m - 1)
      PROVE  Good(m)
  <2>1. m - 1 \in Nat /\ m \in Nat /\ s[m] \in X
    BY <1>2
  <2>2. CASE s[m] \in S
    <3>1. f[m] = Append(f[m - 1], s[m])
      <4>1. m \in 0 .. Len(s) /\ m # 0
        BY <1>2
      <4>2. QED
        BY <4>1, <1>3, <2>2, Zenon
    <3> DEFINE p == f[m - 1]
               q == f[m]
    <3>2. p \in Seq(X) /\ Len(p) \in Nat /\ q \in Seq(X) /\ Len(q) = Len(p) + 1
      BY <3>1, <1>5, <2>1
    <3>3. \A k \in 1 .. Len(p) : q[k] = p[k]
      BY <3>1, <3>2
    <3>4. q[Len(q)] = s[m]
      BY <3>1, <3>2
    <3>8. /\ \A k \in 1 .. Len(p) : \E j \in 1 .. m - 1 : p[k] = s[j]
          /\ \A k, l \in 1 .. Len(p) :
                k < l => \E i, j \in 1 .. m - 1 : i < j /\ p[k] = s[i] /\ p[l] = s[j]
      BY <1>5
    <3> HIDE DEF p, q
    <3>5. \A k \in 1 .. Len(q) : \E j \in 1 .. m : q[k] = s[j]
      <4> TAKE k \in 1 .. Len(q)
      <4>1. CASE k = Len(q)
        BY <4>1, <3>4, <2>1
      <4>2. CASE k # Len(q)
        <5>1. k \in 1 .. Len(p)
          BY <4>2, <3>2
        <5>2. PICK j \in 1 .. m - 1 : p[k] = s[j]
          BY <5>1, <3>8
        <5>3. QED
          BY <5>1, <5>2, <3>3, <2>1
      <4>3. QED
        BY <4>1, <4>2
    <3>6. ASSUME NEW k \in 1 .. Len(q), NEW l \in 1 .. Len(q), k < l
          PROVE  \E i, j \in 1 .. m : i < j /\ q[k] = s[i] /\ q[l] = s[j]
      <4>1. k \in 1 .. Len(p)
        BY <3>2, <3>6
      <4>2. CASE l = Len(q)
        <5>1. PICK i \in 1 .. m - 1 : p[k] = s[i]
          BY <4>1, <3>8
        <5>2. i \in 1 .. m /\ m \in 1 .. m /\ i < m /\ q[k] = s[i] /\ q[l] = s[m]
          BY <5>1, <4>1, <4>2, <3>3, <3>4, <2>1
        <5>3. QED
          BY <5>2
      <4>3. CASE l # Len(q)
        <5>1. l \in 1 .. Len(p)
          BY <3>2, <4>3
        <5>2. PICK i \in 1 .. m - 1, j \in 1 .. m - 1 : i < j /\ p[k] = s[i] /\ p[l] = s[j]
          BY <4>1, <5>1, <3>6, <3>8
        <5>3. i \in 1 .. m /\ j \in 1 .. m /\ q[k] = s[i] /\ q[l] = s[j]
          BY <5>1, <5>2, <4>1, <3>3, <2>1
        <5>4. QED
          BY <5>2, <5>3
      <4>4. QED
        BY <4>2, <4>3
    <3>7. QED
      BY <3>2, <3>5, <3>6 DEF q
  <2>3. CASE s[m] \notin S
    <3>1. f[m] = f[m - 1]
      BY <1>2, <1>3, <2>3
    <3>2. \A j \in 1 .. m - 1 : j \in 1 .. m
      BY <2>1
    <3>3. QED
      BY <3>1, <3>2, <1>5, <2>1
  <2>4. QED
    BY <2>2, <2>3
<1>6. Bad = {}
  <2> SUFFICES ASSUME Bad # {} PROVE FALSE
    OBVIOUS
  <2>1. Bad \subseteq Nat
    BY <1>2
  <2>2. PICK m \in Bad : \A y \in Bad : m <= y
    <3> HIDE DEF Bad
    <3>1. QED
      BY <2>1, LeastNatural
  <2>3. m # 0
    BY <1>4, <2>2
  <2>4. m \in 1 .. Len(s) /\ m - 1 \in 0 .. Len(s) /\ m - 1 \notin Bad
    BY <1>2, <2>2, <2>3
  <2>5. Good(m - 1)
    BY <2>4
  <2>6. QED
    BY <1>5, <2>2, <2>4, <2>5
<1>7. Good(Len(s))
  BY <1>2, <1>6
<1>8. Thins(f[Len(s)], s)
  BY <1>7 DEF Thins
<1>9. QED
  BY <1>1, <1>8
=============================================================================
