----------------------- MODULE SequenceSelection_proofs -----------------------
(***************************************************************************)
(* Induction and recursion over the positions of a sequence, for sets and  *)
(* functions (the library states them for operators), division, and what   *)
(* Select returns.                                                         *)
(***************************************************************************)
EXTENDS SequenceSelection, SequenceTheorems, WellFoundedInduction, TLAPS

(* A set of natural numbers that is not empty has a least element. *)
LEMMA LeastNumber ==
  ASSUME NEW T \in SUBSET Nat, T # {}
  PROVE  \E n \in T : \A m \in T : n <= m
<1>1. IsWellFoundedOn(OpToRel(<, Nat), Nat)  BY NatLessThanWellFounded
<1>2. PICK x \in T : \A y \in T : ~(<<y, x>> \in OpToRel(<, Nat))  BY <1>1, WFMin
<1>3. ASSUME NEW y \in T  PROVE x <= y
  <2>1. x \in Nat /\ y \in Nat  OBVIOUS
  <2>2. ~(y < x)  BY <1>2, <2>1 DEF OpToRel
  <2>3. QED  BY <2>1, <2>2
<1>4. QED  BY <1>3

(* A set that has 0 and with each number the next one has them all. *)
LEMMA Induction ==
  ASSUME NEW N \in Nat, NEW T, 0 \in T,
         \A n \in 1 .. N : n - 1 \in T => n \in T
  PROVE  \A n \in 0 .. N : n \in T
<1> DEFINE Bad == {n \in 0 .. N : n \notin T}
<1> SUFFICES ASSUME Bad # {}  PROVE FALSE  OBVIOUS
<1>1. Bad \in SUBSET Nat  OBVIOUS
<1>2. \A n \in Bad : n \in 0 .. N /\ n \notin T  OBVIOUS
<1>3. \A n \in 0 .. N : n \notin Bad => n \in T  OBVIOUS
<1> HIDE DEF Bad
<1>4. PICK n \in Bad : \A m \in Bad : n <= m  BY <1>1, LeastNumber
<1>5. n \in 1 .. N /\ n - 1 \in 0 .. N  BY <1>2, <1>4
<1>6. n - 1 \notin Bad  BY <1>4, <1>5
<1>7. QED  BY <1>2, <1>3, <1>4, <1>5, <1>6

(* A natural number is a multiple of another and a rest. *)
LEMMA Division ==
  ASSUME NEW k \in Nat, NEW d \in Nat \ {0}
  PROVE  \E q \in Nat, r \in 0 .. d - 1 : k = d * q + r /\ q = k \div d /\ r = k % d
<1> DEFINE q == k \div d
           r == k % d
<1>1. q \in Int /\ r \in 0 .. d - 1  OBVIOUS
<1>2. k = d * q + r
  <2>1. ASSUME NEW a \in Int, NEW b \in Int, a = k \div d, b = k % d
        PROVE  k = d * a + b
    BY <2>1
  <2>2. QED  BY <1>1, <2>1
<1>3. q = k \div d /\ r = k % d  OBVIOUS
<1> HIDE DEF q, r
<1>4. q \in Nat
  <2>1. q < 0 => q <= -1  BY <1>1
  <2>2. q <= -1 => d * q <= d * (-1)  BY <1>1
  <2>3. d * (-1) = -d  OBVIOUS
  <2>4. QED  BY <1>1, <1>2, <2>1, <2>2, <2>3
<1>5. QED  BY <1>1, <1>2, <1>3, <1>4

(* A function on 0 .. N can be defined from its value at 0 and a step. *)
Recurs(f, N, first, Step) ==
  f[0] = first /\ \A n \in 1 .. N : f[n] = Step[n][f[n - 1]]

(* Such a function exists, whatever the step.                               *)
LEMMA Recursion ==
  ASSUME NEW N \in Nat, NEW S, NEW first \in S, NEW Step \in [1 .. N -> [S -> S]]
  PROVE  \E f \in [0 .. N -> S] : Recurs(f, N, first, Step)
<1> DEFINE Solves(f, n) ==
             /\ f[0] = first
             /\ \A k \in 1 .. n : f[k] = Step[k][f[k - 1]]
           T == {n \in 0 .. N : \E f \in [0 .. n -> S] : Solves(f, n)}
<1>1. 0 \in T
  <2> DEFINE f == [k \in 0 .. 0 |-> first]
  <2>1. f \in [0 .. 0 -> S] /\ Solves(f, 0) /\ 0 \in 0 .. N  OBVIOUS
  <2> HIDE DEF f, Solves
  <2>2. QED  BY <2>1
<1>2. ASSUME NEW n \in 1 .. N, n - 1 \in T  PROVE n \in T
  <2>1. PICK f \in [0 .. n - 1 -> S] : Solves(f, n - 1)  BY <1>2
  <2> DEFINE g == [k \in 0 .. n |-> IF k = n THEN Step[n][f[n - 1]] ELSE f[k]]
  <2>2. f[n - 1] \in S  BY <2>1
  <2>3. Step[n][f[n - 1]] \in S  BY <2>2
  <2>4. g \in [0 .. n -> S]
    <3>1. ASSUME NEW k \in 0 .. n, k # n  PROVE f[k] \in S  BY <2>1, <3>1
    <3>2. QED  BY <2>3, <3>1
  <2>5. g[0] = first  BY <2>1
  <2>6. \A k \in 1 .. n : g[k] = Step[k][g[k - 1]]
    <3>1. ASSUME NEW k \in 1 .. n  PROVE g[k] = Step[k][g[k - 1]]
      <4>1. g[k - 1] = f[k - 1]
        <5>1. \A j \in 0 .. n : j # n => g[j] = f[j]  OBVIOUS
        <5> HIDE DEF g
        <5>2. k - 1 \in 0 .. n /\ k - 1 # n  OBVIOUS
        <5>3. QED  BY <5>1, <5>2
      <4>2. CASE k = n
        <5>1. g[k] = Step[n][f[n - 1]]  BY <4>2
        <5> HIDE DEF g
        <5>2. QED  BY <4>1, <4>2, <5>1
      <4>3. CASE k # n
        <5>1. k \in 1 .. n - 1 /\ g[k] = f[k]  BY <4>3
        <5>2. QED  BY <2>1, <4>1, <5>1
      <4>4. QED  BY <4>2, <4>3
    <3>2. QED  BY <3>1
  <2>7. Solves(g, n)  BY <2>5, <2>6
  <2> HIDE DEF g, Solves
  <2>8. QED  BY <2>4, <2>7
<1>3. N \in T
  <2> HIDE DEF T
  <2>1. \A n \in 0 .. N : n \in T  BY <1>1, <1>2, Induction
  <2>2. QED  BY <2>1
<1>4. QED  BY <1>3 DEF Recurs

(* The recursive function of Select is one. *)
Selecting(k, s, S) ==
  /\ k[0] = << >>
  /\ \A n \in 1 .. Len(s) : k[n] = IF s[n] \in S THEN Append(k[n - 1], s[n]) ELSE k[n - 1]

(* Kept follows its recursion, and what it keeps is of both sets.           *)
LEMMA KeptValues ==
  ASSUME NEW E, NEW s \in Seq(E), NEW S
  PROVE  /\ Selecting(Kept(s, S), s, S)
         /\ \A n \in 0 .. Len(s) : Kept(s, S)[n] \in Seq(E \cap S)
<1> DEFINE N == Len(s)
           Q == Seq(E \cap S)
           nil == << >>
           More(n, q) == IF s[n] \in S THEN Append(q, s[n]) ELSE q
           Step == [n \in 1 .. N |-> [q \in Q |-> More(n, q)]]
           Solves(f) == f = [n \in 0 .. N |-> IF n = 0 THEN nil ELSE More(n, f[n - 1])]
<1>1. N \in Nat /\ nil \in Q  OBVIOUS
<1>2. ASSUME NEW n \in 1 .. N, NEW q \in Q  PROVE More(n, q) \in Q
  <2>1. CASE s[n] \in S
    <3>1. s[n] \in E \cap S  BY <2>1
    <3>2. Append(q, s[n]) \in Q  BY <3>1
    <3>3. QED  BY <2>1, <3>2
  <2>2. CASE s[n] \notin S  BY <2>2
  <2>3. QED  BY <2>1, <2>2
<1>3. \E f : Solves(f)
  <2> HIDE DEF N, Q, nil, More
  <2>1. Step \in [1 .. N -> [Q -> Q]]  BY <1>2
  <2>2. \A n \in 1 .. N, q \in Q : Step[n][q] = More(n, q)  OBVIOUS
  <2> HIDE DEF Step
  <2>3. PICK f \in [0 .. N -> Q] : Recurs(f, N, nil, Step)  BY <1>1, <2>1, Recursion
  <2>5. ASSUME NEW n \in 1 .. N  PROVE Step[n][f[n - 1]] = More(n, f[n - 1])
    <3>1. f[n - 1] \in Q  BY <1>1
    <3>2. QED  BY <2>2, <3>1
  <2>6. \A n \in 0 .. N : n # 0 => n \in 1 .. N  BY <1>1
  <2>7. \A n \in 0 .. N : f[n] = IF n = 0 THEN nil ELSE More(n, f[n - 1])
    BY <2>3, <2>5, <2>6 DEF Recurs
  <2>8. f = [n \in 0 .. N |-> f[n]]  OBVIOUS
  <2>9. QED  BY <2>7, <2>8
<1> DEFINE K == Kept(s, S)
<1>4. Solves(K)
  <2>1. K = CHOOSE g : Solves(g)  BY DEF Kept
  <2> HIDE DEF Solves, K
  <2>2. QED  BY <1>3, <2>1
<1>5. \A n \in 0 .. N : K[n] = IF n = 0 THEN nil ELSE More(n, K[n - 1])
  <2> HIDE DEF K, More, nil, N
  <2>1. QED  BY <1>4
<1> HIDE DEF K
<1>6. K[0] = nil  BY <1>1, <1>5
<1>7. \A n \in 1 .. N : K[n] = More(n, K[n - 1])
  <2> HIDE DEF More, nil, N
  <2>1. QED  BY <1>1, <1>5
<1>8. \A n \in 0 .. N : K[n] \in Q
  <2> HIDE DEF More, nil, N, Q
  <2> DEFINE T == {n \in 0 .. N : K[n] \in Q}
  <2>1. 0 \in T  BY <1>1, <1>6
  <2>2. ASSUME NEW n \in 1 .. N, n - 1 \in T  PROVE n \in T
    BY <1>2, <1>7, <2>2
  <2> HIDE DEF T
  <2>3. \A n \in 0 .. N : n \in T  BY <1>1, <2>1, <2>2, Induction
  <2>4. QED  BY <2>3 DEF T
<1>9. Selecting(K, s, S)  BY <1>6, <1>7 DEF Selecting
<1>10. QED  BY <1>8, <1>9 DEF K

(* What is selected is of the sequence and of the set. *)
LEMMA SelectType ==
  ASSUME NEW E, NEW s \in Seq(E), NEW S
  PROVE  Select(s, S) \in Seq(E \cap S)
<1>1. Len(s) \in 0 .. Len(s)  OBVIOUS
<1>2. QED  BY <1>1, KeptValues DEF Select

(* Nothing is selected of nothing. *)
LEMMA SelectEmpty ==
  ASSUME NEW S  PROVE Select(<< >>, S) = << >>
<1>1. << >> \in Seq({})  OBVIOUS
<1>2. Selecting(Kept(<< >>, S), << >>, S)  BY <1>1, KeptValues
<1>3. Kept(<< >>, S)[0] = << >>  BY <1>2 DEF Selecting
<1>4. Len(<< >>) = 0  OBVIOUS
<1>5. QED  BY <1>3, <1>4 DEF Select

(* Of a longer sequence the new element is selected last. *)
LEMMA SelectAppend ==
  ASSUME NEW E, NEW s \in Seq(E), NEW x \in E, NEW S
  PROVE  Select(Append(s, x), S) =
           IF x \in S THEN Append(Select(s, S), x) ELSE Select(s, S)
<1> DEFINE N == Len(s)
           a == Append(s, x)
           T == {n \in 0 .. N : Kept(a, S)[n] = Kept(s, S)[n]}
<1>1. /\ N \in Nat /\ a \in Seq(E) /\ Len(a) = N + 1 /\ a[N + 1] = x
      /\ \A n \in 1 .. N : a[n] = s[n]
  OBVIOUS
<1> HIDE DEF a, N
<1>2. /\ Kept(a, S)[0] = << >>
      /\ \A n \in 1 .. N + 1 :
           Kept(a, S)[n] = IF a[n] \in S THEN Append(Kept(a, S)[n - 1], a[n]) ELSE Kept(a, S)[n - 1]
  <2>1. Selecting(Kept(a, S), a, S)  BY <1>1, KeptValues
  <2>2. QED  BY <1>1, <2>1 DEF Selecting
<1>3. /\ Kept(s, S)[0] = << >>
      /\ \A n \in 1 .. N :
           Kept(s, S)[n] = IF s[n] \in S THEN Append(Kept(s, S)[n - 1], s[n]) ELSE Kept(s, S)[n - 1]
  <2>1. Selecting(Kept(s, S), s, S)  BY KeptValues
  <2>2. QED  BY <2>1 DEF Selecting, N
<1>4. 0 \in T  BY <1>1, <1>2, <1>3
<1>5. ASSUME NEW n \in 1 .. N, n - 1 \in T  PROVE n \in T
  <2>1. n \in 1 .. N + 1 /\ a[n] = s[n] /\ Kept(a, S)[n - 1] = Kept(s, S)[n - 1]  BY <1>1, <1>5
  <2>2. Kept(a, S)[n] = Kept(s, S)[n]  BY <1>2, <1>3, <2>1
  <2>3. QED  BY <2>2
<1>6. Kept(a, S)[N] = Kept(s, S)[N]
  <2> HIDE DEF T
  <2>1. \A n \in 0 .. N : n \in T  BY <1>1, <1>4, <1>5, Induction
  <2>2. N \in T  BY <1>1, <2>1
  <2>3. QED  BY <2>2 DEF T
<1>7. N + 1 \in 1 .. N + 1 /\ (N + 1) - 1 = N  BY <1>1
<1>8. Kept(a, S)[N + 1] = IF x \in S THEN Append(Kept(s, S)[N], x) ELSE Kept(s, S)[N]
  BY <1>1, <1>2, <1>6, <1>7
<1>9. QED  BY <1>1, <1>8 DEF Select, a, N

(* The first element is selected first. *)
LEMMA SelectTail ==
  ASSUME NEW E, NEW s \in Seq(E), s # << >>, NEW S
  PROVE  Select(s, S) =
           IF Head(s) \in S THEN <<Head(s)>> \o Select(Tail(s), S) ELSE Select(Tail(s), S)
<1> DEFINE N == Len(Tail(s))
           t == Tail(s)
           pre == IF Head(s) \in S THEN <<Head(s)>> ELSE << >>
           T == {n \in 0 .. N : Kept(s, S)[n + 1] = pre \o Kept(t, S)[n]}
<1>1. /\ N \in Nat /\ t \in Seq(E) /\ Len(t) = N /\ Len(s) = N + 1 /\ s[1] = Head(s)
      /\ \A n \in 1 .. N : t[n] = s[n + 1] /\ t[n] \in E
      /\ pre \in Seq(E)
  OBVIOUS
<1> HIDE DEF t, N
<1>2. /\ Kept(s, S)[0] = << >>
      /\ \A n \in 1 .. N + 1 :
           Kept(s, S)[n] = IF s[n] \in S THEN Append(Kept(s, S)[n - 1], s[n]) ELSE Kept(s, S)[n - 1]
  <2>1. Selecting(Kept(s, S), s, S)  BY KeptValues
  <2>2. QED  BY <1>1, <2>1 DEF Selecting
<1>3. /\ Kept(t, S)[0] = << >>
      /\ \A n \in 1 .. N :
           Kept(t, S)[n] = IF t[n] \in S THEN Append(Kept(t, S)[n - 1], t[n]) ELSE Kept(t, S)[n - 1]
      /\ \A n \in 0 .. N : Kept(t, S)[n] \in Seq(E \cap S)
  <2>1. /\ Selecting(Kept(t, S), t, S)
        /\ \A n \in 0 .. Len(t) : Kept(t, S)[n] \in Seq(E \cap S)
    BY <1>1, KeptValues
  <2>2. QED  BY <1>1, <2>1 DEF Selecting
<1>4. 0 \in T
  <2>1. 1 \in 1 .. N + 1 /\ 1 - 1 = 0  BY <1>1
  <2>2. Kept(s, S)[1] = IF s[1] \in S THEN Append(<< >>, s[1]) ELSE << >>  BY <1>2, <2>1
  <2>3. Append(<< >>, Head(s)) = <<Head(s)>>  OBVIOUS
  <2>4. Kept(s, S)[1] = pre  BY <1>1, <2>2, <2>3
  <2>5. pre \o << >> = pre  BY <1>1, ConcatEmptySeq
  <2> HIDE DEF pre
  <2>6. QED  BY <1>1, <1>3, <2>4, <2>5
<1> HIDE DEF pre
<1>5. ASSUME NEW n \in 1 .. N, n - 1 \in T  PROVE n \in T
  <2>1. n + 1 \in 1 .. N + 1 /\ (n + 1) - 1 = n /\ (n - 1) + 1 = n /\ n - 1 \in 0 .. N  BY <1>1
  <2>2. Kept(s, S)[n] = pre \o Kept(t, S)[n - 1]  BY <1>5, <2>1
  <2>3. t[n] = s[n + 1] /\ t[n] \in E  BY <1>1
  <2>4. Kept(s, S)[n + 1] = IF t[n] \in S THEN Append(Kept(s, S)[n], t[n]) ELSE Kept(s, S)[n]
    BY <1>2, <2>1, <2>3
  <2> DEFINE q == Kept(t, S)[n - 1]
  <2>5. q \in Seq(E)
    <3>1. q \in Seq(E \cap S)  BY <1>3, <2>1
    <3> HIDE DEF q
    <3>2. QED  BY <3>1
  <2>6. Append(pre \o q, t[n]) = pre \o Append(q, t[n])
    <3> HIDE DEF q
    <3> DEFINE x == t[n]
    <3>1. x \in E /\ pre \in Seq(E) /\ q \in Seq(E)  BY <1>1, <2>3, <2>5
    <3> HIDE DEF x
    <3>2. pre \o q \in Seq(E) /\ <<x>> \in Seq(E)  BY <3>1, ConcatProperties
    <3>3. Append(pre \o q, x) = (pre \o q) \o <<x>>  BY <3>1, <3>2, AppendIsConcat
    <3>4. Append(q, x) = q \o <<x>>  BY <3>1, AppendIsConcat
    <3>5. (pre \o q) \o <<x>> = pre \o (q \o <<x>>)  BY <3>1, <3>2, ConcatAssociative
    <3>6. QED  BY <3>3, <3>4, <3>5 DEF x
  <2>7. Kept(s, S)[n + 1] = pre \o Kept(t, S)[n]  BY <1>3, <2>2, <2>4, <2>6
  <2>8. QED  BY <2>7
<1>6. Kept(s, S)[N + 1] = pre \o Kept(t, S)[N]
  <2> HIDE DEF T
  <2>1. \A n \in 0 .. N : n \in T  BY <1>1, <1>4, <1>5, Induction
  <2>2. N \in T  BY <1>1, <2>1
  <2>3. QED  BY <2>2 DEF T
<1>7. Select(s, S) = pre \o Select(t, S)  BY <1>1, <1>6 DEF Select
<1>8. Select(t, S) \in Seq(E \cap S)  BY <1>1, SelectType
<1>9. << >> \o Select(t, S) = Select(t, S)
  <2> DEFINE q == Select(t, S)
  <2>1. q \in Seq(E \cap S)  BY <1>8
  <2> HIDE DEF q
  <2>2. << >> \o q = q  BY <2>1
  <2>3. QED  BY <2>2 DEF q
<1>10. QED  BY <1>7, <1>9 DEF pre, t
===============================================================================
