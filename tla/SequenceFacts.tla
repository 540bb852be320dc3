---------------------------- MODULE SequenceFacts ----------------------------
(***************************************************************************)
(* Facts about sequences and numbers that the proofs of the context window *)
(* and of the chunker rest on.  The community modules define FlattenSeq,   *)
(* Min and Max by CHOOSE, and their values follow here by induction.       *)
(* Induction is over a set: the least member of the numbers where a fact   *)
(* fails (WFMin) has none before it.  So nothing takes an operator as its  *)
(* parameter, which the provers could not instantiate.                     *)
(***************************************************************************)
EXTENDS Naturals, Sequences, TLAPS, WellFoundedInduction, SequenceTheorems, SequencesExt

\* A set of numbers has a least one.
LEMMA Least ==
  ASSUME NEW T, T \subseteq Nat, T # {}
  PROVE  \E x \in T : \A y \in T : x <= y
<1>1. IsWellFoundedOn(OpToRel(<, Nat), Nat)
  BY NatLessThanWellFounded, Zenon
<1>2. PICK x \in T : \A y \in T : <<y, x>> \notin OpToRel(<, Nat)
  BY <1>1, WFMin, Zenon
<1>3. \A y \in T : <<y, x>> \notin OpToRel(<, Nat) => x <= y
  BY DEF OpToRel
<1> QED BY <1>2, <1>3

\* Induction over the numbers up to n, for a set of numbers.
LEMMA UpTo ==
  ASSUME NEW n \in Nat, NEW T, 0 \in T, \A k \in 0 .. n - 1 : k \in T => k + 1 \in T
  PROVE  \A k \in 0..n : k \in T
<1> DEFINE missing == {k \in 0..n : k \notin T}
<1>1. SUFFICES ASSUME missing # {} PROVE FALSE  OBVIOUS
<1>a. missing \subseteq Nat  OBVIOUS
<1>2. PICK x \in missing : \A y \in missing : x <= y  BY <1>1, <1>a, Least, Zenon
<1>3. x - 1 \in 0 .. n - 1 /\ x - 1 \notin missing  BY <1>2
<1> QED BY <1>3

\* The values of a recursion over 0..N, one after the other.
Unfolds(S, N, base, step, g) ==
  g \in [0..N -> S] /\ g[0] = base /\ \A n \in 1..N : g[n] = step[<<n, g[n - 1]>>]

\* A recursion has values.
LEMMA Recursion ==
  ASSUME NEW S, NEW N \in Nat, NEW base \in S, NEW step \in [(1..N) \X S -> S]
  PROVE  \E g : Unfolds(S, N, base, step, g)
<1> DEFINE Rec(g, k) == g \in [0..k -> S] /\ g[0] = base /\ \A n \in 1..k : g[n] = step[<<n, g[n - 1]>>]
<1> DEFINE T == {k \in 0..N : \E g \in [0..k -> S] : Rec(g, k)}
<1>1. 0 \in T
  <2> DEFINE one == [k \in 0..0 |-> base]
  <2>1. one \in [0..0 -> S] /\ Rec(one, 0)  OBVIOUS
  <2> HIDE DEF one, Rec
  <2> QED BY <2>1
<1>2. ASSUME NEW k \in 0 .. N - 1, k \in T PROVE k + 1 \in T
  <2>1. PICK g \in [0..k -> S] : Rec(g, k)  BY <1>2
  <2> DEFINE h == [n \in 0 .. k + 1 |-> IF n = k + 1 THEN step[<<k + 1, g[k]>>] ELSE g[n]]
  <2>0. k + 1 \in 1..N /\ k \in 0..k /\ g[k] \in S  OBVIOUS
  <2>2. h \in [0 .. k + 1 -> S]  BY <2>0
  <2>3. h[0] = base  BY <2>1
  <2>4. ASSUME NEW n \in 1 .. k + 1 PROVE h[n] = step[<<n, h[n - 1]>>]
    <3>1. CASE n = k + 1
      <4>1. n \in 0 .. k + 1 /\ n - 1 = k /\ k \in 0 .. k + 1 /\ k # k + 1 BY <3>1
      <4>2. h[n] = step[<<k + 1, g[k]>>] /\ h[k] = g[k] BY <4>1, <3>1
      <4> QED BY <4>1, <4>2, <3>1
    <3>2. CASE n # k + 1  
      <4>1. n \in 1..k /\ n - 1 \in 0 .. k + 1 /\ n - 1 # k + 1 BY <3>2
      <4> QED BY <2>1, <4>1
    <3> QED BY <3>1, <3>2
  <2>5. Rec(h, k + 1)  BY <2>2, <2>3, <2>4
  <2> HIDE DEF h, Rec
  <2> QED BY <2>5, <2>2, <2>0
<1>3. N \in T  
  <2> HIDE DEF T
  <2>1. \A k \in 0..N : k \in T BY <1>1, <1>2, UpTo
  <2> QED BY <2>1
<1> QED BY <1>3 DEF Unfolds

\* Where each sequence starts when they are joined.
StartsAt(ss, at) ==
  /\ at \in [1 .. Len(ss) + 1 -> Nat] /\ at[1] = 0
  /\ \A i \in 1..Len(ss) : at[i + 1] = at[i] + Len(ss[i])
Joins(ss, at, t, n) ==
  /\ Len(t) = at[n + 1]
  /\ \A i \in 1..n : \A k \in 1..Len(ss[i]) : t[at[i] + k] = ss[i][k]

\* There are such places.
LEMMA StartsExist ==
  ASSUME NEW S, NEW ss \in Seq(Seq(S))
  PROVE  \E at : StartsAt(ss, at)
<1> DEFINE N == Len(ss)
           step == [p \in (1..N) \X Nat |-> p[2] + Len(ss[p[1]])]
<1>1. N \in Nat /\ Len(ss) = N /\ \A i \in 1..N : Len(ss[i]) \in Nat  OBVIOUS
<1> HIDE DEF N
<1>2. step \in [(1..N) \X Nat -> Nat]  BY <1>1
<1>3. \A n \in 1..N, x \in Nat : step[<<n, x>>] = x + Len(ss[n])  BY <1>1
<1> HIDE DEF step
<1>4. PICK g \in [0..N -> Nat] : g[0] = 0 /\ \A n \in 1..N : g[n] = step[<<n, g[n - 1]>>]
  <2>1. \E g : Unfolds(Nat, N, 0, step, g) BY <1>1, <1>2, Recursion
  <2> QED BY <2>1 DEF Unfolds
<1> DEFINE at == [i \in 1 .. N + 1 |-> g[i - 1]]
<1>5. \A n \in 1..N : g[n] = g[n - 1] + Len(ss[n])
  <2>1. \A n \in 1..N : n - 1 \in 0..N BY <1>1
  <2>2. \A n \in 1..N : g[n - 1] \in Nat BY <2>1
  <2> QED BY <1>3, <1>4, <2>2
<1>6. at \in [1 .. N + 1 -> Nat] /\ at[1] = 0
  <2>1. \A n \in 1 .. N + 1 : n - 1 \in 0..N BY <1>1
  <2> QED BY <1>1, <1>4, <2>1
<1>7. ASSUME NEW i \in 1..N PROVE at[i + 1] = at[i] + Len(ss[i])
  <2>1. at[i + 1] = g[i] /\ at[i] = g[i - 1]  BY <1>1
  <2> QED BY <2>1, <1>5
<1> HIDE DEF at
<1> QED BY <1>1, <1>6, <1>7 DEF StartsAt

\* They start in order.
LEMMA StartsRise ==
  ASSUME NEW S, NEW ss \in Seq(Seq(S)), NEW at, StartsAt(ss, at),
         NEW i \in 1 .. Len(ss) + 1, NEW j \in i .. Len(ss) + 1
  PROVE  at[i] <= at[j]
<1> DEFINE T == {k \in 0 .. j - i : at[i] <= at[i + k]}
<1>0. Len(ss) \in Nat /\ \A k \in 1..Len(ss) : Len(ss[k]) \in Nat OBVIOUS
<1>b. \A k \in 1 .. Len(ss) + 1 : at[k] \in Nat BY DEF StartsAt
<1>1. 0 \in T  BY <1>0, <1>b
<1>2. ASSUME NEW k \in 0 .. (j - i) - 1, k \in T PROVE k + 1 \in T
  <2>1. i + k \in 1..Len(ss) /\ i + k \in 1 .. Len(ss) + 1 /\ i + (k + 1) = (i + k) + 1 BY <1>0
  <2>2. at[i + (k + 1)] = at[i + k] + Len(ss[i + k]) BY <2>1 DEF StartsAt
  <2>3. at[i] \in Nat /\ at[i + k] \in Nat BY <2>1, <1>b
  <2> QED BY <2>1, <2>2, <2>3, <1>0, <1>2
<1>3. j - i \in T
  <2> HIDE DEF T
  <2>1. j - i \in Nat OBVIOUS
  <2>2. \A k \in 0 .. j - i : k \in T BY <1>1, <1>2, <2>1, UpTo
  <2> QED BY <2>1, <2>2
<1> QED BY <1>3

\* A place in the whole is a place in one of them.
Place(ss, at, n, p) == \E i \in 1..n : \E k \in 1..Len(ss[i]) : p = at[i] + k

LEMMA PlaceOf ==
  ASSUME NEW S, NEW ss \in Seq(Seq(S)), NEW at, StartsAt(ss, at),
         NEW n \in 0..Len(ss), NEW p \in 1..at[n + 1]
  PROVE  Place(ss, at, n, p)
<1> DEFINE T == {m \in 1 .. n + 1 : p <= at[m]}
<1>a. Len(ss) \in Nat /\ \A k \in 1..Len(ss) : Len(ss[k]) \in Nat OBVIOUS
<1>b. \A k \in 1 .. Len(ss) + 1 : at[k] \in Nat BY DEF StartsAt
<1>0. at[n + 1] \in Nat /\ at[1] = 0 BY <1>a, <1>b DEF StartsAt
<1>1. n + 1 \in T  BY <1>0
<1>2. T \subseteq Nat /\ T # {} BY <1>1
<1>3. PICK m \in T : \A y \in T : m <= y BY <1>2, Least, Zenon
<1>4. m # 1  BY <1>0
<1>5. m - 1 \in 1..n /\ m - 1 \notin T /\ m - 1 \in 1..Len(ss) /\ m - 1 \in 1 .. Len(ss) + 1 /\ (m - 1) + 1 = m BY <1>3, <1>4, <1>a
<1>6. at[m] = at[m - 1] + Len(ss[m - 1]) /\ at[m - 1] \in Nat
  <2>1. at[(m - 1) + 1] = at[m - 1] + Len(ss[m - 1]) BY <1>5 DEF StartsAt
  <2> QED BY <2>1, <1>5, <1>b
<1>7. Len(ss[m - 1]) \in Nat BY <1>5, <1>a
<1>8. at[m - 1] < p /\ p <= at[m]  BY <1>3, <1>5, <1>6
<1>9. p - at[m - 1] \in 1..Len(ss[m - 1]) BY <1>6, <1>7, <1>8, <1>0, SMTT(30)
<1>10. p = at[m - 1] + (p - at[m - 1]) BY <1>6, <1>0
<1> QED BY <1>5, <1>9, <1>10 DEF Place

\* What FlattenSeq makes of sequences.
LEMMA Flattened ==
  ASSUME NEW S, NEW ss \in Seq(Seq(S)), NEW at, StartsAt(ss, at)
  PROVE  FlattenSeq(ss) \in Seq(S) /\ Joins(ss, at, FlattenSeq(ss), Len(ss))
<1> DEFINE N == Len(ss)
           step == [p \in (1..N) \X Seq(S) |-> p[2] \o ss[p[1]]]
<1>1. N \in Nat /\ \A i \in 1..N : ss[i] \in Seq(S) /\ Len(ss[i]) \in Nat  OBVIOUS
<1>2. step \in [(1..N) \X Seq(S) -> Seq(S)]  BY <1>1
<1>3. \A n \in 1..N, x \in Seq(S) : step[<<n, x>>] = x \o ss[n]  BY <1>1
<1>0. <<>> \in Seq(S) /\ Len(ss) = N OBVIOUS
<1> HIDE DEF step, N
<1>4. PICK g \in [0..N -> Seq(S)] : g[0] = <<>> /\ \A n \in 1..N : g[n] = step[<<n, g[n - 1]>>]
  <2> DEFINE X == Seq(S)
             none == <<>>
  <2>1. none \in X /\ step \in [(1..N) \X X -> X] BY <1>0, <1>2
  <2> HIDE DEF X, none
  <2>2. \E g : Unfolds(X, N, none, step, g) BY <2>1, <1>1, Recursion
  <2> QED BY <2>2 DEF X, none, Unfolds
<1>a. N \in 0..N /\ \A n \in 0 .. N - 1 : n + 1 \in 1..N /\ n \in 0..N /\ (n + 1) - 1 = n BY <1>1
<1>b. \A n \in 1..N : n - 1 \in 0..N /\ n \in 0..N /\ n # 0 BY <1>1
<1>5. g[0] = <<>> /\ \A n \in 1..N : g[n] = g[n - 1] \o ss[n]
  <2>1. \A n \in 1..N : g[n - 1] \in Seq(S) BY <1>b
  <2>2. \A n \in 1..N : g[n] = step[<<n, g[n - 1]>>] BY <1>4, <1>b
  <2>3. g[0] = <<>> BY <1>4, <1>1
  <2> QED BY <1>3, <2>1, <2>2, <2>3
<1>6. \A i \in 1 .. N + 1 : at[i] \in Nat
  BY <1>0 DEF StartsAt
<1>7. \A n \in 0..N : Joins(ss, at, g[n], n)
  <2> DEFINE T == {n \in 0..N : Joins(ss, at, g[n], n)}
  <2>1. 0 \in T
    <3>1. Len(g[0]) = 0 BY <1>5
    <3>2. at[0 + 1] = 0 BY <1>1 DEF StartsAt
    <3>3. Joins(ss, at, g[0], 0) BY <3>1, <3>2 DEF Joins
    <3> QED BY <3>3, <1>a
  <2>2. ASSUME NEW n \in 0 .. N - 1, n \in T PROVE n + 1 \in T
    <3>1. n + 1 \in 1..N /\ n \in 0..N /\ g[n] \in Seq(S) /\ g[n + 1] = g[n] \o ss[n + 1]
      BY <1>a, <1>5
    <3>0. ss[n + 1] \in Seq(S) /\ Len(ss[n + 1]) \in Nat BY <3>1, <1>1
    <3>2. Len(g[n]) = at[n + 1] /\ at[(n + 1) + 1] = at[n + 1] + Len(ss[n + 1])
      BY <2>2, <3>1, <1>0 DEF Joins, StartsAt
    <3>3. Len(g[n + 1]) = at[(n + 1) + 1]
      <4>1. Len(g[n] \o ss[n + 1]) = Len(g[n]) + Len(ss[n + 1]) BY <3>0, <3>1
      <4> QED BY <4>1, <3>0, <3>1, <3>2
    <3>4. ASSUME NEW i \in 1 .. n + 1, NEW k \in 1..Len(ss[i]) PROVE g[n + 1][at[i] + k] = ss[i][k]
      <4>1. CASE i = n + 1
        <5>1. at[i] + k = Len(g[n]) + k /\ k \in 1..Len(ss[n + 1]) /\ ss[n + 1] \in Seq(S)
          BY <4>1, <3>2, <1>1, <3>1
        <5>2. (g[n] \o ss[n + 1])[Len(g[n]) + k] = ss[n + 1][k]  BY <5>1, <3>1
        <5> QED BY <4>1, <3>1, <5>1, <5>2
      <4>2. CASE i # n + 1
        <5>1. i \in 1..n /\ i \in 1..N /\ i + 1 \in 1 .. N + 1 BY <4>2, <3>1, <1>1
        <5>2. at[i + 1] = at[i] + Len(ss[i]) /\ at[i] \in Nat BY <5>1, <1>6, <1>0 DEF StartsAt
        <5>0. i + 1 \in 1 .. Len(ss) + 1 /\ n + 1 \in (i + 1) .. Len(ss) + 1 BY <5>1, <3>1, <1>0, <1>1
        <5>3. at[i + 1] <= at[n + 1] BY <5>0, StartsRise
        <5>4. at[i] + k \in 1..Len(g[n])
          <6>1. Len(ss[i]) \in Nat /\ at[n + 1] \in Nat /\ k \in 1..Len(ss[i]) BY <5>1, <1>1, <1>6, <3>1
          <6>2. at[i] + k >= 1 /\ at[i] + k <= at[i + 1] BY <6>1, <5>2
          <6>3. at[i] + k \in 1..at[n + 1] BY <6>1, <6>2, <5>2, <5>3
          <6> QED BY <6>3, <3>2
        <5>5. g[n][at[i] + k] = ss[i][k] BY <2>2, <5>1 DEF Joins
        <5>6. (g[n] \o ss[n + 1])[at[i] + k] = g[n][at[i] + k] BY <5>4, <3>1, <1>1
        <5> QED BY <5>5, <5>6, <3>1
      <4> QED BY <4>1, <4>2
    <3>5. n + 1 \in 0..N BY <3>1
    <3> QED BY <3>3, <3>4, <3>5 DEF Joins
  <2>3. \A n \in 0..N : n \in T
    <3> HIDE DEF T
    <3> QED BY <1>1, <2>1, <2>2, UpTo
  <2> QED BY <2>3
<1>8. FlattenSeq(ss) = g[N]
  <2>1. CASE N = 0  
    <3>1. ss = <<>> BY <2>1, <1>0
    <3> QED BY <2>1, <1>5, <3>1 DEF FlattenSeq
  <2>2. CASE N # 0
    <3> DEFINE f == CHOOSE f : f = [i \in 1..N |-> IF i = 1 THEN ss[i] ELSE f[i - 1] \o ss[i]]
               h == [i \in 1..N |-> g[i]]
               G(x) == [i \in 1..N |-> IF i = 1 THEN ss[i] ELSE x[i - 1] \o ss[i]]
    <3>1. h = G(h)
      <4>1. ASSUME NEW i \in 1..N PROVE h[i] = IF i = 1 THEN ss[i] ELSE h[i - 1] \o ss[i]
        <5>1. CASE i = 1  
           <6>0. 1 \in 1..N /\ 1 - 1 = 0 BY <5>1
           <6>1. g[1] = <<>> \o ss[1] /\ ss[1] \in Seq(S) BY <6>0, <1>5, <1>1
           <6>2. <<>> \o ss[1] = ss[1] BY <6>1
           <6> QED BY <5>1, <6>1, <6>2
        <5>2. CASE i # 1 
           <6>1. i - 1 \in 1..N BY <5>2, <1>1
           <6> QED BY <5>2, <6>1, <1>5
        <5> QED BY <5>1, <5>2
      <4> HIDE DEF h
      <4>2. h = [i \in 1..N |-> h[i]] BY DEF h
      <4> QED BY <4>1, <4>2
    <3>2. f = G(f)
      <4> HIDE DEF h
      <4>1. \E x : x = G(x) BY <3>1
      <4> QED BY <4>1, Zenon
    <3>3. \A n \in 1..N : f[n] = g[n]
      <4> HIDE DEF f, h
      <4>0. \A i \in 1..N : f[i] = IF i = 1 THEN ss[i] ELSE f[i - 1] \o ss[i] BY <3>2
      <4> DEFINE T == {n \in 0..N : n = 0 \/ f[n] = g[n]}
      <4>1. 0 \in T BY <1>1
      <4>2. ASSUME NEW n \in 0 .. N - 1, n \in T PROVE n + 1 \in T
        <5>1. CASE n = 0
           <6>a. N >= 1 BY <4>2, <1>1
           <6>0. 1 \in 1..N /\ 1 - 1 = 0 /\ n + 1 = 1 BY <5>1, <6>a, <1>1
           <6>1. g[1] = <<>> \o ss[1] /\ ss[1] \in Seq(S) /\ f[1] = ss[1] BY <6>0, <1>5, <1>1, <4>0
           <6>2. <<>> \o ss[1] = ss[1] BY <6>1
           <6>3. f[n + 1] = g[n + 1] /\ n + 1 \in 0..N BY <6>0, <6>1, <6>2, <1>1
           <6> QED BY <6>3
        <5>2. CASE n # 0 
           <6>1. n + 1 \in 1..N /\ n + 1 # 1 /\ (n + 1) - 1 = n BY <5>2, <1>a
           <6>2. f[n + 1] = f[n] \o ss[n + 1] BY <6>1, <4>0
           <6>3. g[n + 1] = g[n] \o ss[n + 1] BY <6>1, <1>5
           <6>4. f[n] = g[n] BY <4>2, <5>2
           <6>5. f[n + 1] = g[n + 1] /\ n + 1 \in 0..N BY <6>1, <6>2, <6>3, <6>4, <1>1
           <6> QED BY <6>5
        <5> QED BY <5>1, <5>2
      <4>3. \A n \in 0..N : n \in T
        <5> HIDE DEF T
        <5> QED BY <1>1, <4>1, <4>2, UpTo
      <4> QED BY <4>3
    <3>4. FlattenSeq(ss) = f[N]  BY <2>2, <1>0 DEF FlattenSeq, N
    <3>5. N \in 1..N BY <2>2, <1>1
    <3> HIDE DEF f
    <3> QED BY <3>3, <3>4, <3>5
  <2> QED BY <2>1, <2>2
<1> QED BY <1>0, <1>7, <1>8, <1>a

\* Sequences of one element each, and empty ones behind them, join to a sequence.
LEMMA Singles ==
  ASSUME NEW S, NEW s \in Seq(S), NEW ss \in Seq(Seq(S)), Len(s) <= Len(ss),
         \A i \in 1..Len(ss) : ss[i] = IF i <= Len(s) THEN <<s[i]>> ELSE <<>>
  PROVE  FlattenSeq(ss) = s
<1> DEFINE N == Len(ss)
           n == Len(s)
           at == [i \in 1 .. N + 1 |-> IF i <= n THEN i - 1 ELSE n]
<1>0. N \in Nat /\ n \in Nat /\ n <= N OBVIOUS
<1>1. N \in Nat /\ n \in Nat /\ n <= N /\ \A i \in 1..N : Len(ss[i]) = IF i <= n THEN 1 ELSE 0
  <2>1. ASSUME NEW i \in 1..N PROVE Len(ss[i]) = IF i <= n THEN 1 ELSE 0
    <3>1. CASE i <= n
      <4>1. ss[i] = <<s[i]>> BY <3>1
      <4> QED BY <4>1, <3>1
    <3>2. CASE ~(i <= n)
      <4>1. ss[i] = <<>> BY <3>2
      <4> QED BY <4>1, <3>2
    <3> QED BY <3>1, <3>2
  <2> QED BY <1>0, <2>1
<1>2. StartsAt(ss, at)
  <2> HIDE DEF n
  <2>1. at \in [1 .. N + 1 -> Nat] /\ at[1] = 0 BY <1>1
  <2>2. ASSUME NEW i \in 1..N PROVE at[i + 1] = at[i] + Len(ss[i]) BY <1>1
  <2> QED BY <2>1, <2>2 DEF StartsAt
<1> HIDE DEF at
<1>3. FlattenSeq(ss) \in Seq(S) /\ Joins(ss, at, FlattenSeq(ss), N) BY <1>2, Flattened
<1>4. at[N + 1] = n /\ \A i \in 1..n : at[i] = i - 1 
  <2> HIDE DEF n, N
  <2> QED BY <1>1 DEF at
<1>5. Len(FlattenSeq(ss)) = n BY <1>3, <1>4 DEF Joins
<1>6. ASSUME NEW i \in 1..n PROVE FlattenSeq(ss)[i] = s[i]
  <2>0. i \in 1..N /\ i <= n BY <1>0
  <2>a. ss[i] = <<s[i]>> BY <2>0
  <2>1. i \in 1..N /\ 1 \in 1..Len(ss[i]) /\ ss[i][1] = s[i] BY <2>0, <2>a
  <2>2. FlattenSeq(ss)[at[i] + 1] = ss[i][1] BY <2>1, <1>3 DEF Joins
  <2> HIDE DEF n
  <2>3. at[i] + 1 = i BY <1>4, <1>1
  <2> QED BY <2>1, <2>2, <2>3
<1> QED BY <1>3, <1>5, <1>6

\* A piece of a sequence.
LEMMA PieceIs ==
  ASSUME NEW S, NEW s \in Seq(S), NEW a \in Nat \ {0}, NEW b \in Nat, b <= Len(s), a <= b + 1
  PROVE  /\ SubSeq(s, a, b) \in Seq(S) /\ Len(SubSeq(s, a, b)) = (b - a) + 1
         /\ \A i \in 1 .. (b - a) + 1 : SubSeq(s, a, b)[i] = s[(a + i) - 1] /\ (a + i) - 1 \in a..b
<1>1. Len(s) \in Nat /\ \A i \in 1 .. (b - a) + 1 : (a + i) - 1 \in a..b /\ a..b \subseteq 1..Len(s) OBVIOUS
<1>2. \A i \in 1 .. (b - a) + 1 : SubSeq(s, a, b)[i] = s[(a + i) - 1] BY <1>1
<1>3. SubSeq(s, a, b) \in Seq(S) BY <1>1
<1>4. Len(SubSeq(s, a, b)) = (b - a) + 1 BY <1>1
<1> QED BY <1>1, <1>2, <1>3, <1>4

\* A piece that ends before it starts.
LEMMA NoPiece ==
  ASSUME NEW S, NEW s \in Seq(S), NEW a \in Int, NEW b \in Int, a > b
  PROVE  SubSeq(s, a, b) = <<>>
  OBVIOUS

\* The whole is a piece of itself.
LEMMA WholePiece ==
  ASSUME NEW S, NEW s \in Seq(S)
  PROVE  SubSeq(s, 1, Len(s)) = s
  OBVIOUS

\* A piece of what something was added to.
LEMMA PieceOfAppended ==
  ASSUME NEW S, NEW s \in Seq(S), NEW q \in S, NEW a \in Nat \ {0}, a <= Len(s) + 1
  PROVE  /\ SubSeq(Append(s, q), a, Len(s) + 1) = Append(SubSeq(s, a, Len(s)), q)
         /\ SubSeq(Append(s, q), a, Len(s)) = SubSeq(s, a, Len(s))
<1> DEFINE n == Len(s)
           t == Append(s, q)
<1>1. n \in Nat /\ t \in Seq(S) /\ Len(t) = n + 1 /\ t[n + 1] = q OBVIOUS
<1>2. \A i \in 1..n : t[i] = s[i] OBVIOUS
<1>n. n = Len(s) OBVIOUS
<1> HIDE DEF n, t
<1> DEFINE u == SubSeq(t, a, n + 1)
           v == SubSeq(t, a, n)
           w == SubSeq(s, a, n)
<1>3. u \in Seq(S) /\ Len(u) = ((n + 1) - a) + 1
      /\ \A i \in 1 .. ((n + 1) - a) + 1 : u[i] = t[(a + i) - 1] /\ (a + i) - 1 \in a .. n + 1
  BY <1>1, <1>n, PieceIs
<1>4. v \in Seq(S) /\ Len(v) = (n - a) + 1
      /\ \A i \in 1 .. (n - a) + 1 : v[i] = t[(a + i) - 1] /\ (a + i) - 1 \in a..n
  BY <1>1, <1>n, PieceIs
<1>5. w \in Seq(S) /\ Len(w) = (n - a) + 1
      /\ \A i \in 1 .. (n - a) + 1 : w[i] = s[(a + i) - 1] /\ (a + i) - 1 \in a..n
  BY <1>1, <1>n, PieceIs
<1>6. Append(w, q) \in Seq(S) /\ Len(Append(w, q)) = Len(w) + 1 /\ Append(w, q)[Len(w) + 1] = q
      /\ \A i \in 1..Len(w) : Append(w, q)[i] = w[i]
  BY <1>5
<1> DEFINE x == Append(w, q)
<1> HIDE DEF u, v, w, x
<1>7. v = w
  <2>1. \A i \in 1..Len(v) : v[i] = w[i] BY <1>1, <1>2, <1>4, <1>5
  <2>2. Len(v) = Len(w) BY <1>4, <1>5
  <2> QED BY <2>1, <2>2, <1>4, <1>5
<1>8. u = x
  <2>0. x \in Seq(S) /\ Len(x) = Len(w) + 1 /\ x[Len(w) + 1] = q /\ \A i \in 1..Len(w) : x[i] = w[i]
    BY <1>6 DEF x
  <2>1. Len(u) = Len(x) BY <1>1, <1>3, <1>5, <2>0
  <2>2. ASSUME NEW i \in 1..Len(u) PROVE u[i] = x[i]
    <3>1. CASE i = Len(w) + 1
      <4>1. (a + i) - 1 = n + 1 BY <3>1, <1>1, <1>5
      <4>2. i \in 1 .. ((n + 1) - a) + 1 BY <1>3
      <4> QED BY <3>1, <4>1, <4>2, <1>1, <1>3, <2>0
    <3>2. CASE i # Len(w) + 1
      <4>1. i \in 1..Len(w) /\ i \in 1 .. (n - a) + 1 /\ i \in 1 .. ((n + 1) - a) + 1
        BY <3>2, <1>1, <1>3, <1>5
      <4>2. (a + i) - 1 \in 1..n BY <4>1, <1>1
      <4> QED BY <4>1, <4>2, <1>2, <1>3, <1>5, <2>0
    <3> QED BY <3>1, <3>2
  <2> QED BY <2>0, <2>1, <2>2, <1>3
<1> QED BY <1>7, <1>8 DEF u, v, w, x, t, n

\* The least of some numbers, and the greatest up to a bound.
LEMMA MinIs ==
  ASSUME NEW T, T \subseteq Nat, T # {}
  PROVE  Min(T) \in T /\ \A y \in T : Min(T) <= y
<1>1. \E x \in T : \A y \in T : x <= y BY Least
<1> QED BY <1>1 DEF Min

\* As for Min.
LEMMA MaxIs ==
  ASSUME NEW n \in Nat, NEW T, T \subseteq 0..n, T # {}
  PROVE  Max(T) \in T /\ \A y \in T : Max(T) >= y
<1> DEFINE U == {n - y : y \in T}
<1>1. U \subseteq Nat /\ U # {} OBVIOUS
<1>2. PICK x \in U : \A y \in U : x <= y BY <1>1, Least, Zenon
<1>3. PICK z \in T : x = n - z BY <1>2
<1>4. \A y \in T : z >= y
  <2>1. ASSUME NEW y \in T PROVE z >= y
    <3>1. n - y \in U OBVIOUS
    <3>2. x <= n - y BY <3>1, <1>2
    <3>3. y \in 0..n /\ z \in 0..n OBVIOUS
    <3> QED BY <3>2, <3>3, <1>3
  <2> QED BY <2>1
<1>5. \E w \in T : \A y \in T : w >= y BY <1>4
<1> QED BY <1>5 DEF Max

\* A prefix with the element behind it is a prefix.
LEMMA PrefixGrows ==
  ASSUME NEW S, NEW s \in Seq(S), NEW k \in Nat, k < Len(s)
  PROVE  /\ SubSeq(s, 1, k) \in Seq(S) /\ Len(SubSeq(s, 1, k)) = k
         /\ SubSeq(s, 1, k + 1) = Append(SubSeq(s, 1, k), s[k + 1])
<1> DEFINE p == SubSeq(s, 1, k)
           q == SubSeq(s, 1, k + 1)
<1>0. 1 \in Nat \ {0} /\ k <= Len(s) /\ 1 <= k + 1 /\ k + 1 \in Nat /\ k + 1 <= Len(s) /\ 1 <= (k + 1) + 1
      /\ (k - 1) + 1 = k /\ ((k + 1) - 1) + 1 = k + 1
      /\ \A i \in 1 .. k + 1 : (1 + i) - 1 = i
  OBVIOUS
<1>1. p \in Seq(S) /\ Len(p) = k /\ \A i \in 1..k : p[i] = s[(1 + i) - 1] BY <1>0, PieceIs
<1>2. q \in Seq(S) /\ Len(q) = k + 1 /\ \A i \in 1 .. k + 1 : q[i] = s[(1 + i) - 1] BY <1>0, PieceIs
<1>3. s[k + 1] \in S BY <1>0
<1> DEFINE e == s[k + 1]
<1>4. (\A i \in 1..k : p[i] = s[i]) /\ (\A i \in 1 .. k + 1 : q[i] = s[i]) BY <1>0, <1>1, <1>2
<1> HIDE DEF p, q, e
<1>5. Append(p, e) \in Seq(S) /\ Len(Append(p, e)) = k + 1
      /\ \A i \in 1 .. k + 1 : Append(p, e)[i] = IF i = k + 1 THEN e ELSE p[i]
  BY <1>1, <1>3 DEF e
<1>6. \A i \in 1 .. k + 1 : q[i] = Append(p, e)[i] BY <1>4, <1>5 DEF e
<1>7. q = Append(p, e) BY <1>2, <1>5, <1>6
<1> QED BY <1>1, <1>7 DEF p, q, e

\* Nothing joins to nothing.
LEMMA FlatNone == FlattenSeq(<<>>) = <<>>
  BY DEF FlattenSeq

\* One sequence more comes behind the others.
LEMMA FlatAppend ==
  ASSUME NEW S, NEW ss \in Seq(Seq(S)), NEW s \in Seq(S)
  PROVE  /\ FlattenSeq(ss) \in Seq(S)
         /\ FlattenSeq(Append(ss, s)) = FlattenSeq(ss) \o s
<1> DEFINE n == Len(ss)
           tt == Append(ss, s)
           t == FlattenSeq(ss)
           u == FlattenSeq(tt)
<1>1. n \in Nat /\ tt \in Seq(Seq(S)) /\ Len(tt) = n + 1 /\ tt[n + 1] = s /\ Len(s) \in Nat
      /\ \A i \in 1..n : tt[i] = ss[i] /\ ss[i] \in Seq(S) /\ Len(ss[i]) \in Nat
  OBVIOUS
<1>2. PICK at : StartsAt(tt, at) BY <1>1, StartsExist
<1> HIDE DEF n, tt
<1>n. n = Len(ss) BY DEF n
<1>3. at \in [1 .. (n + 1) + 1 -> Nat] /\ at[1] = 0 /\ \A i \in 1 .. n + 1 : at[i + 1] = at[i] + Len(tt[i])
  BY <1>1, <1>2 DEF StartsAt
<1> DEFINE ab == [i \in 1 .. n + 1 |-> at[i]]
<1>4. StartsAt(ss, ab)
  <2>1. \A i \in 1 .. n + 1 : i \in 1 .. (n + 1) + 1 BY <1>1
  <2>2. ab \in [1 .. n + 1 -> Nat] /\ ab[1] = 0 BY <1>1, <1>3, <2>1
  <2>3. ASSUME NEW i \in 1..n PROVE ab[i + 1] = ab[i] + Len(ss[i])
    <3>1. i \in 1 .. n + 1 /\ i + 1 \in 1 .. n + 1 BY <1>1
    <3> QED BY <3>1, <1>3, <1>1
  <2> HIDE DEF ab
  <2>4. ab \in [1 .. Len(ss) + 1 -> Nat] /\ \A i \in 1..Len(ss) : ab[i + 1] = ab[i] + Len(ss[i])
    BY <1>1, <1>n, <2>2, <2>3
  <2> QED BY <2>2, <2>4 DEF StartsAt
<1> HIDE DEF ab
<1>5. t \in Seq(S) /\ Joins(ss, ab, t, n)
  <2>1. FlattenSeq(ss) \in Seq(S) /\ Joins(ss, ab, FlattenSeq(ss), Len(ss)) BY <1>4, Flattened
  <2> QED BY <2>1, <1>n
<1>6. u \in Seq(S) /\ Joins(tt, at, u, n + 1) BY <1>1, <1>2, Flattened
<1> HIDE DEF t, u
<1>7. Len(t) = at[n + 1] /\ at[n + 1] \in Nat /\ at[(n + 1) + 1] = at[n + 1] + Len(s) /\ Len(u) = at[(n + 1) + 1]
  <2>1. n + 1 \in 1 .. n + 1 /\ n + 1 \in 1 .. (n + 1) + 1 BY <1>1
  <2>2. ab[n + 1] = at[n + 1] BY <2>1 DEF ab
  <2> QED BY <2>1, <2>2, <1>1, <1>3, <1>5, <1>6 DEF Joins
<1>8. t \o s \in Seq(S) /\ Len(t \o s) = Len(u)
  <2>1. t \o s \in Seq(S) /\ Len(t \o s) = Len(t) + Len(s) BY <1>5, ConcatProperties
  <2> QED BY <2>1, <1>7
<1>9. ASSUME NEW p \in 1..Len(u) PROVE u[p] = (t \o s)[p]
  <2>1. CASE p <= Len(t)
    <3>0. n \in 0..Len(ss) /\ n + 1 \in 1 .. n + 1 BY <1>1, <1>n
    <3>a. ab[n + 1] = at[n + 1] BY <3>0 DEF ab
    <3>1. p \in 1..ab[n + 1] BY <2>1, <1>7, <3>a
    <3>2. Place(ss, ab, n, p) BY <3>0, <3>1, <1>4, PlaceOf
    <3>3. PICK i \in 1..n : \E k \in 1..Len(ss[i]) : p = ab[i] + k BY <3>2 DEF Place
    <3>4. PICK k \in 1..Len(ss[i]) : p = ab[i] + k BY <3>3
    <3>5. ab[i] = at[i] /\ tt[i] = ss[i] /\ i \in 1 .. n + 1 BY <1>1 DEF ab
    <3>6. t[p] = ss[i][k] BY <3>4, <1>5 DEF Joins
    <3>7. u[p] = ss[i][k] BY <3>4, <3>5, <1>6 DEF Joins
    <3>8. (t \o s)[p] = t[p]
      <4>1. p \in 1..Len(t) BY <2>1, <1>7, <1>1
      <4> QED BY <4>1, <1>5
    <3> QED BY <3>6, <3>7, <3>8
  <2>2. CASE ~(p <= Len(t))
    <3> DEFINE k == p - Len(t)
    <3>1. k \in 1..Len(s) /\ p = at[n + 1] + k BY <2>2, <1>7, <1>1
    <3>2. n + 1 \in 1 .. n + 1 BY <1>1
    <3> HIDE DEF k
    <3>3. u[p] = s[k] BY <3>1, <3>2, <1>1, <1>6 DEF Joins
    <3>4. (t \o s)[p] = s[k]
      <4>1. p \in 1 .. Len(t) + Len(s) /\ p - Len(t) = k BY <3>1, <1>7, <1>1
      <4> QED BY <4>1, <2>2, <1>5, ConcatProperties
    <3> QED BY <3>3, <3>4
  <2> QED BY <2>1, <2>2
<1>10. u = t \o s BY <1>6, <1>8, <1>9, SeqEqual
<1> QED BY <1>5, <1>10 DEF t, u, tt

LEMMA FlatOne ==
  ASSUME NEW S, NEW s \in Seq(S)
  PROVE  FlattenSeq(<<s>>) = s
<1> DEFINE none == <<>>
<1>1. none \in Seq(Seq(S)) /\ Append(none, s) = <<s>> OBVIOUS
<1>2. FlattenSeq(Append(none, s)) = FlattenSeq(none) \o s BY <1>1, FlatAppend
<1>3. FlattenSeq(none) \o s = s BY FlatNone
<1> QED BY <1>1, <1>2, <1>3

\* What is appended to the second of two is appended to both.
LEMMA Behind ==
  ASSUME NEW X, NEW s \in Seq(X), NEW t \in Seq(X), NEW e \in X
  PROVE  s \o Append(t, e) = Append(s \o t, e) /\ s \o t \in Seq(X)
  OBVIOUS

\* Joined sequences of sequences join one behind the other.
LEMMA FlatConcat ==
  ASSUME NEW S, NEW ss \in Seq(Seq(S)), NEW tt \in Seq(Seq(S))
  PROVE  /\ FlattenSeq(ss) \in Seq(S) /\ FlattenSeq(tt) \in Seq(S)
         /\ FlattenSeq(ss \o tt) = FlattenSeq(ss) \o FlattenSeq(tt)
<1> DEFINE n == Len(tt)
           Part(k) == SubSeq(tt, 1, k)
           T == {k \in 0..n : FlattenSeq(ss \o Part(k)) = FlattenSeq(ss) \o FlattenSeq(Part(k))}
<1>1. n \in Nat /\ n = Len(tt) /\ \A k \in 1..n : tt[k] \in Seq(S) OBVIOUS
<1>2. \A uu \in Seq(Seq(S)) : FlattenSeq(uu) \in Seq(S)
  <2>1. <<>> \in Seq(S) OBVIOUS
  <2> QED BY <2>1, FlatAppend
<1>3. 0 \in T
  <2>1. Part(0) = <<>> OBVIOUS
  <2> HIDE DEF Part
  <2>2. ss \o Part(0) = ss BY <2>1
  <2>3. FlattenSeq(ss) \o FlattenSeq(Part(0)) = FlattenSeq(ss) BY <2>1, <1>2, FlatNone
  <2>4. 0 \in 0..n BY <1>1
  <2> QED BY <2>2, <2>3, <2>4
<1>4. ASSUME NEW k \in 0 .. n - 1, k \in T PROVE k + 1 \in T
  <2>1. k \in Nat /\ k < Len(tt) /\ k + 1 \in 0..n /\ k + 1 \in 1..n BY <1>1
  <2>2. Part(k) \in Seq(Seq(S)) /\ Part(k + 1) = Append(Part(k), tt[k + 1]) BY <2>1, PrefixGrows
  <2>3. tt[k + 1] \in Seq(S) BY <2>1, <1>1
  <2> HIDE DEF Part
  <2>a. PICK p \in Seq(Seq(S)), e \in Seq(S) : p = Part(k) /\ Part(k + 1) = Append(p, e) BY <2>2, <2>3
  <2>4. ss \o Append(p, e) = Append(ss \o p, e) /\ ss \o p \in Seq(Seq(S)) BY Behind
  <2>5. FlattenSeq(Append(ss \o p, e)) = FlattenSeq(ss \o p) \o e BY <2>a, <2>4, FlatAppend
  <2>6. FlattenSeq(Append(p, e)) = FlattenSeq(p) \o e BY <2>a, FlatAppend
  <2>7. FlattenSeq(ss \o p) = FlattenSeq(ss) \o FlattenSeq(p) BY <1>4, <2>a
  <2>8. (FlattenSeq(ss) \o FlattenSeq(p)) \o e = FlattenSeq(ss) \o (FlattenSeq(p) \o e)
    <3>1. FlattenSeq(ss) \in Seq(S) /\ FlattenSeq(p) \in Seq(S) BY <1>2, <2>a
    <3>2. PICK x \in Seq(S), y \in Seq(S) : x = FlattenSeq(ss) /\ y = FlattenSeq(p) BY <3>1
    <3>3. (x \o y) \o e = x \o (y \o e) BY <3>2, SMTT(30)
    <3> QED BY <3>2, <3>3
  <2> QED BY <2>1, <2>a, <2>4, <2>5, <2>6, <2>7, <2>8
<1>5. \A k \in 0..n : k \in T
  <2> HIDE DEF T
  <2> QED BY <1>1, <1>3, <1>4, UpTo
<1>6. Part(n) = tt BY WholePiece
<1>7. n \in T /\ n \in 0..n BY <1>1, <1>5
<1> HIDE DEF Part
<1> QED BY <1>2, <1>6, <1>7

\* The places of a joined sequence.
LEMMA FlatPlaces ==
  ASSUME NEW S, NEW ss \in Seq(Seq(S)), NEW at, StartsAt(ss, at)
  PROVE  /\ \A i \in 1..Len(ss) : \A k \in 1..Len(ss[i]) :
              at[i] + k \in 1..Len(FlattenSeq(ss)) /\ FlattenSeq(ss)[at[i] + k] = ss[i][k]
         /\ \A p \in 1..Len(FlattenSeq(ss)) : Place(ss, at, Len(ss), p)
<1> DEFINE n == Len(ss)
           t == FlattenSeq(ss)
<1>1. t \in Seq(S) /\ Joins(ss, at, t, n) BY Flattened
<1>2. n \in Nat /\ \A i \in 1..n : Len(ss[i]) \in Nat OBVIOUS
<1>3. \A i \in 1 .. n + 1 : at[i] \in Nat BY DEF StartsAt
<1>4. Len(t) = at[n + 1] BY <1>1 DEF Joins
<1>5. ASSUME NEW i \in 1..n, NEW k \in 1..Len(ss[i]) PROVE at[i] + k \in 1..Len(t) /\ t[at[i] + k] = ss[i][k]
  <2>1. i + 1 \in 1 .. Len(ss) + 1 /\ n + 1 \in (i + 1) .. Len(ss) + 1 BY <1>2
  <2>2. at[i + 1] <= at[n + 1] BY <2>1, StartsRise
  <2>3. at[i + 1] = at[i] + Len(ss[i]) BY DEF StartsAt
  <2>4. at[i] \in Nat /\ at[n + 1] \in Nat /\ Len(ss[i]) \in Nat
    <3>1. i \in 1 .. n + 1 /\ n + 1 \in 1 .. n + 1 BY <1>2
    <3> QED BY <3>1, <1>2, <1>3
  <2> HIDE DEF n, t
  <2>5. at[i] + k \in 1..Len(t) BY <2>2, <2>3, <2>4, <1>4
  <2> QED BY <2>5, <1>1 DEF Joins
<1>6. ASSUME NEW p \in 1..Len(t) PROVE Place(ss, at, n, p)
  <2>1. n \in 0..Len(ss) /\ p \in 1..at[n + 1] BY <1>2, <1>4
  <2> QED BY <2>1, PlaceOf
<1> QED BY <1>5, <1>6

\* A joined sequence has the elements of its parts.
LEMMA FlatRange ==
  ASSUME NEW S, NEW ss \in Seq(Seq(S)), NEW x
  PROVE  x \in ToSet(FlattenSeq(ss)) <=> \E i \in 1..Len(ss) : x \in ToSet(ss[i])
<1> DEFINE t == FlattenSeq(ss)
<1>1. PICK at : StartsAt(ss, at) BY StartsExist
<1>2. t \in Seq(S)
  <2>1. FlattenSeq(ss) \in Seq(S) BY <1>1, Flattened
  <2> QED BY <2>1
<1>3. DOMAIN t = 1..Len(t) /\ \A i \in 1..Len(ss) : DOMAIN ss[i] = 1..Len(ss[i])
  <2>1. \A i \in 1..Len(ss) : ss[i] \in Seq(S) OBVIOUS
  <2> QED BY <1>2, <2>1
<1>4. /\ \A i \in 1..Len(ss) : \A k \in 1..Len(ss[i]) : at[i] + k \in 1..Len(t) /\ t[at[i] + k] = ss[i][k]
      /\ \A p \in 1..Len(t) : Place(ss, at, Len(ss), p)
  BY <1>1, FlatPlaces
<1> HIDE DEF t
<1>5. ASSUME x \in ToSet(t) PROVE \E i \in 1..Len(ss) : x \in ToSet(ss[i])
  <2>1. PICK p \in 1..Len(t) : x = t[p] BY <1>3, <1>5 DEF ToSet
  <2>2. PICK i \in 1..Len(ss) : \E k \in 1..Len(ss[i]) : p = at[i] + k BY <1>4 DEF Place
  <2>3. PICK k \in 1..Len(ss[i]) : p = at[i] + k BY <2>2
  <2>4. x = ss[i][k] BY <2>1, <2>3, <1>4
  <2> QED BY <2>4, <1>3 DEF ToSet
<1>6. ASSUME NEW i \in 1..Len(ss), x \in ToSet(ss[i]) PROVE x \in ToSet(t)
  <2>1. PICK k \in 1..Len(ss[i]) : x = ss[i][k] BY <1>3, <1>6 DEF ToSet
  <2>2. at[i] + k \in 1..Len(t) /\ t[at[i] + k] = x BY <2>1, <1>4
  <2> QED BY <2>2, <1>3 DEF ToSet
<1> QED BY <1>5, <1>6 DEF t

\* No element twice.
Distinct(s) == \A i, j \in 1..Len(s) : s[i] = s[j] => i = j

\* Parts without a common element, and with none twice, join to such a sequence.
LEMMA FlatDistinct ==
  ASSUME NEW S, NEW ss \in Seq(Seq(S)),
         \A i \in 1..Len(ss) : Distinct(ss[i]),
         \A i, j \in 1..Len(ss) : \A k \in 1..Len(ss[i]), l \in 1..Len(ss[j]) : ss[i][k] = ss[j][l] => i = j
  PROVE  Distinct(FlattenSeq(ss))
<1> DEFINE t == FlattenSeq(ss)
<1>1. PICK at : StartsAt(ss, at) BY StartsExist
<1>2. /\ \A i \in 1..Len(ss) : \A k \in 1..Len(ss[i]) : t[at[i] + k] = ss[i][k]
      /\ \A p \in 1..Len(t) : Place(ss, at, Len(ss), p)
  BY <1>1, FlatPlaces
<1> HIDE DEF t
<1>3. ASSUME NEW p \in 1..Len(t), NEW q \in 1..Len(t), t[p] = t[q] PROVE p = q
  <2>1. PICK i \in 1..Len(ss) : \E k \in 1..Len(ss[i]) : p = at[i] + k BY <1>2 DEF Place
  <2>2. PICK k \in 1..Len(ss[i]) : p = at[i] + k BY <2>1
  <2>3. PICK j \in 1..Len(ss) : \E k_1 \in 1..Len(ss[j]) : q = at[j] + k_1 BY <1>2 DEF Place
  <2>4. PICK l \in 1..Len(ss[j]) : q = at[j] + l BY <2>3
  <2>5. ss[i][k] = ss[j][l] BY <2>2, <2>4, <1>2, <1>3
  <2>6. i = j BY <2>5
  <2>7. k = l BY <2>5, <2>6 DEF Distinct
  <2> QED BY <2>2, <2>4, <2>6, <2>7
<1> QED BY <1>3 DEF Distinct, t
=============================================================================
