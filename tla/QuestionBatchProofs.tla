------------------------- MODULE QuestionBatchProofs -------------------------
(***************************************************************************)
(* Question batches, for any questions, rows, catalogues and limits, and      *)
(* however calls fail and runs end: in a run no request is made twice, every  *)
(* cell is decided or accounted for, and the first window over some rows is   *)
(* asked ahead of its siblings; and what one run decided and remembered, no    *)
(* later run asks for again.                                                  *)
(*                                                                         *)
(* The model's recursive functions are shown to exist, and the induction on   *)
(* them takes the least counterexample, of which the naturals have one.       *)
(***************************************************************************)
EXTENDS QuestionBatch, Integers, FiniteSetTheorems, WellFoundedInduction, TLAPS

Below == {ss \in Nat \X Nat : ss[1] < ss[2]}

\* Every non-empty set of naturals has a least member.
LEMMA LeastExists ==
  ASSUME NEW S \in SUBSET Nat, S # {}
  PROVE  \E x \in S : \A y \in S : x <= y
  <1>1. IsWellFoundedOn(Below, Nat)
    BY NatLessThanWellFounded, Zenon DEF OpToRel, Below
  <1>2. \A x, y \in Nat : x < y => <<x, y>> \in Below
    BY DEF Below
  <1>3. PICK x \in S : \A y \in S : ~(<<y, x>> \in Below)
    BY <1>1, WFMin, Zenon
  <1>4. \A y \in S : y \in Nat /\ x \in Nat
    OBVIOUS
  <1>5. \A y \in S : ~(y < x)
    BY <1>2, <1>3, <1>4
  <1> QED BY <1>4, <1>5

\* Induction, of a set: it has all naturals when 0 is in it and each next one.
LEMMA AllNaturals ==
  ASSUME NEW S \in SUBSET Nat, 0 \in S, \A n \in S : n + 1 \in S
  PROVE  S = Nat
  <1> SUFFICES ASSUME Nat \ S # {} PROVE FALSE
    OBVIOUS
  <1>1. PICK x \in Nat \ S : \A y \in Nat \ S : x <= y
    BY LeastExists
  <1>2. x - 1 \in Nat /\ x - 1 \in S
    BY <1>1
  <1> QED BY <1>1, <1>2

Iterates(f, b, step) == f[0] = b /\ \A n \in Nat : f[n+1] = step[<<n+1, f[n]>>]

\* Recursion: a first value and a step make a function of all naturals.
LEMMA RecursionExists ==
  ASSUME NEW T, NEW b \in T, NEW step \in [Nat \X T -> T]
  PROVE  \E f \in [Nat -> T] : Iterates(f, b, step)
  <1> DEFINE Good(f, n) == f[0] = b /\ \A m \in 0..n-1 : f[m+1] = step[<<m+1, f[m]>>]
             Reached == {n \in Nat : \E f \in [0..n -> T] : Good(f, n)}
             Agreed == {n \in Nat : \A m \in Nat : n <= m =>
                           \A f \in [0..n -> T], g \in [0..m -> T] :
                              Good(f, n) /\ Good(g, m) => f[n] = g[n]}
  <1>1. Reached = Nat
    <2>1. 0 \in Reached
      <3>1. [m \in 0..0 |-> b] \in [0..0 -> T] /\ Good([m \in 0..0 |-> b], 0)
        OBVIOUS
      <3> QED BY <3>1
    <2>2. ASSUME NEW n \in Reached PROVE n + 1 \in Reached
      <3>1. PICK f \in [0..n -> T] : Good(f, n)
        OBVIOUS
      <3> DEFINE g == [m \in 0..n+1 |-> IF m = n + 1 THEN step[<<n+1, f[n]>>] ELSE f[m]]
      <3>2. n \in Nat /\ f[n] \in T
        OBVIOUS
      <3>3. step[<<n+1, f[n]>>] \in T
        BY <3>2
      <3>4. g \in [0..n+1 -> T]
        BY <3>2, <3>3
      <3>5. g[0] = b
        BY <3>1, <3>2
      <3>6. ASSUME NEW m \in 0..n PROVE g[m+1] = step[<<m+1, g[m]>>]
        <4>1. CASE m = n
          <5>1. g[n+1] = step[<<n+1, f[n]>>] /\ g[n] = f[n]
            BY <3>2
          <5> QED BY <4>1, <5>1
        <4>2. CASE m # n
          <5>1. m \in 0..n-1 /\ m + 1 \in 0..n /\ m + 1 # n + 1 /\ m # n + 1
            BY <3>2, <4>2
          <5>2. g[m] = f[m] /\ g[m+1] = f[m+1]
            BY <3>2, <5>1
          <5> QED BY <3>1, <5>1, <5>2
        <4> QED BY <4>1, <4>2
      <3>7. Good(g, n+1)
        <4>1. 0..(n+1)-1 = 0..n
          BY <3>2
        <4> HIDE DEF g
        <4> QED BY <3>5, <3>6, <4>1
      <3> HIDE DEF Good, g
      <3> QED BY <3>2, <3>4, <3>7
    <2> HIDE DEF Good
    <2>3. Reached \in SUBSET Nat
      OBVIOUS
    <2> HIDE DEF Reached
    <2> QED BY <2>1, <2>2, <2>3, AllNaturals
  <1>2. Agreed = Nat
    <2>1. 0 \in Agreed
      OBVIOUS
    <2>2. ASSUME NEW n \in Agreed PROVE n + 1 \in Agreed
      <3>0. n \in Nat /\ n + 1 \in Nat
        OBVIOUS
      <3> SUFFICES ASSUME NEW m \in Nat, n + 1 <= m, NEW f \in [0..n+1 -> T], NEW g \in [0..m -> T],
                          Good(f, n+1), Good(g, m)
                   PROVE  f[n+1] = g[n+1]
        BY <3>0
      <3> DEFINE h == [k \in 0..n |-> f[k]]
      <3>1. h \in [0..n -> T] /\ Good(h, n) /\ h[n] = f[n]
        <4>1. h \in [0..n -> T] /\ \A k \in 0..n : h[k] = f[k]
          OBVIOUS
        <4>2. \A k \in 0..n-1 : k \in 0..n /\ k + 1 \in 0..n /\ k \in 0..(n+1)-1
          OBVIOUS
        <4> QED BY <4>1, <4>2
      <3>2. n <= m /\ h[n] = g[n]
        <4>1. n <= m
          OBVIOUS
        <4> HIDE DEF h, Good
        <4> QED BY <3>1, <4>1
      <3>3. n \in 0..(n+1)-1 /\ n \in 0..m-1
        OBVIOUS
      <3>4. f[n+1] = step[<<n+1, f[n]>>] /\ g[n+1] = step[<<n+1, g[n]>>]
        BY <3>3
      <3> QED BY <3>1, <3>2, <3>4
    <2> HIDE DEF Good
    <2>3. Agreed \in SUBSET Nat
      OBVIOUS
    <2> HIDE DEF Agreed
    <2> QED BY <2>1, <2>2, <2>3, AllNaturals
  <1>a. \A n, m \in Nat : n <= m =>
            \A f \in [0..n -> T], g \in [0..m -> T] : Good(f, n) /\ Good(g, m) => f[n] = g[n]
    <2> HIDE DEF Good
    <2> SUFFICES ASSUME NEW n \in Nat
                 PROVE  \A m \in Nat : n <= m =>
                           \A f \in [0..n -> T], g \in [0..m -> T] :
                              Good(f, n) /\ Good(g, m) => f[n] = g[n]
      OBVIOUS
    <2>1. n \in Agreed
      <3> HIDE DEF Agreed
      <3> QED BY <1>2
    <2> QED BY <2>1
  <1> DEFINE F(n) == CHOOSE f : f \in [0..n -> T] /\ Good(f, n)
  <1>3. \A n \in Nat : F(n) \in [0..n -> T] /\ Good(F(n), n)
    <2> SUFFICES ASSUME NEW n \in Nat PROVE F(n) \in [0..n -> T] /\ Good(F(n), n)
      OBVIOUS
    <2>1. \E f : f \in [0..n -> T] /\ Good(f, n)
      <3> HIDE DEF Good
      <3> QED BY <1>1
    <2> HIDE DEF Good
    <2> QED BY <2>1
  <1> HIDE DEF F
  <1> DEFINE f == [n \in Nat |-> F(n)[n]]
  <1>4. f \in [Nat -> T] /\ f[0] = b
    BY <1>3
  <1>5. ASSUME NEW n \in Nat PROVE f[n+1] = step[<<n+1, f[n]>>]
    <2>1. F(n)[n] = F(n+1)[n]
      <3>1. n + 1 \in Nat /\ n <= n + 1
        OBVIOUS
      <3> HIDE DEF Good
      <3> QED BY <1>a, <1>3, <3>1
    <2>2. n \in 0..(n+1)-1 /\ n + 1 \in Nat
      OBVIOUS
    <2>3. F(n+1)[n+1] = step[<<n+1, F(n+1)[n]>>]
      BY <1>3, <2>2
    <2> QED BY <2>1, <2>2, <2>3
  <1> HIDE DEF f
  <1> QED BY <1>4, <1>5 DEF Iterates

-----------------------------------------------------------------------------
(* Ranks.                                                                    *)

Lower(S, rank, x) == {y \in S : rank[y] < rank[x]}

\* Of a finite set, members of different rank have different numbers of lower ones.
LEMMA LowerCounts ==
  ASSUME NEW S, IsFiniteSet(S), NEW rank \in [S -> Nat],
         \A x, y \in S : rank[x] = rank[y] => x = y
  PROVE  /\ \A x \in S : Cardinality(Lower(S, rank, x)) \in 0..Cardinality(S)-1
         /\ \A x, y \in S : Cardinality(Lower(S, rank, x)) = Cardinality(Lower(S, rank, y)) => x = y
  <1>1. ASSUME NEW x \in S
        PROVE  /\ IsFiniteSet(Lower(S, rank, x))
               /\ Cardinality(Lower(S, rank, x)) \in 0..Cardinality(S)-1
    <2>1. Lower(S, rank, x) \in SUBSET S /\ x \notin Lower(S, rank, x)
      BY DEF Lower
    <2>2. /\ IsFiniteSet(Lower(S, rank, x)) /\ Cardinality(Lower(S, rank, x)) <= Cardinality(S)
          /\ Cardinality(S) = Cardinality(Lower(S, rank, x)) => S = Lower(S, rank, x)
      BY <2>1, FS_Subset
    <2>3. Cardinality(S) \in Nat /\ Cardinality(Lower(S, rank, x)) \in Nat
      BY <2>2, FS_CardinalityType
    <2> QED BY <2>1, <2>2, <2>3
  <1>2. ASSUME NEW x \in S, NEW y \in S, rank[x] < rank[y]
        PROVE  Cardinality(Lower(S, rank, x)) # Cardinality(Lower(S, rank, y))
    <2>1. Lower(S, rank, x) \in SUBSET Lower(S, rank, y)
      BY <1>2 DEF Lower
    <2>2. x \in Lower(S, rank, y) /\ x \notin Lower(S, rank, x)
      BY <1>2 DEF Lower
    <2>3. Cardinality(Lower(S, rank, y)) = Cardinality(Lower(S, rank, x))
              => Lower(S, rank, y) = Lower(S, rank, x)
      BY <1>1, <2>1, FS_Subset
    <2> QED BY <2>2, <2>3
  <1>3. \A x, y \in S : x # y => rank[x] < rank[y] \/ rank[y] < rank[x]
    OBVIOUS
  <1> QED BY <1>1, <1>2, <1>3

\* Ranking a finite set by different ranks lists each member once.
LEMMA RankedShape ==
  ASSUME NEW S, IsFiniteSet(S), NEW rank \in [S -> Nat],
         \A x, y \in S : rank[x] = rank[y] => x = y
  PROVE  /\ Ranked(S, rank) \in Seq(S)
         /\ DOMAIN Ranked(S, rank) = 1..Cardinality(S)
         /\ \A x \in S : \E k \in DOMAIN Ranked(S, rank) : Ranked(S, rank)[k] = x
         /\ \A k, l \in DOMAIN Ranked(S, rank) : Ranked(S, rank)[k] = Ranked(S, rank)[l] => k = l
  <1> DEFINE N == Cardinality(S)
             c == [x \in S |-> Cardinality(Lower(S, rank, x)) + 1]
  <1>1. N \in Nat
    BY FS_CardinalityType
  <1>2. /\ \A x \in S : Cardinality(Lower(S, rank, x)) \in 0..N-1
        /\ \A x, y \in S : Cardinality(Lower(S, rank, x)) = Cardinality(Lower(S, rank, y)) => x = y
    BY LowerCounts
  <1>3. c \in [S -> 1..N]
    BY <1>1, <1>2
  <1>4. \A x, y \in S : c[x] = c[y] => x = y
    BY <1>1, <1>2
  <1>5. c \in Injection(S, 1..N)
    BY <1>3, <1>4 DEF Injection, IsInjective
  <1>6. IsFiniteSet(1..N) /\ Cardinality(1..N) = N
    BY <1>1, FS_Interval
  <1>7. c \in Surjection(S, 1..N)
    BY <1>5, <1>6, FS_Injection
  <1>8. \A k \in 1..N : \E x \in S : c[x] = k
    BY <1>7 DEF Surjection
  <1> DEFINE r == Ranked(S, rank)
             Is(x, k) == Cardinality({y \in S : rank[y] < rank[x]}) = k - 1
  <1>9. r = [k \in 1..N |-> CHOOSE x \in S : Is(x, k)]
    BY DEF Ranked
  <1>10. \A k \in 1..N, x \in S : Is(x, k) <=> c[x] = k
    BY <1>1, <1>2 DEF Lower
  <1>11. \A k \in 1..N : r[k] \in S /\ c[r[k]] = k
    <2> SUFFICES ASSUME NEW k \in 1..N PROVE r[k] \in S /\ c[r[k]] = k
      OBVIOUS
    <2>1. r[k] = CHOOSE x \in S : Is(x, k)
      BY <1>9
    <2>2. \E x \in S : Is(x, k)
      BY <1>8, <1>10
    <2> HIDE DEF Is, r
    <2>3. r[k] \in S /\ Is(r[k], k)
      BY <2>1, <2>2
    <2> QED BY <1>10, <2>3
  <1>12. DOMAIN r = 1..N
    BY <1>9
  <1> HIDE DEF r, c, Is
  <1>13. r \in Seq(S)
    <2>1. r = [k \in 1..N |-> r[k]]
      BY <1>9, <1>12
    <2> HIDE DEF N
    <2> QED BY <1>1, <1>11, <2>1
  <1>14. \A x \in S : c[x] \in 1..N /\ r[c[x]] = x
    BY <1>3, <1>4, <1>11
  <1>15. \A k, l \in 1..N : r[k] = r[l] => k = l
    BY <1>11
  <1> QED BY <1>12, <1>13, <1>14, <1>15 DEF r

-----------------------------------------------------------------------------
(* Windows that share no cell.                                               *)

Disjoint(v, w) == v.questions \cap w.questions = {} \/ v.rows \cap w.rows = {}

Apart(s) == \A i, j \in DOMAIN s : i # j => Disjoint(s[i], s[j])

Between(s, t) == \A i \in DOMAIN s, j \in DOMAIN t : Disjoint(s[i], t[j])

Inside(v, w) ==
    /\ v.rows \subseteq w.rows /\ v.questions \subseteq w.questions
    /\ v.catalogue = w.catalogue /\ v.reask = w.reask

\* A window within the ceilings.
Whole(w) == ~(RowsOf(w) > MaxRows) /\ ~(QuestionsOf(w) > MaxQuestions) /\ ~TooLarge(w)

\* The windows of s divide w: each is within the ceilings, and each cell is in one.
Divides(s, w) ==
    /\ s \in Seq(Windows) /\ Apart(s)
    /\ \A i \in DOMAIN s : Inside(s[i], w) /\ Whole(s[i])
    /\ \A q \in w.questions, r \in w.rows :
          \E i \in DOMAIN s : q \in s[i].questions /\ r \in s[i].rows

\* u has the members of s and those of t.
Joins(u, s, t) ==
    /\ \A i \in DOMAIN s : \E k \in DOMAIN u : u[k] = s[i]
    /\ \A i \in DOMAIN t : \E k \in DOMAIN u : u[k] = t[i]
    /\ \A k \in DOMAIN u : (\E i \in DOMAIN s : u[k] = s[i]) \/ (\E i \in DOMAIN t : u[k] = t[i])

LEMMA ConcatShape ==
  ASSUME NEW X, NEW s \in Seq(X), NEW t \in Seq(X)
  PROVE  /\ s \o t \in Seq(X)
         /\ Joins(s \o t, s, t)
         /\ Apart(s) /\ Apart(t) /\ Between(s, t) => Apart(s \o t)
  <1> DEFINE u == s \o t
  <1>1. /\ u \in Seq(X) /\ Len(s) \in Nat /\ Len(t) \in Nat
        /\ DOMAIN s = 1..Len(s) /\ DOMAIN t = 1..Len(t) /\ DOMAIN u = 1..(Len(s) + Len(t))
        /\ \A k \in 1..Len(s) : u[k] = s[k]
        /\ \A k \in Len(s)+1 .. Len(s)+Len(t) : u[k] = t[k - Len(s)]
    OBVIOUS
  <1> HIDE DEF u
  <1>2. \A i \in DOMAIN s : i \in DOMAIN u /\ u[i] = s[i]
    BY <1>1
  <1>3. \A i \in DOMAIN t : i + Len(s) \in DOMAIN u /\ u[i + Len(s)] = t[i]
    <2> SUFFICES ASSUME NEW i \in DOMAIN t PROVE i + Len(s) \in DOMAIN u /\ u[i + Len(s)] = t[i]
      OBVIOUS
    <2>1. i + Len(s) \in Len(s)+1 .. Len(s)+Len(t) /\ (i + Len(s)) - Len(s) = i
      BY <1>1
    <2> QED BY <1>1, <2>1
  <1>4. \A k \in DOMAIN u : k \in DOMAIN s \/ (k - Len(s) \in DOMAIN t /\ k \in Len(s)+1 .. Len(s)+Len(t))
    BY <1>1
  <1>5. ASSUME Apart(s), Apart(t), Between(s, t) PROVE Apart(u)
    <2> SUFFICES ASSUME NEW i \in DOMAIN u, NEW j \in DOMAIN u, i # j
                 PROVE  Disjoint(u[i], u[j])
      BY DEF Apart
    <2>1. CASE i \in DOMAIN s /\ j \in DOMAIN s
      BY <1>2, <1>5, <2>1 DEF Apart
    <2>2. CASE i \in DOMAIN s /\ j - Len(s) \in DOMAIN t /\ j \in Len(s)+1 .. Len(s)+Len(t)
      BY <1>1, <1>2, <1>5, <2>2 DEF Between
    <2>3. CASE j \in DOMAIN s /\ i - Len(s) \in DOMAIN t /\ i \in Len(s)+1 .. Len(s)+Len(t)
      BY <1>1, <1>2, <1>5, <2>3 DEF Between, Disjoint
    <2>4. CASE /\ i - Len(s) \in DOMAIN t /\ i \in Len(s)+1 .. Len(s)+Len(t)
               /\ j - Len(s) \in DOMAIN t /\ j \in Len(s)+1 .. Len(s)+Len(t)
      <3>1. i - Len(s) # j - Len(s)
        BY <1>1, <2>4
      <3> QED BY <1>1, <1>5, <2>4, <3>1 DEF Apart
    <2> QED BY <1>4, <2>1, <2>2, <2>3, <2>4
  <1>6. \A k \in DOMAIN u : \/ \E i \in DOMAIN s : u[k] = s[i]
                            \/ \E i \in DOMAIN t : u[k] = t[i]
    BY <1>1, <1>4
  <1>7. Joins(u, s, t)
    BY <1>2, <1>3, <1>6 DEF Joins
  <1> QED BY <1>1, <1>5, <1>7 DEF u

\* What one of them is apart from, so is a window inside it.
LEMMA InsideDisjoint ==
  ASSUME NEW u, NEW v, NEW w, Inside(u, v), Disjoint(v, w)
  PROVE  Disjoint(u, w) /\ Disjoint(w, u)
  BY DEF Inside, Disjoint

\* Flattening the divisions of windows that are apart.
LEMMA FlattenShape ==
  ASSUME NEW X, NEW ss \in Seq(Seq(X)),
         \A i \in DOMAIN ss : Apart(ss[i]),
         \A i, j \in DOMAIN ss : i # j => Between(ss[i], ss[j])
  PROVE  /\ FlattenSeq(ss) \in Seq(X) /\ Apart(FlattenSeq(ss))
         /\ \A k \in DOMAIN FlattenSeq(ss) :
               \E i \in DOMAIN ss : \E j \in DOMAIN ss[i] : FlattenSeq(ss)[k] = ss[i][j]
         /\ \A i \in DOMAIN ss : \A j \in DOMAIN ss[i] :
               \E k \in DOMAIN FlattenSeq(ss) : FlattenSeq(ss)[k] = ss[i][j]
  <1> DEFINE L == Len(ss)
  <1>1. L \in Nat /\ DOMAIN ss = 1..L /\ \A i \in 1..L : ss[i] \in Seq(X)
    OBVIOUS
  <1>2. CASE L = 0
    <2>1. FlattenSeq(ss) = ss
      BY <1>2 DEF FlattenSeq
    <2>2. ss = <<>>
      BY <1>2
    <2> QED BY <2>1, <2>2 DEF Apart
  <1>3. CASE L # 0
    <2> DEFINE Is(f) == f = [i \in 1..L |-> IF i = 1 THEN ss[i] ELSE f[i-1] \o ss[i]]
               step == [p \in Nat \X Seq(X) |-> IF p[1] \in 1..L THEN p[2] \o ss[p[1]] ELSE <<>>]
    <2>1. \E f : Is(f)
      <3>1. step \in [Nat \X Seq(X) -> Seq(X)] /\ <<>> \in Seq(X)
        BY <1>1, ConcatShape
      <3> HIDE DEF step
      <3>2. PICK g \in [Nat -> Seq(X)] : g[0] = <<>> /\ \A n \in Nat : g[n+1] = step[<<n+1, g[n]>>]
        <4>1. PICK g \in [Nat -> Seq(X)] : Iterates(g, <<>>, step)
          BY <3>1, RecursionExists
        <4> QED BY <4>1 DEF Iterates
      <3>3. ASSUME NEW i \in 1..L PROVE g[i] = IF i = 1 THEN ss[i] ELSE g[i-1] \o ss[i]
        <4>1. i - 1 \in Nat /\ (i - 1) + 1 = i /\ i \in Nat /\ g[i-1] \in Seq(X) /\ ss[i] \in Seq(X)
          BY <1>1
        <4>2. g[i] = step[<<i, g[i-1]>>]
          BY <3>2, <4>1
        <4>3. step[<<i, g[i-1]>>] = g[i-1] \o ss[i]
          BY <1>1, <4>1 DEF step
        <4>4. <<>> \o ss[i] = ss[i]
          BY <4>1
        <4>5. CASE i = 1
          <5>1. g[i-1] = <<>>
            BY <3>2, <4>5
          <5> QED BY <4>2, <4>3, <4>4, <4>5, <5>1
        <4>6. CASE i # 1
          BY <4>2, <4>3, <4>6
        <4> QED BY <4>5, <4>6
      <3> DEFINE h == [i \in 1..L |-> g[i]]
      <3>4. h = [i \in 1..L |-> IF i = 1 THEN ss[i] ELSE h[i-1] \o ss[i]]
        <4>1. ASSUME NEW i \in 1..L PROVE h[i] = IF i = 1 THEN ss[i] ELSE h[i-1] \o ss[i]
          <5>1. i # 1 => i - 1 \in 1..L
            BY <1>1
          <5> QED BY <3>3, <5>1
        <4> QED BY <4>1
      <3> HIDE DEF h
      <3> QED BY <3>4
    <2> DEFINE f == CHOOSE g : Is(g)
    <2>2. FlattenSeq(ss) = f[L]
      BY <1>3 DEF FlattenSeq
    <2>3. Is(f)
      <3> HIDE DEF Is
      <3> QED BY <2>1
    <2> HIDE DEF f
    <2>4. \A i \in 1..L : f[i] = IF i = 1 THEN ss[i] ELSE f[i-1] \o ss[i]
      BY <2>3
    <2> DEFINE Good(n) == /\ f[n] \in Seq(X) /\ Apart(f[n])
                          /\ \A k \in DOMAIN f[n] : \E i \in 1..n : \E j \in DOMAIN ss[i] : f[n][k] = ss[i][j]
                          /\ \A i \in 1..n : \A j \in DOMAIN ss[i] : \E k \in DOMAIN f[n] : f[n][k] = ss[i][j]
               Done == {n \in Nat : n + 1 \in 1..L => Good(n+1)}
    <2>5. Done = Nat
      <3>1. 0 \in Done
        BY <1>1, <2>4
      <3>2. ASSUME NEW n \in Done PROVE n + 1 \in Done
        <4>0. n \in Nat /\ n + 1 \in Nat /\ (n + 1) + 1 = n + 2
          OBVIOUS
        <4> SUFFICES ASSUME n + 2 \in 1..L PROVE Good(n + 2)
          <5> HIDE DEF Good
          <5> QED BY <4>0
        <4>1. n \in Nat /\ n + 1 \in 1..L /\ Good(n + 1)
          <5>1. n + 1 \in 1..L
            BY <1>1, <4>0
          <5> HIDE DEF Good
          <5> QED BY <4>0, <5>1
        <4>2. f[n+2] = f[n+1] \o ss[n+2]
          <5>1. n + 2 # 1 /\ (n + 2) - 1 = n + 1
            BY <4>1
          <5> QED BY <2>4, <5>1
        <4>3. f[n+1] \in Seq(X) /\ ss[n+2] \in Seq(X)
          BY <1>1, <4>1
        <4>4. Between(f[n+1], ss[n+2])
          <5> SUFFICES ASSUME NEW k \in DOMAIN f[n+1], NEW j \in DOMAIN ss[n+2]
                       PROVE  Disjoint(f[n+1][k], ss[n+2][j])
            BY DEF Between
          <5>1. PICK i \in 1..n+1 : \E h \in DOMAIN ss[i] : f[n+1][k] = ss[i][h]
            BY <4>1
          <5>2. i \in DOMAIN ss /\ n + 2 \in DOMAIN ss /\ i # n + 2
            BY <1>1, <4>1
          <5> QED BY <5>1, <5>2 DEF Between
        <4>5. 1..n+2 = (1..n+1) \cup {n+2}
          BY <4>1
        <4> DEFINE a == f[n+1]
                   c == ss[n+2]
        <4>6. /\ a \o c \in Seq(X) /\ Apart(a \o c)
              /\ \A i \in DOMAIN a : \E k \in DOMAIN (a \o c) : (a \o c)[k] = a[i]
              /\ \A i \in DOMAIN c : \E k \in DOMAIN (a \o c) : (a \o c)[k] = c[i]
              /\ \A k \in DOMAIN (a \o c) : \/ \E i \in DOMAIN a : (a \o c)[k] = a[i]
                                            \/ \E i \in DOMAIN c : (a \o c)[k] = c[i]
          <5>1. Apart(a) /\ Apart(c) /\ Between(a, c) /\ a \in Seq(X) /\ c \in Seq(X)
            BY <1>1, <4>1, <4>3, <4>4
          <5> HIDE DEF a, c
          <5>2. a \o c \in Seq(X) /\ Joins(a \o c, a, c) /\ Apart(a \o c)
            BY <5>1, ConcatShape
          <5> QED BY <5>2 DEF Joins
        <4>7. f[n+2] = a \o c
          BY <4>2
        <4>8. /\ \A k \in DOMAIN a : \E i \in 1..n+1 : \E j \in DOMAIN ss[i] : a[k] = ss[i][j]
              /\ \A i \in 1..n+1 : \A j \in DOMAIN ss[i] : \E k \in DOMAIN a : a[k] = ss[i][j]
          BY <4>1
        <4>9. \A j \in DOMAIN c : c[j] = ss[n+2][j]
          OBVIOUS
        <4>10. ASSUME NEW k \in DOMAIN (a \o c)
               PROVE  \E i \in 1..n+2 : \E j \in DOMAIN ss[i] : (a \o c)[k] = ss[i][j]
          <5> HIDE DEF a, Good
          <5>1. CASE \E i \in DOMAIN a : (a \o c)[k] = a[i]
            <6>1. PICK h \in DOMAIN a : (a \o c)[k] = a[h]
              BY <5>1
            <6>2. PICK i \in 1..n+1 : \E j \in DOMAIN ss[i] : a[h] = ss[i][j]
              BY <4>8
            <6> QED BY <4>5, <6>1, <6>2
          <5>2. CASE \E j \in DOMAIN c : (a \o c)[k] = c[j]
            BY <4>5, <5>2
          <5> QED BY <4>6, <5>1, <5>2
        <4>11. ASSUME NEW i \in 1..n+2, NEW j \in DOMAIN ss[i]
               PROVE  \E k \in DOMAIN (a \o c) : (a \o c)[k] = ss[i][j]
          <5> HIDE DEF a, Good
          <5>1. CASE i \in 1..n+1
            <6>1. PICK k \in DOMAIN a : a[k] = ss[i][j]
              BY <4>8, <5>1
            <6> QED BY <4>6, <6>1
          <5>2. CASE i = n + 2
            BY <4>6, <5>2
          <5> QED BY <4>5, <5>1, <5>2
        <4> DEFINE u == a \o c
        <4>12. /\ f[n+2] = u /\ u \in Seq(X) /\ Apart(u)
               /\ \A k \in DOMAIN u : \E i \in 1..n+2 : \E j \in DOMAIN ss[i] : u[k] = ss[i][j]
               /\ \A i \in 1..n+2 : \A j \in DOMAIN ss[i] : \E k \in DOMAIN u : u[k] = ss[i][j]
          <5> HIDE DEF a, c, Good
          <5> QED BY <4>6, <4>7, <4>10, <4>11
        <4> HIDE DEF u
        <4> QED BY <4>12
      <3> HIDE DEF Good
      <3>3. Done \in SUBSET Nat
        OBVIOUS
      <3> HIDE DEF Done
      <3> QED BY <3>1, <3>2, <3>3, AllNaturals
    <2>6. Good(L)
      <3> HIDE DEF Good
      <3>1. L - 1 \in Nat /\ (L - 1) + 1 = L /\ L \in 1..L
        BY <1>1, <1>3
      <3> QED BY <2>5, <3>1
    <2>7. /\ FlattenSeq(ss) \in Seq(X) /\ Apart(FlattenSeq(ss))
          /\ \A k \in DOMAIN FlattenSeq(ss) :
                \E i \in 1..L : \E j \in DOMAIN ss[i] : FlattenSeq(ss)[k] = ss[i][j]
          /\ \A i \in 1..L : \A j \in DOMAIN ss[i] :
                \E k \in DOMAIN FlattenSeq(ss) : FlattenSeq(ss)[k] = ss[i][j]
      <3> HIDE DEF L
      <3> QED BY <2>2, <2>6
    <2> QED BY <1>1, <2>7
  <1> QED BY <1>2, <1>3

-----------------------------------------------------------------------------
(* Dividing a window.                                                        *)

LEMMA WindowShape ==
  ASSUME NEW w \in Windows
  PROVE  /\ w.rows \in SUBSET Rows /\ w.rows # {}
         /\ w.questions \in SUBSET Questions /\ w.questions # {} /\ w.questions \subseteq w.catalogue
         /\ w.catalogue \in Catalogues /\ w.reask \in BOOLEAN
         /\ w = [rows |-> w.rows, questions |-> w.questions, catalogue |-> w.catalogue, reask |-> w.reask]
         /\ IsFiniteSet(w.rows) /\ IsFiniteSet(w.questions)
         /\ RowsOf(w) \in Nat \ {0} /\ QuestionsOf(w) \in Nat \ {0}
  <1>1. /\ w.rows \in SUBSET Rows /\ w.rows # {}
        /\ w.questions \in SUBSET Questions /\ w.questions # {} /\ w.questions \subseteq w.catalogue
        /\ w.catalogue \in Catalogues /\ w.reask \in BOOLEAN
        /\ w = [rows |-> w.rows, questions |-> w.questions, catalogue |-> w.catalogue, reask |-> w.reask]
    <2>1. /\ w \in [rows : (SUBSET Rows) \ {{}}, questions : (SUBSET Questions) \ {{}},
                    catalogue : Catalogues, reask : BOOLEAN]
          /\ w.questions \subseteq w.catalogue
      BY DEF Windows
    <2>2. w.rows \in (SUBSET Rows) \ {{}} /\ w.questions \in (SUBSET Questions) \ {{}}
      BY <2>1
    <2>3. w.catalogue \in Catalogues /\ w.reask \in BOOLEAN
      BY <2>1
    <2>4. w = [rows |-> w.rows, questions |-> w.questions, catalogue |-> w.catalogue, reask |-> w.reask]
      BY <2>1
    <2>5. w.rows \in SUBSET Rows /\ w.rows # {} /\ w.questions \in SUBSET Questions /\ w.questions # {}
      BY <2>2
    <2> QED BY <2>1, <2>3, <2>4, <2>5, Zenon
  <1>2. IsFiniteSet(w.rows) /\ IsFiniteSet(w.questions)
    BY <1>1, QuestionAssumption, FS_Subset
  <1>3. RowsOf(w) \in Nat \ {0} /\ QuestionsOf(w) \in Nat \ {0}
    BY <1>1, <1>2, FS_CardinalityType, FS_EmptySet DEF RowsOf, QuestionsOf
  <1> QED BY <1>1, <1>2, <1>3

\* The first n of more than n numbers are some of them and not all.
LEMMA FirstShape ==
  ASSUME NEW S \in SUBSET Nat, IsFiniteSet(S), NEW n \in Nat \ {0}, n < Cardinality(S)
  PROVE  First(n, S) \in SUBSET S /\ First(n, S) # {} /\ S \ First(n, S) # {}
  <1> DEFINE rank == [x \in S |-> x]
             count == [x \in S |-> Cardinality(Lower(S, rank, x))]
  <1>1. rank \in [S -> Nat] /\ \A x, y \in S : rank[x] = rank[y] => x = y
    OBVIOUS
  <1>2. \A x \in S : Lower(S, rank, x) = {y \in S : y < x}
    BY DEF Lower
  <1>3. Cardinality(S) \in Nat /\ S # {}
    BY FS_CardinalityType, FS_EmptySet
  <1> HIDE DEF rank
  <1>4. /\ \A x \in S : count[x] \in 0..Cardinality(S)-1
        /\ \A x, y \in S : count[x] = count[y] => x = y
    BY <1>1, LowerCounts
  <1>5. First(n, S) = {x \in S : count[x] < n}
    BY <1>2 DEF First
  <1>6. First(n, S) # {}
    <2>1. PICK x \in S : \A y \in S : x <= y
      BY <1>3, LeastExists
    <2>2. x \in Nat /\ \A y \in S : y \in Nat /\ ~(y < x)
      BY <2>1
    <2>3. Lower(S, rank, x) = {}
      BY <1>2, <2>2
    <2>4. count[x] = 0
      BY <2>3, FS_EmptySet
    <2>5. 0 < n
      OBVIOUS
    <2> HIDE DEF count
    <2> QED BY <1>5, <2>4, <2>5
  <1>7. First(n, S) # S
    <2> SUFFICES ASSUME First(n, S) = S PROVE FALSE
      OBVIOUS
    <2>1. \A x \in S : count[x] \in 0..n-1
      <3> SUFFICES ASSUME NEW x \in S PROVE count[x] \in 0..n-1
        OBVIOUS
      <3>1. x \in First(n, S)
        OBVIOUS
      <3>2. count[x] < n
        BY <1>5, <3>1
      <3>3. count[x] \in 0..Cardinality(S)-1
        BY <1>4
      <3> HIDE DEF count
      <3> QED BY <1>3, <3>2, <3>3
    <2>2. IsFiniteSet(0..n-1) /\ Cardinality(0..n-1) = n
      BY FS_Interval
    <2>3. count \in [S -> 0..n-1]
      BY <2>1
    <2> HIDE DEF count
    <2>4. count \in Injection(S, 0..n-1)
      BY <1>4, <2>3 DEF Injection, IsInjective
    <2>5. Cardinality(S) <= n
      BY <2>2, <2>4, FS_Injection
    <2> QED BY <1>3, <2>5
  <1> QED BY <1>5, <1>6, <1>7

Size(w) == RowsOf(w) + QuestionsOf(w)

\* A pair of smaller windows that has each cell of w in one of them.
Halves(pair, w) ==
    /\ pair[1] \in Windows /\ pair[2] \in Windows
    /\ Inside(pair[1], w) /\ Inside(pair[2], w) /\ Disjoint(pair[1], pair[2])
    /\ Size(pair[1]) < Size(w) /\ Size(pair[2]) < Size(w)
    /\ \A q \in w.questions, r \in w.rows :
          \/ q \in pair[1].questions /\ r \in pair[1].rows
          \/ q \in pair[2].questions /\ r \in pair[2].rows

\* A part of a finite set has fewer members.
LEMMA FewerMembers ==
  ASSUME NEW S, IsFiniteSet(S), NEW T \in SUBSET S, T # S
  PROVE  Cardinality(T) < Cardinality(S) /\ Cardinality(T) \in Nat /\ Cardinality(S) \in Nat
  <1>1. /\ IsFiniteSet(T) /\ Cardinality(T) <= Cardinality(S)
        /\ Cardinality(S) = Cardinality(T) => S = T
    BY FS_Subset
  <1>2. Cardinality(T) \in Nat /\ Cardinality(S) \in Nat
    BY <1>1, FS_CardinalityType
  <1> QED BY <1>1, <1>2

LEMMA RowsHalved ==
  ASSUME NEW w \in Windows, NEW n \in Nat \ {0}, n < RowsOf(w)
  PROVE  Halves(RowsAt(w, n), w)
  <1> DEFINE F == First(n, w.rows)
             a == [w EXCEPT !.rows = F]
             c == [w EXCEPT !.rows = w.rows \ F]
  <1>1. /\ w.rows \in SUBSET Nat /\ IsFiniteSet(w.rows)
        /\ w.rows \in SUBSET Rows /\ w.questions \in SUBSET Questions /\ w.questions # {}
        /\ w.questions \subseteq w.catalogue /\ w.catalogue \in Catalogues /\ w.reask \in BOOLEAN
        /\ w = [rows |-> w.rows, questions |-> w.questions, catalogue |-> w.catalogue, reask |-> w.reask]
        /\ QuestionsOf(w) \in Nat
    BY WindowShape, QuestionAssumption
  <1>2. F \in SUBSET w.rows /\ F # {} /\ w.rows \ F # {}
    BY <1>1, FirstShape DEF RowsOf
  <1>3. RowsAt(w, n) = <<a, c>>
    BY DEF RowsAt
  <1> HIDE DEF F
  <1>4. /\ a = [rows |-> F, questions |-> w.questions, catalogue |-> w.catalogue, reask |-> w.reask]
        /\ c = [rows |-> w.rows \ F, questions |-> w.questions, catalogue |-> w.catalogue, reask |-> w.reask]
    <2>1. w = [rows |-> w.rows, questions |-> w.questions, catalogue |-> w.catalogue, reask |-> w.reask]
      BY <1>1, Zenon
    <2> QED BY <2>1
  <1> HIDE DEF a, c
  <1>5. a \in Windows /\ c \in Windows
    BY <1>1, <1>2, <1>4 DEF Windows
  <1>6. Inside(a, w) /\ Inside(c, w) /\ Disjoint(a, c)
    BY <1>2, <1>4 DEF Inside, Disjoint
  <1>7. Cardinality(F) < Cardinality(w.rows) /\ Cardinality(w.rows \ F) < Cardinality(w.rows)
        /\ Cardinality(F) \in Nat /\ Cardinality(w.rows \ F) \in Nat /\ Cardinality(w.rows) \in Nat
    BY <1>1, <1>2, FewerMembers
  <1>8. Size(a) < Size(w) /\ Size(c) < Size(w)
    BY <1>1, <1>4, <1>7 DEF Size, RowsOf, QuestionsOf
  <1>9. \A q \in w.questions, r \in w.rows :
            (q \in a.questions /\ r \in a.rows) \/ (q \in c.questions /\ r \in c.rows)
    BY <1>2, <1>4
  <1> QED BY <1>3, <1>5, <1>6, <1>8, <1>9 DEF Halves

LEMMA QuestionsHalved ==
  ASSUME NEW w \in Windows, NEW n \in Nat \ {0}, n < QuestionsOf(w)
  PROVE  Halves(QuestionsAt(w, n), w)
  <1> DEFINE F == First(n, w.questions)
             a == [w EXCEPT !.questions = F]
             c == [w EXCEPT !.questions = w.questions \ F]
  <1>1. /\ w.questions \in SUBSET Nat /\ IsFiniteSet(w.questions)
        /\ w.questions \in SUBSET Questions /\ w.rows \in SUBSET Rows /\ w.rows # {}
        /\ w.questions \subseteq w.catalogue /\ w.catalogue \in Catalogues /\ w.reask \in BOOLEAN
        /\ w = [rows |-> w.rows, questions |-> w.questions, catalogue |-> w.catalogue, reask |-> w.reask]
        /\ RowsOf(w) \in Nat
    BY WindowShape, QuestionAssumption
  <1>2. F \in SUBSET w.questions /\ F # {} /\ w.questions \ F # {}
    BY <1>1, FirstShape DEF QuestionsOf
  <1>3. QuestionsAt(w, n) = <<a, c>>
    BY DEF QuestionsAt
  <1> HIDE DEF F
  <1>4. /\ a = [rows |-> w.rows, questions |-> F, catalogue |-> w.catalogue, reask |-> w.reask]
        /\ c = [rows |-> w.rows, questions |-> w.questions \ F, catalogue |-> w.catalogue, reask |-> w.reask]
    <2>1. w = [rows |-> w.rows, questions |-> w.questions, catalogue |-> w.catalogue, reask |-> w.reask]
      BY <1>1, Zenon
    <2> QED BY <2>1
  <1> HIDE DEF a, c
  <1>5. a \in Windows /\ c \in Windows
    BY <1>1, <1>2, <1>4 DEF Windows
  <1>6. Inside(a, w) /\ Inside(c, w) /\ Disjoint(a, c)
    BY <1>2, <1>4 DEF Inside, Disjoint
  <1>7. Cardinality(F) < Cardinality(w.questions)
        /\ Cardinality(w.questions \ F) < Cardinality(w.questions)
        /\ Cardinality(F) \in Nat /\ Cardinality(w.questions \ F) \in Nat /\ Cardinality(w.questions) \in Nat
    BY <1>1, <1>2, FewerMembers
  <1>8. Size(a) < Size(w) /\ Size(c) < Size(w)
    BY <1>1, <1>4, <1>7 DEF Size, RowsOf, QuestionsOf
  <1>9. \A q \in w.questions, r \in w.rows :
            (q \in a.questions /\ r \in a.rows) \/ (q \in c.questions /\ r \in c.rows)
    BY <1>2, <1>4
  <1> QED BY <1>3, <1>5, <1>6, <1>8, <1>9 DEF Halves

LEMMA SplitHalves ==
  ASSUME NEW w \in Windows, ~Single(w)
  PROVE  /\ Halves(Split(w), w)
         /\ \A kind : Halves(SplitResource(w, kind), w) /\ \E a, c : SplitResource(w, kind) = <<a, c>>
  <1>1. RowsOf(w) \in Nat \ {0} /\ QuestionsOf(w) \in Nat \ {0}
    BY WindowShape
  <1>2. ASSUME RowsOf(w) > 1 PROVE Halves(RowsAt(w, RowsOf(w) \div 2), w)
    <2>1. RowsOf(w) \div 2 \in Nat \ {0} /\ RowsOf(w) \div 2 < RowsOf(w)
      BY <1>1, <1>2
    <2> QED BY <2>1, RowsHalved
  <1>3. ASSUME QuestionsOf(w) > 1 PROVE Halves(QuestionsAt(w, QuestionsOf(w) \div 2), w)
    <2>1. QuestionsOf(w) \div 2 \in Nat \ {0} /\ QuestionsOf(w) \div 2 < QuestionsOf(w)
      BY <1>1, <1>3
    <2> QED BY <2>1, QuestionsHalved
  <1>4. RowsOf(w) > 1 \/ QuestionsOf(w) > 1
    BY <1>1 DEF Single
  <1>5. \/ Split(w) = RowsAt(w, RowsOf(w) \div 2) /\ RowsOf(w) > 1
        \/ Split(w) = QuestionsAt(w, QuestionsOf(w) \div 2) /\ QuestionsOf(w) > 1
    <2>1. CASE RowsOf(w) > 1 /\ (QuestionsOf(w) <= 1
                                 \/ RowsOf(w) * RowBytes >= QuestionsOf(w) * QuestionBytes)
      <3>1. Split(w) = RowsAt(w, RowsOf(w) \div 2)
        BY <2>1 DEF Split
      <3> QED BY <2>1, <3>1, Zenon
    <2>2. CASE ~(RowsOf(w) > 1 /\ (QuestionsOf(w) <= 1
                                 \/ RowsOf(w) * RowBytes >= QuestionsOf(w) * QuestionBytes))
      <3>1. Split(w) = QuestionsAt(w, QuestionsOf(w) \div 2)
        BY <2>2 DEF Split
      <3>2. QuestionsOf(w) > 1
        BY <1>1, <1>4, <2>2
      <3> QED BY <3>1, <3>2
    <2> QED BY <2>1, <2>2
  <1>6. Halves(Split(w), w)
    BY <1>2, <1>3, <1>5
  <1>7. (\E a, c : Split(w) = <<a, c>>) /\ \A n : \E a, c : QuestionsAt(w, n) = <<a, c>>
    BY <1>5 DEF RowsAt, QuestionsAt
  <1>8. ASSUME NEW kind
        PROVE  Halves(SplitResource(w, kind), w) /\ \E a, c : SplitResource(w, kind) = <<a, c>>
    <2>1. CASE kind = "output" /\ QuestionsOf(w) > 1
      BY <1>3, <1>7, <2>1 DEF SplitResource
    <2>2. CASE ~(kind = "output" /\ QuestionsOf(w) > 1)
      BY <1>6, <1>7, <2>2 DEF SplitResource
    <2> QED BY <2>1, <2>2
  <1> QED BY <1>6, <1>8

-----------------------------------------------------------------------------
(* Planning divides a window into windows that are within the ceilings.      *)

Pair(w) ==
    IF RowsOf(w) > MaxRows THEN RowsAt(w, MaxRows)
    ELSE IF QuestionsOf(w) > MaxQuestions THEN QuestionsAt(w, MaxQuestions)
    ELSE Split(w)

LEMMA PairHalves ==
  ASSUME NEW w \in Windows, ~Whole(w)
  PROVE  Halves(Pair(w), w)
  <1>1. RowsOf(w) \in Nat /\ QuestionsOf(w) \in Nat
    BY WindowShape
  <1>2. MaxRows \in Nat \ {0} /\ MaxQuestions \in Nat \ {0}
    BY QuestionAssumption
  <1>3. CASE RowsOf(w) > MaxRows
    <2>1. MaxRows < RowsOf(w)
      BY <1>1, <1>2, <1>3
    <2>2. Pair(w) = RowsAt(w, MaxRows)
      BY <1>3 DEF Pair
    <2> QED BY <1>2, <2>1, <2>2, RowsHalved
  <1>4. CASE ~(RowsOf(w) > MaxRows) /\ QuestionsOf(w) > MaxQuestions
    <2>1. MaxQuestions < QuestionsOf(w)
      BY <1>1, <1>2, <1>4
    <2>2. Pair(w) = QuestionsAt(w, MaxQuestions)
      BY <1>4 DEF Pair
    <2> QED BY <1>2, <2>1, <2>2, QuestionsHalved
  <1>5. CASE ~(RowsOf(w) > MaxRows) /\ ~(QuestionsOf(w) > MaxQuestions)
    <2>1. TooLarge(w)
      BY <1>5 DEF Whole
    <2>2. ~Single(w)
      <3> SUFFICES ASSUME Single(w) PROVE FALSE
        OBVIOUS
      <3>1. 1 * RowBytes + 1 * QuestionBytes > MaxInputBytes
        BY <2>1 DEF TooLarge, Single
      <3> QED BY <3>1, QuestionAssumption
    <2>3. Pair(w) = Split(w)
      BY <1>5 DEF Pair
    <2> QED BY <2>2, <2>3, SplitHalves
  <1> QED BY <1>3, <1>4, <1>5

PlanBody(f, w) == IF Whole(w) THEN <<w>> ELSE f[Pair(w)[1]] \o f[Pair(w)[2]]

LEMMA SizeType ==
  ASSUME NEW w \in Windows
  PROVE  Size(w) \in Nat \ {0}
  BY WindowShape DEF Size

\* The plans of all windows exist.
LEMMA PlanExists ==
  \E f \in [Windows -> Seq(Windows)] : \A w \in Windows : f[w] = PlanBody(f, w)
  <1> DEFINE T == [Windows -> Seq(Windows)]
             b == [w \in Windows |-> << >>]
             step == [p \in Nat \X T |-> [w \in Windows |-> PlanBody(p[2], w)]]
  <1>1. b \in T
    OBVIOUS
  <1>2. ASSUME NEW f \in T, NEW w \in Windows PROVE PlanBody(f, w) \in Seq(Windows)
    <2>1. CASE Whole(w)
      BY <2>1 DEF PlanBody
    <2>2. CASE ~Whole(w)
      <3>1. Pair(w)[1] \in Windows /\ Pair(w)[2] \in Windows
        BY <2>2, PairHalves DEF Halves
      <3>2. f[Pair(w)[1]] \in Seq(Windows) /\ f[Pair(w)[2]] \in Seq(Windows)
        BY <3>1
      <3>3. f[Pair(w)[1]] \o f[Pair(w)[2]] \in Seq(Windows)
        BY <3>2, ConcatShape
      <3> QED BY <2>2, <3>3 DEF PlanBody
    <2> QED BY <2>1, <2>2
  <1>3. step \in [Nat \X T -> T]
    BY <1>2
  <1>4. \A n \in Nat, f \in T : step[<<n, f>>] = [w \in Windows |-> PlanBody(f, w)]
    OBVIOUS
  <1> HIDE DEF T, b, step
  <1>5. PICK h \in [Nat -> T] : Iterates(h, b, step)
    BY <1>1, <1>3, RecursionExists
  <1>6. ASSUME NEW n \in Nat, NEW w \in Windows PROVE h[n+1][w] = PlanBody(h[n], w)
    <2>1. h[n] \in T /\ h[n+1] = step[<<n+1, h[n]>>] /\ n + 1 \in Nat
      BY <1>5 DEF Iterates
    <2>2. step[<<n+1, h[n]>>] = [v \in Windows |-> PlanBody(h[n], v)]
      BY <1>4, <2>1
    <2>3. h[n+1] = [v \in Windows |-> PlanBody(h[n], v)]
      BY <2>1, <2>2
    <2> QED BY <2>3
  <1> DEFINE Fixed == {n \in Nat : \A w \in Windows : Size(w) <= n => h[n+1][w] = h[n][w]}
  <1>7. Fixed = Nat
    <2>1. 0 \in Fixed
      BY SizeType
    <2>2. ASSUME NEW n \in Fixed PROVE n + 1 \in Fixed
      <3>0. n \in Nat /\ n + 1 \in Nat
        OBVIOUS
      <3> SUFFICES ASSUME NEW w \in Windows, Size(w) <= n + 1
                   PROVE  h[n+1+1][w] = h[n+1][w]
        BY <3>0
      <3>1. h[n+1+1][w] = PlanBody(h[n+1], w) /\ h[n+1][w] = PlanBody(h[n], w)
        BY <3>0, <1>6
      <3>2. CASE Whole(w)
        BY <3>1, <3>2 DEF PlanBody
      <3>3. CASE ~Whole(w)
        <4>1. /\ Pair(w)[1] \in Windows /\ Size(Pair(w)[1]) < Size(w)
              /\ Pair(w)[2] \in Windows /\ Size(Pair(w)[2]) < Size(w)
          BY <3>3, PairHalves DEF Halves
        <4>2. Size(Pair(w)[1]) <= n /\ Size(Pair(w)[2]) <= n
          BY <3>0, <4>1, SizeType
        <4>3. h[n+1][Pair(w)[1]] = h[n][Pair(w)[1]] /\ h[n+1][Pair(w)[2]] = h[n][Pair(w)[2]]
          BY <4>1, <4>2
        <4> QED BY <3>1, <3>3, <4>3 DEF PlanBody
      <3> QED BY <3>2, <3>3
    <2>3. Fixed \in SUBSET Nat
      OBVIOUS
    <2> HIDE DEF Fixed
    <2> QED BY <2>1, <2>2, <2>3, AllNaturals
  <1>8. \A n \in Nat : \A w \in Windows : Size(w) <= n => h[n+1][w] = h[n][w]
    <2> SUFFICES ASSUME NEW n \in Nat PROVE \A w \in Windows : Size(w) <= n => h[n+1][w] = h[n][w]
      OBVIOUS
    <2>1. n \in Fixed
      <3> HIDE DEF Fixed
      <3> QED BY <1>7
    <2> QED BY <2>1
  <1> HIDE DEF Fixed
  <1> DEFINE f == [w \in Windows |-> h[Size(w)][w]]
             Steady == {n \in Nat : \A w \in Windows : Size(w) <= n => h[n][w] = f[w]}
  <1>9. Steady = Nat
    <2>1. 0 \in Steady
      BY SizeType
    <2>2. ASSUME NEW n \in Steady PROVE n + 1 \in Steady
      <3>0. n \in Nat /\ n + 1 \in Nat
        OBVIOUS
      <3> SUFFICES ASSUME NEW w \in Windows, Size(w) <= n + 1
                   PROVE  h[n+1][w] = f[w]
        BY <3>0
      <3>1. CASE Size(w) <= n
        BY <1>8, <3>0, <3>1
      <3>2. CASE Size(w) = n + 1
        BY <3>2
      <3> QED BY <3>0, <3>1, <3>2, SizeType
    <2>3. Steady \in SUBSET Nat
      OBVIOUS
    <2> HIDE DEF Steady
    <2> QED BY <2>1, <2>2, <2>3, AllNaturals
  <1>10. \A n \in Nat : \A w \in Windows : Size(w) <= n => h[n][w] = f[w]
    <2> SUFFICES ASSUME NEW n \in Nat PROVE \A w \in Windows : Size(w) <= n => h[n][w] = f[w]
      OBVIOUS
    <2>1. n \in Steady
      <3> HIDE DEF Steady
      <3> QED BY <1>9
    <2> QED BY <2>1
  <1> HIDE DEF Steady
  <1>11. f \in [Windows -> Seq(Windows)]
    BY SizeType DEF T
  <1>12. ASSUME NEW w \in Windows PROVE f[w] = PlanBody(f, w)
    <2> DEFINE n == Size(w) - 1
    <2>1. n \in Nat /\ n + 1 = Size(w) /\ n < Size(w)
      BY SizeType
    <2>2. f[w] = PlanBody(h[n], w)
      BY <1>6, <2>1
    <2> HIDE DEF f
    <2>3. CASE Whole(w)
      BY <2>2, <2>3 DEF PlanBody
    <2>4. CASE ~Whole(w)
      <3>1. /\ Pair(w)[1] \in Windows /\ Size(Pair(w)[1]) < Size(w)
            /\ Pair(w)[2] \in Windows /\ Size(Pair(w)[2]) < Size(w)
        BY <2>4, PairHalves DEF Halves
      <3>2. Size(Pair(w)[1]) <= n /\ Size(Pair(w)[2]) <= n
        BY <2>1, <3>1, SizeType
      <3>3. h[n][Pair(w)[1]] = f[Pair(w)[1]] /\ h[n][Pair(w)[2]] = f[Pair(w)[2]]
        BY <1>10, <2>1, <3>1, <3>2
      <3> QED BY <2>2, <2>4, <3>3 DEF PlanBody
    <2> QED BY <2>3, <2>4
  <1> HIDE DEF f
  <1> QED BY <1>11, <1>12

LEMMA PlanType ==
  /\ Plan \in [Windows -> Seq(Windows)]
  /\ \A w \in Windows : Plan[w] = PlanBody(Plan, w)
  <1> DEFINE Body(f, w) ==
               LET Both(pair) == f[pair[1]] \o f[pair[2]] IN
               IF RowsOf(w) > MaxRows THEN Both(RowsAt(w, MaxRows))
               ELSE IF QuestionsOf(w) > MaxQuestions THEN Both(QuestionsAt(w, MaxQuestions))
               ELSE IF TooLarge(w) THEN Both(Split(w))
               ELSE <<w>>
  <1>1. \A f, w : Body(f, w) = PlanBody(f, w)
    BY DEF PlanBody, Whole, Pair
  <1>2. Plan = CHOOSE f : f = [w \in Windows |-> Body(f, w)]
    BY DEF Plan
  <1> HIDE DEF Body
  <1>3. PICK f \in [Windows -> Seq(Windows)] : \A w \in Windows : f[w] = PlanBody(f, w)
    BY PlanExists
  <1>4. f = [w \in Windows |-> Body(f, w)]
    BY <1>1, <1>3
  <1>5. Plan = [w \in Windows |-> Body(Plan, w)]
    BY <1>2, <1>4
  <1>6. \A w \in Windows : Plan[w] = PlanBody(Plan, w)
    BY <1>1, <1>5
  <1> DEFINE Planned == {n \in Nat : \A w \in Windows : Size(w) <= n => Plan[w] \in Seq(Windows)}
  <1>7. Planned = Nat
    <2>1. 0 \in Planned
      BY SizeType
    <2>2. ASSUME NEW n \in Planned PROVE n + 1 \in Planned
      <3>0. n \in Nat /\ n + 1 \in Nat
        OBVIOUS
      <3> SUFFICES ASSUME NEW w \in Windows, Size(w) <= n + 1
                   PROVE  Plan[w] \in Seq(Windows)
        BY <3>0
      <3>1. CASE Whole(w)
        <4>1. Plan[w] = <<w>>
          BY <1>6, <3>1 DEF PlanBody
        <4> QED BY <4>1
      <3>2. CASE ~Whole(w)
        <4>1. /\ Pair(w)[1] \in Windows /\ Size(Pair(w)[1]) < Size(w)
              /\ Pair(w)[2] \in Windows /\ Size(Pair(w)[2]) < Size(w)
          BY <3>2, PairHalves DEF Halves
        <4>2. Size(Pair(w)[1]) <= n /\ Size(Pair(w)[2]) <= n
          BY <3>0, <4>1, SizeType
        <4>3. Plan[Pair(w)[1]] \in Seq(Windows) /\ Plan[Pair(w)[2]] \in Seq(Windows)
          BY <4>1, <4>2
        <4>4. Plan[w] = Plan[Pair(w)[1]] \o Plan[Pair(w)[2]]
          BY <1>6, <3>2 DEF PlanBody
        <4> QED BY <4>3, <4>4, ConcatShape
      <3> QED BY <3>1, <3>2
    <2>3. Planned \in SUBSET Nat
      OBVIOUS
    <2> HIDE DEF Planned
    <2> QED BY <2>1, <2>2, <2>3, AllNaturals
  <1>8. \A w \in Windows : Plan[w] \in Seq(Windows)
    <2> SUFFICES ASSUME NEW w \in Windows PROVE Plan[w] \in Seq(Windows)
      OBVIOUS
    <2>1. Size(w) \in Planned
      <3> HIDE DEF Planned
      <3> QED BY <1>7, SizeType
    <2> QED BY <2>1, SizeType
  <1>9. Plan = [w \in Windows |-> Plan[w]]
    BY <1>5
  <1> QED BY <1>6, <1>8, <1>9

LEMMA JoinDivides ==
  ASSUME NEW w \in Windows, NEW pair, Halves(pair, w),
         NEW s, Divides(s, pair[1]), NEW t, Divides(t, pair[2])
  PROVE  Divides(s \o t, w)
  <1> DEFINE u == s \o t
  <1>1. s \in Seq(Windows) /\ t \in Seq(Windows) /\ Apart(s) /\ Apart(t)
    BY DEF Divides
  <1>2. Between(s, t)
    <2> SUFFICES ASSUME NEW i \in DOMAIN s, NEW j \in DOMAIN t PROVE Disjoint(s[i], t[j])
      BY DEF Between
    <2>1. Inside(s[i], pair[1]) /\ Inside(t[j], pair[2]) /\ Disjoint(pair[1], pair[2])
      BY DEF Divides, Halves
    <2> QED BY <2>1 DEF Inside, Disjoint
  <1>3. u \in Seq(Windows) /\ Joins(u, s, t) /\ Apart(u)
    BY <1>1, <1>2, ConcatShape
  <1> HIDE DEF u
  <1>4. ASSUME NEW k \in DOMAIN u PROVE Inside(u[k], w) /\ Whole(u[k])
    <2>1. Inside(pair[1], w) /\ Inside(pair[2], w)
      BY DEF Halves
    <2>2. CASE \E i \in DOMAIN s : u[k] = s[i]
      <3>1. PICK i \in DOMAIN s : u[k] = s[i]
        BY <2>2
      <3>2. Inside(s[i], pair[1]) /\ Whole(s[i])
        BY DEF Divides
      <3> QED BY <2>1, <3>1, <3>2 DEF Inside
    <2>3. CASE \E i \in DOMAIN t : u[k] = t[i]
      <3>1. PICK i \in DOMAIN t : u[k] = t[i]
        BY <2>3
      <3>2. Inside(t[i], pair[2]) /\ Whole(t[i])
        BY DEF Divides
      <3> QED BY <2>1, <3>1, <3>2 DEF Inside
    <2> QED BY <1>3, <2>2, <2>3 DEF Joins
  <1>5. ASSUME NEW q \in w.questions, NEW r \in w.rows
        PROVE  \E k \in DOMAIN u : q \in u[k].questions /\ r \in u[k].rows
    <2>1. CASE q \in pair[1].questions /\ r \in pair[1].rows
      <3>1. PICK i \in DOMAIN s : q \in s[i].questions /\ r \in s[i].rows
        BY <2>1 DEF Divides
      <3> QED BY <1>3, <3>1 DEF Joins
    <2>2. CASE q \in pair[2].questions /\ r \in pair[2].rows
      <3>1. PICK i \in DOMAIN t : q \in t[i].questions /\ r \in t[i].rows
        BY <2>2 DEF Divides
      <3> QED BY <1>3, <3>1 DEF Joins
    <2> QED BY <2>1, <2>2 DEF Halves
  <1>6. Divides(u, w)
    BY <1>3, <1>4, <1>5 DEF Divides
  <1> QED BY <1>6 DEF u

LEMMA WholeDivides ==
  ASSUME NEW w \in Windows, Whole(w)
  PROVE  Divides(<<w>>, w)
  <1>1. <<w>> \in Seq(Windows) /\ DOMAIN <<w>> = {1} /\ <<w>>[1] = w
    OBVIOUS
  <1> QED BY <1>1 DEF Divides, Apart, Inside

\* The plan of a window divides it, whatever its size and the ceilings.
LEMMA PlanDivides ==
  ASSUME NEW w \in Windows
  PROVE  Divides(Plan[w], w)
  <1> DEFINE Good == {n \in Nat : \A v \in Windows : Size(v) <= n => Divides(Plan[v], v)}
  <1>1. Good = Nat
    <2>1. 0 \in Good
      BY SizeType
    <2>2. ASSUME NEW n \in Good PROVE n + 1 \in Good
      <3>0. n \in Nat /\ n + 1 \in Nat
        OBVIOUS
      <3> SUFFICES ASSUME NEW v \in Windows, Size(v) <= n + 1
                   PROVE  Divides(Plan[v], v)
        BY <3>0
      <3>1. CASE Whole(v)
        BY <3>1, PlanType, WholeDivides DEF PlanBody
      <3>2. CASE ~Whole(v)
        <4>1. Halves(Pair(v), v)
          BY <3>2, PairHalves
        <4>2. /\ Pair(v)[1] \in Windows /\ Size(Pair(v)[1]) < Size(v)
              /\ Pair(v)[2] \in Windows /\ Size(Pair(v)[2]) < Size(v)
          BY <4>1 DEF Halves
        <4>3. Size(Pair(v)[1]) <= n /\ Size(Pair(v)[2]) <= n
          BY <3>0, <4>2, SizeType
        <4>4. Divides(Plan[Pair(v)[1]], Pair(v)[1]) /\ Divides(Plan[Pair(v)[2]], Pair(v)[2])
          BY <4>2, <4>3
        <4>5. Plan[v] = Plan[Pair(v)[1]] \o Plan[Pair(v)[2]]
          BY <3>2, PlanType DEF PlanBody
        <4> HIDE DEF Good
        <4> QED BY <4>1, <4>4, <4>5, JoinDivides
      <3> QED BY <3>1, <3>2
    <2>3. Good \in SUBSET Nat
      OBVIOUS
    <2> HIDE DEF Good
    <2> QED BY <2>1, <2>2, <2>3, AllNaturals
  <1>2. Size(w) \in Good
    <2> HIDE DEF Good
    <2> QED BY <1>1, SizeType
  <1> QED BY <1>2, SizeType

\* The windows of u are within the ceilings and have the cells of those of s.
Spreads(u, s) ==
    /\ u \in Seq(Windows) /\ Apart(u)
    /\ \A k \in DOMAIN u : Whole(u[k]) /\ \E i \in DOMAIN s : Inside(u[k], s[i])
    /\ \A i \in DOMAIN s : \A q \in s[i].questions, r \in s[i].rows :
          \E k \in DOMAIN u : q \in u[k].questions /\ r \in u[k].rows

LEMMA PlanAllShape ==
  ASSUME NEW s \in Seq(Windows), Apart(s)
  PROVE  Spreads(PlanAll(s), s)
  <1> DEFINE ss == [i \in DOMAIN s |-> Plan[s[i]]]
             u == FlattenSeq(ss)
  <1>1. Len(s) \in Nat /\ DOMAIN s = 1..Len(s) /\ \A i \in DOMAIN s : s[i] \in Windows
    OBVIOUS
  <1>2. \A i \in DOMAIN s : ss[i] \in Seq(Windows) /\ Divides(ss[i], s[i])
    BY <1>1, PlanDivides DEF Divides
  <1>3. DOMAIN ss = DOMAIN s /\ ss = [i \in DOMAIN s |-> ss[i]]
    OBVIOUS
  <1>4. PlanAll(s) = u
    BY DEF PlanAll
  <1> HIDE DEF ss
  <1>5. ss \in Seq(Seq(Windows))
    BY <1>1, <1>2, <1>3
  <1>6. \A i \in DOMAIN ss : Apart(ss[i])
    BY <1>2, <1>3 DEF Divides
  <1>7. \A i, j \in DOMAIN ss : i # j => Between(ss[i], ss[j])
    <2> SUFFICES ASSUME NEW i \in DOMAIN s, NEW j \in DOMAIN s, i # j,
                        NEW k \in DOMAIN ss[i], NEW l \in DOMAIN ss[j]
                 PROVE  Disjoint(ss[i][k], ss[j][l])
      BY <1>3 DEF Between
    <2>1. Inside(ss[i][k], s[i]) /\ Inside(ss[j][l], s[j]) /\ Disjoint(s[i], s[j])
      BY <1>2 DEF Divides, Apart
    <2> QED BY <2>1 DEF Inside, Disjoint
  <1>8. /\ u \in Seq(Windows) /\ Apart(u)
        /\ \A k \in DOMAIN u : \E i \in DOMAIN ss : \E j \in DOMAIN ss[i] : u[k] = ss[i][j]
        /\ \A i \in DOMAIN ss : \A j \in DOMAIN ss[i] : \E k \in DOMAIN u : u[k] = ss[i][j]
    BY <1>5, <1>6, <1>7, FlattenShape
  <1> HIDE DEF u
  <1>9. ASSUME NEW k \in DOMAIN u PROVE Whole(u[k]) /\ \E i \in DOMAIN s : Inside(u[k], s[i])
    <2>1. PICK i \in DOMAIN ss : \E j \in DOMAIN ss[i] : u[k] = ss[i][j]
      BY <1>8
    <2>2. PICK j \in DOMAIN ss[i] : u[k] = ss[i][j]
      BY <2>1
    <2> QED BY <1>2, <1>3, <2>2 DEF Divides
  <1>10. ASSUME NEW i \in DOMAIN s, NEW q \in s[i].questions, NEW r \in s[i].rows
         PROVE  \E k \in DOMAIN u : q \in u[k].questions /\ r \in u[k].rows
    <2>1. PICK j \in DOMAIN ss[i] : q \in ss[i][j].questions /\ r \in ss[i][j].rows
      BY <1>2 DEF Divides
    <2>2. PICK k \in DOMAIN u : u[k] = ss[i][j]
      BY <1>3, <1>8
    <2> QED BY <2>1, <2>2
  <1>11. Spreads(u, s)
    BY <1>8, <1>9, <1>10 DEF Spreads
  <1> QED BY <1>4, <1>11

-----------------------------------------------------------------------------
(* Applying outcomes to one question.                                        *)

In(w, q, r) == q \in w.questions /\ r \in w.rows

LEMMA RequestShape ==
  /\ \A w \in Windows : Request(w) \in Requests /\ Request(w) # Nobody /\ Request(w).rows = w.rows
  /\ \A v, w \in Windows : Request(v) = Request(w) => v.rows = w.rows /\ v.questions = w.questions
  <1>1. \A w \in Windows : Request(w) \in Requests
    BY DEF Requests
  <1>2. \A w : Request(w).rows = w.rows
             /\ Request(w).keyed = {<<q, Cardinality({p \in w.catalogue : p <= q})>> : q \in w.questions}
    BY DEF Request
  <1>3. \A w \in Windows : Request(w) # Nobody
    <2> SUFFICES ASSUME NEW w \in Windows PROVE Request(w) # Nobody
      OBVIOUS
    <2>1. w.rows # {}
      BY WindowShape
    <2>2. Nobody.rows = {}
      BY DEF Nobody
    <2> QED BY <1>2, <2>1, <2>2
  <1>4. ASSUME NEW v \in Windows, NEW w \in Windows, Request(v).keyed = Request(w).keyed,
               NEW q \in v.questions
        PROVE  q \in w.questions
    <2>1. <<q, Cardinality({p \in v.catalogue : p <= q})>> \in Request(v).keyed
      BY <1>2
    <2> DEFINE key(x) == <<x, Cardinality({p \in w.catalogue : p <= x})>>
    <2>2. Request(w).keyed = {key(x) : x \in w.questions}
      BY <1>2
    <2>3. \A x, n : <<q, n>> = key(x) => q = x
      OBVIOUS
    <2> HIDE DEF key
    <2>4. <<q, Cardinality({p \in v.catalogue : p <= q})>> \in {key(x) : x \in w.questions}
      BY <1>4, <2>1, <2>2
    <2> QED BY <2>3, <2>4
  <1>5. ASSUME NEW v \in Windows, NEW w \in Windows, Request(v) = Request(w)
        PROVE  v.rows = w.rows /\ v.questions = w.questions
    BY <1>2, <1>4, <1>5
  <1> QED BY <1>1, <1>2, <1>3, <1>5

Findings == [cells : [Rows -> Requests \cup {Nobody}], windows : Seq(Windows)]

\* Outcome i finds the cell of q and r.
Finds(windows, outcomes, q, i, r) ==
    In(windows[i], q, r) /\ r \in Decides(outcomes[i], windows[i], q)

\* Each open cell is found once at most, and no other is found.
FindsApart(s, windows, outcomes, q) ==
    \A i \in DOMAIN windows : \A r \in Rows : Finds(windows, outcomes, q, i, r) =>
        /\ s.cells[r] = Nobody
        /\ \A j \in DOMAIN windows : Finds(windows, outcomes, q, j, r) => i = j

\* What applying the first n outcomes to s has come to, when it comes to t.
Applied(s, t, windows, outcomes, q, n) ==
    /\ t \in Findings
    /\ \A r \in Rows : s.cells[r] # Nobody => t.cells[r] # Nobody
    /\ \A r \in Rows : t.cells[r] # s.cells[r] => \E i \in 1..n : Finds(windows, outcomes, q, i, r)
    /\ FindsApart(s, windows, outcomes, q) =>
          \A i \in 1..n : \A r \in Rows : Finds(windows, outcomes, q, i, r) => t.cells[r] # Nobody

LEMMA TakenType ==
  ASSUME NEW s \in Findings, NEW w \in Windows, NEW o, NEW q
  PROVE  /\ Taken(s, w, o, q) \in Findings
         /\ \A r \in Rows : s.cells[r] # Nobody => Taken(s, w, o, q).cells[r] # Nobody
         /\ \A r \in Rows : Taken(s, w, o, q).cells[r] # s.cells[r] =>
               In(w, q, r) /\ r \in Decides(o, w, q)
         /\ (\A r \in Rows : In(w, q, r) /\ r \in Decides(o, w, q) => s.cells[r] = Nobody) =>
               \A r \in Rows : In(w, q, r) /\ r \in Decides(o, w, q) => Taken(s, w, o, q).cells[r] # Nobody
  <1> DEFINE D == Decides(o, w, q)
             c == [r \in Rows |-> IF r \in D THEN Request(w) ELSE s.cells[r]]
             t == [cells |-> c, windows |-> Append(s.windows, w)]
             Fits == q \in w.questions /\ D # {} /\ \A r \in D : s.cells[r] = Nobody
  <1>1. D \subseteq w.rows /\ w.rows \subseteq Rows
    BY WindowShape DEF Decides
  <1>2. Request(w) \in Requests /\ Request(w) # Nobody
    BY RequestShape
  <1>3. s.cells \in [Rows -> Requests \cup {Nobody}] /\ s.windows \in Seq(Windows)
    BY DEF Findings
  <1>4. Taken(s, w, o, q) = IF Fits THEN t ELSE s
    BY DEF Taken
  <1> HIDE DEF D
  <1>5. c \in [Rows -> Requests \cup {Nobody}]
    BY <1>2, <1>3
  <1>6. Append(s.windows, w) \in Seq(Windows)
    BY <1>3
  <1>7. t \in Findings
    BY <1>5, <1>6 DEF Findings
  <1>8. t.cells = c /\ \A r \in Rows : c[r] = IF r \in D THEN Request(w) ELSE s.cells[r]
    OBVIOUS
  <1> HIDE DEF t, c
  <1>9. CASE Fits
    <2>1. \A r \in Rows : In(w, q, r) /\ r \in D => c[r] # Nobody
      BY <1>2, <1>8
    <2>2. \A r \in Rows : s.cells[r] # Nobody => c[r] # Nobody
      BY <1>2, <1>8
    <2>3. \A r \in Rows : c[r] # s.cells[r] => In(w, q, r) /\ r \in D
      BY <1>1, <1>8, <1>9 DEF In
    <2> QED BY <1>4, <1>7, <1>8, <1>9, <2>1, <2>2, <2>3 DEF D
  <1>10. CASE ~Fits
    <2>1. (\A r \in Rows : In(w, q, r) /\ r \in D => s.cells[r] = Nobody) =>
             \A r \in Rows : In(w, q, r) /\ r \in D => s.cells[r] # Nobody
      BY <1>1, <1>10 DEF In
    <2> QED BY <1>4, <1>10, <2>1 DEF D
  <1> QED BY <1>9, <1>10

\* f are the findings after each of the outcomes.
Stages(f, s, windows, outcomes, q) ==
    /\ f[0] = s
    /\ \A n \in 1..Len(windows) : f[n] = Taken(f[n-1], windows[n], outcomes[n], q)
    /\ TakenAll(s, windows, outcomes, q) = f[Len(windows)]

LEMMA TakenAllStages ==
  ASSUME NEW s \in Findings, NEW windows \in Seq(Windows), NEW outcomes, NEW q
  PROVE  \E f : Stages(f, s, windows, outcomes, q)
  <1> DEFINE L == Len(windows)
             Is(f) == f = [n \in 0..L |-> IF n = 0 THEN s ELSE Taken(f[n-1], windows[n], outcomes[n], q)]
             step == [p \in Nat \X Findings |->
                        IF p[1] \in 1..L THEN Taken(p[2], windows[p[1]], outcomes[p[1]], q) ELSE p[2]]
  <1>1. L \in Nat /\ DOMAIN windows = 1..L /\ \A n \in 1..L : windows[n] \in Windows
    OBVIOUS
  <1>2. step \in [Nat \X Findings -> Findings]
    <2>1. ASSUME NEW p \in Nat \X Findings, p[1] \in 1..L
          PROVE  Taken(p[2], windows[p[1]], outcomes[p[1]], q) \in Findings
      <3>1. p[2] \in Findings /\ windows[p[1]] \in Windows
        BY <1>1, <2>1
      <3> QED BY <3>1, TakenType
    <2>2. \A p \in Nat \X Findings : p[2] \in Findings
      OBVIOUS
    <2> QED BY <2>1, <2>2
  <1>3. \A n \in Nat, t \in Findings : n \in 1..L =>
            step[<<n, t>>] = Taken(t, windows[n], outcomes[n], q)
    OBVIOUS
  <1> HIDE DEF step
  <1>4. \E f : Is(f)
    <2>1. PICK g \in [Nat -> Findings] : Iterates(g, s, step)
      BY <1>2, RecursionExists
    <2>2. g[0] = s /\ \A n \in Nat : g[n+1] = step[<<n+1, g[n]>>]
      BY <2>1 DEF Iterates
    <2> DEFINE h == [n \in 0..L |-> g[n]]
    <2>3. ASSUME NEW n \in 0..L
          PROVE  h[n] = IF n = 0 THEN s ELSE Taken(h[n-1], windows[n], outcomes[n], q)
      <3>1. CASE n = 0
        BY <2>2, <3>1
      <3>2. CASE n # 0
        <4>1. n - 1 \in Nat /\ n - 1 \in 0..L /\ (n - 1) + 1 = n /\ n \in 1..L /\ n \in Nat
          BY <1>1, <3>2
        <4>2. g[n-1] \in Findings /\ g[n] = step[<<n, g[n-1]>>]
          BY <2>2, <4>1
        <4>3. g[n] = Taken(g[n-1], windows[n], outcomes[n], q)
          BY <1>3, <4>1, <4>2
        <4> QED BY <3>2, <4>1, <4>3
      <3> QED BY <3>1, <3>2
    <2>4. Is(h)
      BY <2>3
    <2> HIDE DEF h, Is
    <2> QED BY <2>4
  <1> DEFINE f == CHOOSE g : Is(g)
  <1>5. TakenAll(s, windows, outcomes, q) = f[L]
    BY DEF TakenAll
  <1>6. Is(f)
    <2> HIDE DEF Is
    <2> QED BY <1>4
  <1> HIDE DEF f
  <1>7. f[0] = s /\ \A n \in 1..L : f[n] = Taken(f[n-1], windows[n], outcomes[n], q)
    BY <1>1, <1>6
  <1>8. Stages(f, s, windows, outcomes, q)
    BY <1>5, <1>7 DEF Stages
  <1> QED BY <1>8

LEMMA TakenAllShape ==
  ASSUME NEW s \in Findings, NEW windows \in Seq(Windows), NEW outcomes, NEW q
  PROVE  Applied(s, TakenAll(s, windows, outcomes, q), windows, outcomes, q, Len(windows))
  <1> DEFINE L == Len(windows)
  <1>1. L \in Nat /\ DOMAIN windows = 1..L /\ \A n \in 1..L : windows[n] \in Windows
    OBVIOUS
  <1>2. PICK f : Stages(f, s, windows, outcomes, q)
    BY TakenAllStages
  <1>3. /\ f[0] = s /\ \A n \in 1..L : f[n] = Taken(f[n-1], windows[n], outcomes[n], q)
        /\ TakenAll(s, windows, outcomes, q) = f[L]
    BY <1>2 DEF Stages
  <1> DEFINE Done == {n \in Nat : n \in 0..L => Applied(s, f[n], windows, outcomes, q, n)}
  <1>4. Done = Nat
    <2>1. 0 \in Done
      BY <1>3 DEF Applied
    <2>2. ASSUME NEW n \in Done PROVE n + 1 \in Done
      <3>0. n \in Nat /\ n + 1 \in Nat
        OBVIOUS
      <3> SUFFICES ASSUME n + 1 \in 0..L PROVE Applied(s, f[n+1], windows, outcomes, q, n+1)
        BY <3>0
      <3> DEFINE t == f[n]
                 u == f[n+1]
                 w == windows[n+1]
                 o == outcomes[n+1]
                 Takes(r) == Finds(windows, outcomes, q, n+1, r)
      <3>1. n \in 0..L /\ n + 1 \in 1..L /\ (n + 1) - 1 = n
        BY <1>1, <3>0
      <3>2. Applied(s, t, windows, outcomes, q, n)
        BY <3>0, <3>1
      <3>3. u = Taken(t, w, o, q) /\ w \in Windows
        BY <1>1, <1>3, <3>1
      <3>4. t \in Findings
        BY <3>2 DEF Applied
      <3> HIDE DEF t, u, w, o, Done
      <3>5. /\ u \in Findings
            /\ \A r \in Rows : t.cells[r] # Nobody => u.cells[r] # Nobody
            /\ \A r \in Rows : u.cells[r] # t.cells[r] => Takes(r)
            /\ (\A r \in Rows : Takes(r) => t.cells[r] = Nobody) =>
                  \A r \in Rows : Takes(r) => u.cells[r] # Nobody
        BY <3>3, <3>4, TakenType DEF Finds, w, o
      <3>6. \A r \in Rows : s.cells[r] # Nobody => u.cells[r] # Nobody
        BY <3>2, <3>5 DEF Applied
      <3>7. \A i : i \in 1..n => i \in 1..n+1
        BY <3>0
      <3>8. n + 1 \in 1..n+1 /\ \A i \in 1..n+1 : i \in 1..n \/ i = n + 1
        BY <3>0
      <3> HIDE DEF Takes
      <3>9. ASSUME NEW r \in Rows, u.cells[r] # s.cells[r]
            PROVE  \E i \in 1..n+1 : Finds(windows, outcomes, q, i, r)
        <4>1. CASE t.cells[r] # s.cells[r]
          BY <3>2, <3>7, <4>1 DEF Applied
        <4>2. CASE u.cells[r] # t.cells[r]
          BY <3>5, <3>8, <4>2 DEF Takes
        <4> QED BY <3>9, <4>1, <4>2
      <3>10. ASSUME FindsApart(s, windows, outcomes, q),
                    NEW i \in 1..n+1, NEW r \in Rows, Finds(windows, outcomes, q, i, r)
             PROVE  u.cells[r] # Nobody
        <4>1. CASE i \in 1..n
          BY <3>2, <3>5, <3>10, <4>1 DEF Applied
        <4>2. CASE i = n + 1
          <5>0. n + 1 \in DOMAIN windows
            BY <1>1, <3>1
          <5>1. ASSUME NEW x \in Rows, Takes(x) PROVE t.cells[x] = Nobody
            <6>1. /\ s.cells[x] = Nobody
                  /\ \A j \in DOMAIN windows : Finds(windows, outcomes, q, j, x) => n + 1 = j
              BY <3>10, <5>0, <5>1 DEF FindsApart, Takes
            <6>2. ASSUME t.cells[x] # s.cells[x] PROVE FALSE
              <7>1. PICK j \in 1..n : Finds(windows, outcomes, q, j, x)
                BY <3>2, <6>2 DEF Applied
              <7>2. j \in DOMAIN windows /\ j # n + 1
                BY <1>1, <3>0, <3>1
              <7> QED BY <6>1, <7>1, <7>2
            <6> QED BY <6>1, <6>2
          <5>2. Takes(r)
            BY <3>10, <4>2 DEF Takes
          <5> QED BY <3>5, <5>1, <5>2
        <4> QED BY <3>8, <4>1, <4>2
      <3>11. Applied(s, u, windows, outcomes, q, n+1)
        BY <3>5, <3>6, <3>9, <3>10 DEF Applied
      <3> QED BY <3>11 DEF u
    <2>3. Done \in SUBSET Nat
      OBVIOUS
    <2> HIDE DEF Done
    <2> QED BY <2>1, <2>2, <2>3, AllNaturals
  <1>5. L \in Done
    <2> HIDE DEF Done
    <2> QED BY <1>1, <1>4
  <1>6. Applied(s, f[L], windows, outcomes, q, L)
    BY <1>1, <1>5
  <1> QED BY <1>3, <1>6

-----------------------------------------------------------------------------
(* Waves.                                                                    *)

\* s has the members of windows that are chosen, each once.
Lists(s, windows, chosen) ==
    /\ s \in Seq(Windows)
    /\ \A k \in DOMAIN s : \E i \in chosen : s[k] = windows[i]
    /\ \A i \in chosen : \E k \in DOMAIN s : s[k] = windows[i]
    /\ \A k, l \in DOMAIN s : k # l =>
          \E i, j \in chosen : i # j /\ s[k] = windows[i] /\ s[l] = windows[j]

LEMMA PickedShape ==
  ASSUME NEW windows \in Seq(Windows), NEW chosen \in SUBSET DOMAIN windows
  PROVE  Lists(Picked(windows, chosen), windows, chosen)
  <1> DEFINE rank == [i \in chosen |-> i]
             order == Ranked(chosen, rank)
             s == [k \in DOMAIN order |-> windows[order[k]]]
  <1>1. Len(windows) \in Nat /\ DOMAIN windows = 1..Len(windows)
        /\ \A i \in DOMAIN windows : windows[i] \in Windows
    OBVIOUS
  <1>2. IsFiniteSet(1..Len(windows))
    BY <1>1, FS_Interval
  <1>3. IsFiniteSet(chosen)
    BY <1>1, <1>2, FS_Subset
  <1>4. rank \in [chosen -> Nat] /\ \A x, y \in chosen : rank[x] = rank[y] => x = y
    BY <1>1
  <1>5. Picked(windows, chosen) = s
    BY DEF Picked
  <1> HIDE DEF rank
  <1>6. /\ order \in Seq(chosen)
        /\ DOMAIN order = 1..Cardinality(chosen)
        /\ \A x \in chosen : \E k \in DOMAIN order : order[k] = x
        /\ \A k, l \in DOMAIN order : order[k] = order[l] => k = l
    BY <1>3, <1>4, RankedShape
  <1>7. Cardinality(chosen) \in Nat
    BY <1>3, FS_CardinalityType
  <1> HIDE DEF order
  <1>8. DOMAIN s = DOMAIN order /\ \A k \in DOMAIN order : s[k] = windows[order[k]] /\ order[k] \in chosen
    <2>1. order \in Seq(chosen)
      BY <1>6, Zenon
    <2>2. \A k \in DOMAIN order : order[k] \in chosen
      BY <2>1
    <2> QED BY <2>2
  <1>9. s \in Seq(Windows)
    <2>1. \A k \in 1..Cardinality(chosen) : windows[order[k]] \in Windows
      BY <1>1, <1>6, <1>8
    <2>2. s = [k \in 1..Cardinality(chosen) |-> windows[order[k]]]
      BY <1>6
    <2> HIDE DEF s
    <2> QED BY <1>7, <2>1, <2>2
  <1> HIDE DEF s
  <1>10. \A k, l \in DOMAIN s : k # l =>
            \E i, j \in chosen : i # j /\ s[k] = windows[i] /\ s[l] = windows[j]
    BY <1>6, <1>8
  <1>11. \A i \in chosen : \E k \in DOMAIN s : s[k] = windows[i]
    BY <1>6, <1>8
  <1>12. Lists(s, windows, chosen)
    BY <1>8, <1>9, <1>10, <1>11 DEF Lists
  <1> QED BY <1>5, <1>12

\* What a round of windows starts with, when the provider knows the rows in known.
Starts(windows, known, first, others) ==
    /\ first \in Seq(Windows) /\ others \in Seq(Windows)
    /\ Joins(windows, first, others)
    /\ Apart(windows) => Apart(first) /\ Apart(others) /\ Between(first, others)
    /\ \A i, j \in DOMAIN first : i # j /\ first[i].rows = first[j].rows => first[i].rows \in known
    /\ \A k \in DOMAIN others : others[k].rows \in known
          \/ \E j \in DOMAIN first : first[j].rows = others[k].rows

LEMMA LeadsShape ==
  ASSUME NEW windows \in Seq(Windows), NEW known, NEW i \in DOMAIN windows,
         windows[i].rows \notin known
  PROVE  \E l \in Leads(windows, known) : windows[l].rows = windows[i].rows
  <1>1. Len(windows) \in Nat /\ DOMAIN windows = 1..Len(windows)
    OBVIOUS
  <1> DEFINE S == {j \in DOMAIN windows : windows[j].rows = windows[i].rows}
  <1>2. S \in SUBSET Nat /\ S # {}
    BY <1>1
  <1> HIDE DEF S
  <1>3. PICK l \in S : \A j \in S : l <= j
    BY <1>2, LeastExists
  <1>4. l \in DOMAIN windows /\ windows[l].rows = windows[i].rows
    BY <1>3 DEF S
  <1>5. ASSUME NEW j \in 1..l-1 PROVE windows[j].rows # windows[l].rows
    <2>1. j \in DOMAIN windows /\ ~(l <= j)
      BY <1>1, <1>4
    <2> QED BY <1>3, <1>4, <2>1 DEF S
  <1>6. l \in Leads(windows, known)
    BY <1>4, <1>5 DEF Leads
  <1> QED BY <1>4, <1>6

LEMMA RoundStarts ==
  ASSUME NEW windows \in Seq(Windows), NEW known, StartRound(windows, known)
  PROVE  /\ Starts(windows, known, wave', rest')
         /\ outcome' = [i \in DOMAIN wave' |-> Unknown]
  <1> DEFINE leads == Leads(windows, known)
             others == DOMAIN windows \ leads
  <1>1. leads \in SUBSET DOMAIN windows /\ others \in SUBSET DOMAIN windows
    BY DEF Leads
  <1>2. \A i, j \in leads : i # j => windows[i].rows # windows[j].rows
    <2> SUFFICES ASSUME NEW i \in leads, NEW j \in leads, i < j
                 PROVE  windows[i].rows # windows[j].rows
      BY <1>1
    <2>1. i \in 1..j-1
      BY <1>1
    <2> QED BY <2>1 DEF Leads
  <1>3. CASE leads = {}
    <2>1. wave' = windows /\ rest' = << >> /\ outcome' = [i \in DOMAIN windows |-> Unknown]
      BY <1>3 DEF StartRound, Ask
    <2>2. \A i \in DOMAIN windows : windows[i].rows \in known
      BY <1>3, LeadsShape
    <2>3. << >> \in Seq(Windows) /\ DOMAIN << >> = {}
      OBVIOUS
    <2>4. Starts(windows, known, windows, << >>)
      BY <2>2, <2>3 DEF Starts, Joins, Apart, Between
    <2> QED BY <2>1, <2>4
  <1>4. CASE leads # {}
    <2> DEFINE a == Picked(windows, leads)
               b == Picked(windows, others)
    <2>1. wave' = a /\ rest' = b /\ outcome' = [i \in DOMAIN a |-> Unknown]
      BY <1>4 DEF StartRound, Ask
    <2>2. Lists(a, windows, leads) /\ Lists(b, windows, others)
      BY <1>1, PickedShape
    <2> HIDE DEF a, b, leads
    <2>3. Joins(windows, a, b)
      <3>1. ASSUME NEW k \in DOMAIN windows
            PROVE  (\E i \in DOMAIN a : windows[k] = a[i]) \/ (\E i \in DOMAIN b : windows[k] = b[i])
        <4>1. CASE k \in leads
          BY <2>2, <4>1 DEF Lists
        <4>2. CASE k \in others
          BY <2>2, <4>2 DEF Lists
        <4> QED BY <4>1, <4>2
      <3>2. \A i \in DOMAIN a : \E k \in DOMAIN windows : windows[k] = a[i]
        BY <1>1, <2>2 DEF Lists
      <3>3. \A i \in DOMAIN b : \E k \in DOMAIN windows : windows[k] = b[i]
        BY <1>1, <2>2 DEF Lists
      <3> QED BY <3>1, <3>2, <3>3 DEF Joins
    <2>4. ASSUME Apart(windows) PROVE Apart(a) /\ Apart(b) /\ Between(a, b)
      <3>1. Apart(a)
        BY <1>1, <2>2, <2>4 DEF Apart, Lists
      <3>2. Apart(b)
        BY <1>1, <2>2, <2>4 DEF Apart, Lists
      <3>3. Between(a, b)
        <4> SUFFICES ASSUME NEW k \in DOMAIN a, NEW l \in DOMAIN b PROVE Disjoint(a[k], b[l])
          BY DEF Between
        <4>1. PICK i \in leads : a[k] = windows[i]
          BY <2>2 DEF Lists
        <4>2. PICK j \in others : b[l] = windows[j]
          BY <2>2 DEF Lists
        <4>3. i # j /\ i \in DOMAIN windows /\ j \in DOMAIN windows
          BY <1>1
        <4> QED BY <2>4, <4>1, <4>2, <4>3 DEF Apart
      <3> QED BY <3>1, <3>2, <3>3
    <2>5. \A i, j \in DOMAIN a : i # j => a[i].rows # a[j].rows
      <3> SUFFICES ASSUME NEW k \in DOMAIN a, NEW l \in DOMAIN a, k # l
                   PROVE  a[k].rows # a[l].rows
        OBVIOUS
      <3>1. PICK i \in leads, j \in leads : i # j /\ a[k] = windows[i] /\ a[l] = windows[j]
        BY <2>2 DEF Lists
      <3> QED BY <1>2, <3>1
    <2>6. ASSUME NEW k \in DOMAIN b, b[k].rows \notin known
          PROVE  \E j \in DOMAIN a : a[j].rows = b[k].rows
      <3>1. PICK i \in DOMAIN windows : b[k] = windows[i]
        BY <2>2 DEF Lists
      <3>2. PICK l \in leads : windows[l].rows = windows[i].rows
        BY <2>6, <3>1, LeadsShape DEF leads
      <3>3. PICK j \in DOMAIN a : a[j] = windows[l]
        BY <2>2 DEF Lists
      <3> QED BY <3>1, <3>2, <3>3
    <2>7. Starts(windows, known, a, b)
      <3>1. a \in Seq(Windows) /\ b \in Seq(Windows)
        BY <2>2 DEF Lists
      <3> QED BY <2>3, <2>4, <2>5, <2>6, <3>1 DEF Starts
    <2> QED BY <2>1, <2>7
  <1> QED BY <1>3, <1>4

-----------------------------------------------------------------------------
(* What is planned: the missing cells, and the questions left out.           *)

LEMMA MinShape ==
  ASSUME NEW S \in SUBSET Nat, S # {}
  PROVE  Min(S) \in S
  <1>1. \E x \in S : \A y \in S : x <= y
    BY LeastExists
  <1> QED BY <1>1 DEF Min

\* Ranks in a finite set, that differ, make what they rank a finite set.
LEMMA RankFinite ==
  ASSUME NEW S, NEW T \in SUBSET Nat, IsFiniteSet(T), NEW rank \in [S -> T],
         \A x, y \in S : rank[x] = rank[y] => x = y
  PROVE  IsFiniteSet(S) /\ rank \in [S -> Nat]
  <1>1. rank \in Injection(S, T)
    BY DEF Injection, IsInjective
  <1> QED BY <1>1, FS_Injection

\* s lists the windows of groups.
Lines(s, groups) ==
    /\ s \in Seq(groups)
    /\ \A g \in groups : \E k \in DOMAIN s : s[k] = g
    /\ \A k, l \in DOMAIN s : s[k] = s[l] => k = l

LEMMA LinesApart ==
  ASSUME NEW groups \in SUBSET Windows, \A g, h \in groups : g # h => Disjoint(g, h),
         NEW s, Lines(s, groups)
  PROVE  s \in Seq(Windows) /\ Apart(s)
  <1>1. s \in Seq(groups) /\ \A k, l \in DOMAIN s : s[k] = s[l] => k = l
    BY DEF Lines
  <1>2. Len(s) \in Nat /\ DOMAIN s = 1..Len(s) /\ \A k \in DOMAIN s : s[k] \in groups
    BY <1>1
  <1>3. s \in Seq(Windows)
    BY <1>1, <1>2
  <1> QED BY <1>1, <1>2, <1>3 DEF Apart

LEMMA MissingShape ==
  ASSUME NEW of \in Catalogues, NEW now \in [Questions -> [Rows -> Requests \cup {Nobody}]]
  PROVE  LET s == Missing(of, now) IN
         /\ s \in Seq(Windows) /\ Apart(s)
         /\ \A k \in DOMAIN s :
               /\ s[k].catalogue = of /\ s[k].reask = FALSE
               /\ \A q \in s[k].questions, r \in s[k].rows : now[q][r] = Nobody
         /\ \A q \in of, r \in Rows : now[q][r] = Nobody => \E k \in DOMAIN s : In(s[k], q, r)
  <1> DEFINE U(q) == Undecided(now, q)
             group(q) == [rows |-> U(q), catalogue |-> of, reask |-> FALSE,
                          questions |-> {p \in of : U(p) = U(q)}]
             lacking == {p \in of : U(p) # {}}
             groups == {group(q) : q \in lacking}
             rank == [g \in groups |-> Min(g.questions)]
             s == Missing(of, now)
  <1>1. s = Ranked(groups, rank)
    BY DEF Missing
  <1>2. of \in SUBSET Questions /\ Questions \in SUBSET Nat /\ IsFiniteSet(Questions)
    BY QuestionAssumption
  <1>3. \A q \in of : U(q) = {r \in Rows : now[q][r] = Nobody}
    BY DEF Undecided
  <1> HIDE DEF U
  <1>4. \A q : /\ group(q).rows = U(q) /\ group(q).catalogue = of /\ group(q).reask = FALSE
               /\ group(q).questions = {p \in of : U(p) = U(q)}
    OBVIOUS
  <1>5. ASSUME NEW q \in lacking PROVE group(q) \in Windows
    <2>1. U(q) \in (SUBSET Rows) \ {{}}
      BY <1>3
    <2>2. {p \in of : U(p) = U(q)} \in (SUBSET Questions) \ {{}}
      <3>1. q \in {p \in of : U(p) = U(q)}
        OBVIOUS
      <3> QED BY <1>2, <3>1
    <2>3. {p \in of : U(p) = U(q)} \subseteq of
      OBVIOUS
    <2>4. group(q) \in [rows : (SUBSET Rows) \ {{}}, questions : (SUBSET Questions) \ {{}},
                        catalogue : Catalogues, reask : BOOLEAN]
      BY <2>1, <2>2
    <2> HIDE DEF group, lacking
    <2> QED BY <1>4, <2>3, <2>4 DEF Windows
  <1>6. ASSUME NEW q \in lacking, NEW p \in lacking, NEW x \in group(q).questions, x \in group(p).questions
        PROVE  group(q) = group(p)
    <2>1. U(x) = U(q) /\ U(x) = U(p)
      BY <1>4, <1>6
    <2> QED BY <2>1
  <1> HIDE DEF group
  <1>7. groups \in SUBSET Windows
    BY <1>5
  <1>8. \A g, h \in groups : g # h => g.questions \cap h.questions = {}
    BY <1>6
  <1>9. \A g \in groups : g.questions \in SUBSET Questions /\ g.questions # {} /\ g.questions \in SUBSET Nat
    BY <1>2, <1>7, WindowShape
  <1>10. \A g \in groups : rank[g] \in g.questions
    BY <1>9, MinShape
  <1> HIDE DEF groups
  <1>11. rank \in [groups -> Questions]
    <2>1. rank = [g \in groups |-> rank[g]]
      OBVIOUS
    <2> HIDE DEF rank
    <2> QED BY <1>9, <1>10, <2>1
  <1> HIDE DEF rank
  <1>12. \A g, h \in groups : rank[g] = rank[h] => g = h
    BY <1>8, <1>10
  <1>13. IsFiniteSet(groups) /\ rank \in [groups -> Nat]
    BY <1>2, <1>11, <1>12, RankFinite
  <1>14. Lines(Ranked(groups, rank), groups)
    BY <1>12, <1>13, RankedShape DEF Lines
  <1>15. Lines(s, groups)
    BY <1>1, <1>14
  <1> HIDE DEF s
  <1>16. s \in Seq(Windows) /\ Apart(s)
    <2>1. \A g, h \in groups : g # h => Disjoint(g, h)
      BY <1>8 DEF Disjoint
    <2> QED BY <1>7, <1>15, <2>1, LinesApart
  <1>17. ASSUME NEW k \in DOMAIN s
         PROVE  /\ s[k].catalogue = of /\ s[k].reask = FALSE
                /\ \A q \in s[k].questions, r \in s[k].rows : now[q][r] = Nobody
    <2>1. s[k] \in groups
      <3>1. s \in Seq(groups)
        BY <1>15 DEF Lines
      <3> QED BY <3>1
    <2>2. PICK q \in lacking : s[k] = group(q)
      BY <2>1 DEF groups
    <2>3. ASSUME NEW p \in s[k].questions, NEW r \in s[k].rows PROVE now[p][r] = Nobody
      <3>1. U(p) = U(q) /\ r \in U(q) /\ p \in of
        BY <1>4, <2>2
      <3> QED BY <1>3, <3>1
    <2> QED BY <1>4, <2>2, <2>3
  <1>18. ASSUME NEW q \in of, NEW r \in Rows, now[q][r] = Nobody
         PROVE  \E k \in DOMAIN s : In(s[k], q, r)
    <2>1. r \in U(q) /\ q \in lacking
      BY <1>3, <1>18
    <2>2. group(q) \in groups /\ In(group(q), q, r)
      BY <1>4, <2>1 DEF In, groups
    <2>3. PICK k \in DOMAIN s : s[k] = group(q)
      BY <1>15, <2>2 DEF Lines
    <2> QED BY <2>2, <2>3
  <1> QED BY <1>16, <1>17, <1>18 DEF s

-----------------------------------------------------------------------------
(* The invariant.                                                            *)

\* The windows of the wave that are not applied.
Current == IF phase = "asking" THEN wave ELSE << >>

Outcomes == [kind : {"unknown", "answer", "output", "context", "failed"},
             decided : SUBSET Questions, omitted : SUBSET Questions,
             refused : SUBSET (Questions \X Rows), cached : BOOLEAN]

ExchangeSet == [window : Windows, outcome : Outcomes, superseded : BOOLEAN]

\* What a response says of questions, it says of those it was asked, once.
Said(o, asking) ==
    o.kind = "answer" =>
        o.decided \subseteq asking /\ o.omitted \subseteq asking /\ o.decided \cap o.omitted = {}

Typed ==
    /\ phase \in {"idle", "asking", "collected", "returned"}
    /\ catalogue \in Catalogues /\ reasking \in BOOLEAN
    /\ cells \in [Questions -> [Rows -> Requests \cup {Nobody}]]
    /\ wave \in Seq(Windows) /\ rest \in Seq(Windows) /\ next \in Seq(Windows)
    /\ outcome \in Seq(Outcomes) /\ DOMAIN outcome = DOMAIN wave
    /\ exchanges \in Seq(ExchangeSet)
    /\ decisive \in [Questions -> Seq(Windows)] /\ memo \in [Questions -> Seq(Windows)]
    /\ record \in [Requests -> Outcomes]
    /\ warm \subseteq SUBSET Rows /\ asked \subseteq Requests /\ kept \subseteq Questions \X Rows

Answered ==
    /\ \A w \in Windows : Said(record[Request(w)], w.questions)
    /\ \A w \in Windows : record[Request(w)] = Unknown \/ record[Request(w)].kind = "answer"
    /\ \A i \in DOMAIN wave : Said(outcome[i], wave[i].questions)
    /\ \A k \in DOMAIN exchanges : Said(exchanges[k].outcome, exchanges[k].window.questions)

\* Inside and not the same request.
Strictly(v, w) == Inside(v, w) /\ (v.rows # w.rows \/ v.questions # w.questions)

\* Each question of w was left out by a first exchange over its rows.
LeftOut(w, done) ==
    \A q \in w.questions : \E k \in DOMAIN done :
        /\ ~done[k].window.reask /\ w.rows \subseteq done[k].window.rows
        /\ q \in Omitted(done[k])

\* A window that waits or is asked: its cells are open, and of what its round has
\* asked, only the divided windows it is a part of have cells of it.
Ready(w, of, now, done, again) ==
    /\ w.catalogue = of /\ w.reask = again
    /\ \A q \in w.questions, r \in w.rows : now[q][r] = Nobody
    /\ \A k \in DOMAIN done : done[k].window.reask = again =>
          Disjoint(done[k].window, w) \/ (done[k].superseded /\ Strictly(w, done[k].window))
    /\ again => LeftOut(w, done)

AllReady(s, of, now, done, again) ==
    \A i \in DOMAIN s : Whole(s[i]) /\ Ready(s[i], of, now, done, again)

Waiting ==
    /\ Apart(Current) /\ Apart(rest) /\ Apart(next)
    /\ Between(Current, rest) /\ Between(Current, next) /\ Between(rest, next)
    /\ AllReady(Current, catalogue, cells, exchanges, reasking)
    /\ AllReady(rest, catalogue, cells, exchanges, reasking)
    /\ AllReady(next, catalogue, cells, exchanges, reasking)

\* Exchanges of one round share a cell only when one of them was divided into
\* the other.
NestedIn(done, of, again) ==
    /\ \A k \in DOMAIN done :
          /\ done[k].window.catalogue = of
          /\ done[k].window.reask => again
          /\ done[k].superseded => done[k].outcome.kind # "answer"
    /\ \A k, l \in DOMAIN done :
          k # l /\ done[k].window.reask = done[l].window.reask =>
             \/ Disjoint(done[k].window, done[l].window)
             \/ done[k].superseded /\ Inside(done[l].window, done[k].window)
             \/ done[l].superseded /\ Inside(done[k].window, done[l].window)

Nested == NestedIn(exchanges, catalogue, reasking)

\* Until they are asked again, what was left out is undecided.
OpenIn(done, now) ==
    \A k \in DOMAIN done :
        \A q \in Omitted(done[k]), r \in done[k].window.rows : now[q][r] = Nobody

StillOpen == ~reasking => OpenIn(exchanges, cells)

\* The requests of the run are those of its exchanges and of the answered windows.
Requested ==
    \A k \in asked :
        \/ \E l \in DOMAIN exchanges : Request(exchanges[l].window) = k
        \/ \E i \in DOMAIN Current : outcome[i] # Unknown /\ Request(wave[i]) = k

Held(s, q, r) == \E i \in DOMAIN s : In(s[i], q, r)

\* An undecided cell waits, or was left for good, or is to be asked again.
Tracked ==
    phase # "idle" => \A q \in catalogue, r \in Rows : cells[q][r] = Nobody =>
        \/ Held(Current, q, r) \/ Held(rest, q, r) \/ Held(next, q, r)
        \/ \E k \in DOMAIN exchanges :
              LET e == exchanges[k] IN
              /\ Covers(e, q, r) /\ ~e.superseded
              /\ Excuses(e, q, r) \/ (~reasking /\ q \in Omitted(e))

RowsIn(done) == {done[k].window.rows : k \in DOMAIN done}

Led ==
    /\ SiblingsAfterFirst
    /\ warm \subseteq RowsIn(exchanges)
    /\ \A i \in DOMAIN rest : rest[i].rows \in RowsIn(exchanges)
                              \/ \E j \in DOMAIN Current : Current[j].rows = rest[i].rows

Phases ==
    /\ phase = "idle" => /\ wave = << >> /\ exchanges = << >> /\ asked = {} /\ warm = {}
                         /\ reasking = FALSE
    /\ phase \in {"idle", "returned"} => rest = << >> /\ next = << >>
    /\ phase = "returned" => reasking \/ OmittedWindows = << >>

BatchInv ==
    /\ Typed /\ Answered /\ Waiting /\ Nested /\ StillOpen /\ Requested /\ NoRequestRepeated
    /\ Tracked /\ Led /\ Phases

-----------------------------------------------------------------------------
(* The questions left out.                                                   *)

LEMMA OmittedShape ==
  ASSUME Typed, Answered, NEW k \in DOMAIN exchanges
  PROVE  /\ exchanges[k].window \in Windows
         /\ Omitted(exchanges[k]) \subseteq exchanges[k].window.questions
         /\ Omitted(exchanges[k]) # {} =>
               exchanges[k].outcome.kind = "answer" /\ Omitted(exchanges[k]) # exchanges[k].window.questions
  <1>1. exchanges[k] \in ExchangeSet
    <2>1. exchanges \in Seq(ExchangeSet)
      BY DEF Typed
    <2> QED BY <2>1
  <1>2. Said(exchanges[k].outcome, exchanges[k].window.questions)
    BY DEF Answered
  <1> QED BY <1>1, <1>2 DEF Omitted, Said, ExchangeSet

\* In a first round, one exchange at most leaves out a question for a row.
LEMMA OmittedOnce ==
  ASSUME Typed, Answered, Nested, NEW k \in DOMAIN exchanges, NEW l \in DOMAIN exchanges,
         exchanges[k].window.reask = exchanges[l].window.reask,
         Omitted(exchanges[k]) # {}, Omitted(exchanges[l]) # {},
         ~Disjoint(exchanges[k].window, exchanges[l].window)
  PROVE  k = l
  <1>1. exchanges[k].outcome.kind = "answer" /\ exchanges[l].outcome.kind = "answer"
    BY OmittedShape
  <1>2. ~exchanges[k].superseded /\ ~exchanges[l].superseded
    BY <1>1 DEF Nested, NestedIn
  <1> QED BY <1>2 DEF Nested, NestedIn

LEMMA OmittedWindowsShape ==
  ASSUME Typed, Answered, Nested, ~reasking
  PROVE  /\ OmittedWindows \in Seq(Windows) /\ Apart(OmittedWindows)
         /\ \A k \in DOMAIN OmittedWindows : LET w == OmittedWindows[k] IN
               /\ w.catalogue = catalogue /\ w.reask = TRUE
               /\ \A q \in w.questions : \E l \in DOMAIN exchanges :
                     /\ ~exchanges[l].window.reask /\ w.rows = exchanges[l].window.rows
                     /\ q \in Omitted(exchanges[l])
         /\ \A l \in DOMAIN exchanges : \A q \in Omitted(exchanges[l]), r \in exchanges[l].window.rows :
               \E k \in DOMAIN OmittedWindows : In(OmittedWindows[k], q, r)
  <1> DEFINE O(i) == Omitted(exchanges[i])
             R(i) == exchanges[i].window.rows
             E == DOMAIN exchanges
             over(rows) == {i \in E : O(i) # {} /\ R(i) = rows}
             missed(rows) == UNION {O(i) : i \in over(rows)}
             group(i) == [rows |-> R(i), catalogue |-> catalogue, reask |-> TRUE,
                          questions |-> missed(R(i))]
             lacking == {i \in E : O(i) # {}}
             groups == {group(i) : i \in lacking}
             rank == [g \in groups |-> Min(over(g.rows))]
             s == OmittedWindows
  <1>1. s = Ranked(groups, rank)
    BY DEF OmittedWindows
  <1>2. /\ E \in SUBSET Nat /\ IsFiniteSet(E)
        /\ catalogue \in Catalogues /\ catalogue \in SUBSET Questions
    <2>1. exchanges \in Seq(ExchangeSet)
          /\ catalogue \in Catalogues
      BY DEF Typed
    <2>2. Len(exchanges) \in Nat /\ E = 1..Len(exchanges)
      BY <2>1
    <2>3. IsFiniteSet(1..Len(exchanges))
      BY <2>2, FS_Interval
    <2> QED BY <2>1, <2>2, <2>3, QuestionAssumption
  <1>3. ASSUME NEW i \in E
        PROVE  /\ exchanges[i].window \in Windows /\ O(i) \subseteq exchanges[i].window.questions
               /\ O(i) \subseteq catalogue /\ ~exchanges[i].window.reask
               /\ R(i) \in (SUBSET Rows) \ {{}}
    <2>1. exchanges[i].window \in Windows /\ O(i) \subseteq exchanges[i].window.questions
      BY OmittedShape
    <2>2. exchanges[i].window.catalogue = catalogue /\ ~exchanges[i].window.reask
      BY DEF Nested, NestedIn
    <2>3. exchanges[i].window.questions \subseteq exchanges[i].window.catalogue
          /\ R(i) \in SUBSET Rows /\ R(i) # {}
      BY <2>1, WindowShape
    <2> QED BY <2>1, <2>2, <2>3
  <1>4. \A i : /\ group(i).rows = R(i) /\ group(i).catalogue = catalogue
               /\ group(i).reask = TRUE /\ group(i).questions = missed(R(i))
    OBVIOUS
  <1>5. \A rows, q : q \in missed(rows) <=> \E i \in E : q \in O(i) /\ R(i) = rows
    OBVIOUS
  <1>6. \A i, j \in E : \A q, r : q \in O(i) /\ q \in O(j) /\ r \in R(i) /\ r \in R(j) => i = j
    <2> SUFFICES ASSUME NEW i \in E, NEW j \in E, NEW q, NEW r,
                        q \in O(i), q \in O(j), r \in R(i), r \in R(j)
                 PROVE  i = j
      OBVIOUS
    <2>1. ~Disjoint(exchanges[i].window, exchanges[j].window)
      BY <1>3 DEF Disjoint
    <2>2. exchanges[i].window.reask = exchanges[j].window.reask
      <3>1. /\ exchanges[i].window.reask \in BOOLEAN /\ exchanges[j].window.reask \in BOOLEAN
        BY <1>3, WindowShape
      <3> QED BY <1>3, <3>1
    <2> QED BY <2>1, <2>2, OmittedOnce
  <1> HIDE DEF O, R, E, missed
  <1>7. ASSUME NEW i \in lacking PROVE group(i) \in Windows
    <2>1. missed(R(i)) \subseteq catalogue /\ missed(R(i)) # {}
      BY <1>3, <1>5
    <2>2. R(i) \in (SUBSET Rows) \ {{}} /\ missed(R(i)) \in (SUBSET Questions) \ {{}}
      BY <1>2, <1>3, <2>1
    <2>3. group(i) \in [rows : (SUBSET Rows) \ {{}}, questions : (SUBSET Questions) \ {{}},
                        catalogue : Catalogues, reask : BOOLEAN]
      BY <1>2, <2>2
    <2> HIDE DEF group, lacking
    <2> QED BY <1>4, <2>1, <2>3 DEF Windows
  <1> HIDE DEF group
  <1>8. groups \in SUBSET Windows
    BY <1>7
  <1>9. \A g \in groups : \E i \in lacking : g = group(i)
    OBVIOUS
  <1>10. \A i \in lacking : group(i) \in groups
    OBVIOUS
  <1> HIDE DEF groups
  <1>11. ASSUME NEW g \in groups, NEW h \in groups, ~Disjoint(g, h) PROVE g.rows = h.rows
    <2>1. PICK i \in lacking : g = group(i)
      BY <1>9
    <2>2. PICK j \in lacking : h = group(j)
      BY <1>9
    <2>3. PICK q \in g.questions, r \in g.rows : q \in h.questions /\ r \in h.rows
      BY <1>11 DEF Disjoint
    <2>4. PICK x \in E : q \in O(x) /\ R(x) = R(i)
      BY <1>4, <1>5, <2>1, <2>3
    <2>5. PICK y \in E : q \in O(y) /\ R(y) = R(j)
      BY <1>4, <1>5, <2>2, <2>3
    <2>6. r \in R(x) /\ r \in R(y)
      BY <1>4, <2>1, <2>2, <2>3, <2>4, <2>5
    <2>7. x = y
      BY <1>6, <2>4, <2>5, <2>6
    <2> QED BY <1>4, <2>1, <2>2, <2>4, <2>5, <2>7
  <1>12. ASSUME NEW g \in groups, NEW h \in groups, g.rows = h.rows PROVE g = h
    <2>1. PICK i \in lacking : g = group(i)
      BY <1>9
    <2>2. PICK j \in lacking : h = group(j)
      BY <1>9
    <2>3. R(i) = R(j)
      BY <1>4, <1>12, <2>1, <2>2
    <2> QED BY <2>1, <2>2, <2>3 DEF group
  <1>13. \A g \in groups : over(g.rows) \in SUBSET E /\ over(g.rows) # {} /\ over(g.rows) \in SUBSET Nat
    BY <1>2, <1>4, <1>9
  <1>14. \A g \in groups : rank[g] \in over(g.rows)
    BY <1>13, MinShape
  <1>15. rank \in [groups -> E]
    <2>1. rank = [g \in groups |-> rank[g]]
      OBVIOUS
    <2> HIDE DEF rank
    <2> QED BY <1>13, <1>14, <2>1
  <1> HIDE DEF rank
  <1>16. \A g, h \in groups : rank[g] = rank[h] => g = h
    BY <1>12, <1>14
  <1>17. IsFiniteSet(groups) /\ rank \in [groups -> Nat]
    BY <1>2, <1>15, <1>16, RankFinite
  <1>18. Lines(Ranked(groups, rank), groups)
    BY <1>16, <1>17, RankedShape DEF Lines
  <1>19. Lines(s, groups)
    BY <1>1, <1>18
  <1> HIDE DEF s
  <1>20. s \in Seq(Windows) /\ Apart(s)
    <2>1. \A g, h \in groups : g # h => Disjoint(g, h)
      BY <1>11, <1>12
    <2> QED BY <1>8, <1>19, <2>1, LinesApart
  <1>21. ASSUME NEW k \in DOMAIN s
         PROVE  /\ s[k].catalogue = catalogue /\ s[k].reask = TRUE
                /\ \A q \in s[k].questions : \E l \in E :
                      ~exchanges[l].window.reask /\ s[k].rows = R(l) /\ q \in O(l)
    <2>1. s[k] \in groups
      <3>1. s \in Seq(groups)
        BY <1>19 DEF Lines
      <3> QED BY <3>1
    <2>2. PICK i \in lacking : s[k] = group(i)
      BY <1>9, <2>1
    <2> QED BY <1>3, <1>4, <1>5, <2>2
  <1>22. ASSUME NEW l \in E, NEW q \in O(l), NEW r \in R(l)
         PROVE  \E k \in DOMAIN s : In(s[k], q, r)
    <2>1. l \in lacking /\ In(group(l), q, r)
      BY <1>4, <1>5 DEF In
    <2>2. PICK k \in DOMAIN s : s[k] = group(l)
      BY <1>10, <1>19, <2>1 DEF Lines
    <2> QED BY <2>1, <2>2
  <1> QED BY <1>20, <1>21, <1>22 DEF s, O, R, E

-----------------------------------------------------------------------------
(* Rounds.                                                                   *)

LEMMA ReadyInside ==
  ASSUME NEW v, NEW w, NEW of, NEW now, NEW done, NEW again,
         Ready(w, of, now, done, again), Inside(v, w)
  PROVE  Ready(v, of, now, done, again)
  <1>1. v.catalogue = of /\ v.reask = again
    BY DEF Ready, Inside
  <1>2. \A q \in v.questions, r \in v.rows : now[q][r] = Nobody
    BY DEF Ready, Inside
  <1>3. ASSUME NEW k \in DOMAIN done, done[k].window.reask = again, ~Disjoint(done[k].window, v)
        PROVE  done[k].superseded /\ Strictly(v, done[k].window)
    <2>1. ~Disjoint(done[k].window, w)
      BY <1>3 DEF Inside, Disjoint
    <2>2. done[k].superseded /\ Strictly(w, done[k].window)
      BY <1>3, <2>1 DEF Ready
    <2>3. v.rows \subseteq w.rows /\ w.rows \subseteq done[k].window.rows
          /\ v.questions \subseteq w.questions /\ w.questions \subseteq done[k].window.questions
          /\ (w.rows # done[k].window.rows \/ w.questions # done[k].window.questions)
      BY <2>2 DEF Strictly, Inside
    <2>4. v.rows # done[k].window.rows \/ v.questions # done[k].window.questions
      BY <2>3
    <2> QED BY <2>2, <2>4 DEF Strictly, Inside
  <1>4. again => LeftOut(v, done)
    BY DEF Ready, LeftOut, Inside
  <1> QED BY <1>1, <1>2, <1>3, <1>4 DEF Ready

LEMMA SpreadReady ==
  ASSUME NEW s, NEW u, Spreads(u, s), NEW of, NEW now, NEW done, NEW again,
         \A i \in DOMAIN s : Ready(s[i], of, now, done, again)
  PROVE  AllReady(u, of, now, done, again)
  <1> SUFFICES ASSUME NEW k \in DOMAIN u PROVE Whole(u[k]) /\ Ready(u[k], of, now, done, again)
    BY DEF AllReady
  <1>1. PICK i \in DOMAIN s : Inside(u[k], s[i])
    BY DEF Spreads
  <1>2. Ready(u[k], of, now, done, again)
    BY <1>1, ReadyInside
  <1> QED BY <1>2 DEF Spreads

LEMMA JoinsReady ==
  ASSUME NEW s, NEW a, NEW b, Joins(s, a, b), NEW of, NEW now, NEW done, NEW again,
         AllReady(s, of, now, done, again)
  PROVE  AllReady(a, of, now, done, again) /\ AllReady(b, of, now, done, again)
  BY DEF Joins, AllReady

LEMMA JoinsHeld ==
  ASSUME NEW s, NEW a, NEW b, Joins(s, a, b), NEW q, NEW r, Held(s, q, r)
  PROVE  Held(a, q, r) \/ Held(b, q, r)
  <1>1. PICK k \in DOMAIN s : In(s[k], q, r)
    BY DEF Held
  <1> QED BY <1>1 DEF Joins, Held

\* A round of windows that are ready starts.
LEMMA NewRound ==
  ASSUME NEW s \in Seq(Windows), Apart(s),
         AllReady(s, catalogue', cells', exchanges', reasking'),
         NEW known, known \subseteq RowsIn(exchanges'), warm' \subseteq RowsIn(exchanges'),
         StartRound(s, known), next' = << >>, phase' = "asking"
  PROVE  /\ wave' \in Seq(Windows) /\ rest' \in Seq(Windows) /\ next' \in Seq(Windows)
         /\ outcome' \in Seq(Outcomes) /\ DOMAIN outcome' = DOMAIN wave'
         /\ \A i \in DOMAIN wave' : outcome'[i] = Unknown
         /\ Waiting' /\ Led'
         /\ \A q, r : Held(s, q, r) => Held(Current', q, r) \/ Held(rest', q, r)
  <1>1. Starts(s, known, wave', rest') /\ outcome' = [i \in DOMAIN wave' |-> Unknown]
    BY RoundStarts
  <1>2. Current' = wave'
    BY DEF Current
  <1>3. /\ wave' \in Seq(Windows) /\ rest' \in Seq(Windows) /\ Joins(s, wave', rest')
        /\ Apart(wave') /\ Apart(rest') /\ Between(wave', rest')
    BY <1>1 DEF Starts
  <1>4. Unknown \in Outcomes
    BY DEF Unknown, Outcomes
  <1>5. outcome' \in Seq(Outcomes) /\ DOMAIN outcome' = DOMAIN wave'
        /\ \A i \in DOMAIN wave' : outcome'[i] = Unknown
    <2>1. Len(wave') \in Nat /\ DOMAIN wave' = 1..Len(wave')
      BY <1>3
    <2> QED BY <1>1, <1>4, <2>1
  <1>6. next' \in Seq(Windows) /\ DOMAIN next' = {}
    OBVIOUS
  <1>7. AllReady(wave', catalogue', cells', exchanges', reasking')
        /\ AllReady(rest', catalogue', cells', exchanges', reasking')
    BY <1>3, JoinsReady
  <1>8. AllReady(next', catalogue', cells', exchanges', reasking')
    BY <1>6 DEF AllReady
  <1>9. Apart(next') /\ Between(wave', next') /\ Between(rest', next')
    BY <1>6 DEF Apart, Between
  <1>10. Waiting'
    BY <1>2, <1>3, <1>7, <1>8, <1>9 DEF Waiting
  <1>11. Led'
    <2>1. SiblingsAfterFirst'
      <3> SUFFICES ASSUME NEW i \in DOMAIN wave', NEW j \in DOMAIN wave', i # j, wave'[i].rows = wave'[j].rows
                   PROVE  \E k \in DOMAIN exchanges' : exchanges'[k].window.rows = wave'[i].rows
        BY DEF SiblingsAfterFirst
      <3>1. wave'[i].rows \in RowsIn(exchanges')
        BY <1>1 DEF Starts
      <3> QED BY <3>1 DEF RowsIn
    <2>2. \A k \in DOMAIN rest' : rest'[k].rows \in RowsIn(exchanges')
             \/ \E j \in DOMAIN wave' : wave'[j].rows = rest'[k].rows
      BY <1>1 DEF Starts
    <2>3. RowsIn(exchanges)' = RowsIn(exchanges')
      BY DEF RowsIn
    <2> QED BY <1>2, <2>1, <2>2, <2>3 DEF Led
  <1>12. \A q, r : Held(s, q, r) => Held(wave', q, r) \/ Held(rest', q, r)
    BY <1>3, JoinsHeld
  <1> QED BY <1>2, <1>3, <1>5, <1>6, <1>10, <1>11, <1>12

LEMMA SpreadHeld ==
  ASSUME NEW s, NEW u, Spreads(u, s), NEW q, NEW r, Held(s, q, r)
  PROVE  Held(u, q, r)
  BY DEF Spreads, Held, In

LEMMA UnknownSaid ==
  /\ Unknown \in Outcomes /\ Unknown.kind = "unknown" /\ Unknown.cached = FALSE
  /\ \A asking : Said(Unknown, asking)
  BY DEF Unknown, Outcomes, Said

-----------------------------------------------------------------------------
(* Every step keeps the invariant.                                           *)

LEMMA InitBatchInv == Init => BatchInv
  <1> SUFFICES ASSUME Init PROVE BatchInv
    OBVIOUS
  <1> USE DEF Init
  <1>0. DOMAIN << >> = {} /\ \A S : << >> \in Seq(S)
    OBVIOUS
  <1>1. Typed
    <2>1. [r \in Rows |-> Nobody] \in [Rows -> Requests \cup {Nobody}]
      OBVIOUS
    <2>2. cells \in [Questions -> [Rows -> Requests \cup {Nobody}]]
      BY <2>1
    <2>3. record \in [Requests -> Outcomes]
      BY UnknownSaid
    <2>4. decisive \in [Questions -> Seq(Windows)] /\ memo \in [Questions -> Seq(Windows)]
      BY <1>0
    <2> QED BY <1>0, <2>2, <2>3, <2>4 DEF Typed
  <1>2. Answered
    <2>1. \A w \in Windows : record[Request(w)] = Unknown
      BY RequestShape
    <2> QED BY <1>0, <2>1, UnknownSaid DEF Answered
  <1>3. Current = << >>
    BY DEF Current
  <1>4. Waiting
    BY <1>0, <1>3 DEF Waiting, Apart, Between, AllReady
  <1>5. Nested /\ StillOpen /\ Requested /\ NoRequestRepeated
    BY <1>0 DEF Nested, NestedIn, StillOpen, OpenIn, Requested, NoRequestRepeated
  <1>6. Tracked /\ Led /\ Phases
    BY <1>0 DEF Tracked, Led, SiblingsAfterFirst, Phases
  <1> QED BY <1>1, <1>2, <1>4, <1>5, <1>6 DEF BatchInv

LEMMA BeginBatchInv ==
  ASSUME BatchInv, NEW of \in Catalogues, Begin(of)
  PROVE  BatchInv'
  <1> DEFINE nothing == [r \in Rows |-> Nobody]
             recalled == [q \in of |-> Recalled(q)]
             now == [q \in Questions |-> IF q \in of THEN recalled[q].cells ELSE nothing]
             m == Missing(of, now)
             s == PlanAll(m)
  <1>0. DOMAIN << >> = {} /\ \A S : << >> \in Seq(S)
    OBVIOUS
  <1>1. /\ phase = "idle" /\ phase' = "asking" /\ catalogue' = of /\ cells' = now
        /\ decisive' = [q \in Questions |-> IF q \in of THEN recalled[q].windows ELSE << >>]
        /\ StartRound(s, {})
        /\ UNCHANGED <<next, reasking, warm, exchanges, record, memo, asked, repeated, kept>>
    BY DEF Begin, cache
  <1>2. /\ exchanges = << >> /\ asked = {} /\ warm = {} /\ reasking = FALSE /\ next = << >>
        /\ exchanges' = << >> /\ asked' = {} /\ warm' = {} /\ reasking' = FALSE /\ next' = << >>
    BY <1>1 DEF BatchInv, Phases
  <1>3. ASSUME NEW q \in of PROVE Recalled(q) \in Findings
    <2> DEFINE first == [cells |-> nothing, windows |-> << >>]
               outs == [n \in DOMAIN memo[q] |-> record[Request(memo[q][n])]]
    <2>1. nothing \in [Rows -> Requests \cup {Nobody}]
      OBVIOUS
    <2>2. first \in Findings
      BY <1>0, <2>1 DEF Findings
    <2>3. memo[q] \in Seq(Windows)
      BY QuestionAssumption DEF BatchInv, Typed
    <2>4. Recalled(q) = TakenAll(first, memo[q], outs, q)
      BY DEF Recalled
    <2> HIDE DEF first, outs
    <2>5. TakenAll(first, memo[q], outs, q) \in Findings
      BY <2>2, <2>3, TakenAllShape DEF Applied
    <2> QED BY <2>4, <2>5
  <1>4. now \in [Questions -> [Rows -> Requests \cup {Nobody}]]
    <2>1. ASSUME NEW q \in Questions
          PROVE  (IF q \in of THEN recalled[q].cells ELSE nothing) \in [Rows -> Requests \cup {Nobody}]
      BY <1>3 DEF Findings
    <2> QED BY <2>1
  <1>5. decisive' \in [Questions -> Seq(Windows)]
    <2>1. ASSUME NEW q \in Questions
          PROVE  (IF q \in of THEN recalled[q].windows ELSE << >>) \in Seq(Windows)
      BY <1>0, <1>3 DEF Findings
    <2> QED BY <1>1, <2>1
  <1> HIDE DEF now, recalled
  <1>6. /\ m \in Seq(Windows) /\ Apart(m)
        /\ \A k \in DOMAIN m :
              /\ m[k].catalogue = of /\ m[k].reask = FALSE
              /\ \A q \in m[k].questions, r \in m[k].rows : now[q][r] = Nobody
        /\ \A q \in of, r \in Rows : now[q][r] = Nobody => \E k \in DOMAIN m : In(m[k], q, r)
    BY <1>4, MissingShape
  <1> HIDE DEF m
  <1>7. Spreads(s, m)
    BY <1>6, PlanAllShape
  <1> HIDE DEF s
  <1>8. \A k \in DOMAIN m : Ready(m[k], catalogue', cells', exchanges', reasking')
    BY <1>0, <1>1, <1>2, <1>6 DEF Ready
  <1>9. AllReady(s, catalogue', cells', exchanges', reasking') /\ s \in Seq(Windows) /\ Apart(s)
    BY <1>7, <1>8, SpreadReady DEF Spreads
  <1>10. {} \subseteq RowsIn(exchanges') /\ warm' \subseteq RowsIn(exchanges')
    BY <1>2
  <1>11. /\ wave' \in Seq(Windows) /\ rest' \in Seq(Windows) /\ next' \in Seq(Windows)
         /\ outcome' \in Seq(Outcomes) /\ DOMAIN outcome' = DOMAIN wave'
         /\ \A i \in DOMAIN wave' : outcome'[i] = Unknown
         /\ Waiting' /\ Led'
         /\ \A q, r : Held(s, q, r) => Held(Current', q, r) \/ Held(rest', q, r)
    BY <1>1, <1>2, <1>9, <1>10, NewRound
  <1>12. Typed'
    <2>1. warm' \subseteq SUBSET Rows /\ asked' \subseteq Requests /\ reasking' \in BOOLEAN
          /\ exchanges' \in Seq(ExchangeSet)
      BY <1>0, <1>2
    <2> QED BY <1>1, <1>4, <1>5, <1>11, <2>1 DEF BatchInv, Typed
  <1>13. Answered'
    BY <1>0, <1>1, <1>2, <1>11, UnknownSaid DEF BatchInv, Answered
  <1>14. (Nested /\ StillOpen /\ Requested /\ NoRequestRepeated)'
    BY <1>0, <1>1, <1>2 DEF BatchInv, Nested, NestedIn, StillOpen, OpenIn, Requested, NoRequestRepeated
  <1>15. Tracked'
    <2>1. ASSUME NEW q \in of, NEW r \in Rows, now[q][r] = Nobody
          PROVE  Held(Current', q, r) \/ Held(rest', q, r)
      <3>1. Held(m, q, r)
        BY <1>6, <2>1 DEF Held
      <3> QED BY <1>7, <1>11, <3>1, SpreadHeld
    <2> QED BY <1>1, <2>1 DEF Tracked
  <1>16. Phases'
    BY <1>1 DEF Phases
  <1> QED BY <1>11, <1>12, <1>13, <1>14, <1>15, <1>16 DEF BatchInv

\* A window that is asked has its request for itself: against its round by the
\* cells it has, against a first round by what that round left out.
LEMMA FreshRequest ==
  ASSUME BatchInv, phase = "asking", NEW i \in DOMAIN wave, outcome[i] = Unknown
  PROVE  Request(wave[i]) \notin asked
  <1> DEFINE w == wave[i]
             W(k) == exchanges[k].window
  <1>1. Current = wave /\ w \in Windows /\ Apart(wave) /\ Ready(w, catalogue, cells, exchanges, reasking)
    <2>1. wave \in Seq(Windows)
      BY DEF BatchInv, Typed
    <2> QED BY <2>1 DEF BatchInv, Waiting, AllReady, Current
  <1>2. w.rows # {} /\ w.questions # {}
    BY <1>1, WindowShape
  <1>3. \A k \in DOMAIN exchanges : W(k) \in Windows /\ W(k).reask \in BOOLEAN
    BY OmittedShape, WindowShape DEF BatchInv
  <1>4. ASSUME NEW j \in DOMAIN wave, outcome[j] # Unknown, Request(wave[j]) = Request(w)
        PROVE  FALSE
    <2>1. wave[j] \in Windows
      <3>1. wave \in Seq(Windows)
        BY DEF BatchInv, Typed
      <3> QED BY <3>1
    <2>2. wave[j].rows = w.rows /\ wave[j].questions = w.questions
      BY <1>1, <1>4, <2>1, RequestShape
    <2>3. i # j
      BY <1>4
    <2>4. Disjoint(wave[i], wave[j])
      BY <1>1, <2>3 DEF Apart
    <2> QED BY <1>2, <2>2, <2>4 DEF Disjoint
  <1>5. ASSUME NEW k \in DOMAIN exchanges, Request(W(k)) = Request(w)
        PROVE  FALSE
    <2>1. W(k).rows = w.rows /\ W(k).questions = w.questions
      BY <1>1, <1>3, <1>5, RequestShape
    <2>2. W(k).reask # reasking
      <3> SUFFICES ASSUME W(k).reask = reasking PROVE FALSE
        OBVIOUS
      <3>1. Disjoint(W(k), w) \/ Strictly(w, W(k))
        BY <1>1 DEF Ready
      <3> QED BY <1>2, <2>1, <3>1 DEF Disjoint, Strictly
    <2>3. ~W(k).reask /\ reasking
      BY <1>3, <2>2 DEF BatchInv, Nested, NestedIn, Typed
    <2>4. \A q \in w.questions : \E l \in DOMAIN exchanges :
              ~W(l).reask /\ w.rows \subseteq W(l).rows /\ q \in Omitted(exchanges[l])
      BY <1>1, <2>3 DEF Ready, LeftOut
    <2>5. PICK q \in w.questions, r \in w.rows : TRUE
      BY <1>2
    <2>6. PICK l \in DOMAIN exchanges :
              ~W(l).reask /\ w.rows \subseteq W(l).rows /\ q \in Omitted(exchanges[l])
      BY <2>4
    <2>7. /\ Omitted(exchanges[l]) \subseteq W(l).questions /\ Omitted(exchanges[l]) # W(l).questions
          /\ ~exchanges[l].superseded
      BY <2>6, OmittedShape DEF BatchInv, Nested, NestedIn
    <2>8. W(l).questions \subseteq w.questions
      <3>1. CASE k = l
        BY <2>1, <3>1
      <3>2. CASE k # l
        <4>1. ~Disjoint(W(k), W(l))
          BY <2>1, <2>5, <2>6, <2>7 DEF Disjoint
        <4>2. W(k).reask = W(l).reask
          BY <1>3, <2>3, <2>6
        <4>3. Inside(W(l), W(k))
          BY <2>7, <3>2, <4>1, <4>2 DEF BatchInv, Nested, NestedIn
        <4> QED BY <2>1, <4>3 DEF Inside
      <3> QED BY <3>1, <3>2
    <2>9. PICK p \in W(l).questions : p \notin Omitted(exchanges[l])
      BY <2>7
    <2>10. PICK x \in DOMAIN exchanges :
              ~W(x).reask /\ w.rows \subseteq W(x).rows /\ p \in Omitted(exchanges[x])
      BY <2>4, <2>8
    <2>11. p \in W(x).questions /\ r \in W(x).rows /\ r \in W(l).rows
      BY <2>5, <2>6, <2>10, OmittedShape DEF BatchInv
    <2>12. ~Disjoint(W(x), W(l)) /\ W(x).reask = W(l).reask
      BY <1>3, <2>6, <2>9, <2>10, <2>11 DEF Disjoint
    <2>13. x = l
      BY <2>6, <2>10, <2>12, OmittedOnce DEF BatchInv
    <2> QED BY <2>9, <2>10, <2>13
  <1>6. Requested
    BY DEF BatchInv
  <1> QED BY <1>1, <1>4, <1>5, <1>6 DEF Requested

LEMMA AnswersShape ==
  ASSUME NEW w \in Windows, NEW o \in Answers(w)
  PROVE  o \in Outcomes /\ o.kind = "answer" /\ Said(o, w.questions)
  <1>1. /\ o \in [kind : {"answer"}, decided : SUBSET w.questions, omitted : SUBSET w.questions,
                  refused : {w.questions \X r : r \in RefusedCells}, cached : {FALSE}]
        /\ o.decided \cap o.omitted = {}
    BY DEF Answers
  <1>2. w.questions \in SUBSET Questions
    BY WindowShape
  <1>3. o.refused \in SUBSET (Questions \X Rows)
    <2>1. PICK r \in RefusedCells : o.refused = w.questions \X r
      BY <1>1
    <2>2. r \in SUBSET Rows
      BY QuestionAssumption
    <2> QED BY <1>2, <2>1, <2>2
  <1>4. o.kind = "answer" /\ o.decided \in SUBSET w.questions /\ o.omitted \in SUBSET w.questions
        /\ o.cached = FALSE
    BY <1>1
  <1>5. o = [kind |-> o.kind, decided |-> o.decided, omitted |-> o.omitted,
             refused |-> o.refused, cached |-> o.cached]
    BY <1>1
  <1>6. o \in Outcomes
    <2>1. o.decided \in SUBSET Questions /\ o.omitted \in SUBSET Questions
      BY <1>2, <1>4
    <2> QED BY <1>3, <1>4, <1>5, <2>1 DEF Outcomes
  <1> QED BY <1>1, <1>4, <1>6 DEF Said

\* What a window is told, from the cache or by the provider.
LEMMA OutcomeShape ==
  ASSUME BatchInv, NEW i \in DOMAIN wave, Cached(i) \/ Live(i)
  PROVE  /\ record' \in [Requests -> Outcomes]
         /\ \A w \in Windows : Said(record'[Request(w)], w.questions)
         /\ \A w \in Windows : record'[Request(w)] = Unknown \/ record'[Request(w)].kind = "answer"
         /\ \E o \in Outcomes : /\ outcome' = [outcome EXCEPT ![i] = o]
                                /\ o.kind # "unknown" /\ Said(o, wave[i].questions)
  <1> DEFINE w == wave[i]
             k == Request(w)
  <1>1. w \in Windows
    <2>1. wave \in Seq(Windows)
      BY DEF BatchInv, Typed
    <2> QED BY <2>1
  <1>2. k \in Requests
    BY <1>1, RequestShape
  <1>3. /\ record \in [Requests -> Outcomes]
        /\ \A v \in Windows : Said(record[Request(v)], v.questions)
        /\ \A v \in Windows : record[Request(v)] = Unknown \/ record[Request(v)].kind = "answer"
    BY DEF BatchInv, Typed, Answered
  <1> HIDE DEF w, k
  <1>4. CASE Cached(i)
    <2> DEFINE o == [record[k] EXCEPT !.cached = TRUE]
    <2>1. record[k] # Unknown /\ outcome' = [outcome EXCEPT ![i] = o] /\ record' = record
      BY <1>4 DEF Cached, k, w
    <2>2. record[k] \in Outcomes /\ record[k].kind = "answer" /\ Said(record[k], w.questions)
      BY <1>1, <1>2, <1>3, <2>1 DEF k
    <2>3. /\ o \in Outcomes /\ o.kind = record[k].kind /\ o.decided = record[k].decided
          /\ o.omitted = record[k].omitted
      BY <2>2 DEF Outcomes
    <2> HIDE DEF o
    <2>4. o.kind # "unknown" /\ Said(o, w.questions)
      BY <2>2, <2>3 DEF Said
    <2> QED BY <1>3, <2>1, <2>3, <2>4 DEF w
  <1>5. CASE Live(i)
    <2>1. CASE \E o \in Answers(w), saved \in BOOLEAN :
                  /\ outcome' = [outcome EXCEPT ![i] = o]
                  /\ record' = IF saved THEN [record EXCEPT ![k] = o] ELSE record
      <3>1. PICK o \in Answers(w), saved \in BOOLEAN :
                  /\ outcome' = [outcome EXCEPT ![i] = o]
                  /\ record' = IF saved THEN [record EXCEPT ![k] = o] ELSE record
        BY <2>1
      <3>2. o \in Outcomes /\ o.kind = "answer" /\ Said(o, w.questions)
        BY <1>1, AnswersShape
      <3>3. record' \in [Requests -> Outcomes]
        BY <1>3, <3>1, <3>2
      <3>4. ASSUME NEW v \in Windows
            PROVE  /\ Said(record'[Request(v)], v.questions)
                   /\ record'[Request(v)] = Unknown \/ record'[Request(v)].kind = "answer"
        <4>1. CASE Request(v) = k /\ saved
          <5>1. v.questions = w.questions
            BY <1>1, <4>1, RequestShape DEF k
          <5>2. record'[Request(v)] = o
            BY <1>2, <1>3, <3>1, <4>1
          <5> QED BY <3>2, <5>1, <5>2
        <4>2. CASE ~(Request(v) = k /\ saved)
          <5>1. Request(v) \in Requests
            BY RequestShape
          <5>2. record'[Request(v)] = record[Request(v)]
            BY <1>2, <1>3, <3>1, <4>2, <5>1
          <5> QED BY <1>3, <5>2
        <4> QED BY <4>1, <4>2
      <3>5. o.kind # "unknown"
        BY <3>2
      <3> QED BY <3>1, <3>2, <3>3, <3>4, <3>5 DEF w
    <2>2. CASE \E kind \in {"output", "context", "failed"} :
                  outcome' = [outcome EXCEPT ![i] = Refusal(kind)] /\ record' = record
      <3>1. PICK kind \in {"output", "context", "failed"} :
                  outcome' = [outcome EXCEPT ![i] = Refusal(kind)] /\ record' = record
        BY <2>2
      <3>2. Refusal(kind) \in Outcomes /\ Refusal(kind).kind = kind
        BY DEF Refusal, Unknown, Outcomes
      <3>3. Refusal(kind).kind # "unknown" /\ Said(Refusal(kind), w.questions)
        BY <3>2 DEF Said
      <3> QED BY <1>3, <3>1, <3>2, <3>3 DEF w
    <2> QED BY <1>5, <2>1, <2>2 DEF Live, w, k
  <1> QED BY <1>4, <1>5

LEMMA CompleteBatchInv ==
  ASSUME BatchInv, NEW i \in DOMAIN wave, Complete(i)
  PROVE  BatchInv'
  <1> DEFINE k == Request(wave[i])
  <1>1. /\ phase = "asking" /\ outcome[i] = Unknown /\ (Cached(i) \/ Live(i))
        /\ asked' = asked \cup {k}
        /\ repeated' = IF k \in asked THEN repeated \cup {k} ELSE repeated
        /\ UNCHANGED <<phase, catalogue, cells, wave, rest, next, reasking, warm, exchanges, decisive,
                       memo, kept>>
    BY DEF Complete
  <1>2. wave \in Seq(Windows) /\ wave[i] \in Windows /\ outcome \in Seq(Outcomes) /\ DOMAIN outcome = DOMAIN wave
    <2>1. wave \in Seq(Windows) /\ outcome \in Seq(Outcomes) /\ DOMAIN outcome = DOMAIN wave
      BY DEF BatchInv, Typed
    <2> QED BY <2>1
  <1>3. k \in Requests /\ k \notin asked
    BY <1>1, <1>2, FreshRequest, RequestShape
  <1>4. /\ record' \in [Requests -> Outcomes]
        /\ \A w \in Windows : Said(record'[Request(w)], w.questions)
        /\ \A w \in Windows : record'[Request(w)] = Unknown \/ record'[Request(w)].kind = "answer"
    BY <1>1, OutcomeShape
  <1>5. PICK o \in Outcomes : /\ outcome' = [outcome EXCEPT ![i] = o]
                              /\ o.kind # "unknown" /\ Said(o, wave[i].questions)
    BY <1>1, OutcomeShape
  <1> HIDE DEF k
  <1>6. outcome' \in Seq(Outcomes) /\ DOMAIN outcome' = DOMAIN wave
        /\ \A j \in DOMAIN wave : outcome'[j] = IF j = i THEN o ELSE outcome[j]
    BY <1>2, <1>5
  <1>7. outcome'[i] # Unknown
    BY <1>5, <1>6, UnknownSaid
  <1>8. Typed'
    <2>1. asked' \subseteq Requests
      BY <1>1, <1>3 DEF BatchInv, Typed
    <2> QED BY <1>1, <1>4, <1>6, <2>1 DEF BatchInv, Typed
  <1>9. Answered'
    <2>1. \A j \in DOMAIN wave : Said(outcome'[j], wave[j].questions)
      BY <1>5, <1>6 DEF BatchInv, Answered
    <2>2. \A l \in DOMAIN exchanges : Said(exchanges[l].outcome, exchanges[l].window.questions)
      BY DEF BatchInv, Answered
    <2> QED BY <1>1, <1>4, <2>1, <2>2 DEF Answered
  <1>10. Current' = Current /\ Current = wave
    BY <1>1 DEF Current
  <1>11. Waiting'
    BY <1>1, <1>10 DEF BatchInv, Waiting
  <1>12. Nested' /\ StillOpen'
    BY <1>1 DEF BatchInv, Nested, StillOpen
  <1>13. Requested'
    <2> SUFFICES ASSUME NEW x \in asked'
                 PROVE  \/ \E l \in DOMAIN exchanges : Request(exchanges[l].window) = x
                        \/ \E j \in DOMAIN wave : outcome'[j] # Unknown /\ Request(wave[j]) = x
      BY <1>1, <1>10 DEF Requested
    <2>1. CASE x = k
      BY <1>7, <2>1 DEF k
    <2>2. CASE x \in asked
      <3>1. \/ \E l \in DOMAIN exchanges : Request(exchanges[l].window) = x
            \/ \E j \in DOMAIN wave : outcome[j] # Unknown /\ Request(wave[j]) = x
        BY <1>10, <2>2 DEF BatchInv, Requested
      <3> QED BY <1>6, <1>7, <3>1
    <2> QED BY <1>1, <2>1, <2>2
  <1>14. NoRequestRepeated'
    BY <1>1, <1>3 DEF BatchInv, NoRequestRepeated
  <1>15. Tracked'
    BY <1>1, <1>10 DEF BatchInv, Tracked
  <1>16. Led'
    BY <1>1, <1>10 DEF BatchInv, Led, SiblingsAfterFirst, RowsIn
  <1>17. Phases'
    BY <1>1 DEF Phases
  <1> QED BY <1>8, <1>9, <1>11, <1>12, <1>13, <1>14, <1>15, <1>16, <1>17 DEF BatchInv

-----------------------------------------------------------------------------
(* A wave is applied.                                                        *)

LEMMA PartsShape ==
  ASSUME BatchInv, NEW i \in DOMAIN wave
  PROVE  /\ Parts(i) \in Seq(Windows) /\ Apart(Parts(i))
         /\ \A k \in DOMAIN Parts(i) : Strictly(Parts(i)[k], wave[i])
         /\ Parts(i) # << >> =>
               /\ outcome[i].kind \in {"output", "context"}
               /\ \A q, r : In(wave[i], q, r) => Held(Parts(i), q, r)
  <1> DEFINE w == wave[i]
             p == Parts(i)
  <1>1. w \in Windows
    <2>1. wave \in Seq(Windows)
      BY DEF BatchInv, Typed
    <2> QED BY <2>1
  <1>2. CASE outcome[i].kind \in {"output", "context"} /\ ~Single(w)
    <2>1. Parts(i) = SplitResource(w, outcome[i].kind)
      BY <1>2 DEF Parts
    <2>2. Halves(p, w) /\ \E a, c : p = <<a, c>>
      BY <1>1, <1>2, <2>1, SplitHalves
    <2> HIDE DEF p
    <2>3. PICK a, c : p = <<a, c>>
      BY <2>2
    <2>4. p[1] = a /\ p[2] = c /\ DOMAIN p = {1, 2} /\ p # << >>
      BY <2>3
    <2>5. a \in Windows /\ c \in Windows /\ Inside(a, w) /\ Inside(c, w) /\ Disjoint(a, c)
          /\ Size(a) < Size(w) /\ Size(c) < Size(w)
      BY <2>2, <2>4 DEF Halves
    <2>6. p \in Seq(Windows)
      BY <2>3, <2>5
    <2>7. Apart(p)
      BY <2>4, <2>5 DEF Apart, Disjoint
    <2>8. \A v \in Windows : v.rows = w.rows /\ v.questions = w.questions => Size(v) = Size(w)
      BY DEF Size, RowsOf, QuestionsOf
    <2>9. Strictly(a, w) /\ Strictly(c, w)
      BY <1>1, <2>5, <2>8, SizeType DEF Strictly
    <2>10. \A q, r : In(w, q, r) => Held(p, q, r)
      BY <2>2, <2>4 DEF Halves, Held, In
    <2>11. \A k \in DOMAIN p : Strictly(p[k], w)
      BY <2>4, <2>9
    <2> QED BY <1>2, <2>6, <2>7, <2>10, <2>11 DEF p
  <1>3. CASE ~(outcome[i].kind \in {"output", "context"} /\ ~Single(w))
    <2>1. p = << >>
      BY <1>3 DEF Parts, SplitResource
    <2>2. << >> \in Seq(Windows) /\ DOMAIN << >> = {}
      OBVIOUS
    <2> QED BY <2>1, <2>2 DEF Apart
  <1> QED BY <1>2, <1>3

Divided == FlattenSeq([i \in DOMAIN wave |-> PlanAll(Parts(i))])

\* The parts of a wave's windows, planned.
LEMMA DividedShape ==
  ASSUME BatchInv, phase = "asking"
  PROVE  /\ Divided \in Seq(Windows) /\ Apart(Divided)
         /\ \A k \in DOMAIN Divided : Whole(Divided[k]) /\ \E i \in DOMAIN wave :
               Parts(i) # << >> /\ Strictly(Divided[k], wave[i])
         /\ \A i \in DOMAIN wave : \A q, r :
               Parts(i) # << >> /\ In(wave[i], q, r) => Held(Divided, q, r)
  <1> DEFINE ss == [i \in DOMAIN wave |-> PlanAll(Parts(i))]
             u == Divided
  <1>1. wave \in Seq(Windows) /\ Len(wave) \in Nat /\ DOMAIN wave = 1..Len(wave) /\ Apart(wave)
    <2>1. wave \in Seq(Windows) /\ Apart(wave)
      BY DEF BatchInv, Typed, Waiting, Current
    <2> QED BY <2>1
  <1>2. \A i \in DOMAIN wave : Spreads(ss[i], Parts(i))
    BY PartsShape, PlanAllShape
  <1>3. DOMAIN ss = DOMAIN wave /\ ss = [i \in DOMAIN wave |-> ss[i]]
    OBVIOUS
  <1>4. u = FlattenSeq(ss)
    BY DEF Divided
  <1> HIDE DEF ss
  <1>5. ss \in Seq(Seq(Windows))
    <2>1. \A i \in DOMAIN wave : ss[i] \in Seq(Windows)
      BY <1>2 DEF Spreads
    <2> QED BY <1>1, <1>3, <2>1
  <1>6. \A i \in DOMAIN wave : \A k \in DOMAIN ss[i] :
            Whole(ss[i][k]) /\ Strictly(ss[i][k], wave[i]) /\ Parts(i) # << >>
    <2> SUFFICES ASSUME NEW i \in DOMAIN wave, NEW k \in DOMAIN ss[i]
                 PROVE  Whole(ss[i][k]) /\ Strictly(ss[i][k], wave[i]) /\ Parts(i) # << >>
      OBVIOUS
    <2>1. PICK j \in DOMAIN Parts(i) : Inside(ss[i][k], Parts(i)[j])
      BY <1>2 DEF Spreads
    <2>2. Strictly(Parts(i)[j], wave[i])
      BY PartsShape
    <2>3. Strictly(ss[i][k], wave[i])
      <3> DEFINE v == ss[i][k]
                 p == Parts(i)[j]
                 w == wave[i]
      <3>1. Inside(v, p) /\ Strictly(p, w)
        BY <2>1, <2>2
      <3> HIDE DEF v, p, w
      <3>2. v.rows \subseteq p.rows /\ p.rows \subseteq w.rows
            /\ v.questions \subseteq p.questions /\ p.questions \subseteq w.questions
            /\ (p.rows # w.rows \/ p.questions # w.questions)
        BY <3>1 DEF Strictly, Inside
      <3>3. v.rows # w.rows \/ v.questions # w.questions
        BY <3>2
      <3>4. Strictly(v, w)
        BY <3>1, <3>3 DEF Strictly, Inside
      <3> QED BY <3>4 DEF v, w
    <2>4. Parts(i) # << >>
      <3>1. DOMAIN << >> = {}
        OBVIOUS
      <3> QED BY <2>1, <3>1
    <2>5. Whole(ss[i][k])
      BY <1>2 DEF Spreads
    <2> QED BY <2>3, <2>4, <2>5
  <1>7. \A i \in DOMAIN ss : Apart(ss[i])
    BY <1>2, <1>3 DEF Spreads
  <1>8. \A i, j \in DOMAIN ss : i # j => Between(ss[i], ss[j])
    <2> SUFFICES ASSUME NEW i \in DOMAIN wave, NEW j \in DOMAIN wave, i # j,
                        NEW k \in DOMAIN ss[i], NEW l \in DOMAIN ss[j]
                 PROVE  Disjoint(ss[i][k], ss[j][l])
      BY <1>3 DEF Between
    <2>1. Inside(ss[i][k], wave[i]) /\ Inside(ss[j][l], wave[j]) /\ Disjoint(wave[i], wave[j])
      BY <1>1, <1>6 DEF Apart, Strictly
    <2> QED BY <2>1 DEF Inside, Disjoint
  <1>9. /\ u \in Seq(Windows) /\ Apart(u)
        /\ \A k \in DOMAIN u : \E i \in DOMAIN ss : \E j \in DOMAIN ss[i] : u[k] = ss[i][j]
        /\ \A i \in DOMAIN ss : \A j \in DOMAIN ss[i] : \E k \in DOMAIN u : u[k] = ss[i][j]
    BY <1>4, <1>5, <1>7, <1>8, FlattenShape
  <1> HIDE DEF u
  <1>10. ASSUME NEW k \in DOMAIN u
         PROVE  Whole(u[k]) /\ \E i \in DOMAIN wave : Parts(i) # << >> /\ Strictly(u[k], wave[i])
    <2>1. PICK i \in DOMAIN ss : \E j \in DOMAIN ss[i] : u[k] = ss[i][j]
      BY <1>9
    <2>2. PICK j \in DOMAIN ss[i] : u[k] = ss[i][j]
      BY <2>1
    <2> QED BY <1>3, <1>6, <2>2
  <1>11. ASSUME NEW i \in DOMAIN wave, NEW q, NEW r, Parts(i) # << >>, In(wave[i], q, r)
         PROVE  Held(u, q, r)
    <2>1. Held(Parts(i), q, r)
      BY <1>11, PartsShape
    <2>2. Held(ss[i], q, r)
      BY <1>2, <2>1, SpreadHeld
    <2>3. PICK j \in DOMAIN ss[i] : In(ss[i][j], q, r)
      BY <2>2 DEF Held
    <2>4. PICK k \in DOMAIN u : u[k] = ss[i][j]
      BY <1>3, <1>9
    <2> QED BY <2>3, <2>4 DEF Held
  <1> QED BY <1>9, <1>10, <1>11 DEF u

\* What Collect does to the cells.
LEMMA CollectCells ==
  ASSUME BatchInv, Collect
  PROVE  /\ cells' \in [Questions -> [Rows -> Requests \cup {Nobody}]]
         /\ decisive' \in [Questions -> Seq(Windows)]
         /\ \A q \in Questions, r \in Rows : cells[q][r] # Nobody => cells'[q][r] # Nobody
         /\ \A q \in Questions, r \in Rows : cells'[q][r] # cells[q][r] =>
               \E i \in DOMAIN wave : In(wave[i], q, r) /\ r \in Decides(outcome[i], wave[i], q)
         /\ \A i \in DOMAIN wave : \A q \in Questions, r \in Rows :
               In(wave[i], q, r) /\ r \in Decides(outcome[i], wave[i], q) => cells'[q][r] # Nobody
  <1> DEFINE before(q) == [cells |-> cells[q], windows |-> decisive[q]]
             after(q) == TakenAll(before(q), wave, outcome, q)
  <1>1. /\ phase = "asking"
        /\ cells' = [q \in Questions |-> after(q).cells]
        /\ decisive' = [q \in Questions |-> after(q).windows]
    BY DEF Collect
  <1>2. /\ wave \in Seq(Windows) /\ DOMAIN wave = 1..Len(wave)
        /\ cells \in [Questions -> [Rows -> Requests \cup {Nobody}]]
        /\ decisive \in [Questions -> Seq(Windows)]
    BY DEF BatchInv, Typed
  <1>3. ASSUME NEW q \in Questions
        PROVE  before(q) \in Findings /\ before(q).cells = cells[q]
               /\ Applied(before(q), after(q), wave, outcome, q, Len(wave))
    <2>1. before(q) \in Findings /\ before(q).cells = cells[q]
      BY <1>2 DEF Findings
    <2> HIDE DEF before
    <2> QED BY <1>2, <2>1, TakenAllShape
  <1>4. Apart(wave)
    BY <1>1 DEF BatchInv, Waiting, Current
  <1>5. \A i \in DOMAIN wave : \A q, r : In(wave[i], q, r) => cells[q][r] = Nobody
    BY <1>1 DEF BatchInv, Waiting, Current, AllReady, Ready, In
  <1> HIDE DEF before, after
  <1>6. \A q \in Questions : after(q) \in Findings
    BY <1>3 DEF Applied
  <1>7. cells' \in [Questions -> [Rows -> Requests \cup {Nobody}]]
        /\ decisive' \in [Questions -> Seq(Windows)]
    BY <1>1, <1>6 DEF Findings
  <1>8. \A q \in Questions : cells'[q] = after(q).cells
    BY <1>1
  <1>9. ASSUME NEW q \in Questions, NEW r \in Rows
        PROVE  /\ cells[q][r] # Nobody => cells'[q][r] # Nobody
               /\ cells'[q][r] # cells[q][r] =>
                     \E i \in DOMAIN wave : In(wave[i], q, r) /\ r \in Decides(outcome[i], wave[i], q)
               /\ \A i \in DOMAIN wave :
                     In(wave[i], q, r) /\ r \in Decides(outcome[i], wave[i], q) => cells'[q][r] # Nobody
    <2> DEFINE b == before(q).cells
               a == after(q).cells
    <2>1. b = cells[q] /\ a = cells'[q] /\ Applied(before(q), after(q), wave, outcome, q, Len(wave))
      BY <1>3, <1>8
    <2>2. /\ \A x \in Rows : b[x] # Nobody => a[x] # Nobody
          /\ \A x \in Rows : a[x] # b[x] =>
                \E i \in 1..Len(wave) : In(wave[i], q, x) /\ x \in Decides(outcome[i], wave[i], q)
          /\ FindsApart(before(q), wave, outcome, q) =>
                \A i \in 1..Len(wave) : \A x \in Rows :
                   In(wave[i], q, x) /\ x \in Decides(outcome[i], wave[i], q) => a[x] # Nobody
      BY <2>1 DEF Applied, Finds
    <2>3. FindsApart(before(q), wave, outcome, q)
      BY <1>4, <1>5, <2>1 DEF FindsApart, Finds, Apart, Disjoint, In
    <2> HIDE DEF a, b
    <2>4. \A i \in DOMAIN wave : \A x \in Rows :
              In(wave[i], q, x) /\ x \in Decides(outcome[i], wave[i], q) => a[x] # Nobody
      BY <1>2, <2>2, <2>3
    <2>5. cells'[q][r] = a[r] /\ cells[q][r] = b[r]
      BY <2>1
    <2> QED BY <1>2, <2>2, <2>4, <2>5
  <1> QED BY <1>7, <1>9

\* Different places k and l of u are places of s and of t.
Places(u, s, t, k, l) ==
    \/ \E i, j \in DOMAIN s : i # j /\ u[k] = s[i] /\ u[l] = s[j]
    \/ \E i, j \in DOMAIN t : i # j /\ u[k] = t[i] /\ u[l] = t[j]
    \/ \E i \in DOMAIN s, j \in DOMAIN t : u[k] = s[i] /\ u[l] = t[j]
    \/ \E i \in DOMAIN t, j \in DOMAIN s : u[k] = t[i] /\ u[l] = s[j]

LEMMA ConcatPairs ==
  ASSUME NEW X, NEW s \in Seq(X), NEW t \in Seq(X),
         NEW k \in DOMAIN (s \o t), NEW l \in DOMAIN (s \o t), k # l
  PROVE  Places(s \o t, s, t, k, l)
  <1> DEFINE u == s \o t
             m == Len(s)
  <1>1. /\ Len(s) \in Nat /\ Len(t) \in Nat
        /\ DOMAIN s = 1..m /\ DOMAIN t = 1..Len(t) /\ DOMAIN u = 1..(m + Len(t))
        /\ \A i \in 1..m : u[i] = s[i]
        /\ \A i \in m+1 .. m+Len(t) : u[i] = t[i - m]
    OBVIOUS
  <1> HIDE DEF u
  <1>2. \A i \in DOMAIN u : \/ i \in DOMAIN s /\ u[i] = s[i]
                            \/ i - m \in DOMAIN t /\ u[i] = t[i - m]
    BY <1>1
  <1>3. k \in DOMAIN u /\ l \in DOMAIN u /\ k \in Int /\ l \in Int /\ m \in Int
    BY <1>1 DEF u
  <1>4. k - m # l - m
    BY <1>3
  <1>5. \/ \E i, j \in DOMAIN s : i # j /\ u[k] = s[i] /\ u[l] = s[j]
        \/ \E i, j \in DOMAIN t : i # j /\ u[k] = t[i] /\ u[l] = t[j]
        \/ \E i \in DOMAIN s, j \in DOMAIN t : u[k] = s[i] /\ u[l] = t[j]
        \/ \E i \in DOMAIN t, j \in DOMAIN s : u[k] = t[i] /\ u[l] = s[j]
    <2> HIDE DEF m
    <2>1. (k \in DOMAIN s /\ u[k] = s[k]) \/ (k - m \in DOMAIN t /\ u[k] = t[k - m])
      BY <1>2, <1>3
    <2>2. (l \in DOMAIN s /\ u[l] = s[l]) \/ (l - m \in DOMAIN t /\ u[l] = t[l - m])
      BY <1>2, <1>3
    <2> DEFINE kk == k - m
               ll == l - m
    <2> HIDE DEF kk, ll
    <2>3. (k \in DOMAIN s /\ u[k] = s[k]) \/ (kk \in DOMAIN t /\ u[k] = t[kk])
      BY <2>1 DEF kk
    <2>4. (l \in DOMAIN s /\ u[l] = s[l]) \/ (ll \in DOMAIN t /\ u[l] = t[ll])
      BY <2>2 DEF ll
    <2>5. kk # ll
      BY <1>4 DEF kk, ll
    <2> QED BY <2>3, <2>4, <2>5
  <1>6. Places(u, s, t, k, l)
    BY <1>5 DEF Places
  <1> QED BY <1>6 DEF u

Applies == [i \in DOMAIN wave |->
              [window |-> wave[i], outcome |-> outcome[i], superseded |-> Parts(i) # << >>]]

\* The exchanges after a wave.
LEMMA CollectExchanges ==
  ASSUME BatchInv, Collect
  PROVE  /\ exchanges' = exchanges \o Applies /\ Applies \in Seq(ExchangeSet)
         /\ exchanges' \in Seq(ExchangeSet) /\ Joins(exchanges', exchanges, Applies)
         /\ DOMAIN Applies = DOMAIN wave
         /\ \A i \in DOMAIN wave :
               /\ Applies[i].window = wave[i] /\ Applies[i].outcome = outcome[i]
               /\ Applies[i].superseded = (Parts(i) # << >>)
  <1>1. exchanges' = exchanges \o Applies
    BY DEF Collect, Applies
  <1>2. /\ wave \in Seq(Windows) /\ outcome \in Seq(Outcomes) /\ DOMAIN outcome = DOMAIN wave
        /\ exchanges \in Seq(ExchangeSet)
    BY DEF BatchInv, Typed
  <1>3. /\ DOMAIN wave = 1..Len(wave) /\ Len(wave) \in Nat
        /\ \A i \in DOMAIN wave : wave[i] \in Windows /\ outcome[i] \in Outcomes
    BY <1>2
  <1>4. DOMAIN Applies = DOMAIN wave
        /\ \A i \in DOMAIN wave :
               /\ Applies[i].window = wave[i] /\ Applies[i].outcome = outcome[i]
               /\ Applies[i].superseded = (Parts(i) # << >>)
    BY DEF Applies
  <1>5. Applies \in Seq(ExchangeSet)
    <2>1. \A i \in DOMAIN wave :
              [window |-> wave[i], outcome |-> outcome[i], superseded |-> Parts(i) # << >>] \in ExchangeSet
      BY <1>3 DEF ExchangeSet
    <2> QED BY <1>3, <2>1 DEF Applies
  <1>6. exchanges' \in Seq(ExchangeSet) /\ Joins(exchanges', exchanges, Applies)
    BY <1>1, <1>2, <1>5, ConcatShape
  <1> QED BY <1>1, <1>4, <1>5, <1>6

\* A window that waits behind a wave, or is part of one that the wave divides, stays ready.
LEMMA CollectReady ==
  ASSUME BatchInv, Collect, NEW v, Ready(v, catalogue, cells, exchanges, reasking), v \in Windows,
         \A j \in DOMAIN wave : Disjoint(wave[j], v) \/ (Parts(j) # << >> /\ Strictly(v, wave[j]))
  PROVE  Ready(v, catalogue, cells', exchanges', reasking)
  <1>1. v.catalogue = catalogue /\ v.reask = reasking
    BY DEF Ready
  <1>2. ASSUME NEW q \in v.questions, NEW r \in v.rows PROVE cells'[q][r] = Nobody
    <2>1. cells[q][r] = Nobody /\ q \in Questions /\ r \in Rows
      BY WindowShape DEF Ready
    <2>2. ASSUME cells'[q][r] # cells[q][r] PROVE FALSE
      <3>1. PICK j \in DOMAIN wave : In(wave[j], q, r) /\ r \in Decides(outcome[j], wave[j], q)
        BY <2>1, <2>2, CollectCells
      <3>2. Parts(j) # << >>
        BY <3>1 DEF Disjoint, In
      <3>3. outcome[j].kind \in {"output", "context"}
        BY <3>2, PartsShape
      <3>4. outcome[j].kind = "answer"
        BY <3>1 DEF Decides, Accepted
      <3> QED BY <3>3, <3>4
    <2> QED BY <2>1, <2>2
  <1>3. ASSUME NEW k \in DOMAIN exchanges', exchanges'[k].window.reask = reasking
        PROVE  \/ Disjoint(exchanges'[k].window, v)
               \/ exchanges'[k].superseded /\ Strictly(v, exchanges'[k].window)
    <2>1. CASE \E i \in DOMAIN exchanges : exchanges'[k] = exchanges[i]
      BY <1>3, <2>1 DEF Ready
    <2>2. CASE \E i \in DOMAIN wave : exchanges'[k] = Applies[i]
      <3>1. PICK i \in DOMAIN wave : exchanges'[k] = Applies[i]
        BY <2>2
      <3>2. exchanges'[k].window = wave[i] /\ exchanges'[k].superseded = (Parts(i) # << >>)
        BY <3>1, CollectExchanges
      <3> QED BY <3>2
    <2> QED BY <2>1, <2>2, CollectExchanges DEF Joins
  <1>4. reasking => LeftOut(v, exchanges')
    <2>1. \A i \in DOMAIN exchanges : \E k \in DOMAIN exchanges' : exchanges'[k] = exchanges[i]
      BY CollectExchanges DEF Joins
    <2> QED BY <2>1 DEF Ready, LeftOut
  <1> QED BY <1>1, <1>2, <1>3, <1>4 DEF Ready

LEMMA CollectWaiting ==
  ASSUME BatchInv, Collect
  PROVE  Waiting' /\ next' \in Seq(Windows)
  <1>1. /\ phase = "asking" /\ phase' = "collected" /\ next' = next \o Divided
        /\ UNCHANGED <<catalogue, wave, outcome, rest, reasking>>
    BY DEF Collect, Divided
  <1>2. Current = wave /\ Current' = << >>
    BY <1>1 DEF Current
  <1>3. /\ wave \in Seq(Windows) /\ rest \in Seq(Windows) /\ next \in Seq(Windows)
        /\ \A i \in DOMAIN wave : wave[i] \in Windows
        /\ \A i \in DOMAIN rest : rest[i] \in Windows
        /\ \A i \in DOMAIN next : next[i] \in Windows
    <2>1. wave \in Seq(Windows) /\ rest \in Seq(Windows) /\ next \in Seq(Windows)
      BY DEF BatchInv, Typed
    <2> QED BY <2>1
  <1>4. /\ Apart(wave) /\ Apart(rest) /\ Apart(next)
        /\ Between(wave, rest) /\ Between(wave, next) /\ Between(rest, next)
        /\ AllReady(wave, catalogue, cells, exchanges, reasking)
        /\ AllReady(rest, catalogue, cells, exchanges, reasking)
        /\ AllReady(next, catalogue, cells, exchanges, reasking)
    BY <1>2 DEF BatchInv, Waiting
  <1>5. /\ Divided \in Seq(Windows) /\ Apart(Divided)
        /\ \A k \in DOMAIN Divided : Whole(Divided[k]) /\ \E i \in DOMAIN wave :
               Parts(i) # << >> /\ Strictly(Divided[k], wave[i])
    BY <1>1, DividedShape
  <1>6. \A s : Between(wave, s) => Between(s, Divided) /\ Between(Divided, s)
    <2> SUFFICES ASSUME NEW s, Between(wave, s), NEW j \in DOMAIN s, NEW k \in DOMAIN Divided
                 PROVE  Disjoint(s[j], Divided[k]) /\ Disjoint(Divided[k], s[j])
      BY DEF Between
    <2>1. PICK i \in DOMAIN wave : Strictly(Divided[k], wave[i])
      BY <1>5
    <2>2. Inside(Divided[k], wave[i]) /\ Disjoint(wave[i], s[j])
      BY <2>1 DEF Strictly, Between
    <2> QED BY <2>2, InsideDisjoint
  <1>7. next' \in Seq(Windows) /\ Joins(next', next, Divided) /\ Apart(next')
    BY <1>1, <1>3, <1>4, <1>5, <1>6, ConcatShape
  <1>8. Between(rest, next')
    <2> SUFFICES ASSUME NEW j \in DOMAIN rest, NEW k \in DOMAIN next' PROVE Disjoint(rest[j], next'[k])
      BY DEF Between
    <2>1. Between(rest, Divided)
      BY <1>4, <1>6
    <2> QED BY <1>4, <1>7, <2>1 DEF Joins, Between
  <1>9. AllReady(rest, catalogue, cells', exchanges', reasking)
        /\ AllReady(next, catalogue, cells', exchanges', reasking)
    <2>1. ASSUME NEW s, Between(wave, s), \A i \in DOMAIN s : s[i] \in Windows,
                 AllReady(s, catalogue, cells, exchanges, reasking)
          PROVE  AllReady(s, catalogue, cells', exchanges', reasking)
      <3> SUFFICES ASSUME NEW i \in DOMAIN s
                   PROVE  Whole(s[i]) /\ Ready(s[i], catalogue, cells', exchanges', reasking)
        BY DEF AllReady
      <3>1. Whole(s[i]) /\ Ready(s[i], catalogue, cells, exchanges, reasking) /\ s[i] \in Windows
        BY <2>1 DEF AllReady
      <3>2. \A j \in DOMAIN wave : Disjoint(wave[j], s[i])
        BY <2>1 DEF Between
      <3> QED BY <3>1, <3>2, CollectReady
    <2> QED BY <1>3, <1>4, <2>1
  <1>10. AllReady(Divided, catalogue, cells', exchanges', reasking)
    <2> SUFFICES ASSUME NEW k \in DOMAIN Divided
                 PROVE  Whole(Divided[k]) /\ Ready(Divided[k], catalogue, cells', exchanges', reasking)
      BY DEF AllReady
    <2>1. PICK i \in DOMAIN wave : Parts(i) # << >> /\ Strictly(Divided[k], wave[i])
      BY <1>5
    <2>2. Inside(Divided[k], wave[i]) /\ Ready(wave[i], catalogue, cells, exchanges, reasking)
      BY <1>4, <2>1 DEF AllReady, Strictly
    <2>3. Ready(Divided[k], catalogue, cells, exchanges, reasking) /\ Divided[k] \in Windows
      <3>1. Divided[k] \in Windows
        BY <1>5
      <3> QED BY <2>2, <3>1, ReadyInside
    <2>4. \A j \in DOMAIN wave :
              Disjoint(wave[j], Divided[k]) \/ (Parts(j) # << >> /\ Strictly(Divided[k], wave[j]))
      <3> SUFFICES ASSUME NEW j \in DOMAIN wave, j # i PROVE Disjoint(wave[j], Divided[k])
        BY <2>1
      <3>1. Disjoint(wave[i], wave[j])
        BY <1>4 DEF Apart
      <3> QED BY <2>2, <3>1, InsideDisjoint
    <2>5. Whole(Divided[k])
      BY <1>5
    <2> QED BY <2>3, <2>4, <2>5, CollectReady
  <1>11. AllReady(next', catalogue, cells', exchanges', reasking)
    BY <1>7, <1>9, <1>10 DEF Joins, AllReady
  <1>12. DOMAIN << >> = {}
    OBVIOUS
  <1>13. /\ Apart(<< >>) /\ Between(<< >>, rest) /\ Between(<< >>, next')
         /\ AllReady(<< >>, catalogue, cells', exchanges', reasking)
    BY <1>12 DEF Apart, Between, AllReady
  <1> QED BY <1>1, <1>2, <1>4, <1>7, <1>8, <1>9, <1>11, <1>13 DEF Waiting

LEMMA CollectNested ==
  ASSUME BatchInv, Collect
  PROVE  Nested' /\ StillOpen'
  <1> DEFINE D == exchanges'
             W(k) == exchanges[k].window
  <1>1. phase = "asking" /\ UNCHANGED <<catalogue, wave, outcome, reasking>>
    BY DEF Collect
  <1>2. /\ Apart(wave) /\ wave \in Seq(Windows)
        /\ \A i \in DOMAIN wave : Ready(wave[i], catalogue, cells, exchanges, reasking) /\ wave[i] \in Windows
    <2>1. Apart(wave) /\ wave \in Seq(Windows) /\ AllReady(wave, catalogue, cells, exchanges, reasking)
      BY <1>1 DEF BatchInv, Typed, Waiting, Current
    <2> QED BY <2>1 DEF AllReady
  <1>3. /\ D = exchanges \o Applies /\ Applies \in Seq(ExchangeSet) /\ exchanges \in Seq(ExchangeSet)
        /\ Joins(D, exchanges, Applies) /\ DOMAIN Applies = DOMAIN wave
        /\ \A i \in DOMAIN wave :
               /\ Applies[i].window = wave[i] /\ Applies[i].outcome = outcome[i]
               /\ Applies[i].superseded = (Parts(i) # << >>)
    BY CollectExchanges DEF BatchInv, Typed
  <1>4. NestedIn(exchanges, catalogue, reasking)
    BY DEF BatchInv, Nested
  <1>5. \A k \in DOMAIN exchanges, i \in DOMAIN wave : W(k).reask = reasking =>
            Disjoint(W(k), wave[i]) \/ (exchanges[k].superseded /\ Inside(wave[i], W(k)))
    BY <1>2 DEF Ready, Strictly
  <1>6. NestedIn(D, catalogue, reasking)
    <2>1. ASSUME NEW k \in DOMAIN D
          PROVE  /\ D[k].window.catalogue = catalogue
                 /\ D[k].window.reask => reasking
                 /\ D[k].superseded => D[k].outcome.kind # "answer"
      <3>1. CASE \E i \in DOMAIN exchanges : D[k] = exchanges[i]
        BY <1>4, <3>1 DEF NestedIn
      <3>2. CASE \E i \in DOMAIN Applies : D[k] = Applies[i]
        <4>1. PICK i \in DOMAIN wave : D[k] = Applies[i]
          BY <1>3, <3>2
        <4>2. Parts(i) # << >> => outcome[i].kind # "answer"
          BY PartsShape
        <4>3. wave[i].catalogue = catalogue /\ wave[i].reask = reasking
          BY <1>2 DEF Ready
        <4> QED BY <1>3, <4>1, <4>2, <4>3
      <3> QED BY <1>3, <3>1, <3>2 DEF Joins
    <2>2. ASSUME NEW k \in DOMAIN D, NEW l \in DOMAIN D, k # l, D[k].window.reask = D[l].window.reask
          PROVE  \/ Disjoint(D[k].window, D[l].window)
                 \/ D[k].superseded /\ Inside(D[l].window, D[k].window)
                 \/ D[l].superseded /\ Inside(D[k].window, D[l].window)
      <3>1. CASE \E i, j \in DOMAIN exchanges : i # j /\ D[k] = exchanges[i] /\ D[l] = exchanges[j]
        BY <1>4, <2>2, <3>1 DEF NestedIn
      <3>2. CASE \E i, j \in DOMAIN Applies : i # j /\ D[k] = Applies[i] /\ D[l] = Applies[j]
        BY <1>2, <1>3, <3>2 DEF Apart
      <3>3. CASE \E i \in DOMAIN exchanges, j \in DOMAIN Applies : D[k] = exchanges[i] /\ D[l] = Applies[j]
        <4>1. PICK i \in DOMAIN exchanges, j \in DOMAIN wave : D[k] = exchanges[i] /\ D[l] = Applies[j]
          BY <1>3, <3>3
        <4>2. D[l].window = wave[j] /\ wave[j].reask = reasking
          BY <1>2, <1>3, <4>1 DEF Ready
        <4> QED BY <1>5, <2>2, <4>1, <4>2
      <3>4. CASE \E i \in DOMAIN Applies, j \in DOMAIN exchanges : D[k] = Applies[i] /\ D[l] = exchanges[j]
        <4>1. PICK i \in DOMAIN wave, j \in DOMAIN exchanges : D[k] = Applies[i] /\ D[l] = exchanges[j]
          BY <1>3, <3>4
        <4>2. D[k].window = wave[i] /\ wave[i].reask = reasking
          BY <1>2, <1>3, <4>1 DEF Ready
        <4>3. Disjoint(W(j), wave[i]) \/ (exchanges[j].superseded /\ Inside(wave[i], W(j)))
          BY <1>5, <2>2, <4>1, <4>2
        <4> QED BY <4>1, <4>2, <4>3 DEF Disjoint
      <3>5. \/ \E i, j \in DOMAIN exchanges : i # j /\ D[k] = exchanges[i] /\ D[l] = exchanges[j]
            \/ \E i, j \in DOMAIN Applies : i # j /\ D[k] = Applies[i] /\ D[l] = Applies[j]
            \/ \E i \in DOMAIN exchanges, j \in DOMAIN Applies : D[k] = exchanges[i] /\ D[l] = Applies[j]
            \/ \E i \in DOMAIN Applies, j \in DOMAIN exchanges : D[k] = Applies[i] /\ D[l] = exchanges[j]
        <4> DEFINE s == exchanges
                   t == Applies
        <4>1. D = s \o t /\ s \in Seq(ExchangeSet) /\ t \in Seq(ExchangeSet)
          BY <1>3
        <4> HIDE DEF D, s, t
        <4>2. k \in DOMAIN (s \o t) /\ l \in DOMAIN (s \o t)
          BY <4>1
        <4>3. Places(s \o t, s, t, k, l)
          BY <2>2, <4>1, <4>2, ConcatPairs
        <4> QED BY <4>1, <4>3 DEF s, t, Places
      <3> QED BY <3>1, <3>2, <3>3, <3>4, <3>5, Zenon
    <2> HIDE DEF D
    <2> QED BY <2>1, <2>2 DEF NestedIn
  <1>7. ASSUME ~reasking PROVE OpenIn(D, cells')
    <2> SUFFICES ASSUME NEW k \in DOMAIN D, NEW q \in Omitted(D[k]), NEW r \in D[k].window.rows
                 PROVE  cells'[q][r] = Nobody
      BY DEF OpenIn
    <2>1. CASE \E i \in DOMAIN exchanges : D[k] = exchanges[i]
      <3>1. PICK i \in DOMAIN exchanges : D[k] = exchanges[i]
        BY <2>1
      <3>2. cells[q][r] = Nobody
        BY <1>7, <3>1 DEF BatchInv, StillOpen, OpenIn
      <3>3. W(i) \in Windows /\ q \in W(i).questions /\ r \in W(i).rows /\ ~exchanges[i].superseded
            /\ ~W(i).reask
        BY <1>4, <1>7, <3>1, OmittedShape DEF BatchInv, NestedIn
      <3>4. q \in Questions /\ r \in Rows /\ W(i).reask = reasking
        BY <1>7, <3>3, WindowShape DEF BatchInv, Typed
      <3>5. ASSUME cells'[q][r] # cells[q][r] PROVE FALSE
        <4>1. PICK j \in DOMAIN wave : In(wave[j], q, r)
          BY <3>4, <3>5, CollectCells
        <4> QED BY <1>5, <3>3, <3>4, <4>1 DEF Disjoint, In
      <3> QED BY <3>2, <3>5
    <2>2. CASE \E i \in DOMAIN Applies : D[k] = Applies[i]
      <3>1. PICK i \in DOMAIN wave : D[k] = Applies[i]
        BY <1>3, <2>2
      <3>2. outcome[i].kind = "answer" /\ q \in outcome[i].omitted /\ r \in wave[i].rows
        BY <1>3, <3>1 DEF Omitted
      <3>3. q \in wave[i].questions /\ q \notin outcome[i].decided
        BY <3>2 DEF BatchInv, Answered, Said
      <3>4. In(wave[i], q, r) /\ q \in Questions /\ r \in Rows /\ cells[q][r] = Nobody
        BY <1>2, <3>2, <3>3, WindowShape DEF In, Ready
      <3>5. ASSUME cells'[q][r] # cells[q][r] PROVE FALSE
        <4>1. PICK j \in DOMAIN wave : In(wave[j], q, r) /\ r \in Decides(outcome[j], wave[j], q)
          BY <3>4, <3>5, CollectCells
        <4>2. i = j
          BY <1>2, <3>4, <4>1 DEF Apart, Disjoint, In
        <4> QED BY <3>3, <4>1, <4>2 DEF Decides
      <3> QED BY <3>4, <3>5
    <2> QED BY <1>3, <2>1, <2>2 DEF Joins
  <1> QED BY <1>1, <1>6, <1>7 DEF Nested, StillOpen

LEMMA CollectTracked ==
  ASSUME BatchInv, Collect
  PROVE  Tracked'
  <1>1. /\ phase = "asking" /\ next' = next \o Divided /\ \A i \in DOMAIN wave : outcome[i] # Unknown
        /\ UNCHANGED <<catalogue, wave, outcome, rest, reasking>>
    BY DEF Collect, Divided
  <1>2. Current = wave
    BY <1>1 DEF Current
  <1>3. /\ Joins(exchanges', exchanges, Applies) /\ DOMAIN Applies = DOMAIN wave
        /\ \A i \in DOMAIN wave :
               /\ Applies[i].window = wave[i] /\ Applies[i].outcome = outcome[i]
               /\ Applies[i].superseded = (Parts(i) # << >>)
    BY CollectExchanges
  <1>4. Joins(next', next, Divided)
    <2>1. next \in Seq(Windows) /\ Divided \in Seq(Windows)
      BY <1>1, DividedShape DEF BatchInv, Typed
    <2> QED BY <1>1, <2>1, ConcatShape
  <1>5. \A q, r : Held(next, q, r) \/ Held(Divided, q, r) => Held(next', q, r)
    BY <1>4 DEF Joins, Held
  <1> DEFINE Left(done, q, r) == \E k \in DOMAIN done :
               LET e == done[k] IN
               /\ Covers(e, q, r) /\ ~e.superseded
               /\ Excuses(e, q, r) \/ (~reasking /\ q \in Omitted(e))
  <1>6. \A q, r : Left(exchanges, q, r) => Left(exchanges', q, r)
    BY <1>3 DEF Joins
  <1>7. ASSUME NEW i \in DOMAIN wave, NEW q \in Questions, NEW r \in Rows,
               In(wave[i], q, r), cells'[q][r] = Nobody
        PROVE  Held(next', q, r) \/ Left(exchanges', q, r)
    <2> DEFINE e == Applies[i]
               o == outcome[i]
               w == wave[i]
    <2>1. e.window = w /\ e.outcome = o /\ e.superseded = (Parts(i) # << >>) /\ Covers(e, q, r)
      BY <1>3, <1>7 DEF Covers, In
    <2>2. \E k \in DOMAIN exchanges' : exchanges'[k] = e
      BY <1>3 DEF Joins
    <2>3. w.reask = reasking
      BY <1>2 DEF BatchInv, Waiting, AllReady, Ready
    <2>4. ASSUME ~e.superseded, Excuses(e, q, r) \/ (~reasking /\ q \in Omitted(e))
          PROVE  Left(exchanges', q, r)
      BY <2>1, <2>2, <2>4
    <2>5. CASE Parts(i) # << >>
      <3>1. Held(Divided, q, r)
        BY <1>1, <1>7, <2>5, DividedShape
      <3> QED BY <1>5, <3>1
    <2>6. CASE Parts(i) = << >>
      <3>0. ~e.superseded
        BY <2>1, <2>6
      <3>1. CASE o.kind # "answer" \/ q \notin o.decided \cup o.omitted
        <4>1. Excuses(e, q, r)
          BY <2>1, <3>1 DEF Excuses
        <4> QED BY <2>4, <3>0, <4>1
      <3>2. CASE o.kind = "answer" /\ q \in o.decided
        <4>1. <<q, r>> \in o.refused
          <5> SUFFICES ASSUME <<q, r>> \notin o.refused PROVE FALSE
            OBVIOUS
          <5>1. r \in Decides(o, w, q)
            BY <1>7, <3>2 DEF Decides, Accepted, In
          <5> QED BY <1>7, <5>1, CollectCells
        <4>2. Excuses(e, q, r)
          BY <2>1, <3>2, <4>1 DEF Excuses
        <4> QED BY <2>4, <3>0, <4>2
      <3>3. CASE o.kind = "answer" /\ q \in o.omitted
        <4>1. CASE w.reask \/ o.omitted = w.questions
          <5>1. Excuses(e, q, r)
            BY <2>1, <3>3, <4>1 DEF Excuses
          <5> QED BY <2>4, <3>0, <5>1
        <4>2. CASE ~(w.reask \/ o.omitted = w.questions)
          <5>1. ~reasking /\ q \in Omitted(e)
            BY <2>1, <2>3, <3>3, <4>2 DEF Omitted
          <5> QED BY <2>4, <3>0, <5>1
        <4> QED BY <4>1, <4>2
      <3> QED BY <3>1, <3>2, <3>3
    <2> QED BY <2>5, <2>6
  <1>8. ASSUME NEW q \in catalogue, NEW r \in Rows, cells'[q][r] = Nobody
        PROVE  Held(rest', q, r) \/ Held(next', q, r) \/ Left(exchanges', q, r)
    <2>1. q \in Questions
      BY QuestionAssumption DEF BatchInv, Typed
    <2>2. cells[q][r] = Nobody
      BY <1>8, <2>1, CollectCells
    <2>3. Held(wave, q, r) \/ Held(rest, q, r) \/ Held(next, q, r) \/ Left(exchanges, q, r)
      BY <1>1, <1>2, <2>2 DEF BatchInv, Tracked
    <2>4. CASE Held(wave, q, r)
      <3>1. PICK i \in DOMAIN wave : In(wave[i], q, r)
        BY <2>4 DEF Held
      <3> QED BY <1>7, <1>8, <2>1, <3>1
    <2> QED BY <1>1, <1>5, <1>6, <2>3, <2>4
  <1> QED BY <1>1, <1>8 DEF Tracked

LEMMA CollectBatchInv ==
  ASSUME BatchInv, Collect
  PROVE  BatchInv'
  <1>1. /\ phase = "asking" /\ phase' = "collected" /\ \A i \in DOMAIN wave : outcome[i] # Unknown
        /\ warm' = warm \cup {wave[i].rows : i \in {j \in DOMAIN wave : ~outcome[j].cached}}
        /\ UNCHANGED <<catalogue, wave, outcome, rest, reasking, record, memo, asked, repeated, kept>>
    BY DEF Collect, cache, history
  <1>2. Current = wave /\ Current' = << >>
    BY <1>1 DEF Current
  <1>3. /\ exchanges' \in Seq(ExchangeSet) /\ Joins(exchanges', exchanges, Applies)
        /\ DOMAIN Applies = DOMAIN wave
        /\ \A i \in DOMAIN wave :
               /\ Applies[i].window = wave[i] /\ Applies[i].outcome = outcome[i]
               /\ Applies[i].superseded = (Parts(i) # << >>)
    BY CollectExchanges
  <1>4. Waiting' /\ next' \in Seq(Windows)
    BY CollectWaiting
  <1>5. \A i \in DOMAIN wave : wave[i] \in Windows /\ wave[i].rows \in SUBSET Rows
    <2>1. wave \in Seq(Windows)
      BY DEF BatchInv, Typed
    <2> QED BY <2>1, WindowShape
  <1>6. Typed'
    <2>1. warm' \subseteq SUBSET Rows
      BY <1>1, <1>5 DEF BatchInv, Typed
    <2>2. cells' \in [Questions -> [Rows -> Requests \cup {Nobody}]]
          /\ decisive' \in [Questions -> Seq(Windows)]
      BY CollectCells
    <2> QED BY <1>1, <1>3, <1>4, <2>1, <2>2 DEF BatchInv, Typed
  <1>7. Answered'
    <2>1. ASSUME NEW k \in DOMAIN exchanges'
          PROVE  Said(exchanges'[k].outcome, exchanges'[k].window.questions)
      <3>1. CASE \E i \in DOMAIN exchanges : exchanges'[k] = exchanges[i]
        BY <3>1 DEF BatchInv, Answered
      <3>2. CASE \E i \in DOMAIN Applies : exchanges'[k] = Applies[i]
        BY <1>3, <3>2 DEF BatchInv, Answered
      <3> QED BY <1>3, <3>1, <3>2 DEF Joins
    <2> QED BY <1>1, <2>1 DEF BatchInv, Answered
  <1>8. Requested'
    <2> SUFFICES ASSUME NEW x \in asked
                 PROVE  \E l \in DOMAIN exchanges' : Request(exchanges'[l].window) = x
      BY <1>1 DEF Requested
    <2>1. CASE \E l \in DOMAIN exchanges : Request(exchanges[l].window) = x
      BY <1>3, <2>1 DEF Joins
    <2>2. CASE \E i \in DOMAIN wave : Request(wave[i]) = x
      <3>1. PICK i \in DOMAIN wave : Request(wave[i]) = x
        BY <2>2
      <3>2. PICK l \in DOMAIN exchanges' : exchanges'[l] = Applies[i]
        BY <1>3 DEF Joins
      <3> QED BY <1>3, <3>1, <3>2
    <2> QED BY <1>2, <2>1, <2>2 DEF BatchInv, Requested
  <1>9. Led'
    <2>1. RowsIn(exchanges) \subseteq RowsIn(exchanges')
      BY <1>3 DEF Joins, RowsIn
    <2>2. \A i \in DOMAIN wave : wave[i].rows \in RowsIn(exchanges')
      <3> SUFFICES ASSUME NEW i \in DOMAIN wave PROVE wave[i].rows \in RowsIn(exchanges')
        OBVIOUS
      <3>1. PICK l \in DOMAIN exchanges' : exchanges'[l] = Applies[i]
        BY <1>3 DEF Joins
      <3> QED BY <1>3, <3>1 DEF RowsIn
    <2>3. warm' \subseteq RowsIn(exchanges')
      BY <1>1, <2>1, <2>2 DEF BatchInv, Led
    <2>4. \A i \in DOMAIN rest : rest[i].rows \in RowsIn(exchanges')
      BY <1>2, <2>1, <2>2 DEF BatchInv, Led
    <2>5. SiblingsAfterFirst'
      BY <1>1, <2>2 DEF SiblingsAfterFirst, RowsIn
    <2>6. RowsIn(exchanges)' = RowsIn(exchanges')
      BY DEF RowsIn
    <2> QED BY <1>1, <2>3, <2>4, <2>5, <2>6 DEF Led
  <1>10. NoRequestRepeated' /\ Phases'
    BY <1>1 DEF BatchInv, NoRequestRepeated, Phases
  <1> QED BY <1>4, <1>6, <1>7, <1>8, <1>9, <1>10, CollectNested, CollectTracked DEF BatchInv

-----------------------------------------------------------------------------
(* The next windows are asked.                                               *)

\* What stays when a wave starts.
LEMMA AdvanceKeeps ==
  ASSUME BatchInv, Advance
  PROVE  /\ phase = "collected" /\ phase' = "asking" /\ Current = << >> /\ Current' = wave'
         /\ UNCHANGED <<catalogue, cells, warm, exchanges, decisive, record, memo, asked, repeated, kept>>
         /\ (Requested /\ NoRequestRepeated /\ Phases)'
  <1>1. /\ phase = "collected" /\ phase' = "asking"
        /\ UNCHANGED <<catalogue, cells, warm, exchanges, decisive, record, memo, asked, repeated, kept>>
    BY DEF Advance, Rest, NextRound, Reask, cache, history
  <1>2. Current = << >> /\ Current' = wave'
    BY <1>1 DEF Current
  <1>3. DOMAIN << >> = {}
    OBVIOUS
  <1>4. Requested'
    BY <1>1, <1>2, <1>3 DEF BatchInv, Requested
  <1>5. NoRequestRepeated' /\ Phases'
    BY <1>1 DEF BatchInv, NoRequestRepeated, Phases
  <1> QED BY <1>1, <1>2, <1>4, <1>5

\* A wave that has not been told anything.
LEMMA UntoldWave ==
  ASSUME BatchInv, Advance, reasking' \in BOOLEAN,
         wave' \in Seq(Windows), rest' \in Seq(Windows), next' \in Seq(Windows),
         outcome' \in Seq(Outcomes), DOMAIN outcome' = DOMAIN wave',
         \A i \in DOMAIN wave' : outcome'[i] = Unknown
  PROVE  Typed' /\ Answered'
  <1>1. Typed'
    BY AdvanceKeeps DEF BatchInv, Typed
  <1>2. Answered'
    BY AdvanceKeeps, UnknownSaid DEF BatchInv, Answered
  <1> QED BY <1>1, <1>2

LEMMA RestBatchInv ==
  ASSUME BatchInv, Advance, Rest
  PROVE  BatchInv'
  <1>1. /\ wave' = rest /\ outcome' = [i \in DOMAIN rest |-> Unknown] /\ rest' = << >>
        /\ UNCHANGED <<next, reasking>>
    BY DEF Rest, Ask
  <1>2. /\ phase = "collected" /\ phase' = "asking" /\ Current = << >> /\ Current' = wave'
        /\ UNCHANGED <<catalogue, cells, warm, exchanges, decisive, record, memo, asked, repeated, kept>>
        /\ (Requested /\ NoRequestRepeated /\ Phases)'
    BY AdvanceKeeps
  <1>3. DOMAIN << >> = {} /\ << >> \in Seq(Windows)
    OBVIOUS
  <1>4. rest \in Seq(Windows) /\ next \in Seq(Windows) /\ reasking \in BOOLEAN
    BY DEF BatchInv, Typed
  <1>5. outcome' \in Seq(Outcomes) /\ DOMAIN outcome' = DOMAIN wave'
        /\ \A i \in DOMAIN wave' : outcome'[i] = Unknown
    <2>1. Len(rest) \in Nat /\ DOMAIN rest = 1..Len(rest)
      BY <1>4
    <2> QED BY <1>1, <2>1, UnknownSaid
  <1>6. Typed' /\ Answered'
    BY <1>1, <1>3, <1>4, <1>5, UntoldWave
  <1>7. Waiting'
    <2>1. /\ Apart(rest) /\ Apart(next) /\ Between(rest, next)
          /\ AllReady(rest, catalogue, cells, exchanges, reasking)
          /\ AllReady(next, catalogue, cells, exchanges, reasking)
      BY DEF BatchInv, Waiting
    <2>2. Apart(<< >>) /\ Between(rest, << >>) /\ Between(<< >>, next)
          /\ AllReady(<< >>, catalogue, cells, exchanges, reasking)
      BY <1>3 DEF Apart, Between, AllReady
    <2> QED BY <1>1, <1>2, <2>1, <2>2 DEF Waiting
  <1>8. Nested' /\ StillOpen'
    BY <1>1, <1>2 DEF BatchInv, Nested, StillOpen
  <1>9. Tracked'
    <2> SUFFICES ASSUME NEW q \in catalogue, NEW r \in Rows, cells[q][r] = Nobody
                 PROVE  \/ Held(rest, q, r) \/ Held(next, q, r)
                        \/ \E k \in DOMAIN exchanges :
                              LET e == exchanges[k] IN
                              /\ Covers(e, q, r) /\ ~e.superseded
                              /\ Excuses(e, q, r) \/ (~reasking /\ q \in Omitted(e))
      BY <1>1, <1>2 DEF Tracked
    <2>1. ~Held(<< >>, q, r)
      BY <1>3 DEF Held
    <2> QED BY <1>2, <2>1 DEF BatchInv, Tracked
  <1>10. Led'
    <2>1. \A i \in DOMAIN rest : rest[i].rows \in RowsIn(exchanges)
      BY <1>2, <1>3 DEF BatchInv, Led
    <2>2. SiblingsAfterFirst'
      BY <1>1, <1>2, <2>1 DEF SiblingsAfterFirst, RowsIn
    <2>3. warm' \subseteq RowsIn(exchanges)'
      BY <1>2 DEF BatchInv, Led, RowsIn
    <2> QED BY <1>1, <1>3, <2>2, <2>3 DEF Led
  <1> QED BY <1>2, <1>6, <1>7, <1>8, <1>9, <1>10 DEF BatchInv

LEMMA NextRoundBatchInv ==
  ASSUME BatchInv, Advance, NextRound
  PROVE  BatchInv'
  <1>1. /\ rest = << >> /\ StartRound(next, warm) /\ next' = << >> /\ reasking' = reasking
    BY DEF NextRound
  <1>2. /\ phase = "collected" /\ phase' = "asking" /\ Current = << >> /\ Current' = wave'
        /\ UNCHANGED <<catalogue, cells, warm, exchanges, decisive, record, memo, asked, repeated, kept>>
        /\ (Requested /\ NoRequestRepeated /\ Phases)'
    BY AdvanceKeeps
  <1>3. DOMAIN << >> = {}
    OBVIOUS
  <1>4. /\ next \in Seq(Windows) /\ Apart(next) /\ reasking \in BOOLEAN
        /\ AllReady(next, catalogue, cells, exchanges, reasking)
        /\ warm \subseteq RowsIn(exchanges)
    BY DEF BatchInv, Typed, Waiting, Led
  <1>5. /\ AllReady(next, catalogue', cells', exchanges', reasking')
        /\ warm \subseteq RowsIn(exchanges') /\ warm' \subseteq RowsIn(exchanges')
    BY <1>1, <1>2, <1>4
  <1>6. /\ wave' \in Seq(Windows) /\ rest' \in Seq(Windows) /\ next' \in Seq(Windows)
        /\ outcome' \in Seq(Outcomes) /\ DOMAIN outcome' = DOMAIN wave'
        /\ \A i \in DOMAIN wave' : outcome'[i] = Unknown
        /\ Waiting' /\ Led'
        /\ \A q, r : Held(next, q, r) => Held(Current', q, r) \/ Held(rest', q, r)
    BY <1>1, <1>2, <1>4, <1>5, NewRound
  <1>7. Typed' /\ Answered'
    BY <1>1, <1>4, <1>6, UntoldWave
  <1>8. Nested' /\ StillOpen'
    BY <1>1, <1>2 DEF BatchInv, Nested, StillOpen
  <1>9. Tracked'
    <2> SUFFICES ASSUME NEW q \in catalogue, NEW r \in Rows, cells[q][r] = Nobody
                 PROVE  \/ Held(next, q, r)
                        \/ \E k \in DOMAIN exchanges :
                              LET e == exchanges[k] IN
                              /\ Covers(e, q, r) /\ ~e.superseded
                              /\ Excuses(e, q, r) \/ (~reasking /\ q \in Omitted(e))
      BY <1>1, <1>2, <1>6 DEF Tracked
    <2>1. ~Held(<< >>, q, r)
      BY <1>3 DEF Held
    <2> QED BY <1>1, <1>2, <2>1 DEF BatchInv, Tracked
  <1> QED BY <1>2, <1>6, <1>7, <1>8, <1>9 DEF BatchInv

LEMMA ReaskBatchInv ==
  ASSUME BatchInv, Advance, Reask
  PROVE  BatchInv'
  <1> DEFINE m == OmittedWindows
             s == PlanAll(m)
  <1>1. /\ rest = << >> /\ next = << >> /\ ~reasking /\ StartRound(s, warm)
        /\ next' = << >> /\ reasking' = TRUE
    BY DEF Reask
  <1>2. /\ phase = "collected" /\ phase' = "asking" /\ Current = << >> /\ Current' = wave'
        /\ UNCHANGED <<catalogue, cells, warm, exchanges, decisive, record, memo, asked, repeated, kept>>
        /\ (Requested /\ NoRequestRepeated /\ Phases)'
    BY AdvanceKeeps
  <1>3. DOMAIN << >> = {}
    OBVIOUS
  <1>4. /\ m \in Seq(Windows) /\ Apart(m)
        /\ \A k \in DOMAIN m :
              /\ m[k].catalogue = catalogue /\ m[k].reask = TRUE
              /\ \A q \in m[k].questions : \E l \in DOMAIN exchanges :
                     /\ ~exchanges[l].window.reask /\ m[k].rows = exchanges[l].window.rows
                     /\ q \in Omitted(exchanges[l])
        /\ \A l \in DOMAIN exchanges : \A q \in Omitted(exchanges[l]), r \in exchanges[l].window.rows :
               \E k \in DOMAIN m : In(m[k], q, r)
    BY <1>1, OmittedWindowsShape DEF BatchInv
  <1> HIDE DEF m
  <1>5. Spreads(s, m)
    BY <1>4, PlanAllShape
  <1> HIDE DEF s
  <1>6. OpenIn(exchanges, cells) /\ \A k \in DOMAIN exchanges : exchanges[k].window.reask # TRUE
    BY <1>1 DEF BatchInv, StillOpen, Nested, NestedIn
  <1>7. ASSUME NEW k \in DOMAIN m PROVE Ready(m[k], catalogue, cells, exchanges, TRUE)
    <2>1. \A q \in m[k].questions, r \in m[k].rows : cells[q][r] = Nobody
      BY <1>4, <1>6 DEF OpenIn
    <2>2. LeftOut(m[k], exchanges)
      BY <1>4 DEF LeftOut
    <2> QED BY <1>4, <1>6, <2>1, <2>2 DEF Ready
  <1>8. s \in Seq(Windows) /\ Apart(s) /\ AllReady(s, catalogue, cells, exchanges, TRUE)
    BY <1>5, <1>7, SpreadReady DEF Spreads
  <1>9. /\ AllReady(s, catalogue', cells', exchanges', reasking')
        /\ warm \subseteq RowsIn(exchanges') /\ warm' \subseteq RowsIn(exchanges')
    BY <1>1, <1>2, <1>8 DEF BatchInv, Led
  <1>10. /\ wave' \in Seq(Windows) /\ rest' \in Seq(Windows) /\ next' \in Seq(Windows)
         /\ outcome' \in Seq(Outcomes) /\ DOMAIN outcome' = DOMAIN wave'
         /\ \A i \in DOMAIN wave' : outcome'[i] = Unknown
         /\ Waiting' /\ Led'
         /\ \A q, r : Held(s, q, r) => Held(Current', q, r) \/ Held(rest', q, r)
    BY <1>1, <1>2, <1>8, <1>9, NewRound
  <1>11. Typed' /\ Answered'
    BY <1>1, <1>10, UntoldWave
  <1>12. Nested' /\ StillOpen'
    BY <1>1, <1>2 DEF BatchInv, Nested, NestedIn, StillOpen
  <1>13. Tracked'
    <2> SUFFICES ASSUME NEW q \in catalogue, NEW r \in Rows, cells[q][r] = Nobody
                 PROVE  \/ Held(s, q, r)
                        \/ \E k \in DOMAIN exchanges :
                              LET e == exchanges[k] IN
                              Covers(e, q, r) /\ ~e.superseded /\ Excuses(e, q, r)
      BY <1>1, <1>2, <1>10 DEF Tracked
    <2>1. \A t : t = << >> => ~Held(t, q, r)
      BY <1>3 DEF Held
    <2>2. PICK k \in DOMAIN exchanges :
              /\ Covers(exchanges[k], q, r) /\ ~exchanges[k].superseded
              /\ Excuses(exchanges[k], q, r) \/ (~reasking /\ q \in Omitted(exchanges[k]))
      BY <1>1, <1>2, <2>1 DEF BatchInv, Tracked
    <2>3. CASE Excuses(exchanges[k], q, r)
      BY <2>2, <2>3
    <2>4. CASE q \in Omitted(exchanges[k])
      <3>1. Held(m, q, r)
        BY <1>4, <2>2, <2>4 DEF Held, Covers
      <3> QED BY <1>5, <3>1, SpreadHeld
    <2> QED BY <2>2, <2>3, <2>4
  <1> QED BY <1>2, <1>10, <1>11, <1>12, <1>13 DEF BatchInv

-----------------------------------------------------------------------------
(* A run ends, and files are lost.                                           *)

LEMMA FinishBatchInv ==
  ASSUME BatchInv, Finish
  PROVE  BatchInv'
  <1>1. /\ phase = "collected" /\ phase' = "returned" /\ rest = << >> /\ next = << >>
        /\ reasking \/ OmittedWindows = << >>
        /\ UNCHANGED <<catalogue, cells, wave, outcome, rest, next, reasking, warm, exchanges, decisive,
                       record, asked, repeated>>
    BY DEF Finish, round
  <1>2. PICK saved \in SUBSET catalogue : Remember(saved)
    BY DEF Finish
  <1>3. memo' \in [Questions -> Seq(Windows)] /\ kept' \subseteq Questions \X Rows
    <2>1. memo' \in [Questions -> Seq(Windows)]
      BY <1>2 DEF Remember, BatchInv, Typed
    <2> DEFINE found(q) == {r \in Rows : cells[q][r] # Nobody /\ record[cells[q][r]] # Unknown}
    <2>2. kept' = {c \in kept : c[1] \notin saved} \cup UNION {{q} \X found(q) : q \in saved}
      BY <1>2 DEF Remember
    <2>3. kept \subseteq Questions \X Rows /\ saved \in SUBSET Questions
      BY QuestionAssumption DEF BatchInv, Typed
    <2>4. \A q \in saved : {q} \X found(q) \subseteq Questions \X Rows
      BY <2>3
    <2> HIDE DEF found
    <2> QED BY <2>1, <2>2, <2>3, <2>4
  <1>4. Current' = Current
    BY <1>1 DEF Current
  <1>5. OmittedWindows' = OmittedWindows
    BY <1>1 DEF OmittedWindows
  <1>6. Typed' /\ Answered'
    BY <1>1, <1>3 DEF BatchInv, Typed, Answered
  <1>7. (Waiting /\ Nested /\ StillOpen /\ Requested /\ NoRequestRepeated /\ Tracked)'
    BY <1>1, <1>4 DEF BatchInv, Waiting, Nested, StillOpen, Requested, NoRequestRepeated, Tracked
  <1>8. Led'
    BY <1>1, <1>4 DEF BatchInv, Led, SiblingsAfterFirst, RowsIn
  <1>9. Phases'
    BY <1>1, <1>5 DEF Phases
  <1> QED BY <1>6, <1>7, <1>8, <1>9 DEF BatchInv

LEMMA EndBatchInv ==
  ASSUME BatchInv, End
  PROVE  BatchInv'
  <1>1. /\ phase' = "idle" /\ cells' = [q \in Questions |-> [r \in Rows |-> Nobody]]
        /\ wave' = << >> /\ outcome' = << >> /\ rest' = << >> /\ next' = << >>
        /\ reasking' = FALSE /\ warm' = {} /\ exchanges' = << >>
        /\ decisive' = [q \in Questions |-> << >>]
        /\ asked' = {} /\ repeated' = {}
        /\ UNCHANGED <<catalogue, record, memo, kept>>
    BY DEF End, cache
  <1>0. DOMAIN << >> = {} /\ \A S : << >> \in Seq(S)
    OBVIOUS
  <1>2. Typed'
    <2>1. [r \in Rows |-> Nobody] \in [Rows -> Requests \cup {Nobody}]
      OBVIOUS
    <2>2. cells' \in [Questions -> [Rows -> Requests \cup {Nobody}]]
      BY <1>1, <2>1
    <2>3. decisive' \in [Questions -> Seq(Windows)]
      BY <1>0, <1>1
    <2> QED BY <1>0, <1>1, <2>2, <2>3 DEF BatchInv, Typed
  <1>3. Answered'
    BY <1>0, <1>1 DEF BatchInv, Answered
  <1>4. Current' = << >>
    BY <1>1 DEF Current
  <1>5. Waiting'
    BY <1>0, <1>1, <1>4 DEF Waiting, Apart, Between, AllReady
  <1>6. (Nested /\ StillOpen /\ Requested /\ NoRequestRepeated)'
    BY <1>0, <1>1 DEF Nested, NestedIn, StillOpen, OpenIn, Requested, NoRequestRepeated
  <1>7. (Tracked /\ Led /\ Phases)'
    BY <1>0, <1>1 DEF Tracked, Led, SiblingsAfterFirst, Phases
  <1> QED BY <1>2, <1>3, <1>5, <1>6, <1>7 DEF BatchInv

\* Only what is kept for later runs changes.
LEMMA LostBatchInv ==
  ASSUME BatchInv,
         UNCHANGED <<phase, catalogue, cells, wave, outcome, rest, next, reasking, warm, exchanges,
                     decisive, asked, repeated>>,
         record' \in [Requests -> Outcomes], memo' \in [Questions -> Seq(Windows)],
         kept' \subseteq Questions \X Rows,
         \A k \in Requests : record'[k] = record[k] \/ record'[k] = Unknown
  PROVE  BatchInv'
  <1>1. Current' = Current
    BY DEF Current
  <1>2. OmittedWindows' = OmittedWindows
    BY DEF OmittedWindows
  <1>3. Typed'
    BY DEF BatchInv, Typed
  <1>4. Answered'
    BY UnknownSaid, RequestShape DEF BatchInv, Answered
  <1>5. (Waiting /\ Nested /\ StillOpen /\ Requested /\ NoRequestRepeated /\ Tracked)'
    BY <1>1 DEF BatchInv, Waiting, Nested, StillOpen, Requested, NoRequestRepeated, Tracked
  <1>6. Led'
    BY <1>1 DEF BatchInv, Led, SiblingsAfterFirst, RowsIn
  <1>7. Phases'
    BY <1>2 DEF BatchInv, Phases
  <1> QED BY <1>3, <1>4, <1>5, <1>6, <1>7 DEF BatchInv

LEMMA NextBatchInv ==
  ASSUME BatchInv, [Next]_vars
  PROVE  BatchInv'
  <1>0. record \in [Requests -> Outcomes] /\ memo \in [Questions -> Seq(Windows)]
        /\ kept \subseteq Questions \X Rows
    BY DEF BatchInv, Typed
  <1>1. ASSUME NEW i \in DOMAIN wave, Complete(i) PROVE BatchInv'
    BY <1>1, CompleteBatchInv
  <1>2. CASE Collect
    BY <1>2, CollectBatchInv
  <1>3. CASE Advance
    BY <1>3, RestBatchInv, NextRoundBatchInv, ReaskBatchInv DEF Advance
  <1>4. CASE Finish
    BY <1>4, FinishBatchInv
  <1>5. CASE Return \/ Abandon
    BY <1>5, EndBatchInv DEF Return, Abandon
  <1>6. ASSUME NEW of \in Catalogues, Begin(of) PROVE BatchInv'
    BY <1>6, BeginBatchInv
  <1>7. ASSUME NEW k \in Requests, LoseRecord(k) PROVE BatchInv'
    <2>1. /\ record' = [record EXCEPT ![k] = Unknown] /\ kept' \subseteq kept
          /\ UNCHANGED <<phase, catalogue, cells, wave, outcome, rest, next, reasking, warm, exchanges,
                         decisive, memo, asked, repeated>>
      BY <1>7 DEF LoseRecord, round
    <2>2. record' \in [Requests -> Outcomes]
          /\ \A x \in Requests : record'[x] = record[x] \/ record'[x] = Unknown
      BY <1>0, <2>1, UnknownSaid
    <2> QED BY <1>0, <2>1, <2>2, LostBatchInv
  <1>8. ASSUME NEW q \in Questions, LoseMemo(q) PROVE BatchInv'
    <2>1. /\ memo' = [memo EXCEPT ![q] = << >>] /\ kept' \subseteq kept
          /\ UNCHANGED <<phase, catalogue, cells, wave, outcome, rest, next, reasking, warm, exchanges,
                         decisive, record, asked, repeated>>
      BY <1>8 DEF LoseMemo, round
    <2>2. memo' \in [Questions -> Seq(Windows)]
      BY <1>0, <2>1
    <2> QED BY <1>0, <2>1, <2>2, LostBatchInv
  <1>9. CASE UNCHANGED vars
    <2>1. UNCHANGED <<phase, catalogue, cells, wave, outcome, rest, next, reasking, warm, exchanges,
                      decisive, record, memo, asked, repeated, kept>>
      BY <1>9 DEF vars, round, cache, history
    <2> QED BY <1>0, <2>1, LostBatchInv
  <1> QED BY <1>1, <1>2, <1>3, <1>4, <1>5, <1>6, <1>7, <1>8, <1>9 DEF Next, Step

\* Every reachable state of question batches satisfies the invariant: what waits is
\* apart, open and new to its round, and every undecided cell is somewhere.
THEOREM BatchInvariance == Spec => []BatchInv
  <1>1. BatchInv /\ [Next]_vars => BatchInv'
    BY NextBatchInv
  <1> QED BY InitBatchInv, <1>1, PTL DEF Spec

\* TypeOK of the model, for every catalogue and limit.
THEOREM BatchTypes == Spec => []TypeOK
  <1>1. BatchInv => TypeOK
    <2> SUFFICES ASSUME BatchInv PROVE TypeOK
      OBVIOUS
    <2>1. wave \in Seq(Windows) /\ rest \in Seq(Windows) /\ next \in Seq(Windows)
      BY DEF BatchInv, Typed
    <2>2. /\ \A i \in DOMAIN wave : wave[i] \in Windows
          /\ \A i \in DOMAIN rest : rest[i] \in Windows
          /\ \A i \in DOMAIN next : next[i] \in Windows
      BY <2>1
    <2> QED BY <2>2 DEF BatchInv, Typed, TypeOK, NoRequestRepeated
  <1> QED BY <1>1, BatchInvariance, PTL

\* No exact request is made twice in a run.
THEOREM NoRequestRepeatedSafety == Spec => []NoRequestRepeated
  <1>1. BatchInv => NoRequestRepeated
    BY DEF BatchInv
  <1> QED BY <1>1, BatchInvariance, PTL

\* No window, part of a window or omitted question is lost: when a run returns,
\* every cell is decided or was left undecided for good by a window of its own.
THEOREM EveryCellAccountedSafety == Spec => []EveryCellAccounted
  <1>1. BatchInv => EveryCellAccounted
    <2> SUFFICES ASSUME BatchInv, phase = "returned", NEW q \in catalogue, NEW r \in Rows,
                        cells[q][r] = Nobody
                 PROVE  \E i \in DOMAIN exchanges :
                           LET e == exchanges[i] IN Covers(e, q, r) /\ ~e.superseded /\ Excuses(e, q, r)
      BY DEF EveryCellAccounted
    <2>1. rest = << >> /\ next = << >> /\ Current = << >> /\ (reasking \/ OmittedWindows = << >>)
      BY DEF BatchInv, Phases, Current
    <2>2. DOMAIN << >> = {}
      OBVIOUS
    <2>3. \A t : t = << >> => ~Held(t, q, r)
      BY <2>2 DEF Held
    <2>4. PICK k \in DOMAIN exchanges :
              /\ Covers(exchanges[k], q, r) /\ ~exchanges[k].superseded
              /\ Excuses(exchanges[k], q, r) \/ (~reasking /\ q \in Omitted(exchanges[k]))
      BY <2>1, <2>3 DEF BatchInv, Tracked
    <2>5. ASSUME ~reasking, q \in Omitted(exchanges[k]) PROVE FALSE
      <3>1. \E l \in DOMAIN OmittedWindows : In(OmittedWindows[l], q, r)
        BY <2>4, <2>5, OmittedWindowsShape DEF BatchInv, Covers
      <3> QED BY <2>1, <2>2, <2>5, <3>1
    <2> QED BY <2>4, <2>5
  <1> QED BY <1>1, BatchInvariance, PTL

\* The first window over some rows is asked ahead of its siblings.
THEOREM SiblingsAfterFirstSafety == Spec => []SiblingsAfterFirst
  <1>1. BatchInv => SiblingsAfterFirst
    BY DEF BatchInv, Led
  <1> QED BY <1>1, BatchInvariance, PTL

\* Every window that is asked is within Options.MaxRows, the eight questions and
\* the input bytes, also the parts of windows that the provider refused.
WindowsFit == phase = "asking" => \A i \in DOMAIN wave : Whole(wave[i])

\* No window that a run asks is beyond its limits.  (plan, splitResource)
THEOREM WindowsFitSafety == Spec => []WindowsFit
  <1>1. BatchInv => WindowsFit
    BY DEF BatchInv, Waiting, AllReady, Current, WindowsFit
  <1> QED BY <1>1, BatchInvariance, PTL


-----------------------------------------------------------------------------
(* What was decided and remembered is not paid for again.                    *)

\* The cells of q that the accepted answer of w decides.
Found(answers, w, q) == Decides(answers[Request(w)], w, q)

\* The cells that w decided.
By(now, w) == {r \in Rows : now[r] = Request(w)}

\* The decided cells of q are those that its windows decided, and what each
\* decided is what its answer says, as long as it is there.
Faithful(now, windows, answers, q) ==
    /\ \A n \in DOMAIN windows :
          /\ q \in windows[n].questions
          /\ By(now, windows[n]) # {} /\ By(now, windows[n]) \subseteq windows[n].rows
          /\ answers[Request(windows[n])] = Unknown
                \/ Found(answers, windows[n], q) = By(now, windows[n])
    /\ \A n, m \in DOMAIN windows : n # m => Request(windows[n]) # Request(windows[m])
    /\ \A r \in Rows : now[r] # Nobody => \E n \in DOMAIN windows : now[r] = Request(windows[n])

\* The windows of a memo are of its question, and no two decide a cell.
MemoApart(windows, answers, q) ==
    /\ \A n \in DOMAIN windows : q \in windows[n].questions
    /\ \A n, m \in DOMAIN windows : n # m =>
          /\ Request(windows[n]) # Request(windows[m])
          /\ Found(answers, windows[n], q) \cap Found(answers, windows[m], q) = {}

\* The request of w was answered, in the wave that is not applied.
Told(w) == \E i \in DOMAIN Current : outcome[i] # Unknown /\ Request(wave[i]) = Request(w)

AllFaithful == \A q \in Questions : Faithful(cells[q], decisive[q], record, q)

MemosApart == \A q \in Questions : MemoApart(memo[q], record, q)

\* A memo and the answers of its windows still tell every cell that is kept.
KeptBacked ==
    \A c \in kept : \E n \in DOMAIN memo[c[1]] : c[2] \in Found(record, memo[c[1]][n], c[1])

KeptDecided == phase # "idle" => \A c \in kept : c[1] \in catalogue => cells[c[1]][c[2]] # Nobody

\* What a memo tells is decided, or was answered just now.
MemosDecided ==
    phase \in {"asking", "collected"} =>
        \A q \in catalogue : \A n \in DOMAIN memo[q] : \A r \in Found(record, memo[q][n], q) :
            cells[q][r] # Nobody \/ Told(memo[q][n])

\* What the windows of the wave were told is what was saved of it.
AsRecorded ==
    \A i \in DOMAIN Current : outcome[i] # Unknown /\ record[Request(wave[i])] # Unknown =>
        \A q \in Questions : Found(record, wave[i], q) = Decides(outcome[i], wave[i], q)

KeptInv == AllFaithful /\ MemosApart /\ KeptBacked /\ KeptDecided /\ MemosDecided /\ AsRecorded

LEMMA FoundShape ==
  /\ \A answers, w, q : Found(answers, w, q) \subseteq w.rows
  /\ \A answers, w, q : answers[Request(w)] = Unknown => Found(answers, w, q) = {}
  /\ \A v, w \in Windows : Request(v) = Request(w) =>
        \A answers, q : Found(answers, v, q) = Found(answers, w, q)
  <1>1. \A answers, w, q : Found(answers, w, q) \subseteq w.rows
    BY DEF Found, Decides
  <1>2. \A answers, w, q : answers[Request(w)] = Unknown => Found(answers, w, q) = {}
    BY UnknownSaid DEF Found, Decides, Accepted
  <1>3. \A v, w \in Windows : Request(v) = Request(w) =>
            \A answers, q : Found(answers, v, q) = Found(answers, w, q)
    <2> SUFFICES ASSUME NEW v \in Windows, NEW w \in Windows, Request(v) = Request(w),
                        NEW answers, NEW q
                 PROVE  Found(answers, v, q) = Found(answers, w, q)
      OBVIOUS
    <2>1. v.rows = w.rows
      BY RequestShape
    <2> QED BY <2>1 DEF Found, Decides
  <1> QED BY <1>1, <1>2, <1>3

\* None of the windows has the request of w.
NewTo(windows, w) == \A n \in DOMAIN windows : Request(windows[n]) # Request(w)

\* w decides what its accepted answer says, if it has one.
Agrees(answers, w, o, q) ==
    answers[Request(w)] = Unknown \/ Found(answers, w, q) = Decides(o, w, q)

\* w may be one of the windows now.
Adds(before, after, w) ==
    \A n \in DOMAIN after : after[n] = w \/ \E m \in DOMAIN before : after[n] = before[m]

\* A window whose request is new decides cells, and they are its own.
LEMMA TakenFaithful ==
  ASSUME NEW s \in Findings, NEW w \in Windows, NEW o, NEW q, NEW answers,
         Faithful(s.cells, s.windows, answers, q),
         NewTo(s.windows, w), Agrees(answers, w, o, q)
  PROVE  /\ Faithful(Taken(s, w, o, q).cells, Taken(s, w, o, q).windows, answers, q)
         /\ Adds(s.windows, Taken(s, w, o, q).windows, w)
  <1> DEFINE D == Decides(o, w, q)
             c == [r \in Rows |-> IF r \in D THEN Request(w) ELSE s.cells[r]]
             u == Append(s.windows, w)
             t == [cells |-> c, windows |-> u]
             Fits == q \in w.questions /\ D # {} /\ \A r \in D : s.cells[r] = Nobody
  <1>1. D \subseteq w.rows /\ w.rows \subseteq Rows /\ Request(w) # Nobody
    BY WindowShape, RequestShape DEF Decides
  <1>2. Taken(s, w, o, q) = IF Fits THEN t ELSE s
    BY DEF Taken
  <1>3. CASE ~Fits
    BY <1>2, <1>3 DEF Adds
  <1>4. CASE Fits
    <2>1. s.windows \in Seq(Windows) /\ Len(s.windows) \in Nat /\ DOMAIN s.windows = 1..Len(s.windows)
      BY DEF Findings
    <2> DEFINE L == Len(s.windows)
    <2>2. /\ DOMAIN u = 1..L+1 /\ u[L+1] = w /\ L \in Nat
          /\ \A n \in 1..L : u[n] = s.windows[n]
      BY <2>1
    <2>3. \A n \in DOMAIN u : n \in DOMAIN s.windows \/ n = L + 1
      BY <2>1, <2>2
    <2>4. \A r \in Rows : c[r] = IF r \in D THEN Request(w) ELSE s.cells[r]
      OBVIOUS
    <2>5. t.cells = c /\ t.windows = u
      OBVIOUS
    <2> HIDE DEF L, u, c, t, D
    <2>6. By(c, w) = D
      <3>1. \A r \in Rows : s.cells[r] # Request(w)
        BY <1>1 DEF Faithful, NewTo
      <3> QED BY <1>1, <2>4, <3>1 DEF By
    <2>7. ASSUME NEW n \in DOMAIN s.windows
          PROVE  By(c, s.windows[n]) = By(s.cells, s.windows[n]) /\ Request(s.windows[n]) # Nobody
      <3>1. s.windows[n] \in Windows
        BY <2>1
      <3>2. Request(s.windows[n]) # Nobody
        BY <3>1, RequestShape
      <3> QED BY <1>4, <2>4, <3>2 DEF By, D, NewTo
    <2>8. ASSUME NEW n \in DOMAIN u
          PROVE  /\ q \in u[n].questions
                 /\ By(c, u[n]) # {} /\ By(c, u[n]) \subseteq u[n].rows
                 /\ answers[Request(u[n])] = Unknown \/ Found(answers, u[n], q) = By(c, u[n])
      <3>1. CASE n \in DOMAIN s.windows
        <4>1. u[n] = s.windows[n] /\ By(c, u[n]) = By(s.cells, s.windows[n])
          BY <2>1, <2>2, <2>7, <3>1 DEF L
        <4> QED BY <3>1, <4>1 DEF Faithful
      <3>2. CASE n = L + 1
        <4>1. u[n] = w /\ By(c, u[n]) = D
          BY <2>2, <2>6, <3>2
        <4> QED BY <1>1, <1>4, <4>1 DEF D, Agrees
      <3> QED BY <2>3, <3>1, <3>2
    <2>9. ASSUME NEW n \in DOMAIN u, NEW m \in DOMAIN u, n # m
          PROVE  Request(u[n]) # Request(u[m])
      <3>1. \A x \in DOMAIN s.windows : u[x] = s.windows[x]
        BY <2>1, <2>2 DEF L
      <3> QED BY <2>2, <2>3, <2>9, <3>1 DEF Faithful, NewTo
    <2>10. ASSUME NEW r \in Rows, c[r] # Nobody
           PROVE  \E n \in DOMAIN u : c[r] = Request(u[n])
      <3>1. L + 1 \in DOMAIN u /\ \A x \in DOMAIN s.windows : x \in DOMAIN u /\ u[x] = s.windows[x]
        BY <2>1, <2>2 DEF L
      <3> QED BY <2>2, <2>4, <2>10, <3>1 DEF Faithful
    <2>11. Faithful(c, u, answers, q)
      BY <2>8, <2>9, <2>10 DEF Faithful
    <2>12. Adds(s.windows, u, w)
      BY <2>1, <2>2, <2>3 DEF L, Adds
    <2> QED BY <1>2, <1>4, <2>5, <2>11, <2>12 DEF D
  <1> QED BY <1>3, <1>4

\* So do windows of different requests, one after another.
LEMMA TakenAllFaithful ==
  ASSUME NEW s \in Findings, NEW windows \in Seq(Windows), NEW outcomes, NEW q, NEW answers,
         Faithful(s.cells, s.windows, answers, q),
         \A i, j \in DOMAIN windows : i # j => Request(windows[i]) # Request(windows[j]),
         \A i \in DOMAIN windows :
             NewTo(s.windows, windows[i]) /\ Agrees(answers, windows[i], outcomes[i], q)
  PROVE  LET t == TakenAll(s, windows, outcomes, q) IN Faithful(t.cells, t.windows, answers, q)
  <1> DEFINE L == Len(windows)
             Known(t, n) == \A k \in DOMAIN t.windows :
                               \/ \E m \in DOMAIN s.windows : t.windows[k] = s.windows[m]
                               \/ \E i \in 1..n : t.windows[k] = windows[i]
             Holds(t, n) == t \in Findings /\ Faithful(t.cells, t.windows, answers, q) /\ Known(t, n)
  <1>1. L \in Nat /\ DOMAIN windows = 1..L /\ \A n \in 1..L : windows[n] \in Windows
    OBVIOUS
  <1>2. PICK f : Stages(f, s, windows, outcomes, q)
    BY TakenAllStages
  <1>3. /\ f[0] = s /\ \A n \in 1..L : f[n] = Taken(f[n-1], windows[n], outcomes[n], q)
        /\ TakenAll(s, windows, outcomes, q) = f[L]
    BY <1>2 DEF Stages
  <1> DEFINE Done == {n \in Nat : n \in 0..L => Holds(f[n], n)}
  <1>4. Done = Nat
    <2>1. 0 \in Done
      BY <1>3
    <2>2. ASSUME NEW n \in Done PROVE n + 1 \in Done
      <3>0. n \in Nat /\ n + 1 \in Nat
        OBVIOUS
      <3> SUFFICES ASSUME n + 1 \in 0..L PROVE Holds(f[n+1], n+1)
        BY <3>0
      <3> DEFINE t == f[n]
                 u == f[n+1]
                 w == windows[n+1]
                 o == outcomes[n+1]
      <3>1. n \in 0..L /\ n + 1 \in 1..L /\ (n + 1) - 1 = n
        BY <1>1, <3>0
      <3>2. t \in Findings /\ Faithful(t.cells, t.windows, answers, q) /\ Known(t, n)
        BY <3>0, <3>1
      <3>3. u = Taken(t, w, o, q) /\ w \in Windows
        BY <1>1, <1>3, <3>1
      <3>4. Agrees(answers, w, o, q)
        BY <1>1, <3>1
      <3>5. NewTo(t.windows, w)
        <4> SUFFICES ASSUME NEW k \in DOMAIN t.windows PROVE Request(t.windows[k]) # Request(w)
          BY DEF NewTo
        <4>1. CASE \E m \in DOMAIN s.windows : t.windows[k] = s.windows[m]
          BY <1>1, <3>1, <4>1 DEF NewTo
        <4>2. CASE \E i \in 1..n : t.windows[k] = windows[i]
          <5>1. PICK i \in 1..n : t.windows[k] = windows[i]
            BY <4>2
          <5>2. i \in DOMAIN windows /\ n + 1 \in DOMAIN windows /\ i # n + 1
            BY <1>1, <3>0, <3>1
          <5> QED BY <5>1, <5>2
        <4> QED BY <3>2, <4>1, <4>2
      <3> HIDE DEF t, u, w, o, Done
      <3>6. /\ u \in Findings /\ Faithful(u.cells, u.windows, answers, q)
            /\ Adds(t.windows, u.windows, w)
        BY <3>2, <3>3, <3>4, <3>5, TakenType, TakenFaithful
      <3>7. Known(u, n+1)
        <4>1. n + 1 \in 1..n+1 /\ \A i \in 1..n : i \in 1..n+1
          BY <3>0
        <4> QED BY <3>2, <3>6, <4>1 DEF w, Adds
      <3> QED BY <3>6, <3>7 DEF u
    <2>3. Done \in SUBSET Nat
      OBVIOUS
    <2> HIDE DEF Done
    <2> QED BY <2>1, <2>2, <2>3, AllNaturals
  <1>5. L \in Done
    <2> HIDE DEF Done
    <2> QED BY <1>1, <1>4
  <1> QED BY <1>1, <1>3, <1>5

\* Different windows of a wave have different requests.
LEMMA WaveRequests ==
  ASSUME BatchInv, phase = "asking", NEW i \in DOMAIN wave, NEW j \in DOMAIN wave,
         Request(wave[i]) = Request(wave[j])
  PROVE  i = j
  <1>1. wave \in Seq(Windows) /\ Apart(wave)
    BY DEF BatchInv, Typed, Waiting, Current
  <1>2. wave[i] \in Windows /\ wave[j] \in Windows
    BY <1>1
  <1>3. ~Disjoint(wave[i], wave[j])
    <2>1. /\ wave[i].rows = wave[j].rows /\ wave[i].questions = wave[j].questions
          /\ wave[i].rows # {} /\ wave[i].questions # {}
      BY <1>2, RequestShape, WindowShape
    <2> QED BY <2>1 DEF Disjoint
  <1> QED BY <1>1, <1>3 DEF Apart

\* The cells of a window that is asked are open, and are of the run.
LEMMA WaveOpen ==
  ASSUME BatchInv, phase = "asking", NEW i \in DOMAIN wave
  PROVE  /\ wave[i] \in Windows /\ wave[i].questions \subseteq catalogue
         /\ \A q \in wave[i].questions, r \in wave[i].rows : cells[q][r] = Nobody
  <1>1. wave \in Seq(Windows) /\ Ready(wave[i], catalogue, cells, exchanges, reasking)
    BY DEF BatchInv, Typed, Waiting, AllReady, Current
  <1>2. wave[i] \in Windows /\ wave[i].questions \subseteq catalogue
    BY <1>1, WindowShape DEF Ready
  <1> QED BY <1>1, <1>2 DEF Ready

\* With answers lost and none other, the rest stays as it was.
LEMMA FaithfulWithout ==
  ASSUME NEW now, NEW windows \in Seq(Windows), NEW answers, NEW fewer, NEW q,
         Faithful(now, windows, answers, q),
         \A k \in Requests : fewer[k] = answers[k] \/ fewer[k] = Unknown
  PROVE  Faithful(now, windows, fewer, q)
  <1>1. ASSUME NEW n \in DOMAIN windows
        PROVE  fewer[Request(windows[n])] = Unknown
                  \/ Found(fewer, windows[n], q) = By(now, windows[n])
    <2>1. windows[n] \in Windows /\ Request(windows[n]) \in Requests
      BY RequestShape
    <2> QED BY <2>1 DEF Faithful, Found
  <1> QED BY <1>1 DEF Faithful

LEMMA InitKeptInv == Init => KeptInv
  <1> SUFFICES ASSUME Init PROVE KeptInv
    OBVIOUS
  <1>0. DOMAIN << >> = {}
    OBVIOUS
  <1>1. AllFaithful /\ MemosApart
    BY <1>0 DEF Init, AllFaithful, Faithful, MemosApart, MemoApart
  <1>2. KeptBacked /\ KeptDecided /\ MemosDecided
    BY DEF Init, KeptBacked, KeptDecided, MemosDecided
  <1>3. AsRecorded
    BY <1>0 DEF Init, AsRecorded, Current
  <1> QED BY <1>1, <1>2, <1>3 DEF KeptInv

\* What is recalled is what the memos tell, all of it.
LEMMA RecallFaithful ==
  ASSUME BatchInv, MemosApart, NEW q \in Questions
  PROVE  /\ Faithful(Recalled(q).cells, Recalled(q).windows, record, q)
         /\ \A n \in DOMAIN memo[q] : \A r \in Found(record, memo[q][n], q) :
               Recalled(q).cells[r] # Nobody
  <1> DEFINE first == [cells |-> [r \in Rows |-> Nobody], windows |-> << >>]
             outs == [n \in DOMAIN memo[q] |-> record[Request(memo[q][n])]]
             t == TakenAll(first, memo[q], outs, q)
  <1>0. DOMAIN << >> = {} /\ << >> \in Seq(Windows)
    OBVIOUS
  <1>1. first \in Findings /\ \A r \in Rows : first.cells[r] = Nobody
    <2>1. [r \in Rows |-> Nobody] \in [Rows -> Requests \cup {Nobody}]
      OBVIOUS
    <2> QED BY <1>0, <2>1 DEF Findings
  <1>2. first.windows = << >>
    OBVIOUS
  <1>3. memo[q] \in Seq(Windows) /\ DOMAIN memo[q] = 1..Len(memo[q]) /\ MemoApart(memo[q], record, q)
    BY DEF BatchInv, Typed, MemosApart
  <1>4. Recalled(q) = t
    BY DEF Recalled
  <1>5. \A n \in DOMAIN memo[q] : outs[n] = record[Request(memo[q][n])]
    OBVIOUS
  <1> HIDE DEF first, outs
  <1>6. \A n \in DOMAIN memo[q] : Decides(outs[n], memo[q][n], q) = Found(record, memo[q][n], q)
    BY <1>5 DEF Found
  <1>7. Faithful(first.cells, first.windows, record, q)
    BY <1>0, <1>1, <1>2 DEF Faithful
  <1>8. \A i \in DOMAIN memo[q] :
            NewTo(first.windows, memo[q][i]) /\ Agrees(record, memo[q][i], outs[i], q)
    BY <1>0, <1>2, <1>6 DEF NewTo, Agrees
  <1>9. \A i, j \in DOMAIN memo[q] : i # j => Request(memo[q][i]) # Request(memo[q][j])
    BY <1>3 DEF MemoApart
  <1>10. Faithful(t.cells, t.windows, record, q)
    BY <1>1, <1>3, <1>7, <1>8, <1>9, TakenAllFaithful
  <1>11. FindsApart(first, memo[q], outs, q)
    <2> SUFFICES ASSUME NEW i \in DOMAIN memo[q], NEW r \in Rows, Finds(memo[q], outs, q, i, r)
                 PROVE  /\ first.cells[r] = Nobody
                        /\ \A j \in DOMAIN memo[q] : Finds(memo[q], outs, q, j, r) => i = j
      BY DEF FindsApart
    <2>1. \A j \in DOMAIN memo[q] : Finds(memo[q], outs, q, j, r) => r \in Found(record, memo[q][j], q)
      BY <1>6 DEF Finds
    <2> QED BY <1>1, <1>3, <2>1 DEF MemoApart
  <1>12. Applied(first, t, memo[q], outs, q, Len(memo[q]))
    BY <1>1, <1>3, TakenAllShape
  <1> HIDE DEF t
  <1>13. ASSUME NEW n \in DOMAIN memo[q], NEW r \in Found(record, memo[q][n], q)
         PROVE  t.cells[r] # Nobody
    <2>1. memo[q][n] \in Windows /\ r \in memo[q][n].rows /\ r \in Rows /\ q \in memo[q][n].questions
      BY <1>3, FoundShape, WindowShape DEF MemoApart
    <2>2. Finds(memo[q], outs, q, n, r)
      BY <1>6, <2>1 DEF Finds, In
    <2> QED BY <1>3, <1>11, <1>12, <2>1, <2>2 DEF Applied
  <1> QED BY <1>4, <1>10, <1>13

LEMMA BeginKeptInv ==
  ASSUME BatchInv, KeptInv, NEW of \in Catalogues, Begin(of)
  PROVE  KeptInv'
  <1> DEFINE nothing == [r \in Rows |-> Nobody]
  <1>1. /\ phase' = "asking" /\ catalogue' = of
        /\ \A q \in Questions : cells'[q] = IF q \in of THEN Recalled(q).cells ELSE nothing
        /\ \A q \in Questions : decisive'[q] = IF q \in of THEN Recalled(q).windows ELSE << >>
        /\ UNCHANGED <<record, memo, kept>>
    BY DEF Begin, cache
  <1>2. \A i \in DOMAIN wave' : outcome'[i] = Unknown
    BY DEF Begin, StartRound, Ask
  <1>3. of \subseteq Questions /\ DOMAIN << >> = {}
    BY QuestionAssumption
  <1>4. \A q \in of : /\ Faithful(Recalled(q).cells, Recalled(q).windows, record, q)
                      /\ \A n \in DOMAIN memo[q] : \A r \in Found(record, memo[q][n], q) :
                            Recalled(q).cells[r] # Nobody
    BY <1>3, RecallFaithful DEF KeptInv
  <1>5. AllFaithful'
    <2> SUFFICES ASSUME NEW q \in Questions PROVE Faithful(cells'[q], decisive'[q], record, q)
      BY <1>1 DEF AllFaithful
    <2>1. CASE q \in of
      BY <1>1, <1>4, <2>1
    <2>2. CASE q \notin of
      BY <1>1, <1>3, <2>2 DEF Faithful
    <2> QED BY <2>1, <2>2
  <1>6. MemosApart' /\ KeptBacked'
    BY <1>1 DEF KeptInv, MemosApart, KeptBacked
  <1>7. \A q \in of : \A n \in DOMAIN memo[q] : \A r \in Found(record, memo[q][n], q) :
            cells'[q][r] # Nobody
    BY <1>1, <1>3, <1>4
  <1>8. KeptDecided'
    BY <1>1, <1>7 DEF KeptInv, KeptBacked, KeptDecided
  <1>9. MemosDecided'
    BY <1>1, <1>7 DEF MemosDecided
  <1>10. AsRecorded'
    BY <1>1, <1>2 DEF AsRecorded, Current
  <1> QED BY <1>5, <1>6, <1>8, <1>9, <1>10 DEF KeptInv

\* A window that is asked has decided nothing yet.
LEMMA WaveNew ==
  ASSUME BatchInv, AllFaithful, phase = "asking", NEW i \in DOMAIN wave, NEW q \in Questions
  PROVE  NewTo(decisive[q], wave[i])
  <1> SUFFICES ASSUME NEW n \in DOMAIN decisive[q], Request(decisive[q][n]) = Request(wave[i])
               PROVE  FALSE
    BY DEF NewTo
  <1> DEFINE v == decisive[q][n]
  <1>1. v \in Windows
    <2>1. decisive[q] \in Seq(Windows)
      BY DEF BatchInv, Typed
    <2> QED BY <2>1
  <1>2. q \in v.questions /\ By(cells[q], v) # {} /\ By(cells[q], v) \subseteq v.rows
    BY DEF AllFaithful, Faithful
  <1>3. /\ wave[i] \in Windows
        /\ \A p \in wave[i].questions, r \in wave[i].rows : cells[p][r] = Nobody
    BY WaveOpen
  <1>4. v.rows = wave[i].rows /\ v.questions = wave[i].questions /\ Request(v) # Nobody
    BY <1>1, <1>3, RequestShape
  <1>5. PICK r \in v.rows : cells[q][r] = Request(v)
    BY <1>2 DEF By
  <1> QED BY <1>2, <1>3, <1>4, <1>5

\* What an answered window is told, and what is saved of it.
LEMMA CompleteShape ==
  ASSUME BatchInv, NEW i \in DOMAIN wave, Complete(i)
  PROVE  /\ phase = "asking" /\ phase' = "asking"
         /\ UNCHANGED <<catalogue, cells, wave, decisive, memo, kept>>
         /\ outcome'[i] # Unknown
         /\ \A j \in DOMAIN wave : j # i => outcome'[j] = outcome[j]
         /\ \/ /\ record' = record
               /\ \/ record[Request(wave[i])] = Unknown
                  \/ /\ outcome'[i].cached
                     /\ \A q : Found(record, wave[i], q) = Decides(outcome'[i], wave[i], q)
            \/ /\ record[Request(wave[i])] = Unknown
               /\ record' = [record EXCEPT ![Request(wave[i])] = outcome'[i]]
  <1> DEFINE k == Request(wave[i])
  <1>1. /\ phase = "asking" /\ phase' = "asking" /\ (Cached(i) \/ Live(i))
        /\ UNCHANGED <<catalogue, cells, wave, decisive, memo, kept>>
    BY DEF Complete
  <1>2. wave[i] \in Windows /\ DOMAIN outcome = DOMAIN wave /\ record \in [Requests -> Outcomes]
    BY <1>1, WaveOpen DEF BatchInv, Typed
  <1>3. k \in Requests
    BY <1>2, RequestShape
  <1> HIDE DEF k
  <1>4. outcome'[i] # Unknown /\ \A j \in DOMAIN wave : j # i => outcome'[j] = outcome[j]
    <2>1. PICK o \in Outcomes : outcome' = [outcome EXCEPT ![i] = o] /\ o.kind # "unknown"
      BY <1>1, OutcomeShape
    <2> QED BY <1>2, <2>1, UnknownSaid
  <1>5. CASE Cached(i)
    <2> DEFINE o == [record[k] EXCEPT !.cached = TRUE]
    <2>1. outcome'[i] = o /\ record' = record
      BY <1>2, <1>5 DEF Cached, k
    <2>2. /\ o.cached = TRUE /\ o.kind = record[k].kind /\ o.decided = record[k].decided
          /\ o.refused = record[k].refused
      BY <1>2, <1>3 DEF Outcomes
    <2> HIDE DEF o
    <2>3. \A q : Found(record, wave[i], q) = Decides(o, wave[i], q)
      BY <2>2 DEF Found, Decides, Accepted, k
    <2> QED BY <1>1, <1>4, <2>1, <2>2, <2>3
  <1>6. CASE Live(i)
    <2>1. record[k] = Unknown
      BY <1>6 DEF Live, k
    <2>2. record' = record \/ \E o : outcome' = [outcome EXCEPT ![i] = o] /\ record' = [record EXCEPT ![k] = o]
      BY <1>6 DEF Live, k
    <2>3. record' = record \/ record' = [record EXCEPT ![k] = outcome'[i]]
      BY <1>2, <2>2
    <2> QED BY <1>1, <1>4, <2>1, <2>3 DEF k
  <1> QED BY <1>1, <1>5, <1>6

LEMMA CompleteKeptInv ==
  ASSUME BatchInv, KeptInv, NEW i \in DOMAIN wave, Complete(i)
  PROVE  KeptInv'
  <1> DEFINE w == wave[i]
             k == Request(w)
  <1>1. /\ phase = "asking" /\ phase' = "asking"
        /\ UNCHANGED <<catalogue, cells, wave, decisive, memo, kept>>
        /\ outcome'[i] # Unknown
        /\ \A j \in DOMAIN wave : j # i => outcome'[j] = outcome[j]
        /\ \/ record' = record
           \/ record[k] = Unknown /\ record' = [record EXCEPT ![k] = outcome'[i]]
    BY CompleteShape
  <1>2. /\ w \in Windows /\ k \in Requests /\ w.questions \subseteq catalogue
        /\ \A q \in w.questions, r \in w.rows : cells[q][r] = Nobody
    BY <1>1, WaveOpen, RequestShape
  <1>3. /\ record \in [Requests -> Outcomes] /\ catalogue \subseteq Questions
        /\ \A q \in Questions : memo[q] \in Seq(Windows) /\ decisive[q] \in Seq(Windows)
    BY QuestionAssumption DEF BatchInv, Typed
  <1>4. outcome[i] = Unknown
    BY DEF Complete
  <1>5. Current = wave /\ Current' = wave
    BY <1>1 DEF Current
  <1>6. \A q \in Questions : /\ \A n \in DOMAIN memo[q] : memo[q][n] \in Windows
                             /\ \A n \in DOMAIN decisive[q] : decisive[q][n] \in Windows
    BY <1>3
  <1>7. ASSUME NEW v \in Windows, Request(v) # k \/ record' = record, NEW q
        PROVE  /\ Found(record', v, q) = Found(record, v, q)
               /\ record'[Request(v)] = record[Request(v)]
    <2>1. Request(v) \in Requests
      BY RequestShape
    <2>2. record'[Request(v)] = record[Request(v)]
      BY <1>1, <1>3, <1>7, <2>1
    <2> QED BY <2>2 DEF Found
  <1>8. \A v : Told(v) => Told(v)'
    BY <1>1, <1>5 DEF Told
  <1>9. \A v : Request(v) = k => Told(v)'
    BY <1>1, <1>5 DEF Told
  <1>10. AllFaithful'
    <2> SUFFICES ASSUME NEW q \in Questions PROVE Faithful(cells[q], decisive[q], record', q)
      BY <1>1 DEF AllFaithful
    <2>1. Faithful(cells[q], decisive[q], record, q) /\ NewTo(decisive[q], w)
      BY <1>1, WaveNew DEF KeptInv, AllFaithful
    <2>2. ASSUME NEW n \in DOMAIN decisive[q]
          PROVE  /\ Found(record', decisive[q][n], q) = Found(record, decisive[q][n], q)
                 /\ record'[Request(decisive[q][n])] = record[Request(decisive[q][n])]
      BY <1>6, <1>7, <2>1 DEF NewTo
    <2> QED BY <2>1, <2>2 DEF Faithful
  <1>11. MemosApart'
    <2> SUFFICES ASSUME NEW q \in Questions PROVE MemoApart(memo[q], record', q)
      BY <1>1 DEF MemosApart
    <2>1. MemoApart(memo[q], record, q)
      BY DEF KeptInv, MemosApart
    <2>2. ASSUME NEW n \in DOMAIN memo[q], NEW m \in DOMAIN memo[q], n # m, Request(memo[q][n]) = k,
                 record' # record, NEW r \in Found(record', memo[q][n], q),
                 r \in Found(record', memo[q][m], q)
          PROVE  FALSE
      <3>1. memo[q][n] \in Windows /\ memo[q][m] \in Windows /\ Request(memo[q][m]) # k
        BY <1>6, <2>1, <2>2 DEF MemoApart
      <3>2. q \in w.questions /\ r \in w.rows
        <4>1. memo[q][n].rows = w.rows /\ memo[q][n].questions = w.questions
          BY <1>2, <2>2, <3>1, RequestShape
        <4>2. q \in memo[q][n].questions /\ r \in memo[q][n].rows
          BY <2>1, <2>2, FoundShape DEF MemoApart
        <4> QED BY <4>1, <4>2
      <3>3. r \in Found(record, memo[q][m], q)
        BY <1>7, <2>2, <3>1
      <3>4. cells[q][r] = Nobody /\ q \in catalogue
        BY <1>2, <3>2
      <3>5. Told(memo[q][m])
        BY <1>1, <3>3, <3>4 DEF KeptInv, MemosDecided
      <3>6. PICK j \in DOMAIN wave : outcome[j] # Unknown /\ Request(wave[j]) = Request(memo[q][m])
        BY <1>5, <3>5 DEF Told
      <3>7. wave[j] \in Windows /\ wave[i] \in Windows
        BY <1>1, WaveOpen
      <3>8. q \in wave[j].questions /\ r \in wave[j].rows
        <4>1. wave[j].rows = memo[q][m].rows /\ wave[j].questions = memo[q][m].questions
          BY <3>1, <3>6, <3>7, RequestShape
        <4>2. q \in memo[q][m].questions /\ r \in memo[q][m].rows
          BY <2>1, <3>3, FoundShape DEF MemoApart
        <4> QED BY <4>1, <4>2
      <3>9. i # j /\ Apart(wave)
        BY <1>4, <1>5, <3>6 DEF BatchInv, Waiting
      <3>10. Disjoint(wave[i], wave[j])
        BY <3>9 DEF Apart
      <3> QED BY <3>2, <3>8, <3>10 DEF Disjoint
    <2>3. ASSUME NEW n \in DOMAIN memo[q], NEW m \in DOMAIN memo[q], n # m
          PROVE  Found(record', memo[q][n], q) \cap Found(record', memo[q][m], q) = {}
      <3>1. CASE Request(memo[q][n]) = k /\ record' # record
        BY <2>2, <2>3, <3>1
      <3>2. CASE Request(memo[q][m]) = k /\ record' # record
        BY <2>2, <2>3, <3>2
      <3>3. CASE record' = record \/ (Request(memo[q][n]) # k /\ Request(memo[q][m]) # k)
        <4>1. /\ Found(record', memo[q][n], q) = Found(record, memo[q][n], q)
              /\ Found(record', memo[q][m], q) = Found(record, memo[q][m], q)
          BY <1>6, <1>7, <3>3
        <4> QED BY <2>1, <2>3, <4>1 DEF MemoApart
      <3> QED BY <3>1, <3>2, <3>3
    <2> QED BY <2>1, <2>3 DEF MemoApart
  <1>12. KeptBacked'
    <2> SUFFICES ASSUME NEW c \in kept
                 PROVE  \E n \in DOMAIN memo[c[1]] : c[2] \in Found(record', memo[c[1]][n], c[1])
      BY <1>1 DEF KeptBacked
    <2>1. PICK n \in DOMAIN memo[c[1]] : c[2] \in Found(record, memo[c[1]][n], c[1])
      BY DEF KeptInv, KeptBacked
    <2>2. c[1] \in Questions
      BY DEF BatchInv, Typed
    <2>3. memo[c[1]][n] \in Windows
      BY <1>6, <2>2
    <2>4. Request(memo[c[1]][n]) # k \/ record' = record
      BY <1>1, <2>1, FoundShape
    <2> QED BY <1>7, <2>1, <2>3, <2>4
  <1>13. KeptDecided'
    BY <1>1 DEF KeptInv, KeptDecided
  <1>14. MemosDecided'
    <2> SUFFICES ASSUME NEW q \in catalogue, NEW n \in DOMAIN memo[q],
                        NEW r \in Found(record', memo[q][n], q), Request(memo[q][n]) # k
                 PROVE  cells[q][r] # Nobody \/ Told(memo[q][n])'
      BY <1>1, <1>9 DEF MemosDecided
    <2>1. r \in Found(record, memo[q][n], q)
      BY <1>3, <1>6, <1>7
    <2> QED BY <1>1, <1>8, <2>1 DEF KeptInv, MemosDecided
  <1>15. AsRecorded'
    <2> SUFFICES ASSUME NEW j \in DOMAIN wave, outcome'[j] # Unknown, record'[Request(wave[j])] # Unknown,
                        NEW q \in Questions
                 PROVE  Found(record', wave[j], q) = Decides(outcome'[j], wave[j], q)
      BY <1>1, <1>5 DEF AsRecorded
    <2>1. CASE j = i
      <3>1. CASE record' = record
        BY <2>1, <3>1, <1>1, CompleteShape
      <3>2. CASE record' = [record EXCEPT ![k] = outcome'[i]]
        BY <1>2, <1>3, <2>1, <3>2 DEF Found
      <3> QED BY <1>1, <3>1, <3>2
    <2>2. CASE j # i
      <3>1. Request(wave[j]) # k /\ wave[j] \in Windows
        BY <1>1, <2>2, WaveRequests, WaveOpen
      <3>2. /\ Found(record', wave[j], q) = Found(record, wave[j], q)
            /\ record'[Request(wave[j])] = record[Request(wave[j])] /\ outcome'[j] = outcome[j]
        BY <1>1, <1>7, <2>2, <3>1
      <3> QED BY <1>5, <3>2 DEF KeptInv, AsRecorded
    <2> QED BY <2>1, <2>2
  <1> QED BY <1>10, <1>11, <1>12, <1>13, <1>14, <1>15 DEF KeptInv

LEMMA CollectKeptInv ==
  ASSUME BatchInv, KeptInv, Collect
  PROVE  KeptInv'
  <1> DEFINE before(q) == [cells |-> cells[q], windows |-> decisive[q]]
             after(q) == TakenAll(before(q), wave, outcome, q)
  <1>1. /\ phase = "asking" /\ phase' = "collected" /\ \A i \in DOMAIN wave : outcome[i] # Unknown
        /\ cells' = [q \in Questions |-> after(q).cells]
        /\ decisive' = [q \in Questions |-> after(q).windows]
        /\ UNCHANGED <<catalogue, wave, outcome, record, memo, kept>>
    BY DEF Collect, cache, history
  <1>2. /\ wave \in Seq(Windows) /\ catalogue \subseteq Questions
        /\ cells \in [Questions -> [Rows -> Requests \cup {Nobody}]]
        /\ decisive \in [Questions -> Seq(Windows)] /\ kept \subseteq Questions \X Rows
    BY QuestionAssumption DEF BatchInv, Typed
  <1>3. Current = wave /\ Current' = << >> /\ DOMAIN << >> = {}
    BY <1>1 DEF Current
  <1>4. ASSUME NEW q \in Questions PROVE Faithful(after(q).cells, after(q).windows, record, q)
    <2>1. before(q) \in Findings /\ before(q).cells = cells[q] /\ before(q).windows = decisive[q]
      BY <1>2 DEF Findings
    <2> HIDE DEF before
    <2>2. Faithful(before(q).cells, before(q).windows, record, q)
      BY <2>1 DEF KeptInv, AllFaithful
    <2>3. \A i \in DOMAIN wave : NewTo(before(q).windows, wave[i])
      BY <1>1, <2>1, WaveNew DEF KeptInv
    <2>4. \A i \in DOMAIN wave : Agrees(record, wave[i], outcome[i], q)
      BY <1>1, <1>3 DEF KeptInv, AsRecorded, Agrees
    <2>5. \A i, j \in DOMAIN wave : i # j => Request(wave[i]) # Request(wave[j])
      BY <1>1, WaveRequests
    <2> QED BY <1>2, <2>1, <2>2, <2>3, <2>4, <2>5, TakenAllFaithful
  <1>5. AllFaithful'
    <2> HIDE DEF after
    <2> QED BY <1>1, <1>4 DEF AllFaithful
  <1> HIDE DEF after
  <1>6. MemosApart' /\ KeptBacked'
    BY <1>1 DEF KeptInv, MemosApart, KeptBacked
  <1>7. /\ \A q \in Questions, r \in Rows : cells[q][r] # Nobody => cells'[q][r] # Nobody
        /\ \A i \in DOMAIN wave : \A q \in Questions, r \in Rows :
              In(wave[i], q, r) /\ r \in Decides(outcome[i], wave[i], q) => cells'[q][r] # Nobody
    BY CollectCells
  <1>8. KeptDecided'
    <2>1. \A c \in kept : c[1] \in Questions /\ c[2] \in Rows
      BY <1>2
    <2> QED BY <1>1, <1>7, <2>1 DEF KeptInv, KeptDecided
  <1>9. MemosDecided'
    <2> SUFFICES ASSUME NEW q \in catalogue, NEW n \in DOMAIN memo[q], NEW r \in Found(record, memo[q][n], q)
                 PROVE  cells'[q][r] # Nobody
      BY <1>1 DEF MemosDecided
    <2>1. q \in Questions /\ memo[q][n] \in Windows /\ r \in Rows /\ q \in memo[q][n].questions
          /\ r \in memo[q][n].rows
      <3>1. q \in Questions /\ memo[q] \in Seq(Windows)
        BY <1>2 DEF BatchInv, Typed
      <3>2. memo[q][n] \in Windows /\ q \in memo[q][n].questions
        BY <3>1 DEF KeptInv, MemosApart, MemoApart
      <3> QED BY <3>1, <3>2, FoundShape, WindowShape
    <2>2. CASE cells[q][r] # Nobody
      BY <1>7, <2>1, <2>2
    <2>3. CASE Told(memo[q][n])
      <3>1. PICK j \in DOMAIN wave : Request(wave[j]) = Request(memo[q][n])
        BY <1>3, <2>3 DEF Told
      <3>2. wave[j] \in Windows
        BY <1>1, WaveOpen
      <3>3. In(wave[j], q, r)
        BY <2>1, <3>1, <3>2, RequestShape DEF In
      <3>4. record[Request(wave[j])] # Unknown /\ r \in Found(record, wave[j], q)
        BY <2>1, <3>1, <3>2, FoundShape
      <3>5. r \in Decides(outcome[j], wave[j], q)
        BY <1>1, <1>3, <2>1, <3>4 DEF KeptInv, AsRecorded
      <3> QED BY <1>7, <2>1, <3>3, <3>5
    <2> QED BY <1>1, <2>2, <2>3 DEF KeptInv, MemosDecided
  <1>10. AsRecorded'
    BY <1>3 DEF AsRecorded
  <1> QED BY <1>5, <1>6, <1>8, <1>9, <1>10 DEF KeptInv

LEMMA AdvanceKeptInv ==
  ASSUME BatchInv, KeptInv, Advance
  PROVE  KeptInv'
  <1>1. /\ phase = "collected" /\ phase' = "asking" /\ Current = << >> /\ Current' = wave'
        /\ UNCHANGED <<catalogue, cells, decisive, record, memo, kept>>
    BY AdvanceKeeps
  <1>2. \A i \in DOMAIN wave' : outcome'[i] = Unknown
    BY DEF Advance, Rest, NextRound, Reask, StartRound, Ask
  <1>3. \A w : ~Told(w)
    <2>1. DOMAIN << >> = {}
      OBVIOUS
    <2> QED BY <1>1, <2>1 DEF Told
  <1>4. (AllFaithful /\ MemosApart /\ KeptBacked /\ KeptDecided)'
    BY <1>1 DEF KeptInv, AllFaithful, MemosApart, KeptBacked, KeptDecided
  <1>5. MemosDecided'
    BY <1>1, <1>3 DEF KeptInv, MemosDecided
  <1>6. AsRecorded'
    BY <1>1, <1>2 DEF AsRecorded
  <1> QED BY <1>4, <1>5, <1>6 DEF KeptInv

\* What is remembered are the windows that decided, and what they decided is kept.
LEMMA FinishKeptInv ==
  ASSUME BatchInv, KeptInv, Finish
  PROVE  KeptInv'
  <1> DEFINE found(q) == {r \in Rows : cells[q][r] # Nobody /\ record[cells[q][r]] # Unknown}
  <1>1. /\ phase = "collected" /\ phase' = "returned"
        /\ UNCHANGED <<catalogue, cells, wave, outcome, decisive, record>>
    BY DEF Finish, round
  <1>2. PICK saved \in SUBSET catalogue : Remember(saved)
    BY DEF Finish
  <1>3. /\ memo' = [q \in Questions |-> IF q \in saved THEN decisive[q] ELSE memo[q]]
        /\ kept' = {c \in kept : c[1] \notin saved} \cup UNION {{q} \X found(q) : q \in saved}
    BY <1>2 DEF Remember
  <1>4. /\ saved \subseteq Questions /\ kept \subseteq Questions \X Rows
        /\ \A q \in Questions : decisive[q] \in Seq(Windows)
    BY QuestionAssumption DEF BatchInv, Typed
  <1>5. \A c \in kept' : \/ c \in kept /\ c[1] \notin saved
                         \/ c[1] \in saved /\ c[2] \in found(c[1])
    <2> HIDE DEF found
    <2> QED BY <1>3
  <1>6. AllFaithful'
    BY <1>1 DEF KeptInv, AllFaithful
  <1>7. ASSUME NEW q \in Questions PROVE MemoApart(decisive[q], record, q)
    <2>1. Faithful(cells[q], decisive[q], record, q)
      BY DEF KeptInv, AllFaithful
    <2>2. ASSUME NEW n \in DOMAIN decisive[q]
          PROVE  Found(record, decisive[q][n], q) \subseteq By(cells[q], decisive[q][n])
      BY <2>1, FoundShape DEF Faithful
    <2>3. \A v, w : Request(v) # Request(w) => By(cells[q], v) \cap By(cells[q], w) = {}
      BY DEF By
    <2>4. \A n, m \in DOMAIN decisive[q] : n # m => Request(decisive[q][n]) # Request(decisive[q][m])
      BY <2>1 DEF Faithful
    <2>5. \A n, m \in DOMAIN decisive[q] : n # m =>
              Found(record, decisive[q][n], q) \cap Found(record, decisive[q][m], q) = {}
      <3> SUFFICES ASSUME NEW n \in DOMAIN decisive[q], NEW m \in DOMAIN decisive[q], n # m
                   PROVE  Found(record, decisive[q][n], q) \cap Found(record, decisive[q][m], q) = {}
        OBVIOUS
      <3>1. By(cells[q], decisive[q][n]) \cap By(cells[q], decisive[q][m]) = {}
        BY <2>3, <2>4
      <3>2. /\ Found(record, decisive[q][n], q) \subseteq By(cells[q], decisive[q][n])
            /\ Found(record, decisive[q][m], q) \subseteq By(cells[q], decisive[q][m])
        BY <2>2
      <3> QED BY <3>1, <3>2
    <2> QED BY <2>1, <2>4, <2>5 DEF Faithful, MemoApart
  <1>8. MemosApart'
    BY <1>1, <1>3, <1>7 DEF KeptInv, MemosApart
  <1>9. KeptBacked'
    <2> SUFFICES ASSUME NEW c \in kept'
                 PROVE  \E n \in DOMAIN memo'[c[1]] : c[2] \in Found(record, memo'[c[1]][n], c[1])
      BY <1>1 DEF KeptBacked
    <2>1. CASE c \in kept /\ c[1] \notin saved
      <3>1. memo'[c[1]] = memo[c[1]]
        BY <1>3, <1>4, <2>1
      <3> QED BY <2>1, <3>1 DEF KeptInv, KeptBacked
    <2>2. CASE c[1] \in saved /\ c[2] \in found(c[1])
      <3> DEFINE q == c[1]
                 r == c[2]
      <3>1. q \in Questions /\ memo'[q] = decisive[q] /\ r \in Rows
            /\ cells[q][r] # Nobody /\ record[cells[q][r]] # Unknown
        BY <1>3, <1>4, <2>2
      <3>2. Faithful(cells[q], decisive[q], record, q)
        BY <3>1 DEF KeptInv, AllFaithful
      <3> HIDE DEF q, r
      <3>3. PICK n \in DOMAIN decisive[q] : cells[q][r] = Request(decisive[q][n])
        BY <3>1, <3>2 DEF Faithful
      <3>4. r \in Found(record, decisive[q][n], q)
        BY <3>1, <3>2, <3>3 DEF Faithful, By
      <3> QED BY <3>1, <3>4 DEF q, r
    <2> QED BY <1>5, <2>1, <2>2
  <1>10. KeptDecided'
    BY <1>1, <1>5 DEF KeptInv, KeptDecided
  <1>11. MemosDecided' /\ AsRecorded'
    <2>1. DOMAIN << >> = {}
      OBVIOUS
    <2> QED BY <1>1, <2>1 DEF MemosDecided, AsRecorded, Current
  <1> QED BY <1>6, <1>8, <1>9, <1>10, <1>11 DEF KeptInv

LEMMA EndKeptInv ==
  ASSUME KeptInv, End
  PROVE  KeptInv'
  <1>1. /\ phase' = "idle" /\ cells' = [q \in Questions |-> [r \in Rows |-> Nobody]]
        /\ decisive' = [q \in Questions |-> << >>]
        /\ UNCHANGED <<record, memo, kept>>
    BY DEF End, cache
  <1>2. DOMAIN << >> = {}
    OBVIOUS
  <1>3. AllFaithful'
    BY <1>1, <1>2 DEF AllFaithful, Faithful
  <1>4. MemosApart' /\ KeptBacked'
    BY <1>1 DEF KeptInv, MemosApart, KeptBacked
  <1>5. (KeptDecided /\ MemosDecided /\ AsRecorded)'
    BY <1>1, <1>2 DEF KeptDecided, MemosDecided, AsRecorded, Current
  <1> QED BY <1>3, <1>4, <1>5 DEF KeptInv

\* An answer is lost, and with it the cells it told.
LEMMA LoseRecordKeptInv ==
  ASSUME BatchInv, KeptInv, NEW k \in Requests, LoseRecord(k)
  PROVE  KeptInv'
  <1>1. /\ record' = [record EXCEPT ![k] = Unknown]
        /\ kept' = {c \in kept : c[2] \notin k.rows \/ \A x \in k.keyed : x[1] # c[1]}
        /\ UNCHANGED <<phase, catalogue, cells, wave, outcome, decisive, memo>>
    BY DEF LoseRecord, round
  <1>2. /\ record \in [Requests -> Outcomes] /\ catalogue \subseteq Questions
        /\ kept \subseteq Questions \X Rows
        /\ \A q \in Questions : memo[q] \in Seq(Windows) /\ decisive[q] \in Seq(Windows)
        /\ wave \in Seq(Windows)
    BY QuestionAssumption DEF BatchInv, Typed
  <1>3. \A x \in Requests : record'[x] = IF x = k THEN Unknown ELSE record[x]
    BY <1>1, <1>2
  <1>4. ASSUME NEW w \in Windows, NEW q
        PROVE  Found(record', w, q) = IF Request(w) = k THEN {} ELSE Found(record, w, q)
    <2>1. Request(w) \in Requests
      BY RequestShape
    <2>2. CASE Request(w) = k
      BY <1>3, <2>1, <2>2, FoundShape
    <2>3. CASE Request(w) # k
      BY <1>3, <2>1, <2>3 DEF Found
    <2> QED BY <2>2, <2>3
  <1>5. \A q \in Questions : \A n \in DOMAIN memo[q] : memo[q][n] \in Windows
    BY <1>2
  <1>6. AllFaithful'
    <2> SUFFICES ASSUME NEW q \in Questions PROVE Faithful(cells[q], decisive[q], record', q)
      BY <1>1 DEF AllFaithful
    <2>1. Faithful(cells[q], decisive[q], record, q) /\ decisive[q] \in Seq(Windows)
      BY <1>2 DEF KeptInv, AllFaithful
    <2>2. \A x \in Requests : record'[x] = record[x] \/ record'[x] = Unknown
      BY <1>3
    <2> QED BY <2>1, <2>2, FaithfulWithout
  <1>7. MemosApart'
    <2> SUFFICES ASSUME NEW q \in Questions PROVE MemoApart(memo[q], record', q)
      BY <1>1 DEF MemosApart
    <2>1. MemoApart(memo[q], record, q)
      BY DEF KeptInv, MemosApart
    <2>2. \A n \in DOMAIN memo[q] : Found(record', memo[q][n], q) \subseteq Found(record, memo[q][n], q)
      BY <1>4, <1>5
    <2> QED BY <2>1, <2>2 DEF MemoApart
  <1>8. KeptBacked'
    <2> SUFFICES ASSUME NEW c \in kept'
                 PROVE  \E n \in DOMAIN memo[c[1]] : c[2] \in Found(record', memo[c[1]][n], c[1])
      BY <1>1 DEF KeptBacked
    <2>1. c \in kept /\ (c[2] \notin k.rows \/ \A x \in k.keyed : x[1] # c[1])
      BY <1>1
    <2>2. PICK n \in DOMAIN memo[c[1]] : c[2] \in Found(record, memo[c[1]][n], c[1])
      BY <2>1 DEF KeptInv, KeptBacked
    <2> DEFINE w == memo[c[1]][n]
    <2>3. c[1] \in Questions /\ w \in Windows
      BY <1>2, <1>5, <2>1
    <2>4. c[1] \in w.questions /\ c[2] \in w.rows
      BY <2>2, <2>3, FoundShape DEF KeptInv, MemosApart, MemoApart
    <2> HIDE DEF w
    <2>5. Request(w) # k
      <3> SUFFICES ASSUME Request(w) = k PROVE FALSE
        OBVIOUS
      <3>1. c[2] \in k.rows
        BY <2>4 DEF Request
      <3> DEFINE x == <<c[1], Cardinality({p \in w.catalogue : p <= c[1]})>>
      <3>2. x \in k.keyed
        BY <2>4 DEF Request
      <3>3. x[1] = c[1]
        OBVIOUS
      <3> HIDE DEF x
      <3> QED BY <2>1, <3>1, <3>2, <3>3
    <2>6. c[2] \in Found(record', w, c[1])
      BY <1>4, <2>2, <2>3, <2>5 DEF w
    <2> QED BY <2>6 DEF w
  <1>9. KeptDecided'
    BY <1>1 DEF KeptInv, KeptDecided
  <1>10. MemosDecided'
    <2> SUFFICES ASSUME phase \in {"asking", "collected"}, NEW q \in catalogue, NEW n \in DOMAIN memo[q],
                        NEW r \in Found(record', memo[q][n], q)
                 PROVE  cells[q][r] # Nobody \/ Told(memo[q][n])
      BY <1>1 DEF MemosDecided, Told, Current
    <2>1. r \in Found(record, memo[q][n], q)
      BY <1>2, <1>4, <1>5
    <2> QED BY <2>1 DEF KeptInv, MemosDecided
  <1>11. AsRecorded'
    <2> SUFFICES ASSUME NEW i \in DOMAIN Current, outcome[i] # Unknown, record'[Request(wave[i])] # Unknown,
                        NEW q \in Questions
                 PROVE  Found(record', wave[i], q) = Decides(outcome[i], wave[i], q)
      BY <1>1 DEF AsRecorded, Current
    <2>1. wave[i] \in Windows /\ Request(wave[i]) \in Requests
      <3>1. i \in DOMAIN wave
        BY DEF Current
      <3> QED BY <1>2, <3>1, RequestShape
    <2>2. Request(wave[i]) # k /\ record'[Request(wave[i])] = record[Request(wave[i])]
      BY <1>3, <2>1
    <2> QED BY <1>4, <2>1, <2>2 DEF KeptInv, AsRecorded
  <1> QED BY <1>6, <1>7, <1>8, <1>9, <1>10, <1>11 DEF KeptInv

LEMMA LoseMemoKeptInv ==
  ASSUME BatchInv, KeptInv, NEW p \in Questions, LoseMemo(p)
  PROVE  KeptInv'
  <1>1. /\ memo' = [memo EXCEPT ![p] = << >>]
        /\ kept' = {c \in kept : c[1] # p}
        /\ UNCHANGED <<phase, catalogue, cells, wave, outcome, decisive, record>>
    BY DEF LoseMemo, round
  <1>2. memo \in [Questions -> Seq(Windows)] /\ kept \subseteq Questions \X Rows /\ catalogue \subseteq Questions
    BY QuestionAssumption DEF BatchInv, Typed
  <1>3. DOMAIN << >> = {} /\ \A q \in Questions : memo'[q] = IF q = p THEN << >> ELSE memo[q]
    BY <1>1, <1>2
  <1>4. AllFaithful' /\ AsRecorded' /\ KeptDecided'
    BY <1>1 DEF KeptInv, AllFaithful, AsRecorded, KeptDecided, Current
  <1>5. MemosApart'
    BY <1>1, <1>3 DEF KeptInv, MemosApart, MemoApart
  <1>6. KeptBacked'
    <2> SUFFICES ASSUME NEW c \in kept'
                 PROVE  \E n \in DOMAIN memo'[c[1]] : c[2] \in Found(record, memo'[c[1]][n], c[1])
      BY <1>1 DEF KeptBacked
    <2>1. c \in kept /\ memo'[c[1]] = memo[c[1]]
      BY <1>1, <1>2, <1>3
    <2> QED BY <2>1 DEF KeptInv, KeptBacked
  <1>7. MemosDecided'
    <2> SUFFICES ASSUME phase \in {"asking", "collected"}, NEW q \in catalogue, NEW n \in DOMAIN memo'[q],
                        NEW r \in Found(record, memo'[q][n], q)
                 PROVE  cells[q][r] # Nobody \/ Told(memo'[q][n])
      BY <1>1 DEF MemosDecided, Told, Current
    <2>1. memo'[q] = memo[q]
      BY <1>2, <1>3
    <2> QED BY <2>1 DEF KeptInv, MemosDecided
  <1> QED BY <1>4, <1>5, <1>6, <1>7 DEF KeptInv

LEMMA NextKeptInv ==
  ASSUME BatchInv, KeptInv, [Next]_vars
  PROVE  KeptInv'
  <1>1. ASSUME NEW i \in DOMAIN wave, Complete(i) PROVE KeptInv'
    BY <1>1, CompleteKeptInv
  <1>2. CASE Collect
    BY <1>2, CollectKeptInv
  <1>3. CASE Advance
    BY <1>3, AdvanceKeptInv
  <1>4. CASE Finish
    BY <1>4, FinishKeptInv
  <1>5. CASE Return \/ Abandon
    BY <1>5, EndKeptInv DEF Return, Abandon
  <1>6. ASSUME NEW of \in Catalogues, Begin(of) PROVE KeptInv'
    BY <1>6, BeginKeptInv
  <1>7. ASSUME NEW k \in Requests, LoseRecord(k) PROVE KeptInv'
    BY <1>7, LoseRecordKeptInv
  <1>8. ASSUME NEW q \in Questions, LoseMemo(q) PROVE KeptInv'
    BY <1>8, LoseMemoKeptInv
  <1>9. CASE UNCHANGED vars
    BY <1>9 DEF vars, round, cache, history, KeptInv, AllFaithful, MemosApart, KeptBacked, KeptDecided,
                MemosDecided, AsRecorded, Told, Current
  <1> QED BY <1>1, <1>2, <1>3, <1>4, <1>5, <1>6, <1>7, <1>8, <1>9 DEF Next, Step

\* Every reachable state satisfies it: memos tell what was decided, apart from each
\* other, and what is kept is decided whenever its question is asked.
THEOREM KeptInvariance == Spec => []KeptInv
  <1>1. BatchInv /\ KeptInv /\ [Next]_vars => KeptInv'
    BY NextKeptInv
  <1> QED BY InitKeptInv, BatchInvariance, <1>1, PTL DEF Spec

\* What a run decided and remembered is answered by the cache or not asked for,
\* until a file of it is lost.
THEOREM DecidedOnceSafety == Spec => DecidedOnce
  <1> DEFINE Paid == \A i \in DOMAIN wave :
                        phase = "asking" /\ phase' = "asking" =>
                           \/ outcome'[i] = outcome[i] \/ outcome'[i].cached
                           \/ (wave[i].questions \X wave[i].rows) \cap kept = {}
  <1>1. ASSUME BatchInv, KeptInv, [Next]_vars PROVE [Paid]_vars
    <2> SUFFICES ASSUME NEW i \in DOMAIN wave, phase = "asking", phase' = "asking",
                        outcome'[i] # outcome[i], ~outcome'[i].cached,
                        NEW c \in (wave[i].questions \X wave[i].rows) \cap kept
                 PROVE  FALSE
      BY DEF Paid
    <2>1. ~UNCHANGED outcome
      OBVIOUS
    <2>2. PICK j \in DOMAIN wave : Complete(j)
      <3>1. ~Collect /\ ~Advance /\ ~Finish /\ ~Return /\ ~Abandon /\ \A of \in Catalogues : ~Begin(of)
        BY DEF Collect, Advance, Finish, Return, Abandon, End, Begin
      <3>2. (\A k \in Requests : ~LoseRecord(k)) /\ (\A q \in Questions : ~LoseMemo(q)) /\ ~UNCHANGED vars
        BY <2>1 DEF LoseRecord, LoseMemo, vars, round
      <3> QED BY <1>1, <3>1, <3>2 DEF Next, Step
    <2>3. i = j
      BY <1>1, <2>2, CompleteShape
    <2>4. /\ wave[i].questions \subseteq catalogue
          /\ \A q \in wave[i].questions, r \in wave[i].rows : cells[q][r] = Nobody
      BY <1>1, WaveOpen
    <2>5. c[1] \in wave[i].questions /\ c[2] \in wave[i].rows /\ c \in kept
      OBVIOUS
    <2> QED BY <1>1, <2>4, <2>5 DEF KeptInv, KeptDecided
  <1> QED BY BatchInvariance, KeptInvariance, <1>1, PTL DEF Spec, DecidedOnce, Paid
=============================================================================
