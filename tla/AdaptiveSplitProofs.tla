------------------------ MODULE AdaptiveSplitProofs ------------------------
(***************************************************************************)
(* Adaptive splitting, for every batch, every owner and every cache: the plan *)
(* covers the batch's rows once and in order, and no item is with the model   *)
(* twice in a run.  Both rest on one invariant: the plan's items follow one   *)
(* another without a gap, and an item that was asked for lies inside no item   *)
(* of the plan, unless it is that item and is no longer to do.  And when the   *)
(* owners divide for more and more, nothing remembered is paid for again.     *)
(* Last, a run is bounded: it makes at most as many calls as its division     *)
(* trees have nodes, and five natural numbers fall with every step of it.     *)
(***************************************************************************)
EXTENDS AdaptiveSplit, SequenceTheorems, FiniteSetTheorems, TLAPS

Entry == [item : Items, state : States]

\* The plan's items follow one another without a gap and without an overlap.
Contiguous ==
    phase # "idle" =>
        /\ Len(plan) > 0
        /\ plan[1].item[1] = Begin[1][1]
        /\ plan[Len(plan)].item[2] = Begin[Len(Begin)][2]
        /\ \A i \in 1..Len(plan)-1 : plan[i].item[2] + 1 = plan[i+1].item[1]
        /\ \A i, j \in 1..Len(plan) : i < j => plan[i].item[2] < plan[j].item[1]

Inside(x, y) == y[1] <= x[1] /\ x[2] <= y[2]

\* Nothing the plan still asks for was asked for, nor lies around what was.
AskedBefore ==
    \A x \in Items :
        /\ asks[x] \in {0, 1}
        /\ asks[x] = 1 =>
              /\ phase # "idle"
              /\ \A j \in 1..Len(plan) : Inside(x, plan[j].item) =>
                    x = plan[j].item /\ plan[j].state # "todo"

\* The types the two parts need.
PlanTyped ==
    /\ plan \in Seq(Entry)
    /\ cursor \in Nat \ {0}
    /\ asks \in [Items -> 0..2]
    /\ phase \in {"idle", "expanding", "asking", "collecting", "returned"}
    /\ phase = "idle" => plan = << >>

SplitInv == PlanTyped /\ Contiguous /\ AskedBefore

-----------------------------------------------------------------------------
\* An item is two rows, the first no later than the second.
LEMMA ItemShape ==
  ASSUME NEW x \in Items
  PROVE  /\ x = <<x[1], x[2]>> /\ x[1] \in 1..Rows /\ x[2] \in 1..Rows /\ x[1] <= x[2]
         /\ x[1] \in Nat /\ x[2] \in Nat
  BY SplitAssumption DEF Items

\* The halves of an item are items, side by side, and together the item.
LEMMA HalvesShape ==
  ASSUME NEW x \in Items, Splits(x)
  PROVE  LET a == Halves(x)[1]  b == Halves(x)[2] IN
         /\ a \in Items /\ b \in Items
         /\ a[1] = x[1] /\ b[2] = x[2] /\ a[2] + 1 = b[1]
  <1>1. /\ x[1] \in 1..Rows /\ x[2] \in 1..Rows /\ x[1] < x[2]
        /\ x[1] \in Nat /\ x[2] \in Nat /\ Rows \in Nat
    BY ItemShape, SplitAssumption DEF Splits, Size
  <1>2. Middle(x) \in Int /\ x[1] <= Middle(x) /\ Middle(x) < x[2]
    BY <1>1 DEF Middle, Size
  <1>3. /\ <<x[1], Middle(x)>> \in (1..Rows) \X (1..Rows)
        /\ <<Middle(x) + 1, x[2]>> \in (1..Rows) \X (1..Rows)
    BY <1>1, <1>2
  <1> QED BY <1>1, <1>2, <1>3 DEF Halves, Items

LEMMA PlanItems ==
  ASSUME plan \in Seq(Entry), NEW i \in 1..Len(plan)
  PROVE  plan[i] \in Entry /\ plan[i].item \in Items /\ plan[i].state \in States
  <1>1. plan[i] \in Entry
    OBVIOUS
  <1> QED BY <1>1 DEF Entry

\* Dividing the i-th item puts its halves in its place.
LEMMA DividedShape ==
  ASSUME plan \in Seq(Entry), NEW i \in 1..Len(plan), Splits(plan[i].item)
  PROVE  LET x == plan[i].item IN
         /\ Divided(i) \in Seq(Entry)
         /\ Len(Divided(i)) = Len(plan) + 1
         /\ Divided(i)[i] = Node(Halves(x)[1]) /\ Divided(i)[i+1] = Node(Halves(x)[2])
         /\ \A j \in 1..Len(plan)+1 : j < i => Divided(i)[j] = plan[j]
         /\ \A j \in 1..Len(plan)+1 : j > i + 1 => Divided(i)[j] = plan[j-1]
  <1> DEFINE x == plan[i].item
             c == Children(x)
  <1>1. x \in Items /\ Len(plan) \in Nat
    BY PlanItems
  <1>2. Node(Halves(x)[1]) \in Entry /\ Node(Halves(x)[2]) \in Entry
    BY <1>1, HalvesShape DEF Node, Entry, States
  <1>3. c \in Seq(Entry) /\ Len(c) = 2 /\ c[1] = Node(Halves(x)[1]) /\ c[2] = Node(Halves(x)[2])
    BY <1>2 DEF Children
  <1>4. /\ SubSeq(plan, 1, i-1) \in Seq(Entry) /\ Len(SubSeq(plan, 1, i-1)) = i - 1
        /\ \A j \in 1..(i-1) : SubSeq(plan, 1, i-1)[j] = plan[j]
    BY <1>1
  <1>5. /\ SubSeq(plan, i+1, Len(plan)) \in Seq(Entry)
        /\ Len(SubSeq(plan, i+1, Len(plan))) = Len(plan) - i
        /\ \A j \in 1..(Len(plan) - i) : SubSeq(plan, i+1, Len(plan))[j] = plan[i + j]
    BY <1>1
  <1> DEFINE s == SubSeq(plan, 1, i-1)
             t == SubSeq(plan, i+1, Len(plan))
  <1>6. Divided(i) = s \o c \o t
    BY DEF Divided
  <1> HIDE DEF c, s, t, x
  <1>7. s \o c \in Seq(Entry) /\ Len(s \o c) = i + 1
        /\ (\A j \in 1..(i-1) : (s \o c)[j] = plan[j]) /\ (s \o c)[i] = c[1] /\ (s \o c)[i+1] = c[2]
    <2>1. /\ s \in Seq(Entry) /\ Len(s) = i - 1 /\ \A j \in 1..(i-1) : s[j] = plan[j]
      BY <1>4 DEF s
    <2>2. c \in Seq(Entry) /\ Len(c) = 2 /\ i \in Nat \ {0}
      BY <1>1, <1>3
    <2>3. /\ s \o c \in Seq(Entry) /\ Len(s \o c) = Len(s) + Len(c)
          /\ \A j \in 1..(Len(s) + Len(c)) :
                (s \o c)[j] = IF j <= Len(s) THEN s[j] ELSE c[j - Len(s)]
      BY <2>1, <2>2, ConcatProperties
    <2>4. /\ Len(s \o c) = i + 1
          /\ \A j \in 1..(i+1) : (s \o c)[j] = IF j <= i - 1 THEN s[j] ELSE c[j - (i - 1)]
      BY <2>1, <2>2, <2>3
    <2>5. i - (i - 1) = 1 /\ i + 1 - (i - 1) = 2 /\ i \in 1..(i+1) /\ i + 1 \in 1..(i+1)
      BY <2>2
    <2>6. (s \o c)[i] = c[1] /\ (s \o c)[i+1] = c[2]
      BY <2>2, <2>4, <2>5
    <2>7. \A j \in 1..(i-1) : (s \o c)[j] = plan[j]
      BY <2>1, <2>2, <2>4
    <2> QED BY <2>3, <2>4, <2>6, <2>7
  <1>8. /\ Divided(i) \in Seq(Entry) /\ Len(Divided(i)) = Len(plan) + 1
        /\ \A j \in 1..(i+1) : Divided(i)[j] = (s \o c)[j]
        /\ \A j \in 1..(Len(plan)+1) : j > i + 1 => Divided(i)[j] = t[j - (i + 1)]
    <2> DEFINE h == s \o c
    <2>1. t \in Seq(Entry) /\ Len(t) = Len(plan) - i
      BY <1>5 DEF t
    <2>2. h \in Seq(Entry) /\ Len(h) = i + 1 /\ Divided(i) = h \o t
      BY <1>6, <1>7
    <2> HIDE DEF h
    <2>3. /\ h \o t \in Seq(Entry) /\ Len(h \o t) = Len(h) + Len(t)
          /\ \A j \in 1..(Len(h) + Len(t)) :
                (h \o t)[j] = IF j <= Len(h) THEN h[j] ELSE t[j - Len(h)]
      BY <2>1, <2>2, ConcatProperties
    <2>4. Len(h) + Len(t) = Len(plan) + 1 /\ i \in Nat /\ i <= Len(plan)
      BY <1>1, <2>1, <2>2
    <2>5. \A j \in 1..(i+1) : Divided(i)[j] = h[j]
      BY <1>1, <2>2, <2>3, <2>4
    <2>6. \A j \in 1..(Len(plan)+1) : j > i + 1 => Divided(i)[j] = t[j - (i + 1)]
      BY <1>1, <2>2, <2>3, <2>4
    <2> QED BY <2>2, <2>3, <2>4, <2>5, <2>6 DEF h
  <1>9. \A j \in 1..(Len(plan)+1) : j > i + 1 => Divided(i)[j] = plan[j-1]
    <2> SUFFICES ASSUME NEW j \in 1..(Len(plan)+1), j > i + 1 PROVE Divided(i)[j] = plan[j-1]
      OBVIOUS
    <2>1. j - (i + 1) \in 1..(Len(plan) - i) /\ i + (j - (i + 1)) = j - 1
      BY <1>1
    <2>2. t[j - (i + 1)] = plan[i + (j - (i + 1))]
      BY <2>1, <1>5 DEF t
    <2> QED BY <1>8, <2>1, <2>2
  <1>10. Divided(i)[i] = c[1] /\ Divided(i)[i+1] = c[2]
    <2>1. i \in 1..(i+1) /\ i + 1 \in 1..(i+1)
      BY <1>1
    <2> QED BY <1>7, <1>8, <2>1
  <1>11. \A j \in 1..(Len(plan)+1) : j < i => Divided(i)[j] = plan[j]
    <2> SUFFICES ASSUME NEW j \in 1..(Len(plan)+1), j < i PROVE Divided(i)[j] = plan[j]
      OBVIOUS
    <2>1. j \in 1..(i-1) /\ j \in 1..(i+1)
      BY <1>1
    <2> QED BY <1>7, <1>8, <2>1
  <1> QED BY <1>3, <1>8, <1>9, <1>10, <1>11 DEF x

\* Marking an item changes its state alone.
LEMMA MarkedShape ==
  ASSUME plan \in Seq(Entry), NEW i \in 1..Len(plan), NEW state \in States
  PROVE  /\ Marked(i, state) \in Seq(Entry)
         /\ Len(Marked(i, state)) = Len(plan)
         /\ \A j \in 1..Len(plan) :
               /\ Marked(i, state)[j].item = plan[j].item
               /\ Marked(i, state)[j].state = IF j = i THEN state ELSE plan[j].state
  <1>1. plan[i] \in Entry
    OBVIOUS
  <1> DEFINE new == [plan[i] EXCEPT !.state = state]
  <1>2. new \in Entry /\ new.item = plan[i].item /\ new.state = state
    BY <1>1 DEF Entry
  <1>3. Marked(i, state) = [plan EXCEPT ![i] = new]
    BY DEF Marked
  <1>4. Marked(i, state) \in Seq(Entry) /\ Len(Marked(i, state)) = Len(plan)
        /\ \A j \in 1..Len(plan) : Marked(i, state)[j] = IF j = i THEN new ELSE plan[j]
    <2> HIDE DEF new
    <2> QED BY <1>2, <1>3
  <1> HIDE DEF new
  <1> QED BY <1>2, <1>4

-----------------------------------------------------------------------------
\* The ends of n intervals that follow one another, and of the same intervals
\* with the i-th cut in two, between x and y.
Following(n, lo, hi) ==
    /\ lo \in [1..n -> Nat] /\ hi \in [1..n -> Nat]
    /\ \A j \in 1..n : lo[j] <= hi[j]
    /\ \A j \in 1..n-1 : hi[j] + 1 = lo[j+1]
    /\ \A j, k \in 1..n : j < k => hi[j] < lo[k]

CutAt(n, i, old, new, x, y) ==
    \A j \in 1..n+1 :
        new[j] = IF j < i THEN old[j] ELSE IF j = i THEN x ELSE IF j = i + 1 THEN y ELSE old[j-1]

\* Intervals that follow one another still do when one is cut in two.
LEMMA Spread ==
  ASSUME NEW n \in Nat, NEW i \in 1..n, NEW lo, NEW hi, NEW lo2, NEW hi2,
         Following(n, lo, hi), NEW x \in Nat, NEW y \in Nat,
         x + 1 = y, lo[i] <= x, y <= hi[i],
         CutAt(n, i, lo, lo2, lo[i], y), CutAt(n, i, hi, hi2, x, hi[i])
  PROVE  /\ lo2[1] = lo[1] /\ hi2[n+1] = hi[n]
         /\ \A j \in 1..n : hi2[j] + 1 = lo2[j+1]
         /\ \A j, k \in 1..n+1 : j < k => hi2[j] < lo2[k]
  <1>1. /\ lo \in [1..n -> Nat] /\ hi \in [1..n -> Nat]
        /\ \A j \in 1..n : lo[j] <= hi[j]
        /\ \A j \in 1..n-1 : hi[j] + 1 = lo[j+1]
        /\ \A j, k \in 1..n : j < k => hi[j] < lo[k]
    BY DEF Following
  <1>2. ASSUME NEW j \in 1..n+1
        PROVE  /\ j < i => lo2[j] = lo[j] /\ hi2[j] = hi[j]
               /\ j = i => lo2[j] = lo[i] /\ hi2[j] = x
               /\ j = i + 1 => lo2[j] = y /\ hi2[j] = hi[i]
               /\ j > i + 1 => lo2[j] = lo[j-1] /\ hi2[j] = hi[j-1]
    BY DEF CutAt
  <1>3. lo2[1] = lo[1] /\ hi2[n+1] = hi[n]
    <2>1. 1 \in 1..n+1 /\ n + 1 \in 1..n+1 /\ n + 1 - 1 = n
      OBVIOUS
    <2>2. lo2[1] = lo[1]
      BY <1>2, <2>1
    <2>3. hi2[n+1] = hi[n]
      BY <1>2, <2>1
    <2> QED BY <2>2, <2>3
  <1>4. ASSUME NEW j \in 1..n PROVE hi2[j] + 1 = lo2[j+1]
    <2>1. j \in 1..n+1 /\ j + 1 \in 1..n+1 /\ j + 1 - 1 = j /\ j - 1 + 1 = j
      OBVIOUS
    <2>2. CASE j + 1 < i
      <3>1. hi2[j] = hi[j] /\ lo2[j+1] = lo[j+1] /\ j \in 1..n-1
        BY <1>2, <2>1, <2>2
      <3> QED BY <1>1, <3>1
    <2>3. CASE j + 1 = i
      <3>1. hi2[j] = hi[j] /\ lo2[j+1] = lo[j+1] /\ j \in 1..n-1
        BY <1>2, <2>1, <2>3
      <3> QED BY <1>1, <3>1
    <2>4. CASE j = i
      BY <1>2, <2>1, <2>4
    <2>5. CASE j = i + 1
      <3>1. hi2[j] = hi[i] /\ lo2[j+1] = lo[j] /\ i \in 1..n-1
        BY <1>2, <2>1, <2>5
      <3> QED BY <1>1, <2>5, <3>1
    <2>6. CASE j > i + 1
      <3>1. hi2[j] = hi[j-1] /\ lo2[j+1] = lo[j] /\ j - 1 \in 1..n-1
        BY <1>2, <2>1, <2>6
      <3> QED BY <1>1, <2>1, <3>1
    <2> QED BY <2>2, <2>3, <2>4, <2>5, <2>6
  <1>5. ASSUME NEW j \in 1..n+1, NEW k \in 1..n+1, j < k PROVE hi2[j] < lo2[k]
    <2>1. CASE k < i
      <3>1. lo2[k] = lo[k] /\ hi2[j] = hi[j] /\ j \in 1..n /\ k \in 1..n
        BY <1>2, <1>5, <2>1
      <3> QED BY <1>1, <1>5, <3>1
    <2>2. CASE k = i
      <3>1. lo2[k] = lo[i] /\ hi2[j] = hi[j] /\ j \in 1..n
        BY <1>2, <1>5, <2>2
      <3> QED BY <1>1, <1>5, <2>2, <3>1
    <2>3. CASE k = i + 1 /\ j < i
      <3>1. hi[j] < lo[i] /\ hi2[j] = hi[j] /\ lo2[k] = y
        BY <1>1, <1>2, <1>5, <2>3
      <3>2. hi[j] \in Nat /\ lo[i] \in Nat
        BY <1>1, <2>3
      <3> QED BY <3>1, <3>2
    <2>4. CASE k = i + 1 /\ j = i
      BY <1>2, <2>4
    <2>5. CASE k > i + 1
      <3>1. lo2[k] = lo[k-1] /\ k - 1 \in 1..n /\ i < k - 1
        BY <1>2, <2>5
      <3>2. CASE j < i
        BY <1>1, <1>2, <3>1, <3>2
      <3>3. CASE j = i
        <4>1. hi2[j] = x /\ hi[i] < lo[k-1] /\ hi[i] \in Nat /\ lo[k-1] \in Nat
          BY <1>1, <1>2, <3>1, <3>3
        <4> QED BY <3>1, <4>1
      <3>4. CASE j = i + 1
        BY <1>1, <1>2, <3>1, <3>4
      <3>5. CASE j > i + 1
        <4>1. hi2[j] = hi[j-1] /\ j - 1 \in 1..n /\ j - 1 < k - 1
          BY <1>2, <1>5, <3>5
        <4> QED BY <1>1, <3>1, <4>1
      <3> QED BY <3>2, <3>3, <3>4, <3>5
    <2> QED BY <1>5, <2>1, <2>2, <2>3, <2>4, <2>5
  <1> QED BY <1>3, <1>4, <1>5

\* Dividing one item keeps the plan contiguous and asks for nothing again.
LEMMA DividingKeeps ==
  ASSUME SplitInv, phase # "idle", NEW i \in 1..Len(plan), Splits(plan[i].item),
         plan' = Divided(i), asks' = asks, phase' = phase, cursor' = cursor
  PROVE  SplitInv'
  <1> DEFINE x == plan[i].item
             a == Halves(x)[1]
             b == Halves(x)[2]
             n == Len(plan)
  <1>1. plan \in Seq(Entry) /\ n \in Nat /\ n > 0
    BY DEF SplitInv, PlanTyped, Contiguous
  <1>2. \A j \in 1..n : plan[j].item \in Items
    BY <1>1, PlanItems
  <1>3. a \in Items /\ b \in Items /\ a[1] = x[1] /\ b[2] = x[2] /\ a[2] + 1 = b[1]
    BY <1>2, HalvesShape
  <1>0. /\ Divided(i) \in Seq(Entry)
        /\ Len(Divided(i)) = n + 1
        /\ Divided(i)[i] = Node(a) /\ Divided(i)[i+1] = Node(b)
        /\ \A j \in 1..n+1 : j < i => Divided(i)[j] = plan[j]
        /\ \A j \in 1..n+1 : j > i + 1 => Divided(i)[j] = plan[j-1]
    BY <1>1, DividedShape
  <1>4. /\ plan' \in Seq(Entry) /\ Len(plan') = n + 1
        /\ plan'[i].item = a /\ plan'[i+1].item = b
        /\ \A j \in 1..(n+1) : j < i => plan'[j] = plan[j]
        /\ \A j \in 1..(n+1) : j > i + 1 => plan'[j] = plan[j-1]
    <2> HIDE DEF a, b
    <2> QED BY <1>0 DEF Node
  <1>5. \A j \in 1..n : /\ plan[j].item[1] \in Nat /\ plan[j].item[2] \in Nat
                        /\ plan[j].item[1] <= plan[j].item[2]
    BY <1>2, ItemShape
  <1>6. /\ a[1] \in Nat /\ a[2] \in Nat /\ a[1] <= a[2]
        /\ b[1] \in Nat /\ b[2] \in Nat /\ b[1] <= b[2]
    BY <1>3, ItemShape
  <1>7. /\ plan[1].item[1] = Begin[1][1]
        /\ plan[n].item[2] = Begin[Len(Begin)][2]
        /\ \A j \in 1..n-1 : plan[j].item[2] + 1 = plan[j+1].item[1]
        /\ \A j, k \in 1..n : j < k => plan[j].item[2] < plan[k].item[1]
    BY DEF SplitInv, Contiguous
  <1>8. x[1] = plan[i].item[1] /\ x[2] = plan[i].item[2] /\ i \in 1..n
    OBVIOUS
  <1>9. PlanTyped'
    BY <1>4 DEF SplitInv, PlanTyped
  <1> HIDE DEF a, b, x, n
  <1>10. Contiguous'
    <2> DEFINE lo == [j \in 1..n |-> plan[j].item[1]]
               hi == [j \in 1..n |-> plan[j].item[2]]
               lo2 == [j \in 1..n+1 |-> plan'[j].item[1]]
               hi2 == [j \in 1..n+1 |-> plan'[j].item[2]]
    <2>1. Following(n, lo, hi)
      BY <1>1, <1>5, <1>7 DEF Following
    <2>2. CutAt(n, i, lo, lo2, a[1], b[1]) /\ CutAt(n, i, hi, hi2, a[2], b[2])
      <3> SUFFICES ASSUME NEW j \in 1..n+1
                   PROVE  /\ plan'[j].item[1] = IF j < i THEN lo[j] ELSE IF j = i THEN a[1]
                                                ELSE IF j = i + 1 THEN b[1] ELSE lo[j-1]
                          /\ plan'[j].item[2] = IF j < i THEN hi[j] ELSE IF j = i THEN a[2]
                                                ELSE IF j = i + 1 THEN b[2] ELSE hi[j-1]
        BY DEF CutAt
      <3>1. CASE j < i
        BY <1>1, <1>4, <1>8, <3>1
      <3>2. CASE j = i
        BY <1>4, <3>2
      <3>3. CASE j = i + 1
        BY <1>1, <1>4, <1>8, <3>3
      <3>4. CASE j > i + 1
        BY <1>1, <1>4, <1>8, <3>4
      <3> QED BY <1>1, <1>8, <3>1, <3>2, <3>3, <3>4
    <2>3. a[1] = lo[i] /\ b[2] = hi[i] /\ a[2] + 1 = b[1]
      BY <1>3, <1>8
    <2> HIDE DEF lo, hi, lo2, hi2
    <2>4. lo[i] <= a[2] /\ b[1] <= hi[i]
      BY <1>6, <2>3
    <2>5. /\ lo2[1] = lo[1] /\ hi2[n+1] = hi[n]
          /\ \A j \in 1..n : hi2[j] + 1 = lo2[j+1]
          /\ \A j, k \in 1..n+1 : j < k => hi2[j] < lo2[k]
      BY <1>1, <1>6, <1>8, <2>1, <2>2, <2>3, <2>4, Spread
    <2>6. 1 \in 1..n /\ n \in 1..n /\ 1 \in 1..n+1 /\ n + 1 \in 1..n+1 /\ n + 1 - 1 = n
          /\ \A j \in 1..n : j \in 1..n+1 /\ j + 1 \in 1..n+1
      BY <1>1
    <2>7. plan'[1].item[1] = Begin[1][1] /\ plan'[n+1].item[2] = Begin[Len(Begin)][2]
      BY <1>7, <2>5, <2>6 DEF lo, hi, lo2, hi2
    <2>8. \A j \in 1..n : plan'[j].item[2] + 1 = plan'[j+1].item[1]
      BY <2>5, <2>6 DEF lo2, hi2
    <2>9. \A j, k \in 1..n+1 : j < k => plan'[j].item[2] < plan'[k].item[1]
      BY <2>5 DEF lo2, hi2
    <2>10. Len(plan') = n + 1 /\ 1..(n+1)-1 = 1..n /\ n + 1 > 0
      BY <1>1, <1>4
    <2> QED BY <2>7, <2>8, <2>9, <2>10 DEF Contiguous
  <1>11. AskedBefore'
    <2>1. ASSUME NEW y \in Items, asks[y] = 1, NEW j \in 1..n+1, Inside(y, plan'[j].item)
          PROVE  y = plan'[j].item /\ plan'[j].state # "todo"
      <3>0. y[1] \in Nat /\ y[2] \in Nat /\ y[1] <= y[2] /\ y = <<y[1], y[2]>>
        BY ItemShape
      <3>1. \A k \in 1..n : Inside(y, plan[k].item) => y = plan[k].item /\ plan[k].state # "todo"
        BY <2>1 DEF SplitInv, AskedBefore, n
      <3>2. CASE j < i
        BY <1>1, <1>4, <1>8, <2>1, <3>1, <3>2
      <3>3. CASE j > i + 1
        <4>1. plan'[j] = plan[j-1] /\ j - 1 \in 1..n
          BY <1>1, <1>4, <1>8, <3>3
        <4> QED BY <2>1, <3>1, <4>1
      <3>4. ~Inside(y, a) /\ ~Inside(y, b)
        <4>1. Inside(y, a) \/ Inside(y, b) => Inside(y, x)
          BY <1>3, <1>5, <1>6, <1>8, <3>0 DEF Inside
        <4>2. Inside(y, x) => y = x
          BY <3>1 DEF x, n
        <4> QED BY <1>3, <1>6, <3>0, <4>1, <4>2 DEF Inside
      <3>5. j # i /\ j # i + 1
        BY <1>4, <2>1, <3>4
      <3> QED BY <1>1, <3>2, <3>3, <3>5
    <2> QED BY <1>4, <2>1 DEF SplitInv, AskedBefore
  <1> QED BY <1>9, <1>10, <1>11 DEF SplitInv

\* Marking an item keeps the plan, and an item that was to do is now done.
LEMMA MarkingKeeps ==
  ASSUME SplitInv, phase # "idle", phase' # "idle", phase' = phase, cursor' \in Nat \ {0},
         NEW i \in 1..Len(plan), NEW state \in States \ {"todo"}, plan' = Marked(i, state),
         \/ asks' = asks
         \/ /\ plan[i].state = "todo"
            /\ asks' = [asks EXCEPT ![plan[i].item] = IF @ < 2 THEN @ + 1 ELSE @]
  PROVE  SplitInv'
  <1> DEFINE n == Len(plan)
             x == plan[i].item
  <1>1. plan \in Seq(Entry) /\ n \in Nat /\ asks \in [Items -> 0..2]
    BY DEF SplitInv, PlanTyped
  <1>2. /\ plan' \in Seq(Entry) /\ Len(plan') = n
        /\ \A j \in 1..n : /\ plan'[j].item = plan[j].item
                           /\ plan'[j].state = IF j = i THEN state ELSE plan[j].state
    BY <1>1, MarkedShape
  <1>3. \A j \in 1..n : plan[j].item \in Items
    BY <1>1, PlanItems
  <1>4. asks' \in [Items -> 0..2]
    BY <1>1, <1>3
  <1>5. PlanTyped'
    BY <1>2, <1>4 DEF SplitInv, PlanTyped
  <1>6. Contiguous'
    <2>1. /\ n > 0
          /\ plan[1].item[1] = Begin[1][1]
          /\ plan[n].item[2] = Begin[Len(Begin)][2]
          /\ \A j \in 1..n-1 : plan[j].item[2] + 1 = plan[j+1].item[1]
          /\ \A j, k \in 1..n : j < k => plan[j].item[2] < plan[k].item[1]
      BY DEF SplitInv, Contiguous
    <2>2. \A j \in 1..n-1 : j \in 1..n /\ j + 1 \in 1..n
      BY <1>1
    <2>3. 1 \in 1..n /\ n \in 1..n
      BY <1>1, <2>1
    <2> HIDE DEF n
    <2>4. \A j \in 1..n-1 : plan'[j].item[2] + 1 = plan'[j+1].item[1]
      BY <1>2, <2>1, <2>2
    <2>5. \A j, k \in 1..n : j < k => plan'[j].item[2] < plan'[k].item[1]
      BY <1>2, <2>1
    <2>6. plan'[1].item[1] = Begin[1][1] /\ plan'[n].item[2] = Begin[Len(Begin)][2]
      BY <1>2, <2>1, <2>3
    <2> QED BY <1>2, <2>1, <2>4, <2>5, <2>6 DEF Contiguous
  <1>7. ASSUME asks' = asks PROVE AskedBefore'
    BY <1>2, <1>7 DEF SplitInv, AskedBefore
  <1>8. ASSUME plan[i].state = "todo",
               asks' = [asks EXCEPT ![x] = IF @ < 2 THEN @ + 1 ELSE @]
        PROVE  AskedBefore'
    <2>1. asks[x] = 0
      <3>1. Inside(x, x)
        BY <1>3, ItemShape DEF Inside
      <3> QED BY <1>3, <1>8, <3>1 DEF SplitInv, AskedBefore
    <2>2. asks'[x] = 1 /\ \A y \in Items \ {x} : asks'[y] = asks[y]
      BY <1>1, <1>3, <1>8, <2>1
    <2>3. ASSUME NEW j \in 1..n, Inside(x, plan[j].item) PROVE j = i
      <3>1. /\ x[1] \in Nat /\ x[2] \in Nat /\ x[1] <= x[2]
            /\ plan[j].item[1] \in Nat /\ plan[j].item[2] \in Nat
            /\ plan[j].item[1] <= plan[j].item[2]
        BY <1>3, ItemShape
      <3>2. \A k, l \in 1..n : k < l => plan[k].item[2] < plan[l].item[1]
        BY DEF SplitInv, Contiguous
      <3>3. CASE j < i
        BY <2>3, <3>1, <3>2, <3>3 DEF Inside
      <3>4. CASE i < j
        BY <2>3, <3>1, <3>2, <3>4 DEF Inside
      <3> QED BY <1>1, <3>3, <3>4
    <2>4. \A y \in Items : asks'[y] \in {0, 1}
      BY <2>2 DEF SplitInv, AskedBefore
    <2>5. ASSUME NEW y \in Items, asks'[y] = 1, NEW j \in 1..n, Inside(y, plan[j].item)
          PROVE  y = plan[j].item /\ plan'[j].state # "todo"
      <3>1. CASE y = x
        BY <1>2, <2>3, <2>5, <3>1
      <3>2. CASE y # x
        BY <1>2, <2>2, <2>5, <3>2 DEF SplitInv, AskedBefore
      <3> QED BY <3>1, <3>2
    <2> QED BY <1>2, <2>4, <2>5 DEF AskedBefore
  <1> QED BY <1>5, <1>6, <1>7, <1>8 DEF SplitInv

\* A run that is over leaves nothing.
LEMMA EndKeeps == ASSUME End PROVE SplitInv'
  BY DEF End, SplitInv, PlanTyped, Contiguous, AskedBefore

\* A run begins with the batch and has asked for nothing.
LEMMA BeginKeeps == ASSUME SplitInv, NEW o \in Owners, BeginRun(o) PROVE SplitInv'
  <1>1. phase = "idle" /\ phase' = "expanding" /\ cursor' = 1 /\ asks' = asks
        /\ plan' = [i \in DOMAIN Begin |-> Node(Begin[i])]
    BY DEF BeginRun
  <1>2. Begin \in Seq(Items) /\ Len(Begin) \in Nat /\ Len(Begin) > 0 /\ DOMAIN Begin = 1..Len(Begin)
    BY SplitAssumption
  <1>3. \A i \in 1..Len(Begin) : Node(Begin[i]) \in Entry /\ Node(Begin[i]).item = Begin[i]
    BY <1>2 DEF Node, Entry, States
  <1>4. plan' \in Seq(Entry) /\ Len(plan') = Len(Begin)
    BY <1>1, <1>2, <1>3
  <1>5. \A i \in 1..Len(Begin) : plan'[i].item = Begin[i]
    BY <1>1, <1>2, <1>3
  <1>6. Contiguous'
    <2> DEFINE n == Len(Begin)
    <2>1. /\ \A i \in 1..n-1 : Begin[i][2] + 1 = Begin[i+1][1]
          /\ \A i, j \in 1..n : i < j => Begin[i][2] < Begin[j][1]
      BY SplitAssumption
    <2>2. 1 \in 1..n /\ n \in 1..n /\ n > 0
          /\ \A i \in 1..n-1 : i \in 1..n /\ i + 1 \in 1..n
      BY <1>2
    <2>3. \A i \in 1..n : plan'[i].item = Begin[i]
      BY <1>5
    <2>4. Len(plan') = n
      BY <1>4
    <2> HIDE DEF n
    <2>5. \A i \in 1..n-1 : plan'[i].item[2] + 1 = plan'[i+1].item[1]
      BY <2>1, <2>2, <2>3
    <2>6. plan'[1].item[1] = Begin[1][1] /\ plan'[n].item[2] = Begin[n][2]
      BY <2>2, <2>3
    <2>7. \A i, j \in 1..n : i < j => plan'[i].item[2] < plan'[j].item[1]
      BY <2>1, <2>3
    <2>8. n = Len(Begin)
      BY DEF n
    <2> QED BY <2>2, <2>4, <2>5, <2>6, <2>7, <2>8 DEF Contiguous
  <1> QED BY <1>1, <1>4, <1>6 DEF SplitInv, PlanTyped, AskedBefore

-----------------------------------------------------------------------------
LEMMA InitSplitInv == Init => SplitInv
  BY DEF Init, SplitInv, PlanTyped, Contiguous, AskedBefore

LEMMA NextSplitInv == SplitInv /\ [Next]_vars => SplitInv'
  <1> SUFFICES ASSUME SplitInv, [Next]_vars PROVE SplitInv'
    OBVIOUS
  <1>1. plan \in Seq(Entry) /\ Len(plan) \in Nat /\ DOMAIN plan = 1..Len(plan)
        /\ cursor \in Nat \ {0}
    BY DEF SplitInv, PlanTyped
  <1>2. ASSUME plan' = plan, asks' = asks, cursor' \in Nat \ {0},
               phase # "idle" <=> phase' # "idle",
               phase' \in {"idle", "expanding", "asking", "collecting", "returned"}
        PROVE  SplitInv'
    BY <1>2 DEF SplitInv, PlanTyped, Contiguous, AskedBefore
  <1>3. CASE Expand
    <2>1. phase # "idle" /\ phase' = phase /\ asks' = asks /\ cursor \in 1..Len(plan)
          /\ phase \in {"idle", "expanding", "asking", "collecting", "returned"}
      BY <1>1, <1>3 DEF Expand
    <2>2. \/ plan' = plan /\ cursor' = cursor + 1
          \/ plan' = Divided(cursor) /\ cursor' = cursor /\ Splits(plan[cursor].item)
          \/ plan' = Marked(cursor, "leaf") /\ cursor' = cursor + 1
      BY <1>3 DEF Expand, NextItem
    <2>3. CASE plan' = plan /\ cursor' = cursor + 1
      BY <1>1, <1>2, <2>1, <2>3
    <2>4. CASE plan' = Divided(cursor) /\ cursor' = cursor /\ Splits(plan[cursor].item)
      BY <2>1, <2>4, DividingKeeps
    <2>5. CASE plan' = Marked(cursor, "leaf") /\ cursor' = cursor + 1
      <3>1. "leaf" \in States \ {"todo"} /\ cursor' \in Nat \ {0} /\ phase' # "idle"
        BY <1>1, <2>1, <2>5 DEF States
      <3> QED BY <2>1, <2>5, <3>1, MarkingKeeps
    <2> QED BY <2>2, <2>3, <2>4, <2>5
  <1>4. CASE Expanded \/ Resolved \/ NextRound
    BY <1>1, <1>2, <1>4 DEF Expanded, Resolved, NextRound
  <1>5. ASSUME NEW i \in Unfinished, Resolve(i) PROVE SplitInv'
    <2>1. /\ i \in 1..Len(plan) /\ plan[i].state = "todo"
          /\ phase # "idle" /\ phase' = phase /\ cursor' = cursor
      BY <1>1, <1>5 DEF Unfinished, Resolve
    <2>2. \E state \in States \ {"todo"} : plan' = Marked(i, state)
      BY <1>5 DEF Resolve, Hit, Live, Accepted, Refused, States, Reasons
    <2>3. \/ asks' = asks
          \/ asks' = [asks EXCEPT ![plan[i].item] = IF @ < 2 THEN @ + 1 ELSE @]
      BY <1>5 DEF Resolve, Hit, Live
    <2> QED BY <1>1, <2>1, <2>2, <2>3, MarkingKeeps
  <1>6. CASE Collect
    <2>1. PICK i \in First :
             IF Eligible(plan[i].state) /\ Splits(plan[i].item) THEN SplitRefused(i)
             ELSE Terminal(i) /\ UNCHANGED <<phase, cursor, asks, memo, remembered>>
      BY <1>6 DEF Collect
    <2>2. i \in 1..Len(plan) /\ phase # "idle"
      BY <1>1, <1>6 DEF First, Pending, Collect
    <2>3. CASE Eligible(plan[i].state) /\ Splits(plan[i].item)
      <3>1. (plan' = Divided(i) /\ UNCHANGED <<phase, cursor, asks>>) \/ End
        BY <2>1, <2>3 DEF SplitRefused
      <3> QED BY <2>2, <2>3, <3>1, DividingKeeps, EndKeeps
    <2>4. CASE ~(Eligible(plan[i].state) /\ Splits(plan[i].item))
      <3>1. plan' = Marked(i, "leaf") /\ UNCHANGED <<phase, cursor, asks>>
        BY <2>1, <2>4 DEF Terminal
      <3>2. "leaf" \in States \ {"todo"}
        BY DEF States
      <3> QED BY <1>1, <2>2, <3>1, <3>2, MarkingKeeps
    <2> QED BY <2>3, <2>4
  <1>7. CASE Return \/ Abandon \/ ObserverFails
    BY <1>7, EndKeeps DEF Return, Abandon, ObserverFails
  <1>8. ASSUME NEW o \in Owners, BeginRun(o) PROVE SplitInv'
    BY <1>8, BeginKeeps
  <1>9. CASE \E x \in Touched : Harm(x) \/ \E answer \in Answers : Replay(x, answer)
    BY <1>1, <1>2, <1>9 DEF Harm, Replay, run, SplitInv, PlanTyped
  <1>10. CASE UNCHANGED vars
    BY <1>1, <1>2, <1>10 DEF vars, run, SplitInv, PlanTyped
  <1> QED BY <1>3, <1>4, <1>5, <1>6, <1>7, <1>8, <1>9, <1>10 DEF Next, Step

\* A run's plan is at every moment an ordered partition of its rows, of which no
\* item was asked for before its turn.  (the rounds of adaptive_each.go)
THEOREM SplitInvariance == Spec => []SplitInv
  BY InitSplitInv, NextSplitInv, PTL DEF Spec

\* Whatever is divided, remembered or refused, the plan covers every row of the
\* batch once and in order.
THEOREM CoverSafety == Spec => []Cover
  <1>1. SplitInv => Cover
    BY DEF SplitInv, Contiguous, Cover
  <1> QED BY <1>1, SplitInvariance, PTL

\* No item is with the model twice in a run.
THEOREM AskedOnceSafety == Spec => []AskedOnce
  <1>1. SplitInv => AskedOnce
    BY DEF SplitInv, AskedBefore, AskedOnce
  <1> QED BY <1>1, SplitInvariance, PTL


-----------------------------------------------------------------------------
(* Nothing is paid for twice, when of any two owners one divides for all the   *)
(* other does, as those of the code: translation for both failures an owner    *)
(* may opt into, the others for neither.  (SplitRejectedResponse, SplitHTTP500) *)

Chained == \A o, p \in Owners : o.splits \subseteq p.splits \/ p.splits \subseteq o.splits

Divides(o) == {"resource"} \cup o.splits

CacheTyped ==
    /\ owner \in Owners
    /\ memo \in [Items -> {"none", "damaged", "unreadable"} \cup Reasons]
    /\ record \in [Items -> {"none", "damaged"} \cup Answers]
    /\ remembered \subseteq Owners \X Items
    /\ others \in 0..MaxOthers

\* Only items that can be divided have a memo of a refusal.
MemosDivide == \A x \in Items : memo[x] \in Reasons => Splits(x)

\* What is remembered is in the cache, as an answer or as a refusal its owner divides for.
Backed ==
    \A o \in Owners, x \in Items : <<o, x>> \in remembered =>
        /\ o.cached
        /\ Takes(o, record[x]) \/ (record[x] # "damaged" /\ memo[x] \in Divides(o))

\* The item was refused in this round; or it was looked up, and is yet to be asked for.
Tried(i) == plan[i].state \in Reasons \cup {"refused"}
Due(i) == plan[i].state = "todo" /\ (phase = "asking" \/ (phase = "expanding" /\ i < cursor))

\* The refusal of an item that others remember as refused is no refusal of this owner's:
\* he would have divided it.
Unshared ==
    owner.cached =>
        \A o \in Owners, i \in 1..Len(plan) :
            <<o, plan[i].item>> \in remembered /\ (Tried(i) \/ Due(i)) =>
                \/ Takes(o, record[plan[i].item])
                \/ memo[plan[i].item] \notin Divides(owner)
                \/ Due(i) /\ Takes(owner, record[plan[i].item])

PaidInv == CacheTyped /\ MemosDivide /\ Backed /\ Unshared

LEMMA OwnerShape ==
  ASSUME NEW o \in Owners
  PROVE  o.splits \subseteq Reasons /\ o.lenient \in BOOLEAN /\ o.cached \in BOOLEAN
         /\ Divides(o) \subseteq Reasons
  BY SplitAssumption DEF Divides, Reasons

LEMMA ItemsDiffer ==
  ASSUME SplitInv, NEW i \in 1..Len(plan), NEW j \in 1..Len(plan), i # j
  PROVE  plan[i].item # plan[j].item
  <1>1. plan \in Seq(Entry) /\ phase # "idle" /\ i \in Nat /\ j \in Nat
    BY DEF SplitInv, PlanTyped
  <1>2. ASSUME NEW k \in 1..Len(plan), NEW l \in 1..Len(plan), k < l
        PROVE  plan[k].item # plan[l].item
    <2>1. plan[k].item[2] < plan[l].item[1]
      BY <1>1, <1>2 DEF SplitInv, Contiguous
    <2>2. plan[k].item \in Items /\ plan[l].item \in Items
      BY <1>1, PlanItems
    <2>3. plan[k].item[1] <= plan[k].item[2] /\ plan[k].item[1] \in Nat /\ plan[k].item[2] \in Nat
      BY <2>2, ItemShape
    <2> QED BY <2>1, <2>3
  <1>3. i < j \/ j < i
    BY <1>1
  <1> QED BY <1>2, <1>3

\* What is true of an item in the plan stays true of it while its files do.
LEMMA CarriedOver ==
  ASSUME PaidInv, owner' = owner,
         \A j \in 1..Len(plan') : (Tried(j) \/ Due(j))' =>
            \E k \in 1..Len(plan) :
               /\ plan[k].item = plan'[j].item
               /\ (Tried(j)' => Tried(k)) /\ (Due(j)' => Due(k))
               /\ record'[plan[k].item] = record[plan[k].item]
               /\ memo'[plan[k].item] = memo[plan[k].item]
               /\ \A o \in Owners : <<o, plan[k].item>> \in remembered' =>
                                    <<o, plan[k].item>> \in remembered
  PROVE  Unshared'
  <1> SUFFICES ASSUME owner.cached, NEW o \in Owners, NEW j \in 1..Len(plan'),
                      <<o, plan'[j].item>> \in remembered', (Tried(j) \/ Due(j))'
               PROVE  \/ Takes(o, record'[plan'[j].item])
                      \/ memo'[plan'[j].item] \notin Divides(owner)
                      \/ Due(j)' /\ Takes(owner, record'[plan'[j].item])
    BY DEF Unshared, Takes, Divides
  <1>1. PICK k \in 1..Len(plan) :
           /\ plan[k].item = plan'[j].item
           /\ (Tried(j)' => Tried(k)) /\ (Due(j)' => Due(k))
           /\ record'[plan[k].item] = record[plan[k].item]
           /\ memo'[plan[k].item] = memo[plan[k].item]
           /\ <<o, plan[k].item>> \in remembered
    OBVIOUS
  <1>2. \/ Takes(o, record[plan[k].item])
        \/ memo[plan[k].item] \notin Divides(owner)
        \/ Due(k) /\ Takes(owner, record[plan[k].item])
    BY <1>1 DEF PaidInv, Unshared
  <1>3. Due(k) => Due(j)'
    BY <1>1 DEF Due, Tried, Reasons
  <1> QED BY <1>1, <1>2, <1>3

\* A damaged memo that is removed backed nothing.
LEMMA CleaningKeeps ==
  ASSUME PaidInv, NEW x \in Items, UNCHANGED <<owner, record, remembered, others>>,
         memo' = memo \/ (memo[x] = "damaged" /\ memo' = [memo EXCEPT ![x] = "none"])
  PROVE  CacheTyped' /\ MemosDivide' /\ Backed'
         /\ \A y \in Items : memo'[y] = memo[y] \/ (memo[y] = "damaged" /\ memo'[y] = "none")
  <1>1. \A y \in Items : memo'[y] = memo[y] \/ (memo[y] = "damaged" /\ memo'[y] = "none")
    BY DEF PaidInv, CacheTyped
  <1>2. CacheTyped'
    BY DEF PaidInv, CacheTyped
  <1>3. MemosDivide'
    BY <1>1 DEF PaidInv, MemosDivide, Reasons
  <1>4. \A o \in Owners : "damaged" \notin Divides(o)
    BY OwnerShape DEF Reasons
  <1>5. Backed'
    BY <1>1, <1>4 DEF PaidInv, Backed, Takes, Divides
  <1> QED BY <1>1, <1>2, <1>3, <1>5

LEMMA PaidStart == Init => PaidInv
  BY SplitAssumption DEF Init, PaidInv, CacheTyped, MemosDivide, Backed, Unshared, Reasons

\* The run that looks an item up divides it if he may, and else has nothing to fear.
LEMMA ExpandPaid ==
  ASSUME SplitInv, PaidInv, Expand
  PROVE  PaidInv'
  <1> DEFINE x == plan[cursor].item
  <1>1. /\ plan \in Seq(Entry) /\ Len(plan) \in Nat /\ cursor \in 1..Len(plan) /\ x \in Items
        /\ phase = "expanding" /\ phase' = phase /\ UNCHANGED <<owner, record, remembered, others>>
    <2>1. plan \in Seq(Entry) /\ Len(plan) \in Nat /\ cursor \in 1..Len(plan)
      BY DEF SplitInv, PlanTyped, Expand
    <2> QED BY <2>1, PlanItems DEF Expand
  <1>2. memo' = memo \/ (memo[x] = "damaged" /\ memo' = [memo EXCEPT ![x] = "none"])
    BY DEF Expand
  <1>3. /\ CacheTyped' /\ MemosDivide' /\ Backed'
        /\ \A y \in Items : memo'[y] = memo[y] \/ (memo[y] = "damaged" /\ memo'[y] = "none")
    BY <1>1, <1>2, CleaningKeeps
  <1>4. \/ plan' = Divided(cursor) /\ cursor' = cursor /\ memo' = memo /\ Splits(x)
        \/ plan' = Marked(cursor, "leaf") /\ cursor' = cursor + 1 /\ memo' = memo
        \/ /\ plan' = plan /\ cursor' = cursor + 1
           /\ plan[cursor].state = "todo" => ~(Hinted(x) /\ Splits(x))
    BY DEF Expand, NextItem
  <1>5. CASE plan' = Divided(cursor) /\ cursor' = cursor /\ memo' = memo /\ Splits(x)
    <2>1. /\ Len(Divided(cursor)) = Len(plan) + 1
          /\ Divided(cursor)[cursor].state = "todo" /\ Divided(cursor)[cursor+1].state = "todo"
          /\ \A j \in 1..Len(plan)+1 : j < cursor => Divided(cursor)[j] = plan[j]
          /\ \A j \in 1..Len(plan)+1 : j > cursor + 1 => Divided(cursor)[j] = plan[j-1]
      <3>1. Splits(plan[cursor].item)
        BY <1>5
      <3>2. \A y : Node(y).state = "todo"
        BY DEF Node
      <3> QED BY <1>1, <3>1, <3>2, DividedShape
    <2>2. ASSUME NEW j \in 1..Len(plan'), (Tried(j) \/ Due(j))'
          PROVE  \E k \in 1..Len(plan) :
                    plan[k].item = plan'[j].item /\ (Tried(j)' => Tried(k)) /\ (Due(j)' => Due(k))
      <3>1. CASE j < cursor
        <4>1. j \in 1..Len(plan) /\ plan'[j] = plan[j]
          BY <1>1, <1>5, <2>1, <3>1
        <4> QED BY <1>1, <1>5, <4>1 DEF Tried, Due
      <3>2. CASE j > cursor + 1
        <4>1. j - 1 \in 1..Len(plan) /\ plan'[j] = plan[j-1] /\ ~(j < cursor)
          BY <1>1, <1>5, <2>1, <3>2
        <4>2. ~Due(j)'
          BY <1>1, <1>5, <4>1 DEF Due
        <4>3. Tried(j)' => Tried(j - 1)
          BY <4>1 DEF Tried
        <4> QED BY <4>1, <4>2, <4>3
      <3>3. CASE j = cursor \/ j = cursor + 1
        <4>1. plan'[j].state = "todo" /\ ~(j < cursor')
          BY <1>1, <1>5, <2>1, <3>3
        <4> QED BY <1>1, <2>2, <4>1 DEF Tried, Due, Reasons
      <3> QED BY <1>1, <1>5, <2>1, <3>1, <3>2, <3>3
    <2>3. Unshared'
      BY <1>1, <1>5, <2>2, CarriedOver
    <2> QED BY <1>3, <2>3 DEF PaidInv
  <1>6. CASE plan' = Marked(cursor, "leaf") /\ cursor' = cursor + 1 /\ memo' = memo
    <2>1. /\ Len(plan') = Len(plan)
          /\ \A j \in 1..Len(plan) : /\ plan'[j].item = plan[j].item
                                     /\ plan'[j].state = IF j = cursor THEN "leaf" ELSE plan[j].state
      BY <1>1, <1>6, MarkedShape DEF States
    <2>2. ASSUME NEW j \in 1..Len(plan'), (Tried(j) \/ Due(j))'
          PROVE  plan[j].item = plan'[j].item /\ (Tried(j)' => Tried(j)) /\ (Due(j)' => Due(j))
      <3>1. j # cursor
        BY <2>1, <2>2 DEF Tried, Due, Reasons
      <3>2. j < cursor + 1 => j < cursor
        BY <1>1, <3>1
      <3> QED BY <1>1, <1>6, <2>1, <3>1, <3>2 DEF Tried, Due
    <2>3. Unshared'
      BY <1>1, <1>6, <2>1, <2>2, CarriedOver
    <2> QED BY <1>3, <2>3 DEF PaidInv
  <1>7. CASE /\ plan' = plan /\ cursor' = cursor + 1
             /\ plan[cursor].state = "todo" => ~(Hinted(x) /\ Splits(x))
    <2> SUFFICES ASSUME owner.cached, NEW o \in Owners, NEW j \in 1..Len(plan),
                        <<o, plan[j].item>> \in remembered, (Tried(j) \/ Due(j))'
                 PROVE  \/ Takes(o, record[plan[j].item])
                        \/ memo'[plan[j].item] \notin Divides(owner)
                        \/ Due(j)' /\ Takes(owner, record[plan[j].item])
      BY <1>1, <1>3, <1>7 DEF PaidInv, Unshared, Takes, Divides
    <2>0. plan[j].item \in Items /\ owner \in Owners
      BY <1>1, PlanItems DEF PaidInv, CacheTyped
    <2>1. memo'[plan[j].item] = memo[plan[j].item] \/ memo'[plan[j].item] = "none"
      BY <1>3, <2>0
    <2>2. "none" \notin Divides(owner)
      BY <2>0, OwnerShape DEF Reasons
    <2>3. CASE Tried(j) \/ Due(j)
      <3>1. Due(j) => Due(j)'
        BY <1>1, <1>7 DEF Due
      <3>2. \/ Takes(o, record[plan[j].item])
            \/ memo[plan[j].item] \notin Divides(owner)
            \/ Due(j) /\ Takes(owner, record[plan[j].item])
        BY <2>3 DEF PaidInv, Unshared
      <3> QED BY <2>1, <2>2, <3>1, <3>2
    <2>4. CASE ~(Tried(j) \/ Due(j))
      <3>1. j = cursor /\ plan[cursor].state = "todo" /\ Due(j)'
        BY <1>1, <1>7, <2>4 DEF Tried, Due
      <3>2. ~(Hinted(x) /\ Splits(x))
        BY <1>7, <3>1
      <3>3. CASE ~Splits(x)
        <4>1. memo[x] \notin Reasons
          BY <1>1, <3>3 DEF PaidInv, MemosDivide
        <4> QED BY <2>0, <2>1, <2>2, <3>1, <4>1, OwnerShape
      <3>4. CASE ~Hinted(x)
        <4>1. record[x] = "damaged" \/ Takes(owner, record[x]) \/ memo[x] \notin Divides(owner)
          BY <3>4 DEF Hinted, ParentWins, Divides
        <4>2. record[x] = "damaged" => Takes(o, record[x])
          BY <1>1, <3>1 DEF PaidInv, Backed
        <4> QED BY <2>1, <2>2, <3>1, <4>1, <4>2
      <3> QED BY <3>2, <3>3, <3>4
    <2> QED BY <2>3, <2>4
  <1> QED BY <1>4, <1>5, <1>6, <1>7

\* A round begins with what was looked up, and ends with what was refused.
LEMMA TurnPaid ==
  ASSUME SplitInv, PaidInv, Expanded \/ Resolved \/ NextRound
  PROVE  PaidInv'
  <1>1. plan' = plan /\ UNCHANGED <<owner, cache, remembered, others>>
    BY DEF Expanded, Resolved, NextRound
  <1>2. Len(plan) \in Nat
    BY DEF SplitInv, PlanTyped
  <1>3. ASSUME NEW j \in 1..Len(plan), Due(j)' PROVE Due(j)
    <2>1. CASE Expanded
      BY <1>2, <1>3, <2>1 DEF Expanded, Due, SplitInv, PlanTyped
    <2>2. CASE Resolved
      BY <1>3, <2>2 DEF Resolved, Due
    <2>3. CASE NextRound
      BY <1>2, <1>3, <2>3 DEF NextRound, Due
    <2> QED BY <2>1, <2>2, <2>3
  <1>4. Unshared'
    <2>1. UNCHANGED <<record, memo, remembered, owner>>
      BY <1>1 DEF cache
    <2>2. \A j \in 1..Len(plan) : Tried(j)' => Tried(j)
      BY <1>1 DEF Tried
    <2> QED BY <1>1, <1>3, <2>1, <2>2, CarriedOver
  <1> QED BY <1>1, <1>4 DEF PaidInv, CacheTyped, MemosDivide, Backed, cache

\* An answer is taken by all who took the one before; a refusal was no one else's.
LEMMA ResolvePaid ==
  ASSUME SplitInv, PaidInv, NEW i \in Unfinished, Resolve(i)
  PROVE  PaidInv'
  <1> DEFINE x == plan[i].item
  <1>1. /\ plan \in Seq(Entry) /\ i \in 1..Len(plan) /\ x \in Items /\ plan[i].state = "todo"
        /\ phase = "asking" /\ Due(i) /\ UNCHANGED <<owner, phase, cursor, memo, others>>
    <2>1. plan \in Seq(Entry) /\ i \in 1..Len(plan) /\ plan[i].state = "todo"
      BY DEF SplitInv, PlanTyped, Unfinished
    <2> QED BY <2>1, PlanItems DEF Resolve, Due
  <1>2. owner \in Owners /\ record \in [Items -> {"none", "damaged"} \cup Answers]
        /\ remembered \subseteq Owners \X Items
    BY DEF PaidInv, CacheTyped
  <1>3. PICK state \in States \ {"todo"} : plan' = Marked(i, state)
    BY DEF Resolve, Hit, Live, Accepted, Refused, States, Reasons
  <1>4. /\ Len(plan') = Len(plan)
        /\ \A j \in 1..Len(plan) : /\ plan'[j].item = plan[j].item
                                   /\ plan'[j].state = IF j = i THEN state ELSE plan[j].state
    BY <1>1, <1>3, MarkedShape
  <1>5. \A j \in 1..Len(plan) : j # i => plan[j].item \in Items /\ plan[j].item # x
    BY <1>1, PlanItems, ItemsDiffer
  <1>6. \A y \in Items : y # x => record'[y] = record[y] /\ \A o \in Owners :
                                    <<o, y>> \in remembered' => <<o, y>> \in remembered
    BY <1>2 DEF Resolve, Hit, Live, Accepted, Refused, Evicted
  <1>7. ASSUME NEW j \in 1..Len(plan'), (Tried(j) \/ Due(j))', j # i
        PROVE  \E k \in 1..Len(plan) :
               /\ plan[k].item = plan'[j].item
               /\ (Tried(j)' => Tried(k)) /\ (Due(j)' => Due(k))
               /\ record'[plan[k].item] = record[plan[k].item]
               /\ memo'[plan[k].item] = memo[plan[k].item]
               /\ \A o \in Owners : <<o, plan[k].item>> \in remembered' =>
                                    <<o, plan[k].item>> \in remembered
    <2>1. (Tried(j)' => Tried(j)) /\ (Due(j)' => Due(j))
      BY <1>1, <1>4, <1>7 DEF Tried, Due
    <2> QED BY <1>1, <1>4, <1>5, <1>6, <1>7, <2>1
  <1>8. CASE Hit(i) \/ \E answer \in Answers, saved \in BOOLEAN : Live(i) /\ (saved => owner.cached) /\ Accepted(i, answer, saved)
    <2>1. plan' = Marked(i, "accepted")
      BY <1>8 DEF Hit, Accepted
    <2>2. plan'[i].state = "accepted"
      BY <1>1, <2>1, MarkedShape DEF States
    <2>3. ~(Tried(i) \/ Due(i))'
      BY <2>2 DEF Tried, Due, Reasons
    <2>4. \A j \in 1..Len(plan') : (Tried(j) \/ Due(j))' => j # i
      BY <2>3
    <2>5. Unshared'
      BY <1>1, <1>7, <2>4, CarriedOver
    <2>6. CASE UNCHANGED <<record, remembered>>
      BY <1>1, <2>5, <2>6 DEF PaidInv, CacheTyped, MemosDivide, Backed
    <2>7. CASE record' = Evicted(x) /\ UNCHANGED remembered
      <3>1. record' \in [Items -> {"none", "damaged"} \cup Answers]
            /\ \A y \in Items : record'[y] = record[y] \/ (record[y] = "damaged" /\ record'[y] = "none")
        BY <1>1, <1>2, <2>7 DEF Evicted
      <3>2. Backed'
        BY <1>1, <2>7, <3>1 DEF PaidInv, Backed, Takes, Divides
      <3> QED BY <1>1, <2>5, <2>7, <3>1, <3>2 DEF PaidInv, CacheTyped, MemosDivide
    <2>8. ASSUME NEW answer \in Answers, owner.cached, Takes(owner, answer), ~Takes(owner, record[x]),
                 record' = [record EXCEPT ![x] = answer],
                 remembered' = remembered \cup {<<owner, x>>}
          PROVE  PaidInv'
      <3>1. CacheTyped' /\ MemosDivide'
        BY <1>1, <1>2, <2>8 DEF PaidInv, CacheTyped, MemosDivide
      <3>2. \A y \in Items : y # x => record'[y] = record[y]
        BY <1>2, <2>8
      <3>3. record'[x] = answer /\ answer # "damaged"
        BY <1>1, <1>2, <2>8 DEF Answers
      <3>4. \A o \in Owners : Takes(o, record[x]) => Takes(o, answer)
        BY <2>8 DEF Takes, Answers
      <3>5. Backed'
        BY <1>1, <2>8, <3>2, <3>3, <3>4 DEF PaidInv, Backed, Takes, Divides
      <3> QED BY <2>5, <3>1, <3>5 DEF PaidInv
    <2> QED BY <1>8, <2>6, <2>7, <2>8 DEF Hit, Live, Accepted
  <1>9. CASE \E why \in Reasons \cup {"refused"} : Live(i) /\ Refused(i, why)
    <2>1. record' = Evicted(x) /\ UNCHANGED remembered
          /\ (owner.cached => ~Takes(owner, record[x]))
      BY <1>9 DEF Live, Refused
    <2>2. record' \in [Items -> {"none", "damaged"} \cup Answers]
          /\ \A y \in Items : record'[y] = record[y] \/ (record[y] = "damaged" /\ record'[y] = "none")
      BY <1>1, <1>2, <2>1 DEF Evicted
    <2>3. Backed'
      BY <1>1, <2>1, <2>2 DEF PaidInv, Backed, Takes, Divides
    <2>4. ASSUME owner.cached, NEW o \in Owners, NEW j \in 1..Len(plan'),
                 <<o, plan'[j].item>> \in remembered', (Tried(j) \/ Due(j))'
          PROVE  \/ Takes(o, record'[plan'[j].item])
                 \/ memo'[plan'[j].item] \notin Divides(owner)
                 \/ Due(j)' /\ Takes(owner, record'[plan'[j].item])
      <3>1. CASE j = i
        <4>1. Takes(o, record[x]) \/ memo[x] \notin Divides(owner)
          BY <1>1, <1>4, <2>1, <2>4, <3>1 DEF PaidInv, Unshared
        <4>2. Takes(o, record[x]) => Takes(o, record'[x])
          BY <1>1, <2>2 DEF Takes
        <4> QED BY <1>1, <1>4, <3>1, <4>1, <4>2
      <3>2. CASE j # i
        <4>1. /\ j \in 1..Len(plan) /\ plan'[j].item = plan[j].item /\ plan[j].item \in Items
              /\ record'[plan[j].item] = record[plan[j].item]
          BY <1>4, <1>5, <1>6, <3>2
        <4>2. (Tried(j)' <=> Tried(j)) /\ (Due(j)' <=> Due(j))
          BY <1>1, <1>4, <3>2, <4>1 DEF Tried, Due
        <4> QED BY <1>1, <2>1, <2>4, <4>1, <4>2 DEF PaidInv, Unshared
      <3> QED BY <3>1, <3>2
    <2>5. Unshared'
      BY <1>1, <2>4 DEF Unshared, Takes, Divides
    <2> QED BY <1>1, <2>1, <2>2, <2>3, <2>5 DEF PaidInv, CacheTyped, MemosDivide
  <1> QED BY <1>8, <1>9 DEF Resolve, Live

\* The refusal that is remembered takes no one's memo from him.
LEMMA CollectPaid ==
  ASSUME SplitInv, PaidInv, Chained, NEW i \in First, phase = "collecting",
         UNCHANGED <<owner, record, others>>,
         IF Eligible(plan[i].state) /\ Splits(plan[i].item) THEN SplitRefused(i)
         ELSE Terminal(i) /\ UNCHANGED <<phase, cursor, asks, memo, remembered>>
  PROVE  PaidInv'
  <1> DEFINE x == plan[i].item
             why == plan[i].state
  <1>1. plan \in Seq(Entry) /\ Len(plan) \in Nat /\ i \in 1..Len(plan) /\ x \in Items /\ Tried(i)
    <2>1. plan \in Seq(Entry) /\ Len(plan) \in Nat /\ i \in 1..Len(plan)
      BY DEF SplitInv, PlanTyped, First, Pending
    <2> QED BY <2>1, PlanItems DEF First, Pending, Tried
  <1>2. owner \in Owners /\ remembered \subseteq Owners \X Items
        /\ memo \in [Items -> {"none", "damaged", "unreadable"} \cup Reasons]
    BY DEF PaidInv, CacheTyped
  <1>3. CASE ~(Eligible(why) /\ Splits(x))
    <2>1. plan' = Marked(i, "leaf") /\ UNCHANGED <<phase, cursor, asks, memo, remembered>>
      BY <1>3 DEF Terminal
    <2>2. /\ Len(plan') = Len(plan)
          /\ \A j \in 1..Len(plan) : /\ plan'[j].item = plan[j].item
                                     /\ plan'[j].state = IF j = i THEN "leaf" ELSE plan[j].state
      BY <1>1, <2>1, MarkedShape DEF States
    <2>3. \A j \in 1..Len(plan) : (Tried(j)' => Tried(j)) /\ ~Due(j)'
      BY <2>1, <2>2 DEF Tried, Due, Reasons
    <2>4. Unshared'
      BY <2>1, <2>2, <2>3, CarriedOver
    <2> QED BY <2>1, <2>4 DEF PaidInv, CacheTyped, MemosDivide, Backed
  <1>4. CASE Eligible(why) /\ Splits(x) /\ End /\ UNCHANGED <<memo, remembered>>
    BY <1>4 DEF End, PaidInv, CacheTyped, MemosDivide, Backed, Unshared
  <1>5. CASE /\ Eligible(why) /\ Splits(x) /\ plan' = Divided(i) /\ UNCHANGED <<phase, cursor, asks>>
             /\ IF owner.cached
                THEN /\ memo' = [memo EXCEPT ![x] = why]
                     /\ remembered' = IF record[x] = "damaged" THEN remembered
                                      ELSE remembered \cup {<<owner, x>>}
                ELSE UNCHANGED <<memo, remembered>>
    <2>1. /\ Len(Divided(i)) = Len(plan) + 1
          /\ Divided(i)[i].state = "todo" /\ Divided(i)[i+1].state = "todo"
          /\ \A j \in 1..Len(plan)+1 : j < i => Divided(i)[j] = plan[j]
          /\ \A j \in 1..Len(plan)+1 : j > i + 1 => Divided(i)[j] = plan[j-1]
      <3>1. Splits(plan[i].item)
        BY <1>5
      <3>2. \A y : Node(y).state = "todo"
        BY DEF Node
      <3> QED BY <1>1, <3>1, <3>2, DividedShape
    <2>2. why \in Divides(owner) /\ why \in Reasons
      BY <1>2, <1>5, OwnerShape DEF Eligible, Divides
    <2>3. \A y \in Items : y # x => memo'[y] = memo[y] /\ \A o \in Owners :
                                      <<o, y>> \in remembered' => <<o, y>> \in remembered
      BY <1>2, <1>5
    <2>4. ASSUME NEW j \in 1..Len(plan'), (Tried(j) \/ Due(j))'
          PROVE  \E k \in 1..Len(plan) :
               /\ plan[k].item = plan'[j].item
               /\ (Tried(j)' => Tried(k)) /\ (Due(j)' => Due(k))
               /\ record'[plan[k].item] = record[plan[k].item]
               /\ memo'[plan[k].item] = memo[plan[k].item]
               /\ \A o \in Owners : <<o, plan[k].item>> \in remembered' =>
                                    <<o, plan[k].item>> \in remembered
      <3>1. ~Due(j)'
        BY <1>5 DEF Due
      <3>2. PICK k \in 1..Len(plan) : k # i /\ plan'[j] = plan[k]
        <4>1. CASE j < i
          BY <1>1, <1>5, <2>1, <4>1
        <4>2. CASE j > i + 1
          <5>1. j - 1 \in 1..Len(plan) /\ j - 1 # i /\ plan'[j] = plan[j-1]
            BY <1>1, <1>5, <2>1, <4>2
          <5> QED BY <5>1
        <4>3. CASE j = i \/ j = i + 1
          BY <1>5, <2>1, <2>4, <3>1, <4>3 DEF Tried, Reasons
        <4> QED BY <1>1, <1>5, <2>1, <4>1, <4>2, <4>3
      <3>3. plan[k].item \in Items /\ plan[k].item # x
        BY <1>1, <3>2, PlanItems, ItemsDiffer
      <3>4. Tried(j)' => Tried(k)
        BY <3>2 DEF Tried
      <3> QED BY <2>3, <3>1, <3>2, <3>3, <3>4
    <2>5. Unshared'
      BY <2>4, CarriedOver
    <2>6. CacheTyped' /\ MemosDivide'
      <3>1. CASE owner.cached
        <4>1. memo' = [memo EXCEPT ![x] = why] /\ remembered' \subseteq remembered \cup {<<owner, x>>}
          BY <1>5, <3>1
        <4>2. CacheTyped'
          BY <1>1, <1>2, <2>2, <4>1 DEF PaidInv, CacheTyped
        <4>3. MemosDivide'
          BY <1>1, <1>2, <1>5, <4>1 DEF PaidInv, MemosDivide
        <4> QED BY <4>2, <4>3
      <3>2. CASE ~owner.cached
        BY <1>5, <3>2 DEF PaidInv, CacheTyped, MemosDivide
      <3> QED BY <3>1, <3>2
    <2>7. ASSUME NEW o \in Owners, NEW y \in Items, <<o, y>> \in remembered'
          PROVE  o.cached /\ (Takes(o, record[y]) \/ (record[y] # "damaged" /\ memo'[y] \in Divides(o)))
      <3>1. CASE y # x \/ ~owner.cached
        <4>1. memo'[y] = memo[y] /\ <<o, y>> \in remembered
          BY <1>5, <2>3, <2>7, <3>1
        <4> QED BY <4>1 DEF PaidInv, Backed
      <3>2. CASE y = x /\ owner.cached
        <4>1. memo'[y] = why
          BY <1>1, <1>2, <1>5, <3>2
        <4>2. CASE <<o, y>> \in remembered
          <5>1. o.cached /\ (Takes(o, record[y]) \/ (record[y] # "damaged" /\ memo[y] \in Divides(o)))
            BY <4>2 DEF PaidInv, Backed
          <5>2. Takes(o, record[y]) \/ memo[y] \notin Divides(owner)
            BY <1>1, <3>2, <4>2 DEF PaidInv, Unshared, Due
          <5>3. CASE memo[y] \in Divides(o) /\ memo[y] \notin Divides(owner)
            <6>1. ~(o.splits \subseteq owner.splits)
              BY <5>3 DEF Divides
            <6>2. owner.splits \subseteq o.splits
              BY <1>2, <6>1 DEF Chained
            <6>3. why \in Divides(o)
              BY <2>2, <6>2 DEF Divides
            <6> QED BY <4>1, <5>1, <6>3
          <5> QED BY <5>1, <5>2, <5>3
        <4>3. CASE <<o, y>> \notin remembered
          <5>1. o = owner /\ record[y] # "damaged"
            BY <1>5, <2>7, <3>2, <4>3
          <5> QED BY <2>2, <3>2, <4>1, <5>1
        <4> QED BY <4>2, <4>3
      <3> QED BY <3>1, <3>2
    <2>8. Backed'
      BY <2>7 DEF Backed, Takes, Divides
    <2> QED BY <2>5, <2>6, <2>8 DEF PaidInv
  <1> QED BY <1>3, <1>4, <1>5 DEF SplitRefused

\* Others take what is remembered away, or leave what backs it.
LEMMA OthersPaid ==
  ASSUME SplitInv, PaidInv, NEW x \in Touched,
         Harm(x) \/ \E answer \in Answers : Replay(x, answer)
  PROVE  PaidInv'
  <1>1. /\ x \in Items /\ UNCHANGED <<plan, owner, phase, cursor>> /\ owner \in Owners
        /\ memo \in [Items -> {"none", "damaged", "unreadable"} \cup Reasons]
        /\ record \in [Items -> {"none", "damaged"} \cup Answers]
        /\ remembered \subseteq Owners \X Items /\ others' \in 0..MaxOthers
        /\ plan \in Seq(Entry)
    BY SplitAssumption DEF Harm, Replay, run, PaidInv, CacheTyped, SplitInv, PlanTyped
  <1>2. \A j \in 1..Len(plan) : (Tried(j)' <=> Tried(j)) /\ (Due(j)' <=> Due(j)) /\ plan[j].item \in Items
    BY <1>1, PlanItems DEF Tried, Due
  <1>3. CASE Harm(x)
    <2>1. /\ \A y \in Items : y # x => memo'[y] = memo[y] /\ record'[y] = record[y]
          /\ memo' \in [Items -> {"none", "damaged", "unreadable"} \cup Reasons]
          /\ record' \in [Items -> {"none", "damaged"} \cup Answers]
          /\ memo'[x] \in Reasons => memo'[x] = memo[x]
      BY <1>1, <1>3 DEF Harm, Reasons, Answers
    <2>2. remembered' \subseteq remembered /\ \A o \in Owners : <<o, x>> \notin remembered'
      BY <1>1, <1>3 DEF Harm
    <2>3. CacheTyped' /\ MemosDivide'
      BY <1>1, <2>1, <2>2 DEF PaidInv, CacheTyped, MemosDivide
    <2>4. Backed'
      BY <2>1, <2>2 DEF PaidInv, Backed, Takes, Divides
    <2>5. Unshared'
      BY <1>1, <1>2, <2>1, <2>2 DEF PaidInv, Unshared, Takes, Divides
    <2> QED BY <2>3, <2>4, <2>5 DEF PaidInv
  <1>4. ASSUME NEW answer \in Answers, Replay(x, answer) PROVE PaidInv'
    <2>1. /\ memo' = memo /\ record' = [record EXCEPT ![x] = answer]
          /\ \A y \in Items : record'[y] = IF y = x THEN answer ELSE record[y]
          /\ remembered' \subseteq remembered
          /\ \A o \in Owners : <<o, x>> \in remembered' /\ Takes(o, record[x]) => Takes(o, answer)
      BY <1>1, <1>4 DEF Replay
    <2>2. CacheTyped' /\ MemosDivide'
      BY <1>1, <2>1 DEF PaidInv, CacheTyped, MemosDivide
    <2>3. answer # "damaged" /\ answer \in {"plain", "loose"}
      BY DEF Answers
    <2>4. ASSUME NEW o \in Owners, NEW y \in Items, <<o, y>> \in remembered'
          PROVE  /\ <<o, y>> \in remembered
                 /\ Takes(o, record[y]) => Takes(o, record'[y])
                 /\ record[y] # "damaged" => record'[y] # "damaged"
      BY <2>1, <2>3, <2>4
    <2>5. Backed'
      BY <2>1, <2>4 DEF PaidInv, Backed, Takes, Divides
    <2>6. ASSUME owner.cached, NEW o \in Owners, NEW j \in 1..Len(plan),
                 <<o, plan[j].item>> \in remembered', Tried(j) \/ Due(j)
          PROVE  \/ Takes(o, record'[plan[j].item])
                 \/ memo[plan[j].item] \notin Divides(owner)
                 \/ Due(j) /\ Takes(owner, record'[plan[j].item])
      <3>1. \/ Takes(o, record[plan[j].item])
            \/ memo[plan[j].item] \notin Divides(owner)
            \/ Due(j) /\ Takes(owner, record[plan[j].item])
        BY <1>2, <2>4, <2>6 DEF PaidInv, Unshared
      <3>2. Takes(owner, record[plan[j].item]) =>
               Takes(o, record'[plan[j].item]) \/ Takes(owner, record'[plan[j].item])
        <4>1. CASE plan[j].item # x
          BY <1>2, <2>1, <4>1
        <4>2. CASE plan[j].item = x /\ ~Takes(owner, answer)
          <5>1. Takes(owner, record[x]) => record[x] = "plain"
            BY <4>2, <2>3 DEF Takes
          <5>2. record[x] = "plain" => Takes(o, answer)
            BY <2>1, <2>6, <4>2 DEF Takes
          <5> QED BY <1>1, <2>1, <4>2, <5>1, <5>2
        <4>3. CASE plan[j].item = x /\ Takes(owner, answer)
          BY <1>1, <2>1, <4>3
        <4> QED BY <4>1, <4>2, <4>3
      <3> QED BY <1>2, <2>4, <2>6, <3>1, <3>2
    <2>7. Unshared'
      BY <1>1, <1>2, <2>1, <2>6 DEF Unshared, Takes, Divides
    <2> QED BY <2>2, <2>5, <2>7 DEF PaidInv
  <1> QED BY <1>3, <1>4

LEMMA PaidNext == SplitInv /\ PaidInv /\ Chained /\ [Next]_vars => PaidInv'
  <1> SUFFICES ASSUME SplitInv, PaidInv, Chained, [Next]_vars PROVE PaidInv'
    OBVIOUS
  <1>1. CASE \E i \in Unfinished : Resolve(i)
    BY <1>1, ResolvePaid
  <1>2. CASE Collect
    BY <1>2, CollectPaid DEF Collect
  <1>3. ASSUME NEW o \in Owners, BeginRun(o) PROVE PaidInv'
    <2>1. /\ owner' = o /\ UNCHANGED <<memo, record, remembered, others>>
          /\ phase' = "expanding" /\ cursor' = 1 /\ plan' = [i \in DOMAIN Begin |-> Node(Begin[i])]
      BY <1>3 DEF BeginRun, cache
    <2>2. Begin \in Seq(Items)
      BY SplitAssumption
    <2>3. \A i \in 1..Len(plan') : plan'[i].state = "todo"
      BY <2>1, <2>2 DEF Node
    <2>4. \A i \in 1..Len(plan') : ~(Tried(i) \/ Due(i))'
      BY <2>1, <2>2, <2>3 DEF Tried, Due, Reasons
    <2> QED BY <2>1, <2>4 DEF PaidInv, CacheTyped, MemosDivide, Backed, Unshared
  <1>4. CASE Abandon \/ Return
    BY <1>4 DEF Abandon, Return, End, cache, PaidInv, CacheTyped, MemosDivide, Backed, Unshared
  <1>5. CASE ObserverFails
    <2>1. plan[cursor].item \in Items
      BY <1>5, PlanItems DEF ObserverFails, SplitInv, PlanTyped
    <2>2. /\ UNCHANGED <<owner, record, remembered, others>>
          /\ \/ memo' = memo
             \/ /\ memo[plan[cursor].item] = "damaged"
                /\ memo' = [memo EXCEPT ![plan[cursor].item] = "none"]
      BY <1>5 DEF ObserverFails
    <2>3. CacheTyped' /\ MemosDivide' /\ Backed'
      BY <2>1, <2>2, CleaningKeeps
    <2> QED BY <1>5, <2>3 DEF ObserverFails, End, PaidInv, Unshared
  <1>6. CASE UNCHANGED vars
    BY <1>6 DEF vars, run, cache, PaidInv, CacheTyped, MemosDivide, Backed, Unshared, Tried, Due
  <1> QED BY <1>1, <1>2, <1>3, <1>4, <1>5, <1>6, ExpandPaid, TurnPaid, OthersPaid DEF Next, Step

\* Of what is remembered the cache holds an answer its owner takes or a refusal he
\* divides for, whatever other owners, replays and damages did.  (saveAdaptiveSplit)
THEOREM PaidInvariance == ASSUME Chained PROVE Spec => []PaidInv
  BY PaidStart, PaidNext, SplitInvariance, PTL DEF Spec

\* No run pays again for an item that an earlier run of its owner was answered for,
\* or was refused and remembered.  (loadAdaptiveSplit, saveAdaptiveSplit)
THEOREM PaidOnceSafety == ASSUME Chained PROVE Spec => PaidOnce
  <1>1. ASSUME SplitInv, PaidInv, [Next]_vars
        PROVE  [\A x \in Items : asks'[x] > asks[x] => <<owner, x>> \notin remembered]_vars
    <2> SUFFICES ASSUME NEW x \in Items, asks'[x] > asks[x], <<owner, x>> \in remembered
                 PROVE  FALSE
      OBVIOUS
    <2>1. asks \in [Items -> 0..2] /\ owner \in Owners
      BY <1>1 DEF SplitInv, PlanTyped, PaidInv, CacheTyped
    <2>2. PICK i \in Unfinished : Resolve(i) /\ Live(i)
      <3>1. asks' # asks
        BY <2>1
      <3>2. ~End
        BY <2>1 DEF End
      <3> QED BY <1>1, <3>1, <3>2 DEF Next, Step, Expand, Expanded, Resolve, Hit, Resolved, Collect, Terminal,
                  SplitRefused, NextRound, Return, BeginRun, Abandon, ObserverFails, Replay, Harm, run, vars, cache
    <2>3. x = plan[i].item
      BY <2>1, <2>2 DEF Live
    <2>4. owner.cached /\ ~Takes(owner, record[x]) /\ record[x] # "damaged" /\ memo[x] \in Divides(owner)
      BY <1>1, <2>1, <2>2, <2>3 DEF PaidInv, Backed, Live
    <2>5. i \in 1..Len(plan) /\ Due(i)
      BY <1>1, <2>2 DEF Resolve, Unfinished, Due, SplitInv, PlanTyped
    <2> QED BY <1>1, <2>1, <2>3, <2>4, <2>5 DEF PaidInv, Unshared
  <1> QED BY <1>1, SplitInvariance, PaidInvariance, PTL DEF Spec, PaidOnce


-----------------------------------------------------------------------------
\* How many calls a run can make.

\* Rows of the run's batch.
Span == Begin[Len(Begin)][2] - Begin[1][1] + 1

Asked == {x \in Items : asks[x] > 0}
Wanted == {plan[i].item : i \in Unfinished}

\* What the run asked for and what it still may: a division adds two items to ask
\* for and one to the plan.
Spending == phase # "idle" => Cardinality(Asked \cup Wanted) <= 2 * Len(plan) - Len(Begin)

\* However often and wherever items are refused, a batch of Span rows costs at most
\* the nodes of its division trees: twice its rows, less its items.
CallsBounded == Cardinality(Asked) <= 2 * Span - Len(Begin)


LEMMA ItemsFinite == IsFiniteSet(Items)
  <1>1. IsFiniteSet(1..Rows) /\ Items \subseteq (1..Rows) \X (1..Rows)
    BY SplitAssumption, FS_Interval DEF Items
  <1> QED BY <1>1, FS_Product, FS_Subset

\* What is asked for is items, and finitely many.
LEMMA SpendingShape ==
  ASSUME PlanTyped
  PROVE  /\ Asked \cup Wanted \subseteq Items /\ IsFiniteSet(Asked \cup Wanted)
         /\ Cardinality(Asked \cup Wanted) \in Nat
  <1>1. plan \in Seq(Entry) /\ Unfinished \subseteq 1..Len(plan)
    BY DEF PlanTyped, Unfinished
  <1>2. Wanted \subseteq Items
    BY <1>1, PlanItems DEF Wanted
  <1>3. Asked \cup Wanted \subseteq Items
    BY <1>2 DEF Asked
  <1> QED BY <1>3, ItemsFinite, FS_Subset, FS_CardinalityType

\* Intervals that follow one another are no more than the numbers they cover.
LEMMA FollowingFits ==
  ASSUME NEW n \in Nat \ {0}, NEW lo, NEW hi, Following(n, lo, hi)
  PROVE  /\ lo[1] \in Nat /\ hi[n] \in Nat
         /\ n <= hi[n] - lo[1] + 1
  <1>1. /\ lo \in [1..n -> Nat] /\ hi \in [1..n -> Nat] /\ 1 \in 1..n /\ n \in 1..n
        /\ \A j \in 1..n : lo[j] <= hi[j]
        /\ \A j, k \in 1..n : j < k => hi[j] < lo[k]
    BY DEF Following
  <1>2. \A j, k \in 1..n : j < k => hi[j] < hi[k]
    BY <1>1
  <1>3. ASSUME NEW j \in 1..n PROVE hi[j] \in lo[1]..hi[n]
    <2>1. CASE j = 1
      BY <1>1, <1>2, <2>1
    <2>2. CASE j = n
      BY <1>1, <1>2, <2>2
    <2>3. CASE 1 < j /\ j < n
      BY <1>1, <1>2, <2>3
    <2> QED BY <2>1, <2>2, <2>3
  <1>4. hi \in [1..n -> lo[1]..hi[n]]
    BY <1>1, <1>3
  <1>5. ASSUME NEW j \in 1..n, NEW k \in 1..n, hi[j] = hi[k] PROVE j = k
    BY <1>1, <1>2, <1>5
  <1>6. hi \in Injection(1..n, lo[1]..hi[n])
    BY <1>4, <1>5 DEF Injection, IsInjective
  <1>7. lo[1] \in Nat /\ hi[n] \in Nat /\ lo[1] <= hi[n]
    BY <1>1, <1>3
  <1>8. IsFiniteSet(lo[1]..hi[n]) /\ Cardinality(lo[1]..hi[n]) = hi[n] - lo[1] + 1
    <2> DEFINE p == lo[1]
               q == hi[n]
    <2>1. p \in Int /\ q \in Int /\ ~(p > q)
      BY <1>7
    <2> HIDE DEF p, q
    <2>2. IsFiniteSet(p..q) /\ Cardinality(p..q) = q - p + 1
      BY <2>1, FS_Interval
    <2> QED BY <2>2 DEF p, q
  <1>9. Cardinality(1..n) = n
    BY FS_Interval
  <1>10. n <= Cardinality(lo[1]..hi[n])
    BY <1>6, <1>8, <1>9, FS_Injection
  <1> QED BY <1>7, <1>8, <1>10

\* The batch has at most one item for each of its rows, and so has the plan.
LEMMA BatchFitsSpan == Len(Begin) \in Nat /\ Span \in Int /\ Len(Begin) <= Span
  <1> DEFINE n == Len(Begin)
             lo == [j \in 1..n |-> Begin[j][1]]
             hi == [j \in 1..n |-> Begin[j][2]]
  <1>1. /\ Begin \in Seq(Items) /\ n \in Nat \ {0} /\ 1 \in 1..n /\ n \in 1..n
        /\ \A j \in 1..n-1 : Begin[j][2] + 1 = Begin[j+1][1]
        /\ \A j, k \in 1..n : j < k => Begin[j][2] < Begin[k][1]
    BY SplitAssumption
  <1>2. \A j \in 1..n : Begin[j][1] \in Nat /\ Begin[j][2] \in Nat /\ Begin[j][1] <= Begin[j][2]
    BY <1>1, ItemShape
  <1> HIDE DEF n
  <1>3. Following(n, lo, hi) /\ lo[1] = Begin[1][1] /\ hi[n] = Begin[n][2]
    BY <1>1, <1>2 DEF Following
  <1> HIDE DEF lo, hi
  <1>4. lo[1] \in Nat /\ hi[n] \in Nat /\ n <= hi[n] - lo[1] + 1
    BY <1>1, <1>3, FollowingFits
  <1>5. Span = Begin[n][2] - Begin[1][1] + 1
    BY DEF Span, n
  <1> QED BY <1>1, <1>3, <1>4, <1>5 DEF n

LEMMA PlanFitsSpan ==
  ASSUME SplitInv, phase # "idle"
  PROVE  Len(plan) \in Nat /\ Len(plan) <= Span
  <1> DEFINE n == Len(plan)
             lo == [j \in 1..n |-> plan[j].item[1]]
             hi == [j \in 1..n |-> plan[j].item[2]]
  <1>1. /\ plan \in Seq(Entry) /\ n \in Nat \ {0} /\ 1 \in 1..n /\ n \in 1..n
        /\ plan[1].item[1] = Begin[1][1] /\ plan[n].item[2] = Begin[Len(Begin)][2]
        /\ \A j \in 1..n-1 : plan[j].item[2] + 1 = plan[j+1].item[1]
        /\ \A j, k \in 1..n : j < k => plan[j].item[2] < plan[k].item[1]
    BY DEF SplitInv, PlanTyped, Contiguous
  <1>2. \A j \in 1..n : /\ plan[j].item[1] \in Nat /\ plan[j].item[2] \in Nat
                        /\ plan[j].item[1] <= plan[j].item[2]
    BY <1>1, PlanItems, ItemShape
  <1> HIDE DEF n
  <1>3. Following(n, lo, hi) /\ lo[1] = Begin[1][1] /\ hi[n] = Begin[Len(Begin)][2]
    BY <1>1, <1>2 DEF Following
  <1> HIDE DEF lo, hi
  <1>4. n <= hi[n] - lo[1] + 1
    BY <1>1, <1>3, FollowingFits
  <1> QED BY <1>1, <1>3, <1>4 DEF Span, n

\* A run begins with no more items than the batch has.
LEMMA BeginSpends ==
  ASSUME SplitInv, NEW o \in Owners, BeginRun(o)
  PROVE  Spending'
  <1> DEFINE n == Len(Begin)
             items == [i \in 1..n |-> Begin[i]]
             T == {Begin[i] : i \in 1..n}
  <1>1. phase = "idle" /\ asks' = asks /\ plan' = [i \in DOMAIN Begin |-> Node(Begin[i])]
    BY DEF BeginRun
  <1>2. Begin \in Seq(Items) /\ n \in Nat /\ DOMAIN Begin = 1..n
    BY SplitAssumption
  <1>3. Asked' = {}
    <2>1. \A x \in Items : asks[x] = 0
      BY <1>1 DEF SplitInv, AskedBefore
    <2> QED BY <1>1, <2>1 DEF Asked
  <1>4. Len(plan') = n /\ DOMAIN plan' = 1..n /\ \A i \in 1..n : plan'[i].item = Begin[i]
    BY <1>1, <1>2 DEF Node
  <1>5. Wanted' \subseteq T
    BY <1>4 DEF Wanted, Unfinished
  <1>6. items \in Surjection(1..n, T)
    BY DEF Surjection
  <1>7. IsFiniteSet(1..n) /\ Cardinality(1..n) = n
    BY <1>2, FS_Interval
  <1> HIDE DEF items, T
  <1>8. IsFiniteSet(T) /\ Cardinality(T) <= n /\ Cardinality(T) \in Nat
    BY <1>6, <1>7, FS_Surjection, FS_CardinalityType
  <1>9. (Asked \cup Wanted)' \subseteq T
    BY <1>3, <1>5
  <1> DEFINE G == (Asked \cup Wanted)'
  <1> HIDE DEF G
  <1>10. G \in SUBSET T
    BY <1>9 DEF G
  <1>11. Cardinality(G) <= Cardinality(T) /\ Cardinality(G) \in Nat
    BY <1>8, <1>10, FS_Subset, FS_CardinalityType
  <1>12. Cardinality(G) <= 2 * n - n
    BY <1>2, <1>8, <1>11
  <1> QED BY <1>4, <1>12 DEF Spending, G

\* An item asked for and settled was to be asked for.
LEMMA MarkingSpends ==
  ASSUME SplitInv, Spending, phase # "idle", NEW i \in 1..Len(plan),
         NEW state \in States \ {"todo"}, plan' = Marked(i, state),
         \/ asks' = asks
         \/ /\ plan[i].state = "todo"
            /\ asks' = [asks EXCEPT ![plan[i].item] = IF @ < 2 THEN @ + 1 ELSE @]
  PROVE  Spending'
  <1>1. plan \in Seq(Entry) /\ asks \in [Items -> 0..2] /\ PlanTyped /\ plan[i].item \in Items
    BY PlanItems DEF SplitInv, PlanTyped
  <1>2. /\ plan' \in Seq(Entry) /\ Len(plan') = Len(plan)
        /\ \A j \in 1..Len(plan) : /\ plan'[j].item = plan[j].item
                                   /\ plan'[j].state = IF j = i THEN state ELSE plan[j].state
    BY <1>1, MarkedShape
  <1>3. Wanted' \subseteq Wanted
    BY <1>1, <1>2 DEF Wanted, Unfinished
  <1>4. Asked' \subseteq Asked \cup Wanted
    BY <1>1 DEF Asked, Wanted, Unfinished
  <1> DEFINE G == (Asked \cup Wanted)'
  <1>5. G \in SUBSET (Asked \cup Wanted)
    BY <1>3, <1>4
  <1> HIDE DEF G
  <1>6. Cardinality(G) <= Cardinality(Asked \cup Wanted) /\ Cardinality(G) \in Nat
    BY <1>1, <1>5, SpendingShape, FS_Subset, FS_CardinalityType
  <1>7. Cardinality(G) <= 2 * Len(plan) - Len(Begin)
    BY <1>1, <1>6, SpendingShape, SplitAssumption DEF Spending
  <1> QED BY <1>2, <1>7 DEF Spending, G

LEMMA OneMore ==
  ASSUME NEW S, NEW x, IsFiniteSet(S)
  PROVE  /\ IsFiniteSet(S \cup {x}) /\ Cardinality(S \cup {x}) \in Nat
         /\ Cardinality(S \cup {x}) <= Cardinality(S) + 1
  <1>1. IsFiniteSet(S \cup {x})
        /\ Cardinality(S \cup {x}) = IF x \in S THEN Cardinality(S) ELSE Cardinality(S) + 1
    BY FS_AddElement
  <1>2. Cardinality(S) \in Nat /\ Cardinality(S \cup {x}) \in Nat
    BY <1>1, FS_CardinalityType
  <1> QED BY <1>1, <1>2

\* A division adds its two halves to what may be asked for.
LEMMA DividingSpends ==
  ASSUME SplitInv, Spending, phase # "idle", NEW i \in 1..Len(plan), Splits(plan[i].item),
         plan' = Divided(i), asks' = asks
  PROVE  Spending'
  <1> DEFINE a == Halves(plan[i].item)[1]
             b == Halves(plan[i].item)[2]
             old == Asked \cup Wanted
             G == (Asked \cup Wanted)'
             n == Len(plan)
  <1>1. plan \in Seq(Entry) /\ n \in Nat /\ PlanTyped /\ Begin \in Seq(Items) /\ Len(Begin) \in Nat
    BY SplitAssumption DEF SplitInv, PlanTyped
  <1>2. /\ plan' \in Seq(Entry) /\ Len(plan') = n + 1
        /\ plan'[i] = Node(a) /\ plan'[i+1] = Node(b)
        /\ \A j \in 1..n+1 : j < i => plan'[j] = plan[j]
        /\ \A j \in 1..n+1 : j > i + 1 => plan'[j] = plan[j-1]
    BY <1>1, DividedShape
  <1> HIDE DEF a, b
  <1>3. plan'[i].item = a /\ plan'[i+1].item = b
    BY <1>2 DEF Node
  <1>4. Asked' = Asked
    BY DEF Asked
  <1>5. Wanted' \subseteq Wanted \cup {a, b}
    <2> SUFFICES ASSUME NEW j \in 1..n+1, plan'[j].state = "todo"
                 PROVE  plan'[j].item \in Wanted \cup {a, b}
      BY <1>2 DEF Wanted, Unfinished
    <2>1. CASE j < i
      <3>1. j \in DOMAIN plan /\ plan'[j] = plan[j]
        BY <1>1, <1>2, <2>1
      <3> QED BY <3>1 DEF Wanted, Unfinished
    <2>2. CASE j > i + 1
      <3>1. j - 1 \in DOMAIN plan /\ plan'[j] = plan[j-1]
        BY <1>1, <1>2, <2>2
      <3> QED BY <3>1 DEF Wanted, Unfinished
    <2>3. CASE j = i \/ j = i + 1
      BY <1>3, <2>3
    <2> QED BY <1>1, <2>1, <2>2, <2>3
  <1>6. G \in SUBSET (old \cup {a} \cup {b})
    BY <1>4, <1>5
  <1>7. IsFiniteSet(old) /\ Cardinality(old) \in Nat
    BY <1>1, SpendingShape
  <1>8. Cardinality(old) <= 2 * n - Len(Begin)
    BY DEF Spending
  <1> HIDE DEF G, old, n
  <1>9. /\ IsFiniteSet(old \cup {a}) /\ Cardinality(old \cup {a}) \in Nat
        /\ Cardinality(old \cup {a}) <= Cardinality(old) + 1
    BY <1>7, OneMore
  <1>10. /\ IsFiniteSet(old \cup {a} \cup {b}) /\ Cardinality(old \cup {a} \cup {b}) \in Nat
         /\ Cardinality(old \cup {a} \cup {b}) <= Cardinality(old) + 2
    <2>1. /\ IsFiniteSet(old \cup {a} \cup {b}) /\ Cardinality(old \cup {a} \cup {b}) \in Nat
          /\ Cardinality(old \cup {a} \cup {b}) <= Cardinality(old \cup {a}) + 1
      BY <1>9, OneMore
    <2> QED BY <1>7, <1>9, <2>1
  <1>11. Cardinality(G) <= Cardinality(old \cup {a} \cup {b}) /\ Cardinality(G) \in Nat
    BY <1>6, <1>10, FS_Subset, FS_CardinalityType
  <1>12. Cardinality(G) <= 2 * (n + 1) - Len(Begin)
    BY <1>1, <1>7, <1>8, <1>10, <1>11
  <1> QED BY <1>2, <1>12 DEF Spending, G

LEMMA SpendingNext == SplitInv /\ Spending /\ [Next]_vars => Spending'
  <1> SUFFICES ASSUME SplitInv, Spending, [Next]_vars PROVE Spending'
    OBVIOUS
  <1>1. DOMAIN plan = 1..Len(plan) /\ Len(plan) \in Nat /\ cursor \in Nat \ {0}
    BY DEF SplitInv, PlanTyped
  <1>2. ASSUME plan' = plan, asks' = asks, phase # "idle" <=> phase' # "idle" PROVE Spending'
    BY <1>2 DEF Spending, Asked, Wanted, Unfinished
  <1>3. ASSUME End PROVE Spending'
    BY <1>3 DEF End, Spending
  <1>4. "leaf" \in States \ {"todo"}
    BY DEF States
  <1>5. CASE Expand
    <2>1. phase # "idle" /\ phase' = phase /\ asks' = asks /\ cursor \in 1..Len(plan)
      BY <1>1, <1>5 DEF Expand
    <2>2. \/ plan' = plan
          \/ plan' = Divided(cursor) /\ Splits(plan[cursor].item)
          \/ plan' = Marked(cursor, "leaf")
      BY <1>5 DEF Expand
    <2> QED BY <1>2, <1>4, <2>1, <2>2, DividingSpends, MarkingSpends
  <1>6. CASE Expanded \/ Resolved \/ NextRound
    BY <1>2, <1>6 DEF Expanded, Resolved, NextRound
  <1>7. ASSUME NEW i \in Unfinished, Resolve(i) PROVE Spending'
    <2>1. i \in 1..Len(plan) /\ plan[i].state = "todo" /\ phase # "idle"
      BY <1>1, <1>7 DEF Unfinished, Resolve
    <2>2. \E state \in States \ {"todo"} : plan' = Marked(i, state)
      BY <1>7 DEF Resolve, Hit, Live, Accepted, Refused, States, Reasons
    <2>3. \/ asks' = asks
          \/ asks' = [asks EXCEPT ![plan[i].item] = IF @ < 2 THEN @ + 1 ELSE @]
      BY <1>7 DEF Resolve, Hit, Live
    <2> QED BY <2>1, <2>2, <2>3, MarkingSpends
  <1>8. CASE Collect
    <2>1. PICK i \in First :
             IF Eligible(plan[i].state) /\ Splits(plan[i].item) THEN SplitRefused(i)
             ELSE Terminal(i) /\ UNCHANGED <<phase, cursor, asks, memo, remembered>>
      BY <1>8 DEF Collect
    <2>2. i \in 1..Len(plan) /\ phase # "idle"
      BY <1>1, <1>8 DEF First, Pending, Collect
    <2>3. \/ plan' = Divided(i) /\ Splits(plan[i].item) /\ UNCHANGED <<phase, asks>>
          \/ End
          \/ plan' = Marked(i, "leaf") /\ UNCHANGED <<phase, asks>>
      BY <2>1 DEF SplitRefused, Terminal
    <2> QED BY <1>3, <1>4, <2>2, <2>3, DividingSpends, MarkingSpends
  <1>9. CASE Return \/ Abandon \/ ObserverFails
    BY <1>3, <1>9 DEF Return, Abandon, ObserverFails
  <1>10. CASE \E o \in Owners : BeginRun(o)
    BY <1>10, BeginSpends
  <1>11. CASE \E x \in Touched : Harm(x) \/ \E answer \in Answers : Replay(x, answer)
    BY <1>2, <1>11 DEF Harm, Replay, run
  <1>12. CASE UNCHANGED vars
    BY <1>2, <1>12 DEF vars, run
  <1> QED BY <1>5, <1>6, <1>7, <1>8, <1>9, <1>10, <1>11, <1>12 DEF Next, Step

\* Whatever the model refuses, a run over n rows given as b items calls it at most
\* 2n - b times: no refusal pattern makes division run away.
\* (the rounds of adaptive_each.go; by AskedOnceSafety an item costs one call)
THEOREM CallsBoundedSafety == Spec => []CallsBounded
  <1>1. Init => Spending
    BY DEF Init, Spending
  <1>2. ASSUME SplitInv, Spending PROVE CallsBounded
    <2>1. Len(Begin) \in Nat /\ Span \in Int /\ Len(Begin) <= Span
      BY BatchFitsSpan
    <2>2. PlanTyped /\ IsFiniteSet(Asked \cup Wanted) /\ Cardinality(Asked \cup Wanted) \in Nat
      BY <1>2, SpendingShape DEF SplitInv
    <2>3. Cardinality(Asked) <= Cardinality(Asked \cup Wanted) /\ Cardinality(Asked) \in Nat
      BY <2>2, FS_Subset, FS_CardinalityType
    <2>4. CASE phase # "idle"
      <3>1. Len(plan) \in Nat /\ Span \in Int /\ Len(plan) <= Span
        BY <1>2, <2>4, PlanFitsSpan, BatchFitsSpan
      <3> QED BY <1>2, <2>1, <2>2, <2>3, <2>4, <3>1 DEF Spending, CallsBounded
    <2>5. CASE phase = "idle"
      <3>1. Asked = {}
        BY <1>2, <2>5 DEF SplitInv, AskedBefore, Asked
      <3>2. Cardinality(Asked) = 0
        BY <3>1, FS_EmptySet
      <3> QED BY <2>1, <3>2 DEF CallsBounded
    <2> QED BY <2>4, <2>5
  <1> QED BY <1>1, <1>2, SpendingNext, SplitInvariance, PTL DEF Spec


-----------------------------------------------------------------------------
\* Why a run ends.

\* How far the round is: what is still to do is expanded, asked for and collected,
\* and what a division leaves to do starts a round over.
Stage ==
    CASE phase = "collecting" -> IF Unfinished = {} THEN 2 ELSE 5
      [] phase = "expanding" -> IF Unfinished = {} THEN 1 ELSE 4
      [] phase = "asking" -> 3
      [] OTHER -> 0

\* What is left of a run: divisions, items to do, refusals to collect, the rest of
\* the round and of its expansion.
Remaining == <<Span - Len(plan), Cardinality(Unfinished), Cardinality(Pending),
               Stage, Len(plan) + 1 - cursor>>

\* p comes before q when the first number they differ in is smaller.
Before(p, q) == \E k \in 1..5 : p[k] < q[k] /\ \A j \in 1..k-1 : p[j] = q[j]

\* The cursor is never beyond the end of the plan.
CursorInPlan == phase # "idle" => cursor <= Len(plan) + 1

\* Every step of a run ends it or brings what remains down, and no one else's does
\* anything to it but end it.
Dwindles ==
    [][/\ Step => phase' = "idle" \/ Before(Remaining', Remaining)
       /\ phase # "idle" /\ ~Step => phase' = "idle" \/ Remaining' = Remaining]_vars

LEMMA BeforeAt ==
  ASSUME NEW a1, NEW a2, NEW a3, NEW a4, NEW a5, NEW b1, NEW b2, NEW b3, NEW b4, NEW b5,
         \/ a1 < b1
         \/ a1 = b1 /\ a2 < b2
         \/ a1 = b1 /\ a2 = b2 /\ a3 < b3
         \/ a1 = b1 /\ a2 = b2 /\ a3 = b3 /\ a4 < b4
         \/ a1 = b1 /\ a2 = b2 /\ a3 = b3 /\ a4 = b4 /\ a5 < b5
  PROVE  Before(<<a1, a2, a3, a4, a5>>, <<b1, b2, b3, b4, b5>>)
  <1> DEFINE p == <<a1, a2, a3, a4, a5>>
             q == <<b1, b2, b3, b4, b5>>
  <1>0. /\ p[1] = a1 /\ p[2] = a2 /\ p[3] = a3 /\ p[4] = a4 /\ p[5] = a5
        /\ q[1] = b1 /\ q[2] = b2 /\ q[3] = b3 /\ q[4] = b4 /\ q[5] = b5
    OBVIOUS
  <1> HIDE DEF p, q
  <1>1. CASE a1 < b1
    <2>1. p[1] < q[1] /\ \A j \in 1..1-1 : p[j] = q[j]
      BY <1>0, <1>1
    <2> QED BY <2>1 DEF Before, p, q
  <1>2. CASE a1 = b1 /\ a2 < b2
    <2>1. p[2] < q[2] /\ \A j \in 1..2-1 : p[j] = q[j]
      BY <1>0, <1>2
    <2> QED BY <2>1 DEF Before, p, q
  <1>3. CASE a1 = b1 /\ a2 = b2 /\ a3 < b3
    <2>1. p[3] < q[3] /\ \A j \in 1..3-1 : p[j] = q[j]
      BY <1>0, <1>3
    <2> QED BY <2>1 DEF Before, p, q
  <1>4. CASE a1 = b1 /\ a2 = b2 /\ a3 = b3 /\ a4 < b4
    <2>1. p[4] < q[4] /\ \A j \in 1..4-1 : p[j] = q[j]
      BY <1>0, <1>4
    <2> QED BY <2>1 DEF Before, p, q
  <1>5. CASE a1 = b1 /\ a2 = b2 /\ a3 = b3 /\ a4 = b4 /\ a5 < b5
    <2>1. p[5] < q[5] /\ \A j \in 1..5-1 : p[j] = q[j]
      BY <1>0, <1>5
    <2> QED BY <2>1 DEF Before, p, q
  <1> QED BY <1>1, <1>2, <1>3, <1>4, <1>5

\* What a step does to a run that it does not end.
Halving(i) == plan' = Divided(i) /\ Splits(plan[i].item) /\ UNCHANGED <<phase, cursor>>

Settling(i) ==
    /\ plan[i].state = "todo" /\ phase' = phase
    /\ \E state \in States \ {"todo"} : plan' = Marked(i, state)
    /\ cursor' = cursor \/ (cursor' = cursor + 1 /\ cursor <= Len(plan))

Closing(i) == i \in Pending /\ plan' = Marked(i, "leaf") /\ UNCHANGED <<phase, cursor>>

Skipping == plan' = plan /\ phase' = phase /\ cursor' = cursor + 1 /\ cursor <= Len(plan)

Turning == plan' = plan /\ Stage' < Stage /\ (cursor' = cursor \/ cursor' = 1)

LEMMA StepShape ==
  ASSUME SplitInv, Step, phase' # "idle"
  PROVE  /\ phase # "idle"
         /\ \/ \E i \in 1..Len(plan) : Halving(i) \/ Settling(i) \/ Closing(i)
            \/ Skipping
            \/ Turning
  <1>1. DOMAIN plan = 1..Len(plan) /\ Len(plan) \in Nat /\ cursor \in Nat \ {0}
    BY DEF SplitInv, PlanTyped
  <1>2. "leaf" \in States \ {"todo"}
    BY DEF States
  <1>3. CASE Expand
    <2>1. phase # "idle" /\ phase' = phase /\ cursor \in 1..Len(plan)
      BY <1>1, <1>3 DEF Expand
    <2>2. \/ plan' = plan /\ cursor' = cursor + 1
          \/ plan' = Divided(cursor) /\ cursor' = cursor /\ Splits(plan[cursor].item)
          \/ plan[cursor].state = "todo" /\ plan' = Marked(cursor, "leaf") /\ cursor' = cursor + 1
      BY <1>3 DEF Expand, NextItem
    <2> QED BY <1>2, <2>1, <2>2 DEF Halving, Settling, Skipping
  <1>4. CASE Expanded \/ Resolved \/ NextRound
    <2>1. /\ phase # "idle" /\ plan' = plan /\ (Unfinished' = {} <=> Unfinished = {})
          /\ cursor' = cursor \/ cursor' = 1
      BY <1>4 DEF Expanded, Resolved, NextRound, Unfinished
    <2>2. CASE Expanded
      BY <2>1, <2>2 DEF Expanded, Stage, Turning
    <2>3. CASE Resolved
      BY <2>1, <2>3 DEF Resolved, Stage, Turning
    <2>4. CASE NextRound
      BY <2>1, <2>4 DEF NextRound, Stage, Turning
    <2> QED BY <1>4, <2>2, <2>3, <2>4
  <1>5. ASSUME NEW i \in Unfinished, Resolve(i)
        PROVE  phase # "idle" /\ i \in 1..Len(plan) /\ Settling(i)
    <2>1. /\ i \in 1..Len(plan) /\ plan[i].state = "todo"
          /\ phase # "idle" /\ phase' = phase /\ cursor' = cursor
      BY <1>1, <1>5 DEF Unfinished, Resolve
    <2>2. \E state \in States \ {"todo"} : plan' = Marked(i, state)
      BY <1>5 DEF Resolve, Hit, Live, Accepted, Refused, States, Reasons
    <2> QED BY <2>1, <2>2 DEF Settling
  <1>6. CASE Collect
    <2>1. PICK i \in First :
             IF Eligible(plan[i].state) /\ Splits(plan[i].item) THEN SplitRefused(i)
             ELSE Terminal(i) /\ UNCHANGED <<phase, cursor, asks, memo, remembered>>
      BY <1>6 DEF Collect
    <2>2. i \in 1..Len(plan) /\ i \in Pending /\ phase # "idle"
      BY <1>1, <1>6 DEF First, Pending, Collect
    <2>3. Halving(i) \/ Closing(i)
      BY <2>1, <2>2 DEF SplitRefused, Terminal, End, Halving, Closing
    <2> QED BY <2>2, <2>3
  <1>7. CASE Return
    BY <1>7 DEF Return, End
  <1> QED BY <1>3, <1>4, <1>5, <1>6, <1>7 DEF Step

\* A step that is none of the run's own begins it, ends it or leaves it alone.
LEMMA OthersShape ==
  ASSUME [Next]_vars, ~Step, phase # "idle", phase' # "idle"
  PROVE  plan' = plan /\ phase' = phase /\ cursor' = cursor
  BY DEF Next, BeginRun, Abandon, ObserverFails, End, Replay, Harm, run, vars

LEMMA CursorNext == SplitInv /\ CursorInPlan /\ [Next]_vars => CursorInPlan'
  <1> SUFFICES ASSUME SplitInv, CursorInPlan, [Next]_vars, phase' # "idle"
               PROVE  cursor' <= Len(plan') + 1
    BY DEF CursorInPlan
  <1>1. plan \in Seq(Entry) /\ Len(plan) \in Nat /\ cursor \in Nat \ {0}
    BY DEF SplitInv, PlanTyped
  <1>2. SplitInv'
    BY NextSplitInv
  <1>3. CASE phase = "idle"
    <2>1. cursor' = 1 /\ Len(plan') \in Nat
      BY <1>2, <1>3 DEF Next, Step, BeginRun, Expand, Expanded, Resolve, Resolved, Collect, NextRound, Return,
         Abandon, ObserverFails, Replay, Harm, run, vars, SplitInv, PlanTyped
    <2> QED BY <2>1
  <1>4. CASE phase # "idle" /\ ~Step
    BY <1>4, OthersShape DEF CursorInPlan
  <1>5. CASE phase # "idle" /\ Step
    <2>1. cursor <= Len(plan) + 1
      BY <1>5 DEF CursorInPlan
    <2>2. ASSUME NEW i \in 1..Len(plan), Halving(i) PROVE cursor' <= Len(plan') + 1
      <3>1. Len(plan') = Len(plan) + 1 /\ cursor' = cursor
        BY <1>1, <2>2, DividedShape DEF Halving
      <3> QED BY <1>1, <2>1, <3>1
    <2>3. ASSUME NEW i \in 1..Len(plan), Settling(i) PROVE cursor' <= Len(plan') + 1
      <3>1. Len(plan') = Len(plan) /\ (cursor' = cursor \/ (cursor' = cursor + 1 /\ cursor <= Len(plan)))
        BY <1>1, <2>3, MarkedShape DEF Settling
      <3> QED BY <1>1, <2>1, <3>1
    <2>4. ASSUME NEW i \in 1..Len(plan), Closing(i) PROVE cursor' <= Len(plan') + 1
      <3>1. Len(plan') = Len(plan) /\ cursor' = cursor
        BY <1>1, <2>4, MarkedShape DEF Closing, States
      <3> QED BY <1>1, <2>1, <3>1
    <2>5. CASE Skipping \/ Turning
      BY <1>1, <2>1, <2>5 DEF Skipping, Turning
    <2> QED BY <1>5, <2>2, <2>3, <2>4, <2>5, StepShape
  <1> QED BY <1>3, <1>4, <1>5

LEMMA CursorInvariance == Spec => []CursorInPlan
  <1>1. Init => CursorInPlan
    BY DEF Init, CursorInPlan
  <1> QED BY <1>1, CursorNext, SplitInvariance, PTL DEF Spec

\* The items to do and the refusals to collect are finitely many.
LEMMA CountsShape ==
  ASSUME SplitInv
  PROVE  /\ IsFiniteSet(Unfinished) /\ Cardinality(Unfinished) \in Nat
         /\ IsFiniteSet(Pending) /\ Cardinality(Pending) \in Nat
  <1>1. Len(plan) \in Nat /\ DOMAIN plan = 1..Len(plan)
    BY DEF SplitInv, PlanTyped
  <1>2. IsFiniteSet(1..Len(plan))
    BY <1>1, FS_Interval
  <1>3. Unfinished \in SUBSET (1..Len(plan)) /\ Pending \in SUBSET (1..Len(plan))
    BY <1>1 DEF Unfinished, Pending
  <1> QED BY <1>2, <1>3, FS_Subset, FS_CardinalityType

LEMMA OneFewer ==
  ASSUME NEW S, NEW x \in S, IsFiniteSet(S)
  PROVE  Cardinality(S \ {x}) < Cardinality(S)
  <1>1. IsFiniteSet(S \ {x}) /\ Cardinality(S \ {x}) = Cardinality(S) - 1
    BY FS_RemoveElement
  <1>2. Cardinality(S) \in Nat
    BY FS_CardinalityType
  <1> QED BY <1>1, <1>2

\* Every step of a run that does not end it brings what remains down.
LEMMA StepsDwindle ==
  ASSUME SplitInv, SplitInv', CursorInPlan, Step, phase' # "idle"
  PROVE  Before(Remaining', Remaining)
  <1>1. plan \in Seq(Entry) /\ Len(plan) \in Nat /\ DOMAIN plan = 1..Len(plan) /\ cursor \in Nat \ {0}
        /\ Span \in Int /\ Span' = Span
    BY BatchFitsSpan DEF SplitInv, PlanTyped, Span
  <1>2. ASSUME NEW i \in 1..Len(plan), Halving(i) PROVE Before(Remaining', Remaining)
    <2>1. Len(plan') = Len(plan) + 1
      BY <1>1, <1>2, DividedShape DEF Halving
    <2>2. Span' - Len(plan') < Span - Len(plan)
      BY <1>1, <2>1
    <2> QED BY <2>2, BeforeAt DEF Remaining
  <1>3. ASSUME NEW i \in 1..Len(plan), Settling(i) PROVE Before(Remaining', Remaining)
    <2>1. PICK state \in States \ {"todo"} : plan' = Marked(i, state)
      BY <1>3 DEF Settling
    <2>2. /\ Len(plan') = Len(plan) /\ DOMAIN plan' = 1..Len(plan)
          /\ \A j \in 1..Len(plan) : plan'[j].state = IF j = i THEN state ELSE plan[j].state
      BY <1>1, <2>1, MarkedShape
    <2>3. Unfinished' = Unfinished \ {i} /\ i \in Unfinished
      BY <1>1, <1>3, <2>2 DEF Unfinished, Settling
    <2>4. Cardinality(Unfinished') < Cardinality(Unfinished)
      BY <2>3, CountsShape, OneFewer
    <2>5. Span' - Len(plan') = Span - Len(plan)
      BY <1>1, <2>2
    <2> QED BY <2>4, <2>5, BeforeAt DEF Remaining
  <1>4. ASSUME NEW i \in 1..Len(plan), Closing(i) PROVE Before(Remaining', Remaining)
    <2>1. /\ Len(plan') = Len(plan) /\ DOMAIN plan' = 1..Len(plan)
          /\ \A j \in 1..Len(plan) : plan'[j].state = IF j = i THEN "leaf" ELSE plan[j].state
      BY <1>1, <1>4, MarkedShape DEF Closing, States
    <2>2. plan[i].state # "todo" /\ i \in Pending
      BY <1>4 DEF Closing, Pending, Reasons
    <2>3. Unfinished' = Unfinished
      BY <1>1, <2>1, <2>2 DEF Unfinished
    <2>4. Pending' = Pending \ {i}
      BY <1>1, <2>1 DEF Pending, Reasons
    <2>5. Cardinality(Pending') < Cardinality(Pending)
      BY <2>2, <2>4, CountsShape, OneFewer
    <2>6. Span' - Len(plan') = Span - Len(plan) /\ Cardinality(Unfinished') = Cardinality(Unfinished)
      BY <1>1, <2>1, <2>3
    <2> QED BY <2>5, <2>6, BeforeAt DEF Remaining
  <1>5. CASE Turning
    <2>1. /\ Span' - Len(plan') = Span - Len(plan) /\ Cardinality(Unfinished') = Cardinality(Unfinished)
          /\ Cardinality(Pending') = Cardinality(Pending) /\ Stage' < Stage
      BY <1>1, <1>5 DEF Turning, Unfinished, Pending
    <2> QED BY <2>1, BeforeAt DEF Remaining
  <1>6. CASE Skipping
    <2>1. /\ Span' - Len(plan') = Span - Len(plan) /\ Cardinality(Unfinished') = Cardinality(Unfinished)
          /\ Cardinality(Pending') = Cardinality(Pending) /\ Stage' = Stage
      BY <1>1, <1>6 DEF Skipping, Unfinished, Pending, Stage
    <2>2. Len(plan') + 1 - cursor' < Len(plan) + 1 - cursor
      BY <1>1, <1>6 DEF Skipping
    <2> QED BY <2>1, <2>2, BeforeAt DEF Remaining
  <1> QED BY <1>2, <1>3, <1>4, <1>5, <1>6, StepShape

\* What remains of a run are five natural numbers.
THEOREM RemainingNatural ==
    Spec => [](phase # "idle" => Remaining \in Nat \X Nat \X Nat \X Nat \X Nat)
  <1>1. ASSUME SplitInv, CursorInPlan, phase # "idle"
        PROVE  Remaining \in Nat \X Nat \X Nat \X Nat \X Nat
    <2>1. Span - Len(plan) \in Nat
      BY <1>1, PlanFitsSpan, BatchFitsSpan
    <2>2. Cardinality(Unfinished) \in Nat /\ Cardinality(Pending) \in Nat
      BY <1>1, CountsShape
    <2>3. Stage \in Nat
      BY DEF Stage
    <2>4. Len(plan) + 1 - cursor \in Nat
      BY <1>1 DEF CursorInPlan, SplitInv, PlanTyped
    <2> QED BY <2>1, <2>2, <2>3, <2>4 DEF Remaining
  <1> QED BY <1>1, SplitInvariance, CursorInvariance, PTL

\* Every step of a run ends it or brings what remains of it down, and nothing that
\* other users of the cache do makes it longer: the rounds of adaptive_each.go end.
\* The five numbers compare as in a dictionary, so they cannot fall for ever.
THEOREM RunDwindles == Spec => Dwindles
  <1>1. ASSUME SplitInv, SplitInv', CursorInPlan, [Next]_vars
        PROVE  [/\ Step => phase' = "idle" \/ Before(Remaining', Remaining)
                /\ phase # "idle" /\ ~Step => phase' = "idle" \/ Remaining' = Remaining]_vars
    <2>1. ASSUME phase # "idle", ~Step, phase' # "idle" PROVE Remaining' = Remaining
      <3>1. plan' = plan /\ phase' = phase /\ cursor' = cursor
        BY <1>1, <2>1, OthersShape
      <3> QED BY <3>1 DEF Remaining, Span, Unfinished, Pending, Stage
    <2>2. Step => phase' = "idle" \/ Before(Remaining', Remaining)
      BY <1>1, StepsDwindle
    <2> QED BY <2>1, <2>2
  <1> QED BY <1>1, SplitInvariance, CursorInvariance, PTL DEF Spec, Dwindles
=============================================================================
