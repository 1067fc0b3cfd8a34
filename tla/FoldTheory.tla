------------------------------- MODULE FoldTheory -------------------------------
(***************************************************************************)
(* A rule for loops.  The code's loops are folds over a sequence; the       *)
(* community module defines a fold with a recursive function on sets of      *)
(* indexes, so a proof about one is an induction on the number of elements  *)
(* seen.  The induction here is over sets, by the least counterexample.      *)
(***************************************************************************)
EXTENDS SequencesExt, WellFoundedInduction, TLAPS

CONSTANT Op(_, _, _, _)

\* Op folded over seq from the left, with two parameters that stay the same.
Fold(p, q, base, seq) == FoldLeft(LAMBDA a, b : Op(p, q, a, b), base, seq)

\* g[k] is what the fold has made of the first k elements, in D all the while.
Runs(p, q, D, base, seq, g) ==
    /\ g \in [0 .. Len(seq) -> D]
    /\ g[0] = base
    /\ \A k \in 1 .. Len(seq) : g[k] = Op(p, q, g[k - 1], seq[k])
    /\ Fold(p, q, base, seq) = g[Len(seq)]

\* A non-empty set of naturals has a least element.
LEMMA LeastNumber ==
  ASSUME NEW T, T \subseteq Nat, T # {}
  PROVE  \E n \in T : \A m \in T : n <= m
<1>1. PICK n \in T : \A m \in T : ~(<<m, n>> \in OpToRel(<, Nat))
  BY NatLessThanWellFounded, WFMin
<1>2. ASSUME NEW m \in T PROVE n <= m
  <2>1. m \in Nat /\ n \in Nat
    OBVIOUS
  <2>2. m < n => <<m, n>> \in OpToRel(<, Nat)
    BY <2>1 DEF OpToRel
  <2>3. ~(<<m, n>> \in OpToRel(<, Nat))
    BY <1>1
  <2>4. ~(m < n)
    BY <2>2, <2>3
  <2> QED
    BY <2>1, <2>4
<1> QED
  BY <1>2

\* Induction on the naturals, for a set instead of a predicate: the
\* counterexamples have no least one.
LEMMA SetInduction ==
  ASSUME NEW T, 0 \in T, \A n \in Nat : n \in T => n + 1 \in T
  PROVE  \A n \in Nat : n \in T
<1> SUFFICES ASSUME Nat \ T # {} PROVE FALSE
  OBVIOUS
<1>1. PICK n \in Nat \ T : \A m \in Nat \ T : n <= m
  BY LeastNumber, Nat \ T \subseteq Nat
<1>2. n # 0 /\ n - 1 \in Nat /\ n - 1 \notin Nat \ T
  BY <1>1
<1>3. n - 1 + 1 \in T
  BY <1>2
<1> QED
  BY <1>1, <1>2, <1>3

\* A non-empty set of numbers from 1 to n has a maximum.
LEMMA MaxOfRange ==
  ASSUME NEW n \in Nat, NEW s \in SUBSET (1 .. n), s # {}
  PROVE  Max(s) \in s /\ \A x \in s : x <= Max(s)
<1>1. PICK m \in {n - x : x \in s} : \A k \in {n - x : x \in s} : m <= k
  <2>1. \A x \in s : n - x \in Nat
    OBVIOUS
  <2>2. {n - x : x \in s} \subseteq Nat
    BY <2>1
  <2>3. {n - x : x \in s} # {}
    OBVIOUS
  <2> QED
    BY <2>2, <2>3, LeastNumber
<1>2. PICK y \in s : m = n - y
  OBVIOUS
<1>3. \A x \in s : x <= y /\ x \in Int /\ y \in Int
  BY <1>1, <1>2
<1>4. \E z \in s : \A x \in s : z >= x
  BY <1>3
<1>5. Max(s) \in s /\ \A x \in s : Max(s) >= x
  BY <1>4 DEF Max
<1> QED
  BY <1>5

\* The maximum of 1 .. k is k.
LEMMA MaxOfInterval ==
  ASSUME NEW k \in Nat, k > 0 PROVE Max(1 .. k) = k
<1>1. 1 .. k \in SUBSET (1 .. k) /\ 1 .. k # {} /\ k \in 1 .. k
  OBVIOUS
<1>2. Max(1 .. k) \in 1 .. k /\ k <= Max(1 .. k)
  BY <1>1, MaxOfRange
<1> QED
  BY <1>2

\* A set of numbers up to m + 1 has m + 1 as its maximum or has no number above
\* m.
LEMMA MaxWithTop ==
  ASSUME NEW m \in Nat, NEW s \in SUBSET (1 .. m + 1)
  PROVE  /\ m + 1 \notin s => s \in SUBSET (1 .. m)
         /\ s \ {m + 1} \in SUBSET (1 .. m)
         /\ m + 1 \in s => s # {} /\ Max(s) = m + 1
<1>1. m + 1 \in Nat /\ s \ {m + 1} \in SUBSET (1 .. m)
  OBVIOUS
<1>2. ASSUME m + 1 \in s PROVE Max(s) = m + 1
  <2>1. Max(s) \in s /\ m + 1 <= Max(s)
    BY <1>1, <1>2, MaxOfRange
  <2>2. Max(s) \in 1 .. m + 1
    BY <2>1
  <2> QED
    BY <2>1, <2>2
<1> QED
  BY <1>1, <1>2

\* 1 .. k is 1 .. k - 1 and k.
LEMMA IntervalStep ==
  ASSUME NEW n \in Nat, NEW k \in 1 .. n
  PROVE  /\ 1 .. k # {} /\ (1 .. k) \ {k} = 1 .. (k - 1)
         /\ 1 .. k \in SUBSET (1 .. n) /\ k \in 0 .. n /\ k - 1 \in 0 .. n
<1>1. k \in 1 .. k /\ k \in 0 .. n /\ k - 1 \in 0 .. n
  OBVIOUS
<1>2. (1 .. k) \ {k} = 1 .. (k - 1)
  OBVIOUS
<1>3. 1 .. k \in SUBSET (1 .. n)
  OBVIOUS
<1> QED
  BY <1>1, <1>2, <1>3

\* g[k] is what the fold has made of the first k elements.
Goes(p, q, base, seq, g) ==
    /\ g[0] = base
    /\ \A k \in 1 .. Len(seq) : g[k] = Op(p, q, g[k - 1], seq[k])
    /\ Fold(p, q, base, seq) = g[Len(seq)]

\* A fold goes through its elements one by one, whatever it makes of them.
LEMMA FoldGoes ==
  ASSUME NEW p, NEW q, NEW E, NEW base, NEW seq \in Seq(E)
  PROVE  \E g : Goes(p, q, base, seq, g)
<1> DEFINE n == Len(seq)
           next(f, s) == IF s = {} THEN base
                         ELSE Op(p, q, f[s \ {Max(s)}], seq[Max(s)])
           ok(m, f) == f = [s \in SUBSET (1 .. m) |-> next(f, s)]
           T == {m \in Nat : m <= n => \E f : ok(m, f)}
<1>0. n \in Nat /\ DOMAIN seq = 1 .. n
  OBVIOUS
<1>1. 0 \in T
  <2> DEFINE f == [s \in SUBSET (1 .. 0) |-> base]
  <2>1. \A s \in SUBSET (1 .. 0) : s = {}
    OBVIOUS
  <2>2. ok(0, f)
    BY <2>1
  <2> QED
    BY <2>2
<1>2. ASSUME NEW m \in Nat, m \in T PROVE m + 1 \in T
  <2> SUFFICES ASSUME m + 1 <= n PROVE \E f : ok(m + 1, f)
    <3> HIDE DEF ok
    <3> QED
      OBVIOUS
  <2>1. PICK f : ok(m, f)
    <3> HIDE DEF ok
    <3> QED
      BY <1>0, <1>2
  <2> DEFINE h == [s \in SUBSET (1 .. m + 1) |->
                      IF m + 1 \in s THEN Op(p, q, f[s \ {m + 1}], seq[m + 1]) ELSE f[s]]
  <2>2. \A s \in SUBSET (1 .. m) : f[s] = next(f, s)
    BY <2>1
  <2>3. ASSUME NEW s \in SUBSET (1 .. m + 1)
        PROVE  /\ m + 1 \notin s => s \in SUBSET (1 .. m)
               /\ s \ {m + 1} \in SUBSET (1 .. m)
               /\ m + 1 \in s => s # {} /\ Max(s) = m + 1
    BY MaxWithTop
  <2>4. ASSUME NEW s \in SUBSET (1 .. m + 1)
        PROVE  h[s] = next(h, s)
    <3>1. CASE m + 1 \in s
      <4>1. h[s] = Op(p, q, f[s \ {m + 1}], seq[m + 1])
        BY <3>1
      <4>2. h[s \ {m + 1}] = f[s \ {m + 1}]
        BY <2>3
      <4> QED
        BY <2>3, <3>1, <4>1, <4>2
    <3>2. CASE m + 1 \notin s
      <4>1. h[s] = f[s] /\ s \in SUBSET (1 .. m)
        BY <2>3, <3>2
      <4>2. f[s] = next(f, s)
        BY <2>2, <4>1
      <4>3. s # {} => h[s \ {Max(s)}] = f[s \ {Max(s)}]
        BY <2>3, <4>1
      <4> QED
        BY <4>1, <4>2, <4>3
    <3> QED
      BY <3>1, <3>2
  <2>5. h = [s \in SUBSET (1 .. m + 1) |-> h[s]]
    OBVIOUS
  <2> HIDE DEF h
  <2> QED
    BY <2>4, <2>5
<1>3. n \in T
  <2> HIDE DEF T
  <2> QED
    BY <1>0, <1>1, <1>2, SetInduction
<1>4. PICK f : ok(n, f)
  <2> HIDE DEF ok
  <2> QED
    BY <1>0, <1>3
<1> DEFINE eq(i) == i = [s \in SUBSET (1 .. n) |-> next(i, s)]
           it == CHOOSE i : eq(i)
<1>5. eq(f)
  BY <1>4
<1>6. eq(it)
  <2> HIDE DEF eq
  <2> QED
    BY <1>5
<1>7. Fold(p, q, base, seq) = it[1 .. n]
  BY <1>0 DEF Fold, FoldLeft, MapThenFoldSet
<1> DEFINE g == [k \in 0 .. n |-> it[1 .. k]]
<1>8. \A s \in SUBSET (1 .. n) : it[s] = next(it, s)
  <2> HIDE DEF it
  <2> QED
    BY <1>6
<1> HIDE DEF it, eq
<1>9. g[0] = base
  <2>1. 1 .. 0 = {}
    OBVIOUS
  <2>2. 0 \in 0 .. n /\ {} \in SUBSET (1 .. n)
    BY <1>0
  <2>3. it[{}] = base
    BY <1>8, <2>2
  <2>4. g[0] = it[1 .. 0]
    BY <2>2
  <2> QED
    BY <2>1, <2>3, <2>4
<1>10. ASSUME NEW k \in 1 .. n
       PROVE  g[k] = Op(p, q, g[k - 1], seq[k])
  <2>1. Max(1 .. k) = k
    BY MaxOfInterval
  <2>2. /\ 1 .. k # {} /\ (1 .. k) \ {k} = 1 .. (k - 1)
        /\ 1 .. k \in SUBSET (1 .. n) /\ k \in 0 .. n /\ k - 1 \in 0 .. n
    BY <1>0, IntervalStep
  <2>3. it[1 .. k] = next(it, 1 .. k)
    BY <1>8, <2>2
  <2> QED
    BY <2>1, <2>2, <2>3
<1> HIDE DEF next, ok, T
<1>11. Fold(p, q, base, seq) = g[n]
  BY <1>0, <1>7
<1> HIDE DEF g
<1> QED
  BY <1>0, <1>9, <1>10, <1>11 DEF Goes

\* The rule for loops whose states are known one by one: Inv[k] is the set of
\* what is allowed after k elements.
LEMMA FoldFollows ==
  ASSUME NEW p, NEW q, NEW E, NEW base, NEW seq \in Seq(E), NEW Inv, base \in Inv[0],
         \A k \in 1 .. Len(seq) : \A d \in Inv[k - 1] : Op(p, q, d, seq[k]) \in Inv[k]
  PROVE  Fold(p, q, base, seq) \in Inv[Len(seq)]
<1>1. \E g : Goes(p, q, base, seq, g)
  BY FoldGoes
<1>2. PICK g : Goes(p, q, base, seq, g)
  BY <1>1
<1> DEFINE n == Len(seq)
           U == {j \in Nat : j <= n => g[j] \in Inv[j]}
<1>3. n \in Nat
  OBVIOUS
<1>4. 0 \in U
  BY <1>2 DEF Goes
<1>5. ASSUME NEW k \in Nat, k \in U PROVE k + 1 \in U
  <2>1. CASE k + 1 <= n
    <3>1. k + 1 \in 1 .. n /\ (k + 1) - 1 = k /\ g[k] \in Inv[k]
      BY <1>3, <1>5, <2>1
    <3>2. g[k + 1] = Op(p, q, g[k], seq[k + 1])
      BY <1>2, <3>1 DEF Goes
    <3> QED
      BY <3>1, <3>2
  <2>2. CASE ~(k + 1 <= n)
    BY <2>2
  <2> QED
    BY <2>1, <2>2
<1>6. n \in U
  <2> HIDE DEF U
  <2> QED
    BY <1>3, <1>4, <1>5, SetInduction
<1> QED
  BY <1>2, <1>3, <1>6 DEF Goes

\* X has what the fold begins with, and a property that the steps which stay in X
\* keep holds of the fold at the end: T is the set of what has it.
Visits(p, q, base, seq, X) ==
    /\ base \in X
    /\ \A T : /\ base \in T
              /\ \A d \in T, k \in 1 .. Len(seq) :
                    Op(p, q, d, seq[k]) \in X => Op(p, q, d, seq[k]) \in T
              => Fold(p, q, base, seq) \in T

\* The rule for loops whose states are in no set known beforehand: there is one,
\* of what the fold goes through.
LEMMA FoldVisits ==
  ASSUME NEW p, NEW q, NEW E, NEW base, NEW seq \in Seq(E)
  PROVE  \E X : Visits(p, q, base, seq, X)
<1>1. \E g : Goes(p, q, base, seq, g)
  BY FoldGoes
<1>2. PICK g : Goes(p, q, base, seq, g)
  BY <1>1
<1> DEFINE n == Len(seq)
           X == {g[j] : j \in 0 .. n}
<1>3. n \in Nat /\ base \in X
  BY <1>2 DEF Goes
<1>4. ASSUME NEW T, base \in T,
             \A d \in T, k \in 1 .. n : Op(p, q, d, seq[k]) \in X => Op(p, q, d, seq[k]) \in T
      PROVE  Fold(p, q, base, seq) \in T
  <2> DEFINE U == {j \in Nat : j <= n => g[j] \in T}
  <2>1. 0 \in U
    BY <1>2, <1>4 DEF Goes
  <2>2. ASSUME NEW k \in Nat, k \in U PROVE k + 1 \in U
    <3>1. CASE k + 1 <= n
      <4>1. k + 1 \in 1 .. n /\ k + 1 \in 0 .. n /\ (k + 1) - 1 = k /\ g[k] \in T
        BY <1>3, <2>2, <3>1
      <4>2. g[k + 1] = Op(p, q, g[k], seq[k + 1]) /\ g[k + 1] \in X
        BY <1>2, <4>1 DEF Goes
      <4> HIDE DEF X
      <4> QED
        BY <1>4, <4>1, <4>2
    <3>2. CASE ~(k + 1 <= n)
      BY <3>2
    <3> QED
      BY <3>1, <3>2
  <2>3. n \in U
    <3> HIDE DEF U
    <3> QED
      BY <1>3, <2>1, <2>2, SetInduction
  <2> QED
    BY <1>2, <1>3, <2>3 DEF Goes
<1> HIDE DEF X
<1> QED
  BY <1>3, <1>4 DEF Visits

\* A fold with an operator that stays in D goes through elements of D, one for
\* each element of seq.
LEMMA FoldRuns ==
  ASSUME NEW p, NEW q, NEW D, NEW E, NEW base \in D, NEW seq \in Seq(E),
         \A d \in D, e \in E : Op(p, q, d, e) \in D
  PROVE  \E g : Runs(p, q, D, base, seq, g)
<1>1. \E h : Goes(p, q, base, seq, h)
  BY FoldGoes
<1>2. PICK h : Goes(p, q, base, seq, h)
  BY <1>1
<1> DEFINE n == Len(seq)
           g == [k \in 0 .. n |-> h[k]]
<1>3. n \in Nat /\ DOMAIN seq = 1 .. n /\ \A k \in 1 .. n : seq[k] \in E
  OBVIOUS
<1>4. g[0] = base /\ Fold(p, q, base, seq) = g[n]
  BY <1>2, <1>3 DEF Goes
<1>5. ASSUME NEW k \in 1 .. n PROVE g[k] = Op(p, q, g[k - 1], seq[k])
  <2>1. k \in 0 .. n /\ k - 1 \in 0 .. n
    BY <1>3
  <2> QED
    BY <1>2, <2>1 DEF Goes
<1>6. \A k \in Nat : k \in {j \in Nat : j <= n => g[j] \in D}
  <2> DEFINE U == {j \in Nat : j <= n => g[j] \in D}
  <2>1. 0 \in U
    BY <1>4
  <2>2. ASSUME NEW k \in Nat, k \in U PROVE k + 1 \in U
    <3>1. CASE k + 1 <= n
      <4>1. k + 1 \in 1 .. n /\ k \in 0 .. n /\ (k + 1) - 1 = k /\ g[k] \in D
        BY <1>3, <2>2, <3>1
      <4>2. g[k + 1] = Op(p, q, g[k], seq[k + 1])
        BY <1>5, <4>1
      <4> HIDE DEF g
      <4> QED
        BY <1>3, <4>1, <4>2
    <3>2. CASE ~(k + 1 <= n)
      BY <3>2
    <3> QED
      BY <3>1, <3>2
  <2> HIDE DEF U
  <2>3. \A k \in Nat : k \in U
    BY <2>1, <2>2, SetInduction
  <2> QED
    BY <2>3 DEF U
<1>7. g \in [0 .. n -> D]
  <2>1. \A k \in 0 .. n : g[k] \in D
    <3> HIDE DEF g
    <3> QED
      BY <1>3, <1>6
  <2> QED
    BY <2>1
<1> HIDE DEF g
<1> QED
  BY <1>3, <1>4, <1>5, <1>7 DEF Runs

\* The rule for loops: what holds before the first element, and after each
\* element when it held before it, holds at the end.  Inv[k] is the set of what
\* is allowed after k elements.
LEMMA FoldKeeps ==
  ASSUME NEW p, NEW q, NEW D, NEW E, NEW base \in D, NEW seq \in Seq(E),
         \A d \in D, e \in E : Op(p, q, d, e) \in D,
         NEW Inv, base \in Inv[0],
         \A k \in 1 .. Len(seq), d \in D :
            d \in Inv[k - 1] => Op(p, q, d, seq[k]) \in Inv[k]
  PROVE  Fold(p, q, base, seq) \in D /\ Fold(p, q, base, seq) \in Inv[Len(seq)]
<1>1. \E g : Runs(p, q, D, base, seq, g)
  BY FoldRuns
<1>2. PICK g : Runs(p, q, D, base, seq, g)
  BY <1>1
<1> DEFINE n == Len(seq)
           U == {j \in Nat : j <= n => g[j] \in Inv[j]}
<1>3. n \in Nat /\ \A k \in 0 .. n : g[k] \in D
  BY <1>2 DEF Runs
<1>4. 0 \in U
  BY <1>2 DEF Runs
<1>5. ASSUME NEW k \in Nat, k \in U PROVE k + 1 \in U
  <2>1. CASE k + 1 <= n
    <3>1. k + 1 \in 1 .. n /\ k \in 0 .. n /\ (k + 1) - 1 = k /\ g[k] \in Inv[k]
      BY <1>3, <1>5, <2>1
    <3>2. g[k] \in D
      BY <1>3, <3>1
    <3>3. g[k + 1] = Op(p, q, g[k], seq[k + 1])
      BY <1>2, <3>1 DEF Runs
    <3> QED
      BY <3>1, <3>2, <3>3
  <2>2. CASE ~(k + 1 <= n)
    BY <2>2
  <2> QED
    BY <2>1, <2>2
<1>6. n \in U
  <2> HIDE DEF U
  <2> QED
    BY <1>3, <1>4, <1>5, SetInduction
<1>7. g[n] \in Inv[n] /\ g[n] \in D
  <2>1. n <= n /\ n \in 0 .. n
    BY <1>3
  <2> HIDE DEF n
  <2>2. n <= n => g[n] \in Inv[n]
    BY <1>6
  <2> QED
    BY <1>3, <2>1, <2>2
<1> QED
  BY <1>2, <1>7 DEF Runs

\* A fold stays where its steps stay.
LEMMA FoldStays ==
  ASSUME NEW p, NEW q, NEW D, NEW E, NEW base \in D, NEW seq \in Seq(E),
         \A d \in D, e \in E : Op(p, q, d, e) \in D
  PROVE  Fold(p, q, base, seq) \in D
<1>1. PICK g : Runs(p, q, D, base, seq, g)
  BY FoldRuns
<1>2. Len(seq) \in 0 .. Len(seq)
  OBVIOUS
<1> QED
  BY <1>1, <1>2 DEF Runs

\* A fold over nothing.
LEMMA FoldOfNone ==
  ASSUME NEW p, NEW q, NEW base
  PROVE  Fold(p, q, base, <<>>) = base
<1> DEFINE D == {base}
           E == {}
<1>1. <<>> \in Seq(E) /\ Len(<<>>) = 0 /\ base \in D
  OBVIOUS
<1>2. \A d \in D, e \in E : Op(p, q, d, e) \in D
  OBVIOUS
<1> HIDE DEF D, E
<1>3. PICK g : Runs(p, q, D, base, <<>>, g)
  BY <1>1, <1>2, FoldRuns
<1> QED
  BY <1>1, <1>3 DEF Runs

\* The fold over seq and e is one step on the fold over seq.
StepsOn(p, q, D, E, base, seq, e) ==
    /\ Fold(p, q, base, seq) \in D
    /\ Fold(p, q, base, Append(seq, e)) = Op(p, q, Fold(p, q, base, seq), e)

\* A fold over one element more takes one step more.
LEMMA FoldAppend ==
  ASSUME NEW p, NEW q, NEW D, NEW E, NEW base \in D, NEW seq \in Seq(E), NEW e \in E,
         \A d \in D, x \in E : Op(p, q, d, x) \in D
  PROVE  StepsOn(p, q, D, E, base, seq, e)
<1> DEFINE n == Len(seq)
           longer == Append(seq, e)
<1>1. /\ n \in Nat /\ longer \in Seq(E) /\ Len(longer) = n + 1
      /\ longer[n + 1] = e /\ \A k \in 1 .. n : longer[k] = seq[k]
  OBVIOUS
<1> HIDE DEF n, longer
<1>2. PICK g : Runs(p, q, D, base, longer, g)
  BY <1>1, FoldRuns
<1>3. PICK h : Runs(p, q, D, base, seq, h)
  BY FoldRuns
<1>4. /\ g[0] = base /\ h[0] = base /\ h[n] \in D
      /\ \A k \in 1 .. n + 1 : g[k] = Op(p, q, g[k - 1], longer[k])
      /\ \A k \in 1 .. n : h[k] = Op(p, q, h[k - 1], seq[k])
      /\ Fold(p, q, base, longer) = g[n + 1] /\ Fold(p, q, base, seq) = h[n]
  BY <1>1, <1>2, <1>3 DEF Runs, n
<1> DEFINE U == {j \in Nat : j <= n => g[j] = h[j]}
<1>5. 0 \in U
  BY <1>4
<1>6. ASSUME NEW k \in Nat, k \in U PROVE k + 1 \in U
  <2>1. CASE k + 1 <= n
    <3>1. k + 1 \in 1 .. n /\ k + 1 \in 1 .. n + 1 /\ (k + 1) - 1 = k /\ g[k] = h[k]
      BY <1>1, <1>6, <2>1
    <3>2. g[k + 1] = Op(p, q, g[k], longer[k + 1]) /\ h[k + 1] = Op(p, q, h[k], seq[k + 1])
      BY <1>4, <3>1
    <3> QED
      BY <1>1, <3>1, <3>2
  <2>2. CASE ~(k + 1 <= n)
    BY <2>2
  <2> QED
    BY <2>1, <2>2
<1>7. n \in U
  <2> HIDE DEF U
  <2> QED
    BY <1>1, <1>5, <1>6, SetInduction
<1>8. g[n] = h[n]
  BY <1>1, <1>7
<1>9. g[n + 1] = Op(p, q, g[n], e)
  <2>1. n + 1 \in 1 .. n + 1 /\ (n + 1) - 1 = n
    BY <1>1
  <2> QED
    BY <1>1, <1>4, <2>1
<1> QED
  BY <1>1, <1>4, <1>8, <1>9 DEF StepsOn, longer
==============================================================================
