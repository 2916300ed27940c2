---------------------------- MODULE RefundsProofs ----------------------------
(***************************************************************************)
(* Theorems about RefundAllocation, the arithmetic of refunds (sums over   *)
(* refund records, proportional shares, the split of a refund) for all     *)
(* amounts, and about Refunds, for all amounts, numbers of records,        *)
(* handlers and lock expiries.                                             *)
(***************************************************************************)
EXTENDS Refunds, WellFoundedInduction, TLAPS

-----------------------------------------------------------------------------
(* Sum.  Induction over the naturals is used in the form of sets: the      *)
(* smallest counterexample of a well-founded relation (WFMin).             *)

\* A set with 0 and with the successor of each of its numbers has all of Nat.
LEMMA NatSetInduction ==
  ASSUME NEW S, 0 \in S, \A n \in Nat : n \in S => n+1 \in S
  PROVE  Nat \subseteq S
<1> DEFINE T == Nat \ S
<1> SUFFICES ASSUME T # {} PROVE FALSE OBVIOUS
<1>1. PICK m \in T : \A y \in T : ~ (<<y, m>> \in OpToRel(<, Nat))
  BY WFMin, NatLessThanWellFounded
<1>2. m # 0 OBVIOUS
<1>3. m-1 \in Nat BY <1>2
<1>4. <<m-1, m>> \in OpToRel(<, Nat) BY <1>3 DEF OpToRel
<1>5. m-1 \notin T BY <1>1, <1>4
<1>6. m-1 \in S BY <1>3, <1>5
<1>7. (m-1)+1 \in S BY <1>3, <1>6
<1>8. (m-1)+1 = m OBVIOUS
<1> QED BY <1>7, <1>8

\* The recursive function that Sum chooses.
Rec(v, n, f) == f = [i \in 0 .. n |-> IF i = 0 THEN 0 ELSE f[i - 1] + v[i]]

\* There is such a function, for every length.
LEMMA RecExists == ASSUME NEW v, NEW n \in Nat PROVE \E f : Rec(v, n, f)
<1> DEFINE S == {k \in Nat : \E f : Rec(v, k, f)}
<1>1. 0 \in S
  <2> DEFINE f == [i \in 0 .. 0 |-> 0]
  <2>1. Rec(v, 0, f) BY DEF Rec
  <2> QED BY <2>1
<1>2. ASSUME NEW k \in Nat, k \in S PROVE k+1 \in S
  <2>1. PICK f : Rec(v, k, f) BY <1>2
  <2> DEFINE g == [i \in 0 .. k+1 |-> IF i \in 0 .. k THEN f[i] ELSE f[k] + v[k+1]]
  <2>2. ASSUME NEW i \in 0 .. k+1
        PROVE  g[i] = IF i = 0 THEN 0 ELSE g[i - 1] + v[i]
    <3>1. CASE i \in 0 .. k
      <4>1. f[i] = IF i = 0 THEN 0 ELSE f[i - 1] + v[i] BY <2>1, <3>1 DEF Rec
      <4>2. g[i] = f[i] BY <3>1
      <4>3. CASE i = 0 BY <4>1, <4>2, <4>3
      <4>4. CASE i # 0
        <5>1. i - 1 \in 0 .. k BY <3>1, <4>4
        <5>2. g[i - 1] = f[i - 1] BY <5>1
        <5> QED BY <4>1, <4>2, <4>4, <5>2
      <4> QED BY <4>3, <4>4
    <3>2. CASE i = k + 1
      <4>1. g[k+1] = f[k] + v[k+1] OBVIOUS
      <4>2. g[k] = f[k] OBVIOUS
      <4>3. i # 0 /\ i - 1 = k BY <3>2
      <4> QED BY <3>2, <4>1, <4>2, <4>3
    <3> QED BY <3>1, <3>2
  <2>3. Rec(v, k+1, g)
    <3> HIDE DEF g
    <3>1. g = [i \in 0 .. k+1 |-> g[i]] BY DEF g
    <3> QED BY <2>2, <3>1 DEF Rec
  <2> QED BY <2>3
<1>3. Nat \subseteq S
  <2> HIDE DEF S
  <2> QED BY <1>1, <1>2, NatSetInduction
<1> QED BY <1>3

\* Sum is its last value.
LEMMA SumDef == ASSUME NEW v, NEW n \in Nat
  PROVE \E f : Rec(v, n, f) /\ Sum(v, n) = f[n]
<1> DEFINE c == CHOOSE f : Rec(v, n, f)
<1>1. Rec(v, n, c) BY RecExists
<1>2. Sum(v, n) = c[n] BY DEF Sum, Rec
<1> HIDE DEF c
<1> QED BY <1>1, <1>2

\* Such functions of different lengths agree where both are defined.
LEMMA RecAgree ==
  ASSUME NEW v, NEW n \in Nat, NEW m \in Nat, n <= m, NEW f, NEW g, Rec(v, n, f), Rec(v, m, g)
  PROVE  f[n] = g[n]
<1> DEFINE S == {k \in Nat : k <= n => f[k] = g[k]}
<1>1. 0 \in S
  BY DEF Rec
<1>2. ASSUME NEW k \in Nat, k \in S PROVE k + 1 \in S
  <2> SUFFICES ASSUME k + 1 <= n PROVE f[k + 1] = g[k + 1] OBVIOUS
  <2>1. f[k] = g[k] BY <1>2
  <2>2. k + 1 \in 0 .. n /\ k + 1 \in 0 .. m /\ k + 1 # 0 /\ (k + 1) - 1 = k OBVIOUS
  <2>3. f[k + 1] = f[k] + v[k + 1] BY <2>2 DEF Rec
  <2>4. g[k + 1] = g[k] + v[k + 1] BY <2>2 DEF Rec
  <2> QED BY <2>1, <2>3, <2>4
<1>3. Nat \subseteq S
  <2> HIDE DEF S
  <2> QED BY <1>1, <1>2, NatSetInduction
<1> QED BY <1>3

\* The sum over nothing.
LEMMA SumZero == ASSUME NEW v PROVE Sum(v, 0) = 0
BY SumDef DEF Rec

\* The sum of refund amounts grows by one record at a time.
LEMMA SumStep == ASSUME NEW v, NEW n \in Nat PROVE Sum(v, n + 1) = Sum(v, n) + v[n + 1]
<1>1. PICK f : Rec(v, n, f) /\ Sum(v, n) = f[n] BY SumDef
<1>2. PICK g : Rec(v, n + 1, g) /\ Sum(v, n + 1) = g[n + 1] BY SumDef
<1>3. f[n] = g[n] BY <1>1, <1>2, RecAgree
<1>4. n + 1 \in 0 .. n + 1 /\ n + 1 # 0 /\ (n + 1) - 1 = n OBVIOUS
<1>5. g[n + 1] = g[n] + v[n + 1] BY <1>2, <1>4 DEF Rec
<1> QED BY <1>1, <1>2, <1>3, <1>5

\* A sum of naturals is a natural number no smaller than any of its terms.
LEMMA SumNat ==
  ASSUME NEW n \in Nat, NEW v, \A i \in 1 .. n : v[i] \in Nat
  PROVE  Sum(v, n) \in Nat /\ \A r \in 1 .. n : v[r] <= Sum(v, n)
<1> DEFINE S == {k \in Nat : k <= n => /\ Sum(v, k) \in Nat
                                     /\ \A r \in 1 .. k : v[r] <= Sum(v, k)}
<1>1. 0 \in S BY SumZero
<1>2. ASSUME NEW k \in Nat, k \in S PROVE k + 1 \in S
  <2> SUFFICES ASSUME k + 1 <= n
               PROVE  /\ Sum(v, k + 1) \in Nat
                      /\ \A r \in 1 .. k + 1 : v[r] <= Sum(v, k + 1)
      OBVIOUS
  <2>1. Sum(v, k + 1) = Sum(v, k) + v[k + 1] BY SumStep
  <2>2. v[k + 1] \in Nat OBVIOUS
  <2>3. \A r \in 1 .. k : v[r] \in Nat OBVIOUS
  <2>4. Sum(v, k) \in Nat /\ \A r \in 1 .. k : v[r] <= Sum(v, k) BY <1>2
  <2> QED BY <2>1, <2>2, <2>3, <2>4
<1>3. Nat \subseteq S
  <2> HIDE DEF S
  <2> QED BY <1>1, <1>2, NatSetInduction
<1> QED BY <1>3

\* Changing one term (a refund booked or undone) changes the sum by as much.
LEMMA SumChange ==
  ASSUME NEW n \in Nat, NEW v, NEW w, NEW r \in 1 .. n,
         \A i \in 1 .. n : v[i] \in Nat /\ w[i] \in Nat,
         \A i \in 1 .. n : i # r => w[i] = v[i]
  PROVE  Sum(w, n) = Sum(v, n) - v[r] + w[r]
<1> DEFINE S == {k \in Nat : k <= n => Sum(w, k) = IF r <= k THEN Sum(v, k) - v[r] + w[r]
                                                           ELSE Sum(v, k)}
<1>1. 0 \in S BY SumZero
<1>2. ASSUME NEW k \in Nat, k \in S PROVE k + 1 \in S
  <2> SUFFICES ASSUME k + 1 <= n
               PROVE  Sum(w, k + 1) = IF r <= k + 1 THEN Sum(v, k + 1) - v[r] + w[r]
                                                    ELSE Sum(v, k + 1)
      OBVIOUS
  <2>1. Sum(w, k + 1) = Sum(w, k) + w[k + 1] /\ Sum(v, k + 1) = Sum(v, k) + v[k + 1]
    BY SumStep
  <2>2. Sum(w, k) = IF r <= k THEN Sum(v, k) - v[r] + w[r] ELSE Sum(v, k) BY <1>2
  <2>3. Sum(v, k) \in Nat /\ v[r] \in Nat /\ w[r] \in Nat /\ k + 1 \in 1 .. n BY SumNat
  <2>4. v[k + 1] \in Nat /\ w[k + 1] \in Nat BY <2>3
  <2>5. k + 1 # r => w[k + 1] = v[k + 1] BY <2>3
  <2> HIDE DEF S
  <2>6. CASE k + 1 = r
    <3>1. ~(r <= k) /\ r <= k + 1 BY <2>6
    <3> QED BY <2>1, <2>2, <2>3, <2>4, <2>6, <3>1
  <2>7. CASE k + 1 # r
    <3>1. (r <= k + 1) <=> (r <= k) BY <2>7
    <3> QED BY <2>1, <2>2, <2>3, <2>4, <2>5, <2>7, <3>1
  <2> QED BY <2>6, <2>7
<1>3. Nat \subseteq S
  <2> HIDE DEF S
  <2> QED BY <1>1, <1>2, NatSetInduction
<1> QED BY <1>3

\* A sum of zeros, as long as no refund is recorded.
LEMMA SumOfZeros ==
  ASSUME NEW n \in Nat, NEW v, \A i \in 1 .. n : v[i] = 0
  PROVE  Sum(v, n) = 0
<1> DEFINE S == {k \in Nat : k <= n => Sum(v, k) = 0}
<1>1. 0 \in S BY SumZero
<1>2. ASSUME NEW k \in Nat, k \in S PROVE k + 1 \in S
  <2>1. Sum(v, k + 1) = Sum(v, k) + v[k + 1] BY SumStep
  <2> QED BY <1>2, <2>1
<1>3. Nat \subseteq S
  <2> HIDE DEF S
  <2> QED BY <1>1, <1>2, NatSetInduction
<1> QED BY <1>3

\* A sum without one of its terms.
LEMMA SumWithout ==
  ASSUME NEW m \in Nat, NEW b, NEW g \in 1 .. m, \A i \in 1 .. m : b[i] \in Nat
  PROVE  \E d :
            /\ \A i \in 1 .. m : d[i] \in Nat
            /\ d[g] = 0 /\ \A i \in 1 .. m : i # g => d[i] = b[i]
            /\ Sum(d, m) = Sum(b, m) - b[g]
<1>1. PICK d : d = [i \in 1 .. m |-> IF i = g THEN 0 ELSE b[i]] OBVIOUS
<1>2. d[g] = 0 BY <1>1
<1>3. \A i \in 1 .. m : i # g => d[i] = b[i] BY <1>1
<1>4. \A i \in 1 .. m : b[i] \in Nat /\ d[i] \in Nat BY <1>1
<1>5. Sum(d, m) = Sum(b, m) - b[g] + d[g] BY <1>3, <1>4, SumChange
<1>6. Sum(b, m) \in Nat /\ b[g] \in Nat BY <1>4, SumNat
<1>7. Sum(d, m) = Sum(b, m) - b[g] BY <1>2, <1>5, <1>6
<1> QED BY <1>2, <1>3, <1>4, <1>7

\* An injection of the terms of one sum into no smaller terms of another.
LEMMA SumInjection ==
  ASSUME NEW n \in Nat, NEW m \in Nat, NEW a, NEW c, NEW f,
         \A i \in 1 .. n : a[i] \in Nat,
         \A i \in 1 .. m : c[i] \in Nat,
         \A i \in 1 .. n : a[i] # 0 => f[i] \in 1 .. m /\ a[i] <= c[f[i]],
         \A i, j \in 1 .. n : a[i] # 0 /\ a[j] # 0 /\ f[i] = f[j] => i = j
  PROVE  Sum(a, n) <= Sum(c, m)
<1> DEFINE Covers(b, k) == \A i \in 1 .. k : a[i] # 0 => a[i] <= b[f[i]]
<1> DEFINE S == {k \in Nat : k <= n =>
                   \A b : (\A i \in 1 .. m : b[i] \in Nat) /\ Covers(b, k)
                           => Sum(a, k) <= Sum(b, m)}
<1>1. 0 \in S
  <2> SUFFICES ASSUME NEW b, \A i \in 1 .. m : b[i] \in Nat PROVE Sum(a, 0) <= Sum(b, m) OBVIOUS
  <2>1. Sum(b, m) \in Nat BY SumNat
  <2> QED BY <2>1, SumZero
<1>2. ASSUME NEW k \in Nat, k \in S PROVE k + 1 \in S
  <2> SUFFICES ASSUME k + 1 <= n, NEW b, \A i \in 1 .. m : b[i] \in Nat,
                      Covers(b, k + 1)
               PROVE  Sum(a, k + 1) <= Sum(b, m)
      OBVIOUS
  <2>1. Sum(a, k + 1) = Sum(a, k) + a[k + 1] BY SumStep
  <2>2. k <= n /\ k + 1 \in 1 .. n /\ k + 1 \in 1 .. k + 1
        /\ \A i \in 1 .. k : i \in 1 .. n /\ i \in 1 .. k + 1 /\ i # k + 1
    OBVIOUS
  <2>3. \A d : (\A i \in 1 .. m : d[i] \in Nat) /\ Covers(d, k) => Sum(a, k) <= Sum(d, m)
    BY <1>2, <2>2
  <2>4. \A i \in 1 .. k : a[i] \in Nat BY <2>2
  <2>5. Sum(a, k) \in Nat BY <2>4, SumNat
  <2>6. \A i \in 1 .. m : b[i] \in Nat OBVIOUS
  <2>7. Sum(b, m) \in Nat BY <2>6, SumNat
  <2>8. CASE a[k + 1] = 0
    <3>1. Covers(b, k) BY <2>2
    <3>2. Sum(a, k) <= Sum(b, m) BY <2>3, <3>1
    <3> HIDE DEF S
    <3> QED BY <2>1, <2>5, <2>8, <3>2
  <2>9. CASE a[k + 1] # 0
    <3> DEFINE g == f[k + 1]
    <3>1. g \in 1 .. m /\ a[k + 1] <= b[g] BY <2>2, <2>9
    <3>2. PICK d :
            /\ \A i \in 1 .. m : d[i] \in Nat
            /\ d[g] = 0 /\ \A i \in 1 .. m : i # g => d[i] = b[i]
            /\ Sum(d, m) = Sum(b, m) - b[g]
      BY <2>6, <3>1, SumWithout
    <3>3. \A i \in 1 .. k : a[i] # 0 => f[i] \in 1 .. m /\ f[i] # g BY <2>2, <2>9
    <3>4. Covers(d, k) BY <2>2, <3>2, <3>3
    <3>5. Sum(a, k) <= Sum(d, m) BY <2>3, <3>2, <3>4
    <3>6. b[g] \in Nat /\ a[k + 1] \in Nat BY <2>2, <2>6, <3>1
    <3> HIDE DEF g, S, Covers
    <3> QED BY <2>1, <2>5, <2>7, <3>1, <3>2, <3>5, <3>6
  <2> QED BY <2>8, <2>9
<1>3. Nat \subseteq S
  <2> HIDE DEF S
  <2> QED BY <1>1, <1>2, NatSetInduction
<1>4. n \in S BY <1>3
<1>5. Covers(c, n) OBVIOUS
<1> QED BY <1>4, <1>5

-----------------------------------------------------------------------------
(* Proportional shares.                                                    *)

\* What integer division rounds off.
LEMMA DivBounds ==
  ASSUME NEW a \in Nat, NEW b \in Nat, b > 0
  PROVE  /\ a \div b \in Nat
         /\ b * (a \div b) <= a
         /\ a < b * (a \div b) + b
OBVIOUS

\* Multiplication by a natural number is monotone.
LEMMA MulMono == ASSUME NEW a \in Int, NEW b \in Int, NEW c \in Nat, a <= b PROVE c * a <= c * b
<1>1. (b - a) \in Nat OBVIOUS
<1>2. c * (b - a) \in Nat BY <1>1
<1>3. c * (b - a) = c * b - c * a OBVIOUS
<1>4. c * b \in Int /\ c * a \in Int OBVIOUS
<1> DEFINE x == c * b
<1> DEFINE y == c * a
<1> HIDE DEF x, y
<1> QED BY <1>2, <1>3, <1>4 DEF x, y

\* the floor of a proportional share leaves room on the other leg
LEMMA ShareBounds ==
  ASSUME NEW total \in Nat, total > 0, NEW earning \in 0 .. total, NEW part \in 0 .. total
  PROVE  LET share == (part * earning) \div total
         IN  /\ share \in 0 .. earning
             /\ part - share \in 0 .. total - earning
<1> DEFINE prod == part * earning
<1> DEFINE share == prod \div total
<1>0. prod \in Nat OBVIOUS
<1>1. share \in Nat /\ total * share <= prod /\ prod < total * share + total
  <2> HIDE DEF prod
  <2> QED BY <1>0, DivBounds
<1> HIDE DEF share
<1>2. prod <= total * earning
  <2>1. earning * part <= earning * total BY MulMono
  <2> QED BY <2>1
<1>3. prod <= total * part
  <2>1. part * earning <= part * total BY MulMono
  <2> QED BY <2>1
<1>4. share <= earning
  <2> SUFFICES ASSUME share >= earning + 1 PROVE FALSE BY <1>1
  <2>1. total * (earning + 1) <= total * share BY <1>1, MulMono
  <2>2. total * (earning + 1) = total * earning + total OBVIOUS
  <2> HIDE DEF prod
  <2> DEFINE a == total * share
  <2> DEFINE b == total * earning
  <2>3. a \in Int /\ b \in Int BY <1>1
  <2> HIDE DEF a, b
  <2>4. a <= prod /\ prod <= b /\ total * (earning + 1) <= a /\ total * (earning + 1) = b + total
     BY <1>1, <1>2, <2>1, <2>2 DEF a, b
  <2> QED BY <2>3, <2>4, <1>0
<1>5. share <= part
  <2> SUFFICES ASSUME share >= part + 1 PROVE FALSE BY <1>1
  <2>1. total * (part + 1) <= total * share BY <1>1, MulMono
  <2>2. total * (part + 1) = total * part + total OBVIOUS
  <2> HIDE DEF prod
  <2> DEFINE a == total * share
  <2> DEFINE b == total * part
  <2>3. a \in Int /\ b \in Int BY <1>1
  <2> HIDE DEF a, b
  <2>4. a <= prod /\ prod <= b /\ total * (part + 1) <= a /\ total * (part + 1) = b + total
     BY <1>1, <1>3, <2>1, <2>2 DEF a, b
  <2> QED BY <2>3, <2>4, <1>0
<1>6. part - share <= total - earning
  <2> SUFFICES ASSUME share <= part + earning - total - 1 PROVE FALSE BY <1>1
  <2>1. total * share <= total * (part + earning - total - 1) BY <1>1, MulMono
  <2>2. total * (part + earning - total - 1) = total * (part + earning - total) - total
    OBVIOUS
  <2>3. prod - total * (part + earning - total) = (total - part) * (total - earning)
    OBVIOUS
  <2>4. (total - part) * (total - earning) \in Nat
    <3>1. total - part \in Nat /\ total - earning \in Nat OBVIOUS
    <3> DEFINE x == total - part
    <3> DEFINE y == total - earning
    <3> HIDE DEF x, y
    <3> QED BY <3>1 DEF x, y
  <2> DEFINE a == total * share
  <2> DEFINE b == total * (part + earning - total)
  <2> DEFINE c == (total - part) * (total - earning)
  <2>5. a \in Int /\ b \in Int BY <1>1
  <2>6. a <= b - total /\ prod - b = c /\ c \in Nat /\ prod < a + total
    BY <2>1, <2>2, <2>3, <2>4, <1>1
  <2> HIDE DEF a, b, c, prod
  <2> QED BY <2>5, <2>6, <1>0
<1> QED BY <1>1, <1>4, <1>5, <1>6 DEF share

\* Two proportional shares, rounded down, differ by no more than the parts.
LEMMA ShareGrows ==
  ASSUME NEW total \in Nat, total > 0, NEW earning \in 0 .. total,
         NEW part \in Nat, NEW more \in Nat
  PROVE  LET share(x) == (x * earning) \div total
         IN  share(part + more) - share(part) \in 0 .. more
<1> DEFINE old == part * earning
<1> DEFINE add == more * earning
<1> DEFINE d == old \div total
<1> DEFINE t == ((part + more) * earning) \div total
<1>1. old \in Nat /\ add \in Nat /\ (part + more) * earning = old + add
  OBVIOUS
<1>2. add <= total * more
  <2>1. more * earning <= more * total BY MulMono
  <2> QED BY <2>1
<1> HIDE DEF old, add
<1>3. d \in Nat /\ total * d <= old /\ old < total * d + total
  BY <1>1, DivBounds
<1>4. t \in Nat /\ total * t <= old + add /\ old + add < total * t + total
  BY <1>1, DivBounds
<1> HIDE DEF d, t
<1>5. t >= d
  <2> SUFFICES ASSUME t + 1 <= d PROVE FALSE BY <1>3, <1>4
  <2>1. total * (t + 1) <= total * d BY <1>3, <1>4, MulMono
  <2>2. total * (t + 1) = total * t + total BY <1>4
  <2> DEFINE a == total * t
  <2> DEFINE b == total * d
  <2>3. a \in Int /\ b \in Int BY <1>3, <1>4
  <2>4. a + total <= b /\ b <= old /\ old + add < a + total BY <2>1, <2>2, <1>3, <1>4
  <2> HIDE DEF a, b
  <2> QED BY <2>3, <2>4, <1>1
<1>6. t <= d + more
  <2> SUFFICES ASSUME d + more + 1 <= t PROVE FALSE BY <1>3, <1>4
  <2>1. total * (d + more + 1) <= total * t BY <1>3, <1>4, MulMono
  <2>2. total * (d + more + 1) = total * d + total * more + total BY <1>3
  <2> DEFINE a == total * t
  <2> DEFINE b == total * d
  <2> DEFINE c == total * more
  <2>3. a \in Int /\ b \in Int /\ c \in Int BY <1>3, <1>4
  <2>4. b + c + total <= a /\ a <= old + add /\ old < b + total /\ add <= c
    BY <2>1, <2>2, <1>2, <1>3, <1>4
  <2> HIDE DEF a, b, c
  <2> QED BY <2>3, <2>4, <1>1
<1> QED BY <1>3, <1>4, <1>5, <1>6 DEF d, t, old

-----------------------------------------------------------------------------
(* allocateRefund.                                                         *)

SoFar == [refunded : Nat, driver : Nat, platform : Nat]

\* Claims 1 and 4 of allocateRefund, and what its checks are there for: the
\* parts are natural numbers that add up to the refund, neither leg gives
\* back more than it has left, and a full refund empties both exactly.
THEOREM AllocateReverses ==
  ASSUME NEW total \in Nat, total > 0, NEW earning \in 0 .. total, NEW soFar \in SoFar,
         NEW refund \in Nat, Allocatable(total, earning, soFar, refund)
  PROVE  LET split == Allocate(total, earning, soFar, refund)
         IN  /\ split.driver \in 0 .. refund
             /\ split.platform \in 0 .. refund
             /\ split.driver + split.platform = refund
             /\ soFar.driver + split.driver <= earning
             /\ soFar.platform + split.platform <= total - earning
             /\ soFar.refunded + refund = total =>
                  /\ soFar.driver + split.driver = earning
                  /\ soFar.platform + split.platform = total - earning
<1> DEFINE t == ((soFar.refunded + refund) * earning) \div total
<1>1. t \in Int BY DEF Allocatable, SoFar
<1> HIDE DEF t
<1> DEFINE split == Allocate(total, earning, soFar, refund)
<1>2. /\ split.driver \in 0 .. refund
      /\ split.platform \in 0 .. refund
      /\ split.driver + split.platform = refund
      /\ soFar.driver + split.driver <= earning
      /\ soFar.platform + split.platform <= total - earning
  BY <1>1 DEF Allocate, Allocatable, Lesser, Greater, SoFar, t
<1> HIDE DEF split
<1>3. ASSUME soFar.refunded + refund = total
      PROVE  /\ soFar.driver + split.driver = earning
             /\ soFar.platform + split.platform = total - earning
  BY <1>2, <1>3 DEF Allocatable, SoFar
<1> QED BY <1>2, <1>3 DEF split

\* The platform's leg always covers its part: the branch of allocateRefund
\* that moves an overflow to the driver never runs.
THEOREM PlatformCoversItsPart ==
  ASSUME NEW total \in Nat, total > 0, NEW earning \in 0 .. total, NEW soFar \in SoFar,
         NEW refund \in Nat, Allocatable(total, earning, soFar, refund)
  PROVE  Allocate(total, earning, soFar, refund)
            = AllocateWithoutOverflow(total, earning, soFar, refund)
<1> DEFINE sum == soFar.refunded + refund
<1> DEFINE t == (sum * earning) \div total
<1>1. sum \in 0 .. total BY DEF Allocatable, SoFar
<1>2. t \in 0 .. earning /\ sum - t \in 0 .. total - earning
  <2> HIDE DEF sum
  <2> QED BY <1>1, ShareBounds
<1> DEFINE share == Lesser(Greater(t - soFar.driver, 0), Lesser(refund, earning - soFar.driver))
<1> DEFINE overflow == Greater(refund - share - (total - earning - soFar.platform), 0)
<1>3. Allocate(total, earning, soFar, refund)
        = [driver |-> share + overflow, platform |-> refund - share - overflow]
  BY DEF Allocate
<1>4. AllocateWithoutOverflow(total, earning, soFar, refund)
        = [driver |-> share, platform |-> refund - share]
  BY DEF AllocateWithoutOverflow
<1>5. sum = soFar.driver + soFar.platform + refund /\ soFar.driver \in 0 .. earning
      /\ soFar.platform \in 0 .. total - earning
  BY DEF Allocatable
<1> HIDE DEF sum, t
<1>6. share \in Int /\ overflow = 0 BY <1>1, <1>2, <1>5 DEF Lesser, Greater
<1> HIDE DEF share, overflow
<1> QED BY <1>3, <1>4, <1>6

\* Claims 3 and 5 of allocateRefund, for refunds of which none was undone: when
\* the driver gave back the rounded down share of what was refunded so far,
\* that is so again after the next refund.   After a refund in the middle was
\* undone it need not be so.
THEOREM AllocateIsProportional ==
  ASSUME NEW total \in Nat, total > 0, NEW earning \in 0 .. total, NEW soFar \in SoFar,
         NEW refund \in Nat, Allocatable(total, earning, soFar, refund),
         soFar.driver = (soFar.refunded * earning) \div total
  PROVE  soFar.driver + Allocate(total, earning, soFar, refund).driver
            = ((soFar.refunded + refund) * earning) \div total
<1> DEFINE sum == soFar.refunded + refund
<1> DEFINE t == (sum * earning) \div total
<1>1. sum \in 0 .. total /\ soFar.refunded \in Nat BY DEF Allocatable, SoFar
<1>2. t \in 0 .. earning /\ sum - t \in 0 .. total - earning
  <2> HIDE DEF sum
  <2> QED BY <1>1, ShareBounds
<1>3. t - soFar.driver \in 0 .. refund BY <1>1, ShareGrows
<1> HIDE DEF t
<1>4. Allocate(total, earning, soFar, refund)
            = AllocateWithoutOverflow(total, earning, soFar, refund)
  BY PlatformCoversItsPart
<1>5. AllocateWithoutOverflow(total, earning, soFar, refund).driver = t - soFar.driver
  BY <1>2, <1>3 DEF AllocateWithoutOverflow, Allocatable, Lesser, Greater, SoFar, t
<1>6. t \in Int /\ soFar.driver \in Int BY <1>2 DEF SoFar
<1> QED BY <1>4, <1>5, <1>6 DEF t

-----------------------------------------------------------------------------
(* The inductive invariant.                                                *)

TypeInv ==
    /\ payment \in [status : PaymentStatus, refunded : 0 .. Amount]
    /\ refunds \in [Records -> Refund]
    /\ ledger \in [rider : Int, driver : Int, platform : Int]
    /\ gateway \in [GatewayRefunds ->
                      [status : GatewayStatus \cup {"none"}, amount : 0 .. Amount]]
    /\ lock \in Processes \cup {Nobody}
    /\ proc \in [Processes -> Process]
    /\ expiries \in 0 .. MaxExpiries
    /\ told \subseteq Dashboard

\* While no lock expired under its holder, who works holds the lock.
LockInv == expiries = 0 => \A p \in Processes : proc[p].pc # "idle" => lock = p

\* A record that was pushed has an amount and a split of it; it may carry the
\* gateway's id of its own refund, or of one issued on the dashboard, and then
\* it was never sent itself.
RecordInv == \A r \in Records :
    /\ refunds[r].status # "none" =>
        /\ refunds[r].amount > 0
        /\ refunds[r].driver + refunds[r].platform = refunds[r].amount
    /\ refunds[r].status = "none" => refunds[r].gatewayId = 0
    /\ refunds[r].gatewayId \in {0, r} \cup Dashboard
    /\ refunds[r].gatewayId \in Dashboard => gateway[r].status = "none"

SplitsAddUp == RecordedDriver + RecordedPlatform = RecordedRefunds

GatewayInv == \A g \in GatewayRefunds : gateway[g].status # "none" =>
    /\ gateway[g].amount > 0
    /\ g \in Records => refunds[g].status # "none"

DashboardInv == expiries = 0 => \A r, q \in Records :
    refunds[r].gatewayId = refunds[q].gatewayId /\ refunds[r].gatewayId \in Dashboard => r = q

\* What a process in state s knows at each program counter.
Undoing(s) ==
    \/ s.pc \in {"reload", "undo"}
    \/ s.pc = "locked" /\ s.op = "abandon"
KnowsRefund(s) ==
    /\ s.pc = "locked" /\ s.op = "refund" => s.amount > 0 /\ s.gatewayId = 0
    /\ s.pc = "book" =>
        /\ s.amount > 0
        /\ s.seen.refunded + s.amount <= Amount
        /\ s.split.driver + s.split.platform = s.amount
        /\ \/ s.op = "refund" /\ s.gatewayId = 0
           \/ s.op = "event" /\ s.gatewayId \in Dashboard
    /\ s.pc = "undo" => refunds[s.record].amount <= s.seen.refunded
KnowsRecord(s) ==
    /\ s.pc \in {"send", "settle", "update"} \/ Undoing(s) => s.record \in Records
    /\ s.record \in Records => refunds[s.record].status # "none"
KnowsGateway(s) ==
    /\ s.pc = "locked" /\ s.op = "event" =>
        /\ s.gatewayId \in GatewayRefunds
        /\ gateway[s.gatewayId].status # "none"
        /\ s.report = "failed" => gateway[s.gatewayId].status = "failed"
    /\ s.pc = "settle" =>
        /\ s.gatewayId = s.record
        /\ gateway[s.record].status # "none"
        /\ s.report = "failed" => gateway[s.record].status = "failed"
    /\ s.pc = "update" =>
        \/ s.gatewayId = s.record /\ gateway[s.record].status # "none"
        \/ s.gatewayId \in Dashboard /\ refunds[s.record].gatewayId = s.gatewayId
    /\ Undoing(s) => gateway[s.record].status \in {"none", "failed"}

\* A record on its way to the gateway is booked and unanswered.
Unsent(s) == s.pc = "send" =>
    /\ LiveRefund(s.record)
    /\ refunds[s.record].gatewayId = 0
    /\ refunds[s.record].amount = s.amount
    /\ gateway[s.record].status = "none"

\* While the lock held, what was read of the payment before booking is true.
Fresh(s) == expiries = 0 /\ s.pc = "book" =>
    /\ payment = s.seen
    /\ RefundTotals.driver + s.split.driver <= DriverEarning
    /\ RefundTotals.platform + s.split.platform <= Amount - DriverEarning
    /\ s.op = "event" => \A r \in Records : refunds[r].gatewayId # s.gatewayId

Fits(s) == KnowsRefund(s) /\ KnowsRecord(s) /\ KnowsGateway(s) /\ Unsent(s) /\ Fresh(s)

\* The record on its way is known to its sender alone.
SenderAlone == \A p, q \in Processes :
    proc[p].pc = "send" /\ p # q => proc[q].record # proc[p].record

\* The parts about the documents, and the parts about the processes.
DocInv == /\ BooksAgree /\ StatusFollowsTotal /\ RecordInv /\ SplitsAddUp
          /\ GatewayInv /\ SentRefundIsBooked /\ DashboardInv /\ LegsWithinFare
ProcInv == SenderAlone /\ \A p \in Processes : Fits(proc[p])

IInv == TypeInv /\ LockInv /\ DocInv /\ ProcInv

-----------------------------------------------------------------------------
(* Sums over the records.                                                  *)

\* The constants, as the arithmetic needs them.
LEMMA Constants ==
  /\ Amount \in Nat /\ Amount > 0 /\ DriverEarning \in 0 .. Amount /\ Legacy \in 0 .. Amount
  /\ MaxRecords \in Nat /\ Records = 1 .. MaxRecords /\ Records \subseteq GatewayRefunds
  /\ Records \cap Dashboard = {} /\ 0 \notin GatewayRefunds /\ Dashboard \subseteq GatewayRefunds
  /\ Records \subseteq Nat
BY RefundsAssumption DEF Records, Dashboard, GatewayRefunds

\* The recorded sums are numbers, none smaller than a live record's share.
LEMMA RecordedNat ==
  TypeInv =>
    /\ RecordedRefunds \in Nat /\ RecordedDriver \in Nat /\ RecordedPlatform \in Nat
    /\ \A r \in Records : LiveRefund(r) =>
        /\ refunds[r].amount <= RecordedRefunds
        /\ refunds[r].driver <= RecordedDriver
        /\ refunds[r].platform <= RecordedPlatform
<1> SUFFICES ASSUME TypeInv
             PROVE  /\ RecordedRefunds \in Nat /\ RecordedDriver \in Nat
                    /\ RecordedPlatform \in Nat
                    /\ \A r \in Records : LiveRefund(r) =>
                        /\ refunds[r].amount <= RecordedRefunds
                        /\ refunds[r].driver <= RecordedDriver
                        /\ refunds[r].platform <= RecordedPlatform
    OBVIOUS
<1>1. \A r \in Records : /\ refunds[r].amount \in Nat
                         /\ refunds[r].driver \in Nat
                         /\ refunds[r].platform \in Nat
  BY Constants DEF TypeInv, Refund
<1> DEFINE a == [r \in Records |-> IF LiveRefund(r) THEN refunds[r].amount ELSE 0]
<1> DEFINE d == [r \in Records |-> IF LiveRefund(r) THEN refunds[r].driver ELSE 0]
<1> DEFINE e == [r \in Records |-> IF LiveRefund(r) THEN refunds[r].platform ELSE 0]
<1>2. \A r \in 1 .. MaxRecords : a[r] \in Nat /\ d[r] \in Nat /\ e[r] \in Nat
  BY <1>1, Constants
<1>3. \A r \in Records : LiveRefund(r) =>
        a[r] = refunds[r].amount /\ d[r] = refunds[r].driver /\ e[r] = refunds[r].platform
  OBVIOUS
<1>4. /\ RecordedRefunds = Sum(a, MaxRecords)
      /\ RecordedDriver = Sum(d, MaxRecords)
      /\ RecordedPlatform = Sum(e, MaxRecords)
  BY DEF RecordedRefunds, RecordedDriver, RecordedPlatform
<1> HIDE DEF a, d, e
<1>5. Sum(a, MaxRecords) \in Nat /\ \A r \in 1 .. MaxRecords : a[r] <= Sum(a, MaxRecords)
  BY <1>2, SumNat, Constants
<1>6. Sum(d, MaxRecords) \in Nat /\ \A r \in 1 .. MaxRecords : d[r] <= Sum(d, MaxRecords)
  BY <1>2, SumNat, Constants
<1>7. Sum(e, MaxRecords) \in Nat /\ \A r \in 1 .. MaxRecords : e[r] <= Sum(e, MaxRecords)
  BY <1>2, SumNat, Constants
<1> QED BY <1>3, <1>4, <1>5, <1>6, <1>7, Constants

\* The sum over the records when one of them changes.
LEMMA RecordsChange ==
  ASSUME NEW r \in 1 .. MaxRecords, NEW v, NEW w,
         \A q \in 1 .. MaxRecords : v[q] \in Nat /\ w[q] \in Nat,
         \A q \in 1 .. MaxRecords : q # r => w[q] = v[q]
  PROVE  Sum(w, MaxRecords) = Sum(v, MaxRecords) - v[r] + w[r]
BY RefundsAssumption, SumChange

\* How the sums change when one record does.
LEMMA RecordedChange ==
  ASSUME TypeInv, TypeInv', NEW r \in Records,
         \A q \in Records : q # r => refunds'[q] = refunds[q]
  PROVE  /\ RecordedRefunds' = RecordedRefunds
                - (IF LiveRefund(r) THEN refunds[r].amount ELSE 0)
                + (IF LiveRefund(r)' THEN refunds'[r].amount ELSE 0)
         /\ RecordedDriver' = RecordedDriver
                - (IF LiveRefund(r) THEN refunds[r].driver ELSE 0)
                + (IF LiveRefund(r)' THEN refunds'[r].driver ELSE 0)
         /\ RecordedPlatform' = RecordedPlatform
                - (IF LiveRefund(r) THEN refunds[r].platform ELSE 0)
                + (IF LiveRefund(r)' THEN refunds'[r].platform ELSE 0)
<1>1. \A q \in Records : /\ refunds[q].amount \in Nat /\ refunds'[q].amount \in Nat
                         /\ refunds[q].driver \in Nat /\ refunds'[q].driver \in Nat
                         /\ refunds[q].platform \in Nat /\ refunds'[q].platform \in Nat
  <2> SUFFICES ASSUME NEW q \in Records
               PROVE  /\ refunds[q].amount \in Nat /\ refunds'[q].amount \in Nat
                      /\ refunds[q].driver \in Nat /\ refunds'[q].driver \in Nat
                      /\ refunds[q].platform \in Nat /\ refunds'[q].platform \in Nat
      OBVIOUS
  <2>1. refunds[q] \in Refund /\ refunds'[q] \in Refund BY DEF TypeInv
  <2> QED BY <2>1, Constants DEF Refund
<1>2. \A q \in Records : q # r => LiveRefund(q)' = LiveRefund(q)
  BY DEF LiveRefund
<1> DEFINE a == [q \in Records |-> IF LiveRefund(q) THEN refunds[q].amount ELSE 0]
<1> DEFINE d == [q \in Records |-> IF LiveRefund(q) THEN refunds[q].driver ELSE 0]
<1> DEFINE e == [q \in Records |-> IF LiveRefund(q) THEN refunds[q].platform ELSE 0]
<1> DEFINE b == [q \in Records |-> IF LiveRefund(q)' THEN refunds'[q].amount ELSE 0]
<1> DEFINE f == [q \in Records |-> IF LiveRefund(q)' THEN refunds'[q].driver ELSE 0]
<1> DEFINE g == [q \in Records |-> IF LiveRefund(q)' THEN refunds'[q].platform ELSE 0]
<1>3. \A q \in 1 .. MaxRecords : /\ a[q] \in Nat /\ b[q] \in Nat /\ d[q] \in Nat
                                 /\ f[q] \in Nat /\ e[q] \in Nat /\ g[q] \in Nat
  BY <1>1, Constants
<1>4. \A q \in 1 .. MaxRecords : q # r => b[q] = a[q] /\ f[q] = d[q] /\ g[q] = e[q]
  BY <1>2, Constants
<1>5. /\ a[r] = IF LiveRefund(r) THEN refunds[r].amount ELSE 0
      /\ d[r] = IF LiveRefund(r) THEN refunds[r].driver ELSE 0
      /\ e[r] = IF LiveRefund(r) THEN refunds[r].platform ELSE 0
      /\ b[r] = IF LiveRefund(r)' THEN refunds'[r].amount ELSE 0
      /\ f[r] = IF LiveRefund(r)' THEN refunds'[r].driver ELSE 0
      /\ g[r] = IF LiveRefund(r)' THEN refunds'[r].platform ELSE 0
  OBVIOUS
<1>6. /\ RecordedRefunds = Sum(a, MaxRecords) /\ RecordedRefunds' = Sum(b, MaxRecords)
      /\ RecordedDriver = Sum(d, MaxRecords) /\ RecordedDriver' = Sum(f, MaxRecords)
      /\ RecordedPlatform = Sum(e, MaxRecords) /\ RecordedPlatform' = Sum(g, MaxRecords)
  BY DEF RecordedRefunds, RecordedDriver, RecordedPlatform
<1> HIDE DEF a, b, d, e, f, g
<1>7. r \in 1 .. MaxRecords BY Constants
<1>8. Sum(b, MaxRecords) = Sum(a, MaxRecords) - a[r] + b[r]
  <2>1. \A q \in 1 .. MaxRecords : a[q] \in Nat /\ b[q] \in Nat BY <1>3
  <2>2. \A q \in 1 .. MaxRecords : q # r => b[q] = a[q] BY <1>4
  <2> QED BY <1>7, <2>1, <2>2, RecordsChange
<1>9. Sum(f, MaxRecords) = Sum(d, MaxRecords) - d[r] + f[r]
  <2>1. \A q \in 1 .. MaxRecords : d[q] \in Nat /\ f[q] \in Nat BY <1>3
  <2>2. \A q \in 1 .. MaxRecords : q # r => f[q] = d[q] BY <1>4
  <2> QED BY <1>7, <2>1, <2>2, RecordsChange
<1>10. Sum(g, MaxRecords) = Sum(e, MaxRecords) - e[r] + g[r]
  <2>1. \A q \in 1 .. MaxRecords : e[q] \in Nat /\ g[q] \in Nat BY <1>3
  <2>2. \A q \in 1 .. MaxRecords : q # r => g[q] = e[q] BY <1>4
  <2> QED BY <1>7, <2>1, <2>2, RecordsChange
<1> QED BY <1>5, <1>6, <1>8, <1>9, <1>10

\* The driver's part of the legacy refunds.
LegacyPart == LegacyDriver(Amount, DriverEarning, Legacy)
\* Both legs of the fare cover their part of the legacy refunds.
LEMMA LegacyFits ==
  LegacyPart \in 0 .. DriverEarning /\ Legacy - LegacyPart \in 0 .. Amount - DriverEarning
BY Constants, ShareBounds DEF LegacyPart, LegacyDriver

\* What computeRefundTotals returns when the books agree.
LEMMA Totals ==
  TypeInv /\ BooksAgree =>
    /\ RefundTotals.refunded = payment.refunded
    /\ RefundTotals.driver = RecordedDriver + LegacyPart
    /\ RefundTotals.platform = RecordedPlatform + (Legacy - LegacyPart)
<1> SUFFICES ASSUME TypeInv, BooksAgree
             PROVE  /\ RefundTotals.refunded = payment.refunded
                    /\ RefundTotals.driver = RecordedDriver + LegacyPart
                    /\ RefundTotals.platform = RecordedPlatform + (Legacy - LegacyPart)
    OBVIOUS
<1>1. payment.refunded - RecordedRefunds = Legacy
  BY RecordedNat, Constants DEF BooksAgree
<1> QED BY <1>1 DEF RefundTotals, LegacyPart

\* The same of the next state.
LEMMA TotalsNext ==
  TypeInv' /\ BooksAgree' =>
    (/\ RefundTotals.refunded = payment.refunded
     /\ RefundTotals.driver = RecordedDriver + LegacyPart
     /\ RefundTotals.platform = RecordedPlatform + (Legacy - LegacyPart))'
BY Totals, PTL

-----------------------------------------------------------------------------
(* Steps that leave the documents and the gateway alone.                   *)

documents == <<payment, refunds, ledger, gateway>>

\* The totals are a function of the payment document.
LEMMA TotalsFrame ==
  ASSUME UNCHANGED refunds
  PROVE  /\ RecordedRefunds' = RecordedRefunds
         /\ RecordedDriver' = RecordedDriver
         /\ RecordedPlatform' = RecordedPlatform
         /\ payment' = payment => RefundTotals' = RefundTotals
<1>1. /\ RecordedRefunds' = RecordedRefunds
      /\ RecordedDriver' = RecordedDriver
      /\ RecordedPlatform' = RecordedPlatform
  BY DEF RecordedRefunds, RecordedDriver, RecordedPlatform, LiveRefund
<1> QED BY <1>1 DEF RefundTotals

\* What is said of the documents stays true.
LEMMA DocFrame ==
  ASSUME DocInv, UNCHANGED documents, expiries' = 0 => expiries = 0
  PROVE  DocInv'
<1>1. UNCHANGED <<payment, refunds, ledger, gateway>> BY DEF documents
<1>2. /\ RecordedRefunds' = RecordedRefunds
      /\ RecordedDriver' = RecordedDriver
      /\ RecordedPlatform' = RecordedPlatform
      /\ RefundTotals' = RefundTotals
  BY <1>1, TotalsFrame
<1>3. BooksAgree' /\ StatusFollowsTotal' /\ SplitsAddUp' /\ LegsWithinFare'
  BY <1>1, <1>2 DEF DocInv, BooksAgree, StatusFollowsTotal, SplitsAddUp, LegsWithinFare
<1>4. RecordInv' /\ GatewayInv' BY <1>1 DEF DocInv, RecordInv, GatewayInv
<1>5. SentRefundIsBooked' /\ DashboardInv'
  BY <1>1 DEF DocInv, SentRefundIsBooked, DashboardInv, LiveRefund
<1> QED BY <1>3, <1>4, <1>5 DEF DocInv

\* What a process knows stays true.
LEMMA FitsFrame ==
  ASSUME NEW p \in Processes, NEW s, Fits(s), proc'[p] = s, UNCHANGED documents,
         expiries' = 0 => expiries = 0
  PROVE  Fits(proc[p])'
<1>1. UNCHANGED <<payment, refunds, ledger, gateway>> BY DEF documents
<1>2. RefundTotals' = RefundTotals BY <1>1, TotalsFrame
<1>3. KnowsRefund(proc[p])' BY <1>1 DEF Fits, KnowsRefund
<1>4. KnowsRecord(proc[p])' BY <1>1 DEF Fits, KnowsRecord, Undoing
<1>5. KnowsGateway(proc[p])' BY <1>1 DEF Fits, KnowsGateway, Undoing
<1>6. Unsent(proc[p])' BY <1>1 DEF Fits, Unsent, LiveRefund
<1>7. Fresh(proc[p])' BY <1>1, <1>2 DEF Fits, Fresh
<1> QED BY <1>3, <1>4, <1>5, <1>6, <1>7 DEF Fits

\* While the lock held, at most one process works.
LEMMA OthersIdle ==
  ASSUME IInv, expiries = 0, NEW p \in Processes, proc[p].pc # "idle" \/ lock = Nobody,
         NEW q \in Processes, q # p
  PROVE  proc[q].pc = "idle"
BY RefundsAssumption DEF IInv, LockInv, Processes

\* Process p goes to state s and knows enough for it.
Becomes(p, s) ==
    /\ proc[p].pc # "idle" \/ lock = Nobody
    /\ proc' = [proc EXCEPT ![p] = s]
    /\ s \in Process
    /\ s.pc = "send" => \A q \in Processes : q # p => proc[q].record # s.record
    /\ \/ s.record \in {0, proc[p].record}
       \/ \A q \in Processes : proc[q].pc = "send" => proc[q].record # s.record
    /\ lock' \in {lock, p, Nobody}
    /\ s.pc # "idle" => lock' \in {p, lock}
    /\ proc[p].pc = "idle" /\ s.pc # "idle" => lock' = p
    /\ told' \subseteq Dashboard
    /\ UNCHANGED expiries

\* The invariant but for the documents and the gateway.
LEMMA ProcFrame ==
  ASSUME IInv, NEW p \in Processes, NEW s, Becomes(p, s)
  PROVE  /\ lock' \in Processes \cup {Nobody}
         /\ proc' \in [Processes -> Process]
         /\ LockInv'
         /\ SenderAlone'
         /\ proc'[p] = s
         /\ \A q \in Processes : q # p => proc'[q] = proc[q]
<1>1. proc \in [Processes -> Process] /\ lock \in Processes \cup {Nobody}
  BY DEF IInv, TypeInv
<1>2. /\ proc'[p] = s
      /\ \A q \in Processes : q # p => proc'[q] = proc[q]
      /\ proc' \in [Processes -> Process]
      /\ lock' \in Processes \cup {Nobody}
  BY <1>1 DEF Becomes
<1>3. LockInv'
  <2> SUFFICES ASSUME expiries' = 0, NEW q \in Processes, proc'[q].pc # "idle"
               PROVE  lock' = q
      BY DEF LockInv
  <2>1. expiries = 0 BY DEF Becomes
  <2>2. q = p BY <1>2, <2>1, OthersIdle DEF Becomes
  <2>3. CASE proc[p].pc = "idle" BY <1>2, <2>2, <2>3 DEF Becomes
  <2>4. CASE proc[p].pc # "idle"
    <3>1. lock = p BY <2>1, <2>4 DEF IInv, LockInv
    <3> QED BY <1>2, <2>2, <3>1 DEF Becomes
  <2> QED BY <2>3, <2>4
<1>4. SenderAlone'
  <2> SUFFICES ASSUME NEW q1 \in Processes, NEW q2 \in Processes,
                      proc'[q1].pc = "send", q1 # q2
               PROVE  proc'[q2].record # proc'[q1].record
      BY DEF SenderAlone
  <2>1. CASE q1 = p BY <1>2, <2>1 DEF Becomes
  <2>2. CASE q1 # p
    <3>1. proc'[q1] = proc[q1] /\ proc[q1].pc = "send" BY <1>2, <2>2
    <3>2. proc[q1].record \in Records /\ proc[q1].record # 0
      BY <3>1, Constants DEF IInv, ProcInv, Fits, KnowsRecord
    <3>3. proc[q2].record # proc[q1].record BY <3>1 DEF IInv, ProcInv, SenderAlone
    <3> QED BY <1>2, <2>2, <3>1, <3>2, <3>3 DEF Becomes
  <2> QED BY <2>1, <2>2
<1> QED BY <1>2, <1>3, <1>4

\* A quiet step keeps the invariant.
LEMMA Quiet ==
  ASSUME IInv, NEW p \in Processes, NEW s, Becomes(p, s), Fits(s), UNCHANGED documents
  PROVE  IInv'
<1>1. /\ lock' \in Processes \cup {Nobody}
      /\ proc' \in [Processes -> Process]
      /\ LockInv'
      /\ SenderAlone'
      /\ proc'[p] = s
      /\ \A q \in Processes : q # p => proc'[q] = proc[q]
  BY ProcFrame
<1>2. UNCHANGED <<payment, refunds, ledger, gateway>> BY DEF documents
<1>3. expiries' = expiries /\ told' \subseteq Dashboard BY DEF Becomes
<1>4. TypeInv' BY <1>1, <1>2, <1>3 DEF IInv, TypeInv
<1>5. DocInv' BY <1>3, DocFrame DEF IInv
<1>6. ASSUME NEW q \in Processes PROVE Fits(proc[q])'
  <2>1. CASE q = p BY <1>1, <1>3, <2>1, FitsFrame
  <2>2. CASE q # p
    <3>1. Fits(proc[q]) /\ proc'[q] = proc[q] BY <1>1, <2>2 DEF IInv, ProcInv
    <3> QED BY <1>3, <3>1, FitsFrame
  <2> QED BY <2>1, <2>2
<1>7. ProcInv' BY <1>1, <1>6 DEF ProcInv
<1> QED BY <1>1, <1>4, <1>5, <1>7 DEF IInv

-----------------------------------------------------------------------------
(* Starting, ending and going on.                                          *)

\* Nothing needs to be known to be idle.
LEMMA IdleFits == Idle \in Process /\ Fits(Idle) /\ Idle.pc = "idle" /\ Idle.record = 0
<1>1. /\ Idle.pc = "idle" /\ Idle.record = 0 /\ 0 \notin Records
  BY Constants DEF Idle
<1>2. Idle \in Process
  BY RefundsAssumption
  DEF Idle, Process, PC, Op, GatewayStatus, Unseen, Unpaid, PaymentStatus, REFUNDABLE_STATUSES
<1>3. Fits(Idle)
  BY <1>1 DEF Fits, KnowsRefund, KnowsRecord, KnowsGateway, Undoing, Unsent, Fresh
<1> QED BY <1>1, <1>2, <1>3

\* A handler that throws or returns becomes idle.
LEMMA EndBecomes ==
  ASSUME IInv, NEW p \in Processes, proc[p].pc # "idle", Abort(p) \/ Finish(p),
         UNCHANGED expiries
  PROVE  Becomes(p, Idle)
<1>1. told' \subseteq Dashboard BY DEF Abort, Finish, IInv, TypeInv
<1>2. lock' \in {lock, p, Nobody} BY DEF Abort, Finish, Release
<1>3. proc' = [proc EXCEPT ![p] = Idle] BY DEF Abort, Finish
<1> QED BY <1>1, <1>2, <1>3, IdleFits DEF Becomes

\* Ending a handler is quiet.
LEMMA EndQuiet ==
  ASSUME IInv, NEW p \in Processes, proc[p].pc # "idle", Abort(p) \/ Finish(p),
         UNCHANGED <<payment, refunds, ledger, gateway, expiries>>
  PROVE  IInv'
BY EndBecomes, IdleFits, Quiet DEF documents

\* A handler that goes on under the lock.
LEMMA ContinueBecomes ==
  ASSUME IInv, NEW p \in Processes, NEW s \in Process, proc[p].pc # "idle", Continue(p, s),
         s.pc # "send", s.record \in {0, proc[p].record}
                        \/ \A q \in Processes : proc[q].pc = "send" => proc[q].record # s.record,
         UNCHANGED expiries
  PROVE  Becomes(p, s)
BY DEF Becomes, Continue, IInv, TypeInv

\* A handler that takes the lock.
LEMMA StartQuiet ==
  ASSUME IInv, NEW p \in Processes, NEW s \in Process, Start(p, s), Fits(s), s.pc # "send",
         \A q \in Processes : proc[q].pc = "send" => proc[q].record # s.record
  PROVE  IInv'
<1>1. Becomes(p, s) BY DEF Start, Becomes, IInv, TypeInv
<1>2. UNCHANGED documents BY DEF Start, documents
<1> QED BY <1>1, <1>2, Quiet

\* Who sends works on a record.
LEMMA SenderNamesRecord ==
  ASSUME IInv, NEW q \in Processes, proc[q].pc = "send"
  PROVE  /\ proc[q].record \in Records /\ proc[q].record # 0
         /\ refunds[proc[q].record].gatewayId = 0
         /\ gateway[proc[q].record].status = "none"
         /\ LiveRefund(proc[q].record)
BY Constants DEF IInv, ProcInv, Fits, KnowsRecord, Unsent

\* POST /payments/:id/refund takes the lock.
LEMMA StartRefundStep ==
  ASSUME IInv, NEW p \in Handlers, NEW amount \in 1 .. Amount, StartRefund(p, amount)
  PROVE  IInv'
<1> DEFINE s == [Idle EXCEPT !.pc = "locked", !.op = "refund", !.amount = amount]
<1>1. /\ s.pc = "locked" /\ s.op = "refund" /\ s.amount = amount
      /\ s.record = 0 /\ s.gatewayId = 0
  BY DEF Idle
<1>2. s \in Process
  <2>1. amount \in 0 .. Amount BY Constants
  <2> QED BY <2>1, IdleFits DEF Process, PC, Op
<1>3. Start(p, s) BY DEF StartRefund
<1> HIDE DEF s
<1>4. Fits(s)
  BY <1>1, Constants DEF Fits, KnowsRefund, KnowsRecord, KnowsGateway, Undoing, Unsent, Fresh
<1>5. p \in Processes BY DEF Processes
<1> QED BY <1>1, <1>2, <1>3, <1>4, <1>5, StartQuiet, SenderNamesRecord

\* A webhook, or the sweep with what it heard, takes the lock.
LEMMA StartEventStep ==
  ASSUME IInv, NEW p \in Processes, NEW g \in GatewayRefunds, NEW report, StartEvent(p, g, report)
  PROVE  IInv'
<1> DEFINE s == [Idle EXCEPT !.pc = "locked", !.op = "event", !.gatewayId = g,
                             !.report = report]
<1>1. /\ s.pc = "locked" /\ s.op = "event" /\ s.gatewayId = g
      /\ s.report = report /\ s.record = 0
  BY DEF Idle
<1>2. gateway[g].status \in GatewayStatus /\ report \in {"created", gateway[g].status}
  BY DEF StartEvent, IInv, TypeInv
<1>3. report \in GatewayStatus BY <1>2 DEF GatewayStatus
<1>4. s \in Process BY <1>3, IdleFits DEF Process, PC, Op
<1>5. Start(p, s) BY DEF StartEvent
<1> HIDE DEF s
<1>6. gateway[g].status # "none" BY DEF StartEvent
<1>7. Fits(s)
  BY <1>1, <1>2, <1>6, Constants
  DEF Fits, KnowsRefund, KnowsRecord, KnowsGateway, Undoing, Unsent, Fresh
<1> QED BY <1>1, <1>4, <1>5, <1>7, StartQuiet, SenderNamesRecord

\* The sweep takes the lock for a pending refund.
LEMMA SweepStep ==
  ASSUME IInv, NEW r \in Records, SweepRefund(r)
  PROVE  IInv'
<1>1. Sweep \in Processes BY DEF Processes
<1>2. ASSUME NEW g, g = IF refunds[r].gatewayId = 0 THEN r ELSE refunds[r].gatewayId,
             StartEvent(Sweep, g, gateway[g].status)
      PROVE  IInv'
  <2>1. g \in GatewayRefunds
    <3>1. refunds[r].gatewayId \in {0, r} \cup Dashboard BY DEF IInv, DocInv, RecordInv
    <3> QED BY <1>2, <3>1, Constants
  <2> QED BY <1>1, <1>2, <2>1, StartEventStep
<1>3. ASSUME refunds[r].gatewayId = 0, gateway[r].status = "none",
             \A p \in Handlers : ~(proc[p].pc = "send" /\ proc[p].record = r),
             Start(Sweep, [Idle EXCEPT !.pc = "locked", !.op = "abandon", !.record = r]),
             refunds[r].status = "PENDING"
      PROVE  IInv'
  <2> DEFINE s == [Idle EXCEPT !.pc = "locked", !.op = "abandon", !.record = r]
  <2>1. s.pc = "locked" /\ s.op = "abandon" /\ s.record = r BY DEF Idle
  <2>2. s \in Process BY IdleFits DEF Process, PC, Op
  <2>3. Start(Sweep, s) BY <1>3
  <2> HIDE DEF s
  <2>4. Fits(s)
    BY <1>3, <2>1 DEF Fits, KnowsRefund, KnowsRecord, KnowsGateway, Undoing, Unsent, Fresh
  <2>5. \A q \in Processes : proc[q].pc = "send" => proc[q].record # s.record
    <3>1. proc[Sweep].pc = "idle" BY <2>3 DEF Start
    <3> QED BY <1>3, <2>1, <3>1 DEF Processes
  <2> QED BY <1>1, <2>1, <2>2, <2>3, <2>4, <2>5, StartQuiet
<1>4. refunds[r].status = "PENDING" BY DEF SweepRefund
<1>5. CASE LET g == IF refunds[r].gatewayId = 0 THEN r ELSE refunds[r].gatewayId
           IN  StartEvent(Sweep, g, gateway[g].status)
  BY <1>2, <1>5
<1> QED BY <1>3, <1>4, <1>5 DEF SweepRefund

-----------------------------------------------------------------------------
(* Reading under the lock.                                                 *)

\* Records with a gateway id have a first one.
LEMMA RecordOfNamed ==
  ASSUME NEW g \in GatewayRefunds
  PROVE  /\ RecordsOf(g) # {} => RecordOf(g) \in RecordsOf(g)
         /\ RecordsOf(g) = {} => RecordOf(g) =
                (IF g \in Records /\ refunds[g].status # "none" THEN g ELSE 0)
<1>1. ASSUME RecordsOf(g) # {}
      PROVE  \E r \in RecordsOf(g) : \A q \in RecordsOf(g) : r <= q
  <2>1. RecordsOf(g) \subseteq Nat BY Constants DEF RecordsOf
  <2> DEFINE S == RecordsOf(g)
  <2> HIDE DEF S
  <2>2. S \subseteq Nat /\ S # {} BY <1>1, <2>1 DEF S
  <2>3. PICK m \in S : \A y \in S : ~ (<<y, m>> \in OpToRel(<, Nat))
    BY <2>2, WFMin, NatLessThanWellFounded
  <2>4. \A y \in S : m <= y
    <3> SUFFICES ASSUME NEW y \in S, y < m PROVE FALSE BY <2>2
    <3>1. y \in Nat /\ m \in Nat BY <2>2
    <3>2. <<y, m>> \in OpToRel(<, Nat) BY <3>1 DEF OpToRel
    <3> QED BY <2>3, <3>2
  <2> QED BY <2>4 DEF S
<1> QED BY <1>1 DEF RecordOf

\* What is known of the record of a gateway refund, and when there is none.
LEMMA RecordOfEvent ==
  ASSUME IInv, NEW g \in GatewayRefunds, gateway[g].status # "none"
  PROVE  /\ RecordOf(g) # 0 =>
              /\ RecordOf(g) \in Records
              /\ refunds[RecordOf(g)].status # "none"
              /\ RecordOf(g) = g \/ (g \in Dashboard /\ refunds[RecordOf(g)].gatewayId = g)
              /\ \A q \in Processes : proc[q].pc = "send" => proc[q].record # RecordOf(g)
         /\ RecordOf(g) = 0 =>
              /\ g \in Dashboard
              /\ \A r \in Records : refunds[r].gatewayId # g
<1>0. GatewayRefunds = Records \cup Dashboard /\ g # 0 BY Constants DEF GatewayRefunds
<1>1. CASE RecordsOf(g) # {}
  <2> DEFINE r == RecordOf(g)
  <2>1. r \in Records /\ refunds[r].gatewayId = g BY <1>1, RecordOfNamed DEF RecordsOf
  <2> HIDE DEF r
  <2>2. r # 0 BY <2>1, Constants
  <2>3. refunds[r].status # "none" BY <1>0, <2>1 DEF IInv, DocInv, RecordInv
  <2>4. r = g \/ g \in Dashboard BY <1>0, <2>1 DEF IInv, DocInv, RecordInv
  <2>5. \A q \in Processes : proc[q].pc = "send" => proc[q].record # r
    BY <1>0, <2>1, SenderNamesRecord
  <2> QED BY <2>1, <2>2, <2>3, <2>4, <2>5 DEF r
<1>2. CASE RecordsOf(g) = {}
  <2>1. \A r \in Records : refunds[r].gatewayId # g BY <1>2 DEF RecordsOf
  <2>2. CASE g \in Records /\ refunds[g].status # "none"
    <3>1. RecordOf(g) = g BY <1>2, <2>2, RecordOfNamed
    <3>2. \A q \in Processes : proc[q].pc = "send" => proc[q].record # g
      BY SenderNamesRecord
    <3> QED BY <1>0, <2>2, <3>1, <3>2
  <2>3. CASE ~(g \in Records /\ refunds[g].status # "none")
    <3>1. RecordOf(g) = 0 BY <1>2, <2>3, RecordOfNamed
    <3>2. g \notin Records BY <2>3 DEF IInv, DocInv, GatewayInv
    <3> QED BY <1>0, <2>1, <3>1, <3>2
  <2> QED BY <2>2, <2>3
<1> QED BY <1>1, <1>2

\* computeRefundTotals and allocateRefund under the lock.
LEMMA ToBookStep ==
  ASSUME IInv, NEW p \in Processes, NEW amount \in 0 .. Amount, ToBook(p, amount),
         proc[p].pc = "locked", proc[p].op \in {"refund", "event"},
         proc[p].op = "refund" => proc[p].gatewayId = 0,
         proc[p].op = "event" =>
            /\ proc[p].gatewayId \in Dashboard
            /\ \A r \in Records : refunds[r].gatewayId # proc[p].gatewayId,
         UNCHANGED <<payment, refunds, ledger, gateway, expiries>>
  PROVE  IInv'
<1> DEFINE split == Allocate(Amount, DriverEarning, RefundTotals, amount)
<1> DEFINE s == [proc[p] EXCEPT !.pc = "book", !.amount = amount, !.seen = payment,
                                !.split = split]
<1>0. proc[p] \in Process /\ payment \in [status : PaymentStatus, refunded : 0 .. Amount]
  BY DEF IInv, TypeInv
<1>1. /\ Allocatable(Amount, DriverEarning, RefundTotals, amount)
      /\ amount <= Amount - payment.refunded /\ amount > 0
  BY DEF ToBook, Refundable, Splittable, Allocatable
<1>2. /\ split.driver \in 0 .. amount /\ split.platform \in 0 .. amount
      /\ split.driver + split.platform = amount
      /\ RefundTotals.driver + split.driver <= DriverEarning
      /\ RefundTotals.platform + split.platform <= Amount - DriverEarning
  <2> DEFINE soFar == RefundTotals
  <2>1. soFar \in SoFar
    <3>1. soFar.driver \in 0 .. DriverEarning /\ soFar.platform \in 0 .. Amount - DriverEarning
      BY <1>1 DEF Allocatable
    <3>2. soFar.refunded = payment.refunded BY DEF RefundTotals
    <3>3. soFar = [refunded |-> soFar.refunded, driver |-> soFar.driver,
                   platform |-> soFar.platform]
      BY DEF RefundTotals
    <3>4. soFar.refunded \in Nat /\ soFar.driver \in Nat /\ soFar.platform \in Nat
      BY <1>0, <3>1, <3>2, Constants
    <3> HIDE DEF soFar
    <3> QED BY <3>3, <3>4 DEF SoFar
  <2>2. amount \in Nat BY Constants
  <2>3. Allocatable(Amount, DriverEarning, soFar, amount) BY <1>1
  <2> HIDE DEF soFar
  <2>4. LET sp == Allocate(Amount, DriverEarning, soFar, amount)
        IN  /\ sp.driver \in 0 .. amount /\ sp.platform \in 0 .. amount
            /\ sp.driver + sp.platform = amount
            /\ soFar.driver + sp.driver <= DriverEarning
            /\ soFar.platform + sp.platform <= Amount - DriverEarning
    BY <2>1, <2>2, <2>3, Constants, AllocateReverses
  <2> QED BY <2>4 DEF soFar
<1>3. split \in [driver : 0 .. Amount, platform : 0 .. Amount]
  <2>1. split = [driver |-> split.driver, platform |-> split.platform] BY DEF Allocate
  <2> HIDE DEF split
  <2> QED BY <1>2, <2>1, Constants
<1> HIDE DEF split
<1>4. /\ s.pc = "book" /\ s.amount = amount /\ s.seen = payment /\ s.split = split
      /\ s.op = proc[p].op /\ s.gatewayId = proc[p].gatewayId /\ s.record = proc[p].record
  BY <1>0 DEF Process
<1>5. s \in Process BY <1>0, <1>3 DEF Process, PC
<1>6. Continue(p, s) BY DEF ToBook, split
<1> HIDE DEF s
<1>7. KnowsRefund(s)
  <2>1. payment.refunded + amount <= Amount BY <1>0, <1>1, Constants
  <2> QED BY <1>1, <1>2, <1>4, <2>1 DEF KnowsRefund
<1>8. KnowsRecord(s) /\ KnowsGateway(s) /\ Unsent(s)
  BY <1>4 DEF KnowsRecord, KnowsGateway, Unsent, Undoing, IInv, ProcInv, Fits
<1>9. Fresh(s) BY <1>2, <1>4 DEF Fresh
<1>10. Fits(s) BY <1>7, <1>8, <1>9 DEF Fits
<1>11. Becomes(p, s) BY <1>4, <1>5, <1>6, ContinueBecomes
<1> QED BY <1>10, <1>11, Quiet DEF documents

\* initiateRefund up to bookRefund's transaction.
LEMMA ReadForRefundStep ==
  ASSUME IInv, NEW p \in Processes, ReadForRefund(p)
  PROVE  IInv'
<1>1. /\ proc[p].pc = "locked" /\ proc[p].op = "refund"
      /\ UNCHANGED <<payment, refunds, ledger, gateway, expiries>>
  BY DEF ReadForRefund
<1>2. CASE ToBook(p, proc[p].amount)
  <2>1. proc[p].amount \in 0 .. Amount /\ proc[p].gatewayId = 0
    BY <1>1 DEF IInv, TypeInv, Process, ProcInv, Fits, KnowsRefund
  <2> QED BY <1>1, <1>2, <2>1, ToBookStep
<1>3. CASE Abort(p) BY <1>1, <1>3, EndQuiet
<1> QED BY <1>2, <1>3 DEF ReadForRefund

\* handleGatewayRefundEvent up to the update, the booking or the compensation.
LEMMA ReadForEventStep ==
  ASSUME IInv, NEW p \in Processes, ReadForEvent(p)
  PROVE  IInv'
<1> DEFINE g == proc[p].gatewayId
<1> DEFINE r == RecordOf(g)
<1>1. /\ proc[p].pc = "locked" /\ proc[p].op = "event"
      /\ UNCHANGED <<payment, refunds, ledger, gateway, expiries>>
  BY DEF ReadForEvent
<1>2. /\ g \in GatewayRefunds /\ gateway[g].status # "none"
      /\ proc[p].report = "failed" => gateway[g].status = "failed"
  BY <1>1 DEF IInv, ProcInv, Fits, KnowsGateway
<1>3. proc[p] \in Process /\ gateway[g].amount \in 0 .. Amount
  BY <1>2 DEF IInv, TypeInv
<1>4. /\ r # 0 =>
            /\ r \in Records
            /\ refunds[r].status # "none"
            /\ r = g \/ (g \in Dashboard /\ refunds[r].gatewayId = g)
            /\ \A q \in Processes : proc[q].pc = "send" => proc[q].record # r
      /\ r = 0 => g \in Dashboard /\ \A q \in Records : refunds[q].gatewayId # g
  BY <1>2, RecordOfEvent
<1>5. CASE Abort(p) \/ Finish(p) BY <1>1, <1>5, EndQuiet
<1>6. CASE r = 0 /\ ToBook(p, gateway[g].amount)
  BY <1>1, <1>3, <1>4, <1>6, ToBookStep
<1>7. CASE /\ r # 0
           /\ Continue(p, [proc[p] EXCEPT
                !.pc = IF proc[p].report = "failed" THEN "reload" ELSE "update",
                !.record = r])
  <2> DEFINE s == [proc[p] EXCEPT
                !.pc = IF proc[p].report = "failed" THEN "reload" ELSE "update",
                !.record = r]
  <2>0. Continue(p, s) BY <1>7
  <2> HIDE DEF r
  <2>1. /\ s.pc = IF proc[p].report = "failed" THEN "reload" ELSE "update"
        /\ s.record = r /\ s.gatewayId = g /\ s.report = proc[p].report
    BY <1>3 DEF Process
  <2>2. s \in Process BY <1>3, <1>4, <1>7 DEF Process, PC
  <2> HIDE DEF s
  <2>3. KnowsRefund(s) /\ Unsent(s) /\ Fresh(s) BY <2>1 DEF KnowsRefund, Unsent, Fresh
  <2>4. KnowsRecord(s) BY <1>4, <1>7, <2>1 DEF KnowsRecord, Undoing
  <2>5. KnowsGateway(s)
    <3>1. CASE proc[p].report = "failed"
      <4>1. gateway[r].status \in {"none", "failed"}
        BY <1>2, <1>4, <1>7, <3>1 DEF IInv, DocInv, RecordInv
      <4> QED BY <2>1, <3>1, <4>1 DEF KnowsGateway, Undoing
    <3>2. CASE proc[p].report # "failed"
      BY <1>2, <1>4, <1>7, <2>1, <3>2 DEF KnowsGateway, Undoing
    <3> QED BY <3>1, <3>2
  <2>6. Becomes(p, s)
    <3>1. s.pc # "send" BY <2>1
    <3>2. \A q \in Processes : proc[q].pc = "send" => proc[q].record # s.record
      BY <1>4, <1>7, <2>1
    <3> QED BY <1>1, <2>0, <2>2, <3>1, <3>2, ContinueBecomes
  <2>7. Fits(s) BY <2>3, <2>4, <2>5 DEF Fits
  <2> QED BY <1>1, <2>6, <2>7, Quiet DEF documents
<1> QED BY <1>5, <1>6, <1>7 DEF ReadForEvent

\* abandonUnsentRefund up to compensateRefund.
LEMMA ReadForAbandonStep ==
  ASSUME IInv, NEW p \in Processes, ReadForAbandon(p)
  PROVE  IInv'
<1>1. /\ proc[p].pc = "locked" /\ proc[p].op = "abandon"
      /\ UNCHANGED <<payment, refunds, ledger, gateway, expiries>>
  BY DEF ReadForAbandon
<1>2. CASE Continue(p, [proc[p] EXCEPT !.pc = "reload"])
  <2> DEFINE s == [proc[p] EXCEPT !.pc = "reload"]
  <2>0. proc[p] \in Process BY DEF IInv, TypeInv
  <2>1. s.pc = "reload" /\ s.record = proc[p].record BY <2>0 DEF Process
  <2>2. s \in Process BY <2>0 DEF Process, PC
  <2>3. Continue(p, s) BY <1>2
  <2> HIDE DEF s
  <2>4. Fits(s)
    BY <1>1, <2>1
    DEF IInv, ProcInv, Fits, KnowsRefund, KnowsRecord, KnowsGateway, Undoing, Unsent, Fresh
  <2>5. Becomes(p, s) BY <1>1, <2>1, <2>2, <2>3, ContinueBecomes
  <2> QED BY <1>1, <2>4, <2>5, Quiet DEF documents
<1>3. CASE Finish(p) BY <1>1, <1>3, EndQuiet
<1> QED BY <1>2, <1>3 DEF ReadForAbandon

-----------------------------------------------------------------------------
(* The other quiet steps.                                                  *)

\* REFUND_CONFLICT.
LEMMA BookConflictStep ==
  ASSUME IInv, NEW p \in Processes, BookConflict(p)
  PROVE  IInv'
BY EndQuiet DEF BookConflict

\* compensateRefund reads the payment and the record.
LEMMA ReloadStep ==
  ASSUME IInv, NEW p \in Processes, Reload(p)
  PROVE  IInv'
<1>1. proc[p].pc = "reload" /\ UNCHANGED <<payment, refunds, ledger, gateway, expiries>>
  BY DEF Reload
<1>2. CASE Abort(p) \/ Finish(p) BY <1>1, <1>2, EndQuiet
<1>3. CASE /\ refunds[proc[p].record].amount <= payment.refunded
           /\ Continue(p, [proc[p] EXCEPT !.pc = "undo", !.seen = payment])
  <2> DEFINE s == [proc[p] EXCEPT !.pc = "undo", !.seen = payment]
  <2>0. proc[p] \in Process /\ payment \in [status : PaymentStatus, refunded : 0 .. Amount]
    BY DEF IInv, TypeInv
  <2>1. s.pc = "undo" /\ s.record = proc[p].record /\ s.seen = payment BY <2>0 DEF Process
  <2>2. s \in Process BY <2>0 DEF Process, PC
  <2>3. Continue(p, s) BY <1>3
  <2> HIDE DEF s
  <2>4. KnowsRefund(s) /\ Unsent(s) /\ Fresh(s)
    BY <1>3, <2>1 DEF KnowsRefund, Unsent, Fresh
  <2>5. KnowsRecord(s) /\ KnowsGateway(s)
    BY <1>1, <2>1 DEF IInv, ProcInv, Fits, KnowsRecord, KnowsGateway, Undoing
  <2>6. Becomes(p, s) BY <1>1, <2>1, <2>2, <2>3, ContinueBecomes
  <2> QED BY <1>1, <2>4, <2>5, <2>6, Quiet DEF documents, Fits
<1> QED BY <1>2, <1>3 DEF Reload

\* Another try of compensateRefund, or REFUND_CONFLICT.
LEMMA UndoAgainStep ==
  ASSUME IInv, NEW p \in Processes, UndoAgain(p)
  PROVE  IInv'
<1>1. proc[p].pc = "undo" /\ UNCHANGED <<payment, refunds, ledger, gateway, expiries>>
  BY DEF UndoAgain
<1>2. CASE Abort(p) BY <1>1, <1>2, EndQuiet
<1>3. CASE /\ proc[p].tries + 1 < MaxTries
           /\ Continue(p, [proc[p] EXCEPT !.pc = "reload", !.tries = @ + 1])
  <2> DEFINE s == [proc[p] EXCEPT !.pc = "reload", !.tries = @ + 1]
  <2>0. proc[p] \in Process BY DEF IInv, TypeInv
  <2>1. s.pc = "reload" /\ s.record = proc[p].record BY <2>0 DEF Process
  <2>2. s \in Process
    <3>1. proc[p].tries + 1 \in 0 .. MaxTries BY <1>3, <2>0, RefundsAssumption DEF Process
    <3> QED BY <2>0, <3>1 DEF Process, PC
  <2>3. Continue(p, s) BY <1>3
  <2> HIDE DEF s
  <2>4. KnowsRefund(s) /\ Unsent(s) /\ Fresh(s) BY <2>1 DEF KnowsRefund, Unsent, Fresh
  <2>5. KnowsRecord(s) /\ KnowsGateway(s)
    BY <1>1, <2>1 DEF IInv, ProcInv, Fits, KnowsRecord, KnowsGateway, Undoing
  <2>6. Becomes(p, s) BY <1>1, <2>1, <2>2, <2>3, ContinueBecomes
  <2> QED BY <1>1, <2>4, <2>5, <2>6, Quiet DEF documents, Fits
<1> QED BY <1>2, <1>3 DEF UndoAgain

\* A database call rejects.
LEMMA FailStep ==
  ASSUME IInv, NEW p \in Processes, Fail(p)
  PROVE  IInv'
BY EndQuiet DEF Fail

\* The process dies.
LEMMA CrashStep ==
  ASSUME IInv, NEW p \in Processes, Crash(p)
  PROVE  IInv'
<1>1. Becomes(p, Idle) BY IdleFits DEF Crash, Becomes, IInv, TypeInv
<1> QED BY <1>1, IdleFits, Quiet DEF Crash, documents

\* The TTL of the lock runs out.
LEMMA LockExpiresStep ==
  ASSUME IInv, LockExpires
  PROVE  IInv'
<1>1. UNCHANGED <<payment, refunds, ledger, gateway, proc, told>> /\ lock' = Nobody
  BY DEF LockExpires
<1>2. lock \in Processes BY DEF LockExpires, IInv, TypeInv
<1>3. expiries \in 0 .. MaxExpiries /\ MaxExpiries \in Nat
  BY RefundsAssumption DEF IInv, TypeInv
<1>4. expiries' \in 0 .. MaxExpiries /\ (expiries' = 0 => expiries = 0 /\ proc[lock].pc = "idle")
  BY <1>3 DEF LockExpires
<1>5. TypeInv' BY <1>1, <1>4 DEF IInv, TypeInv
<1>6. LockInv'
  <2> SUFFICES ASSUME expiries' = 0, NEW q \in Processes, proc'[q].pc # "idle"
               PROVE  FALSE
      BY DEF LockInv
  <2>1. lock = q BY <1>1, <1>4 DEF IInv, LockInv
  <2> QED BY <1>1, <1>4, <2>1
<1>7. UNCHANGED documents BY <1>1 DEF documents
<1>8. DocInv' BY <1>4, <1>7, DocFrame DEF IInv
<1>9. ASSUME NEW q \in Processes PROVE Fits(proc[q])'
  <2>1. Fits(proc[q]) /\ proc'[q] = proc[q] BY <1>1 DEF IInv, ProcInv
  <2> QED BY <1>4, <1>7, <2>1, FitsFrame
<1>10. SenderAlone' BY <1>1 DEF IInv, ProcInv, SenderAlone
<1> QED BY <1>5, <1>6, <1>8, <1>9, <1>10 DEF IInv, ProcInv

-----------------------------------------------------------------------------
(* Steps of the gateway.                                                   *)

\* A gateway refund appears, or is decided.
GatewayMoves(g) ==
    /\ gateway' \in [GatewayRefunds ->
                       [status : GatewayStatus \cup {"none"}, amount : 0 .. Amount]]
    /\ \A h \in GatewayRefunds : h # g => gateway'[h] = gateway[h]
    /\ gateway[g].status \in {"none", "created"}
    /\ gateway'[g].status # "none"
    /\ gateway'[g].amount > 0
    /\ g \in Records =>
        /\ LiveRefund(g)
        /\ refunds[g].amount = gateway'[g].amount
        /\ gateway[g].status = "none" => refunds[g].gatewayId = 0
    /\ UNCHANGED <<payment, refunds, ledger, expiries>>

\* The documents under a gateway step.
LEMMA GatewayDocs ==
  ASSUME IInv, NEW g \in GatewayRefunds, GatewayMoves(g)
  PROVE  DocInv'
<1>1. UNCHANGED <<payment, refunds, ledger, expiries>> BY DEF GatewayMoves
<1>2. /\ RecordedRefunds' = RecordedRefunds
      /\ RecordedDriver' = RecordedDriver
      /\ RecordedPlatform' = RecordedPlatform
      /\ RefundTotals' = RefundTotals
  BY <1>1, TotalsFrame
<1>3. BooksAgree' /\ StatusFollowsTotal' /\ SplitsAddUp' /\ LegsWithinFare'
  BY <1>1, <1>2 DEF IInv, DocInv, BooksAgree, StatusFollowsTotal, SplitsAddUp, LegsWithinFare
<1>4. RecordInv'
  <2> SUFFICES ASSUME NEW r \in Records, refunds[r].gatewayId \in Dashboard
               PROVE  gateway'[r].status = "none"
      BY <1>1 DEF IInv, DocInv, RecordInv
  <2>1. gateway[r].status = "none" BY DEF IInv, DocInv, RecordInv
  <2>2. r # g BY <2>1, Constants DEF GatewayMoves
  <2> QED BY <2>1, <2>2, Constants DEF GatewayMoves
<1>5. GatewayInv'
  <2> SUFFICES ASSUME NEW h \in GatewayRefunds, gateway'[h].status # "none"
               PROVE  gateway'[h].amount > 0 /\ (h \in Records => refunds[h].status # "none")
      BY <1>1 DEF GatewayInv
  <2>1. CASE h = g BY <2>1 DEF GatewayMoves, LiveRefund, LIVE
  <2>2. CASE h # g BY <2>2 DEF GatewayMoves, IInv, DocInv, GatewayInv
  <2> QED BY <2>1, <2>2
<1>6. SentRefundIsBooked'
  <2> SUFFICES ASSUME NEW r \in Records, gateway'[r].status \in {"created", "processed"}
               PROVE  LiveRefund(r) /\ refunds[r].amount = gateway'[r].amount
      BY <1>1 DEF SentRefundIsBooked, LiveRefund
  <2>1. CASE r = g BY <2>1 DEF GatewayMoves
  <2>2. CASE r # g
    BY <2>2, Constants DEF GatewayMoves, IInv, DocInv, SentRefundIsBooked
  <2> QED BY <2>1, <2>2
<1>7. DashboardInv' BY <1>1 DEF IInv, DocInv, DashboardInv
<1> QED BY <1>3, <1>4, <1>5, <1>6, <1>7 DEF DocInv

\* What a process knows under a gateway step.
LEMMA GatewayFits ==
  ASSUME NEW g \in GatewayRefunds, GatewayMoves(g),
         NEW p \in Processes, NEW s, Fits(s), proc'[p] = s,
         gateway[g].status = "none" => s.record # g
  PROVE  Fits(proc[p])'
<1>1. UNCHANGED <<payment, refunds, ledger, expiries>> BY DEF GatewayMoves
<1>2. RefundTotals' = RefundTotals BY <1>1, TotalsFrame
<1>3. KnowsRefund(proc[p])' BY <1>1 DEF Fits, KnowsRefund
<1>4. KnowsRecord(proc[p])' BY <1>1 DEF Fits, KnowsRecord, Undoing
<1>5. \A h \in GatewayRefunds :
        /\ gateway[h].status = "failed" => gateway'[h].status = "failed"
        /\ gateway[h].status # "none" => gateway'[h].status # "none"
        /\ h = s.record /\ gateway[h].status \in {"none", "failed"} =>
              gateway'[h].status = gateway[h].status
  BY DEF GatewayMoves
<1>6. s.record \in Records => s.record \in GatewayRefunds BY Constants
<1>7. KnowsGateway(proc[p])'
  <2>1. /\ s.pc = "locked" /\ s.op = "event" =>
              /\ s.gatewayId \in GatewayRefunds
              /\ gateway'[s.gatewayId].status # "none"
              /\ s.report = "failed" => gateway'[s.gatewayId].status = "failed"
    BY <1>5 DEF Fits, KnowsGateway
  <2>2. s.pc = "settle" =>
              /\ s.gatewayId = s.record
              /\ gateway'[s.record].status # "none"
              /\ s.report = "failed" => gateway'[s.record].status = "failed"
    BY <1>5, <1>6 DEF Fits, KnowsGateway, KnowsRecord
  <2>3. s.pc = "update" =>
        \/ s.gatewayId = s.record /\ gateway'[s.record].status # "none"
        \/ s.gatewayId \in Dashboard /\ refunds'[s.record].gatewayId = s.gatewayId
    BY <1>1, <1>5, <1>6 DEF Fits, KnowsGateway, KnowsRecord
  <2>4. Undoing(s) => gateway'[s.record].status \in {"none", "failed"}
    BY <1>5, <1>6 DEF Fits, KnowsGateway, KnowsRecord
  <2> QED BY <2>1, <2>2, <2>3, <2>4 DEF KnowsGateway, Undoing
<1>8. Unsent(proc[p])'
  <2>1. s.pc = "send" => gateway'[s.record].status = "none"
    BY <1>5, <1>6 DEF Fits, Unsent, KnowsRecord
  <2> QED BY <1>1, <2>1 DEF Fits, Unsent, LiveRefund
<1>9. Fresh(proc[p])' BY <1>1, <1>2 DEF Fits, Fresh
<1> QED BY <1>3, <1>4, <1>7, <1>8, <1>9 DEF Fits


\* A gateway step on its own.
LEMMA GatewayStep ==
  ASSUME IInv, NEW g \in GatewayRefunds, GatewayMoves(g), UNCHANGED <<lock, proc, told>>,
         gateway[g].status = "none" => g \in Dashboard
  PROVE  IInv'
<1>1. UNCHANGED <<payment, refunds, ledger, expiries>> BY DEF GatewayMoves
<1>2. TypeInv' BY <1>1 DEF IInv, TypeInv, GatewayMoves
<1>3. LockInv' BY <1>1 DEF IInv, LockInv
<1>4. DocInv' BY GatewayDocs
<1>5. ASSUME NEW q \in Processes PROVE Fits(proc[q])'
  <2>1. Fits(proc[q]) BY DEF IInv, ProcInv
  <2>2. gateway[g].status = "none" => proc[q].record # g
    BY Constants DEF IInv, TypeInv, Process
  <2> QED BY <2>1, <2>2, GatewayFits
<1>6. SenderAlone' BY DEF IInv, ProcInv, SenderAlone
<1> QED BY <1>2, <1>3, <1>4, <1>5, <1>6 DEF IInv, ProcInv

\* Somebody refunds on the dashboard.
LEMMA DashboardRefundStep ==
  ASSUME IInv, NEW g \in Dashboard, NEW amount \in 1 .. Amount, DashboardRefund(g, amount)
  PROVE  IInv'
<1>1. PICK status \in GatewayStatus : GatewayCreates(g, status, amount)
  BY DEF DashboardRefund
<1>2. g \in GatewayRefunds /\ g \notin Records BY Constants
<1>3. gateway \in [GatewayRefunds ->
                     [status : GatewayStatus \cup {"none"}, amount : 0 .. Amount]]
  BY DEF IInv, TypeInv
<1>4. /\ gateway[g].status = "none"
      /\ gateway' = [gateway EXCEPT ![g] = [status |-> status, amount |-> amount]]
  BY <1>1 DEF GatewayCreates
<1>5. gateway'[g].status # "none" /\ gateway'[g].amount > 0
  BY <1>2, <1>3, <1>4, Constants DEF GatewayStatus
<1>6. GatewayMoves(g)
  <2>1. [status |-> status, amount |-> amount]
           \in [status : GatewayStatus \cup {"none"}, amount : 0 .. Amount]
    BY Constants
  <2> QED BY <1>2, <1>3, <1>4, <1>5, <2>1 DEF GatewayMoves, DashboardRefund
<1> QED BY <1>2, <1>6, GatewayStep DEF DashboardRefund

\* Razorpay decides on a refund.
LEMMA GatewaySettlesStep ==
  ASSUME IInv, NEW g \in GatewayRefunds, GatewaySettles(g)
  PROVE  IInv'
<1>1. PICK status \in {"processed", "failed"} : gateway' = [gateway EXCEPT ![g].status = status]
  BY DEF GatewaySettles
<1>2. gateway \in [GatewayRefunds ->
                     [status : GatewayStatus \cup {"none"}, amount : 0 .. Amount]]
  BY DEF IInv, TypeInv
<1>3. gateway[g].status = "created" BY DEF GatewaySettles
<1>4. /\ gateway'[g].status = status /\ gateway'[g].amount = gateway[g].amount
      /\ gateway'[g] \in [status : GatewayStatus \cup {"none"}, amount : 0 .. Amount]
  BY <1>1, <1>2 DEF GatewayStatus
<1>5. gateway' \in [GatewayRefunds ->
                      [status : GatewayStatus \cup {"none"}, amount : 0 .. Amount]]
  BY <1>1, <1>2, <1>4
<1>6. \A h \in GatewayRefunds : h # g => gateway'[h] = gateway[h] BY <1>1, <1>2
<1>7. gateway[g].amount > 0 BY <1>3 DEF IInv, DocInv, GatewayInv
<1>8. g \in Records => LiveRefund(g) /\ refunds[g].amount = gateway[g].amount
  BY <1>3 DEF IInv, DocInv, SentRefundIsBooked
<1>9. GatewayMoves(g)
  BY <1>3, <1>4, <1>5, <1>6, <1>7, <1>8 DEF GatewayMoves, GatewaySettles
<1> QED BY <1>3, <1>9, GatewayStep DEF GatewaySettles

\* The gateway creates the refund that p sent.
LEMMA SendCreates ==
  ASSUME IInv, NEW p \in Processes, proc[p].pc = "send", NEW status \in GatewayStatus,
         GatewayCreates(proc[p].record, status, proc[p].amount),
         UNCHANGED <<payment, refunds, ledger, expiries>>,
         \/ Continue(p, [proc[p] EXCEPT !.pc = "settle", !.report = status,
                                        !.gatewayId = proc[p].record])
         \/ Finish(p)
  PROVE  IInv'
<1> DEFINE g == proc[p].record
<1>1. /\ g \in Records /\ g \in GatewayRefunds /\ g # 0
      /\ LiveRefund(g) /\ refunds[g].gatewayId = 0 /\ refunds[g].amount = proc[p].amount
      /\ gateway[g].status = "none"
  BY Constants DEF IInv, ProcInv, Fits, KnowsRecord, Unsent
<1>2. /\ gateway \in [GatewayRefunds ->
                        [status : GatewayStatus \cup {"none"}, amount : 0 .. Amount]]
      /\ proc[p] \in Process
  BY DEF IInv, TypeInv
<1>3. refunds[g].amount > 0 BY <1>1 DEF IInv, DocInv, RecordInv, LiveRefund, LIVE
<1>4. gateway' = [gateway EXCEPT ![g] = [status |-> status, amount |-> proc[p].amount]]
  BY DEF GatewayCreates
<1>5. [status |-> status, amount |-> proc[p].amount]
           \in [status : GatewayStatus \cup {"none"}, amount : 0 .. Amount]
  BY <1>2 DEF Process
<1>6. gateway'[g].status = status /\ gateway'[g].amount = proc[p].amount /\ status # "none"
  BY <1>1, <1>2, <1>4 DEF GatewayStatus
<1>7. GatewayMoves(g) BY <1>1, <1>2, <1>3, <1>4, <1>5, <1>6 DEF GatewayMoves
<1>8. DocInv' BY <1>1, <1>7, GatewayDocs
<1>9. gateway' \in [GatewayRefunds ->
                      [status : GatewayStatus \cup {"none"}, amount : 0 .. Amount]]
  BY <1>7 DEF GatewayMoves
<1>10. \E s : Becomes(p, s) /\ Fits(proc[p])'
  <2>1. CASE Finish(p)
    <3>1. Becomes(p, Idle) BY <2>1, EndBecomes
    <3>2. proc'[p] = Idle BY <3>1, ProcFrame
    <3>3. Fits(proc[p])' BY <1>1, <1>7, <3>2, IdleFits, GatewayFits
    <3> QED BY <3>1, <3>3
  <2>2. CASE Continue(p, [proc[p] EXCEPT !.pc = "settle", !.report = status, !.gatewayId = g])
    <3> DEFINE s == [proc[p] EXCEPT !.pc = "settle", !.report = status, !.gatewayId = g]
    <3>1. s.pc = "settle" /\ s.report = status /\ s.gatewayId = g /\ s.record = g
      BY <1>2 DEF Process
    <3>2. s \in Process BY <1>1, <1>2 DEF Process, PC
    <3>3. Continue(p, s) BY <2>2
    <3> HIDE DEF s
    <3>4. Becomes(p, s) BY <3>1, <3>2, <3>3, ContinueBecomes
    <3>5. proc'[p] = s BY <3>4, ProcFrame
    <3> HIDE DEF g
    <3>6. KnowsRefund(proc[p])' /\ Unsent(proc[p])' /\ Fresh(proc[p])'
      BY <3>1, <3>5 DEF KnowsRefund, Unsent, Fresh
    <3>7. KnowsRecord(proc[p])'
      BY <1>1, <3>1, <3>5 DEF KnowsRecord, LiveRefund, LIVE, Undoing
    <3>8. KnowsGateway(proc[p])' BY <1>6, <3>1, <3>5 DEF KnowsGateway, Undoing
    <3>9. Fits(proc[p])' BY <3>6, <3>7, <3>8 DEF Fits
    <3> QED BY <3>4, <3>9
  <2> QED BY <2>1, <2>2
<1>11. PICK s : Becomes(p, s) /\ Fits(proc[p])' BY <1>10
<1>12. /\ lock' \in Processes \cup {Nobody}
       /\ proc' \in [Processes -> Process]
       /\ LockInv'
       /\ SenderAlone'
       /\ \A q \in Processes : q # p => proc'[q] = proc[q]
  BY <1>11, ProcFrame
<1>13. TypeInv' BY <1>9, <1>11, <1>12 DEF IInv, TypeInv, Becomes
<1>14. ASSUME NEW q \in Processes PROVE Fits(proc[q])'
  <2>1. CASE q = p BY <1>11, <2>1
  <2>2. CASE q # p
    <3>1. proc[q].record # g BY <2>2 DEF IInv, ProcInv, SenderAlone
    <3>2. Fits(proc[q]) /\ proc'[q] = proc[q] BY <1>12, <2>2 DEF IInv, ProcInv
    <3> QED BY <1>1, <1>7, <3>1, <3>2, GatewayFits
  <2> QED BY <2>1, <2>2
<1> QED BY <1>8, <1>12, <1>13, <1>14 DEF IInv, ProcInv

\* The refund is sent.
LEMMA SendStep ==
  ASSUME IInv, NEW p \in Processes, Send(p)
  PROVE  IInv'
<1>1. proc[p].pc = "send" /\ UNCHANGED <<payment, refunds, ledger, expiries>> BY DEF Send
<1>2. CASE gateway' = gateway /\ Finish(p) BY <1>1, <1>2, EndQuiet
<1>3. CASE gateway' = gateway /\ Continue(p, [proc[p] EXCEPT !.pc = "reload"])
  <2> DEFINE s == [proc[p] EXCEPT !.pc = "reload"]
  <2>0. proc[p] \in Process BY DEF IInv, TypeInv
  <2>1. s.pc = "reload" /\ s.record = proc[p].record BY <2>0 DEF Process
  <2>2. s \in Process BY <2>0 DEF Process, PC
  <2>3. Continue(p, s) BY <1>3
  <2> HIDE DEF s
  <2>4. KnowsRefund(s) /\ Unsent(s) /\ Fresh(s) BY <2>1 DEF KnowsRefund, Unsent, Fresh
  <2>5. KnowsRecord(s) BY <1>1, <2>1 DEF IInv, ProcInv, Fits, KnowsRecord, Undoing
  <2>6. gateway[s.record].status = "none" BY <1>1, <2>1, SenderNamesRecord
  <2>7. KnowsGateway(s) BY <2>1, <2>6 DEF KnowsGateway, Undoing
  <2>8. Becomes(p, s) BY <1>1, <2>1, <2>2, <2>3, ContinueBecomes
  <2> QED BY <1>1, <1>3, <2>4, <2>5, <2>7, <2>8, Quiet DEF documents, Fits
<1>4. CASE \E status \in GatewayStatus :
            /\ GatewayCreates(proc[p].record, status, proc[p].amount)
            /\ \/ Continue(p, [proc[p] EXCEPT !.pc = "settle", !.report = status,
                                              !.gatewayId = proc[p].record])
               \/ Finish(p)
  BY <1>1, <1>4, SendCreates
<1> QED BY <1>2, <1>3, <1>4 DEF Send


-----------------------------------------------------------------------------
(* Steps that change a record.                                             *)

\* What a process knows when its record stays as it needs it.
LEMMA RecordFits ==
  ASSUME NEW p \in Processes, NEW s, Fits(s), proc'[p] = s,
         UNCHANGED <<gateway, expiries>>, expiries = 0 => s.pc # "book",
         s.record \in Records =>
            /\ refunds[s.record].status # "none" => refunds'[s.record].status # "none"
            /\ refunds'[s.record].amount = refunds[s.record].amount
            /\ refunds[s.record].gatewayId \in Dashboard =>
                  refunds'[s.record].gatewayId = refunds[s.record].gatewayId
            /\ s.pc = "send" => refunds'[s.record] = refunds[s.record]
  PROVE  Fits(proc[p])'
<1>1. KnowsRefund(proc[p])' BY DEF Fits, KnowsRefund, KnowsRecord, Undoing
<1>2. KnowsRecord(proc[p])' BY DEF Fits, KnowsRecord, Undoing
<1>3. KnowsGateway(proc[p])' BY DEF Fits, KnowsRecord, KnowsGateway, Undoing
<1>4. Unsent(proc[p])' BY DEF Fits, KnowsRecord, Unsent, LiveRefund
<1>5. Fresh(proc[p])' BY DEF Fresh
<1> QED BY <1>1, <1>2, <1>3, <1>4, <1>5 DEF Fits

\* updateRefundRecord, seen from outside.
RecordUpdates(r) ==
    /\ refunds' \in [Records -> Refund]
    /\ \A q \in Records : q # r => refunds'[q] = refunds[q]
    /\ refunds'[r].status \in LIVE <=> refunds[r].status \in LIVE
    /\ refunds'[r].status = "none" <=> refunds[r].status = "none"
    /\ refunds'[r].amount = refunds[r].amount
    /\ refunds'[r].driver = refunds[r].driver
    /\ refunds'[r].platform = refunds[r].platform
    /\ \/ refunds'[r].gatewayId = refunds[r].gatewayId
       \/ refunds'[r].gatewayId = r /\ gateway[r].status # "none"
    /\ UNCHANGED <<payment, ledger, gateway, expiries>>

\* The record keeps its amount, and gets the id of its own gateway refund.
LEMMA UpdateEffect ==
  ASSUME IInv, NEW p \in Processes, NEW statuses, statuses \subseteq LIVE,
         UpdateRefundRecord(p, statuses), proc[p].pc \in {"settle", "update"},
         UNCHANGED <<payment, ledger, gateway, expiries>>
  PROVE  proc[p].record \in Records /\ RecordUpdates(proc[p].record)
<1> DEFINE r == proc[p].record
<1>1. r \in Records BY DEF IInv, ProcInv, Fits, KnowsRecord
<1>2. refunds \in [Records -> Refund] /\ proc[p] \in Process BY DEF IInv, TypeInv
<1>3. \/ proc[p].gatewayId = r /\ gateway[r].status # "none"
      \/ proc[p].gatewayId = refunds[r].gatewayId
  BY DEF IInv, ProcInv, Fits, KnowsGateway
<1>4. CASE refunds[r].status \notin statuses
  <2>1. refunds' = refunds BY <1>4 DEF UpdateRefundRecord
  <2> QED BY <1>1, <1>2, <2>1 DEF RecordUpdates
<1>5. CASE refunds[r].status \in statuses
  <2> DEFINE status == IF proc[p].report = "processed" THEN "PROCESSED" ELSE refunds[r].status
  <2> DEFINE rec == [refunds[r] EXCEPT !.gatewayId = proc[p].gatewayId, !.status = status]
  <2>1. refunds' = [refunds EXCEPT ![r] = rec]
    BY <1>1, <1>2, <1>5 DEF UpdateRefundRecord
  <2>2. refunds[r] \in Refund BY <1>1, <1>2
  <2>3. status \in LIVE /\ refunds[r].status \in LIVE BY <1>5 DEF LIVE
  <2>4. /\ rec.gatewayId = proc[p].gatewayId /\ rec.status = status
        /\ rec.amount = refunds[r].amount
        /\ rec.driver = refunds[r].driver /\ rec.platform = refunds[r].platform
    BY <2>2 DEF Refund
  <2>5. rec \in Refund BY <1>2, <2>2, <2>3 DEF Refund, RecordStatus, Process
  <2> HIDE DEF rec, status, r
  <2>6. /\ refunds'[r] = rec /\ refunds' \in [Records -> Refund]
        /\ \A q \in Records : q # r => refunds'[q] = refunds[q]
    BY <1>1, <1>2, <2>1, <2>5
  <2>7. refunds'[r].status \in LIVE /\ refunds[r].status \in LIVE BY <2>3, <2>4, <2>6
  <2>8. refunds'[r].status # "none" /\ refunds[r].status # "none"
    BY <2>3, <2>4, <2>6 DEF LIVE
  <2>9. RecordUpdates(r) BY <1>3, <2>4, <2>6, <2>7, <2>8 DEF RecordUpdates
  <2> QED BY <1>1, <2>9 DEF r
<1> QED BY <1>4, <1>5

\* The documents under an update.
LEMMA UpdateDocs ==
  ASSUME IInv, TypeInv', NEW r \in Records, RecordUpdates(r)
  PROVE  DocInv'
<1>1. UNCHANGED <<payment, ledger, gateway, expiries>> BY DEF RecordUpdates
<1>2. \A q \in Records : q # r => refunds'[q] = refunds[q] BY DEF RecordUpdates
<1>3. /\ RecordedRefunds' = RecordedRefunds
      /\ RecordedDriver' = RecordedDriver
      /\ RecordedPlatform' = RecordedPlatform
  <2>1. refunds[r] \in Refund BY DEF IInv, TypeInv
  <2>2. refunds[r].amount \in Int /\ refunds[r].driver \in Int /\ refunds[r].platform \in Int
    BY <2>1, Constants DEF Refund
  <2>3. TypeInv BY DEF IInv
  <2>4. /\ RecordedRefunds \in Int /\ RecordedDriver \in Int /\ RecordedPlatform \in Int
    BY <2>3, RecordedNat
  <2> QED BY <1>2, <2>2, <2>3, <2>4, RecordedChange DEF RecordUpdates, LiveRefund
<1>4. BooksAgree' /\ StatusFollowsTotal' /\ SplitsAddUp'
  BY <1>1, <1>3 DEF IInv, DocInv, BooksAgree, StatusFollowsTotal, SplitsAddUp
<1>5. LegsWithinFare'
  <2>1. /\ RefundTotals'.driver = RefundTotals.driver
        /\ RefundTotals'.platform = RefundTotals.platform
    BY <1>1, <1>3 DEF RefundTotals
  <2> QED BY <1>1, <2>1 DEF IInv, DocInv, LegsWithinFare
<1>6. \A q \in Records :
        \/ refunds'[q].gatewayId = refunds[q].gatewayId
        \/ refunds'[q].gatewayId = q /\ gateway[q].status # "none"
  BY <1>2 DEF RecordUpdates
<1>7. \A q \in Records : refunds'[q].gatewayId \in Dashboard =>
        refunds'[q].gatewayId = refunds[q].gatewayId
  BY <1>6, Constants
<1>8. \A q \in Records :
        /\ refunds'[q].status = "none" <=> refunds[q].status = "none"
        /\ LiveRefund(q)' <=> LiveRefund(q)
        /\ refunds'[q].amount = refunds[q].amount
        /\ refunds'[q].driver = refunds[q].driver
        /\ refunds'[q].platform = refunds[q].platform
  BY <1>2 DEF RecordUpdates, LiveRefund
<1>9. RecordInv'
  <2> SUFFICES ASSUME NEW q \in Records
               PROVE  /\ refunds'[q].status # "none" =>
                            /\ refunds'[q].amount > 0
                            /\ refunds'[q].driver + refunds'[q].platform = refunds'[q].amount
                      /\ refunds'[q].status = "none" => refunds'[q].gatewayId = 0
                      /\ refunds'[q].gatewayId \in {0, q} \cup Dashboard
                      /\ refunds'[q].gatewayId \in Dashboard => gateway'[q].status = "none"
      BY DEF RecordInv
  <2>1. /\ refunds[q].status # "none" =>
              /\ refunds[q].amount > 0
              /\ refunds[q].driver + refunds[q].platform = refunds[q].amount
        /\ refunds[q].status = "none" => refunds[q].gatewayId = 0 /\ gateway[q].status = "none"
        /\ refunds[q].gatewayId \in {0, q} \cup Dashboard
        /\ refunds[q].gatewayId \in Dashboard => gateway[q].status = "none"
    BY Constants DEF IInv, DocInv, RecordInv, GatewayInv
  <2> QED BY <1>1, <1>6, <1>7, <1>8, <2>1
<1>10. GatewayInv' BY <1>1, <1>8 DEF IInv, DocInv, GatewayInv
<1>11. SentRefundIsBooked' BY <1>1, <1>8 DEF IInv, DocInv, SentRefundIsBooked
<1>12. DashboardInv'
  <2> SUFFICES ASSUME expiries = 0, NEW q1 \in Records, NEW q2 \in Records,
                      refunds'[q1].gatewayId = refunds'[q2].gatewayId,
                      refunds'[q1].gatewayId \in Dashboard
               PROVE  q1 = q2
      BY <1>1 DEF DashboardInv
  <2>1. refunds[q1].gatewayId = refunds[q2].gatewayId /\ refunds[q1].gatewayId \in Dashboard
    BY <1>7
  <2> QED BY <2>1 DEF IInv, DocInv, DashboardInv
<1> QED BY <1>4, <1>5, <1>9, <1>10, <1>11, <1>12 DEF DocInv

\* An update that ends its handler.
LEMMA UpdateStep ==
  ASSUME IInv, NEW p \in Processes, NEW statuses, statuses \subseteq LIVE,
         UpdateRefundRecord(p, statuses), proc[p].pc \in {"settle", "update"}, Finish(p),
         UNCHANGED <<payment, ledger, gateway, expiries>>
  PROVE  IInv'
<1> DEFINE r == proc[p].record
<1>1. r \in Records /\ RecordUpdates(r) BY UpdateEffect
<1>2. Becomes(p, Idle) BY EndBecomes
<1>3. /\ lock' \in Processes \cup {Nobody}
      /\ proc' \in [Processes -> Process]
      /\ LockInv'
      /\ SenderAlone'
      /\ proc'[p] = Idle
      /\ \A q \in Processes : q # p => proc'[q] = proc[q]
  BY <1>2, ProcFrame
<1>4. TypeInv' BY <1>1, <1>2, <1>3 DEF IInv, TypeInv, RecordUpdates, Becomes
<1>5. DocInv' BY <1>1, <1>4, UpdateDocs
<1>6. ASSUME NEW q \in Processes PROVE Fits(proc[q])'
  <2> DEFINE s == proc'[q]
  <2>1. Fits(s) /\ (s.pc = "send" => s.record # r) /\ (expiries = 0 => s.pc # "book")
    <3>1. CASE q = p BY <1>3, <3>1, IdleFits
    <3>2. CASE q # p
      <4>1. s = proc[q] BY <1>3, <3>2
      <4>2. expiries = 0 => proc[q].pc = "idle" BY <3>2, OthersIdle
      <4> QED BY <3>2, <4>1, <4>2 DEF IInv, ProcInv, SenderAlone
    <3> QED BY <3>1, <3>2
  <2>2. s.record \in Records =>
            /\ refunds[s.record].status # "none" => refunds'[s.record].status # "none"
            /\ refunds'[s.record].amount = refunds[s.record].amount
            /\ refunds[s.record].gatewayId \in Dashboard =>
                  refunds'[s.record].gatewayId = refunds[s.record].gatewayId
            /\ s.pc = "send" => refunds'[s.record] = refunds[s.record]
    <3>1. CASE s.record # r BY <1>1, <3>1 DEF RecordUpdates
    <3>2. CASE s.record = r
      <4>1. refunds[r].gatewayId \in Dashboard => gateway[r].status = "none"
        BY <1>1 DEF IInv, DocInv, RecordInv
      <4> QED BY <1>1, <2>1, <3>2, <4>1 DEF RecordUpdates
    <3> QED BY <3>1, <3>2
  <2>3. proc'[q] = s OBVIOUS
  <2> HIDE DEF s
  <2> QED BY <2>1, <2>2, <2>3, RecordFits
<1> QED BY <1>3, <1>4, <1>5, <1>6 DEF IInv, ProcInv

\* The gateway's answer is written to the record, or the booking is undone.
LEMMA SettleStep ==
  ASSUME IInv, NEW p \in Processes, Settle(p)
  PROVE  IInv'
<1>1. proc[p].pc = "settle" /\ UNCHANGED <<payment, ledger, gateway, expiries>> BY DEF Settle
<1>2. CASE UpdateRefundRecord(p, {"PENDING"}) /\ Finish(p)
  <2>1. {"PENDING"} \subseteq LIVE BY DEF LIVE
  <2> QED BY <1>1, <1>2, <2>1, UpdateStep
<1>3. CASE /\ proc[p].report = "failed" /\ UNCHANGED refunds
           /\ Continue(p, [proc[p] EXCEPT !.pc = "reload"])
  <2> DEFINE s == [proc[p] EXCEPT !.pc = "reload"]
  <2>0. proc[p] \in Process BY DEF IInv, TypeInv
  <2>1. s.pc = "reload" /\ s.record = proc[p].record BY <2>0 DEF Process
  <2>2. s \in Process BY <2>0 DEF Process, PC
  <2>3. Continue(p, s) BY <1>3
  <2> HIDE DEF s
  <2>4. KnowsRefund(s) /\ Unsent(s) /\ Fresh(s) BY <2>1 DEF KnowsRefund, Unsent, Fresh
  <2>5. KnowsRecord(s) BY <1>1, <2>1 DEF IInv, ProcInv, Fits, KnowsRecord, Undoing
  <2>6. KnowsGateway(s)
    BY <1>1, <1>3, <2>1 DEF IInv, ProcInv, Fits, KnowsGateway, Undoing
  <2>7. Becomes(p, s) BY <1>1, <2>1, <2>2, <2>3, ContinueBecomes
  <2> QED BY <1>1, <1>3, <2>4, <2>5, <2>6, <2>7, Quiet DEF documents, Fits
<1> QED BY <1>2, <1>3 DEF Settle


\* A webhook's news is written to the record.
LEMMA UpdateActionStep ==
  ASSUME IInv, NEW p \in Processes, Update(p)
  PROVE  IInv'
BY UpdateStep DEF Update

\* bookRefund's transaction, on the documents.
LEMMA BookDocs ==
  ASSUME IInv, TypeInv', NEW p \in Processes, proc[p].pc = "book", PaymentUnchanged(p),
         NEW r \in Records, refunds[r].status = "none",
         NEW rec \in Refund, rec.status \in LIVE, rec.amount = proc[p].amount,
         rec.driver = proc[p].split.driver, rec.platform = proc[p].split.platform,
         rec.gatewayId = proc[p].gatewayId,
         refunds' = [refunds EXCEPT ![r] = rec],
         payment' = [status |-> StatusWhenBooked(proc[p].seen.refunded + proc[p].amount),
                     refunded |-> proc[p].seen.refunded + proc[p].amount],
         Post(1, proc[p].amount, proc[p].split),
         UNCHANGED <<gateway, expiries>>
  PROVE  DocInv'
<1>1. /\ proc[p] \in Process /\ refunds \in [Records -> Refund]
      /\ payment \in [status : PaymentStatus, refunded : 0 .. Amount]
      /\ TypeInv
  BY DEF IInv, TypeInv
<1>2. /\ proc[p].amount > 0
      /\ proc[p].seen.refunded + proc[p].amount <= Amount
      /\ proc[p].split.driver + proc[p].split.platform = proc[p].amount
      /\ \/ proc[p].op = "refund" /\ proc[p].gatewayId = 0
         \/ proc[p].op = "event" /\ proc[p].gatewayId \in Dashboard
  BY DEF IInv, ProcInv, Fits, KnowsRefund
<1>3. /\ proc[p].amount \in Nat /\ proc[p].split.driver \in Nat /\ proc[p].split.platform \in Nat
      /\ payment.refunded \in Nat /\ proc[p].seen = payment
  BY <1>1, Constants DEF Process, PaymentUnchanged
<1>4. refunds'[r] = rec /\ \A q \in Records : q # r => refunds'[q] = refunds[q] BY <1>1
<1>5. ~LiveRefund(r) /\ LiveRefund(r)' BY <1>4 DEF LiveRefund, LIVE
<1>6. /\ RecordedRefunds \in Nat /\ RecordedDriver \in Nat /\ RecordedPlatform \in Nat
  BY <1>1, RecordedNat
<1>7. /\ RecordedRefunds' = RecordedRefunds + proc[p].amount
      /\ RecordedDriver' = RecordedDriver + proc[p].split.driver
      /\ RecordedPlatform' = RecordedPlatform + proc[p].split.platform
  BY <1>1, <1>3, <1>4, <1>5, <1>6, RecordedChange
<1>8. BooksAgree'
  <2>1. payment.refunded = Legacy + RecordedRefunds
    BY DEF IInv, DocInv, BooksAgree
  <2>2. ledger = [rider |-> RecordedRefunds, driver |-> RecordedDriver,
                  platform |-> RecordedPlatform]
    BY DEF IInv, DocInv, BooksAgree
  <2>3. payment'.refunded = Legacy + RecordedRefunds'
    BY <1>3, <1>6, <1>7, <2>1, Constants
  <2>4. ledger' = [rider |-> RecordedRefunds', driver |-> RecordedDriver',
                   platform |-> RecordedPlatform']
    BY <1>3, <1>6, <1>7, <2>2 DEF Post
  <2> QED BY <2>3, <2>4 DEF BooksAgree
<1>9. StatusFollowsTotal'
  <2> DEFINE n == proc[p].seen.refunded + proc[p].amount
  <2>1. n \in Nat /\ n > 0 /\ n <= Amount BY <1>2, <1>3
  <2>2. payment'.status = StatusWhenBooked(n) /\ payment'.refunded = n OBVIOUS
  <2> HIDE DEF n
  <2> QED BY <2>1, <2>2, Constants DEF StatusFollowsTotal, StatusWhenBooked
<1>10. SplitsAddUp' BY <1>2, <1>3, <1>6, <1>7 DEF IInv, DocInv, SplitsAddUp
<1>11. gateway[r].status = "none" BY Constants DEF IInv, DocInv, GatewayInv
<1>12. RecordInv'
  <2> SUFFICES ASSUME NEW q \in Records
               PROVE  /\ refunds'[q].status # "none" =>
                            /\ refunds'[q].amount > 0
                            /\ refunds'[q].driver + refunds'[q].platform = refunds'[q].amount
                      /\ refunds'[q].status = "none" => refunds'[q].gatewayId = 0
                      /\ refunds'[q].gatewayId \in {0, q} \cup Dashboard
                      /\ refunds'[q].gatewayId \in Dashboard => gateway'[q].status = "none"
      BY DEF RecordInv
  <2>1. CASE q = r BY <1>2, <1>4, <1>11, <2>1 DEF LIVE
  <2>2. CASE q # r BY <1>4, <2>2 DEF IInv, DocInv, RecordInv
  <2> QED BY <2>1, <2>2
<1>13. GatewayInv'
  <2> SUFFICES ASSUME NEW g \in GatewayRefunds, gateway[g].status # "none"
               PROVE  gateway[g].amount > 0 /\ (g \in Records => refunds'[g].status # "none")
      BY DEF GatewayInv
  <2> QED BY <1>4, <1>11 DEF IInv, DocInv, GatewayInv
<1>14. SentRefundIsBooked'
  <2> SUFFICES ASSUME NEW q \in Records, gateway[q].status \in {"created", "processed"}
               PROVE  refunds'[q].status \in LIVE /\ refunds'[q].amount = gateway[q].amount
      BY DEF SentRefundIsBooked, LiveRefund
  <2>1. q # r BY <1>11
  <2> QED BY <1>4, <2>1 DEF IInv, DocInv, SentRefundIsBooked, LiveRefund
<1>15. Fresh(proc[p]) BY DEF IInv, ProcInv, Fits
<1>16. DashboardInv'
  <2> SUFFICES ASSUME expiries = 0, NEW q1 \in Records, NEW q2 \in Records,
                      refunds'[q1].gatewayId = refunds'[q2].gatewayId,
                      refunds'[q1].gatewayId \in Dashboard
               PROVE  q1 = q2
      BY DEF DashboardInv
  <2>1. rec.gatewayId \in Dashboard => \A q \in Records : refunds[q].gatewayId # rec.gatewayId
    BY <1>2, <1>15, Constants DEF Fresh
  <2> QED BY <1>4, <2>1 DEF IInv, DocInv, DashboardInv
<1>17. LegsWithinFare'
  <2> SUFFICES ASSUME expiries = 0
               PROVE  /\ RefundTotals'.driver \in 0 .. DriverEarning
                      /\ RefundTotals'.platform \in 0 .. Amount - DriverEarning
                      /\ RefundTotals'.driver + RefundTotals'.platform = payment'.refunded
      BY DEF LegsWithinFare
  <2>1. /\ RefundTotals.driver + proc[p].split.driver <= DriverEarning
        /\ RefundTotals.platform + proc[p].split.platform <= Amount - DriverEarning
    BY <1>15 DEF Fresh
  <2>2. /\ RefundTotals.driver = RecordedDriver + LegacyPart
        /\ RefundTotals.platform = RecordedPlatform + (Legacy - LegacyPart)
    BY <1>1, Totals DEF IInv, DocInv
  <2>3. /\ RefundTotals'.driver = RecordedDriver' + LegacyPart
        /\ RefundTotals'.platform = RecordedPlatform' + (Legacy - LegacyPart)
    BY <1>8, TotalsNext
  <2>4. /\ payment'.refunded = Legacy + RecordedRefunds'
        /\ RecordedDriver' + RecordedPlatform' = RecordedRefunds'
    BY <1>8, <1>10 DEF BooksAgree, SplitsAddUp
  <2>5. LegacyPart \in Nat /\ Legacy - LegacyPart \in Nat /\ Legacy \in Nat
    BY LegacyFits, Constants
  <2>6. /\ RecordedDriver' \in Nat /\ RecordedPlatform' \in Nat
        /\ RecordedDriver' + LegacyPart <= DriverEarning
        /\ RecordedPlatform' + (Legacy - LegacyPart) <= Amount - DriverEarning
    <3>1. /\ (RecordedDriver + LegacyPart) + proc[p].split.driver <= DriverEarning
          /\ (RecordedPlatform + (Legacy - LegacyPart)) + proc[p].split.platform
                <= Amount - DriverEarning
      BY <2>1, <2>2
    <3>2. /\ DriverEarning \in Int /\ Amount \in Int BY Constants
    <3> QED BY <1>3, <1>6, <1>7, <2>5, <3>1, <3>2
  <2>7. /\ RecordedDriver' + LegacyPart \in 0 .. DriverEarning
        /\ RecordedPlatform' + (Legacy - LegacyPart) \in 0 .. Amount - DriverEarning
        /\ RecordedDriver' + LegacyPart + (RecordedPlatform' + (Legacy - LegacyPart))
              = Legacy + RecordedRefunds'
    <3> DEFINE x == RecordedDriver'
    <3> DEFINE y == RecordedPlatform'
    <3> DEFINE z == RecordedRefunds'
    <3>1. x \in Nat /\ y \in Nat /\ x + y = z BY <2>4, <2>6
    <3>2. x + LegacyPart <= DriverEarning /\ y + (Legacy - LegacyPart) <= Amount - DriverEarning
      BY <2>6
    <3>3. DriverEarning \in Int /\ Amount \in Int BY Constants
    <3> HIDE DEF x, y, z
    <3>4. x + LegacyPart \in 0 .. DriverEarning
      BY <2>5, <3>1, <3>2, <3>3
    <3>5. y + (Legacy - LegacyPart) \in 0 .. Amount - DriverEarning
      BY <2>5, <3>1, <3>2, <3>3
    <3>6. x + LegacyPart + (y + (Legacy - LegacyPart)) = Legacy + z BY <2>5, <3>1
    <3> QED BY <3>4, <3>5, <3>6 DEF x, y, z
  <2> QED BY <2>3, <2>4, <2>7
<1> QED BY <1>8, <1>9, <1>10, <1>12, <1>13, <1>14, <1>16, <1>17 DEF DocInv

\* bookRefund's transaction.
LEMMA BookStep ==
  ASSUME IInv, NEW p \in Processes, Book(p)
  PROVE  IInv'
<1> DEFINE status == IF proc[p].op = "event" /\ proc[p].report = "processed"
                     THEN "PROCESSED" ELSE "PENDING"
<1> DEFINE rec == [status |-> status, amount |-> proc[p].amount,
                   driver |-> proc[p].split.driver, platform |-> proc[p].split.platform,
                   gatewayId |-> proc[p].gatewayId]
<1> DEFINE refunded == proc[p].seen.refunded + proc[p].amount
<1>1. proc[p].pc = "book" /\ PaymentUnchanged(p) /\ UNCHANGED <<gateway, expiries>>
  BY DEF Book
<1>2. PICK r \in FreeRecords :
        /\ payment' = [status |-> StatusWhenBooked(refunded), refunded |-> refunded]
        /\ refunds' = [refunds EXCEPT ![r] = rec]
        /\ Post(1, proc[p].amount, proc[p].split)
        /\ \/ /\ proc[p].op = "refund"
              /\ Continue(p, [proc[p] EXCEPT !.pc = "send", !.record = r])
           \/ /\ proc[p].op = "event"
              /\ Finish(p)
  BY DEF Book
<1>3. r \in Records /\ refunds[r].status = "none" BY DEF FreeRecords
<1>4. /\ proc[p] \in Process /\ refunds \in [Records -> Refund]
      /\ ledger \in [rider : Int, driver : Int, platform : Int]
  BY DEF IInv, TypeInv
<1>5. /\ rec \in Refund /\ rec.status \in LIVE
      /\ rec.amount = proc[p].amount /\ rec.driver = proc[p].split.driver
      /\ rec.platform = proc[p].split.platform /\ rec.gatewayId = proc[p].gatewayId
      /\ proc[p].op = "refund" => rec.status = "PENDING"
  BY <1>4 DEF Process, Refund, RecordStatus, LIVE
<1>6. refunded \in 0 .. Amount
  <2>1. proc[p].seen.refunded + proc[p].amount <= Amount
    BY <1>1 DEF IInv, ProcInv, Fits, KnowsRefund
  <2> QED BY <1>4, <2>1, Constants DEF Process
<1>7. payment' \in [status : PaymentStatus, refunded : 0 .. Amount]
  <2> HIDE DEF refunded
  <2> QED BY <1>2, <1>6 DEF StatusWhenBooked, PaymentStatus, REFUNDABLE_STATUSES
<1>8. ledger' \in [rider : Int, driver : Int, platform : Int]
  <2>1. /\ proc[p].amount \in Int /\ proc[p].split.driver \in Int
        /\ proc[p].split.platform \in Int
    BY <1>4, Constants DEF Process
  <2> QED BY <1>2, <1>4, <2>1 DEF Post
<1> HIDE DEF rec, status
<1>9. /\ refunds' \in [Records -> Refund] /\ refunds'[r] = rec
      /\ \A q \in Records : q # r => refunds'[q] = refunds[q]
  BY <1>2, <1>3, <1>4, <1>5
<1>10. \A q \in Processes : proc[q].record # r
  BY <1>3 DEF IInv, ProcInv, Fits, KnowsRecord
<1>11. gateway[r].status = "none" BY <1>3, Constants DEF IInv, DocInv, GatewayInv
<1>12. \E s : Becomes(p, s) /\ Fits(proc[p])'
  <2>1. CASE proc[p].op = "event" /\ Finish(p)
    <3>1. Becomes(p, Idle) BY <1>1, <2>1, EndBecomes
    <3>2. proc'[p] = Idle BY <3>1, ProcFrame
    <3>3. Idle.pc # "book" /\ Idle.record \notin Records BY IdleFits, Constants
    <3>4. Fits(proc[p])' BY <1>1, <3>2, <3>3, IdleFits, RecordFits
    <3> QED BY <3>1, <3>4
  <2>2. CASE /\ proc[p].op = "refund"
             /\ Continue(p, [proc[p] EXCEPT !.pc = "send", !.record = r])
    <3> DEFINE s == [proc[p] EXCEPT !.pc = "send", !.record = r]
    <3>1. /\ s.pc = "send" /\ s.record = r /\ s.amount = proc[p].amount
      BY <1>4 DEF Process
    <3>2. s \in Process BY <1>3, <1>4 DEF Process, PC
    <3>3. Continue(p, s) BY <2>2
    <3> HIDE DEF s
    <3>4. proc[p].gatewayId = 0
      BY <1>1, <2>2 DEF IInv, ProcInv, Fits, KnowsRefund
    <3>5. Becomes(p, s) BY <1>1, <1>10, <3>1, <3>2, <3>3 DEF Becomes, Continue, IInv, TypeInv
    <3>6. proc'[p] = s BY <3>5, ProcFrame
    <3>7. KnowsRefund(proc[p])' /\ KnowsGateway(proc[p])' /\ Fresh(proc[p])'
      BY <3>1, <3>6 DEF KnowsRefund, KnowsGateway, Fresh, Undoing
    <3>8. KnowsRecord(proc[p])'
      BY <1>3, <1>5, <1>9, <3>1, <3>6 DEF KnowsRecord, LIVE
    <3>9. Unsent(proc[p])'
      BY <1>1, <1>5, <1>9, <1>11, <3>1, <3>4, <3>6 DEF Unsent, LiveRefund
    <3>10. Fits(proc[p])' BY <3>7, <3>8, <3>9 DEF Fits
    <3> QED BY <3>5, <3>10
  <2> QED BY <1>2, <2>1, <2>2
<1>13. PICK s : Becomes(p, s) /\ Fits(proc[p])' BY <1>12
<1>14. /\ lock' \in Processes \cup {Nobody}
       /\ proc' \in [Processes -> Process]
       /\ LockInv'
       /\ SenderAlone'
       /\ \A q \in Processes : q # p => proc'[q] = proc[q]
  BY <1>13, ProcFrame
<1>15. TypeInv'
  BY <1>1, <1>7, <1>8, <1>9, <1>13, <1>14 DEF IInv, TypeInv, Becomes
<1>16. DocInv' BY <1>1, <1>2, <1>3, <1>5, <1>15, BookDocs
<1>17. ASSUME NEW q \in Processes PROVE Fits(proc[q])'
  <2>1. CASE q = p BY <1>13, <2>1
  <2>2. CASE q # p
    <3>1. Fits(proc[q]) /\ proc'[q] = proc[q] BY <1>14, <2>2 DEF IInv, ProcInv
    <3>2. expiries = 0 => proc[q].pc # "book" BY <1>1, <2>2, OthersIdle
    <3>3. proc[q].record \in Records => refunds'[proc[q].record] = refunds[proc[q].record]
      BY <1>9, <1>10
    <3> QED BY <1>1, <3>1, <3>2, <3>3, RecordFits
  <2> QED BY <2>1, <2>2
<1> QED BY <1>14, <1>15, <1>16, <1>17 DEF IInv, ProcInv


\* compensateRefund's transaction, on the documents.
LEMMA UndoDocs ==
  ASSUME IInv, TypeInv', NEW p \in Processes, proc[p].pc = "undo", Undoable(p),
         NEW r \in Records, r = proc[p].record,
         refunds' = [refunds EXCEPT ![r].status = "FAILED"],
         payment' = [status |-> StatusWhenUndone(payment.refunded - refunds[r].amount),
                     refunded |-> payment.refunded - refunds[r].amount],
         Post(-1, refunds[r].amount, refunds[r]),
         UNCHANGED <<gateway, expiries>>
  PROVE  DocInv'
<1>1. /\ refunds \in [Records -> Refund]
      /\ payment \in [status : PaymentStatus, refunded : 0 .. Amount]
      /\ TypeInv
  BY DEF IInv, TypeInv
<1>2. /\ refunds[r].status \in LIVE
      /\ refunds[r].status # "none"
      /\ payment.refunded = proc[p].seen.refunded
  BY DEF Undoable, LiveRefund, LIVE
<1>3. /\ refunds[r].amount > 0
      /\ refunds[r].driver + refunds[r].platform = refunds[r].amount
  BY <1>2 DEF IInv, DocInv, RecordInv
<1>4. refunds[r].amount <= payment.refunded
  BY <1>2 DEF IInv, ProcInv, Fits, KnowsRefund
<1>5. gateway[r].status \in {"none", "failed"}
  BY DEF IInv, ProcInv, Fits, KnowsGateway, Undoing
<1>6. refunds[r] \in Refund BY <1>1
<1>7. /\ refunds[r].amount \in Nat /\ refunds[r].driver \in Nat /\ refunds[r].platform \in Nat
      /\ payment.refunded \in Nat /\ payment.refunded <= Amount
  BY <1>1, <1>6, Constants DEF Refund
<1>8. /\ refunds'[r].status = "FAILED"
      /\ refunds'[r].amount = refunds[r].amount /\ refunds'[r].driver = refunds[r].driver
      /\ refunds'[r].platform = refunds[r].platform
      /\ refunds'[r].gatewayId = refunds[r].gatewayId
      /\ \A q \in Records : q # r => refunds'[q] = refunds[q]
  BY <1>1, <1>6 DEF Refund
<1>9. LiveRefund(r) /\ ~(refunds'[r].status \in LIVE) BY <1>2, <1>8 DEF LiveRefund, LIVE
<1>10. /\ RecordedRefunds \in Nat /\ RecordedDriver \in Nat /\ RecordedPlatform \in Nat
       /\ refunds[r].amount <= RecordedRefunds /\ refunds[r].driver <= RecordedDriver
       /\ refunds[r].platform <= RecordedPlatform
  BY <1>1, <1>9, RecordedNat
<1>11. /\ RecordedRefunds' = RecordedRefunds - refunds[r].amount
       /\ RecordedDriver' = RecordedDriver - refunds[r].driver
       /\ RecordedPlatform' = RecordedPlatform - refunds[r].platform
  <2>1. ~LiveRefund(r)' BY <1>9 DEF LiveRefund
  <2> QED BY <1>1, <1>7, <1>8, <1>9, <1>10, <2>1, RecordedChange
<1> DEFINE amount == refunds[r].amount
<1> DEFINE driver == refunds[r].driver
<1> DEFINE platform == refunds[r].platform
<1>12. /\ payment'.refunded = payment.refunded - amount
       /\ payment'.status = StatusWhenUndone(payment.refunded - amount)
       /\ amount \in Nat /\ amount > 0 /\ amount <= payment.refunded
       /\ driver \in Nat /\ platform \in Nat /\ driver + platform = amount
       /\ RecordedRefunds' = RecordedRefunds - amount
       /\ RecordedDriver' = RecordedDriver - driver
       /\ RecordedPlatform' = RecordedPlatform - platform
  BY <1>3, <1>4, <1>7, <1>11
<1> HIDE DEF amount, driver, platform
<1>13. BooksAgree'
  <2>1. payment.refunded = Legacy + RecordedRefunds
    BY DEF IInv, DocInv, BooksAgree
  <2>2. ledger = [rider |-> RecordedRefunds, driver |-> RecordedDriver,
                  platform |-> RecordedPlatform]
    BY DEF IInv, DocInv, BooksAgree
  <2>3. payment'.refunded = Legacy + RecordedRefunds'
    <3> DEFINE n == payment.refunded
    <3> DEFINE m == payment'.refunded
    <3>1. n = Legacy + RecordedRefunds /\ m = n - amount BY <1>12, <2>1
    <3> HIDE DEF n, m
    <3>2. m = Legacy + (RecordedRefunds - amount) BY <1>10, <1>12, <3>1, Constants
    <3> QED BY <1>12, <3>2 DEF m
  <2>4. ledger' = [rider |-> RecordedRefunds', driver |-> RecordedDriver',
                   platform |-> RecordedPlatform']
    BY <1>7, <1>10, <1>11, <2>2 DEF Post
  <2> QED BY <2>3, <2>4 DEF BooksAgree
<1>14. StatusFollowsTotal'
  <2> DEFINE n == payment.refunded - amount
  <2>1. n \in Nat /\ n < Amount
    <3> DEFINE k == payment.refunded
    <3>1. k \in Nat /\ k <= Amount /\ amount <= k BY <1>7, <1>12
    <3> HIDE DEF k
    <3>2. k - amount \in Nat /\ k - amount < Amount BY <1>12, <3>1, Constants
    <3> QED BY <3>2 DEF k
  <2>2. payment'.status = StatusWhenUndone(n) /\ payment'.refunded = n BY <1>12
  <2> HIDE DEF n
  <2> QED BY <2>1, <2>2, Constants DEF StatusFollowsTotal, StatusWhenUndone
<1>15. SplitsAddUp'
  <2>1. RecordedDriver + RecordedPlatform = RecordedRefunds BY DEF IInv, DocInv, SplitsAddUp
  <2>2. (RecordedDriver - driver) + (RecordedPlatform - platform) = RecordedRefunds - amount
    BY <1>10, <1>12, <2>1
  <2> QED BY <1>12, <2>2 DEF SplitsAddUp
<1>16. RecordInv'
  <2> SUFFICES ASSUME NEW q \in Records
               PROVE  /\ refunds'[q].status # "none" =>
                            /\ refunds'[q].amount > 0
                            /\ refunds'[q].driver + refunds'[q].platform = refunds'[q].amount
                      /\ refunds'[q].status = "none" => refunds'[q].gatewayId = 0
                      /\ refunds'[q].gatewayId \in {0, q} \cup Dashboard
                      /\ refunds'[q].gatewayId \in Dashboard => gateway'[q].status = "none"
      BY DEF RecordInv
  <2>1. CASE q = r BY <1>3, <1>8, <2>1 DEF IInv, DocInv, RecordInv
  <2>2. CASE q # r BY <1>8, <2>2 DEF IInv, DocInv, RecordInv
  <2> QED BY <2>1, <2>2
<1>17. GatewayInv'
  <2> SUFFICES ASSUME NEW g \in GatewayRefunds, gateway[g].status # "none"
               PROVE  gateway[g].amount > 0 /\ (g \in Records => refunds'[g].status # "none")
      BY DEF GatewayInv
  <2> QED BY <1>8 DEF IInv, DocInv, GatewayInv
<1>18. SentRefundIsBooked'
  <2> SUFFICES ASSUME NEW q \in Records, gateway[q].status \in {"created", "processed"}
               PROVE  refunds'[q].status \in LIVE /\ refunds'[q].amount = gateway[q].amount
      BY DEF SentRefundIsBooked, LiveRefund
  <2>1. q # r BY <1>5
  <2> QED BY <1>8, <2>1 DEF IInv, DocInv, SentRefundIsBooked, LiveRefund
<1>19. DashboardInv'
  <2>1. \A q \in Records : refunds'[q].gatewayId = refunds[q].gatewayId BY <1>8
  <2> QED BY <2>1 DEF IInv, DocInv, DashboardInv
<1>20. LegsWithinFare'
  <2> SUFFICES ASSUME expiries = 0
               PROVE  /\ RefundTotals'.driver \in 0 .. DriverEarning
                      /\ RefundTotals'.platform \in 0 .. Amount - DriverEarning
                      /\ RefundTotals'.driver + RefundTotals'.platform = payment'.refunded
      BY DEF LegsWithinFare
  <2>1. /\ RefundTotals.driver \in 0 .. DriverEarning
        /\ RefundTotals.platform \in 0 .. Amount - DriverEarning
    BY DEF IInv, DocInv, LegsWithinFare
  <2>2. /\ RefundTotals.driver = RecordedDriver + LegacyPart
        /\ RefundTotals.platform = RecordedPlatform + (Legacy - LegacyPart)
    BY <1>1, Totals DEF IInv, DocInv
  <2>3. /\ RefundTotals'.driver = RecordedDriver' + LegacyPart
        /\ RefundTotals'.platform = RecordedPlatform' + (Legacy - LegacyPart)
    BY <1>13, TotalsNext
  <2>4. /\ payment'.refunded = Legacy + RecordedRefunds'
        /\ RecordedDriver' + RecordedPlatform' = RecordedRefunds'
    BY <1>13, <1>15 DEF BooksAgree, SplitsAddUp
  <2>5. LegacyPart \in Nat /\ Legacy - LegacyPart \in Nat /\ Legacy \in Nat
    BY LegacyFits, Constants
  <2>6. DriverEarning \in Int /\ Amount \in Int BY Constants
  <2>7. /\ RecordedDriver' \in Nat /\ RecordedPlatform' \in Nat
        /\ RecordedDriver' <= RecordedDriver /\ RecordedPlatform' <= RecordedPlatform
    BY <1>7, <1>10, <1>11
  <2> DEFINE x == RecordedDriver'
  <2> DEFINE y == RecordedPlatform'
  <2> DEFINE z == RecordedRefunds'
  <2> DEFINE u == RecordedDriver
  <2> DEFINE v == RecordedPlatform
  <2>8. /\ x \in Nat /\ y \in Nat /\ x + y = z
        /\ u \in Nat /\ v \in Nat /\ x <= u /\ y <= v
    BY <1>10, <2>4, <2>7
  <2>9. u + LegacyPart <= DriverEarning /\ v + (Legacy - LegacyPart) <= Amount - DriverEarning
    BY <2>1, <2>2
  <2>10. /\ RefundTotals'.driver = x + LegacyPart
         /\ RefundTotals'.platform = y + (Legacy - LegacyPart)
         /\ payment'.refunded = Legacy + z
    BY <2>3, <2>4
  <2> HIDE DEF x, y, z, u, v
  <2>11. x + LegacyPart \in 0 .. DriverEarning BY <2>5, <2>6, <2>8, <2>9
  <2>12. y + (Legacy - LegacyPart) \in 0 .. Amount - DriverEarning
    BY <2>5, <2>6, <2>8, <2>9
  <2>13. x + LegacyPart + (y + (Legacy - LegacyPart)) = Legacy + z BY <2>5, <2>8
  <2> QED BY <2>10, <2>11, <2>12, <2>13
<1> QED BY <1>13, <1>14, <1>15, <1>16, <1>17, <1>18, <1>19, <1>20 DEF DocInv

\* compensateRefund's transaction.
LEMMA UndoStep ==
  ASSUME IInv, NEW p \in Processes, Undo(p)
  PROVE  IInv'
<1> DEFINE r == proc[p].record
<1> DEFINE refunded == payment.refunded - refunds[r].amount
<1>1. /\ proc[p].pc = "undo" /\ Undoable(p) /\ Finish(p) /\ UNCHANGED <<gateway, expiries>>
  BY DEF Undo
<1>2. /\ r \in Records
      /\ refunds[r].amount <= payment.refunded
  <2>1. proc[p].record \in Records /\ refunds[proc[p].record].amount <= proc[p].seen.refunded
    BY <1>1 DEF IInv, ProcInv, Fits, KnowsRecord, KnowsRefund, Undoing
  <2>2. payment.refunded = proc[p].seen.refunded BY <1>1 DEF Undoable
  <2> QED BY <2>1, <2>2
<1>3. /\ payment' = [status |-> StatusWhenUndone(refunded), refunded |-> refunded]
      /\ refunds' = [refunds EXCEPT ![r].status = "FAILED"]
      /\ Post(-1, refunds[r].amount, refunds[r])
  BY <1>1 DEF Undo, Undoable
<1>4. /\ refunds \in [Records -> Refund] /\ payment.refunded \in 0 .. Amount
      /\ ledger \in [rider : Int, driver : Int, platform : Int]
  BY DEF IInv, TypeInv
<1>5. refunds[r] \in Refund BY <1>2, <1>4
<1>6. /\ refunds[r].amount \in Nat /\ refunds[r].driver \in Nat /\ refunds[r].platform \in Nat
  BY <1>5, Constants DEF Refund
<1>7. refunded \in 0 .. Amount BY <1>2, <1>4, <1>6, Constants
<1>8. payment' \in [status : PaymentStatus, refunded : 0 .. Amount]
  <2> HIDE DEF refunded
  <2> QED BY <1>3, <1>7 DEF StatusWhenUndone, PaymentStatus, REFUNDABLE_STATUSES
<1>9. ledger' \in [rider : Int, driver : Int, platform : Int]
  BY <1>3, <1>4, <1>6 DEF Post
<1> HIDE DEF r
<1>10. [refunds[r] EXCEPT !.status = "FAILED"] \in Refund
  BY <1>5 DEF Refund, RecordStatus
<1>11. /\ refunds' \in [Records -> Refund]
       /\ refunds'[r] = [refunds[r] EXCEPT !.status = "FAILED"]
       /\ \A q \in Records : q # r => refunds'[q] = refunds[q]
  BY <1>2, <1>3, <1>4, <1>10
<1>12. /\ refunds'[r].status = "FAILED" /\ refunds'[r].amount = refunds[r].amount
       /\ refunds'[r].gatewayId = refunds[r].gatewayId
  BY <1>5, <1>11 DEF Refund
<1>13. Becomes(p, Idle) BY <1>1, EndBecomes
<1>14. /\ lock' \in Processes \cup {Nobody}
       /\ proc' \in [Processes -> Process]
       /\ LockInv'
       /\ SenderAlone'
       /\ proc'[p] = Idle
       /\ \A q \in Processes : q # p => proc'[q] = proc[q]
  BY <1>13, ProcFrame
<1>15. TypeInv'
  BY <1>1, <1>8, <1>9, <1>11, <1>13, <1>14 DEF IInv, TypeInv, Becomes
<1>16. DocInv' BY <1>1, <1>2, <1>3, <1>15, UndoDocs DEF r
<1>17. ASSUME NEW q \in Processes PROVE Fits(proc[q])'
  <2>1. CASE q = p
    <3>1. Idle.pc # "book" /\ Idle.record \notin Records BY IdleFits, Constants
    <3> QED BY <1>1, <1>14, <2>1, <3>1, IdleFits, RecordFits
  <2>2. CASE q # p
    <3>1. Fits(proc[q]) /\ proc'[q] = proc[q] BY <1>14, <2>2 DEF IInv, ProcInv
    <3>2. expiries = 0 => proc[q].pc # "book" BY <1>1, <2>2, OthersIdle
    <3>3. proc[q].pc = "send" => proc[q].record # r
      BY <2>2 DEF IInv, ProcInv, SenderAlone, r
    <3>4. proc[q].record \in Records =>
            /\ refunds[proc[q].record].status # "none" =>
                  refunds'[proc[q].record].status # "none"
            /\ refunds'[proc[q].record].amount = refunds[proc[q].record].amount
            /\ refunds'[proc[q].record].gatewayId = refunds[proc[q].record].gatewayId
            /\ proc[q].pc = "send" => refunds'[proc[q].record] = refunds[proc[q].record]
      <4>1. CASE proc[q].record = r BY <1>12, <3>3, <4>1
      <4>2. CASE proc[q].record # r BY <1>11, <4>2
      <4> QED BY <4>1, <4>2
    <3> QED BY <1>1, <3>1, <3>2, <3>4, RecordFits
  <2> QED BY <2>1, <2>2
<1> QED BY <1>14, <1>15, <1>16, <1>17 DEF IInv, ProcInv


-----------------------------------------------------------------------------
(* The theorems.                                                           *)

\* The documents before the first refund.
LEMMA InitDocs ==
  ASSUME Init, TypeInv
  PROVE  DocInv
<1>1. /\ refunds = [r \in Records |-> NoRefund]
      /\ ledger = [rider |-> 0, driver |-> 0, platform |-> 0]
      /\ gateway = [g \in GatewayRefunds |-> [status |-> "none", amount |-> 0]]
      /\ payment = [status |-> IF Legacy = 0 THEN "CAPTURED" ELSE StatusWhenBooked(Legacy),
                    refunded |-> Legacy]
  BY DEF Init
<1>2. \A r \in Records : /\ ~LiveRefund(r) /\ refunds[r].status = "none"
                         /\ refunds[r].gatewayId = 0
  BY <1>1 DEF NoRefund, LiveRefund, LIVE
<1>3. \A g \in GatewayRefunds : gateway[g].status = "none" BY <1>1
<1>4. RecordedRefunds = 0 /\ RecordedDriver = 0 /\ RecordedPlatform = 0
  <2> DEFINE a == [r \in Records |-> IF LiveRefund(r) THEN refunds[r].amount ELSE 0]
  <2> DEFINE d == [r \in Records |-> IF LiveRefund(r) THEN refunds[r].driver ELSE 0]
  <2> DEFINE e == [r \in Records |-> IF LiveRefund(r) THEN refunds[r].platform ELSE 0]
  <2>1. \A r \in 1 .. MaxRecords : a[r] = 0 /\ d[r] = 0 /\ e[r] = 0 BY <1>2, Constants
  <2>2. /\ RecordedRefunds = Sum(a, MaxRecords)
        /\ RecordedDriver = Sum(d, MaxRecords)
        /\ RecordedPlatform = Sum(e, MaxRecords)
    BY DEF RecordedRefunds, RecordedDriver, RecordedPlatform
  <2> HIDE DEF a, d, e
  <2>3. Sum(a, MaxRecords) = 0 BY <2>1, SumOfZeros, Constants
  <2>4. Sum(d, MaxRecords) = 0 BY <2>1, SumOfZeros, Constants
  <2>5. Sum(e, MaxRecords) = 0 BY <2>1, SumOfZeros, Constants
  <2> QED BY <2>2, <2>3, <2>4, <2>5
<1>5. BooksAgree
  <2>1. payment.refunded = Legacy + RecordedRefunds BY <1>1, <1>4, Constants
  <2> QED BY <1>1, <1>4, <2>1 DEF BooksAgree
<1>6. StatusFollowsTotal BY <1>1, Constants DEF StatusFollowsTotal, StatusWhenBooked
<1>7. SplitsAddUp BY <1>4 DEF SplitsAddUp
<1>8. RecordInv /\ GatewayInv /\ DashboardInv
  BY <1>2, <1>3, Constants DEF RecordInv, GatewayInv, DashboardInv
<1>9. SentRefundIsBooked BY <1>3, Constants DEF SentRefundIsBooked
<1>10. LegsWithinFare
  <2>1. /\ RefundTotals.driver = RecordedDriver + LegacyPart
        /\ RefundTotals.platform = RecordedPlatform + (Legacy - LegacyPart)
    BY <1>5, Totals
  <2>2. RefundTotals.driver = LegacyPart /\ RefundTotals.platform = Legacy - LegacyPart
    BY <1>4, <2>1, LegacyFits, Constants
  <2>3. LegacyPart + (Legacy - LegacyPart) = Legacy BY LegacyFits, Constants
  <2>4. payment.refunded = Legacy BY <1>1
  <2> QED BY <2>2, <2>3, <2>4, LegacyFits DEF LegsWithinFare
<1> QED BY <1>5, <1>6, <1>7, <1>8, <1>9, <1>10 DEF DocInv

\* A captured payment without refund records.
LEMMA InitInv == Init => IInv
<1> SUFFICES ASSUME Init PROVE IInv OBVIOUS
<1>1. TypeInv
  <2>1. NoRefund \in Refund BY Constants DEF NoRefund, Refund, RecordStatus
  <2>2. refunds \in [Records -> Refund] BY <2>1 DEF Init
  <2>3. proc \in [Processes -> Process] BY IdleFits DEF Init
  <2>4. payment \in [status : PaymentStatus, refunded : 0 .. Amount]
    BY Constants DEF Init, StatusWhenBooked, PaymentStatus, REFUNDABLE_STATUSES
  <2>5. gateway \in [GatewayRefunds ->
                       [status : GatewayStatus \cup {"none"}, amount : 0 .. Amount]]
    BY Constants DEF Init
  <2>6. ledger \in [rider : Int, driver : Int, platform : Int] BY DEF Init
  <2>7. lock \in Processes \cup {Nobody} /\ expiries \in 0 .. MaxExpiries /\ told \subseteq Dashboard
    BY RefundsAssumption DEF Init
  <2> QED BY <2>2, <2>3, <2>4, <2>5, <2>6, <2>7 DEF TypeInv
<1>2. \A p \in Processes : proc[p] = Idle BY DEF Init
<1>3. LockInv BY <1>2, IdleFits DEF LockInv
<1>4. ProcInv BY <1>2, IdleFits DEF ProcInv, SenderAlone
<1>5. DocInv BY <1>1, InitDocs
<1> QED BY <1>1, <1>3, <1>4, <1>5 DEF IInv

\* A step of the system that is none of the handlers'.
LEMMA StutterStep ==
  ASSUME IInv, UNCHANGED vars
  PROVE  IInv'
<1>1. /\ UNCHANGED <<payment, refunds, ledger, gateway>>
      /\ UNCHANGED <<lock, proc, expiries, told>>
  BY DEF vars
<1>2. TypeInv' /\ LockInv' BY <1>1 DEF IInv, TypeInv, LockInv
<1>3. DocInv' BY <1>1, DocFrame DEF IInv, documents
<1>4. ASSUME NEW p \in Processes PROVE Fits(proc[p])'
  <2>1. Fits(proc[p]) /\ proc'[p] = proc[p] BY <1>1 DEF IInv, ProcInv
  <2> QED BY <1>1, <2>1, FitsFrame DEF documents
<1>5. ProcInv' BY <1>1, <1>4 DEF IInv, ProcInv, SenderAlone
<1> QED BY <1>2, <1>3, <1>5 DEF IInv

\* Each step of a process keeps the invariant.
LEMMA ProcessStep ==
  ASSUME IInv, NEW p \in Processes, Step(p)
  PROVE  IInv'
<1>1. CASE ReadForRefund(p) BY <1>1, ReadForRefundStep
<1>2. CASE ReadForEvent(p) BY <1>2, ReadForEventStep
<1>3. CASE ReadForAbandon(p) BY <1>3, ReadForAbandonStep
<1>4. CASE Book(p) BY <1>4, BookStep
<1>5. CASE BookConflict(p) BY <1>5, BookConflictStep
<1>6. CASE Send(p) BY <1>6, SendStep
<1>7. CASE Settle(p) BY <1>7, SettleStep
<1>8. CASE Update(p) BY <1>8, UpdateActionStep
<1>9. CASE Reload(p) BY <1>9, ReloadStep
<1>10. CASE Undo(p) BY <1>10, UndoStep
<1>11. CASE UndoAgain(p) BY <1>11, UndoAgainStep
<1>12. CASE Fail(p) BY <1>12, FailStep
<1>13. CASE Crash(p) BY <1>13, CrashStep
<1> QED
  BY <1>1, <1>2, <1>3, <1>4, <1>5, <1>6, <1>7, <1>8, <1>9, <1>10, <1>11, <1>12, <1>13 DEF Step

\* Whatever handlers, webhooks, sweep, gateway, crashes and expiring locks do,
\* in whatever order, the invariant holds.
THEOREM Inductive == Spec => []IInv
<1>1. IInv /\ [Next]_vars => IInv'
  <2> SUFFICES ASSUME IInv, [Next]_vars PROVE IInv' OBVIOUS
  <2>1. CASE \E p \in Handlers, amount \in 1 .. Amount : StartRefund(p, amount)
    BY <2>1, StartRefundStep
  <2>2. CASE \E p \in Handlers, g \in GatewayRefunds, report \in GatewayStatus :
               StartEvent(p, g, report)
    BY <2>2, StartEventStep DEF Processes
  <2>3. CASE \E r \in Records : SweepRefund(r) BY <2>3, SweepStep
  <2>4. CASE \E p \in Processes : Step(p) BY <2>4, ProcessStep
  <2>5. CASE \E g \in Dashboard, amount \in 1 .. Amount : DashboardRefund(g, amount)
    BY <2>5, DashboardRefundStep
  <2>6. CASE \E g \in GatewayRefunds : GatewaySettles(g) BY <2>6, GatewaySettlesStep
  <2>7. CASE LockExpires BY <2>7, LockExpiresStep
  <2>8. CASE UNCHANGED vars BY <2>8, StutterStep
  <2> QED BY <2>1, <2>2, <2>3, <2>4, <2>5, <2>6, <2>7, <2>8 DEF Next
<1> QED BY <1>1, InitInv, PTL DEF Spec

\* Amounts, splits, records and the net postings of every account stay within
\* the capture: no posting of a refund is undone twice.
THEOREM TypeCorrect == Spec => []TypeOK
<1>1. IInv => TypeOK
  <2> SUFFICES ASSUME IInv PROVE TypeOK OBVIOUS
  <2>1. TypeInv BY DEF IInv
  <2>2. ledger = [rider |-> RecordedRefunds, driver |-> RecordedDriver,
                  platform |-> RecordedPlatform]
    BY DEF IInv, DocInv, BooksAgree
  <2>3. /\ payment.refunded = Legacy + RecordedRefunds
        /\ RecordedDriver + RecordedPlatform = RecordedRefunds
        /\ payment.refunded <= Amount
    BY <2>1, Constants DEF IInv, DocInv, BooksAgree, SplitsAddUp, TypeInv
  <2>4. RecordedRefunds \in Nat /\ RecordedDriver \in Nat /\ RecordedPlatform \in Nat
    BY <2>1, RecordedNat
  <2>5. /\ RecordedRefunds \in 0 .. Amount /\ RecordedDriver \in 0 .. Amount
        /\ RecordedPlatform \in 0 .. Amount
    <3> DEFINE x == RecordedRefunds
    <3> DEFINE y == RecordedDriver
    <3> DEFINE z == RecordedPlatform
    <3>1. Legacy + x <= Amount /\ y + z = x /\ x \in Nat /\ y \in Nat /\ z \in Nat
      BY <2>3, <2>4
    <3> HIDE DEF x, y, z
    <3>2. x \in 0 .. Amount /\ y \in 0 .. Amount /\ z \in 0 .. Amount BY <3>1, Constants
    <3> QED BY <3>2 DEF x, y, z
  <2>6. ledger \in [rider : 0 .. Amount, driver : 0 .. Amount, platform : 0 .. Amount]
    BY <2>2, <2>5
  <2> QED BY <2>1, <2>6 DEF TypeInv, TypeOK
<1> QED BY <1>1, Inductive, PTL

\* Refunded total, live records and ledger agree in every state, also with
\* locks that expire under their holders.
THEOREM BooksExact == Spec => []BooksAgree
<1>1. IInv => BooksAgree BY DEF IInv, DocInv
<1> QED BY <1>1, Inductive, PTL

\* The payment's status always says how much of it was refunded.
THEOREM StatusExact == Spec => []StatusFollowsTotal
<1>1. IInv => StatusFollowsTotal BY DEF IInv, DocInv
<1> QED BY <1>1, Inductive, PTL

\* While the lock works, no account gives back more than its leg of the fare.
THEOREM LegsCovered == Spec => []LegsWithinFare
<1>1. IInv => LegsWithinFare BY DEF IInv, DocInv
<1> QED BY <1>1, Inductive, PTL

\* What the gateway refunded for the app stays in the books, with its amount.
THEOREM SentIsBooked == Spec => []SentRefundIsBooked
<1>1. IInv => SentRefundIsBooked BY DEF IInv, DocInv
<1> QED BY <1>1, Inductive, PTL

\* While the lock works, no refund of the gateway is booked twice.
THEOREM OneRecord == Spec => []OneRecordPerRefund
<1>1. IInv => OneRecordPerRefund
  <2> SUFFICES ASSUME IInv, expiries = 0, NEW r \in Records, NEW q \in Records,
                      refunds[r].gatewayId = refunds[q].gatewayId,
                      refunds[r].gatewayId # 0
               PROVE  r = q
      BY DEF OneRecordPerRefund
  <2>1. /\ refunds[r].gatewayId \in {0, r} \cup Dashboard
        /\ refunds[q].gatewayId \in {0, q} \cup Dashboard
    BY DEF IInv, DocInv, RecordInv
  <2>2. CASE refunds[r].gatewayId \in Dashboard BY <2>2 DEF IInv, DocInv, DashboardInv
  <2>3. CASE refunds[r].gatewayId \notin Dashboard BY <2>1, <2>3
  <2> QED BY <2>2, <2>3
<1> QED BY <1>1, Inductive, PTL

-----------------------------------------------------------------------------
(* Dashboard refunds.  That an answered one is booked needs a second       *)
(* invariant, of what the gateway paid out and what the records stand for. *)

\* No refund was undone.
NoneFailed == \A r \in Records : refunds[r].status # "FAILED"

\* The gateway's refund that a record stands for.
Source(r) == IF refunds[r].gatewayId \in Dashboard THEN refunds[r].gatewayId ELSE r

\* Razorpay does not refund more than was captured.
GatewayBound == Legacy + RefundedAtGateway <= Amount

\* A record of a dashboard refund has its amount; a processed record is
\* processed at the gateway; no two records stand for the same refund.
SourceInv ==
    /\ \A r \in Records : Source(r) \in Dashboard =>
        gateway[Source(r)].status # "none" /\ refunds[r].amount = gateway[Source(r)].amount
    /\ \A r \in Records :
        refunds[r].status = "PROCESSED" => gateway[Source(r)].status = "processed"
    /\ \A r, q \in Records : Source(r) = Source(q) => r = q

\* Where a process works on what it heard of the gateway.
Hears(s) == s.pc \in {"settle", "update"} \/ (s.op = "event" /\ s.pc \in {"locked", "book"})

\* What a process in state s heard of the gateway; and that its refund is not
\* booked if the total is still the one it read.
KnowsSource(s) ==
    /\ s.pc = "send" => s.op = "refund"
    /\ Hears(s) /\ s.report = "processed" => gateway[s.gatewayId].status = "processed"
    /\ s.pc = "book" => s.seen.refunded <= payment.refunded
    /\ s.pc = "book" /\ s.op = "event" =>
        /\ gateway[s.gatewayId].status # "none"
        /\ s.amount = gateway[s.gatewayId].amount
        /\ s.seen.refunded = payment.refunded => \A r \in Records : Source(r) # s.gatewayId

\* An answered dashboard refund is booked, or did not fit into what was left
\* and still does not.
Told(g) ==
    /\ gateway[g].status # "none"
    /\ gateway[g].status \in {"created", "processed"} =>
        \/ \E r \in Records : LiveRefund(r) /\ Source(r) = g
        \/ payment.refunded + gateway[g].amount > Amount

\* As long as no refund was undone: the total only grows.
Sources == SourceInv /\ (\A p \in Processes : KnowsSource(proc[p])) /\ \A g \in told : Told(g)
SInv == GatewayBound /\ (NoneFailed => Sources)

\* A step that undoes nothing.
Grows ==
    /\ payment.refunded <= payment'.refunded
    /\ \A g \in GatewayRefunds : gateway[g].status # "none" =>
        /\ gateway'[g].amount = gateway[g].amount
        /\ gateway'[g].status # "none"
        /\ gateway[g].status \in {"processed", "failed"} =>
              gateway'[g].status = gateway[g].status
    /\ \A r \in Records : refunds[r].status # "none" =>
        /\ refunds'[r].status # "none"
        /\ refunds'[r].amount = refunds[r].amount
        /\ refunds[r].status = "FAILED" => refunds'[r].status = "FAILED"
        /\ Source(r)' = Source(r)
    /\ \A r \in Records : refunds[r].status = "none" =>
        refunds'[r] = refunds[r] \/ payment.refunded < payment'.refunded

\* Nothing is undone before the step either.
LEMMA NoneFailedBefore == ASSUME Grows, NoneFailed' PROVE NoneFailed
BY DEF Grows, NoneFailed

\* The refund of the gateway that a record stands for.
LEMMA SourceOf ==
  ASSUME IInv, NEW r \in Records
  PROVE  /\ Source(r) \in GatewayRefunds
         /\ refunds[r].status = "none" => Source(r) = r
         /\ \A g \in Dashboard : Source(r) = g <=> refunds[r].gatewayId = g
         /\ Source(r) \notin Dashboard => Source(r) = r
BY Constants DEF Source, IInv, DocInv, RecordInv

\* What a process knows stays true.
LEMMA KnowsGrows ==
  ASSUME IInv, NoneFailed, NEW p \in Processes, NEW s \in Process, Fits(s), KnowsSource(s),
         Grows, IInv', proc'[p] = s
  PROVE  KnowsSource(proc[p])'
<1>1. payment.refunded \in Nat /\ payment'.refunded \in Nat /\ s.seen.refunded \in Nat
  BY Constants DEF IInv, TypeInv, Process
<1>2. payment.refunded <= payment'.refunded BY DEF Grows
<1>3. s.pc = "send" => s.op = "refund" BY DEF KnowsSource
<1>4. ASSUME Hears(s), s.report = "processed" PROVE gateway'[s.gatewayId].status = "processed"
  <2>1. s.gatewayId \in GatewayRefunds
    BY <1>4, Constants DEF Hears, Fits, KnowsRefund, KnowsRecord, KnowsGateway
  <2>2. gateway[s.gatewayId].status = "processed" BY <1>4 DEF KnowsSource
  <2> QED BY <2>1, <2>2 DEF Grows
<1>5. s.pc = "book" => s.seen.refunded <= payment'.refunded BY <1>1, <1>2 DEF KnowsSource
<1>6. ASSUME s.pc = "book", s.op = "event"
      PROVE  /\ gateway'[s.gatewayId].status # "none"
             /\ s.amount = gateway'[s.gatewayId].amount
             /\ s.seen.refunded = payment'.refunded =>
                  \A r \in Records : Source(r)' # s.gatewayId
  <2>1. s.gatewayId \in GatewayRefunds BY <1>6, Constants DEF Fits, KnowsRefund
  <2>2. /\ gateway[s.gatewayId].status # "none"
        /\ s.amount = gateway[s.gatewayId].amount
        /\ s.seen.refunded <= payment.refunded
        /\ s.seen.refunded = payment.refunded => \A r \in Records : Source(r) # s.gatewayId
    BY <1>6 DEF KnowsSource
  <2>3. gateway'[s.gatewayId].status # "none" /\ s.amount = gateway'[s.gatewayId].amount
    BY <2>1, <2>2 DEF Grows
  <2>4. ASSUME s.seen.refunded = payment'.refunded, NEW r \in Records
        PROVE  Source(r)' # s.gatewayId
    <3>1. payment.refunded = payment'.refunded BY <1>1, <1>2, <2>2, <2>4
    <3>2. Source(r) # s.gatewayId BY <2>2, <2>4, <3>1
    <3>3. Source(r)' = Source(r) BY <1>1, <3>1 DEF Grows, Source
    <3> QED BY <3>2, <3>3
  <2> QED BY <2>3, <2>4
<1>7. Hears(proc[p])' <=> Hears(s) BY DEF Hears
<1> QED BY <1>3, <1>4, <1>5, <1>6, <1>7 DEF KnowsSource

\* What was answered stays booked, or stays too large.
LEMMA ToldGrows ==
  ASSUME IInv, IInv', NoneFailed', Grows, NEW g \in Dashboard, Told(g)
  PROVE  Told(g)'
<1>1. g \in GatewayRefunds BY Constants
<1>2. gateway[g].status \in GatewayStatus /\ gateway[g].amount \in Nat
  <2>1. gateway[g] \in [status : GatewayStatus \cup {"none"}, amount : 0 .. Amount]
    BY <1>1 DEF IInv, TypeInv
  <2>2. gateway[g].status # "none" BY DEF Told
  <2> QED BY <2>1, <2>2, Constants
<1>3. /\ gateway'[g].amount = gateway[g].amount
      /\ gateway'[g].status # "none"
      /\ gateway[g].status \in {"processed", "failed"} =>
            gateway'[g].status = gateway[g].status
  BY <1>1 DEF Told, Grows
<1>4. ASSUME gateway'[g].status \in {"created", "processed"}
      PROVE  \/ \E r \in Records : LiveRefund(r)' /\ Source(r)' = g
             \/ payment'.refunded + gateway'[g].amount > Amount
  <2>1. gateway[g].status \in {"created", "processed"} BY <1>2, <1>3, <1>4 DEF GatewayStatus
  <2>2. CASE payment.refunded + gateway[g].amount > Amount
    <3>1. payment.refunded \in Nat /\ payment'.refunded \in Nat
      BY Constants DEF IInv, TypeInv
    <3>2. payment.refunded <= payment'.refunded BY DEF Grows
    <3> QED BY <1>2, <1>3, <2>2, <3>1, <3>2, Constants
  <2>3. ASSUME NEW r \in Records, LiveRefund(r), Source(r) = g
        PROVE  LiveRefund(r)' /\ Source(r)' = g
    <3>1. refunds[r].status # "none" BY <2>3 DEF LiveRefund, LIVE
    <3>2. refunds'[r].status # "none" /\ Source(r)' = g BY <2>3, <3>1 DEF Grows
    <3>3. refunds'[r].status \in RecordStatus /\ refunds'[r].status # "FAILED"
      BY DEF NoneFailed, IInv, TypeInv, Refund
    <3> QED BY <3>2, <3>3 DEF RecordStatus, LiveRefund
  <2> QED BY <2>1, <2>2, <2>3 DEF Told
<1> QED BY <1>3, <1>4 DEF Told

\* What a step of p has to show.
LEMMA SKeeps ==
  ASSUME IInv, IInv', SInv, Grows, GatewayBound', NEW p \in Processes,
         \A q \in Processes : q # p => proc'[q] = proc[q],
         NoneFailed /\ NoneFailed' /\ Sources =>
            /\ SourceInv'
            /\ KnowsSource(proc[p])'
            /\ \A g \in told' : g \in told \/ Told(g)'
  PROVE  SInv'
<1> SUFFICES ASSUME NoneFailed' PROVE Sources' BY DEF SInv
<1>1. NoneFailed /\ Sources BY NoneFailedBefore DEF SInv
<1>2. SourceInv' /\ KnowsSource(proc[p])' /\ \A g \in told' : g \in told \/ Told(g)' BY <1>1
<1>3. ASSUME NEW q \in Processes PROVE KnowsSource(proc[q])'
  <2>1. CASE q = p BY <1>2, <2>1
  <2>2. CASE q # p
    <3>1. proc'[q] = proc[q] /\ proc[q] \in Process /\ Fits(proc[q]) /\ KnowsSource(proc[q])
      BY <1>1, <2>2 DEF IInv, TypeInv, ProcInv, Sources
    <3> QED BY <1>1, <3>1, KnowsGrows
  <2> QED BY <2>1, <2>2
<1>4. ASSUME NEW g \in told' PROVE Told(g)'
  <2>1. CASE g \in told
    <3>1. g \in Dashboard /\ Told(g) BY <1>1, <2>1 DEF IInv, TypeInv, Sources
    <3> QED BY <3>1, ToldGrows
  <2> QED BY <1>2, <2>1
<1> QED BY <1>2, <1>3, <1>4 DEF Sources

-----------------------------------------------------------------------------
(* Steps that leave the documents alone.                                   *)

\* They undo nothing and book nothing.
LEMMA DocumentsGrow ==
  ASSUME IInv, UNCHANGED documents
  PROVE  /\ Grows
         /\ GatewayBound' <=> GatewayBound
         /\ SourceInv' <=> SourceInv
         /\ NoneFailed' <=> NoneFailed
         /\ \A g : Told(g)' <=> Told(g)
<1>1. payment' = payment /\ refunds' = refunds /\ gateway' = gateway BY DEF documents
<1>2. \A r : Source(r)' = Source(r) /\ (LiveRefund(r)' <=> LiveRefund(r))
  BY <1>1 DEF Source, LiveRefund
<1>3. payment.refunded \in Nat BY Constants DEF IInv, TypeInv
<1>4. Grows BY <1>1, <1>2, <1>3 DEF Grows
<1>5. RefundedAtGateway' = RefundedAtGateway BY <1>1 DEF RefundedAtGateway
<1>6. GatewayBound' <=> GatewayBound BY <1>5 DEF GatewayBound
<1>7. SourceInv' <=> SourceInv BY <1>1, <1>2 DEF SourceInv
<1>8. \A g : Told(g)' <=> Told(g) BY <1>1, <1>2 DEF Told
<1>9. NoneFailed' <=> NoneFailed BY <1>1 DEF NoneFailed
<1> QED BY <1>4, <1>6, <1>7, <1>8, <1>9

\* A step of p to state s, in which it knows enough.
LEMMA SQuiet ==
  ASSUME IInv, IInv', SInv, NEW p \in Processes, NEW s, proc' = [proc EXCEPT ![p] = s],
         UNCHANGED documents,
         NoneFailed /\ Sources => KnowsSource(s) /\ \A g \in told' : g \in told \/ Told(g)
  PROVE  SInv'
<1>1. proc \in [Processes -> Process] BY DEF IInv, TypeInv
<1>2. proc'[p] = s /\ \A q \in Processes : q # p => proc'[q] = proc[q] BY <1>1
<1>3. /\ Grows /\ GatewayBound'
      /\ SourceInv' <=> SourceInv
      /\ \A g : Told(g)' <=> Told(g)
  BY DocumentsGrow DEF SInv
<1>4. payment' = payment /\ refunds' = refunds /\ gateway' = gateway BY DEF documents
<1>5. \A r : Source(r)' = Source(r) BY <1>4 DEF Source
<1>6. KnowsSource(s) => KnowsSource(proc[p])'
  BY <1>2, <1>4, <1>5 DEF KnowsSource, Hears
<1> QED BY <1>2, <1>3, <1>6, SKeeps DEF Sources

\* Where nothing needs to be known.
LEMMA NothingToKnow ==
  ASSUME NEW s, s.pc \in {"idle", "reload", "undo"} \/ (s.pc = "locked" /\ s.op # "event")
  PROVE  KnowsSource(s)
BY DEF KnowsSource, Hears

\* What the return of a handler answers.
LEMMA FinishTells ==
  ASSUME NEW p \in Processes, Finish(p)
  PROVE  \A g \in told' : \/ g \in told
                          \/ /\ g \in Dashboard /\ g = proc[p].gatewayId
                             /\ proc[p].op = "event" /\ proc[p].report # "failed"
BY DEF Finish

\* A handler that throws changes no document.
LEMMA SAbort ==
  ASSUME IInv, IInv', SInv, NEW p \in Processes, Abort(p), UNCHANGED documents
  PROVE  SInv'
<1>1. KnowsSource(Idle) BY IdleFits, NothingToKnow
<1>2. proc' = [proc EXCEPT ![p] = Idle] /\ told' = told BY DEF Abort
<1> QED BY <1>1, <1>2, SQuiet

\* The return of a handler that changes no document.
LEMMA SFinish ==
  ASSUME IInv, IInv', SInv, NEW p \in Processes, Finish(p), UNCHANGED documents,
         NoneFailed /\ Sources /\ proc[p].op = "event" /\ proc[p].report # "failed" =>
            Told(proc[p].gatewayId)
  PROVE  SInv'
<1>1. KnowsSource(Idle) BY IdleFits, NothingToKnow
<1>2. proc' = [proc EXCEPT ![p] = Idle] BY DEF Finish
<1>3. NoneFailed /\ Sources => \A g \in told' : g \in told \/ Told(g) BY FinishTells
<1> QED BY <1>1, <1>2, <1>3, SQuiet

\* POST /payments/:id/refund.
LEMMA SStartRefund ==
  ASSUME IInv, IInv', SInv, NEW p \in Handlers, NEW amount \in 1 .. Amount,
         StartRefund(p, amount)
  PROVE  SInv'
<1> DEFINE s == [Idle EXCEPT !.pc = "locked", !.op = "refund", !.amount = amount]
<1>1. s.pc = "locked" /\ s.op = "refund" BY DEF Idle
<1>2. Start(p, s) BY DEF StartRefund
<1> HIDE DEF s
<1>3. KnowsSource(s) BY <1>1, NothingToKnow
<1>4. p \in Processes BY DEF Processes
<1> QED BY <1>2, <1>3, <1>4, SQuiet DEF Start, documents

\* A webhook, or the sweep with what it heard.
LEMMA SStartEvent ==
  ASSUME IInv, IInv', SInv, NEW p \in Processes, NEW g, NEW report, StartEvent(p, g, report)
  PROVE  SInv'
<1> DEFINE s == [Idle EXCEPT !.pc = "locked", !.op = "event", !.gatewayId = g,
                             !.report = report]
<1>1. s.pc = "locked" /\ s.op = "event" /\ s.gatewayId = g /\ s.report = report BY DEF Idle
<1>2. Start(p, s) /\ report \in {"created", gateway[g].status} BY DEF StartEvent
<1> HIDE DEF s
<1>3. KnowsSource(s) BY <1>1, <1>2 DEF KnowsSource
<1> QED BY <1>2, <1>3, SQuiet DEF Start, documents

\* The sweep takes the lock for a pending refund.
LEMMA SSweep ==
  ASSUME IInv, IInv', SInv, NEW r \in Records, SweepRefund(r)
  PROVE  SInv'
<1>1. Sweep \in Processes BY DEF Processes
<1>2. CASE LET g == IF refunds[r].gatewayId = 0 THEN r ELSE refunds[r].gatewayId
           IN  StartEvent(Sweep, g, gateway[g].status)
  BY <1>1, <1>2, SStartEvent
<1>3. CASE Start(Sweep, [Idle EXCEPT !.pc = "locked", !.op = "abandon", !.record = r])
  <2> DEFINE s == [Idle EXCEPT !.pc = "locked", !.op = "abandon", !.record = r]
  <2>1. s.pc = "locked" /\ s.op = "abandon" BY DEF Idle
  <2>2. Start(Sweep, s) BY <1>3
  <2> HIDE DEF s
  <2>3. KnowsSource(s) BY <2>1, NothingToKnow
  <2> QED BY <1>1, <2>2, <2>3, SQuiet DEF Start, documents
<1> QED BY <1>2, <1>3 DEF SweepRefund

\* Before a booking: the payment is as it was read, and a dashboard refund has
\* no record yet.
LEMMA SToBook ==
  ASSUME IInv, IInv', SInv, NEW p \in Processes, NEW amount, ToBook(p, amount),
         proc[p].pc = "locked", UNCHANGED documents,
         proc[p].op = "event" =>
            /\ amount = gateway[proc[p].gatewayId].amount
            /\ gateway[proc[p].gatewayId].status # "none"
            /\ \A r \in Records : Source(r) # proc[p].gatewayId
  PROVE  SInv'
<1> DEFINE s == [proc[p] EXCEPT
                   !.pc = "book", !.amount = amount, !.seen = payment,
                   !.split = Allocate(Amount, DriverEarning, RefundTotals, amount)]
<1>1. proc[p] \in Process /\ payment.refunded \in Nat BY Constants DEF IInv, TypeInv
<1>2. /\ s.pc = "book" /\ s.amount = amount /\ s.seen = payment /\ s.op = proc[p].op
      /\ s.gatewayId = proc[p].gatewayId /\ s.report = proc[p].report
  BY <1>1 DEF Process
<1>3. Continue(p, s) BY DEF ToBook
<1> HIDE DEF s
<1>4. Sources => KnowsSource(proc[p]) BY DEF Sources
<1>5. KnowsSource(proc[p]) => KnowsSource(s) BY <1>1, <1>2 DEF KnowsSource, Hears
<1> QED BY <1>3, <1>4, <1>5, SQuiet DEF Continue

\* initiateRefund up to bookRefund's transaction.
LEMMA SReadForRefund ==
  ASSUME IInv, IInv', SInv, NEW p \in Processes, ReadForRefund(p)
  PROVE  SInv'
<1>1. proc[p].pc = "locked" /\ proc[p].op = "refund" /\ UNCHANGED documents
  BY DEF ReadForRefund, documents
<1>2. CASE ToBook(p, proc[p].amount) BY <1>1, <1>2, SToBook
<1>3. CASE Abort(p) BY <1>1, <1>3, SAbort
<1> QED BY <1>2, <1>3 DEF ReadForRefund

\* handleGatewayRefundEvent up to the update, the booking or the compensation.
LEMMA SReadForEvent ==
  ASSUME IInv, IInv', SInv, NEW p \in Processes, ReadForEvent(p)
  PROVE  SInv'
<1> DEFINE g == proc[p].gatewayId
<1> DEFINE r == RecordOf(g)
<1>1. proc[p].pc = "locked" /\ proc[p].op = "event" /\ UNCHANGED documents
  BY DEF ReadForEvent, documents
<1>2. g \in GatewayRefunds /\ gateway[g].status # "none" /\ proc[p] \in Process
  BY <1>1 DEF IInv, TypeInv, ProcInv, Fits, KnowsGateway
<1>3. /\ r # 0 => r \in Records
      /\ r = 0 => g \in Dashboard /\ \A q \in Records : refunds[q].gatewayId # g
  BY <1>2, RecordOfEvent
<1>4. r = 0 => \A q \in Records : Source(q) # g BY <1>3, SourceOf
<1> HIDE DEF r
<1>5. CASE Abort(p) BY <1>1, <1>5, SAbort
<1>6. CASE r # 0 /\ refunds[r].status = "FAILED" /\ Finish(p)
  <2>1. ~ NoneFailed BY <1>3, <1>6 DEF NoneFailed
  <2> QED BY <1>1, <1>6, <2>1, SFinish
<1>7. CASE r = 0 /\ Finish(p) /\ (Refundable(gateway[g].amount) => proc[p].report = "failed")
  <2>1. ASSUME proc[p].report # "failed" PROVE Told(g)
    <3>1. ~ Refundable(gateway[g].amount) BY <1>7, <2>1
    <3>2. payment \in [status : PaymentStatus, refunded : 0 .. Amount] BY DEF IInv, TypeInv
    <3>3. gateway[g].amount > 0 /\ gateway[g].amount \in Nat
      <4>1. gateway[g] \in [status : GatewayStatus \cup {"none"}, amount : 0 .. Amount]
        BY <1>2 DEF IInv, TypeInv
      <4>2. gateway[g].amount > 0 BY <1>2 DEF IInv, DocInv, GatewayInv
      <4>3. gateway[g].amount \in Nat BY <4>1, Constants
      <4> QED BY <4>2, <4>3
    <3>4. payment.status \notin REFUNDABLE_STATUSES => payment.refunded = Amount
      BY <3>2 DEF PaymentStatus, IInv, DocInv, StatusFollowsTotal
    <3>5. payment.refunded + gateway[g].amount > Amount
      <4>1. payment.refunded \in Nat BY <3>2, Constants
      <4>2. CASE payment.refunded = Amount BY <3>3, <4>2, Constants
      <4>3. CASE ~(gateway[g].amount <= Amount - payment.refunded)
        BY <3>3, <4>1, <4>3, Constants
      <4> QED BY <3>1, <3>4, <4>2, <4>3 DEF Refundable
    <3> QED BY <1>2, <3>5 DEF Told
  <2> QED BY <1>1, <1>7, <2>1, SFinish
<1>8. CASE r = 0 /\ ToBook(p, gateway[g].amount)
  BY <1>1, <1>2, <1>4, <1>8, SToBook
<1>9. CASE Continue(p, [proc[p] EXCEPT
              !.pc = IF proc[p].report = "failed" THEN "reload" ELSE "update", !.record = r])
  <2> DEFINE s == [proc[p] EXCEPT
              !.pc = IF proc[p].report = "failed" THEN "reload" ELSE "update", !.record = r]
  <2>1. Continue(p, s) BY <1>9
  <2>2. /\ s.pc \in {"reload", "update"} /\ s.op = "event" /\ s.gatewayId = g
        /\ s.report = proc[p].report
    BY <1>1, <1>2 DEF Process
  <2> HIDE DEF s
  <2>3. Sources => KnowsSource(proc[p]) BY DEF Sources
  <2>4. KnowsSource(proc[p]) => KnowsSource(s) BY <1>1, <2>2 DEF KnowsSource, Hears
  <2> QED BY <1>1, <2>1, <2>3, <2>4, SQuiet DEF Continue
<1> QED BY <1>5, <1>6, <1>7, <1>8, <1>9 DEF ReadForEvent, r

\* abandonUnsentRefund up to compensateRefund.
LEMMA SReadForAbandon ==
  ASSUME IInv, IInv', SInv, NEW p \in Processes, ReadForAbandon(p)
  PROVE  SInv'
<1>1. proc[p].op = "abandon" /\ UNCHANGED documents BY DEF ReadForAbandon, documents
<1>2. proc[p] \in Process BY DEF IInv, TypeInv
<1>3. CASE Continue(p, [proc[p] EXCEPT !.pc = "reload"])
  <2>1. [proc[p] EXCEPT !.pc = "reload"].pc = "reload" BY <1>2 DEF Process
  <2>2. KnowsSource([proc[p] EXCEPT !.pc = "reload"]) BY <2>1, NothingToKnow
  <2> QED BY <1>1, <1>3, <2>2, SQuiet DEF Continue
<1>4. CASE Finish(p) BY <1>1, <1>4, SFinish
<1> QED BY <1>3, <1>4 DEF ReadForAbandon

\* compensateRefund reads; a refund that was undone already ends it.
LEMMA SReload ==
  ASSUME IInv, IInv', SInv, NEW p \in Processes, Reload(p)
  PROVE  SInv'
<1>1. proc[p].pc = "reload" /\ UNCHANGED documents BY DEF Reload, documents
<1>2. proc[p] \in Process /\ proc[p].record \in Records
  BY <1>1 DEF IInv, TypeInv, ProcInv, Fits, KnowsRecord, Undoing
<1>3. CASE Continue(p, [proc[p] EXCEPT !.pc = "undo", !.seen = payment])
  <2> DEFINE s == [proc[p] EXCEPT !.pc = "undo", !.seen = payment]
  <2>1. s.pc = "undo" BY <1>2 DEF Process
  <2>2. Continue(p, s) BY <1>3
  <2> HIDE DEF s
  <2>3. KnowsSource(s) BY <2>1, NothingToKnow
  <2> QED BY <1>1, <2>2, <2>3, SQuiet DEF Continue
<1>4. CASE refunds[proc[p].record].status = "FAILED" /\ Finish(p)
  <2>1. ~ NoneFailed BY <1>2, <1>4 DEF NoneFailed
  <2> QED BY <1>1, <1>4, <2>1, SFinish
<1>5. CASE Abort(p) BY <1>1, <1>5, SAbort
<1> QED BY <1>3, <1>4, <1>5 DEF Reload

\* failRefund found something changed.
LEMMA SUndoAgain ==
  ASSUME IInv, IInv', SInv, NEW p \in Processes, UndoAgain(p)
  PROVE  SInv'
<1>1. UNCHANGED documents BY DEF UndoAgain, documents
<1>2. proc[p] \in Process BY DEF IInv, TypeInv
<1>3. CASE Continue(p, [proc[p] EXCEPT !.pc = "reload", !.tries = @ + 1])
  <2> DEFINE s == [proc[p] EXCEPT !.pc = "reload", !.tries = @ + 1]
  <2>1. s.pc = "reload" BY <1>2 DEF Process
  <2>2. Continue(p, s) BY <1>3
  <2> HIDE DEF s
  <2>3. KnowsSource(s) BY <2>1, NothingToKnow
  <2> QED BY <1>1, <2>2, <2>3, SQuiet DEF Continue
<1>4. CASE Abort(p) BY <1>1, <1>4, SAbort
<1> QED BY <1>3, <1>4 DEF UndoAgain

\* REFUND_CONFLICT, a rejected database call, a crash, a lock that runs out.
LEMMA SBookConflict ==
  ASSUME IInv, IInv', SInv, NEW p \in Processes, BookConflict(p)
  PROVE  SInv'
BY SAbort DEF BookConflict, documents

\* A database call rejects.
LEMMA SFail ==
  ASSUME IInv, IInv', SInv, NEW p \in Processes, Fail(p)
  PROVE  SInv'
BY SAbort DEF Fail, documents

\* The process dies.
LEMMA SCrash ==
  ASSUME IInv, IInv', SInv, NEW p \in Processes, Crash(p)
  PROVE  SInv'
<1>1. KnowsSource(Idle) BY IdleFits, NothingToKnow
<1> QED BY <1>1, SQuiet DEF Crash, documents

\* Nothing that is spoken of changes: an expired lock, or no step at all.
LEMMA SFrame ==
  ASSUME IInv, SInv, UNCHANGED documents, proc' = proc, told' = told
  PROVE  SInv'
<1>1. /\ GatewayBound' <=> GatewayBound
      /\ SourceInv' <=> SourceInv
      /\ NoneFailed' <=> NoneFailed
      /\ \A g : Told(g)' <=> Told(g)
  BY DocumentsGrow
<1>2. payment' = payment /\ refunds' = refunds /\ gateway' = gateway BY DEF documents
<1>3. \A r : Source(r)' = Source(r) BY <1>2 DEF Source
<1>4. ASSUME NEW p \in Processes, KnowsSource(proc[p]) PROVE KnowsSource(proc[p])'
  BY <1>2, <1>3, <1>4 DEF KnowsSource, Hears
<1> QED BY <1>1, <1>4 DEF SInv, Sources

-----------------------------------------------------------------------------
(* Steps of the gateway.                                                   *)

\* What a refund counts for at the gateway.
Counted(g) ==
    IF gateway[g].status \in {"created", "processed"} THEN gateway[g].amount ELSE 0

\* The sum at the gateway follows the refund that moves.
LEMMA RefundedMoves ==
  ASSUME IInv, IInv', NEW g \in GatewayRefunds,
         \A h \in GatewayRefunds : h # g => gateway'[h] = gateway[h]
  PROVE  /\ RefundedAtGateway' = RefundedAtGateway - Counted(g) + Counted(g)'
         /\ RefundedAtGateway \in Nat /\ Counted(g) \in Nat /\ Counted(g)' \in Nat
<1> DEFINE m == MaxRecords + MaxDashboard
<1>1. m \in Nat /\ GatewayRefunds = 1 .. m
  BY RefundsAssumption DEF GatewayRefunds, Records, Dashboard
<1> HIDE DEF m
<1>2. PICK v : v = [h \in GatewayRefunds |-> Counted(h)] OBVIOUS
<1>3. PICK w : w = [h \in GatewayRefunds |-> Counted(h)'] OBVIOUS
<1>4. RefundedAtGateway = Sum(v, m) BY <1>2 DEF RefundedAtGateway, Counted, m
<1>5. RefundedAtGateway' = Sum(w, m) BY <1>3 DEF RefundedAtGateway, Counted, m
<1>6. \A h \in GatewayRefunds : Counted(h) \in Nat /\ Counted(h)' \in Nat
  BY Constants DEF IInv, TypeInv, Counted
<1>7. \A h \in 1 .. m : v[h] \in Nat /\ w[h] \in Nat BY <1>1, <1>2, <1>3, <1>6
<1>8. \A h \in 1 .. m : h # g => w[h] = v[h] BY <1>1, <1>2, <1>3 DEF Counted
<1>9. Sum(w, m) = Sum(v, m) - v[g] + w[g]
  <2>1. m \in Nat /\ g \in 1 .. m BY <1>1
  <2> QED BY <2>1, <1>7, <1>8, SumChange
<1>10. v[g] = Counted(g) /\ w[g] = Counted(g)' BY <1>2, <1>3
<1>11. Sum(v, m) \in Nat BY <1>1, <1>7, SumNat
<1> QED BY <1>4, <1>5, <1>6, <1>9, <1>10, <1>11

\* A step of the gateway undoes nothing and books nothing.
LEMMA GatewayGrows ==
  ASSUME IInv, IInv', NEW g \in GatewayRefunds,
         \A h \in GatewayRefunds : h # g => gateway'[h] = gateway[h],
         gateway[g].status \in {"none", "created"}, gateway'[g].status # "none",
         gateway[g].status = "created" => gateway'[g].amount = gateway[g].amount,
         UNCHANGED <<payment, refunds>>
  PROVE  /\ Grows
         /\ SourceInv => SourceInv'
<1>1. \A r : Source(r)' = Source(r) BY DEF Source
<1>2. payment.refunded \in Nat BY Constants DEF IInv, TypeInv
<1>3. \A h \in GatewayRefunds : gateway[h].status # "none" =>
        /\ gateway'[h].amount = gateway[h].amount
        /\ gateway'[h].status # "none"
        /\ gateway[h].status \in {"processed", "failed"} => gateway'[h].status = gateway[h].status
  OBVIOUS
<1>4. Grows BY <1>1, <1>2, <1>3 DEF Grows
<1>5. SourceInv => SourceInv' BY <1>1, <1>3, SourceOf DEF SourceInv
<1> QED BY <1>4, <1>5

\* A refund is created within what the capture leaves.
LEMMA CreatedInBound ==
  ASSUME IInv, IInv', SInv, NEW g \in GatewayRefunds, NEW status \in GatewayStatus,
         NEW amount \in 0 .. Amount, GatewayCreates(g, status, amount)
  PROVE  /\ GatewayBound'
         /\ \A h \in GatewayRefunds : h # g => gateway'[h] = gateway[h]
         /\ gateway[g].status = "none" /\ gateway'[g].status # "none"
         /\ gateway'[g].status = status
<1>1. gateway \in [GatewayRefunds ->
                     [status : GatewayStatus \cup {"none"}, amount : 0 .. Amount]]
  BY DEF IInv, TypeInv
<1>2. /\ gateway[g].status = "none"
      /\ Legacy + RefundedAtGateway + amount <= Amount
      /\ gateway' = [gateway EXCEPT ![g] = [status |-> status, amount |-> amount]]
  BY DEF GatewayCreates, GatewayAccepts
<1>3. /\ \A h \in GatewayRefunds : h # g => gateway'[h] = gateway[h]
      /\ gateway'[g].status = status /\ gateway'[g].amount = amount
  BY <1>1, <1>2
<1>4. Counted(g) = 0 /\ Counted(g)' \in {0, amount} BY <1>2, <1>3 DEF Counted
<1>5. /\ RefundedAtGateway' = RefundedAtGateway - Counted(g) + Counted(g)'
      /\ RefundedAtGateway \in Nat
  BY <1>3, RefundedMoves
<1>6. Legacy \in Nat /\ amount \in Nat /\ Amount \in Nat BY Constants
<1>7. Legacy + RefundedAtGateway' <= Amount
  <2> DEFINE x == RefundedAtGateway
  <2> DEFINE y == RefundedAtGateway'
  <2>1. /\ Legacy + x + amount <= Amount /\ x \in Nat
        /\ (y = x - 0 + 0 \/ y = x - 0 + amount)
    BY <1>2, <1>4, <1>5
  <2> HIDE DEF x, y
  <2>2. Legacy + y <= Amount BY <1>6, <2>1
  <2> QED BY <2>2 DEF y
<1>8. GatewayBound' BY <1>7 DEF GatewayBound
<1> QED BY <1>2, <1>3, <1>8 DEF GatewayStatus

\* A step of the gateway itself.
LEMMA SGateway ==
  ASSUME IInv, IInv', SInv, GatewayBound', Grows, SourceInv => SourceInv',
         proc' = proc, told' = told
  PROVE  SInv'
<1> SUFFICES ASSUME NoneFailed' PROVE Sources' BY DEF SInv
<1>1. NoneFailed /\ Sources BY NoneFailedBefore DEF SInv
<1>2. ASSUME NEW q \in Processes PROVE KnowsSource(proc[q])'
  <2>1. proc'[q] = proc[q] /\ proc[q] \in Process /\ Fits(proc[q]) /\ KnowsSource(proc[q])
    BY <1>1 DEF IInv, TypeInv, ProcInv, Sources
  <2> QED BY <1>1, <2>1, KnowsGrows
<1>3. ASSUME NEW g \in told' PROVE Told(g)'
  <2>1. g \in Dashboard /\ Told(g) BY <1>1 DEF IInv, TypeInv, Sources
  <2> QED BY <2>1, ToldGrows
<1> QED BY <1>1, <1>2, <1>3 DEF Sources

\* Somebody refunds on the dashboard.
LEMMA SDashboardRefund ==
  ASSUME IInv, IInv', SInv, NEW g \in Dashboard, NEW amount \in 1 .. Amount,
         DashboardRefund(g, amount)
  PROVE  SInv'
<1>1. PICK status \in GatewayStatus : GatewayCreates(g, status, amount)
  BY DEF DashboardRefund
<1>2. g \in GatewayRefunds /\ amount \in 0 .. Amount BY Constants
<1>3. /\ GatewayBound'
      /\ \A h \in GatewayRefunds : h # g => gateway'[h] = gateway[h]
      /\ gateway[g].status = "none" /\ gateway'[g].status # "none"
  BY <1>1, <1>2, CreatedInBound
<1>4. UNCHANGED <<payment, refunds, proc, told>> BY DEF DashboardRefund
<1>5. Grows /\ (SourceInv => SourceInv') BY <1>2, <1>3, <1>4, GatewayGrows
<1> QED BY <1>3, <1>4, <1>5, SGateway

\* Razorpay decides on a refund.
LEMMA SGatewaySettles ==
  ASSUME IInv, IInv', SInv, NEW g \in GatewayRefunds, GatewaySettles(g)
  PROVE  SInv'
<1>1. PICK status \in {"processed", "failed"} : gateway' = [gateway EXCEPT ![g].status = status]
  BY DEF GatewaySettles
<1>2. /\ gateway[g].status = "created"
      /\ UNCHANGED <<payment, refunds, proc, told>>
  BY DEF GatewaySettles
<1>3. gateway \in [GatewayRefunds ->
                     [status : GatewayStatus \cup {"none"}, amount : 0 .. Amount]]
  BY DEF IInv, TypeInv
<1>4. /\ gateway'[g].status = status /\ gateway'[g].amount = gateway[g].amount
      /\ \A h \in GatewayRefunds : h # g => gateway'[h] = gateway[h]
  BY <1>1, <1>3
<1>5. Grows /\ (SourceInv => SourceInv') BY <1>2, <1>4, GatewayGrows
<1>6. GatewayBound'
  <2>1. Counted(g) = gateway[g].amount /\ Counted(g)' \in {0, gateway[g].amount}
    BY <1>2, <1>4 DEF Counted
  <2>2. /\ RefundedAtGateway' = RefundedAtGateway - Counted(g) + Counted(g)'
        /\ RefundedAtGateway \in Nat /\ Counted(g) \in Nat
    BY <1>4, RefundedMoves
  <2>3. Legacy \in Nat /\ Amount \in Nat /\ Legacy + RefundedAtGateway <= Amount
    BY Constants DEF SInv, GatewayBound
  <2>4. Legacy + RefundedAtGateway' <= Amount
    <3> DEFINE x == RefundedAtGateway
    <3> DEFINE y == RefundedAtGateway'
    <3> DEFINE a == gateway[g].amount
    <3>1. /\ Legacy + x <= Amount /\ x \in Nat /\ a \in Nat
          /\ (y = x - a + 0 \/ y = x - a + a)
      BY <2>1, <2>2, <2>3
    <3> HIDE DEF x, y, a
    <3>2. Legacy + y <= Amount BY <2>3, <3>1
    <3> QED BY <3>2 DEF y
  <2> QED BY <2>4 DEF GatewayBound
<1> QED BY <1>2, <1>5, <1>6, SGateway

\* The refund is sent.
LEMMA SSend ==
  ASSUME IInv, IInv', SInv, NEW p \in Processes, Send(p)
  PROVE  SInv'
<1>1. proc[p].pc = "send" /\ UNCHANGED <<payment, refunds, ledger, expiries>> BY DEF Send
<1>2. proc[p] \in Process /\ proc \in [Processes -> Process] BY DEF IInv, TypeInv
<1>3. Sources => proc[p].op = "refund" BY <1>1 DEF Sources, KnowsSource
<1>4. CASE gateway' = gateway /\ Finish(p)
  <2>1. UNCHANGED documents BY <1>1, <1>4 DEF documents
  <2> QED BY <1>3, <1>4, <2>1, SFinish
<1>5. CASE gateway' = gateway /\ Continue(p, [proc[p] EXCEPT !.pc = "reload"])
  <2>1. [proc[p] EXCEPT !.pc = "reload"].pc = "reload" BY <1>2 DEF Process
  <2>2. KnowsSource([proc[p] EXCEPT !.pc = "reload"]) BY <2>1, NothingToKnow
  <2>3. UNCHANGED documents BY <1>1, <1>5 DEF documents
  <2> QED BY <1>5, <2>2, <2>3, SQuiet DEF Continue
<1>6. ASSUME NEW status \in GatewayStatus,
             GatewayCreates(proc[p].record, status, proc[p].amount),
             \/ Continue(p, [proc[p] EXCEPT !.pc = "settle", !.report = status,
                                            !.gatewayId = proc[p].record])
             \/ Finish(p)
      PROVE  SInv'
  <2> DEFINE g == proc[p].record
  <2>1. g \in Records /\ g \in GatewayRefunds /\ proc[p].amount \in 0 .. Amount
    BY <1>1, <1>2, SenderNamesRecord, Constants DEF Process
  <2>2. /\ GatewayBound'
        /\ \A h \in GatewayRefunds : h # g => gateway'[h] = gateway[h]
        /\ gateway[g].status = "none" /\ gateway'[g].status # "none"
        /\ gateway'[g].status = status
    BY <1>6, <2>1, CreatedInBound
  <2>3. Grows /\ (SourceInv => SourceInv') BY <1>1, <2>1, <2>2, GatewayGrows
  <2>4. CASE Finish(p)
    <3>1. proc'[p] = Idle /\ \A q \in Processes : q # p => proc'[q] = proc[q]
      BY <1>2, <2>4 DEF Finish
    <3>2. KnowsSource(proc[p])' BY <3>1, IdleFits DEF KnowsSource, Hears
    <3>3. Sources => told' = told BY <1>3, <2>4 DEF Finish
    <3> QED BY <2>2, <2>3, <3>1, <3>2, <3>3, SKeeps DEF Sources
  <2>5. CASE Continue(p, [proc[p] EXCEPT !.pc = "settle", !.report = status, !.gatewayId = g])
    <3> DEFINE s == [proc[p] EXCEPT !.pc = "settle", !.report = status, !.gatewayId = g]
    <3>1. s.pc = "settle" /\ s.report = status /\ s.gatewayId = g BY <1>2 DEF Process
    <3>2. /\ proc' = [proc EXCEPT ![p] = s] /\ told' = told
      BY <2>5 DEF Continue
    <3> HIDE DEF s
    <3>3. proc'[p] = s /\ \A q \in Processes : q # p => proc'[q] = proc[q] BY <1>2, <3>2
    <3>4. KnowsSource(proc[p])' BY <2>2, <3>1, <3>3 DEF KnowsSource, Hears
    <3> QED BY <2>2, <2>3, <3>2, <3>3, <3>4, SKeeps DEF Sources
  <2> QED BY <1>6, <2>4, <2>5
<1> QED BY <1>4, <1>5, <1>6 DEF Send

-----------------------------------------------------------------------------
(* Steps that change a record.                                             *)

\* The gateway's bound stays as it is.
LEMMA BoundFrame == ASSUME SInv, gateway' = gateway PROVE GatewayBound'
<1>1. RefundedAtGateway' = RefundedAtGateway BY DEF RefundedAtGateway
<1> QED BY <1>1 DEF SInv, GatewayBound

\* A refund is booked.
LEMMA SBook ==
  ASSUME IInv, IInv', SInv, NEW p \in Processes, Book(p)
  PROVE  SInv'
<1> DEFINE rec == [status |-> IF proc[p].op = "event" /\ proc[p].report = "processed"
                              THEN "PROCESSED" ELSE "PENDING",
                   amount |-> proc[p].amount,
                   driver |-> proc[p].split.driver, platform |-> proc[p].split.platform,
                   gatewayId |-> proc[p].gatewayId]
<1> DEFINE refunded == proc[p].seen.refunded + proc[p].amount
<1>0. PICK g : g = proc[p].gatewayId OBVIOUS
<1>1. /\ proc[p].pc = "book" /\ payment = proc[p].seen /\ gateway' = gateway
      /\ proc[p].op \in {"refund", "event"}
  BY DEF Book, PaymentUnchanged
<1>2. PICK r \in FreeRecords :
        /\ payment' = [status |-> StatusWhenBooked(refunded), refunded |-> refunded]
        /\ refunds' = [refunds EXCEPT ![r] = rec]
        /\ \/ /\ proc[p].op = "refund"
              /\ Continue(p, [proc[p] EXCEPT !.pc = "send", !.record = r])
           \/ /\ proc[p].op = "event"
              /\ Finish(p)
  BY DEF Book
<1>3. r \in Records /\ refunds[r].status = "none" BY DEF FreeRecords
<1>4. /\ refunds \in [Records -> Refund] /\ proc \in [Processes -> Process]
      /\ proc[p] \in Process /\ payment \in [status : PaymentStatus, refunded : 0 .. Amount]
  BY DEF IInv, TypeInv
<1>5. /\ refunds'[r].status = IF proc[p].op = "event" /\ proc[p].report = "processed"
                              THEN "PROCESSED" ELSE "PENDING"
      /\ refunds'[r].amount = proc[p].amount
      /\ refunds'[r].gatewayId = g
      /\ \A q \in Records : q # r => refunds'[q] = refunds[q]
  BY <1>0, <1>2, <1>3, <1>4
<1>6. /\ proc[p].amount > 0
      /\ \/ proc[p].op = "refund" /\ g = 0
         \/ proc[p].op = "event" /\ g \in Dashboard
  BY <1>0, <1>1 DEF IInv, ProcInv, Fits, KnowsRefund
<1>7. payment'.refunded > payment.refunded /\ payment.refunded <= payment'.refunded
  <2>1. payment.refunded \in Nat /\ proc[p].amount \in Nat BY <1>4, Constants DEF Process
  <2>2. payment'.refunded = payment.refunded + proc[p].amount BY <1>1, <1>2
  <2> QED BY <1>6, <2>1, <2>2
<1> HIDE DEF rec, refunded
<1>8. \A q \in Records : q # r => Source(q)' = Source(q) BY <1>5 DEF Source
<1>9. Source(r)' = IF proc[p].op = "event" THEN g ELSE r
  BY <1>5, <1>6, Constants DEF Source
<1>10. Grows
  <2>1. \A q \in Records : refunds[q].status # "none" =>
          refunds'[q] = refunds[q] /\ Source(q)' = Source(q)
    BY <1>3, <1>5, <1>8
  <2> QED BY <1>1, <1>7, <2>1 DEF Grows
<1>11. ASSUME Sources PROVE SourceInv'
  <2>1. SourceInv /\ KnowsSource(proc[p]) BY <1>11 DEF Sources
  <2>2. proc[p].op = "event" =>
          /\ gateway[g].status # "none" /\ proc[p].amount = gateway[g].amount
          /\ \A q \in Records : Source(q) # g
          /\ proc[p].report = "processed" => gateway[g].status = "processed"
    BY <1>0, <1>1, <2>1 DEF KnowsSource, Hears
  <2>3. ASSUME NEW q \in Records, Source(q)' \in Dashboard
        PROVE  /\ gateway'[Source(q)'].status # "none"
               /\ refunds'[q].amount = gateway'[Source(q)'].amount
    <3>1. CASE q = r
      <4>1. proc[p].op = "event" BY <1>9, <2>3, <3>1, Constants
      <4> QED BY <1>1, <1>5, <1>9, <2>2, <3>1, <4>1
    <3>2. CASE q # r BY <1>1, <1>5, <1>8, <2>1, <2>3, <3>2 DEF SourceInv
    <3> QED BY <3>1, <3>2
  <2>4. ASSUME NEW q \in Records, refunds'[q].status = "PROCESSED"
        PROVE  gateway'[Source(q)'].status = "processed"
    <3>1. CASE q = r BY <1>1, <1>5, <1>9, <2>2, <2>4, <3>1
    <3>2. CASE q # r BY <1>1, <1>5, <1>8, <2>1, <2>4, <3>2 DEF SourceInv
    <3> QED BY <3>1, <3>2
  <2>5. ASSUME NEW q \in Records, q # r PROVE Source(q)' # Source(r)'
    <3>1. CASE proc[p].op = "event" BY <1>8, <1>9, <2>2, <2>5, <3>1
    <3>2. CASE proc[p].op # "event"
      <4>1. Source(r)' = r /\ Source(r) = r BY <1>3, <1>9, <3>2, SourceOf
      <4> QED BY <1>3, <1>8, <2>1, <2>5, <4>1 DEF SourceInv
    <3> QED BY <3>1, <3>2
  <2>6. ASSUME NEW q1 \in Records, NEW q2 \in Records, Source(q1)' = Source(q2)'
        PROVE  q1 = q2
    <3>1. CASE q1 = r \/ q2 = r BY <1>3, <2>5, <2>6, <3>1
    <3>2. CASE q1 # r /\ q2 # r BY <1>8, <2>1, <2>6, <3>2 DEF SourceInv
    <3> QED BY <3>1, <3>2
  <2> QED BY <2>3, <2>4, <2>6 DEF SourceInv
<1>12. KnowsSource(proc[p])' /\ \A q \in Processes : q # p => proc'[q] = proc[q]
  <2>1. CASE Finish(p)
    <3>1. proc'[p] = Idle /\ \A q \in Processes : q # p => proc'[q] = proc[q]
      BY <1>4, <2>1 DEF Finish
    <3> QED BY <3>1, IdleFits DEF KnowsSource, Hears
  <2>2. CASE /\ proc[p].op = "refund"
             /\ Continue(p, [proc[p] EXCEPT !.pc = "send", !.record = r])
    <3> DEFINE s == [proc[p] EXCEPT !.pc = "send", !.record = r]
    <3>1. s.pc = "send" /\ s.op = "refund" BY <1>4, <2>2 DEF Process
    <3>2. proc' = [proc EXCEPT ![p] = s] BY <2>2 DEF Continue
    <3> HIDE DEF s
    <3>3. proc'[p] = s /\ \A q \in Processes : q # p => proc'[q] = proc[q] BY <1>4, <3>2
    <3> QED BY <3>1, <3>3 DEF KnowsSource, Hears
  <2> QED BY <1>2, <2>1, <2>2
<1>13. ASSUME Sources, NEW h \in told' PROVE h \in told \/ Told(h)'
  <2>1. CASE proc[p].op = "refund"
    <3>1. told' = told BY <1>2, <2>1 DEF Continue
    <3> QED BY <1>13, <3>1
  <2>2. CASE proc[p].op = "event"
    <3>1. Finish(p) BY <1>2, <2>2
    <3>2. h \in told \/ h = g BY <1>0, <1>13, <3>1, FinishTells
    <3>3. gateway'[g].status # "none"
      BY <1>0, <1>1, <1>13, <2>2 DEF Sources, KnowsSource
    <3>4. LiveRefund(r)' /\ Source(r)' = g BY <1>5, <1>9, <2>2 DEF LiveRefund, LIVE
    <3>5. Told(g)' BY <1>3, <3>3, <3>4 DEF Told
    <3> QED BY <3>2, <3>5
  <2> QED BY <1>1, <2>1, <2>2
<1>14. GatewayBound' BY <1>1, BoundFrame
<1> QED BY <1>10, <1>11, <1>12, <1>13, <1>14, SKeeps

\* A record hears of its gateway refund, and the handler returns.
LEMMA SUpdateRecord ==
  ASSUME IInv, IInv', SInv, NEW p \in Processes, NEW statuses, statuses \subseteq LIVE,
         UpdateRefundRecord(p, statuses), proc[p].pc \in {"settle", "update"}, Finish(p),
         UNCHANGED <<payment, ledger, gateway, expiries>>
  PROVE  SInv'
<1>0. PICK r, g : r = proc[p].record /\ g = proc[p].gatewayId OBVIOUS
<1>1. r \in Records /\ RecordUpdates(r) BY <1>0, UpdateEffect
<1>2. /\ refunds \in [Records -> Refund] /\ refunds' \in [Records -> Refund]
      /\ proc \in [Processes -> Process] /\ payment.refunded \in Nat
  BY Constants DEF IInv, TypeInv
<1>3. /\ refunds[r].status # "none"
      /\ \/ g = r
         \/ proc[p].pc = "update" /\ g \in Dashboard /\ refunds[r].gatewayId = g
  BY <1>0, <1>1 DEF IInv, ProcInv, Fits, KnowsRecord, KnowsGateway
<1>4. ASSUME NEW q \in Records PROVE Source(q)' = Source(q)
  <2>1. CASE q # r BY <1>1, <2>1 DEF RecordUpdates, Source
  <2>2. CASE q = r /\ refunds'[r].gatewayId = refunds[r].gatewayId BY <2>2 DEF Source
  <2>3. CASE q = r /\ refunds'[r].gatewayId = r /\ gateway[r].status # "none"
    <3>1. refunds[r].gatewayId \notin Dashboard BY <1>1, <2>3 DEF IInv, DocInv, RecordInv
    <3> QED BY <1>1, <2>3, <3>1, Constants DEF Source
  <2> QED BY <1>1, <2>1, <2>2, <2>3 DEF RecordUpdates
<1>5. \A q \in Records :
        /\ refunds[q].status = "none" => q # r /\ refunds'[q] = refunds[q]
        /\ refunds[q].status # "none" => refunds'[q].status # "none"
        /\ refunds'[q].amount = refunds[q].amount
  BY <1>1, <1>3 DEF RecordUpdates
<1>6. ASSUME NEW q \in Records, refunds[q].status = "FAILED" PROVE refunds'[q].status = "FAILED"
  <2>1. CASE q # r BY <1>1, <1>6, <2>1 DEF RecordUpdates
  <2>2. CASE q = r
    <3>1. refunds'[q].status \notin LIVE /\ refunds'[q].status # "none"
      BY <1>1, <1>6, <2>2 DEF RecordUpdates, LIVE
    <3>2. refunds'[q].status \in RecordStatus BY <1>2 DEF Refund
    <3> QED BY <3>1, <3>2 DEF RecordStatus
  <2> QED BY <2>1, <2>2
<1>7. Grows BY <1>2, <1>4, <1>5, <1>6 DEF Grows
<1>8. ASSUME Sources PROVE SourceInv'
  <2>1. SourceInv /\ KnowsSource(proc[p]) BY <1>8 DEF Sources
  <2>2. proc[p].report = "processed" => gateway[g].status = "processed"
    BY <1>0, <2>1 DEF KnowsSource, Hears
  <2>3. ASSUME NEW q \in Records, refunds'[q].status = "PROCESSED"
        PROVE  gateway'[Source(q)'].status = "processed"
    <3>1. CASE refunds[q].status = "PROCESSED" BY <1>4, <2>1, <3>1 DEF SourceInv
    <3>2. CASE refunds[q].status # "PROCESSED"
      <4>1. q = r BY <1>1, <2>3, <3>2 DEF RecordUpdates
      <4>2. refunds' # refunds BY <2>3, <3>2
      <4>3. refunds' = [refunds EXCEPT
                ![r].gatewayId = g,
                ![r].status = IF proc[p].report = "processed" THEN "PROCESSED" ELSE @]
        BY <1>0, <4>2 DEF UpdateRefundRecord
      <4>4. /\ refunds'[r].gatewayId = g
            /\ refunds'[r].status = IF proc[p].report = "processed" THEN "PROCESSED"
                                    ELSE refunds[r].status
        BY <1>1, <1>2, <4>3 DEF Refund
      <4>5. proc[p].report = "processed" BY <2>3, <3>2, <4>1, <4>4
      <4>6. Source(r)' = g BY <1>1, <1>3, <4>4, Constants DEF Source
      <4> QED BY <2>2, <4>1, <4>5, <4>6
    <3> QED BY <3>1, <3>2
  <2> QED BY <1>4, <1>5, <2>1, <2>3 DEF SourceInv
<1>9. /\ proc'[p] = Idle /\ \A q \in Processes : q # p => proc'[q] = proc[q]
  BY <1>2 DEF Finish
<1>10. KnowsSource(proc[p])' BY <1>9, IdleFits DEF KnowsSource, Hears
<1>11. ASSUME NoneFailed, NoneFailed', Sources, NEW h \in told' PROVE h \in told \/ Told(h)'
  <2> SUFFICES ASSUME h = g, g \in Dashboard PROVE Told(g)' BY <1>0, <1>11, FinishTells
  <2>1. refunds[r].gatewayId = g BY <1>1, <1>3, Constants
  <2>2. Source(r) = g BY <2>1 DEF Source
  <2>3. gateway[g].status # "none" BY <1>1, <1>11, <2>2 DEF Sources, SourceInv
  <2>4. LiveRefund(r)
    <3>1. refunds[r].status \in RecordStatus BY <1>1, <1>2 DEF Refund
    <3>2. refunds[r].status # "FAILED" BY <1>1, <1>11 DEF NoneFailed
    <3> QED BY <1>3, <3>1, <3>2 DEF RecordStatus, LiveRefund
  <2>5. Told(g) BY <1>1, <2>2, <2>3, <2>4 DEF Told
  <2> QED BY <1>7, <1>11, <2>5, ToldGrows
<1>12. GatewayBound' BY BoundFrame
<1> QED BY <1>7, <1>8, <1>9, <1>10, <1>11, <1>12, SKeeps

\* The answer of the gateway is recorded.
LEMMA SSettle ==
  ASSUME IInv, IInv', SInv, NEW p \in Processes, Settle(p)
  PROVE  SInv'
<1>1. proc[p].pc = "settle" /\ UNCHANGED <<payment, ledger, gateway, expiries>> BY DEF Settle
<1>2. CASE UpdateRefundRecord(p, {"PENDING"}) /\ Finish(p)
  BY <1>1, <1>2, SUpdateRecord DEF LIVE
<1>3. CASE Continue(p, [proc[p] EXCEPT !.pc = "reload"]) /\ UNCHANGED refunds
  <2>1. proc[p] \in Process BY DEF IInv, TypeInv
  <2>2. [proc[p] EXCEPT !.pc = "reload"].pc = "reload" BY <2>1 DEF Process
  <2>3. KnowsSource([proc[p] EXCEPT !.pc = "reload"]) BY <2>2, NothingToKnow
  <2>4. UNCHANGED documents BY <1>1, <1>3 DEF documents
  <2> QED BY <1>3, <2>3, <2>4, SQuiet DEF Continue
<1> QED BY <1>2, <1>3 DEF Settle

\* An event of the gateway is recorded.
LEMMA SUpdate ==
  ASSUME IInv, IInv', SInv, NEW p \in Processes, Update(p)
  PROVE  SInv'
BY SUpdateRecord DEF Update

\* A refund is undone.
LEMMA SUndo ==
  ASSUME IInv, IInv', SInv, NEW p \in Processes, Undo(p)
  PROVE  SInv'
<1> DEFINE r == proc[p].record
<1>1. /\ proc[p].pc = "undo" /\ gateway' = gateway
      /\ refunds' = [refunds EXCEPT ![r].status = "FAILED"]
  BY DEF Undo
<1>2. r \in Records /\ refunds \in [Records -> Refund]
  BY <1>1 DEF IInv, TypeInv, ProcInv, Fits, KnowsRecord, Undoing
<1>3. refunds'[r].status = "FAILED" BY <1>1, <1>2 DEF Refund
<1>4. ~ NoneFailed' BY <1>2, <1>3 DEF NoneFailed
<1>5. GatewayBound' BY <1>1, BoundFrame
<1> QED BY <1>4, <1>5 DEF SInv

-----------------------------------------------------------------------------
(* The theorem.                                                            *)

\* Nothing is refunded at first but the legacy.
LEMMA SInit == Init => SInv
<1> SUFFICES ASSUME Init PROVE SInv OBVIOUS
<1>1. /\ refunds = [r \in Records |-> NoRefund]
      /\ gateway = [g \in GatewayRefunds |-> [status |-> "none", amount |-> 0]]
      /\ proc = [p \in Processes |-> Idle] /\ told = {}
  BY DEF Init
<1>2. \A r \in Records : refunds[r].status = "none" /\ refunds[r].gatewayId = 0
  BY <1>1 DEF NoRefund
<1>3. \A r \in Records : Source(r) = r BY <1>2, Constants DEF Source
<1>4. SourceInv BY <1>2, <1>3, Constants DEF SourceInv
<1>5. \A p \in Processes : KnowsSource(proc[p]) BY <1>1, IdleFits, NothingToKnow
<1>6. RefundedAtGateway = 0
  <2> DEFINE m == MaxRecords + MaxDashboard
  <2>1. m \in Nat /\ GatewayRefunds = 1 .. m
    BY RefundsAssumption DEF GatewayRefunds, Records, Dashboard
  <2>2. PICK v : v = [g \in GatewayRefunds |->
                        IF gateway[g].status \in {"created", "processed"}
                        THEN gateway[g].amount ELSE 0]
    OBVIOUS
  <2>3. RefundedAtGateway = Sum(v, m) BY <2>2 DEF RefundedAtGateway
  <2>4. \A g \in GatewayRefunds : v[g] = 0 BY <1>1, <2>2
  <2> HIDE DEF m
  <2>5. \A g \in 1 .. m : v[g] = 0 BY <2>1, <2>4
  <2> QED BY <2>1, <2>3, <2>5, SumOfZeros
<1>7. GatewayBound BY <1>6, Constants DEF GatewayBound
<1> QED BY <1>1, <1>4, <1>5, <1>7 DEF SInv, Sources

\* Each step of a process keeps the second invariant.
LEMMA SProcess ==
  ASSUME IInv, IInv', SInv, NEW p \in Processes, Step(p)
  PROVE  SInv'
<1>1. CASE ReadForRefund(p) BY <1>1, SReadForRefund
<1>2. CASE ReadForEvent(p) BY <1>2, SReadForEvent
<1>3. CASE ReadForAbandon(p) BY <1>3, SReadForAbandon
<1>4. CASE Book(p) BY <1>4, SBook
<1>5. CASE BookConflict(p) BY <1>5, SBookConflict
<1>6. CASE Send(p) BY <1>6, SSend
<1>7. CASE Settle(p) BY <1>7, SSettle
<1>8. CASE Update(p) BY <1>8, SUpdate
<1>9. CASE Reload(p) BY <1>9, SReload
<1>10. CASE Undo(p) BY <1>10, SUndo
<1>11. CASE UndoAgain(p) BY <1>11, SUndoAgain
<1>12. CASE Fail(p) BY <1>12, SFail
<1>13. CASE Crash(p) BY <1>13, SCrash
<1> QED
  BY <1>1, <1>2, <1>3, <1>4, <1>5, <1>6, <1>7, <1>8, <1>9, <1>10, <1>11, <1>12, <1>13 DEF Step

\* What the records stand for at the gateway, and what it paid out, in every
\* reachable state.
THEOREM SourcesKnown == Spec => []SInv
<1>1. IInv /\ IInv' /\ SInv /\ [Next]_vars => SInv'
  <2> SUFFICES ASSUME IInv, IInv', SInv, [Next]_vars PROVE SInv' OBVIOUS
  <2>1. CASE \E p \in Handlers, amount \in 1 .. Amount : StartRefund(p, amount)
    BY <2>1, SStartRefund
  <2>2. CASE \E p \in Handlers, g \in GatewayRefunds, report \in GatewayStatus :
               StartEvent(p, g, report)
    BY <2>2, SStartEvent DEF Processes
  <2>3. CASE \E r \in Records : SweepRefund(r) BY <2>3, SSweep
  <2>4. CASE \E p \in Processes : Step(p) BY <2>4, SProcess
  <2>5. CASE \E g \in Dashboard, amount \in 1 .. Amount : DashboardRefund(g, amount)
    BY <2>5, SDashboardRefund
  <2>6. CASE \E g \in GatewayRefunds : GatewaySettles(g) BY <2>6, SGatewaySettles
  <2>7. CASE LockExpires BY <2>7, SFrame DEF LockExpires, documents
  <2>8. CASE UNCHANGED vars BY <2>8, SFrame DEF vars, documents
  <2> QED BY <2>1, <2>2, <2>3, <2>4, <2>5, <2>6, <2>7, <2>8 DEF Next
<1> QED BY <1>1, SInit, Inductive, PTL DEF Spec

\* When all records are processed, they fit into what the gateway paid out
\* next to a dashboard refund that none of them stands for.
LEMMA ProcessedFit ==
  ASSUME IInv, SourceInv, \A r \in Records : refunds[r].status \notin {"PENDING", "FAILED"},
         NEW g \in Dashboard, gateway[g].status = "processed",
         \A r \in Records : LiveRefund(r) => Source(r) # g
  PROVE  /\ RecordedRefunds + gateway[g].amount <= RefundedAtGateway
         /\ RecordedRefunds \in Nat /\ gateway[g].amount \in Nat /\ RefundedAtGateway \in Nat
<1> DEFINE m == MaxRecords + MaxDashboard
<1>1. m \in Nat /\ GatewayRefunds = 1 .. m /\ Records = 1 .. MaxRecords /\ MaxRecords \in Nat
  BY RefundsAssumption DEF GatewayRefunds, Records, Dashboard
<1>2. g \in 1 .. m BY <1>1, Constants
<1>3. PICK a : a = [r \in Records |-> IF LiveRefund(r) THEN refunds[r].amount ELSE 0] OBVIOUS
<1>4. PICK b : b = [h \in GatewayRefunds |->
                      IF gateway[h].status \in {"created", "processed"}
                      THEN gateway[h].amount ELSE 0]
  OBVIOUS
<1>5. PICK f : f = [r \in Records |-> Source(r)] OBVIOUS
<1>6. RecordedRefunds = Sum(a, MaxRecords) BY <1>3 DEF RecordedRefunds
<1>7. RefundedAtGateway = Sum(b, m) BY <1>4 DEF RefundedAtGateway
<1> HIDE DEF m
<1>8. \A r \in Records : refunds[r].amount \in Nat
  BY Constants DEF IInv, TypeInv, Refund
<1>9. \A h \in GatewayRefunds : gateway[h].amount \in Nat
  BY Constants DEF IInv, TypeInv
<1>10. \A r \in 1 .. MaxRecords : a[r] \in Nat BY <1>1, <1>3, <1>8
<1>11. \A h \in 1 .. m : b[h] \in Nat BY <1>1, <1>4, <1>9
<1>12. b[g] = gateway[g].amount BY <1>1, <1>2, <1>4
<1>13. PICK c : /\ \A i \in 1 .. m : c[i] \in Nat
                /\ c[g] = 0 /\ \A i \in 1 .. m : i # g => c[i] = b[i]
                /\ Sum(c, m) = Sum(b, m) - b[g]
  BY <1>1, <1>2, <1>11, SumWithout
<1>14. ASSUME NEW r \in Records, a[r] # 0
       PROVE  f[r] \in 1 .. m /\ a[r] <= c[f[r]]
  <2>1. LiveRefund(r) /\ a[r] = refunds[r].amount BY <1>3, <1>14
  <2>2. f[r] = Source(r) /\ Source(r) # g /\ Source(r) \in GatewayRefunds
    BY <1>5, <2>1, SourceOf
  <2>3. refunds[r].status = "PROCESSED" BY <2>1 DEF LiveRefund, LIVE
  <2>4. gateway[Source(r)].status = "processed" BY <2>3 DEF SourceInv
  <2>5. refunds[r].amount = gateway[Source(r)].amount
    <3>1. CASE Source(r) \in Dashboard BY <3>1 DEF SourceInv
    <3>2. CASE Source(r) \notin Dashboard
      <4>1. Source(r) = r BY <3>2, SourceOf
      <4> QED BY <2>4, <4>1 DEF IInv, DocInv, SentRefundIsBooked
    <3> QED BY <3>1, <3>2
  <2>6. b[Source(r)] = gateway[Source(r)].amount BY <1>4, <2>2, <2>4
  <2>7. c[Source(r)] = b[Source(r)] BY <1>1, <1>13, <2>2
  <2>8. a[r] = c[f[r]] /\ f[r] \in 1 .. m BY <1>1, <2>1, <2>2, <2>5, <2>6, <2>7
  <2> QED BY <1>1, <1>10, <2>8
<1>15. \A i, j \in 1 .. MaxRecords : a[i] # 0 /\ a[j] # 0 /\ f[i] = f[j] => i = j
  BY <1>1, <1>5 DEF SourceInv
<1>16. Sum(a, MaxRecords) <= Sum(c, m)
  <2>1. \A i \in 1 .. MaxRecords : a[i] # 0 => f[i] \in 1 .. m /\ a[i] <= c[f[i]]
    BY <1>1, <1>14
  <2>2. \A i \in 1 .. m : c[i] \in Nat BY <1>13
  <2> QED BY <1>1, <1>10, <1>15, <2>1, <2>2, SumInjection
<1>17. Sum(a, MaxRecords) \in Nat /\ Sum(b, m) \in Nat /\ b[g] \in Nat
  BY <1>1, <1>2, <1>10, <1>11, SumNat
<1>18. Sum(c, m) = Sum(b, m) - b[g] BY <1>13
<1> QED
  <2> DEFINE x == Sum(a, MaxRecords)
  <2> DEFINE y == Sum(b, m)
  <2> DEFINE z == b[g]
  <2> DEFINE u == Sum(c, m)
  <2>1. x <= u /\ u = y - z /\ x \in Nat /\ y \in Nat /\ z \in Nat BY <1>16, <1>17, <1>18
  <2> HIDE DEF x, y, z, u
  <2>2. x + z <= y /\ x \in Nat /\ y \in Nat /\ z \in Nat BY <2>1
  <2> QED BY <1>6, <1>7, <1>12, <2>2 DEF x, y, z

\* A dashboard refund whose webhook was answered is booked, unless a booking
\* is undecided or was undone: Razorpay pays out no more than was captured.
THEOREM DashboardBooked == Spec => []DashboardRefundIsBooked
<1>1. IInv /\ SInv => DashboardRefundIsBooked
  <2> SUFFICES ASSUME IInv, SInv,
                      \A r \in Records : refunds[r].status \notin {"PENDING", "FAILED"},
                      NEW g \in told, gateway[g].status = "processed",
                      \A r \in Records : ~(LiveRefund(r) /\ refunds[r].gatewayId = g)
               PROVE  FALSE
      BY DEF DashboardRefundIsBooked
  <2>1. NoneFailed BY DEF NoneFailed
  <2>2. SourceInv /\ Told(g) /\ GatewayBound BY <2>1 DEF SInv, Sources
  <2>3. g \in Dashboard BY DEF IInv, TypeInv
  <2>4. \A r \in Records : LiveRefund(r) => Source(r) # g BY <2>3, SourceOf
  <2>5. payment.refunded + gateway[g].amount > Amount BY <2>2, <2>4 DEF Told
  <2>6. /\ RecordedRefunds + gateway[g].amount <= RefundedAtGateway
        /\ RecordedRefunds \in Nat /\ gateway[g].amount \in Nat /\ RefundedAtGateway \in Nat
    BY <2>2, <2>3, <2>4, ProcessedFit
  <2>7. payment.refunded = Legacy + RecordedRefunds BY DEF IInv, DocInv, BooksAgree
  <2>8. Legacy + RefundedAtGateway <= Amount BY <2>2 DEF GatewayBound
  <2> DEFINE x == RecordedRefunds
  <2> DEFINE y == RefundedAtGateway
  <2> DEFINE z == gateway[g].amount
  <2>9. /\ Legacy + x + z > Amount /\ x + z <= y /\ Legacy + y <= Amount
        /\ x \in Nat /\ y \in Nat /\ z \in Nat
    BY <2>5, <2>6, <2>7, <2>8
  <2>10. Legacy \in Nat /\ Amount \in Nat BY Constants
  <2> HIDE DEF x, y, z
  <2> QED BY <2>9, <2>10
<1> QED BY <1>1, Inductive, SourcesKnown, PTL
=============================================================================
