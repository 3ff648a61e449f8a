----------------------------- MODULE Recursion -----------------------------
(***************************************************************************)
(* Values defined by recursion over the naturals, as the loops of the      *)
(* client compute them: from a first value, one round after the other.     *)
(* The proofs go by induction on the set of rounds of which something is   *)
(* known.                                                                  *)
(***************************************************************************)
EXTENDS Integers, WellFoundedInduction, TLAPS

CONSTANTS Base(_),      \* what there is of p before the first round
          Step(_, _, _) \* what round n makes, for p, of what there was

\* What there is of p after each number of rounds.
Rec(p) == LET f[n \in Nat] == IF n = 0 THEN Base(p) ELSE Step(p, n, f[n - 1]) IN f

-----------------------------------------------------------------------------

\* A set that has 0, and with every number the next, has all of them.
LEMMA NatSetInduction ==
    ASSUME NEW S, 0 \in S, \A n \in Nat : n \in S => n + 1 \in S
    PROVE  Nat \subseteq S
<1> DEFINE R == OpToRel(<, Nat)
           T == Nat \ S
<1>1. SUFFICES ASSUME T # {} PROVE FALSE
  OBVIOUS
<1>2. IsWellFoundedOn(R, Nat)
  BY NatLessThanWellFounded
<1>3. PICK n \in T : \A m \in T : ~ (<<m, n>> \in R)
  <2> HIDE DEF R
  <2>1. QED
    BY <1>1, <1>2, WFMin
<1>4. n - 1 \in T /\ n \in Nat /\ n # 0
  OBVIOUS
<1>5. <<n - 1, n>> \in R
  BY <1>4 DEF OpToRel
<1>6. QED
  BY <1>3, <1>4, <1>5

\* The rounds up to n.
Upto(p, h, n) == /\ h[0] = Base(p)
                 /\ \A i \in 1..n : h[i] = Step(p, i, h[i - 1])

\* Two ways to do the same rounds come to the same.
LEMMA Unique ==
    ASSUME NEW p, NEW n \in Nat, NEW g, NEW h, Upto(p, g, n), Upto(p, h, n)
    PROVE  \A i \in 0..n : g[i] = h[i]
<1> DEFINE S == {i \in Nat : i <= n => g[i] = h[i]}
<1>1. 0 \in S
  BY DEF Upto
<1>2. ASSUME NEW i \in Nat, i \in S PROVE i + 1 \in S
  <2>1. CASE i + 1 <= n
    <3>1. i + 1 \in 1..n /\ (i + 1) - 1 = i
      BY <2>1
    <3>2. g[i + 1] = Step(p, i + 1, g[i]) /\ h[i + 1] = Step(p, i + 1, h[i])
      BY <3>1 DEF Upto
    <3>3. g[i] = h[i]
      BY <1>2, <2>1
    <3>4. QED
      BY <3>2, <3>3
  <2>2. QED
    BY <2>1
<1>3. Nat \subseteq S
  <2> HIDE DEF S
  <2>1. QED
    BY <1>1, <1>2, NatSetInduction
<1>4. QED
  BY <1>3

\* Any number of rounds can be done.
LEMMA Exists == ASSUME NEW p PROVE \A n \in Nat : \E h : Upto(p, h, n)
<1> DEFINE S == {n \in Nat : \E h : Upto(p, h, n)}
<1>1. 0 \in S
  <2> DEFINE h == [i \in 0..0 |-> Base(p)]
  <2>1. Upto(p, h, 0)
    BY DEF Upto
  <2>2. QED
    BY <2>1
<1>2. ASSUME NEW n \in Nat, n \in S PROVE n + 1 \in S
  <2>1. PICK h : Upto(p, h, n)
    BY <1>2
  <2> DEFINE g == [i \in 0..(n + 1) |-> IF i = n + 1 THEN Step(p, n + 1, h[n]) ELSE h[i]]
  <2>2. g[0] = Base(p)
    BY <2>1 DEF Upto
  <2>3. ASSUME NEW i \in 1..(n + 1) PROVE g[i] = Step(p, i, g[i - 1])
    <3>1. CASE i = n + 1
      <4>1. i - 1 = n
        BY <3>1
      <4>2. g[i - 1] = h[n]
        BY <4>1
      <4>3. QED
        BY <3>1, <4>2
    <3>2. CASE i # n + 1
      <4>1. i \in 1..n /\ i - 1 \in 0..n
        BY <3>2
      <4>2. h[i] = Step(p, i, h[i - 1])
        BY <2>1, <4>1 DEF Upto
      <4>3. g[i] = h[i] /\ g[i - 1] = h[i - 1]
        BY <3>2, <4>1
      <4>4. QED
        BY <4>2, <4>3
    <3>3. QED
      BY <3>1, <3>2
  <2>4. Upto(p, g, n + 1)
    <3> HIDE DEF g
    <3>1. QED
      BY <2>2, <2>3 DEF Upto
  <2>5. QED
    BY <2>4
<1>3. Nat \subseteq S
  <2> HIDE DEF S
  <2>1. QED
    BY <1>1, <1>2, NatSetInduction
<1>4. QED
  BY <1>3

\* Rec is what its definition says.
THEOREM Recursive ==
    ASSUME NEW p
    PROVE  /\ Rec(p)[0] = Base(p)
           /\ \A n \in Nat : Rec(p)[n + 1] = Step(p, n + 1, Rec(p)[n])
<1> DEFINE Body(h) == [n \in Nat |-> IF n = 0 THEN Base(p) ELSE Step(p, n, h[n - 1])]
           upto(n) == CHOOSE h : Upto(p, h, n)
           all == [n \in Nat |-> upto(n)[n]]
<1>1. \A n \in Nat : Upto(p, upto(n), n)
  BY Exists
<1>2. all[0] = Base(p)
  BY <1>1 DEF Upto
<1>3. ASSUME NEW n \in Nat PROVE all[n + 1] = Step(p, n + 1, all[n])
  <2>1. Upto(p, upto(n), n) /\ Upto(p, upto(n + 1), n + 1)
    BY <1>1
  <2>2. Upto(p, upto(n + 1), n)
    BY <2>1 DEF Upto
  <2> HIDE DEF upto
  <2>3. upto(n + 1)[n] = upto(n)[n]
    BY <2>1, <2>2, Unique
  <2>4. upto(n + 1)[n + 1] = Step(p, n + 1, upto(n + 1)[(n + 1) - 1])
    BY <2>1 DEF Upto
  <2>5. (n + 1) - 1 = n
    OBVIOUS
  <2>6. QED
    BY <2>3, <2>4, <2>5
<1> HIDE DEF upto
<1>4. all = Body(all)
  <2> HIDE DEF all
  <2>1. all = [n \in Nat |-> all[n]]
    BY DEF all
  <2>2. ASSUME NEW n \in Nat
        PROVE  all[n] = IF n = 0 THEN Base(p) ELSE Step(p, n, all[n - 1])
    <3>1. CASE n = 0
      BY <1>2, <3>1
    <3>2. CASE n # 0
      <4>1. n - 1 \in Nat /\ (n - 1) + 1 = n
        BY <3>2
      <4>2. all[(n - 1) + 1] = Step(p, (n - 1) + 1, all[n - 1])
        BY <1>3, <4>1
      <4>3. QED
        BY <3>2, <4>1, <4>2
    <3>3. QED
      BY <3>1, <3>2
  <2>3. QED
    BY <2>1, <2>2
<1>5. Rec(p) = CHOOSE h : h = Body(h)
  BY DEF Rec
<1> HIDE DEF all
<1>6. Rec(p) = Body(Rec(p))
  <2> HIDE DEF Body
  <2>1. QED
    BY <1>4, <1>5
<1>7. Rec(p)[0] = Base(p)
  BY <1>6
<1>8. ASSUME NEW n \in Nat PROVE Rec(p)[n + 1] = Step(p, n + 1, Rec(p)[n])
  <2>1. (n + 1) - 1 = n /\ n + 1 \in Nat /\ n + 1 # 0
    OBVIOUS
  <2>2. Rec(p)[n + 1] = Body(Rec(p))[n + 1]
    BY <1>6
  <2>3. QED
    BY <2>1, <2>2
<1>9. QED
  BY <1>7, <1>8
=============================================================================
