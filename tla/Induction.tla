------------------------------ MODULE Induction ------------------------------
(***************************************************************************)
(* Induction over natural numbers, stated of sets of numbers, and what it  *)
(* gives for functions that are defined by recursion over an interval.     *)
(***************************************************************************)
EXTENDS Integers, Sequences, WellFoundedInduction, TLAPS

\* A set of numbers that is not empty has a least one.
LEMMA LeastNumber ==
    ASSUME NEW S \in SUBSET Nat, S # {}
    PROVE  \E m \in S : \A k \in S : m <= k
<1>1. PICK m \in S : \A k \in S : <<k, m>> \notin OpToRel(<, Nat)
    BY WFMin, NatLessThanWellFounded, Zenon
<1>2. \A k \in S : ~(k < m)
    BY <1>1, Zenon DEF OpToRel
<1> QED
    BY <1>2

\* Induction up to n.
LEMMA InductUpTo ==
    ASSUME NEW n \in Nat, NEW P,
           0 \in P, \A k \in 0..(n - 1) : k \in P => k + 1 \in P
    PROVE  \A k \in 0..n : k \in P
<1> DEFINE Bad == {k \in 0..n : k \notin P}
<1> SUFFICES ASSUME Bad # {} PROVE FALSE
    OBVIOUS
<1>1. PICK m \in Bad : \A k \in Bad : m <= k
    <2>1. Bad \in SUBSET Nat
        OBVIOUS
    <2> QED
        BY <2>1, LeastNumber
<1>2. m # 0 /\ m \in 0..n
    OBVIOUS
<1>3. m - 1 \in 0..(n - 1) /\ m - 1 \notin Bad
    BY <1>1, <1>2
<1>4. m - 1 \in P /\ (m - 1) + 1 = m
    BY <1>3
<1> QED
    BY <1>3, <1>4

\* Induction over the natural numbers.
LEMMA InductNat ==
    ASSUME NEW P, 0 \in P, \A k \in Nat : k \in P => k + 1 \in P
    PROVE  \A k \in Nat : k \in P
<1> SUFFICES ASSUME NEW n \in Nat PROVE n \in P
    OBVIOUS
<1>1. \A k \in 0..n : k \in P
    BY InductUpTo
<1> QED
    BY <1>1

\* The function f begins with base and goes on by step, up to n.
RecursBy(f, n, base, step) == f[0] = base /\ \A k \in 1..n : f[k] = step[k][f[k - 1]]

\* There is a function that is defined by recursion up to n.
LEMMA Iterates ==
    ASSUME NEW S, NEW n \in Nat, NEW base \in S, NEW step \in [1..n -> [S -> S]]
    PROVE  \E f \in [0..n -> S] : RecursBy(f, n, base, step)
<1> DEFINE Good(f, m) == f[0] = base /\ \A k \in 1..m : f[k] = step[k][f[k - 1]]
           P == {m \in 0..n : \E f \in [0..m -> S] : Good(f, m)}
<1>1. 0 \in P
    <2> DEFINE g == [k \in 0..0 |-> base]
    <2>1. g \in [0..0 -> S] /\ Good(g, 0)
        OBVIOUS
    <2>2. \E f \in [0..0 -> S] : Good(f, 0)
        <3> HIDE DEF Good, g
        <3> QED
            BY <2>1
    <2>3. 0 \in 0..n
        OBVIOUS
    <2> HIDE DEF Good
    <2> QED
        BY <2>2, <2>3
<1>2. ASSUME NEW m \in 0..(n - 1), m \in P PROVE m + 1 \in P
    <2>1. PICK f \in [0..m -> S] : Good(f, m)
        BY <1>2
    <2> DEFINE g == [k \in 0..(m + 1) |-> IF k = m + 1 THEN step[m + 1][f[m]] ELSE f[k]]
    <2>2. step[m + 1][f[m]] \in S
        OBVIOUS
    <2>3. g \in [0..(m + 1) -> S]
        BY <2>2
    <2>4. g[0] = base
        BY <2>1
    <2>5. ASSUME NEW k \in 1..(m + 1) PROVE g[k] = step[k][g[k - 1]]
        <3>1. CASE k = m + 1
            <4>1. k - 1 = m /\ m \in 0..(m + 1) /\ m # m + 1 /\ k \in 0..(m + 1)
                BY <3>1
            <4> QED
                BY <3>1, <4>1
        <3>2. CASE k # m + 1
            <4>1. k \in 1..m /\ k - 1 \in 0..m /\ k - 1 # m + 1 /\ k \in 0..(m + 1) /\ k - 1 \in 0..(m + 1)
                BY <3>2
            <4>2. f[k] = step[k][f[k - 1]]
                BY <2>1, <4>1
            <4> QED
                BY <3>2, <4>1, <4>2
        <3> QED
            BY <3>1, <3>2
    <2>6. Good(g, m + 1)
        BY <2>4, <2>5
    <2>7. \E h \in [0..(m + 1) -> S] : Good(h, m + 1)
        <3> HIDE DEF Good, g
        <3> QED
            BY <2>3, <2>6
    <2>8. m + 1 \in 0..n
        OBVIOUS
    <2> HIDE DEF Good
    <2> QED
        BY <2>7, <2>8
<1>3. n \in P
    <2> HIDE DEF P
    <2>1. \A k \in 0..n : k \in P
        BY <1>1, <1>2, InductUpTo
    <2> QED
        BY <2>1
<1> QED
    BY <1>3 DEF RecursBy
=============================================================================
