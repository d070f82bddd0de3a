--------------------------- MODULE TypeCheckProofs ---------------------------
(***************************************************************************)
(* What the type checker guarantees, whatever follows terms.               *)
(***************************************************************************)
EXTENDS TypeCheck, SequenceTheorems, Induction

\* The sources of a tuple step are taken one after the other.
FlattenBy(f, ts) ==
  /\ f[0] = <<>>
  /\ \A k \in 1..Len(ts) : f[k] = f[k - 1] \o Spread(ts[k], f[k - 1])
  /\ Flatten(ts) = f[Len(ts)]

LEMMA FlattenFold == ASSUME NEW ts, Len(ts) \in Nat PROVE \E f : FlattenBy(f, ts)
<1> DEFINE n == Len(ts)
           Folds(f, m) == f = [k \in 0..m |-> IF k = 0 THEN <<>> ELSE f[k - 1] \o Spread(ts[k], f[k - 1])]
           P == {m \in 0..n : \E f : Folds(f, m)}
           call[k \in 0..n] == IF k = 0 THEN <<>> ELSE call[k - 1] \o Spread(ts[k], call[k - 1])
<1>1. 0 \in P
    <2> DEFINE g == [k \in 0..0 |-> <<>>]
    <2>1. g = [k \in 0..0 |-> IF k = 0 THEN <<>> ELSE g[k - 1] \o Spread(ts[k], g[k - 1])]
        OBVIOUS
    <2>2. 0 \in 0..n
        OBVIOUS
    <2> HIDE DEF g
    <2> QED
        BY <2>1, <2>2
<1>2. ASSUME NEW m \in 0..(n - 1), m \in P PROVE m + 1 \in P
    <2>1. PICK f : Folds(f, m)
        BY <1>2
    <2> DEFINE g == [k \in 0..(m + 1) |-> IF k = m + 1 THEN f[m] \o Spread(ts[m + 1], f[m]) ELSE f[k]]
               e(k) == IF k = 0 THEN <<>> ELSE g[k - 1] \o Spread(ts[k], g[k - 1])
    <2>2. ASSUME NEW k \in 0..(m + 1) PROVE g[k] = e(k)
        <3>1. CASE k = m + 1
            <4>1. k - 1 = m /\ m \in 0..(m + 1) /\ m # m + 1 /\ k # 0
                BY <3>1
            <4>2. g[k - 1] = f[m]
                BY <4>1
            <4>3. g[k] = f[m] \o Spread(ts[m + 1], f[m])
                BY <3>1
            <4> HIDE DEF g
            <4> QED
                BY <3>1, <4>1, <4>2, <4>3
        <3>2. CASE k # m + 1
            <4>1. k \in 0..m
                BY <3>2
            <4>2. g[k] = f[k]
                BY <3>2
            <4>3. k # 0 => k - 1 \in 0..(m + 1) /\ k - 1 # m + 1
                BY <4>1
            <4>4. k # 0 => g[k - 1] = f[k - 1]
                BY <4>3
            <4>5. f[k] = IF k = 0 THEN <<>> ELSE f[k - 1] \o Spread(ts[k], f[k - 1])
                BY <2>1, <4>1, Zenon
            <4> HIDE DEF g
            <4> QED
                BY <4>2, <4>4, <4>5
        <3> QED
            BY <3>1, <3>2
    <2>3. g = [k \in 0..(m + 1) |-> e(k)]
        <3>1. g = [k \in 0..(m + 1) |-> g[k]]
            OBVIOUS
        <3> HIDE DEF g, e
        <3> QED
            BY <2>2, <3>1
    <2>4. m + 1 \in 0..n
        OBVIOUS
    <2> HIDE DEF g
    <2> QED
        BY <2>3, <2>4, Zenon
<1>3. n \in P
    <2> HIDE DEF P
    <2>1. \A k \in 0..n : k \in P
        BY <1>1, <1>2, InductUpTo
    <2> QED
        BY <2>1
<1>4. PICK f : f = [k \in 0..n |-> IF k = 0 THEN <<>> ELSE f[k - 1] \o Spread(ts[k], f[k - 1])]
    BY <1>3
<1>5. call = [k \in 0..n |-> IF k = 0 THEN <<>> ELSE call[k - 1] \o Spread(ts[k], call[k - 1])]
    BY <1>4, Zenon
<1>6. Flatten(ts) = call[n]
    BY Zenon DEF Flatten
<1> HIDE DEF call
<1>7. 0 \in 0..n /\ \A k \in 1..n : k \in 0..n /\ k # 0
    OBVIOUS
<1> HIDE DEF n
<1>8. call[0] = <<>> /\ \A k \in 1..n : call[k] = call[k - 1] \o Spread(ts[k], call[k - 1])
    BY <1>5, <1>7, Zenon
<1>9. FlattenBy(call, ts)
    BY <1>6, <1>8 DEF n, FlattenBy
<1> QED
    BY <1>9, Zenon

\* Sequences are joined one after the other.
JoinedBy(f, seqs) ==
  /\ f[0] = <<>>
  /\ \A k \in 1..Len(seqs) : f[k] = f[k - 1] \o seqs[k]
  /\ Joined(seqs) = f[Len(seqs)]

LEMMA JoinedFold == ASSUME NEW seqs, Len(seqs) \in Nat PROVE \E f : JoinedBy(f, seqs)
<1> DEFINE n == Len(seqs)
           Folds(f, m) == f = [k \in 0..m |-> IF k = 0 THEN <<>> ELSE f[k - 1] \o seqs[k]]
           P == {m \in 0..n : \E f : Folds(f, m)}
           call[k \in 0..n] == IF k = 0 THEN <<>> ELSE call[k - 1] \o seqs[k]
<1>1. 0 \in P
    <2> DEFINE g == [k \in 0..0 |-> <<>>]
    <2>1. g = [k \in 0..0 |-> IF k = 0 THEN <<>> ELSE g[k - 1] \o seqs[k]]
        OBVIOUS
    <2>2. 0 \in 0..n
        OBVIOUS
    <2> HIDE DEF g
    <2> QED
        BY <2>1, <2>2
<1>2. ASSUME NEW m \in 0..(n - 1), m \in P PROVE m + 1 \in P
    <2>1. PICK f : Folds(f, m)
        BY <1>2
    <2> DEFINE g == [k \in 0..(m + 1) |-> IF k = m + 1 THEN f[m] \o seqs[m + 1] ELSE f[k]]
               e(k) == IF k = 0 THEN <<>> ELSE g[k - 1] \o seqs[k]
    <2>2. ASSUME NEW k \in 0..(m + 1) PROVE g[k] = e(k)
        <3>1. CASE k = m + 1
            <4>1. k - 1 = m /\ m \in 0..(m + 1) /\ m # m + 1 /\ k # 0
                BY <3>1
            <4>2. g[k - 1] = f[m]
                BY <4>1
            <4>3. g[k] = f[m] \o seqs[m + 1]
                BY <3>1
            <4> HIDE DEF g
            <4> QED
                BY <3>1, <4>1, <4>2, <4>3
        <3>2. CASE k # m + 1
            <4>1. k \in 0..m
                BY <3>2
            <4>2. g[k] = f[k]
                BY <3>2
            <4>3. k # 0 => k - 1 \in 0..(m + 1) /\ k - 1 # m + 1
                BY <4>1
            <4>4. k # 0 => g[k - 1] = f[k - 1]
                BY <4>3
            <4>5. f[k] = IF k = 0 THEN <<>> ELSE f[k - 1] \o seqs[k]
                BY <2>1, <4>1, Zenon
            <4> HIDE DEF g
            <4> QED
                BY <4>2, <4>4, <4>5
        <3> QED
            BY <3>1, <3>2
    <2>3. g = [k \in 0..(m + 1) |-> e(k)]
        <3>1. g = [k \in 0..(m + 1) |-> g[k]]
            OBVIOUS
        <3> HIDE DEF g, e
        <3> QED
            BY <2>2, <3>1
    <2>4. m + 1 \in 0..n
        OBVIOUS
    <2> HIDE DEF g
    <2> QED
        BY <2>3, <2>4, Zenon
<1>3. n \in P
    <2> HIDE DEF P
    <2>1. \A k \in 0..n : k \in P
        BY <1>1, <1>2, InductUpTo
    <2> QED
        BY <2>1
<1>4. PICK f : f = [k \in 0..n |-> IF k = 0 THEN <<>> ELSE f[k - 1] \o seqs[k]]
    BY <1>3
<1>5. call = [k \in 0..n |-> IF k = 0 THEN <<>> ELSE call[k - 1] \o seqs[k]]
    BY <1>4, Zenon
<1>6. Joined(seqs) = call[n]
    BY Zenon DEF Joined
<1> HIDE DEF call
<1>7. 0 \in 0..n /\ \A k \in 1..n : k \in 0..n /\ k # 0
    OBVIOUS
<1> HIDE DEF n
<1>8. call[0] = <<>> /\ \A k \in 1..n : call[k] = call[k - 1] \o seqs[k]
    BY <1>5, <1>7, Zenon
<1>9. JoinedBy(call, seqs)
    BY <1>6, <1>8 DEF n, JoinedBy
<1> QED
    BY <1>9, Zenon

\* Steps offer their outputs one after the other.
OffersBy(f, steps, env) ==
  /\ f[0] = [g |-> gen, out |-> <<>>]
  /\ \A k \in 1..Len(steps) : f[k] = Offer(steps[k], env, f[k - 1])
  /\ Offers(steps, env) = f[Len(steps)]

LEMMA OffersFold == ASSUME NEW steps, NEW env, Len(steps) \in Nat PROVE \E f : OffersBy(f, steps, env)
<1> DEFINE n == Len(steps)
           Folds(f, m) == f = [k \in 0..m |-> IF k = 0 THEN [g |-> gen, out |-> <<>>] ELSE Offer(steps[k], env, f[k - 1])]
           P == {m \in 0..n : \E f : Folds(f, m)}
           call[k \in 0..n] == IF k = 0 THEN [g |-> gen, out |-> <<>>] ELSE Offer(steps[k], env, call[k - 1])
<1>1. 0 \in P
    <2> DEFINE g == [k \in 0..0 |-> [g |-> gen, out |-> <<>>]]
    <2>1. g = [k \in 0..0 |-> IF k = 0 THEN [g |-> gen, out |-> <<>>] ELSE Offer(steps[k], env, g[k - 1])]
        OBVIOUS
    <2>2. 0 \in 0..n
        OBVIOUS
    <2> HIDE DEF g
    <2> QED
        BY <2>1, <2>2
<1>2. ASSUME NEW m \in 0..(n - 1), m \in P PROVE m + 1 \in P
    <2>1. PICK f : Folds(f, m)
        BY <1>2
    <2> DEFINE g == [k \in 0..(m + 1) |-> IF k = m + 1 THEN Offer(steps[m + 1], env, f[m]) ELSE f[k]]
               e(k) == IF k = 0 THEN [g |-> gen, out |-> <<>>] ELSE Offer(steps[k], env, g[k - 1])
    <2>2. ASSUME NEW k \in 0..(m + 1) PROVE g[k] = e(k)
        <3>1. CASE k = m + 1
            <4>1. k - 1 = m /\ m \in 0..(m + 1) /\ m # m + 1 /\ k # 0
                BY <3>1
            <4>2. g[k - 1] = f[m]
                BY <4>1
            <4>3. g[k] = Offer(steps[m + 1], env, f[m])
                BY <3>1
            <4> HIDE DEF g
            <4> QED
                BY <3>1, <4>1, <4>2, <4>3
        <3>2. CASE k # m + 1
            <4>1. k \in 0..m
                BY <3>2
            <4>2. g[k] = f[k]
                BY <3>2
            <4>3. k # 0 => k - 1 \in 0..(m + 1) /\ k - 1 # m + 1
                BY <4>1
            <4>4. k # 0 => g[k - 1] = f[k - 1]
                BY <4>3
            <4>5. f[k] = IF k = 0 THEN [g |-> gen, out |-> <<>>] ELSE Offer(steps[k], env, f[k - 1])
                BY <2>1, <4>1, Zenon
            <4> HIDE DEF g
            <4> QED
                BY <4>2, <4>4, <4>5
        <3> QED
            BY <3>1, <3>2
    <2>3. g = [k \in 0..(m + 1) |-> e(k)]
        <3>1. g = [k \in 0..(m + 1) |-> g[k]]
            OBVIOUS
        <3> HIDE DEF g, e
        <3> QED
            BY <2>2, <3>1
    <2>4. m + 1 \in 0..n
        OBVIOUS
    <2> HIDE DEF g
    <2> QED
        BY <2>3, <2>4, Zenon
<1>3. n \in P
    <2> HIDE DEF P
    <2>1. \A k \in 0..n : k \in P
        BY <1>1, <1>2, InductUpTo
    <2> QED
        BY <2>1
<1>4. PICK f : f = [k \in 0..n |-> IF k = 0 THEN [g |-> gen, out |-> <<>>] ELSE Offer(steps[k], env, f[k - 1])]
    BY <1>3
<1>5. call = [k \in 0..n |-> IF k = 0 THEN [g |-> gen, out |-> <<>>] ELSE Offer(steps[k], env, call[k - 1])]
    BY <1>4, Zenon
<1>6. Offers(steps, env) = call[n]
    BY Zenon DEF Offers
<1> HIDE DEF call
<1>7. 0 \in 0..n /\ \A k \in 1..n : k \in 0..n /\ k # 0
    OBVIOUS
<1> HIDE DEF n
<1>8. call[0] = [g |-> gen, out |-> <<>>] /\ \A k \in 1..n : call[k] = Offer(steps[k], env, call[k - 1])
    BY <1>5, <1>7, Zenon
<1>9. OffersBy(call, steps, env)
    BY <1>6, <1>8 DEF n, OffersBy
<1> QED
    BY <1>9, Zenon

\* The names of a tuple step are taken one after the other.
SourcesBy(f, names, env) ==
  /\ f[0] = [ok |-> TRUE, g |-> gen, ts |-> <<>>]
  /\ \A k \in 1..Len(names) : f[k] = Source(names[k], env, f[k - 1])
  /\ Sources(names, env) = f[Len(names)]

LEMMA SourcesFold == ASSUME NEW names, NEW env, Len(names) \in Nat PROVE \E f : SourcesBy(f, names, env)
<1> DEFINE n == Len(names)
           Folds(f, m) == f = [k \in 0..m |-> IF k = 0 THEN [ok |-> TRUE, g |-> gen, ts |-> <<>>] ELSE Source(names[k], env, f[k - 1])]
           P == {m \in 0..n : \E f : Folds(f, m)}
           call[k \in 0..n] == IF k = 0 THEN [ok |-> TRUE, g |-> gen, ts |-> <<>>] ELSE Source(names[k], env, call[k - 1])
<1>1. 0 \in P
    <2> DEFINE g == [k \in 0..0 |-> [ok |-> TRUE, g |-> gen, ts |-> <<>>]]
    <2>1. g = [k \in 0..0 |-> IF k = 0 THEN [ok |-> TRUE, g |-> gen, ts |-> <<>>] ELSE Source(names[k], env, g[k - 1])]
        OBVIOUS
    <2>2. 0 \in 0..n
        OBVIOUS
    <2> HIDE DEF g
    <2> QED
        BY <2>1, <2>2
<1>2. ASSUME NEW m \in 0..(n - 1), m \in P PROVE m + 1 \in P
    <2>1. PICK f : Folds(f, m)
        BY <1>2
    <2> DEFINE g == [k \in 0..(m + 1) |-> IF k = m + 1 THEN Source(names[m + 1], env, f[m]) ELSE f[k]]
               e(k) == IF k = 0 THEN [ok |-> TRUE, g |-> gen, ts |-> <<>>] ELSE Source(names[k], env, g[k - 1])
    <2>2. ASSUME NEW k \in 0..(m + 1) PROVE g[k] = e(k)
        <3>1. CASE k = m + 1
            <4>1. k - 1 = m /\ m \in 0..(m + 1) /\ m # m + 1 /\ k # 0
                BY <3>1
            <4>2. g[k - 1] = f[m]
                BY <4>1
            <4>3. g[k] = Source(names[m + 1], env, f[m])
                BY <3>1
            <4> HIDE DEF g
            <4> QED
                BY <3>1, <4>1, <4>2, <4>3
        <3>2. CASE k # m + 1
            <4>1. k \in 0..m
                BY <3>2
            <4>2. g[k] = f[k]
                BY <3>2
            <4>3. k # 0 => k - 1 \in 0..(m + 1) /\ k - 1 # m + 1
                BY <4>1
            <4>4. k # 0 => g[k - 1] = f[k - 1]
                BY <4>3
            <4>5. f[k] = IF k = 0 THEN [ok |-> TRUE, g |-> gen, ts |-> <<>>] ELSE Source(names[k], env, f[k - 1])
                BY <2>1, <4>1, Zenon
            <4> HIDE DEF g
            <4> QED
                BY <4>2, <4>4, <4>5
        <3> QED
            BY <3>1, <3>2
    <2>3. g = [k \in 0..(m + 1) |-> e(k)]
        <3>1. g = [k \in 0..(m + 1) |-> g[k]]
            OBVIOUS
        <3> HIDE DEF g, e
        <3> QED
            BY <2>2, <3>1
    <2>4. m + 1 \in 0..n
        OBVIOUS
    <2> HIDE DEF g
    <2> QED
        BY <2>3, <2>4, Zenon
<1>3. n \in P
    <2> HIDE DEF P
    <2>1. \A k \in 0..n : k \in P
        BY <1>1, <1>2, InductUpTo
    <2> QED
        BY <2>1
<1>4. PICK f : f = [k \in 0..n |-> IF k = 0 THEN [ok |-> TRUE, g |-> gen, ts |-> <<>>] ELSE Source(names[k], env, f[k - 1])]
    BY <1>3
<1>5. call = [k \in 0..n |-> IF k = 0 THEN [ok |-> TRUE, g |-> gen, ts |-> <<>>] ELSE Source(names[k], env, call[k - 1])]
    BY <1>4, Zenon
<1>6. Sources(names, env) = call[n]
    BY Zenon DEF Sources
<1> HIDE DEF call
<1>7. 0 \in 0..n /\ \A k \in 1..n : k \in 0..n /\ k # 0
    OBVIOUS
<1> HIDE DEF n
<1>8. call[0] = [ok |-> TRUE, g |-> gen, ts |-> <<>>] /\ \A k \in 1..n : call[k] = Source(names[k], env, call[k - 1])
    BY <1>5, <1>7, Zenon
<1>9. SourcesBy(call, names, env)
    BY <1>6, <1>8 DEF n, SourcesBy
<1> QED
    BY <1>9, Zenon

-----------------------------------------------------------------------------
(* Sequences.                                                              *)

LEMMA ConcatAgain ==
    ASSUME NEW T, NEW a \in Seq(T), NEW b \in Seq(T)
    PROVE  a \o b \in Seq(T) /\ <<>> \o a = a /\ a \o <<>> = a
    OBVIOUS

LEMMA ConcatAssociates ==
    ASSUME NEW T, NEW a \in Seq(T), NEW b \in Seq(T), NEW c \in Seq(T)
    PROVE  (a \o b) \o c = a \o (b \o c)
    OBVIOUS

LEMMA HeadApart ==
    ASSUME NEW T, NEW s \in Seq(T), s # <<>>
    PROVE  /\ s[1] \in T /\ <<s[1]>> \in Seq(T) /\ Tail(s) \in Seq(T)
           /\ s = <<s[1]>> \o Tail(s)
    OBVIOUS

LEMMA Alone == ASSUME NEW T, NEW t \in T PROVE <<t>> \in Seq(T)
    OBVIOUS

LEMMA Appended ==
    ASSUME NEW T, NEW s \in Seq(T), NEW t \in T
    PROVE  Append(s, t) \in Seq(T) /\ Len(Append(s, t)) = Len(s) + 1
    OBVIOUS

LEMMA ElementsOf ==
    ASSUME NEW T, NEW s \in Seq(T)
    PROVE  DOMAIN s = 1..Len(s) /\ Len(s) \in Nat /\ \A i \in 1..Len(s) : s[i] \in T
    OBVIOUS

LEMMA FirstOf ==
    ASSUME NEW T, NEW w \in T, NEW s \in Seq(T)
    PROVE  1 \in DOMAIN (<<w>> \o s) /\ (<<w>> \o s)[1] = w
    OBVIOUS

LEMMA Between ==
    ASSUME NEW T, NEW a \in Seq(T), NEW b \in Seq(T), NEW w \in T
    PROVE  Len(a) + 1 \in DOMAIN (a \o (<<w>> \o b)) /\ (a \o (<<w>> \o b))[Len(a) + 1] = w
    OBVIOUS

-----------------------------------------------------------------------------
(***************************************************************************)
(* Fan-in, whatever the sources are: a set of types in which a source that *)
(* begins with a World has its parts.                                      *)
(***************************************************************************)
Payload(t) == IF Threads(t) THEN Tail(t.args) ELSE <<t>>

\* The payloads of some sources, one after the other.
Payloads(ts) == Joined([i \in DOMAIN ts |-> Payload(ts[i])])

LEMMA SpreadIs ==
    ASSUME NEW T, NEW t \in T, Threads(t) => t.args \in Seq(T), NEW flat \in Seq(T)
    PROVE  /\ Payload(t) \in Seq(T)
           /\ (\E i \in DOMAIN flat : IsWorld(flat[i])) \/ ~Threads(t) => Spread(t, flat) = Payload(t)
           /\ Threads(t) => t.args[1] \in T /\ IsWorld(t.args[1])
           /\ Threads(t) /\ (~\E i \in DOMAIN flat : IsWorld(flat[i]))
                => Spread(t, flat) = <<t.args[1]>> \o Payload(t)
<1>1. CASE Threads(t)
    <2>1. t.args # <<>> /\ IsWorld(t.args[1])
        BY <1>1 DEF Threads
    <2>2. t.args[1] \in T /\ Tail(t.args) \in Seq(T) /\ t.args = <<t.args[1]>> \o Tail(t.args)
        BY <1>1, <2>1, HeadApart
    <2> QED
        BY <1>1, <2>1, <2>2, Zenon DEF Payload, Spread
<1>2. CASE ~Threads(t)
    BY <1>2, Alone DEF Payload, Spread
<1> QED
    BY <1>1, <1>2

\* s is p, or p with a World in it.
WithOneWorld(T, p, s) ==
  \/ s = p
  \/ \E a, b \in Seq(T) : \E w \in T : IsWorld(w) /\ p = a \o b /\ s = a \o (<<w>> \o b)

LEMMA OneWorldMore ==
    ASSUME NEW T, NEW p \in Seq(T), NEW s \in Seq(T), WithOneWorld(T, p, s),
           NEW t \in T, Threads(t) => t.args \in Seq(T)
    PROVE  /\ p \o Payload(t) \in Seq(T) /\ s \o Spread(t, s) \in Seq(T)
           /\ WithOneWorld(T, p \o Payload(t), s \o Spread(t, s))
<1> DEFINE met == \E i \in DOMAIN s : IsWorld(s[i])
           q == Payload(t)
<1>1. /\ q \in Seq(T)
      /\ met \/ ~Threads(t) => Spread(t, s) = q
      /\ Threads(t) => t.args[1] \in T /\ IsWorld(t.args[1])
      /\ Threads(t) /\ ~met => Spread(t, s) = <<t.args[1]>> \o q
    BY SpreadIs
<1>2. CASE s = p /\ (met \/ ~Threads(t))
    <2>1. Spread(t, s) = q /\ p \o q \in Seq(T)
        BY <1>1, <1>2, ConcatAgain, Zenon
    <2>2. s \o Spread(t, s) = p \o q
        BY <1>2, <2>1
    <2> QED
        BY <2>1, <2>2, Zenon DEF WithOneWorld
<1>3. CASE s = p /\ Threads(t) /\ ~met
    <2> DEFINE w == t.args[1]
    <2>1. w \in T /\ IsWorld(w) /\ Spread(t, s) = <<w>> \o q
        BY <1>1, <1>3
    <2> HIDE DEF q, w
    <2>2. <<w>> \in Seq(T)
        BY <2>1, Alone, Zenon
    <2>3. p \o q \in Seq(T) /\ <<w>> \o q \in Seq(T)
        BY <1>1, <2>2, ConcatAgain, Zenon
    <2>4. p \o (<<w>> \o q) \in Seq(T)
        BY <2>3, ConcatAgain, Zenon
    <2>5. s \o Spread(t, s) = p \o (<<w>> \o q)
        BY <1>3, <2>1, Zenon
    <2>6. \E a, b \in Seq(T) : \E v \in T :
            IsWorld(v) /\ p \o q = a \o b /\ p \o (<<w>> \o q) = a \o (<<v>> \o b)
        BY <1>1, <2>1, Zenon
    <2> QED
        BY <2>3, <2>4, <2>5, <2>6, Zenon DEF WithOneWorld, q
<1>4. ASSUME NEW a \in Seq(T), NEW b \in Seq(T), NEW w \in T, IsWorld(w),
             p = a \o b, s = a \o (<<w>> \o b)
      PROVE  /\ p \o q \in Seq(T) /\ s \o Spread(t, s) \in Seq(T)
             /\ WithOneWorld(T, p \o q, s \o Spread(t, s))
    <2>1. met
        <3>1. \E i \in DOMAIN (a \o (<<w>> \o b)) : IsWorld((a \o (<<w>> \o b))[i])
            <4>1. Len(a) + 1 \in DOMAIN (a \o (<<w>> \o b)) /\ (a \o (<<w>> \o b))[Len(a) + 1] = w
                BY ONLY a \in Seq(T), b \in Seq(T), w \in T, Between
            <4> QED
                BY <1>4, <4>1, Zenon
        <3> QED
            BY <1>4, <3>1, Zenon
    <2>2. Spread(t, s) = q
        BY <1>1, <2>1, Zenon
    <2> HIDE DEF q, met
    <2>3. <<w>> \in Seq(T)
        BY Alone, Zenon
    <2>4. <<w>> \o b \in Seq(T) /\ b \o q \in Seq(T)
        BY <1>1, <2>3, ConcatAgain, Zenon
    <2> DEFINE v == <<w>>
    <2> HIDE DEF v
    <2>v. v = <<w>>
        BY DEF v
    <2>q. q \in Seq(T) /\ v \in Seq(T)
        BY <1>1, <2>3, <2>v
    <2>5. (a \o b) \o q = a \o (b \o q) /\ a \o (b \o q) \in Seq(T)
        BY ONLY a \in Seq(T), b \in Seq(T), <2>q
    <2>6. (<<w>> \o b) \o q = <<w>> \o (b \o q) /\ <<w>> \o (b \o q) \in Seq(T)
        <3>1. (v \o b) \o q = v \o (b \o q) /\ v \o (b \o q) \in Seq(T)
            BY ONLY b \in Seq(T), <2>q
        <3> QED
            BY <2>v, <3>1, Zenon
    <2>7. /\ (a \o (<<w>> \o b)) \o q = a \o ((<<w>> \o b) \o q)
          /\ a \o (<<w>> \o (b \o q)) \in Seq(T)
        <3>1. /\ (a \o (v \o b)) \o q = a \o ((v \o b) \o q)
              /\ a \o (v \o (b \o q)) \in Seq(T)
            BY ONLY a \in Seq(T), b \in Seq(T), <2>q
        <3> QED
            BY <2>v, <3>1, Zenon
    <2>8. p \o q = a \o (b \o q)
        BY <1>4, <2>5, Zenon
    <2>9. s \o q = a \o (<<w>> \o (b \o q))
        BY <1>4, <2>6, <2>7, Zenon
    <2>10. WithOneWorld(T, p \o q, s \o q)
        BY <1>4, <2>4, <2>8, <2>9, Zenon DEF WithOneWorld
    <2> QED
        BY <2>2, <2>5, <2>7, <2>8, <2>9, <2>10, Zenon
<1> QED
    BY <1>2, <1>3, <1>4, Zenon DEF WithOneWorld

\* Sources that may be fanned in.
Spreadable(T, ts) == ts \in Seq(T) /\ \A i \in DOMAIN ts : Threads(ts[i]) => ts[i].args \in Seq(T)

\* A fan-in loses nothing and reorders nothing, whatever its sources mix: it has
\* the payloads of all sources, in order, and one World put between them at
\* most (flatten_world_tuple).
THEOREM FanInLosesNothing ==
    ASSUME NEW T, NEW ts, Spreadable(T, ts)
    PROVE  Payloads(ts) \in Seq(T) /\ WithOneWorld(T, Payloads(ts), Flatten(ts))
<1> DEFINE pays == [i \in DOMAIN ts |-> Payload(ts[i])]
           n == Len(ts)
<1>1. n \in Nat /\ DOMAIN ts = 1..n /\ \A i \in 1..n : ts[i] \in T
    BY ElementsOf DEF Spreadable
<1>2. Len(pays) = n
    BY <1>1
<1>f. PICK f : FlattenBy(f, ts)
    BY <1>1, FlattenFold
<1>3. /\ f[0] = <<>>
      /\ \A k \in 1..Len(ts) : f[k] = f[k - 1] \o Spread(ts[k], f[k - 1])
      /\ Flatten(ts) = f[Len(ts)]
    BY <1>f DEF FlattenBy
<1>j. PICK j : JoinedBy(j, pays)
    BY <1>1, <1>2, JoinedFold
<1>4. /\ j[0] = <<>>
      /\ \A k \in 1..Len(pays) : j[k] = j[k - 1] \o pays[k]
      /\ Joined(pays) = j[Len(pays)]
    BY <1>j DEF JoinedBy
<1> DEFINE P == {k \in 0..n : j[k] \in Seq(T) /\ f[k] \in Seq(T) /\ WithOneWorld(T, j[k], f[k])}
<1>5. 0 \in P
    <2>1. <<>> \in Seq(T) /\ 0 \in 0..n
        BY <1>1
    <2> QED
        BY <1>3, <1>4, <2>1 DEF WithOneWorld
<1>6. ASSUME NEW k \in 0..(n - 1), k \in P PROVE k + 1 \in P
    <2>1. k + 1 \in 1..n /\ k + 1 \in 0..n /\ (k + 1) - 1 = k
        BY <1>1
    <2>2. j[k] \in Seq(T) /\ f[k] \in Seq(T) /\ WithOneWorld(T, j[k], f[k])
        BY <1>6
    <2> DEFINE t == ts[k + 1]
    <2>3. t \in T /\ (Threads(t) => t.args \in Seq(T)) /\ pays[k + 1] = Payload(t)
        BY <1>1, <2>1 DEF Spreadable
    <2>4. j[k + 1] = j[k] \o Payload(t)
        BY <1>2, <1>4, <2>1, <2>3
    <2>5. f[k + 1] = f[k] \o Spread(t, f[k])
        BY <1>3, <2>1
    <2> HIDE DEF t
    <2>6. /\ j[k] \o Payload(t) \in Seq(T) /\ f[k] \o Spread(t, f[k]) \in Seq(T)
          /\ WithOneWorld(T, j[k] \o Payload(t), f[k] \o Spread(t, f[k]))
        BY <2>2, <2>3, OneWorldMore
    <2> QED
        BY <2>1, <2>4, <2>5, <2>6
<1>7. n \in P
    <2> HIDE DEF P, n
    <2>1. \A k \in 0..n : k \in P
        BY <1>1, <1>5, <1>6, InductUpTo
    <2>2. n \in 0..n
        BY <1>1
    <2> QED
        BY <2>1, <2>2
<1> QED
    BY <1>3, <1>4, <1>7 DEF Payloads

\* Sources that thread nothing are what they are together.
LEMMA FanInOfNone ==
    ASSUME NEW T, NEW ts \in Seq(T), \A i \in DOMAIN ts : ~Threads(ts[i])
    PROVE  Flatten(ts) = ts
<1> DEFINE n == Len(ts)
<1>1. n \in Nat /\ DOMAIN ts = 1..n /\ \A i \in 1..n : ts[i] \in T
    BY ElementsOf
<1>f. PICK f : FlattenBy(f, ts)
    BY <1>1, FlattenFold
<1>2. /\ f[0] = <<>>
      /\ \A k \in 1..Len(ts) : f[k] = f[k - 1] \o Spread(ts[k], f[k - 1])
      /\ Flatten(ts) = f[Len(ts)]
    BY <1>f DEF FlattenBy
<1> DEFINE P == {k \in 0..n : /\ f[k] \in Seq(T) /\ Len(f[k]) = k
                              /\ \A i \in 1..k : f[k][i] = ts[i]}
<1>3. 0 \in P
    <2>1. <<>> \in Seq(T) /\ Len(<<>>) = 0 /\ 0 \in 0..n /\ \A i \in 1..0 : FALSE
        BY <1>1
    <2> QED
        BY <1>2, <2>1
<1>4. ASSUME NEW k \in 0..(n - 1), k \in P PROVE k + 1 \in P
    <2>1. k + 1 \in 1..n /\ k + 1 \in 0..n /\ (k + 1) - 1 = k
        BY <1>1
    <2>2. f[k + 1] = f[k] \o <<ts[k + 1]>>
        BY <1>1, <1>2, <2>1 DEF Spread
    <2>3. f[k] \in Seq(T) /\ Len(f[k]) = k /\ \A i \in 1..k : f[k][i] = ts[i]
        BY <1>4
    <2>4. ASSUME NEW s \in Seq(T), NEW t \in T, Len(s) = k
          PROVE  /\ s \o <<t>> \in Seq(T) /\ Len(s \o <<t>>) = k + 1
                 /\ \A i \in 1..k : (s \o <<t>>)[i] = s[i]
                 /\ (s \o <<t>>)[k + 1] = t
        BY <2>4
    <2>5. ts[k + 1] \in T
        BY <1>1, <2>1
    <2>6. /\ f[k + 1] \in Seq(T) /\ Len(f[k + 1]) = k + 1
          /\ \A i \in 1..k : f[k + 1][i] = ts[i]
          /\ f[k + 1][k + 1] = ts[k + 1]
        <3>1. /\ f[k] \o <<ts[k + 1]>> \in Seq(T) /\ Len(f[k] \o <<ts[k + 1]>>) = k + 1
              /\ \A i \in 1..k : (f[k] \o <<ts[k + 1]>>)[i] = f[k][i]
              /\ (f[k] \o <<ts[k + 1]>>)[k + 1] = ts[k + 1]
            BY <2>3, <2>4, <2>5, Zenon
        <3> QED
            BY <2>2, <2>3, <3>1, Zenon
    <2>7. \A i \in 1..(k + 1) : i \in 1..k \/ i = k + 1
        OBVIOUS
    <2> QED
        BY <2>1, <2>6, <2>7
<1>5. n \in P
    <2> HIDE DEF P, n
    <2>1. \A k \in 0..n : k \in P
        BY <1>1, <1>3, <1>4, InductUpTo
    <2>2. n \in 0..n
        BY <1>1
    <2> QED
        BY <2>1, <2>2
<1>6. f[n] \in Seq(T) /\ Len(f[n]) = n /\ \A i \in 1..n : f[n][i] = ts[i]
    BY <1>5
<1>7. f[n] = ts
    <2> HIDE DEF n
    <2>1. ASSUME NEW s \in Seq(T), Len(s) = Len(ts), \A i \in 1..Len(ts) : s[i] = ts[i] PROVE s = ts
        BY <2>1
    <2> QED
        BY <1>6, <2>1 DEF n
<1> QED
    BY <1>2, <1>7

\* Sources that all thread one World offer it once, first.
LEMMA FanInOfWorlds ==
    ASSUME NEW T, NEW ts, Spreadable(T, ts), ts # <<>>,
           \A i \in DOMAIN ts : Threads(ts[i])
    PROVE  Flatten(ts) = <<ts[1].args[1]>> \o Joined([i \in DOMAIN ts |-> Tail(ts[i].args)])
<1> DEFINE tails == [i \in DOMAIN ts |-> Tail(ts[i].args)]
           n == Len(ts)
           w == ts[1].args[1]
<1>1. n \in Nat /\ DOMAIN ts = 1..n /\ \A i \in 1..n : ts[i] \in T
    BY ElementsOf DEF Spreadable
<1>2. Len(tails) = n /\ n >= 1
    <2>1. n # 0
        BY DEF Spreadable
    <2> QED
        BY <1>1, <2>1
<1>f. PICK f : FlattenBy(f, ts)
    BY <1>1, FlattenFold
<1>3. /\ f[0] = <<>>
      /\ \A k \in 1..Len(ts) : f[k] = f[k - 1] \o Spread(ts[k], f[k - 1])
      /\ Flatten(ts) = f[Len(ts)]
    BY <1>f DEF FlattenBy
<1>j. PICK j : JoinedBy(j, tails)
    BY <1>1, <1>2, JoinedFold
<1>4. /\ j[0] = <<>>
      /\ \A k \in 1..Len(tails) : j[k] = j[k - 1] \o tails[k]
      /\ Joined(tails) = j[Len(tails)]
    BY <1>j DEF JoinedBy
<1>5. \A i \in 1..n : /\ tails[i] = Payload(ts[i]) /\ Payload(ts[i]) \in Seq(T)
                      /\ ts[i].args[1] \in T /\ IsWorld(ts[i].args[1])
    <2> SUFFICES ASSUME NEW i \in 1..n
                 PROVE  /\ tails[i] = Payload(ts[i]) /\ Payload(ts[i]) \in Seq(T)
                        /\ ts[i].args[1] \in T /\ IsWorld(ts[i].args[1])
        OBVIOUS
    <2>1. ts[i] \in T /\ Threads(ts[i]) /\ ts[i].args \in Seq(T)
        BY <1>1 DEF Spreadable
    <2>2. <<>> \in Seq(T)
        OBVIOUS
    <2>3. Payload(ts[i]) \in Seq(T) /\ ts[i].args[1] \in T /\ IsWorld(ts[i].args[1])
        BY <2>1, <2>2, SpreadIs
    <2>4. tails[i] = Payload(ts[i])
        BY <1>1, <2>1 DEF Payload
    <2> QED
        BY <2>3, <2>4
<1>6. w \in T /\ IsWorld(w)
    BY <1>1, <1>2, <1>5
<1> DEFINE P == {k \in 0..n : j[k] \in Seq(T) /\ (k # 0 => f[k] = <<w>> \o j[k])}
<1>7. 0 \in P
    <2>1. <<>> \in Seq(T) /\ 0 \in 0..n
        BY <1>1
    <2> QED
        BY <1>4, <2>1
<1>8. ASSUME NEW k \in 0..(n - 1), k \in P PROVE k + 1 \in P
    <2>1. k + 1 \in 1..n /\ k + 1 \in 0..n /\ (k + 1) - 1 = k /\ k + 1 # 0
        BY <1>1
    <2>2. j[k] \in Seq(T) /\ (k # 0 => f[k] = <<w>> \o j[k])
        BY <1>8
    <2> DEFINE q == Payload(ts[k + 1])
    <2>3. /\ ts[k + 1] \in T /\ Threads(ts[k + 1]) /\ ts[k + 1].args \in Seq(T)
          /\ q \in Seq(T) /\ tails[k + 1] = q
        BY <1>1, <1>5, <2>1 DEF Spreadable
    <2>4. j[k + 1] = j[k] \o q /\ j[k + 1] \in Seq(T)
        <3>1. j[k + 1] = j[k] \o q
            BY <1>2, <1>4, <2>1, <2>3
        <3> HIDE DEF q
        <3>2. j[k] \o q \in Seq(T)
            BY <2>2, <2>3, ConcatAgain, Zenon
        <3> QED
            BY <3>1, <3>2
    <2>5. f[k + 1] = f[k] \o Spread(ts[k + 1], f[k])
        BY <1>3, <2>1
    <2>6. CASE k = 0
        <3>1. f[k] = <<>> /\ <<>> \in Seq(T) /\ j[k] = <<>> /\ ~\E i \in DOMAIN <<>> : IsWorld(<<>>[i])
            BY <1>3, <1>4, <2>6
        <3>2. ts[k + 1].args[1] = w
            BY <2>6
        <3>3. Spread(ts[k + 1], <<>>) = <<w>> \o q
            BY <2>3, <3>1, <3>2, SpreadIs
        <3>4. <<w>> \o q \in Seq(T)
            BY <1>6, <2>3, Alone, ConcatAgain
        <3>5. f[k + 1] = <<w>> \o q /\ j[k + 1] = q
            BY <2>3, <2>4, <2>5, <3>1, <3>3, <3>4, ConcatAgain
        <3> QED
            BY <2>1, <2>4, <3>5
    <2>7. CASE k # 0
        <3>1. f[k] = <<w>> \o j[k] /\ <<w>> \in Seq(T)
            BY <1>6, <2>2, <2>7, Alone
        <3>2. f[k] \in Seq(T) /\ \E i \in DOMAIN f[k] : IsWorld(f[k][i])
            <4>1. <<w>> \o j[k] \in Seq(T) /\ \E i \in DOMAIN (<<w>> \o j[k]) : IsWorld((<<w>> \o j[k])[i])
                <5> HIDE DEF w
                <5> QED
                    BY <1>6, <2>2, <3>1, FirstOf, ConcatAgain, Zenon
            <4> HIDE DEF w
            <4> QED
                BY <3>1, <4>1, Zenon
        <3>3. Spread(ts[k + 1], f[k]) = q
            BY <2>3, <3>2, SpreadIs
        <3>4. (<<w>> \o j[k]) \o q = <<w>> \o (j[k] \o q)
            <4>1. ASSUME NEW v \in Seq(T), NEW x \in Seq(T), NEW y \in Seq(T)
                  PROVE  (v \o x) \o y = v \o (x \o y)
                BY ConcatAssociates
            <4> HIDE DEF w, q
            <4> QED
                BY <2>2, <2>3, <3>1, <4>1, Zenon
        <3> QED
            BY <2>1, <2>4, <2>5, <3>1, <3>3, <3>4
    <2> QED
        BY <2>6, <2>7
<1>9. n \in P
    <2> HIDE DEF P, n
    <2>1. \A k \in 0..n : k \in P
        BY <1>1, <1>7, <1>8, InductUpTo
    <2>2. n \in 0..n
        BY <1>1
    <2> QED
        BY <2>1, <2>2
<1>10. n # 0 /\ f[n] = <<w>> \o j[n]
    BY <1>2, <1>9
<1> HIDE DEF w, tails, n
<1>11. Flatten(ts) = f[n] /\ Joined(tails) = j[n]
    BY <1>2, <1>3, <1>4 DEF n
<1>12. Flatten(ts) = <<w>> \o Joined(tails)
    BY <1>10, <1>11, Zenon
<1> QED
    BY <1>12 DEF w, tails


-----------------------------------------------------------------------------
(***************************************************************************)
(* The position of the check.                                              *)
(***************************************************************************)
Where ==
  /\ program \in Programs
  /\ d \in 1..Len(program.decls) + 1
  /\ verdict \in {"none", "accepted", "rejected", "overflow"}
  /\ d <= Len(program.decls) =>
       /\ pred \in 1..Len(Decl.preds) + 2
       /\ chain \in 1..Len(Decl.flow) + 1
       /\ chain <= Len(Decl.flow) => step \in 1..Len(Chain) + 1

LEMMA ListedPrograms ==
    ASSUME NEW p \in Programs
    PROVE  /\ DOMAIN p.decls = 1..Len(p.decls) /\ Len(p.decls) \in Nat
           /\ \A i \in DOMAIN p.decls :
                /\ Listed(p.decls[i].params) /\ Listed(p.decls[i].preds)
                /\ p.decls[i].flow \in Seq(Seq(Seq(STRING) \ {<<>>}))
BY CheckAssumption DEF CheckAssumption, Listed

\* The flow of a declaration, its chains, and their steps.
LEMMA FlowIs ==
    ASSUME NEW p \in Programs, NEW i \in DOMAIN p.decls
    PROVE  /\ Len(p.decls[i].preds) \in Nat
           /\ DOMAIN p.decls[i].preds = 1..Len(p.decls[i].preds)
           /\ Len(p.decls[i].flow) \in Nat
           /\ DOMAIN p.decls[i].flow = 1..Len(p.decls[i].flow)
           /\ \A c \in 1..Len(p.decls[i].flow) :
                /\ p.decls[i].flow[c] \in Seq(Seq(STRING) \ {<<>>})
                /\ Len(p.decls[i].flow[c]) \in Nat
                /\ DOMAIN p.decls[i].flow[c] = 1..Len(p.decls[i].flow[c])
                /\ \A k \in 1..Len(p.decls[i].flow[c]) :
                     /\ p.decls[i].flow[c][k] \in Seq(STRING)
                     /\ p.decls[i].flow[c][k] # <<>>
<1> DEFINE fl == p.decls[i].flow
           Steps == Seq(STRING) \ {<<>>}
<1>1. Listed(p.decls[i].preds) /\ fl \in Seq(Seq(Steps))
    BY ListedPrograms
<1>2. DOMAIN fl = 1..Len(fl) /\ Len(fl) \in Nat /\ \A c \in 1..Len(fl) : fl[c] \in Seq(Steps)
    <2> HIDE DEF fl, Steps
    <2> QED
        BY <1>1, ElementsOf
<1>3. ASSUME NEW c \in 1..Len(fl)
      PROVE  /\ DOMAIN fl[c] = 1..Len(fl[c]) /\ Len(fl[c]) \in Nat
             /\ \A k \in 1..Len(fl[c]) : fl[c][k] \in Steps
    <2>1. fl[c] \in Seq(Steps)
        BY <1>2
    <2> HIDE DEF fl, Steps
    <2> QED
        BY <2>1, ElementsOf
<1> QED
    BY <1>1, <1>2, <1>3 DEF Listed

LEMMA DeclIs ==
    ASSUME Where, d <= Len(program.decls)
    PROVE  d \in DOMAIN program.decls /\ d \in Nat
BY ListedPrograms DEF Where

LEMMA WhereInit == ASSUME Init PROVE Where
<1>1. Len(program.decls) \in Nat
    BY ListedPrograms DEF Init
<1>2. ASSUME d <= Len(program.decls)
      PROVE  /\ pred \in 1..Len(Decl.preds) + 2
             /\ chain \in 1..Len(Decl.flow) + 1
             /\ chain <= Len(Decl.flow) => step \in 1..Len(Chain) + 1
    <2>1. d \in DOMAIN program.decls
        BY <1>1, <1>2, ListedPrograms DEF Init
    <2>2. Len(Decl.preds) \in Nat /\ Len(Decl.flow) \in Nat
        BY <2>1, FlowIs DEF Init, Decl
    <2>3. ASSUME chain <= Len(Decl.flow) PROVE Len(Chain) \in Nat
        BY <2>1, <2>2, <2>3, FlowIs DEF Init, Decl, Chain
    <2> QED
        BY <2>2, <2>3 DEF Init
<1> QED
    BY <1>1, <1>2 DEF Where, Init

\* What a step does to the position.
AtFlow == FlowIn \/ FlowOut \/ FlowNode \/ FlowUnknown \/ FlowTuple

LEMMA FlowSteps ==
    ASSUME AtFlow
    PROVE  /\ AtStep /\ step' = step + 1
           /\ UNCHANGED <<program, d, pred, chain, outputs, verdict>>
<1>1. CASE FlowTuple
    <2>1. CASE Arrive(<<>>, FanIn(Sources(Names, Env).ts))
        BY <1>1, <2>1, Zenon DEF FlowTuple, Arrive
    <2>2. CASE Lose
        BY <1>1, <2>2, Zenon DEF FlowTuple, Lose
    <2> QED
        BY <1>1, <2>1, <2>2, Zenon DEF FlowTuple
<1>2. CASE FlowIn
    BY <1>2, Zenon DEF FlowIn, Arrive
<1>3. CASE FlowOut
    BY <1>3, Zenon DEF FlowOut, Arrive
<1>4. CASE FlowNode
    BY <1>4, Zenon DEF FlowNode, Arrive
<1>5. CASE FlowUnknown
    BY <1>5, Zenon DEF FlowUnknown, Lose
<1> QED
    BY <1>1, <1>2, <1>3, <1>4, <1>5, Zenon DEF AtFlow

LEMMA WhereNext == ASSUME Where, [Next]_vars PROVE Where'
<1>1. CASE UNCHANGED vars
    BY <1>1 DEF vars, Where, Decl, Chain
<1>2. ASSUME Checking
      PROVE  /\ Len(Decl.preds) \in Nat /\ Len(Decl.flow) \in Nat /\ d \in Nat
             /\ Len(program.decls) \in Nat /\ d \in DOMAIN program.decls
             /\ \A c \in 1..Len(Decl.flow) : Len(Decl.flow[c]) \in Nat
    <2>1. d \in DOMAIN program.decls /\ d \in Nat /\ program \in Programs
        BY <1>2, DeclIs DEF Checking, Where
    <2> QED
        BY <2>1, FlowIs, ListedPrograms, Zenon DEF Decl
<1>3. CASE CheckPredicate
    <2>1. pred' = pred + 1 /\ pred <= Len(Decl.preds) /\ Checking
        BY <1>3 DEF CheckPredicate, InPreds
    <2>2. UNCHANGED <<program, d, chain, step>> /\ verdict' \in {verdict, "overflow"}
        BY <1>3 DEF CheckPredicate
    <2> QED
        BY <1>2, <2>1, <2>2 DEF Where, Checking, Decl, Chain
<1>4. CASE CollectOutputs
    <2>1. pred' = pred + 1 /\ pred = Len(Decl.preds) + 1 /\ Checking
        BY <1>4 DEF CollectOutputs
    <2>2. UNCHANGED <<program, d, chain, step, verdict>>
        BY <1>4, Zenon DEF CollectOutputs
    <2> QED
        BY <1>2, <2>1, <2>2 DEF Where, Checking, Decl, Chain
<1>5. CASE AtFlow
    <2>1. AtStep /\ step' = step + 1 /\ UNCHANGED <<program, d, pred, chain, verdict>>
        BY <1>5, FlowSteps
    <2>2. Checking /\ chain <= Len(Decl.flow) /\ step <= Len(Chain)
        BY <2>1 DEF AtStep, InFlow
    <2>3. d <= Len(program.decls) /\ Decl' = Decl /\ Chain' = Chain
        BY <2>1, <2>2 DEF Checking, Decl, Chain
    <2>4. chain \in 1..Len(Decl.flow) /\ step \in 1..Len(Chain) + 1
        BY <1>2, <2>2, <2>3 DEF Where
    <2>5. Len(Chain) \in Nat
        BY <1>2, <2>2, <2>4 DEF Chain
    <2>6. step + 1 \in 1..Len(Chain) + 1
        BY <2>2, <2>4, <2>5
    <2> QED
        BY <2>1, <2>3, <2>6 DEF Where
<1>6. CASE NextChain
    <2>1. Checking /\ chain <= Len(Decl.flow) /\ chain' = chain + 1 /\ step' = 1
        BY <1>6 DEF NextChain, InFlow
    <2>2. UNCHANGED <<program, d, pred, verdict>>
        BY <1>6 DEF NextChain
    <2>3. d <= Len(program.decls) /\ Decl' = Decl
        BY <2>1, <2>2 DEF Checking, Decl
    <2>4. Len(Decl.flow) \in Nat /\ chain + 1 \in 1..Len(Decl.flow) + 1
        BY <1>2, <2>1, <2>3 DEF Where
    <2>5. chain + 1 <= Len(Decl.flow) => Len(Decl.flow[chain + 1]) \in Nat
        BY <1>2, <2>1, <2>4
    <2>6. Chain' = Decl.flow[chain + 1]
        BY <2>1, <2>3 DEF Chain
    <2>7. chain' <= Len(Decl.flow) => step' \in 1..Len(Chain') + 1
        BY <2>1, <2>5, <2>6
    <2> QED
        BY <2>1, <2>2, <2>3, <2>4, <2>7 DEF Where
<1>7. CASE NextDecl
    <2>1. Checking /\ d' = d + 1 /\ pred' = 1 /\ chain' = 1 /\ step' = 1
        BY <1>7 DEF NextDecl, InFlow
    <2>2. UNCHANGED <<program, verdict>>
        BY <1>7 DEF NextDecl
    <2>3. d' \in 1..Len(program.decls) + 1
        BY <1>2, <2>1 DEF Where, Checking
    <2>4. ASSUME d' <= Len(program.decls)
          PROVE  /\ Len(Decl'.preds) \in Nat /\ Len(Decl'.flow) \in Nat
                 /\ 1 <= Len(Decl'.flow) => Len(Decl'.flow[1]) \in Nat
        <3>1. d' \in DOMAIN program.decls /\ program \in Programs
            BY <2>3, <2>4, ListedPrograms DEF Where
        <3>2. Decl' = program.decls[d']
            BY <2>2 DEF Decl
        <3>3. Len(Decl'.flow) \in Nat /\ Len(Decl'.preds) \in Nat
            BY <3>1, <3>2, FlowIs, Zenon
        <3>4. 1 <= Len(Decl'.flow) => 1 \in 1..Len(Decl'.flow)
            BY <3>3
        <3> QED
            BY <3>1, <3>2, <3>3, <3>4, FlowIs, Zenon
    <2> QED
        BY <2>1, <2>2, <2>3, <2>4 DEF Where, Chain
<1>8. CASE Return
    BY <1>8 DEF Return, Where, Decl, Chain
<1> QED
    BY <1>1, <1>3, <1>4, <1>5, <1>6, <1>7, <1>8, Zenon DEF Next, AtFlow

-----------------------------------------------------------------------------
(***************************************************************************)
(* The check follows terms.  Scope[g] is the types whose variables are     *)
(* fresh ones drawn before g.  The hypotheses say of one call what         *)
(* Inference does: the theorems below say what the check makes of many.    *)
(***************************************************************************)
Gens == {g \in Nat : g >= FirstFresh}

\* Types grow with the variables drawn, and are built of types; a program
\* declares types without variables.
AreTerms(Scope) ==
  /\ \A g, h \in Gens : g <= h => Scope[g] \subseteq Scope[h]
  /\ \A g \in Gens : \A t \in Scope[g] : t.args \in Seq(Scope[g])
  /\ \A g \in Gens : \A ts \in Seq(Scope[g]) : Tuple(ts) \in Scope[g]
  /\ \A ts \in Seq(Scope[FirstFresh]), r \in Scope[FirstFresh] : Fun(ts, r) \in Scope[FirstFresh]
  /\ \A p \in Programs : \A i \in DOMAIN p.decls :
       /\ Ty(p, p.decls[i].ret) \in Scope[FirstFresh]
       /\ \A k \in DOMAIN p.decls[i].params : Ty(p, p.decls[i].params[k].ty) \in Scope[FirstFresh]

\* A substitution that binds variables drawn before g, and can be applied.
Fitting(Scope, s, g) ==
  /\ DOMAIN s \subseteq FirstFresh..(g - 1)
  /\ \A v \in DOMAIN s : s[v] \in Scope[g]
  /\ ~Loops(s)

\* The functions: schemes of functions with their arguments.
FunSchemes(Scope) ==
  {Mono(Fun(ts, r)) : ts \in Seq(Scope[FirstFresh]), r \in Scope[FirstFresh]}
    \cup {Primitives[n] : n \in DOMAIN Primitives}

\* Instances, types under a substitution, unification: of one call each.
FollowsTypes(Scope) ==
  /\ ~Loops(NoSubst)
  /\ \A g \in Gens, sch \in FunSchemes(Scope) :
       LET r == Instance(sch, g)
       IN  /\ r.g \in Gens /\ g <= r.g
           /\ r.ty \in Scope[r.g] /\ IsFun(r.ty) /\ r.ty.args # <<>>
  /\ \A g \in Gens : \A s : Fitting(Scope, s, g) =>
       /\ \A t \in Scope[g] : Applied(s, t) \in Scope[g]
       /\ \A a, b \in Scope[g] : Meet(s, a, b).ok => Fitting(Scope, Meet(s, a, b).s, g)

\* The inference of one predicate of a program, from any substitution that an
\* earlier one may have left: variables are drawn, and what is bound can be
\* applied, at any rate if the predicate is plain.
FollowsPredicates(Scope) ==
  \A p \in Programs : \A i \in DOMAIN p.decls : \A j \in DOMAIN p.decls[i].preds :
    \A g \in Gens : \A s : Fitting(Scope, s, g) =>
      LET e == p.decls[i].preds[j]
          r == Inferred(e, EnvOf(p, p.decls[i]), s, g)
      IN  /\ r.g \in Gens /\ g <= r.g
          /\ ~r.loops => Fitting(Scope, r.s, r.g)
          /\ IsPlain(e) => ~r.loops

FollowsTerms(Scope) == AreTerms(Scope) /\ FollowsTypes(Scope) /\ FollowsPredicates(Scope)

\* The inference of one plain predicate finds out if it has a type, whatever
\* substitution it begins with.
InferenceExact(Scope) ==
  \A p \in Programs : \A i \in DOMAIN p.decls : \A j \in DOMAIN p.decls[i].preds :
    \A g \in Gens : \A s :
      Fitting(Scope, s, g) /\ IsPlain(p.decls[i].preds[j]) =>
        (Inferred(p.decls[i].preds[j], EnvOf(p, p.decls[i]), s, g).ok
           <=> HasType(p.decls[i].preds[j], EnvOf(p, p.decls[i])))

LEMMA FittingLater ==
    ASSUME NEW Scope, AreTerms(Scope), NEW g \in Gens, NEW h \in Gens, g <= h,
           NEW s, Fitting(Scope, s, g)
    PROVE  Fitting(Scope, s, h)
<1>1. Scope[g] \subseteq Scope[h]
    BY DEF AreTerms
<1>2. FirstFresh..(g - 1) \subseteq FirstFresh..(h - 1)
    BY DEF Gens, FirstFresh
<1> QED
    BY <1>1, <1>2, Zenon DEF Fitting

LEMMA NoneFits ==
    ASSUME NEW Scope, FollowsTypes(Scope), NEW g \in Gens PROVE Fitting(Scope, NoSubst, g)
BY Zenon DEF FollowsTypes, Fitting, NoSubst

LEMMA FirstGen == FirstFresh \in Gens
BY DEF Gens, FirstFresh

\* What several are as one is a type.
LEMMA AsOneIs ==
    ASSUME NEW Scope, AreTerms(Scope), NEW g \in Gens, NEW ts \in Seq(Scope[g])
    PROVE  AsOne(ts) \in Scope[g]
<1>1. Tuple(ts) \in Scope[g]
    BY DEF AreTerms
<1>2. Len(ts) = 1 => ts[1] \in Scope[g]
    OBVIOUS
<1> QED
    BY <1>1, <1>2 DEF AsOne

\* The types of a program's interfaces.
LEMMA InterfaceIs ==
    ASSUME NEW Scope, AreTerms(Scope), NEW p \in Programs, NEW i \in DOMAIN p.decls
    PROVE  /\ InType(p, p.decls[i]) \in Scope[FirstFresh]
           /\ OutType(p, p.decls[i]) \in Scope[FirstFresh]
           /\ Signature(p, p.decls[i]) \in FunSchemes(Scope)
<1> DEFINE ps == p.decls[i].params
           tys == [k \in DOMAIN ps |-> Ty(p, ps[k].ty)]
           S == Scope[FirstFresh]
<1>1. Ty(p, p.decls[i].ret) \in S /\ \A k \in DOMAIN ps : Ty(p, ps[k].ty) \in S
    BY Zenon DEF AreTerms
<1>2. DOMAIN ps = 1..Len(ps) /\ Len(ps) \in Nat
    BY ListedPrograms DEF Listed
<1>3. tys \in Seq(S)
    <2> HIDE DEF ps, S
    <2> QED
        BY <1>1, <1>2
<1>4. AsOne(tys) \in S
    BY <1>3, AsOneIs, FirstGen
<1>5. Mono(Fun(tys, Ty(p, p.decls[i].ret))) \in FunSchemes(Scope)
    <2> HIDE DEF tys
    <2> QED
        BY <1>1, <1>3 DEF FunSchemes
<1> QED
    BY <1>1, <1>4, <1>5, Zenon DEF InType, OutType, Signature

\* What a flow can name, other than in and out, is a function.
LEMMA NamesAreFunctions ==
    ASSUME NEW Scope, AreTerms(Scope), NEW p \in Programs, NEW i \in DOMAIN p.decls,
           p.decls[i].flow # <<>>,
           NEW n \in DOMAIN EnvOf(p, p.decls[i]), n \notin {"in", "out"}
    PROVE  EnvOf(p, p.decls[i])[n] \in FunSchemes(Scope)
<1> DEFINE dcl == p.decls[i]
           globals == Shadowing(UserEnv(p), Primitives)
<1>1. EnvOf(p, dcl) = Shadowing(InOut(p, dcl), globals)
    BY Zenon DEF EnvOf
<1>2. DOMAIN InOut(p, dcl) = {"in", "out"}
    BY DEF InOut
<1>3. EnvOf(p, dcl)[n] = globals[n] /\ n \in DOMAIN globals
    <2> HIDE DEF globals, dcl
    <2>1. n \in DOMAIN EnvOf(p, dcl)
        BY DEF dcl
    <2> QED
        BY <1>1, <1>2, <2>1, Zenon DEF Shadowing
<1>4. CASE n \in DOMAIN UserEnv(p)
    <2>1. globals[n] = UserEnv(p)[n]
        BY <1>3, <1>4, Zenon DEF Shadowing
    <2> DEFINE last(k) == /\ p.decls[k].name = n
                          /\ \A m \in Nodes(p) : p.decls[m].name = n => m <= k
    <2>2. \E k \in Nodes(p) : last(k)
        <3> DEFINE Own == {k \in Nodes(p) : p.decls[k].name = n}
        <3>1. Own # {} 
            BY <1>4 DEF UserEnv
        <3>2. Own \subseteq 1..Len(p.decls) /\ Len(p.decls) \in Nat
            BY ListedPrograms DEF Nodes
        <3>3. \E k \in Own : \A m \in Own : m <= k
            <4> HIDE DEF Own
            <4> DEFINE L == Len(p.decls)
                       Back == {L - k : k \in Own}
            <4>1. Back \in SUBSET Nat /\ Back # {}
                <5>1. L \in Nat /\ \A k \in Own : k \in 1..L
                    BY <3>2
                <5> HIDE DEF L
                <5>2. \A k \in Own : L - k \in Nat
                    BY <5>1
                <5> QED
                    BY <3>1, <5>2
            <4>2. PICK b \in Back : \A c \in Back : b <= c
                BY <4>1, LeastNumber
            <4>3. PICK k \in Own : b = L - k
                BY <4>2
            <4>4. \A m \in Own : L - k <= L - m
                BY <4>2, <4>3
            <4>5. \A m \in Own : m <= k
                BY <3>2, <4>4
            <4> QED
                BY <4>5
        <3> QED
            BY <3>3
    <2>3. \E k \in Nodes(p) : UserEnv(p)[n] = Signature(p, p.decls[k])
        <3> DEFINE k == CHOOSE k \in Nodes(p) : last(k)
        <3>1. k \in Nodes(p)
            BY <2>2, Zenon
        <3>2. UserEnv(p)[n] = Signature(p, p.decls[k])
            BY <1>4, Zenon DEF UserEnv
        <3> QED
            BY <3>1, <3>2, Zenon
    <2> QED
        BY <1>3, <2>1, <2>3, InterfaceIs DEF Nodes
<1>5. CASE n \notin DOMAIN UserEnv(p)
    <2>1. globals[n] = Primitives[n] /\ n \in DOMAIN Primitives
        BY <1>3, <1>5, Zenon DEF Shadowing
    <2>2. Primitives[n] \in FunSchemes(Scope)
        BY <2>1 DEF FunSchemes
    <2> HIDE DEF globals
    <2> QED
        BY <1>3, <2>1, <2>2, Zenon
<1> QED
    BY <1>4, <1>5

\* An instance of what a flow names.
LEMMA InstanceIs ==
    ASSUME NEW Scope, AreTerms(Scope), FollowsTypes(Scope), NEW g \in Gens,
           NEW sch \in FunSchemes(Scope)
    PROVE  /\ Instance(sch, g).g \in Gens /\ g <= Instance(sch, g).g
           /\ Returns(Instance(sch, g).ty) \in Scope[Instance(sch, g).g]
           /\ AsOne(Params(Instance(sch, g).ty)) \in Scope[Instance(sch, g).g]
<1> DEFINE r == Instance(sch, g)
           S == Scope[r.g]
           args == r.ty.args
<1>1. r.g \in Gens /\ g <= r.g /\ r.ty \in S /\ args # <<>>
    BY Zenon DEF FollowsTypes
<1>2. args \in Seq(S)
    BY <1>1, Zenon DEF AreTerms
<1>3. args[Len(args)] \in S /\ SubSeq(args, 1, Len(args) - 1) \in Seq(S)
    <2> HIDE DEF args, S
    <2> QED
        BY <1>1, <1>2
<1>4. AsOne(SubSeq(args, 1, Len(args) - 1)) \in S
    <2> HIDE DEF args
    <2> QED
        BY <1>1, <1>3, AsOneIs, Zenon
<1> QED
    BY <1>1, <1>3, <1>4, Zenon DEF Returns, Params

-----------------------------------------------------------------------------
(* What the nodes of a flow offer, and the sources of a tuple step.        *)

LEMMA JoinedIs ==
    ASSUME NEW T, NEW seqs \in Seq(Seq(T)) PROVE Joined(seqs) \in Seq(T)
<1> DEFINE n == Len(seqs)
<1>1. n \in Nat /\ \A i \in 1..n : seqs[i] \in Seq(T)
    <2> DEFINE U == Seq(T)
    <2> HIDE DEF U
    <2>1. Len(seqs) \in Nat /\ \A i \in 1..Len(seqs) : seqs[i] \in U
        BY ElementsOf DEF U
    <2> QED
        BY <2>1 DEF U
<1>2. PICK j : JoinedBy(j, seqs)
    BY <1>1, JoinedFold
<1>3. j[0] = <<>> /\ (\A k \in 1..n : j[k] = j[k - 1] \o seqs[k]) /\ Joined(seqs) = j[n]
    BY <1>2 DEF JoinedBy
<1> DEFINE P == {k \in 0..n : j[k] \in Seq(T)}
<1>4. 0 \in P
    <2>1. <<>> \in Seq(T) /\ 0 \in 0..n
        BY <1>1
    <2> QED
        BY <1>3, <2>1
<1>5. ASSUME NEW k \in 0..(n - 1), k \in P PROVE k + 1 \in P
    <2>1. k + 1 \in 1..n /\ k + 1 \in 0..n /\ (k + 1) - 1 = k
        BY <1>1
    <2>2. j[k + 1] = j[k] \o seqs[k + 1]
        BY <1>3, <2>1
    <2>3. j[k] \in Seq(T) /\ seqs[k + 1] \in Seq(T)
        BY <1>1, <1>5, <2>1
    <2>4. j[k] \o seqs[k + 1] \in Seq(T)
        BY <2>3, ConcatAgain
    <2> QED
        BY <2>1, <2>2, <2>4
<1>6. n \in P
    <2> HIDE DEF P, n
    <2>1. \A k \in 0..n : k \in P
        BY <1>1, <1>4, <1>5, InductUpTo
    <2>2. n \in 0..n
        BY <1>1
    <2> QED
        BY <2>1, <2>2
<1> QED
    BY <1>3, <1>6

\* Outputs of known names, with variables drawn since g.
Offering(Scope, env, g, r) ==
  /\ r.g \in Gens /\ g <= r.g
  /\ DOMAIN r.out \subseteq DOMAIN env
  /\ \A n \in DOMAIN r.out : r.out[n] \in Scope[r.g]

LEMMA ScopeGrows ==
    ASSUME NEW Scope, AreTerms(Scope), NEW g \in Gens, NEW h \in Gens, g <= h,
           NEW t \in Scope[g]
    PROVE  t \in Scope[h]
BY Zenon DEF AreTerms

LEMMA OfferFits ==
    ASSUME NEW Scope, AreTerms(Scope), FollowsTypes(Scope),
           NEW p \in Programs, NEW i \in DOMAIN p.decls, p.decls[i].flow # <<>>,
           NEW g \in Gens, NEW r, Offering(Scope, EnvOf(p, p.decls[i]), g, r), NEW names
    PROVE  Offering(Scope, EnvOf(p, p.decls[i]), g, Offer(names, EnvOf(p, p.decls[i]), r))
<1> DEFINE env == EnvOf(p, p.decls[i])
           n == names[1]
           inst == Instance(env[n], r.g)
           out == Shadowing([m \in {n} |-> Returns(inst.ty)], r.out)
           q == Offer(names, env, r)
<1>1. CASE Len(names) # 1 \/ n \in {"in", "out"} \/ n \notin DOMAIN env
    BY <1>1, Zenon DEF Offer
<1>2. CASE ~(Len(names) # 1 \/ n \in {"in", "out"} \/ n \notin DOMAIN env)
    <2>1. q = [g |-> inst.g, out |-> out]
        BY <1>2, Zenon DEF Offer
    <2>2. q.g = inst.g /\ q.out = out
        <3> HIDE DEF q, inst, out
        <3> QED
            BY <2>1
    <2>3. env[n] \in FunSchemes(Scope)
        BY <1>2, NamesAreFunctions, Zenon
    <2>4. r.g \in Gens /\ g <= r.g
        BY Zenon DEF Offering
    <2>5. inst.g \in Gens /\ r.g <= inst.g /\ Returns(inst.ty) \in Scope[inst.g]
        BY <2>3, <2>4, InstanceIs, Zenon
    <2>6. DOMAIN out = {n} \cup DOMAIN r.out
        <3> HIDE DEF inst, n
        <3> QED
            BY Zenon DEF Shadowing
    <2>7. ASSUME NEW m \in DOMAIN out PROVE out[m] \in Scope[inst.g]
        <3>1. CASE m = n
            <4>1. out[m] = Returns(inst.ty)
                <5> HIDE DEF inst, n
                <5> QED
                    BY <3>1 DEF Shadowing
            <4> QED
                BY <2>5, <4>1, Zenon
        <3>2. CASE m # n
            <4>1. out[m] = r.out[m] /\ m \in DOMAIN r.out
                <5> HIDE DEF inst, n
                <5> QED
                    BY <2>6, <2>7, <3>2 DEF Shadowing
            <4>2. r.out[m] \in Scope[r.g]
                BY <4>1, Zenon DEF Offering
            <4>3. Scope[r.g] \subseteq Scope[inst.g]
                BY <2>4, <2>5, Zenon DEF AreTerms
            <4> QED
                BY <4>1, <4>2, <4>3, Zenon
        <3> QED
            BY <3>1, <3>2
    <2>8. DOMAIN out \subseteq DOMAIN env
        <3>1. DOMAIN r.out \subseteq DOMAIN env
            BY Zenon DEF Offering
        <3> HIDE DEF env, inst, out, n
        <3> QED
            BY <1>2, <2>6, <3>1, Zenon
    <2>9. g <= inst.g
        <3> HIDE DEF inst
        <3> QED
            BY <2>4, <2>5 DEF Gens
    <2> HIDE DEF q, inst, out, env
    <2>10. Offering(Scope, env, g, q)
        BY <2>2, <2>5, <2>7, <2>8, <2>9, Zenon DEF Offering
    <2> QED
        BY <2>10 DEF q, env
<1> QED
    BY <1>1, <1>2, Zenon

LEMMA OffersFit ==
    ASSUME NEW Scope, AreTerms(Scope), FollowsTypes(Scope),
           NEW p \in Programs, NEW i \in DOMAIN p.decls, gen \in Gens
    PROVE  Offering(Scope, EnvOf(p, p.decls[i]), gen,
                    Offers(Joined(p.decls[i].flow), EnvOf(p, p.decls[i])))
<1> DEFINE fl == p.decls[i].flow
           steps == Joined(fl)
           env == EnvOf(p, p.decls[i])
           n == Len(steps)
           Steps == Seq(STRING) \ {<<>>}
<1>1. fl \in Seq(Seq(Steps))
    BY ListedPrograms
<1>2. steps \in Seq(Steps)
    <2> HIDE DEF fl, Steps
    <2> QED
        BY <1>1, JoinedIs
<1>3. n \in Nat
    <2> HIDE DEF steps, Steps
    <2> QED
        BY <1>2
<1>4. fl = <<>> => n = 0
    <2>1. ASSUME fl = <<>> PROVE steps = <<>>
        <3>1. Len(fl) = 0
            BY <2>1
        <3>2. PICK j : JoinedBy(j, fl)
            <4> HIDE DEF fl
            <4> QED
                BY <3>1, JoinedFold
        <3> QED
            BY <3>1, <3>2 DEF JoinedBy
    <2> HIDE DEF steps, fl
    <2> QED
        BY <2>1
<1>5. PICK f : OffersBy(f, steps, env)
    <2> HIDE DEF steps, env
    <2> QED
        BY <1>3, OffersFold
<1>6. /\ f[0] = [g |-> gen, out |-> <<>>]
      /\ \A k \in 1..n : f[k] = Offer(steps[k], env, f[k - 1])
      /\ Offers(steps, env) = f[n]
    <2> HIDE DEF steps, env
    <2> QED
        BY <1>5 DEF OffersBy
<1> DEFINE P == {k \in 0..n : Offering(Scope, env, gen, f[k])}
<1>7. 0 \in P
    <2> HIDE DEF env, n
    <2>1. f[0].g = gen /\ f[0].out = <<>> /\ gen <= gen
        BY <1>6 DEF Gens
    <2>2. DOMAIN f[0].out = {}
        BY <2>1
    <2> QED
        BY <1>3, <2>1, <2>2 DEF Offering
<1>8. ASSUME NEW k \in 0..(n - 1), k \in P PROVE k + 1 \in P
    <2> HIDE DEF env, n, steps
    <2>1. k + 1 \in 1..n /\ k + 1 \in 0..n /\ (k + 1) - 1 = k /\ n # 0
        BY <1>3
    <2>2. f[k + 1] = Offer(steps[k + 1], env, f[k]) /\ fl # <<>>
        BY <1>4, <1>6, <2>1
    <2>3. Offering(Scope, env, gen, f[k])
        BY <1>8
    <2>4. Offering(Scope, env, gen, Offer(steps[k + 1], env, f[k]))
        BY <2>2, <2>3, OfferFits, Zenon DEF env
    <2> QED
        BY <2>1, <2>2, <2>4
<1>9. n \in P
    <2> HIDE DEF P, n
    <2>1. \A k \in 0..n : k \in P
        BY <1>3, <1>7, <1>8, InductUpTo
    <2>2. n \in 0..n
        BY <1>3
    <2> QED
        BY <2>1, <2>2
<1> QED
    <2> HIDE DEF env, steps, n
    <2>1. Offering(Scope, env, gen, Offers(steps, env))
        BY <1>6, <1>9, Zenon
    <2> QED
        BY <2>1 DEF env, steps

-----------------------------------------------------------------------------
(* Along the flow.                                                         *)

Fits(Scope) ==
  /\ gen \in Gens
  /\ Fitting(Scope, subst, gen)
  /\ \A n \in DOMAIN outputs : outputs[n] \in Scope[gen]
  /\ cur # <<>> => cur[1] \in Scope[gen]
  /\ PlainPredicates => verdict # "overflow"

\* The first k names of a tuple step offer types with variables drawn since g.
Sourcing(Scope, k, g, r) ==
  /\ r.g \in Gens /\ g <= r.g
  /\ r.ts \in Seq(Scope[r.g])
  /\ r.ok => Len(r.ts) = k

LEMMA SourceFits ==
    ASSUME NEW Scope, AreTerms(Scope), FollowsTypes(Scope), Where, Fits(Scope), AtStep,
           NEW k \in Nat, NEW r, Sourcing(Scope, k, gen, r), NEW n
    PROVE  Sourcing(Scope, k + 1, gen, Source(n, Env, r))
<1> DEFINE inst == Instance(Env[n], r.g)
           q == Source(n, Env, r)
<1>1. /\ program \in Programs /\ d \in DOMAIN program.decls /\ Decl.flow # <<>>
      /\ gen \in Gens /\ r.g \in Gens /\ gen <= r.g /\ r.ts \in Seq(Scope[r.g])
    <2>1. program \in Programs /\ d \in DOMAIN program.decls
        BY DeclIs DEF AtStep, InFlow, Checking, Where
    <2>2. chain \in 1..Len(Decl.flow)
        BY DEF AtStep, InFlow, Checking, Where
    <2>3. Decl.flow # <<>>
        BY <2>2
    <2> QED
        BY <2>1, <2>3, Zenon DEF Fits, Sourcing
<1>2. ASSUME NEW t, NEW h \in Gens, r.g <= h, t \in Scope[h], q = [ok |-> TRUE, g |-> h, ts |-> Append(r.ts, t)], r.ok
      PROVE  Sourcing(Scope, k + 1, gen, q)
    <2>1. q.ok = TRUE /\ q.g = h /\ q.ts = Append(r.ts, t)
        <3> HIDE DEF q
        <3> QED
            BY <1>2
    <2>2. gen <= h
        BY <1>1, <1>2 DEF Gens
    <2>3. Scope[r.g] \subseteq Scope[h]
        BY <1>1, <1>2, Zenon DEF AreTerms
    <2>4. r.ts \in Seq(Scope[h]) /\ Len(r.ts) = k
        BY <1>1, <1>2, <2>3 DEF Sourcing
    <2>5. Append(r.ts, t) \in Seq(Scope[h]) /\ Len(Append(r.ts, t)) = k + 1
        <3> DEFINE s == r.ts
        <3> HIDE DEF s
        <3>1. s \in Seq(Scope[h]) /\ Len(s) = k
            BY <2>4 DEF s
        <3>2. Append(s, t) \in Seq(Scope[h]) /\ Len(Append(s, t)) = k + 1
            BY <1>2, <3>1, Appended
        <3> QED
            BY <3>2 DEF s
    <2> HIDE DEF q
    <2> QED
        BY <1>2, <2>1, <2>2, <2>5 DEF Sourcing
<1>3. FirstFresh \in Gens /\ FirstFresh <= r.g /\ r.g <= r.g
    BY <1>1, FirstGen DEF Gens
<1>4. CASE ~r.ok
    <2>1. q = r
        BY <1>4, Zenon DEF Source
    <2>2. Sourcing(Scope, k + 1, gen, r)
        BY <1>1, <1>4, Zenon DEF Sourcing
    <2> HIDE DEF q
    <2>3. Sourcing(Scope, k + 1, gen, q)
        BY <2>1, <2>2, Zenon
    <2> QED
        BY <2>3 DEF q
<1>5. CASE r.ok /\ n = "in"
    <2>1. q = [ok |-> TRUE, g |-> r.g, ts |-> Append(r.ts, InType(program, Decl))]
        BY <1>5, Zenon DEF Source
    <2>2. InType(program, Decl) \in Scope[r.g]
        BY <1>1, <1>3, InterfaceIs, ScopeGrows, Zenon DEF Decl
    <2> QED
        BY <1>1, <1>2, <1>3, <1>5, <2>1, <2>2, Zenon
<1>6. CASE r.ok /\ n # "in" /\ n = "out"
    <2>1. q = [ok |-> TRUE, g |-> r.g, ts |-> Append(r.ts, OutType(program, Decl))]
        BY <1>6, Zenon DEF Source
    <2>2. OutType(program, Decl) \in Scope[r.g]
        BY <1>1, <1>3, InterfaceIs, ScopeGrows, Zenon DEF Decl
    <2> QED
        BY <1>1, <1>2, <1>3, <1>6, <2>1, <2>2, Zenon
<1>7. CASE r.ok /\ n # "in" /\ n # "out" /\ n \in DOMAIN outputs
    <2>1. q = [ok |-> TRUE, g |-> r.g, ts |-> Append(r.ts, outputs[n])]
        BY <1>7, Zenon DEF Source
    <2>2. outputs[n] \in Scope[r.g]
        <3>1. outputs[n] \in Scope[gen]
            BY <1>7, Zenon DEF Fits
        <3> QED
            BY <1>1, <3>1, ScopeGrows, Zenon
    <2> QED
        BY <1>1, <1>2, <1>3, <1>7, <2>1, <2>2, Zenon
<1>8. CASE r.ok /\ n # "in" /\ n # "out" /\ n \notin DOMAIN outputs /\ n \in DOMAIN Env
    <2>1. q = [ok |-> TRUE, g |-> inst.g, ts |-> Append(r.ts, Returns(inst.ty))]
        BY <1>8, Zenon DEF Source
    <2>2. Env[n] \in FunSchemes(Scope)
        BY <1>1, <1>8, NamesAreFunctions DEF Env, Decl
    <2>3. inst.g \in Gens /\ r.g <= inst.g /\ Returns(inst.ty) \in Scope[inst.g]
        BY <1>1, <2>2, InstanceIs, Zenon
    <2> QED
        BY <1>2, <1>8, <2>1, <2>3, Zenon
<1>9. CASE r.ok /\ n # "in" /\ n # "out" /\ n \notin DOMAIN outputs /\ n \notin DOMAIN Env
    <2>1. q = [ok |-> FALSE, g |-> r.g, ts |-> r.ts]
        BY <1>9, Zenon DEF Source
    <2>2. ~q.ok /\ q.g = r.g /\ q.ts = r.ts
        <3> HIDE DEF q
        <3> QED
            BY <2>1
    <2> HIDE DEF q
    <2>3. Sourcing(Scope, k + 1, gen, q)
        BY <1>1, <2>2, Zenon DEF Sourcing
    <2> QED
        BY <2>3 DEF q
<1> QED
    BY <1>4, <1>5, <1>6, <1>7, <1>8, <1>9, Zenon

LEMMA AtStepIs ==
    ASSUME Where, AtStep
    PROVE  /\ program \in Programs /\ d \in DOMAIN program.decls
           /\ chain \in DOMAIN Decl.flow /\ step \in DOMAIN Chain
           /\ Decl.flow # <<>> /\ Len(Names) \in Nat /\ Names # <<>> /\ Names \in Seq(STRING)
<1>1. program \in Programs /\ d \in DOMAIN program.decls
    BY DeclIs DEF AtStep, InFlow, Checking, Where
<1>2. chain \in 1..Len(Decl.flow) /\ step \in 1..(Len(Chain) + 1) /\ step <= Len(Chain)
    BY DEF AtStep, InFlow, Checking, Where
<1>3. Decl.flow # <<>>
    BY <1>2
<1>4. /\ DOMAIN Decl.flow = 1..Len(Decl.flow) /\ DOMAIN Chain = 1..Len(Chain) /\ Len(Chain) \in Nat
      /\ \A k \in 1..Len(Chain) : Chain[k] \in Seq(STRING) /\ Chain[k] # <<>>
    BY <1>1, <1>2, FlowIs, Zenon DEF Decl, Chain
<1>5. step \in 1..Len(Chain)
    BY <1>2, <1>4
<1>6. Names \in Seq(STRING) /\ Names # <<>>
    BY <1>4, <1>5 DEF Names
<1>7. Len(Names) \in Nat
    BY <1>6
<1> QED
    BY <1>1, <1>2, <1>3, <1>4, <1>5, <1>6, <1>7, Zenon

LEMMA SourcesFit ==
    ASSUME NEW Scope, AreTerms(Scope), FollowsTypes(Scope), Where, Fits(Scope), AtStep
    PROVE  Sourcing(Scope, Len(Names), gen, Sources(Names, Env))
<1> DEFINE n == Len(Names)
<1>1. n \in Nat
    BY AtStepIs
<1>2. PICK f : SourcesBy(f, Names, Env)
    BY <1>1, SourcesFold
<1>3. /\ f[0] = [ok |-> TRUE, g |-> gen, ts |-> <<>>]
      /\ \A k \in 1..n : f[k] = Source(Names[k], Env, f[k - 1])
      /\ Sources(Names, Env) = f[n]
    BY <1>2 DEF SourcesBy
<1> DEFINE P == {k \in 0..n : Sourcing(Scope, k, gen, f[k])}
<1> HIDE DEF n
<1>4. 0 \in P
    <2>1. f[0].g = gen /\ f[0].ts = <<>> /\ gen \in Gens /\ gen <= gen
        BY <1>3 DEF Gens, Fits
    <2>2. f[0].ts \in Seq(Scope[gen]) /\ Len(f[0].ts) = 0 /\ 0 \in 0..n
        BY <1>1, <2>1
    <2> QED
        BY <2>1, <2>2 DEF Sourcing
<1>5. ASSUME NEW k \in 0..(n - 1), k \in P PROVE k + 1 \in P
    <2>1. k + 1 \in 1..n /\ k + 1 \in 0..n /\ (k + 1) - 1 = k /\ k \in Nat
        BY <1>1
    <2>2. f[k + 1] = Source(Names[k + 1], Env, f[k])
        BY <1>3, <2>1
    <2>3. Sourcing(Scope, k, gen, f[k])
        BY <1>5
    <2>4. Sourcing(Scope, k + 1, gen, Source(Names[k + 1], Env, f[k]))
        BY <2>1, <2>3, SourceFits, Zenon
    <2> QED
        BY <2>1, <2>2, <2>4
<1>6. n \in P
    <2> HIDE DEF P
    <2>1. \A k \in 0..n : k \in P
        BY <1>1, <1>4, <1>5, InductUpTo
    <2>2. n \in 0..n
        BY <1>1
    <2> QED
        BY <2>1, <2>2
<1> QED
    BY <1>3, <1>6, Zenon DEF n

\* Sources that are types can be fanned in, to a type.
LEMMA FanInIs ==
    ASSUME NEW Scope, AreTerms(Scope), NEW g \in Gens, NEW ts \in Seq(Scope[g])
    PROVE  Spreadable(Scope[g], ts) /\ FanIn(ts) \in Scope[g]
<1> DEFINE S == Scope[g]
<1>1. \A i \in DOMAIN ts : ts[i] \in S
    BY ElementsOf
<1>2. \A t \in S : t.args \in Seq(S)
    BY Zenon DEF AreTerms
<1>3. Spreadable(S, ts)
    BY <1>1, <1>2, Zenon DEF Spreadable
<1>4. Payloads(ts) \in Seq(S) /\ WithOneWorld(S, Payloads(ts), Flatten(ts))
    BY <1>3, FanInLosesNothing
<1>5. Flatten(ts) \in Seq(S)
    <2>1. CASE Flatten(ts) = Payloads(ts)
        BY <1>4, <2>1
    <2>2. ASSUME NEW a \in Seq(S), NEW b \in Seq(S), NEW w \in S, Flatten(ts) = a \o (<<w>> \o b)
          PROVE  Flatten(ts) \in Seq(S)
        <3> HIDE DEF S
        <3>1. a \o (<<w>> \o b) \in Seq(S)
            OBVIOUS
        <3> QED
            BY <2>2, <3>1, Zenon
    <2> HIDE DEF S
    <2> QED
        BY <1>4, <2>1, <2>2, Zenon DEF WithOneWorld
<1> QED
    BY <1>3, <1>5, AsOneIs, Zenon DEF FanIn

LEMMA ArriveFits ==
    ASSUME NEW Scope, AreTerms(Scope), FollowsTypes(Scope), Fits(Scope),
           NEW g \in Gens, gen <= g, NEW want, want # <<>> => want[1] \in Scope[g],
           NEW out \in Scope[g], Arrive(want, out), gen' = g
    PROVE  Fits(Scope)'
<1>1. gen \in Gens /\ Scope[gen] \subseteq Scope[g]
    BY Zenon DEF Fits, AreTerms
<1>2. Fitting(Scope, subst, g)
    BY <1>1, FittingLater, Zenon DEF Fits
<1>3. Fitting(Scope, subst', g)
    <2> DEFINE u == Meet(subst, cur[1], want[1])
    <2>1. CASE cur # <<>> /\ want # <<>> /\ u.ok
        <3>1. subst' = u.s
            BY <2>1, Zenon DEF Arrive
        <3>2. cur[1] \in Scope[g] /\ want[1] \in Scope[g]
            BY <1>1, <2>1, Zenon DEF Fits
        <3>3. Fitting(Scope, u.s, g)
            BY <1>2, <2>1, <3>2, Zenon DEF FollowsTypes
        <3> HIDE DEF u
        <3> QED
            BY <3>1, <3>3, Zenon
    <2>2. CASE ~(cur # <<>> /\ want # <<>> /\ u.ok)
        <3>1. subst' = subst
            BY <2>2, Zenon DEF Arrive
        <3> QED
            BY <1>2, <3>1, Zenon
    <2> QED
        BY <2>1, <2>2, Zenon
<1>4. cur' = <<Applied(subst', out)>> /\ UNCHANGED <<program, outputs, verdict>>
    BY Zenon DEF Arrive
<1>5. Applied(subst', out) \in Scope[g]
    BY <1>3, Zenon DEF FollowsTypes
<1>6. cur'[1] \in Scope[g]
    BY <1>4, <1>5
<1>7. \A n \in DOMAIN outputs' : outputs'[n] \in Scope[g]
    BY <1>1, <1>4, Zenon DEF Fits
<1>8. PlainPredicates' => verdict' # "overflow"
    BY <1>4, Zenon DEF Fits, PlainPredicates
<1> QED
    BY <1>3, <1>6, <1>7, <1>8, Zenon DEF Fits

LEMMA LoseFits ==
    ASSUME NEW Scope, AreTerms(Scope), Fits(Scope), NEW g \in Gens, gen <= g, Lose, gen' = g
    PROVE  Fits(Scope)'
<1>1. gen \in Gens /\ Scope[gen] \subseteq Scope[g]
    BY Zenon DEF Fits, AreTerms
<1>2. Fitting(Scope, subst, g)
    BY <1>1, FittingLater, Zenon DEF Fits
<1>3. cur' = <<>> /\ UNCHANGED <<program, subst, outputs, verdict>>
    BY Zenon DEF Lose
<1>4. PlainPredicates' => verdict' # "overflow"
    BY <1>3, Zenon DEF Fits, PlainPredicates
<1> QED
    BY <1>1, <1>2, <1>3, <1>4, Zenon DEF Fits

LEMMA FitsInit ==
    ASSUME NEW Scope, FollowsTypes(Scope), Init PROVE Fits(Scope)
<1>1. DOMAIN outputs = {} /\ gen = FirstFresh /\ subst = NoSubst /\ cur = <<>> /\ verdict = "none"
    BY DEF Init
<1>2. Fitting(Scope, NoSubst, FirstFresh) /\ FirstFresh \in Gens
    BY NoneFits, FirstGen, Zenon
<1>3. verdict # "overflow"
    BY <1>1
<1> QED
    BY <1>1, <1>2, <1>3, Zenon DEF Fits

LEMMA FitsNext ==
    ASSUME NEW Scope, FollowsTerms(Scope), Where, Fits(Scope), [Next]_vars
    PROVE  Fits(Scope)'
<1> USE DEF FollowsTerms
<1>1. CASE UNCHANGED vars
    BY <1>1 DEF vars, Fits, PlainPredicates
<1>2. CASE CheckPredicate
    <2>1. PICK r : /\ r = Inferred(Decl.preds[pred], Env, subst, gen)
                   /\ gen' = r.g
                   /\ IF r.loops THEN verdict' = "overflow" /\ UNCHANGED <<subst, errs>>
                      ELSE subst' = r.s /\ UNCHANGED verdict
                   /\ UNCHANGED <<program, outputs, cur>>
        BY <1>2, Zenon DEF CheckPredicate
    <2>2. program \in Programs /\ d \in DOMAIN program.decls /\ pred \in DOMAIN Decl.preds
        <3>1. Checking /\ pred <= Len(Decl.preds)
            BY <1>2 DEF CheckPredicate, InPreds
        <3>2. program \in Programs /\ d \in DOMAIN program.decls /\ pred \in 1..(Len(Decl.preds) + 2)
            BY <3>1, DeclIs DEF Checking, Where
        <3>3. Len(Decl.preds) \in Nat /\ DOMAIN Decl.preds = 1..Len(Decl.preds)
            BY <3>2, FlowIs, Zenon DEF Decl
        <3> QED
            BY <3>1, <3>2, <3>3
    <2>3. /\ r.g \in Gens /\ gen <= r.g
          /\ ~r.loops => Fitting(Scope, r.s, r.g)
          /\ IsPlain(Decl.preds[pred]) => ~r.loops
        BY <2>1, <2>2, Zenon DEF FollowsPredicates, Fits, Env, Decl
    <2>4. gen \in Gens /\ Scope[gen] \subseteq Scope[r.g] /\ Fitting(Scope, subst, r.g)
        <3>1. gen \in Gens /\ Scope[gen] \subseteq Scope[r.g]
            BY <2>3, Zenon DEF Fits, AreTerms
        <3> QED
            BY <2>3, <3>1, FittingLater, Zenon DEF Fits
    <2>5. Fitting(Scope, subst', r.g)
        BY <2>1, <2>3, <2>4, Zenon
    <2>6. PlainPredicates' => verdict' # "overflow"
        <3>1. PlainPredicates' => PlainPredicates
            BY <2>1, Zenon DEF PlainPredicates
        <3>2. PlainPredicates => IsPlain(Decl.preds[pred])
            BY <2>2, Zenon DEF PlainPredicates, Decl
        <3>3. PlainPredicates => verdict # "overflow"
            BY DEF Fits
        <3> QED
            BY <2>1, <2>3, <3>1, <3>2, <3>3, Zenon
    <2> QED
        BY <2>1, <2>3, <2>4, <2>5, <2>6, Zenon DEF Fits
<1>3. CASE CollectOutputs
    <2> DEFINE r == Offers(Joined(Decl.flow), Env)
    <2>1. gen' = r.g /\ outputs' = r.out /\ UNCHANGED <<program, subst, cur, verdict>>
        BY <1>3, Zenon DEF CollectOutputs
    <2>2. program \in Programs /\ d \in DOMAIN program.decls
        BY <1>3, DeclIs DEF CollectOutputs, Checking, Where
    <2>3. Offering(Scope, Env, gen, r)
        BY <2>2, OffersFit, Zenon DEF Fits, Env, Decl
    <2> HIDE DEF r
    <2>4. gen \in Gens /\ r.g \in Gens /\ gen <= r.g /\ Scope[gen] \subseteq Scope[r.g]
        BY <2>3, Zenon DEF Offering, Fits, AreTerms
    <2>5. Fitting(Scope, subst, r.g)
        BY <2>4, FittingLater, Zenon DEF Fits
    <2>6. PlainPredicates' => verdict' # "overflow"
        BY <2>1, Zenon DEF Fits, PlainPredicates
    <2> QED
        BY <2>1, <2>3, <2>4, <2>5, <2>6, Zenon DEF Fits, Offering
<1>4. ASSUME AtStep
      PROVE  /\ gen \in Gens /\ gen <= gen /\ FirstFresh \in Gens /\ FirstFresh <= gen
             /\ InType(program, Decl) \in Scope[gen] /\ OutType(program, Decl) \in Scope[gen]
    <2>1. gen \in Gens /\ gen <= gen /\ FirstFresh \in Gens /\ FirstFresh <= gen
        BY FirstGen DEF Fits, Gens
    <2>2. InType(program, Decl) \in Scope[FirstFresh] /\ OutType(program, Decl) \in Scope[FirstFresh]
        BY <1>4, AtStepIs, InterfaceIs, Zenon DEF Decl
    <2> QED
        BY <2>1, <2>2, ScopeGrows, Zenon
<1>5. CASE FlowIn
    <2>1. AtStep /\ Arrive(<<>>, InType(program, Decl)) /\ gen' = gen
        BY <1>5, Zenon DEF FlowIn
    <2>2. ASSUME NEW t \in Scope[gen], Arrive(<<>>, t) PROVE Fits(Scope)'
        BY <1>4, <2>1, <2>2, ArriveFits, Zenon
    <2> QED
        BY <1>4, <2>1, <2>2, Zenon
<1>6. CASE FlowOut
    <2>1. AtStep /\ Arrive(<<OutType(program, Decl)>>, OutType(program, Decl)) /\ gen' = gen
        BY <1>6, Zenon DEF FlowOut
    <2>2. ASSUME NEW t \in Scope[gen], Arrive(<<t>>, t) PROVE Fits(Scope)'
        <3>1. <<t>>[1] = t
            OBVIOUS
        <3> QED
            BY <1>4, <2>1, <2>2, <3>1, ArriveFits, Zenon
    <2> QED
        BY <1>4, <2>1, <2>2, Zenon
<1>7. CASE FlowNode
    <2> DEFINE inst == Instance(Env[Names[1]], gen)
               want == AsOne(Params(inst.ty))
    <2>1. /\ AtStep /\ Names[1] \notin {"in", "out"} /\ Names[1] \in DOMAIN Env
          /\ Arrive(<<want>>, Returns(inst.ty)) /\ gen' = inst.g
        BY <1>7, Zenon DEF FlowNode
    <2>2. Env[Names[1]] \in FunSchemes(Scope)
        BY <2>1, AtStepIs, NamesAreFunctions DEF Env, Decl
    <2>3. inst.g \in Gens /\ gen <= inst.g /\ want \in Scope[inst.g] /\ Returns(inst.ty) \in Scope[inst.g]
        BY <1>4, <2>1, <2>2, InstanceIs, Zenon
    <2> HIDE DEF want, inst
    <2>4. <<want>>[1] = want
        OBVIOUS
    <2> QED
        BY <2>1, <2>3, <2>4, ArriveFits, Zenon
<1>8. CASE FlowUnknown
    BY <1>4, <1>8, LoseFits, Zenon DEF FlowUnknown
<1>9. CASE FlowTuple
    <2> DEFINE r == Sources(Names, Env)
    <2>1. AtStep /\ gen' = r.g /\ IF r.ok THEN Arrive(<<>>, FanIn(r.ts)) ELSE Lose
        BY <1>9, Zenon DEF FlowTuple
    <2>2. Sourcing(Scope, Len(Names), gen, r)
        BY <2>1, SourcesFit, Zenon
    <2> HIDE DEF r
    <2>3. r.g \in Gens /\ gen <= r.g /\ r.ts \in Seq(Scope[r.g])
        BY <2>2, Zenon DEF Sourcing
    <2>4. FanIn(r.ts) \in Scope[r.g]
        BY <2>3, FanInIs, Zenon
    <2>5. CASE r.ok
        BY <2>1, <2>3, <2>4, <2>5, ArriveFits, Zenon
    <2>6. CASE ~r.ok
        BY <2>1, <2>3, <2>6, LoseFits, Zenon
    <2> QED
        BY <2>5, <2>6
<1>10. CASE NextChain
    <2>1. cur' = <<>> /\ UNCHANGED <<program, subst, gen, outputs, verdict>>
        BY <1>10, Zenon DEF NextChain
    <2> QED
        BY <2>1, Zenon DEF Fits, PlainPredicates
<1>11. CASE NextDecl
    <2>1. cur' = <<>> /\ gen' = FirstFresh /\ subst' = NoSubst /\ outputs' = <<>> /\ UNCHANGED <<program, verdict>>
        BY <1>11, Zenon DEF NextDecl
    <2>2. Fitting(Scope, NoSubst, FirstFresh) /\ FirstFresh \in Gens
        BY NoneFits, FirstGen, Zenon
    <2>3. DOMAIN outputs' = {}
        BY <2>1
    <2> QED
        BY <2>1, <2>2, <2>3, Zenon DEF Fits, PlainPredicates
<1>12. CASE Return
    <2>1. verdict' \in {"accepted", "rejected"} /\ UNCHANGED <<program, subst, gen, outputs, cur>>
        BY <1>12 DEF Return
    <2>2. verdict' # "overflow"
        BY <2>1
    <2> QED
        BY <2>1, <2>2, Zenon DEF Fits
<1> QED
    BY <1>1, <1>2, <1>3, <1>5, <1>6, <1>7, <1>8, <1>9, <1>10, <1>11, <1>12, Zenon DEF Next

-----------------------------------------------------------------------------
(***************************************************************************)
(* What the check guarantees, following terms.                             *)
(***************************************************************************)

\* The positions stay within the program, whatever follows terms.
THEOREM PositionsHold == Spec => []Where
<1>1. Init => Where
    BY WhereInit
<1>2. Where /\ [Next]_vars => Where'
    BY WhereNext
<1> QED
    BY <1>1, <1>2, PTL DEF Spec

LEMMA FitsAlways == ASSUME NEW Scope, FollowsTerms(Scope) PROVE Spec => [](Where /\ Fits(Scope))
<1>1. Init => Where /\ Fits(Scope)
    BY WhereInit, FitsInit DEF FollowsTerms
<1>2. (Where /\ Fits(Scope)) /\ [Next]_vars => (Where /\ Fits(Scope))'
    BY WhereNext, FitsNext
<1> QED
    BY <1>1, <1>2, PTL DEF Spec

\* The variables keep their types: positions within the program, and nothing
\* bound that was not drawn.
THEOREM TypesHold == ASSUME NEW Scope, FollowsTerms(Scope) PROVE Spec => []TypeOK
<1>1. Where /\ Fits(Scope) => TypeOK
    BY DEF Where, Fits, TypeOK, Fitting, Gens
<1> QED
    BY <1>1, FitsAlways, PTL

\* No variable ever stands for a type it occurs in: what one predicate or one
\* step of the flow binds, the next ones can apply (type_check threads one
\* substitution through them all).
THEOREM SubstitutionsDoEnd ==
    ASSUME NEW Scope, FollowsTerms(Scope) PROVE Spec => []SubstitutionsEnd
<1>1. Where /\ Fits(Scope) => SubstitutionsEnd
    BY DEF Fits, SubstitutionsEnd, Fitting
<1> QED
    BY <1>1, FitsAlways, PTL

\* A fan-in of values that thread one World offers that World once, first, and
\* every payload in order; one of values that thread none offers them as they
\* are (flatten_world_tuple), at any step of any flow.
THEOREM FanInKeeps ==
    ASSUME NEW Scope, FollowsTerms(Scope) PROVE Spec => []FanInKeepsEverySource
<1>1. ASSUME Where, Fits(Scope) PROVE FanInKeepsEverySource
    <2> SUFFICES ASSUME AtStep, Len(Names) > 1, TupleSources.ok
                 PROVE  LET ts == TupleSources.ts
                            payloads == Joined([i \in DOMAIN ts |-> Tail(ts[i].args)])
                        IN  /\ (/\ \A i \in DOMAIN ts : Threads(ts[i])
                                /\ \A i \in DOMAIN ts : ts[i].args[1] = ts[1].args[1])
                               => FanIn(ts) = AsOne(<<ts[1].args[1]>> \o payloads)
                            /\ (\A i \in DOMAIN ts : ~Threads(ts[i])) => FanIn(ts) = Tuple(ts)
        BY DEF FanInKeepsEverySource
    <2> DEFINE r == TupleSources
               ts == r.ts
               S == Scope[r.g]
               payloads == Joined([i \in DOMAIN ts |-> Tail(ts[i].args)])
    <2>1. Sourcing(Scope, Len(Names), gen, r)
        BY <1>1, SourcesFit, Zenon DEF TupleSources, FollowsTerms
    <2>2. r.g \in Gens /\ ts \in Seq(S) /\ Len(ts) = Len(Names)
        BY <2>1, Zenon DEF Sourcing
    <2>3. Spreadable(S, ts)
        BY <2>2, FanInIs, Zenon DEF FollowsTerms
    <2> HIDE DEF r
    <2>4. ts # <<>> /\ Len(ts) # 1
        <3>1. Len(ts) > 1
            BY <2>2
        <3>2. ASSUME NEW s, s = <<>> PROVE Len(s) = 0
            BY <3>2
        <3>3. ts = <<>> => Len(ts) = 0
            BY <3>2, Zenon
        <3>4. ASSUME NEW k, k > 1 PROVE k # 0 /\ k # 1
            BY <3>4
        <3> QED
            BY <3>1, <3>3, <3>4, Zenon
    <2>5. ASSUME \A i \in DOMAIN ts : Threads(ts[i])
          PROVE  FanIn(ts) = AsOne(<<ts[1].args[1]>> \o payloads)
        <3>1. Flatten(ts) = <<ts[1].args[1]>> \o payloads
            BY <2>3, <2>4, <2>5, FanInOfWorlds, Zenon
        <3> QED
            BY <3>1, Zenon DEF FanIn
    <2>6. ASSUME \A i \in DOMAIN ts : ~Threads(ts[i]) PROVE FanIn(ts) = Tuple(ts)
        <3>1. Flatten(ts) = ts
            BY <2>2, <2>6, FanInOfNone, Zenon
        <3> QED
            BY <2>4, <3>1, Zenon DEF FanIn, AsOne
    <2> QED
        BY <2>5, <2>6 DEF r
<1>2. Where /\ Fits(Scope) => FanInKeepsEverySource
    BY <1>1
<1> QED
    BY <1>2, FitsAlways, PTL

-----------------------------------------------------------------------------
(* The predicates in error.                                                *)

\* The predicates that have been checked.
Done(i, j) == i < d \/ (i = d /\ j < pred)

\* Their errors are the ones without a type, and there are no others.
ErrorsSoFar ==
  PlainPredicates =>
    \A i \in DOMAIN program.decls : \A j \in DOMAIN program.decls[i].preds :
      <<i, "pred", j>> \in errs <=>
        Done(i, j) /\ ~HasType(program.decls[i].preds[j], EnvOf(program, program.decls[i]))

\* A check that has returned is through.
Through == verdict \in {"accepted", "rejected"} => d > Len(program.decls)

LEMMA ErrorsInit == ASSUME Init PROVE ErrorsSoFar /\ Through
<1>1. \A i \in DOMAIN program.decls : \A j \in DOMAIN program.decls[i].preds : ~Done(i, j)
    <2> SUFFICES ASSUME NEW i \in DOMAIN program.decls, NEW j \in DOMAIN program.decls[i].preds
                 PROVE  ~Done(i, j)
        OBVIOUS
    <2>1. program \in Programs /\ d = 1 /\ pred = 1
        BY DEF Init
    <2>2. i \in 1..Len(program.decls) /\ j \in 1..Len(program.decls[i].preds)
        BY <2>1, ListedPrograms, FlowIs, Zenon
    <2>3. Len(program.decls) \in Nat /\ Len(program.decls[i].preds) \in Nat
        BY <2>1, ListedPrograms, FlowIs, Zenon
    <2> QED
        BY <2>1, <2>2, <2>3 DEF Done
<1>2. errs = {} /\ verdict = "none"
    BY DEF Init
<1> QED
    BY <1>1, <1>2 DEF ErrorsSoFar, Through

\* A step that records no predicate and passes none keeps them.
LEMMA ErrorsKept ==
    ASSUME ErrorsSoFar, program' = program,
           \A i \in DOMAIN program.decls : \A j \in DOMAIN program.decls[i].preds :
             /\ <<i, "pred", j>> \in errs' <=> <<i, "pred", j>> \in errs
             /\ Done(i, j)' <=> Done(i, j)
    PROVE  ErrorsSoFar'
<1>1. PlainPredicates' => PlainPredicates
    BY Zenon DEF PlainPredicates
<1>2. ASSUME PlainPredicates', NEW i \in DOMAIN program.decls, NEW j \in DOMAIN program.decls[i].preds
      PROVE  <<i, "pred", j>> \in errs' <=>
               Done(i, j)' /\ ~HasType(program.decls[i].preds[j], EnvOf(program, program.decls[i]))
    BY <1>1, <1>2, Zenon DEF ErrorsSoFar
<1> QED
    BY <1>2, Zenon DEF ErrorsSoFar

\* A place in the flow is no predicate.
LEMMA PlacesApart ==
    ASSUME NEW i, NEW j, NEW a, NEW b, NEW c PROVE <<i, "pred", j>> # <<a, "flow", b, c>>
OBVIOUS

LEMMA FlowErrors ==
    ASSUME AtFlow, NEW i, NEW j
    PROVE  <<i, "pred", j>> \in errs' <=> <<i, "pred", j>> \in errs
<1>1. errs' = errs \/ errs' = errs \cup {<<d, "flow", chain, step>>}
    BY Zenon DEF AtFlow, FlowIn, FlowOut, FlowNode, FlowUnknown, FlowTuple, Arrive, Lose
<1> QED
    BY <1>1, PlacesApart, Zenon

LEMMA ErrorsNext ==
    ASSUME NEW Scope, FollowsTerms(Scope), InferenceExact(Scope), Where, Fits(Scope),
           ErrorsSoFar, [Next]_vars
    PROVE  ErrorsSoFar'
<1>1. program \in Programs /\ d \in Nat /\ Len(program.decls) \in Nat /\ DOMAIN program.decls = 1..Len(program.decls)
    BY ListedPrograms DEF Where
<1>2. \A i \in DOMAIN program.decls :
        /\ Len(program.decls[i].preds) \in Nat
        /\ DOMAIN program.decls[i].preds = 1..Len(program.decls[i].preds)
    BY <1>1, FlowIs, Zenon
<1>3. CASE UNCHANGED vars
    <2>1. UNCHANGED <<program, d, pred, errs>>
        BY <1>3 DEF vars
    <2> QED
        BY <2>1, ErrorsKept, Zenon DEF Done
<1>4. CASE CheckPredicate
    <2>1. PICK r : /\ r = Inferred(Decl.preds[pred], Env, subst, gen)
                   /\ ~r.loops => errs' = IF r.ok THEN errs ELSE errs \cup {<<d, "pred", pred>>}
                   /\ pred' = pred + 1 /\ UNCHANGED <<program, d>>
        BY <1>4, Zenon DEF CheckPredicate
    <2>2. d \in DOMAIN program.decls /\ pred \in DOMAIN Decl.preds /\ pred \in Nat
        <3>1. Checking /\ pred <= Len(Decl.preds)
            BY <1>4 DEF CheckPredicate, InPreds
        <3>2. d \in DOMAIN program.decls /\ pred \in 1..(Len(Decl.preds) + 2)
            BY <3>1, DeclIs DEF Checking, Where
        <3> QED
            BY <1>2, <3>1, <3>2 DEF Decl
    <2> DEFINE e == Decl.preds[pred]
    <2>3. PlainPredicates => ~r.loops /\ (r.ok <=> HasType(e, Env))
        <3>1. PlainPredicates => IsPlain(e)
            BY <2>2, Zenon DEF PlainPredicates, Decl
        <3>2. IsPlain(e) => ~r.loops
            BY <1>1, <2>1, <2>2, Zenon DEF FollowsTerms, FollowsPredicates, Fits, Env, Decl
        <3>3. IsPlain(e) => (r.ok <=> HasType(e, Env))
            BY <1>1, <2>1, <2>2, Zenon DEF InferenceExact, Fits, Env, Decl
        <3> QED
            BY <3>1, <3>2, <3>3, Zenon
    <2>4. PlainPredicates' => PlainPredicates
        BY <2>1, Zenon DEF PlainPredicates
    <2>5. ASSUME PlainPredicates', NEW i \in DOMAIN program.decls, NEW j \in DOMAIN program.decls[i].preds
          PROVE  <<i, "pred", j>> \in errs' <=>
                   Done(i, j)' /\ ~HasType(program.decls[i].preds[j], EnvOf(program, program.decls[i]))
        <3>1. i \in Nat /\ j \in Nat
            BY <1>1, <1>2
        <3>2. <<i, "pred", j>> \in errs <=>
                Done(i, j) /\ ~HasType(program.decls[i].preds[j], EnvOf(program, program.decls[i]))
            BY <2>4, <2>5, Zenon DEF ErrorsSoFar
        <3>3. errs' = IF r.ok THEN errs ELSE errs \cup {<<d, "pred", pred>>}
            BY <2>1, <2>3, <2>4, <2>5, Zenon
        <3>4. CASE i = d /\ j = pred
            <4>1. Done(i, j)' /\ ~Done(i, j)
                BY <1>1, <2>1, <2>2, <3>4 DEF Done
            <4>2. <<i, "pred", j>> \in errs' <=> ~r.ok
                BY <3>2, <3>3, <3>4, <4>1, Zenon
            <4>3. r.ok <=> HasType(program.decls[i].preds[j], EnvOf(program, program.decls[i]))
                BY <2>3, <2>4, <2>5, <3>4, Zenon DEF Env, Decl
            <4> QED
                BY <4>1, <4>2, <4>3, Zenon
        <3>5. CASE ~(i = d /\ j = pred)
            <4>1. Done(i, j)' <=> Done(i, j)
                BY <1>1, <2>1, <2>2, <3>1, <3>5 DEF Done
            <4>2. <<i, "pred", j>> # <<d, "pred", pred>>
                BY <3>5
            <4>3. <<i, "pred", j>> \in errs' <=> <<i, "pred", j>> \in errs
                BY <3>3, <4>2, Zenon
            <4> QED
                BY <3>2, <4>1, <4>3, Zenon
        <3> QED
            BY <3>4, <3>5
    <2> QED
        BY <2>1, <2>5, Zenon DEF ErrorsSoFar
<1>5. CASE CollectOutputs
    <2>1. /\ Checking /\ pred = Len(Decl.preds) + 1 /\ pred' = pred + 1
          /\ UNCHANGED <<program, d, errs>>
        BY <1>5, Zenon DEF CollectOutputs
    <2>2. ASSUME NEW i \in DOMAIN program.decls, NEW j \in DOMAIN program.decls[i].preds
          PROVE  Done(i, j)' <=> Done(i, j)
        <3>1. i \in Nat /\ j \in 1..Len(program.decls[i].preds) /\ Len(program.decls[i].preds) \in Nat
            BY <1>1, <1>2
        <3>2. CASE i = d
            <4>1. pred = Len(program.decls[i].preds) + 1
                BY <2>1, <3>2 DEF Decl
            <4> QED
                BY <1>1, <2>1, <3>1, <3>2, <4>1 DEF Done
        <3>3. CASE i # d
            BY <1>1, <2>1, <3>1, <3>3 DEF Done
        <3> QED
            BY <3>2, <3>3
    <2> QED
        BY <2>1, <2>2, ErrorsKept, Zenon
<1>6. CASE AtFlow
    <2>1. UNCHANGED <<program, d, pred>>
        BY <1>6, FlowSteps, Zenon
    <2>2. \A i \in DOMAIN program.decls : \A j \in DOMAIN program.decls[i].preds :
            /\ <<i, "pred", j>> \in errs' <=> <<i, "pred", j>> \in errs
            /\ Done(i, j)' <=> Done(i, j)
        BY <1>6, <2>1, FlowErrors, Zenon DEF Done
    <2> QED
        BY <2>1, <2>2, ErrorsKept, Zenon
<1>7. CASE NextChain
    <2>1. UNCHANGED <<program, d, pred, errs>>
        BY <1>7, Zenon DEF NextChain
    <2> QED
        BY <2>1, ErrorsKept, Zenon DEF Done
<1>8. CASE NextDecl
    <2>1. /\ pred = Len(Decl.preds) + 2 /\ d' = d + 1 /\ pred' = 1
          /\ UNCHANGED <<program, errs>>
        BY <1>8, Zenon DEF NextDecl, InFlow
    <2>2. ASSUME NEW i \in DOMAIN program.decls, NEW j \in DOMAIN program.decls[i].preds
          PROVE  Done(i, j)' <=> Done(i, j)
        <3>1. i \in Nat /\ j \in 1..Len(program.decls[i].preds) /\ Len(program.decls[i].preds) \in Nat
            BY <1>1, <1>2
        <3>2. CASE i = d
            <4>1. pred = Len(program.decls[i].preds) + 2
                BY <2>1, <3>2 DEF Decl
            <4> QED
                BY <1>1, <2>1, <3>1, <3>2, <4>1 DEF Done
        <3>3. CASE i # d
            BY <1>1, <2>1, <3>1, <3>3 DEF Done
        <3> QED
            BY <3>2, <3>3
    <2> QED
        BY <2>1, <2>2, ErrorsKept, Zenon
<1>9. CASE Return
    <2>1. UNCHANGED <<program, d, pred, errs>>
        BY <1>9, Zenon DEF Return
    <2> QED
        BY <2>1, ErrorsKept, Zenon DEF Done
<1> QED
    BY <1>3, <1>4, <1>5, <1>6, <1>7, <1>8, <1>9, Zenon DEF Next, AtFlow

LEMMA ThroughNext == ASSUME Where, Through, [Next]_vars PROVE Through'
<1>1. CASE UNCHANGED vars
    BY <1>1 DEF vars, Through
<1>2. CASE CheckPredicate
    <2>1. verdict = "none" /\ verdict' \in {verdict, "overflow"}
        BY <1>2 DEF CheckPredicate, InPreds, Checking
    <2> QED
        BY <2>1 DEF Through
<1>3. CASE CollectOutputs \/ AtFlow \/ NextChain \/ NextDecl
    <2>1. verdict = "none"
        BY <1>3, FlowSteps DEF CollectOutputs, NextChain, NextDecl, InFlow, AtStep, Checking
    <2>2. verdict' = verdict
        BY <1>3, FlowSteps, Zenon DEF CollectOutputs, NextChain, NextDecl
    <2> QED
        BY <2>1, <2>2 DEF Through
<1>4. CASE Return
    BY <1>4 DEF Return, Through
<1> QED
    BY <1>1, <1>2, <1>3, <1>4, Zenon DEF Next, AtFlow

\* When the check returns, the predicates in error are exactly those without a
\* type: an error in one predicate, and what it leaves bound, neither hides nor
\* makes one in another, in whatever order and however many there are.
THEOREM PredicateErrorsAreExact ==
    ASSUME NEW Scope, FollowsTerms(Scope), InferenceExact(Scope)
    PROVE  Spec => []PredicateErrorsExact
<1>1. Init => ErrorsSoFar /\ Through
    BY ErrorsInit
<1>2. Where /\ Fits(Scope) /\ ErrorsSoFar /\ Through /\ [Next]_vars => (ErrorsSoFar /\ Through)'
    BY ErrorsNext, ThroughNext
<1>3. ASSUME Where, ErrorsSoFar, Through PROVE PredicateErrorsExact
    <2> SUFFICES ASSUME verdict \in {"accepted", "rejected"}, PlainPredicates,
                        NEW i \in DOMAIN program.decls, NEW j \in DOMAIN program.decls[i].preds
                 PROVE  <<i, "pred", j>> \in errs <=>
                          ~HasType(program.decls[i].preds[j], EnvOf(program, program.decls[i]))
        BY DEF PredicateErrorsExact
    <2>1. d > Len(program.decls)
        BY <1>3 DEF Through
    <2>2. i \in 1..Len(program.decls) /\ Len(program.decls) \in Nat /\ d \in Nat
        BY <1>3, ListedPrograms DEF Where
    <2>3. Done(i, j)
        BY <2>1, <2>2 DEF Done
    <2> QED
        BY <1>3, <2>3, Zenon DEF ErrorsSoFar
<1>4. Where /\ ErrorsSoFar /\ Through => PredicateErrorsExact
    BY <1>3
<1> QED
    BY <1>1, <1>2, <1>4, FitsAlways, PTL DEF Spec

-----------------------------------------------------------------------------
(***************************************************************************)
(* The names of a flow, whatever follows terms.                            *)
(***************************************************************************)

\* The steps of the flow of declaration i that name only what there is.
Known(i, c, k) ==
  \A m \in DOMAIN program.decls[i].flow[c][k] :
    program.decls[i].flow[c][k][m] \in DOMAIN EnvOf(program, program.decls[i])

\* The steps that have been taken.
Passed(i, c, k) == i < d \/ (i = d /\ (c < chain \/ (c = chain /\ k < step)))

\* An accepted program names nothing in a flow that is not there: the driver
\* goes on to translate it on that ground.
AcceptedIsNamed ==
  verdict = "accepted" =>
    \A i \in DOMAIN program.decls : \A c \in DOMAIN program.decls[i].flow :
      \A k \in DOMAIN program.decls[i].flow[c] : Known(i, c, k)

Naming ==
  /\ d <= Len(program.decls) => DOMAIN outputs \subseteq DOMAIN Env
  /\ errs = {} =>
       \A i \in DOMAIN program.decls : \A c \in DOMAIN program.decls[i].flow :
         \A k \in DOMAIN program.decls[i].flow[c] : Passed(i, c, k) => Known(i, c, k)
  /\ verdict = "accepted" => errs = {}
  /\ Through

LEMMA OutputsKnown ==
    ASSUME NEW steps, NEW env, Len(steps) \in Nat
    PROVE  DOMAIN Offers(steps, env).out \subseteq DOMAIN env
<1> DEFINE n == Len(steps)
<1>1. PICK f : OffersBy(f, steps, env)
    BY OffersFold
<1>2. /\ f[0] = [g |-> gen, out |-> <<>>]
      /\ \A k \in 1..n : f[k] = Offer(steps[k], env, f[k - 1])
      /\ Offers(steps, env) = f[n]
    BY <1>1 DEF OffersBy
<1> DEFINE P == {k \in 0..n : DOMAIN f[k].out \subseteq DOMAIN env}
<1>3. 0 \in P
    <2>1. f[0].out = <<>>
        BY <1>2
    <2>2. DOMAIN f[0].out = {}
        BY <2>1
    <2> QED
        BY <2>2
<1>4. ASSUME NEW names, NEW r, DOMAIN r.out \subseteq DOMAIN env
      PROVE  DOMAIN Offer(names, env, r).out \subseteq DOMAIN env
    <2> DEFINE m == names[1]
               inst == Instance(env[m], r.g)
               out == Shadowing([x \in {m} |-> Returns(inst.ty)], r.out)
    <2>1. CASE Len(names) # 1 \/ m \in {"in", "out"} \/ m \notin DOMAIN env
        BY <1>4, <2>1, Zenon DEF Offer
    <2>2. CASE ~(Len(names) # 1 \/ m \in {"in", "out"} \/ m \notin DOMAIN env)
        <3>1. Offer(names, env, r) = [g |-> inst.g, out |-> out]
            BY <2>2, Zenon DEF Offer
        <3>2. DOMAIN out = {m} \cup DOMAIN r.out
            <4> HIDE DEF inst, m
            <4> QED
                BY Zenon DEF Shadowing
        <3> HIDE DEF inst, out, m
        <3>3. Offer(names, env, r).out = out
            BY <3>1
        <3> QED
            BY <1>4, <2>2, <3>2, <3>3, Zenon
    <2> QED
        BY <2>1, <2>2
<1>5. ASSUME NEW k \in 0..(n - 1), k \in P PROVE k + 1 \in P
    <2> HIDE DEF n
    <2>1. k + 1 \in 1..n /\ k + 1 \in 0..n /\ (k + 1) - 1 = k
        BY DEF n
    <2>2. f[k + 1] = Offer(steps[k + 1], env, f[k])
        BY <1>2, <2>1
    <2>3. DOMAIN f[k + 1].out \subseteq DOMAIN env
        BY <1>4, <1>5, <2>2
    <2> QED
        BY <2>1, <2>3
<1>6. n \in P
    <2> HIDE DEF P
    <2>1. \A k \in 0..n : k \in P
        BY <1>3, <1>5, InductUpTo
    <2> QED
        BY <2>1
<1> QED
    BY <1>2, <1>6

\* Sources without an error are known.
LEMMA SourcesKnown ==
    ASSUME NEW names, NEW env, Len(names) \in Nat, DOMAIN outputs \subseteq DOMAIN env,
           {"in", "out"} \subseteq DOMAIN env, Sources(names, env).ok
    PROVE  \A k \in 1..Len(names) : names[k] \in DOMAIN env
<1> DEFINE n == Len(names)
<1>1. PICK f : SourcesBy(f, names, env)
    BY SourcesFold
<1>2. /\ f[0] = [ok |-> TRUE, g |-> gen, ts |-> <<>>]
      /\ \A k \in 1..n : f[k] = Source(names[k], env, f[k - 1])
      /\ Sources(names, env) = f[n]
    BY <1>1 DEF SourcesBy
<1> DEFINE P == {k \in 0..n : f[k].ok => \A m \in 1..k : names[m] \in DOMAIN env}
<1>3. 0 \in P
    OBVIOUS
<1>4. ASSUME NEW name, NEW r, name \notin DOMAIN env \/ ~r.ok PROVE ~Source(name, env, r).ok
    <2>1. CASE ~r.ok
        BY <2>1, Zenon DEF Source
    <2>2. CASE r.ok
        <3>1. name \notin DOMAIN env /\ name # "in" /\ name # "out" /\ name \notin DOMAIN outputs
            BY <1>4, <2>2
        <3>2. Source(name, env, r) = [ok |-> FALSE, g |-> r.g, ts |-> r.ts]
            BY <2>2, <3>1, Zenon DEF Source
        <3> QED
            BY <3>2
    <2> QED
        BY <2>1, <2>2
<1>5. ASSUME NEW k \in 0..(n - 1), k \in P PROVE k + 1 \in P
    <2> HIDE DEF n
    <2>1. k + 1 \in 1..n /\ k + 1 \in 0..n /\ (k + 1) - 1 = k
        BY DEF n
    <2>2. f[k + 1] = Source(names[k + 1], env, f[k])
        BY <1>2, <2>1
    <2>3. ASSUME f[k + 1].ok PROVE names[k + 1] \in DOMAIN env /\ f[k].ok
        BY <1>4, <2>2, <2>3, Zenon
    <2>4. f[k].ok => \A m \in 1..k : names[m] \in DOMAIN env
        BY <1>5
    <2>5. \A m \in 1..(k + 1) : m \in 1..k \/ m = k + 1
        OBVIOUS
    <2>6. f[k + 1].ok => \A m \in 1..(k + 1) : names[m] \in DOMAIN env
        BY <2>3, <2>4, <2>5, Zenon
    <2> QED
        BY <2>1, <2>6
<1>6. n \in P
    <2> HIDE DEF P
    <2>1. \A k \in 0..n : k \in P
        BY <1>3, <1>5, InductUpTo
    <2> QED
        BY <2>1
<1> QED
    BY <1>2, <1>6

LEMMA PortsKnown ==
    ASSUME NEW p, NEW dcl PROVE {"in", "out"} \subseteq DOMAIN EnvOf(p, dcl)
<1>1. DOMAIN InOut(p, dcl) = {"in", "out"}
    BY DEF InOut
<1>2. \A f, g : DOMAIN f \subseteq DOMAIN Shadowing(f, g)
    BY DEF Shadowing
<1>3. \E g : EnvOf(p, dcl) = Shadowing(InOut(p, dcl), g)
    BY Zenon DEF EnvOf
<1> QED
    BY <1>1, <1>2, <1>3, Zenon

\* A step taken without an error names only what there is.
LEMMA StepKnown ==
    ASSUME Where, Naming, AtFlow, errs' = {}
    PROVE  \A m \in DOMAIN Names : Names[m] \in DOMAIN Env
<1>1. AtStep /\ Len(Names) \in Nat /\ DOMAIN Names = 1..Len(Names) /\ {"in", "out"} \subseteq DOMAIN Env
    <2>1. AtStep
        BY FlowSteps
    <2>2. Len(Names) \in Nat /\ Names \in Seq(STRING)
        BY <2>1, AtStepIs
    <2> QED
        BY <2>1, <2>2, PortsKnown, ElementsOf DEF Env
<1>2. CASE FlowIn \/ FlowOut
    <2>1. Names = <<"in">> \/ Names = <<"out">>
        BY <1>2, Zenon DEF FlowIn, FlowOut
    <2> QED
        BY <1>1, <2>1
<1>3. CASE FlowNode
    <2>1. Len(Names) = 1 /\ Names[1] \in DOMAIN Env
        BY <1>3, Zenon DEF FlowNode
    <2> QED
        BY <1>1, <2>1
<1>4. CASE FlowUnknown
    BY <1>4 DEF FlowUnknown, Lose
<1>5. CASE FlowTuple
    <2>1. Sources(Names, Env).ok
        <3>1. errs \cup {<<d, "flow", chain, step>>} # {}
            OBVIOUS
        <3> QED
            BY <1>5, <3>1, Zenon DEF FlowTuple, Lose
    <2>2. DOMAIN outputs \subseteq DOMAIN Env
        BY <1>1 DEF Naming, AtStep, InFlow, Checking
    <2> QED
        BY <1>1, <2>1, <2>2, SourcesKnown, Zenon
<1> QED
    BY <1>2, <1>3, <1>4, <1>5 DEF AtFlow

\* Errors are never forgotten.
LEMMA ErrorsStay == ASSUME [Next]_vars PROVE errs \subseteq errs'
<1>1. AtFlow => errs \subseteq errs'
    BY Zenon DEF AtFlow, FlowIn, FlowOut, FlowNode, FlowUnknown, FlowTuple, Arrive, Lose
<1>2. CheckPredicate => errs \subseteq errs'
    BY Zenon DEF CheckPredicate
<1>3. CollectOutputs \/ NextChain \/ NextDecl \/ Return \/ UNCHANGED vars => errs' = errs
    BY DEF CollectOutputs, NextChain, NextDecl, Return, vars
<1> QED
    BY <1>1, <1>2, <1>3, Zenon DEF Next, AtFlow

\* What is passed after a step was passed before it, or is the step taken.
LEMMA NamingKept ==
    ASSUME Naming, [Next]_vars, program' = program,
           \A i \in DOMAIN program.decls : \A c \in DOMAIN program.decls[i].flow :
             \A k \in DOMAIN program.decls[i].flow[c] :
               errs' = {} /\ Passed(i, c, k)' => Passed(i, c, k) \/ Known(i, c, k)
    PROVE  errs' = {} =>
             \A i \in DOMAIN program.decls : \A c \in DOMAIN program.decls[i].flow :
               \A k \in DOMAIN program.decls[i].flow[c] : Passed(i, c, k)' => Known(i, c, k)
<1>1. errs' = {} => errs = {}
    BY ErrorsStay
<1> QED
    BY <1>1, Zenon DEF Naming

LEMMA NamingInit == ASSUME Init PROVE Naming
<1>1. DOMAIN outputs = {} /\ verdict = "none"
    BY DEF Init
<1>2. ASSUME NEW i \in DOMAIN program.decls, NEW c \in DOMAIN program.decls[i].flow,
             NEW k \in DOMAIN program.decls[i].flow[c]
      PROVE  ~Passed(i, c, k)
    <2>1. program \in Programs /\ d = 1 /\ chain = 1 /\ step = 1
        BY DEF Init
    <2>2. i \in 1..Len(program.decls) /\ Len(program.decls) \in Nat
        BY <2>1, ListedPrograms
    <2>3. c \in 1..Len(program.decls[i].flow) /\ Len(program.decls[i].flow) \in Nat
        BY <2>1, FlowIs
    <2>4. k \in 1..Len(program.decls[i].flow[c]) /\ Len(program.decls[i].flow[c]) \in Nat
        BY <2>1, <2>3, FlowIs
    <2> QED
        BY <2>1, <2>2, <2>3, <2>4 DEF Passed
<1>3. verdict # "accepted" /\ Through
    BY <1>1 DEF Through
<1> QED
    BY <1>1, <1>2, <1>3 DEF Naming

LEMMA NamingNext == ASSUME Where, Naming, [Next]_vars PROVE Naming'
<1>1. program' = program
    <2>1. AtFlow => program' = program
        BY FlowSteps, Zenon
    <2> QED
        BY <2>1, Zenon DEF Next, AtFlow, CheckPredicate, CollectOutputs, NextChain, NextDecl, Return, vars
<1>2. \A i, c, k : Known(i, c, k)' <=> Known(i, c, k)
    BY <1>1, Zenon DEF Known
<1>3. Through'
    BY ThroughNext DEF Naming
<1>4. verdict' = "accepted" => errs' = {}
    <2>1. CASE Return
        BY <2>1 DEF Return
    <2>2. CASE UNCHANGED vars
        BY <2>2 DEF Naming, vars
    <2>3. CASE CheckPredicate
        <3>1. verdict = "none" /\ verdict' \in {verdict, "overflow"}
            BY <2>3 DEF CheckPredicate, InPreds, Checking
        <3> QED
            BY <3>1
    <2>4. CASE CollectOutputs \/ AtFlow \/ NextChain \/ NextDecl
        <3>1. verdict = "none"
            BY <2>4, FlowSteps DEF CollectOutputs, NextChain, NextDecl, InFlow, AtStep, Checking
        <3>2. verdict' = verdict
            BY <2>4, FlowSteps, Zenon DEF CollectOutputs, NextChain, NextDecl
        <3> QED
            BY <3>1, <3>2
    <2> QED
        BY <2>1, <2>2, <2>3, <2>4, Zenon DEF Next, AtFlow
<1>5. d' <= Len(program.decls) => DOMAIN outputs' \subseteq DOMAIN Env'
    <2>1. CASE CollectOutputs
        <3>1. Checking /\ UNCHANGED <<program, d>> /\ outputs' = Offers(Joined(Decl.flow), Env).out
            BY <2>1, Zenon DEF CollectOutputs
        <3>2. program \in Programs /\ d \in DOMAIN program.decls
            BY <3>1, DeclIs DEF Checking, Where
        <3> DEFINE Steps == Seq(STRING) \ {<<>>}
        <3>3. Decl.flow \in Seq(Seq(Steps))
            BY <3>2, ListedPrograms DEF Decl
        <3>4. Joined(Decl.flow) \in Seq(Steps)
            <4> HIDE DEF Steps
            <4> QED
                BY <3>3, JoinedIs
        <3>5. Len(Joined(Decl.flow)) \in Nat
            <4> HIDE DEF Steps
            <4> QED
                BY <3>4, ElementsOf
        <3>6. DOMAIN outputs' \subseteq DOMAIN Env
            BY <3>1, <3>5, OutputsKnown
        <3>7. Env' = Env
            BY <3>1, Zenon DEF Env, Decl
        <3> QED
            BY <3>6, <3>7, Zenon
    <2>2. CASE NextDecl
        <3>1. outputs' = <<>>
            BY <2>2 DEF NextDecl
        <3>2. DOMAIN outputs' = {}
            BY <3>1
        <3> QED
            BY <3>2
    <2>3. CASE CheckPredicate \/ AtFlow \/ NextChain \/ Return \/ UNCHANGED vars
        <3>1. UNCHANGED <<d, outputs>>
            BY <2>3, FlowSteps, Zenon DEF CheckPredicate, NextChain, Return, vars
        <3>2. Env' = Env
            BY <1>1, <3>1, Zenon DEF Env, Decl
        <3> QED
            BY <3>1, <3>2, Zenon DEF Naming
    <2> QED
        BY <2>1, <2>2, <2>3, Zenon DEF Next, AtFlow
<1>6. ASSUME NEW i \in DOMAIN program.decls, NEW c \in DOMAIN program.decls[i].flow,
             NEW k \in DOMAIN program.decls[i].flow[c], errs' = {}, Passed(i, c, k)', ~Passed(i, c, k)
      PROVE  Known(i, c, k)
    <2>1. /\ program \in Programs /\ i \in 1..Len(program.decls) /\ Len(program.decls) \in Nat /\ d \in Nat
          /\ c \in 1..Len(program.decls[i].flow) /\ Len(program.decls[i].flow) \in Nat
          /\ k \in 1..Len(program.decls[i].flow[c]) /\ Len(program.decls[i].flow[c]) \in Nat
        <3>1. program \in Programs /\ i \in 1..Len(program.decls) /\ Len(program.decls) \in Nat /\ d \in Nat
            BY ListedPrograms DEF Where
        <3>2. c \in 1..Len(program.decls[i].flow) /\ Len(program.decls[i].flow) \in Nat
            BY <3>1, FlowIs
        <3>3. k \in 1..Len(program.decls[i].flow[c]) /\ Len(program.decls[i].flow[c]) \in Nat
            BY <3>1, <3>2, FlowIs
        <3> QED
            BY <3>1, <3>2, <3>3
    <2>2. CASE UNCHANGED vars
        BY <1>6, <2>2 DEF vars, Passed
    <2>3. CASE CheckPredicate \/ CollectOutputs \/ Return
        <3>1. UNCHANGED <<d, chain, step>>
            BY <2>3, Zenon DEF CheckPredicate, CollectOutputs, Return
        <3> QED
            BY <1>6, <3>1 DEF Passed
    <2>4. CASE AtFlow
        <3>1. AtStep /\ step' = step + 1 /\ UNCHANGED <<d, chain>>
            BY <2>4, FlowSteps, Zenon
        <3>2. chain \in Nat /\ step \in Nat
            <4>1. d <= Len(program.decls) /\ chain <= Len(Decl.flow)
                BY <3>1 DEF AtStep, InFlow, Checking
            <4>2. chain \in 1..Len(Decl.flow) + 1 /\ step \in 1..Len(Chain) + 1
                BY <4>1 DEF Where
            <4> QED
                BY <4>2
        <3>3. i = d /\ c = chain /\ k = step
            BY <1>6, <2>1, <3>1, <3>2 DEF Passed
        <3>4. \A m \in DOMAIN Names : Names[m] \in DOMAIN Env
            BY <1>6, <2>4, StepKnown
        <3> QED
            BY <3>3, <3>4, Zenon DEF Known, Names, Chain, Env, Decl
    <2>5. CASE NextChain
        <3>1. /\ chain <= Len(Decl.flow) /\ step > Len(Chain)
              /\ chain' = chain + 1 /\ step' = 1 /\ d' = d /\ d <= Len(program.decls)
            BY <2>5 DEF NextChain, InFlow, Checking
        <3>2. chain \in Nat /\ step \in Nat
            <4>1. chain \in 1..Len(Decl.flow) + 1 /\ step \in 1..Len(Chain) + 1
                BY <3>1 DEF Where
            <4> QED
                BY <4>1
        <3>3. i = d /\ c = chain /\ ~(k < step)
            BY <1>6, <2>1, <3>1, <3>2 DEF Passed
        <3>4. k <= Len(Chain)
            BY <2>1, <3>3 DEF Chain, Decl
        <3>5. Len(Chain) \in Nat /\ k \in Nat
            BY <2>1, <3>3 DEF Chain, Decl
        <3> QED
            BY <3>1, <3>2, <3>3, <3>4, <3>5
    <2>6. CASE NextDecl
        <3>1. chain > Len(Decl.flow) /\ chain' = 1 /\ step' = 1 /\ d' = d + 1 /\ d <= Len(program.decls)
            BY <2>6 DEF NextDecl, InFlow, Checking
        <3>2. chain \in Nat
            <4>1. chain \in 1..Len(Decl.flow) + 1
                BY <3>1 DEF Where
            <4> QED
                BY <4>1
        <3>3. i = d /\ ~(c < chain)
            BY <1>6, <2>1, <3>1, <3>2 DEF Passed
        <3>4. c <= Len(Decl.flow) /\ Len(Decl.flow) \in Nat /\ c \in Nat
            BY <2>1, <3>3 DEF Decl
        <3> QED
            BY <3>1, <3>2, <3>3, <3>4
    <2> QED
        BY <2>2, <2>3, <2>4, <2>5, <2>6, Zenon DEF Next, AtFlow
<1>7. errs' = {} =>
        \A i \in DOMAIN program.decls : \A c \in DOMAIN program.decls[i].flow :
          \A k \in DOMAIN program.decls[i].flow[c] : Passed(i, c, k)' => Known(i, c, k)
    BY <1>1, <1>6, NamingKept, Zenon
<1> QED
    BY <1>1, <1>2, <1>3, <1>4, <1>5, <1>7, Zenon DEF Naming

\* A program is accepted only if every name in its flows is a port, a node of
\* the program or a primitive: in any position of any step, single or tuple
\* (check_graph records a name it does not find and goes on).
THEOREM AcceptedNamesAreKnown == Spec => []AcceptedIsNamed
<1>1. Init => Where /\ Naming
    BY WhereInit, NamingInit
<1>2. (Where /\ Naming) /\ [Next]_vars => (Where /\ Naming)'
    BY WhereNext, NamingNext
<1>3. ASSUME Where, Naming PROVE AcceptedIsNamed
    <2> SUFFICES ASSUME verdict = "accepted",
                        NEW i \in DOMAIN program.decls, NEW c \in DOMAIN program.decls[i].flow,
                        NEW k \in DOMAIN program.decls[i].flow[c]
                 PROVE  Known(i, c, k)
        BY DEF AcceptedIsNamed
    <2>1. errs = {} /\ d > Len(program.decls)
        BY <1>3 DEF Naming, Through
    <2>2. i \in 1..Len(program.decls) /\ Len(program.decls) \in Nat /\ d \in Nat
        BY <1>3, ListedPrograms DEF Where
    <2>3. Passed(i, c, k)
        BY <2>1, <2>2 DEF Passed
    <2> QED
        BY <1>3, <2>1, <2>3, Zenon DEF Naming
<1>4. Where /\ Naming => AcceptedIsNamed
    BY <1>3
<1> QED
    BY <1>1, <1>2, <1>4, PTL DEF Spec
=============================================================================
