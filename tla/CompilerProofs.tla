--------------------------- MODULE CompilerProofs ---------------------------
(***************************************************************************)
(* What a run of apslc guarantees for every text, program and set of       *)
(* flags: blocks nest, and the modes that follow names refuse what they    *)
(* are for and nothing else, however the parser, the modes that follow     *)
(* terms and the artifact compiler are defined; and that the flow and the  *)
(* addresses of an artifact are those of the graph.                        *)
(***************************************************************************)
EXTENDS Compiler, Wiring, Induction, FiniteSetTheorems

----------------------------------------------------------------------------
(* Searches. *)

\* What edges lead to is not more than there are edges.
LEMMA TargetsFinite ==
    ASSUME NEW edges, IsFiniteSet(edges)
    PROVE  IsFiniteSet({e[2] : e \in edges})
<1> DEFINE T == {e[2] : e \in edges}
           f == [e \in edges |-> e[2]]
<1>1. f \in Surjection(edges, T)
    BY DEF Surjection
<1> QED
    BY <1>1, FS_Surjection, Zenon

\* One round of a search finds something new, or there is nothing to be found.
LEMMA RoundGoesOn ==
    ASSUME NEW edges, NEW seen, NEW more,
           IsFiniteSet({e[2] : e \in edges}),
           more = seen \cup {e[2] : e \in {x \in edges : x[1] \in seen}},
           NEW k \in Nat,
           Cardinality(seen \cap {e[2] : e \in edges}) >= k
    PROVE  \/ more = seen
           \/ Cardinality(more \cap {e[2] : e \in edges}) >= k + 1
<1> DEFINE T == {e[2] : e \in edges}
<1>1. seen \cap T \subseteq more \cap T /\ IsFiniteSet(more \cap T) /\ IsFiniteSet(seen \cap T)
    BY FS_Subset
<1>2. /\ Cardinality(seen \cap T) \in Nat /\ Cardinality(more \cap T) \in Nat
      /\ Cardinality(seen \cap T) <= Cardinality(more \cap T)
      /\ Cardinality(seen \cap T) = Cardinality(more \cap T) => seen \cap T = more \cap T
    <2> HIDE DEF T
    <2> QED
        BY <1>1, FS_Subset, FS_CardinalityType
<1>3. seen \cap T = more \cap T => more = seen
    OBVIOUS
<1> HIDE DEF T
<1>4. Cardinality(seen \cap T) >= k
    BY DEF T
<1> QED
    BY <1>2, <1>3, <1>4 DEF T

\* A search finds what it starts at and what edges lead to from there, and nothing
\* else: what it finds is closed, and in every closed set with its start.
LEMMA Search ==
    ASSUME NEW edges, IsFiniteSet(edges), NEW from
    PROVE  /\ from \subseteq Reachable(edges, from)
           /\ \A e \in edges : e[1] \in Reachable(edges, from) => e[2] \in Reachable(edges, from)
           /\ \A S : from \subseteq S /\ (\A e \in edges : e[1] \in S => e[2] \in S) => Reachable(edges, from) \subseteq S
<1> DEFINE T == {e[2] : e \in edges}
           n == Cardinality(T)
           U == SUBSET (from \cup T)
           after(X) == X \cup {e[2] : e \in {x \in edges : x[1] \in X}}
           step == [k \in 1..n |-> [X \in U |-> after(X)]]
           seen[k \in 0..n] == IF k = 0 THEN from
                               ELSE seen[k - 1] \cup {e[2] : e \in {x \in edges : x[1] \in seen[k - 1]}}
<1>1. IsFiniteSet(T) /\ n \in Nat /\ from \in U
    BY TargetsFinite, FS_CardinalityType
<1>2. step \in [1..n -> [U -> U]]
    OBVIOUS
<1>3. PICK f \in [0..n -> U] : RecursBy(f, n, from, step)
    <2> HIDE DEF n, U, step
    <2> QED
        BY <1>1, <1>2, Iterates, Zenon
<1>4. f = [k \in 0..n |-> IF k = 0 THEN from
                          ELSE f[k - 1] \cup {e[2] : e \in {x \in edges : x[1] \in f[k - 1]}}]
    <2>1. ASSUME NEW k \in 0..n, k # 0
          PROVE  f[k] = after(f[k - 1])
        <3>1. k \in 1..n /\ f[k - 1] \in U
            <4> HIDE DEF U, n
            <4> QED
                BY <1>1, <2>1
        <3>2. f[k] = step[k][f[k - 1]]
            BY <1>3, <3>1 DEF RecursBy
        <3> HIDE DEF U, n
        <3> QED
            BY <3>1, <3>2
    <2>2. f[0] = from
        BY <1>3 DEF RecursBy
    <2> HIDE DEF U, n
    <2> QED
        BY <2>1, <2>2
<1>5. seen = [k \in 0..n |-> IF k = 0 THEN from
                             ELSE seen[k - 1] \cup {e[2] : e \in {x \in edges : x[1] \in seen[k - 1]}}]
    BY <1>4, Zenon
<1>6. seen[0] = from /\ \A k \in 0..(n - 1) : seen[k + 1] = after(seen[k])
    <2> HIDE DEF seen, n
    <2>1. \A k \in 0..(n - 1) : k + 1 \in 0..n /\ k + 1 # 0 /\ (k + 1) - 1 = k
        BY <1>1
    <2>2. 0 \in 0..n
        BY <1>1
    <2> QED
        BY <1>5, <2>1, <2>2
<1>7. Reachable(edges, from) = seen[n]
    BY Zenon DEF Reachable
<1> HIDE DEF seen, n
<1>8. \A k \in 0..n : from \subseteq seen[k]
    <2> DEFINE P == {k \in 0..n : from \subseteq seen[k]}
    <2>1. 0 \in P /\ \A k \in 0..(n - 1) : k \in P => k + 1 \in P
        BY <1>1, <1>6
    <2> HIDE DEF P
    <2>2. \A k \in 0..n : k \in P
        BY <1>1, <2>1, InductUpTo
    <2> QED
        BY <2>2 DEF P
<1>9. \A k \in 0..n : after(seen[k]) = seen[k] \/ Cardinality(seen[k] \cap T) >= k
    <2> DEFINE P == {k \in 0..n : after(seen[k]) = seen[k] \/ Cardinality(seen[k] \cap T) >= k}
    <2>1. 0 \in P
        <3>1. IsFiniteSet(seen[0] \cap T)
            BY <1>1, FS_Subset
        <3>2. Cardinality(seen[0] \cap T) \in Nat
            BY <3>1, FS_CardinalityType
        <3> HIDE DEF T
        <3> QED
            BY <3>2, <1>1
    <2>2. ASSUME NEW k \in 0..(n - 1), k \in P PROVE k + 1 \in P
        <3>0. k \in Nat /\ k + 1 \in 0..n /\ seen[k + 1] = after(seen[k])
            BY <1>1, <1>6
        <3>1. CASE after(seen[k]) = seen[k]
            BY <3>0, <3>1
        <3>2. CASE Cardinality(seen[k] \cap T) >= k
            <4>1. seen[k + 1] = seen[k] \/ Cardinality(seen[k + 1] \cap T) >= k + 1
                BY <1>1, <3>0, <3>2, RoundGoesOn
            <4> QED
                BY <3>0, <4>1
        <3> QED
            BY <2>2, <3>1, <3>2
    <2> HIDE DEF P
    <2>3. \A k \in 0..n : k \in P
        BY <1>1, <2>1, <2>2, InductUpTo
    <2> QED
        BY <2>3 DEF P
<1>10. after(seen[n]) = seen[n]
    <2>1. n \in 0..n
        BY <1>1
    <2>2. CASE Cardinality(seen[n] \cap T) >= n
        <3>1. IsFiniteSet(seen[n] \cap T) /\ Cardinality(seen[n] \cap T) \in Nat /\ Cardinality(seen[n] \cap T) <= n
            <4>1. seen[n] \cap T \in SUBSET T
                OBVIOUS
            <4> HIDE DEF T
            <4> QED
                BY <1>1, <4>1, FS_Subset, FS_CardinalityType DEF n
        <3>2. Cardinality(T) = Cardinality(seen[n] \cap T)
            <4> HIDE DEF T
            <4> QED
                BY <2>2, <3>1, <1>1 DEF n
        <3>3. T = seen[n] \cap T
            <4>1. seen[n] \cap T \in SUBSET T
                OBVIOUS
            <4> HIDE DEF T
            <4> QED
                BY <1>1, <3>2, <4>1, FS_Subset
        <3> QED
            BY <3>3
    <2> QED
        BY <1>9, <2>1, <2>2
<1>11. ASSUME NEW S, from \subseteq S, \A e \in edges : e[1] \in S => e[2] \in S
       PROVE  \A k \in 0..n : seen[k] \subseteq S
    <2> DEFINE P == {k \in 0..n : seen[k] \subseteq S}
    <2>1. 0 \in P
        BY <1>1, <1>6, <1>11
    <2>2. ASSUME NEW k \in 0..(n - 1), k \in P PROVE k + 1 \in P
        <3>0. k + 1 \in 0..n /\ seen[k] \subseteq S
            BY <1>1, <2>2
        <3>1. k + 1 \in 0..n /\ seen[k + 1] = after(seen[k]) /\ seen[k] \subseteq S
            BY <3>0, <1>6
        <3>2. after(seen[k]) \subseteq S
            BY <3>1, <1>11
        <3> QED
            BY <3>1, <3>2
    <2> HIDE DEF P
    <2>3. \A k \in 0..n : k \in P
        BY <1>1, <2>1, <2>2, InductUpTo
    <2> QED
        BY <2>3 DEF P
<1>12. n \in 0..n
    BY <1>1
<1> QED
    BY <1>7, <1>8, <1>10, <1>11, <1>12

----------------------------------------------------------------------------
(* What the checks of names are is what they mean. *)

\* A list has finitely many members.
LEMMA ListFinite ==
    ASSUME NEW s, Lists(s)
    PROVE  /\ Len(s) \in Nat /\ DOMAIN s = 1..Len(s)
           /\ IsFiniteSet(DOMAIN s) /\ Cardinality(DOMAIN s) = Len(s)
           /\ IsFiniteSet(ToSet(s))
<1>1. Len(s) \in Nat /\ DOMAIN s = 1..Len(s)
    <2> DEFINE S == ToSet(s)
    <2>1. s \in Seq(S)
        BY DEF Lists
    <2> HIDE DEF S
    <2> QED
        BY <2>1
<1>2. IsFiniteSet(DOMAIN s) /\ Cardinality(DOMAIN s) = Len(s)
    <2>1. IsFiniteSet(1..Len(s)) /\ Cardinality(1..Len(s)) = IF 1 > Len(s) THEN 0 ELSE Len(s) - 1 + 1
        BY <1>1, FS_Interval
    <2> QED
        BY <1>1, <2>1
<1>3. [i \in DOMAIN s |-> s[i]] \in Surjection(DOMAIN s, ToSet(s))
    BY DEF Surjection, ToSet
<1> QED
    BY <1>1, <1>2, <1>3, FS_Surjection, Zenon

\* The declarations of a kind, by position and by name, are finitely many.
LEMMA KindFinite ==
    ASSUME NEW p, Lists(p), NEW k
    PROVE  IsFiniteSet(OfKind(p, k)) /\ IsFiniteSet(NamesIn(p, k))
<1>1. OfKind(p, k) \in SUBSET DOMAIN p
    BY DEF OfKind
<1>2. IsFiniteSet(OfKind(p, k))
    BY <1>1, ListFinite, FS_Subset
<1>3. [i \in OfKind(p, k) |-> p[i].name] \in Surjection(OfKind(p, k), NamesIn(p, k))
    BY DEF Surjection, NamesIn
<1> QED
    BY <1>2, <1>3, FS_Surjection, Zenon

\* A declaration of a kind is at some position of the program.
LEMMA OfKindIs ==
    ASSUME NEW p, NEW k
    PROVE  /\ \A i \in OfKind(p, k) : i \in DOMAIN p /\ p[i] \in ToSet(p) /\ p[i].k = k
           /\ \A d \in ToSet(p) : d.k = k => \E i \in OfKind(p, k) : p[i] = d
    BY DEF OfKind, ToSet

\* The union of finitely many finite sets.
LEMMA FamilyFinite ==
    ASSUME NEW I, IsFiniteSet(I), NEW f, \A i \in I : IsFiniteSet(f[i]), f = [i \in I |-> f[i]]
    PROVE  IsFiniteSet(UNION {f[i] : i \in I})
<1>1. f \in Surjection(I, {f[i] : i \in I})
    BY DEF Surjection
<1>2. IsFiniteSet({f[i] : i \in I})
    BY <1>1, FS_Surjection, Zenon
<1> QED
    BY <1>2, FS_UNION

\* There is an edge from each capability to each that it narrows, finitely many in all.
LEMMA NarrowingsAre ==
    ASSUME NEW p, IsProgram(p)
    PROVE  /\ IsFiniteSet(Narrowings(p))
           /\ \A e \in Narrowings(p) :
                \E d \in ToSet(p) : d.k = "type" /\ e[1] = d.name /\ e[2] \in ToSet(d.supers)
           /\ \A d \in ToSet(p) : d.k = "type" => \A m \in ToSet(d.supers) : <<d.name, m>> \in Narrowings(p)
<1> DEFINE I == OfKind(p, "type")
           F(i) == {p[i].name} \X ToSet(p[i].supers)
           f == [i \in I |-> F(i)]
<1>1. \A i \in I : IsFiniteSet(F(i))
    <2> SUFFICES ASSUME NEW i \in I PROVE IsFiniteSet(F(i))
        OBVIOUS
    <2>1. Lists(p[i].supers)
        BY OfKindIs DEF IsProgram, IsDecl
    <2>2. IsFiniteSet(ToSet(p[i].supers)) /\ IsFiniteSet({p[i].name})
        BY <2>1, ListFinite, FS_Singleton
    <2> QED
        BY <2>2, FS_Product
<1>2. IsFiniteSet(I)
    BY KindFinite DEF IsProgram
<1>3. Narrowings(p) = UNION {f[i] : i \in I}
    BY DEF Narrowings
<1>6. IsFiniteSet(Narrowings(p))
    <2>1. \A i \in I : f[i] = F(i)
        OBVIOUS
    <2>2. \A i \in I : IsFiniteSet(f[i])
        BY <1>1, <2>1
    <2> HIDE DEF F, I
    <2>3. f = [i \in I |-> f[i]]
        OBVIOUS
    <2> HIDE DEF f
    <2> QED
        BY <1>2, <1>3, <2>2, <2>3, FamilyFinite
<1>7. ASSUME NEW e \in Narrowings(p)
      PROVE  \E d \in ToSet(p) : d.k = "type" /\ e[1] = d.name /\ e[2] \in ToSet(d.supers)
    BY OfKindIs DEF Narrowings
<1>8. ASSUME NEW d \in ToSet(p), d.k = "type", NEW m \in ToSet(d.supers)
      PROVE  <<d.name, m>> \in Narrowings(p)
    BY <1>8, OfKindIs DEF Narrowings
<1> QED
    BY <1>6, <1>7, <1>8

\* The search of --restricted finds exactly what a capability narrows.
LEMMA NarrowsIsFound ==
    ASSUME NEW p, IsProgram(p), NEW n, NEW m
    PROVE  Narrows(p, n, m) <=> m \in Ancestors(p, n)
<1> DEFINE as == {d \in ToSet(p) : d.k = "type"}
           U == {n, m} \cup UNION {{a.name} \cup ToSet(a.supers) : a \in as}
           R == Ancestors(p, n)
<1>1. /\ n \in R
      /\ \A e \in Narrowings(p) : e[1] \in R => e[2] \in R
      /\ \A S : n \in S /\ (\A e \in Narrowings(p) : e[1] \in S => e[2] \in S) => R \subseteq S
    <2> DEFINE E == Narrowings(p)
    <2>1. IsFiniteSet(E)
        BY NarrowingsAre
    <2> HIDE DEF E
    <2>2. /\ {n} \subseteq Reachable(E, {n})
          /\ \A e \in E : e[1] \in Reachable(E, {n}) => e[2] \in Reachable(E, {n})
          /\ \A S : {n} \subseteq S /\ (\A e \in E : e[1] \in S => e[2] \in S) => Reachable(E, {n}) \subseteq S
        BY <2>1, Search, Zenon
    <2>3. R = Reachable(E, {n})
        BY DEF Ancestors, E
    <2>4. \A S : n \in S <=> {n} \subseteq S
        OBVIOUS
    <2> HIDE DEF R
    <2> QED
        BY <2>2, <2>3, <2>4 DEF E
<1>2. ASSUME Narrows(p, n, m) PROVE m \in R
    <2>1. n \in R \cap U /\ R \cap U \in SUBSET U
        BY <1>1
    <2>2. ASSUME NEW a \in as, a.name \in R \cap U, NEW x \in ToSet(a.supers) PROVE x \in R \cap U
        <3>1. <<a.name, x>> \in Narrowings(p)
            BY NarrowingsAre
        <3>2. x \in R
            BY <1>1, <2>2, <3>1
        <3> QED
            BY <3>2
    <2>3. \A a \in as : a.name \in R \cap U => ToSet(a.supers) \subseteq R \cap U
        BY <2>2
    <2> QED
        BY <1>2, <2>1, <2>3, Zenon DEF Narrows
<1>3. ASSUME m \in R PROVE Narrows(p, n, m)
    <2> SUFFICES ASSUME NEW S \in SUBSET U, n \in S, \A a \in as : a.name \in S => ToSet(a.supers) \subseteq S
                 PROVE  m \in S
        BY Zenon DEF Narrows
    <2>1. \A e \in Narrowings(p) : e[1] \in S => e[2] \in S
        BY NarrowingsAre
    <2> HIDE DEF U, as, R
    <2> QED
        BY <1>1, <1>3, <2>1
<1> QED
    BY <1>2, <1>3

\* The edges of a program are its flows.
LEMMA EdgesAreFlows ==
    ASSUME NEW p
    PROVE  /\ \A e \in Edges(p) : e = <<e[1], e[2]>> /\ Follows(p, e[1], e[2])
           /\ \A a, b : Follows(p, a, b) => <<a, b>> \in Edges(p)
<1>1. ASSUME NEW e \in Edges(p) PROVE e = <<e[1], e[2]>> /\ Follows(p, e[1], e[2])
    <2>1. PICK g \in ToSet(p) : g.k = "graph" /\ e \in EdgesOf(g)
        BY OfKindIs DEF Edges
    <2>2. PICK c \in ToSet(g.flow) : \E i \in Windows(c) : e \in (ToSet(c[i]) \ Ports) \X (ToSet(c[i + 1]) \ Ports)
        BY <2>1 DEF EdgesOf
    <2>3. PICK i \in Windows(c) : e \in (ToSet(c[i]) \ Ports) \X (ToSet(c[i + 1]) \ Ports)
        BY <2>2
    <2> QED
        BY <2>1, <2>3 DEF Follows, Windows
<1>2. ASSUME NEW a, NEW b, Follows(p, a, b) PROVE <<a, b>> \in Edges(p)
    <2>0. PICK g \in ToSet(p) : g.k = "graph" /\ \E c \in ToSet(g.flow) : \E i \in DOMAIN c :
            i + 1 \in DOMAIN c /\ a \in ToSet(c[i]) /\ b \in ToSet(c[i + 1]) /\ {a, b} \cap Ports = {}
        BY <1>2 DEF Follows
    <2>5. PICK c \in ToSet(g.flow) : \E i \in DOMAIN c :
            i + 1 \in DOMAIN c /\ a \in ToSet(c[i]) /\ b \in ToSet(c[i + 1]) /\ {a, b} \cap Ports = {}
        BY <2>0
    <2>1. PICK i \in DOMAIN c :
            i + 1 \in DOMAIN c /\ a \in ToSet(c[i]) /\ b \in ToSet(c[i + 1]) /\ {a, b} \cap Ports = {}
        BY <2>5
    <2>2. <<a, b>> \in (ToSet(c[i]) \ Ports) \X (ToSet(c[i + 1]) \ Ports) /\ i \in Windows(c)
        BY <2>1 DEF Windows
    <2>3. <<a, b>> \in EdgesOf(g)
        BY <2>2 DEF EdgesOf
    <2>4. PICK j \in OfKind(p, "graph") : p[j] = g
        BY <2>0 DEF OfKind, ToSet
    <2> QED
        BY <2>3, <2>4 DEF Edges
<1> QED
    BY <1>1, <1>2

\* --nominal and --restricted accept exactly the programs whose flows narrow.
THEOREM NominalIsNarrowing ==
    ASSUME NEW p, IsProgram(p), NEW restricted
    PROVE  NominalCheck(p, restricted) <=> FlowNarrows(p, restricted)
<1> DEFINE Sig(a) == LastNamed(p, "node", a)
           Passes(a, b) == \A o \in Output(Sig(a)), i \in FirstInput(Sig(b)) :
                             {o, i} \subseteq NamesIn(p, "type") => o = i \/ (restricted /\ i \in Ancestors(p, o))
<1>1. \A a, b : Passes(a, b) <=> MayFollow(p, Sig(a), Sig(b), restricted)
    BY NarrowsIsFound DEF MayFollow, Output, FirstInput, NominalName
<1>2. NominalCheck(p, restricted) <=>
        \A e \in Edges(p) : {e[1], e[2]} \subseteq NamesIn(p, "node") => Passes(e[1], e[2])
    BY Zenon DEF NominalCheck
<1>3. FlowNarrows(p, restricted) <=>
        \A a, b \in NamesIn(p, "node") : Follows(p, a, b) => Passes(a, b)
    BY <1>1 DEF FlowNarrows
<1> HIDE DEF Passes, Sig
<1>4. ASSUME \A e \in Edges(p) : {e[1], e[2]} \subseteq NamesIn(p, "node") => Passes(e[1], e[2]),
             NEW a \in NamesIn(p, "node"), NEW b \in NamesIn(p, "node"), Follows(p, a, b)
      PROVE  Passes(a, b)
    <2>1. <<a, b>> \in Edges(p) /\ <<a, b>>[1] = a /\ <<a, b>>[2] = b
        BY <1>4, EdgesAreFlows
    <2> QED
        BY <1>4, <2>1
<1>5. ASSUME \A a, b \in NamesIn(p, "node") : Follows(p, a, b) => Passes(a, b),
             NEW e \in Edges(p), {e[1], e[2]} \subseteq NamesIn(p, "node")
      PROVE  Passes(e[1], e[2])
    BY <1>5, EdgesAreFlows
<1> QED
    BY <1>2, <1>3, <1>4, <1>5

\* A program has finitely many edges.
LEMMA EdgesFinite ==
    ASSUME NEW p, IsProgram(p)
    PROVE  IsFiniteSet(Edges(p))
<1>1. ASSUME NEW g \in ToSet(p), g.k = "graph" PROVE IsFiniteSet(EdgesOf(g))
    <2>1. Lists(g.flow) /\ \A c \in ToSet(g.flow) : Lists(c) /\ \A s \in ToSet(c) : Lists(s)
        BY <1>1 DEF IsProgram, IsDecl
    <2> DEFINE pairs(c, i) == (ToSet(c[i]) \ Ports) \X (ToSet(c[i + 1]) \ Ports)
               chain == [c \in ToSet(g.flow) |-> UNION {pairs(c, i) : i \in Windows(c)}]
    <2>2. ASSUME NEW c \in ToSet(g.flow) PROVE IsFiniteSet(UNION {pairs(c, i) : i \in Windows(c)})
        <3> DEFINE f == [i \in Windows(c) |-> pairs(c, i)]
        <3>1. IsFiniteSet(Windows(c))
            <4>1. Windows(c) \in SUBSET DOMAIN c
                BY DEF Windows
            <4>2. IsFiniteSet(DOMAIN c)
                BY <2>1, ListFinite
            <4> QED
                BY <4>1, <4>2, FS_Subset
        <3>2. ASSUME NEW i \in Windows(c) PROVE IsFiniteSet(pairs(c, i))
            <4>1. c[i] \in ToSet(c) /\ c[i + 1] \in ToSet(c)
                BY DEF Windows, ToSet
            <4>2. IsFiniteSet(ToSet(c[i])) /\ IsFiniteSet(ToSet(c[i + 1]))
                BY <2>1, <4>1, ListFinite
            <4>3. IsFiniteSet(ToSet(c[i]) \ Ports) /\ IsFiniteSet(ToSet(c[i + 1]) \ Ports)
                BY <4>2, FS_Difference
            <4> QED
                BY <4>3, FS_Product
        <3>3. \A i \in Windows(c) : f[i] = pairs(c, i) /\ IsFiniteSet(f[i])
            BY <3>2
        <3>4. UNION {f[i] : i \in Windows(c)} = UNION {pairs(c, i) : i \in Windows(c)}
            BY <3>3
        <3> HIDE DEF pairs
        <3>5. f = [i \in Windows(c) |-> f[i]]
            OBVIOUS
        <3> HIDE DEF f
        <3> QED
            BY <3>1, <3>3, <3>4, <3>5, FamilyFinite
    <2> HIDE DEF pairs
    <2>3. \A c \in ToSet(g.flow) : IsFiniteSet(chain[c])
        BY <2>2
    <2>4. chain = [c \in ToSet(g.flow) |-> chain[c]]
        OBVIOUS
    <2>5. EdgesOf(g) = UNION {chain[c] : c \in ToSet(g.flow)}
        BY DEF EdgesOf, pairs
    <2>6. IsFiniteSet(ToSet(g.flow))
        BY <2>1, ListFinite
    <2> HIDE DEF chain
    <2> QED
        BY <2>3, <2>4, <2>5, <2>6, FamilyFinite
<1> DEFINE I == OfKind(p, "graph")
           f == [i \in I |-> EdgesOf(p[i])]
<1>2. \A i \in I : f[i] = EdgesOf(p[i]) /\ IsFiniteSet(f[i])
    BY <1>1, OfKindIs
<1>3. IsFiniteSet(I)
    BY KindFinite DEF IsProgram
<1>4. f = [i \in I |-> f[i]] /\ Edges(p) = UNION {f[i] : i \in I}
    BY DEF Edges
<1> HIDE DEF f, I
<1> QED
    BY <1>2, <1>3, <1>4, FamilyFinite

\* From a member of a program, a search over the edges in both directions finds it, and
\* goes along every edge either way; a set with that property has all it finds.
LEMMA ComponentIs ==
    ASSUME NEW p, IsProgram(p), NEW m
    PROVE  /\ m \in Component(p, m)
           /\ \A a, b : Follows(p, a, b) => (a \in Component(p, m) <=> b \in Component(p, m))
           /\ \A S : m \in S /\ (\A a, b : Follows(p, a, b) => (a \in S <=> b \in S)) => Component(p, m) \subseteq S
<1> DEFINE E == Edges(p)
           back == [e \in E |-> <<e[2], e[1]>>]
           B == {<<e[2], e[1]>> : e \in E}
           R == Component(p, m)
<1>1. IsFiniteSet(E)
    BY EdgesFinite
<1>2. IsFiniteSet(E \cup B)
    <2>1. back \in Surjection(E, B)
        BY DEF Surjection
    <2> HIDE DEF E, B, back
    <2>2. IsFiniteSet(B)
        BY <1>1, <2>1, FS_Surjection, Zenon
    <2> QED
        BY <1>1, <2>2, FS_Union
<1>3. /\ {m} \subseteq R
      /\ \A e \in E \cup B : e[1] \in R => e[2] \in R
      /\ \A S : {m} \subseteq S /\ (\A e \in E \cup B : e[1] \in S => e[2] \in S) => R \subseteq S
    <2>1. R = Reachable(E \cup B, {m})
        BY Zenon DEF Component
    <2> HIDE DEF E, B, R
    <2> DEFINE EB == E \cup B
    <2>2. IsFiniteSet(EB)
        BY <1>2
    <2> HIDE DEF EB
    <2>3. /\ {m} \subseteq Reachable(EB, {m})
          /\ \A e \in EB : e[1] \in Reachable(EB, {m}) => e[2] \in Reachable(EB, {m})
          /\ \A S : {m} \subseteq S /\ (\A e \in EB : e[1] \in S => e[2] \in S) => Reachable(EB, {m}) \subseteq S
        BY <2>2, Search, Zenon
    <2> QED
        BY <2>1, <2>3, Zenon DEF EB
<1>4. /\ \A e \in E \cup B : Follows(p, e[1], e[2]) \/ Follows(p, e[2], e[1])
      /\ \A a, b : Follows(p, a, b) => <<a, b>> \in E \cup B /\ <<b, a>> \in E \cup B
    <2>1. \A e \in E : Follows(p, e[1], e[2])
        BY EdgesAreFlows
    <2>2. \A a, b : Follows(p, a, b) => <<a, b>> \in E
        BY EdgesAreFlows
    <2>3. \A a, b : <<a, b>> \in E => <<b, a>> \in B
        <3> HIDE DEF E
        <3> SUFFICES ASSUME NEW a, NEW b, <<a, b>> \in E PROVE <<b, a>> \in B
            OBVIOUS
        <3>1. <<b, a>> = << <<a, b>>[2], <<a, b>>[1] >>
            OBVIOUS
        <3> QED
            BY <3>1
    <2>4. \A e \in B : Follows(p, e[2], e[1])
        <3> HIDE DEF E
        <3> QED
            BY <2>1
    <2> HIDE DEF E, B
    <2> QED
        BY <2>1, <2>2, <2>3, <2>4
<1> HIDE DEF E, B, R
<1>5. m \in R
    BY <1>3
<1>6. ASSUME NEW a, NEW b, Follows(p, a, b) PROVE a \in R <=> b \in R
    <2>1. <<a, b>>[1] = a /\ <<a, b>>[2] = b /\ <<b, a>>[1] = b /\ <<b, a>>[2] = a
        OBVIOUS
    <2>2. <<a, b>> \in E \cup B /\ <<b, a>> \in E \cup B
        BY <1>4, <1>6
    <2> QED
        BY <1>3, <2>1, <2>2
<1>7. ASSUME NEW S, m \in S, \A a, b : Follows(p, a, b) => (a \in S <=> b \in S)
      PROVE  R \subseteq S
    <2>1. \A e \in E \cup B : e[1] \in S => e[2] \in S
        BY <1>4, <1>7
    <2> QED
        BY <1>3, <1>7, <2>1
<1> QED
    BY <1>5, <1>6, <1>7 DEF R

\* The part of --rooted about flows accepts exactly the programs in one part.
THEOREM RootedIsUndivided ==
    ASSUME NEW p, IsProgram(p)
    PROVE  OneComponent(p) <=> Undivided(p)
<1> DEFINE flowing == UNION {UNION {UNION {ToSet(s) : s \in ToSet(c)} : c \in ToSet(g.flow)} : g \in {d \in ToSet(p) : d.k = "graph"}}
           all == NamesIn(p, "node") \cup {n \in flowing : \E m \in flowing : Follows(p, n, m) \/ Follows(p, m, n)}
           C(m) == Component(p, m)
<1>1. \A a, b : Follows(p, a, b) => a \in flowing /\ b \in flowing
    <2> SUFFICES ASSUME NEW a, NEW b, Follows(p, a, b) PROVE a \in flowing /\ b \in flowing
        OBVIOUS
    <2>1. PICK g \in ToSet(p) : g.k = "graph" /\ \E c \in ToSet(g.flow) : \E i \in DOMAIN c :
            i + 1 \in DOMAIN c /\ a \in ToSet(c[i]) /\ b \in ToSet(c[i + 1])
        BY DEF Follows
    <2>2. PICK c \in ToSet(g.flow) : \E i \in DOMAIN c :
            i + 1 \in DOMAIN c /\ a \in ToSet(c[i]) /\ b \in ToSet(c[i + 1])
        BY <2>1
    <2>3. PICK i \in DOMAIN c : i + 1 \in DOMAIN c /\ a \in ToSet(c[i]) /\ b \in ToSet(c[i + 1])
        BY <2>2
    <2>4. c[i] \in ToSet(c) /\ c[i + 1] \in ToSet(c)
        BY <2>3 DEF ToSet
    <2> QED
        BY <2>1, <2>3, <2>4
<1>2. Members(p) = all
    <2> HIDE DEF flowing
    <2>1. ASSUME NEW x \in UNION {{e[1], e[2]} : e \in Edges(p)} PROVE x \in all
        <3>1. PICK e \in Edges(p) : x = e[1] \/ x = e[2]
            OBVIOUS
        <3>2. Follows(p, e[1], e[2]) /\ e[1] \in flowing /\ e[2] \in flowing
            BY <1>1, EdgesAreFlows
        <3> QED
            BY <3>1, <3>2
    <2>2. ASSUME NEW a, NEW b, Follows(p, a, b) PROVE {a, b} \subseteq UNION {{e[1], e[2]} : e \in Edges(p)}
        <3>1. <<a, b>> \in Edges(p) /\ <<a, b>>[1] = a /\ <<a, b>>[2] = b
            BY <2>2, EdgesAreFlows
        <3> QED
            BY <3>1
    <2> QED
        BY <2>1, <2>2 DEF Members
<1>3. Undivided(p) <=> \A S \in (SUBSET all) \ {{}, all} : \E a \in S, b \in all \ S : Follows(p, a, b) \/ Follows(p, b, a)
    BY Zenon DEF Undivided
<1>4. \A a, b : Follows(p, a, b) => a \in all /\ b \in all
    <2> HIDE DEF flowing
    <2> QED
        BY <1>1
<1> HIDE DEF all, flowing
<1>5. ASSUME OneComponent(p), NEW S \in (SUBSET all) \ {{}, all}
      PROVE  \E a \in S, b \in all \ S : Follows(p, a, b) \/ Follows(p, b, a)
    <2> SUFFICES ASSUME \A a \in S, b \in all \ S : ~(Follows(p, a, b) \/ Follows(p, b, a)) PROVE FALSE
        OBVIOUS
    <2>1. PICK a \in S, b \in all \ S : TRUE
        BY <1>5
    <2>2. C(a) = C(b)
        BY <1>2, <1>5, <2>1 DEF OneComponent
    <2>3. b \in C(a)
        BY <2>2, ComponentIs
    <2>4. C(a) \subseteq S
        BY <1>4, <2>1, ComponentIs
    <2> QED
        BY <2>1, <2>3, <2>4
<1>6. ASSUME Undivided(p), NEW m \in all
      PROVE  all \subseteq C(m)
    <2> SUFFICES ASSUME ~(all \subseteq C(m)) PROVE FALSE
        OBVIOUS
    <2>1. C(m) \cap all \in (SUBSET all) \ {{}, all}
        BY ComponentIs
    <2>2. PICK a \in C(m) \cap all, b \in all \ (C(m) \cap all) : Follows(p, a, b) \/ Follows(p, b, a)
        BY <1>3, <1>6, <2>1
    <2> QED
        BY <2>2, ComponentIs
<1>7. ASSUME Undivided(p), NEW m \in all, NEW n \in all
      PROVE  C(m) \subseteq C(n)
    <2>1. m \in C(n)
        BY <1>6, <1>7
    <2> QED
        BY <2>1, ComponentIs
<1>8. Undivided(p) => OneComponent(p)
    BY <1>2, <1>7 DEF OneComponent
<1> QED
    BY <1>3, <1>5, <1>8

\* The calls of resolved_base: they end at a type that is no alias, or that is one
\* that was seen; and whoever was seen leads to that end.
LEMMA CallsEnd ==
    ASSUME NEW p, IsProgram(p), NEW t
    PROVE  \E last :
             /\ ResolvedBase(p, t) = IF last.t.k = "base" /\ last.t.n \notin last.seen THEN {last.t.n} ELSE {}
             /\ last.seen \subseteq NamesIn(p, "type")
             /\ ~(last.t.k = "base" /\ last.t.n \in NamesIn(p, "type") \ last.seen)
             /\ t = last.t \/ (t.k = "base" /\ t.n \in last.seen)
             /\ \A m \in last.seen : LET r == LastNamed(p, "type", m).rhs
                                     IN  r = last.t \/ (r.k = "base" /\ r.n \in last.seen)
             /\ \A S : /\ last.t.k = "base" /\ last.t.n \in S
                       /\ \A m \in NamesIn(p, "type") : LET r == LastNamed(p, "type", m).rhs
                                                         IN  r.k = "base" /\ r.n \in S => m \in S
                       => t.k = "base" /\ t.n \in S
<1> DEFINE own == NamesIn(p, "type")
           n == Cardinality(own)
           rhs(m) == LastNamed(p, "type", m).rhs
           C == [t : {t} \cup {rhs(m) : m \in own}, seen : SUBSET own]
           base == [t |-> t, seen |-> {}]
           goes(c) == c.t.k = "base" /\ c.t.n \in own \ c.seen
           after(c) == IF goes(c) THEN [t |-> rhs(c.t.n), seen |-> c.seen \cup {c.t.n}] ELSE c
           step == [k \in 1..n |-> [c \in C |-> after(c)]]
           call[k \in 0..n] ==
             IF k = 0 THEN [t |-> t, seen |-> {}]
             ELSE LET c == call[k - 1]
                  IN  IF goes(c) THEN [t |-> rhs(c.t.n), seen |-> c.seen \cup {c.t.n}] ELSE c
<1>1. IsFiniteSet(own) /\ n \in Nat /\ base \in C
    BY KindFinite, FS_CardinalityType DEF IsProgram
<1>2. step \in [1..n -> [C -> C]]
    <2>1. \A c \in C : after(c) \in C
        OBVIOUS
    <2> HIDE DEF C, after
    <2> QED
        BY <2>1
<1>3. PICK f \in [0..n -> C] : RecursBy(f, n, base, step)
    <2> HIDE DEF n, C, step, base
    <2> QED
        BY <1>1, <1>2, Iterates, Zenon
<1>4. f = [k \in 0..n |->
             IF k = 0 THEN [t |-> t, seen |-> {}]
             ELSE LET c == f[k - 1]
                  IN  IF goes(c) THEN [t |-> rhs(c.t.n), seen |-> c.seen \cup {c.t.n}] ELSE c]
    <2>1. ASSUME NEW k \in 0..n, k # 0
          PROVE  f[k] = after(f[k - 1])
        <3>1. k \in 1..n /\ f[k - 1] \in C
            <4> HIDE DEF C, n
            <4> QED
                BY <1>1, <2>1
        <3>2. f[k] = step[k][f[k - 1]]
            BY <1>3, <3>1 DEF RecursBy
        <3> HIDE DEF C, n, after
        <3> QED
            BY <3>1, <3>2
    <2>2. f[0] = base
        BY <1>3 DEF RecursBy
    <2> HIDE DEF C, n
    <2> QED
        BY <2>1, <2>2
<1>5. call = [k \in 0..n |->
             IF k = 0 THEN [t |-> t, seen |-> {}]
             ELSE LET c == call[k - 1]
                  IN  IF goes(c) THEN [t |-> rhs(c.t.n), seen |-> c.seen \cup {c.t.n}] ELSE c]
    BY <1>4, Zenon
<1>6. call[0] = base /\ \A k \in 0..(n - 1) : k + 1 \in 0..n /\ call[k + 1] = after(call[k])
    <2> HIDE DEF call, n
    <2>1. \A k \in 0..(n - 1) : k + 1 \in 0..n /\ k + 1 # 0 /\ (k + 1) - 1 = k
        BY <1>1
    <2>2. 0 \in 0..n
        BY <1>1
    <2> QED
        BY <1>5, <2>1, <2>2
<1> DEFINE last == call[n]
<1>7. ResolvedBase(p, t) = IF last.t.k = "base" /\ last.t.n \notin last.seen THEN {last.t.n} ELSE {}
    BY Zenon DEF ResolvedBase
<1> HIDE DEF call, n
<1> DEFINE Good(c) == /\ c.seen \subseteq own
                      /\ t = c.t \/ (t.k = "base" /\ t.n \in c.seen)
                      /\ \A m \in c.seen : rhs(m) = c.t \/ (rhs(m).k = "base" /\ rhs(m).n \in c.seen)
<1>8. \A c : Good(c) => Good(after(c))
    <2> SUFFICES ASSUME NEW c, Good(c), goes(c) PROVE Good(after(c))
        OBVIOUS
    <2> DEFINE d == [t |-> rhs(c.t.n), seen |-> c.seen \cup {c.t.n}]
    <2>1. after(c) = d /\ d.t = rhs(c.t.n) /\ d.seen = c.seen \cup {c.t.n} /\ c.t.k = "base" /\ c.t.n \in own
        OBVIOUS
    <2> HIDE DEF after, d
    <2> QED
        BY <2>1
<1>9. \A k \in 0..n : Good(call[k])
    <2> DEFINE P == {k \in 0..n : Good(call[k])}
    <2>1. 0 \in P
        BY <1>1, <1>6
    <2>2. \A k \in 0..(n - 1) : k \in P => k + 1 \in P
        <3> HIDE DEF Good, after
        <3> QED
            BY <1>6, <1>8
    <2> HIDE DEF P
    <2>3. \A k \in 0..n : k \in P
        BY <1>1, <2>1, <2>2, InductUpTo
    <2> QED
        BY <2>3 DEF P
<1>10. \A k \in 0..n : goes(call[k]) => Cardinality(call[k].seen) = k
    <2> DEFINE P == {k \in 0..n : goes(call[k]) => Cardinality(call[k].seen) = k}
    <2>1. 0 \in P
        <3>1. Cardinality(call[0].seen) = 0
            <4>1. call[0].seen = {}
                BY <1>6
            <4> QED
                BY <4>1, FS_EmptySet
        <3> QED
            BY <1>1, <3>1
    <2>2. ASSUME NEW k \in 0..(n - 1), k \in P PROVE k + 1 \in P
        <3>1. k \in 0..n /\ k \in Nat /\ k + 1 \in 0..n /\ call[k + 1] = after(call[k])
            BY <1>1, <1>6
        <3>2. CASE goes(call[k])
            <4>1. Cardinality(call[k].seen) = k
                BY <2>2, <3>2
            <4>2. IsFiniteSet(call[k].seen)
                <5>1. call[k].seen \in SUBSET own
                    BY <1>9, <3>1
                <5> HIDE DEF own
                <5> QED
                    BY <1>1, <5>1, FS_Subset
            <4>3. Cardinality(call[k].seen \cup {call[k].t.n}) = k + 1
                BY <3>2, <4>1, <4>2, FS_AddElement
            <4>4. call[k + 1].seen = call[k].seen \cup {call[k].t.n}
                BY <3>1, <3>2
            <4> QED
                BY <3>1, <4>3, <4>4
        <3>3. CASE ~goes(call[k])
            BY <3>1, <3>3
        <3> QED
            BY <3>2, <3>3
    <2> HIDE DEF P
    <2>3. \A k \in 0..n : k \in P
        BY <1>1, <2>1, <2>2, InductUpTo
    <2> QED
        BY <2>3 DEF P
<1>11. n \in 0..n /\ 0 \in 0..n
    BY <1>1
<1>12. ~goes(last)
    <2> SUFFICES ASSUME goes(last) PROVE FALSE
        OBVIOUS
    <2>1. Cardinality(last.seen) = Cardinality(own) /\ last.seen \in SUBSET own
        BY <1>9, <1>10, <1>11 DEF n
    <2>2. own = last.seen
        <3> HIDE DEF own, last
        <3> QED
            BY <1>1, <2>1, FS_Subset
    <2> QED
        BY <2>2
<1>13. ASSUME NEW S, last.t.k = "base", last.t.n \in S,
              \A m \in own : rhs(m).k = "base" /\ rhs(m).n \in S => m \in S
       PROVE  t.k = "base" /\ t.n \in S
    <2> DEFINE In(c) == c.t.k = "base" /\ c.t.n \in S
               P == {j \in 0..n : In(call[n - j])}
    <2>1. \A c : In(after(c)) => In(c)
        BY <1>13
    <2>2. 0 \in P
        BY <1>1, <1>11, <1>13
    <2>3. ASSUME NEW j \in 0..(n - 1), j \in P PROVE j + 1 \in P
        <3>1. n - (j + 1) \in 0..(n - 1) /\ (n - (j + 1)) + 1 = n - j /\ j + 1 \in 0..n
            BY <1>1
        <3>2. call[n - j] = after(call[n - (j + 1)]) /\ In(call[n - j])
            <4> HIDE DEF after, In
            <4>1. call[(n - (j + 1)) + 1] = after(call[n - (j + 1)])
                BY <1>6, <3>1
            <4> QED
                BY <2>3, <3>1, <4>1
        <3> HIDE DEF after, In
        <3> QED
            BY <2>1, <3>1, <3>2
    <2>4. n \in P
        <3> HIDE DEF P
        <3>1. \A j \in 0..n : j \in P
            BY <1>1, <2>2, <2>3, InductUpTo
        <3> QED
            BY <1>11, <3>1
    <2>5. In(call[n - n]) /\ n - n = 0
        BY <1>1, <2>4
    <2> QED
        BY <1>6, <2>5
<1>14. Good(last)
    BY <1>9, <1>11
<1> HIDE DEF last
<1>15. \E c : c = last
    OBVIOUS
<1> QED
    BY <1>7, <1>12, <1>13, <1>14

\* A default is accepted exactly if its type stands for that of the literal.
LEMMA ResolvesToWhatItIs ==
    ASSUME NEW p, IsProgram(p), NEW t, NEW type
    PROVE  type \in ResolvedBase(p, t) <=> t.k = "base" /\ StandsFor(p, t.n, type)
<1> DEFINE own == NamesIn(p, "type")
           rhs(m) == LastNamed(p, "type", m).rhs
<1>1. PICK last :
         /\ ResolvedBase(p, t) = IF last.t.k = "base" /\ last.t.n \notin last.seen THEN {last.t.n} ELSE {}
         /\ last.seen \subseteq own
         /\ ~(last.t.k = "base" /\ last.t.n \in own \ last.seen)
         /\ t = last.t \/ (t.k = "base" /\ t.n \in last.seen)
         /\ \A m \in last.seen : rhs(m) = last.t \/ (rhs(m).k = "base" /\ rhs(m).n \in last.seen)
         /\ \A S : /\ last.t.k = "base" /\ last.t.n \in S
                   /\ \A m \in own : rhs(m).k = "base" /\ rhs(m).n \in S => m \in S
                   => t.k = "base" /\ t.n \in S
    BY CallsEnd, Zenon
<1>2. StandsFor(p, t.n, type) <=>
        /\ type \notin own
        /\ \A S \in SUBSET (own \cup {type}) :
             type \in S /\ (\A m \in own : rhs(m).k = "base" /\ rhs(m).n \in S => m \in S) => t.n \in S
    BY Zenon DEF StandsFor
<1> HIDE DEF own, rhs
<1>3. ASSUME type \in ResolvedBase(p, t) PROVE t.k = "base" /\ StandsFor(p, t.n, type)
    <2>1. last.t.k = "base" /\ last.t.n = type /\ type \notin own
        BY <1>1, <1>3
    <2>2. \A S : type \in S /\ (\A m \in own : rhs(m).k = "base" /\ rhs(m).n \in S => m \in S) => t.k = "base" /\ t.n \in S
        BY <1>1, <2>1
    <2>3. t.k = "base"
        <3>1. type \in own \cup {type} /\ \A m \in own : rhs(m).k = "base" /\ rhs(m).n \in own \cup {type} => m \in own \cup {type}
            OBVIOUS
        <3> QED
            BY <2>2, <3>1
    <2> QED
        BY <1>2, <2>1, <2>2, <2>3
<1>4. ASSUME t.k = "base", StandsFor(p, t.n, type), type \notin ResolvedBase(p, t) PROVE FALSE
    <2> DEFINE V == last.seen \cup {x \in {last.t.n} : last.t.k = "base"}
               S == (own \cup {type}) \ V
    <2>1. type \in S
        BY <1>1, <1>2, <1>4
    <2>2. \A m \in own : rhs(m).k = "base" /\ rhs(m).n \in S => m \in S
        BY <1>1
    <2>3. t.n \in V
        BY <1>1, <1>4
    <2>4. S \in SUBSET (own \cup {type})
        OBVIOUS
    <2> HIDE DEF S
    <2>5. t.n \in S
        BY <1>2, <1>4, <2>1, <2>2, <2>4
    <2> QED
        BY <2>3, <2>5 DEF S
<1> QED
    BY <1>3, <1>4

\* As many keys as there are pieces of state is the same as no key twice.
LEMMA KeysAreOwn ==
    ASSUME NEW d, IsDecl(d)
    PROVE  OwnKeys(d) <=> OwnPaths(d)
<1>1. CASE d.k = "type"
    BY <1>1 DEF OwnKeys, OwnPaths, States
<1>2. CASE d.k # "type"
    <2> DEFINE s == d.state
               K == {x.key : x \in ToSet(s)}
               f == [i \in DOMAIN s |-> s[i].key]
    <2>1. States(d) = s /\ Lists(s)
        BY <1>2 DEF States, IsDecl
    <2>2. IsFiniteSet(DOMAIN s) /\ Cardinality(DOMAIN s) = Len(s)
        BY <2>1, ListFinite
    <2>3. f \in Surjection(DOMAIN s, K)
        BY DEF Surjection, ToSet
    <2>4. Cardinality(K) = Len(s) <=> f \in Injection(DOMAIN s, K)
        <3> HIDE DEF f, K, s
        <3> QED
            BY <2>2, <2>3, FS_Surjection
    <2>5. f \in Injection(DOMAIN s, K) <=> \A i, j \in DOMAIN s : s[i].key = s[j].key => i = j
        BY <2>3 DEF Injection, IsInjective, Surjection
    <2>6. OwnPaths(d) <=> Cardinality(K) = Len(s)
        BY <1>2 DEF OwnPaths
    <2>7. OwnKeys(d) <=> \A i, j \in DOMAIN s : s[i].key = s[j].key => i = j
        BY <2>1 DEF OwnKeys
    <2> QED
        BY <2>4, <2>5, <2>6, <2>7
<1> QED
    BY <1>1, <1>2

\* --state accepts exactly the programs whose defaults are of the types of their
\* state, and in which no declaration has two pieces of state at one path.
THEOREM StateIsTyped ==
    ASSUME NEW p, IsProgram(p)
    PROVE  StateCheck(p) <=> DefaultsTyped(p) /\ \A d \in ToSet(p) : OwnPaths(d)
<1>1. (\A i \in DOMAIN p : OwnKeys(p[i])) <=> \A d \in ToSet(p) : OwnPaths(d)
    <2>1. \A d \in ToSet(p) : OwnKeys(d) <=> OwnPaths(d)
        BY KeysAreOwn DEF IsProgram
    <2> QED
        BY <2>1 DEF ToSet
<1>2. ASSUME NEW s, NEW lit
      PROVE  DefaultMatches(p, lit, s.t) <=> s.t.k = "base" /\ StandsFor(p, s.t.n, TypeOfLit[lit.k])
    BY ResolvesToWhatItIs DEF DefaultMatches
<1>3. ASSUME NEW d
      PROVE  (\A s \in ToSet(States(d)) : \A lit \in ToSet(s.default) : DefaultMatches(p, lit, s.t)) <=>
             (d.k # "type" => \A s \in ToSet(d.state) : \A lit \in ToSet(s.default) :
                                s.t.k = "base" /\ StandsFor(p, s.t.n, TypeOfLit[lit.k]))
    <2>1. ToSet(<<>>) = {}
        BY DEF ToSet
    <2>2. CASE d.k = "type"
        BY <2>1, <2>2 DEF States
    <2>3. CASE d.k # "type"
        <3>1. States(d) = d.state
            BY <2>3 DEF States
        <3> QED
            BY <1>2, <2>3, <3>1, Zenon
    <2> QED
        BY <2>2, <2>3
<1>4. DefaultsHold(p) <=> \A d \in ToSet(p) : \A s \in ToSet(States(d)) : \A lit \in ToSet(s.default) : DefaultMatches(p, lit, s.t)
    BY DEF DefaultsHold, ToSet
<1>5. DefaultsHold(p) <=> DefaultsTyped(p)
    BY <1>3, <1>4, Zenon DEF DefaultsTyped
<1> QED
    BY <1>1, <1>5 DEF StateCheck
----------------------------------------------------------------------------
(* Layout. *)

\* How often a token occurs in a sequence.
LEMMA CountType ==
    ASSUME NEW s \in Seq(STRING), NEW x
    PROVE  Count(s, x) \in Nat
<1>1. IsFiniteSet(DOMAIN s)
    BY FS_Interval
<1>2. {i \in DOMAIN s : s[i] = x} \in SUBSET DOMAIN s
    OBVIOUS
<1>3. IsFiniteSet({i \in DOMAIN s : s[i] = x})
    BY <1>1, <1>2, FS_Subset
<1> QED
    BY <1>3, FS_CardinalityType DEF Count

\* A token occurs as often in two sequences as in both together.
LEMMA CountConcat ==
    ASSUME NEW s \in Seq(STRING), NEW t \in Seq(STRING), NEW x
    PROVE  Count(s \o t, x) = Count(s, x) + Count(t, x)
<1> DEFINE A == {i \in DOMAIN s : s[i] = x}
           B == {i \in DOMAIN t : t[i] = x}
           C == {i \in DOMAIN (s \o t) : (s \o t)[i] = x}
           D == {i + Len(s) : i \in B}
           f == [i \in B |-> i + Len(s)]
<1>1. IsFiniteSet(A) /\ IsFiniteSet(B)
    <2>1. IsFiniteSet(DOMAIN s) /\ IsFiniteSet(DOMAIN t)
        BY FS_Interval
    <2>2. A \in SUBSET DOMAIN s /\ B \in SUBSET DOMAIN t
        OBVIOUS
    <2> HIDE DEF A, B
    <2> QED
        BY <2>1, <2>2, FS_Subset
<1>2. f \in Bijection(B, D)
    BY DEF Bijection, Injection, IsInjective, Surjection
<1>3. IsFiniteSet(D) /\ Cardinality(D) = Cardinality(B)
    <2> HIDE DEF B, D, f
    <2> QED
        BY <1>1, <1>2, FS_Bijection DEF ExistsBijection
<1>4. C = A \cup D
    <2>1. ASSUME NEW i \in C PROVE i \in A \cup D
        <3>1. i \in 1..(Len(s) + Len(t))
            OBVIOUS
        <3>2. CASE i <= Len(s)
            BY <3>1, <3>2
        <3>3. CASE i > Len(s)
            <4>1. i - Len(s) \in DOMAIN t /\ t[i - Len(s)] = x /\ i = (i - Len(s)) + Len(s)
                BY <3>1, <3>3
            <4> QED
                BY <4>1
        <3> QED
            BY <3>1, <3>2, <3>3
    <2>2. A \subseteq C
        OBVIOUS
    <2>3. D \subseteq C
        OBVIOUS
    <2> QED
        BY <2>1, <2>2, <2>3
<1>5. A \cap D = {}
    OBVIOUS
<1>6. Cardinality({}) = 0 /\ Cardinality(A) \in Nat /\ Cardinality(B) \in Nat
    BY <1>1, FS_EmptySet, FS_CardinalityType
<1>7. Count(s \o t, x) = Cardinality(C) /\ Count(s, x) = Cardinality(A) /\ Count(t, x) = Cardinality(B)
    BY DEF Count
<1> HIDE DEF A, B, C, D
<1>8. Cardinality(C) = Cardinality(A) + Cardinality(D) - Cardinality(A \cap D)
    BY <1>1, <1>3, <1>4, FS_Union
<1>9. Cardinality(A \cap D) = 0
    BY <1>5, <1>6
<1> HIDE DEF f
<1> QED
    BY <1>3, <1>6, <1>7, <1>8, <1>9

\* What is not there occurs never.
LEMMA CountNone ==
    ASSUME NEW s \in Seq(STRING), NEW x, x \notin ToSet(s)
    PROVE  Count(s, x) = 0
<1>1. {i \in DOMAIN s : s[i] = x} = {}
    BY DEF ToSet
<1> QED
    BY <1>1, FS_EmptySet DEF Count

\* Copies of one token.
LEMMA CountAll ==
    ASSUME NEW m \in Nat, NEW x
    PROVE  Count([i \in 1..m |-> x], x) = m
<1>1. {j \in DOMAIN [i \in 1..m |-> x] : [i \in 1..m |-> x][j] = x} = 1..m
    OBVIOUS
<1>2. Cardinality(1..m) = m
    BY FS_Interval
<1> QED
    BY <1>1, <1>2 DEF Count

\* A sequence of one.
LEMMA OneIsSeq ==
    ASSUME NEW T, NEW y \in T
    PROVE  <<y>> \in Seq(T) /\ DOMAIN <<y>> = {1} /\ <<y>>[1] = y /\ ToSet(<<y>>) = {y}
<1>1. <<y>> \in Seq(T)
    OBVIOUS
<1>2. Len(<<y>>) = 1 /\ <<y>>[1] = y
    OBVIOUS
<1>3. DOMAIN <<y>> = 1..1 /\ 1..1 = {1}
    OBVIOUS
<1>4. \A s : DOMAIN s = {1} => ToSet(s) = {s[1]}
    BY DEF ToSet
<1> QED
    BY <1>1, <1>2, <1>3, <1>4

\* A token occurs once in the sequence of it.
LEMMA CountOne ==
    ASSUME NEW y \in STRING, NEW x
    PROVE  Count(<<y>>, x) = IF x = y THEN 1 ELSE 0
<1>0. <<y>> \in Seq(STRING) /\ DOMAIN <<y>> = {1} /\ <<y>>[1] = y /\ ToSet(<<y>>) = {y}
    BY OneIsSeq
<1>1. CASE x = y
    <2>1. {i \in DOMAIN <<y>> : <<y>>[i] = x} = {1}
        BY <1>0, <1>1, Zenon
    <2>2. Cardinality({1}) = 1
        BY FS_Singleton
    <2> QED
        BY <1>1, <2>1, <2>2 DEF Count
<1>2. CASE x # y
    <2> QED
        BY <1>0, <1>2, CountNone
<1> QED
    BY <1>1, <1>2

\* A set of numbers up to n that is not empty has a greatest.
LEMMA Greatest ==
    ASSUME NEW n \in Nat, NEW S \in SUBSET (1..n), S # {}
    PROVE  Max(S) \in S /\ \A k \in S : Max(S) >= k
<1> DEFINE R == {n - i : i \in S}
<1>1. R \in SUBSET Nat /\ R # {}
    <2>1. \A i \in S : n - i \in Nat
        OBVIOUS
    <2>2. \E i \in S : TRUE
        OBVIOUS
    <2> QED
        BY <2>1, <2>2
<1>2. PICK r \in R : \A k \in R : r <= k
    <2> HIDE DEF R
    <2> QED
        BY <1>1, LeastNumber
<1>3. PICK m \in S : r = n - m
    OBVIOUS
<1>4. \A k \in S : m >= k
    <2> SUFFICES ASSUME NEW k \in S PROVE m >= k
        OBVIOUS
    <2>1. n - m <= n - k
        BY <1>2, <1>3
    <2> QED
        BY <2>1
<1>5. \E x \in S : \A y \in S : x >= y
    BY <1>4
<1> QED
    BY <1>5, Zenon DEF Max

\* Two sequences have the members of both.
LEMMA ConcatToSet ==
    ASSUME NEW T, NEW s \in Seq(T), NEW t \in Seq(T)
    PROVE  ToSet(s \o t) = ToSet(s) \cup ToSet(t)
<1>1. \A i \in DOMAIN s : i \in DOMAIN (s \o t) /\ (s \o t)[i] = s[i]
    OBVIOUS
<1>2. \A i \in DOMAIN t : i + Len(s) \in DOMAIN (s \o t) /\ (s \o t)[i + Len(s)] = t[i]
    OBVIOUS
<1>3. \A i \in DOMAIN (s \o t) : (i \in DOMAIN s /\ (s \o t)[i] = s[i]) \/ (i - Len(s) \in DOMAIN t /\ (s \o t)[i] = t[i - Len(s)])
    OBVIOUS
<1>4. ToSet(s) \subseteq ToSet(s \o t) /\ ToSet(t) \subseteq ToSet(s \o t)
    BY <1>1, <1>2, Zenon DEF ToSet
<1>5. ToSet(s \o t) \subseteq ToSet(s) \cup ToSet(t)
    BY <1>3, Zenon DEF ToSet
<1> QED
    BY <1>4, <1>5

\* It does not matter which two of three sequences are joined first.
LEMMA ConcatAssociates ==
    ASSUME NEW T, NEW s \in Seq(T), NEW t \in Seq(T), NEW u \in Seq(T)
    PROVE  s \o (t \o u) = (s \o t) \o u
<1> DEFINE a == s \o (t \o u)
           b == (s \o t) \o u
<1>1. a \in Seq(T) /\ b \in Seq(T) /\ Len(a) = Len(s) + (Len(t) + Len(u)) /\ Len(b) = Len(a)
    OBVIOUS
<1>2. \A i \in 1..Len(a) : a[i] = b[i]
    OBVIOUS
<1> HIDE DEF a, b
<1>3. a = b
    BY <1>1, <1>2
<1> QED
    BY <1>3 DEF a, b

\* Two sequences, one behind the other.
LEMMA ConcatIs ==
    ASSUME NEW T, NEW s \in Seq(T), NEW t \in Seq(T)
    PROVE  /\ s \o t \in Seq(T) /\ Len(s \o t) = Len(s) + Len(t)
           /\ \A i \in 1..Len(s) : (s \o t)[i] = s[i]
           /\ \A i \in 1..Len(t) : (s \o t)[Len(s) + i] = t[i]
<1>1. s \o t \in Seq(T)
    OBVIOUS
<1>2. Len(s \o t) = Len(s) + Len(t)
    OBVIOUS
<1>3. \A i \in 1..Len(s) : (s \o t)[i] = s[i]
    OBVIOUS
<1>4. \A i \in 1..Len(t) : (s \o t)[Len(s) + i] = t[i]
    OBVIOUS
<1> QED
    BY <1>1, <1>2, <1>3, <1>4

\* What the lexer is between two lexemes.
LexerState == [out : Seq(STRING), stack : Seq(Nat), depth : Int, start : BOOLEAN, ind : Nat, comment : BOOLEAN, err : BOOLEAN]

\* No token is the last one yet, and there are as many open blocks as BlocksNest says.
Reading(l) ==
  /\ l \in LexerState
  /\ l.stack # <<>> /\ l.stack[1] = 0
  /\ \A i \in 2..Len(l.stack) : l.stack[i - 1] < l.stack[i]
  /\ Eof \notin ToSet(l.out)
  /\ Count(l.out, Indent) - Count(l.out, Dedent) = Len(l.stack) - 1

\* The lexer has come to the end: the last token and no other is Eof, and all blocks
\* are closed.
HasRead(l) ==
  /\ l.out \in Seq(STRING) /\ l.out # <<>> /\ Last(l.out) = Eof
  /\ \A i \in 1..(Len(l.out) - 1) : l.out[i] # Eof
  /\ l.stack[1] = 0
  /\ \A i \in 2..Len(l.stack) : l.stack[i - 1] < l.stack[i]
  /\ Count(l.out, Indent) = Count(l.out, Dedent)

\* The tokens that the layout gives are strings like any other.
LEMMA MarksAre ==
    /\ Newline \in STRING /\ Indent \in STRING /\ Dedent \in STRING /\ Eof \in STRING
    /\ Newline # Indent /\ Newline # Dedent /\ Newline # Eof /\ Indent # Dedent /\ Indent # Eof /\ Dedent # Eof
<1>1. Newline \in STRING /\ Indent \in STRING /\ Dedent \in STRING /\ Eof \in STRING
    BY LayoutAssumption, Zenon DEF LayoutAssumption, Marks
<1> QED
    BY <1>1 DEF Newline, Indent, Dedent, Eof

\* No lexeme gives one of these.
LEMMA TokensAreNoMarks ==
    ASSUME NEW s, Meaningful(s), NEW prev
    PROVE  Tokens(s, prev) \in Seq(STRING) /\ ToSet(Tokens(s, prev)) \cap Marks = {}
<1>1. s \in STRING /\ s \notin Marks
    BY LayoutAssumption DEF LayoutAssumption, Meaningful
<1>2. ASSUME NEW y \in STRING, y \notin Marks
      PROVE  <<y>> \in Seq(STRING) /\ ToSet(<<y>>) \cap Marks = {}
    <2>1. <<y>> \in Seq(STRING) /\ ToSet(<<y>>) = {y}
        BY OneIsSeq
    <2> QED
        BY <1>2, <2>1
<1>3. CASE s \in DOMAIN Numerals
    <2>1. Tokens(s, prev) = NumberTokens(s, prev)
        BY <1>3, LayoutAssumption DEF Tokens, LayoutAssumption
    <2>2. NumberTokens(s, prev) = Numerals[s].parts \/ NumberTokens(s, prev) = <<s>>
        BY DEF NumberTokens
    <2>3. Numerals[s].parts \in Seq(STRING) /\ ToSet(Numerals[s].parts) \cap Marks = {}
        BY <1>3, LayoutAssumption, Zenon DEF LayoutAssumption
    <2> QED
        BY <1>1, <1>2, <2>1, <2>2, <2>3, Zenon
<1>4. CASE s \in DOMAIN Glyph /\ s \notin DOMAIN Numerals
    <2>1. Tokens(s, prev) = <<Glyph[s]>>
        BY <1>4, Zenon DEF Tokens
    <2>2. PICK r \in Glyphs : r[1] = s /\ Glyph[s] = r[2]
        <3>1. DOMAIN Glyph = {r[1] : r \in Glyphs}
            BY Zenon DEF Glyph
        <3>2. Glyph[s] = (CHOOSE r \in Glyphs : r[1] = s)[2]
            BY <1>4, <3>1, Zenon DEF Glyph
        <3>3. \E r \in Glyphs : r[1] = s
            BY <1>4, <3>1, Zenon
        <3> QED
            BY <3>2, <3>3, Zenon
    <2>3. r[2] \in Symbols \cup Keywords
        <3>1. r[2] \in {"->", "=>", "<=", ">=", "!="} \cup
                       {"forall", "exists", "in", "subset", "union", "intersect", "and", "or", "not", "e", "d"}
            BY <2>2 DEF Glyphs
        <3>2. {"->", "=>", "<=", ">=", "!="} \subseteq Symbols
            BY DEF Symbols
        <3>3. {"forall", "exists", "in", "subset", "union", "intersect", "and", "or", "not", "e", "d"} \subseteq Keywords
            BY DEF Keywords
        <3> QED
            BY <3>1, <3>2, <3>3, Zenon
    <2>4. r[2] \in STRING /\ r[2] \notin Marks
        BY <2>3, LayoutAssumption, Zenon DEF LayoutAssumption, Lexemes, Idents
    <2> QED
        BY <1>2, <2>1, <2>2, <2>4
<1>5. CASE s \notin DOMAIN Glyph /\ s \notin DOMAIN Numerals
    <2>1. Tokens(s, prev) = <<s>>
        BY <1>5, Zenon DEF Tokens
    <2> QED
        BY <1>1, <1>2, <2>1
<1> QED
    BY <1>3, <1>4, <1>5

\* Tokens that are no marks change nothing of what Reading says.
LEMMA ReadsOn ==
    ASSUME NEW l, Reading(l), NEW ts \in Seq(STRING), ToSet(ts) \cap {Indent, Dedent, Eof} = {}
    PROVE  Reading(Emit(l, ts))
<1>1. l.out \in Seq(STRING) /\ Emit(l, ts) = [l EXCEPT !.out = l.out \o ts]
    BY DEF Reading, LexerState, Emit
<1>2. Count(l.out \o ts, Indent) = Count(l.out, Indent) /\ Count(l.out \o ts, Dedent) = Count(l.out, Dedent)
    <2>1. Count(ts, Indent) = 0 /\ Count(ts, Dedent) = 0
        BY CountNone
    <2> QED
        BY <1>1, <2>1, CountConcat, CountType
<1>3. l.out \o ts \in Seq(STRING) /\ Eof \notin ToSet(l.out \o ts)
    <2>1. ToSet(l.out \o ts) = ToSet(l.out) \cup ToSet(ts)
        BY <1>1, ConcatToSet
    <2> QED
        BY <1>1, <2>1 DEF Reading
<1> QED
    BY <1>1, <1>2, <1>3 DEF Reading, LexerState

\* The blocks that stay open are the outermost ones.
LEMMA OpenIs ==
    ASSUME NEW l, Reading(l)
    PROVE  /\ Open(l) \in Seq(Nat) /\ Len(Open(l)) \in 1..Len(l.stack)
           /\ \A i \in 1..Len(Open(l)) : Open(l)[i] = l.stack[i]
<1> DEFINE W == {i \in DOMAIN l.stack : l.stack[i] <= l.ind}
           m == Max(W)
<1>1. l.stack \in Seq(Nat) /\ l.stack # <<>> /\ l.stack[1] = 0 /\ l.ind \in Nat
    BY DEF Reading, LexerState
<1>2. Len(l.stack) \in Nat /\ DOMAIN l.stack = 1..Len(l.stack) /\ 1 \in DOMAIN l.stack
    BY <1>1
<1>3. W \in SUBSET (1..Len(l.stack)) /\ W # {}
    <2>1. 1 \in W
        BY <1>1, <1>2
    <2> QED
        BY <1>2, <2>1
<1>4. m \in 1..Len(l.stack)
    <2> HIDE DEF W
    <2> QED
        BY <1>2, <1>3, Greatest
<1>5. Open(l) = SubSeq(l.stack, 1, m)
    BY DEF Open
<1> HIDE DEF m, W
<1> QED
    BY <1>1, <1>4, <1>5

\* A line that is indented less closes blocks, each with a Dedent.
LEMMA BlocksClose ==
    ASSUME NEW l, Reading(l)
    PROVE  Reading(CloseBlocks(l))
<1> DEFINE m == Len(Open(l))
           n == Len(l.stack) - m
           ds == [i \in 1..n |-> Dedent]
           e == Last(Open(l)) # l.ind
<1>1. m \in 1..Len(l.stack) /\ n \in Nat /\ Open(l) \in Seq(Nat) /\ (\A i \in 1..m : Open(l)[i] = l.stack[i])
    <2>1. l.stack \in Seq(Nat)
        BY DEF Reading, LexerState
    <2> QED
        BY <2>1, OpenIs
<1>2. ds \in Seq(STRING) /\ Count(ds, Dedent) = n /\ Count(ds, Indent) = 0 /\ Eof \notin ToSet(ds)
    <2>1. \A x : n \in Nat /\ x \in STRING => [i \in 1..n |-> x] \in Seq(STRING)
        OBVIOUS
    <2>2. ds \in Seq(STRING)
        BY <1>1, <2>1, MarksAre
    <2>3. ToSet(ds) \subseteq {Dedent}
        BY DEF ToSet
    <2>4. Count(ds, Dedent) = n
        <3> HIDE DEF n
        <3> QED
            BY <1>1, CountAll
    <2> HIDE DEF ds
    <2>5. Count(ds, Indent) = 0
        BY <2>2, <2>3, CountNone, MarksAre
    <2> QED
        BY <2>2, <2>3, <2>4, <2>5, MarksAre
<1>3. l.out \in Seq(STRING) /\ Count(l.out, Dedent) \in Nat /\ Count(l.out, Indent) \in Nat
    BY CountType DEF Reading, LexerState
<1> DEFINE c == [l EXCEPT !.out = l.out \o ds, !.stack = Open(l), !.err = e]
<1>4. CloseBlocks(l) = c
    BY DEF CloseBlocks, Emit, Reading, LexerState
<1>5. c.out = l.out \o ds /\ c.stack = Open(l) /\ c \in LexerState
    <2>1. e \in BOOLEAN
        OBVIOUS
    <2> HIDE DEF ds, e
    <2>2. l.out \o ds \in Seq(STRING)
        BY <1>2, <1>3
    <2> QED
        BY <1>1, <2>1, <2>2 DEF Reading, LexerState
<1>6. Count(c.out, Dedent) = Count(l.out, Dedent) + n /\ Count(c.out, Indent) = Count(l.out, Indent) /\ Eof \notin ToSet(c.out)
    <2> HIDE DEF ds, c, n
    <2>1. /\ Count(l.out \o ds, Dedent) = Count(l.out, Dedent) + Count(ds, Dedent)
          /\ Count(l.out \o ds, Indent) = Count(l.out, Indent) + Count(ds, Indent)
        BY <1>2, <1>3, CountConcat
    <2>2. ToSet(l.out \o ds) = ToSet(l.out) \cup ToSet(ds)
        BY <1>2, <1>3, ConcatToSet
    <2> QED
        BY <1>2, <1>3, <1>5, <2>1, <2>2 DEF Reading
<1>7. c.stack # <<>> /\ c.stack[1] = 0 /\ Len(c.stack) = m /\ \A i \in 2..m : c.stack[i - 1] < c.stack[i]
    <2>1. l.stack[1] = 0 /\ (\A i \in 2..Len(l.stack) : l.stack[i - 1] < l.stack[i]) /\ l.stack \in Seq(Nat)
        BY DEF Reading, LexerState
    <2> DEFINE o == Open(l)
    <2>2. c.stack = o
        BY <1>5
    <2> HIDE DEF c
    <2>3. o # <<>> /\ o[1] = l.stack[1] /\ Len(o) = m
        BY <1>1
    <2>4. ASSUME NEW i \in 2..m PROVE o[i - 1] < o[i]
        <3>1. i - 1 \in 1..m /\ i \in 1..m /\ i \in 2..Len(l.stack)
            <4> HIDE DEF m
            <4> QED
                BY <1>1, <2>1
        <3> QED
            BY <1>1, <2>1, <3>1
    <2> HIDE DEF o, m
    <2> QED
        BY <2>1, <2>2, <2>3, <2>4
<1>8. Count(l.out, Indent) - Count(l.out, Dedent) = Len(l.stack) - 1 /\ l.stack \in Seq(Nat)
    BY DEF Reading, LexerState
<1>9. Count(c.out, Indent) - Count(c.out, Dedent) = Len(c.stack) - 1
    <2>1. \A x, y, z, w \in Int : x - y = z - 1 => x - (y + (z - w)) = w - 1
        OBVIOUS
    <2>2. Len(l.stack) \in Int /\ m \in Int
        BY <1>1, <1>8
    <2> HIDE DEF c, m
    <2> QED
        BY <1>3, <1>6, <1>7, <1>8, <2>1, <2>2
<1> HIDE DEF c
<1> QED
    BY <1>4, <1>5, <1>6, <1>7, <1>9 DEF Reading

\* A line that is indented more opens one.
LEMMA BlockOpens ==
    ASSUME NEW l, Reading(l), l.ind > Last(l.stack)
    PROVE  Reading([Emit(l, <<Indent>>) EXCEPT !.stack = Append(l.stack, l.ind)])
<1> DEFINE ts == <<Indent>>
           c == [l EXCEPT !.out = l.out \o ts, !.stack = Append(l.stack, l.ind)]
<1>1. l.out \in Seq(STRING) /\ l.stack \in Seq(Nat) /\ l.stack # <<>> /\ l.ind \in Nat
    BY DEF Reading, LexerState
<1>2. ts \in Seq(STRING) /\ ToSet(ts) = {Indent} /\ Count(ts, Indent) = 1 /\ Count(ts, Dedent) = 0
    BY OneIsSeq, CountOne, MarksAre
<1> HIDE DEF ts
<1>3. /\ Count(l.out \o ts, Indent) = Count(l.out, Indent) + 1
      /\ Count(l.out \o ts, Dedent) = Count(l.out, Dedent)
    <2>1. Count(l.out, Dedent) \in Nat
        BY <1>1, CountType
    <2> QED
        BY <1>1, <1>2, <2>1, CountConcat
<1>4. Eof \notin ToSet(l.out \o ts)
    <2>1. ToSet(l.out \o ts) = ToSet(l.out) \cup {Indent}
        BY <1>1, <1>2, ConcatToSet
    <2> QED
        BY <2>1, MarksAre DEF Reading
<1>5. [Emit(l, <<Indent>>) EXCEPT !.stack = Append(l.stack, l.ind)] = c
    BY DEF Emit, Reading, LexerState, ts
<1>6. c \in LexerState /\ c.out = l.out \o ts /\ c.stack = Append(l.stack, l.ind)
    <2> DEFINE o == l.out \o ts
               a == Append(l.stack, l.ind)
    <2>1. o \in Seq(STRING) /\ a \in Seq(Nat)
        BY <1>1, <1>2
    <2>2. c = [l EXCEPT !.out = o, !.stack = a]
        OBVIOUS
    <2> HIDE DEF o, a, c
    <2>3. c \in LexerState /\ c.out = o /\ c.stack = a
        BY <2>1, <2>2 DEF Reading, LexerState
    <2> QED
        BY <2>3 DEF o, a
<1>7. /\ c.stack # <<>> /\ c.stack[1] = 0 /\ Len(c.stack) = Len(l.stack) + 1
      /\ \A i \in 2..Len(c.stack) : c.stack[i - 1] < c.stack[i]
    <2>1. l.stack[1] = 0 /\ (\A i \in 2..Len(l.stack) : l.stack[i - 1] < l.stack[i]) /\ l.ind > l.stack[Len(l.stack)]
        BY DEF Reading, Last
    <2> DEFINE s == l.stack
               a == Append(s, l.ind)
    <2>2. s \in Seq(Nat) /\ Len(s) \in Nat /\ Len(s) >= 1
        BY <1>1
    <2>3. a # <<>> /\ Len(a) = Len(s) + 1 /\ a[1] = s[1] /\ a[Len(s) + 1] = l.ind
        <3> HIDE DEF s
        <3> QED
            BY <1>1, <2>2
    <2>4. \A i \in 1..Len(s) : a[i] = s[i]
        <3> HIDE DEF s
        <3> QED
            BY <1>1, <2>2
    <2>5. ASSUME NEW i \in 2..(Len(s) + 1) PROVE a[i - 1] < a[i]
        <3> HIDE DEF a
        <3>1. i - 1 \in 1..Len(s)
            BY <2>2
        <3>2. CASE i = Len(s) + 1
            BY <2>1, <2>2, <2>3, <2>4, <3>1, <3>2
        <3>3. CASE i # Len(s) + 1
            <4>1. i \in 2..Len(s) /\ i \in 1..Len(s)
                BY <2>2, <3>3
            <4> QED
                BY <2>1, <2>4, <3>1, <4>1
        <3> QED
            BY <3>2, <3>3
    <2>6. c.stack = a
        BY <1>6
    <2> HIDE DEF c, a, s
    <2> QED
        BY <2>1, <2>3, <2>5, <2>6 DEF s
<1>8. Count(c.out, Indent) - Count(c.out, Dedent) = Len(c.stack) - 1
    <2>1. Count(l.out, Indent) - Count(l.out, Dedent) = Len(l.stack) - 1
        BY DEF Reading
    <2>2. Count(l.out, Indent) \in Int /\ Count(l.out, Dedent) \in Int /\ Len(l.stack) \in Int
        BY <1>1, CountType
    <2> HIDE DEF c
    <2> QED
        BY <1>3, <1>6, <1>7, <2>1, <2>2
<1> HIDE DEF c
<1> QED
    BY <1>4, <1>5, <1>6, <1>7, <1>8 DEF Reading

\* Nothing else matters to it.
LEMMA ReadsSame ==
    ASSUME NEW l, Reading(l), NEW m \in LexerState, m.out = l.out, m.stack = l.stack
    PROVE  Reading(m)
    BY DEF Reading

\* The layout in front of a lexeme,
LEMMA StartReads ==
    ASSUME NEW l, Reading(l), NEW item
    PROVE  Reading(LineStart(l, item))
<1> DEFINE more == [Emit(l, <<Indent>>) EXCEPT !.stack = Append(l.stack, l.ind)]
<1>1. ASSUME NEW m, Reading(m) PROVE Reading([m EXCEPT !.start = FALSE])
    <2> DEFINE c == [m EXCEPT !.start = FALSE]
    <2>1. c \in LexerState /\ c.out = m.out /\ c.stack = m.stack
        BY <1>1 DEF Reading, LexerState
    <2> HIDE DEF c
    <2>2. Reading(c)
        BY <1>1, <2>1, ReadsSame
    <2> QED
        BY <2>2 DEF c
<1>2. CASE item = "\t"
    <2> DEFINE bad == [l EXCEPT !.err = TRUE]
    <2>1. bad \in LexerState /\ bad.out = l.out /\ bad.stack = l.stack
        BY DEF Reading, LexerState
    <2>2. LineStart(l, item) = [bad EXCEPT !.start = FALSE]
        BY <1>2 DEF LineStart, Break
    <2> HIDE DEF bad
    <2>3. Reading(bad)
        BY <2>1, ReadsSame
    <2> QED
        BY <1>1, <2>2, <2>3
<1>3. CASE item \in {Break, "#"}
    <2>1. LineStart(l, item) = [l EXCEPT !.start = FALSE]
        BY <1>3 DEF LineStart, Break
    <2> QED
        BY <1>1, <2>1
<1>4. CASE item \notin {"\t", Break, "#"} /\ l.ind > Last(l.stack)
    <2>1. Reading(more)
        BY <1>4, BlockOpens
    <2>2. Emit(l, <<Indent>>).stack = l.stack
        BY DEF Emit, Reading, LexerState
    <2>3. LineStart(l, item) = [more EXCEPT !.start = FALSE]
        BY <1>4, <2>2 DEF LineStart
    <2> HIDE DEF more
    <2> QED
        BY <1>1, <2>1, <2>3
<1>5. CASE item \notin {"\t", Break, "#"} /\ ~(l.ind > Last(l.stack))
    <2>1. LineStart(l, item) = [CloseBlocks(l) EXCEPT !.start = FALSE]
        BY <1>5 DEF LineStart
    <2> QED
        BY <1>1, <2>1, BlocksClose
<1> QED
    BY <1>2, <1>3, <1>4, <1>5

\* a line break,
LEMMA EndReads ==
    ASSUME NEW l, Reading(l)
    PROVE  Reading(LineEnd(l))
<1> DEFINE silent == l.depth # 0 \/ l.out = <<>> \/ Last(l.out) \in {Newline, Indent, Dedent}
           ts == IF silent THEN <<>> ELSE <<Newline>>
           m == Emit(l, ts)
           c == [m EXCEPT !.start = TRUE, !.comment = FALSE]
<1>1. ts \in Seq(STRING) /\ ToSet(ts) \cap {Indent, Dedent, Eof} = {}
    <2>1. <<>> \in Seq(STRING) /\ ToSet(<<>>) = {}
        BY DEF ToSet
    <2>2. <<Newline>> \in Seq(STRING) /\ ToSet(<<Newline>>) = {Newline}
        BY MarksAre, OneIsSeq
    <2> HIDE DEF silent
    <2> QED
        BY <2>1, <2>2, MarksAre
<1>2. LineEnd(l) = c
    BY DEF LineEnd
<1> HIDE DEF ts
<1>3. Reading(m)
    BY <1>1, ReadsOn
<1> HIDE DEF m
<1>4. c \in LexerState /\ c.out = m.out /\ c.stack = m.stack
    BY <1>3 DEF Reading, LexerState
<1> HIDE DEF c
<1> QED
    BY <1>2, <1>3, <1>4, ReadsSame

\* and a lexeme keep it.
LEMMA LexemeReads ==
    ASSUME NEW l, Reading(l), NEW s \in STRING
    PROVE  Reading(Lexeme(l, s))
<1>1. ASSUME s \notin Marks
      PROVE  Reading(Emit(l, <<s>>))
    <2> DEFINE ts == <<s>>
    <2>1. ts \in Seq(STRING) /\ ToSet(ts) = {s}
        BY OneIsSeq
    <2>2. ToSet(ts) \cap {Indent, Dedent, Eof} = {}
        BY <1>1, <2>1 DEF Marks
    <2> HIDE DEF ts
    <2>3. Reading(Emit(l, ts))
        BY <2>1, <2>2, ReadsOn
    <2> QED
        BY <2>3 DEF ts
<1>2. ASSUME s \in {"(", ")"} PROVE s \notin Marks /\ Meaningful(s)
    <2>1. s \in Symbols
        BY <1>2 DEF Symbols
    <2>2. s \notin Marks
        BY <1>2 DEF Marks, Break, Newline, Indent, Dedent, Eof
    <2> QED
        BY <2>1, <2>2 DEF Meaningful, Lexemes
<1>3. ASSUME NEW m, Reading(m), NEW d \in Int
      PROVE  Reading([m EXCEPT !.depth = d])
    <2> DEFINE c == [m EXCEPT !.depth = d]
    <2>1. c \in LexerState /\ c.out = m.out /\ c.stack = m.stack
        BY <1>3 DEF Reading, LexerState
    <2> HIDE DEF c
    <2>2. Reading(c)
        BY <1>3, <2>1, ReadsSame
    <2> QED
        BY <2>2 DEF c
<1>4. \A m : Reading(m) => m.depth \in Int
    BY DEF Reading, LexerState
<1>5. CASE s = "#"
    <2> DEFINE c == [l EXCEPT !.comment = TRUE]
    <2>1. c \in LexerState /\ c.out = l.out /\ c.stack = l.stack
        BY DEF Reading, LexerState
    <2>2. Lexeme(l, s) = c
        BY <1>5 DEF Lexeme
    <2> HIDE DEF c
    <2> QED
        BY <2>1, <2>2, ReadsSame
<1>6. CASE s \in {"\r", "\t"}
    <2>1. Lexeme(l, s) = l
        BY <1>6 DEF Lexeme
    <2> QED
        BY <2>1
<1>7. CASE s = "("
    <2> DEFINE m == Emit(l, <<s>>)
    <2>1. Lexeme(l, s) = [m EXCEPT !.depth = m.depth + 1]
        BY <1>2, <1>7 DEF Lexeme
    <2>2. Reading(m)
        BY <1>1, <1>2, <1>7
    <2> HIDE DEF m
    <2>3. m.depth + 1 \in Int
        BY <1>4, <2>2
    <2> QED
        BY <1>3, <2>1, <2>2, <2>3
<1>8. CASE s = ")"
    <2> DEFINE m == Emit(l, <<s>>)
    <2>1. Lexeme(l, s) = [m EXCEPT !.depth = m.depth - 1]
        BY <1>2, <1>8 DEF Lexeme
    <2>2. Reading(m)
        BY <1>1, <1>2, <1>8
    <2> HIDE DEF m
    <2>3. m.depth - 1 \in Int
        BY <1>4, <2>2
    <2> QED
        BY <1>3, <2>1, <2>2, <2>3
<1>9. CASE s \notin {"#", "\r", "\t", "(", ")"} /\ ~Meaningful(s)
    <2> DEFINE c == [l EXCEPT !.err = TRUE]
    <2>1. c \in LexerState /\ c.out = l.out /\ c.stack = l.stack
        BY DEF Reading, LexerState
    <2>2. Lexeme(l, s) = c
        BY <1>9 DEF Lexeme
    <2> HIDE DEF c
    <2> QED
        BY <2>1, <2>2, ReadsSame
<1>10. CASE s \notin {"#", "\r", "\t", "(", ")"} /\ Meaningful(s)
    <2> DEFINE prev == IF l.out = <<>> THEN Newline ELSE Last(l.out)
               ts == Tokens(s, prev)
    <2>1. Lexeme(l, s) = Emit(l, ts)
        BY <1>10, Zenon DEF Lexeme
    <2>2. ts \in Seq(STRING) /\ ToSet(ts) \cap Marks = {}
        <3> HIDE DEF prev
        <3> QED
            BY <1>10, TokensAreNoMarks
    <2> HIDE DEF ts
    <2>3. ToSet(ts) \cap {Indent, Dedent, Eof} = {}
        BY <2>2 DEF Marks
    <2> QED
        BY <2>1, <2>2, <2>3, ReadsOn
<1> QED
    BY <1>5, <1>6, <1>7, <1>8, <1>9, <1>10

\* However a lexeme is taken, or the line break.
LEMMA ScanReads ==
    ASSUME NEW l, Reading(l), NEW item \in STRING
    PROVE  Reading(Scan(l, item))
<1> DEFINE now == IF l.start /\ l.depth = 0 /\ ~l.comment THEN LineStart(l, item) ELSE l
           to == CASE now.err \/ (now.comment /\ item # Break) -> now
                   [] ~now.err /\ item = Break -> LineEnd(now)
                   [] OTHER -> Lexeme(now, item)
           c == [to EXCEPT !.ind = 1]
<1>1. Scan(l, item) = IF l.err THEN l ELSE c
    BY Zenon DEF Scan
<1>2. Reading(now)
    BY StartReads
<1> HIDE DEF now
<1>3. Reading(to)
    <2>1. now.err \in BOOLEAN /\ now.comment \in BOOLEAN
        BY <1>2 DEF Reading, LexerState
    <2>2. to = now \/ to = LineEnd(now) \/ to = Lexeme(now, item)
        BY <2>1
    <2> HIDE DEF to
    <2> QED
        BY <1>2, <2>2, EndReads, LexemeReads
<1> HIDE DEF to
<1>4. c \in LexerState /\ c.out = to.out /\ c.stack = to.stack
    BY <1>3 DEF Reading, LexerState
<1> HIDE DEF c
<1>5. Reading(c)
    BY <1>3, <1>4, ReadsSame
<1> QED
    BY <1>1, <1>5

\* The lexer reads a line from its first lexeme to its break.
LEMMA LineReads ==
    ASSUME NEW l, Reading(l), NEW line \in [ind : Nat, items : Seq(STRING)]
    PROVE  Reading(LexLine(l, line))
<1> DEFINE items == Append(line.items, Break)
           n == Len(items)
           S == {m \in LexerState : Reading(m)}
           base == [l EXCEPT !.ind = line.ind]
           step == [k \in 1..n |-> [m \in S |-> Scan(m, items[k])]]
           scanned[i \in 0..n] == IF i = 0 THEN [l EXCEPT !.ind = line.ind] ELSE Scan(scanned[i - 1], items[i])
<1>1. n \in Nat /\ \A k \in 1..n : items[k] \in STRING
    <2>1. line.items \in Seq(STRING) /\ Break \in STRING
        BY LayoutAssumption, Zenon DEF LayoutAssumption, Marks
    <2> QED
        BY <2>1
<1>2. base \in S
    <2>1. base \in LexerState /\ base.out = l.out /\ base.stack = l.stack
        BY DEF Reading, LexerState
    <2> HIDE DEF base
    <2> QED
        BY <2>1, ReadsSame
<1>3. step \in [1..n -> [S -> S]]
    <2>1. ASSUME NEW k \in 1..n, NEW m \in S PROVE Scan(m, items[k]) \in S
        <3>1. Reading(Scan(m, items[k]))
            BY <1>1, ScanReads
        <3> HIDE DEF items, n
        <3> QED
            BY <3>1 DEF Reading
    <2> HIDE DEF S, items, n
    <2> QED
        BY <2>1
<1>4. PICK f \in [0..n -> S] : RecursBy(f, n, base, step)
    <2> HIDE DEF n, S, step, base
    <2> QED
        BY <1>1, <1>2, <1>3, Iterates, Zenon
<1>5. f = [i \in 0..n |-> IF i = 0 THEN [l EXCEPT !.ind = line.ind] ELSE Scan(f[i - 1], items[i])]
    <2>1. ASSUME NEW k \in 0..n, k # 0
          PROVE  f[k] = Scan(f[k - 1], items[k])
        <3>1. k \in 1..n /\ f[k - 1] \in S
            <4> HIDE DEF S, n
            <4> QED
                BY <1>1, <2>1
        <3>2. f[k] = step[k][f[k - 1]]
            BY <1>4, <3>1 DEF RecursBy
        <3> HIDE DEF S, n, items
        <3> QED
            BY <3>1, <3>2
    <2>2. f[0] = base
        BY <1>4 DEF RecursBy
    <2> HIDE DEF S, n, items
    <2> QED
        BY <2>1, <2>2
<1>6. scanned = [i \in 0..n |-> IF i = 0 THEN [l EXCEPT !.ind = line.ind] ELSE Scan(scanned[i - 1], items[i])]
    BY <1>5, Zenon
<1>7. LexLine(l, line) = scanned[n]
    BY Zenon DEF LexLine
<1> HIDE DEF scanned, items
<1>8. \A i \in 0..n : Reading(scanned[i])
    <2> DEFINE P == {i \in 0..n : Reading(scanned[i])}
    <2>1. 0 \in P
        BY <1>1, <1>2, <1>6
    <2>2. ASSUME NEW k \in 0..(n - 1), k \in P PROVE k + 1 \in P
        <3>1. k + 1 \in 0..n /\ k + 1 # 0 /\ (k + 1) - 1 = k /\ k + 1 \in 1..n
            BY <1>1
        <3>2. scanned[k + 1] = Scan(scanned[k], items[k + 1])
            BY <1>6, <3>1
        <3>3. Reading(Scan(scanned[k], items[k + 1]))
            BY <1>1, <2>2, <3>1, ScanReads
        <3> QED
            BY <3>1, <3>2, <3>3
    <2> HIDE DEF P
    <2>3. \A i \in 0..n : i \in P
        BY <1>1, <2>1, <2>2, InductUpTo
    <2> QED
        BY <2>3 DEF P
<1>9. n \in 0..n
    BY <1>1
<1> QED
    BY <1>7, <1>8, <1>9

\* At the end of the text the open blocks are closed, and Eof is the last token.
LEMMA EndHasRead ==
    ASSUME NEW l, Reading(l)
    PROVE  HasRead(LexEnd(l))
<1> DEFINE nl == IF l.out # <<>> /\ Last(l.out) # Newline THEN <<Newline>> ELSE <<>>
           n == Len(l.stack) - 1
           ds == [i \in 1..n |-> Dedent]
           eof == <<Eof>>
           o == l.out
           c == [l EXCEPT !.out = o \o (nl \o ds \o eof)]
<1>1. o \in Seq(STRING) /\ l.stack \in Seq(Nat) /\ l.stack # <<>> /\ n \in Nat /\ Eof \notin ToSet(o)
    BY DEF Reading, LexerState
<1>2. LexEnd(l) = c
    BY DEF LexEnd, Emit, Reading, LexerState
<1>3. nl \in Seq(STRING) /\ ToSet(nl) \subseteq {Newline}
    <2> DEFINE newline == <<Newline>>
    <2>1. newline \in Seq(STRING) /\ ToSet(newline) = {Newline}
        BY MarksAre, OneIsSeq
    <2>2. <<>> \in Seq(STRING) /\ ToSet(<<>>) = {}
        BY DEF ToSet
    <2>3. nl = newline \/ nl = <<>>
        OBVIOUS
    <2> HIDE DEF newline, nl
    <2> QED
        BY <2>1, <2>2, <2>3
<1>4. ds \in Seq(STRING) /\ ToSet(ds) \subseteq {Dedent} /\ Count(ds, Dedent) = n
    <2>1. \A x : n \in Nat /\ x \in STRING => [i \in 1..n |-> x] \in Seq(STRING)
        OBVIOUS
    <2>2. ds \in Seq(STRING)
        BY <1>1, <2>1, MarksAre
    <2>3. ToSet(ds) \subseteq {Dedent}
        BY DEF ToSet
    <2>4. Count(ds, Dedent) = n
        <3> HIDE DEF n
        <3> QED
            BY <1>1, CountAll
    <2> HIDE DEF ds
    <2> QED
        BY <2>2, <2>3, <2>4
<1>5. eof \in Seq(STRING) /\ ToSet(eof) = {Eof} /\ Len(eof) = 1 /\ eof[1] = Eof
    BY MarksAre, OneIsSeq
<1> HIDE DEF nl, ds, eof, o
<1> DEFINE t == nl \o ds
           q == o \o t
<1>6. t \in Seq(STRING) /\ ToSet(t) \subseteq {Newline, Dedent} /\ Count(t, Dedent) = n /\ Count(t, Indent) = 0
    <2>1. t \in Seq(STRING)
        BY <1>3, <1>4
    <2>2. ToSet(t) \subseteq {Newline, Dedent}
        BY <1>3, <1>4, ConcatToSet
    <2>3. Count(nl, Dedent) = 0
        BY <1>3, CountNone, MarksAre
    <2>4. Count(t, Dedent) = n
        <3>1. Count(t, Dedent) = Count(nl, Dedent) + Count(ds, Dedent)
            BY <1>3, <1>4, CountConcat
        <3> QED
            BY <1>1, <1>4, <2>3, <3>1
    <2> HIDE DEF t
    <2>5. Count(t, Indent) = 0
        BY <2>1, <2>2, CountNone, MarksAre
    <2> QED
        BY <2>1, <2>2, <2>4, <2>5
<1>7. o \o (nl \o ds \o eof) = q \o eof
    <2>1. t \in Seq(STRING)
        BY <1>6
    <2> HIDE DEF t
    <2>2. \A x, y, z \in Seq(STRING) : x \o (y \o z) = (x \o y) \o z
        BY ConcatAssociates
    <2>3. o \o (t \o eof) = (o \o t) \o eof
        BY <1>1, <1>5, <2>1, <2>2, Zenon
    <2> QED
        BY <2>3 DEF t
<1> HIDE DEF t
<1>8. /\ q \in Seq(STRING) /\ Eof \notin ToSet(q)
      /\ Count(q, Indent) = Count(o, Indent) /\ Count(q, Dedent) = Count(o, Dedent) + n
    <2>1. q \in Seq(STRING) /\ ToSet(q) = ToSet(o) \cup ToSet(t)
        BY <1>1, <1>6, ConcatToSet
    <2>2. Count(q, Indent) = Count(o, Indent) + 0 /\ Count(o, Indent) \in Nat
        BY <1>1, <1>6, CountConcat, CountType
    <2>3. Count(q, Dedent) = Count(o, Dedent) + n
        BY <1>1, <1>6, CountConcat
    <2>4. Eof \notin ToSet(q)
        BY <1>1, <1>6, <2>1, MarksAre, Zenon
    <2> HIDE DEF q
    <2> QED
        BY <2>1, <2>2, <2>3, <2>4
<1> HIDE DEF q
<1> DEFINE w == q \o eof
<1>9. w \in Seq(STRING) /\ Len(w) = Len(q) + 1 /\ w # <<>> /\ w[Len(w)] = Eof /\ \A i \in 1..Len(q) : w[i] = q[i]
    <2>1. /\ w \in Seq(STRING) /\ Len(w) = Len(q) + Len(eof)
          /\ \A i \in 1..Len(q) : w[i] = q[i]
          /\ \A i \in 1..Len(eof) : w[Len(q) + i] = eof[i]
        <3>1. \A x, y \in Seq(STRING) :
                /\ x \o y \in Seq(STRING) /\ Len(x \o y) = Len(x) + Len(y)
                /\ \A i \in 1..Len(x) : (x \o y)[i] = x[i]
                /\ \A i \in 1..Len(y) : (x \o y)[Len(x) + i] = y[i]
            BY ConcatIs
        <3> QED
            BY <1>5, <1>8, <3>1, Zenon
    <2>2. Len(q) \in Nat
        BY <1>8
    <2> HIDE DEF w
    <2> QED
        BY <1>5, <2>1, <2>2
<1>10. Count(w, Indent) = Count(q, Indent) /\ Count(w, Dedent) = Count(q, Dedent)
    <2>1. Count(eof, Indent) = 0 /\ Count(eof, Dedent) = 0
        BY <1>5, CountNone, MarksAre
    <2>2. Count(q, Indent) \in Nat /\ Count(q, Dedent) \in Nat
        BY <1>8, CountType
    <2> QED
        BY <1>5, <1>8, <2>1, <2>2, CountConcat
<1> HIDE DEF w
<1>11. \A i \in 1..(Len(w) - 1) : w[i] # Eof
    <2>1. \A i \in 1..Len(q) : q[i] \in ToSet(q)
        BY <1>8 DEF ToSet
    <2> QED
        BY <1>8, <1>9, <2>1
<1>12. c.out = w /\ c.stack = l.stack
    BY <1>7 DEF Reading, LexerState, w
<1>13. Count(w, Indent) = Count(w, Dedent)
    <2>1. Count(o, Indent) - Count(o, Dedent) = n
        BY DEF Reading, o
    <2>2. Count(o, Indent) \in Int /\ Count(o, Dedent) \in Int
        BY <1>1, CountType
    <2> HIDE DEF n
    <2> QED
        BY <1>1, <1>8, <1>10, <2>1, <2>2
<1> HIDE DEF c
<1> QED
    BY <1>2, <1>9, <1>11, <1>12, <1>13 DEF HasRead, Reading, Last
----------------------------------------------------------------------------
(* A run. *)

\* What the texts and the lexer of a run are.
TextRead ==
  /\ input \in Inputs
  /\ IsText(text)
  /\ phase = "args" => at = 1
  /\ phase = "lex" => at \in 1..(Len(text) + 1)
  /\ phase \in {"args", "lex"} => Reading(lx)
  /\ phase = "parse" => HasRead(lx)
  /\ Reading(lx) \/ HasRead(lx)

\* The stages of a run, by name.
LEMMA StagesAre ==
    /\ Stages[1] = "string-strict" /\ Stages[2] = "state" /\ Stages[3] = "nominal"
    /\ Stages[4] = "rooted" /\ Stages[5] = "strict" /\ Stages[6] = "print"
    /\ ToSet(Stages) = {"string-strict", "state", "nominal", "rooted", "strict", "print"}
    /\ Refusals[1] = "not string-strict" /\ Refusals[2] = "bad state" /\ Refusals[3] = "not nominal"
    /\ Refusals[4] = "not rooted" /\ Refusals[5] = "not strict"
    /\ ToSet(Refusals) = {"not string-strict", "bad state", "not nominal", "not rooted", "not strict"}
    /\ DOMAIN Stages = 1..6 /\ Len(Stages) = 6 /\ DOMAIN Refusals = 1..5 /\ Len(Refusals) = 5
<1>1. /\ DOMAIN Stages = 1..6 /\ DOMAIN Refusals = 1..5 /\ Len(Stages) = 6 /\ Len(Refusals) = 5
      /\ 1..6 = {1, 2, 3, 4, 5, 6} /\ 1..5 = {1, 2, 3, 4, 5}
    <2>1. Len(Stages) = 6 /\ DOMAIN Stages = 1..6
        BY DEF Stages
    <2>2. Len(Refusals) = 5 /\ DOMAIN Refusals = 1..5
        BY DEF Refusals
    <2> QED
        BY <2>1, <2>2
<1>2. /\ Stages[1] = "string-strict" /\ Stages[2] = "state" /\ Stages[3] = "nominal"
      /\ Stages[4] = "rooted" /\ Stages[5] = "strict" /\ Stages[6] = "print"
    BY DEF Stages
<1>3. /\ Refusals[1] = "not string-strict" /\ Refusals[2] = "bad state" /\ Refusals[3] = "not nominal"
      /\ Refusals[4] = "not rooted" /\ Refusals[5] = "not strict"
    BY DEF Refusals
<1>4. ToSet(Stages) = {Stages[i] : i \in {1, 2, 3, 4, 5, 6}} /\ ToSet(Refusals) = {Refusals[i] : i \in {1, 2, 3, 4, 5}}
    BY <1>1, Zenon DEF ToSet
<1>5. /\ {Stages[i] : i \in {1, 2, 3, 4, 5, 6}} = {Stages[1], Stages[2], Stages[3], Stages[4], Stages[5], Stages[6]}
      /\ {Refusals[i] : i \in {1, 2, 3, 4, 5}} = {Refusals[1], Refusals[2], Refusals[3], Refusals[4], Refusals[5]}
    OBVIOUS
<1> QED
    BY <1>1, <1>2, <1>3, <1>4, <1>5

\* No step from the parser on touches the lexer or the text.
LEMMA LaterSteps ==
    ASSUME SkipLink \/ LinkProgram \/ Unresolved \/ TypesPass \/ TypesFail \/ Overflow
             \/ StringStrictMode \/ StateMode \/ NominalMode \/ RootedMode \/ StrictMode
             \/ PrintProgram \/ Compile \/ NotWritten
    PROVE  /\ input' = input /\ text' = text /\ lx' = lx /\ at' = at
           /\ phase \in {"link", "types"} \cup ToSet(Stages)
           /\ phase' \in {"types"} \cup ToSet(Stages) \cup (Ends \ {"usage", "unreadable", "syntax error"})
           /\ LinkProgram \/ program' = program
           /\ output' = output \/ phase' = "ok"
<1>1. CASE SkipLink \/ LinkProgram \/ Unresolved
    BY <1>1, StagesAre DEF SkipLink, LinkProgram, Unresolved, Go, Keep, Linked, Ends, Failures
<1>2. CASE TypesPass \/ TypesFail \/ Overflow
    BY <1>2, StagesAre DEF TypesPass, TypesFail, Overflow, Go, Keep, Ends, Failures
<1>0. ASSUME NEW i \in 1..5, NEW asked, NEW holds, Mode(i, asked, holds)
      PROVE  /\ input' = input /\ text' = text /\ lx' = lx /\ at' = at /\ program' = program /\ output' = output
             /\ phase \in ToSet(Stages) /\ phase' \in ToSet(Stages) \cup ToSet(Refusals)
    <2>1. i \in DOMAIN Stages /\ i + 1 \in DOMAIN Stages /\ i \in DOMAIN Refusals
        <3>1. i \in 1..6 /\ i + 1 \in 1..6
            OBVIOUS
        <3>2. DOMAIN Stages = 1..6 /\ DOMAIN Refusals = 1..5
            BY StagesAre, Zenon
        <3> QED
            BY <3>1, <3>2, Zenon
    <2>2. Stages[i] \in ToSet(Stages) /\ Stages[i + 1] \in ToSet(Stages) /\ Refusals[i] \in ToSet(Refusals)
        BY <2>1, Zenon DEF ToSet
    <2> QED
        BY <1>0, <2>2 DEF Mode, Go, Keep
<1>3. CASE StringStrictMode \/ StateMode \/ NominalMode \/ RootedMode \/ StrictMode
    <2>1. \E i \in 1..5 : \E asked, holds : Mode(i, asked, holds)
        BY <1>3 DEF StringStrictMode, StateMode, NominalMode, RootedMode, StrictMode
    <2>2. /\ input' = input /\ text' = text /\ lx' = lx /\ at' = at /\ program' = program /\ output' = output
          /\ phase \in ToSet(Stages) /\ phase' \in ToSet(Stages) \cup ToSet(Refusals)
        BY <1>0, <2>1
    <2> QED
        BY <2>2, StagesAre DEF Ends, Failures
<1>4. CASE PrintProgram
    BY <1>4, StagesAre DEF PrintProgram, Answer, Go, Keep, Ends, Failures
<1>5. CASE Compile
    BY <1>5, StagesAre DEF Compile, Answer, Go, Keep, Ends, Failures
<1>6. CASE NotWritten
    BY <1>6, StagesAre DEF NotWritten, Go, Keep, Ends, Failures
<1> QED
    BY <1>1, <1>2, <1>3, <1>4, <1>5, <1>6

\* The texts and the lexer of a run: at its start, and by every step.
LEMMA InitReads == Init => TextRead
<1> SUFFICES ASSUME Init PROVE TextRead
    OBVIOUS
<1>1. IsText(<<>>)
    BY DEF IsText
<1>2. Reading(Lexer)
    <2> DEFINE none == Lexer.out
    <2>1. none = <<>> /\ Lexer.stack = <<0>> /\ Lexer \in LexerState
        <3>1. <<0>> \in Seq(Nat)
            BY OneIsSeq
        <3>2. <<>> \in Seq(STRING)
            OBVIOUS
        <3> QED
            BY <3>1, <3>2 DEF Lexer, LexerState
    <2>2. none \in Seq(STRING) /\ ToSet(none) = {}
        BY <2>1 DEF ToSet
    <2>3. Len(<<0>>) = 1 /\ <<0>>[1] = 0 /\ <<0>> # <<>>
        OBVIOUS
    <2>4. Count(none, Indent) = 0 /\ Count(none, Dedent) = 0
        <3> HIDE DEF none
        <3> QED
            BY <2>2, CountNone
    <2> QED
        BY <2>1, <2>2, <2>3, <2>4 DEF Reading
<1>3. input \in Inputs /\ phase = "args" /\ text = <<>> /\ at = 1 /\ lx = Lexer
    BY DEF Init
<1> QED
    BY <1>1, <1>2, <1>3 DEF TextRead

\* Every step keeps it.
LEMMA NextReads == TextRead /\ [Next]_vars => TextRead'
<1> SUFFICES ASSUME TextRead, [Next]_vars PROVE TextRead'
    OBVIOUS
<1>1. CASE UNCHANGED vars
    BY <1>1 DEF TextRead, vars
<1>2. CASE Usage
    BY <1>2 DEF Usage, Go, Keep, TextRead
<1>3. CASE ReadText
    <2> DEFINE lines == Lines(input.file[1])
    <2>1. phase = "args" /\ input.file # <<>> /\ input' = input /\ at' = at /\ lx' = lx /\ Reading(lx) /\ at = 1
        BY <1>3 DEF ReadText, GoodArguments, TextRead
    <2>2. CASE lines = <<>>
        <3>1. phase' = "unreadable" /\ text' = text
            BY <1>3, <2>2 DEF ReadText, Go
        <3> QED
            BY <2>1, <3>1 DEF TextRead
    <2>3. CASE lines # <<>>
        <3>1. phase' = "lex" /\ text' \in {lines[1], Migrated(lines[1])}
            BY <1>3, <2>3 DEF ReadText, Go
        <3>2. Lists(lines) /\ \A t \in ToSet(lines) : IsText(t) /\ IsText(Migrated(t))
            BY <2>1, CompilerAssumption, Zenon DEF CompilerAssumption, TextRead
        <3>3. lines[1] \in ToSet(lines)
            <4> HIDE DEF lines
            <4>1. Len(lines) \in Nat /\ DOMAIN lines = 1..Len(lines) /\ lines \in Seq(ToSet(lines))
                BY <3>2, ListFinite DEF Lists
            <4>2. Len(lines) # 0
                BY <2>3, <4>1
            <4>3. 1 \in DOMAIN lines
                BY <4>1, <4>2
            <4> QED
                BY <4>3 DEF ToSet
        <3>4. IsText(text')
            BY <3>1, <3>2, <3>3
        <3>5. Len(text') \in Nat
            BY <3>4 DEF IsText
        <3> QED
            BY <2>1, <3>1, <3>4, <3>5 DEF TextRead
    <2> QED
        BY <2>2, <2>3
<1>4. CASE LexText
    <2> DEFINE L == [ind : Nat, items : Seq(STRING)]
    <2>0. phase = "lex" /\ input' = input /\ text' = text
        BY <1>4 DEF LexText
    <2>4. text \in Seq(L)
        BY DEF TextRead, IsText
    <2>1. /\ phase = "lex" /\ input' = input /\ text' = text /\ Reading(lx) /\ IsText(text)
          /\ at \in 1..(Len(text) + 1) /\ Len(text) \in Nat
        <3> HIDE DEF L
        <3> QED
            BY <2>0, <2>4 DEF TextRead
    <2>2. CASE at <= Len(text)
        <3>1. lx' = LexLine(lx, text[at]) /\ at' = at + 1 /\ phase' \in {"syntax error", "lex"}
            BY <1>4, <2>2 DEF LexText, Go
        <3>2. text[at] \in [ind : Nat, items : Seq(STRING)]
            <4>1. at \in 1..Len(text)
                BY <2>1, <2>2
            <4>2. text[at] \in L
                <5> HIDE DEF L
                <5> QED
                    BY <2>4, <4>1
            <4> QED
                BY <4>2
        <3>3. Reading(lx')
            BY <2>1, <3>1, <3>2, LineReads
        <3>4. at' \in 1..(Len(text) + 1)
            <4>1. at + 1 \in 1..(Len(text) + 1)
                BY <2>1, <2>2
            <4> QED
                BY <3>1, <4>1
        <3> QED
            BY <2>1, <3>1, <3>3, <3>4 DEF TextRead
    <2>3. CASE ~(at <= Len(text))
        <3>1. lx' = LexEnd(lx) /\ phase' = "parse"
            BY <1>4, <2>3 DEF LexText, Go
        <3>2. HasRead(lx')
            BY <2>1, <3>1, EndHasRead
        <3> QED
            BY <2>1, <3>1, <3>2 DEF TextRead
    <2> QED
        BY <2>2, <2>3
<1>5. CASE ParseText
    <2>1. input' = input /\ text' = text /\ lx' = lx /\ phase = "parse" /\ phase' \in {"parse", "link", "syntax error"}
        BY <1>5 DEF ParseText, Go
    <2> QED
        BY <2>1 DEF TextRead
<1>6. CASE SkipLink \/ LinkProgram \/ Unresolved \/ TypesPass \/ TypesFail \/ Overflow
             \/ StringStrictMode \/ StateMode \/ NominalMode \/ RootedMode \/ StrictMode
             \/ PrintProgram \/ Compile \/ NotWritten
    <2>1. input' = input /\ text' = text /\ lx' = lx
        BY <1>6, LaterSteps
    <2>2. phase' \notin {"args", "lex", "parse"}
        BY <1>6, LaterSteps, StagesAre DEF Ends, Failures
    <2> QED
        BY <2>1, <2>2 DEF TextRead
<1> QED
    BY <1>1, <1>2, <1>3, <1>4, <1>5, <1>6 DEF Next

\* While the lexer reads, and when it has read, the blocks nest.
LEMMA ReadIsNested == TextRead => BlocksNest
<1>1. ASSUME Reading(lx) PROVE BlocksNest
    <2>1. lx.out # <<>> => Last(lx.out) # Eof
        <3>1. lx.out \in Seq(STRING) /\ Eof \notin ToSet(lx.out)
            BY <1>1 DEF Reading, LexerState
        <3>2. lx.out # <<>> => Len(lx.out) \in DOMAIN lx.out
            BY <3>1
        <3> QED
            BY <3>1, <3>2 DEF Last, ToSet
    <2> QED
        BY <1>1, <2>1 DEF BlocksNest, Reading
<1>2. ASSUME HasRead(lx) PROVE BlocksNest
    <2>1. ASSUME NEW m \in Nat, NEW n, m = n PROVE m - n = 0
        BY <2>1
    <2>2. Count(lx.out, Indent) \in Nat /\ Count(lx.out, Indent) = Count(lx.out, Dedent)
        BY <1>2, CountType, Zenon DEF HasRead
    <2>3. Count(lx.out, Indent) - Count(lx.out, Dedent) = 0
        BY <2>1, <2>2, Zenon
    <2>4. lx.out # <<>> /\ Last(lx.out) = Eof /\ lx.stack[1] = 0
          /\ \A i \in 2..Len(lx.stack) : lx.stack[i - 1] < lx.stack[i]
        BY <1>2, Zenon DEF HasRead
    <2> QED
        BY <2>3, <2>4, Zenon DEF BlocksNest
<1> QED
    BY <1>1, <1>2 DEF TextRead

\* In every run, whatever the text and however it is parsed: the blocks nest, and
\* they are closed when the text has ended.
THEOREM BlocksAlwaysNest == Spec => []BlocksNest
    BY InitReads, NextReads, ReadIsNested, PTL DEF Spec

\* Two programs make one.
LEMMA ProgramsJoin ==
    ASSUME NEW p, IsProgram(p), NEW q, IsProgram(q)
    PROVE  IsProgram(p \o q)
<1> DEFINE T == ToSet(p) \cup ToSet(q)
           pq == p \o q
<1>1. p \in Seq(T) /\ q \in Seq(T)
    <2>1. \A s, A, B : s \in Seq(A) /\ A \subseteq B => s \in Seq(B)
        OBVIOUS
    <2>2. p \in Seq(ToSet(p)) /\ q \in Seq(ToSet(q)) /\ ToSet(p) \subseteq T /\ ToSet(q) \subseteq T
        BY DEF IsProgram, Lists
    <2> HIDE DEF T
    <2> QED
        BY <2>1, <2>2
<1>2. pq \in Seq(T) /\ ToSet(pq) = T
    <2> HIDE DEF T
    <2>1. ToSet(pq) = ToSet(p) \cup ToSet(q)
        BY <1>1, ConcatToSet
    <2>2. pq \in Seq(T)
        BY <1>1
    <2> QED
        BY <2>1, <2>2 DEF T
<1>3. \A d \in T : IsDecl(d)
    BY DEF IsProgram
<1> HIDE DEF T, pq
<1>4. IsProgram(pq)
    BY <1>2, <1>3 DEF IsProgram, Lists
<1> QED
    BY <1>4 DEF pq

\* What is asked of the parser (parse.rs): a declaration that is read from tokens of
\* which the last is Eof ends before it, for no function of the parser goes beyond
\* Eof, and it is one.
ReadsDeclarations ==
  \A ts \in Seq(STRING), i \in Nat :
    LET d == ReadDecl(ts, i)
    IN  /\ i \in 1..Len(ts) /\ Last(ts) = Eof /\ (\A k \in 1..(Len(ts) - 1) : ts[k] # Eof) /\ ts[i] # Eof
        /\ d.ok
        => d.at \in 1..Len(ts) /\ IsProgram(d.v)

Typing ==
  /\ TextRead
  /\ phase \in {"args", "lex", "parse", "link", "types"} \cup ToSet(Stages) \cup Ends
  /\ output # <<>> => phase = "ok"
  /\ IsProgram(program)
  /\ phase = "parse" => at \in 1..Len(lx.out)

\* The types of a run: at its start, and by every step.
LEMMA InitTyping == Init => Typing
<1> SUFFICES ASSUME Init PROVE Typing
    OBVIOUS
<1>1. IsProgram(<<>>)
    <2> DEFINE none == <<>>
    <2>1. ToSet(none) = {} /\ none \in Seq({})
        BY DEF ToSet
    <2> HIDE DEF none
    <2>2. IsProgram(none)
        BY <2>1 DEF IsProgram, Lists
    <2> QED
        BY <2>2 DEF none
<1>2. phase = "args" /\ program = <<>> /\ output = <<>>
    BY DEF Init
<1> QED
    BY <1>1, <1>2, InitReads DEF Typing

\* Every step keeps it.
LEMMA NextTyping ==
    ASSUME ReadsDeclarations, Typing, [Next]_vars
    PROVE  Typing'
<1>0. TextRead'
    BY NextReads DEF Typing
<1>1. CASE UNCHANGED vars
    BY <1>0, <1>1 DEF Typing, vars
<1>2. CASE Usage
    <2>1. output' = output /\ program' = program /\ phase = "args" /\ phase' \in {"ok", "usage"}
        BY <1>2 DEF Usage, Go, Keep
    <2> QED
        BY <1>0, <2>1 DEF Typing, Ends
<1>3. CASE ReadText
    <2>1. output' = output /\ program' = program /\ phase = "args" /\ phase' \in {"lex", "unreadable"}
        BY <1>3 DEF ReadText, Go
    <2> QED
        BY <1>0, <2>1 DEF Typing, Ends, Failures
<1>4. CASE LexText
    <2>1. output' = output /\ program' = program /\ phase = "lex" /\ phase' \in {"lex", "parse", "syntax error"}
        BY <1>4 DEF LexText, Go
    <2>2. phase' = "parse" => at' \in 1..Len(lx'.out)
        <3>1. phase' = "parse" => at' = 1
            BY <1>4 DEF LexText, Go
        <3>2. phase' = "parse" => lx'.out \in Seq(STRING) /\ lx'.out # <<>>
            BY <1>0 DEF TextRead, HasRead
        <3>3. \A s \in Seq(STRING) : s # <<>> => 1 \in 1..Len(s)
            OBVIOUS
        <3> QED
            BY <3>1, <3>2, <3>3
    <2> QED
        BY <1>0, <2>1, <2>2 DEF Typing, Ends, Failures
<1>5. CASE ParseText
    <2> DEFINE d == ReadDecl(lx.out, at)
    <2>1. output' = output /\ lx' = lx /\ phase = "parse" /\ HasRead(lx) /\ at \in 1..Len(lx.out) /\ IsProgram(program) /\ output = <<>>
        BY <1>5 DEF ParseText, Typing, TextRead
    <2>2. CASE lx.out[at] = Eof \/ ~d.ok
        <3>1. program' = program /\ phase' \in {"link", "syntax error"}
            BY <1>5, <2>2 DEF ParseText, Go
        <3> QED
            BY <1>0, <2>1, <3>1 DEF Typing, Ends, Failures
    <2>3. CASE lx.out[at] # Eof /\ d.ok
        <3>1. program' = program \o d.v /\ phase' = "parse" /\ at' = d.at
            BY <1>5, <2>1, <2>3 DEF ParseText
        <3>2. /\ lx.out \in Seq(STRING) /\ Last(lx.out) = Eof
              /\ \A k \in 1..(Len(lx.out) - 1) : lx.out[k] # Eof
            BY <2>1 DEF HasRead
        <3>3. d.at \in 1..Len(lx.out) /\ IsProgram(d.v)
            <4>1. at \in Nat
                BY <2>1, <3>2
            <4> QED
                BY <2>1, <2>3, <3>2, <4>1, ReadsDeclarations, Zenon DEF ReadsDeclarations
        <3>4. IsProgram(program')
            BY <2>1, <3>1, <3>3, ProgramsJoin
        <3> QED
            BY <1>0, <2>1, <3>1, <3>3, <3>4 DEF Typing
    <2> QED
        BY <2>2, <2>3
<1>6. CASE SkipLink \/ LinkProgram \/ Unresolved \/ TypesPass \/ TypesFail \/ Overflow
             \/ StringStrictMode \/ StateMode \/ NominalMode \/ RootedMode \/ StrictMode
             \/ PrintProgram \/ Compile \/ NotWritten
    <2>1. /\ phase \in {"link", "types"} \cup ToSet(Stages)
          /\ phase' \in {"types"} \cup ToSet(Stages) \cup (Ends \ {"usage", "unreadable", "syntax error"})
          /\ LinkProgram \/ program' = program
          /\ output' = output \/ phase' = "ok"
        BY <1>6, LaterSteps
    <2>2. phase # "ok" /\ phase' # "parse"
        BY <2>1, StagesAre DEF Ends, Failures
    <2>3. IsProgram(program')
        <3>1. CASE program' = program
            BY <3>1 DEF Typing
        <3>2. CASE LinkProgram
            <4>1. PICK more \in Library : program' = program \o more
                BY <3>2 DEF LinkProgram
            <4>2. IsProgram(more)
                BY CompilerAssumption DEF CompilerAssumption
            <4> QED
                BY <4>1, <4>2, ProgramsJoin DEF Typing
        <3> QED
            BY <2>1, <3>1, <3>2
    <2> QED
        BY <1>0, <2>1, <2>2, <2>3 DEF Typing
<1> QED
    BY <1>1, <1>2, <1>3, <1>4, <1>5, <1>6 DEF Next

\* Type correctness: no step of a run reads beyond the text or its tokens, and only a
\* run that ends well has printed something.
THEOREM TypeCorrect == ASSUME ReadsDeclarations PROVE Spec => []TypeOK
<1>1. Typing => TypeOK
    <2> SUFFICES ASSUME Typing PROVE TypeOK
        OBVIOUS
    <2>1. TextRead /\ IsText(text) /\ IsProgram(program)
        BY DEF Typing, TextRead
    <2>2. BlocksNest
        BY <2>1, ReadIsNested
    <2>3. output # <<>> => ExitCode(phase) = 0
        BY StagesAre DEF Typing, ExitCode, Failures
    <2>4. phase = "parse" => Last(lx.out) = Eof
        BY <2>1 DEF TextRead, HasRead
    <2> QED
        BY <2>1, <2>2, <2>3, <2>4 DEF Typing, TypeOK, TextRead
<1>2. Typing /\ [Next]_vars => Typing'
    BY NextTyping
<1> QED
    BY <1>1, <1>2, InitTyping, PTL DEF Spec
----------------------------------------------------------------------------
(* The modes. *)

\* What Verdict says of a phase, a command, and the answer of a check.
Says(i, ph, cmd, asked, holds) ==
  /\ asked /\ cmd \in {"check", "compile"} /\ ph \in Beyond(i) => holds
  /\ ph = Refusals[i] => asked /\ ~holds

\* The phases beyond a mode.
LEMMA BeyondIs ==
    ASSUME NEW i \in 1..5
    PROVE  /\ \A j \in 1..6 : (Stages[j] \in Beyond(i) <=> j > i) /\ Stages[j] # Refusals[i]
           /\ \A j \in 1..5 : (Refusals[j] \in Beyond(i) <=> j > i) /\ (Refusals[j] = Refusals[i] => j = i)
           /\ \A ph : ph \in Beyond(i) => ph \in ToSet(Stages) \cup ToSet(Refusals) \cup {"ok", "artifact error", "not written"}
           /\ {"ok", "artifact error", "not written"} \subseteq Beyond(i)
           /\ Stages[1] \notin Beyond(i)
<1> DEFINE S(j) == Stages[j]
           R(j) == Refusals[j]
<1>1. /\ \A j, k \in 1..6 : S(j) = S(k) => j = k
      /\ \A j, k \in 1..5 : R(j) = R(k) => j = k
      /\ \A j \in 1..6, k \in 1..5 : S(j) # R(k)
      /\ \A j \in 1..6 : S(j) \notin {"ok", "artifact error", "not written"}
      /\ \A j \in 1..5 : R(j) \notin {"ok", "artifact error", "not written"}
    <2>1. 1..6 = {1, 2, 3, 4, 5, 6} /\ 1..5 = {1, 2, 3, 4, 5}
        OBVIOUS
    <2>2. /\ S(1) = "string-strict" /\ S(2) = "state" /\ S(3) = "nominal"
          /\ S(4) = "rooted" /\ S(5) = "strict" /\ S(6) = "print"
          /\ R(1) = "not string-strict" /\ R(2) = "bad state" /\ R(3) = "not nominal"
          /\ R(4) = "not rooted" /\ R(5) = "not strict"
        BY StagesAre
    <2> HIDE DEF S, R
    <2>3. \A j, k \in {1, 2, 3, 4, 5, 6} : S(j) = S(k) => j = k
        BY <2>2
    <2>4. \A j, k \in {1, 2, 3, 4, 5} : R(j) = R(k) => j = k
        BY <2>2
    <2>5. \A j \in {1, 2, 3, 4, 5, 6}, k \in {1, 2, 3, 4, 5} : S(j) # R(k)
        BY <2>2
    <2>6. \A j \in {1, 2, 3, 4, 5, 6} : S(j) \notin {"ok", "artifact error", "not written"}
        BY <2>2
    <2>7. \A j \in {1, 2, 3, 4, 5} : R(j) \notin {"ok", "artifact error", "not written"}
        BY <2>2
    <2>8. ASSUME NEW D, D = {1, 2, 3, 4, 5, 6}, NEW E, E = {1, 2, 3, 4, 5}
          PROVE  /\ \A j, k \in D : S(j) = S(k) => j = k
                 /\ \A j, k \in E : R(j) = R(k) => j = k
                 /\ \A j \in D, k \in E : S(j) # R(k)
                 /\ \A j \in D : S(j) \notin {"ok", "artifact error", "not written"}
                 /\ \A j \in E : R(j) \notin {"ok", "artifact error", "not written"}
        BY <2>3, <2>4, <2>5, <2>6, <2>7, <2>8, Zenon
    <2> QED
        BY <2>1, <2>8, Zenon
<1>2. Beyond(i) = {S(j) : j \in (i + 1)..6} \cup {R(j) : j \in (i + 1)..5} \cup {"ok", "artifact error", "not written"}
    <2>1. Len(Stages) = 6 /\ Len(Refusals) = 5
        BY StagesAre
    <2> QED
        BY <2>1, Zenon DEF Beyond
<1>3. ToSet(Stages) = {S(j) : j \in 1..6} /\ ToSet(Refusals) = {R(j) : j \in 1..5}
    <2>1. DOMAIN Stages = 1..6 /\ DOMAIN Refusals = 1..5
        BY StagesAre
    <2> QED
        BY <2>1, Zenon DEF ToSet
<1> HIDE DEF S, R
<1>4. (i + 1)..6 \subseteq 1..6 /\ (i + 1)..5 \subseteq 1..5
    OBVIOUS
<1>5. \A j \in 1..6 : S(j) \in Beyond(i) <=> j > i
    <2>1. \A j \in 1..6 : j \in (i + 1)..6 <=> j > i
        OBVIOUS
    <2>2. ASSUME NEW j \in 1..6 PROVE S(j) \in Beyond(i) <=> j \in (i + 1)..6
        <3>1. S(j) \notin {"ok", "artifact error", "not written"}
            BY <1>1, Zenon
        <3>2. \A k \in (i + 1)..5 : S(j) # R(k)
            BY <1>1, <1>4, Zenon
        <3>3. \A k \in (i + 1)..6 : S(j) = S(k) => j = k
            BY <1>1, <1>4, Zenon
        <3> QED
            BY <1>2, <3>1, <3>2, <3>3, Zenon
    <2> QED
        BY <2>1, <2>2, Zenon
<1>6. \A j \in 1..5 : R(j) \in Beyond(i) <=> j > i
    <2>1. \A j \in 1..5 : j \in (i + 1)..5 <=> j > i
        OBVIOUS
    <2>2. ASSUME NEW j \in 1..5 PROVE R(j) \in Beyond(i) <=> j \in (i + 1)..5
        <3>1. R(j) \notin {"ok", "artifact error", "not written"}
            BY <1>1, Zenon
        <3>2. \A k \in (i + 1)..6 : R(j) # S(k)
            BY <1>1, <1>4, Zenon
        <3>3. \A k \in (i + 1)..5 : R(j) = R(k) => j = k
            BY <1>1, <1>4, Zenon
        <3> QED
            BY <1>2, <3>1, <3>2, <3>3, Zenon
    <2> QED
        BY <2>1, <2>2, Zenon
<1>7. \A ph : ph \in Beyond(i) => ph \in ToSet(Stages) \cup ToSet(Refusals) \cup {"ok", "artifact error", "not written"}
    BY <1>2, <1>3, <1>4, Zenon
<1>8. {"ok", "artifact error", "not written"} \subseteq Beyond(i)
    BY <1>2, Zenon
<1>9. S(1) \notin Beyond(i)
    <2>1. 1 \in 1..6 /\ ~(1 > i)
        OBVIOUS
    <2> QED
        BY <1>5, <2>1, Zenon
<1> QED
    BY <1>1, <1>5, <1>6, <1>7, <1>8, <1>9, Zenon DEF S, R

\* Until the modes are reached, and where they are skipped, there is no verdict.
LEMMA NoVerdict ==
    ASSUME NEW i \in 1..5, NEW ph, NEW cmd, NEW asked, NEW holds,
           \/ ph \in {"args", "lex", "parse", "link", "types", Stages[1], "overflow"}
           \/ ph \in {"usage", "unreadable", "syntax error", "unresolved", "type error"}
           \/ ph \in {"ok", "print"} /\ cmd \notin {"check", "compile"}
    PROVE  Says(i, ph, cmd, asked, holds)
<1>1. CASE ph \in {"args", "lex", "parse", "link", "types", Stages[1], "overflow"}
             \cup {"usage", "unreadable", "syntax error", "unresolved", "type error"}
    <2>1. ph \notin Beyond(i)
        <3>1. CASE ph = Stages[1]
            BY <3>1, BeyondIs
        <3>2. CASE ph # Stages[1]
            <4>1. ph \notin ToSet(Stages) \cup ToSet(Refusals) \cup {"ok", "artifact error", "not written"}
                BY <1>1, <3>2, StagesAre
            <4> QED
                BY <4>1, BeyondIs, Zenon
        <3> QED
            BY <3>1, <3>2
    <2>2. ph # Refusals[i]
        <3>1. ph \notin ToSet(Refusals)
            BY <1>1, StagesAre
        <3>2. i \in DOMAIN Refusals
            BY StagesAre, Zenon
        <3> QED
            BY <3>1, <3>2 DEF ToSet
    <2> QED
        BY <2>1, <2>2 DEF Says
<1>2. CASE ph \in {"ok", "print"} /\ cmd \notin {"check", "compile"}
    <2>1. ph # Refusals[i]
        <3>1. ph \notin ToSet(Refusals)
            BY <1>2, StagesAre
        <3>2. i \in DOMAIN Refusals
            BY StagesAre, Zenon
        <3> QED
            BY <3>1, <3>2 DEF ToSet
    <2> QED
        BY <1>2, <2>1 DEF Says
<1> QED
    BY <1>1, <1>2

\* A mode that is checked gives its own verdict and forgets no other.
LEMMA ModeSays ==
    ASSUME NEW i \in 1..5, NEW j \in 1..5, NEW ph, NEW next, NEW cmd,
           NEW asked, NEW holds, NEW asks, NEW passes,
           Says(i, ph, cmd, asked, holds),
           i = j => (asks <=> asked) /\ (passes <=> holds),
           ph = Stages[j], next = IF asks /\ ~passes THEN Refusals[j] ELSE Stages[j + 1]
    PROVE  Says(i, next, cmd, asked, holds)
<1>1. j \in 1..6 /\ j + 1 \in 1..6 /\ (j + 1 > i <=> j > i \/ j = i)
    OBVIOUS
<1>2. Stages[j + 1] # Refusals[i] /\ (Stages[j + 1] \in Beyond(i) <=> j > i \/ j = i)
    BY <1>1, BeyondIs, Zenon
<1>3. (Refusals[j] = Refusals[i] => j = i) /\ (Refusals[j] \in Beyond(i) <=> j > i)
    BY BeyondIs, Zenon
<1>4. Stages[j] \in Beyond(i) <=> j > i
    BY <1>1, BeyondIs, Zenon
<1>5. CASE asks /\ ~passes
    <2>1. next = Refusals[j]
        BY <1>5
    <2>2. CASE i = j
        <3>1. asked /\ ~holds /\ ~(j > i)
            <4>1. asked /\ ~holds
                BY <1>5, <2>2, Zenon
            <4>2. ~(j > i)
                BY <2>2
            <4> QED
                BY <4>1, <4>2
        <3> QED
            BY <1>3, <2>1, <3>1 DEF Says
    <2>3. CASE i # j
        BY <1>3, <1>4, <2>1, <2>3 DEF Says
    <2> QED
        BY <2>2, <2>3
<1>6. CASE ~(asks /\ ~passes)
    <2>1. next = Stages[j + 1]
        BY <1>6
    <2>2. CASE i = j
        <3>1. asked => holds
            BY <1>6, <2>2
        <3> QED
            BY <1>2, <2>1, <3>1 DEF Says
    <2>3. CASE i # j
        BY <1>2, <1>4, <2>1, <2>3 DEF Says
    <2> QED
        BY <2>2, <2>3
<1> QED
    BY <1>5, <1>6

\* The run prints when all modes have been checked.
LEMMA LastStage ==
    ASSUME NEW i \in 1..5
    PROVE  "print" \in Beyond(i)
<1>1. 6 \in 1..6 /\ 6 > i
    OBVIOUS
<1>2. Stages[6] \in Beyond(i)
    BY <1>1, BeyondIs, Zenon
<1> QED
    BY <1>2, StagesAre, Zenon

\* Printing forgets none.
LEMMA PrintSays ==
    ASSUME NEW i \in 1..5, NEW ph, NEW next, NEW cmd, NEW asked, NEW holds,
           Says(i, ph, cmd, asked, holds),
           ph = "print", next \in {"ok", "artifact error", "not written"}
    PROVE  Says(i, next, cmd, asked, holds)
<1>1. ph \in Beyond(i)
    BY LastStage, Zenon
<1>2. next # Refusals[i]
    <2>1. next \notin ToSet(Refusals)
        BY StagesAre
    <2>2. i \in DOMAIN Refusals
        BY StagesAre, Zenon
    <2> QED
        BY <2>1, <2>2 DEF ToSet
<1> QED
    BY <1>1, <1>2 DEF Says

\* What is asked of the modes and what they find.
AskedIn(i, in) ==
  \/ i = 1 /\ "string-strict" \in in.flags
  \/ i = 2 /\ "state" \in in.flags
  \/ i = 3 /\ ("nominal" \in in.flags \/ "restricted" \in in.flags)
  \/ i = 4 /\ "rooted" \in in.flags
  \/ i = 5 /\ "strict" \in in.flags
FoundBy(i, in, p) ==
  \/ i = 1 /\ StringsNamed(p)
  \/ i = 2 /\ StateCheck(p)
  \/ i = 3 /\ NominalCheck(p, "restricted" \in in.flags)
  \/ i = 4 /\ WorldsRooted(p) /\ OneComponent(p)
  \/ i = 5 /\ StructuresNamed(p)
Verdicts == \A i \in 1..5 : Says(i, phase, input.cmd, AskedIn(i, input), FoundBy(i, input, program))

\* There are five modes.
LEMMA FiveModes == 1..5 = {1, 2, 3, 4, 5} /\ 1 \in 1..5 /\ 2 \in 1..5 /\ 3 \in 1..5 /\ 4 \in 1..5 /\ 5 \in 1..5
    OBVIOUS

\* What AskedIn and FoundBy say of each of them.
LEMMA AskedAndFound ==
    ASSUME NEW in, NEW p
    PROVE  /\ AskedIn(1, in) <=> "string-strict" \in in.flags
           /\ AskedIn(2, in) <=> "state" \in in.flags
           /\ AskedIn(3, in) <=> "nominal" \in in.flags \/ "restricted" \in in.flags
           /\ AskedIn(4, in) <=> "rooted" \in in.flags
           /\ AskedIn(5, in) <=> "strict" \in in.flags
           /\ FoundBy(1, in, p) <=> StringsNamed(p)
           /\ FoundBy(2, in, p) <=> StateCheck(p)
           /\ FoundBy(3, in, p) <=> NominalCheck(p, "restricted" \in in.flags)
           /\ FoundBy(4, in, p) <=> WorldsRooted(p) /\ OneComponent(p)
           /\ FoundBy(5, in, p) <=> StructuresNamed(p)
<1>1. 1 # 2 /\ 1 # 3 /\ 1 # 4 /\ 1 # 5 /\ 2 # 3 /\ 2 # 4 /\ 2 # 5 /\ 3 # 4 /\ 3 # 5 /\ 4 # 5
    OBVIOUS
<1> QED
    BY <1>1, Zenon DEF AskedIn, FoundBy

\* No step makes a verdict wrong.
LEMMA NextVerdicts ==
    ASSUME Verdicts, [Next]_vars, NEW i \in 1..5
    PROVE  Says(i, phase', input'.cmd, AskedIn(i, input'), FoundBy(i, input', program'))
<1>0. Says(i, phase, input.cmd, AskedIn(i, input), FoundBy(i, input, program))
    BY Zenon DEF Verdicts
<1>1. CASE UNCHANGED vars
    <2>1. phase' = phase /\ input' = input /\ program' = program
        BY <1>1 DEF vars
    <2> QED
        BY <1>0, <2>1, Zenon
<1>2. CASE Usage
    <2>1. input' = input /\ (phase' = "usage" \/ (phase' = "ok" /\ input.cmd = "help"))
        BY <1>2 DEF Usage, Go, Keep
    <2> QED
        BY <2>1, NoVerdict
<1>3. CASE ReadText \/ LexText \/ ParseText
    <2>1. phase' \in {"lex", "parse", "link"} \cup {"unreadable", "syntax error"}
        BY <1>3 DEF ReadText, LexText, ParseText, Go
    <2> QED
        BY <2>1, NoVerdict
<1>4. CASE SkipLink \/ LinkProgram \/ Unresolved
    <2>1. \/ phase' \in {"types", "unresolved"}
          \/ phase' = "print" /\ input'.cmd \notin {"check", "compile"}
        BY <1>4 DEF SkipLink, LinkProgram, Unresolved, Linked, Go, Keep
    <2> QED
        BY <2>1, NoVerdict
<1>5. CASE TypesPass \/ TypesFail \/ Overflow
    <2>1. phase' \in {Stages[1], "overflow"} \cup {"type error"}
        BY <1>5 DEF TypesPass, TypesFail, Overflow, Go
    <2> QED
        BY <2>1, NoVerdict
<1>6. ASSUME NEW j \in 1..5, phase = Stages[j], input' = input, program' = program,
             phase' = IF AskedIn(j, input) /\ ~FoundBy(j, input, program) THEN Refusals[j] ELSE Stages[j + 1]
      PROVE  Says(i, phase', input'.cmd, AskedIn(i, input'), FoundBy(i, input', program'))
    <2>1. i = j => (AskedIn(j, input) <=> AskedIn(i, input)) /\ (FoundBy(j, input, program) <=> FoundBy(i, input, program))
        BY Zenon
    <2>2. Says(i, phase', input.cmd, AskedIn(i, input), FoundBy(i, input, program))
        <3>1. \A ph, next, cmd, asked, holds, asks, passes :
                /\ Says(i, ph, cmd, asked, holds)
                /\ i = j => (asks <=> asked) /\ (passes <=> holds)
                /\ ph = Stages[j] /\ next = IF asks /\ ~passes THEN Refusals[j] ELSE Stages[j + 1]
                => Says(i, next, cmd, asked, holds)
            BY ModeSays, Zenon
        <3> QED
            BY <1>0, <1>6, <2>1, <3>1, Zenon
    <2> QED
        BY <1>6, <2>2, Zenon
<1>7. CASE StringStrictMode
    <2>1. input' = input /\ program' = program /\ phase = Stages[1]
        BY <1>7 DEF StringStrictMode, Mode, Keep
    <2>2. phase' = IF AskedIn(1, input) /\ ~FoundBy(1, input, program) THEN Refusals[1] ELSE Stages[1 + 1]
        BY <1>7, AskedAndFound, Zenon DEF StringStrictMode, Mode, Go, Asked
    <2> QED
        BY <1>6, <2>1, <2>2, FiveModes, Zenon
<1>8. CASE StateMode
    <2>1. input' = input /\ program' = program /\ phase = Stages[2]
        BY <1>8 DEF StateMode, Mode, Keep
    <2>2. phase' = IF AskedIn(2, input) /\ ~FoundBy(2, input, program) THEN Refusals[2] ELSE Stages[2 + 1]
        BY <1>8, AskedAndFound, Zenon DEF StateMode, Mode, Go, Asked
    <2> QED
        BY <1>6, <2>1, <2>2, FiveModes, Zenon
<1>9. CASE NominalMode
    <2>1. input' = input /\ program' = program /\ phase = Stages[3]
        BY <1>9 DEF NominalMode, Mode, Keep
    <2>2. phase' = IF AskedIn(3, input) /\ ~FoundBy(3, input, program) THEN Refusals[3] ELSE Stages[3 + 1]
        BY <1>9, AskedAndFound, Zenon DEF NominalMode, Mode, Go, Asked
    <2> QED
        BY <1>6, <2>1, <2>2, FiveModes, Zenon
<1>10. CASE RootedMode
    <2>1. input' = input /\ program' = program /\ phase = Stages[4]
        BY <1>10 DEF RootedMode, Mode, Keep
    <2>2. phase' = IF AskedIn(4, input) /\ ~FoundBy(4, input, program) THEN Refusals[4] ELSE Stages[4 + 1]
        BY <1>10, AskedAndFound, Zenon DEF RootedMode, Mode, Go, Asked
    <2> QED
        BY <1>6, <2>1, <2>2, FiveModes, Zenon
<1>11. CASE StrictMode
    <2>1. input' = input /\ program' = program /\ phase = Stages[5]
        BY <1>11 DEF StrictMode, Mode, Keep
    <2>2. phase' = IF AskedIn(5, input) /\ ~FoundBy(5, input, program) THEN Refusals[5] ELSE Stages[5 + 1]
        BY <1>11, AskedAndFound, Zenon DEF StrictMode, Mode, Go, Asked
    <2> QED
        BY <1>6, <2>1, <2>2, FiveModes, Zenon
<1>12. CASE PrintProgram \/ Compile \/ NotWritten
    <2>1. input' = input /\ program' = program /\ phase = "print" /\ phase' \in {"ok", "artifact error", "not written"}
        BY <1>12 DEF PrintProgram, Compile, NotWritten, Answer, Go, Keep
    <2>2. Says(i, phase', input.cmd, AskedIn(i, input), FoundBy(i, input, program))
        BY <1>0, <2>1, PrintSays, Zenon
    <2> QED
        BY <2>1, <2>2, Zenon
<1> QED
    BY <1>1, <1>2, <1>3, <1>4, <1>5, <1>7, <1>8, <1>9, <1>10, <1>11, <1>12 DEF Next

\* All verdicts are right in every run.
LEMMA VerdictsHold == Spec => []Verdicts
<1>1. Init => Verdicts
    <2> SUFFICES ASSUME Init, NEW i \in 1..5 PROVE Says(i, phase, input.cmd, AskedIn(i, input), FoundBy(i, input, program))
        BY DEF Verdicts
    <2>1. phase = "args"
        BY DEF Init
    <2> QED
        BY <2>1, NoVerdict
<1>2. Verdicts /\ [Next]_vars => Verdicts'
    BY NextVerdicts DEF Verdicts
<1> QED
    BY <1>1, <1>2, PTL DEF Spec

\* Every mode that is asked for is checked, by every run that checks or compiles and
\* comes to its end, and a run is refused for a mode only if that was asked for and
\* does not hold, whatever the modes that follow terms are.
THEOREM EveryModeIsChecked ==
    Spec => [](/\ Verdict(1, Asked("string-strict"), StringsNamed(program))
               /\ Verdict(2, Asked("state"), StateCheck(program))
               /\ Verdict(3, Asked("nominal") \/ Asked("restricted"), NominalCheck(program, Asked("restricted")))
               /\ Verdict(4, Asked("rooted"), WorldsRooted(program) /\ OneComponent(program))
               /\ Verdict(5, Asked("strict"), StructuresNamed(program)))
<1>1. Verdicts =>
        /\ Verdict(1, Asked("string-strict"), StringsNamed(program))
        /\ Verdict(2, Asked("state"), StateCheck(program))
        /\ Verdict(3, Asked("nominal") \/ Asked("restricted"), NominalCheck(program, Asked("restricted")))
        /\ Verdict(4, Asked("rooted"), WorldsRooted(program) /\ OneComponent(program))
        /\ Verdict(5, Asked("strict"), StructuresNamed(program))
    <2> SUFFICES ASSUME Verdicts
                 PROVE  /\ Verdict(1, Asked("string-strict"), StringsNamed(program))
                        /\ Verdict(2, Asked("state"), StateCheck(program))
                        /\ Verdict(3, Asked("nominal") \/ Asked("restricted"), NominalCheck(program, Asked("restricted")))
                        /\ Verdict(4, Asked("rooted"), WorldsRooted(program) /\ OneComponent(program))
                        /\ Verdict(5, Asked("strict"), StructuresNamed(program))
        OBVIOUS
    <2>1. \A i \in 1..5 : Says(i, phase, input.cmd, AskedIn(i, input), FoundBy(i, input, program))
        BY DEF Verdicts
    <2>2. Verdict(1, Asked("string-strict"), StringsNamed(program))
        BY <2>1, FiveModes, AskedAndFound, Zenon DEF Says, Verdict, Asked
    <2>3. Verdict(2, Asked("state"), StateCheck(program))
        BY <2>1, FiveModes, AskedAndFound, Zenon DEF Says, Verdict, Asked
    <2>4. Verdict(3, Asked("nominal") \/ Asked("restricted"), NominalCheck(program, Asked("restricted")))
        BY <2>1, FiveModes, AskedAndFound, Zenon DEF Says, Verdict, Asked
    <2>5. Verdict(4, Asked("rooted"), WorldsRooted(program) /\ OneComponent(program))
        BY <2>1, FiveModes, AskedAndFound, Zenon DEF Says, Verdict, Asked
    <2>6. Verdict(5, Asked("strict"), StructuresNamed(program))
        BY <2>1, FiveModes, AskedAndFound, Zenon DEF Says, Verdict, Asked
    <2> QED
        BY <2>2, <2>3, <2>4, <2>5, <2>6
<1> QED
    BY <1>1, VerdictsHold, PTL

\* --state, --nominal, --restricted and --rooted: a program that passes is what they
\* are for, one that they refuse is not, in every run.
THEOREM NameModes == ASSUME ReadsDeclarations PROVE Spec => []NameModesHold
<1> DEFINE V == /\ Verdict(2, Asked("state"), StateCheck(program))
                /\ Verdict(3, Asked("nominal") \/ Asked("restricted"), NominalCheck(program, Asked("restricted")))
                /\ Verdict(4, Asked("rooted"), WorldsRooted(program) /\ OneComponent(program))
<1>1. V /\ Typing => NameModesHold
    <2> SUFFICES ASSUME V, Typing PROVE NameModesHold
        OBVIOUS
    <2>1. IsProgram(program)
        BY DEF Typing
    <2>2. StateCheck(program) <=> DefaultsTyped(program) /\ \A d \in ToSet(program) : OwnPaths(d)
        BY <2>1, StateIsTyped, Zenon
    <2>3. \A r : NominalCheck(program, r) <=> FlowNarrows(program, r)
        BY <2>1, NominalIsNarrowing, Zenon
    <2>4. OneComponent(program) <=> Undivided(program)
        BY <2>1, RootedIsUndivided, Zenon
    <2>5. Verdict(2, Asked("state"), DefaultsTyped(program) /\ \A d \in ToSet(program) : OwnPaths(d))
        BY <2>2, Zenon DEF Verdict
    <2>6. Verdict(3, Asked("nominal") \/ Asked("restricted"), FlowNarrows(program, Asked("restricted")))
        BY <2>3, Zenon DEF Verdict
    <2>7. Verdict(4, Asked("rooted"), WorldsRooted(program) /\ Undivided(program))
        BY <2>4, Zenon DEF Verdict
    <2> QED
        BY <2>5, <2>6, <2>7, Zenon DEF NameModesHold
<1>2. Spec => []V
    BY EveryModeIsChecked, PTL
<1>3. Typing /\ [Next]_vars => Typing'
    BY NextTyping
<1>4. Spec => []Typing
    BY <1>3, InitTyping, PTL DEF Spec
<1> QED
    BY <1>1, <1>2, <1>4, PTL

----------------------------------------------------------------------------
(* The flow of an artifact. *)

\* Of two members of s the one in front is related to the other.
Ordered(s, R) == \A i, j \in DOMAIN s : i < j => <<s[i], s[j]>> \in R

\* Nothing in front of a sequence leaves it as it is.
LEMMA NothingInFront ==
    ASSUME NEW T, NEW s \in Seq(T), NEW e \in Seq(T), e = <<>>
    PROVE  e \o s = s
<1>1. Len(e) = 0
    OBVIOUS
<1>2. e \o s \in Seq(T) /\ Len(e \o s) = Len(s) /\ \A i \in 1..Len(s) : (e \o s)[i] = s[i]
    <2>1. /\ e \o s \in Seq(T) /\ Len(e \o s) = Len(e) + Len(s)
          /\ \A i \in 1..Len(s) : (e \o s)[Len(e) + i] = s[i]
        BY ConcatIs
    <2>2. \A i \in 1..Len(s) : Len(e) + i = i
        BY <1>1
    <2> QED
        BY <1>1, <2>1, <2>2
<1> DEFINE t == e \o s
<1> HIDE DEF t
<1>3. t = s
    BY <1>2 DEF t
<1> QED
    BY <1>3 DEF t

\* The number in front of i.
LEMMA InFront ==
    ASSUME NEW n \in Nat, NEW i \in 1..n
    PROVE  i - 1 \in 0..n /\ (i = 1 => i - 1 = 0) /\ (i # 1 => i - 1 \in 1..n)
OBVIOUS

\* Sequences are joined one after the other.
LEMMA JoinsOne ==
    ASSUME NEW T, NEW F \in Seq(Seq(T))
    PROVE  \E f \in [0..Len(F) -> Seq(T)] :
             /\ f[0] = <<>> /\ \A k \in 1..Len(F) : f[k] = f[k - 1] \o F[k]
             /\ FlattenSeq(F) = f[Len(F)]
<1> DEFINE step == [k \in 1..Len(F) |-> [s \in Seq(T) |-> s \o F[k]]]
           flatten[i \in 1..Len(F)] == IF i = 1 THEN F[i] ELSE flatten[i - 1] \o F[i]
<1>1. Len(F) \in Nat /\ <<>> \in Seq(T) /\ \A k \in 1..Len(F) : F[k] \in Seq(T)
    OBVIOUS
<1>2. step \in [1..Len(F) -> [Seq(T) -> Seq(T)]]
    BY <1>1, ConcatIs
<1>3. PICK f \in [0..Len(F) -> Seq(T)] : RecursBy(f, Len(F), <<>>, step)
    <2> HIDE DEF step
    <2> QED
        BY <1>1, <1>2, Iterates, Zenon
<1>4. f[0] = <<>> /\ \A k \in 1..Len(F) : f[k] = f[k - 1] \o F[k]
    <2> SUFFICES ASSUME NEW k \in 1..Len(F) PROVE f[k] = f[k - 1] \o F[k]
        BY <1>3 DEF RecursBy
    <2>1. f[k - 1] \in Seq(T)
        <3>1. k - 1 \in 0..Len(F)
            BY <1>1, InFront
        <3> QED
            BY <3>1, Zenon
    <2>2. f[k] = step[k][f[k - 1]]
        BY <1>3 DEF RecursBy
    <2> QED
        BY <2>1, <2>2
<1> HIDE DEF step
<1>5. \E g : g = [i \in 1..Len(F) |-> IF i = 1 THEN F[i] ELSE g[i - 1] \o F[i]]
    <2> DEFINE g == [i \in 1..Len(F) |-> f[i]]
    <2>1. ASSUME NEW i \in 1..Len(F) PROVE g[i] = IF i = 1 THEN F[i] ELSE g[i - 1] \o F[i]
        <3>1. CASE i = 1
            <4>0. i - 1 = 0 /\ 0 \in 0..Len(F)
                BY <1>1, <3>1, InFront
            <4>1. f[i] = f[0] \o F[i] /\ f[0] = <<>> /\ f[0] \in Seq(T) /\ F[i] \in Seq(T)
                BY <1>1, <1>4, <4>0, Zenon
            <4>2. f[0] \o F[i] = F[i]
                BY <4>1, NothingInFront
            <4> QED
                BY <3>1, <4>1, <4>2
        <3>2. CASE i # 1
            <4>1. i - 1 \in 1..Len(F) /\ f[i] = f[i - 1] \o F[i]
                BY <1>1, <1>4, <3>2, InFront, Zenon
            <4> QED
                BY <3>2, <4>1
        <3> QED
            BY <3>1, <3>2
    <2>2. g = [i \in 1..Len(F) |-> IF i = 1 THEN F[i] ELSE g[i - 1] \o F[i]]
        BY <2>1
    <2> HIDE DEF g
    <2> QED
        BY <2>2
<1>6. flatten = [i \in 1..Len(F) |-> IF i = 1 THEN F[i] ELSE flatten[i - 1] \o F[i]]
    BY <1>5, Zenon
<1>7. FlattenSeq(F) = IF Len(F) = 0 THEN F ELSE flatten[Len(F)]
    BY Zenon DEF FlattenSeq
<1> HIDE DEF flatten
<1>8. \A k \in 1..Len(F) : flatten[k] = f[k]
    <2> DEFINE P == {k \in 0..Len(F) : k = 0 \/ flatten[k] = f[k]}
    <2>1. 0 \in P
        BY <1>1
    <2>2. ASSUME NEW k \in 0..(Len(F) - 1), k \in P PROVE k + 1 \in P
        <3>1. k + 1 \in 1..Len(F) /\ k + 1 \in 0..Len(F) /\ (k + 1) - 1 = k /\ k \in Nat /\ (k + 1 = 1) = (k = 0)
            BY <1>1
        <3>2. f[k + 1] = f[k] \o F[k + 1]
            BY <1>4, <3>1
        <3>3. flatten[k + 1] = IF k = 0 THEN F[k + 1] ELSE flatten[k] \o F[k + 1]
            BY <1>6, <3>1
        <3>4. CASE k = 0
            <4>1. f[k] = <<>> /\ f[k] \in Seq(T) /\ F[k + 1] \in Seq(T)
                BY <1>1, <1>4, <3>1, <3>4
            <4>2. f[k] \o F[k + 1] = F[k + 1]
                BY <4>1, NothingInFront
            <4> QED
                BY <3>1, <3>2, <3>3, <3>4, <4>2
        <3>5. CASE k # 0
            <4>1. flatten[k] = f[k]
                BY <2>2, <3>5
            <4> QED
                BY <3>1, <3>2, <3>3, <3>5, <4>1
        <3> QED
            BY <3>4, <3>5
    <2> HIDE DEF P
    <2>3. \A k \in 0..Len(F) : k \in P
        BY <1>1, <2>1, <2>2, InductUpTo
    <2>4. \A k \in 1..Len(F) : k \in 0..Len(F) /\ k # 0
        BY <1>1
    <2> QED
        BY <2>3, <2>4 DEF P
<1>9. FlattenSeq(F) = f[Len(F)]
    <2>1. CASE Len(F) = 0
        <3>1. F = <<>>
            BY <2>1
        <3> QED
            BY <1>4, <1>7, <2>1, <3>1
    <2>2. CASE Len(F) # 0
        <3>1. Len(F) \in 1..Len(F)
            BY <1>1, <2>2
        <3> QED
            BY <1>7, <1>8, <2>2, <3>1
    <2> QED
        BY <2>1, <2>2
<1> QED
    BY <1>4, <1>9

\* What is ordered in two sequences and between them is ordered in both together.
LEMMA OrderedConcat ==
    ASSUME NEW T, NEW s \in Seq(T), NEW t \in Seq(T), NEW R, Ordered(s, R), Ordered(t, R),
           \A x \in ToSet(s), y \in ToSet(t) : <<x, y>> \in R
    PROVE  Ordered(s \o t, R)
<1> DEFINE u == s \o t
<1>1. u \in Seq(T) /\ Len(u) = Len(s) + Len(t) /\ Len(s) \in Nat /\ Len(t) \in Nat
      /\ (\A i \in 1..Len(s) : u[i] = s[i]) /\ \A i \in 1..Len(t) : u[Len(s) + i] = t[i]
    BY ConcatIs
<1> HIDE DEF u
<1>2. SUFFICES ASSUME NEW i \in DOMAIN u, NEW j \in DOMAIN u, i < j PROVE <<u[i], u[j]>> \in R
    BY DEF Ordered, u
<1>3. i \in 1..(Len(s) + Len(t)) /\ j \in 1..(Len(s) + Len(t)) /\ i \in Nat /\ j \in Nat
    BY <1>1
<1>4. CASE j <= Len(s)
    <2>1. i \in DOMAIN s /\ j \in DOMAIN s /\ u[i] = s[i] /\ u[j] = s[j]
        BY <1>1, <1>2, <1>3, <1>4
    <2> QED
        BY <1>2, <2>1 DEF Ordered
<1>5. CASE i <= Len(s) /\ j > Len(s)
    <2>1. i \in DOMAIN s /\ u[i] = s[i]
        BY <1>1, <1>3, <1>5
    <2>2. j - Len(s) \in DOMAIN t /\ j - Len(s) \in 1..Len(t) /\ Len(s) + (j - Len(s)) = j
        BY <1>1, <1>3, <1>5
    <2>3. u[j] = t[j - Len(s)]
        BY <1>1, <2>2
    <2>4. s[i] \in ToSet(s) /\ t[j - Len(s)] \in ToSet(t)
        BY <2>1, <2>2, Zenon DEF ToSet
    <2> QED
        BY <2>1, <2>3, <2>4
<1>6. CASE i > Len(s)
    <2> DEFINE a == i - Len(s)
               b == j - Len(s)
    <2>1. a \in 1..Len(t) /\ b \in 1..Len(t) /\ a < b /\ Len(s) + a = i /\ Len(s) + b = j /\ a \in DOMAIN t /\ b \in DOMAIN t
        BY <1>1, <1>2, <1>3, <1>6
    <2> HIDE DEF a, b
    <2>2. u[i] = t[a] /\ u[j] = t[b]
        BY <1>1, <2>1
    <2> QED
        BY <2>1, <2>2 DEF Ordered
<1> QED
    BY <1>1, <1>3, <1>4, <1>5, <1>6

\* What is ordered in sequences and between them is ordered when they are joined.
LEMMA JoinIs ==
    ASSUME NEW T, NEW F \in Seq(Seq(T)), NEW R,
           \A k \in 1..Len(F) : Ordered(F[k], R),
           \A k, l \in 1..Len(F) : k < l => \A x \in ToSet(F[k]), y \in ToSet(F[l]) : <<x, y>> \in R
    PROVE  /\ FlattenSeq(F) \in Seq(T) /\ Ordered(FlattenSeq(F), R)
           /\ ToSet(FlattenSeq(F)) = UNION {ToSet(F[k]) : k \in 1..Len(F)}
<1>1. PICK f \in [0..Len(F) -> Seq(T)] :
             /\ f[0] = <<>> /\ \A k \in 1..Len(F) : f[k] = f[k - 1] \o F[k]
             /\ FlattenSeq(F) = f[Len(F)]
    BY JoinsOne
<1>2. Len(F) \in Nat /\ \A k \in 1..Len(F) : F[k] \in Seq(T)
    OBVIOUS
<1> DEFINE upTo(k) == UNION {ToSet(F[l]) : l \in 1..k}
           P == {k \in 0..Len(F) : ToSet(f[k]) = upTo(k) /\ Ordered(f[k], R)}
<1>3. 0 \in P
    <2>1. DOMAIN <<>> = {}
        OBVIOUS
    <2>2. ToSet(f[0]) = {} /\ Ordered(f[0], R)
        BY <1>1, <2>1 DEF ToSet, Ordered
    <2>3. upTo(0) = {}
        OBVIOUS
    <2> QED
        BY <1>2, <2>2, <2>3
<1>4. ASSUME NEW k \in 0..(Len(F) - 1), k \in P PROVE k + 1 \in P
    <2>1. k + 1 \in 1..Len(F) /\ k + 1 \in 0..Len(F) /\ (k + 1) - 1 = k /\ k \in 0..Len(F) /\ k \in Nat
        BY <1>2
    <2>2. f[k + 1] = f[k] \o F[k + 1] /\ f[k] \in Seq(T) /\ F[k + 1] \in Seq(T)
        BY <1>1, <1>2, <2>1
    <2>3. ToSet(f[k]) = upTo(k) /\ Ordered(f[k], R)
        BY <1>4
    <2>4. upTo(k + 1) = upTo(k) \cup ToSet(F[k + 1])
        <3>1. 1..(k + 1) = (1..k) \cup {k + 1}
            BY <2>1
        <3> QED
            BY <3>1
    <2>5. ToSet(f[k + 1]) = upTo(k + 1)
        <3> HIDE DEF upTo
        <3>1. ToSet(f[k] \o F[k + 1]) = ToSet(f[k]) \cup ToSet(F[k + 1])
            BY <2>2, ConcatToSet
        <3> QED
            BY <2>2, <2>3, <2>4, <3>1
    <2>6. \A x \in ToSet(f[k]), y \in ToSet(F[k + 1]) : <<x, y>> \in R
        <3> SUFFICES ASSUME NEW x \in upTo(k), NEW y \in ToSet(F[k + 1]) PROVE <<x, y>> \in R
            BY <2>3
        <3>1. PICK l \in 1..k : x \in ToSet(F[l])
            OBVIOUS
        <3>2. l \in 1..Len(F) /\ l < k + 1
            BY <1>2, <2>1
        <3> QED
            BY <2>1, <3>1, <3>2
    <2>7. Ordered(F[k + 1], R)
        BY <2>1
    <2>8. Ordered(f[k + 1], R)
        <3> HIDE DEF upTo
        <3> QED
            BY <2>2, <2>3, <2>6, <2>7, OrderedConcat
    <2> QED
        BY <2>1, <2>5, <2>8
<1>5. \A k \in 0..Len(F) : k \in P
    <2> HIDE DEF P
    <2> QED
        BY <1>2, <1>3, <1>4, InductUpTo
<1>6. Len(F) \in 0..Len(F)
    BY <1>2
<1>7. ToSet(f[Len(F)]) = upTo(Len(F)) /\ Ordered(f[Len(F)], R) /\ f[Len(F)] \in Seq(T)
    <2> HIDE DEF upTo
    <2> QED
        BY <1>1, <1>5, <1>6
<1> QED
    BY <1>1, <1>7

Position == Nat \X Nat \X Nat
Forward  == {z \in Position \X Position : Earlier(z[1], z[2])}

\* What Earlier says of positions.
LEMMA EarlierIs ==
    ASSUME NEW x \in Position, NEW y \in Position
    PROVE  (<<x, y>> \in Forward) <=> (x[1] < y[1] \/ (x[1] = y[1] /\ x[2] < y[2]) \/ (x[1] = y[1] /\ x[2] = y[2] /\ x[3] < y[3]))
<1>1. 1..3 = {1, 2, 3} /\ 1..(1 - 1) = {} /\ 1..(2 - 1) = {1} /\ 1..(3 - 1) = {1, 2}
    OBVIOUS
<1>2. Earlier(x, y) <=> (x[1] < y[1] \/ (x[1] = y[1] /\ x[2] < y[2]) \/ (x[1] = y[1] /\ x[2] = y[2] /\ x[3] < y[3]))
    <2> DEFINE E(i) == x[i] < y[i] /\ \A j \in 1..(i - 1) : x[j] = y[j]
    <2>1. Earlier(x, y) <=> (E(1) \/ E(2) \/ E(3))
        <3>1. Earlier(x, y) <=> \E i \in 1..3 : E(i)
            BY DEF Earlier
        <3> HIDE DEF E
        <3> QED
            BY <1>1, <3>1
    <2>2. (E(1) <=> x[1] < y[1]) /\ (E(2) <=> x[2] < y[2] /\ x[1] = y[1]) /\ (E(3) <=> x[3] < y[3] /\ x[1] = y[1] /\ x[2] = y[2])
        BY <1>1
    <2> HIDE DEF E
    <2> QED
        BY <2>1, <2>2
<1>3. <<x, y>> \in Forward <=> Earlier(x, y)
    <2> DEFINE z == <<x, y>>
    <2>1. z \in Position \X Position /\ z[1] = x /\ z[2] = y
        OBVIOUS
    <2> HIDE DEF z
    <2>2. z \in Forward <=> Earlier(z[1], z[2])
        BY <2>1, Zenon DEF Forward
    <2> QED
        BY <2>1, <2>2 DEF z
<1> QED
    BY <1>2, <1>3

\* What is given for every number up to n is a sequence.
LEMMA Row ==
    ASSUME NEW T, NEW n \in Nat, NEW f \in [1..n -> T]
    PROVE  f \in Seq(T) /\ Len(f) = n /\ DOMAIN f = 1..n
OBVIOUS

\* A member of a sequence of sequences.
LEMMA Member ==
    ASSUME NEW T, NEW s \in Seq(T)
    PROVE  Len(s) \in Nat /\ DOMAIN s = 1..Len(s) /\ \A i \in DOMAIN s : s[i] \in T /\ i \in Nat
OBVIOUS

\* Places are listed in their order.
LEMMA PlacesAre ==
    ASSUME NEW N, NEW g, g.flow \in Seq(Seq(Seq(N)))
    PROVE  Places(g) \in Seq(Position) /\ Ordered(Places(g), Forward) /\ ToSet(Places(g)) = PlacesIn(g.flow)
<1> DEFINE fl == g.flow
           row(c, s) == [m \in DOMAIN fl[c][s] |-> <<c, s, m>>]
           rows(c) == [s \in DOMAIN fl[c] |-> row(c, s)]
           all == [c \in DOMAIN fl |-> FlattenSeq(rows(c))]
<1>1. Len(fl) \in Nat /\ DOMAIN fl = 1..Len(fl) /\ \A c \in DOMAIN fl : fl[c] \in Seq(Seq(N)) /\ c \in Nat
    BY Member
<1>2. \A c \in DOMAIN fl : Len(fl[c]) \in Nat /\ DOMAIN fl[c] = 1..Len(fl[c])
        /\ \A s \in DOMAIN fl[c] : fl[c][s] \in Seq(N) /\ s \in Nat
    <2> SUFFICES ASSUME NEW c \in DOMAIN fl
                 PROVE  Len(fl[c]) \in Nat /\ DOMAIN fl[c] = 1..Len(fl[c])
                        /\ \A s \in DOMAIN fl[c] : fl[c][s] \in Seq(N) /\ s \in Nat
        OBVIOUS
    <2>1. fl[c] \in Seq(Seq(N))
        BY <1>1
    <2> HIDE DEF fl
    <2> QED
        BY <2>1, Member
<1>3. \A c \in DOMAIN fl : \A s \in DOMAIN fl[c] :
        Len(fl[c][s]) \in Nat /\ DOMAIN fl[c][s] = 1..Len(fl[c][s]) /\ \A m \in DOMAIN fl[c][s] : m \in Nat
    <2> SUFFICES ASSUME NEW c \in DOMAIN fl, NEW s \in DOMAIN fl[c]
                 PROVE  Len(fl[c][s]) \in Nat /\ DOMAIN fl[c][s] = 1..Len(fl[c][s]) /\ \A m \in DOMAIN fl[c][s] : m \in Nat
        OBVIOUS
    <2>1. fl[c][s] \in Seq(N)
        BY <1>2
    <2> HIDE DEF fl
    <2> QED
        BY <2>1, Member
<1> HIDE DEF fl
<1>4. ASSUME NEW c \in DOMAIN fl, NEW s \in DOMAIN fl[c]
      PROVE  /\ row(c, s) \in Seq(Position) /\ Ordered(row(c, s), Forward)
             /\ ToSet(row(c, s)) = {<<c, s, m>> : m \in DOMAIN fl[c][s]}
    <2> DEFINE r == row(c, s)
    <2>1. \A m \in DOMAIN fl[c][s] : <<c, s, m>> \in Position
        BY <1>1, <1>2, <1>3 DEF Position
    <2>2. DOMAIN fl[c][s] = 1..Len(fl[c][s]) /\ Len(fl[c][s]) \in Nat
        BY <1>3
    <2>3. r \in [1..Len(fl[c][s]) -> Position] /\ \A m \in DOMAIN fl[c][s] : r[m] = <<c, s, m>>
        BY <2>1, <2>2
    <2> HIDE DEF r
    <2>4. r \in Seq(Position) /\ DOMAIN r = DOMAIN fl[c][s] /\ ToSet(r) = {r[m] : m \in DOMAIN fl[c][s]}
        <3>1. Len(fl[c][s]) \in Nat /\ r \in [1..Len(fl[c][s]) -> Position]
            BY <2>2, <2>3
        <3>2. r \in Seq(Position) /\ DOMAIN r = 1..Len(fl[c][s])
            BY <3>1, Row
        <3>3. ToSet(r) = {r[i] : i \in DOMAIN r}
            BY Zenon DEF ToSet
        <3> QED
            BY <2>2, <3>2, <3>3, Zenon
    <2>5. {r[m] : m \in DOMAIN fl[c][s]} = {<<c, s, m>> : m \in DOMAIN fl[c][s]}
        BY <2>3
    <2>6. Ordered(r, Forward)
        <3> SUFFICES ASSUME NEW i \in DOMAIN r, NEW j \in DOMAIN r, i < j PROVE <<r[i], r[j]>> \in Forward
            BY DEF Ordered
        <3>1. r[i] \in Position /\ r[j] \in Position /\ r[i] = <<c, s, i>> /\ r[j] = <<c, s, j>>
            BY <2>1, <2>3, <2>4
        <3>2. r[i][1] = r[j][1] /\ r[i][2] = r[j][2] /\ r[i][3] < r[j][3]
            BY <3>1
        <3> QED
            BY <3>1, <3>2, EarlierIs
    <2> QED
        BY <2>4, <2>5, <2>6 DEF r
<1>5. ASSUME NEW c \in DOMAIN fl
      PROVE  /\ FlattenSeq(rows(c)) \in Seq(Position) /\ Ordered(FlattenSeq(rows(c)), Forward)
             /\ ToSet(FlattenSeq(rows(c))) = UNION {{<<c, s, m>> : m \in DOMAIN fl[c][s]} : s \in DOMAIN fl[c]}
    <2> DEFINE r == rows(c)
    <2>1. r \in [1..Len(fl[c]) -> Seq(Position)] /\ Len(fl[c]) \in Nat /\ DOMAIN fl[c] = 1..Len(fl[c])
        <3> HIDE DEF row
        <3> QED
            BY <1>2, <1>4
    <2>2. \A s \in DOMAIN fl[c] : r[s] = row(c, s)
        <3> HIDE DEF row
        <3> QED
            OBVIOUS
    <2> HIDE DEF r
    <2>3. r \in Seq(Seq(Position)) /\ Len(r) = Len(fl[c]) /\ 1..Len(r) = DOMAIN fl[c]
        BY <2>1, Row
    <2>4. \A s \in DOMAIN fl[c] : Ordered(r[s], Forward) /\ ToSet(r[s]) = {<<c, s, m>> : m \in DOMAIN fl[c][s]}
        <3> HIDE DEF row
        <3> QED
            BY <1>4, <2>2
    <2>5. ASSUME NEW s \in DOMAIN fl[c], NEW t \in DOMAIN fl[c], s < t, NEW x \in ToSet(r[s]), NEW y \in ToSet(r[t])
          PROVE  <<x, y>> \in Forward
        <3>1. PICK m \in DOMAIN fl[c][s] : x = <<c, s, m>>
            BY <2>4
        <3>2. PICK l \in DOMAIN fl[c][t] : y = <<c, t, l>>
            BY <2>4
        <3>3. x \in Position /\ y \in Position
            BY <3>1, <3>2, <1>1, <1>2, <1>3 DEF Position
        <3>4. x[1] = y[1] /\ x[2] < y[2]
            BY <2>5, <3>1, <3>2
        <3> QED
            BY <3>3, <3>4, EarlierIs
    <2>6. /\ FlattenSeq(r) \in Seq(Position) /\ Ordered(FlattenSeq(r), Forward)
          /\ ToSet(FlattenSeq(r)) = UNION {ToSet(r[s]) : s \in DOMAIN fl[c]}
        BY <2>3, <2>4, <2>5, JoinIs
    <2>7. {ToSet(r[s]) : s \in DOMAIN fl[c]} = {{<<c, s, m>> : m \in DOMAIN fl[c][s]} : s \in DOMAIN fl[c]}
        BY <2>4
    <2> QED
        BY <2>6, <2>7 DEF r
<1>6. all \in [1..Len(fl) -> Seq(Position)] /\ \A c \in DOMAIN fl : all[c] = FlattenSeq(rows(c))
    <2> HIDE DEF rows
    <2> QED
        BY <1>1, <1>5
<1>7. Places(g) = FlattenSeq(all)
    BY Zenon DEF Places, fl
<1> HIDE DEF all
<1>8. all \in Seq(Seq(Position)) /\ Len(all) = Len(fl) /\ 1..Len(all) = DOMAIN fl
    BY <1>1, <1>6, Row
<1>9. \A c \in DOMAIN fl : Ordered(all[c], Forward)
        /\ ToSet(all[c]) = UNION {{<<c, s, m>> : m \in DOMAIN fl[c][s]} : s \in DOMAIN fl[c]}
    <2> HIDE DEF rows
    <2> QED
        BY <1>5, <1>6
<1>10. ASSUME NEW c \in DOMAIN fl, NEW d \in DOMAIN fl, c < d, NEW x \in ToSet(all[c]), NEW y \in ToSet(all[d])
       PROVE  <<x, y>> \in Forward
    <2>1. PICK s \in DOMAIN fl[c] : x \in {<<c, s, m>> : m \in DOMAIN fl[c][s]}
        BY <1>9
    <2>2. PICK m \in DOMAIN fl[c][s] : x = <<c, s, m>>
        BY <2>1
    <2>3. PICK t \in DOMAIN fl[d] : y \in {<<d, t, l>> : l \in DOMAIN fl[d][t]}
        BY <1>9
    <2>4. PICK l \in DOMAIN fl[d][t] : y = <<d, t, l>>
        BY <2>3
    <2>5. x \in Position /\ y \in Position
        BY <2>2, <2>4, <1>1, <1>2, <1>3 DEF Position
    <2>6. x[1] < y[1]
        BY <1>10, <2>2, <2>4
    <2> QED
        BY <2>5, <2>6, EarlierIs
<1>11. /\ FlattenSeq(all) \in Seq(Position) /\ Ordered(FlattenSeq(all), Forward)
       /\ ToSet(FlattenSeq(all)) = UNION {ToSet(all[c]) : c \in DOMAIN fl}
    BY <1>8, <1>9, <1>10, JoinIs
<1>12. {ToSet(all[c]) : c \in DOMAIN fl} = {UNION {{<<c, s, m>> : m \in DOMAIN fl[c][s]} : s \in DOMAIN fl[c]} : c \in DOMAIN fl}
    <2> DEFINE of(c) == UNION {{<<c, s, m>> : m \in DOMAIN fl[c][s]} : s \in DOMAIN fl[c]}
    <2>1. \A c \in DOMAIN fl : ToSet(all[c]) = of(c)
        BY <1>9, Zenon
    <2> HIDE DEF of
    <2>2. {ToSet(all[c]) : c \in DOMAIN fl} = {of(c) : c \in DOMAIN fl}
        BY <2>1
    <2> QED
        BY <2>2 DEF of
<1> QED
    BY <1>7, <1>11, <1>12 DEF PlacesIn, fl

Occurrence(N) == [name : N, first_position : Position]

\* A mention at a place adds an occurrence if the name there is that of a node and new.
LEMMA MentionIs ==
    ASSUME NEW g, NEW seen, NEW place
    PROVE  /\ NameAt(g, place) \in Ports \/ (\E o \in DOMAIN seen : seen[o].name = NameAt(g, place)) => Mention(g, seen, place) = seen
           /\ NameAt(g, place) \notin Ports /\ (\A o \in DOMAIN seen : seen[o].name # NameAt(g, place))
                => Mention(g, seen, place) = Append(seen, Noting(g, place))
<1>1. NameAt(g, place) \in {o.name : o \in ToSet(seen)} <=> \E o \in DOMAIN seen : seen[o].name = NameAt(g, place)
    BY Zenon DEF ToSet
<1> QED
    BY <1>1 DEF Mention

\* A mention at a place leaves a list of occurrences.
LEMMA MentionType ==
    ASSUME NEW N, NEW g, NEW seen \in Seq(Occurrence(N)), NEW place \in Position, NameAt(g, place) \in N
    PROVE  Mention(g, seen, place) \in Seq(Occurrence(N))
<1>1. Noting(g, place) \in Occurrence(N)
    BY DEF Occurrence, Noting
<1>2. Append(seen, Noting(g, place)) \in Seq(Occurrence(N))
    BY <1>1
<1> QED
    BY <1>2 DEF Mention

\* Places are mentioned one after the other.
LEMMA MentionsOne ==
    ASSUME NEW N, NEW g, Places(g) \in Seq(Position), \A i \in 1..Len(Places(g)) : NameAt(g, Places(g)[i]) \in N
    PROVE  \E f \in [0..Len(Places(g)) -> Seq(Occurrence(N))] :
             /\ f[0] = <<>> /\ \A k \in 1..Len(Places(g)) : f[k] = Mention(g, f[k - 1], Places(g)[k])
             /\ Occurrences(g) = f[Len(Places(g))]
<1> DEFINE P == Places(g)
           S == Seq(Occurrence(N))
           step == [k \in 1..Len(P) |-> [s \in S |-> Mention(g, s, P[k])]]
           seen[i \in 0..Len(Places(g))] == IF i = 0 THEN <<>> ELSE Mention(g, seen[i - 1], Places(g)[i])
<1>1. Len(P) \in Nat /\ <<>> \in S /\ \A k \in 1..Len(P) : P[k] \in Position
    OBVIOUS
<1>2. ASSUME NEW k \in 1..Len(P), NEW s \in S PROVE Mention(g, s, P[k]) \in S
    BY <1>1, MentionType
<1>3. Occurrences(g) = seen[Len(Places(g))]
    BY Zenon DEF Occurrences
<1>4. (\E h : h = [i \in 0..Len(Places(g)) |-> IF i = 0 THEN <<>> ELSE Mention(g, h[i - 1], Places(g)[i])])
        => seen = [i \in 0..Len(Places(g)) |-> IF i = 0 THEN <<>> ELSE Mention(g, seen[i - 1], Places(g)[i])]
    BY Zenon
<1> HIDE DEF seen
<1>5. (\E h : h = [i \in 0..Len(P) |-> IF i = 0 THEN <<>> ELSE Mention(g, h[i - 1], P[i])])
        => seen = [i \in 0..Len(P) |-> IF i = 0 THEN <<>> ELSE Mention(g, seen[i - 1], P[i])]
    BY <1>4
<1> HIDE DEF P, S
<1>6. step \in [1..Len(P) -> [S -> S]]
    BY <1>2
<1>7. PICK f \in [0..Len(P) -> S] : RecursBy(f, Len(P), <<>>, step)
    <2> HIDE DEF step
    <2> QED
        BY <1>1, <1>6, Iterates, Zenon
<1>8. f[0] = <<>> /\ \A k \in 1..Len(P) : f[k] = Mention(g, f[k - 1], P[k])
    <2> SUFFICES ASSUME NEW k \in 1..Len(P) PROVE f[k] = Mention(g, f[k - 1], P[k])
        BY <1>7 DEF RecursBy
    <2>1. k - 1 \in 0..Len(P)
        BY <1>1, InFront
    <2>2. f[k - 1] \in S
        BY <2>1, Zenon
    <2>3. f[k] = step[k][f[k - 1]]
        BY <1>7 DEF RecursBy
    <2> QED
        BY <2>2, <2>3
<1> HIDE DEF step
<1>9. f = [i \in 0..Len(P) |-> IF i = 0 THEN <<>> ELSE Mention(g, f[i - 1], P[i])]
    <2>1. \A i \in 0..Len(P) : i # 0 => i \in 1..Len(P)
        BY <1>1
    <2>2. \A i \in 0..Len(P) : f[i] = IF i = 0 THEN <<>> ELSE Mention(g, f[i - 1], P[i])
        BY <1>8, <2>1
    <2> QED
        BY <2>2
<1>10. seen = [i \in 0..Len(P) |-> IF i = 0 THEN <<>> ELSE Mention(g, seen[i - 1], P[i])]
    BY <1>5, <1>9
<1>11. \A k \in 0..Len(P) : seen[k] = f[k]
    <2> DEFINE Q == {k \in 0..Len(P) : seen[k] = f[k]}
    <2>1. 0 \in Q
        BY <1>1, <1>8, <1>10
    <2>2. ASSUME NEW k \in 0..(Len(P) - 1), k \in Q PROVE k + 1 \in Q
        <3>1. k + 1 \in 1..Len(P) /\ k + 1 \in 0..Len(P) /\ (k + 1) - 1 = k /\ k + 1 # 0
            BY <1>1
        <3>2. f[k + 1] = Mention(g, f[k], P[k + 1]) /\ seen[k + 1] = Mention(g, seen[k], P[k + 1])
            BY <1>8, <1>10, <3>1
        <3> QED
            BY <2>2, <3>1, <3>2
    <2> HIDE DEF Q
    <2>3. \A k \in 0..Len(P) : k \in Q
        BY <1>1, <2>1, <2>2, InductUpTo
    <2> QED
        BY <2>3 DEF Q
<1>12. Occurrences(g) = f[Len(P)]
    <2>1. Len(P) \in 0..Len(P)
        BY <1>1
    <2>2. Occurrences(g) = seen[Len(P)]
        BY <1>3 DEF P
    <2> QED
        BY <1>11, <2>1, <2>2
<1> QED
    BY <1>8, <1>12 DEF P, S

\* occurrences lists what is mentioned at the first k places, in this order.
Noted(g, k, occurrences) ==
  LET P == Places(g)
  IN  /\ \A o \in DOMAIN occurrences : \E p \in 1..k :
           /\ occurrences[o].first_position = P[p] /\ occurrences[o].name = NameAt(g, P[p])
           /\ \A q \in 1..k : NameAt(g, P[q]) = occurrences[o].name => p <= q
      /\ \A o \in DOMAIN occurrences : occurrences[o].name \notin Ports
      /\ \A o, u \in DOMAIN occurrences : u < o =>
           /\ occurrences[u].name # occurrences[o].name
           /\ <<occurrences[u].first_position, occurrences[o].first_position>> \in Forward
      /\ \A q \in 1..k : NameAt(g, P[q]) \in Ports \/ \E o \in DOMAIN occurrences : occurrences[o].name = NameAt(g, P[q])

\* One more place is mentioned.
LEMMA NotesOn ==
    ASSUME NEW N, NEW g, Places(g) \in Seq(Position), Ordered(Places(g), Forward),
           \A i \in 1..Len(Places(g)) : NameAt(g, Places(g)[i]) \in N,
           NEW k \in Nat, k + 1 \in 1..Len(Places(g)),
           NEW seen \in Seq(Occurrence(N)), Noted(g, k, seen)
    PROVE  Noted(g, k + 1, Mention(g, seen, Places(g)[k + 1]))
<1> DEFINE P == Places(g)
           n(q) == NameAt(g, P[q])
           place == P[k + 1]
           next == Mention(g, seen, place)
<1>1. Len(P) \in Nat /\ place \in Position /\ n(k + 1) \in N
    OBVIOUS
<1>2. \A q \in 1..(k + 1) : q \in 1..k \/ q = k + 1
    OBVIOUS
<1>3. \A q \in 1..k : q \in 1..(k + 1) /\ q < k + 1 /\ q \in DOMAIN P /\ k + 1 \in DOMAIN P
    BY <1>1
<1>4. /\ \A o \in DOMAIN seen : \E p \in 1..k :
           /\ seen[o].first_position = P[p] /\ seen[o].name = n(p)
           /\ \A q \in 1..k : n(q) = seen[o].name => p <= q
      /\ \A o \in DOMAIN seen : seen[o].name \notin Ports
      /\ \A o, u \in DOMAIN seen : u < o =>
           seen[u].name # seen[o].name /\ <<seen[u].first_position, seen[o].first_position>> \in Forward
      /\ \A q \in 1..k : n(q) \in Ports \/ \E o \in DOMAIN seen : seen[o].name = n(q)
    BY DEF Noted
<1>5. \/ next = seen /\ (n(k + 1) \in Ports \/ \E o \in DOMAIN seen : seen[o].name = n(k + 1))
      \/ /\ next = Append(seen, Noting(g, place))
         /\ n(k + 1) \notin Ports /\ \A o \in DOMAIN seen : seen[o].name # n(k + 1)
    <2>1. place \in Position /\ NameAt(g, place) \in N
        BY <1>1
    <2>2. n(k + 1) = NameAt(g, place)
        OBVIOUS
    <2> HIDE DEF place, n, P
    <2>3. NameAt(g, place) \in Ports \/ (\E o \in DOMAIN seen : seen[o].name = NameAt(g, place)) => next = seen
        BY MentionIs, Zenon
    <2>4. NameAt(g, place) \notin Ports /\ (\A o \in DOMAIN seen : seen[o].name # NameAt(g, place)) => next = Append(seen, Noting(g, place))
        BY MentionIs, Zenon
    <2> QED
        BY <2>2, <2>3, <2>4, Zenon
<1>6. Ordered(P, Forward)
    OBVIOUS
<1> HIDE DEF P, n, place
<1>7. CASE next = seen /\ (n(k + 1) \in Ports \/ \E o \in DOMAIN seen : seen[o].name = n(k + 1))
    <2>1. \A o \in DOMAIN seen : \E p \in 1..(k + 1) :
            /\ seen[o].first_position = P[p] /\ seen[o].name = n(p)
            /\ \A q \in 1..(k + 1) : n(q) = seen[o].name => p <= q
        <3> SUFFICES ASSUME NEW o \in DOMAIN seen
                     PROVE  \E p \in 1..(k + 1) :
                              /\ seen[o].first_position = P[p] /\ seen[o].name = n(p)
                              /\ \A q \in 1..(k + 1) : n(q) = seen[o].name => p <= q
            OBVIOUS
        <3>1. PICK p \in 1..k : /\ seen[o].first_position = P[p] /\ seen[o].name = n(p)
                                /\ \A q \in 1..k : n(q) = seen[o].name => p <= q
            BY <1>4
        <3>2. p \in 1..(k + 1) /\ p <= k + 1
            BY <1>3
        <3> QED
            BY <1>2, <3>1, <3>2
    <2>2. \A q \in 1..(k + 1) : n(q) \in Ports \/ \E o \in DOMAIN seen : seen[o].name = n(q)
        BY <1>2, <1>4, <1>7
    <2> HIDE DEF next
    <2>3. next = seen
        BY <1>7
    <2>4. Noted(g, k + 1, seen)
        BY <1>4, <2>1, <2>2 DEF Noted, P, n
    <2> QED
        BY <2>3, <2>4 DEF next, P, place
<1>8. CASE /\ next = Append(seen, Noting(g, place))
           /\ n(k + 1) \notin Ports /\ \A o \in DOMAIN seen : seen[o].name # n(k + 1)
    <2> DEFINE l == Len(seen) + 1
               last == Noting(g, place)
    <2>1. DOMAIN next = DOMAIN seen \cup {l} /\ l \notin DOMAIN seen /\ next[l] = last
          /\ (\A o \in DOMAIN seen : next[o] = seen[o] /\ o < l) /\ l \in DOMAIN next
        <3> DEFINE longer == Append(seen, last)
        <3>0. last \in Occurrence(N)
            BY <1>1 DEF Occurrence, Noting, place, n
        <3> HIDE DEF last
        <3>1. DOMAIN longer = 1..l /\ longer[l] = last /\ (\A o \in DOMAIN seen : longer[o] = seen[o]) /\ DOMAIN seen = 1..Len(seen) /\ Len(seen) \in Nat
            BY <3>0
        <3>2. next = longer
            BY <1>8 DEF last
        <3> HIDE DEF longer, next
        <3> QED
            BY <3>1, <3>2
    <2>2. next[l].name = n(k + 1) /\ next[l].first_position = place
        BY <2>1 DEF Noting, n, place
    <2> HIDE DEF next, l, last
    <2>3. \A o \in DOMAIN next : \E p \in 1..(k + 1) :
            /\ next[o].first_position = P[p] /\ next[o].name = n(p)
            /\ \A q \in 1..(k + 1) : n(q) = next[o].name => p <= q
        <3> SUFFICES ASSUME NEW o \in DOMAIN next
                     PROVE  \E p \in 1..(k + 1) :
                              /\ next[o].first_position = P[p] /\ next[o].name = n(p)
                              /\ \A q \in 1..(k + 1) : n(q) = next[o].name => p <= q
            OBVIOUS
        <3>1. CASE o = l
            <4>1. \A q \in 1..k : n(q) # n(k + 1)
                <5> SUFFICES ASSUME NEW q \in 1..k, n(q) = n(k + 1) PROVE FALSE
                    OBVIOUS
                <5> QED
                    BY <1>4, <1>8
            <4>2. k + 1 \in 1..(k + 1) /\ k + 1 <= k + 1
                OBVIOUS
            <4>3. \A q \in 1..(k + 1) : n(q) = n(k + 1) => q = k + 1
                BY <1>2, <4>1
            <4> QED
                BY <2>2, <3>1, <4>2, <4>3 DEF place
        <3>2. CASE o \in DOMAIN seen
            <4>1. PICK p \in 1..k : /\ seen[o].first_position = P[p] /\ seen[o].name = n(p)
                                    /\ \A q \in 1..k : n(q) = seen[o].name => p <= q
                BY <1>4, <3>2
            <4>2. p \in 1..(k + 1) /\ p <= k + 1 /\ next[o] = seen[o]
                BY <1>3, <2>1, <3>2
            <4> QED
                BY <1>2, <4>1, <4>2
        <3> QED
            BY <2>1, <3>1, <3>2
    <2>4. \A o \in DOMAIN next : next[o].name \notin Ports
        BY <1>4, <1>8, <2>1, <2>2
    <2>5. ASSUME NEW o \in DOMAIN next, NEW u \in DOMAIN next, u < o
          PROVE  next[u].name # next[o].name /\ <<next[u].first_position, next[o].first_position>> \in Forward
        <3>1. CASE o \in DOMAIN seen /\ u \in DOMAIN seen
            BY <1>4, <2>1, <2>5, <3>1
        <3>2. CASE o = l /\ u \in DOMAIN seen
            <4>1. next[u] = seen[u] /\ seen[u].name # n(k + 1)
                BY <1>8, <2>1, <3>2
            <4>2. PICK p \in 1..k : seen[u].first_position = P[p]
                BY <1>4, <3>2
            <4>3. <<P[p], place>> \in Forward
                BY <1>3, <1>6 DEF Ordered, place
            <4> QED
                BY <2>2, <3>2, <4>1, <4>2, <4>3
        <3>3. CASE u = l
            <4>1. DOMAIN next \subseteq Int
                BY <2>1 DEF l
            <4>2. o = l \/ o < l
                BY <2>1
            <4>3. o \in Int /\ u \in Int
                BY <4>1
            <4> QED
                BY <2>5, <3>3, <4>2, <4>3
        <3> QED
            BY <2>1, <3>1, <3>2, <3>3
    <2>6. \A q \in 1..(k + 1) : n(q) \in Ports \/ \E o \in DOMAIN next : next[o].name = n(q)
        <3> SUFFICES ASSUME NEW q \in 1..(k + 1) PROVE n(q) \in Ports \/ \E o \in DOMAIN next : next[o].name = n(q)
            OBVIOUS
        <3>1. CASE q = k + 1
            BY <2>1, <2>2, <3>1
        <3>2. CASE q \in 1..k
            BY <1>4, <2>1, <3>2
        <3> QED
            BY <1>2, <3>1, <3>2
    <2> QED
        <3>1. Noted(g, k + 1, next)
            BY <2>3, <2>4, <2>5, <2>6 DEF Noted, P, n
        <3> QED
            BY <3>1 DEF next, P, place
<1> QED
    BY <1>5, <1>7, <1>8

\* The names a flow mentions.
LEMMA FlowType ==
    ASSUME NEW g, IsDecl(g), g.k = "graph"
    PROVE  g.flow \in Seq(Seq(Seq(Mentioned(g))))
<1>1. /\ g.flow \in Seq(ToSet(g.flow))
      /\ \A c \in ToSet(g.flow) : c \in Seq(ToSet(c)) /\ \A s \in ToSet(c) : s \in Seq(ToSet(s))
    BY DEF IsDecl, Lists
<1>2. ASSUME NEW c \in ToSet(g.flow) PROVE c \in Seq(Seq(Mentioned(g)))
    <2>1. ASSUME NEW s \in ToSet(c) PROVE s \in Seq(Mentioned(g))
        <3>1. ToSet(s) \subseteq Mentioned(g)
            BY DEF Mentioned
        <3>2. s \in Seq(ToSet(s))
            BY <1>1
        <3> QED
            BY <3>1, <3>2
    <2>2. ToSet(c) \subseteq Seq(Mentioned(g)) /\ c \in Seq(ToSet(c))
        BY <1>1, <2>1
    <2> QED
        BY <2>2
<1>3. ToSet(g.flow) \subseteq Seq(Seq(Mentioned(g))) /\ g.flow \in Seq(ToSet(g.flow))
    BY <1>1, <1>2
<1> QED
    BY <1>3

\* A member of a flow is where it is.
LEMMA PlaceIs ==
    ASSUME NEW flow, NEW x \in PlacesIn(flow)
    PROVE  /\ x = <<x[1], x[2], x[3]>>
           /\ x[1] \in DOMAIN flow /\ x[2] \in DOMAIN flow[x[1]] /\ x[3] \in DOMAIN flow[x[1]][x[2]]
<1>1. PICK c \in DOMAIN flow : x \in UNION {{<<c, s, m>> : m \in DOMAIN flow[c][s]} : s \in DOMAIN flow[c]}
    BY DEF PlacesIn
<1>2. PICK s \in DOMAIN flow[c] : x \in {<<c, s, m>> : m \in DOMAIN flow[c][s]}
    BY <1>1
<1>3. PICK m \in DOMAIN flow[c][s] : x = <<c, s, m>>
    BY <1>2
<1>4. x[1] = c /\ x[2] = s /\ x[3] = m
    BY <1>3
<1> QED
    BY <1>3, <1>4

\* Each name is that of a member of the flow.
LEMMA NamesAre ==
    ASSUME NEW N, NEW g, g.flow \in Seq(Seq(Seq(N)))
    PROVE  \A x \in PlacesIn(g.flow) : NameAt(g, x) \in N
<1> SUFFICES ASSUME NEW x \in PlacesIn(g.flow) PROVE NameAt(g, x) \in N
    OBVIOUS
<1> DEFINE fl == g.flow
<1>1. x[1] \in DOMAIN fl /\ x[2] \in DOMAIN fl[x[1]] /\ x[3] \in DOMAIN fl[x[1]][x[2]]
    BY PlaceIs
<1>2. fl \in Seq(Seq(Seq(N)))
    OBVIOUS
<1>3. NameAt(g, x) = fl[x[1]][x[2]][x[3]]
    BY DEF NameAt
<1> HIDE DEF fl
<1>4. fl[x[1]] \in Seq(Seq(N))
    BY <1>1, <1>2, Member
<1>5. fl[x[1]][x[2]] \in Seq(N)
    BY <1>1, <1>4, Member
<1>6. fl[x[1]][x[2]][x[3]] \in N
    BY <1>1, <1>5, Member
<1> QED
    BY <1>3, <1>6

\* All places are noted.
LEMMA OccurrencesAre ==
    ASSUME NEW N, NEW g, g.flow \in Seq(Seq(Seq(N)))
    PROVE  Occurrences(g) \in Seq(Occurrence(N)) /\ Noted(g, Len(Places(g)), Occurrences(g))
<1> DEFINE P == Places(g)
<1>1. P \in Seq(Position) /\ Ordered(P, Forward) /\ ToSet(P) = PlacesIn(g.flow)
    BY PlacesAre
<1>2. \A i \in 1..Len(P) : NameAt(g, P[i]) \in N
    <2> SUFFICES ASSUME NEW i \in 1..Len(P) PROVE NameAt(g, P[i]) \in N
        OBVIOUS
    <2>1. i \in DOMAIN P
        BY <1>1, Member
    <2>2. P[i] \in ToSet(P)
        BY <2>1, Zenon DEF ToSet
    <2>3. P[i] \in PlacesIn(g.flow)
        BY <1>1, <2>2
    <2> QED
        BY <2>3, NamesAre
<1>3. PICK f \in [0..Len(P) -> Seq(Occurrence(N))] :
        /\ f[0] = <<>> /\ \A k \in 1..Len(P) : f[k] = Mention(g, f[k - 1], P[k])
        /\ Occurrences(g) = f[Len(P)]
    BY <1>1, <1>2, MentionsOne
<1>4. Len(P) \in Nat
    BY <1>1, Member
<1> DEFINE Q == {k \in 0..Len(P) : Noted(g, k, f[k])}
<1>5. 0 \in Q
    <2>1. \A e : e = <<>> => DOMAIN e = {}
        OBVIOUS
    <2>2. DOMAIN f[0] = {} /\ 1..0 = {}
        BY <1>3, <2>1
    <2>3. Noted(g, 0, f[0])
        BY <2>2 DEF Noted
    <2>4. 0 \in 0..Len(P)
        BY <1>4
    <2> QED
        BY <2>3, <2>4
<1>6. ASSUME NEW k \in 0..(Len(P) - 1), k \in Q PROVE k + 1 \in Q
    <2>1. k \in Nat /\ k + 1 \in 1..Len(P) /\ k + 1 \in 0..Len(P) /\ (k + 1) - 1 = k /\ k \in 0..Len(P)
        BY <1>4
    <2>2. f[k + 1] = Mention(g, f[k], P[k + 1])
        BY <1>3, <2>1
    <2>3. f[k] \in Seq(Occurrence(N)) /\ Noted(g, k, f[k])
        BY <1>6, <2>1
    <2>4. Noted(g, k + 1, Mention(g, f[k], P[k + 1]))
        BY <1>1, <1>2, <2>1, <2>3, NotesOn
    <2> QED
        BY <2>1, <2>2, <2>4
<1>7. Len(P) \in Q /\ Len(P) \in 0..Len(P)
    <2> HIDE DEF Q
    <2>1. \A k \in 0..Len(P) : k \in Q
        BY <1>4, <1>5, <1>6, InductUpTo
    <2> QED
        BY <1>4, <2>1
<1> QED
    BY <1>3, <1>7

\* The only name there is refers to its occurrence.
LEMMA RefIs ==
    ASSUME NEW N, NEW occurrences \in Seq(Occurrence(N)), NEW o \in DOMAIN occurrences,
           \A u, v \in DOMAIN occurrences : u < v => occurrences[u].name # occurrences[v].name,
           NEW n, n = occurrences[o].name, n \notin Ports
    PROVE  FlowRef(occurrences, n) = [occurrence |-> o]
<1> DEFINE I == {i \in 1..Len(occurrences) : occurrences[i].name = n}
<1>1. DOMAIN occurrences = 1..Len(occurrences) /\ Len(occurrences) \in Nat
    BY Member
<1>2. I = {o}
    <2>1. o \in I
        BY <1>1
    <2>2. ASSUME NEW i \in I PROVE i = o
        <3>1. i \in DOMAIN occurrences /\ occurrences[i].name = occurrences[o].name /\ i \in Int /\ o \in Int
            BY <1>1
        <3>2. ~(i < o) /\ ~(o < i)
            BY <3>1
        <3> QED
            BY <3>1, <3>2
    <2> QED
        BY <2>1, <2>2
<1>3. SelectInSeq(occurrences, LAMBDA x : x.name = n) = IF I # {} THEN Min(I) ELSE 0
    BY DEF SelectInSeq
<1> HIDE DEF I
<1>4. o \in Int
    BY <1>1
<1>5. Min(I) = o
    <2>1. \A x \in I : x = o
        BY <1>2
    <2>2. o \in I /\ \A y \in I : o =< y
        BY <1>2, <1>4
    <2> QED
        BY <2>1, <2>2, Zenon DEF Min
<1>6. SelectInSeq(occurrences, LAMBDA x : x.name = n) = o
    BY <1>2, <1>3, <1>5
<1> QED
    BY <1>6 DEF FlowRef

\* A flow in an artifact can be read back: wherever it mentions a node it refers to the
\* one occurrence of its name, ports are left as they are, and occurrences are in the
\* order of their first mention, which is where they say (build_graph of apsl-artifact).
THEOREM FlowsAreTold ==
    ASSUME NEW g, IsDecl(g), g.k = "graph"
    PROVE  LET occurrences == Occurrences(g)
           IN  TellsFlow(g.flow, Flow(g), [o \in DOMAIN occurrences |-> occurrences[o].name],
                         [o \in DOMAIN occurrences |-> occurrences[o].first_position])
<1> DEFINE N == Mentioned(g)
           P == Places(g)
           occ == Occurrences(g)
           names == [o \in DOMAIN occ |-> occ[o].name]
           firsts == [o \in DOMAIN occ |-> occ[o].first_position]
           told == Flow(g)
           ref(x) == told[x[1]][x[2]][x[3]]
           n(x) == g.flow[x[1]][x[2]][x[3]]
<1>1. g.flow \in Seq(Seq(Seq(N)))
    BY FlowType
<1>2. P \in Seq(Position) /\ Ordered(P, Forward) /\ ToSet(P) = PlacesIn(g.flow)
    BY <1>1, PlacesAre
<1>3. occ \in Seq(Occurrence(N)) /\ Noted(g, Len(P), occ)
    BY <1>1, OccurrencesAre
<1>4. \A x : NameAt(g, x) = n(x)
    BY DEF NameAt
<1>5. told = [c \in DOMAIN g.flow |-> [s \in DOMAIN g.flow[c] |-> [m \in DOMAIN g.flow[c][s] |-> FlowRef(occ, g.flow[c][s][m])]]]
    BY Zenon DEF Flow
<1> HIDE DEF N, P, occ, told
<1>6. /\ \A o \in DOMAIN occ : \E p \in 1..Len(P) :
           /\ occ[o].first_position = P[p] /\ occ[o].name = n(P[p])
           /\ \A q \in 1..Len(P) : n(P[q]) = occ[o].name => p <= q
      /\ \A o \in DOMAIN occ : occ[o].name \notin Ports
      /\ \A o, u \in DOMAIN occ : u < o =>
           occ[u].name # occ[o].name /\ <<occ[u].first_position, occ[o].first_position>> \in Forward
      /\ \A q \in 1..Len(P) : n(P[q]) \in Ports \/ \E o \in DOMAIN occ : occ[o].name = n(P[q])
    <2> HIDE DEF n
    <2> QED
        BY <1>3, <1>4 DEF Noted, P
<1>7. DOMAIN P = 1..Len(P) /\ Len(P) \in Nat /\ DOMAIN occ \subseteq Int
    <2>1. DOMAIN P = 1..Len(P) /\ Len(P) \in Nat /\ DOMAIN occ = 1..Len(occ) /\ Len(occ) \in Nat
        BY <1>2, <1>3, Member
    <2> QED
        BY <2>1
<1>8. \A x \in PlacesIn(g.flow) : \E q \in 1..Len(P) : x = P[q]
    BY <1>2, <1>7, Zenon DEF ToSet
<1>9. \A q \in 1..Len(P) : P[q] \in PlacesIn(g.flow) /\ P[q] \in Position
    <2> SUFFICES ASSUME NEW q \in 1..Len(P) PROVE P[q] \in PlacesIn(g.flow) /\ P[q] \in Position
        OBVIOUS
    <2>1. q \in DOMAIN P
        BY <1>7
    <2>2. P[q] \in ToSet(P)
        BY <2>1, Zenon DEF ToSet
    <2>3. P[q] \in Position
        BY <1>2, <2>1, Member
    <2> QED
        BY <1>2, <2>2, <2>3
<1>10. \A x \in PlacesIn(g.flow) : ref(x) = FlowRef(occ, n(x))
    BY <1>5, PlaceIs
<1>11. \A x \in PlacesIn(g.flow), o \in DOMAIN occ : n(x) = occ[o].name => ref(x) = [occurrence |-> o]
    <2> SUFFICES ASSUME NEW x \in PlacesIn(g.flow), NEW o \in DOMAIN occ, n(x) = occ[o].name
                 PROVE  FlowRef(occ, n(x)) = [occurrence |-> o]
        BY <1>10
    <2> HIDE DEF n
    <2>1. n(x) \notin Ports /\ \A u, v \in DOMAIN occ : u < v => occ[u].name # occ[v].name
        BY <1>6
    <2> QED
        BY <1>3, <2>1, RefIs
<1>12. \A x \in PlacesIn(g.flow) : n(x) \in Ports => ref(x) = [port |-> n(x)]
    <2> HIDE DEF n, ref
    <2> QED
        BY <1>10 DEF FlowRef
<1>13. \A x \in PlacesIn(g.flow) : n(x) \in Ports \/ \E o \in DOMAIN occ : occ[o].name = n(x)
    <2> HIDE DEF n
    <2> QED
        BY <1>6, <1>8
<1>14. \A p, o : /\ "port" \in DOMAIN [port |-> p] /\ [port |-> p].port = p
                 /\ "port" \notin DOMAIN [occurrence |-> o] /\ [occurrence |-> o].occurrence = o
                 /\ [port |-> p] # [occurrence |-> o]
    <2> SUFFICES ASSUME NEW p, NEW o
                 PROVE  /\ "port" \in DOMAIN [port |-> p] /\ [port |-> p].port = p
                        /\ "port" \notin DOMAIN [occurrence |-> o] /\ [occurrence |-> o].occurrence = o
                        /\ [port |-> p] # [occurrence |-> o]
        OBVIOUS
    <2>1. DOMAIN [port |-> p] = {"port"} /\ DOMAIN [occurrence |-> o] = {"occurrence"}
        OBVIOUS
    <2>2. "port" # "occurrence"
        OBVIOUS
    <2> QED
        BY <2>1, <2>2
<1>15. ASSUME NEW x \in PlacesIn(g.flow)
       PROVE  IF "port" \in DOMAIN ref(x) THEN n(x) = ref(x).port
              ELSE ref(x).occurrence \in DOMAIN names /\ n(x) = names[ref(x).occurrence]
    <2> HIDE DEF n, ref
    <2>1. CASE n(x) \in Ports
        BY <1>12, <1>14, <2>1
    <2>2. CASE n(x) \notin Ports
        <3>1. PICK o \in DOMAIN occ : occ[o].name = n(x)
            BY <1>13, <2>2
        <3>2. ref(x) = [occurrence |-> o]
            BY <1>11, <3>1
        <3>3. o \in DOMAIN names /\ names[o] = n(x)
            BY <3>1
        <3> HIDE DEF names
        <3> QED
            BY <1>14, <3>2, <3>3
    <2> QED
        BY <2>1, <2>2
<1>16. ASSUME NEW o \in DOMAIN occ
       PROVE  /\ firsts[o] \in PlacesIn(g.flow) /\ ref(firsts[o]) = [occurrence |-> o]
              /\ \A x \in PlacesIn(g.flow) : ref(x) = [occurrence |-> o] => x = firsts[o] \/ Earlier(firsts[o], x)
    <2>1. PICK p \in 1..Len(P) : /\ occ[o].first_position = P[p] /\ occ[o].name = n(P[p])
                                 /\ \A q \in 1..Len(P) : n(P[q]) = occ[o].name => p <= q
        <3> HIDE DEF n
        <3> QED
            BY <1>6
    <2>2. firsts[o] = P[p] /\ P[p] \in PlacesIn(g.flow)
        BY <1>9, <2>1
    <2> HIDE DEF n, ref, firsts
    <2>3. ref(P[p]) = [occurrence |-> o]
        BY <1>11, <2>1, <2>2
    <2>4. ASSUME NEW x \in PlacesIn(g.flow), ref(x) = [occurrence |-> o]
          PROVE  x = P[p] \/ Earlier(P[p], x)
        <3>1. n(x) \notin Ports
            BY <1>12, <1>14, <2>4
        <3>2. PICK u \in DOMAIN occ : occ[u].name = n(x)
            BY <1>13, <3>1
        <3>3. ref(x) = [occurrence |-> u]
            BY <1>11, <3>2
        <3>4. u = o
            BY <1>14, <2>4, <3>3
        <3>5. PICK q \in 1..Len(P) : x = P[q]
            BY <1>8
        <3>6. p <= q
            BY <2>1, <3>2, <3>4, <3>5
        <3>7. p = q \/ p < q
            BY <1>7, <3>6
        <3>8. CASE p < q
            <4>1. <<P[p], P[q]>> \in Forward
                BY <1>2, <1>7, <3>8 DEF Ordered
            <4> QED
                BY <1>9, <3>5, <4>1 DEF Forward
        <3> QED
            BY <3>5, <3>7, <3>8
    <2> QED
        BY <2>2, <2>3, <2>4
<1>17. ASSUME NEW o \in DOMAIN occ, NEW u \in DOMAIN occ
       PROVE  (u # o => names[u] # names[o]) /\ (u < o => Earlier(firsts[u], firsts[o]))
    <2>1. u # o => names[u] # names[o]
        <3>1. u # o => u < o \/ o < u
            BY <1>7
        <3> QED
            BY <1>6, <3>1
    <2>2. u < o => Earlier(firsts[u], firsts[o])
        <3> SUFFICES ASSUME u < o PROVE Earlier(occ[u].first_position, occ[o].first_position)
            OBVIOUS
        <3>1. <<occ[u].first_position, occ[o].first_position>> \in Forward
            BY <1>6
        <3> QED
            BY <3>1 DEF Forward
    <2> QED
        BY <2>1, <2>2
<1>18. DOMAIN told = DOMAIN g.flow /\ \A c \in DOMAIN g.flow :
         DOMAIN told[c] = DOMAIN g.flow[c] /\ \A s \in DOMAIN g.flow[c] : DOMAIN told[c][s] = DOMAIN g.flow[c][s]
    BY <1>5
<1>19. DOMAIN names = DOMAIN occ
    OBVIOUS
<1> HIDE DEF names, firsts
<1>20. TellsFlow(g.flow, told, names, firsts)
    BY <1>15, <1>16, <1>17, <1>18, <1>19 DEF TellsFlow
<1> QED
    BY <1>20 DEF names, firsts, occ, told

Addressed == [contract : Nat, kind : {"abstract", "fixed"}, owner : Nat, state : Nat]
OwnerFirst ==
  {z \in Addressed \X Addressed : z[1].owner < z[2].owner \/ (z[1].owner = z[2].owner /\ z[1].state < z[2].state)}

\* An address tells what it was made from.
LEMMA AddressFields ==
    ASSUME NEW nodes, NEW c, NEW o, NEW s
    PROVE  /\ Address(nodes, c, o, s).contract = c /\ Address(nodes, c, o, s).kind = StateKind(nodes[c].state[s])
           /\ Address(nodes, c, o, s).owner = o /\ Address(nodes, c, o, s).state = s
BY DEF Address

\* An address is one of those whose order is spoken of.
LEMMA AddressType ==
    ASSUME NEW nodes, NEW c \in Nat, NEW o \in Nat, NEW s \in Nat
    PROVE  Address(nodes, c, o, s) \in Addressed
<1>1. StateKind(nodes[c].state[s]) \in {"abstract", "fixed"}
    BY DEF StateKind
<1> QED
    BY <1>1 DEF Address, Addressed

\* What the order of addresses is.
LEMMA OwnerFirstIs ==
    ASSUME NEW a \in Addressed, NEW b \in Addressed
    PROVE  <<a, b>> \in OwnerFirst <=> (a.owner < b.owner \/ (a.owner = b.owner /\ a.state < b.state))
<1> DEFINE z == <<a, b>>
<1>1. z \in Addressed \X Addressed /\ z[1] = a /\ z[2] = b
    OBVIOUS
<1> HIDE DEF z
<1>2. z \in OwnerFirst <=> (z[1].owner < z[2].owner \/ (z[1].owner = z[2].owner /\ z[1].state < z[2].state))
    BY <1>1, Zenon DEF OwnerFirst
<1> QED
    BY <1>1, <1>2 DEF z

\* A sequence without repetition is as long as what is told of its members.
LEMMA AsManyAs ==
    ASSUME NEW T, NEW s \in Seq(T), NEW S, NEW f \in [1..Len(s) -> S],
           \A x \in S : \E i \in 1..Len(s) : f[i] = x,
           \A i, j \in 1..Len(s) : i < j => f[i] # f[j]
    PROVE  Len(s) = Cardinality(S)
<1>1. Len(s) \in Nat
    BY Member
<1>2. f \in Bijection(1..Len(s), S)
    <2>1. \A i, j \in 1..Len(s) : f[i] = f[j] => i = j
        <3> SUFFICES ASSUME NEW i \in 1..Len(s), NEW j \in 1..Len(s), f[i] = f[j], i # j PROVE FALSE
            OBVIOUS
        <3>1. i < j \/ j < i
            BY <1>1
        <3> QED
            BY <3>1
    <2> QED
        BY <2>1 DEF Bijection, Injection, IsInjective, Surjection
<1>3. IsFiniteSet(1..Len(s)) /\ Cardinality(1..Len(s)) = Len(s)
    <2>1. \A n \in Nat : IsFiniteSet(1..n) /\ Cardinality(1..n) = n
        BY FS_Interval
    <2> QED
        BY <1>1, <2>1, Zenon
<1>4. ExistsBijection(1..Len(s), S)
    BY <1>2, Zenon DEF ExistsBijection
<1>5. Cardinality(S) = Cardinality(1..Len(s))
    BY <1>3, <1>4, FS_Bijection
<1> QED
    BY <1>3, <1>5

\* An occurrence is known by the contract of its name.
LEMMA ContractIs ==
    ASSUME NEW nodes, Lists(nodes), NEW o, \E i \in DOMAIN nodes : nodes[i].name = o.name
    PROVE  ContractOf(nodes, o) \in DOMAIN nodes /\ nodes[ContractOf(nodes, o)].name = o.name
<1> DEFINE S == {i \in DOMAIN nodes : nodes[i].name = o.name}
<1>1. DOMAIN nodes = 1..Len(nodes) /\ Len(nodes) \in Nat
    BY Member DEF Lists
<1>2. S \in SUBSET (1..Len(nodes)) /\ S # {}
    BY <1>1
<1>3. ContractOf(nodes, o) = Max(S)
    BY DEF ContractOf
<1> HIDE DEF S
<1>4. Max(S) \in S
    BY <1>1, <1>2, Greatest
<1> QED
    BY <1>3, <1>4 DEF S

\* Each state of each occurrence has one address, with its contract and its kind, and
\* nothing else has one (write_graph, write_state_address of apsl-artifact), if a flow
\* mentions nodes only, as a compiled one does.
THEOREM StatesAreAddressed ==
    ASSUME NEW nodes, Lists(nodes), \A i \in DOMAIN nodes : Lists(nodes[i].state),
           NEW g, IsDecl(g), g.k = "graph", Mentioned(g) \subseteq Ports \cup {nodes[i].name : i \in DOMAIN nodes}
    PROVE  LET occurrences == Occurrences(g)
               contracts   == [o \in DOMAIN occurrences |-> ContractOf(nodes, occurrences[o])]
           IN  /\ \A o \in DOMAIN occurrences : contracts[o] \in DOMAIN nodes /\ nodes[contracts[o]].name = occurrences[o].name
               /\ TellsStates(Addresses(nodes, occurrences), contracts,
                    [i \in DOMAIN nodes |-> [s \in DOMAIN nodes[i].state |-> StateKind(nodes[i].state[s])]])
<1> DEFINE occ == Occurrences(g)
           contracts == [o \in DOMAIN occ |-> ContractOf(nodes, occ[o])]
           kinds == [i \in DOMAIN nodes |-> [s \in DOMAIN nodes[i].state |-> StateKind(nodes[i].state[s])]]
           states(o) == DOMAIN nodes[contracts[o]].state
           row(o) == [s \in states(o) |-> Address(nodes, contracts[o], o, s)]
           rows == [o \in DOMAIN occ |-> row(o)]
           owned == UNION {{<<o, s>> : s \in DOMAIN kinds[contracts[o]]} : o \in DOMAIN contracts}
<1>1. occ \in Seq(Occurrence(Mentioned(g))) /\ Noted(g, Len(Places(g)), occ)
    BY FlowType, OccurrencesAre
<1>2. Addresses(nodes, occ) = FlattenSeq(rows)
    <2>1. rows = [o \in DOMAIN occ |->
                    LET contract == ContractOf(nodes, occ[o])
                    IN  [s \in DOMAIN nodes[contract].state |-> Address(nodes, contract, o, s)]]
        OBVIOUS
    <2> HIDE DEF rows
    <2> QED
        BY <2>1, Zenon DEF Addresses
<1> HIDE DEF occ
<1>3. DOMAIN occ = 1..Len(occ) /\ Len(occ) \in Nat /\ DOMAIN occ \subseteq Nat
    <2>1. DOMAIN occ = 1..Len(occ) /\ Len(occ) \in Nat
        BY <1>1, Member
    <2> QED
        BY <2>1
<1>4. ASSUME NEW o \in DOMAIN occ
      PROVE  contracts[o] \in DOMAIN nodes /\ nodes[contracts[o]].name = occ[o].name
    <2>1. occ[o] \in Occurrence(Mentioned(g)) /\ occ[o].name \notin Ports
        BY <1>1, Member DEF Noted
    <2>2. occ[o].name \in Mentioned(g)
        BY <2>1 DEF Occurrence
    <2>3. \E i \in DOMAIN nodes : nodes[i].name = occ[o].name
        BY <2>1, <2>2
    <2> QED
        BY <2>3, ContractIs
<1>5. DOMAIN nodes \subseteq Nat
    <2>1. \A i \in DOMAIN nodes : i \in Nat
        BY Member DEF Lists
    <2> QED
        BY <2>1
<1> HIDE DEF contracts
<1>6. ASSUME NEW o \in DOMAIN occ
      PROVE  /\ contracts[o] \in Nat /\ states(o) \subseteq Nat
             /\ \E n \in Nat : states(o) = 1..n
    <2>1. Lists(nodes[contracts[o]].state)
        BY <1>4
    <2>2. states(o) = 1..Len(nodes[contracts[o]].state) /\ Len(nodes[contracts[o]].state) \in Nat
          /\ \A s \in states(o) : s \in Nat
        BY <2>1, Member DEF Lists
    <2>3. contracts[o] \in Nat
        BY <1>4, <1>5
    <2> HIDE DEF states
    <2> QED
        BY <2>2, <2>3
<1>7. ASSUME NEW o \in DOMAIN occ
      PROVE  /\ row(o) \in Seq(Addressed) /\ Ordered(row(o), OwnerFirst)
             /\ ToSet(row(o)) = {Address(nodes, contracts[o], o, s) : s \in states(o)}
    <2> DEFINE r == row(o)
    <2>1. PICK n \in Nat : states(o) = 1..n
        BY <1>6
    <2>2. o \in Nat /\ contracts[o] \in Nat /\ states(o) \subseteq Nat
        BY <1>3, <1>6
    <2> HIDE DEF states
    <2>3. \A s \in states(o) : Address(nodes, contracts[o], o, s) \in Addressed
        BY <2>2, AddressType
    <2>4. r \in [1..n -> Addressed] /\ \A s \in 1..n : r[s] = Address(nodes, contracts[o], o, s)
        BY <2>1, <2>3
    <2> HIDE DEF r
    <2>5. r \in Seq(Addressed) /\ DOMAIN r = 1..n
        BY <2>4, Row
    <2>6. ToSet(r) = {r[s] : s \in DOMAIN r}
        BY Zenon DEF ToSet
    <2>7. {r[s] : s \in DOMAIN r} = {Address(nodes, contracts[o], o, s) : s \in states(o)}
        BY <2>1, <2>4, <2>5
    <2>8. Ordered(r, OwnerFirst)
        <3> SUFFICES ASSUME NEW i \in DOMAIN r, NEW j \in DOMAIN r, i < j PROVE <<r[i], r[j]>> \in OwnerFirst
            BY DEF Ordered
        <3>1. i \in Nat /\ j \in Nat /\ i \in 1..n /\ j \in 1..n
            BY <2>5
        <3>2. r[i] \in Addressed /\ r[j] \in Addressed /\ r[i].owner = r[j].owner /\ r[i].state < r[j].state
            <4>0. Address(nodes, contracts[o], o, i) \in Addressed /\ Address(nodes, contracts[o], o, j) \in Addressed
                BY <2>2, <3>1, AddressType
            <4>1. /\ Address(nodes, contracts[o], o, i).owner = o /\ Address(nodes, contracts[o], o, i).state = i
                  /\ Address(nodes, contracts[o], o, j).owner = o /\ Address(nodes, contracts[o], o, j).state = j
                BY AddressFields
            <4>2. r[i] = Address(nodes, contracts[o], o, i) /\ r[j] = Address(nodes, contracts[o], o, j)
                BY <2>4, <3>1, Zenon
            <4>3. r[i] \in Addressed /\ r[j] \in Addressed /\ r[i].owner = r[j].owner
                BY <4>0, <4>1, <4>2, Zenon
            <4>4. r[i].state = i /\ r[j].state = j
                BY <4>1, <4>2, Zenon
            <4> QED
                BY <4>3, <4>4
        <3> QED
            BY <3>2, OwnerFirstIs
    <2> QED
        BY <2>5, <2>6, <2>7, <2>8 DEF r
<1>8. rows \in [1..Len(occ) -> Seq(Addressed)] /\ \A o \in DOMAIN occ : rows[o] = row(o)
    <2> HIDE DEF row
    <2> QED
        BY <1>3, <1>7
<1> HIDE DEF rows
<1>9. rows \in Seq(Seq(Addressed)) /\ Len(rows) = Len(occ) /\ 1..Len(rows) = DOMAIN occ
    BY <1>3, <1>8, Row
<1>10. \A o \in DOMAIN occ : Ordered(rows[o], OwnerFirst)
         /\ ToSet(rows[o]) = {Address(nodes, contracts[o], o, s) : s \in states(o)}
    <2> HIDE DEF row, states
    <2> QED
        BY <1>7, <1>8
<1> HIDE DEF row
<1>11. ASSUME NEW o \in DOMAIN occ, NEW u \in DOMAIN occ, o < u, NEW x \in ToSet(rows[o]), NEW y \in ToSet(rows[u])
       PROVE  <<x, y>> \in OwnerFirst
    <2>0. states(o) \subseteq Nat /\ states(u) \subseteq Nat /\ contracts[o] \in Nat /\ contracts[u] \in Nat /\ o \in Nat /\ u \in Nat
        BY <1>3, <1>6
    <2> HIDE DEF states
    <2>1. PICK s \in states(o) : x = Address(nodes, contracts[o], o, s)
        BY <1>10
    <2>2. PICK t \in states(u) : y = Address(nodes, contracts[u], u, t)
        BY <1>10
    <2>3. x \in Addressed /\ x.owner = o
        <3>1. s \in Nat
            BY <2>0
        <3>2. Address(nodes, contracts[o], o, s) \in Addressed
            BY <2>0, <3>1, AddressType
        <3>3. Address(nodes, contracts[o], o, s).owner = o
            BY AddressFields
        <3> QED
            BY <2>1, <3>2, <3>3, Zenon
    <2>4. y \in Addressed /\ y.owner = u
        <3>1. t \in Nat
            BY <2>0
        <3>2. Address(nodes, contracts[u], u, t) \in Addressed
            BY <2>0, <3>1, AddressType
        <3>3. Address(nodes, contracts[u], u, t).owner = u
            BY AddressFields
        <3> QED
            BY <2>2, <3>2, <3>3, Zenon
    <2> QED
        BY <1>11, <2>3, <2>4, OwnerFirstIs
<1> DEFINE L == FlattenSeq(rows)
<1>12. L \in Seq(Addressed) /\ Ordered(L, OwnerFirst) /\ ToSet(L) = UNION {ToSet(rows[o]) : o \in DOMAIN occ}
    BY <1>9, <1>10, <1>11, JoinIs
<1> HIDE DEF L
<1>13. \A a \in ToSet(L) : \E o \in DOMAIN occ : \E s \in states(o) : a = Address(nodes, contracts[o], o, s)
    <2> HIDE DEF states
    <2> SUFFICES ASSUME NEW a \in ToSet(L)
                 PROVE  \E o \in DOMAIN occ : \E s \in states(o) : a = Address(nodes, contracts[o], o, s)
        OBVIOUS
    <2>1. PICK o \in DOMAIN occ : a \in ToSet(rows[o])
        BY <1>12
    <2> QED
        BY <1>10, <2>1
<1>14. \A o \in DOMAIN occ : \A s \in states(o) : Address(nodes, contracts[o], o, s) \in ToSet(L)
    <2> HIDE DEF states
    <2> SUFFICES ASSUME NEW o \in DOMAIN occ, NEW s \in states(o) PROVE Address(nodes, contracts[o], o, s) \in ToSet(L)
        OBVIOUS
    <2>1. Address(nodes, contracts[o], o, s) \in ToSet(rows[o])
        BY <1>10
    <2> QED
        BY <1>12, <2>1
<1>15. DOMAIN contracts = DOMAIN occ /\ \A o \in DOMAIN occ :
         DOMAIN kinds[contracts[o]] = states(o) /\ \A s \in states(o) : kinds[contracts[o]][s] = StateKind(nodes[contracts[o]].state[s])
    <2>1. DOMAIN contracts = DOMAIN occ
        BY DEF contracts
    <2> QED
        BY <1>4, <2>1
<1>16. ASSUME NEW o \in DOMAIN occ, NEW s \in states(o)
       PROVE  /\ Address(nodes, contracts[o], o, s) \in Addressed
              /\ Address(nodes, contracts[o], o, s).contract = contracts[o]
              /\ Address(nodes, contracts[o], o, s).kind = kinds[contracts[o]][s]
              /\ Address(nodes, contracts[o], o, s).owner = o /\ Address(nodes, contracts[o], o, s).state = s
    <2>1. contracts[o] \in Nat /\ s \in Nat /\ o \in Nat
        BY <1>3, <1>6
    <2>2. kinds[contracts[o]][s] = StateKind(nodes[contracts[o]].state[s])
        BY <1>15
    <2> HIDE DEF states, kinds
    <2> QED
        BY <2>1, <2>2, AddressType, AddressFields
<1> HIDE DEF kinds, states
<1>17. owned = {<<a.owner, a.state>> : a \in ToSet(L)}
    <2>1. \A z \in owned : \E a \in ToSet(L) : z = <<a.owner, a.state>>
        <3> SUFFICES ASSUME NEW z \in owned PROVE \E a \in ToSet(L) : z = <<a.owner, a.state>>
            OBVIOUS
        <3>1. PICK o \in DOMAIN contracts : z \in {<<o, s>> : s \in DOMAIN kinds[contracts[o]]}
            OBVIOUS
        <3>2. PICK s \in DOMAIN kinds[contracts[o]] : z = <<o, s>>
            BY <3>1
        <3>3. o \in DOMAIN occ /\ s \in states(o)
            BY <1>15
        <3> QED
            BY <1>14, <1>16, <3>2, <3>3
    <2>2. \A a \in ToSet(L) : <<a.owner, a.state>> \in owned
        <3> SUFFICES ASSUME NEW a \in ToSet(L) PROVE <<a.owner, a.state>> \in owned
            OBVIOUS
        <3>0. PICK o \in DOMAIN occ : \E s \in states(o) : a = Address(nodes, contracts[o], o, s)
            BY <1>13
        <3>1. PICK s \in states(o) : a = Address(nodes, contracts[o], o, s)
            BY <3>0
        <3>2. a.owner = o /\ a.state = s
            BY <1>16, <3>1
        <3>3. o \in DOMAIN contracts /\ s \in DOMAIN kinds[contracts[o]]
            BY <1>15
        <3> QED
            BY <3>2, <3>3
    <2> HIDE DEF owned
    <2> QED
        BY <2>1, <2>2
<1>18. \A a \in ToSet(L) : a.contract = contracts[a.owner] /\ a.kind = kinds[a.contract][a.state]
    <2> SUFFICES ASSUME NEW a \in ToSet(L) PROVE a.contract = contracts[a.owner] /\ a.kind = kinds[a.contract][a.state]
        OBVIOUS
    <2>0. PICK o \in DOMAIN occ : \E s \in states(o) : a = Address(nodes, contracts[o], o, s)
        BY <1>13
    <2>1. PICK s \in states(o) : a = Address(nodes, contracts[o], o, s)
        BY <2>0
    <2> QED
        BY <1>16, <2>1
<1>19. Len(L) = Cardinality(owned)
    <2> DEFINE f == [i \in 1..Len(L) |-> <<L[i].owner, L[i].state>>]
    <2>1. DOMAIN L = 1..Len(L)
        BY <1>12, Member
    <2>2. \A i \in 1..Len(L) : L[i] \in ToSet(L) /\ L[i] \in Addressed
        <3> SUFFICES ASSUME NEW i \in 1..Len(L) PROVE L[i] \in ToSet(L) /\ L[i] \in Addressed
            OBVIOUS
        <3>1. L[i] \in ToSet(L)
            BY <2>1, Zenon DEF ToSet
        <3> QED
            BY <1>12, <2>1, <3>1, Member
    <2> HIDE DEF owned
    <2>3. f \in [1..Len(L) -> owned]
        BY <1>17, <2>2
    <2>4. \A x \in owned : \E i \in 1..Len(L) : f[i] = x
        <3> SUFFICES ASSUME NEW x \in owned PROVE \E i \in 1..Len(L) : f[i] = x
            OBVIOUS
        <3>1. PICK a \in ToSet(L) : x = <<a.owner, a.state>>
            BY <1>17
        <3>2. PICK i \in 1..Len(L) : a = L[i]
            BY <2>1, Zenon DEF ToSet
        <3> QED
            BY <3>1, <3>2
    <2>5. ASSUME NEW i \in 1..Len(L), NEW j \in 1..Len(L), i < j PROVE f[i] # f[j]
        <3>1. <<L[i], L[j]>> \in OwnerFirst
            BY <1>12, <2>1, <2>5 DEF Ordered
        <3>2. L[i].owner < L[j].owner \/ (L[i].owner = L[j].owner /\ L[i].state < L[j].state)
            BY <2>2, <3>1, OwnerFirstIs
        <3>3. L[i].owner \in Nat /\ L[j].owner \in Nat /\ L[i].state \in Nat /\ L[j].state \in Nat
            BY <2>2 DEF Addressed
        <3>4. L[i].owner # L[j].owner \/ L[i].state # L[j].state
            BY <3>2, <3>3
        <3> QED
            BY <3>4
    <2> HIDE DEF f
    <2> QED
        BY <1>12, <2>3, <2>4, <2>5, AsManyAs
<1>20. TellsStates(L, contracts, kinds)
    BY <1>17, <1>18, <1>19 DEF TellsStates
<1>21. \A o \in DOMAIN occ : contracts[o] \in DOMAIN nodes /\ nodes[contracts[o]].name = occ[o].name
    BY <1>4
<1> QED
    BY <1>2, <1>20, <1>21 DEF occ, contracts, kinds, L
=============================================================================
