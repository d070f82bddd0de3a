-------------------------------- MODULE Flows --------------------------------
(***************************************************************************)
(* The checks of apslc that follow names through a program: what an alias  *)
(* stands for (--state, crates/apsl-types, string_strict.rs), which        *)
(* capability narrows which (--nominal, --restricted) and which nodes are  *)
(* connected (--rooted, crates/apslc, main.rs).  A program is the sequence *)
(* of its declarations.                                                    *)
(***************************************************************************)
EXTENDS Integers, Sequences, SequencesExt

\* The declarations of a kind, by position, and their names.
OfKind(p, k)  == {i \in DOMAIN p : p[i].k = k}
NamesIn(p, k) == {p[i].name : i \in OfKind(p, k)}
\* A name declared twice is what it was declared last.
LastNamed(p, k, n) == p[Max({i \in OfKind(p, k) : p[i].name = n})]
Ports == {"in", "out"}

\* Where a search that starts at some names ends: round by round it goes on along
\* the edges, at most once for each name there is an edge to.
Reachable(edges, from) ==
  LET targets == {e[2] : e \in edges}
      seen[k \in 0..Cardinality(targets)] ==
        IF k = 0 THEN from ELSE seen[k - 1] \cup {e[2] : e \in {x \in edges : x[1] \in seen[k - 1]}}
  IN  seen[Cardinality(targets)]

----------------------------------------------------------------------------
\* The calls of resolved_base: the type it is called with and the names it has seen.
\* It goes on while the type is the name of an alias it has not seen.
ResolvedBase(p, t) ==
  LET goes(c) == c.t.k = "base" /\ c.t.n \in NamesIn(p, "type") \ c.seen
      call[k \in 0..Cardinality(NamesIn(p, "type"))] ==
        IF k = 0 THEN [t |-> t, seen |-> {}]
        ELSE LET c == call[k - 1]
             IN  IF goes(c) THEN [t |-> LastNamed(p, "type", c.t.n).rhs, seen |-> c.seen \cup {c.t.n}] ELSE c
      last == call[Cardinality(NamesIn(p, "type"))]
  IN  IF last.t.k = "base" /\ last.t.n \notin last.seen THEN {last.t.n} ELSE {}

TypeOfLit == [int |-> "Int", rat |-> "Rat", bool |-> "Bool", str |-> "String"]
DefaultMatches(p, lit, t) == TypeOfLit[lit.k] \in ResolvedBase(p, t)

States(d) == IF d.k = "type" THEN <<>> ELSE d.state
DefaultsHold(p) ==
  \A i \in DOMAIN p : \A s \in ToSet(States(p[i])) : \A lit \in ToSet(s.default) : DefaultMatches(p, lit, s.t)
OwnKeys(d)    == \A i, j \in DOMAIN States(d) : States(d)[i].key = States(d)[j].key => i = j
StateCheck(p) == DefaultsHold(p) /\ \A i \in DOMAIN p : OwnKeys(p[i])

----------------------------------------------------------------------------
\* The nodes that follow one another in the flow of a graph.
Windows(chain) == {i \in DOMAIN chain : i + 1 \in DOMAIN chain}
EdgesOf(g) ==
  UNION {UNION {(ToSet(c[i]) \ Ports) \X (ToSet(c[i + 1]) \ Ports) : i \in Windows(c)} : c \in ToSet(g.flow)}
Edges(p) == UNION {EdgesOf(p[i]) : i \in OfKind(p, "graph")}

\* Whatever is no name is written out, which gives no alias's name.
NominalName(t) == IF t.k = "base" THEN {t.n} ELSE {}
Output(d)      == NominalName(d.ret)
FirstInput(d)  == IF d.params = <<>> THEN {} ELSE NominalName(d.params[1].t)

Narrowings(p)  == UNION {{p[i].name} \X ToSet(p[i].supers) : i \in OfKind(p, "type")}
\* Mutant: declared supertypes only, not theirs.
AncestorsNear(p, n) == {n} \cup {e[2] : e \in {x \in Narrowings(p) : x[1] = n}}
Ancestors(p, n) == Reachable(Narrowings(p), {n})

\* Only edges between two aliases are checked, and of the consumer its first input.
NominalCheck(p, restricted) ==
  \A e \in Edges(p) :
    {e[1], e[2]} \subseteq NamesIn(p, "node") =>
      \A o \in Output(LastNamed(p, "node", e[1])), i \in FirstInput(LastNamed(p, "node", e[2])) :
        {o, i} \subseteq NamesIn(p, "type") => o = i \/ (restricted /\ i \in Ancestors(p, o))

----------------------------------------------------------------------------
Component(p, n) == Reachable(Edges(p) \cup {<<e[2], e[1]>> : e \in Edges(p)}, {n})
Members(p)      == NamesIn(p, "node") \cup UNION {{e[1], e[2]} : e \in Edges(p)}
OneComponent(p) == \A m, n \in Members(p) : Component(p, m) = Component(p, n)

----------------------------------------------------------------------------
(* What the checks mean.  That a search finds what is reachable and nothing else
   is said by closed sets: whatever has the start and is closed has the end. *)

\* n stands for a built-in type: it is that type, or an alias of a name that does.
StandsFor(p, n, type) ==
  LET own == NamesIn(p, "type")
      rhs(m) == LastNamed(p, "type", m).rhs
  IN  /\ type \notin own
      /\ \A S \in SUBSET (own \cup {type}) :
           type \in S /\ (\A m \in own : rhs(m).k = "base" /\ rhs(m).n \in S => m \in S) => n \in S
DefaultsTyped(p) ==
  \A d \in ToSet(p) : d.k # "type" => \A s \in ToSet(d.state) : \A lit \in ToSet(s.default) :
    s.t.k = "base" /\ StandsFor(p, s.t.n, TypeOfLit[lit.k])
OwnPaths(d) == d.k # "type" => Cardinality({s.key : s \in ToSet(d.state)}) = Len(d.state)

\* The flows of a program: b takes what a gives.
Follows(p, a, b) ==
  \E g \in ToSet(p) : g.k = "graph" /\ \E c \in ToSet(g.flow) : \E i \in DOMAIN c :
    i + 1 \in DOMAIN c /\ a \in ToSet(c[i]) /\ b \in ToSet(c[i + 1]) /\ {a, b} \cap Ports = {}
\* Whoever has the capability n has m.
Narrows(p, n, m) ==
  LET as == {d \in ToSet(p) : d.k = "type"}
  IN  \A S \in SUBSET ({n, m} \cup UNION {{a.name} \cup ToSet(a.supers) : a \in as}) :
        n \in S /\ (\A a \in as : a.name \in S => ToSet(a.supers) \subseteq S) => m \in S
MayFollow(p, a, b, restricted) ==
  LET o == a.ret
      i == b.params[1].t
  IN  b.params # <<>> /\ o.k = "base" /\ i.k = "base" /\ {o.n, i.n} \subseteq NamesIn(p, "type") =>
        o.n = i.n \/ (restricted /\ Narrows(p, o.n, i.n))
FlowNarrows(p, restricted) ==
  \A a, b \in NamesIn(p, "node") :
    Follows(p, a, b) => MayFollow(p, LastNamed(p, "node", a), LastNamed(p, "node", b), restricted)
\* There is no way to part the nodes that cuts no flow.
Undivided(p) ==
  LET flowing == UNION {UNION {UNION {ToSet(s) : s \in ToSet(c)} : c \in ToSet(g.flow)} : g \in {d \in ToSet(p) : d.k = "graph"}}
      all == NamesIn(p, "node") \cup {n \in flowing : \E m \in flowing : Follows(p, n, m) \/ Follows(p, m, n)}
  IN  \A S \in (SUBSET all) \ {{}, all} : \E a \in S, b \in all \ S : Follows(p, a, b) \/ Follows(p, b, a)

\* What a sequence of declarations is, as far as these checks look into it.
Lists(s) == s \in Seq(ToSet(s))
IsDecl(d) ==
  /\ d.k \in {"type", "node", "graph"}
  /\ IF d.k = "type" THEN Lists(d.supers) ELSE Lists(d.state)
  /\ d.k = "graph" => Lists(d.flow) /\ \A c \in ToSet(d.flow) : Lists(c) /\ \A s \in ToSet(c) : Lists(s)
IsProgram(p) == Lists(p) /\ \A d \in ToSet(p) : IsDecl(d)
=============================================================================
