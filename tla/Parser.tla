------------------------------- MODULE Parser -------------------------------
(***************************************************************************)
(* Parsing tokens by the rules of Grammar (crates/apsl-parse, parse.rs):   *)
(* how a rule is followed, and the tree each makes of what it kept.        *)
(* A declaration is a record: an alias, a node or a graph, its clauses     *)
(* under their names; an optional part is a sequence of none or one.       *)
(***************************************************************************)
EXTENDS Grammar, TLC

Term(k, n, a) == [k |-> k, n |-> n, a |-> a]
Leaf(t) == Term("tok", t, <<>>)

\* The name of a parameter that is given none.
Unnamed(i) == IF i = 1 THEN "in" ELSE "in" \o ToString(i - 1)
Param(n, t) == [n |-> n, t |-> t]
Sig(params, ret) == [k |-> "sig", params |-> params, ret |-> ret]
SigOf(ts, ret) ==
  Sig([i \in DOMAIN ts |-> IF ts[i].k = "field" THEN Param(ts[i].n, ts[i].a[1]) ELSE Param(Unnamed(i), ts[i])], ret)
PlainSigOf(t, ret) == SigOf(IF t.k = "tuple" THEN t.a ELSE <<t>>, ret)

RatName(r) == ToString(r[1]) \o "/" \o ToString(r[2])
LitOf(t) ==
  CASE t \in IntLits  -> Term("int", t, <<>>)
    [] t \in RatLits  -> Term("rat", RatName(RatOf(t)), <<>>)
    [] t \in BoolLits -> Term("bool", t, <<>>)
    [] t \in StrLits  -> Term("str", t, <<>>)

OneOr(k, v) == IF Len(v) = 1 THEN v[1] ELSE Term(k, "", v)
\* A sum is not nested in a sum to its left, nor a product in a product.
Flat(k, x, y) == IF x.k = k THEN Term(k, "", Append(x.a, y)) ELSE Term(k, "", <<x, y>>)
Implies(x, y) == Term("bin", "or", <<Term("un", "not", <<x>>), y>>)

Called(v) == IF Len(v) > 1 /\ v[2] = Leaf("(") THEN SubSeq(v, 3, Len(v)) ELSE Tail(v)

SizeOf(v) ==
  CASE Len(v) = 1    -> Term("size", v[1].n, <<>>)
    [] v[1] = v[2]   -> Term("nlogn", v[1].n, <<>>)
    [] OTHER         -> Term("prod", "", <<Term("size", v[1].n, <<>>), Term("logn", v[2].n, <<>>)>>)

\* Whatever begins like a class and is none is the first one.
ClassOf(v) ==
  CASE [i \in DOMAIN v |-> v[i].n] = <<"idem", "complex">> -> "idem-complex"
    [] [i \in DOMAIN v |-> v[i].n] = <<"anti", "idem">>    -> "anti-idem"
    [] OTHER -> "idem"

----------------------------------------------------------------------------
\* A bound of an sla: numbers divided by one another, and perhaps a unit.
NumberOf(t) == IF t \in IntLits THEN <<Numerals[t].num, 1>> ELSE RatOf(t)
Numbers(v)  == SelectSeq(v, LAMBDA x : x.n \in DOMAIN Numerals)
Quotient(v) ==
  LET ns == [i \in DOMAIN Numbers(v) |-> NumberOf(Numbers(v)[i].n)]
      by(r, n) == Reduce(r[1] * n[2], r[2] * n[1])
  IN  FoldLeft(by, ns[1], Tail(ns))
BoundOf(v) ==
  LET r == Quotient(v)
      u == Last(v).n
  IN  IF u \in DOMAIN Units
      THEN [k |-> "duration", value |-> <<(r[1] * Units[u]) \div r[2], 1>>]
      ELSE [k |-> "rational", value |-> r]

\* The value of the last item that has this key.
LastOf(v, Is(_), Get(_), default) ==
  LET all == SelectSeq(v, Is) IN IF all = <<>> THEN default ELSE Get(Last(all))
SlaOf(v) ==
  LET of(f) == LastOf(v, LAMBDA x : x.n = f, LAMBDA x : x.bound.value, <<0, 1>>)
  IN  [k |-> "sla", e |-> of("e"), d |-> of("d"), t |-> of("T")[1]]
ViaOf(v) ==
  [k |-> "via", tag |-> v[1].n, attrs |-> [i \in 1..(Len(v) \div 2) |-> <<v[2 * i].n, v[2 * i + 1].n>>]]
Required == [statistical |-> "holdout", external |-> "service"]

\* A clause of a name that may be repeated adds to those before it; any other
\* takes their place.
Of(v, n)     == SelectSeq(v, LAMBDA c : c.k = n)
Joined(v, n) == FlattenSeq([i \in DOMAIN Of(v, n) |-> Of(v, n)[i].a])
Latest(v, n) == IF Of(v, n) = <<>> THEN <<>> ELSE <<Last(Of(v, n))>>
Named(v, n, default) == IF Of(v, n) = <<>> THEN default ELSE Last(Of(v, n)).n

NodeOf(v) ==
  [k |-> "node", name |-> v[1].n, params |-> v[2].params, ret |-> v[2].ret,
   pre |-> Joined(v, "pre"), post |-> Joined(v, "post"),
   cx |-> IF Of(v, "cx") = <<>> THEN [o |-> Term("const", "", <<>>), c |-> "idem"]
          ELSE [o |-> Last(Of(v, "cx")).o, c |-> Last(Of(v, "cx")).c],
   sla |-> Latest(v, "sla"), via |-> Latest(v, "via"),
   auth |-> Named(v, "auth", "none"), scope |-> Named(v, "scope", "any"), audit |-> Named(v, "audit", "none"),
   state |-> Of(v, "state")]
\* A graph's own state cannot be written: there is no clause for it.
GraphOf(v) ==
  [k |-> "graph", name |-> v[1].n, params |-> v[2].params, ret |-> v[2].ret,
   post |-> Joined(v, "post"), flow |-> [i \in DOMAIN Of(v, "chain") |-> Of(v, "chain")[i].steps], state |-> <<>>]
AliasOf(v) ==
  LET supers == Of(v, "supers")
  IN  [k |-> "type", name |-> v[1].n,
       rhs |-> IF Last(v).k \in {"tok", "supers"} THEN Term("base", v[1].n, <<>>) ELSE Last(v),
       supers |-> IF supers = <<>> THEN <<>> ELSE supers[1].names]
NamesOf(v) == [i \in DOMAIN v |-> v[i].n]
ChainOf(v) == [k |-> "chain", steps |-> [i \in DOMAIN v |-> v[i].names]]

----------------------------------------------------------------------------
\* The tree of kind n from what its rule kept.
Build(n, v) ==
  CASE n = "named"  -> Term(IF Len(v) = 1 THEN "base" ELSE "param", v[1].n, Tail(v))
    [] n = "group"  -> OneOr("tuple", v)
    [] n = "param"  -> IF Len(v) = 1 THEN v[1] ELSE Term("field", v[1].n, <<v[2]>>)
    [] n = "named_sig" -> SigOf(Front(v), Last(v))
    [] n = "plain_sig" -> PlainSigOf(v[1], v[2])
    [] n \in {"record", "if", "max", "pre", "post", "const"} -> Term(n, "", v)
    [] n \in {"field", "let", "var", "logn", "auth", "scope", "audit"} -> Term(n, v[1].n, Tail(v))
    [] n \in {"neg", "not"} -> Term("un", n, v)
    [] n = "lit"    -> LitOf(v[1].n)
    [] n = "call"   -> Term(IF Len(v) = 1 THEN "var" ELSE "apply", v[1].n, Called(v))
    [] n = "apply"  -> Term("apply", v[1].n, Called(v))
    [] n = "quant"  -> Term(v[1].n, v[2].n, <<v[3], v[4]>>)
    [] n = "size"   -> SizeOf(v)
    [] n = "class"  -> Term("class", ClassOf(v), <<>>)
    [] n = "cx"     -> [k |-> n, o |-> v[1], c |-> v[2].n]
    [] n = "bound"  -> BoundOf(v)
    [] n = "sla_field" -> [k |-> n, n |-> v[1].n, bound |-> Last(v)]
    [] n = "sla"    -> SlaOf(v)
    [] n = "via"    -> ViaOf(v)
    [] n = "state"  -> [k |-> n, key |-> v[1].n, t |-> v[2], default |-> SubSeq(v, 3, Len(v))]
    [] n \in {"step", "supers"} -> [k |-> n, names |-> NamesOf(v)]
    [] n = "chain"  -> ChainOf(v)
    [] n = "alias"  -> AliasOf(v)
    [] n = "node"   -> NodeOf(v)
    [] n = "graph"  -> GraphOf(v)

\* The tree of a chain: x so far, a token, and what its rule kept behind it.
Link(n, x, t, v) ==
  CASE n = "bin"    -> Term("bin", t, <<x>> \o v)
    [] n = "access" -> Term("field", v[1].n, <<x>>)
    [] n = "list"   -> Term("list", "", <<x>>)
    [] n = "implies" -> Implies(x, v[1])
    [] n \in {"sum", "prod"} -> Flat(n, x, v[1])

\* What is refused although the tokens fit: a division by zero, an sla field
\* that is unknown or of the wrong kind, an obligation without its attribute.
Sound(n, v) ==
  CASE n = "bound" -> \A i \in 2..Len(Numbers(v)) : NumberOf(Numbers(v)[i].n)[1] # 0
    [] n = "sla_field" -> \/ v[1].n \in {"e", "d"} /\ Last(v).k = "rational"
                          \/ v[1].n = "T" /\ Last(v).k = "duration"
    [] n = "via"   -> \E i \in 1..(Len(v) \div 2) : v[2 * i].n = Required[v[1].n]
    [] OTHER -> TRUE

----------------------------------------------------------------------------
\* Where the parser is in the tokens ts, what the rule kept so far, whether a
\* point is a field access, and whether all went well.
At(i) == [ok |-> TRUE, at |-> i, v |-> <<>>, dots |-> TRUE]

RECURSIVE Run(_, _, _)
Run(g, ts, p) ==
  LET next == ts[p.at]
      failed == [p EXCEPT !.ok = FALSE]
      first(q) == Run(g.gs[1], ts, q)
      applies == {i \in DOMAIN g.gs : g.gs[i].op = "else" \/ next \in g.gs[i].s}
      again(q) == IF q.ok /\ q.at > p.at THEN Run(g, ts, q) ELSE q
      made(q) == IF q.ok /\ Sound(g.n, q.v) THEN [q EXCEPT !.v = Append(p.v, Build(g.n, q.v))] ELSE failed
      tried(q) == IF q.ok THEN Run(g.gs[2], ts, q) ELSE Run(g.gs[3], ts, p)
      goes == next \in g.s /\ (g.n = "access" => p.dots)
      linked(q) == IF q.ok THEN [q EXCEPT !.v = Append(Front(p.v), Link(g.n, Last(p.v), next, q.v))] ELSE failed
      link == linked(Run(g.gs[2], ts, [p EXCEPT !.at = @ + 1, !.v = <<>>]))
  IN  IF ~p.ok THEN p
      ELSE CASE g.op = "take"   -> IF next \in g.s THEN [p EXCEPT !.at = @ + 1, !.v = Append(@, Leaf(next))] ELSE failed
             [] g.op = "skip"   -> IF next \in g.s THEN [p EXCEPT !.at = @ + 1] ELSE failed
             [] g.op = "all"    -> IF g.gs = <<>> THEN p ELSE Run([g EXCEPT !.gs = Tail(@)], ts, first(p))
             [] g.op = "pick"   -> IF applies = {} THEN failed ELSE Run(g.gs[Min(applies)].gs[1], ts, p)
             [] g.op = "repeat" -> IF next \in g.s THEN again(first(p)) ELSE p
             [] g.op = "until"  -> IF next \in g.s THEN p ELSE again(first(p))
             [] g.op = "try"    -> tried(first(p))
             [] g.op = "dots"   -> [first([p EXCEPT !.dots = (g.n = "on")]) EXCEPT !.dots = p.dots]
             [] g.op = "make"   -> made(first([p EXCEPT !.v = <<>>]))
             [] g.op = "rule"   -> Run(Rules[g.n], ts, p)
             [] g.op \in {"chain", "once"} -> Run([g EXCEPT !.op = IF @ = "once" THEN "link" ELSE "links"], ts, first(p))
             [] g.op = "links"  -> IF goes THEN Run(g, ts, link) ELSE p
             [] g.op = "link"   -> IF goes THEN link ELSE p

\* The next declaration of a program.
ParseDecl(ts, i) == Run(NextDecl, ts, At(i))
=============================================================================
