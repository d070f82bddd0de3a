------------------------------- MODULE Canon -------------------------------
(***************************************************************************)
(* The canonical form of crates/apsl-core (canon.rs): the JSON text of a   *)
(* program, as a sequence of JSON tokens, and what hash.rs makes of it.    *)
(* A program is what Parser reads: trees of terms, records of clauses.     *)
(***************************************************************************)
EXTENDS Parser

\* The keys of JSON objects and of attributes, in ascending order.
Alphabet ==
  <<"a", "attrs", "audit", "auth", "b", "c", "cx", "d", "default", "e", "f", "flow", "fs", "holdout", "inputs", "k",
    "l", "n", "o", "occurrence", "occurrence_contracts", "output", "p", "port", "post", "pre", "q", "r", "s",
    "scope", "service", "signature", "sla", "state", "supertypes", "t", "tag", "ts", "type", "v", "via", "x">>
Rank == [k \in ToSet(Alphabet) |-> CHOOSE i \in DOMAIN Alphabet : Alphabet[i] = k]

Str(s)   == <<"\"" \o s \o "\"">>
IntText(n) == <<ToString(n)>>
Null     == <<"null">>
Items(s) == FlattenSeq([i \in DOMAIN s |-> (IF i = 1 THEN <<>> ELSE <<",">>) \o s[i]])
Arr(s)   == <<"[">> \o Items(s) \o <<"]">>
Each(C(_), s) == Arr([i \in DOMAIN s |-> C(s[i])])
\* An object writes its fields, <<key, value>> each, by key.
Obj(fields) ==
  LET sorted == SortSeq(fields, LAMBDA f, g : Rank[f[1]] < Rank[g[1]])
  IN  <<"{">> \o Items([i \in DOMAIN sorted |-> Str(sorted[i][1]) \o <<":">> \o sorted[i][2]]) \o <<"}">>
\* A value that may be missing: a sequence of none or one.
Maybe(C(_), v) == IF v = <<>> THEN Null ELSE C(v[1])
Rat(r) == LET low == Reduce(r[1], r[2]) IN Str(RatName(low))

\* The hash of a text in a domain: equal for equal texts only.
Hash(domain, text) == "sha256 " \o domain \o ToString(text)

----------------------------------------------------------------------------
LitCanon(l) ==
  CASE l.k = "int"  -> Obj(<< <<"k", Str("i")>>, <<"v", <<l.n>> >> >>)
    [] l.k = "rat"  -> Obj(<< <<"k", Str("r")>>, <<"v", Str(l.n)>> >>)
    [] l.k = "bool" -> Obj(<< <<"k", Str("b")>>, <<"v", <<l.n>> >> >>)
    [] l.k = "str"  -> Obj(<< <<"k", Str("s")>>, <<"v", Str(l.n)>> >>)

RECURSIVE TypeCanon(_)
TypeCanon(t) ==
  LET field(f) == Obj(<< <<"n", Str(f.n)>>, <<"t", TypeCanon(f.a[1])>> >>)
  IN  Obj(<< <<"k", Str(t.k)>> >> \o
        CASE t.k = "base"   -> << <<"n", Str(t.n)>> >>
          [] t.k = "list"   -> << <<"t", TypeCanon(t.a[1])>> >>
          [] t.k = "tuple"  -> << <<"ts", Each(TypeCanon, t.a)>> >>
          [] t.k = "record" -> << <<"fs", Each(field, t.a)>> >>
          [] t.k = "param"  -> << <<"n", Str(t.n)>>, <<"a", Each(TypeCanon, t.a)>> >>)

ParamCanon(p) == Obj(<< <<"n", Str(p.n)>>, <<"t", TypeCanon(p.t)>> >>)
SigCanon(d)   == Obj(<< <<"p", Each(ParamCanon, d.params)>>, <<"r", TypeCanon(d.ret)>> >>)

RECURSIVE ExprCanon(_)
ExprCanon(e) ==
  LET sub(i) == ExprCanon(e.a[i])
      tag == CASE e.k \in {"forall", "exists"}         -> "quant"
               [] e.k \in {"int", "rat", "bool", "str"} -> "lit"
               [] OTHER                                 -> e.k
  IN  Obj(<< <<"k", Str(tag)>> >> \o
        CASE tag = "lit"   -> << <<"v", LitCanon(e)>> >>
          [] tag = "var"   -> << <<"n", Str(e.n)>> >>
          [] tag = "field" -> << <<"e", sub(1)>>, <<"n", Str(e.n)>> >>
          [] tag = "apply" -> << <<"f", Str(e.n)>>, <<"a", Each(ExprCanon, e.a)>> >>
          [] tag = "bin"   -> << <<"o", Str(e.n)>>, <<"l", sub(1)>>, <<"r", sub(2)>> >>
          [] tag = "un"    -> << <<"o", Str(e.n)>>, <<"e", sub(1)>> >>
          [] tag = "quant" -> << <<"q", Str(e.k)>>, <<"x", Str(e.n)>>, <<"s", sub(1)>>, <<"b", sub(2)>> >>
          [] tag = "if"    -> << <<"c", sub(1)>>, <<"t", sub(2)>>, <<"e", sub(3)>> >>
          [] tag = "let"   -> << <<"x", Str(e.n)>>, <<"e", sub(1)>>, <<"b", sub(2)>> >>
          [] tag = "tuple" -> << <<"a", Each(ExprCanon, e.a)>> >>)

RECURSIVE CostCanon(_)
CostCanon(c) ==
  Obj(<< <<"k", Str(c.k)>> >> \o
    CASE c.k = "const" -> <<>>
      [] c.k \in {"size", "nlogn", "logn"} -> << <<"n", Str(c.n)>> >>
      [] c.k \in {"sum", "prod", "max"}    -> << <<"a", Each(CostCanon, c.a)>> >>)
CxCanon(cx) == Obj(<< <<"o", CostCanon(cx.o)>>, <<"c", Str(cx.c)>> >>)

SlaCanon(sla) == Obj(<< <<"d", Rat(sla.d)>>, <<"e", Rat(sla.e)>>, <<"t", Str(ToString(sla.t) \o "ns")>> >>)

\* Attributes by name; those of one name stay in order.
ByName(attrs) ==
  LET before(i, j) == \/ Rank[attrs[i][1]] < Rank[attrs[j][1]]
                      \/ attrs[i][1] = attrs[j][1] /\ i < j
      sorted == SortSeq([i \in DOMAIN attrs |-> i], before)
  IN  [i \in DOMAIN attrs |-> attrs[sorted[i]]]
ViaCanon(via) ==
  LET attr(a) == Obj(<< <<"k", Str(a[1])>>, <<"v", Str(a[2])>> >>)
  IN  Obj(<< <<"tag", Str(via.tag)>>, <<"attrs", Each(attr, ByName(via.attrs))>> >>)

StateCanon(s) == Obj(<< <<"k", Str(s.key)>>, <<"t", TypeCanon(s.t)>>, <<"d", Maybe(LitCanon, s.default)>> >>)

----------------------------------------------------------------------------
AliasCanon(d) ==
  Obj(<< <<"k", Str("type")>>, <<"n", Str(d.name)>>, <<"r", TypeCanon(d.rhs)>> >>
        \o (IF d.supers = <<>> THEN <<>> ELSE << <<"supertypes", Each(Str, d.supers)>> >>))

NodeCanon(d) ==
  Obj(<< <<"audit", Str(d.audit)>>, <<"auth", Str(d.auth)>>, <<"k", Str("node")>>, <<"n", Str(d.name)>>,
         <<"s", SigCanon(d)>>, <<"pre", Each(ExprCanon, d.pre)>>, <<"post", Each(ExprCanon, d.post)>>,
         <<"cx", CxCanon(d.cx)>>, <<"sla", Maybe(SlaCanon, d.sla)>>, <<"scope", Str(d.scope)>>,
         <<"via", Maybe(ViaCanon, d.via)>>, <<"state", Each(StateCanon, d.state)>> >>)

StepCanon(step) == IF Len(step) = 1 THEN Str(step[1]) ELSE Each(Str, step)
GraphCanon(d) ==
  LET chain(c) == Each(StepCanon, c)
  IN  Obj(<< <<"k", Str("graph")>>, <<"n", Str(d.name)>>, <<"s", SigCanon(d)>>, <<"post", Each(ExprCanon, d.post)>>,
             <<"flow", Each(chain, d.flow)>> >>
            \o (IF d.state = <<>> THEN <<>> ELSE << <<"state", Each(StateCanon, d.state)>> >>))

DeclCanon(d) == CASE d.k = "type" -> AliasCanon(d) [] d.k = "node" -> NodeCanon(d) [] d.k = "graph" -> GraphCanon(d)
ProgramCanon(decls) == Each(DeclCanon, decls)
=============================================================================
