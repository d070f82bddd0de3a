----------------------------- MODULE Inference -----------------------------
(***************************************************************************)
(* What the type checker does with one term (types.rs, env.rs, infer.rs of *)
(* crates/apsl-types): substitutions, unification, instances of schemes,   *)
(* and the inference of an expression.  Recursive operators that TLC       *)
(* evaluates; TypeCheck takes them as parameters.                          *)
(*                                                                         *)
(* An expression is [k, n, es]: its kind, a name (of a variable, a callee, *)
(* an operator, a literal's type, a tuple's field) and its parts.  Lambdas *)
(* are left out: no source text yields one.                                *)
(***************************************************************************)
EXTENDS Types

RECURSIVE FreeVars(_)
FreeVars(t) ==
  IF IsVar(t) THEN {t.v}
  ELSE IF t.op \in Parameterized THEN {}
  ELSE UNION {FreeVars(t.args[i]) : i \in DOMAIN t.args}

----------------------------------------------------------------------------
(* Aliases are replaced by what they stand for, however deep.  A program's *)
(* aliases form no cycle here: on a cycle the code recurs without end.     *)

RECURSIVE Resolve(_, _)
Resolve(t, aliases) ==
  IF t.op \in DOMAIN aliases /\ t.args = <<>> THEN Resolve(aliases[t.op], aliases)
  ELSE [t EXCEPT !.args = [i \in DOMAIN t.args |-> Resolve(t.args[i], aliases)]]

----------------------------------------------------------------------------
(* Substitutions: functions from variables to terms.                       *)

RECURSIVE Apply(_, _)
Apply(s, t) ==
  IF IsVar(t) THEN (IF t.v \in DOMAIN s THEN Apply(s, s[t.v]) ELSE t)
  ELSE [t EXCEPT !.args = [i \in DOMAIN t.args |-> Apply(s, t.args[i])]]

\* self.compose(other): other first, then self; other's binding wins.
Compose(self, other) ==
  [v \in DOMAIN self \cup DOMAIN other |->
     IF v \in DOMAIN other THEN Apply(self, other[v]) ELSE self[v]]

RECURSIVE Reaches(_, _, _)
Reaches(s, vs, n) ==
  IF n = 0 THEN vs
  ELSE Reaches(s, vs \cup UNION {FreeVars(s[v]) : v \in vs \cap DOMAIN s}, n - 1)

\* A variable that stands for a term it occurs in: Apply would not return.
Cyclic(s) ==
  \E v \in DOMAIN s :
     v \in Reaches(s, FreeVars(s[v]), Cardinality(DOMAIN s))
----------------------------------------------------------------------------
(* Unification: the outcome says whether the terms unify and by what.      *)

Unified(s) == [ok |-> TRUE, s |-> s]
Clash      == [ok |-> FALSE, s |-> NoSubst]

\* Mutant: no occurs check.
BindUnchecked(n, t) == IF t = Var(n) THEN Unified(NoSubst) ELSE Unified(n :> t)

Bind(n, t) ==
  IF t = Var(n) THEN Unified(NoSubst)
  ELSE IF n \in FreeVars(t) THEN Clash
  ELSE Unified(n :> t)

RECURSIVE Unify(_, _), UnifyAll(_, _, _)

\* Mutant: each argument as it is written.
UnifyEachAlone(xs, ys, s) ==
  IF xs = <<>> THEN Unified(s)
  ELSE LET u == Unify(Head(xs), Head(ys))
       IN  IF u.ok THEN UnifyAll(Tail(xs), Tail(ys), Compose(u.s, s)) ELSE Clash

\* Argument by argument, each under what the earlier ones have bound.
UnifyAll(xs, ys, s) ==
  IF xs = <<>> THEN Unified(s)
  ELSE LET u == Unify(Apply(s, Head(xs)), Apply(s, Head(ys)))
       IN  IF u.ok THEN UnifyAll(Tail(xs), Tail(ys), Compose(u.s, s)) ELSE Clash

Unify(a, b) ==
  IF IsVar(a) THEN Bind(a.v, b)
  ELSE IF IsVar(b) THEN Bind(b.v, a)
  ELSE IF a.op = b.op /\ Len(a.args) = Len(b.args) THEN UnifyAll(a.args, b.args, NoSubst)
  ELSE Clash

\* Unification under a substitution, which grows by what it binds.
UnifyUnder(s, a, b) ==
  LET u == Unify(Apply(s, a), Apply(s, b))
  IN  [ok |-> u.ok, s |-> IF u.ok THEN Compose(u.s, s) ELSE s]

----------------------------------------------------------------------------
(* Instances of schemes.                                                   *)

\* Mutant: the generator is not advanced.
InstantiateAgain(scheme, g) ==
  LET vs == scheme.vars
      s  == [v \in {vs[i] : i \in DOMAIN vs} |->
               Var(g + (CHOOSE i \in DOMAIN vs : vs[i] = v) - 1)]
  IN  [ty |-> Apply(s, scheme.body), g |-> g]

\* The body with a fresh variable for each of the scheme's, and the next one.
Instantiate(scheme, g) ==
  LET vs == scheme.vars
      s  == [v \in {vs[i] : i \in DOMAIN vs} |->
               Var(g + (CHOOSE i \in DOMAIN vs : vs[i] = v) - 1)]
  IN  [ty |-> Apply(s, scheme.body), g |-> g + Len(vs)]

----------------------------------------------------------------------------
(* Inference.  An outcome carries the substitution and the generator on,   *)
(* also when it is an error.                                               *)

Got(t, s, g)  == [ok |-> TRUE, ty |-> t, s |-> s, g |-> g]
Failed(s, g)  == [ok |-> FALSE, ty |-> Tuple(<<>>), s |-> s, g |-> g]

\* r with the bindings of s as well.  To apply a cyclic substitution does not
\* return: the inference stops there.
Binding(r, s) ==
  IF Cyclic(r.s @@ s) THEN Failed(r.s @@ s, r.g) ELSE [r EXCEPT !.s = Compose(s, r.s)]

\* r, given how the unification it waits for came out.
Joining(r, u) == IF u.ok THEN Binding(r, u.s) ELSE Failed(r.s, r.g)

\* r, once its type is unified with t; t is taken as given.
Expect(r, t) == IF r.ok THEN Joining(r, Unify(Apply(r.s, r.ty), t)) ELSE r

\* r with the type t, unless it is an error.
Giving(r, t) == IF r.ok THEN [r EXCEPT !.ty = t] ELSE r
Settled(r)   == IF r.ok THEN [r EXCEPT !.ty = Apply(r.s, r.ty)] ELSE r

Comparisons == {"=", "<"}
Arithmetic  == {"+", "*"}
Connectives == {"and", "or"}
SetOps      == {"union", "subset"}

Index(field) == CASE field = "0" -> 1 [] field = "1" -> 2 [] OTHER -> 0

RECURSIVE Infer(_, _, _, _), InferCall(_, _, _, _, _, _), InferParts(_, _, _)

\* The parts of a tuple, in order: the outcome's type lists theirs.
InferParts(es, env, r) ==
  LET part(a) == Giving(a, Tuple(Append(r.ty.args, a.ty)))
  IN  IF ~r.ok \/ es = <<>> THEN r
      ELSE InferParts(Tail(es), env, part(Infer(Head(es), env, r.s, r.g)))

\* Arguments i and on of a call of f.  What a parameter expects is settled
\* before its argument is inferred.
InferCall(name, f, es, i, env, r) ==
  LET byName == i = LambdaSlot(name) /\ es[i].k = "var" /\ es[i].n \in DOMAIN env
      named(inst, t) == Joining([r EXCEPT !.g = inst.g], Unify(inst.ty, t))
      argument(t) == IF byName THEN named(Instantiate(env[es[i].n], r.g), t)
                     ELSE Expect(Infer(es[i], env, r.s, r.g), t)
  IN  IF ~r.ok \/ i > Len(es) THEN r
      ELSE InferCall(name, f, es, i + 1, env, argument(Apply(r.s, Params(f)[i])))

\* Both operands are inferred, b after a; then the operator's demands are met.
InferBin(op, a, b) ==
  LET left    == [b EXCEPT !.ty = a.ty]
      same    == Expect(left, Apply(b.s, b.ty))
      each(t) == Expect(Giving(Expect(left, t), b.ty), t)
  IN  CASE op \in Comparisons \cup {"subset"} -> Giving(same, Bool)
        [] op \in Arithmetic                  -> Giving(each(Intt), Intt)
        [] op \in Connectives                 -> Giving(each(Bool), Bool)
        [] op = "union"                       -> same

\* The type of the elements of a quantifier's domain.
ElementOf(r) ==
  LET fresh == Var(r.g)
      of(t) == IF t.op = "[]" THEN [r EXCEPT !.ty = t.args[1]]
               ELSE IF IsVar(t) THEN Binding([r EXCEPT !.ty = fresh, !.g = r.g + 1], t.v :> List(fresh))
               ELSE Failed(r.s, r.g)
  IN  IF r.ok THEN of(Apply(r.s, r.ty)) ELSE r

\* Field i of a tuple.
FieldOf(r, i) ==
  IF ~r.ok \/ (r.ty.op = "()" /\ i \in DOMAIN r.ty.args) THEN Giving(r, r.ty.args[i])
  ELSE Failed(r.s, r.g)

Infer(e, env, s, g) ==
  LET in(i, r, en) == IF r.ok THEN Infer(e.es[i], en, r.s, r.g) ELSE r
      start == Got(Tuple(<<>>), s, g)
      first == in(1, start, env)
      known == e.n \in DOMAIN env
      of(inst) == Got(inst.ty, s, inst.g)
      call(f) ==
        IF IsFun(f.ty) /\ Len(Params(f.ty)) = Len(e.es)
        THEN Giving(InferCall(e.n, f.ty, e.es, 1, env, f), Returns(f.ty)) ELSE Failed(s, f.g)
      bin(a, b) == IF b.ok THEN InferBin(e.n, a, b) ELSE b
      operate(a) == bin(a, in(2, a, env))
      quantify(elem) ==
        Giving(Expect(in(2, elem, (e.n :> Mono(elem.ty)) @@ env), Bool), Bool)
      branch(a, b) == IF b.ok THEN Expect([b EXCEPT !.ty = a.ty], Apply(b.s, b.ty)) ELSE b
      branches(a) == branch(a, in(3, a, env))
      under(a) == in(2, a, (e.n :> Mono(Apply(a.s, a.ty))) @@ env)
  IN  Settled(
        CASE e.k = "lit"   -> Got(Base(e.n), s, g)
          [] e.k = "var"   -> IF known THEN of(Instantiate(env[e.n], g)) ELSE Failed(s, g)
          [] e.k = "field" -> FieldOf(Settled(first), Index(e.n))
          [] e.k = "call"  -> IF known THEN call(of(Instantiate(env[e.n], g))) ELSE Failed(s, g)
          [] e.k = "bin"   -> operate(first)
          [] e.k = "not"   -> Expect(first, Bool)
          [] e.k = "quant" -> quantify(ElementOf(first))
          [] e.k = "if"    -> branches(in(2, Expect(first, Bool), env))
          [] e.k = "let"   -> under(first)
          [] e.k = "tuple" -> InferParts(e.es, env, start))

\* A predicate must be a Bool; what was bound before an error stays bound.  Where
\* the inference met a cyclic substitution the stack overflows instead.
InferBool(e, env, s, g) ==
  LET r == Infer(e, env, s, g)
      u == Unify(r.ty, Bool)
      loops == Cyclic(r.s)
      fine == r.ok /\ u.ok
  IN  [ok |-> fine, loops |-> loops, g |-> r.g,
       s |-> IF fine /\ ~loops THEN Compose(u.s, r.s) ELSE r.s]
=============================================================================
