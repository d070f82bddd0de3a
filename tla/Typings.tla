------------------------------- MODULE Typings -------------------------------
(***************************************************************************)
(* What is well typed, without inference: the types among Ground that an   *)
(* expression can have.  The reference for Inference.                      *)
(***************************************************************************)
EXTENDS Inference

CONSTANT Ground   \* the types without variables among which typings are sought

InstancesOf(scheme) ==
  {Apply(f, scheme.body) : f \in [{scheme.vars[i] : i \in DOMAIN scheme.vars} -> Ground]}

RECURSIVE Choices(_)
Choices(sets) ==
  IF sets = <<>> THEN {<<>>}
  ELSE {<<x>> \o rest : x \in Head(sets), rest \in Choices(Tail(sets))}

RECURSIVE TypesOf(_, _)
TypesOf(e, env) ==
  LET of(i)   == TypesOf(e.es[i], env)
      both    == of(1) \cap of(2)
      if(c, ts) == IF c THEN ts ELSE {}
  IN  CASE e.k = "lit"   -> {Base(e.n)}
        [] e.k = "var"   -> if(e.n \in DOMAIN env, InstancesOf(env[e.n]))
        [] e.k = "field" -> {t.args[Index(e.n)] : t \in
                               {t \in of(1) : t.op = "()" /\ Index(e.n) \in DOMAIN t.args}}
        [] e.k = "call"  ->
             if(e.n \in DOMAIN env,
                LET args == [i \in DOMAIN e.es |-> of(i)]
                    fits(f) == /\ IsFun(f) /\ Len(Params(f)) = Len(e.es)
                               /\ \A i \in DOMAIN e.es : Params(f)[i] \in args[i]
                IN  {Returns(f) : f \in {f \in InstancesOf(env[e.n]) : fits(f)}})
        [] e.k = "bin"   ->
             if(e.n \in Comparisons \cup {"subset"} /\ both # {}, {Bool})
               \cup if(e.n \in Arithmetic, both \cap {Intt})
               \cup if(e.n \in Connectives, both \cap {Bool})
               \cup if(e.n = "union", both)
        [] e.k = "not"   -> of(1) \cap {Bool}
        [] e.k = "quant" ->
             if(\E t \in of(1) : /\ t.op = "[]"
                                 /\ Bool \in TypesOf(e.es[2], (e.n :> Mono(t.args[1])) @@ env),
                {Bool})
        [] e.k = "if"    -> if(Bool \in of(1), of(2) \cap of(3))
        [] e.k = "let"   -> UNION {TypesOf(e.es[2], (e.n :> Mono(t)) @@ env) : t \in of(1)}
        [] e.k = "tuple" -> {Tuple(ts) : ts \in Choices([i \in DOMAIN e.es |-> of(i)])}

TypesAsBool(e, env) == Bool \in TypesOf(e, env)

RECURSIVE Mentions(_, _)
Mentions(e, names) ==
  (e.k \in {"var", "call"} /\ e.n \in names) \/ \E i \in DOMAIN e.es : Mentions(e.es[i], names)

RECURSIVE Plain(_, _)
\* No argument of a call after its first, other than a bare name, mentions a
\* name of open: the names whose type inference has yet to find, which only
\* a let or a quantifier over nil() can bind.
Plain(e, open) ==
  LET binds == e.k \in {"let", "quant"} /\ Mentions(e.es[1], open \cup {"nil"})
      inner == IF binds THEN open \cup {e.n} ELSE open
  IN  /\ e.k = "call" => \A i \in DOMAIN e.es \ {1} : e.es[i].k = "var" \/ ~Mentions(e.es[i], open)
      /\ \A i \in DOMAIN e.es : Plain(e.es[i], IF i = 1 THEN open ELSE inner)

PlainPredicate(e) == Plain(e, {})
=============================================================================
