----------------------------- MODULE Encoding -----------------------------
(***************************************************************************)
(* The script crates/apsl-smt sends a solver for a node (encode.rs): the   *)
(* negation of "the preconditions imply the postconditions".  An SMT term  *)
(* is [k, n, es], as an expression of Complexity is.  What terms and what  *)
(* expressions say is defined beside it, so that the two can be compared.  *)
(***************************************************************************)
EXTENDS Integers, Sequences, FiniteSets, TLC

Term(k, n, es) == [k |-> k, n |-> n, es |-> es]
Sym(n)     == Term("sym", n, <<>>)
App(f, es) == Term("app", f, es)

\* The names quantifiers give their indices: a bound of four in a clause.
Index == <<"i1", "i2", "i3", "i4">>

Known == [valid_email |-> "valid_email_p", unique |-> "unique_p", subseteq |-> "subseteq_p"]
\* The calls encode_expr knows, with the number of arguments it knows them by.
Handled == [len |-> 1, valid_email |-> 1, unique |-> 1, subseteq |-> 2, every |-> 2, some |-> 2]
Handles(e) == e.n \in DOMAIN Handled /\ Len(e.es) = Handled[e.n]

\* What a list predicate applies: a name; anything else is no function of the script.
PredHead(e) ==
  IF e.k # "var" THEN "not a name" ELSE IF e.n \in DOMAIN Known THEN Known[e.n] ELSE e.n

InRange(i, dom) ==
  App("and", <<App("<=", <<Term("lit", "zero", <<>>), Sym(i)>>), App("<", <<Sym(i), App("len_v", <<dom>>)>>)>>)
Nth(dom, i) == App("nth_v", <<dom, Sym(i)>>)

\* every and some call their index i, whatever the names around them.
EncodeCall(e, ts) ==
  LET body == App(PredHead(e.es[2]), <<Nth(ts[1], "i")>>)
  IN  IF ~Handles(e) THEN App(e.n, ts)
      ELSE CASE e.n = "len"   -> App("len_v", ts)
             [] e.n = "every" -> Term("forall", "i", <<App("=>", <<InRange("i", ts[1]), body>>)>>)
             [] e.n = "some"  -> Term("exists", "i", <<App("and", <<InRange("i", ts[1]), body>>)>>)
             [] OTHER         -> App(Known[e.n], ts)

\* Both quantifiers: an index, guarded by an implication.
EncodeQuant(e, i, ts) ==
  Term(e.k, i, <<App("=>", <<InRange(i, ts[1]), Term("let", e.n, <<Nth(ts[1], i), ts[2]>>)>>)>>)

Quantified(e) == e.k \in {"forall", "exists"}

\* An encoding is [t, fresh]: the term, and how many indices were named so far.
RECURSIVE Encode(_, _), EncodeAll(_, _)
EncodeAll(es, fresh) ==
  IF es = <<>> THEN [ts |-> <<>>, fresh |-> fresh]
  ELSE LET first == Encode(es[1], fresh)
           rest  == EncodeAll(Tail(es), first.fresh)
       IN  [ts |-> <<first.t>> \o rest.ts, fresh |-> rest.fresh]

Encode(e, fresh) ==
  LET parts == EncodeAll(e.es, IF Quantified(e) THEN fresh + 1 ELSE fresh)
      ts    == parts.ts
      term  == CASE e.k = "lit"   -> e
                 [] e.k = "var"   -> Sym(e.n)
                 [] e.k = "field" -> App("field_" \o e.n, ts)
                 [] e.k = "call"  -> EncodeCall(e, ts)
                 [] e.k \in {"bin", "not"} -> App(e.n, ts)
                 [] e.k \in {"forall", "exists"} -> EncodeQuant(e, Index[fresh + 1], ts)
                 [] e.k = "if"    -> App("ite", ts)
                 [] e.k = "let"   -> Term("let", e.n, ts)
                 [] e.k = "tuple" -> App("tuple", ts)
  IN  [t |-> term, fresh |-> parts.fresh]

\* Mutant: each clause replaces the conjunction of those before it.
ConjunctionOfLast(clauses) ==
  IF clauses = <<>> THEN Term("lit", "true", <<>>)
  ELSE App("and", <<Term("lit", "true", <<>>), Encode(clauses[Len(clauses)], 0).t>>)

\* Each clause starts numbering anew.
Conjunction(clauses) ==
  LET upTo[n \in 0..Len(clauses)] ==
        IF n = 0 THEN Term("lit", "true", <<>>)
        ELSE App("and", <<upTo[n - 1], Encode(clauses[n], 0).t>>)
  IN  upTo[Len(clauses)]

EncodeVc(node) == App("=>", <<Conjunction(node.pre), Conjunction(node.post)>>)

ParamNames(node) == {node.params[i].name : i \in DOMAIN node.params}
Declared(node)   == {"in", "out"} \cup ParamNames(node)

----------------------------------------------------------------------------
(* Sorts.  A list and an element are both a Value; a field is an Int.      *)

SortNames == {"Value", "Int", "Bool"}
Signatures ==
  {<<f, <<"Value">>, "Bool">> : f \in {"valid_email_p", "unique_p"}}
    \cup {<<f, <<"Value", "Value">>, "Bool">> : f \in {"subseteq_p", "subset_p"}}
    \cup {<<f, <<"Value", "Value">>, "Value">> : f \in {"union_p", "intersect_p"}}
    \cup {<<"len_v", <<"Value">>, "Int">>, <<"nth_v", <<"Value", "Int">>, "Value">>}
    \cup {<<"field_" \o i, <<"Value">>, "Int">> : i \in {"0", "1", "2", "3", "4"}}
    \cup {<<"tuple", [i \in 1..n |-> "Value"], "Value">> : n \in 2..4}
    \cup {<<f, <<"Int", "Int">>, "Bool">> : f \in {"<", "<=", ">", ">="}}
    \cup {<<f, <<"Int", "Int">>, "Int">> : f \in {"+", "-", "*"}}
    \cup {<<f, <<"Bool", "Bool">>, "Bool">> : f \in {"and", "or", "=>"}} \cup {<<"not", <<"Bool">>, "Bool">>}
    \cup {<<f, <<s, s>>, "Bool">> : f \in {"=", "distinct"}, s \in SortNames}
    \cup {<<"ite", <<"Bool", s, s>>, s>> : s \in SortNames}

\* The sort of a term, {} if it has none.
RECURSIVE SortOf(_, _)
SortOf(t, scope) ==
  LET of(i) == SortOf(t.es[i], scope)
  IN  CASE t.k = "lit" -> IF t.n \in {"true", "false"} THEN {"Bool"} ELSE {"Int"}
        [] t.k = "sym" -> IF t.n \in DOMAIN scope THEN {scope[t.n]} ELSE {}
        [] t.k = "app" -> {s[3] : s \in {d \in Signatures :
                             /\ d[1] = t.n /\ Len(d[2]) = Len(t.es)
                             /\ \A i \in DOMAIN t.es : d[2][i] \in of(i)}}
        [] t.k \in {"forall", "exists"} -> SortOf(t.es[1], (t.n :> "Int") @@ scope) \cap {"Bool"}
        [] t.k = "let" -> UNION {SortOf(t.es[2], (t.n :> s) @@ scope) : s \in of(1)}

\* A script with an ill-sorted term, or a name declared twice, is answered with an error.
WellFormed(node) ==
  /\ "out" \notin ParamNames(node)
  /\ \A i, j \in DOMAIN node.params : node.params[i].name = node.params[j].name => i = j
  /\ SortOf(EncodeVc(node), [x \in Declared(node) |-> "Value"]) = {"Bool"}

----------------------------------------------------------------------------
(* What terms and expressions say, of lists of at most MaxLength elements. *)
(* The functions a script leaves uninterpreted get the meaning they have   *)
(* in the language; a solver must allow this interpretation among others.  *)

MaxLength == 2
Elements  == {"a", "b"}
Lists     == UNION {[1..n -> Elements] : n \in 0..MaxLength}
Pairs     == {<<x, y>> : x, y \in {0, 1}}
\* The indices a quantifier of the script ranges over: all that are in range, and one beside.
Indices   == -1..(MaxLength - 1)

Number == [zero |-> 0, one |-> 1]
Place  == [field_0 |-> 1, field_1 |-> 2]
Repeats(s)  == \E i, j \in DOMAIN s : i < j /\ s[i] = s[j]
Within(s, t) == \A i \in DOMAIN s : \E j \in DOMAIN t : s[i] = t[j]

\* A function or an operator of the script, of values vs.
Means(f, vs) ==
  CASE f = "len_v" -> Len(vs[1])
    [] f = "nth_v" -> vs[1][vs[2] + 1]
    [] f = "valid_email_p" -> vs[1] = "a"
    [] f = "unique_p" -> ~Repeats(vs[1])
    [] f = "subseteq_p" -> Within(vs[1], vs[2])
    [] f \in DOMAIN Place -> vs[1][Place[f]]
    [] f = "="  -> vs[1] = vs[2]
    [] f = "distinct" -> vs[1] # vs[2]
    [] f = "<"  -> vs[1] < vs[2]
    [] f = "<=" -> vs[1] <= vs[2]
    [] f = ">"  -> vs[1] > vs[2]
    [] f = ">=" -> vs[1] >= vs[2]
    [] f = "+"  -> vs[1] + vs[2]
    [] f = "-"  -> vs[1] - vs[2]
    [] f = "not" -> ~vs[1]

RECURSIVE ScriptSays(_, _)
ScriptSays(t, env) ==
  LET of(i) == ScriptSays(t.es[i], env)
      with(v) == (t.n :> v) @@ env
  IN  CASE t.k = "lit" /\ t.n \in DOMAIN Number -> Number[t.n]
        [] t.k = "lit" /\ t.n \notin DOMAIN Number -> t.n = "true"
        [] t.k = "sym" -> env[t.n]
        [] t.k = "forall" -> \A i \in Indices : ScriptSays(t.es[1], with(i))
        [] t.k = "exists" -> \E i \in Indices : ScriptSays(t.es[1], with(i))
        [] t.k = "let" -> ScriptSays(t.es[2], with(of(1)))
        [] t.k = "app" /\ t.n = "and" -> of(1) /\ of(2)
        [] t.k = "app" /\ t.n = "or"  -> of(1) \/ of(2)
        [] t.k = "app" /\ t.n = "=>"  -> of(1) => of(2)
        [] t.k = "app" /\ t.n = "ite" -> IF of(1) THEN of(2) ELSE of(3)
        [] t.k = "app" /\ t.n \notin {"and", "or", "=>", "ite"} -> Means(t.n, [i \in DOMAIN t.es |-> of(i)])

\* The language: its calls and operators mean what the functions above do.
Denotes == [len |-> "len_v"] @@ Known
RECURSIVE Says(_, _)
Says(e, env) ==
  LET of(i) == Says(e.es[i], env)
      sat(v) == Means(Denotes[e.es[2].n], <<v>>)
      with(v) == Says(e.es[2], (e.n :> v) @@ env)
      each == {of(1)[i] : i \in DOMAIN of(1)}
  IN  CASE e.k = "lit" /\ e.n \in DOMAIN Number -> Number[e.n]
        [] e.k = "lit" /\ e.n \notin DOMAIN Number -> e.n = "true"
        [] e.k = "var" -> env[e.n]
        [] e.k = "forall" -> \A v \in each : with(v)
        [] e.k = "exists" -> \E v \in each : with(v)
        [] e.k = "let" -> with(of(1))
        [] e.k = "if"  -> IF of(1) THEN of(2) ELSE of(3)
        [] e.k = "field" -> of(1)[Place["field_" \o e.n]]
        [] e.k = "call" /\ e.n = "every" -> \A v \in each : sat(v)
        [] e.k = "call" /\ e.n = "some"  -> \E v \in each : sat(v)
        [] e.k = "call" /\ e.n \in DOMAIN Denotes -> Means(Denotes[e.n], [i \in DOMAIN e.es |-> of(i)])
        [] e.k = "bin" /\ e.n = "and" -> of(1) /\ of(2)
        [] e.k = "bin" /\ e.n = "or"  -> of(1) \/ of(2)
        [] (e.k = "bin" /\ e.n \notin {"and", "or"}) \/ e.k = "not" -> Means(e.n, [i \in DOMAIN e.es |-> of(i)])

OfParam(p) == IF p.list THEN Lists ELSE Elements
OfReturn(node) ==
  IF node.ret = "list" THEN Lists ELSE IF node.ret = "pair" THEN Pairs ELSE Elements
Values(node, x) ==
  IF x = "out" THEN OfReturn(node)
  ELSE IF x = "in" THEN (IF Len(node.params) = 1 THEN OfParam(node.params[1]) ELSE {<<>>})
  ELSE OfParam(node.params[CHOOSE i \in DOMAIN node.params : node.params[i].name = x])

\* In a script in, out and the parameters have nothing to do with each other.
RECURSIVE Assignments(_, _)
Assignments(node, names) ==
  IF names = {} THEN {[x \in {} |-> 0]}
  ELSE LET x == CHOOSE x \in names : TRUE
       IN  {(x :> v) @@ env : v \in Values(node, x), env \in Assignments(node, names \ {x})}

\* What the solver may call unsatisfiable: the claim of the script never fails.
NeverFails(node) == \A env \in Assignments(node, Declared(node)) : ScriptSays(EncodeVc(node), env)

\* What a node promises: in is its one parameter.
Kept(clauses, env) == \A i \in DOMAIN clauses : Says(clauses[i], env)
ContractHolds(node) ==
  \A env \in Assignments(node, Declared(node)) :
    /\ Len(node.params) = 1 => env["in"] = env[node.params[1].name]
    /\ Kept(node.pre, env)
    => Kept(node.post, env)
=============================================================================
