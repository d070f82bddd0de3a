---------------------------- MODULE Complexity ----------------------------
(***************************************************************************)
(* The complexity prover, crates/apsl-complex: a cost is derived from a    *)
(* node's predicates, multiplied out into terms that give each size a      *)
(* weight, and compared with O(n log n) and with the declared cost.        *)
(*                                                                         *)
(* An expression is [k, n, es], its kind, a name and its parts; a cost is  *)
(* [k, n, es] as well.  The order of terms is never asked for: a sum of    *)
(* terms is a set.                                                         *)
(***************************************************************************)
EXTENDS Naturals, Sequences, FiniteSets, TLC

Cost(k, n, es) == [k |-> k, n |-> n, es |-> es]
Const   == Cost("const", "", <<>>)
Size(v) == Cost("size", v, <<>>)
NLogN(v) == Cost("nlogn", v, <<>>)
Sum(cs)  == Cost("sum", "", cs)
Prod(cs) == Cost("prod", "", cs)
Worst(cs) == Cost("max", "", cs)

\* Weights, in order: constant, log n, n, n log n, anything above.
WConst == 0
WLogN == 1
WSize == 2
WNLogN == 3
WPoly == 4
Weights == WConst..WPoly

\* Mutant: a size times a size is a size.
CombineMulFlat(a, b) ==
  IF a = WConst THEN b
  ELSE IF b = WConst THEN a
  ELSE IF a = b /\ a \in {WLogN, WSize} THEN a
  ELSE IF {a, b} = {WLogN, WSize} THEN WNLogN
  ELSE WPoly

CombineMul(a, b) ==
  IF a = WConst THEN b
  ELSE IF b = WConst THEN a
  ELSE IF a = WLogN /\ b = WLogN THEN WLogN
  ELSE IF {a, b} = {WLogN, WSize} THEN WNLogN
  ELSE WPoly

Factor(t, v) == IF v \in DOMAIN t THEN t[v] ELSE WConst
One == [v \in {} |-> WConst]
Mul(a, b) == [v \in DOMAIN a \cup DOMAIN b |-> CombineMul(Factor(a, v), Factor(b, v))]

RECURSIVE Normalize(_), Product(_)
Product(cs) ==
  IF cs = <<>> THEN {One}
  ELSE {Mul(a, b) : a \in Product(SubSeq(cs, 1, Len(cs) - 1)), b \in Normalize(cs[Len(cs)])}

Normalize(c) ==
  CASE c.k = "const" -> {One}
    [] c.k = "size"  -> {c.n :> WSize}
    [] c.k = "log"   -> {c.n :> WLogN}
    [] c.k = "nlogn" -> {c.n :> WNLogN}
    [] c.k \in {"sum", "max"} -> UNION {Normalize(c.es[i]) : i \in DOMAIN c.es}
    [] c.k = "prod"  -> Product(c.es)

WeightsOf(c) == {WConst} \cup UNION {{t[v] : v \in DOMAIN t} : t \in Normalize(c)}
DominantWeight(c) == CHOOSE w \in WeightsOf(c) : \A x \in WeightsOf(c) : x <= w
ExceedsNLogN(c)   == DominantWeight(c) > WNLogN

----------------------------------------------------------------------------
(* The derived cost.  sizes gives the names of lists their size variable.  *)

Sorts    == {"sort", "unique", "dedupe"}
Copies   == {"concat", "zip", "reverse"}

\* Of what size an argument is: only a name has one.
SizeOf(e, sizes) == IF e.k = "var" /\ e.n \in DOMAIN sizes THEN {sizes[e.n]} ELSE {}

\* c for every element of e, where e has a size.
Over(e, c, sizes) ==
  IF SizeOf(e, sizes) = {} THEN c
  ELSE Prod(<<Size(CHOOSE v \in SizeOf(e, sizes) : TRUE), c>>)

RECURSIVE CostOf(_, _), Intrinsic(_, _)
CostOf(e, sizes) ==
  LET of(i) == CostOf(e.es[i], sizes)
      parts == [i \in DOMAIN e.es |-> of(i)]
  IN  CASE e.k \in {"lit", "var"} -> Const
        [] e.k \in {"field", "not"} -> of(1)
        [] e.k = "call"  -> Sum(Append(parts, Intrinsic(e, sizes)))
        [] e.k \in {"bin", "let", "tuple"} -> Sum(parts)
        [] e.k \in {"forall", "exists"} -> Over(e.es[1], of(2), sizes)
        [] e.k = "if"    -> Sum(<<of(1), Worst(<<of(2), of(3)>>)>>)

\* What a call costs besides its arguments.
Intrinsic(e, sizes) ==
  LET arg(i)  == i \in DOMAIN e.es
      body(i) == IF arg(i) THEN CostOf(e.es[i], sizes) ELSE Const
      sorted(i) == IF arg(i) /\ SizeOf(e.es[i], sizes) # {}
                   THEN NLogN(CHOOSE v \in SizeOf(e.es[i], sizes) : TRUE) ELSE Const
      copied(i) == IF arg(i) THEN Over(e.es[i], Const, sizes) ELSE Const
      over(i, j) == IF arg(i) THEN Over(e.es[i], body(j), sizes) ELSE body(j)
  IN  CASE e.n \in {"every", "some", "count"} -> over(1, 2)
        [] e.n \in {"map", "filter"} -> over(2, 1)
        [] e.n = "fold" -> over(3, 1)
        [] e.n \in {"group_by", "sort_by"} ->
             IF arg(1) /\ SizeOf(e.es[1], sizes) # {} THEN Prod(<<sorted(1), body(2)>>) ELSE body(2)
        [] e.n \in Sorts -> sorted(1)
        [] e.n = "subseteq" -> Sum(<<sorted(1), sorted(2)>>)
        [] e.n \in Copies -> copied(1)
        [] OTHER -> Const

\* A node: params (name, list), ret ("list" if it returns one), pre, post, cx.
SizesFor(node) ==
  LET lists == {i \in DOMAIN node.params : node.params[i].list}
      named == [n \in {node.params[i].name : i \in lists} |-> n]
      in    == IF Len(node.params) = 1 /\ lists # {} THEN "in" :> node.params[1].name ELSE <<>>
      out   == IF node.ret = "list" THEN "out" :> "n_out" ELSE <<>>
  IN  out @@ in @@ named

DeriveNodeCost(node) ==
  LET preds == node.pre \o node.post
  IN  IF preds = <<>> THEN Const
      ELSE Sum([i \in DOMAIN preds |-> CostOf(preds[i], SizesFor(node))])

ProveNode(node) ==
  LET derived == DeriveNodeCost(node)
  IN  IF ExceedsNLogN(derived) THEN "exceeds"
      ELSE IF DominantWeight(derived) > DominantWeight(node.cx) THEN "mismatch" ELSE "ok"
=============================================================================
