----------------------------- MODULE Contracts -----------------------------
(***************************************************************************)
(* What the provers' answers are held against: how many steps the          *)
(* predicates of a node take, counted; and which ways to write a predicate *)
(* the properties of Lint speak of.  Whether a node keeps its contract is  *)
(* defined beside the encoding (ContractHolds).                            *)
(***************************************************************************)
EXTENDS Complexity, Encoding

\* Counting is on lists of given sizes, and takes n log n steps for a sort or a
\* test for duplicates.
Large == 256
LogOf(n) == IF n = Large THEN 8 ELSE 1
\* The constant a predicate of a program here stays below.
Factors == 16

\* The sizes when v is large and the rest are one; v names a parameter or out.
SizesWhen(node, v) ==
  LET one(x) == IF x = v \/ (x = "in" /\ Len(node.params) = 1 /\ node.params[1].name = v) THEN Large ELSE 1
  IN  [x \in Declared(node) |-> one(x)]

RECURSIVE Steps(_, _)
Steps(e, size) ==
  LET of(i) == Steps(e.es[i], size)
      n(i)  == IF e.es[i].k = "var" /\ e.es[i].n \in DOMAIN size THEN size[e.es[i].n] ELSE 1
      all[i \in 0..Len(e.es)] == IF i = 0 THEN 1 ELSE all[i - 1] + of(i)
  IN  CASE e.k \in {"forall", "exists"} -> n(1) * of(2)
        [] e.k = "call" /\ e.n \in {"every", "some"} -> n(1) * of(2)
        [] e.k = "call" /\ e.n \in {"unique", "dedupe"} -> n(1) * LogOf(n(1)) + of(1)
        [] e.k = "call" /\ e.n = "subseteq" -> n(1) * LogOf(n(1)) + n(2) * LogOf(n(2))
        [] OTHER -> all[Len(e.es)]

ListNames(node) ==
  {node.params[i].name : i \in {j \in DOMAIN node.params : node.params[j].list}}
    \cup (IF node.ret = "list" THEN {"out"} ELSE {})
TakesLong(node) ==
  LET preds == node.pre \o node.post
  IN  \E v \in ListNames(node), i \in DOMAIN preds :
        Steps(preds[i], SizesWhen(node, v)) > Factors * Large * LogOf(Large)

\* A predicate iterates over names alone: the size of anything else is not looked for.
RECURSIVE OverNames(_), Has(_, _)
OverNames(e) ==
  /\ \A i \in DOMAIN e.es : OverNames(e.es[i])
  /\ (Quantified(e) \/ (e.k = "call" /\ e.n \in {"every", "some", "unique", "dedupe", "subseteq"}))
       => e.es[1].k = "var"
Has(e, k) == e.k = k \/ \E i \in DOMAIN e.es : Has(e.es[i], k)
Everywhere(node, P(_)) ==
  (\A i \in DOMAIN node.pre : P(node.pre[i])) /\ (\A i \in DOMAIN node.post : P(node.post[i]))
CountedNode(node) == Everywhere(node, OverNames)

\* Nothing in a node is written with exists, or a let that takes an index's name.
NoExists(e) == ~Has(e, "exists")
RECURSIVE NamesAnIndex(_)
NamesAnIndex(e) ==
  \/ (e.k = "let" \/ Quantified(e)) /\ e.n \in {"i"} \cup {Index[i] : i \in DOMAIN Index}
  \/ \E i \in DOMAIN e.es : NamesAnIndex(e.es[i])
Plain(e) == NoExists(e) /\ ~NamesAnIndex(e)
PlainNode(node) == Everywhere(node, Plain)
=============================================================================
