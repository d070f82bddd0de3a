---------------------------- MODULE MCTypeCheck ----------------------------
(* Small programs for TypeCheck: one node with a predicate or two, or one   *)
(* graph over a few nodes.                                                  *)
EXTENDS TypeCheck, Typings

MCGround ==
  LET pair(a, b) == Tuple(<<a, b>>)
      plain == {Intt, String, Bool, pair(String, List(Intt)), pair(Intt, String)}
      lists(S) == S \cup {List(t) : t \in S}
  IN  lists(lists(lists(plain)))

E(k, n, es) == [k |-> k, n |-> n, es |-> es]
V(n)        == E("var", n, <<>>)
Call(f, es) == E("call", f, es)
Bin(op, a, b) == E("bin", op, <<a, b>>)
Let(x, a, b) == E("let", x, <<a, b>>)
All(x, a, b) == E("quant", x, <<a, b>>)
If(a, b)    == E("if", "", <<Bin("=", a, a), a, b>>)

Atoms == {V("in"), V("out"), E("lit", "Int", <<>>), Call("nil", <<>>)}

\* in is an Int[], out a pair of a String and an Int[].
Calls(S) ==
  {Call(f, <<a>>) : f \in {"len", "dedupe", "head"}, a \in S}
    \cup {Call(f, <<a, b>>) : f \in {"cons", "concat"}, a, b \in S}
    \cup {Bin(op, a, b) : op \in {"=", "+", "union"}, a, b \in S}
    \cup {E("field", i, <<a>>) : i \in {"0", "1", "2"}, a \in S}
    \cup {If(a, b) : a, b \in S}
    \cup {Call("map", <<V("len"), a>>) : a \in S}
    \cup {Call("every", <<a, V(f)>>) : f \in {"valid_email", "len", "p"}, a \in S}
Few(S) ==
  {Call("len", <<a>>) : a \in S} \cup {Call("cons", <<a, b>>) : a, b \in S}
    \cup {Bin("=", a, b) : a, b \in S}

X == V("x")
Bodies == {Call(f, <<a, b>>) : f \in {"cons", "concat"}, a, b \in {X, V("in"), Call("nil", <<>>)}}
Text == Call("cons", <<E("lit", "String", <<>>), Call("nil", <<>>)>>)
\* The second argument of concat finds x to be an Int[] and yields a String[].
TwoTypes ==
  Let("x", Call("nil", <<>>),
      Bin("=", Call("concat", <<X, E("if", "", <<Bin("=", X, V("in")), Text, Text>>)>>), V("in")))
\* The second argument of concat, y, finds x to be a list of what y is.
Knot ==
  Let("x", Call("nil", <<>>), Let("y", Call("nil", <<>>),
      Bin("=", X, Call("concat", <<X,
        E("if", "", <<Bin("=", X, Call("cons", <<V("y"), Call("nil", <<>>)>>)), V("y"), V("y")>>)>>))))
Twice == All("x", Call("nil", <<>>), Bin("=", X, E("tuple", "", <<X, X>>)))

Predicates ==
  Calls(Atoms)
    \cup {Bin("=", a, b) : a, b \in Calls({V("in"), E("field", "0", <<V("out")>>)}) \cup Atoms}
    \cup {Let("x", a, Bin("=", b, c)) : a \in Atoms, b, c \in Bodies \cup {X}}
    \cup {All("x", a, Bin("=", b, c)) : a \in Atoms, b \in Few({X, V("in")}), c \in Few({X})}
    \cup {E("not", "", <<a>>) : a \in Few(Atoms)}
    \cup {E("tuple", "", <<a, b>>) : a, b \in {X, V("in")}}
    \cup {Bin("=", E("tuple", "", <<a, b>>), E("tuple", "", <<c, V("in")>>)) : a, b, c \in Atoms}
    \cup {Let("x", Call("nil", <<>>), Bin("=", E("tuple", "", <<X, X>>), E("tuple", "", <<a, b>>))) :
            a, b \in {V("in"), Text, X, Call("cons", <<X, X>>)}}
    \cup {TwoTypes, Knot, Twice}

Param(n, t) == [name |-> n, ty |-> t]
Node(n, ps, r, preds) == [name |-> n, params |-> ps, ret |-> r, preds |-> preds, flow |-> <<>>]
Graph(t, r, preds, flow) ==
  [name |-> "main", params |-> <<Param("a", t)>>, ret |-> r, preds |-> preds, flow |-> flow]

Aliases == [Email |-> String, Emails |-> List(Base("Email"))]

Probe(preds) == Node("p", <<Param("a", List(Intt))>>, Tuple(<<Base("Email"), List(Intt)>>), preds)

W == World(Base("Disk"))
Library ==
  <<Node("f", <<Param("a", Intt)>>, Base("Email"), <<>>),
    Node("g", <<Param("a", String)>>, Intt, <<>>),
    Node("h", <<Param("a", Intt), Param("b", String)>>, Intt, <<>>),
    Node("u", <<Param("a", Intt)>>, Tuple(<<W, Intt>>), <<>>),
    Node("v", <<Param("a", Intt)>>, Tuple(<<W, String>>), <<>>),
    Node("j", <<Param("w", W), Param("a", Intt), Param("b", String)>>, Intt, <<>>),
    Node("k", <<Param("a", Intt)>>, List(Intt), <<>>),
    Node("m", <<Param("a", Base("Emails"))>>, Base("Emails"), <<>>)>>

Ones == {<<n>> : n \in {"in", "out", "f", "g", "h", "j", "k", "m", "dedupe", "len", "nope"}}
Steps == Ones \cup {<<"in", "f">>, <<"u", "v">>, <<"f", "k">>, <<"dedupe", "nope">>}

Seqs(S, n) == UNION {[1..i -> S] : i \in 1..n}

Flows ==
  {<<ch>> : ch \in Seqs(Steps, 3)}
    \cup {<<a, b>> : a, b \in Seqs({<<"in">>, <<"k">>, <<"dedupe">>, <<"in", "f">>, <<"out">>}, 2)}
    \cup {<<<<<<"in">>, <<"u">>>>, <<<<"in">>, <<"v">>>>, <<<<"u", "v">>, <<n>>, <<"out">>>>>> : n \in {"j", "h", "u"}}

MCPrograms ==
  {[aliases |-> Aliases, decls |-> <<Probe(<<p>>)>>] : p \in Predicates}
    \cup {[aliases |-> Aliases, decls |-> <<Probe(<<p, q>>)>>] :
            p \in {Let("x", Call("nil", <<>>), X), V("nope")}, q \in Calls({V("in")})}
    \cup {[aliases |-> Aliases, decls |-> Library \o <<Graph(Intt, Intt, <<>>, fl)>>] : fl \in Flows}
=============================================================================
