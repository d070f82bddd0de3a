------------------------------ MODULE MCLint ------------------------------
(* Small programs for Lint: nodes of one or two parameters with predicates *)
(* over their lists, alone or two in a program.                            *)
EXTENDS Lint, Contracts

V(n)          == Term("var", n, <<>>)
Call(f, es)   == Term("call", f, es)
Bin(op, a, b) == Term("bin", op, <<a, b>>)
Lit(n)        == Term("lit", n, <<>>)
All(x, d, b)  == Term("forall", x, <<d, b>>)
Exists(x, d, b)  == Term("exists", x, <<d, b>>)
Let(x, d, b)  == Term("let", x, <<d, b>>)
If(c, a, b)   == Term("if", "", <<c, a, b>>)
Not(a)        == Term("not", "not", <<a>>)
LenOf(a)      == Call("len", <<a>>)
Valid(a)      == Call("valid_email", <<a>>)

X == V("x")
Y == V("y")

\* Of lists ls.
Simple(ls) ==
  {Call("unique", <<a>>) : a \in ls}
    \cup {Call("subseteq", <<a, b>>) : a, b \in ls}
    \cup {Call(f, <<a, V("valid_email")>>) : f \in {"every", "some"}, a \in ls}
    \cup {Bin("=", a, b) : a, b \in ls}
    \cup {Bin(op, LenOf(a), n) : op \in {"=", ">", "<="}, a \in ls, n \in {Lit("zero")} \cup {LenOf(b) : b \in ls}}

Nested(ls) ==
  {All("x", a, All("y", b, Bin("=", X, Y))) : a, b \in ls}
    \cup {All("x", a, Exists("y", b, Bin("=", X, Y))) : a, b \in ls}
    \cup {q : q \in UNION {{All("x", a, Valid(X)), Exists("x", a, Valid(X)), Not(Exists("x", a, Valid(X)))} : a \in ls}}
    \cup {All("x", a, If(Valid(X), p, Not(p))) : a \in ls, p \in {Call("unique", <<b>>) : b \in ls}}
    \cup {All("x", a, Call("every", <<b, V("valid_email")>>)) : a, b \in ls}
    \cup {Let("x", LenOf(a), All("y", b, Bin(">=", LenOf(b), X))) : a, b \in ls}
    \cup {Let("i1", Bin("-", Lit("zero"), Lit("one")), All("x", a, Bin(">=", V("i1"), Lit("zero")))) : a \in ls}
    \cup {Let(x, Lit("one"), Call("every", <<a, V("valid_email")>>)) : a \in ls, x \in {"x", "i"}}

\* A predicate no script can carry: a call of no name it knows, an Int parameter.
Foreign(ls) ==
  {Call("every", <<a, V("len")>>) : a \in ls} \cup {Bin("=", Call("dedupe", <<a>>), a) : a \in ls}
    \cup {All("x", Call("dedupe", <<a>>), Valid(X)) : a \in ls}

Costs == {Const, NLogN("a"), Size("a")}
Node(ps, r, pre, post, cx) == [params |-> ps, ret |-> r, pre |-> pre, post |-> post, cx |-> cx]
P(n, l) == [name |-> n, list |-> l]

One1   == <<P("a", TRUE)>>
ListsA == {V("in"), V("out")}
Named  == {V("in"), V("a"), V("out")}
Both   == {V("a"), V("b"), V("out")}

AllNodes ==
  LET pres == {<<>>} \cup {<<p>> : p \in Simple(ListsA)}
      posts == Simple(ListsA) \cup {Not(p) : p \in Simple({V("out")})}
      list(pre, post) == Node(One1, "list", pre, post, NLogN("a"))
  IN  {list(pre, <<p>>) : pre \in pres, p \in posts}
        \cup {Node(One1, "list", <<>>, <<p>>, c) : p \in Simple(Named) \cup Nested(Named) \cup Foreign(Named), c \in Costs}
        \cup {list(<<p>>, <<q>>) : p \in Nested({V("in")}), q \in Nested({V("in"), V("out")})}
        \cup {list(<<>>, <<p, q>>) : p \in Simple({V("out")}), q \in Simple({V("in")})}
        \cup {Node(<<P("a", TRUE), P("b", TRUE)>>, "list", <<>>, <<p>>, Size("a")) : p \in Simple(Both) \cup Nested(Both)}
        \cup {Node(One1, "element", <<>>, <<p>>, Const) :
                p \in {Valid(V("out")), Exists("x", V("a"), Bin("=", X, V("out"))), All("x", V("in"), Bin("=", X, V("out")))}}
        \cup {Node(<<P("a", FALSE)>>, "pair", <<>>, <<p>>, Const) :
                p \in {Bin(op, Term("field", f, <<V("out")>>), n) : op \in {"=", "<"}, f \in {"0", "1"},
                         n \in {Lit("zero"), Term("field", "0", <<V("out")>>)}}
                      \cup {Bin("=", Term("field", "0", <<V("out")>>), Lit("zero")), Valid(V("a"))}}

A(pre, post) == Node(One1, "list", pre, post, Const)
Pairs2 ==
  LET few == {A(<<>>, <<Lit("true")>>), A(<<>>, <<Lit("false")>>), A(<<Lit("false")>>, <<Lit("false")>>),
              A(<<>>, <<Call("unique", <<V("out")>>)>>),
              A(<<>>, <<All("x", V("in"), Call("every", <<V("a"), V("valid_email")>>))>>)}
  IN  {<<m, n>> : m, n \in few}

MCPrograms == {<<>>} \cup {<<n>> : n \in AllNodes} \cup Pairs2
=============================================================================
