----------------------------- MODULE MCCompiler -----------------------------
(* Small programs for Compiler, in families: each is about one part of the   *)
(* compiler and is called with the flags and written in the styles that      *)
(* concern it.                                                               *)
EXTENDS CompilerProperties

MCNames     == {"a", "f", "g", "h", "x", "y", "k", "owner", "in1"}
MCQuestions == {"unique?"}
MCTypeNames == {"A", "B", "C"}
Numeral(num, exp) == [num |-> num, exp |-> exp, whole |-> exp = 0, parts |-> <<>>]
MCNumerals  ==
  [n \in {"0", "1", "2", "0.1", "0.5"} |->
    CASE n = "0" -> [Numeral(0, 0) EXCEPT !.parts = <<"0">>]
      [] n = "1" -> [Numeral(1, 0) EXCEPT !.parts = <<"1">>]
      [] n = "2" -> [Numeral(2, 0) EXCEPT !.parts = <<"2">>]
      [] n = "0.1" -> [Numeral(1, -1) EXCEPT !.parts = <<"0", ".", "1">>]
      [] n = "0.5" -> [Numeral(5, -1) EXCEPT !.parts = <<"0", ".", "2">>]]
MCStrLits   == {"'s'"}

----------------------------------------------------------------------------
\* Declarations.
Base(n)    == Term("base", n, <<>>)
ListOf(t)  == Term("list", "", <<t>>)
Pair(t, u) == Term("tuple", "", <<t, u>>)
Of2(n, t)  == Term("param", n, <<t>>)
Rec(n, t)  == Term("record", "", <<Term("field", n, <<t>>)>>)
Type(n, t) == [k |-> "type", name |-> n, rhs |-> t, supers |-> <<>>]
Sub(n, supers, t) == [Type(n, t) EXCEPT !.supers = supers]
NodeD(n, ins, ret) ==
  [k |-> "node", name |-> n, params |-> [i \in DOMAIN ins |-> Param(Unnamed(i), ins[i])], ret |-> ret,
   pre |-> <<>>, post |-> <<>>, cx |-> [o |-> Term("const", "", <<>>), c |-> "idem"], sla |-> <<>>, via |-> <<>>,
   auth |-> "none", scope |-> "any", audit |-> "none", state |-> <<>>]
GraphD(n, flow) ==
  [k |-> "graph", name |-> n, params |-> <<Param("in", Base("A"))>>, ret |-> Base("A"), post |-> <<>>, flow |-> flow,
   state |-> <<>>]
State(key, t, default) == [k |-> "state", key |-> key, t |-> t, default |-> default]
V(n)     == Term("var", n, <<>>)
L(k, n)  == Term(k, n, <<>>)
Un(n, e) == Term("un", n, <<e>>)
Bin(n, a, b) == Term("bin", n, <<a, b>>)
Ap(n, es) == Term("apply", n, es)
Quant(k, s, b) == Term(k, "y", <<s, b>>)
Fld(e, n) == Term("field", n, <<e>>)

\* A file is a program and the style it is written in, or a text that is no program.
File(p, style) == [program |-> <<p>>, style |-> style, text |-> <<>>]
MCLines(file)  == IF file.program # <<>> THEN <<Text(file.program[1], file.style)>> ELSE file.text
MCMeant(file)  == file.program
Unreadable     == [program |-> <<>>, style |-> {}, text |-> <<>>]
Call(cmd, flags, file) == [cmd |-> cmd, flags |-> flags, file |-> <<file>>]
Parses(ps, styles) == {Call("parse", {"no-resolve"}, File(p, style)) : p \in ps, style \in styles}
Checks(flags, ps)  == {Call("check", {flag, "no-resolve"}, File(p, {})) : flag \in flags, p \in ps}

----------------------------------------------------------------------------
\* Expressions, and the styles they are written in.
Atoms == {V("x"), L("int", "1"), V("A")}
Small ==
  {Bin(o, V("x"), L("int", "2")) : o \in {"or", "and", "=", "-", "*"}}
    \cup {Un("not", V("x")), Un("neg", V("x")), Fld(V("x"), "k"), Ap("f", <<>>), Ap("len", <<V("x")>>),
          Ap("nth", <<V("x"), L("int", "1")>>), Quant("forall", V("x"), V("y")), L("rat", "1/2"), L("str", "'s'"),
          Term("if", "", <<V("x"), V("y"), V("k")>>), Term("let", "y", <<V("x"), V("y")>>),
          Term("tuple", "", <<V("x"), V("y")>>)}
Kinds == {V("x"), Bin("or", V("x"), V("k")), Bin("and", V("x"), V("y")), Bin("=", V("x"), V("y")), Bin("-", V("x"), V("y")),
          Bin("*", V("x"), L("int", "2")), Un("not", V("x")), Un("neg", V("x")), Quant("exists", V("x"), V("y"))}
Exprs ==
  Small \cup {Bin(o, a, b) : o \in {"or", "and", "<=", "-", "/"}, a, b \in Kinds}
    \cup {Un(o, a) : o \in {"not", "neg"}, a \in Small} \cup {Fld(a, n) : a \in Small, n \in {"k", "0"}}
    \cup {Ap("fold", <<a, V("A"), V("x")>>) : a \in Small} \cup {Ap("sort", <<a>>) : a \in Atoms}
    \cup {Quant("forall", a, V("y")) : a \in Small} \cup {Quant("exists", V("x"), a) : a \in Small}
    \cup {Bin("or", Un("not", a), Bin("or", Un("not", b), V("k"))) : a, b \in {V("x"), Un("not", V("y")), Bin("or", V("x"), V("y"))}}
    \cup {Bin("=", Bin("-", Bin("-", V("x"), V("y")), a), Bin("*", a, Bin("+", V("x"), V("k")))) : a \in Small}
ExprStyles ==
  {{}, {"parens"}, {"words"}, {"implies"}, {"dots", "glyphs"}, {"joined", "wrapped", "words"}}
\* Two expressions at a time, in clauses of their own.
ExprPrograms ==
  {<<[NodeD("f", <<Base("A")>>, Base("A")) EXCEPT !.pre = <<e, V("x")>>]>> : e \in Exprs}
ExprInputs == Parses(ExprPrograms, ExprStyles)

----------------------------------------------------------------------------
\* Types, signatures and every clause, in every style.
Costs ==
  {Term("const", "", <<>>), Term("size", "x", <<>>), Term("nlogn", "x", <<>>), Term("logn", "x", <<>>),
   Term("sum", "", <<Term("size", "x", <<>>), Term("nlogn", "x", <<>>), Term("const", "", <<>>)>>),
   Term("sum", "", <<Term("prod", "", <<Term("size", "x", <<>>), Term("logn", "k", <<>>)>>), Term("size", "k", <<>>)>>),
   Term("max", "", <<Term("size", "x", <<>>), Term("prod", "", <<Term("size", "x", <<>>), Term("size", "k", <<>>)>>)>>)}
Sla(e, d, t) == [k |-> "sla", e |-> e, d |-> d, t |-> t]
Via(tag, attrs) == [k |-> "via", tag |-> tag, attrs |-> attrs]
Full(d) ==
  {d} \cup {[d EXCEPT !.cx = [o |-> o, c |-> c]] : o \in Costs, c \in {"idem", "idem-complex", "anti-idem"}}
    \cup {[d EXCEPT !.sla = <<Sla(e, <<0, 1>>, t)>>] : e \in {<<0, 1>>, <<1, 2>>, <<2, 1>>}, t \in {0, 2, 1000000}}
    \cup {[d EXCEPT !.via = <<Via("external", a)>>] : a \in {<< <<"service", "x">> >>, << <<"service", "1">>, <<"holdout", "'s'">> >>,
                                                            << <<"a", "x">>, <<"service", "y">>, <<"a", "k">> >>}}
    \cup {[d EXCEPT !.auth = a] : a \in {"bearer", "passkey"}} \cup {[d EXCEPT !.scope = s] : s \in {"narrowing", "admitted"}}
    \cup {[d EXCEPT !.audit = a] : a \in {"before", "both"}}
    \cup {[d EXCEPT !.state = <<State("k", Base("A"), <<>>), State("x", ListOf(Base("Int")), <<L("int", "1")>>)>>]}
    \cup {[d EXCEPT !.pre = <<V("x"), V("y")>>, !.auth = "session", !.audit = "after", !.state = <<State("k", Rec("x", Base("A")), <<>>)>>]}
TypeTerms ==
  {Base("A"), ListOf(ListOf(Base("A"))), Pair(Base("A"), ListOf(Base("B"))), ListOf(Pair(Base("A"), Base("B"))),
   Of2("World", Base("A")), Rec("k", Pair(Base("A"), Base("B"))), Term("record", "", <<>>)}
Sigs == {NodeD("f", ins, t) : ins \in {<<>>} \cup {<<t>> : t \in TypeTerms} \cup {<<Base("A"), t>> : t \in TypeTerms}, t \in TypeTerms}
NamedSig == [NodeD("f", <<Base("A"), Pair(Base("A"), Base("A"))>>, Base("A")) EXCEPT !.params[1].n = "x"]
Chains ==
  {<< <<"in">>, <<"f">>, <<"out">> >>, << <<"in">>, <<"f", "g">>, <<"out">> >>, << <<"in">>, <<"f">>, <<"g">>, <<"f", "h">>, <<"out">> >>,
   << <<"f">> >>}
Posted(g) == [g EXCEPT !.post = <<V("x"), Bin("=", V("out"), V("in"))>>]
Styles ==
  {{}, {"plain"}, {"folded", "deep"}, {"blank", "comments", "glyphs"}, {"crlf"}, {"wrapped", "folded"},
   {"joined", "wrapped", "plain", "comments", "deep"}, {"crlf", "comments", "glyphs", "folded"}}
SyntaxPrograms ==
  {<<d, NodeD("g", <<Base("A")>>, Base("A"))>> : d \in Full(NodeD("f", <<Base("A")>>, Base("A"))) \cup {NamedSig}}
    \cup {<<d, Type("A", Base("A"))>> : d \in Sigs}
    \cup {<<NodeD("f", <<Base("A")>>, Base("A")), Posted(GraphD("h", <<c, b>>)), Type("A", Base("B"))>> : b, c \in Chains}
    \cup {<<Sub("A", s, t), Type("B", Base("A"))>> : s \in {<<"B">>, <<"B", "C">>}, t \in {Base("A"), ListOf(Base("B"))}}
SyntaxInputs == Parses(SyntaxPrograms, Styles)

----------------------------------------------------------------------------
\* Texts that are no programs, and arguments that are none.
Header == Line(0, <<"f", ":", "A", "->", "A">>)
With(items) == <<Header, Line(2, items)>>
WrongTexts ==
  {With(items) : items \in
     {<<"owner", "(", "f", ")">>, <<"scope", "*">>, <<"pre", "x", "=", "y", "=", "k">>, <<"pre", "?">>, <<"pre", "(", "x">>,
      <<"sla", "e", "<=", "1", "ms">>, <<"sla", "k", "1">>, <<"sla", "e", "1", "/", "0">>, <<"via", "external", "holdout", "=", "x">>,
      <<"cx", "O", "(", "x", "+", ")", "idem">>, <<"flow", "f", "->", "g">>, <<"pre", "if", "x", "then", "y">>}}
    \cup {<<Header, Line(2, <<"pre", "x">>), Line(1, <<"pre", "x">>)>>, <<Header, Line(2, <<"\t", "pre", "x">>)>>,
          <<Line(2, <<"type", "A", "=", "B">>)>>, <<Line(0, <<"type", "k", "=", "B">>)>>,
          <<Line(0, <<"f", ":", "(", "A">>), Line(2, <<")", "->", "A">>)>>,
          <<[Header EXCEPT !.items = Append(@, "\r")], Line(2, <<"pre", "x", "\r">>), Line(0, <<"\r">>), Line(2, <<"pre", "y", "\r">>)>>}
BadCalls ==
  {[cmd |-> c, flags |-> fs, file |-> f] :
     c \in {"help", "build", "check", "hash"}, fs \in {{}, {"strict"}, {"string-strct"}}, f \in {<<>>, <<Unreadable>>, <<File(<<>>, {})>>}}
WrongInputs == {Call("check", {"no-resolve"}, [Unreadable EXCEPT !.text = <<t>>]) : t \in WrongTexts} \cup BadCalls

\* Programs of an older form.
MigrateInputs ==
  {Call("parse", {"migrate", "no-resolve"}, File(p, style \cup extra)) :
    extra \in {{}, {"foreign"}}, style \in {{}, {"comments"}, {"folded"}, {"crlf"}, {"blank", "plain"}},
    p \in {<<Sub("A", s, t), [NodeD("f", <<Base("A")>>, Base("A")) EXCEPT !.pre = <<V("x")>>, !.post = <<V("y")>>, !.auth = "bearer"],
             GraphD("h", <<c>>)>> :
             s \in {<<>>, <<"B">>, <<"B", "C">>}, t \in {Base("A"), Base("B"), ListOf(Base("C"))}, c \in Chains}}

\* The same in layouts the parser reads: flows that go on with either arrow, and
\* parentheses that go on in the next line.
LayoutInputs ==
  {Call("parse", {"migrate", "no-resolve"},
        File(<<[NodeD("f", <<Base("A")>>, Base("A")) EXCEPT !.pre = <<e>>], GraphD("h", <<c>>)>>, style)) :
     style \in {{}, {"foreign"}, {"folded"}, {"wrapped"}, {"folded", "glyphs"}}, c \in Chains,
     e \in {V("x"), Ap("len", <<V("x")>>)}}

----------------------------------------------------------------------------
\* Raw strings wherever there may be one.
String    == Base("String")
IntType   == Base("Int")
Texts     == {String, Base("A"), ListOf(String), Pair(IntType, String), Of2("World", String), Rec("k", String), IntType}
Says      == {L("str", "'s'"), Ap("f", <<L("str", "'s'")>>), Quant("forall", V("x"), Bin("=", V("y"), L("str", "'s'"))), V("x")}
Plain(n)  == NodeD(n, <<IntType>>, IntType)
StringPrograms ==
  {<<Type("A", t), NodeD("f", <<IntType, u>>, IntType)>> : t, u \in Texts}
    \cup {<<NodeD("f", <<>>, t)>> : t \in Texts}
    \cup {<<[Plain("f") EXCEPT !.state = <<State("k", t, d)>>]>> : t \in Texts, d \in {<<>>, <<L("str", "'s'")>>, <<L("int", "1")>>}}
    \cup {<<[Plain("f") EXCEPT !.pre = <<V("x"), e>>]>> : e \in Says} \cup {<<[Plain("f") EXCEPT !.post = <<e>>]>> : e \in Says}
    \cup {<<[GraphD("g", <<>>) EXCEPT !.post = <<e>>, !.params[1].t = t]>> : e \in Says, t \in Texts}
\* Defaults behind aliases of aliases.
DefaultPrograms ==
  {<<Type("A", a), Type("B", b), Type("C", c), [Plain("f") EXCEPT !.state = <<State("k", Base("A"), <<l>>)>>]>> :
     a \in {String, Base("B"), Base("C"), ListOf(IntType)}, b \in {IntType, Base("A"), Base("C")},
     c \in {Base("A"), Base("B"), String}, l \in {L("int", "1"), L("str", "'s'")}}
    \cup {<<[Plain("f") EXCEPT !.state = <<State(k, IntType, <<>>), State("x", Base("A"), <<L("int", "1")>>), State("k", String, d)>>],
            Type("A", IntType), Type("A", a)>> :
            k \in {"y", "x", "k"}, d \in {<<>>, <<L("str", "'s'")>>, <<L("bool", "true")>>}, a \in {IntType, String}}
Structures == {IntType, ListOf(IntType), Base("A")}
StrictPrograms ==
  {<<Type("A", a), Type(n, b), Type("C", c)>> : a, b, c \in Structures, n \in {"B", "Int"}}
\* Aliases that lead to themselves, or to others that do.
CyclePrograms ==
  {<<Sub("A", <<"B">>, Base("A")), Type("B", b), NodeD("f", <<t>>, ListOf(t))>> :
     b \in {IntType, ListOf(Base("C")), Pair(IntType, Base("A"))}, t \in {IntType, Base("A"), Base("B"), Of2("A", IntType)}}
TypeInputs ==
  Checks({"string-strict", "state"}, DefaultPrograms) \cup Checks({"string-strict"}, StringPrograms)
    \cup Checks({"strict"}, StrictPrograms) \cup Checks({"nominal"}, CyclePrograms)

----------------------------------------------------------------------------
\* Capabilities and their narrowings; nodes in one part or more.
NominalPrograms ==
  {<<Sub("A", a, IntType), Sub("B", b, IntType), Sub("C", c, IntType), NodeD("f", <<>>, Base("A")), NodeD("h", <<IntType>>, Base("C")),
     NodeD("g", <<i, IntType>>, IntType), GraphD("x", << << <<"in">>, s, <<"g">>, <<"out">> >> >>)>> :
     a \in {<<>>, <<"B">>, <<"C", "B">>}, b \in {<<>>, <<"C">>, <<"A">>}, c \in {<<>>, <<"A">>},
     i \in {Base("C"), Base("B"), IntType}, s \in {<<"f">>, <<"f", "h">>}}
Parts3 == {<< <<"f">>, <<"g">> >>, << <<"g">>, <<"h">> >>, << <<"f", "k">>, <<"h">> >>, << <<"in">>, <<"f">>, <<"out">>, <<"g">> >>,
           << <<"h">> >>, << <<"x">>, <<"k">>, <<"h">>, <<"x">> >>}
RootedPrograms ==
  {<<Plain("f"), Plain("g"), Plain("h"), GraphD("y", <<a, b>>)>> : a, b \in Parts3}
    \cup {<<Plain("f"), Plain("g"), GraphD("x", << << <<"f">>, <<"g">> >> >>), NodeD("h", <<t>>, IntType), GraphD("y", << << <<"g">>, <<"h">> >> >>)>> :
            t \in {Base("World"), ListOf(Base("World")), Of2("World", Base("A")), Of2("World", Base("World")), Rec("k", Base("World"))}}
FlowInputs ==
  Checks({"nominal", "restricted"}, NominalPrograms) \cup Checks({"rooted"}, RootedPrograms)

----------------------------------------------------------------------------
\* Nodes that differ in a clause, or in names alone; flows through them.
F == [NodeD("f", <<IntType, String>>, IntType) EXCEPT !.state = <<State("k", IntType, <<>>)>>]
Variants ==
  {F, [F EXCEPT !.params[1].n = "x"], [F EXCEPT !.state[1].key = "x"], [F EXCEPT !.state[1].default = <<L("int", "1")>>],
   [F EXCEPT !.params[2].t = IntType], [F EXCEPT !.auth = "session"], [F EXCEPT !.audit = "both"], [F EXCEPT !.scope = "admitted"],
   [F EXCEPT !.pre = <<L("bool", "true")>>], [F EXCEPT !.post = <<L("bool", "true")>>], [F EXCEPT !.cx.c = "anti-idem"],
   [F EXCEPT !.sla = <<Sla(<<1, 2>>, <<0, 1>>, 2)>>],
   [F EXCEPT !.via = <<Via("external", << <<"service", "x">>, <<"a", "y">> >>)>>], [F EXCEPT !.via = <<Via("external", << <<"a", "y">>, <<"service", "x">> >>)>>],
   [F EXCEPT !.via = <<Via("external", << <<"service", "x">>, <<"a", "k">> >>)>>]}
PairPrograms == {<<d, [e EXCEPT !.name = "g"]>> : d, e \in Variants}
Steps ==
  {<< <<"in">>, <<"f">>, <<"g">>, <<"out">> >>, << <<"in">>, <<"g">>, <<"f">>, <<"out">> >>, << <<"f">>, <<"h">>, <<"f">> >>,
   << <<"g">>, <<"h">>, <<"f">> >>, << <<"in">>, <<"f", "h">>, <<"g", "f">> >>, << <<"g">>, <<"f">>, <<"g">> >>}
FlowNodes == <<F, [F EXCEPT !.name = "g"], [NodeD("h", <<IntType>>, IntType) EXCEPT !.state = <<State("x", String, <<>>), State("k", IntType, <<L("int", "1")>>)>>]>>
FlowPrograms ==
  {FlowNodes \o <<GraphD("x", <<a>>), GraphD("y", <<b, c>>)>> : a, b, c \in Steps}
    \cup {<<F, Type("A", IntType), GraphD(n, << << <<"f">>, <<m>> >> >>)>> : n \in {"f", "g"}, m \in {"sort", "out"}}
CompileInputs ==
  {Call("compile", {"no-resolve", "state"}, File(p, {})) : p \in PairPrograms \cup FlowPrograms}
    \cup {Call(c, fs, File(<<Type("C", ListOf(IntType)), F>>, {})) : c \in {"parse", "hash", "check", "compile"}, fs \in {{}, {"strict", "string-strict"}}}

MCInputs == ExprInputs \cup SyntaxInputs \cup WrongInputs \cup MigrateInputs \cup TypeInputs \cup FlowInputs \cup CompileInputs
MCLibrary == {<<>>, <<Type("C", IntType)>>}
=============================================================================
