------------------------------- MODULE Grammar -------------------------------
(***************************************************************************)
(* The grammar of crates/apsl-parse (parse.rs), rule by rule: which token  *)
(* decides, what is read, what is kept.  The parser descends from rule to  *)
(* rule and looks one token ahead; it returns to an earlier token in three *)
(* places: parameters that may be named, a quantifier's domain, a flow     *)
(* that may go on in the next line.  Parser says how a rule is followed.   *)
(***************************************************************************)
EXTENDS Layout

\* A rule: what to do, the tokens it looks for, its parts, a name.
G(op, s, gs, n) == [op |-> op, s |-> s, gs |-> gs, n |-> n]
Take(s)         == G("take", s, <<>>, "")         \* a token of s, kept
Skip(t)         == G("skip", {t}, <<>>, "")       \* this token, not kept
All(gs)         == G("all", {}, gs, "")           \* one after the other
On(s, g)        == G("on", s, <<g>>, "")          \* an alternative of Pick: g if a token of s is next
Else(g)         == G("else", {}, <<g>>, "")       \* the last alternative, if there is one
Pick(gs)        == G("pick", {}, gs, "")          \* the first alternative that applies
Until(s, g)     == G("until", s, <<g>>, "")       \* g again and again, until a token of s is next
Repeat(s, g)    == G("repeat", s, <<g>>, "")      \* g as long as a token of s is next and g reads any
Chain(n, g, s, h) == G("chain", s, <<g, h>>, n)   \* g, then tokens of s, each with an h: e.g. a - b - c
Once(n, g, s, h)  == G("once", s, <<g, h>>, n)    \* the same, with one such token at the most
Try(f, g, h)    == G("try", {}, <<f, g, h>>, "")  \* f and then g; h from where f began if f fails
Dots(b, g)      == G("dots", {}, <<g>>, b)        \* g with field access "on" or "off"
Make(n, g)      == G("make", {}, <<g>>, n)        \* the tree of kind n from what g keeps
Rule(n)         == G("rule", {}, <<>>, n)
Nothing         == All(<<>>)
Opt(s, g)       == Pick(<<On(s, g), Else(Nothing)>>)
Behind(t, g)    == All(<<Skip(t), g>>)
Commas(g)       == All(<<g, Repeat({","}, Behind(",", g))>>)
Parens(g)       == All(<<Skip("("), g, Skip(")")>>)
SkipNewlines    == Repeat({Newline}, Skip(Newline))
AnyName         == Idents \cup Capitals

----------------------------------------------------------------------------
TypeArgs  == Opt({"<"}, All(<<Skip("<"), Commas(Rule("type")), Skip(">")>>))
FieldRule == Make("field", All(<<Take(AnyName), Skip(":"), Rule("type")>>))
\* Fields between commas, or none.
RecordRule == Make("record", All(<<Skip("{"), Pick(<<On({"}"}, Nothing), Else(Commas(FieldRule))>>), Skip("}")>>))
TypeAtom ==
  Pick(<<On(AnyName, Make("named", All(<<Take(AnyName), TypeArgs>>))),
         On({"("}, Make("group", Parens(Commas(Rule("type"))))),
         On({"{"}, RecordRule)>>)
TypeRule == Chain("list", TypeAtom, {"[]"}, Nothing)

\* A name and a colon, or the type of a parameter without a name.
OneParam    == Make("param", Try(All(<<Take(Idents), Skip(":")>>), Rule("type"), Rule("type")))
NamedParams == All(<<Skip("("), Pick(<<On({")"}, Nothing), Else(Commas(OneParam))>>), Skip(")"), Skip("->"), Rule("type")>>)
PlainSig    == Make("plain_sig", All(<<Rule("type"), Skip("->"), Rule("type")>>))
TypeSig     == Pick(<<On({"("}, Try(Make("named_sig", NamedParams), Nothing, PlainSig)), Else(PlainSig)>>)

Supertypes == Behind("<:", Make("supers", Commas(Take(Capitals))))
\* A right-hand side may be left out behind supertypes.
AliasRule ==
  Make("alias", All(<<Skip("type"), Take(Capitals),
    Pick(<<On({"<:"}, All(<<Supertypes, Opt({"="}, Behind("=", Rule("type")))>>)), Else(Behind("=", Rule("type")))>>)>>))

Literals  == IntLits \cup RatLits \cup BoolLits \cup StrLits
LitRule   == Make("lit", Take(Literals))
StateDecl == Make("state", All(<<Take(AnyName), Skip(":"), Rule("type"), Opt({"="}, Behind("=", LitRule))>>))

----------------------------------------------------------------------------
RECURSIVE UpTo(_, _, _)
UpTo(n, s, g) == IF n = 0 THEN Nothing ELSE Opt(s, All(<<g, UpTo(n - 1, s, g)>>))

ArityTwo    == {"every", "some", "count", "map", "filter", "group_by", "sort_by", "subseteq?", "nth", "range", "concat", "zip"}
ArityThree  == {"fold"}
Combinators ==
  ArityTwo \cup ArityThree \cup Questions \cup {"sort", "len", "head", "tail", "dedupe", "reverse", "not"}
ArityOne    == Combinators \ (ArityTwo \cup ArityThree)

\* What a combinator may be applied to without parentheses: any identifier, a keyword too.
AtomStart    == AnyName \cup IntLits \cup {"("}
AtomForApply ==
  Pick(<<On(AnyName, Make("var", Take(AnyName))), On(IntLits, Make("lit", Take(IntLits))), On({"("}, Parens(Rule("expr")))>>)

\* The parenthesis is kept: it tells a call of no arguments from a name.
CallArgs == All(<<Take({"("}), Pick(<<On({")"}, Nothing), Else(Commas(Rule("expr")))>>), Skip(")")>>)
Applied(s, n) == Make("apply", All(<<Take(s), Pick(<<On({"("}, CallArgs), Else(UpTo(n, AtomStart, AtomForApply))>>)>>))

\* A domain is first read with field access, and a colon looked for behind it;
\* failing that, it is read again without, up to the point in front of the body.
Quantifier ==
  Make("quant", All(<<Take({"forall", "exists"}), Take(AnyName), Skip("in"),
    Try(All(<<Dots("on", Rule("expr")), Skip(":")>>), Rule("expr"),
        All(<<Dots("off", Rule("expr")), Skip("."), Rule("expr")>>))>>))
IfRule  == Make("if", All(<<Skip("if"), Rule("expr"), Skip("then"), Rule("expr"), Skip("else"), Rule("expr")>>))
LetRule == Make("let", All(<<Skip("let"), Take(AnyName), Skip("="), Rule("expr"), Skip("in"), Rule("expr")>>))

Primary ==
  Pick(<<On(Literals, LitRule),
         On({"("}, Make("group", Parens(Commas(Rule("expr"))))),
         On({"forall", "exists"}, Quantifier),
         On({"if"}, IfRule),
         On({"let"}, LetRule),
         On(ArityOne, Applied(ArityOne, 1)),
         On(ArityTwo, Applied(ArityTwo, 2)),
         On(ArityThree, Applied(ArityThree, 3)),
         On(Idents, Make("call", All(<<Take(Idents), Opt({"("}, CallArgs)>>))),
         On(Capitals, Make("var", Take(Capitals)))>>)

Comparisons == {"=", "!=", "<", "<=", ">", ">=", "subset", "union", "intersect"}
Postfix == Chain("access", Rule("primary"), {"."}, Take(Idents \cup IntLits))
Unary   == Pick(<<On({"-"}, Make("neg", Behind("-", Rule("postfix")))), Else(Rule("postfix"))>>)
MulExpr == Chain("bin", Rule("unary"), {"*", "/"}, Rule("unary"))
AddExpr == Chain("bin", Rule("mul"), {"+", "-"}, Rule("mul"))
CmpExpr == Once("bin", Rule("add"), Comparisons, Rule("add"))
NotExpr == Pick(<<On({"not"}, Make("not", Behind("not", Rule("cmp")))), Else(Rule("cmp"))>>)
AndExpr == Chain("bin", Rule("not"), {"and"}, Rule("not"))
OrExpr  == Chain("bin", Rule("and"), {"or"}, Rule("and"))
ImpliesExpr == Once("implies", Rule("or"), {"implies"}, Rule("expr"))
PredList    == Commas(Rule("expr"))

----------------------------------------------------------------------------
CxFactor ==
  Pick(<<On({"1"}, Make("const", Skip("1"))),
         On({"log"}, Make("logn", Behind("log", Take(AnyName)))),
         On({"max"}, Make("max", Behind("max", Parens(Commas(Rule("cx_expr")))))),
         On(Idents, Make("size", All(<<Take(Idents), Opt({"log"}, Behind("log", Take(AnyName)))>>)))>>)
CxTerm == Chain("prod", CxFactor, {"*"}, CxFactor)
CxExpr == Chain("sum", CxTerm, {"+"}, CxTerm)

\* Words between minus signs; a minus sign with no word behind it ends the class.
ClassTail    == Opt({"-"}, Behind("-", Opt(Idents, All(<<Take(Idents), Rule("class_tail")>>))))
RuntimeClass == Make("class", Opt({"idem", "anti"}, All(<<Take({"idem", "anti"}), ClassTail>>)))
CxSpec       == All(<<Skip("O"), Parens(Rule("cx_expr")), RuntimeClass>>)

Number == Take(IntLits \cup RatLits)
Units  == [ns |-> 1, us |-> 1000, ms |-> 1000000, s |-> 1000000000]
RatOrDuration ==
  Make("bound", All(<<Number, Repeat({"/"}, Behind("/", Number)), Opt(DOMAIN Units, Take(DOMAIN Units))>>))
SlaField == Make("sla_field", All(<<Take(AnyName), Opt({"<=", "="}, Take({"<=", "="})), RatOrDuration>>))
SlaSpec  == Opt(AnyName, All(<<SlaField, Opt({","}, Behind(",", Rule("sla")))>>))

\* Attributes need no commas between them, and the last one may have one behind it.
ViaValue == Take(AnyName \cup IntLits \cup StrLits)
ViaAttrs ==
  All(<<Opt({","}, Skip(",")),
        Opt(Idents, Try(All(<<Take(Idents), Skip("=")>>), All(<<ViaValue, Rule("via_attrs")>>), Nothing))>>)
ViaSpec  == All(<<Opt({"@"}, Skip("@")), Take({"statistical", "external"}), Rule("via_attrs")>>)

----------------------------------------------------------------------------
FlowStep == Make("step", Pick(<<On({"("}, Parens(Commas(Take(AnyName)))), Else(Take(AnyName))>>))
\* A step behind an arrow that begins a line; nothing if there is no arrow.
NextLine(indent, g) == Try(All(<<Skip(Newline), SkipNewlines, indent, Skip("->")>>), g, Nothing)
\* Steps behind arrows: in the same line, or what `next' finds in the next one.
Arrows(next) == Repeat({"->", Newline}, Pick(<<On({"->"}, Behind("->", FlowStep)), Else(next)>>))
\* A deeper block, which ends with the steps it gives.
Continuation ==
  NextLine(All(<<Skip(Indent), SkipNewlines>>),
           All(<<FlowStep, Arrows(NextLine(Nothing, FlowStep)), SkipNewlines, Opt({Dedent}, Skip(Dedent))>>))
FlowChain == Make("chain", All(<<FlowStep, Arrows(Continuation)>>))

Clause(n, g) == On({n}, Make(n, Behind(n, g)))
NodeClause ==
  Pick(<<Clause("pre", PredList), Clause("post", PredList), Clause("cx", CxSpec), Clause("sla", SlaSpec),
         Clause("via", ViaSpec),
         Clause("auth", Take({"none", "bearer", "session", "passkey"})),
         Clause("scope", Take({"any", "narrowing", "admitted"})),
         Clause("audit", Take({"none", "before", "after", "both"})),
         On({"state"}, Behind("state", StateDecl))>>)
GraphClause == Pick(<<Clause("post", PredList), On({"flow"}, Behind("flow", FlowChain))>>)

\* A block of clauses, or none; clauses need not be on lines of their own.
Block(clause) ==
  All(<<Skip(Newline), SkipNewlines,
    Opt({Indent}, All(<<Skip(Indent), SkipNewlines, Until({Dedent, Eof}, All(<<clause, SkipNewlines>>)),
                        Opt({Dedent}, Skip(Dedent))>>))>>)
Declaration(clause) == All(<<Take(AnyName), Skip(":"), TypeSig, Block(clause)>>)
NodeRule  == Make("node", Declaration(NodeClause))
GraphRule == Make("graph", Behind("graph", Declaration(GraphClause)))
DeclRule  == Pick(<<On({"type"}, AliasRule), On({"graph"}, GraphRule), On(AnyName, NodeRule)>>)
\* One turn of parse_program's loop.
NextDecl  == All(<<DeclRule, SkipNewlines>>)

\* The rules that others name.
Rules == [type |-> TypeRule, expr |-> ImpliesExpr, or |-> OrExpr, and |-> AndExpr, not |-> NotExpr, cmp |-> CmpExpr,
          add |-> AddExpr, mul |-> MulExpr, unary |-> Unary, postfix |-> Postfix, primary |-> Primary,
          cx_expr |-> CxExpr, class_tail |-> ClassTail,
          sla |-> SlaSpec, via_attrs |-> ViaAttrs]
=============================================================================
