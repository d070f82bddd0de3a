------------------------------ MODULE Written ------------------------------
(***************************************************************************)
(* How a program may be written: the lines of a text for a program, in a   *)
(* style.  This is no code of the repository; it is what Layout and Parser *)
(* are checked against: a text says what it was written from, whichever    *)
(* of the ways to write it is taken.  A style is a set of these:           *)
(*   "parens"  around every operand        "glyphs"   for ASCII spellings  *)
(*   "words"   combinators without parens  "implies"  for not ... or       *)
(*   "dots"    in front of a body          "joined"   clauses of one name  *)
(*   "plain"   no names and no parens that say nothing                     *)
(*   "folded"  flows over several lines    "wrapped"  parens over lines    *)
(*   "blank"   lines    "comments"         "crlf"     line ends            *)
(*   "deep"    indentation                 "foreign"  clauses, unknown     *)
(***************************************************************************)
EXTENDS Parser

\* Sequences of lexemes between separators, and in brackets.
Between(sep, s) == FlattenSeq([i \in DOMAIN s |-> (IF i = 1 THEN <<>> ELSE <<sep>>) \o s[i]])
Listing(s)      == Between(",", s)
Group(s)        == <<"(">> \o s \o <<")">>

RECURSIVE TypeText(_)
TypeText(t) ==
  LET args == [i \in DOMAIN t.a |-> IF t.k = "record" THEN <<t.a[i].n, ":">> \o TypeText(t.a[i].a[1]) ELSE TypeText(t.a[i])]
  IN  CASE t.k = "base"   -> <<t.n>>
        [] t.k = "param"  -> <<t.n, "<">> \o Listing(args) \o <<">">>
        [] t.k = "list"   -> args[1] \o <<"[]">>
        [] t.k = "tuple"  -> Group(Listing(args))
        [] t.k = "record" -> <<"{">> \o Listing(args) \o <<"}">>

SigText(d, style) ==
  LET plain == "plain" \in style /\ \A i \in DOMAIN d.params : d.params[i].n = Unnamed(i)
      param(q) == (IF plain THEN <<>> ELSE <<q.n, ":">>) \o TypeText(q.t)
      params == Listing([i \in DOMAIN d.params |-> param(d.params[i])])
      bare == plain /\ Len(d.params) = 1 /\ d.params[1].t.k # "tuple"
  IN  (IF bare THEN params ELSE Group(params)) \o <<"->">> \o TypeText(d.ret)

LitText(l) == IF l.k = "rat" THEN <<CHOOSE n \in RatLits : RatName(RatOf(n)) = l.n>> ELSE <<l.n>>

----------------------------------------------------------------------------
\* How tightly an operator binds, loosest first.
Binds(e) ==
  CASE e.k \in {"if", "let", "forall", "exists"} -> 0
    [] e.k = "bin" /\ e.n = "or"          -> 1
    [] e.k = "bin" /\ e.n = "and"         -> 2
    [] e.k = "un" /\ e.n = "not"          -> 3
    [] e.k = "bin" /\ e.n \in Comparisons -> 4
    [] e.k = "bin" /\ e.n \in {"+", "-"}  -> 5
    [] e.k = "bin" /\ e.n \in {"*", "/"}  -> 6
    [] e.k = "un" /\ e.n = "neg"          -> 7
    [] e.k = "field"                      -> 8
    [] OTHER                              -> 9
\* How tightly the operand on the left must bind: a comparison has no other beside it.
LeftOf(e) == IF Binds(e) = 4 THEN 5 ELSE Binds(e)
IsAtom(e) == e.k \in {"var", "int"}

RECURSIVE ExprText(_, _, _)
ExprText(e, tight, style) ==
  LET at(i, n) == ExprText(e.a[i], n, style)
      args  == Listing([i \in DOMAIN e.a |-> at(i, 0)])
      implies == "implies" \in style /\ e.k = "bin" /\ e.n = "or" /\ e.a[1].k = "un" /\ e.a[1].n = "not"
      \* A point in front of a fraction would make fields of it.
      dots  == "dots" \in style /\ e.k \in {"forall", "exists"} /\ e.a[1].k = "var" /\ at(2, 0)[1] \notin RatLits
      words == "words" \in style /\ e.k = "apply" /\ e.n \in Combinators /\ \A i \in DOMAIN e.a : IsAtom(e.a[i])
      text  ==
        CASE implies        -> ExprText(e.a[1].a[1], 1, style) \o <<"implies">> \o at(2, 0)
          [] words          -> <<e.n>> \o FlattenSeq([i \in DOMAIN e.a |-> at(i, 9)])
          [] e.k = "var"    -> <<e.n>>
          [] e.k = "field"  -> at(1, 8) \o <<".", e.n>>
          [] e.k = "apply" /\ ~words -> <<e.n>> \o Group(args)
          [] e.k = "tuple"  -> Group(args)
          [] e.k = "un" /\ e.n = "neg" -> <<"-">> \o at(1, 8)
          [] e.k = "un" /\ e.n = "not" -> <<"not">> \o at(1, 4)
          [] e.k = "bin" /\ ~implies -> at(1, LeftOf(e)) \o <<e.n>> \o at(2, Binds(e) + 1)
          [] e.k \in {"forall", "exists"} -> <<e.k, e.n, "in">> \o at(1, 1) \o <<IF dots THEN "." ELSE ":">> \o at(2, 0)
          [] e.k = "if"     -> <<"if">> \o at(1, 0) \o <<"then">> \o at(2, 0) \o <<"else">> \o at(3, 0)
          [] e.k = "let"    -> <<"let", e.n, "=">> \o at(1, 0) \o <<"in">> \o at(2, 0)
          [] e.k \in {"int", "rat", "bool", "str"} -> LitText(e)
      low   == IF implies THEN 0 ELSE Binds(e)
  IN  IF low < tight \/ ("parens" \in style /\ tight > 0) THEN Group(text) ELSE text

RECURSIVE CostText(_)
CostText(c) ==
  LET args == [i \in DOMAIN c.a |-> CostText(c.a[i])]
  IN  CASE c.k = "const" -> <<"1">>
        [] c.k = "size"  -> <<c.n>>
        [] c.k = "logn"  -> <<"log", c.n>>
        [] c.k = "nlogn" -> <<c.n, "log", c.n>>
        [] c.k = "sum"   -> Between("+", args)
        [] c.k = "prod"  -> Between("*", args)
        [] c.k = "max"   -> <<"max">> \o Group(Listing(args))
ClassText == [c \in {"idem", "idem-complex", "anti-idem"} |->
  CASE c = "idem" -> <<"idem">> [] c = "idem-complex" -> <<"idem", "-", "complex">> [] OTHER -> <<"anti", "-", "idem">>]

\* A number of nanoseconds, in some unit.
TimeText(t) ==
  LET x == CHOOSE y \in (IntLits \X DOMAIN Units) : Numerals[y[1]].num * Units[y[2]] = t IN <<x[1], x[2]>>
NumText(n)  == CHOOSE x \in IntLits : Numerals[x].num = n
RatText(r, style)  ==
  LET whole == {n \in RatLits : RatOf(n) = r}
  IN  IF "plain" \in style /\ whole # {} THEN <<CHOOSE n \in whole : TRUE>> ELSE <<NumText(r[1]), "/", NumText(r[2])>>
SlaText(sla, style) ==
  LET rel == IF "plain" \in style THEN <<>> ELSE <<"<=">>
  IN  <<"e">> \o rel \o RatText(sla.e, style) \o <<",", "T">> \o rel \o TimeText(sla.t) \o <<",", "d">> \o rel \o RatText(sla.d, style)
ViaText(via, style) ==
  (IF "plain" \in style THEN <<>> ELSE <<"@">>) \o <<via.tag>>
    \o FlattenSeq([i \in DOMAIN via.attrs |-> (IF "plain" \in style THEN <<>> ELSE <<",">>) \o <<via.attrs[i][1], "=", via.attrs[i][2]>>])

----------------------------------------------------------------------------
\* The lines of a clause.
PredLines(word, es, style) ==
  LET preds == [i \in DOMAIN es |-> ExprText(es[i], 0, style)]
  IN  CASE es = <<>>           -> <<>>
        [] "joined" \in style  -> << <<word>> \o Listing(preds) >>
        [] OTHER               -> [i \in DOMAIN preds |-> <<word>> \o preds[i]]
WordLine(word, value, default) == IF value = default THEN <<>> ELSE << <<word, value>> >>
StateLines(d) ==
  [i \in DOMAIN d.state |->
    LET s == d.state[i]
    IN  <<"state", s.key, ":">> \o TypeText(s.t) \o (IF s.default = <<>> THEN <<>> ELSE <<"=">> \o LitText(s.default[1]))]
ForeignLines(style) == IF "foreign" \in style THEN << <<"owner", "(", "f", ")">> >> ELSE <<>>

NodeLines(d, style) ==
  PredLines("pre", d.pre, style) \o ForeignLines(style) \o PredLines("post", d.post, style)
    \o << <<"cx", "O">> \o Group(CostText(d.cx.o)) \o ClassText[d.cx.c] >>
    \o [i \in DOMAIN d.sla |-> <<"sla">> \o SlaText(d.sla[i], style)]
    \o [i \in DOMAIN d.via |-> <<"via">> \o ViaText(d.via[i], style)]
    \o WordLine("auth", d.auth, "none") \o WordLine("scope", d.scope, "any") \o WordLine("audit", d.audit, "none")
    \o StateLines(d)

StepText(step) == IF Len(step) = 1 THEN step ELSE Group(Between(",", [i \in DOMAIN step |-> <<step[i]>>]))

----------------------------------------------------------------------------
\* A line is [ind, items], as Layout has it.
Line(ind, items) == [ind |-> ind, items |-> items]
Width(style)     == IF "deep" \in style THEN 5 ELSE 2
Indented(lines, style) == [i \in DOMAIN lines |-> Line(Width(style), lines[i])]

FlowLines(chain, style) ==
  LET steps == [i \in DOMAIN chain |-> (IF i = 1 THEN <<"flow">> ELSE <<"->">>) \o StepText(chain[i])]
  IN  IF "folded" \in style
      THEN [i \in DOMAIN steps |-> Line(IF i = 1 THEN Width(style) ELSE 2 * Width(style), steps[i])]
      ELSE <<Line(Width(style), FlattenSeq(steps))>>

DeclLines(d, style) ==
  CASE d.k = "type" ->
         LET supers == IF d.supers = <<>> THEN <<>> ELSE <<"<:">> \o Listing([i \in DOMAIN d.supers |-> <<d.supers[i]>>])
             own == d.supers # <<>> /\ d.rhs = Term("base", d.name, <<>>)
         IN  <<Line(0, <<"type", d.name>> \o supers \o (IF own THEN <<>> ELSE <<"=">> \o TypeText(d.rhs)))>>
    [] d.k = "node" -> <<Line(0, <<d.name, ":">> \o SigText(d, style))>> \o Indented(NodeLines(d, style), style)
    [] d.k = "graph" ->
         <<Line(0, <<"graph", d.name, ":">> \o SigText(d, style))>> \o Indented(PredLines("post", d.post, style), style)
           \o FlattenSeq([i \in DOMAIN d.flow |-> FlowLines(d.flow[i], style)])

\* The parenthesis that the last one of a line closes.
Opening(items) ==
  LET open(i) == Cardinality({j \in i..Len(items) : items[j] = "("}) = Cardinality({j \in i..Len(items) : items[j] = ")"})
  IN  Max({i \in DOMAIN items : items[i] = "(" /\ open(i)})
\* Parentheses at the end of a line may go on in the next one, wherever that begins.
Wrapped(line) ==
  IF line.items = <<>> \/ Last(line.items) # ")" THEN <<line>>
  ELSE LET i == Opening(line.items)
       IN  <<Line(line.ind, SubSeq(line.items, 1, i)), Line(1, SubSeq(line.items, i + 1, Len(line.items)))>>

GlyphOf(s) == IF \E g \in DOMAIN Glyph : Glyph[g] = s THEN CHOOSE g \in DOMAIN Glyph : Glyph[g] = s ELSE s
Styled(line, style) ==
  LET glyphs  == IF "glyphs" \in style THEN [i \in DOMAIN line.items |-> GlyphOf(line.items[i])] ELSE line.items
      parts   == IF "wrapped" \in style THEN Wrapped([line EXCEPT !.items = glyphs]) ELSE <<[line EXCEPT !.items = glyphs]>>
      remarks == IF "comments" \in style THEN <<"#", "(", "none", "?">> ELSE <<>>
      ends    == IF "crlf" \in style THEN <<"\r">> ELSE <<>>
      above   == IF "comments" \in style THEN <<Line(3, <<"#", "flow">>)>> ELSE <<>>
      below   == IF "blank" \in style THEN <<Line(1, <<>>)>> ELSE <<>>
  IN  above \o [i \in DOMAIN parts |-> [parts[i] EXCEPT !.items = @ \o remarks \o ends]] \o below

Text(p, style) ==
  LET lines == FlattenSeq([i \in DOMAIN p |-> DeclLines(p[i], style)])
  IN  FlattenSeq([i \in DOMAIN lines |-> Styled(lines[i], style)])
=============================================================================
