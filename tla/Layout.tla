------------------------------- MODULE Layout -------------------------------
(***************************************************************************)
(* The lexer of crates/apsl-parse (lex.rs): lexemes become tokens, and     *)
(* line breaks and indentation become the tokens Newline, Indent, Dedent.  *)
(*                                                                         *)
(* A line is [ind, items]: how many spaces it begins with, and its         *)
(* lexemes, each after the first behind one space.  A lexeme is the string *)
(* that spells it; how characters are grouped into lexemes is left out.    *)
(* A lexeme of no meaning ends the lexing, as a tab in the indentation     *)
(* does.  A line may end in a carriage return, "\r".                       *)
(***************************************************************************)
EXTENDS Integers, Sequences, SequencesExt

CONSTANTS
  Names,      \* identifiers a text may use that are no keyword
  Questions,  \* those of them that end in a question mark
  TypeNames,  \* identifiers that begin with a capital
  Numerals,   \* numbers: [num, exp, whole, parts] by spelling
  StrLits     \* string literals, by spelling

\* A line break, and the tokens it may become.
Break   == "\n"
Newline == "Newline"
Indent  == "Indent"
Dedent  == "Dedent"
Eof     == "Eof"

\* Characters beyond ASCII, by code point, each the token its ASCII spelling is.
Glyphs ==
  {<<"U+2192", "->">>, <<"U+21D2", "=>">>, <<"U+2200", "forall">>, <<"U+2203", "exists">>, <<"U+2208", "in">>,
   <<"U+2286", "subset">>, <<"U+222A", "union">>, <<"U+2229", "intersect">>, <<"U+2227", "and">>, <<"U+2228", "or">>,
   <<"U+00AC", "not">>, <<"U+2264", "<=">>, <<"U+2265", ">=">>, <<"U+2260", "!=">>, <<"U+03B5", "e">>,
   <<"U+03B4", "d">>}
Glyph == [g \in {r[1] : r \in Glyphs} |-> (CHOOSE r \in Glyphs : r[1] = g)[2]]

Symbols == {":", "->", "=>", ",", ".", "(", ")", "[", "]", "{", "}", "[]", ";", "@", "=", "!=",
            "<", "<=", "<:", ">", ">=", "+", "-", "*", "/"}

Keywords == {"type", "graph", "pre", "post", "cx", "sla", "via", "auth", "scope", "audit", "state", "flow",
             "none", "bearer", "session", "passkey", "any", "narrowing", "admitted", "before", "after", "both",
             "idem", "anti", "complex", "log", "max", "in", "out", "e", "d", "ms", "s", "us", "ns",
             "statistical", "external", "holdout", "service",
             "forall", "exists", "if", "then", "else", "let", "implies", "and", "or", "not",
             "subset", "union", "intersect",
             "every", "some", "count", "map", "filter", "fold", "sort_by", "group_by", "sort", "len", "head",
             "tail", "nth", "range", "dedupe", "concat", "reverse", "zip"}

BoolLits == {"true", "false"}
Idents   == Names \cup Questions \cup Keywords
Capitals == TypeNames \cup {"Int", "Rat", "Bool", "String", "World", "O", "T"}
IntLits  == {n \in DOMAIN Numerals : Numerals[n].whole}
RatLits  == DOMAIN Numerals \ IntLits

----------------------------------------------------------------------------
Gcd[a \in Nat, b \in Nat] == IF b = 0 THEN a ELSE Gcd[b, a % b]
Abs(n) == IF n < 0 THEN -n ELSE n

\* A fraction in lowest terms; zero over zero is left alone.
Reduce(p, q) ==
  LET g == Gcd[Abs(p), q]
  IN  IF g = 0 THEN <<p, q>> ELSE <<IF p < 0 THEN -(Abs(p) \div g) ELSE p \div g, q \div g>>

\* What a numeral stands for; i128 holds every number here.
RatOf(n) ==
  LET x == Numerals[n]
  IN  IF x.exp >= 0 THEN Reduce(x.num * 10^x.exp, 1) ELSE Reduce(x.num, 10^(-x.exp))

\* A numeral directly behind a point has no fraction: `x.0.1' are two fields.
NumberTokens(n, prev) == IF prev = "." THEN Numerals[n].parts ELSE <<n>>

Tokens(s, prev) ==
  CASE s \in DOMAIN Numerals -> NumberTokens(s, prev)
    [] s \in DOMAIN Glyph    -> <<Glyph[s]>>
    [] OTHER                 -> <<s>>

Lexemes == Symbols \cup DOMAIN Glyph \cup DOMAIN Numerals \cup BoolLits \cup StrLits \cup Idents \cup Capitals
Meaningful(s) == s \in Lexemes

\* What layout is about is no lexeme.
Marks == {Break, Newline, Indent, Dedent, Eof}
LayoutAssumption ==
  /\ Lexemes \cup Marks \subseteq STRING /\ Lexemes \cap Marks = {}
  /\ DOMAIN Numerals \cap DOMAIN Glyph = {}
  /\ \A n \in DOMAIN Numerals : Numerals[n].parts \in Seq(STRING) /\ ToSet(Numerals[n].parts) \cap Marks = {}
ASSUME LayoutAssumption

----------------------------------------------------------------------------
\* How far the lexer has come: the tokens so far, the widths of the open
\* blocks, the open parentheses, whether the next lexeme is taken for the first
\* of its line, the spaces before it, whether a comment has begun, an error.
Lexer == [out |-> <<>>, stack |-> <<0>>, depth |-> 0, start |-> TRUE, ind |-> 0, comment |-> FALSE, err |-> FALSE]

Emit(lx, ts) == [lx EXCEPT !.out = @ \o ts]

\* The open blocks that are no wider than the line is indented.
Open(lx) == SubSeq(lx.stack, 1, Max({i \in DOMAIN lx.stack : lx.stack[i] <= lx.ind}))

\* Mutant: a line that closes two blocks gives one Dedent.
CloseBlocksOnce(lx) ==
  [Emit(lx, <<Dedent>>) EXCEPT !.stack = Open(lx), !.err = Last(Open(lx)) # lx.ind]

\* As many Dedents as there are blocks wider than that.
CloseBlocks(lx) ==
  [Emit(lx, [i \in 1..(Len(lx.stack) - Len(Open(lx))) |-> Dedent]) EXCEPT !.stack = Open(lx), !.err = Last(Open(lx)) # lx.ind]

\* Mutant: a comment on a line of its own has an indentation.
LineStartComment(lx, item) ==
  LET to == CASE item = "\t"             -> [lx EXCEPT !.err = TRUE]
              [] item = Break            -> lx
              [] item \notin {"\t", Break} /\ lx.ind > Last(lx.stack) -> [Emit(lx, <<Indent>>) EXCEPT !.stack = Append(@, lx.ind)]
              [] OTHER                   -> CloseBlocks(lx)
  IN  [to EXCEPT !.start = FALSE]

\* The indentation in front of a line's first lexeme; a blank line and a comment have none.
LineStart(lx, item) ==
  LET to == CASE item = "\t"             -> [lx EXCEPT !.err = TRUE]
              [] item \in {Break, "#"}   -> lx
              [] item \notin {"\t", Break, "#"} /\ lx.ind > Last(lx.stack) -> [Emit(lx, <<Indent>>) EXCEPT !.stack = Append(@, lx.ind)]
              [] OTHER                   -> CloseBlocks(lx)
  IN  [to EXCEPT !.start = FALSE]

LineEnd(lx) ==
  LET silent == lx.depth # 0 \/ lx.out = <<>> \/ Last(lx.out) \in {Newline, Indent, Dedent}
  IN  [Emit(lx, IF silent THEN <<>> ELSE <<Newline>>) EXCEPT !.start = TRUE, !.comment = FALSE]

Lexeme(lx, s) ==
  CASE s = "#"  -> [lx EXCEPT !.comment = TRUE]
    [] s \in {"\r", "\t"} -> lx
    [] s = "("  -> [Emit(lx, <<s>>) EXCEPT !.depth = @ + 1]
    [] s = ")"  -> [Emit(lx, <<s>>) EXCEPT !.depth = @ - 1]
    [] s \notin {"#", "\r", "\t"} /\ ~Meaningful(s) -> [lx EXCEPT !.err = TRUE]
    [] OTHER    -> Emit(lx, Tokens(s, IF lx.out = <<>> THEN Newline ELSE Last(lx.out)))

\* The layout rule applies to the first lexeme after a line break outside of
\* parentheses, wherever in its line that lexeme is: the line break of a group
\* over several lines is accounted for behind its closing parenthesis.
Scan(lx, item) ==
  LET at == IF lx.start /\ lx.depth = 0 /\ ~lx.comment THEN LineStart(lx, item) ELSE lx
      to == CASE at.err \/ (at.comment /\ item # Break) -> at
              [] ~at.err /\ item = Break -> LineEnd(at)
              [] OTHER -> Lexeme(at, item)
  IN  IF lx.err THEN lx ELSE [to EXCEPT !.ind = 1]

LexLine(lx, line) ==
  LET items == Append(line.items, Break)
      scanned[i \in 0..Len(items)] == IF i = 0 THEN [lx EXCEPT !.ind = line.ind] ELSE Scan(scanned[i - 1], items[i])
  IN  scanned[Len(items)]

\* Every block still open ends with the text.
LexEnd(lx) ==
  Emit(lx, (IF lx.out # <<>> /\ Last(lx.out) # Newline THEN <<Newline>> ELSE <<>>)
             \o [i \in 1..(Len(lx.stack) - 1) |-> Dedent] \o <<Eof>>)
=============================================================================
