------------------------------ MODULE Compiler ------------------------------
(***************************************************************************)
(* apslc (crates/apslc, main.rs): one run of the compiler, from its        *)
(* arguments and the text of a file to what it prints.  Layout reads       *)
(* lines, Flows checks what follows names.  What follows terms is a        *)
(* parameter here: Parser, Modes, Canon and Artifact define it, and an     *)
(* instance puts it in place.  What Linker and TypeCheck model in detail   *)
(* is left open: the linker adds some declarations or refuses, the type    *)
(* checker accepts or refuses a program whose flows it knows the names of. *)
(*                                                                         *)
(* A file is whatever the text in it is told apart by.                     *)
(***************************************************************************)
EXTENDS Layout, Flows

CONSTANTS
  Inputs,             \* what it is called with: [cmd, flags, file], the file a sequence of one or none
  Lines(_),           \* the lines of a file, in a sequence of one, or none if it cannot be read
  Library,            \* what the linker may add to a program: sequences of declarations
  \* The functions that follow terms:
  Migrated(_),        \* the lines a text has after --migrate
  ReadDecl(_, _),     \* the declaration that some tokens have at some place: [ok, at, v]
  TypeNamesIn(_),     \* the names in a type
  StringsNamed(_),    \* what --string-strict asks for
  WorldsRooted(_),    \* what --rooted asks of each node
  StructuresNamed(_), \* what --strict asks for
  CanonOf(_), HashOf(_), \* the canonical text of a program, and its hash
  Checked(_, _),      \* whether a program passes the checks of the artifact compiler
  ArtifactFor(_, _)   \* its artifact

\* A file has lines, whether it is to be migrated or not.
IsText(t) == t \in Seq([ind : Nat, items : Seq(STRING)])
CompilerAssumption ==
  /\ \A x \in Inputs : x.file # <<>> =>
       Lists(Lines(x.file[1])) /\ \A t \in ToSet(Lines(x.file[1])) : IsText(t) /\ IsText(Migrated(t))
  /\ \A more \in Library : IsProgram(more)
ASSUME CompilerAssumption

VARIABLES
  input,    \* the one input of this run
  phase,    \* what is next, or how the run ended
  text,     \* the lines to be read
  at,       \* the next line, then the next token
  lx,       \* how far the lexer has come
  program,  \* the declarations so far
  output    \* what is printed to the standard output, or nothing
vars == <<input, phase, text, at, lx, program, output>>

Commands == {"parse", "canon", "hash", "check", "compile"}
Flags    == {"no-resolve", "state", "nominal", "restricted", "migrate", "strict", "string-strict", "rooted"}
Asked(flag) == flag \in input.flags

\* The modes in the order in which they are checked, what is next when all hold,
\* and the phases a run ends in.
Stages   == <<"string-strict", "state", "nominal", "rooted", "strict", "print">>
Refusals == <<"not string-strict", "bad state", "not nominal", "not rooted", "not strict">>
Failures == {"unreadable", "syntax error", "unresolved", "type error", "artifact error", "not written"} \cup ToSet(Refusals)
Ends     == {"ok", "usage", "overflow"} \cup Failures
\* What the shell sees; a stack overflow aborts the process.
ExitCode(end) == CASE end = "ok" -> 0 [] end = "usage" -> 2 [] end \in Failures -> 1 [] end = "overflow" -> 134

Init ==
  /\ input \in Inputs
  /\ phase = "args" /\ text = <<>> /\ at = 1 /\ lx = Lexer /\ program = <<>> /\ output = <<>>

Go(next) == phase' = next
Keep     == UNCHANGED <<input, text, at, lx, program>>

----------------------------------------------------------------------------
GoodArguments == input.cmd \in Commands /\ input.file # <<>> /\ input.flags \subseteq Flags

Usage ==
  /\ phase = "args" /\ ~GoodArguments
  /\ Go(IF input.cmd = "help" THEN "ok" ELSE "usage") /\ Keep /\ UNCHANGED output

ReadText ==
  /\ phase = "args" /\ GoodArguments
  /\ LET lines == Lines(input.file[1])
     IN  IF lines # <<>>
         THEN Go("lex") /\ text' = IF Asked("migrate") THEN Migrated(lines[1]) ELSE lines[1]
         ELSE Go("unreadable") /\ UNCHANGED text
  /\ UNCHANGED <<input, at, lx, program, output>>

LexText ==
  /\ phase = "lex"
  /\ IF at <= Len(text)
     THEN lx' = LexLine(lx, text[at]) /\ at' = at + 1 /\ Go(IF lx'.err THEN "syntax error" ELSE "lex")
     ELSE lx' = LexEnd(lx) /\ at' = 1 /\ Go("parse")
  /\ UNCHANGED <<input, text, program, output>>

ParseText ==
  /\ phase = "parse"
  /\ IF lx.out[at] = Eof THEN Go("link") /\ UNCHANGED <<at, program>>
     ELSE LET p == ReadDecl(lx.out, at)
          IN  IF p.ok THEN at' = p.at /\ program' = program \o p.v /\ UNCHANGED phase
              ELSE Go("syntax error") /\ UNCHANGED <<at, program>>
  /\ UNCHANGED <<input, text, lx, output>>

----------------------------------------------------------------------------
\* Only two of the commands check the program.
Linked == IF input.cmd \in {"check", "compile"} THEN "types" ELSE "print"

SkipLink == phase = "link" /\ Asked("no-resolve") /\ Go(Linked) /\ Keep /\ UNCHANGED output
LinkProgram ==
  /\ phase = "link" /\ ~Asked("no-resolve")
  /\ \E more \in Library : program' = program \o more
  /\ Go(Linked) /\ UNCHANGED <<input, text, at, lx, output>>
Unresolved == phase = "link" /\ ~Asked("no-resolve") /\ Go("unresolved") /\ Keep /\ UNCHANGED output

\* A flow may name nodes, its ports, and what the type checker knows of itself.
Primitives ==
  {"div", "mod", "and", "or", "not", "nil", "cons", "len", "nth", "head", "tail", "range", "map", "filter", "fold",
   "every", "some", "count", "sort", "sort_by", "reverse", "concat", "group_by", "dedupe", "zip",
   "subseteq?", "unique?", "valid_email?", "well_formed_json?"}
Mentioned(g) == UNION {UNION {ToSet(s) : s \in ToSet(c)} : c \in ToSet(g.flow)}
Typed(p) == \A i \in OfKind(p, "graph") : Mentioned(p[i]) \subseteq Ports \cup Primitives \cup NamesIn(p, "node")

\* Aliases in a signature are followed until they end.
AliasEdges(p) == UNION {{n} \X TypeNamesIn(LastNamed(p, "type", n).rhs) : n \in NamesIn(p, "type")}
Signatures(p) == UNION {{q.t : q \in ToSet(d.params)} \cup {d.ret} : d \in {x \in ToSet(p) : x.k # "type"}}
Endless(p) ==
  \E n \in NamesIn(p, "type") \cap Reachable(AliasEdges(p), UNION {TypeNamesIn(t) : t \in Signatures(p)}) :
    n \in Reachable(AliasEdges(p), TypeNamesIn(LastNamed(p, "type", n).rhs))

TypesPass == phase = "types" /\ ~Endless(program) /\ Typed(program) /\ Go(Stages[1]) /\ Keep /\ UNCHANGED output
TypesFail == phase = "types" /\ ~Endless(program) /\ Go("type error") /\ Keep /\ UNCHANGED output
Overflow  == phase = "types" /\ Endless(program) /\ Go("overflow") /\ Keep /\ UNCHANGED output

----------------------------------------------------------------------------
\* A mode that is asked for either holds, or ends the run.
Mode(i, asked, holds) ==
  /\ phase = Stages[i]
  /\ Go(IF asked /\ ~holds THEN Refusals[i] ELSE Stages[i + 1])
  /\ Keep /\ UNCHANGED output
StringStrictMode == Mode(1, Asked("string-strict"), StringsNamed(program))
StateMode   == Mode(2, Asked("state"), StateCheck(program))
\* A run that is restricted is nominal too.
NominalMode == Mode(3, Asked("nominal") \/ Asked("restricted"), NominalCheck(program, Asked("restricted")))
RootedMode  == Mode(4, Asked("rooted"), WorldsRooted(program) /\ OneComponent(program))
StrictMode  == Mode(5, Asked("strict"), StructuresNamed(program))

----------------------------------------------------------------------------
Answer(x) == output' = <<x>> /\ Go("ok")

PrintProgram ==
  /\ phase = "print" /\ Keep
  /\ \/ input.cmd \in {"parse", "canon"} /\ Answer(CanonOf(program))
     \/ input.cmd = "hash" /\ Answer(HashOf(program))
     \/ input.cmd = "check" /\ Answer("ok")

\* Only the modes that concern what the artifact holds are checked again.
SelectedChecks(flags) == flags \cap {"state", "string-strict"}
Compilable ==
  /\ Checked(program, SelectedChecks(input.flags))
  /\ \A i \in OfKind(program, "graph") : Mentioned(program[i]) \subseteq Ports \cup NamesIn(program, "node")
Compile ==
  /\ phase = "print" /\ input.cmd = "compile" /\ Keep
  /\ IF Compilable THEN Answer(ArtifactFor(program, SelectedChecks(input.flags)))
     ELSE Go("artifact error") /\ UNCHANGED output
\* The standard output may be closed: compile writes to it with an error to
\* return (main.rs, write_all); println! of the other commands would panic instead.
NotWritten ==
  /\ phase = "print" /\ input.cmd = "compile" /\ Compilable
  /\ Go("not written") /\ Keep /\ UNCHANGED output

Next ==
  \/ Usage \/ ReadText \/ LexText \/ ParseText
  \/ SkipLink \/ LinkProgram \/ Unresolved \/ TypesPass \/ TypesFail \/ Overflow
  \/ StringStrictMode \/ StateMode \/ NominalMode \/ RootedMode \/ StrictMode
  \/ PrintProgram \/ Compile \/ NotWritten

Spec == Init /\ [][Next]_vars

----------------------------------------------------------------------------
Count(s, x) == Cardinality({i \in DOMAIN s : s[i] = x})

\* The open blocks of the lexer are ever wider (lex.rs); there are as many as there
\* are Indents without a Dedent, none when the text has ended.
BlocksNest ==
  /\ lx.stack[1] = 0 /\ \A i \in 2..Len(lx.stack) : lx.stack[i - 1] < lx.stack[i]
  /\ Count(lx.out, Indent) - Count(lx.out, Dedent) =
       IF lx.out # <<>> /\ Last(lx.out) = Eof THEN 0 ELSE Len(lx.stack) - 1

\* Type invariant (main.rs, lex.rs): a run is in one of its phases, reads lines, then
\* tokens of which the last is Eof, has a program, and has printed something only if
\* it ends well.
TypeOK ==
  /\ phase \in {"args", "lex", "parse", "link", "types"} \cup ToSet(Stages) \cup Ends
  /\ output # <<>> => ExitCode(phase) = 0
  /\ IsText(text) /\ IsProgram(program)
  /\ phase = "lex" => at \in 1..(Len(text) + 1)
  /\ phase = "parse" => at \in 1..Len(lx.out) /\ Last(lx.out) = Eof
  /\ BlocksNest

\* Whether a mode that was asked for let pass, or refused, what it should.
Beyond(i) == {Stages[j] : j \in (i + 1)..Len(Stages)} \cup {Refusals[j] : j \in (i + 1)..Len(Refusals)} \cup {"ok", "artifact error", "not written"}
Verdict(i, asked, holds) ==
  /\ asked /\ input.cmd \in {"check", "compile"} /\ phase \in Beyond(i) => holds
  /\ phase = Refusals[i] => asked /\ ~holds

\* --state, --nominal, --restricted and --rooted refuse exactly the programs they are
\* for (string_strict.rs, main.rs): state whose default is of another type or whose
\* path is not its own; flows between two aliases that are not the same, or of which
\* one is not a narrowing of the other, at the first input; a program in several
\* parts.  No later step of a run forgets it.
NameModesHold ==
  /\ Verdict(2, Asked("state"), DefaultsTyped(program) /\ \A d \in ToSet(program) : OwnPaths(d))
  /\ Verdict(3, Asked("nominal") \/ Asked("restricted"), FlowNarrows(program, Asked("restricted")))
  /\ Verdict(4, Asked("rooted"), WorldsRooted(program) /\ Undivided(program))
=============================================================================
