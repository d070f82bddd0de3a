------------------------------- MODULE Modes -------------------------------
(***************************************************************************)
(* The checks of apslc that look into terms: --string-strict               *)
(* (crates/apsl-types, string_strict.rs), --strict and the bare World of   *)
(* --rooted; and --migrate, which rewrites the text (crates/apslc,         *)
(* main.rs).                                                               *)
(***************************************************************************)
EXTENDS Canon, Flows

\* The declarations of a kind.
Declared(p, k) == SelectSeq(p, LAMBDA d : d.k = k)
Aliases(p)     == Declared(p, "type")

----------------------------------------------------------------------------
\* The terms a term is made of, itself included.
RECURSIVE Parts(_)
Parts(t) == {t} \cup UNION {Parts(t.a[i]) : i \in DOMAIN t.a}

\* Mutant: strings inside of a type are not looked for.
FreeStringBare(t) == Term("base", "String", <<>>) = t
FreeString(t) == Term("base", "String", <<>>) \in Parts(t)
FreeText(e)   == \E x \in Parts(e) : x.k = "str"

\* A string has a name in front of it wherever a declaration speaks of one.
DeclIsStrict(d) ==
  CASE d.k = "type" -> d.rhs = Term("base", "String", <<>>) \/ ~FreeString(d.rhs)
    [] OTHER ->
         /\ \A q \in ToSet(d.params) : ~FreeString(q.t)
         /\ ~FreeString(d.ret)
         /\ \A s \in ToSet(d.state) : ~FreeString(s.t)
         /\ \A e \in ToSet(d.post) : ~FreeText(e)
         /\ d.k = "node" => \A e \in ToSet(d.pre) : ~FreeText(e)
StringStrict(p) == DefaultsHold(p) /\ \A i \in DOMAIN p : DeclIsStrict(p[i])

----------------------------------------------------------------------------
\* The names in a type.
BaseNames(t) == {x.n : x \in {y \in Parts(t) : y.k = "base"}}

BareWorld(t) == Term("base", "World", <<>>) \in Parts(t)
NoBareWorld(p) ==
  \A d \in ToSet(Declared(p, "node")) : ~BareWorld(d.ret) /\ \A q \in ToSet(d.params) : ~BareWorld(q.t)

\* Right-hand sides are compared as they are written, names in them unresolved.
BuiltIn == {"Int", "Rat", "Bool", "String", "Float", "Real"}
StrictCheck(p) ==
  \A i, j \in DOMAIN Aliases(p) :
    /\ {Aliases(p)[i].name, Aliases(p)[j].name} \cap BuiltIn = {}
    /\ TypeCanon(Aliases(p)[i].rhs) = TypeCanon(Aliases(p)[j].rhs)
    => i = j

----------------------------------------------------------------------------
\* A text for --migrate: `type X <: Y = R' loses its supertype, and lines that
\* begin, behind spaces, with no clause the parser knows become comments.
ClauseWords == {"pre", "post", "cx", "sla", "via", "auth", "scope", "audit", "state", "flow"}
Stripped    == [ind |-> 0, items |-> <<"#">>]
Before(t, items) == SubSeq(items, 1, SelectInSeq(items, LAMBDA x : x = t) - 1)
After(t, items) == SubSeq(items, SelectInSeq(items, LAMBDA x : x = t) + 1, Len(items))

MigrateLine(line) ==
  LET items == SelectSeq(line.items, LAMBDA x : x # "\r")
      subtype == line.ind = 0 /\ items # <<>> /\ items[1] = "type" /\ "<:" \in ToSet(items)
      kept == line.ind = 0 \/ items = <<>> \/ items[1] \in ClauseWords \cup {"#", "->"}
  IN  CASE subtype /\ "=" \in ToSet(items) -> [line EXCEPT !.items = Before("<:", items) \o <<"=">> \o After("=", items)]
        [] subtype \/ ~kept -> Stripped
        [] OTHER -> [line EXCEPT !.items = items]
MigrateSource(lines) == [i \in DOMAIN lines |-> MigrateLine(lines[i])]
=============================================================================
