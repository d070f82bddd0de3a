------------------------- MODULE CompilerProperties -------------------------
(***************************************************************************)
(* What the runs of Compiler promise: against the program a text was       *)
(* written from (ReadsWhatWasWritten, MigrationKeepsTheRest), against what *)
(* the modes that follow terms are documented to mean (TextModesHold), and *)
(* of the artifact about the program (ArtifactTellsTheProgram,             *)
(* SameHashSameContract).  The functions Compiler leaves open are those of *)
(* Parser, Modes, Canon and Artifact.                                      *)
(***************************************************************************)
EXTENDS Compiler, Artifact, Written

CONSTANT Meant(_)  \* the program the text in a file was written from, in a sequence of one, or none if it is no program

\* What Compiler takes for granted.
HashProgram(p) == Hash("", ProgramCanon(p))

meant == Meant(input.file[1])
IsNode(d)  == d.k = "node"
IsGraph(d) == d.k = "graph"

----------------------------------------------------------------------------
\* A text is read as the program it was written from, in whatever style it is
\* written, and a text that is no program is refused (lex.rs, parse.rs): blocks and
\* lines, precedence and what may be left out lose and invent nothing.
ReadsWhatWasWritten ==
  ~Asked("migrate") =>
    /\ phase = "link" => meant = <<program>>
    /\ phase = "syntax error" => meant = <<>>

\* README: --migrate "strips unsupported clauses": supertypes and clauses that are
\* unknown go, and the rest of the program is what it was, whatever the layout of
\* its text (main.rs, migrate_source).
MigrationKeepsTheRest ==
  LET told(d) == d.k = "type" => d.supers = <<>> \/ d.rhs # Term("base", d.name, <<>>)
      left == SelectSeq(meant[1], told)
  IN  Asked("migrate") /\ meant # <<>> =>
        /\ phase # "syntax error"
        /\ phase = "link" => program = [i \in DOMAIN left |-> IF left[i].k = "type" THEN [left[i] EXCEPT !.supers = <<>>] ELSE left[i]]

----------------------------------------------------------------------------
Within(s, t) == \E i \in 1..(Len(t) - Len(s) + 1) : SubSeq(t, i, i + Len(s) - 1) = s
RawText(n)   == <<"\"base\"", ",", "\"n\"", ":", Str(n)[1]>>
RawLit       == <<"\"v\"", ":", "{", "\"k\"", ":", "\"s\"">>

\* No declaration's canonical text has a String but one that is given a name.
NamesItsStrings(p) ==
  \A d \in ToSet(p) :
    IF d.k = "type" THEN Within(RawText("String"), TypeCanon(d.rhs)) => Len(TypeCanon(d.rhs)) = Len(TypeCanon(Term("base", "String", <<>>)))
    ELSE ~Within(RawText("String"), DeclCanon(d)) /\ ~Within(RawLit, DeclCanon(d))

\* What a type resolves to: every alias in it followed, k of them deep.
RECURSIVE Resolved(_, _, _)
Resolved(p, t, k) ==
  IF t.k = "base" /\ t.n \in NamesIn(p, "type") /\ k > 0
  THEN Resolved(p, LastNamed(p, "type", t.n).rhs, k - 1)
  ELSE [t EXCEPT !.a = [i \in DOMAIN t.a |-> Resolved(p, t.a[i], k)]]
Structure(p, d) == Resolved(p, d.rhs, Len(Aliases(p)))

\* Two of the declarations ds of p resolve to one structure.
Coarse(p, ds) == \E i, j \in DOMAIN ds : i # j /\ Structure(p, ds[i]) = Structure(p, ds[j])

\* --string-strict refuses exactly the programs with raw strings (string_strict.rs),
\* and --rooted no world with a root, wherever in a signature it is.  --strict refuses
\* only programs in which two aliases resolve to one structure, and all in which two
\* aliases that name no other do (main.rs); what it lets pass behind aliases of
\* aliases, against its usage text, is none of this.
TextModesHold ==
  /\ Verdict(1, Asked("string-strict"), DefaultsTyped(program) /\ NamesItsStrings(program))
  /\ phase = "rooted" =>
       WorldsRooted(program) = \A d \in ToSet(SelectSeq(program, IsNode)) : ~Within(RawText("World"), SigCanon(d))
  /\ LET named == SelectSeq(Aliases(program), LAMBDA d : d.name \notin BuiltIn)
         last  == SelectSeq(named, LAMBDA d : BaseNames(d.rhs) \cap NamesIn(program, "type") = {})
     IN  /\ phase = "not strict" => Asked("strict") /\ Coarse(program, named)
         /\ Asked("strict") /\ input.cmd \in {"check", "compile"} /\ phase \in Beyond(5) => ~Coarse(program, last)

----------------------------------------------------------------------------
Compiled == phase = "ok" /\ input.cmd = "compile"

\* The flow of an entry is the flow of the graph, and its addresses are those of the
\* states that the contracts of its occurrences list.
TellsGraph(art, e, g) ==
  LET contracts == [o \in DOMAIN e.occurrences |-> e.occurrences[o].contract]
      names     == [o \in DOMAIN contracts |-> art.contracts[contracts[o]].name]
      firsts    == [o \in DOMAIN contracts |-> e.occurrences[o].first_position]
      kinds     == [i \in DOMAIN art.contracts |-> [s \in DOMAIN art.contracts[i].states |-> art.contracts[i].states[s].kind]]
  IN  e.name = g.name /\ TellsFlow(g.flow, e.flow, names, firsts) /\ TellsStates(e.state_addresses, contracts, kinds)

\* The artifact can be read back as the program it was compiled from (apsl-artifact,
\* lib.rs): every reference leads to the type, contract or occurrence it is for, no
\* structure or name is listed twice, and the checks it lists were made.
ArtifactTellsTheProgram ==
  Compiled =>
    LET art == output[1]
        nodes  == SelectSeq(program, IsNode)
        graphs == SelectSeq(program, IsGraph)
        tells(ref, t) == art.types[ref.ordinal].structure = TypeCanon(t) /\ art.types[ref.ordinal].hash = ref.hash
    IN  /\ \A i, j \in DOMAIN art.types : art.types[i].structure = art.types[j].structure \/ art.types[i].hash = art.types[j].hash => i = j
        /\ art.checks = {"types"} \cup (input.flags \cap {"state", "string-strict"})
        /\ DOMAIN art.contracts = DOMAIN nodes /\ DOMAIN art.graphs = DOMAIN graphs
        /\ \A i \in DOMAIN nodes :
             LET c == art.contracts[i]
                 d == nodes[i]
             IN  /\ c.name = d.name /\ tells(c.output, d.ret)
                 /\ DOMAIN c.inputs = DOMAIN d.params /\ \A j \in DOMAIN d.params : tells(c.inputs[j], d.params[j].t)
                 /\ DOMAIN c.states = DOMAIN d.state
                 /\ \A j \in DOMAIN d.state : tells(c.states[j].type, d.state[j].t) /\ c.states[j].default = d.state[j].default
                 /\ c.placement = IF d.state = <<>> \/ \A j \in DOMAIN d.state : c.states[j].kind = "fixed" THEN "fungible" ELSE "positional"
        /\ \A i \in DOMAIN art.aliases : art.types[art.aliases[i].representation].structure = TypeCanon(Aliases(program)[i].rhs)
        /\ \A i \in DOMAIN graphs : TellsGraph(art, art.graphs[i], graphs[i])

\* A node without the names that are no part of its contract, and without the order
\* of the attributes of its obligation.
Anonymous(d) ==
  LET values(via, key) == LET own == SelectSeq(via.attrs, LAMBDA a : a[1] = key) IN [i \in DOMAIN own |-> own[i][2]]
  IN  [d EXCEPT !.name = "", !.params = [i \in DOMAIN @ |-> @[i].t], !.state = [i \in DOMAIN @ |-> [t |-> @[i].t, default |-> @[i].default]],
         !.via = [i \in DOMAIN @ |-> [tag |-> @[i].tag, attrs |-> [k \in DOMAIN Rank |-> values(@[i], k)]]]]
\* The same flow through nodes of the same contracts, whatever these are called.
SameFlow(p, g, h) ==
  LET node(n) == Anonymous(LastNamed(p, "node", n))
  IN  /\ DOMAIN g.flow = DOMAIN h.flow
      /\ \A c \in DOMAIN g.flow : DOMAIN g.flow[c] = DOMAIN h.flow[c] /\ \A s \in DOMAIN g.flow[c] : DOMAIN g.flow[c][s] = DOMAIN h.flow[c][s]
      /\ \A x, y \in ToSet(Places(g)) :
           /\ (NameAt(g, x) = NameAt(g, y)) = (NameAt(h, x) = NameAt(h, y))
           /\ IF {NameAt(g, x), NameAt(h, x)} \cap Ports = {} THEN node(NameAt(g, x)) = node(NameAt(h, x)) ELSE NameAt(g, x) = NameAt(h, x)

\* Two nodes have one contract hash, and two graphs one graph hash, exactly if they
\* differ in names alone (apsl-artifact, lib.rs): who may call a node, what it costs
\* and whatever else is promised is part of the hash.
SameHashSameContract ==
  Compiled =>
    LET art == output[1]
        nodes  == SelectSeq(program, IsNode)
        graphs == SelectSeq(program, IsGraph)
        types(d) == [i \in DOMAIN d.params |-> d.params[i].t]
    IN  /\ \A i, j \in DOMAIN nodes :
             (art.contracts[i].contract_hash = art.contracts[j].contract_hash) = (Anonymous(nodes[i]) = Anonymous(nodes[j]))
        /\ \A i, j \in DOMAIN graphs :
             LET g == graphs[i]
                 h == graphs[j]
             IN  (art.graphs[i].graph_hash = art.graphs[j].graph_hash) =
                   (types(g) = types(h) /\ g.ret = h.ret /\ g.post = h.post /\ SameFlow(program, g, h))
=============================================================================
