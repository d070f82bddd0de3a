-------------------------------- MODULE Linker --------------------------------
(***************************************************************************)
(* Cross-file symbol resolution: crates/apsl-link/src, the function link.  *)
(*                                                                         *)
(* A program is a sequence of declarations.  A symbol it mentions and does *)
(* not declare is looked for in the .apsl files of the search path, whose  *)
(* text is read again for every symbol; the paragraph found (up to the     *)
(* first blank line) is parsed, ALL its declarations are appended, and the *)
(* symbols still undeclared make the next round's queue.                   *)
(*                                                                         *)
(* A symbol is a number, its place in the order of a BTreeSet.  Which file *)
(* a paragraph is in decides nothing, so the search path is a set of       *)
(* paragraphs.  A declaration keeps apart the symbols it mentions before   *)
(* and after its first blank line; two have one text if they are equal.    *)
(***************************************************************************)
EXTENDS Naturals, Sequences, FiniteSets

CONSTANTS
    Symbol,     \* names of types, nodes, graphs and predicates
    Known,      \* base types and primitives, which need no declaration
    Programs,   \* sources a caller may link
    Workspaces, \* sets of contents the search path goes through meanwhile
    MaxDepth    \* MAX_DEPTH, 64 in the code

Decl == [name : Symbol, head : SUBSET Symbol, tail : SUBSET Symbol,
         indexed : BOOLEAN, parses : BOOLEAN]

ASSUME LinkerAssumption ==
    /\ Symbol \subseteq Nat
    /\ Known \subseteq Symbol
    /\ Programs \subseteq Seq(Decl)
    /\ \A w \in Workspaces : \A v \in w : v \subseteq Seq(Decl) \ {<<>>}
    /\ MaxDepth \in Nat

VARIABLES
    program,    \* the source given to link
    versions,   \* the contents the search path may have in this run
    files,      \* the paragraphs in the search path now
    merged,     \* the program and what has been linked into it
    seen,       \* the symbols searched for, LinkResult's resolved
    queue,      \* the symbols left in this round
    nextQueue,  \* the symbols of the next round
    depth,      \* rounds begun
    status      \* "round", "search", or how link returned

vars == <<program, versions, files, merged, seen, queue, nextQueue, depth, status>>

Errors == {"not_found", "collision", "parse_error", "depth_exceeded"}
Running == status \in {"round", "search"}

\* The names a list of declarations declares, and the symbols it mentions.
Declared(ds) == {ds[k].name : k \in DOMAIN ds}
Mentioned(ds) == UNION {ds[k].head \cup ds[k].tail : k \in DOMAIN ds}

Unresolved(ds) == Mentioned(ds) \ (Declared(ds) \cup Known)

\* What is linked of a declaration: its text up to the first blank line.
Cut(d) == [d EXCEPT !.tail = {}]

\* Mutant: a line matches `s' if it declares a name that begins with `s'.
BlocksByPrefix(s) ==
    UNION {{[j \in 1..(Len(p) - k + 1) |-> Cut(p[k + j - 1])] :
               k \in {i \in DOMAIN p : p[i].name \in {s, s + 1} /\ p[i].indexed}} :
           p \in files}

\* The text from each line that matches `s' to the end of its paragraph.  The
\* first line of `type X <: Y' matches no symbol.
Blocks(s) ==
    UNION {{[j \in 1..(Len(p) - k + 1) |-> Cut(p[k + j - 1])] :
               k \in {i \in DOMAIN p : p[i].name = s /\ p[i].indexed}} :
           p \in files}

Init ==
    /\ program \in Programs
    /\ versions \in Workspaces
    /\ files \in versions
    /\ merged = program
    /\ seen = {}
    /\ queue = Unresolved(program)
    /\ nextQueue = {}
    /\ depth = 0
    /\ status = "round"

-----------------------------------------------------------------------------
\* link returns.
Return(outcome) ==
    /\ status' = outcome
    /\ UNCHANGED <<program, versions, files, merged, seen, queue, nextQueue, depth>>

\* Mutant: one round more than MAX_DEPTH.
StartRoundTooDeep ==
    /\ status = "round"
    /\ \/ queue = {} /\ Return("done")
       \/ queue # {} /\ depth > MaxDepth /\ Return("depth_exceeded")
       \/ /\ queue # {} /\ depth <= MaxDepth
          /\ depth' = depth + 1
          /\ nextQueue' = {}
          /\ status' = "search"
          /\ UNCHANGED <<program, versions, files, merged, seen, queue>>

\* The outer loop: an empty queue ends it, MAX_DEPTH rounds are too many.
StartRound ==
    /\ status = "round"
    /\ \/ queue = {} /\ Return("done")
       \/ queue # {} /\ depth >= MaxDepth /\ Return("depth_exceeded")
       \/ /\ queue # {} /\ depth < MaxDepth
          /\ depth' = depth + 1
          /\ nextQueue' = {}
          /\ status' = "search"
          /\ UNCHANGED <<program, versions, files, merged, seen, queue>>

\* The front of the queue.
Front(s) == s \in queue /\ \A t \in queue : s <= t

\* Mutant: the front of the queue is looked at and not taken.
SkipStays(s) ==
    /\ status = "search"
    /\ Front(s)
    /\ s \in seen \cup Declared(merged)
    /\ UNCHANGED vars

\* Mutant: a symbol that is declared already is put off to the next round.
SkipLater(s) ==
    /\ status = "search"
    /\ Front(s)
    /\ s \in seen \cup Declared(merged)
    /\ queue' = queue \ {s}
    /\ nextQueue' = nextQueue \cup {s}
    /\ UNCHANGED <<program, versions, files, merged, seen, depth, status>>

\* A symbol that a block of this round has declared meanwhile.
Skip(s) ==
    /\ status = "search"
    /\ Front(s)
    /\ s \in seen \cup Declared(merged)
    /\ queue' = queue \ {s}
    /\ UNCHANGED <<program, versions, files, merged, seen, nextQueue, depth, status>>

\* Appends the block and queues `more'.
Link(s, block, more) ==
    /\ \A k \in DOMAIN block : block[k].parses
    /\ merged' = merged \o block
    /\ seen' = seen \cup {s}
    /\ queue' = queue \ {s}
    /\ nextQueue' = nextQueue \cup more
    /\ UNCHANGED <<program, versions, files, depth, status>>

\* Mutant: what the linked declarations mention is not followed.
SearchShallow(s) ==
    /\ status = "search" /\ Front(s) /\ s \notin seen \cup Declared(merged)
    /\ \E block \in Blocks(s) : Link(s, block, {})

\* Mutant: symbols that are declared already are searched for again.
SearchAgain(s) ==
    /\ status = "search" /\ Front(s)
    /\ \E block \in Blocks(s) : Link(s, block, Unresolved(merged \o block))

\* Mutant: the first hit is taken, whatever the other ones say.
SearchFirst(s) ==
    /\ status = "search" /\ Front(s) /\ s \notin seen \cup Declared(merged)
    /\ LET block == CHOOSE b \in Blocks(s) : TRUE IN
       Blocks(s) # {} /\ Link(s, block, Unresolved(merged \o block) \ {s})

\* Every file is searched for the symbol; what one block declares is appended.
Search(s) ==
    /\ status = "search"
    /\ Front(s)
    /\ s \notin seen \cup Declared(merged)
    /\ \/ Blocks(s) = {} /\ Return("not_found")
       \/ Cardinality(Blocks(s)) > 1 /\ Return("collision")
       \/ \E block \in Blocks(s) :
            /\ Blocks(s) = {block}
            /\ \/ (\E k \in DOMAIN block : ~block[k].parses) /\ Return("parse_error")
               \/ Link(s, block, Unresolved(merged \o block) \ (seen \cup {s}))

EndRound ==
    /\ status = "search"
    /\ queue = {}
    /\ queue' = nextQueue
    /\ nextQueue' = {}
    /\ status' = "round"
    /\ UNCHANGED <<program, versions, files, merged, seen, depth>>

\* A file of the search path is rewritten between two searches.
Edit ==
    /\ Running
    /\ files' \in versions
    /\ UNCHANGED <<program, versions, merged, seen, queue, nextQueue, depth, status>>

LinkStep == StartRound \/ EndRound \/ \E s \in queue : Skip(s) \/ Search(s)

Next == LinkStep \/ Edit

Spec == Init /\ [][Next]_vars

\* link is one thread that never waits.
FairSpec == Spec /\ WF_vars(LinkStep)

-----------------------------------------------------------------------------
TypeOK ==
    /\ program \in Programs
    /\ versions \in Workspaces
    /\ files \in versions
    /\ merged \in Seq(Decl)
    /\ seen \subseteq Symbol
    /\ queue \subseteq Symbol
    /\ nextQueue \subseteq Symbol
    /\ depth \in 0..MaxDepth
    /\ status \in {"round", "search", "done"} \cup Errors

\* link succeeds only with a closed program: whatever it mentions is declared
\* in it or known, even when the files change between two searches.
ClosedWhenDone == status = "done" => Unresolved(merged) = {}

\* The files are not rewritten while they are searched.
Unedited == versions = {files}

\* No file declares two things in one paragraph.
Separated == \A v \in versions : \A p \in v : Len(p) = 1

\* The source declares each name once.
UniqueProgram ==
    \A j, k \in DOMAIN program : program[j].name = program[k].name => j = k

\* With paragraphs of one declaration, linking never gives a program a second
\* declaration of a name: no linked declaration overrides a local one.
OneDeclaration ==
    Separated /\ UniqueProgram =>
        \A j, k \in DOMAIN merged : merged[j].name = merged[k].name => j = k

\* Nothing is linked that the source does not need: every linked name is in
\* every set that has what the source lacks and what its declarations mention,
\* and what the names in the set mention in turn.
NothingUnneeded ==
    Separated =>
        \A need \in SUBSET Symbol :
            /\ Unresolved(program) \subseteq need
            /\ \A k \in DOMAIN merged :
                 merged[k].name \in need => (merged[k].head \cup merged[k].tail)
                                               \ (Known \cup Declared(program)) \subseteq need
            => Declared(merged) \ Declared(program) \subseteq need

\* Every round but the last one begun has linked something, so that the depth
\* limit is only met by chains of references that are as long.
RoundsProgress == depth <= Cardinality(seen) + 1

\* With files that do not change, a name that was looked up has one text in
\* the whole search path: the order of the directories decides nothing.
Unambiguous ==
    Unedited => \A s \in seen : Cardinality(Blocks(s)) = 1

\* link returns: cycles of references do not keep it going.
Returns == <>~Running
=============================================================================
