----------------------------- MODULE LinkerProofs -----------------------------
(***************************************************************************)
(* What link guarantees for every program, every search path, every edit   *)
(* of the files while they are searched, and every depth limit.            *)
(***************************************************************************)
EXTENDS Linker, SequenceTheorems, FiniteSetTheorems, TLAPS

\* A block is what the search promises: declarations of which the first one
\* declares the symbol that was searched for.
LEMMA BlockOK ==
    ASSUME TypeOK, NEW s \in Symbol, NEW block \in Blocks(s)
    PROVE  /\ block \in Seq(Decl)
           /\ 1 \in DOMAIN block
           /\ block[1].name = s
<1>1. PICK p \in files : \E k \in DOMAIN p :
        /\ p[k].name = s
        /\ block = [j \in 1..(Len(p) - k + 1) |-> Cut(p[k + j - 1])]
    BY DEF Blocks
<1>10. PICK k \in DOMAIN p :
        /\ p[k].name = s
        /\ block = [j \in 1..(Len(p) - k + 1) |-> Cut(p[k + j - 1])]
    BY <1>1
<1>2. p \in Seq(Decl)
    BY LinkerAssumption DEF TypeOK
<1>3. k \in 1..Len(p) /\ Len(p) \in Nat
    BY <1>2
<1>4. \A j \in 1..(Len(p) - k + 1) : k + j - 1 \in 1..Len(p)
    BY <1>3
<1>5. \A d \in Decl : Cut(d) \in Decl /\ Cut(d).name = d.name
    BY DEF Decl, Cut
<1>6. \A j \in 1..(Len(p) - k + 1) : Cut(p[k + j - 1]) \in Decl
    BY <1>2, <1>4, <1>5
<1>7. Len(p) - k + 1 \in Nat /\ 1 \in 1..(Len(p) - k + 1)
    BY <1>3
<1>8. block \in Seq(Decl) /\ DOMAIN block = 1..(Len(p) - k + 1)
    <2>1. block \in [1..(Len(p) - k + 1) -> Decl]
        BY <1>10, <1>6
    <2> QED
        BY <2>1, <1>7, SeqDef
<1>9. block[1] = Cut(p[k])
    BY <1>10, <1>3, <1>7
<1> QED
    BY <1>10, <1>2, <1>3, <1>5, <1>7, <1>8, <1>9

\* The elements of a concatenation.
LEMMA ConcatElements ==
    ASSUME NEW ds \in Seq(Decl), NEW es \in Seq(Decl)
    PROVE  /\ ds \o es \in Seq(Decl)
           /\ DOMAIN (ds \o es) = 1..(Len(ds) + Len(es))
           /\ \A k \in 1..Len(ds) : (ds \o es)[k] = ds[k]
           /\ \A k \in 1..Len(es) : (ds \o es)[Len(ds) + k] = es[k]
           /\ DOMAIN ds = 1..Len(ds) /\ DOMAIN es = 1..Len(es)
           /\ Len(ds) \in Nat /\ Len(es) \in Nat
    OBVIOUS

\* What a concatenation declares.
LEMMA ConcatDeclares ==
    ASSUME NEW ds \in Seq(Decl), NEW es \in Seq(Decl)
    PROVE  /\ ds \o es \in Seq(Decl)
           /\ Declared(ds \o es) = Declared(ds) \cup Declared(es)
<1>1. /\ ds \o es \in Seq(Decl)
      /\ DOMAIN (ds \o es) = 1..(Len(ds) + Len(es))
      /\ \A k \in 1..Len(ds) : (ds \o es)[k] = ds[k]
      /\ \A k \in 1..Len(es) : (ds \o es)[Len(ds) + k] = es[k]
      /\ DOMAIN ds = 1..Len(ds) /\ DOMAIN es = 1..Len(es)
      /\ Len(ds) \in Nat /\ Len(es) \in Nat
    BY ConcatElements
<1>2. ASSUME NEW k \in DOMAIN (ds \o es)
      PROVE  (ds \o es)[k].name \in Declared(ds) \cup Declared(es)
    <2>1. CASE k \in 1..Len(ds)
        BY <1>1, <2>1 DEF Declared
    <2>2. CASE k \notin 1..Len(ds)
        <3>1. k - Len(ds) \in 1..Len(es) /\ k = Len(ds) + (k - Len(ds))
            BY <1>1, <2>2
        <3> QED
            BY <1>1, <3>1 DEF Declared
    <2> QED
        BY <2>1, <2>2
<1>3. ASSUME NEW k \in DOMAIN ds
      PROVE  ds[k].name \in Declared(ds \o es)
    <2>1. k \in DOMAIN (ds \o es) /\ (ds \o es)[k] = ds[k]
        BY <1>1
    <2> QED
        BY <2>1 DEF Declared
<1>4. ASSUME NEW k \in DOMAIN es
      PROVE  es[k].name \in Declared(ds \o es)
    <2>1. Len(ds) + k \in DOMAIN (ds \o es) /\ (ds \o es)[Len(ds) + k] = es[k]
        BY <1>1
    <2> QED
        BY <2>1 DEF Declared
<1> QED
    BY <1>1, <1>2, <1>3, <1>4 DEF Declared

\* Symbols that are mentioned are symbols.
LEMMA UnresolvedType ==
    ASSUME NEW ds \in Seq(Decl)
    PROVE  Unresolved(ds) \subseteq Symbol
<1>1. \A k \in DOMAIN ds : ds[k] \in Decl
    OBVIOUS
<1>2. \A d \in Decl : d.head \cup d.tail \subseteq Symbol
    BY DEF Decl
<1>3. Mentioned(ds) \subseteq Symbol
    BY <1>1, <1>2 DEF Mentioned
<1> QED
    BY <1>3 DEF Unresolved

-----------------------------------------------------------------------------
LEMMA TypeInit == Init => TypeOK
<1> SUFFICES ASSUME Init PROVE TypeOK
    OBVIOUS
<1>1. program \in Seq(Decl)
    BY LinkerAssumption DEF Init
<1> QED
    BY <1>1, UnresolvedType, LinkerAssumption DEF Init, TypeOK, Errors

\* Returning changes the status only.
LEMMA ReturnType ==
    ASSUME TypeOK, NEW outcome \in {"done"} \cup Errors, Return(outcome)
    PROVE  TypeOK'
    BY DEF TypeOK, Return

LEMMA TypeStep == TypeOK /\ [Next]_vars => TypeOK'
<1> SUFFICES ASSUME TypeOK, [Next]_vars PROVE TypeOK'
    OBVIOUS
<1> USE DEF Errors
<1>1. CASE StartRound
    <2>1. CASE Return("done") \/ Return("depth_exceeded")
        BY <2>1, ReturnType
    <2>2. CASE ~(Return("done") \/ Return("depth_exceeded"))
        <3>1. /\ depth < MaxDepth /\ depth' = depth + 1
              /\ nextQueue' = {} /\ status' = "search"
              /\ UNCHANGED <<program, versions, files, merged, seen, queue>>
            BY <1>1, <2>2 DEF StartRound
        <3>2. depth' \in 0..MaxDepth
            BY <3>1, LinkerAssumption DEF TypeOK
        <3> QED
            BY <3>1, <3>2 DEF TypeOK
    <2> QED
        BY <2>1, <2>2
<1>2. CASE EndRound
    BY <1>2 DEF EndRound, TypeOK
<1>3. ASSUME NEW s \in queue, Skip(s) PROVE TypeOK'
    BY <1>3 DEF Skip, TypeOK
<1>4. ASSUME NEW s \in queue, Search(s) PROVE TypeOK'
    <2>1. CASE Return("not_found") \/ Return("collision") \/ Return("parse_error")
        BY <2>1, ReturnType
    <2>2. CASE ~(Return("not_found") \/ Return("collision") \/ Return("parse_error"))
        <3>1. PICK block \in Blocks(s) :
                Link(s, block, Unresolved(merged \o block) \ (seen \cup {s}))
            BY <1>4, <2>2 DEF Search
        <3>2. s \in Symbol
            BY DEF TypeOK
        <3>3. merged \o block \in Seq(Decl)
            BY <3>2, BlockOK, ConcatDeclares DEF TypeOK
        <3>4. Unresolved(merged \o block) \subseteq Symbol
            BY <3>3, UnresolvedType
        <3> QED
            BY <3>1, <3>2, <3>3, <3>4 DEF Link, TypeOK
    <2> QED
        BY <2>1, <2>2
<1>5. CASE Edit
    BY <1>5 DEF Edit, TypeOK
<1>6. CASE UNCHANGED vars
    BY <1>6 DEF vars, TypeOK
<1> QED
    BY <1>1, <1>2, <1>3, <1>4, <1>5, <1>6 DEF Next, LinkStep

\* The types are right in every state of link: in particular no more than
\* MaxDepth rounds are begun.
THEOREM TypeCorrect == Spec => []TypeOK
<1>1. Init => TypeOK
    BY TypeInit
<1>2. TypeOK /\ [Next]_vars => TypeOK'
    BY TypeStep
<1> QED
    BY <1>1, <1>2, PTL DEF Spec

-----------------------------------------------------------------------------
(***************************************************************************)
(* Closure.  What is unresolved is queued, for this round or the next; the *)
(* symbols that were searched for are declared, since a block declares its *)
(* symbol; and the next queue is empty between two rounds.                 *)
(***************************************************************************)
Queued ==
    /\ Unresolved(merged) \subseteq queue \cup nextQueue
    /\ seen \subseteq Declared(merged)
    /\ status = "round" => nextQueue = {}
    /\ status = "done" => queue = {} /\ nextQueue = {}

LEMMA QueuedInit == Init => Queued
    BY DEF Init, Queued

LEMMA QueuedStep == TypeOK /\ Queued /\ [Next]_vars => Queued'
<1> SUFFICES ASSUME TypeOK, Queued, [Next]_vars PROVE Queued'
    OBVIOUS
<1>1. CASE StartRound
    <2>1. CASE UNCHANGED <<merged, seen, queue, nextQueue>>
        BY <1>1, <2>1 DEF StartRound, Return, Queued, Unresolved, Declared, Mentioned
    <2>2. CASE status' = "search" /\ nextQueue' = {} /\ UNCHANGED <<merged, seen, queue>>
        <3>1. status = "round"
            BY <1>1 DEF StartRound
        <3> QED
            BY <2>2, <3>1 DEF Queued, Unresolved, Declared, Mentioned
    <2> QED
        BY <1>1, <2>1, <2>2 DEF StartRound, Return
<1>2. CASE EndRound
    BY <1>2 DEF EndRound, Queued, Unresolved, Declared, Mentioned
<1>3. ASSUME NEW s \in queue, Skip(s) PROVE Queued'
    <2>1. s \notin Unresolved(merged)
        BY <1>3 DEF Skip, Queued, Unresolved
    <2>2. /\ status = "search" /\ queue' = queue \ {s}
          /\ UNCHANGED <<merged, seen, nextQueue, status>>
        BY <1>3 DEF Skip
    <2> QED
        BY <2>1, <2>2 DEF Queued, Unresolved, Declared, Mentioned
<1>4. ASSUME NEW s \in queue, Search(s) PROVE Queued'
    <2>1. CASE Return("not_found") \/ Return("collision") \/ Return("parse_error")
        BY <2>1 DEF Return, Queued, Unresolved, Declared, Mentioned
    <2>2. CASE ~(Return("not_found") \/ Return("collision") \/ Return("parse_error"))
        <3>1. PICK block \in Blocks(s) :
                Link(s, block, Unresolved(merged \o block) \ (seen \cup {s}))
            BY <1>4, <2>2 DEF Search
        <3>2. s \in Symbol
            BY DEF TypeOK
        <3>3. Declared(merged \o block) = Declared(merged) \cup Declared(block)
            BY <3>2, BlockOK, ConcatDeclares DEF TypeOK
        <3>4. s \in Declared(block)
            BY <3>2, BlockOK DEF Declared
        <3>5. seen \cup {s} \subseteq Declared(merged \o block)
            BY <3>3, <3>4 DEF Queued
        <3>6. Unresolved(merged \o block) \cap (seen \cup {s}) = {}
            BY <3>5 DEF Unresolved
        <3>7. /\ merged' = merged \o block /\ seen' = seen \cup {s}
              /\ nextQueue' = nextQueue \cup (Unresolved(merged \o block) \ (seen \cup {s}))
              /\ status' = "search"
            BY <1>4, <3>1 DEF Link, Search
        <3>8. Unresolved(merged') \subseteq nextQueue'
            BY <3>6, <3>7
        <3>9. seen' \subseteq Declared(merged')
            BY <3>5, <3>7
        <3> QED
            BY <3>7, <3>8, <3>9 DEF Queued, Unresolved, Declared, Mentioned
    <2> QED
        BY <2>1, <2>2
<1>5. CASE Edit
    BY <1>5 DEF Edit, Queued, Unresolved, Declared, Mentioned
<1>6. CASE UNCHANGED vars
    BY <1>6 DEF vars, Queued, Unresolved, Declared, Mentioned
<1> QED
    BY <1>1, <1>2, <1>3, <1>4, <1>5, <1>6 DEF Next, LinkStep

\* A program that link returns is closed: whatever it mentions is declared in
\* it or known, whatever the files are and however they change meanwhile.
THEOREM LinkedIsClosed == Spec => []ClosedWhenDone
<1>1. Init => Queued
    BY QueuedInit
<1>2. TypeOK /\ TypeOK' /\ Queued /\ [Next]_vars => Queued'
    BY QueuedStep
<1>3. Queued => ClosedWhenDone
    BY DEF Queued, ClosedWhenDone
<1> QED
    BY <1>1, <1>2, <1>3, TypeCorrect, PTL DEF Spec

-----------------------------------------------------------------------------
(***************************************************************************)
(* One declaration of each name, for search paths whose paragraphs declare *)
(* one thing.                                                              *)
(***************************************************************************)
Unique(ds) == \A j, k \in DOMAIN ds : ds[j].name = ds[k].name => j = k

\* A declaration of a new name can be appended.
LEMMA AppendUnique ==
    ASSUME NEW ds \in Seq(Decl), NEW es \in Seq(Decl), Len(es) = 1,
           Unique(ds), es[1].name \notin Declared(ds)
    PROVE  Unique(ds \o es)
<1>1. /\ DOMAIN (ds \o es) = 1..(Len(ds) + 1)
      /\ \A k \in 1..Len(ds) : (ds \o es)[k] = ds[k]
      /\ (ds \o es)[Len(ds) + 1] = es[1]
      /\ DOMAIN ds = 1..Len(ds)
      /\ Len(ds) \in Nat
    <2>1. Len(es) = 1 /\ 1 \in 1..1
        OBVIOUS
    <2>2. /\ DOMAIN (ds \o es) = 1..(Len(ds) + Len(es))
          /\ \A k \in 1..Len(ds) : (ds \o es)[k] = ds[k]
          /\ \A k \in 1..Len(es) : (ds \o es)[Len(ds) + k] = es[k]
          /\ DOMAIN ds = 1..Len(ds) /\ Len(ds) \in Nat
        BY ConcatElements
    <2>3. (ds \o es)[Len(ds) + 1] = es[1]
        BY <2>1, <2>2
    <2> QED
        BY <2>1, <2>2, <2>3
<1>2. \A k \in 1..Len(ds) : (ds \o es)[k].name # es[1].name
    BY <1>1 DEF Declared
<1> SUFFICES ASSUME NEW j \in DOMAIN (ds \o es), NEW k \in DOMAIN (ds \o es),
                    (ds \o es)[j].name = (ds \o es)[k].name
             PROVE  j = k
    BY DEF Unique
<1>3. \A i \in DOMAIN (ds \o es) : i \in 1..Len(ds) \/ i = Len(ds) + 1
    BY <1>1
<1>4. CASE j \in 1..Len(ds) /\ k \in 1..Len(ds)
    BY <1>1, <1>4 DEF Unique
<1>5. CASE j \in 1..Len(ds) /\ k = Len(ds) + 1
    BY <1>1, <1>2, <1>5
<1>6. CASE j = Len(ds) + 1 /\ k \in 1..Len(ds)
    BY <1>1, <1>2, <1>6
<1> QED
    BY <1>3, <1>4, <1>5, <1>6

\* A block of a paragraph with one declaration has one declaration.
LEMMA BlockSingle ==
    ASSUME TypeOK, NEW s \in Symbol, NEW block \in Blocks(s),
           \A p \in files : Len(p) = 1
    PROVE  Len(block) = 1
<1>1. PICK p \in files : \E k \in DOMAIN p :
        block = [j \in 1..(Len(p) - k + 1) |-> Cut(p[k + j - 1])]
    BY DEF Blocks
<1>2. PICK k \in DOMAIN p :
        block = [j \in 1..(Len(p) - k + 1) |-> Cut(p[k + j - 1])]
    BY <1>1
<1>3. p \in Seq(Decl) /\ Len(p) = 1
    BY LinkerAssumption DEF TypeOK
<1>4. k = 1 /\ Len(p) - k + 1 = 1
    BY <1>3
<1>5. block \in Seq(Decl) /\ DOMAIN block = 1..1
    BY <1>2, <1>4, BlockOK
<1> QED
    BY <1>5

LEMMA OneDeclarationStep ==
    TypeOK /\ OneDeclaration /\ [Next]_vars => OneDeclaration'
<1> SUFFICES ASSUME TypeOK, OneDeclaration, [Next]_vars,
                    Separated', UniqueProgram'
             PROVE  Unique(merged')
    BY DEF OneDeclaration, Unique
<1>1. program' = program /\ versions' = versions
    BY DEF Next, LinkStep, StartRound, Return, EndRound, Skip, Search, Link, Edit, vars
<1>2. Unique(merged) /\ Separated
    BY <1>1 DEF OneDeclaration, UniqueProgram, Unique, Separated
<1>3. CASE merged' = merged
    BY <1>2, <1>3
<1>4. ASSUME NEW s \in queue, Search(s), merged' # merged PROVE Unique(merged')
    <2>1. PICK block \in Blocks(s) : merged' = merged \o block
        BY <1>4 DEF Search, Link, Return
    <2>2. s \in Symbol /\ (\A p \in files : Len(p) = 1) /\ merged \in Seq(Decl)
        BY <1>2 DEF TypeOK, Separated
    <2>3. block \in Seq(Decl) /\ block[1].name = s /\ Len(block) = 1
        BY <2>2, BlockOK, BlockSingle
    <2>4. s \notin Declared(merged)
        BY <1>4 DEF Search
    <2> QED
        BY <1>2, <2>1, <2>2, <2>3, <2>4, AppendUnique
<1>5. merged' = merged \/ \E s \in queue : Search(s)
    BY DEF Next, LinkStep, StartRound, Return, EndRound, Skip, Edit, vars
<1> QED
    BY <1>3, <1>4, <1>5

\* Where paragraphs declare one thing and the source declares each name once,
\* linking never declares a name a second time, so that no linked declaration
\* takes the place of a local one.
THEOREM NamesStayUnique == Spec => []OneDeclaration
<1>1. Init => OneDeclaration
    BY DEF Init, OneDeclaration, UniqueProgram
<1>2. TypeOK /\ OneDeclaration /\ [Next]_vars => OneDeclaration'
    BY OneDeclarationStep
<1> QED
    BY <1>1, <1>2, TypeCorrect, PTL DEF Spec

-----------------------------------------------------------------------------
\* A step of link appends a block to the program, or leaves it as it is.
LEMMA MergedStep ==
    ASSUME [Next]_vars
    PROVE  /\ program' = program /\ versions' = versions
           /\ UNCHANGED <<merged, seen>> \/ \E s \in queue : Search(s) /\ ~UNCHANGED <<merged, seen>>
    BY DEF Next, LinkStep, StartRound, Return, EndRound, Skip, Search, Link, Edit, vars

\* What a search that finds its block does.
LEMMA SearchLinks ==
    ASSUME NEW s \in queue, Search(s), ~UNCHANGED <<merged, seen>>
    PROVE  \E block \in Blocks(s) :
             /\ Blocks(s) = {block}
             /\ Link(s, block, Unresolved(merged \o block) \ (seen \cup {s}))
             /\ s \notin seen \cup Declared(merged)
             /\ status = "search"
    BY DEF Search, Return

\* With files that do not change, a name that was looked up has one text in
\* the whole search path.
THEOREM TextsAreUnambiguous == Spec => []Unambiguous
<1>1. Init => Unambiguous
    BY DEF Init, Unambiguous
<1>2. TypeOK /\ Unambiguous /\ [Next]_vars => Unambiguous'
    <2> SUFFICES ASSUME TypeOK, Unambiguous, [Next]_vars, Unedited', NEW t \in seen'
                 PROVE  Cardinality(Blocks(t)') = 1
        BY DEF Unambiguous
    <2>1. Unedited /\ files' = files
        <3>1. files' \in versions
            BY DEF Next, LinkStep, StartRound, Return, EndRound, Skip, Search, Link, Edit, vars, TypeOK
        <3> QED
            BY <3>1, MergedStep DEF Unedited, TypeOK
    <2>2. Blocks(t)' = Blocks(t)
        BY <2>1 DEF Blocks
    <2>3. CASE t \in seen
        BY <2>1, <2>2, <2>3 DEF Unambiguous
    <2>4. CASE t \notin seen
        <3>1. PICK s \in queue : Search(s) /\ ~UNCHANGED <<merged, seen>>
            BY <2>4, MergedStep
        <3>2. PICK block \in Blocks(s) :
                Blocks(s) = {block} /\ Link(s, block, Unresolved(merged \o block) \ (seen \cup {s}))
            BY <3>1, SearchLinks
        <3>3. t = s
            BY <2>4, <3>2 DEF Link
        <3> QED
            BY <2>2, <3>2, <3>3, FS_Singleton
    <2> QED
        BY <2>3, <2>4
<1> QED
    BY <1>1, <1>2, TypeCorrect, PTL DEF Spec

-----------------------------------------------------------------------------
(***************************************************************************)
(* Progress.  A round that queues something for the next one has linked    *)
(* something; only the last round may have linked nothing.                 *)
(***************************************************************************)
Progress ==
    /\ IsFiniteSet(seen)
    /\ depth <= Cardinality(seen) + 1
    /\ status = "round" /\ queue # {} => depth <= Cardinality(seen)
    /\ status = "search" /\ nextQueue # {} => depth <= Cardinality(seen)

LEMMA ProgressStep == TypeOK /\ Progress /\ [Next]_vars => Progress'
<1> SUFFICES ASSUME TypeOK, Progress, [Next]_vars PROVE Progress'
    OBVIOUS
<1>1. Cardinality(seen) \in Nat /\ depth \in Nat
    BY FS_CardinalityType, LinkerAssumption DEF Progress, TypeOK
<1>2. CASE StartRound
    BY <1>1, <1>2 DEF StartRound, Return, Progress
<1>3. CASE EndRound
    BY <1>1, <1>3 DEF EndRound, Progress
<1>4. ASSUME NEW s \in queue, Skip(s) PROVE Progress'
    BY <1>4 DEF Skip, Progress
<1>5. ASSUME NEW s \in queue, Search(s), ~UNCHANGED <<merged, seen>> PROVE Progress'
    <2>1. PICK block \in Blocks(s) :
            /\ Link(s, block, Unresolved(merged \o block) \ (seen \cup {s}))
            /\ s \notin seen /\ status = "search"
        BY <1>5, SearchLinks
    <2>2. seen' = seen \cup {s} /\ depth' = depth /\ status' = "search"
        BY <2>1 DEF Link
    <2>3. IsFiniteSet(seen') /\ Cardinality(seen') = Cardinality(seen) + 1
        BY <2>1, <2>2, FS_AddElement DEF Progress
    <2> QED
        BY <1>1, <2>2, <2>3 DEF Progress
<1>6. ASSUME NEW s \in queue, Search(s), UNCHANGED <<merged, seen>> PROVE Progress'
    <2>1. CASE Return("not_found") \/ Return("collision") \/ Return("parse_error")
        BY <2>1 DEF Return, Progress
    <2>2. ASSUME NEW block \in Blocks(s), Link(s, block, Unresolved(merged \o block) \ (seen \cup {s}))
          PROVE  Progress'
        <3>1. s \notin seen /\ seen' = seen \cup {s}
            BY <1>6, <2>2 DEF Link, Search
        <3> QED
            BY <1>6, <3>1
    <2> QED
        BY <1>6, <2>1, <2>2 DEF Search
<1>7. CASE Edit
    BY <1>7 DEF Edit, Progress
<1>8. CASE UNCHANGED vars
    BY <1>8 DEF vars, Progress
<1> QED
    BY <1>2, <1>3, <1>4, <1>5, <1>6, <1>7, <1>8 DEF Next, LinkStep

\* Every round but the last one begun has linked something.
THEOREM RoundsMakeProgress == Spec => []RoundsProgress
<1>1. Init => Progress
    BY FS_EmptySet DEF Init, Progress
<1>2. TypeOK /\ Progress /\ [Next]_vars => Progress'
    BY ProgressStep
<1>3. Progress => RoundsProgress
    BY DEF Progress, RoundsProgress
<1> QED
    BY <1>1, <1>2, <1>3, TypeCorrect, PTL DEF Spec

-----------------------------------------------------------------------------
(***************************************************************************)
(* Nothing unneeded.  A set that has what the source lacks, and what the   *)
(* names in it mention, has every name that was linked and every name that *)
(* is queued; a declaration of one of the source's names is the source's.  *)
(***************************************************************************)
ClosedSet(need) ==
    /\ Unresolved(program) \subseteq need
    /\ \A k \in DOMAIN merged :
         merged[k].name \in need =>
            (merged[k].head \cup merged[k].tail) \ (Known \cup Declared(program)) \subseteq need

Wanted ==
    Separated =>
        /\ Declared(program) \subseteq Declared(merged)
        /\ \A k \in DOMAIN merged :
             \/ merged[k].name \notin Declared(program)
             \/ \E j \in DOMAIN program : merged[k] = program[j]
        /\ \A need \in SUBSET Symbol :
             ClosedSet(need) =>
                /\ Declared(merged) \ Declared(program) \subseteq need
                /\ queue \cup nextQueue \subseteq need

\* What is unresolved after a block has been appended is needed.
LEMMA MissingIsNeeded ==
    ASSUME NEW need \in SUBSET Symbol, NEW ds \in Seq(Decl),
           Unresolved(program) \subseteq need,
           Declared(program) \subseteq Declared(ds),
           Declared(ds) \ Declared(program) \subseteq need,
           \A k \in DOMAIN ds : ds[k].name \in need =>
               (ds[k].head \cup ds[k].tail) \ (Known \cup Declared(program)) \subseteq need,
           \A k \in DOMAIN ds :
               ds[k].name \notin Declared(program) \/ \E j \in DOMAIN program : ds[k] = program[j]
    PROVE  Unresolved(ds) \subseteq need
<1> SUFFICES ASSUME NEW x \in Unresolved(ds) PROVE x \in need
    OBVIOUS
<1>1. PICK k \in DOMAIN ds : x \in ds[k].head \cup ds[k].tail
    BY DEF Unresolved, Mentioned
<1>2. x \notin Known \cup Declared(program)
    BY DEF Unresolved
<1>3. CASE ds[k].name \in need
    BY <1>1, <1>2, <1>3
<1>4. CASE ds[k].name \notin need
    <2>1. ds[k].name \in Declared(program)
        BY <1>4 DEF Declared
    <2>2. PICK j \in DOMAIN program : ds[k] = program[j]
        BY <2>1
    <2>3. x \in Mentioned(program)
        BY <1>1, <2>2 DEF Mentioned
    <2> QED
        BY <1>2, <2>3 DEF Unresolved
<1> QED
    BY <1>3, <1>4

LEMMA WantedStep == TypeOK /\ Wanted /\ [Next]_vars => Wanted'
<1> SUFFICES ASSUME TypeOK, Wanted, [Next]_vars, Separated' PROVE Wanted'
    BY DEF Wanted
<1>1. program' = program /\ versions' = versions /\ Separated
    BY MergedStep DEF Separated
<1>2. Declared(program)' = Declared(program) /\ Unresolved(program)' = Unresolved(program)
    BY <1>1 DEF Declared, Unresolved, Mentioned
<1>3. ASSUME UNCHANGED merged, queue' \cup nextQueue' \subseteq queue \cup nextQueue PROVE Wanted'
    <2>1. \A need : ClosedSet(need)' <=> ClosedSet(need)
        BY <1>1, <1>2, <1>3 DEF ClosedSet
    <2>2. Declared(merged)' = Declared(merged)
        BY <1>3 DEF Declared
    <2> QED
        BY <1>1, <1>2, <1>3, <2>1, <2>2 DEF Wanted
<1>4. ASSUME NEW s \in queue, Search(s), ~UNCHANGED <<merged, seen>> PROVE Wanted'
    <2>1. PICK block \in Blocks(s) :
            /\ Link(s, block, Unresolved(merged \o block) \ (seen \cup {s}))
            /\ s \notin Declared(merged)
        BY <1>4, SearchLinks
    <2>2. /\ merged' = merged \o block /\ queue' = queue \ {s}
          /\ nextQueue' \subseteq nextQueue \cup Unresolved(merged \o block)
        BY <2>1 DEF Link
    <2>3. s \in Symbol /\ merged \in Seq(Decl) /\ (\A p \in files : Len(p) = 1)
        BY <1>1 DEF TypeOK, Separated
    <2>4. block \in Seq(Decl) /\ block[1].name = s /\ Len(block) = 1
        BY <2>3, BlockOK, BlockSingle
    <2>5. /\ merged' \in Seq(Decl) /\ DOMAIN merged = 1..Len(merged) /\ Len(merged) \in Nat
          /\ DOMAIN merged' = 1..(Len(merged) + Len(block))
          /\ \A k \in 1..Len(merged) : merged'[k] = merged[k]
          /\ \A k \in 1..Len(block) : merged'[Len(merged) + k] = block[k]
        BY <2>2, <2>3, <2>4, ConcatElements
    <2>6. /\ \A k \in DOMAIN merged' : k \in DOMAIN merged \/ k = Len(merged) + 1
          /\ merged'[Len(merged) + 1] = block[1]
        BY <2>4, <2>5
    <2>7. Declared(merged') = Declared(merged) \cup {s}
        <3>1. DOMAIN block = 1..1
            BY <2>4
        <3>2. Declared(block) = {s}
            BY <2>4, <3>1 DEF Declared
        <3> QED
            BY <2>2, <2>3, <2>4, <3>2, ConcatDeclares
    <2>8. Declared(program) \subseteq Declared(merged) /\ s \notin Declared(program)
        BY <1>1, <2>1 DEF Wanted
    <2>9. ASSUME NEW k \in DOMAIN merged'
          PROVE  \/ merged'[k].name \notin Declared(program)
                 \/ \E j \in DOMAIN program : merged'[k] = program[j]
        <3>1. CASE k \in DOMAIN merged
            BY <1>1, <2>5, <3>1 DEF Wanted
        <3>2. CASE k = Len(merged) + 1
            BY <2>4, <2>6, <2>8, <3>2
        <3> QED
            BY <2>6, <3>1, <3>2
    <2>10. ASSUME NEW need \in SUBSET Symbol, ClosedSet(need)'
           PROVE  /\ Declared(merged') \ Declared(program) \subseteq need
                  /\ queue' \cup nextQueue' \subseteq need
        <3>1. /\ Unresolved(program) \subseteq need
              /\ \A k \in DOMAIN merged' : merged'[k].name \in need =>
                   (merged'[k].head \cup merged'[k].tail) \ (Known \cup Declared(program)) \subseteq need
            BY <1>2, <2>10 DEF ClosedSet
        <3>2. ClosedSet(need)
            BY <2>5, <3>1 DEF ClosedSet
        <3>3. Declared(merged) \ Declared(program) \subseteq need /\ queue \cup nextQueue \subseteq need
            BY <1>1, <3>2 DEF Wanted
        <3>4. Declared(merged') \ Declared(program) \subseteq need
            BY <2>7, <3>3
        <3>5. Unresolved(merged') \subseteq need
            BY <2>5, <2>7, <2>8, <2>9, <3>1, <3>4, MissingIsNeeded
        <3> QED
            BY <2>2, <3>3, <3>4, <3>5
    <2> QED
        BY <1>1, <1>2, <2>7, <2>8, <2>9, <2>10 DEF Wanted, Declared
<1>5. ASSUME UNCHANGED <<merged, seen>> PROVE Wanted'
    <2>1. queue' \cup nextQueue' \subseteq queue \cup nextQueue
        <3>1. ASSUME NEW s \in queue, NEW block \in Blocks(s), Search(s),
                     Link(s, block, Unresolved(merged \o block) \ (seen \cup {s}))
              PROVE  FALSE
            BY <1>5, <3>1 DEF Link, Search
        <3> QED
            BY <3>1 DEF Next, LinkStep, StartRound, Return, EndRound, Skip, Search, Edit, vars
    <2> QED
        BY <1>3, <1>5, <2>1
<1> QED
    BY <1>4, <1>5, MergedStep

\* Nothing is linked that the source does not need, where paragraphs declare
\* one thing, also when files are rewritten meanwhile.
THEOREM LinkedIsNeeded == Spec => []NothingUnneeded
<1>1. Init => Wanted
    BY DEF Init, Wanted, ClosedSet
<1>2. TypeOK /\ Wanted /\ [Next]_vars => Wanted'
    BY WantedStep
<1>3. Wanted => NothingUnneeded
    BY DEF Wanted, ClosedSet, NothingUnneeded
<1> QED
    BY <1>1, <1>2, <1>3, TypeCorrect, PTL DEF Spec

-----------------------------------------------------------------------------
(***************************************************************************)
(* What link is to find, by the files alone: the names that the source     *)
(* lacks, those that their texts mention, and so on.  While the files stay *)
(* as they are, and a paragraph declares one thing, link finds that and    *)
(* nothing else, or fails for one of these names.                          *)
(***************************************************************************)
Steady == Unedited /\ Separated

FilesClosed(need) ==
    /\ Unresolved(program) \subseteq need
    /\ \A n \in need : \A b \in Blocks(n) :
         Mentioned(b) \ (Known \cup Declared(program)) \subseteq need

Needed(s) == \A need \in SUBSET Symbol : FilesClosed(need) => s \in need

\* Behind the source stand texts of the files, each the one text of its name.
Linked ==
    /\ DOMAIN program \subseteq DOMAIN merged
    /\ \A k \in DOMAIN program : merged[k] = program[k]
    /\ \A k \in DOMAIN merged \ DOMAIN program :
         merged[k].name \notin Declared(program) /\ Blocks(merged[k].name) = {<<merged[k]>>}

\* A search that fails leaves the name it was for at the front of the queue.
Fault(s) ==
    \/ status = "not_found" /\ Blocks(s) = {}
    \/ status = "collision" /\ Cardinality(Blocks(s)) > 1
    \/ status = "parse_error" /\ \E b \in Blocks(s) : \E k \in DOMAIN b : ~b[k].parses
Failing == status \in Errors \ {"depth_exceeded"} => \E s \in queue : Fault(s)

FromFiles == Steady => Linked /\ Failing

\* The files of an unedited search path say the same after every step.
LEMMA FilesStay ==
    ASSUME TypeOK, [Next]_vars, Steady'
    PROVE  /\ Steady /\ files' = files /\ program' = program
           /\ \A s : Blocks(s)' = Blocks(s)
<1>1. program' = program /\ versions' = versions
    BY MergedStep
<1>2. files' \in versions
    BY DEF Next, LinkStep, StartRound, Return, EndRound, Skip, Search, Link, Edit, vars, TypeOK
<1>3. Steady /\ files' = files
    BY <1>1, <1>2 DEF Steady, Unedited, Separated, TypeOK
<1> QED
    BY <1>1, <1>3 DEF Blocks

LEMMA FromFilesInit == Init => FromFiles
    BY DEF Init, FromFiles, Linked, Failing, Errors

LEMMA FromFilesStep == TypeOK /\ FromFiles /\ [Next]_vars => FromFiles'
<1> SUFFICES ASSUME TypeOK, FromFiles, [Next]_vars, Steady' PROVE Linked' /\ Failing'
    BY DEF FromFiles
<1>1. Steady /\ files' = files /\ program' = program /\ \A s : Blocks(s)' = Blocks(s)
    BY FilesStay
<1>2. Linked /\ Failing
    BY <1>1 DEF FromFiles
<1>3. Declared(program)' = Declared(program)
    BY <1>1 DEF Declared
<1>4. Linked'
    <2> DEFINE Text(d) == d.name \notin Declared(program) /\ Blocks(d.name) = {<<d>>}
    <2>1. \A d : Text(d)' <=> Text(d)
        BY <1>1, <1>3
    <2>2. Linked <=> /\ DOMAIN program \subseteq DOMAIN merged
                     /\ \A k \in DOMAIN program : merged[k] = program[k]
                     /\ \A k \in DOMAIN merged \ DOMAIN program : Text(merged[k])
        BY DEF Linked
    <2>3. Linked' <=> /\ DOMAIN program \subseteq DOMAIN merged'
                      /\ \A k \in DOMAIN program : merged'[k] = program[k]
                      /\ \A k \in DOMAIN merged' \ DOMAIN program : Text(merged'[k])
        BY <1>1, <1>3 DEF Linked, Blocks
    <2>4. CASE merged' = merged
        BY <1>2, <2>2, <2>3, <2>4
    <2>5. ASSUME NEW s \in queue, Search(s), ~UNCHANGED <<merged, seen>> PROVE Linked'
        <3>1. PICK block \in Blocks(s) :
                /\ Blocks(s) = {block} /\ s \notin Declared(merged)
                /\ merged' = merged \o block
            BY <2>5, SearchLinks DEF Link
        <3>2. s \in Symbol /\ merged \in Seq(Decl) /\ \A p \in files : Len(p) = 1
            BY <1>1 DEF TypeOK, Steady, Separated
        <3>3. block \in Seq(Decl) /\ block[1].name = s /\ Len(block) = 1
            BY <3>2, BlockOK, BlockSingle
        <3>4. block = <<block[1]>>
            BY <3>3
        <3>5. /\ DOMAIN merged = 1..Len(merged) /\ Len(merged) \in Nat
              /\ DOMAIN merged' = 1..(Len(merged) + Len(block))
              /\ \A k \in 1..Len(merged) : merged'[k] = merged[k]
              /\ \A k \in 1..Len(block) : merged'[Len(merged) + k] = block[k]
            BY <3>1, <3>2, <3>3, ConcatElements
        <3>6. merged'[Len(merged) + 1] = block[1]
            BY <3>3, <3>5
        <3>7. Declared(program) \subseteq Declared(merged)
            BY <1>2 DEF Linked, Declared
        <3>8. Text(block[1])
            BY <3>1, <3>3, <3>4, <3>7
        <3>9. \A k \in DOMAIN merged' : k \in DOMAIN merged \/ k = Len(merged) + 1
            BY <3>3, <3>5
        <3>10. ASSUME NEW k \in DOMAIN merged' \ DOMAIN program PROVE Text(merged'[k])
            <4>1. CASE k \in DOMAIN merged
                <5>1. Text(merged[k]) /\ merged'[k] = merged[k]
                    BY <1>2, <2>2, <3>5, <4>1
                <5> HIDE DEF Text
                <5> QED
                    BY <5>1
            <4>2. CASE k = Len(merged) + 1
                <5> HIDE DEF Text
                <5> QED
                    BY <3>6, <3>8, <4>2
            <4> QED
                BY <3>9, <4>1, <4>2
        <3> HIDE DEF Text
        <3>11. DOMAIN program \subseteq DOMAIN merged' /\ \A k \in DOMAIN program : merged'[k] = program[k]
            <4>1. DOMAIN merged \subseteq DOMAIN merged' /\ \A k \in DOMAIN merged : merged'[k] = merged[k]
                BY <3>3, <3>5
            <4> QED
                BY <1>2, <2>2, <4>1
        <3> QED
            BY <2>3, <3>10, <3>11
    <2> QED
        BY <2>4, <2>5, MergedStep
<1>5. Failing'
    <2> SUFFICES ASSUME status' \in Errors \ {"depth_exceeded"} PROVE \E s \in queue' : Fault(s)'
        BY DEF Failing
    <2>1. \A s : Fault(s)' <=> \/ status' = "not_found" /\ Blocks(s) = {}
                               \/ status' = "collision" /\ Cardinality(Blocks(s)) > 1
                               \/ status' = "parse_error" /\ \E b \in Blocks(s) : \E k \in DOMAIN b : ~b[k].parses
        BY <1>1 DEF Fault
    <2>2. ASSUME NEW s \in queue, Search(s) PROVE queue' = queue /\ Fault(s)'
        <3>1. ASSUME NEW block \in Blocks(s), NEW more, Link(s, block, more) PROVE FALSE
            BY <2>2, <3>1 DEF Search, Link, Errors
        <3>2. \/ Blocks(s) = {} /\ Return("not_found")
              \/ Cardinality(Blocks(s)) > 1 /\ Return("collision")
              \/ (\E block \in Blocks(s) : \E k \in DOMAIN block : ~block[k].parses) /\ Return("parse_error")
            BY <2>2, <3>1 DEF Search
        <3> QED
            BY <2>1, <3>2 DEF Return
    <2>3. CASE UNCHANGED vars
        BY <1>2, <2>1, <2>3 DEF vars, Failing, Fault
    <2>4. UNCHANGED vars \/ \E s \in queue : Search(s)
        BY DEF Next, LinkStep, StartRound, Return, EndRound, Skip, Edit, Running, Errors
    <2> QED
        BY <2>2, <2>3, <2>4
<1> QED
    BY <1>4, <1>5

\* What is closed for the files is closed for the declarations linked so far.
LEMMA ClosedForFiles ==
    ASSUME TypeOK, Linked, NEW need \in SUBSET Symbol, FilesClosed(need)
    PROVE  ClosedSet(need)
<1> SUFFICES ASSUME NEW k \in DOMAIN merged, merged[k].name \in need
             PROVE  (merged[k].head \cup merged[k].tail) \ (Known \cup Declared(program)) \subseteq need
    BY DEF ClosedSet, FilesClosed
<1>1. CASE k \in DOMAIN program
    BY <1>1 DEF Linked, FilesClosed, Unresolved, Mentioned
<1>2. CASE k \notin DOMAIN program
    <2>1. <<merged[k]>> \in Blocks(merged[k].name)
        BY <1>2 DEF Linked
    <2>2. merged[k].head \cup merged[k].tail \subseteq Mentioned(<<merged[k]>>)
        BY DEF Mentioned
    <2> QED
        BY <2>1, <2>2 DEF FilesClosed
<1> QED
    BY <1>1, <1>2

\* A link that succeeds has linked the least set of names that is closed under what
\* the files say, each by its one text; a link that fails, other than for its depth,
\* fails for a name that this set cannot do without (link, search).
FindsTheClosure ==
    Steady =>
        /\ status = "done" =>
             /\ FilesClosed(Declared(merged) \ Declared(program))
             /\ \A s \in Declared(merged) \ Declared(program) : Needed(s)
             /\ \A k \in DOMAIN merged \ DOMAIN program : Blocks(merged[k].name) = {<<merged[k]>>}
        /\ status \in Errors \ {"depth_exceeded"} => \E s \in Symbol : Needed(s) /\ Fault(s)

LEMMA ClosureFound ==
    ASSUME TypeOK, FromFiles, Wanted, Queued, Steady
    PROVE  FindsTheClosure
<1> DEFINE D == Declared(merged) \ Declared(program)
<1>1. Linked /\ Failing
    BY DEF FromFiles
<1>2. ASSUME NEW s \in D \cup queue PROVE Needed(s)
    <2> SUFFICES ASSUME NEW need \in SUBSET Symbol, FilesClosed(need) PROVE s \in need
        BY DEF Needed
    <2>1. ClosedSet(need)
        BY <1>1, ClosedForFiles
    <2> QED
        BY <2>1 DEF Wanted, Steady
<1>3. ASSUME status = "done" PROVE FilesClosed(D)
    <2>1. \A x \in Mentioned(merged) : x \in Declared(merged) \cup Known
        BY <1>3 DEF Queued, Unresolved
    <2>2. Mentioned(program) \subseteq Mentioned(merged)
        BY <1>1 DEF Linked, Mentioned
    <2>3. Unresolved(program) \subseteq D
        BY <2>1, <2>2 DEF Unresolved
    <2>4. ASSUME NEW n \in D, NEW b \in Blocks(n)
          PROVE  Mentioned(b) \ (Known \cup Declared(program)) \subseteq D
        <3>1. PICK k \in DOMAIN merged : merged[k].name = n
            BY DEF Declared
        <3>2. k \notin DOMAIN program
            BY <1>1, <3>1 DEF Linked, Declared
        <3>3. b = <<merged[k]>>
            BY <1>1, <3>1, <3>2 DEF Linked
        <3>4. Mentioned(b) = merged[k].head \cup merged[k].tail
            BY <3>3 DEF Mentioned
        <3>5. Mentioned(b) \subseteq Mentioned(merged)
            BY <3>4 DEF Mentioned
        <3> QED
            BY <2>1, <3>5
    <2> QED
        BY <2>3, <2>4 DEF FilesClosed
<1>4. ASSUME status \in Errors \ {"depth_exceeded"} PROVE \E s \in Symbol : Needed(s) /\ Fault(s)
    BY <1>1, <1>2, <1>4 DEF Failing, TypeOK
<1> QED
    BY <1>1, <1>2, <1>3, <1>4 DEF FindsTheClosure, Linked

\* While the files stay as they are and a paragraph declares one thing, link
\* returns the least closed set of texts, or fails for a name that every
\* closed set has: neither the order of the search nor the rounds matter.
THEOREM LinkIsTheClosure == Spec => []FindsTheClosure
<1>1. Init => FromFiles /\ Wanted /\ Queued
    BY FromFilesInit, QueuedInit DEF Init, Wanted, ClosedSet
<1>2. TypeOK /\ FromFiles /\ Wanted /\ Queued /\ [Next]_vars => (FromFiles /\ Wanted /\ Queued)'
    BY FromFilesStep, WantedStep, QueuedStep
<1>3. TypeOK /\ FromFiles /\ Wanted /\ Queued => FindsTheClosure
    BY ClosureFound DEF FindsTheClosure
<1> QED
    BY <1>1, <1>2, <1>3, TypeCorrect, PTL DEF Spec
=============================================================================
