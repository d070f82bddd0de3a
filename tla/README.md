# A verification development for APSL

TLA+ models of the parts of APSL whose correctness depends on order, on
failures or on several actors, checked with TLC on small instances, and proofs
of their main safety properties checked with TLAPS for instances of any size.

All paths below are relative to the repository; `crates/` holds the fifteen
Rust crates. `PROJECT.json` lists the components, runs, mutants, findings,
hazards and theorems, and maps every definition to the lines it models.

## Inventory

| Component | State | Operations | Interacts with |
| --- | --- | --- | --- |
| `apsl-parse` | stack of indentations and depth of brackets while lexing; the next token while parsing | text to AST | every front end |
| `apsl-core` | none (pure) | AST to canonical text, SHA-256 | `apslc`, `apsl-artifact`, `apsl-cert` |
| `apsl-link` | merged program, queue of symbols, symbols seen, depth; the `.apsl` files of the search path | `link` | called by `apslc`, `apsl-cert emit`, `apsl run`; not by the workbench |
| `apsl-types` | substitution, alias and signature tables | `type_check`, string-strict checks | gates of every front end |
| `apsl-complex` | none (pure) | `prove`: derives the cost of evaluating a node's predicates, compares it with the declared cost and with O(n log n) | gates of emit and compile, `apslc`, linter |
| `apsl-smt` | a solver process per node | `discharge_node`: encode, run, read the verdict | gates of emit and compile, linter |
| `apsl-cert` | key files; the certificate store directory | `emit`, `verify`, `put`, `get`, key save and load | `apsl-cert-cli`, workbench |
| `apsl-cert-cli` | none of its own | `key`, `emit`, `verify`, `show` | the store, shared with other processes |
| `apsl-workbench` | one key and one store for all requests, nix build directories | `/compile`, `/build`, `/jacobian-verify`, `/verify` | the store; requests run concurrently |
| `apsl-runtime`, `apsl` | value threaded through the graph, proofs | `run`, `nodes`, `verify` | node scripts and vault, as child processes |
| `apslc` | the text and the program of one run | `parse`, `canon`, `hash`, `check`, `compile`; the checks of `--string-strict`, `--state`, `--nominal`, `--restricted`, `--rooted`, `--strict`; the rewriting of `--migrate` | parser, linker, types, artifact |
| `apsl-artifact` | tables of types, contracts and occurrences while compiling | `ArtifactOf` a checked program: addresses, hashes, flows | called by `apslc compile` |
| `apsl-verify` | none | Jacobian sampling in floating point | workbench |
| `apsl-lint` | none | reports | provers |

What makes each part correct, in a sentence: the store never shows a half-written
certificate; a certification run stores nothing of a source that fails any gate;
a text is read as the program it was written from; a mode refuses what it is
documented to refuse and nothing else; an artifact can be read back as its
program, and its hashes are equal for equal contracts only; linking closes a program without changing what it declares; the checker accepts
exactly what has a type; a proof of a predicate is a proof of what it says; the
runtime hands each node the output of the one before and records that.

What is hard in this code is listed, with its line, under `hazards` in
`PROJECT.json`. The main ones: writers of one certificate share one temporary
file (`crates/apsl-cert/src/store.rs:50`); a certification run puts several
certificates one by one and may stop between them; the linker appends whole
paragraphs for one symbol and re-reads files for every symbol; the runtime
threads one value through nodes that take effect outside of it; the lexer turns
indentation into blocks, inside brackets and across comments, before anything is
parsed; `--migrate` rewrites a text line by line before it is read.

## Modules

| Module | Models | Uses |
| --- | --- | --- |
| `AtomicStore` | what `store.rs` promises: a set of certificates with an atomic `put` and `get_bytes` | |
| `CertStore` | `crates/apsl-cert/src/store.rs`, one action per file-system call | `AtomicStore` as the specification it implements |
| `CertStoreProofs` | theorems about `CertStore`, with the refinement of `AtomicStore` | `CertStore` |
| `CertEmit` | `emit_cmd` of `crates/apsl-cert-cli/src/main.rs`; `pipeline::compile` and the `/compile` and `/build` handlers of `crates/apsl-workbench` | `CertStore`: every run is a writer of the store |
| `CertEmitProofs` | theorems about `CertEmit` | `CertEmit`, `CertStoreProofs`, `Induction` |
| `Linker` | `crates/apsl-link/src` | |
| `LinkerProofs` | theorems about `Linker` | `Linker` |
| `Induction` | no code: induction over numbers, and what a function defined by recursion over an interval is; used by the proofs | |
| `Runtime` | `crates/apsl-runtime/src`, `Cmd::Run` of `crates/apsl/src/main.rs` | |
| `RuntimeProofs` | theorems about `Runtime` | `Runtime`, `Induction` |
| `Types` | types, schemes and the primitives: `types.rs`, `env.rs` of `crates/apsl-types` | |
| `TypeCheck` | `type_check` (`infer.rs`): the order in which predicates and flows are checked, and what steps join; what is done with one term is a parameter | `Types` |
| `Inference` | what is done with one term: substitutions, unification (`types.rs`), `infer` (`infer.rs`) | `Types` |
| `Typings` | no code: the types an expression can have, by search; the reference for `Inference` | `Inference` |
| `TypeCheckProofs` | theorems about `TypeCheck` | `TypeCheck`, `Induction` |
| `Complexity` | `crates/apsl-complex`: derived cost and verdict | |
| `Encoding` | `crates/apsl-smt/src/encode.rs`: the script of a node | |
| `Lint` | `crates/apsl-lint`, and the solver process of `crates/apsl-smt`; the provers' verdict on one node is a parameter | |
| `Contracts` | how many steps predicates take, counted, and of which predicates the properties of `Lint` speak | `Complexity`, `Encoding` |
| `LintProofs` | theorems about `Lint` | `Lint` |
| `Layout` | the lexer: `crates/apsl-parse/src/lex.rs` | |
| `Grammar` | the rules of `crates/apsl-parse/src/parse.rs` | `Layout` |
| `Parser` | how a rule is followed, and the tree it makes | `Grammar` |
| `Canon` | `canon.rs`, `hash.rs` of `crates/apsl-core` | `Parser` |
| `Flows` | the checks that follow names through a program: `--state`, `--nominal`, `--restricted` and the components of `--rooted` (`crates/apslc/src/main.rs`, `string_strict.rs` of `crates/apsl-types`); and what these checks are documented to mean | |
| `Modes` | the checks that look into terms: `--string-strict` (`string_strict.rs`), `--strict` and the bare `World` of `--rooted`; `--migrate` (`crates/apslc/src/main.rs`) | `Canon`, `Flows` |
| `Wiring` | how an artifact tells a flow: `build_graph` and `write_state_addresses` of `crates/apsl-artifact/src/lib.rs`; and what the tables it makes mean | `Flows` |
| `Artifact` | the rest of `crates/apsl-artifact/src/lib.rs` | `Modes`, `Wiring` |
| `Compiler` | `main` of `crates/apslc`: one run, from arguments to output | `Layout`, `Flows` |
| `CompilerProofs` | theorems about `Compiler`, `Layout`, `Flows` and `Wiring` | `Compiler`, `Wiring`, `Induction` |
| `Written` | no code: the ways to write a program, the reference `Layout` and `Parser` are checked against | `Parser` |
| `CompilerProperties` | what is promised of a run of `Compiler`, of texts and artifacts | `Compiler`, `Artifact`, `Written` |
| `MC*` | instances for TLC | the module they instantiate |

`CertStore`, `CertEmit`, `Linker`, `Runtime`, `TypeCheck`, `Layout`, `Flows`,
`Wiring` and `Compiler` have no recursive operators, so that they can be proved
about: where the code loops they have a function that is defined by recursion over
an interval. What follows terms has recursive operators: `Inference`, the provers,
`Grammar`, `Parser`, `Canon`, `Modes` and `Artifact`. `Compiler` therefore takes what these
define as parameters (`ReadDecl`, `StringsNamed`, `ArtifactFor`, ...); `compile.cfg`
puts the definitions in their place, so that the run checks the compiler with
its own parser, modes and artifacts, and a theorem about `Compiler` holds
whatever they are. In the same way `TypeCheck` takes what `Inference` defines
(`Inferred`, `Meet`, `Instance`, ...), and `types.cfg` puts it in place.

Operators whose comment begins with "Mutant:" are not part of a model: each is
a plausible mistake in the operation below it, and replacing the operation by
it makes the property it is listed with fail.

### How state and actions correspond to the code

**`CertStore`.** A writer is a thread or process inside `put`, a reader one
inside `get_bytes`; `wpc` and `rpc` say which system call comes next. `tmp` and
`final` are the directory entries of a certificate's two paths, `fd` what a
descriptor has open, `data` and `synced` what a file holds in memory and on
disk, so that two writers that open one temporary path share a file as they do
on a real file system. `File::create`, each `write(2)` of `write_all`,
`sync_all` and `rename` are `PutCreate`, `PutWrite`, `PutSync`, `PutRename` (or
`PutRenameGone`, when another writer has taken the file away). `PutFail` is a
`?` that returns, `PutCrash` a process that dies, `PowerLoss` and `Writeback`
the disk, which nobody asks to sync the directory. `GetExists`, `GetOpen`, `GetRead`
and `GetReturn` are `exists`, the calls of `read_to_string` and the comparison of
the hash; `GetFail` is its `?`, which may return wherever the path or the file is
read, and `exists` may answer false for a path it cannot examine. Two history
variables say what happened: `acked`, for which certificates a `put` has returned
`Ok`, and `shared`, which certificates two writers have ever stored at a time.

**`CertEmit`.** A run goes through the phases of `emit_cmd` and
`pipeline::compile`: front end, gate loop (one turn per declaration), then one
`put` after the other, in the steps of `CertStore`. What the provers answer is
chosen per node and call, a solver that gives up included. `ChildStep` are the
steps that wait for a child process (nix, the solver), which no timeout of the
repository ends; `OwnStep` are those that wait for nobody.

**`Linker`.** `queue` and `nextQueue` are the two symbol sets of `link`,
`merged` the program that grows, `seen` what it reports as resolved. The
contents of the search path can change between two searches (`Edit`), as files
are read again for each symbol.

**`Runtime`.** `value` is `current_value`, `proofs` what `Runtime::run` pushes,
`ran` a history of what has taken effect. A script prints any value, fails or
never returns.

**`TypeCheck`.** `subst` and `gen` are threaded through a declaration as in
`check_node` and `check_graph`; `cur` is what the previous position of a chain
offers; `Offers` is `node_outputs`, `Sources` and `FanIn` a tuple step. `Infer` of
`Inference` returns an outcome with its substitution also in error, because
the code mutates the one it was given. Lambdas (no source text yields one) and
cyclic aliases (on which the code recurs without end) are left out.

**`Complexity`, `Encoding`, `Lint`.** A predicate is a term. `CostOf`,
`Normalize` and `Encode` follow the functions of the code clause by clause;
`Lint` is `main`, with one step for the complexity report and one per node sent
to the solver. Beside `Encode` stand two evaluators: `Says`, what an expression
says of given lists, and `ScriptSays`, what its encoding says. `Lint` takes what is
said of one node as parameters (`Judge`, `Accepted`, `Unsatisfiable`), and what is so
(`Fulfilled`, `Slow`); the configurations put `ProveNode`, `WellFormed`,
`NeverFails`, `ContractHolds` and `TakesLong` in their places.

**`Layout`, `Grammar`, `Parser`.** A text is a sequence of lines, each its
indentation and its lexemes. `LexLine` is one turn of the lexer over a line:
`stack` holds the widths of the open blocks, `depth` the open brackets, inside
of which neither line breaks nor indentation count. `Grammar` has one entry per
function of `parse.rs`, which says what decides, what is read and what is kept;
`Run` follows it and goes back only where the code does (`Try`).

**`Flows`.** `ResolvedBase` is the loop of `resolved_base` over aliases it has
not seen; `Reachable` the work list of `check_nominal` and of `check_rooted`,
taken round by round. Beside each check stands what it is for, without a search:
`DefaultsTyped`, `FlowNarrows` and `Undivided` say with closed sets what an alias
stands for, who narrows whom and that a program is in one part.

**`Compiler`.** `text`, `at`, `lx`, `program` and `output` are the local
variables of `main` and of the lexer and parser it calls; `phase` says what is
next or how the run has ended. One action reads the file (and migrates its
text), one lexes a line, one parses a declaration; then the linker, the type
checker, one action per mode, and what is printed. What `Linker` and `TypeCheck`
model is left open here: the linker adds declarations from `Library` or refuses,
the type checker refuses whatever it likes and accepts no flow through unknown
names. Aliases that lead to themselves end a run in `Overflow`, as the code then
exhausts its stack.

## What the runs check

| Run | Question | Result |
| --- | --- | --- |
| `store` | Through crashes, I/O errors of writers and readers and power loss, with writers that overlap or not: is the store an `AtomicStore`? Does a final path name an incomplete file only where two puts of one certificate overlapped? Does a file ever shrink under its reader? | holds |
| `store_overlap` | Can an acknowledged certificate be read at once, with overlapping writers? | violated: the second writer truncates the file the first is about to rename |
| `emit_gates` | Do concurrent runs over one store keep every certificate of a source out unless the whole source passes? Do they report what they stored, leave it readable, and end? Whose fault is an incomplete file, and does it get completed? | holds: only a run still in `put`, or one stopped in that file; a certificate that was acknowledged is complete in the end otherwise; a run ends unless it waits for a child process for ever |
| `emit_repeated` | Is a certificate of an exceeding node ever stored? | violated: verdicts are looked up by name, names may repeat |
| `link` | Is a linked program closed, free of second declarations and of anything unneeded, independent of the order of directories? Does `link` return? | holds |
| `run` | Is one value threaded, in line order, each node once; does status 0 mean a complete record? Does the run end? | holds |
| `types` | Are the recorded errors exactly the predicates without a typing and the chains that do not compose? | holds, with the exception the next run shows |
| `types_stale` | Is an accepted program well typed? | violated: an argument may settle a variable of the type that was expected of it |
| `lint` | Does success of `pred` and `check` mean that contracts hold, and are the complexity verdicts those of counting steps? | holds, with the exception the next run shows |
| `lint_exists` | Does a proof mean the postcondition holds? | violated: `exists` is encoded with an implication |
| `compile` | Is a text read as what it was written from, in whatever style, and refused if it is no program? Does each mode refuse what it is for? Can an artifact be read back as its program, and are hashes equal for equal contracts only? | holds, `--strict` with the restriction named below |
| `migrate` | Does `--migrate` strip unsupported clauses only, whatever the layout of a text? | violated: a line that goes on inside parentheses, or with U+2192, is taken for a clause |

Each violated run is one entry under `findings` of `PROJECT.json`, with the line
of the code and the sentence it disagrees with.

### Bounds

* Store: two writers, one certificate, two pieces a file, one reader. Paths of
  different certificates never meet, so that one is enough for a race; a second
  piece is what makes a file partial; a third writer adds nothing to who truncates
  or renames under whom. Five inodes are more than two writers, a reader and the
  names can hold, so that a new file can always be made. Writers are
  interchangeable (`Symmetry`), and states that differ in the numbers of files, in
  files nothing refers to or in the histories `acked` and `torn`, of which no
  property of that run speaks, are taken for one (`UpToNumbers`): 710 thousand
  remain.
* Emit: two runs of any kind, five sources of one or two declarations: one that
  passes, one that fails each gate (after a declaration that passes), and one
  that is empty; `emit_repeated` has one source that repeats a name, one run.
  The certificates are those the gates may let through, so that `EmitTypeOK` says
  that no other is made.
* Linker: symbols 0 to 5, all subsets of ten one-declaration paragraphs and of
  seven longer ones, one workspace that is edited while it is read, `MaxDepth`
  3 for the 64 of the code: chains of references both shorter and longer than
  the limit occur.
* Runtime: three values, six flows (repeated names, several chains, tuple steps,
  a primitive, none) with missing scripts, vault nodes and postconditions.
* Types: about 4000 predicates of up to four levels over every kind of
  expression, about 4500 flows of up to three positions; `Ground` holds types of
  list depth three, more than any predicate here can ask for, so that a search
  in it finds a typing if there is one.
* Lint: about 2400 programs of one or two nodes; lists of at most two elements
  out of two, which tell `forall` from `exists` and an index in range from one
  that is not; `Index` allows four quantifiers in a clause. Counting uses one
  list of 256 elements, where n log n with a factor of 16 is still below n^2.

* Compiler: seven families of calls, each about one part. About 3400 texts of two
  predicates each, every operator beside and inside every other, in six styles;
  1300 of declarations with every clause, type and shape of flow in eight styles
  (brackets over lines, comments, blank lines, carriage returns, other glyphs,
  deeper indentation, folded flows, repeated clauses); about 50 texts that are no
  program and arguments that are none; 360 of an older form for `--migrate`, and 40
  in the layouts of `migrate`; 360
  programs for the checks of types (aliases of aliases in chains, twice declared
  and in cycles); 260 for the checks of flows (supertypes in chains, diamonds and
  cycles; programs in one part and in several); 450 for artifacts (pairs of nodes
  that differ in one clause, or in a name; flows that repeat nodes). A family has
  only the flags and styles that concern it: modes are checked one after the
  other, each of the program alone, so that combinations add only the order.

Deadlock is checked for the store, whose readers and writers can always go on.
The other systems stop: a command ends.

### Fairness

`EmitFairSpec`: a run that has started and waits for nobody (`OwnStep`: from the
end of the gate loop through every call of `put` to its exit) keeps being scheduled
by the operating system. Nothing is assumed of the child processes it waits for: nix
and the solver may hang, and `RunsEnd` and `AckedBecomesComplete` hold all the same,
`RunsEnd` with the exception of a run that waits for one for ever (`Waits`), as
`Stops` does for scripts. Nobody is forced to call, and no fault is forced to happen
or not to.
`Linker!FairSpec` and `TypeCheck!Spec`: one thread that never waits.
`Runtime!FairSpec`: the runtime itself goes on; a script need not return, which
is why `Stops` allows a run to stay in one for ever. `Lint` and `Compiler` have
no liveness property and no fairness.

## What is proved

For every value of the constants that satisfies the modules' `ASSUME`s:

| Theorem | Says | Argument |
| --- | --- | --- |
| `CertStoreProofs!TypeCorrect` | `Spec => []TypeOK` | type invariant with the files of busy writers and readers added |
| `CertStoreProofs!IncompleteOwed` | `Spec => []IncompleteIsOwed`, any number of writers | `NamedIsSound`: every file with a name, temporary or final, is complete, torn, or owed its missing pieces by one writer whose descriptor is on it. `rename` only moves a name; `create` empties the file and makes the creator its debtor; a writer that stops marks it torn |
| `CertStoreProofs!PublishedComplete` | `Spec => []PublishedIsComplete` | `SoleInv`: of a certificate that is not `shared` there is one writer (`OneWriter`), the file under its temporary path belongs to that writer and holds what it has written so far (`WriterOwns`), the files its final path has named are whole also on disk (`WholeOnDisk`); and no file has a temporary and another name (`Apart`), shared or not. The property alone is not inductive: it does not say that the file a `rename` publishes has been written and synced |
| `CertStoreProofs!StoreIsAtomic` | `Spec => ImplementsAtomicStore`, writers that overlap and reads that fail included | `RefInv` adds to `SoleInv` what the mapping needs: who is about to rename finds its temporary file (`Ready`), what a power cut leaves of a directory was there before it (`Kept`), a reader has open a whole file that nobody writes to (`ReadersRead`). Then `PutRename` is `Commit`, `GetExists` is `Lookup`, `GetReturn` and `GetFail` are `Answer`, a writer that fails or dies, or finds its temporary file taken away, is an `Abort`, `PowerLoss` a `Lose`, and all else a stutter (`AtomicStep`) |
| `CertStoreProofs!StableReads` | `Spec => ReadsAreStable` | `RefInv`: the file a reader has open has no temporary name any more (`ReadersRead`), and `create` empties only files that have one or that nothing refers to |
| `CertEmitProofs!RunsUseTheStore` | `EmitSpec => Spec` of the store | each action of a run moves the store's variables as one of its actions does, or not at all; so every theorem about the store holds of it under certification runs |
| `CertEmitProofs!EmitTypeCorrect` | `EmitSpec => []EmitTypeOK` | |
| `CertEmitProofs!ReportsAreStored` | `EmitSpec => []ReportsWhatItStored` | `Runs`, an invariant of each run: what is pending was made of the declarations that passed, in order, only in a source that passed the front end, and is complete before anything is stored (`Made`); what is reported is a prefix of it, and acknowledged (`Told`); a run is inside `put` for the next one and nowhere else (`Putting`) |
| `CertEmitProofs!OnlyPassedIsStored` | `EmitSpec => []StoredPassedEveryGate`, where no source repeats a name | the same; the gate's verdict is the first one reported under the node's name, its own only if names are not repeated. Without that assumption the theorem is false: `emit_repeated` is the counterexample |
| `CertEmitProofs!ReportedIsReadable` | `EmitSpec => []ReadableAtRest` | reported is acknowledged; acknowledged has a name; and `NamedIsSound` leaves no incomplete file to owe once nobody is busy and no writer has been stopped |
| `CertEmitProofs!StoreUnderRuns` | `EmitSpec => [](IncompleteIsOwed /\ PublishedIsComplete)` | `RunsUseTheStore`, with `IncompleteOwed` and `PublishedComplete` |
| `CertEmitProofs!RunsActAtomically` | `EmitSpec => ImplementsAtomicStore` | `RunsUseTheStore` and `StoreIsAtomic` |
| `CertEmitProofs!ReportedStaysReadable` | `EmitSpec => []ReadableOnceReported`: a reported hash can be looked up at once and for ever, whatever other runs do, unless one stores the same certificate at the same time | what is reported is acknowledged (`Told`), what is acknowledged has a name, and `PublishedIsComplete` |
| `LinkerProofs!TypeCorrect` | `Spec => []TypeOK` | |
| `LinkerProofs!LinkedIsClosed` | `Spec => []ClosedWhenDone`, any workspace, edits included | `Queued`: whatever is mentioned, not declared and not known is in `queue` or `nextQueue`; an empty queue at the start of a round leaves nothing |
| `LinkerProofs!NamesStayUnique` | `Spec => []OneDeclaration` | a block of a separated workspace declares just the symbol searched for, and that symbol was not declared |
| `LinkerProofs!TextsAreUnambiguous` | `Spec => []Unambiguous` | a symbol is seen only when a search has found one text for it, and files that are not edited still say the same |
| `LinkerProofs!RoundsMakeProgress` | `Spec => []RoundsProgress` | `Progress`: `depth` is at most one more than the number of symbols seen, and as soon as anything is queued for the next round it is no more than that |
| `LinkerProofs!LinkedIsNeeded` | `Spec => []NothingUnneeded`, edits included | `Wanted`: every set of names that has what the source lacks, and with a name what the text linked for it mentions, has all that is linked or queued |
| `LinkerProofs!LinkIsTheClosure` | `Spec => []FindsTheClosure`: over files that do not change, a link that succeeds has linked the least set of names that is closed under what the files say, each by its one text; one that fails, other than for its depth, fails for a name of every such set | `FromFiles`: behind the source stand the one texts of their names, and a search that fails leaves its name in the queue; so a set closed for the files is closed for what is linked (`Wanted`), and with an empty queue the other way about (`Queued`) |
| `RuntimeProofs!TypeCorrect` | `Spec => []TypeOK` | with `Lockstep`, without which the proof a script's success appends need not be one: while a script runs, its node is a declared one and one more node has been executed than proved |
| `RuntimeProofs!OneValueThreaded` | `Spec => []Threaded` | |
| `RuntimeProofs!NodesInOrder` | `Spec => []EffectsInOrder` | proofs and effects are in lockstep: one more effect exactly while a node executes |
| `RuntimeProofs!ZeroIsComplete` | `Spec => []ZeroMeansComplete` | `ExitOK`: an exit status is there only after the end of the loop or an error, and zero only if all proofs are there and verified; `VerifiedOK`: a proof is marked verified only of a node without postconditions |
| `RuntimeProofs!RecordsWhatIsRead` | `Spec => []ReadsWhatIsRecorded` | `ReadsOK`: what a script in flight has read is what its proof will record, the inherited `APSL_INPUT` aside |
| `RuntimeProofs!LineIsTheFlow` | for every program, the line has the names of its flow, `in` and `out` excepted, each once, in the order of their first mention | induction on how much of the flow has been read |
| `RuntimeProofs!NodesOnce` | `Spec => []EffectsOnce` | what has taken effect is a beginning of the line (`EffectsInOrder`), and `LineIsTheFlow` |
| `RuntimeProofs!ProducersAreFirst` | `Spec => []ProducersFirst` | the same: in one chain that names each node once, the order of the line is the order of the chain |
| `RuntimeProofs!RecordsAreWhole` | a run that prints its record has proved every name its flow mentions | `RecordHasAll`: the record has as many proofs as the line has nodes; and `LineIsTheFlow` |
| `RuntimeProofs!StepsRunOut` | every step leaves fewer steps to go (`StepsLeft`) | no run has more than two steps for each node of its line and three besides, so that only a script that never returns can hold it up; that it ends under fairness (`Stops`) stays with TLC |
| `TypeCheckProofs!PositionsHold` | `Spec => []Where`: the positions stay within the program, whatever follows terms | each action but the last moves one position, and starts the ones below it over |
| `TypeCheckProofs!TypesHold` | `Spec => []TypeOK`, where `FollowsTerms` | `Fits`: the substitution binds drawn variables, to types of drawn variables, and can be applied; what is carried along a chain and what nodes offer are types. `TypeOK` alone is not inductive: what a unification binds depends on the variables of what it is given |
| `TypeCheckProofs!SubstitutionsDoEnd` | `Spec => []SubstitutionsEnd`, where `FollowsTerms` | the same `Fits`, from predicate to predicate and along every chain |
| `TypeCheckProofs!PredicateErrorsAreExact` | `Spec => []PredicateErrorsExact`, where `FollowsTerms` and `InferenceExact` | `ErrorsSoFar`: the errors of predicates are those of the ones already checked that have no type; it holds from any substitution that `Fits`, so that what an error leaves bound does not matter; `Through`: who returns has checked all |
| `TypeCheckProofs!FanInLosesNothing` | for every sequence of types, a fan-in is the payloads of its sources in order, or these with one World put between them | induction over the sources: once a World is in, none is added |
| `TypeCheckProofs!FanInKeeps` | `Spec => []FanInKeepsEverySource`, where `FollowsTerms` | `Fits` makes types of the sources of each step; then induction over the sources, for those that all thread a World and for those that thread none |
| `TypeCheckProofs!AcceptedNamesAreKnown` | `Spec => []AcceptedIsNamed`: every name in a flow of an accepted program is a port, a node of it or a primitive; whatever follows terms | `Naming`: while there is no error the steps that are passed are named, and outputs are collected for known names only, so that a tuple step finds no other among them |
| `LintProofs!TypeCorrect` | `Spec => []TypeOK` | a program has one verdict for each node, or none yet |
| `LintProofs!SuccessIsWhole` | when `pred` or `check` succeeds a solver has refuted the script of every node, and when `check` does, no node was judged to exceed n log n; whatever the provers say | `Said`: the statuses are one for each node sent, in order, and `proved` only of a script that is one and asks for the impossible; `Where`: a run is before the solver for `pred` and `check` alone, for `check` with all verdicts; `CodeTells`: an exit code of 0 leaves no node, no status and no verdict out |
| `LintProofs!ProvedMeansHolds` | `Spec => []ProvedHolds`, where `ScriptsAreSound` | `SuccessIsWhole`: what holds of one script holds of the exit code for a program of any length |
| `LintProofs!CodesAreExact` | `Spec => []CostsExact`, where `CountsAreExact` | the same, of the complexity prover; `explain` and failures of the front end give no verdict |
| `CompilerProofs!BlocksAlwaysNest` | `Spec => []BlocksNest`, any text and any parser | `TextRead`: between two lexemes the widths of the open blocks grow from 0, no token is `Eof`, and there is one more open block than Indents without a Dedent (`Reading`); at the end the last token is the only `Eof` and the blocks are closed (`HasRead`). A line's scan keeps it by induction over its lexemes |
| `CompilerProofs!TypeCorrect` | `Spec => []TypeOK`, where `ReadsDeclarations` | `Typing`: `TextRead`, and the next token is one of those there are |
| `CompilerProofs!StateIsTyped` | for every program, `--state` accepts it exactly if its defaults are of the types that their aliases stand for, and paths are each declaration's own | the calls of `resolved_base` never repeat a name, so that as many as there are aliases reach the end; a closed set has the start if it has the end |
| `CompilerProofs!NominalIsNarrowing` | for every program, `--nominal` and `--restricted` accept it exactly if its flows narrow | a search that finds nothing new in a round has ended, and each other round finds a target: after as many rounds as there are targets, what is found is the least closed set |
| `CompilerProofs!RootedIsUndivided` | for every program, `--rooted` finds one component exactly if there is no way to part the nodes that cuts no flow | the same, over edges in both directions |
| `CompilerProofs!EveryModeIsChecked` | in every run, whatever the modes are: none that was asked for is passed by a program that it does not hold of, and none refuses another | `Verdicts`: of each of the five modes, all later phases included; the program no longer changes once modes are checked |
| `CompilerProofs!NameModes` | `Spec => []NameModesHold`, where `ReadsDeclarations` | the four theorems before it: the checks that the run makes are equivalent to what they are for, of every program, and a run has no other than a program |
| `CompilerProofs!FlowsAreTold` | for every graph, the flow that an artifact tells by occurrences is the graph's: every name can be read back, no name has two occurrences, and they are in the order of their first mention | `PlacesAre`: the places of a flow are listed each once, in order (induction over joined sequences); `Noted`: after `k` places the occurrences are of the names mentioned so far, each at the place that mentions it first |
| `CompilerProofs!StatesAreAddressed` | where a flow mentions nodes only, each state of each occurrence has one address in its artifact, with the contract and the kind of that state, and nothing else has one | addresses are in the order of owner and state, so that none is there twice; there are as many as states, and each state has its own |

The assumptions are `StoreAssumption`, `EmitAssumption`, `LinkerAssumption`,
`RuntimeAssumption`, `CheckAssumption`, `LintAssumption`, `LayoutAssumption` and
`CompilerAssumption`; they say what kinds of values the constants are (that
there is a source, and that a certificate exists for every node, implementation
and verdict that the gates may let through; that a token for layout is no lexeme; that lines are lines,
migrated or not, and that the linker adds declarations; that a node's verdict is
one of the three; that a program to check is made of sequences, without empty
steps) and nothing about how many. `OnlyPassedIsStored` assumes `UniqueNames`, and `LinkIsTheClosure` speaks of files that do not change and whose
paragraphs declare one symbol each. `StatesAreAddressed` speaks of graphs whose flow
mentions nodes only, which `Compilable` of `Compiler` sees to before an artifact is
made (`lib.rs:557` of `apsl-artifact`). Hashing is injective
throughout, an assumption of the models and not of the theorems.

`TypeCorrect` and `NameModes` of the compiler have one hypothesis about the
parser, which is a parameter there: `ReadsDeclarations`, that a declaration read
from tokens ends at or before the `Eof` behind them (`bump` of `parse.rs:47` goes
on only from a token that is there, and no rule takes `Eof`) and is a type, a node
or a graph. That `ParseDecl` does so is an induction over its rules; the run
`compile` checks it on every text it reads, as part of `TypeOK`.

Four theorems about the type checker say what a check makes of many calls, given
what each call does (`FollowsTerms` of `TypeCheckProofs`): an instance of a scheme
of functions is a function, over variables that are drawn for it; applying a
substitution that can be applied, and unifying under it, yields types and
substitutions over the variables drawn, and again one that can be applied; and so
does the inference of one predicate, which meets a cycle only if the predicate is
not plain. `Scope` stands for the types over the variables drawn so far, closed
under tuples and functions. That `Instantiate`, `Apply`, `UnifyUnder` and `InferBool`
do so is an induction over terms: TLC checks it of the calls the run `types`
makes, as `TypeOK` and `SubstitutionsEnd`. `PredicateErrorsAreExact` has the further
hypothesis that the inference of one plain predicate decides if it has a type
(`InferenceExact`): the run checks this of each of its 4000 predicates, most of
them alone in a program, where `PredicateErrorsExact` says no less. What the theorem
adds is any number of predicates and declarations, with errors among them.
Predicates that are not plain are those of `types_stale`.

Two theorems about the linter have hypotheses about one node, because what follows
its terms is a parameter: `ScriptsAreSound`, that a node keeps its contract if its
script is one and asks for the impossible, and `CountsAreExact`, that it is judged
to exceed n log n exactly if its predicates take that many steps. The run `lint`
checks both on every node of its programs, each of them also alone in one: there
`ProvedHolds` and `CostsExact` say no less. `ScriptsAreSound` holds of predicates
without `exists` and captured names (`IsPlain`); `lint_exists` shows why.

Only model-checked:

* everything under fairness (`AckedBecomesComplete`, `RunsEnd`, `Returns`,
  `Stops`), which the proof system does not reach;
* `FlowErrorsExact` of the type checker: all chains of a flow share one
  substitution, and which of its bindings an instance of a polymorphic node meets
  is a matter of what terms share variables, beyond what `FollowsTerms` tells;
* of the type checker, the provers and the compiler what follows terms (that
  inference decides one predicate, that the encoding of a predicate and its
  derived cost are right, `ReadsWhatWasWritten`, `MigrationKeepsTheRest`, `TextModesHold`,
  `ArtifactTellsTheProgram`, `SameHashSameContract`): terms are followed by
  recursive operators, and what these compute for every term is an induction over
  data. Of `ArtifactTellsTheProgram` the flow and the addresses of a graph (`TellsFlow`,
  `TellsStates`) are what `FlowsAreTold` and `StatesAreAddressed` state of every graph;
  its types and contracts, which hold terms, are TLC's. Induction over numbers is within reach, as `Induction` states it of sets of
  numbers in place of an operator.

## What is not modelled

* Keys, signatures and the verification of certificates (`key.rs`, `cert.rs`,
  `tcb.rs`; `key`, `verify` and `show` of `apsl-cert-cli`): in `CertEmit` a
  certificate is told apart by its node, implementation and verdict.
* Floating-point verification (`apsl-verify`), the HTTP layer, what `nix` does,
  and the workbench's index of implementations (`resolve.rs`), which only tests
  build.
* In the linker: the construction of the search path, and the branch for a
  primitive in the queue (`resolve.rs:136`), which never holds one. A declaration
  is a unit there; that a blank line inside of one ends the block that is linked
  (`search.rs:160`) is a hazard without a property.
* In the lexer and parser: how characters are grouped into lexemes, positions,
  the wording of errors, and numbers that do not fit 128 bits. In the canonical
  form: the escaping of strings; the model has JSON tokens, not characters.
* In `apslc`: what is printed besides the result, the warnings of `--state`
  included, and the panic of `println!` where the standard output is closed (only
  `compile` returns an error then, `NotWritten`); in an artifact the fields that repeat an index or copy a clause.
* In the predicate prover: strings, rationals, lambdas, the model a solver
  prints. A solver is trusted to answer `unsat` of unsatisfiable scripts only.
* In the complexity prover: hints and printed costs. Where a predicate iterates
  over something that is not a name, its size is not derived (`derive.rs:37`);
  `CostsExact` leaves those predicates aside.
* `TIGHT` reports of the linter say "declared was looser" (`main.rs:123`) of a
  declared cost that is below the derived one; what is printed is no part of the
  model.

What the code does and the models follow, but no property speaks of:

* of two clauses `cx`, `sla`, `via`, `auth`, `scope` or `audit` of one node the
  last counts, and a runtime class that is none is `idem`;
* `--nominal` checks the first input of a consumer only;
* `--strict` compares right-hand sides as they are written (`main.rs:233`), aliases in
  them unresolved, so that `type A = Int[]`, `type B = A` pass. This disagrees with
  the README ("Reject aliases that resolve to duplicate structural shapes",
  `README.md:144`, and `README.md:220`) and with its usage text ("every type alias must
  resolve to a unique structure", `main.rs:123`). `TextModesHold` therefore
  states of `--strict` what does hold, against what aliases resolve to (`Resolved`):
  it refuses a program only for two aliases that resolve to one structure, and lets
  none pass with two such aliases whose right-hand sides name no alias;
* a contract's hash leaves out the names of parameters, also where a predicate
  mentions them;
* a type whose alias leads to itself, `type A <: B` included, overflows the stack
  of the type checker when a signature mentions it.

## Plan

Done, in order of importance: the store with its abstract specification and the
proof that it implements it; the certification runs over it; the linker; the
runtime; the type checker; the provers; the compiler from text to artifact. To
come:

1. `KeyFiles` and `Certificate`: key pairs are two files written one after the
   other (`key.rs:14`), so a crash between them, or two runs of `key new`, can
   leave a pair that does not match; `canon`, `emit`, `verify` and `parse` of
   `cert.rs` with the property that what verifies is what was signed. Abstract
   specification: a key store with an atomic `new`.
2. `Compiler` composed with `Linker` and `TypeCheck` in place of what it leaves
   open.
3. What `--migrate` keeps of a text without continued lines, with what follows terms
   as a parameter, as in `Compiler`, `Lint` and `TypeCheck`.
