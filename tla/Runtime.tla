------------------------------- MODULE Runtime -------------------------------
(***************************************************************************)
(* `apsl run': crates/apsl/src/main.rs and crates/apsl-runtime/src.  The   *)
(* nodes of a graph are put in one line and executed one after the other;  *)
(* each is a program of its own, given the value of the one before.  The   *)
(* record of the run is printed when all of them have succeeded.           *)
(*                                                                         *)
(* Hashing is injective: a value stands for its hash, and the hash of a    *)
(* proof is the tuple that is hashed.  A script is the environment: it may *)
(* print any value, fail, or never return.                                 *)
(***************************************************************************)
EXTENDS Naturals, Sequences, SequencesExt

CONSTANTS
    Name,       \* names a flow mentions, "in" and "out" among them
    Value,      \* JSON values
    Null,       \* what the first node is given
    Time,       \* readings of the clock
    Program,    \* linked and type-checked programs with their graph
    Script,     \* names with an executable in nodes_dir
    Inherited,  \* values APSL_INPUT may have in the environment of `apsl run'
    Absent      \* no value

ASSUME RuntimeAssumption ==
    /\ {"in", "out"} \subseteq Name
    /\ Null \in Value /\ Absent \notin Value \cup {0, 1}
    /\ Inherited \subseteq Value \cup {Absent}
    /\ \A p \in Program :
        /\ p.flow \in Seq(Seq(Seq(Name)))
        /\ p.declared \subseteq Name    \* nodes, as against primitives
        /\ p.posts \subseteq Name       \* nodes with a postcondition
        /\ p.vault \subseteq Name       \* via service=vault_kv_v2
        /\ p.found \in BOOLEAN          \* the graph named by --graph exists

VARIABLES
    phase,      \* "start", "next", "exec", or how the run ended
    program,    \* the program it executes
    env,        \* APSL_INPUT in its environment, passed on to the scripts
    value,      \* current_value
    proofs,     \* the proofs of the nodes that have succeeded
    ran,        \* what has been executed: node and input it read (history)
    exit        \* exit status, or Absent

vars == <<phase, program, env, value, proofs, ran, exit>>

\* Mutant: a later mention of a name moves it to the end.
LinearizeLast(flow) ==
    LET step(line, name) ==
            IF name \in {"in", "out"} THEN line
            ELSE Append(SelectSeq(line, LAMBDA n : n # name), name)
    IN  FoldLeft(step, <<>>, FlattenSeq(FlattenSeq(flow)))

\* Mutant: a node is executed wherever it is mentioned.
LinearizeAll(flow) ==
    SelectSeq(FlattenSeq(FlattenSeq(flow)), LAMBDA name : name \notin {"in", "out"})

\* linearize: the names of all chains in the order they are first mentioned.
Linearize(flow) ==
    LET names == FlattenSeq(FlattenSeq(flow))
        line[k \in 0..Len(names)] ==
            IF k = 0 THEN <<>>
            ELSE IF names[k] \in {"in", "out"} \cup ToSet(line[k - 1]) THEN line[k - 1]
            ELSE Append(line[k - 1], names[k])
    IN  line[Len(names)]

\* The line of each program.
Lines == [p \in Program |-> Linearize(p.flow)]

Order == Lines[program]

\* The node whose turn it is.
Turn == Order[Len(proofs) + 1]

Ended == {"record", "error", "killed"}

Init ==
    /\ phase = "start"
    /\ program \in Program
    /\ env \in Inherited
    /\ value = Null
    /\ proofs = <<>>
    /\ ran = <<>>
    /\ exit = Absent

-----------------------------------------------------------------------------
\* The run ends with an error: no record is printed.
Fail ==
    /\ phase' = "error"
    /\ exit' = 1
    /\ UNCHANGED <<program, env, value, proofs, ran>>

\* find_graph.
Start ==
    /\ phase = "start"
    /\ \/ ~program.found /\ Fail
       \/ program.found /\ phase' = "next" /\ UNCHANGED <<program, env, value, proofs, ran, exit>>

\* The next node: find_node, dispatch on its service, start its program.
\* Manifest.env, the whole environment, is set AFTER the adapter's variables.
Execute ==
    /\ phase = "next"
    /\ Len(proofs) < Len(Order)
    /\ \/ Turn \notin program.declared /\ Fail
       \/ Turn \in program.declared \ (program.vault \cup Script) /\ Fail
       \/ /\ Turn \in program.declared
          /\ \/ /\ Turn \in program.vault
                /\ ran' = Append(ran, [node |-> Turn, read |-> value])
             \/ /\ Turn \in Script \ program.vault
                /\ ran' = Append(ran, [node |-> Turn, read |-> IF env = Absent THEN value ELSE env])
          /\ phase' = "exec"
          /\ UNCHANGED <<program, env, value, proofs, exit>>

\* Mutant: the value handed on stays the one the first node was given.
ScriptSucceedsUnthreaded(output, now) ==
    /\ phase = "exec"
    /\ proofs' = Append(proofs,
         [node |-> Turn, input |-> value, output |-> output, completed |-> now,
          hash |-> <<Turn, value, output, now>>, verified |-> Turn \notin program.posts])
    /\ phase' = "next"
    /\ UNCHANGED <<program, env, value, ran, exit>>

\* Mutant: the output is handed on before the proof reads the input.
ScriptSucceedsLate(output, now) ==
    /\ phase = "exec"
    /\ value' = output
    /\ proofs' = Append(proofs,
         [node |-> Turn, input |-> output, output |-> output, completed |-> now,
          hash |-> <<Turn, output, output, now>>, verified |-> Turn \notin program.posts])
    /\ phase' = "next"
    /\ UNCHANGED <<program, env, ran, exit>>

\* The program exits with status 0: its node is proved and its output is the
\* next node's input.
ScriptSucceeds(output, now) ==
    /\ phase = "exec"
    /\ value' = output
    /\ proofs' = Append(proofs,
         [node |-> Turn, input |-> value, output |-> output, completed |-> now,
          hash |-> <<Turn, value, output, now>>, verified |-> Turn \notin program.posts])
    /\ phase' = "next"
    /\ UNCHANGED <<program, env, ran, exit>>

\* Mutant: a node that fails is executed again.
ScriptRetries == phase = "exec" /\ phase' = "next" /\ UNCHANGED <<program, env, value, proofs, ran, exit>>

\* Mutant: the status of the script is passed on.
ScriptFailsAsItDid ==
    /\ phase = "exec"
    /\ phase' = "error"
    /\ exit' = 127
    /\ UNCHANGED <<program, env, value, proofs, ran>>

\* It exits with another status or by a signal: the run ends.
ScriptFails == phase = "exec" /\ Fail

\* Mutant: the record is printed when the last node has been started.
FinishAny ==
    /\ phase = "next"
    /\ Len(proofs) + 1 >= Len(Order)
    /\ phase' = "record"
    /\ exit' = IF \A k \in DOMAIN proofs : proofs[k].verified THEN 0 ELSE 1
    /\ UNCHANGED <<program, env, value, proofs, ran>>

\* Mutant: a graph without nodes is waited for.
FinishSome ==
    /\ phase = "next"
    /\ Len(proofs) = Len(Order) /\ proofs # <<>>
    /\ phase' = "record"
    /\ exit' = IF \A k \in DOMAIN proofs : proofs[k].verified THEN 0 ELSE 1
    /\ UNCHANGED <<program, env, value, proofs, ran>>

\* Every node has been executed: the record is printed.
Finish ==
    /\ phase = "next"
    /\ Len(proofs) = Len(Order)
    /\ phase' = "record"
    /\ exit' = IF \A k \in DOMAIN proofs : proofs[k].verified THEN 0 ELSE 1
    /\ UNCHANGED <<program, env, value, proofs, ran>>

\* The run is killed.
Kill ==
    /\ phase \notin Ended
    /\ phase' = "killed"
    /\ UNCHANGED <<program, env, value, proofs, ran, exit>>

Next ==
    \/ Start \/ Execute \/ ScriptFails \/ Finish \/ Kill
    \/ \E output \in Value, now \in Time : ScriptSucceeds(output, now)

Spec == Init /\ [][Next]_vars

\* The run keeps going; a script need not return.
FairSpec == Spec /\ WF_vars(Start \/ Execute \/ Finish)

-----------------------------------------------------------------------------
Proof == [node : Name, input : Value, output : Value, completed : Time,
          hash : Name \X Value \X Value \X Time, verified : BOOLEAN]

TypeOK ==
    /\ phase \in {"start", "next", "exec"} \cup Ended
    /\ program \in Program
    /\ env \in Inherited
    /\ value \in Value
    /\ proofs \in Seq(Proof)
    /\ ran \in Seq([node : Name, read : Value])
    /\ exit \in {0, 1, Absent}

\* One value is threaded through the line: each node's input is the output of
\* the node before it, and the first one's is null.
Threaded ==
    /\ \A k \in DOMAIN proofs :
         proofs[k].input = IF k = 1 THEN Null ELSE proofs[k - 1].output
    /\ value = IF proofs = <<>> THEN Null ELSE proofs[Len(proofs)].output

\* Nodes take effect in line order, also in a run that fails or is killed;
\* such a run has executed at most one node more than it has proofs.
EffectsInOrder ==
    /\ \A k \in DOMAIN ran : ran[k].node = Order[k]
    /\ \A k \in DOMAIN proofs : proofs[k].node = Order[k]
    /\ Len(ran) - Len(proofs) \in {0, 1}

\* However often the flow mentions a node, it is executed once.
EffectsOnce == \A j, k \in DOMAIN ran : ran[j].node = ran[k].node => j = k

\* Status 0 is returned only with a record of every node of the graph, none of
\* which declares a postcondition.
ZeroMeansComplete ==
    exit = 0 =>
        /\ phase = "record"
        /\ Len(proofs) = Len(Order)
        /\ \A k \in DOMAIN proofs :
             proofs[k].node = Order[k] /\ proofs[k].node \notin program.posts

\* In a graph of one chain a node is executed after every node before it.
ProducersFirst ==
    LET names == FlattenSeq(FlattenSeq(program.flow))
        mentioned(n) == CHOOSE k \in DOMAIN names :
            names[k] = n /\ \A j \in 1..(k - 1) : names[j] # n
    IN  Len(program.flow) = 1 =>
            \A j, k \in DOMAIN ran : j < k => mentioned(ran[j].node) < mentioned(ran[k].node)

\* Without an APSL_INPUT in the environment of `apsl run', each node reads the
\* very value its proof says it was given.
ReadsWhatIsRecorded ==
    env = Absent => \A k \in DOMAIN proofs : proofs[k].input = ran[k].read

\* A run ends, or one of its scripts never returns.
Stops == <>(phase \in Ended) \/ <>[](phase = "exec")
=============================================================================
