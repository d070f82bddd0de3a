-------------------------------- MODULE Wiring --------------------------------
(***************************************************************************)
(* How an artifact tells the flow of a graph (crates/apsl-artifact,        *)
(* lib.rs): each name that is mentioned stands for one occurrence of a     *)
(* node, and each occurrence has the states of its node.  Indexes count    *)
(* from one, where the code counts from zero.                              *)
(***************************************************************************)
EXTENDS Flows

\* Where a flow mentions a node: the chain, the step, the member of the step.
Places(g) ==
  FlattenSeq([c \in DOMAIN g.flow |-> FlattenSeq([s \in DOMAIN g.flow[c] |-> [m \in DOMAIN g.flow[c][s] |-> <<c, s, m>>]])])
NameAt(g, at) == g.flow[at[1]][at[2]][at[3]]

Noting(g, at) == [name |-> NameAt(g, at), first_position |-> at]
Mention(g, seen, at) ==
  IF NameAt(g, at) \in Ports \cup {o.name : o \in ToSet(seen)} THEN seen
  ELSE Append(seen, Noting(g, at))
\* Mutant: a name occurs anew in every chain.
OccurrencesPerChain(g) ==
  LET chain(c) == SelectSeq(Places(g), LAMBDA at : at[1] = c)
  IN  FlattenSeq([c \in DOMAIN g.flow |-> FoldLeft(LAMBDA seen, at : Mention(g, seen, at), <<>>, chain(c))])
\* A name stands for one occurrence throughout the graph, where it is first mentioned.
Occurrences(g) ==
  LET seen[i \in 0..Len(Places(g))] == IF i = 0 THEN <<>> ELSE Mention(g, seen[i - 1], Places(g)[i])
  IN  seen[Len(Places(g))]

FlowRef(occurrences, n) ==
  IF n \in Ports THEN [port |-> n] ELSE [occurrence |-> SelectInSeq(occurrences, LAMBDA o : o.name = n)]
Flow(g) == LET occurrences == Occurrences(g)
           IN  [c \in DOMAIN g.flow |-> [s \in DOMAIN g.flow[c] |->
                 [m \in DOMAIN g.flow[c][s] |-> FlowRef(occurrences, g.flow[c][s][m])]]]

----------------------------------------------------------------------------
StateKind(s) == IF s.default = <<>> THEN "abstract" ELSE "fixed"
ContractOf(nodes, o) == Max({i \in DOMAIN nodes : nodes[i].name = o.name})

\* Each occurrence has the states of its contract; no graph has any of its own.
Address(nodes, contract, o, s) ==
  [contract |-> contract, kind |-> StateKind(nodes[contract].state[s]), owner |-> o, state |-> s]
Addresses(nodes, occurrences) ==
  FlattenSeq([o \in DOMAIN occurrences |->
    LET contract == ContractOf(nodes, occurrences[o])
    IN  [s \in DOMAIN nodes[contract].state |-> Address(nodes, contract, o, s)]])

----------------------------------------------------------------------------
(* What the tables mean. *)

Earlier(a, b) == \E i \in 1..3 : a[i] < b[i] /\ \A j \in 1..(i - 1) : a[j] = b[j]
PlacesIn(flow)  == UNION {UNION {{<<c, s, m>> : m \in DOMAIN flow[c][s]} : s \in DOMAIN flow[c]} : c \in DOMAIN flow}

\* A flow told by occurrences, which have names and first positions: whatever is
\* mentioned can be read back, occurrences are in the order of their first mention,
\* and no name has two.
TellsFlow(flow, told, names, firsts) ==
  LET ref(x) == told[x[1]][x[2]][x[3]]
  IN  /\ DOMAIN told = DOMAIN flow
      /\ \A c \in DOMAIN flow : DOMAIN told[c] = DOMAIN flow[c] /\ \A s \in DOMAIN flow[c] : DOMAIN told[c][s] = DOMAIN flow[c][s]
      /\ \A x \in PlacesIn(flow) :
           IF "port" \in DOMAIN ref(x) THEN flow[x[1]][x[2]][x[3]] = ref(x).port
           ELSE ref(x).occurrence \in DOMAIN names /\ flow[x[1]][x[2]][x[3]] = names[ref(x).occurrence]
      /\ \A o \in DOMAIN names :
           /\ firsts[o] \in PlacesIn(flow) /\ ref(firsts[o]) = [occurrence |-> o]
           /\ \A x \in PlacesIn(flow) : ref(x) = [occurrence |-> o] => x = firsts[o] \/ Earlier(firsts[o], x)
           /\ \A u \in DOMAIN names : (u # o => names[u] # names[o]) /\ (u < o => Earlier(firsts[u], firsts[o]))

\* The states of each occurrence have one address each, and no other state has one.
\* An occurrence is known by its contract, a contract by the kinds of its states.
TellsStates(addresses, contracts, kinds) ==
  LET owned == UNION {{<<o, s>> : s \in DOMAIN kinds[contracts[o]]} : o \in DOMAIN contracts}
  IN  /\ Len(addresses) = Cardinality(owned)
      /\ {<<a.owner, a.state>> : a \in ToSet(addresses)} = owned
      /\ \A a \in ToSet(addresses) : a.contract = contracts[a.owner] /\ a.kind = kinds[a.contract][a.state]
=============================================================================
