------------------------------ MODULE Artifact ------------------------------
(***************************************************************************)
(* The compiled artifact (crates/apsl-artifact, lib.rs): a program that    *)
(* passed its checks as tables of types, contracts and graphs, with hashes *)
(* that leave out what a name does not change.                             *)
(*                                                                         *)
(* The artifact is a record; that it is written as JSON with sorted keys   *)
(* is left out, and so are the fields that only repeat an index.  Indexes  *)
(* count from one, where the code counts from zero.                        *)
(***************************************************************************)
EXTENDS Modes, Wiring

SignatureCanon(d) ==
  LET inputs == [i \in DOMAIN d.params |-> d.params[i].t]
  IN  Obj(<< <<"inputs", Each(TypeCanon, inputs)>>, <<"output", TypeCanon(d.ret)>> >>)
OwnedCanon(s) == Obj(<< <<"default", Maybe(LitCanon, s.default)>>, <<"type", TypeCanon(s.t)>> >>)

\* Mutant: who may call a node is no part of its contract.
ContractCanonOpen(d) ==
  Obj(<< <<"audit", Str(d.audit)>>, <<"cx", CxCanon(d.cx)>>, <<"post", Each(ExprCanon, d.post)>>,
         <<"pre", Each(ExprCanon, d.pre)>>, <<"scope", Str(d.scope)>>, <<"signature", SignatureCanon(d)>>,
         <<"sla", Maybe(SlaCanon, d.sla)>>, <<"state", Each(OwnedCanon, d.state)>>, <<"via", Maybe(ViaCanon, d.via)>> >>)

\* A contract has no name, and neither have its inputs and its state.
ContractCanon(d) ==
  Obj(<< <<"audit", Str(d.audit)>>, <<"auth", Str(d.auth)>>, <<"cx", CxCanon(d.cx)>>,
         <<"post", Each(ExprCanon, d.post)>>, <<"pre", Each(ExprCanon, d.pre)>>, <<"scope", Str(d.scope)>>,
         <<"signature", SignatureCanon(d)>>, <<"sla", Maybe(SlaCanon, d.sla)>>,
         <<"state", Each(OwnedCanon, d.state)>>, <<"via", Maybe(ViaCanon, d.via)>> >>)

ContractHash(d) == Hash("apsl.contract.v1", ContractCanon(d))

----------------------------------------------------------------------------
\* The set as a sequence; in the code it is sorted by text.
Listed(S) == FoldSet(LAMBDA x, s : Append(s, x), <<>>, S)

TypesIn(t)   == {x \in Parts(t) : x.k # "field"}
DeclTypes(d) ==
  IF d.k = "type" THEN {Term("base", d.name, <<>>), d.rhs}
  ELSE {q.t : q \in ToSet(d.params)} \cup {d.ret} \cup {s.t : s \in ToSet(d.state)}
Collected(p) == UNION {TypesIn(t) : t \in UNION {DeclTypes(d) : d \in ToSet(p)}}
TypeTable(p) == LET texts == Listed({TypeCanon(t) : t \in Collected(p)})
                IN  [i \in DOMAIN texts |-> [hash |-> Hash("apsl.type.v1", texts[i]), structure |-> texts[i]]]
Ordinal(types, t) == SelectInSeq(types, LAMBDA x : x.structure = TypeCanon(t))
TypeRef(types, t) == [hash |-> types[Ordinal(types, t)].hash, ordinal |-> Ordinal(types, t)]

Placement(d) == IF \E s \in ToSet(d.state) : StateKind(s) = "abstract" THEN "positional" ELSE "fungible"
StateEntry(types, s) == [default |-> s.default, key |-> s.key, kind |-> StateKind(s), type |-> TypeRef(types, s.t)]
AliasEntry(types, d) == [name |-> d.name, representation |-> Ordinal(types, d.rhs)]
Contract(types, d) ==
  [contract_hash |-> ContractHash(d), inputs |-> [i \in DOMAIN d.params |-> TypeRef(types, d.params[i].t)],
   name |-> d.name, output |-> TypeRef(types, d.ret), placement |-> Placement(d),
   signature_hash |-> Hash("apsl.signature.v1", SignatureCanon(d)),
   states |-> [i \in DOMAIN d.state |-> StateEntry(types, d.state[i])]]

----------------------------------------------------------------------------
GraphHash(p, g) ==
  LET ref(r)   == IF "port" \in DOMAIN r THEN Obj(<< <<"port", Str(r.port)>> >>) ELSE Obj(<< <<"occurrence", IntText(r.occurrence)>> >>)
      step(s)  == Each(ref, s)
      chain(c) == Each(step, c)
      contract(o) == Str(ContractHash(LastNamed(p, "node", o.name)))
  IN  Hash("apsl.graph.v1",
        Obj(<< <<"flow", Each(chain, Flow(g))>>, <<"occurrence_contracts", Each(contract, Occurrences(g))>>,
               <<"post", Each(ExprCanon, g.post)>>, <<"signature", SignatureCanon(g)>>,
               <<"state", Each(StateCanon, g.state)>> >>))

GraphEntry(p, g) ==
  LET nodes == Declared(p, "node")
      occurrence(o) == [contract |-> ContractOf(nodes, o), first_position |-> o.first_position]
      occurrences == Occurrences(g)
  IN  [flow |-> Flow(g), graph_hash |-> GraphHash(p, g), name |-> g.name,
       occurrences |-> [o \in DOMAIN occurrences |-> occurrence(occurrences[o])],
       state_addresses |-> Addresses(nodes, occurrences)]

----------------------------------------------------------------------------
\* A name declared twice has no identity, whatever it was declared as.
UniqueNames(p) == \A i, j \in DOMAIN p : p[i].name = p[j].name => i = j
ArtifactCheck(p, checks) ==
  /\ UniqueNames(p)
  /\ "string-strict" \in checks => StringStrict(p)
  /\ "state" \in checks => StateCheck(p)

ArtifactOf(p, checks) ==
  LET types == TypeTable(p)
      each(k, E(_)) == [i \in DOMAIN Declared(p, k) |-> E(Declared(p, k)[i])]
  IN  [aliases   |-> each("type", LAMBDA d : AliasEntry(types, d)),
       checks    |-> checks \cup {"types"},
       contracts |-> each("node", LAMBDA d : Contract(types, d)),
       graphs    |-> each("graph", LAMBDA g : GraphEntry(p, g)),
       source_hash |-> Hash("", ProgramCanon(p)),
       types     |-> types]
=============================================================================
