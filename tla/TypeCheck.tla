----------------------------- MODULE TypeCheck -----------------------------
(***************************************************************************)
(* type_check (crates/apsl-types/src/infer.rs): the predicates of every    *)
(* node and graph are inferred one after the other under one substitution, *)
(* and the flow of a graph is walked chain by chain, unifying what each    *)
(* position offers with what the next one takes.  What follows terms is a  *)
(* parameter here: Inference defines it, and an instance puts it in place. *)
(*                                                                         *)
(* A program is chosen at the start.  A declaration is a record: name,     *)
(* params (name and type each), ret, preds (pre then post) and flow, the   *)
(* chains of a graph (<<>> for a node); a step of a chain is the sequence  *)
(* of the names it lists.                                                  *)
(***************************************************************************)
EXTENDS Types

CONSTANTS
  Programs,      \* the programs considered: [aliases, decls]
  \* The functions that follow terms:
  Inferred(_, _, _, _), \* a predicate in an environment: [ok, loops, s, g]
  Meet(_, _, _),        \* what two types bind when they are unified: [ok, s]
  Applied(_, _),        \* a type under a substitution
  Loops(_),             \* a substitution that cannot be applied
  Instance(_, _),       \* a scheme with fresh variables: [ty, g]
  Unaliased(_, _),      \* a type without aliases
  \* The reference they are compared with:
  HasType(_, _),        \* a predicate has a typing as a Bool
  InstancesFor(_),      \* the types a scheme can be taken at
  IsPlain(_)            \* a predicate whose arguments settle no expected type

\* What the parser makes of a source: sequences, and no empty steps.
Listed(s) == Len(s) \in Nat /\ DOMAIN s = 1..Len(s)

CheckAssumption ==
  \A p \in Programs :
    /\ Listed(p.decls)
    /\ \A i \in DOMAIN p.decls :
         /\ Listed(p.decls[i].params) /\ Listed(p.decls[i].preds)
         /\ p.decls[i].flow \in Seq(Seq(Seq(STRING) \ {<<>>}))
ASSUME CheckAssumption

VARIABLES
  program,       \* the program under check
  d,             \* the declaration under check, by position
  pred,          \* the next of its predicates
  chain, step,   \* the next position of its flow
  subst,         \* the substitution threaded through the declaration
  gen,           \* the next fresh variable
  outputs,       \* what each node of the flow offers to a tuple step
  cur,           \* what the previous position offers: one type or none
  errs,          \* where an error was recorded
  verdict        \* "none" until the check returns

vars == <<program, d, pred, chain, step, subst, gen, outputs, cur, errs, verdict>>

----------------------------------------------------------------------------
(* Environments, and what a step joins.  Whatever a step names, other than *)
(* in and out, is a function: nodes and primitives are.                    *)

Nodes(p) == {i \in DOMAIN p.decls : p.decls[i].flow = <<>>}

Ty(p, t) == Unaliased(t, p.aliases)

Signature(p, dcl) ==
  Mono(Fun([i \in DOMAIN dcl.params |-> Ty(p, dcl.params[i].ty)], Ty(p, dcl.ret)))

\* What several parameters, or several sources, are as one value.
AsOne(ts) == IF Len(ts) = 1 THEN ts[1] ELSE Tuple(ts)

InType(p, dcl)  == AsOne([i \in DOMAIN dcl.params |-> Ty(p, dcl.params[i].ty)])
OutType(p, dcl) == Ty(p, dcl.ret)

\* Of two nodes of one name the later counts; nodes hide primitives.
UserEnv(p) ==
  [n \in {p.decls[i].name : i \in Nodes(p)} |->
     Signature(p, p.decls[CHOOSE i \in Nodes(p) :
       /\ p.decls[i].name = n
       /\ \A j \in Nodes(p) : p.decls[j].name = n => j <= i])]

\* Of two things of one name the first counts.
Shadowing(f, g) == [x \in DOMAIN f \cup DOMAIN g |-> IF x \in DOMAIN f THEN f[x] ELSE g[x]]

InOut(p, dcl) == [in |-> Mono(InType(p, dcl)), out |-> Mono(OutType(p, dcl))]

\* A node's predicates also see its parameters by name.
EnvOf(p, dcl) ==
  LET named == [n \in {dcl.params[i].name : i \in DOMAIN dcl.params} |->
                  Mono(Ty(p, dcl.params[CHOOSE i \in DOMAIN dcl.params :
                    /\ dcl.params[i].name = n
                    /\ \A j \in DOMAIN dcl.params : dcl.params[j].name = n => j <= i].ty))]
      globals == Shadowing(UserEnv(p), Primitives)
  IN  Shadowing(InOut(p, dcl), IF dcl.flow = <<>> THEN Shadowing(named, globals) ELSE globals)

Decl == program.decls[d]
Env  == EnvOf(program, Decl)

IsWorld(t) == t = Base("World") \/ t.op = "World<>"
Threads(t) == t.op = "()" /\ t.args # <<>> /\ IsWorld(t.args[1])

\* What a source adds to those before it: a pair that begins with a World is
\* spread, and its World left out when one is there already.
Spread(t, flat) ==
  IF ~Threads(t) THEN <<t>>
  ELSE IF \E i \in DOMAIN flat : IsWorld(flat[i]) THEN Tail(t.args) ELSE t.args

\* Mutant: every World is kept.
FlattenKeepsWorlds(ts) ==
  LET flat[k \in 0..Len(ts)] == IF k = 0 THEN <<>> ELSE flat[k - 1] \o Spread(ts[k], <<>>)
  IN  flat[Len(ts)]

\* The sources of a tuple step, one after the other.
Flatten(ts) ==
  LET flat[k \in 0..Len(ts)] ==
        IF k = 0 THEN <<>> ELSE LET before == flat[k - 1] IN before \o Spread(ts[k], before)
  IN  flat[Len(ts)]

FanIn(ts) == AsOne(Flatten(ts))

----------------------------------------------------------------------------
(* The check.                                                              *)

Init ==
  /\ program \in Programs
  /\ d = 1 /\ pred = 1 /\ chain = 1 /\ step = 1
  /\ subst = NoSubst /\ gen = FirstFresh
  /\ outputs = <<>> /\ cur = <<>>
  /\ errs = {} /\ verdict = "none"

Checking == verdict = "none" /\ d <= Len(program.decls)
InPreds  == Checking /\ pred <= Len(Decl.preds)
InFlow   == Checking /\ pred = Len(Decl.preds) + 2
Chain    == Decl.flow[chain]
AtStep   == InFlow /\ chain <= Len(Decl.flow) /\ step <= Len(Chain)
Names    == Chain[step]

\* The next predicate must be a Bool; what was bound before an error stays bound.
\* Where the inference met a cyclic substitution the stack overflows instead.
CheckPredicate ==
  /\ InPreds
  /\ \E r \in {Inferred(Decl.preds[pred], Env, subst, gen)} :
       /\ gen' = r.g
       /\ IF r.loops
          THEN verdict' = "overflow" /\ UNCHANGED <<subst, errs>>
          ELSE /\ subst' = r.s
               /\ errs' = IF r.ok THEN errs ELSE errs \cup {<<d, "pred", pred>>}
               /\ UNCHANGED verdict
  /\ pred' = pred + 1
  /\ UNCHANGED <<program, d, chain, step, outputs, cur>>

\* One sequence of several.
Joined(seqs) ==
  LET all[k \in 0..Len(seqs)] == IF k = 0 THEN <<>> ELSE all[k - 1] \o seqs[k]
  IN  all[Len(seqs)]

\* A step that is one node: it is instantiated, and offers what it returns.
Offer(names, env, r) ==
  LET n == names[1]
      inst == Instance(env[n], r.g)
  IN  IF Len(names) # 1 \/ n \in {"in", "out"} \/ n \notin DOMAIN env THEN r
      ELSE [g |-> inst.g, out |-> Shadowing([m \in {n} |-> Returns(inst.ty)], r.out)]

\* The single nodes of the flow's steps, instantiated once each, the last counting.
Offers(steps, env) ==
  LET from[k \in 0..Len(steps)] ==
        IF k = 0 THEN [g |-> gen, out |-> <<>>] ELSE Offer(steps[k], env, from[k - 1])
  IN  from[Len(steps)]

\* Between the predicates and the flow; a node has no flow and so no outputs.
CollectOutputs ==
  /\ Checking /\ pred = Len(Decl.preds) + 1
  /\ LET r == Offers(Joined(Decl.flow), Env) IN gen' = r.g /\ outputs' = r.out
  /\ pred' = pred + 1
  /\ UNCHANGED <<program, d, chain, step, subst, cur, errs, verdict>>

\* The previous position meets a position that takes want and offers out;
\* want is <<>> when the position takes anything.
Arrive(want, out) ==
  LET meets == cur # <<>> /\ want # <<>>
      u == Meet(subst, cur[1], want[1])
  IN  /\ subst' = IF meets /\ u.ok THEN u.s ELSE subst
      /\ errs' = IF meets /\ ~u.ok THEN errs \cup {<<d, "flow", chain, step>>} ELSE errs
      /\ cur' = <<Applied(subst', out)>>
      /\ step' = step + 1
      /\ UNCHANGED <<program, d, pred, chain, outputs, verdict>>

\* A position that cannot be typed: an error, and the next takes no part.
Lose ==
  /\ errs' = errs \cup {<<d, "flow", chain, step>>}
  /\ cur' = <<>>
  /\ step' = step + 1
  /\ UNCHANGED <<program, d, pred, chain, subst, outputs, verdict>>

FlowIn ==
  AtStep /\ Names = <<"in">> /\ Arrive(<<>>, InType(program, Decl)) /\ UNCHANGED gen

FlowOut ==
  /\ AtStep /\ Names = <<"out">>
  /\ Arrive(<<OutType(program, Decl)>>, OutType(program, Decl))
  /\ UNCHANGED gen

FlowNode ==
  /\ AtStep /\ Len(Names) = 1 /\ Names[1] \notin {"in", "out"}
  /\ Names[1] \in DOMAIN Env
  /\ LET inst == Instance(Env[Names[1]], gen)
     IN  /\ Arrive(<<AsOne(Params(inst.ty))>>, Returns(inst.ty))
         /\ gen' = inst.g

FlowUnknown ==
  /\ AtStep /\ Len(Names) = 1 /\ Names[1] \notin DOMAIN Env
  /\ Lose
  /\ UNCHANGED gen

\* What one name of a tuple step offers, after those before it.
Source(n, env, r) ==
  LET add(t, g) == [ok |-> TRUE, g |-> g, ts |-> Append(r.ts, t)]
      inst == Instance(env[n], r.g)
  IN  IF ~r.ok THEN r
      ELSE IF n = "in" THEN add(InType(program, Decl), r.g)
      ELSE IF n = "out" THEN add(OutType(program, Decl), r.g)
      ELSE IF n \in DOMAIN outputs THEN add(outputs[n], r.g)
      ELSE IF n \in DOMAIN env THEN add(Returns(inst.ty), inst.g)
      ELSE [ok |-> FALSE, g |-> r.g, ts |-> r.ts]

\* What the names of a tuple step offer, in order, up to the first unknown one.
Sources(names, env) ==
  LET from[k \in 0..Len(names)] ==
        IF k = 0 THEN [ok |-> TRUE, g |-> gen, ts |-> <<>>] ELSE Source(names[k], env, from[k - 1])
  IN  from[Len(names)]

FlowTuple ==
  /\ AtStep /\ Len(Names) > 1
  /\ LET r == Sources(Names, Env)
     IN  /\ IF r.ok THEN Arrive(<<>>, FanIn(r.ts)) ELSE Lose
         /\ gen' = r.g

\* Mutant: what the last chain offered is still there for the next.
NextChainCarriesOn ==
  /\ InFlow /\ chain <= Len(Decl.flow) /\ step > Len(Chain)
  /\ chain' = chain + 1 /\ step' = 1
  /\ UNCHANGED <<program, d, pred, subst, gen, outputs, cur, errs, verdict>>

NextChain ==
  /\ InFlow /\ chain <= Len(Decl.flow) /\ step > Len(Chain)
  /\ chain' = chain + 1 /\ step' = 1 /\ cur' = <<>>
  /\ UNCHANGED <<program, d, pred, subst, gen, outputs, errs, verdict>>

NextDecl ==
  /\ InFlow /\ chain > Len(Decl.flow)
  /\ d' = d + 1
  /\ pred' = 1 /\ chain' = 1 /\ step' = 1
  /\ subst' = NoSubst /\ gen' = FirstFresh
  /\ outputs' = <<>> /\ cur' = <<>>
  /\ UNCHANGED <<program, errs, verdict>>

Return ==
  /\ verdict = "none" /\ d > Len(program.decls)
  /\ verdict' = IF errs = {} THEN "accepted" ELSE "rejected"
  /\ UNCHANGED <<program, d, pred, chain, step, subst, gen, outputs, cur, errs>>

Next ==
  \/ CheckPredicate \/ CollectOutputs
  \/ FlowIn \/ FlowOut \/ FlowNode \/ FlowUnknown \/ FlowTuple
  \/ NextChain \/ NextDecl \/ Return

\* One thread that waits for nothing.
Spec == Init /\ [][Next]_vars /\ WF_vars(Next)

----------------------------------------------------------------------------
(* What is well typed, without inference: the values that can come along a *)
(* chain.                                                                  *)

\* Every way to take one element of each of some sets.
Combined(sets) == {f \in [DOMAIN sets -> UNION {sets[i] : i \in DOMAIN sets}] :
                     \A i \in DOMAIN sets : f[i] \in sets[i]}

\* What a step takes (<<>>: anything) and offers.
Links(p, dcl, names) ==
  LET env == EnvOf(p, dcl)
      funs(n) == {f \in InstancesFor(env[n]) : IsFun(f)}
      offers(n) == CASE n = "in"  -> {InType(p, dcl)}
                     [] n = "out" -> {OutType(p, dcl)}
                     [] n \notin DOMAIN env -> {}
                     [] OTHER -> {Returns(f) : f \in funs(n)}
  IN  IF Len(names) > 1
      THEN {[want |-> <<>>, out |-> FanIn(ts)] :
              ts \in Combined([i \in DOMAIN names |-> offers(names[i])])}
      ELSE CASE names[1] = "in"  -> {[want |-> <<>>, out |-> InType(p, dcl)]}
             [] names[1] = "out" -> {[want |-> <<OutType(p, dcl)>>, out |-> OutType(p, dcl)]}
             [] names[1] \notin DOMAIN env -> {}
             [] OTHER -> {[want |-> <<AsOne(Params(f))>>, out |-> Returns(f)] : f \in funs(names[1])}

\* The types the last position of a chain can offer when every one before it fits.
Arrivals(p, dcl, steps) ==
  LET from[k \in 1..Len(steps)] ==
        LET fits(l) == k = 1 \/ (from[k - 1] # {} /\ (l.want = <<>> \/ \E t \in from[k - 1] : <<t>> = l.want))
        IN  {l.out : l \in {x \in Links(p, dcl, steps[k]) : fits(x)}}
  IN  from[Len(steps)]

Composes(p, dcl, steps) == steps = <<>> \/ Arrivals(p, dcl, steps) # {}

PlainPredicates ==
  \A i \in DOMAIN program.decls : \A j \in DOMAIN program.decls[i].preds :
     IsPlain(program.decls[i].preds[j])

----------------------------------------------------------------------------
(* Properties.                                                             *)

\* The variables keep their types and the positions stay within the program.
TypeOK ==
  /\ d \in 1..Len(program.decls) + 1
  /\ verdict \in {"none", "accepted", "rejected", "overflow"}
  /\ gen >= FirstFresh
  /\ DOMAIN subst \subseteq FirstFresh..gen - 1
  /\ d <= Len(program.decls) =>
       /\ pred \in 1..Len(Decl.preds) + 2
       /\ chain \in 1..Len(Decl.flow) + 1
       /\ chain <= Len(Decl.flow) => step \in 1..Len(Chain) + 1

\* No variable ever stands for a type it occurs in, so that applying the
\* substitution always returns: the occurs check of bind, kept up by compose
\* from predicate to predicate and along the flow.
SubstitutionsEnd == PlainPredicates => ~Loops(subst) /\ verdict # "overflow"

\* When the check returns, the predicates in error are exactly those that no
\* choice of types makes a Bool: unification decides what a search over types
\* decides, and no predicate suffers from an error in one before it.
PredicateErrorsExact ==
  (verdict \in {"accepted", "rejected"} /\ PlainPredicates) =>
    \A i \in DOMAIN program.decls : \A j \in DOMAIN program.decls[i].preds :
      <<i, "pred", j>> \in errs <=>
        ~HasType(program.decls[i].preds[j], EnvOf(program, program.decls[i]))

\* When the check returns, a chain has an error exactly if no value can be
\* taken along it: the one substitution shared by all chains lets none through
\* that does not compose and holds none up that does.
FlowErrorsExact ==
  verdict \in {"accepted", "rejected"} =>
    \A i \in DOMAIN program.decls : \A c \in DOMAIN program.decls[i].flow :
      (\E k \in DOMAIN program.decls[i].flow[c] : <<i, "flow", c, k>> \in errs) <=>
        ~Composes(program, program.decls[i], program.decls[i].flow[c])

TupleSources == Sources(Names, Env)

\* A fan-in of values that all thread one World offers that World once, first,
\* and every payload in the order of the sources; a fan-in of values that
\* thread none offers them as they are (README.md:85).
FanInKeepsEverySource ==
  (AtStep /\ Len(Names) > 1 /\ TupleSources.ok) =>
    LET ts == TupleSources.ts
        payloads == Joined([i \in DOMAIN ts |-> Tail(ts[i].args)])
    IN  /\ (/\ \A i \in DOMAIN ts : Threads(ts[i])
            /\ \A i \in DOMAIN ts : ts[i].args[1] = ts[1].args[1])
           => FanIn(ts) = AsOne(<<ts[1].args[1]>> \o payloads)
        /\ (\A i \in DOMAIN ts : ~Threads(ts[i])) => FanIn(ts) = Tuple(ts)

\* A program that passes is well typed, whatever its predicates bind: emit
\* "refuses to write any certificate if the source has a type error"
\* (README.md:176).
AcceptedIsWellTyped ==
  verdict = "accepted" =>
    \A i \in DOMAIN program.decls :
      /\ \A j \in DOMAIN program.decls[i].preds :
           HasType(program.decls[i].preds[j], EnvOf(program, program.decls[i]))
      /\ \A c \in DOMAIN program.decls[i].flow :
           Composes(program, program.decls[i], program.decls[i].flow[c])
=============================================================================
