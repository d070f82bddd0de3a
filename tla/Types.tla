------------------------------- MODULE Types -------------------------------
(***************************************************************************)
(* The types of crates/apsl-types and the schemes of the primitives        *)
(* (types.rs, env.rs).                                                     *)
(*                                                                         *)
(* A type is a term: a constructor with its arguments, or a variable.  The *)
(* constructor of a record names its fields, that of a parameterised type  *)
(* its name, so that two types unify when the constructors, the numbers of *)
(* arguments and the arguments do.  A substitution is a function from      *)
(* variables to terms.                                                     *)
(***************************************************************************)
EXTENDS Naturals, Sequences, FiniteSets, TLC

Con(op, args) == [op |-> op, v |-> 0, args |-> args]
Var(n)        == [op |-> "var", v |-> n, args |-> <<>>]
Base(n)       == Con(n, <<>>)
List(t)       == Con("[]", <<t>>)
Result(t)     == Con("+Err", <<t>>)
Tuple(ts)     == Con("()", ts)
Fun(args, r)  == Con("->", Append(args, r))
World(s)      == Con("World<>", <<s>>)

Bool   == Base("Bool")
String == Base("String")
Intt   == Base("Int")

IsVar(t)      == t.op = "var"
IsFun(t)      == t.op = "->"
Params(t)     == SubSeq(t.args, 1, Len(t.args) - 1)
Returns(t)    == t.args[Len(t.args)]

\* Parameterised types: their arguments are not searched for variables.
Parameterized == {"World<>"}

NoSubst == [v \in {} |-> Var(0)]

----------------------------------------------------------------------------
(* Schemes.  Variables of the primitives' schemes are small numbers; fresh *)
(* ones are drawn from FirstFresh on, never to meet them.                  *)

FirstFresh == 1000000

Mono(t)         == [vars |-> <<>>, body |-> t]
Forall(vs, t)   == [vars |-> vs, body |-> t]

\* The primitives, one or more for each shape of scheme in the table.
Primitives ==
  LET A == Var(1)  B == Var(2)
  IN  [nil    |-> Forall(<<1>>, Fun(<<>>, List(A))),
       cons   |-> Forall(<<1>>, Fun(<<A, List(A)>>, List(A))),
       len    |-> Forall(<<1>>, Fun(<<List(A)>>, Intt)),
       head   |-> Forall(<<1>>, Fun(<<List(A)>>, Result(A))),
       map    |-> Forall(<<1, 2>>, Fun(<<Fun(<<A>>, B), List(A)>>, List(B))),
       every  |-> Forall(<<1>>, Fun(<<List(A), Fun(<<A>>, Bool)>>, Bool)),
       concat |-> Forall(<<1>>, Fun(<<List(A), List(A)>>, List(A))),
       dedupe |-> Forall(<<1>>, Fun(<<List(A)>>, List(A))),
       range  |-> Mono(Fun(<<Intt, Intt>>, List(Intt))),
       valid_email |-> Mono(Fun(<<String>>, Bool))]

\* Which argument of a primitive is a function given by name.
LambdaSlot(name) ==
  CASE name = "map"   -> 1
    [] name = "every" -> 2
    [] OTHER          -> 0
=============================================================================
