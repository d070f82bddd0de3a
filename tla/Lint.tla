------------------------------- MODULE Lint -------------------------------
(***************************************************************************)
(* apsl-lint (crates/apsl-lint): after parsing, linking and type checking, *)
(* the complexity prover judges every node from its predicates, and the    *)
(* predicate prover sends a script for every node to a solver process.     *)
(*                                                                         *)
(* A program is a sequence of nodes the type checker accepts.  The solver  *)
(* is another program: it may give up, fail, or never start; of what it    *)
(* answers it is assumed that "unsat" is said of unsatisfiable scripts.    *)
(*                                                                         *)
(* What follows the terms of a node is a parameter here: Complexity,       *)
(* Encoding and Contracts define it, and an instance puts it in place.     *)
(***************************************************************************)
EXTENDS Naturals, Sequences

CONSTANTS
  Programs,
  Commands,         \* "check", "complex", "pred", "explain"
  \* What is said of a node, by whom:
  Judge(_),         \* the complexity prover: "ok", "mismatch", "exceeds"
  Accepted(_),      \* a solver that reads its script: whether it is one
  Unsatisfiable(_), \* and whether what it asks for is impossible
  \* What is so, and of which nodes the properties speak:
  Fulfilled(_), IsPlain(_),   \* its results are as promised
  Slow(_), IsCounted(_)       \* its predicates take more than n log n steps

LintAssumption ==
  \A p \in Programs :
    /\ p \in Seq({p[i] : i \in DOMAIN p})
    /\ \A i \in DOMAIN p : Judge(p[i]) \in {"ok", "mismatch", "exceeds"}
ASSUME LintAssumption

VARIABLES
  cmd, prog,   \* the command and the program
  pc,          \* "start", "complex", "explain", "probe", "pred", "exit"
  verdicts,    \* what the complexity prover said, node by node
  solver,      \* the solver found, "none" if there is none, "" before the search
  statuses,    \* what was reported of each node's script so far
  code         \* the exit code, once pc is "exit"

vars == <<cmd, prog, pc, verdicts, solver, statuses, code>>

\* The code asks z3 first, then cvc5.
Solvers == {"z3", "cvc5", "none"}

Init ==
  /\ cmd \in Commands /\ prog \in Programs
  /\ pc = "start" /\ code = 0
  /\ verdicts = <<>> /\ statuses = <<>> /\ solver = ""

Exit(c) == pc' = "exit" /\ code' = c
Keep == UNCHANGED <<cmd, prog>>

\* The arguments are wrong or the file unreadable (2), or it is rejected (1).
FrontEndFails ==
  /\ pc = "start"
  /\ \E c \in {1, 2} : Exit(c)
  /\ Keep /\ UNCHANGED <<verdicts, solver, statuses>>

FrontEndPasses ==
  /\ pc = "start"
  /\ pc' = CASE cmd = "pred" -> "probe" [] cmd = "explain" -> "explain" [] OTHER -> "complex"
  /\ Keep /\ UNCHANGED <<verdicts, solver, statuses, code>>

\* Mutant: a node of the cost it declares is left out of the report.
ProveFaulty ==
  LET all == [i \in DOMAIN prog |-> Judge(prog[i])]
      faulty(v) == v # "ok"
  IN  SelectSeq(all, faulty)

Prove == [i \in DOMAIN prog |-> Judge(prog[i])]
ComplexityCode(vs) == IF \E i \in DOMAIN vs : vs[i] = "exceeds" THEN 1 ELSE 0

\* check goes on to the predicates whatever the complexity prover says.
ReportComplex ==
  /\ pc = "complex"
  /\ verdicts' = Prove
  /\ IF cmd = "check" THEN pc' = "probe" /\ UNCHANGED code ELSE Exit(ComplexityCode(Prove))
  /\ Keep /\ UNCHANGED <<solver, statuses>>

\* A node asked for by name is explained, or there is none of that name.
ReportExplain ==
  /\ pc = "explain"
  /\ verdicts' = Prove
  /\ \E found \in BOOLEAN : Exit(IF found THEN 0 ELSE 1)
  /\ Keep /\ UNCHANGED <<solver, statuses>>

DefaultSolver ==
  /\ pc = "probe"
  /\ solver' \in Solvers
  /\ pc' = "pred"
  /\ Keep /\ UNCHANGED <<verdicts, statuses, code>>

----------------------------------------------------------------------------
\* The first line the solver writes for a node's script.  None, "(error ..."
\* and anything else unexpected is an error, as is a solver that does not start.
Answers(node) ==
  IF solver = "none" THEN {"unknown"}
  ELSE {"error"}
         \cup (IF Accepted(node) THEN {"sat", "unknown"} ELSE {})
         \cup (IF Accepted(node) /\ Unsatisfiable(node) THEN {"unsat"} ELSE {})

StatusOf == [unsat |-> "proved", sat |-> "counterexample", unknown |-> "unknown", error |-> "error"]

DischargeNode ==
  /\ pc = "pred" /\ Len(statuses) < Len(prog)
  /\ \E a \in Answers(prog[Len(statuses) + 1]) : statuses' = Append(statuses, StatusOf[a])
  /\ Keep /\ UNCHANGED <<pc, verdicts, solver, code>>

PredCode == IF \E i \in DOMAIN statuses : statuses[i] # "proved" THEN 1 ELSE 0

ReportPred ==
  /\ pc = "pred" /\ Len(statuses) = Len(prog)
  /\ Exit(IF cmd = "check" /\ ComplexityCode(verdicts) # 0 THEN 1 ELSE PredCode)
  /\ Keep /\ UNCHANGED <<verdicts, solver, statuses>>

Next ==
  \/ FrontEndFails \/ FrontEndPasses \/ ReportComplex \/ ReportExplain
  \/ DefaultSolver \/ DischargeNode \/ ReportPred

Spec == Init /\ [][Next]_vars

----------------------------------------------------------------------------
TypeOK ==
  /\ cmd \in Commands
  /\ pc \in {"start", "complex", "explain", "probe", "pred", "exit"}
  /\ verdicts = <<>> \/ verdicts \in [DOMAIN prog -> {"ok", "mismatch", "exceeds"}]
  /\ solver \in Solvers \cup {""}
  /\ Len(statuses) <= Len(prog)
  /\ \A i \in DOMAIN statuses : statuses[i] \in {"proved", "counterexample", "unknown", "error"}
  /\ code \in 0..2

\* A command that looks at complexity and succeeds has seen no node whose
\* predicates take more than n log n steps in the size of some list; complex
\* fails a program it could read only for such a node (report_complex, prove).
CostsExact ==
  pc = "exit" /\ code # 2 /\ verdicts # <<>> /\ cmd \in {"complex", "check"}
    => LET slow == \E i \in DOMAIN prog : Slow(prog[i])
       IN  (\A i \in DOMAIN prog : IsCounted(prog[i])) =>
             /\ code = 0 => ~slow
             /\ cmd = "complex" /\ code = 1 => slow

\* When pred or check succeeds, every node does what it promises of its
\* result, for every input: encoding, one status for each node, and the exit
\* code lose no clause, no node and no failure.  Two ways of writing a
\* predicate are set aside (Contracts): exists, and a let that takes an
\* index's name.
Succeeded == pc = "exit" /\ code = 0 /\ cmd \in {"pred", "check"}
ProvedHolds ==
  Succeeded => \A i \in DOMAIN prog : IsPlain(prog[i]) => Fulfilled(prog[i])

\* The same with nothing set aside: a proof "means the negated
\* postcondition is unsatisfiable" (README.md:164).
ProvedMeansValid == Succeeded => \A i \in DOMAIN prog : Fulfilled(prog[i])
=============================================================================
