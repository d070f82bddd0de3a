----------------------------- MODULE LintProofs -----------------------------
(***************************************************************************)
(* What an exit code of apsl-lint means, for programs of any length and    *)
(* whatever a solver answers: every node was judged, and none was lost.    *)
(***************************************************************************)
EXTENDS Lint, TLAPS

Status == {"proved", "counterexample", "unknown", "error"}
Verdict == {"ok", "mismatch", "exceeds"}

\* A status is "proved" only of a script that is one and asks for the impossible.
Refuted(status, node) == status = "proved" => Accepted(node) /\ Unsatisfiable(node)

\* What has been said of the nodes so far is what the provers say of them.
Said ==
  /\ verdicts \in {<<>>, Prove}
  /\ statuses \in Seq(Status) /\ Len(statuses) <= Len(prog)
  /\ \A i \in DOMAIN statuses : Refuted(statuses[i], prog[i])

\* Which command is where, and what it has seen before.
Where ==
  /\ pc = "start" => verdicts = <<>>
  /\ pc = "complex" => cmd \notin {"pred", "explain"}
  /\ pc = "explain" => cmd = "explain"
  /\ pc \in {"probe", "pred"} => cmd \in {"pred", "check"} /\ (cmd = "check" => verdicts = Prove)

\* What an exit code says: success, of every node; a failure of complex, of one.
CodeTells ==
  /\ Succeeded =>
       /\ Len(statuses) = Len(prog) /\ \A i \in DOMAIN statuses : statuses[i] = "proved"
       /\ cmd = "check" => \A i \in DOMAIN prog : Judge(prog[i]) # "exceeds"
  /\ pc = "exit" /\ verdicts # <<>> /\ cmd \in {"complex", "check"} =>
       /\ code = 0 => \A i \in DOMAIN prog : Judge(prog[i]) # "exceeds"
       /\ cmd = "complex" /\ code = 1 => \E i \in DOMAIN prog : Judge(prog[i]) = "exceeds"

Kinds ==
  /\ cmd \in Commands /\ prog \in Programs
  /\ pc \in {"start", "complex", "explain", "probe", "pred", "exit"}
  /\ solver \in Solvers \cup {""}
  /\ code \in {0, 1, 2}

Inv == Kinds /\ Said /\ Where /\ CodeTells

----------------------------------------------------------------------------
\* A program is a sequence of nodes of which each has a verdict.
LEMMA ProgramIs ==
    ASSUME NEW p \in Programs
    PROVE  /\ Len(p) \in Nat /\ DOMAIN p = 1..Len(p)
           /\ \A i \in DOMAIN p : Judge(p[i]) \in Verdict
<1>1. p \in Seq({p[i] : i \in DOMAIN p}) /\ \A i \in DOMAIN p : Judge(p[i]) \in Verdict
    BY LintAssumption, Zenon DEF LintAssumption, Verdict
<1>2. ASSUME NEW T, NEW s \in Seq(T) PROVE Len(s) \in Nat /\ DOMAIN s = 1..Len(s)
    OBVIOUS
<1> QED
    BY <1>1, <1>2, Zenon

\* What appending to a sequence changes.
LEMMA AppendIs ==
    ASSUME NEW T, NEW s \in Seq(T), NEW e \in T, NEW t, t = Append(s, e), NEW k, k = Len(s) + 1
    PROVE  /\ t \in Seq(T) /\ Len(s) \in Nat /\ Len(t) = k
           /\ DOMAIN t = DOMAIN s \cup {k}
           /\ (\A i \in DOMAIN s : t[i] = s[i]) /\ t[k] = e
OBVIOUS

\* The exit code of the complexity report: whether a node exceeds n log n.
LEMMA CodeOfReport ==
    /\ ComplexityCode(Prove) \in {0, 1}
    /\ ComplexityCode(Prove) = 0 <=> \A i \in DOMAIN prog : Judge(prog[i]) # "exceeds"
<1>1. DOMAIN Prove = DOMAIN prog /\ \A i \in DOMAIN prog : Prove[i] = Judge(prog[i])
    BY Zenon DEF Prove
<1>2. ASSUME NEW vs
      PROVE  /\ ComplexityCode(vs) \in {0, 1}
             /\ ComplexityCode(vs) = 0 <=> \A i \in DOMAIN vs : vs[i] # "exceeds"
    BY DEF ComplexityCode
<1> HIDE DEF Prove, ComplexityCode
<1> QED
    BY <1>1, <1>2, Zenon

\* The exit code of the predicates' report: whether a status is not "proved".
LEMMA CodeOfPred ==
    PredCode \in {0, 1} /\ (PredCode = 0 => \A i \in DOMAIN statuses : statuses[i] = "proved")
BY DEF PredCode

\* What a solver answers of a script, as a status.
LEMMA AnswerIs ==
    ASSUME NEW n, NEW a \in Answers(n)
    PROVE  StatusOf[a] \in Status /\ Refuted(StatusOf[a], n)
<1>1. a \in {"unsat", "sat", "unknown", "error"}
    BY DEF Answers
<1>2. a = "unsat" => Accepted(n) /\ Unsatisfiable(n)
    BY DEF Answers
<1>3. /\ StatusOf["unsat"] = "proved" /\ StatusOf["sat"] = "counterexample"
      /\ StatusOf["unknown"] = "unknown" /\ StatusOf["error"] = "error"
    BY DEF StatusOf
<1> QED
    BY <1>1, <1>2, <1>3 DEF Status, Refuted

LEMMA InvInit == Init => Inv
<1> SUFFICES ASSUME Init PROVE Inv
    OBVIOUS
<1>1. \A s \in {<<>>} : s \in Seq(Status) /\ Len(s) = 0 /\ DOMAIN s = {}
    OBVIOUS
<1>2. statuses = <<>> /\ verdicts = <<>>
    BY DEF Init
<1>3. Len(prog) \in Nat
    BY ProgramIs DEF Init
<1>4. Said
    BY <1>1, <1>2, <1>3 DEF Said
<1>5. Kinds /\ Where /\ CodeTells
    BY <1>2 DEF Init, Kinds, Where, CodeTells, Succeeded
<1> QED
    BY <1>4, <1>5 DEF Inv

----------------------------------------------------------------------------
LEMMA KindsNext == Kinds /\ [Next]_vars => Kinds'
<1> SUFFICES ASSUME Kinds, [Next]_vars PROVE Kinds'
    OBVIOUS
<1>1. cmd' = cmd /\ prog' = prog
    BY DEF Next, vars, Keep, FrontEndFails, FrontEndPasses, ReportComplex, ReportExplain,
           DefaultSolver, DischargeNode, ReportPred
<1>2. pc' \in {"start", "complex", "explain", "probe", "pred", "exit"} /\ solver' \in Solvers \cup {""}
    BY DEF Kinds, Next, vars, Exit, FrontEndFails, FrontEndPasses, ReportComplex, ReportExplain,
           DefaultSolver, DischargeNode, ReportPred
<1>3. code' \in {0, 1, 2}
    BY CodeOfReport, CodeOfPred DEF Kinds, Next, vars, Exit, FrontEndFails, FrontEndPasses,
           ReportComplex, ReportExplain, DefaultSolver, DischargeNode, ReportPred
<1> QED
    BY <1>1, <1>2, <1>3 DEF Kinds

\* A node's status is recorded at the node's place, and stays.
LEMMA SaidNext == Kinds /\ Said /\ [Next]_vars => Said'
<1> SUFFICES ASSUME Kinds, Said, [Next]_vars PROVE Said'
    OBVIOUS
<1>1. cmd' = cmd /\ prog' = prog
    BY DEF Next, vars, Keep, FrontEndFails, FrontEndPasses, ReportComplex, ReportExplain,
           DefaultSolver, DischargeNode, ReportPred
<1>2. Prove' = Prove
    BY <1>1 DEF Prove
<1>3. verdicts' \in {<<>>, Prove'}
    BY <1>2 DEF Said, Next, vars, FrontEndFails, FrontEndPasses, ReportComplex, ReportExplain,
           DefaultSolver, DischargeNode, ReportPred
<1>4. CASE DischargeNode
    <2> DEFINE k == Len(statuses) + 1
    <2>1. PICK a \in Answers(prog[k]) : statuses' = Append(statuses, StatusOf[a])
        BY <1>4, Zenon DEF DischargeNode
    <2>2. StatusOf[a] \in Status /\ Refuted(StatusOf[a], prog[k])
        BY AnswerIs, Zenon
    <2>3. statuses \in Seq(Status) /\ \A i \in DOMAIN statuses : Refuted(statuses[i], prog[i])
        BY DEF Said
    <2>4. /\ statuses' \in Seq(Status) /\ Len(statuses) \in Nat /\ Len(statuses') = k
          /\ DOMAIN statuses' = DOMAIN statuses \cup {k}
          /\ (\A i \in DOMAIN statuses : statuses'[i] = statuses[i]) /\ statuses'[k] = StatusOf[a]
        <3>1. StatusOf[a] \in Status /\ statuses \in Seq(Status) /\ k = Len(statuses) + 1
            BY <2>2, <2>3, Zenon
        <3> DEFINE e == StatusOf[a]
        <3> HIDE DEF k, e
        <3>2. e \in Status /\ e = StatusOf[a] /\ statuses' = Append(statuses, e)
            BY <2>1, <3>1, Zenon DEF e
        <3> QED
            BY <3>1, <3>2, AppendIs
    <2>5. ASSUME NEW i \in DOMAIN statuses' PROVE Refuted(statuses'[i], prog[i])
        BY <2>2, <2>3, <2>4, Zenon
    <2>6. Len(statuses) < Len(prog) /\ Len(prog) \in Nat
        BY <1>4, ProgramIs, Zenon DEF DischargeNode, Kinds
    <2>7. Len(statuses') <= Len(prog)
        BY <2>4, <2>6
    <2> QED
        BY <1>1, <1>3, <2>4, <2>5, <2>7, Zenon DEF Said
<1>5. CASE ~DischargeNode
    <2>1. statuses' = statuses
        BY <1>5 DEF Next, vars, FrontEndFails, FrontEndPasses, ReportComplex, ReportExplain,
               DefaultSolver, ReportPred
    <2> QED
        BY <1>1, <1>3, <2>1, Zenon DEF Said
<1> QED
    BY <1>4, <1>5

\* pred and check alone reach the solver, check with its verdicts.
LEMMA WhereNext == Kinds /\ Where /\ [Next]_vars => Where'
<1> SUFFICES ASSUME Kinds, Where, [Next]_vars PROVE Where'
    OBVIOUS
<1>1. cmd' = cmd /\ prog' = prog /\ Prove' = Prove
    BY DEF Next, vars, Keep, FrontEndFails, FrontEndPasses, ReportComplex, ReportExplain,
           DefaultSolver, DischargeNode, ReportPred, Prove
<1> QED
    BY <1>1 DEF Kinds, Where, Next, vars, Exit, FrontEndFails, FrontEndPasses, ReportComplex,
           ReportExplain, DefaultSolver, DischargeNode, ReportPred

\* The command exits once, with what its reports come to.
LEMMA TellsNext == Inv /\ [Next]_vars => CodeTells'
<1> SUFFICES ASSUME Inv, [Next]_vars PROVE CodeTells'
    OBVIOUS
<1>1. cmd' = cmd /\ prog' = prog
    BY DEF Next, vars, Keep, FrontEndFails, FrontEndPasses, ReportComplex, ReportExplain,
           DefaultSolver, DischargeNode, ReportPred
<1>2. CASE pc' # "exit"
    BY <1>2 DEF CodeTells, Succeeded
<1>3. CASE ReportComplex
    <2>1. CASE cmd = "check"
        BY <1>2, <1>3, <2>1 DEF ReportComplex
    <2>2. CASE cmd # "check"
        <3>1. cmd' \notin {"check"} /\ code' = ComplexityCode(Prove)
            BY <1>1, <1>3, <2>2 DEF ReportComplex, Exit
        <3>2. cmd # "pred"
            BY <1>3 DEF ReportComplex, Inv, Where
        <3>3. code' = 0 <=> \A i \in DOMAIN prog : Judge(prog[i]) # "exceeds"
            BY <3>1, CodeOfReport, Zenon
        <3>4. code' = 1 => \E i \in DOMAIN prog : Judge(prog[i]) = "exceeds"
            BY <3>1, CodeOfReport
        <3> QED
            BY <1>1, <2>2, <3>2, <3>3, <3>4, Zenon DEF CodeTells, Succeeded
    <2> QED
        BY <2>1, <2>2
<1>4. CASE ReportExplain
    BY <1>1, <1>4 DEF ReportExplain, Inv, Where, Exit, CodeTells, Succeeded
<1>5. CASE FrontEndFails
    BY <1>1, <1>5 DEF FrontEndFails, Inv, Where, Exit, CodeTells, Succeeded
<1>6. CASE ReportPred
    <2>1. statuses' = statuses /\ verdicts' = verdicts /\ pc' = "exit" /\ pc = "pred"
          /\ Len(statuses) = Len(prog)
        BY <1>6 DEF ReportPred, Exit
    <2>2. /\ code' = 0 => PredCode = 0
          /\ cmd = "check" /\ code' = 0 => ComplexityCode(verdicts) = 0
        BY <1>6, CodeOfPred DEF ReportPred, Exit
    <2>3. cmd \in {"pred", "check"} /\ (cmd = "check" => verdicts = Prove)
        BY <2>1 DEF Inv, Where
    <2> QED
        BY <1>1, <2>1, <2>2, <2>3, CodeOfPred, CodeOfReport, Zenon DEF CodeTells, Succeeded
<1>7. CASE UNCHANGED vars
    BY <1>7, Zenon DEF vars, Inv, CodeTells, Succeeded
<1>8. CASE FrontEndPasses \/ DefaultSolver \/ DischargeNode
    BY <1>2, <1>8 DEF FrontEndPasses, DefaultSolver, DischargeNode
<1> QED
    BY <1>3, <1>4, <1>5, <1>6, <1>7, <1>8, Zenon DEF Next

LEMMA InvNext == Inv /\ [Next]_vars => Inv'
BY KindsNext, SaidNext, WhereNext, TellsNext, Zenon DEF Inv

LEMMA InvHolds == Spec => []Inv
BY InvInit, InvNext, PTL DEF Spec

----------------------------------------------------------------------------
\* Type correctness: at most one status for each node, and one verdict for each or none.
THEOREM TypeCorrect == Spec => []TypeOK
<1>1. Inv => TypeOK
    <2> SUFFICES ASSUME Inv PROVE TypeOK
        OBVIOUS
    <2>1. Prove \in [DOMAIN prog -> Verdict]
        BY ProgramIs DEF Prove, Inv, Kinds
    <2>2. ASSUME NEW T, NEW s \in Seq(T) PROVE \A i \in DOMAIN s : s[i] \in T
        OBVIOUS
    <2>3. statuses \in Seq(Status) /\ Len(statuses) <= Len(prog) /\ verdicts \in {<<>>, Prove}
        BY DEF Inv, Said
    <2>4. \A i \in DOMAIN statuses : statuses[i] \in Status
        BY <2>2, <2>3, Zenon
    <2>5. ASSUME NEW c \in {0, 1, 2} PROVE c \in 0..2
        OBVIOUS
    <2>6. code \in 0..2 /\ cmd \in Commands /\ solver \in Solvers \cup {""}
          /\ pc \in {"start", "complex", "explain", "probe", "pred", "exit"}
        BY <2>5, Zenon DEF Inv, Kinds
    <2>7. verdicts = <<>> \/ verdicts \in [DOMAIN prog -> Verdict]
        BY <2>1, <2>3, Zenon
    <2> QED
        BY <2>3, <2>4, <2>6, <2>7, Zenon DEF TypeOK, Status, Verdict
<1> QED
    BY <1>1, InvHolds, PTL

\* When pred or check succeeds, a solver has refuted the script of every node, and
\* when check does, no node was judged to exceed n log n (report_pred, report_complex).
SuccessIsRefutation ==
  Succeeded => \A i \in DOMAIN prog :
    /\ Accepted(prog[i]) /\ Unsatisfiable(prog[i])
    /\ cmd = "check" => Judge(prog[i]) # "exceeds"

LEMMA InvRefutes == Inv => SuccessIsRefutation
<1> SUFFICES ASSUME Inv, Succeeded, NEW i \in DOMAIN prog
             PROVE  /\ Accepted(prog[i]) /\ Unsatisfiable(prog[i])
                    /\ cmd = "check" => Judge(prog[i]) # "exceeds"
    BY DEF SuccessIsRefutation
<1>1. DOMAIN prog = 1..Len(prog)
    BY ProgramIs, Zenon DEF Inv, Kinds
<1>2. ASSUME NEW T, NEW s \in Seq(T) PROVE DOMAIN s = 1..Len(s)
    OBVIOUS
<1>3. DOMAIN statuses = 1..Len(statuses)
    BY <1>2, Zenon DEF Inv, Said
<1>4. /\ Len(statuses) = Len(prog) /\ \A j \in DOMAIN statuses : statuses[j] = "proved"
      /\ cmd = "check" => Judge(prog[i]) # "exceeds"
    BY Zenon DEF Inv, CodeTells
<1>5. i \in DOMAIN statuses /\ statuses[i] = "proved"
    BY <1>1, <1>3, <1>4, Zenon
<1>6. Accepted(prog[i]) /\ Unsatisfiable(prog[i])
    BY <1>5, Zenon DEF Inv, Said, Refuted
<1> QED
    BY <1>4, <1>6

\* No node and no failure is lost between what the provers say of a node and the
\* exit code of the command, whatever the program and the provers.
THEOREM SuccessIsWhole == Spec => []SuccessIsRefutation
BY InvRefutes, InvHolds, PTL

----------------------------------------------------------------------------
\* What is asked of the provers: a script that can be read and asks for the
\* impossible is one of a node that keeps its contract, and a node exceeds
\* n log n by what is said of it if and only if it does.  It follows the terms
\* of a node, and is checked of small ones.
Nodes == UNION {{p[i] : i \in DOMAIN p} : p \in Programs}
ScriptsAreSound == \A n \in Nodes : IsPlain(n) /\ Accepted(n) /\ Unsatisfiable(n) => Fulfilled(n)
CountsAreExact == \A n \in Nodes : IsCounted(n) => (Judge(n) = "exceeds" <=> Slow(n))

LEMMA NodeOf == \A p \in Programs : \A i \in DOMAIN p : p[i] \in Nodes
BY DEF Nodes

\* If scripts are sound for a node at a time, the exit code of pred and check is
\* for the whole program: no clause, node or failure is lost on the way.
THEOREM ProvedMeansHolds == ScriptsAreSound => (Spec => []ProvedHolds)
<1> SUFFICES ASSUME ScriptsAreSound PROVE Spec => []ProvedHolds
    OBVIOUS
<1>1. Inv => SuccessIsRefutation
    BY InvRefutes
<1>2. Inv /\ SuccessIsRefutation => ProvedHolds
    <2> SUFFICES ASSUME Inv, SuccessIsRefutation, Succeeded, NEW i \in DOMAIN prog, IsPlain(prog[i])
                 PROVE  Fulfilled(prog[i])
        BY Zenon DEF ProvedHolds
    <2>1. prog[i] \in Nodes
        BY NodeOf, Zenon DEF Inv, Kinds
    <2> QED
        BY <2>1, Zenon DEF SuccessIsRefutation, ScriptsAreSound
<1> QED
    BY <1>1, <1>2, InvHolds, PTL

\* If the verdict on a node is exact, so is the exit code of complex, and of check
\* as far as it succeeds.
THEOREM CodesAreExact == CountsAreExact => (Spec => []CostsExact)
<1> SUFFICES ASSUME CountsAreExact PROVE Spec => []CostsExact
    OBVIOUS
<1>1. Inv => CostsExact
    <2> SUFFICES ASSUME Inv, pc = "exit", verdicts # <<>>, cmd \in {"complex", "check"},
                        \A i \in DOMAIN prog : IsCounted(prog[i])
                 PROVE  /\ code = 0 => ~\E i \in DOMAIN prog : Slow(prog[i])
                        /\ cmd = "complex" /\ code = 1 => \E i \in DOMAIN prog : Slow(prog[i])
        BY Zenon DEF CostsExact
    <2>1. \A i \in DOMAIN prog : Judge(prog[i]) = "exceeds" <=> Slow(prog[i])
        BY NodeOf, Zenon DEF CountsAreExact, Inv, Kinds
    <2> QED
        BY <2>1, Zenon DEF Inv, CodeTells
<1> QED
    BY <1>1, InvHolds, PTL
=============================================================================
