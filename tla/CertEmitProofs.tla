--------------------------- MODULE CertEmitProofs ---------------------------
(***************************************************************************)
(* What certification runs guarantee together, for any number of runs,     *)
(* sources, nodes and files, through crashes and failed calls.             *)
(***************************************************************************)
EXTENDS CertEmit, CertStoreProofs, Induction

\* The verdict a report on ds has for the name of n.
VerdictIn(ds, n) ==
    LET first == CHOOSE k \in 1..Len(ds) :
            /\ NameOf[ds[k]] = NameOf[n]
            /\ \A j \in 1..(k - 1) : NameOf[ds[j]] # NameOf[n]
    IN  Cx[ds[first]]

LEMMA Reported == \A w \in Writer : \A n : ReportedCx(w, n) = VerdictIn(Decls(w), n)
    BY DEF ReportedCx, VerdictIn

\* A declaration is reported on by one with its name.
LEMMA VerdictType ==
    ASSUME NEW ds \in Seq(Node), NEW k \in 1..Len(ds)
    PROVE  \E m \in Node : NameOf[m] = NameOf[ds[k]] /\ VerdictIn(ds, ds[k]) = Cx[m]
<1> DEFINE Same == {j \in 1..Len(ds) : NameOf[ds[j]] = NameOf[ds[k]]}
<1> DEFINE IsFirst(m) == /\ NameOf[ds[m]] = NameOf[ds[k]]
                         /\ \A j \in 1..(m - 1) : NameOf[ds[j]] # NameOf[ds[k]]
<1>1. PICK m \in Same : \A j \in Same : m <= j
    <2>1. Same \in SUBSET Nat /\ k \in Same
        OBVIOUS
    <2> HIDE DEF Same
    <2> QED
        BY <2>1, LeastNumber
<1>2. m \in 1..Len(ds) /\ IsFirst(m)
    <2>1. \A j \in 1..(m - 1) : j \in 1..Len(ds) /\ ~(m <= j)
        BY <1>1
    <2> QED
        BY <1>1, <2>1
<1> DEFINE first == CHOOSE j \in 1..Len(ds) : IsFirst(j)
<1>3. first \in 1..Len(ds) /\ IsFirst(first)
    BY <1>2
<1>4. ds[first] \in Node /\ VerdictIn(ds, ds[k]) = Cx[ds[first]]
    BY <1>3 DEF VerdictIn
<1> QED
    BY <1>3, <1>4

\* Where names are not repeated, that is its own verdict.
NamedOnce(ds) == \A j, k \in 1..Len(ds) : NameOf[ds[j]] = NameOf[ds[k]] => j = k

LEMMA OwnVerdict ==
    ASSUME NEW ds \in Seq(Node), NamedOnce(ds), NEW k \in 1..Len(ds)
    PROVE  VerdictIn(ds, ds[k]) = Cx[ds[k]]
<1> DEFINE IsFirst(m) == /\ NameOf[ds[m]] = NameOf[ds[k]]
                         /\ \A j \in 1..(m - 1) : NameOf[ds[j]] # NameOf[ds[k]]
<1>1. IsFirst(k)
    <2>1. \A j \in 1..(k - 1) : j \in 1..Len(ds) /\ j # k
        OBVIOUS
    <2> QED
        BY <2>1 DEF NamedOnce
<1>2. \A m \in 1..Len(ds) : IsFirst(m) => m = k
    BY DEF NamedOnce
<1>3. (CHOOSE m \in 1..Len(ds) : IsFirst(m)) = k
    BY <1>1, <1>2
<1> QED
    BY <1>3 DEF VerdictIn

\* Appending to a sequence.
LEMMA AppendElements ==
    ASSUME NEW S, NEW s \in Seq(S), NEW e \in S
    PROVE  /\ Append(s, e) \in Seq(S)
           /\ Len(Append(s, e)) = Len(s) + 1
           /\ \A k \in 1..Len(s) : Append(s, e)[k] = s[k]
           /\ Append(s, e)[Len(s) + 1] = e
           /\ Len(s) \in Nat
    OBVIOUS

\* The elements of a sequence.
LEMMA Elements ==
    ASSUME NEW S, NEW s \in Seq(S)
    PROVE  /\ Len(s) \in Nat
           /\ DOMAIN s = 1..Len(s)
           /\ \A k \in 1..Len(s) : s[k] \in S
           /\ Len(s) = 0 => s = <<>>
    OBVIOUS

-----------------------------------------------------------------------------
(***************************************************************************)
(* Runs use the store as CertStore describes it: a step of a run is a step *)
(* of the store, or leaves it alone.                                       *)
(***************************************************************************)
EmitTypes == EmitTypeOK /\ TypeInv

\* What is known of the sequences of a well-typed run.
LEMMA RunTypes ==
    ASSUME EmitTypes, NEW w \in Writer
    PROVE  /\ src[w] \in Source
           /\ Decls(w) \in Seq(Node)
           /\ pending[w] \in Seq(Cert)
           /\ out[w] \in Seq(Cert)
    BY EmitAssumption DEF EmitTypes, EmitTypeOK, Decls

\* A run that stores has a certificate to put.
Owing(w) == phase[w] = "store" => Len(out[w]) + 1 \in DOMAIN pending[w]

LEMMA StoreStep ==
    ASSUME EmitTypes, \A w \in Writer : Owing(w), [EmitNext]_<<vars, runVars>>
    PROVE  [Next]_vars
<1>1. ASSUME NEW w \in Writer, PutNext(w) PROVE [Next]_vars
    <2>1. Len(out[w]) + 1 \in DOMAIN pending[w]
        BY <1>1 DEF PutNext, Owing
    <2>2. pending[w][Len(out[w]) + 1] \in Cert
        BY <2>1, RunTypes, Elements
    <2> QED
        BY <1>1, <2>2 DEF PutNext, Next
<1>2. ASSUME NEW w \in Writer, Crash(w) PROVE [Next]_vars
    BY <1>2 DEF Crash, Next, PutCrash
<1>3. ASSUME NEW w \in Writer, PutStep(w) \/ PutFault(w) PROVE [Next]_vars
    BY <1>3 DEF PutStep, PutFault, Next
<1>4. ASSUME NEW w \in Writer, NixBuild(w) \/ Front(w) \/ GateNode(w) \/ GatesDone(w) \/ PutOk(w) \/ PutErr(w)
      PROVE  [Next]_vars
    BY <1>4 DEF NixBuild, Front, GateNode, GatesDone, PutOk, PutErr
<1>5. ASSUME NEW w \in Writer, NEW k \in {"emit", "compile", "build"}, NEW s \in Source, Begin(w, k, s)
      PROVE  [Next]_vars
    BY <1>5 DEF Begin
<1> QED
    BY <1>1, <1>2, <1>3, <1>4, <1>5 DEF EmitNext, ChildStep, OwnStep

-----------------------------------------------------------------------------
(***************************************************************************)
(* The inductive invariant of a run.                                       *)
(***************************************************************************)
Needs(w) == IF kind[w] = "emit" THEN {"parse", "link", "type", "key"} ELSE {"parse", "type"}

Gated == {"gate", "store", "putting", "success", "failed"}
Storing == Gated \ {"gate"}

\* The first k declarations of ds pass both provers.
Pass(ds, k) == \A j \in 1..k : ds[j] \in Valid /\ VerdictIn(ds, ds[j]) # "exceeds"

\* Certificates have been made for the declarations that have passed the
\* gates, and are stored only when all have.
Made(w) ==
    /\ phase[w] \notin Gated => pending[w] = <<>>
    /\ phase[w] \in Gated =>
         /\ Needs(w) \subseteq src[w].passes
         /\ Len(pending[w]) <= Len(Decls(w))
         /\ Pass(Decls(w), Len(pending[w]))
         /\ \A j \in 1..Len(pending[w]) : pending[w][j][1] = Decls(w)[j]
    /\ phase[w] \in Storing => Len(pending[w]) = Len(Decls(w))

\* What has been reported are the first of them, and in the store.
Told(w) ==
    /\ phase[w] \notin Storing => out[w] = <<>>
    /\ Len(out[w]) <= Len(pending[w])
    /\ phase[w] \in {"store", "putting"} => Len(out[w]) < Len(pending[w])
    /\ phase[w] = "success" => Len(out[w]) = Len(pending[w])
    /\ \A j \in 1..Len(out[w]) : out[w][j] = pending[w][j] /\ out[w][j] \in acked

\* A run is inside put for the next of them, and nowhere else.
Putting(w) ==
    /\ phase[w] # "putting" => ~Busy(w)
    /\ phase[w] = "putting" => wcert[w] = pending[w][Len(out[w]) + 1]
    /\ phase[w] = "putting" /\ wpc[w] = "ok" => wcert[w] \in acked

RunOK(w) == Made(w) /\ Told(w) /\ Putting(w)

Runs == EmitTypes /\ \A w \in Writer : RunOK(w)

LEMMA RunsInit == EmitInit => Runs
<1> SUFFICES ASSUME EmitInit PROVE Runs
    OBVIOUS
<1>1. TypeInv
    BY TypeInit DEF EmitInit
<1>2. AnySource \in Source
    BY EmitAssumption DEF AnySource
<1>3. EmitTypeOK
    BY <1>1, <1>2 DEF EmitInit, EmitTypeOK, TypeInv, Unbound, Inactive
<1>4. \A w \in Writer : RunOK(w)
    BY DEF EmitInit, Init, RunOK, Made, Told, Putting, Gated, Storing, Busy
<1> QED
    BY <1>1, <1>3, <1>4 DEF Runs, EmitTypes

LEMMA RunsOwing == Runs => \A w \in Writer : Owing(w)
<1> SUFFICES ASSUME Runs, NEW w \in Writer, phase[w] = "store" PROVE Len(out[w]) + 1 \in DOMAIN pending[w]
    BY DEF Owing
<1>1. Len(out[w]) < Len(pending[w])
    BY DEF Runs, RunOK, Told
<1>2. Len(out[w]) \in Nat /\ Len(pending[w]) \in Nat /\ DOMAIN pending[w] = 1..Len(pending[w])
    BY RunTypes, Elements DEF Runs
<1> QED
    BY <1>1, <1>2

\* A run that takes no step is as it was.
LEMMA RunFrame ==
    ASSUME NEW w \in Writer, RunOK(w), acked \subseteq acked',
           UNCHANGED <<phase[w], kind[w], src[w], pending[w], out[w], wpc[w], wcert[w]>>
    PROVE  RunOK(w)'
<1>1. UNCHANGED <<Decls(w), Needs(w), Busy(w)>>
    BY DEF Decls, Needs, Busy
<1>2. Made(w)'
    BY <1>1 DEF RunOK, Made
<1>3. Told(w)'
    BY DEF RunOK, Told
<1>4. Putting(w)'
    BY <1>1 DEF RunOK, Putting
<1> QED
    BY <1>2, <1>3, <1>4 DEF RunOK

\* The store never forgets that a put has returned Ok.
LEMMA AckedGrows == ASSUME [Next]_vars PROVE acked \subseteq acked'
    BY DEF Next, WriterStep, ReaderStep, PutCall, PutCreate, PutWrite, PutSync, PutRename,
           PutRenameGone, PutFail, PutCrash, PutStop, GetExists, GetOpen, GetRead, GetReturn, GetFail,
           Writeback, PowerLoss, vars, history

\* A run that has ended without a trace.
LEMMA EndRunOK ==
    ASSUME EmitTypes, NEW w \in Writer, NEW outcome \in {"refused", "dead"}, EndRun(w, outcome),
           ~Busy(w)'
    PROVE  RunOK(w)'
<1>1. phase'[w] = outcome /\ pending'[w] = <<>> /\ out'[w] = <<>>
    BY DEF EndRun, EmitTypes, EmitTypeOK
<1>2. Len(<<>>) = 0 /\ 1..0 = {}
    OBVIOUS
<1> QED
    BY <1>1, <1>2 DEF RunOK, Made, Told, Putting, Gated, Storing

\* It keeps the types.
LEMMA EndRunTypes ==
    ASSUME EmitTypes, TypeInv', NEW w \in Writer, NEW outcome \in Inactive, EndRun(w, outcome)
    PROVE  EmitTypeOK'
<1>1. AnySource \in Source
    BY EmitAssumption DEF AnySource
<1>2. Unbound \in [DOMAIN Unbound -> Impl \cup {None}]
    BY DEF Unbound
<1> QED
    BY <1>1, <1>2 DEF EndRun, EmitTypes, EmitTypeOK, TypeInv

-----------------------------------------------------------------------------
(***************************************************************************)
(* Each step of a run.                                                     *)
(***************************************************************************)
LEMMA BeginOK ==
    ASSUME Runs, TypeInv', NEW w \in Writer, NEW k \in {"emit", "compile", "build"}, NEW s \in Source,
           Begin(w, k, s)
    PROVE  EmitTypeOK' /\ RunOK(w)'
<1> USE DEF Runs, EmitTypes, EmitTypeOK
<1>1. /\ phase[w] = "idle" /\ phase'[w] \in {"nix", "front"}
      /\ UNCHANGED <<pending, out, vars>>
    BY DEF Begin
<1>2. bind' \in [Writer -> [DOMAIN Unbound -> Impl \cup {None}]]
    <2>1. PICK h \in Impl \cup {None}, target \in {NameOf[s.linked[j]] : j \in DOMAIN s.linked} \cup {None} :
            bind' = [bind EXCEPT ![w] = [x \in DOMAIN Unbound |-> IF target \in {None, x} THEN h ELSE None]]
        BY DEF Begin
    <2>2. [x \in DOMAIN Unbound |-> IF target \in {None, x} THEN h ELSE None]
            \in [DOMAIN Unbound -> Impl \cup {None}]
        OBVIOUS
    <2> QED
        BY <2>1, <2>2
<1>3. EmitTypeOK'
    BY <1>1, <1>2 DEF Begin, TypeInv
<1>4. Busy(w)' = Busy(w) /\ ~Busy(w)
    BY <1>1 DEF vars, writerVars, Busy, RunOK, Putting
<1>5. RunOK(w)'
    BY <1>1, <1>4 DEF RunOK, Made, Told, Putting, Gated, Storing
<1> QED
    BY <1>3, <1>5

LEMMA NixBuildOK ==
    ASSUME Runs, TypeInv', NEW w \in Writer, NixBuild(w)
    PROVE  EmitTypeOK' /\ RunOK(w)'
<1> USE DEF Runs, EmitTypes
<1>1. phase[w] = "nix" /\ UNCHANGED vars
    BY DEF NixBuild
<1>2. Busy(w)' = Busy(w) /\ ~Busy(w)
    BY <1>1 DEF vars, writerVars, Busy, RunOK, Putting
<1>3. CASE EndRun(w, "refused")
    BY <1>2, <1>3, EndRunOK, EndRunTypes DEF Inactive
<1>4. CASE ~EndRun(w, "refused")
    <2>1. /\ phase' = [phase EXCEPT ![w] = "front"] /\ UNCHANGED <<kind, src, pending, out>>
          /\ \E m \in [{NameOf[src[w].local[j]] : j \in DOMAIN src[w].local} -> Impl \cup {None}] :
               bind' = [bind EXCEPT ![w] =
                 [x \in DOMAIN Unbound |-> IF x \in DOMAIN m THEN m[x] ELSE None]]
        BY <1>4 DEF NixBuild
    <2>2. bind' \in [Writer -> [DOMAIN Unbound -> Impl \cup {None}]]
        <3>1. PICK m \in [{NameOf[src[w].local[j]] : j \in DOMAIN src[w].local} -> Impl \cup {None}] :
               bind' = [bind EXCEPT ![w] =
                 [x \in DOMAIN Unbound |-> IF x \in DOMAIN m THEN m[x] ELSE None]]
            BY <2>1
        <3>2. [x \in DOMAIN Unbound |-> IF x \in DOMAIN m THEN m[x] ELSE None]
                \in [DOMAIN Unbound -> Impl \cup {None}]
            OBVIOUS
        <3> QED
            BY <3>1, <3>2 DEF EmitTypeOK
    <2>3. EmitTypeOK'
        BY <2>1, <2>2 DEF EmitTypeOK, TypeInv
    <2>4. phase'[w] = "front"
        BY <2>1 DEF EmitTypeOK
    <2>5. RunOK(w)'
        BY <1>1, <1>2, <2>1, <2>4 DEF RunOK, Made, Told, Putting, Gated, Storing
    <2> QED
        BY <2>3, <2>5
<1> QED
    BY <1>3, <1>4

LEMMA FrontOK ==
    ASSUME Runs, TypeInv', NEW w \in Writer, Front(w)
    PROVE  EmitTypeOK' /\ RunOK(w)'
<1> USE DEF Runs, EmitTypes
<1>1. phase[w] = "front" /\ UNCHANGED vars
    BY DEF Front
<1>2. Busy(w)' = Busy(w) /\ ~Busy(w)
    BY <1>1 DEF vars, writerVars, Busy, RunOK, Putting
<1>3. CASE EndRun(w, "refused")
    BY <1>2, <1>3, EndRunOK, EndRunTypes DEF Inactive
<1>4. CASE ~EndRun(w, "refused")
    <2>1. /\ phase' = [phase EXCEPT ![w] = "gate"] /\ UNCHANGED <<kind, src, bind, pending, out>>
          /\ Needs(w) \subseteq src[w].passes
        BY <1>4 DEF Front, Needs
    <2>2. EmitTypeOK'
        BY <2>1 DEF EmitTypeOK, TypeInv
    <2>3. phase'[w] = "gate"
        BY <2>1 DEF EmitTypeOK
    <2>4. UNCHANGED <<Decls(w), Needs(w)>>
        BY <2>1 DEF Decls, Needs
    <2>5. pending[w] = <<>> /\ out[w] = <<>> /\ Len(<<>>) = 0 /\ 1..0 = {}
        BY <1>1 DEF RunOK, Made, Told, Gated, Storing
    <2>6. Len(Decls(w)) \in Nat
        BY RunTypes, Elements
    <2>7. Made(w)'
        BY <2>1, <2>3, <2>4, <2>5, <2>6 DEF Made, Pass, Gated, Storing
    <2>8. Told(w)' /\ Putting(w)'
        BY <1>2, <2>1, <2>3, <2>5 DEF Told, Putting, Storing, Gated
    <2> QED
        BY <2>2, <2>7, <2>8 DEF RunOK
<1> QED
    BY <1>3, <1>4

LEMMA GateNodeOK ==
    ASSUME Runs, TypeInv', NEW w \in Writer, GateNode(w)
    PROVE  EmitTypeOK' /\ RunOK(w)'
<1> USE DEF Runs, EmitTypes
<1> DEFINE n == Decls(w)[Len(pending[w]) + 1]
<1> DEFINE c == <<n, bind[w][NameOf[n]], VerdictIn(Decls(w), n)>>
<1>1. phase[w] = "gate" /\ UNCHANGED vars /\ Len(pending[w]) < Len(Decls(w))
    BY DEF GateNode
<1>2. Busy(w)' = Busy(w) /\ ~Busy(w)
    BY <1>1 DEF vars, writerVars, Busy, RunOK, Putting
<1>3. CASE EndRun(w, "refused")
    BY <1>2, <1>3, EndRunOK, EndRunTypes DEF Inactive
<1>4. CASE ~EndRun(w, "refused")
    <2>1. /\ pending' = [pending EXCEPT ![w] = Append(@, c)]
          /\ UNCHANGED <<phase, kind, src, bind, out>>
          /\ VerdictIn(Decls(w), n) # "exceeds"
          /\ n \in Valid
        BY <1>4, Reported DEF GateNode, Discharge
    <2>2. /\ Decls(w) \in Seq(Node) /\ pending[w] \in Seq(Cert)
          /\ Len(pending[w]) \in Nat /\ Len(Decls(w)) \in Nat /\ DOMAIN pending[w] = 1..Len(pending[w])
        BY RunTypes, Elements
    <2>3. Len(pending[w]) + 1 \in 1..Len(Decls(w)) /\ n \in Node
        BY <1>1, <2>2, Elements
    <2>4. c \in Cert
        <3>1. PICK m \in Node : NameOf[m] = NameOf[n] /\ VerdictIn(Decls(w), n) = Cx[m]
            BY <2>2, <2>3, VerdictType
        <3>2. bind[w][NameOf[n]] \in Impl \cup {None}
            BY <2>3 DEF EmitTypeOK, Unbound
        <3> QED
            BY <2>1, <3>1, <3>2, EmitAssumption
    <2>5. /\ pending'[w] = Append(pending[w], c)
          /\ Append(pending[w], c) \in Seq(Cert)
        BY <2>1, <2>2, <2>4, AppendElements DEF EmitTypeOK
    <2>6. EmitTypeOK'
        BY <2>1, <2>5 DEF EmitTypeOK, TypeInv
    <2>7. /\ Len(pending'[w]) = Len(pending[w]) + 1
          /\ \A k \in 1..Len(pending[w]) : pending'[w][k] = pending[w][k]
          /\ pending'[w][Len(pending[w]) + 1] = c
        BY <2>2, <2>4, <2>5, AppendElements
    <2>8. UNCHANGED <<Decls(w), Needs(w), phase[w], src[w], out[w]>>
        BY <2>1 DEF Decls, Needs
    <2>9. \A j \in 1..(Len(pending[w]) + 1) : j \in 1..Len(pending[w]) \/ j = Len(pending[w]) + 1
        BY <2>2
    <2>10. /\ Needs(w) \subseteq src[w].passes
           /\ Pass(Decls(w), Len(pending[w]))
           /\ \A j \in 1..Len(pending[w]) : pending[w][j][1] = Decls(w)[j]
           /\ out[w] = <<>>
        BY <1>1 DEF RunOK, Made, Told, Gated, Storing
    <2>11. Pass(Decls(w), Len(pending[w]) + 1)
        BY <2>1, <2>9, <2>10 DEF Pass
    <2>12. \A j \in 1..(Len(pending[w]) + 1) : pending'[w][j][1] = Decls(w)[j]
        BY <2>7, <2>9, <2>10
    <2>13. Len(pending[w]) + 1 <= Len(Decls(w))
        BY <2>2, <2>3
    <2>14. Made(w)'
        BY <1>1, <2>7, <2>8, <2>10, <2>11, <2>12, <2>13 DEF Made, Gated, Storing
    <2>15. Told(w)' /\ Putting(w)'
        <3>1. Len(<<>>) = 0 /\ 1..0 = {} /\ 0 <= Len(pending[w]) + 1
            BY <2>2
        <3> QED
            BY <1>1, <1>2, <2>7, <2>8, <2>10, <3>1 DEF Told, Putting, Gated, Storing
    <2> QED
        BY <2>6, <2>14, <2>15 DEF RunOK
<1> QED
    BY <1>3, <1>4

LEMMA GatesDoneOK ==
    ASSUME Runs, TypeInv', NEW w \in Writer, GatesDone(w)
    PROVE  EmitTypeOK' /\ RunOK(w)'
<1> USE DEF Runs, EmitTypes
<1>1. phase[w] = "gate" /\ UNCHANGED vars /\ Len(pending[w]) = Len(Decls(w))
    BY DEF GatesDone
<1>2. Busy(w)' = Busy(w) /\ ~Busy(w)
    BY <1>1 DEF vars, writerVars, Busy, RunOK, Putting
<1>3. CASE EndRun(w, "refused")
    BY <1>2, <1>3, EndRunOK, EndRunTypes DEF Inactive
<1>4. CASE ~EndRun(w, "refused")
    <2>1. /\ pending[w] # <<>>
          /\ phase' = [phase EXCEPT ![w] = "store"]
          /\ bind' = [bind EXCEPT ![w] = Unbound]
          /\ UNCHANGED <<kind, src, pending, out>>
        BY <1>4 DEF GatesDone
    <2>2. Unbound \in [DOMAIN Unbound -> Impl \cup {None}]
        BY DEF Unbound
    <2>3. EmitTypeOK'
        BY <2>1, <2>2 DEF EmitTypeOK, TypeInv
    <2>4. phase'[w] = "store"
        BY <2>1 DEF EmitTypeOK
    <2>5. UNCHANGED <<Decls(w), Needs(w), src[w], pending[w], out[w]>>
        BY <2>1 DEF Decls, Needs
    <2>6. Made(w)'
        BY <1>1, <2>4, <2>5 DEF RunOK, Made, Gated, Storing
    <2>7. out[w] = <<>> /\ Len(out[w]) < Len(pending[w])
        <3>1. out[w] = <<>> /\ Len(<<>>) = 0
            BY <1>1 DEF RunOK, Told, Gated, Storing
        <3>2. Len(pending[w]) \in Nat /\ Len(pending[w]) # 0
            BY <2>1, RunTypes, Elements
        <3> QED
            BY <3>1, <3>2
    <2>8. Told(w)' /\ Putting(w)'
        BY <1>2, <2>4, <2>5, <2>7 DEF RunOK, Told, Putting, Gated, Storing
    <2> QED
        BY <2>3, <2>6, <2>8 DEF RunOK
<1> QED
    BY <1>3, <1>4

LEMMA PutNextOK ==
    ASSUME Runs, TypeInv', NEW w \in Writer, PutNext(w)
    PROVE  EmitTypeOK' /\ RunOK(w)'
<1> USE DEF Runs, EmitTypes
<1>1. /\ phase[w] = "store" /\ phase' = [phase EXCEPT ![w] = "putting"]
      /\ UNCHANGED <<kind, src, bind, pending, out, acked>>
      /\ wpc' = [wpc EXCEPT ![w] = "create"]
      /\ wcert' = [wcert EXCEPT ![w] = pending[w][Len(out[w]) + 1]]
    BY DEF PutNext, PutCall
<1>2. EmitTypeOK'
    BY <1>1 DEF EmitTypeOK, TypeInv
<1>3. phase'[w] = "putting" /\ wpc'[w] = "create" /\ wcert'[w] = pending[w][Len(out[w]) + 1]
    BY <1>1 DEF EmitTypeOK, TypeOK
<1>4. UNCHANGED <<Decls(w), Needs(w), src[w], pending[w], out[w]>>
    BY <1>1 DEF Decls, Needs
<1>5. Made(w)' /\ Told(w)' /\ Putting(w)'
    BY <1>1, <1>3, <1>4 DEF RunOK, Made, Told, Putting, Gated, Storing
<1> QED
    BY <1>2, <1>5 DEF RunOK

LEMMA PutOkOK ==
    ASSUME Runs, TypeInv', NEW w \in Writer, PutOk(w)
    PROVE  EmitTypeOK' /\ RunOK(w)'
<1> USE DEF Runs, EmitTypes
<1> DEFINE next == IF Len(out[w]) + 1 = Len(pending[w]) THEN "success" ELSE "store"
<1>1. /\ phase[w] = "putting" /\ wpc[w] = "ok"
      /\ phase' = [phase EXCEPT ![w] = next]
      /\ out' = [out EXCEPT ![w] = Append(@, wcert[w])]
      /\ UNCHANGED <<kind, src, bind, pending, vars>>
    BY DEF PutOk
<1>2. /\ Made(w) /\ Told(w)
      /\ wcert[w] = pending[w][Len(out[w]) + 1] /\ wcert[w] \in acked
      /\ Len(out[w]) < Len(pending[w])
    BY <1>1 DEF RunOK, Told, Putting
<1>3. /\ out[w] \in Seq(Cert) /\ Len(out[w]) \in Nat /\ Len(pending[w]) \in Nat
      /\ wcert[w] \in Cert
    BY <1>2, RunTypes, Elements DEF EmitTypeOK, TypeOK
<1>4. /\ out'[w] = Append(out[w], wcert[w])
      /\ out'[w] \in Seq(Cert)
      /\ Len(out'[w]) = Len(out[w]) + 1
      /\ \A k \in 1..Len(out[w]) : out'[w][k] = out[w][k]
      /\ out'[w][Len(out[w]) + 1] = wcert[w]
    BY <1>1, <1>3, AppendElements DEF EmitTypeOK
<1>5. EmitTypeOK'
    BY <1>1, <1>4 DEF EmitTypeOK, TypeInv, Inactive
<1>6. phase'[w] = next /\ next \in {"success", "store"}
    BY <1>1 DEF EmitTypeOK
<1>7. UNCHANGED <<Decls(w), Needs(w), src[w], pending[w], acked>>
    BY <1>1 DEF Decls, Needs, vars, history
<1>8. Made(w)'
    BY <1>1, <1>2, <1>6, <1>7 DEF Made, Gated, Storing
<1>9. Told(w)'
    <2>1. \A j \in 1..(Len(out[w]) + 1) : j \in 1..Len(out[w]) \/ j = Len(out[w]) + 1
        BY <1>3
    <2>2. \A j \in 1..Len(out'[w]) : out'[w][j] = pending[w][j] /\ out'[w][j] \in acked
        BY <1>2, <1>4, <2>1 DEF Told
    <2>3. Len(out'[w]) <= Len(pending[w])
        BY <1>2, <1>3, <1>4
    <2>4. phase'[w] = "store" => Len(out'[w]) < Len(pending[w])
        BY <1>2, <1>3, <1>4, <1>6
    <2>5. phase'[w] = "success" => Len(out'[w]) = Len(pending[w])
        BY <1>4, <1>6
    <2> QED
        BY <1>6, <1>7, <2>2, <2>3, <2>4, <2>5 DEF Told, Storing, Gated
<1>10. Putting(w)'
    BY <1>1, <1>6 DEF Putting, Busy, vars, writerVars
<1> QED
    BY <1>5, <1>8, <1>9, <1>10 DEF RunOK

LEMMA PutErrOK ==
    ASSUME Runs, TypeInv', NEW w \in Writer, PutErr(w)
    PROVE  EmitTypeOK' /\ RunOK(w)'
<1> USE DEF Runs, EmitTypes
<1>1. /\ phase[w] = "putting" /\ wpc[w] = "err"
      /\ phase' = [phase EXCEPT ![w] = "failed"]
      /\ UNCHANGED <<kind, src, bind, pending, out, vars>>
    BY DEF PutErr
<1>2. EmitTypeOK'
    BY <1>1 DEF EmitTypeOK, TypeInv, Inactive
<1>3. phase'[w] = "failed"
    BY <1>1 DEF EmitTypeOK
<1>4. UNCHANGED <<Decls(w), Needs(w), src[w], pending[w], out[w], acked>>
    BY <1>1 DEF Decls, Needs, vars, history
<1>5. Made(w)' /\ Told(w)'
    BY <1>1, <1>3, <1>4 DEF RunOK, Made, Told, Gated, Storing
<1>6. Putting(w)'
    BY <1>1, <1>3 DEF Putting, Busy, vars, writerVars
<1> QED
    BY <1>2, <1>5, <1>6 DEF RunOK

LEMMA PutStepOK ==
    ASSUME Runs, TypeInv', NEW w \in Writer, PutStep(w) \/ PutFault(w)
    PROVE  EmitTypeOK' /\ RunOK(w)'
<1> USE DEF Runs, EmitTypes
<1>1. UNCHANGED runVars /\ UNCHANGED wcert
    BY DEF PutStep, PutFault, WriterStep, PutCreate, PutWrite, PutSync, PutRename, PutRenameGone,
           PutFail, PutStop, writerVars
<1>2. EmitTypeOK'
    BY <1>1 DEF EmitTypeOK, TypeInv, runVars
<1>3. Busy(w) /\ phase[w] = "putting"
    BY DEF PutStep, PutFault, WriterStep, PutCreate, PutWrite, PutSync, PutRename, PutRenameGone,
           PutFail, PutStop, Busy, RunOK, Putting
<1>4. acked \subseteq acked' /\ (wpc'[w] = "ok" => wcert[w] \in acked')
    BY <1>3 DEF PutStep, PutFault, WriterStep, PutCreate, PutWrite, PutSync, PutRename,
           PutRenameGone, PutFail, PutStop, Busy, EmitTypeOK, TypeOK, history
<1>5. UNCHANGED <<Decls(w), Needs(w), src[w], pending[w], out[w], phase[w], wcert[w]>>
    BY <1>1 DEF Decls, Needs, runVars
<1>6. Made(w)' /\ Told(w)'
    BY <1>4, <1>5 DEF RunOK, Made, Told
<1>7. Putting(w)'
    BY <1>3, <1>4, <1>5 DEF RunOK, Putting
<1> QED
    BY <1>2, <1>6, <1>7 DEF RunOK

LEMMA CrashOK ==
    ASSUME Runs, TypeInv', NEW w \in Writer, Crash(w)
    PROVE  EmitTypeOK' /\ RunOK(w)'
<1> USE DEF Runs, EmitTypes
<1>1. EndRun(w, "dead")
    BY DEF Crash
<1>2. ~Busy(w)'
    BY DEF Crash, PutStop, Busy, EmitTypeOK, TypeOK, vars, writerVars
<1> QED
    BY <1>1, <1>2, EndRunOK, EndRunTypes DEF Inactive

-----------------------------------------------------------------------------
\* What a step of one run leaves alone in the others.
LEMMA OthersStay ==
    ASSUME Runs, NEW w \in Writer, NEW v \in Writer, v # w,
           \/ ChildStep(w) \/ OwnStep(w) \/ PutFault(w) \/ Crash(w)
           \/ \E k \in {"emit", "compile", "build"}, s \in Source : Begin(w, k, s)
    PROVE  UNCHANGED <<phase[v], kind[v], src[v], pending[v], out[v], wpc[v], wcert[v]>>
<1> USE DEF Runs, EmitTypes, EmitTypeOK, TypeOK
<1>1. CASE PutStep(w) \/ PutFault(w)
    <2>1. UNCHANGED runVars /\ UNCHANGED wcert
        BY <1>1 DEF PutStep, PutFault, WriterStep, PutCreate, PutWrite, PutSync, PutRename,
               PutRenameGone, PutFail, PutStop, writerVars
    <2>2. UNCHANGED wpc[v]
        BY <1>1 DEF PutStep, PutFault, WriterStep, PutCreate, PutWrite, PutSync, PutRename,
               PutRenameGone, PutFail, PutStop
    <2> QED
        BY <2>1, <2>2 DEF runVars
<1>2. CASE Crash(w)
    <2>1. UNCHANGED <<wpc[v], wcert[v]>>
        BY <1>2 DEF Crash, PutStop, vars, writerVars
    <2> QED
        BY <1>2, <2>1 DEF Crash, EndRun
<1>3. CASE PutNext(w)
    BY <1>3 DEF PutNext, PutCall
<1>4. CASE NixBuild(w) \/ Front(w) \/ GateNode(w) \/ GatesDone(w)
    <2>1. UNCHANGED vars
        BY <1>4 DEF NixBuild, Front, GateNode, GatesDone
    <2>2. UNCHANGED <<phase[v], kind[v], src[v], pending[v], out[v]>>
        BY <1>4 DEF NixBuild, Front, GateNode, GatesDone, EndRun
    <2> QED
        BY <2>1, <2>2 DEF vars, writerVars
<1>5. CASE PutOk(w) \/ PutErr(w)
    BY <1>5 DEF PutOk, PutErr, vars, writerVars
<1>6. CASE \E k \in {"emit", "compile", "build"}, s \in Source : Begin(w, k, s)
    BY <1>6 DEF Begin, vars, writerVars
<1> QED
    BY <1>1, <1>2, <1>3, <1>4, <1>5, <1>6 DEF ChildStep, OwnStep

LEMMA RunsStep == Runs /\ [EmitNext]_<<vars, runVars>> => Runs'
<1> SUFFICES ASSUME Runs, [EmitNext]_<<vars, runVars>> PROVE Runs'
    OBVIOUS
<1>1. [Next]_vars
    BY RunsOwing, StoreStep DEF Runs
<1>2. TypeInv'
    BY <1>1, TypeStep DEF Runs, EmitTypes
<1>3. acked \subseteq acked'
    BY <1>1, AckedGrows
<1>4. ASSUME NEW w \in Writer, EmitTypeOK', RunOK(w)',
             \/ ChildStep(w) \/ OwnStep(w) \/ PutFault(w) \/ Crash(w)
             \/ \E k \in {"emit", "compile", "build"}, s \in Source : Begin(w, k, s)
      PROVE  Runs'
    <2>1. ASSUME NEW v \in Writer PROVE RunOK(v)'
        <3>1. CASE v = w
            BY <1>4, <3>1
        <3>2. CASE v # w
            <4>1. RunOK(v)
                BY DEF Runs
            <4> QED
                BY <1>3, <1>4, <3>2, <4>1, OthersStay, RunFrame
        <3> QED
            BY <3>1, <3>2
    <2> QED
        BY <1>2, <1>4, <2>1 DEF Runs, EmitTypes
<1>5. ASSUME NEW w \in Writer, ChildStep(w) \/ OwnStep(w) \/ PutFault(w) \/ Crash(w) PROVE Runs'
    <2>1. EmitTypeOK' /\ RunOK(w)'
        BY <1>2, <1>5, NixBuildOK, FrontOK, GateNodeOK, GatesDoneOK, PutNextOK, PutStepOK, PutOkOK,
           PutErrOK, CrashOK DEF ChildStep, OwnStep
    <2> QED
        BY <1>4, <1>5, <2>1
<1>6. ASSUME NEW w \in Writer, NEW k \in {"emit", "compile", "build"}, NEW s \in Source, Begin(w, k, s)
      PROVE  Runs'
    <2>1. EmitTypeOK' /\ RunOK(w)'
        BY <1>2, <1>6, BeginOK
    <2> QED
        BY <1>4, <1>6, <2>1
<1>7. CASE UNCHANGED <<vars, runVars>>
    <2>1. EmitTypeOK'
        BY <1>2, <1>7 DEF Runs, EmitTypes, EmitTypeOK, TypeInv, runVars
    <2>2. ASSUME NEW w \in Writer PROVE RunOK(w)'
        BY <1>3, <1>7, RunFrame DEF Runs, vars, runVars, writerVars
    <2> QED
        BY <1>2, <2>1, <2>2 DEF Runs, EmitTypes
<1> QED
    BY <1>5, <1>6, <1>7 DEF EmitNext

LEMMA RunsInvariant == EmitSpec => []Runs
    BY RunsInit, RunsStep, PTL DEF EmitSpec

\* The types of runs and of the store are right in every state.
THEOREM EmitTypeCorrect == EmitSpec => []EmitTypeOK
<1>1. Runs => EmitTypeOK
    BY DEF Runs, EmitTypes
<1> QED
    BY <1>1, RunsInvariant, PTL

\* However runs interleave, what they do to the store is what CertStore
\* describes: everything proved of the store holds under them.
THEOREM RunsUseTheStore == EmitSpec => Spec
<1>1. EmitInit => Init
    BY DEF EmitInit
<1>2. Runs /\ [EmitNext]_<<vars, runVars>> => [Next]_vars
    BY RunsOwing, StoreStep DEF Runs
<1> QED
    BY <1>1, <1>2, RunsInvariant, PTL DEF EmitSpec, Spec

\* A run that reports success has stored a certificate for every node it was to
\* certify, in order; one that failed midway has stored the ones it reported.
THEOREM ReportsAreStored == EmitSpec => []ReportsWhatItStored
<1>1. Runs => ReportsWhatItStored
    <2> SUFFICES ASSUME Runs, NEW w \in Writer
                 PROVE  /\ \A j \in DOMAIN out[w] : out[w][j] = pending[w][j] /\ out[w][j] \in acked
                        /\ phase[w] = "success" =>
                             [j \in DOMAIN out[w] |-> out[w][j][1]] = Decls(w)
        BY DEF ReportsWhatItStored
    <2>1. Made(w) /\ Told(w)
        BY DEF Runs, RunOK
    <2>2. /\ out[w] \in Seq(Cert) /\ Decls(w) \in Seq(Node) /\ DOMAIN out[w] = 1..Len(out[w])
          /\ Len(out[w]) \in Nat
        BY RunTypes, Elements DEF Runs
    <2>3. ASSUME phase[w] = "success"
          PROVE  [j \in DOMAIN out[w] |-> out[w][j][1]] = Decls(w)
        <3>1. Len(out[w]) = Len(pending[w]) /\ Len(pending[w]) = Len(Decls(w))
            BY <2>1, <2>3 DEF Made, Told, Storing, Gated
        <3>2. \A j \in 1..Len(Decls(w)) : out[w][j][1] = Decls(w)[j]
            BY <2>1, <2>3, <3>1 DEF Made, Told, Gated
        <3>3. Decls(w) = [j \in 1..Len(Decls(w)) |-> Decls(w)[j]]
            BY <2>2
        <3> QED
            BY <2>2, <3>1, <3>2, <3>3
    <2> QED
        BY <2>1, <2>2, <2>3 DEF Told
<1> QED
    BY <1>1, RunsInvariant, PTL

-----------------------------------------------------------------------------
\* A certificate that a path, a writer or a result of put speaks of.
InStore(c) == Published(c) \/ tmp[c] # None \/ c \in acked

\* Only put brings one in.
LEMMA OnlyPutStores ==
    ASSUME TypeInv, [Next]_vars, NEW c \in Cert, InStore(c)'
    PROVE  InStore(c) \/ \E w \in Writer : Busy(w) /\ wcert[w] = c
<1> USE EmitAssumption DEF InStore, Published, TypeInv, TypeOK, dirVars, history
<1>1. ASSUME NEW w \in Writer, WriterStep(w)
      PROVE  InStore(c) \/ (Busy(w) /\ wcert[w] = c)
    BY <1>1 DEF WriterStep, PutCreate, PutWrite, PutSync, PutRename, PutRenameGone, Busy
<1>2. CASE UNCHANGED <<final, tmp, acked>>
    BY <1>2
<1>3. QED
    BY <1>1, <1>2
       DEF Next, ReaderStep, PutCall, PutFail, PutCrash, PutStop, GetExists, GetOpen, GetRead,
           GetReturn, GetFail, Writeback, PowerLoss, vars

\* Its source passes the gates as a whole.
Passed(c) ==
    \E s \in Source :
        \/ /\ Certifiable(s, s.local, {"parse", "type"})
           /\ \E j \in DOMAIN s.local : s.local[j] = c[1]
        \/ /\ Certifiable(s, s.linked, {"parse", "link", "type", "key"})
           /\ \E j \in DOMAIN s.linked : s.linked[j] = c[1]

Vetted == \A c \in Cert : InStore(c) => Passed(c)

UniqueNames == \A s \in Source : NamedOnce(s.local) /\ NamedOnce(s.linked)

\* A certificate that is being put has passed the gates with its source.
LEMMA PutIsVetted ==
    ASSUME UniqueNames, Runs, NEW w \in Writer, Busy(w)
    PROVE  Passed(wcert[w])
<1>1. phase[w] = "putting" /\ Made(w) /\ Told(w) /\ Putting(w)
    BY DEF Runs, RunOK, Putting
<1>2. /\ src[w] \in Source /\ Decls(w) \in Seq(Node) /\ pending[w] \in Seq(Cert) /\ out[w] \in Seq(Cert)
      /\ DOMAIN Decls(w) = 1..Len(Decls(w)) /\ Len(Decls(w)) \in Nat /\ Len(out[w]) \in Nat
    BY RunTypes, Elements DEF Runs
<1>3. /\ Needs(w) \subseteq src[w].passes
      /\ Len(pending[w]) = Len(Decls(w))
      /\ Pass(Decls(w), Len(Decls(w)))
      /\ \A j \in 1..Len(Decls(w)) : pending[w][j][1] = Decls(w)[j]
      /\ Len(out[w]) < Len(Decls(w))
      /\ wcert[w] = pending[w][Len(out[w]) + 1]
    BY <1>1 DEF Made, Told, Putting, Storing, Gated
<1>4. NamedOnce(Decls(w))
    BY <1>2 DEF UniqueNames, Decls
<1>5. Certifiable(src[w], Decls(w), Needs(w))
    <2>1. \A j \in 1..Len(Decls(w)) : Decls(w)[j] \in Valid /\ Cx[Decls(w)[j]] # "exceeds"
        BY <1>2, <1>3, <1>4, OwnVerdict DEF Pass
    <2> QED
        BY <1>2, <1>3, <2>1 DEF Certifiable
<1>6. Len(out[w]) + 1 \in DOMAIN Decls(w) /\ Decls(w)[Len(out[w]) + 1] = wcert[w][1]
    BY <1>2, <1>3
<1> QED
    BY <1>2, <1>5, <1>6 DEF Passed, Decls, Needs

\* A certificate in the store, or on its way there, comes from a source that
\* passes the gates as a whole, provided no source declares a name twice.
THEOREM OnlyPassedIsStored ==
    ASSUME UniqueNames
    PROVE  EmitSpec => []StoredPassedEveryGate
<1>1. EmitInit => Vetted
    BY DEF EmitInit, Init, Vetted, InStore, Published
<1>2. Runs /\ Vetted /\ [EmitNext]_<<vars, runVars>> => Vetted'
    <2> SUFFICES ASSUME Runs, Vetted, [EmitNext]_<<vars, runVars>>, NEW c \in Cert, InStore(c)'
                 PROVE  Passed(c)
        BY DEF Vetted
    <2>1. [Next]_vars
        BY RunsOwing, StoreStep DEF Runs
    <2>2. InStore(c) \/ \E w \in Writer : Busy(w) /\ wcert[w] = c
        BY <2>1, OnlyPutStores DEF Runs, EmitTypes
    <2> QED
        BY <2>2, PutIsVetted DEF Vetted
<1>3. Vetted => StoredPassedEveryGate
    BY DEF Vetted, InStore, Passed, StoredPassedEveryGate
<1> QED
    BY <1>1, <1>2, <1>3, RunsInvariant, PTL DEF EmitSpec

-----------------------------------------------------------------------------
\* Nothing takes a certificate out of the store: these runs lose no power.
Acknowledged == \A c \in acked : c \in Cert /\ Published(c)

LEMMA AcknowledgedStep ==
    ASSUME TypeInv, Acknowledged, [Next]_vars
    PROVE  Acknowledged'
<1> USE EmitAssumption DEF Acknowledged, Published, TypeInv, TypeOK, OffsetOK, Busy, dirVars, history
<1>1. ASSUME NEW w \in Writer, PutRename(w) PROVE Acknowledged'
    BY <1>1 DEF PutRename
<1>2. CASE UNCHANGED <<final, acked>>
    BY <1>2
<1>3. QED
    BY <1>1, <1>2
       DEF Next, WriterStep, ReaderStep, PutCall, PutCreate, PutWrite, PutSync, PutRenameGone,
           PutFail, PutCrash, PutStop, GetExists, GetOpen, GetRead, GetReturn, GetFail, Writeback,
           PowerLoss, vars

\* When nobody is inside put and nobody was stopped there, every reported hash
\* can be looked up, although runs shared temporary files on the way.
THEOREM ReportedIsReadable == EmitSpec => []ReadableAtRest
<1>1. EmitInit => NamedIsSound /\ Acknowledged
    BY StoreAssumption DEF EmitInit, Init, NamedIsSound, Acknowledged
<1>2. Runs /\ NamedIsSound /\ Acknowledged /\ [EmitNext]_<<vars, runVars>>
        => (NamedIsSound /\ Acknowledged)'
    BY RunsOwing, StoreStep, NamedStep, AcknowledgedStep DEF Runs, EmitTypes
<1>3. Runs /\ NamedIsSound /\ Acknowledged => ReadableAtRest
    <2> SUFFICES ASSUME Runs, NamedIsSound, Acknowledged, torn = {}, \A w \in Writer : ~Busy(w),
                        NEW w \in Writer, NEW j \in DOMAIN out[w]
                 PROVE  Complete(out[w][j])
        BY DEF ReadableAtRest
    <2>1. out[w][j] \in acked
        BY RunTypes, Elements DEF Runs, RunOK, Told
    <2>2. PICK i \in Inode : final[out[w][j]] = i
        BY <2>1 DEF Acknowledged, Published, Runs, EmitTypes, EmitTypeOK, TypeOK
    <2>3. Sound(i)
        BY <2>1, <2>2 DEF NamedIsSound, Acknowledged
    <2>4. data[i] = Chunks
        BY <2>3 DEF Sound, Owes, Busy
    <2> QED
        BY <2>1, <2>2, <2>4 DEF Complete, Acknowledged
<1> QED
    BY <1>1, <1>2, <1>3, RunsInvariant, PTL DEF EmitSpec

-----------------------------------------------------------------------------
\* Whatever runs overlap, fail or die, what they have published and is incomplete
\* is owed by one of them or was left by one that stopped; and a certificate that
\* no two of them stored at a time (put) is never incomplete.
THEOREM StoreUnderRuns == EmitSpec => [](IncompleteIsOwed /\ PublishedIsComplete)
    BY RunsUseTheStore, IncompleteOwed, PublishedComplete, PTL

\* Whatever emit, /compile and /build do at a time, and wherever they fail or die,
\* they act on a store whose put and get_bytes are single steps: a lookup of a
\* certificate that no two runs stored at a time finds it whole, finds nothing or
\* fails with an I/O error.
THEOREM RunsActAtomically == EmitSpec => ImplementsAtomicStore
    BY RunsUseTheStore, StoreIsAtomic, PTL

\* A reported hash can be looked up from the moment it is reported.
ReadableOnceReported ==
    \A w \in Writer : \A j \in DOMAIN out[w] :
        out[w][j] \notin shared => Complete(out[w][j])

\* What a run reports can be looked up at once and for ever, whatever other runs
\* do, fail or die meanwhile, unless another run stores the very certificate at
\* the same time (emit_cmd prints each hash as soon as put returns Ok).
THEOREM ReportedStaysReadable == EmitSpec => []ReadableOnceReported
<1>1. EmitInit => Acknowledged
    BY DEF EmitInit, Init, Acknowledged
<1>2. Runs /\ Acknowledged /\ [EmitNext]_<<vars, runVars>> => Acknowledged'
    BY RunsOwing, StoreStep, AcknowledgedStep DEF Runs, EmitTypes
<1>3. Runs /\ Acknowledged /\ PublishedIsComplete => ReadableOnceReported
    <2> SUFFICES ASSUME Runs, Acknowledged, PublishedIsComplete,
                        NEW w \in Writer, NEW j \in DOMAIN out[w], out[w][j] \notin shared
                 PROVE  Complete(out[w][j])
        BY DEF ReadableOnceReported
    <2>1. out[w][j] \in acked
        BY RunTypes, Elements DEF Runs, RunOK, Told
    <2> QED
        BY <2>1 DEF Acknowledged, PublishedIsComplete
<1> QED
    BY <1>1, <1>2, <1>3, RunsInvariant, StoreUnderRuns, PTL DEF EmitSpec
=============================================================================
