----------------------------- MODULE MCCertEmit -----------------------------
(***************************************************************************)
(* Instances of CertEmit for TLC.  Pair is certifiable; Tainted has a good *)
(* node followed by one the solver refutes, where emit links one that      *)
(* exceeds the complexity gate; Untyped does not type-check, Empty         *)
(* declares no node, and Twice declares one name twice, the second time    *)
(* with an exceeding body.                                                 *)
(***************************************************************************)
EXTENDS CertEmit

CONSTANTS good, rough, clean, slow, wrong, slow2, i1

\* Node and NameOf of the two instances: in one no name is declared twice.
Distinct == {good, rough, clean, slow, wrong}
Repeated == {good, slow2}
DistinctName == [n \in Distinct |-> n]
RepeatedName == [n \in Repeated |-> good]

CxOf(n) == IF n \in {slow, slow2} THEN "exceeds" ELSE IF n = rough THEN "mismatch" ELSE "ok"
MCCx == [n \in Node |-> CxOf(n)]
MCValid == Node \ {wrong}

\* The certificates the gates let through, and no others.
MCCert ==
    {<<t[1], t[2], CxOf(t[3])>> : t \in
        {u \in (Node \ {wrong}) \X {None, i1} \X Node :
            NameOf[u[3]] = NameOf[u[1]] /\ CxOf(u[3]) # "exceeds"}}

All == {"parse", "link", "type", "key"}
Pair    == [local |-> <<good>>, linked |-> <<good, rough>>, passes |-> All]
Tainted == [local |-> <<clean, wrong>>, linked |-> <<clean, slow>>, passes |-> All]
Untyped == [local |-> <<clean>>, linked |-> <<clean>>, passes |-> {"parse", "link", "key"}]
Twice   == [local |-> <<good, slow2>>, linked |-> <<good, slow2>>, passes |-> All]

Empty   == [local |-> <<>>, linked |-> <<>>, passes |-> All]

MCSource == {Pair, Tainted, Untyped, Empty}
TwiceOnly == {Twice}

=============================================================================
