------------------------------- MODULE CertEmit -------------------------------
(***************************************************************************)
(* Certification runs over the shared certificate store: `apsl-cert emit'  *)
(* (crates/apsl-cert-cli/src/main.rs, emit_cmd) and the workbench's        *)
(* /compile and /build requests (crates/apsl-workbench/src/handlers.rs,    *)
(* pipeline::compile).  Each run is a writer of CertStore, a process or a  *)
(* request of its own: its source is parsed and typed, its nodes pass the  *)
(* gates one by one, and only then are its certificates put one by one.    *)
(*                                                                         *)
(* A node is a declaration; a source may declare two nodes of one name.    *)
(* A certificate is a node, the implementation it is bound to and the      *)
(* complexity verdict written in it: the key is shared, so runs that agree *)
(* on these three write the same bytes under the same hash.                *)
(***************************************************************************)
EXTENDS CertStore, Sequences

CONSTANTS
    Node,       \* node declarations
    NameOf,     \* Node -> its name
    Cx,         \* Node -> "ok", "mismatch" or "exceeds"
    Valid,      \* the nodes whose postcondition holds under the encoding
    Impl,       \* implementation hashes
    Source      \* sources: [local, linked: node sequences, passes: gates]

ASSUME EmitAssumption ==
    /\ Cx \in [Node -> {"ok", "mismatch", "exceeds"}]
    /\ Valid \subseteq Node
    /\ Faults \subseteq {"crash", "io"}
    /\ \A n \in Valid, m \in Node, h \in Impl \cup {None} :
        NameOf[m] = NameOf[n] /\ Cx[m] # "exceeds" => <<n, h, Cx[m]>> \in Cert
    /\ Source # {}
    /\ \A s \in Source :
        /\ s.local \in Seq(Node) /\ s.linked \in Seq(Node)
        /\ s.passes \subseteq {"parse", "link", "type", "key"}

VARIABLES
    phase,      \* Writer -> where the run is, or how it ended
    kind,       \* Writer -> "emit", "compile" or "build"
    src,        \* Writer -> the source it certifies
    bind,       \* Writer -> name -> the implementation to bind, or None
    pending,    \* Writer -> certificates made, in declaration order
    out         \* Writer -> certificates it has reported as stored

runVars == <<phase, kind, src, bind, pending, out>>

\* The declarations the run certifies: emit_cmd links, the workbench does not.
Decls(w) == IF kind[w] = "emit" THEN src[w].linked ELSE src[w].local

\* The complexity report is searched by NAME: the first declaration with the
\* node's name answers for it.
ReportedCx(w, n) ==
    LET ds == Decls(w)
        first == CHOOSE k \in 1..Len(ds) :
            /\ NameOf[ds[k]] = NameOf[n]
            /\ \A j \in 1..(k - 1) : NameOf[ds[j]] # NameOf[n]
    IN  Cx[ds[first]]

\* Answers discharge_node may give: the solver's verdict, a timeout, or an error.
Discharge(n) ==
    {IF n \in Valid THEN "proved" ELSE "counterexample", "unknown", "error"}

Active(w) == phase[w] \in {"front", "nix", "gate", "store", "putting"}

Inactive == {"idle", "success", "refused", "failed", "dead"}

Unbound == [x \in {NameOf[n] : n \in Node} |-> None]

AnySource == CHOOSE s \in Source : TRUE

\* The run ends at `outcome' and nothing of it is left but what it has stored.
EndRun(w, outcome) ==
    /\ phase' = [phase EXCEPT ![w] = outcome]
    /\ kind' = [kind EXCEPT ![w] = "emit"]
    /\ src' = [src EXCEPT ![w] = AnySource]
    /\ bind' = [bind EXCEPT ![w] = Unbound]
    /\ pending' = [pending EXCEPT ![w] = <<>>]
    /\ out' = [out EXCEPT ![w] = <<>>]

EmitInit ==
    /\ Init
    /\ phase = [w \in Writer |-> "idle"]
    /\ kind = [w \in Writer |-> "emit"]
    /\ src = [w \in Writer |-> AnySource]
    /\ bind = [w \in Writer |-> Unbound]
    /\ pending = [w \in Writer |-> <<>>]
    /\ out = [w \in Writer |-> <<>>]

-----------------------------------------------------------------------------
\* A command line or a request arrives.  emit may bind one implementation hash
\* to every node or, with --node, to the nodes of one name; /compile binds none.
Begin(w, k, s) ==
    /\ phase[w] = "idle"
    /\ phase' = [phase EXCEPT ![w] = IF k = "build" THEN "nix" ELSE "front"]
    /\ kind' = [kind EXCEPT ![w] = k]
    /\ src' = [src EXCEPT ![w] = s]
    /\ \E h \in Impl \cup {None}, target \in {NameOf[s.linked[j]] : j \in DOMAIN s.linked} \cup {None} :
        /\ k # "emit" => h = None
        /\ h = None => target = None
        /\ bind' = [bind EXCEPT ![w] =
             [x \in DOMAIN Unbound |-> IF target \in {None, x} THEN h ELSE None]]
    /\ UNCHANGED <<pending, out, vars>>

\* /build: node_names, then nix::build, which fails or returns a manifest: the
\* store paths of some of the nodes.
NixBuild(w) ==
    /\ phase[w] = "nix"
    /\ \/ EndRun(w, "refused")
       \/ /\ "parse" \in src[w].passes /\ src[w].local # <<>>
          /\ phase' = [phase EXCEPT ![w] = "front"]
          /\ \E m \in [{NameOf[src[w].local[j]] : j \in DOMAIN src[w].local} -> Impl \cup {None}] :
               bind' = [bind EXCEPT ![w] =
                 [x \in DOMAIN Unbound |-> IF x \in DOMAIN m THEN m[x] ELSE None]]
          /\ UNCHANGED <<kind, src, pending, out>>
    /\ UNCHANGED vars

\* Read, parse, link (emit only), type, prove complexity, load the key (emit).
Front(w) ==
    LET needs == IF kind[w] = "emit" THEN {"parse", "link", "type", "key"} ELSE {"parse", "type"}
    IN
    /\ phase[w] = "front"
    /\ IF needs \subseteq src[w].passes
       THEN phase' = [phase EXCEPT ![w] = "gate"] /\ UNCHANGED <<kind, src, bind, pending, out>>
       ELSE EndRun(w, "refused")
    /\ UNCHANGED vars

\* Mutant: the complexity gate is left out of the loop.
GateNodeUnbounded(w) ==
    LET n == Decls(w)[Len(pending[w]) + 1]
    IN
    /\ phase[w] = "gate"
    /\ Len(pending[w]) < Len(Decls(w))
    /\ \E status \in Discharge(n) :
         IF status # "proved"
         THEN EndRun(w, "refused")
         ELSE /\ pending' = [pending EXCEPT ![w] =
                   Append(@, <<n, bind[w][NameOf[n]], ReportedCx(w, n)>>)]
              /\ UNCHANGED <<phase, kind, src, bind, out>>
    /\ UNCHANGED vars

\* Mutant: a node that is refused ends the loop and not the run.
GateNodeBreaks(w) ==
    LET n == Decls(w)[Len(pending[w]) + 1]
        cx == ReportedCx(w, n)
    IN
    /\ phase[w] = "gate"
    /\ Len(pending[w]) < Len(Decls(w))
    /\ \E status \in Discharge(n) :
         IF cx = "exceeds" \/ status # "proved"
         THEN IF pending[w] = <<>>
              THEN EndRun(w, "refused")
              ELSE phase' = [phase EXCEPT ![w] = "store"] /\ UNCHANGED <<kind, src, bind, pending, out>>
         ELSE /\ pending' = [pending EXCEPT ![w] = Append(@, <<n, bind[w][NameOf[n]], cx>>)]
              /\ UNCHANGED <<phase, kind, src, bind, out>>
    /\ UNCHANGED vars

\* One turn of the gate loop: the run ends on a complexity that exceeds the
\* limit or a clause that is not proved; otherwise a certificate is signed.
GateNode(w) ==
    LET n == Decls(w)[Len(pending[w]) + 1]
        cx == ReportedCx(w, n)
    IN
    /\ phase[w] = "gate"
    /\ Len(pending[w]) < Len(Decls(w))
    /\ \E status \in Discharge(n) :
         IF cx = "exceeds" \/ status # "proved"
         THEN EndRun(w, "refused")
         ELSE /\ pending' = [pending EXCEPT ![w] = Append(@, <<n, bind[w][NameOf[n]], cx>>)]
              /\ UNCHANGED <<phase, kind, src, bind, out>>
    /\ UNCHANGED vars

\* The loop is over; a source without nodes is refused.
GatesDone(w) ==
    /\ phase[w] = "gate"
    /\ Len(pending[w]) = Len(Decls(w))
    /\ IF pending[w] = <<>>
       THEN EndRun(w, "refused")
       ELSE /\ phase' = [phase EXCEPT ![w] = "store"]
            /\ bind' = [bind EXCEPT ![w] = Unbound]
            /\ UNCHANGED <<kind, src, pending, out>>
    /\ UNCHANGED vars

\* The next certificate is put.
PutNext(w) ==
    /\ phase[w] = "store"
    /\ PutCall(w, pending[w][Len(out[w]) + 1])
    /\ phase' = [phase EXCEPT ![w] = "putting"]
    /\ UNCHANGED <<kind, src, bind, pending, out>>

\* put returned Ok: the hash is reported, and the run ends with the last one.
PutOk(w) ==
    /\ phase[w] = "putting"
    /\ wpc[w] = "ok"
    /\ out' = [out EXCEPT ![w] = Append(@, wcert[w])]
    /\ phase' = [phase EXCEPT ![w] =
         IF Len(out[w]) + 1 = Len(pending[w]) THEN "success" ELSE "store"]
    /\ UNCHANGED <<kind, src, bind, pending, vars>>

\* Mutant: the error of put is dropped and the hash reported all the same.
PutErrIgnored(w) ==
    /\ phase[w] = "putting"
    /\ wpc[w] = "err"
    /\ out' = [out EXCEPT ![w] = Append(@, wcert[w])]
    /\ phase' = [phase EXCEPT ![w] =
         IF Len(out[w]) + 1 = Len(pending[w]) THEN "success" ELSE "store"]
    /\ UNCHANGED <<kind, src, bind, pending, vars>>

\* put returned Err: the run fails, and what it has stored stays stored.
PutErr(w) ==
    /\ phase[w] = "putting"
    /\ wpc[w] = "err"
    /\ phase' = [phase EXCEPT ![w] = "failed"]
    /\ UNCHANGED <<kind, src, bind, pending, out, vars>>

\* The steps inside put are the store's own.
PutStep(w) == WriterStep(w) /\ UNCHANGED runVars
PutFault(w) == PutFail(w) /\ UNCHANGED runVars

\* The process dies anywhere in the run.
Crash(w) ==
    /\ "crash" \in Faults
    /\ Active(w)
    /\ IF Busy(w) THEN PutStop(w, "idle") ELSE UNCHANGED vars
    /\ EndRun(w, "dead")

\* The steps that wait for a child process, nix or the solver (Front probes for
\* one), to exit: none of them has a time limit.
ChildStep(w) == NixBuild(w) \/ Front(w) \/ GateNode(w)

\* The steps that wait for nobody.
OwnStep(w) == GatesDone(w) \/ PutNext(w) \/ PutStep(w) \/ PutOk(w) \/ PutErr(w)

EmitNext ==
    \/ \E w \in Writer, k \in {"emit", "compile", "build"}, s \in Source : Begin(w, k, s)
    \/ \E w \in Writer : ChildStep(w) \/ OwnStep(w) \/ PutFault(w) \/ Crash(w)

EmitSpec == EmitInit /\ [][EmitNext]_<<vars, runVars>>

\* A run that has started keeps being scheduled; a child need not come back.
EmitFairSpec == EmitSpec /\ \A w \in Writer : WF_<<vars, runVars>>(OwnStep(w))

-----------------------------------------------------------------------------
EmitTypeOK ==
    /\ TypeOK
    /\ phase \in [Writer -> {"front", "nix", "gate", "store", "putting"} \cup Inactive]
    /\ kind \in [Writer -> {"emit", "compile", "build"}]
    /\ src \in [Writer -> Source]
    /\ bind \in [Writer -> [DOMAIN Unbound -> Impl \cup {None}]]
    /\ pending \in [Writer -> Seq(Cert)]
    /\ out \in [Writer -> Seq(Cert)]

\* The declarations ds of source s pass the gates `needs' and both provers.
Certifiable(s, ds, needs) ==
    /\ needs \subseteq s.passes
    /\ \A j \in DOMAIN ds : ds[j] \in Valid /\ Cx[ds[j]] # "exceeds"

\* A certificate in the store, or on its way there, comes from a source that
\* passes the gates as a WHOLE: one bad node keeps every certificate of its
\* source out, whatever other runs do and wherever runs fail or die.
StoredPassedEveryGate ==
    \A c \in Cert :
        Published(c) \/ tmp[c] # None \/ c \in acked =>
            \E s \in Source :
                \/ /\ Certifiable(s, s.local, {"parse", "type"})
                   /\ \E j \in DOMAIN s.local : s.local[j] = c[1]
                \/ /\ Certifiable(s, s.linked, {"parse", "link", "type", "key"})
                   /\ \E j \in DOMAIN s.linked : s.linked[j] = c[1]

\* A run that reports success has stored a certificate for every node it was to
\* certify, in order; one that failed midway has stored the ones it reported.
ReportsWhatItStored ==
    \A w \in Writer :
        /\ \A j \in DOMAIN out[w] : out[w][j] = pending[w][j] /\ out[w][j] \in acked
        /\ phase[w] = "success" =>
             [j \in DOMAIN out[w] |-> out[w][j][1]] = Decls(w)

\* When nobody is inside put and nobody was stopped there, every reported hash
\* can be looked up, although runs shared temporary files on the way.
ReadableAtRest ==
    (torn = {} /\ \A w \in Writer : ~Busy(w)) =>
        \A w \in Writer : \A j \in DOMAIN out[w] : Complete(out[w][j])

\* The run has a child process to wait for.
Waits(w) ==
    \/ phase[w] \in {"nix", "front"}
    \/ phase[w] = "gate" /\ Len(pending[w]) < Len(Decls(w))

\* A run ends, whatever the other runs do to its temporary files, unless it
\* waits for ever for one child process.
RunsEnd == \A w \in Writer : []<>~Active(w) \/ <>[]Waits(w)

\* However many runs store one certificate at a time and whichever of them stop:
\* in the end every certificate whose put returned Ok is complete and stays so,
\* unless a run was stopped in the middle of the very file that is published.
AckedBecomesComplete == <>[](\A c \in acked : Complete(c) \/ final[c] \in torn)

\* README: emit "refuses to write any certificate if the source ... exceeds the
\* complexity gate": no certificate of an exceeding node is ever stored.
NoExceedingCertificate ==
    \A c \in acked : Cx[c[1]] # "exceeds"
=============================================================================
