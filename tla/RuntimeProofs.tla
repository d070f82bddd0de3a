---------------------------- MODULE RuntimeProofs ----------------------------
(***************************************************************************)
(* What a run of `apsl run' guarantees for every program, environment and  *)
(* behaviour of the scripts.  A run follows the line it is given; what the *)
(* line is, is proved by induction over the names of the flow.             *)
(***************************************************************************)
EXTENDS Runtime, Induction

\* Appending to a sequence.
LEMMA AppendElements ==
    ASSUME NEW S, NEW s \in Seq(S), NEW e \in S
    PROVE  /\ Append(s, e) \in Seq(S)
           /\ Append(s, e) # <<>>
           /\ Len(Append(s, e)) = Len(s) + 1
           /\ DOMAIN Append(s, e) = 1..(Len(s) + 1)
           /\ \A k \in 1..Len(s) : Append(s, e)[k] = s[k]
           /\ Append(s, e)[Len(s) + 1] = e
           /\ DOMAIN s = 1..Len(s)
           /\ Len(s) \in Nat
    OBVIOUS

\* The program and the environment of a run do not change.
LEMMA Fixed ==
    ASSUME [Next]_vars
    PROVE  program' = program /\ env' = env /\ Order' = Order
<1>1. program' = program /\ env' = env
    BY DEF Next, Start, Execute, ScriptFails, Finish, Kill, Fail, ScriptSucceeds, vars
<1> QED
    BY <1>1 DEF Order

\* The proof of the node whose turn it is.
ProofOf(output, now) ==
    [node |-> Turn, input |-> value, output |-> output, completed |-> now,
     hash |-> <<Turn, value, output, now>>, verified |-> Turn \notin program.posts]

-----------------------------------------------------------------------------
(***************************************************************************)
(* While a script runs, its node is a declared one, and has been executed  *)
(* but not proved; otherwise as many nodes are executed as are proved,     *)
(* until the run stops.                                                    *)
(***************************************************************************)
Lockstep ==
    /\ phase = "exec" => Turn \in program.declared /\ Len(ran) = Len(proofs) + 1
    /\ phase \in {"start", "next", "record"} => Len(ran) = Len(proofs)
    /\ Len(ran) - Len(proofs) \in {0, 1}

Inv == TypeOK /\ Lockstep

LEMMA InvInit == Init => Inv
    BY RuntimeAssumption DEF Init, Inv, TypeOK, Lockstep, Ended

\* The proof that is appended is a proof.
LEMMA ProofType ==
    ASSUME Inv, phase = "exec", NEW output \in Value, NEW now \in Time
    PROVE  ProofOf(output, now) \in Proof
<1>1. Turn \in Name
    BY RuntimeAssumption DEF Inv, Lockstep, TypeOK
<1>2. value \in Value
    BY DEF Inv, TypeOK
<1> QED
    BY <1>1, <1>2 DEF ProofOf, Proof

LEMMA InvStep == Inv /\ [Next]_vars => Inv'
<1> SUFFICES ASSUME Inv, [Next]_vars PROVE Inv'
    OBVIOUS
<1>1. program' = program /\ env' = env /\ Order' = Order
    BY Fixed
<1>2. CASE Fail
    BY <1>2 DEF Fail, Inv, TypeOK, Lockstep, Ended
<1>3. CASE Start
    BY <1>2, <1>3 DEF Start, Inv, TypeOK, Lockstep
<1>4. ASSUME Execute, ~Fail PROVE Inv'
    <2>1. /\ phase = "next" /\ phase' = "exec" /\ Turn \in program.declared
          /\ UNCHANGED <<value, proofs, exit>>
          /\ \E v \in {value, env} :
                /\ ran' = Append(ran, [node |-> Turn, read |-> v])
                /\ v = env => env # Absent \/ v = value
        BY <1>4 DEF Execute
    <2>2. Turn \in Name
        BY <2>1, RuntimeAssumption DEF Inv, TypeOK
    <2>3. PICK v \in Value : ran' = Append(ran, [node |-> Turn, read |-> v])
        BY <2>1, RuntimeAssumption DEF Inv, TypeOK
    <2>4. ran' \in Seq([node : Name, read : Value]) /\ Len(ran') = Len(ran) + 1
        BY <2>2, <2>3, AppendElements DEF Inv, TypeOK
    <2>5. Len(ran) = Len(proofs) /\ Len(proofs) \in Nat
        BY <2>1 DEF Inv, TypeOK, Lockstep
    <2>6. Turn' = Turn
        BY <1>1, <2>1 DEF Turn
    <2>7. TypeOK'
        BY <1>1, <2>1, <2>4 DEF Inv, TypeOK
    <2>8. Lockstep'
        BY <1>1, <2>1, <2>4, <2>5, <2>6 DEF Lockstep
    <2> QED
        BY <2>7, <2>8 DEF Inv
<1>5. ASSUME NEW output \in Value, NEW now \in Time, ScriptSucceeds(output, now)
      PROVE  Inv'
    <2>1. /\ phase = "exec" /\ phase' = "next" /\ value' = output
          /\ proofs' = Append(proofs, ProofOf(output, now))
          /\ UNCHANGED <<ran, exit>>
        BY <1>5 DEF ScriptSucceeds, ProofOf
    <2>2. proofs' \in Seq(Proof) /\ Len(proofs') = Len(proofs) + 1 /\ Len(proofs) \in Nat
        BY <2>1, ProofType, AppendElements DEF Inv, TypeOK
    <2>3. Len(ran) = Len(proofs) + 1
        BY <2>1 DEF Inv, Lockstep
    <2>4. TypeOK'
        BY <1>1, <2>1, <2>2 DEF Inv, TypeOK
    <2>5. Lockstep'
        BY <2>1, <2>2, <2>3 DEF Lockstep
    <2> QED
        BY <2>4, <2>5 DEF Inv
<1>6. CASE Finish
    BY <1>6 DEF Finish, Inv, TypeOK, Lockstep, Ended
<1>7. CASE Kill
    BY <1>7 DEF Kill, Inv, TypeOK, Lockstep, Ended
<1>8. CASE UNCHANGED vars
    BY <1>1, <1>8 DEF vars, Inv, TypeOK, Lockstep, Turn
<1> QED
    BY <1>2, <1>3, <1>4, <1>5, <1>6, <1>7, <1>8 DEF Next, ScriptFails

LEMMA Invariant == Spec => []Inv
    BY InvInit, InvStep, PTL DEF Spec

\* The types are right in every state of a run.
THEOREM TypeCorrect == Spec => []TypeOK
<1>1. Inv => TypeOK
    BY DEF Inv
<1> QED
    BY <1>1, Invariant, PTL

-----------------------------------------------------------------------------
(***************************************************************************)
(* What the steps do to the proofs and to what has been executed.          *)
(***************************************************************************)

\* Only a script that succeeds adds a proof and changes the value.
LEMMA ProofsStep ==
    ASSUME Inv, [Next]_vars
    PROVE  \/ UNCHANGED <<proofs, value>>
           \/ \E output \in Value, now \in Time : ScriptSucceeds(output, now)
    BY DEF Next, Start, Execute, ScriptFails, Finish, Kill, Fail, vars

\* Only Execute adds to what has been executed.
LEMMA RanStep ==
    ASSUME Inv, [Next]_vars
    PROVE  UNCHANGED ran \/ (Execute /\ ~Fail)
    BY DEF Next, Start, Execute, ScriptSucceeds, ScriptFails, Finish, Kill, Fail, vars

LEMMA ThreadedStep == Inv /\ Threaded /\ [Next]_vars => Threaded'
<1> SUFFICES ASSUME Inv, Threaded, [Next]_vars PROVE Threaded'
    OBVIOUS
<1>1. CASE UNCHANGED <<proofs, value>>
    BY <1>1 DEF Threaded
<1>2. ASSUME NEW output \in Value, NEW now \in Time, ScriptSucceeds(output, now)
      PROVE  Threaded'
    <2>1. phase = "exec" /\ value' = output /\ proofs' = Append(proofs, ProofOf(output, now))
        BY <1>2 DEF ScriptSucceeds, ProofOf
    <2>2. proofs \in Seq(Proof) /\ ProofOf(output, now) \in Proof
        BY <2>1, ProofType DEF Inv, TypeOK
    <2>3. /\ proofs' # <<>> /\ Len(proofs') = Len(proofs) + 1
          /\ DOMAIN proofs' = 1..(Len(proofs) + 1) /\ DOMAIN proofs = 1..Len(proofs)
          /\ \A k \in 1..Len(proofs) : proofs'[k] = proofs[k]
          /\ proofs'[Len(proofs) + 1] = ProofOf(output, now)
          /\ Len(proofs) \in Nat
        BY <2>1, <2>2, AppendElements
    <2>4. value' = IF proofs' = <<>> THEN Null ELSE proofs'[Len(proofs')].output
        BY <2>1, <2>3 DEF ProofOf
    <2>5. ASSUME NEW k \in DOMAIN proofs'
          PROVE  proofs'[k].input = IF k = 1 THEN Null ELSE proofs'[k - 1].output
        <3>1. CASE k \in 1..Len(proofs)
            <4>1. k = 1 \/ k - 1 \in 1..Len(proofs)
                BY <2>3, <3>1
            <4> QED
                BY <2>3, <3>1, <4>1 DEF Threaded
        <3>2. CASE k = Len(proofs) + 1
            <4>1. proofs'[k].input = value
                BY <2>3, <3>2 DEF ProofOf
            <4>2. CASE Len(proofs) = 0
                <5>1. proofs = <<>> /\ k = 1
                    BY <2>2, <3>2, <4>2
                <5> QED
                    BY <4>1, <5>1 DEF Threaded
            <4>3. CASE Len(proofs) # 0
                <5>1. proofs # <<>> /\ k # 1 /\ k - 1 = Len(proofs) /\ k - 1 \in 1..Len(proofs)
                    BY <2>3, <3>2, <4>3
                <5> QED
                    BY <2>3, <4>1, <5>1 DEF Threaded
            <4> QED
                BY <4>2, <4>3
        <3> QED
            BY <2>3, <3>1, <3>2
    <2> QED
        BY <2>4, <2>5 DEF Threaded
<1> QED
    BY <1>1, <1>2, ProofsStep

\* One value is threaded through the line: each node's input is the output of
\* the node before it, and the first one's is null.
THEOREM OneValueThreaded == Spec => []Threaded
<1>1. Init => Threaded
    BY DEF Init, Threaded
<1>2. Inv /\ Threaded /\ [Next]_vars => Threaded'
    BY ThreadedStep
<1> QED
    BY <1>1, <1>2, Invariant, PTL DEF Spec

-----------------------------------------------------------------------------
LEMMA EffectsStep == Inv /\ EffectsInOrder /\ [Next]_vars => EffectsInOrder'
<1> SUFFICES ASSUME Inv, EffectsInOrder, [Next]_vars PROVE EffectsInOrder'
    OBVIOUS
<1>1. Order' = Order
    BY Fixed
<1>2. (Len(ran) - Len(proofs) \in {0, 1})'
    BY InvStep DEF Inv, Lockstep
<1>3. ASSUME NEW k \in DOMAIN ran' PROVE ran'[k].node = Order[k]
    <2>1. CASE UNCHANGED ran
        BY <2>1 DEF EffectsInOrder
    <2>2. CASE Execute /\ ~Fail
        <3>1. PICK v \in Value : ran' = Append(ran, [node |-> Turn, read |-> v])
            BY <2>2, RuntimeAssumption DEF Execute, Inv, TypeOK
        <3>2. /\ DOMAIN ran' = 1..(Len(ran) + 1) /\ DOMAIN ran = 1..Len(ran)
              /\ \A j \in 1..Len(ran) : ran'[j] = ran[j]
              /\ ran'[Len(ran) + 1] = [node |-> Turn, read |-> v]
              /\ Len(ran) \in Nat
            <4>1. ran \in Seq([node : Name, read : Value])
                BY DEF Inv, TypeOK
            <4>2. Turn \in Name
                BY <2>2, RuntimeAssumption DEF Execute, Inv, TypeOK
            <4>3. [node |-> Turn, read |-> v] \in [node : Name, read : Value]
                BY <4>2
            <4> QED
                BY <3>1, <4>1, <4>3, AppendElements
        <3>3. Len(ran) = Len(proofs)
            BY <2>2 DEF Execute, Inv, Lockstep
        <3>4. CASE k \in 1..Len(ran)
            BY <3>2, <3>4 DEF EffectsInOrder
        <3>5. CASE k = Len(ran) + 1
            BY <3>2, <3>3, <3>5 DEF Turn
        <3> QED
            BY <3>2, <3>4, <3>5
    <2> QED
        BY <2>1, <2>2, RanStep
<1>4. ASSUME NEW k \in DOMAIN proofs' PROVE proofs'[k].node = Order[k]
    <2>1. CASE UNCHANGED <<proofs, value>>
        BY <2>1 DEF EffectsInOrder
    <2>2. ASSUME NEW output \in Value, NEW now \in Time, ScriptSucceeds(output, now)
          PROVE  proofs'[k].node = Order[k]
        <3>1. phase = "exec" /\ proofs' = Append(proofs, ProofOf(output, now))
            BY <2>2 DEF ScriptSucceeds, ProofOf
        <3>2. /\ DOMAIN proofs' = 1..(Len(proofs) + 1) /\ DOMAIN proofs = 1..Len(proofs)
              /\ \A j \in 1..Len(proofs) : proofs'[j] = proofs[j]
              /\ proofs'[Len(proofs) + 1] = ProofOf(output, now)
              /\ Len(proofs) \in Nat
            BY <3>1, ProofType, AppendElements DEF Inv, TypeOK
        <3>3. CASE k \in 1..Len(proofs)
            BY <3>2, <3>3 DEF EffectsInOrder
        <3>4. CASE k = Len(proofs) + 1
            BY <3>2, <3>4 DEF ProofOf, Turn
        <3> QED
            BY <3>2, <3>3, <3>4
    <2> QED
        BY <2>1, <2>2, ProofsStep
<1> QED
    BY <1>1, <1>2, <1>3, <1>4 DEF EffectsInOrder

\* Nodes take effect in line order and a run that fails or is killed has
\* executed at most one node more than it has proofs.
THEOREM NodesInOrder == Spec => []EffectsInOrder
<1>1. Init => EffectsInOrder
    BY DEF Init, EffectsInOrder
<1>2. Inv /\ EffectsInOrder /\ [Next]_vars => EffectsInOrder'
    BY EffectsStep
<1> QED
    BY <1>1, <1>2, Invariant, PTL DEF Spec

-----------------------------------------------------------------------------
(***************************************************************************)
(* The exit status is set when the run ends, and a proof is verified when  *)
(* its node declares no postcondition.                                     *)
(***************************************************************************)
ExitOK ==
    /\ phase \in {"start", "next", "exec", "killed"} => exit = Absent
    /\ phase = "error" => exit = 1
    /\ exit = 0 =>
         /\ phase = "record"
         /\ Len(proofs) = Len(Order)
         /\ \A k \in DOMAIN proofs : proofs[k].verified

VerifiedOK ==
    \A k \in DOMAIN proofs : proofs[k].verified => proofs[k].node \notin program.posts

LEMMA ExitStep == Inv /\ ExitOK /\ [Next]_vars => ExitOK'
<1> SUFFICES ASSUME Inv, ExitOK, [Next]_vars PROVE ExitOK'
    OBVIOUS
<1>1. Order' = Order
    BY Fixed
<1>2. Absent \notin {0, 1}
    BY RuntimeAssumption
<1>3. CASE Fail
    BY <1>3 DEF Fail, ExitOK
<1>4. CASE Start
    BY <1>2, <1>3, <1>4 DEF Start, ExitOK
<1>5. CASE Execute
    BY <1>2, <1>3, <1>5 DEF Execute, ExitOK
<1>6. ASSUME NEW output \in Value, NEW now \in Time, ScriptSucceeds(output, now)
      PROVE  ExitOK'
    BY <1>2, <1>6 DEF ScriptSucceeds, ExitOK
<1>7. CASE Finish
    <2>1. /\ phase' = "record" /\ proofs' = proofs /\ Len(proofs) = Len(Order)
          /\ exit' = 0 => \A k \in DOMAIN proofs : proofs[k].verified
        BY <1>7 DEF Finish
    <2> QED
        BY <1>1, <2>1 DEF ExitOK
<1>8. CASE Kill
    <2>1. phase \in {"start", "next", "exec"}
        BY <1>8 DEF Kill, Ended, Inv, TypeOK
    <2> QED
        BY <1>2, <1>8, <2>1 DEF Kill, ExitOK
<1>9. CASE UNCHANGED vars
    BY <1>1, <1>9 DEF vars, ExitOK
<1> QED
    BY <1>3, <1>4, <1>5, <1>6, <1>7, <1>8, <1>9 DEF Next, ScriptFails

LEMMA VerifiedStep == Inv /\ VerifiedOK /\ [Next]_vars => VerifiedOK'
<1> SUFFICES ASSUME Inv, VerifiedOK, [Next]_vars, NEW k \in DOMAIN proofs', proofs'[k].verified
             PROVE  proofs'[k].node \notin program.posts
    BY Fixed DEF VerifiedOK
<1>1. CASE UNCHANGED <<proofs, value>>
    BY <1>1 DEF VerifiedOK
<1>2. ASSUME NEW output \in Value, NEW now \in Time, ScriptSucceeds(output, now)
      PROVE  proofs'[k].node \notin program.posts
    <2>1. phase = "exec" /\ proofs' = Append(proofs, ProofOf(output, now))
        BY <1>2 DEF ScriptSucceeds, ProofOf
    <2>2. /\ DOMAIN proofs' = 1..(Len(proofs) + 1) /\ DOMAIN proofs = 1..Len(proofs)
          /\ \A j \in 1..Len(proofs) : proofs'[j] = proofs[j]
          /\ proofs'[Len(proofs) + 1] = ProofOf(output, now)
          /\ Len(proofs) \in Nat
        BY <2>1, ProofType, AppendElements DEF Inv, TypeOK
    <2>3. CASE k \in 1..Len(proofs)
        BY <2>2, <2>3 DEF VerifiedOK
    <2>4. CASE k = Len(proofs) + 1
        <3>1. proofs'[k] = ProofOf(output, now)
            BY <2>2, <2>4
        <3>2. ProofOf(output, now).node = Turn
            BY DEF ProofOf
        <3>3. ProofOf(output, now).verified = (Turn \notin program.posts)
            BY Zenon DEF ProofOf
        <3>4. Turn \notin program.posts
            BY <3>1, <3>3, Zenon
        <3> QED
            BY <3>1, <3>2, <3>4
    <2> QED
        BY <2>2, <2>3, <2>4
<1> QED
    BY <1>1, <1>2, ProofsStep

\* Status 0 is returned only with a record of every node of the graph, in line
\* order, none of which declares a postcondition.
THEOREM ZeroIsComplete == Spec => []ZeroMeansComplete
<1>1. Init => ExitOK /\ VerifiedOK /\ EffectsInOrder
    BY RuntimeAssumption DEF Init, ExitOK, VerifiedOK, EffectsInOrder
<1>2. Inv /\ ExitOK /\ VerifiedOK /\ EffectsInOrder /\ [Next]_vars
        => (ExitOK /\ VerifiedOK /\ EffectsInOrder)'
    BY ExitStep, VerifiedStep, EffectsStep
<1>3. ExitOK /\ VerifiedOK /\ EffectsInOrder => ZeroMeansComplete
    BY DEF ExitOK, VerifiedOK, EffectsInOrder, ZeroMeansComplete
<1> QED
    BY <1>1, <1>2, <1>3, Invariant, PTL DEF Spec

-----------------------------------------------------------------------------
(***************************************************************************)
(* A node that is running reads current_value, which its proof will name.  *)
(***************************************************************************)
ReadsOK ==
    env = Absent =>
        /\ phase = "exec" => ran[Len(ran)].read = value
        /\ \A k \in DOMAIN proofs : proofs[k].input = ran[k].read

LEMMA ReadsStep == Inv /\ ReadsOK /\ [Next]_vars => ReadsOK'
<1> SUFFICES ASSUME Inv, ReadsOK, [Next]_vars, env = Absent
             PROVE  /\ phase' = "exec" => ran'[Len(ran')].read = value'
                    /\ \A k \in DOMAIN proofs' : proofs'[k].input = ran'[k].read
    BY Fixed DEF ReadsOK
<1>1. /\ ran \in Seq([node : Name, read : Value]) /\ Len(ran) \in Nat
      /\ proofs \in Seq(Proof) /\ DOMAIN proofs = 1..Len(proofs) /\ Len(proofs) \in Nat
    BY DEF Inv, TypeOK
<1>2. ASSUME Execute, ~Fail
      PROVE  /\ phase' = "exec" => ran'[Len(ran')].read = value'
             /\ \A k \in DOMAIN proofs' : proofs'[k].input = ran'[k].read
    <2>1. /\ phase = "next" /\ value' = value /\ proofs' = proofs
          /\ ran' = Append(ran, [node |-> Turn, read |-> value])
          /\ Turn \in program.declared
        BY <1>2 DEF Execute
    <2>2. Turn \in Name /\ value \in Value
        BY <2>1, RuntimeAssumption DEF Inv, TypeOK
    <2>3. /\ \A k \in 1..Len(ran) : ran'[k] = ran[k]
          /\ ran'[Len(ran) + 1] = [node |-> Turn, read |-> value]
          /\ Len(ran') = Len(ran) + 1
        BY <1>1, <2>1, <2>2, AppendElements
    <2>4. Len(ran) = Len(proofs)
        BY <2>1 DEF Inv, Lockstep
    <2> QED
        BY <1>1, <2>1, <2>3, <2>4 DEF ReadsOK
<1>3. ASSUME NEW output \in Value, NEW now \in Time, ScriptSucceeds(output, now)
      PROVE  /\ phase' = "exec" => ran'[Len(ran')].read = value'
             /\ \A k \in DOMAIN proofs' : proofs'[k].input = ran'[k].read
    <2>1. /\ phase = "exec" /\ phase' = "next" /\ ran' = ran
          /\ proofs' = Append(proofs, ProofOf(output, now))
        BY <1>3 DEF ScriptSucceeds, ProofOf
    <2>2. /\ DOMAIN proofs' = 1..(Len(proofs) + 1)
          /\ \A k \in 1..Len(proofs) : proofs'[k] = proofs[k]
          /\ proofs'[Len(proofs) + 1] = ProofOf(output, now)
        BY <1>1, <2>1, ProofType, AppendElements
    <2>3. Len(ran) = Len(proofs) + 1 /\ ran[Len(ran)].read = value
        BY <2>1 DEF Inv, Lockstep, ReadsOK
    <2>4. ASSUME NEW k \in DOMAIN proofs' PROVE proofs'[k].input = ran[k].read
        <3>1. CASE k \in 1..Len(proofs)
            BY <1>1, <2>2, <3>1 DEF ReadsOK
        <3>2. CASE k = Len(proofs) + 1
            BY <2>2, <2>3, <3>2 DEF ProofOf
        <3> QED
            BY <1>1, <2>2, <3>1, <3>2
    <2> QED
        BY <2>1, <2>4
<1>4. CASE Start \/ Fail \/ Finish \/ Kill \/ UNCHANGED vars
    BY <1>4 DEF Start, Fail, Finish, Kill, vars, ReadsOK
<1> QED
    BY <1>2, <1>3, <1>4 DEF Next, ScriptFails

\* Without an APSL_INPUT in the environment of `apsl run', each node has read
\* the very value its proof says it was given.
THEOREM RecordsWhatIsRead == Spec => []ReadsWhatIsRecorded
<1>1. Init => ReadsOK
    BY DEF Init, ReadsOK
<1>2. Inv /\ ReadsOK /\ [Next]_vars => ReadsOK'
    BY ReadsStep
<1>3. ReadsOK => ReadsWhatIsRecorded
    BY DEF ReadsOK, ReadsWhatIsRecorded
<1> QED
    BY <1>1, <1>2, <1>3, Invariant, PTL DEF Spec
-----------------------------------------------------------------------------
(***************************************************************************)
(* What Linearize computes: the nodes a flow mentions, in the order it     *)
(* mentions them.                                                          *)
(***************************************************************************)

\* A sequence followed by another.
LEMMA ConcatType ==
    ASSUME NEW S, NEW s \in Seq(S), NEW t \in Seq(S)
    PROVE  s \o t \in Seq(S)
    OBVIOUS

\* Chains of names, one after the other, are a sequence of names.
LEMMA FlattenType ==
    ASSUME NEW T, NEW s \in Seq(Seq(T))
    PROVE  FlattenSeq(s) \in Seq(T)
<1>1. CASE Len(s) = 0
    BY <1>1 DEF FlattenSeq
<1>2. CASE Len(s) # 0
    <2> DEFINE n == Len(s) - 1
               step == [k \in 1..n |-> [x \in Seq(T) |-> x \o s[k + 1]]]
               flat[i \in 1..Len(s)] == IF i = 1 THEN s[i] ELSE flat[i - 1] \o s[i]
    <2>1. n \in Nat /\ Len(s) \in Nat /\ 1 \in 1..Len(s) /\ \A k \in 1..Len(s) : s[k] \in Seq(T)
        BY <1>2
    <2>2. step \in [1..n -> [Seq(T) -> Seq(T)]]
        BY <2>1
    <2>3. PICK f \in [0..n -> Seq(T)] :
                f[0] = s[1] /\ \A k \in 1..n : f[k] = step[k][f[k - 1]]
        <3>1. s[1] \in Seq(T)
            BY <2>1
        <3> DEFINE ST == Seq(T)
        <3>2. n \in Nat /\ s[1] \in ST /\ step \in [1..n -> [ST -> ST]]
            BY <2>1, <2>2, <3>1
        <3>3. \E f \in [0..n -> ST] : RecursBy(f, n, s[1], step)
            <4> HIDE DEF n, step, ST
            <4> QED
                BY <3>2, Iterates, Zenon
        <3> HIDE DEF n, step
        <3> QED
            BY <3>3 DEF RecursBy
    <2> DEFINE g == [i \in 1..Len(s) |-> f[i - 1]]
    <2>4. ASSUME NEW i \in 1..Len(s)
          PROVE  g[i] \in Seq(T) /\ g[i] = IF i = 1 THEN s[i] ELSE g[i - 1] \o s[i]
        <3>1. g[i] = f[i - 1] /\ i - 1 \in 0..n
            BY <2>1
        <3>2. CASE i = 1
            BY <2>3, <3>1, <3>2
        <3>3. CASE i # 1
            <4>1. i - 1 \in 1..n /\ g[i - 1] = f[(i - 1) - 1] /\ (i - 1) - 1 \in 0..n /\ (i - 1) + 1 = i
                BY <2>1, <3>3
            <4>2. f[i - 1] = step[i - 1][f[(i - 1) - 1]]
                BY <2>3, <4>1
            <4> QED
                BY <3>1, <3>3, <4>1, <4>2
        <3> QED
            BY <3>2, <3>3
    <2>5. g = [i \in 1..Len(s) |-> IF i = 1 THEN s[i] ELSE g[i - 1] \o s[i]]
        BY <2>4
    <2>6. flat = [i \in 1..Len(s) |-> IF i = 1 THEN s[i] ELSE flat[i - 1] \o s[i]]
        <3> HIDE DEF g
        <3> QED
            BY <2>5, Zenon
    <2> DEFINE P == {k \in 0..n : flat[k + 1] \in Seq(T)}
    <2>7. 0 \in P
        <3>1. 0 \in 0..n /\ 0 + 1 = 1
            BY <2>1
        <3>2. flat[1] = s[1]
            <4> HIDE DEF flat
            <4> QED
                BY <2>1, <2>6
        <3> HIDE DEF flat
        <3> QED
            BY <2>1, <3>1, <3>2
    <2>8. ASSUME NEW k \in 0..(n - 1), k \in P PROVE k + 1 \in P
        <3>1. k + 2 \in 1..Len(s) /\ (k + 2) - 1 = k + 1 /\ k + 2 # 1 /\ k + 1 \in 0..n /\ (k + 1) + 1 = k + 2
            BY <2>1
        <3>2. flat[k + 2] = flat[k + 1] \o s[k + 2]
            <4> HIDE DEF flat
            <4> QED
                BY <2>6, <3>1
        <3>3. flat[k + 1] \in Seq(T) /\ s[k + 2] \in Seq(T)
            BY <2>1, <2>8, <3>1
        <3>4. flat[(k + 1) + 1] \in Seq(T)
            <4>1. flat[k + 1] \o s[k + 2] \in Seq(T)
                <5> HIDE DEF flat
                <5> QED
                    BY <3>3, ConcatType, Zenon
            <4> QED
                BY <3>1, <3>2, <4>1, Zenon
        <3> HIDE DEF flat
        <3> QED
            BY <3>1, <3>4
    <2>9. n \in P
        <3> HIDE DEF P, n
        <3>1. \A k \in 0..n : k \in P
            BY <2>1, <2>7, <2>8, InductUpTo
        <3> QED
            BY <2>1, <3>1
    <2>10. flat[Len(s)] \in Seq(T)
        <3> HIDE DEF flat
        <3> QED
            BY <2>1, <2>9
    <2> QED
        BY <1>2, <2>10, Zenon DEF FlattenSeq
<1> QED
    BY <1>1, <1>2

\* The name is first mentioned at p.
FirstAt(names, name, p) ==
    p \in 1..Len(names) /\ names[p] = name /\ \A j \in 1..(p - 1) : names[j] # name

LEMMA FirstMention ==
    ASSUME NEW names \in Seq(Name), NEW i \in 1..Len(names)
    PROVE  \E p \in 1..i : FirstAt(names, names[i], p)
<1> DEFINE M == {p \in 1..i : names[p] = names[i]}
<1>1. M \in SUBSET Nat /\ M # {}
    OBVIOUS
<1>2. PICK p \in M : \A k \in M : p <= k
    <2> HIDE DEF M
    <2> QED
        BY <1>1, LeastNumber
<1>3. ASSUME NEW j \in 1..(p - 1) PROVE names[j] # names[i]
    <2>1. j \in 1..i /\ ~(p <= j)
        OBVIOUS
    <2> QED
        BY <1>2, <2>1
<1> QED
    BY <1>3 DEF FirstAt

\* A line of the first k names: what they mention, in the order of mention.
LineOf(names, k, line) ==
    /\ line \in Seq(Name)
    /\ \A i \in 1..k : names[i] \in {"in", "out"} \cup ToSet(line)
    /\ \A i \in 1..Len(line) :
         line[i] \notin {"in", "out"} /\ \E p \in 1..k : FirstAt(names, line[i], p)
    /\ \A i, j \in 1..Len(line) : \A p, q \in 1..Len(names) :
         i < j /\ FirstAt(names, line[i], p) /\ FirstAt(names, line[j], q) => p < q

\* Nothing is mentioned first at two places.
LEMMA FirstOnce ==
    ASSUME NEW names \in Seq(Name), NEW name, NEW p, NEW q,
           FirstAt(names, name, p), FirstAt(names, name, q)
    PROVE  p = q
    BY DEF FirstAt

LEMMA LineStep ==
    ASSUME NEW names \in Seq(Name), NEW k \in 1..Len(names),
           NEW line, LineOf(names, k - 1, line)
    PROVE  LineOf(names, k, IF names[k] \in {"in", "out"} \cup ToSet(line) THEN line
                            ELSE Append(line, names[k]))
<1>1. line \in Seq(Name) /\ Len(line) \in Nat /\ names[k] \in Name /\ k - 1 \in Nat
    BY DEF LineOf
<1>2. CASE names[k] \in {"in", "out"} \cup ToSet(line)
    BY <1>1, <1>2 DEF LineOf
<1>3. CASE names[k] \notin {"in", "out"} \cup ToSet(line)
    <2> DEFINE next == Append(line, names[k])
    <2>1. /\ next \in Seq(Name) /\ Len(next) = Len(line) + 1
          /\ \A i \in 1..Len(line) : next[i] = line[i]
          /\ next[Len(line) + 1] = names[k]
        BY <1>1
    <2>2. ToSet(line) \subseteq ToSet(next) /\ names[k] \in ToSet(next)
        <3> HIDE DEF next
        <3> QED
            BY <1>1, <2>1 DEF ToSet
    <2> HIDE DEF next
    <2>3. ASSUME NEW i \in 1..k PROVE names[i] \in {"in", "out"} \cup ToSet(next)
        BY <2>2 DEF LineOf
    <2>4. FirstAt(names, names[k], k)
        <3>1. ASSUME NEW j \in 1..(k - 1), names[j] = names[k] PROVE FALSE
            BY <1>3, <3>1 DEF LineOf
        <3> QED
            BY <3>1 DEF FirstAt
    <2>5. ASSUME NEW i \in 1..Len(next)
          PROVE  next[i] \notin {"in", "out"} /\ \E p \in 1..k : FirstAt(names, next[i], p)
        BY <1>3, <2>1, <2>4 DEF LineOf
    <2>6. ASSUME NEW i \in 1..Len(next), NEW j \in 1..Len(next),
                 NEW p \in 1..Len(names), NEW q \in 1..Len(names),
                 i < j, FirstAt(names, next[i], p), FirstAt(names, next[j], q)
          PROVE  p < q
        <3>1. i \in 1..Len(line) /\ next[i] = line[i]
            BY <2>1, <2>6
        <3>2. CASE j \in 1..Len(line)
            BY <2>1, <2>6, <3>1, <3>2 DEF LineOf
        <3>3. CASE j = Len(line) + 1
            <4>1. q = k
                BY <2>1, <2>4, <2>6, <3>3, FirstOnce
            <4>2. PICK r \in 1..(k - 1) : FirstAt(names, line[i], r)
                BY <3>1 DEF LineOf
            <4>3. p = r
                BY <2>6, <3>1, <4>2, FirstOnce
            <4> QED
                BY <4>1, <4>2, <4>3
        <3> QED
            BY <1>1, <2>1, <3>2, <3>3
    <2> QED
        BY <1>3, <2>1, <2>3, <2>5, <2>6 DEF LineOf, next
<1> QED
    BY <1>2, <1>3

\* What linearize computes: every name that is mentioned, except in and out,
\* in the order they are first mentioned.
LEMMA LinearizeLine ==
    ASSUME NEW flow, NEW names, names = FlattenSeq(FlattenSeq(flow)), names \in Seq(Name)
    PROVE  LineOf(names, Len(names), Linearize(flow))
<1> DEFINE n == Len(names)
           S == Seq(Name)
           after(k, x) == IF names[k] \in {"in", "out"} \cup ToSet(x) THEN x
                          ELSE Append(x, names[k])
           step == [k \in 1..n |-> [x \in S |-> after(k, x)]]
           line[k \in 0..n] ==
               IF k = 0 THEN <<>>
               ELSE IF names[k] \in {"in", "out"} \cup ToSet(line[k - 1]) THEN line[k - 1]
               ELSE Append(line[k - 1], names[k])
<1>1. n \in Nat /\ <<>> \in S
    OBVIOUS
<1>2. step \in [1..n -> [S -> S]]
    OBVIOUS
<1>3. PICK f \in [0..n -> S] : RecursBy(f, n, <<>>, step)
    <2> HIDE DEF n, S, step
    <2> QED
        BY <1>1, <1>2, Iterates, Zenon
<1>4. f = [k \in 0..n |-> IF k = 0 THEN <<>>
               ELSE IF names[k] \in {"in", "out"} \cup ToSet(f[k - 1]) THEN f[k - 1]
               ELSE Append(f[k - 1], names[k])]
    <2>1. ASSUME NEW k \in 0..n, k # 0
          PROVE  f[k] = after(k, f[k - 1])
        <3>1. k \in 1..n /\ f[k - 1] \in S
            BY <2>1
        <3>2. f[k] = step[k][f[k - 1]]
            BY <1>3, <3>1 DEF RecursBy
        <3> QED
            BY <3>1, <3>2
    <2>2. f[0] = <<>>
        BY <1>3 DEF RecursBy
    <2> HIDE DEF S
    <2> QED
        BY <2>1, <2>2
<1>5. line = [k \in 0..n |-> IF k = 0 THEN <<>>
               ELSE IF names[k] \in {"in", "out"} \cup ToSet(line[k - 1]) THEN line[k - 1]
               ELSE Append(line[k - 1], names[k])]
    BY <1>4, Zenon
<1> DEFINE P == {k \in 0..n : LineOf(names, k, line[k])}
<1>6. 0 \in P
    <2>1. line[0] = <<>> /\ 0 \in 0..n
        <3> HIDE DEF line
        <3> QED
            BY <1>1, <1>5
    <2>2. LineOf(names, 0, <<>>)
        BY DEF LineOf
    <2> QED
        BY <2>1, <2>2, Zenon
<1>7. ASSUME NEW k \in 0..(n - 1), k \in P PROVE k + 1 \in P
    <2>1. k + 1 \in 1..n /\ k + 1 \in 0..n /\ (k + 1) - 1 = k /\ k + 1 # 0
        BY <1>1
    <2>2. line[k + 1] = after(k + 1, line[k])
        <3> HIDE DEF line
        <3> QED
            BY <1>5, <2>1
    <2>3. LineOf(names, k, line[k])
        <3> HIDE DEF line
        <3> QED
            BY <1>7
    <2>4. LineOf(names, k + 1, line[k + 1])
        <3>1. LineOf(names, (k + 1) - 1, line[k])
            BY <2>1, <2>3, Zenon
        <3> HIDE DEF line
        <3>2. LineOf(names, k + 1, after(k + 1, line[k]))
            BY <2>1, <3>1, LineStep, Zenon
        <3> QED
            BY <2>2, <3>2, Zenon
    <2> HIDE DEF line
    <2> QED
        BY <2>1, <2>4
<1>8. n \in P
    <2> HIDE DEF P, n
    <2>1. \A k \in 0..n : k \in P
        BY <1>1, <1>6, <1>7, InductUpTo
    <2> QED
        BY <1>1, <2>1
<1>9. LineOf(names, n, line[n])
    <2> HIDE DEF line
    <2> QED
        BY <1>8
<1> QED
    BY <1>9, Zenon DEF Linearize

-----------------------------------------------------------------------------
(***************************************************************************)
(* The line of a program is the flow without its repetitions, and what is  *)
(* executed is the beginning of that line.                                 *)
(***************************************************************************)
Mentions == FlattenSeq(FlattenSeq(program.flow))

\* The line of the program that is executed.
LEMMA OrderIsLine ==
    ASSUME Inv
    PROVE  Mentions \in Seq(Name) /\ LineOf(Mentions, Len(Mentions), Order)
<1>1. program \in Program
    BY DEF Inv, TypeOK
<1>2. program.flow \in Seq(Seq(Seq(Name)))
    BY <1>1, RuntimeAssumption
<1>3. FlattenSeq(program.flow) \in Seq(Seq(Name))
    <2> DEFINE T == Seq(Name)
    <2>1. program.flow \in Seq(Seq(T))
        BY <1>2
    <2> HIDE DEF T
    <2>2. FlattenSeq(program.flow) \in Seq(T)
        BY <2>1, FlattenType
    <2> QED
        BY <2>2 DEF T
<1>4. Mentions \in Seq(Name)
    BY <1>3, FlattenType DEF Mentions
<1>5. Order = Linearize(program.flow)
    BY <1>1 DEF Order, Lines
<1> QED
    BY <1>4, <1>5, LinearizeLine, Zenon DEF Mentions

\* No more is executed than the line has.
WithinLine == Len(ran) <= Len(Order) /\ Len(Order) \in Nat

LEMMA WithinStep == Inv /\ WithinLine /\ [Next]_vars => WithinLine'
<1> SUFFICES ASSUME Inv, WithinLine, [Next]_vars PROVE WithinLine'
    OBVIOUS
<1>1. Order' = Order
    BY Fixed
<1>2. CASE UNCHANGED ran
    BY <1>1, <1>2 DEF WithinLine
<1>3. CASE Execute /\ ~Fail
    <2>1. /\ Len(proofs) < Len(Order) /\ Len(ran) = Len(proofs)
          /\ Turn \in program.declared
          /\ \E v \in Value : ran' = Append(ran, [node |-> Turn, read |-> v])
        BY <1>3, RuntimeAssumption DEF Execute, Inv, TypeOK, Lockstep
    <2>2. Turn \in Name
        BY <2>1, RuntimeAssumption DEF Inv, TypeOK
    <2>3. ran \in Seq([node : Name, read : Value]) /\ proofs \in Seq(Proof)
        BY DEF Inv, TypeOK
    <2>4. Len(ran') = Len(ran) + 1
        BY <2>1, <2>2, <2>3, AppendElements
    <2> QED
        BY <1>1, <2>1, <2>3, <2>4 DEF WithinLine
<1> QED
    BY <1>2, <1>3, RanStep

LEMMA Within == Spec => [](Inv /\ EffectsInOrder /\ WithinLine)
<1>1. Init => EffectsInOrder
    BY DEF Init, EffectsInOrder
<1>2. Init => WithinLine
    <2> SUFFICES ASSUME Init PROVE WithinLine
        OBVIOUS
    <2>1. Order \in Seq(Name)
        BY InvInit, OrderIsLine DEF LineOf
    <2> QED
        BY <2>1 DEF Init, WithinLine
<1>3. Inv /\ EffectsInOrder /\ WithinLine /\ [Next]_vars => (EffectsInOrder /\ WithinLine)'
    BY EffectsStep, WithinStep
<1> QED
    BY <1>1, <1>2, <1>3, Invariant, PTL DEF Spec

\* Where a node that has been executed is first mentioned; one that was executed
\* earlier is mentioned earlier.
LEMMA RanIsMentioned ==
    ASSUME Inv, EffectsInOrder, WithinLine
    PROVE  /\ \A k \in DOMAIN ran :
                k \in 1..Len(Order) /\ \E p \in 1..Len(Mentions) : FirstAt(Mentions, ran[k].node, p)
           /\ \A j, k \in DOMAIN ran : \A p, q \in 1..Len(Mentions) :
                j < k /\ FirstAt(Mentions, ran[j].node, p) /\ FirstAt(Mentions, ran[k].node, q)
                    => p < q
<1>1. DOMAIN ran = 1..Len(ran) /\ Len(ran) \in Nat
    BY DEF Inv, TypeOK
<1>2. LineOf(Mentions, Len(Mentions), Order)
    BY OrderIsLine
<1>3. ASSUME NEW k \in DOMAIN ran PROVE k \in 1..Len(Order) /\ ran[k].node = Order[k]
    <2>1. ran[k].node = Order[k]
        BY DEF EffectsInOrder
    <2>2. k \in 1..Len(Order)
        BY <1>1 DEF WithinLine
    <2> QED
        BY <2>1, <2>2
<1> QED
    BY <1>2, <1>3 DEF LineOf

\* A program's line has the names of its flow, in and out excepted, each at one
\* place, in the order they are first mentioned.
THEOREM LineIsTheFlow ==
    \A p \in Program :
        LET names == FlattenSeq(FlattenSeq(p.flow))
        IN  LineOf(names, Len(names), Lines[p])
<1> SUFFICES ASSUME NEW p \in Program
             PROVE  LineOf(FlattenSeq(FlattenSeq(p.flow)), Len(FlattenSeq(FlattenSeq(p.flow))), Lines[p])
    OBVIOUS
<1>1. p.flow \in Seq(Seq(Seq(Name)))
    BY RuntimeAssumption
<1>2. FlattenSeq(p.flow) \in Seq(Seq(Name))
    <2> DEFINE T == Seq(Name)
    <2>1. p.flow \in Seq(Seq(T))
        BY <1>1
    <2> HIDE DEF T
    <2>2. FlattenSeq(p.flow) \in Seq(T)
        BY <2>1, FlattenType
    <2> QED
        BY <2>2 DEF T
<1>3. FlattenSeq(FlattenSeq(p.flow)) \in Seq(Name)
    BY <1>2, FlattenType
<1>4. Lines[p] = Linearize(p.flow)
    BY DEF Lines
<1> QED
    BY <1>3, <1>4, LinearizeLine, Zenon

\* However often the flow mentions a node, it is executed once.
THEOREM NodesOnce == Spec => []EffectsOnce
<1>1. Inv /\ EffectsInOrder /\ WithinLine => EffectsOnce
    <2> SUFFICES ASSUME Inv, EffectsInOrder, WithinLine,
                        NEW j \in DOMAIN ran, NEW k \in DOMAIN ran,
                        ran[j].node = ran[k].node, j < k
                 PROVE  FALSE
        <3>1. Inv => DOMAIN ran \subseteq Int
            BY DEF Inv, TypeOK
        <3> QED
            BY <3>1 DEF EffectsOnce
    <2>1. PICK p \in 1..Len(Mentions) : FirstAt(Mentions, ran[k].node, p)
        BY RanIsMentioned
    <2>2. p < p
        BY <2>1, RanIsMentioned
    <2> QED
        BY <2>2
<1> QED
    BY <1>1, Within, PTL

\* A node is executed after every node that is mentioned before it; in a graph of
\* one chain those are the nodes its input comes from.
THEOREM ProducersAreFirst == Spec => []ProducersFirst
<1>1. Inv /\ EffectsInOrder /\ WithinLine => ProducersFirst
    <2> DEFINE mentioned(n) == CHOOSE k \in DOMAIN Mentions :
                   Mentions[k] = n /\ \A j \in 1..(k - 1) : Mentions[j] # n
    <2> SUFFICES ASSUME Inv, EffectsInOrder, WithinLine,
                        NEW j \in DOMAIN ran, NEW k \in DOMAIN ran, j < k
                 PROVE  mentioned(ran[j].node) < mentioned(ran[k].node)
        BY Zenon DEF ProducersFirst, Mentions
    <2>1. DOMAIN Mentions = 1..Len(Mentions)
        BY OrderIsLine
    <2>2. ASSUME NEW i \in DOMAIN ran
          PROVE  /\ mentioned(ran[i].node) \in 1..Len(Mentions)
                 /\ FirstAt(Mentions, ran[i].node, mentioned(ran[i].node))
        <3>1. PICK q \in 1..Len(Mentions) : FirstAt(Mentions, ran[i].node, q)
            BY RanIsMentioned
        <3>2. \E p \in DOMAIN Mentions :
                Mentions[p] = ran[i].node /\ \A h \in 1..(p - 1) : Mentions[h] # ran[i].node
            BY <2>1, <3>1 DEF FirstAt
        <3>3. /\ mentioned(ran[i].node) \in DOMAIN Mentions
              /\ Mentions[mentioned(ran[i].node)] = ran[i].node
              /\ \A h \in 1..(mentioned(ran[i].node) - 1) : Mentions[h] # ran[i].node
            BY <3>2, Zenon
        <3> HIDE DEF mentioned
        <3> QED
            BY <2>1, <3>3 DEF FirstAt
    <2> HIDE DEF mentioned
    <2> QED
        BY <2>2, RanIsMentioned
<1> QED
    BY <1>1, Within, PTL

\* A record has a proof of every name its flow mentions, in and out excepted.
RecordIsWhole ==
    phase = "record" =>
        \A i \in 1..Len(Mentions) :
            \/ Mentions[i] \in {"in", "out"}
            \/ \E k \in DOMAIN proofs : proofs[k].node = Mentions[i]

RecordHasAll == phase = "record" => Len(proofs) = Len(Order)

\* A run that prints its record has executed and proved every name the flow
\* mentions, in and out excepted.
THEOREM RecordsAreWhole == Spec => []RecordIsWhole
<1>1. Init => RecordHasAll
    BY DEF Init, RecordHasAll
<1>2. RecordHasAll /\ [Next]_vars => RecordHasAll'
    <2> SUFFICES ASSUME RecordHasAll, [Next]_vars, phase' = "record"
                 PROVE  Len(proofs') = Len(Order')
        BY DEF RecordHasAll
    <2>1. Order' = Order
        BY Fixed
    <2>2. Finish \/ UNCHANGED vars
        BY DEF Next, Start, Execute, ScriptSucceeds, ScriptFails, Kill, Fail
    <2> QED
        BY <2>1, <2>2 DEF Finish, vars, RecordHasAll
<1>3. Inv /\ EffectsInOrder /\ WithinLine /\ RecordHasAll => RecordIsWhole
    <2> SUFFICES ASSUME Inv, EffectsInOrder, RecordHasAll, phase = "record",
                        NEW i \in 1..Len(Mentions), Mentions[i] \notin {"in", "out"}
                 PROVE  \E k \in DOMAIN proofs : proofs[k].node = Mentions[i]
        BY DEF RecordIsWhole
    <2>1. LineOf(Mentions, Len(Mentions), Order) /\ Order \in Seq(Name)
        BY OrderIsLine DEF LineOf
    <2>2. Mentions[i] \in ToSet(Order)
        BY <2>1 DEF LineOf
    <2>3. PICK k \in 1..Len(Order) : Order[k] = Mentions[i]
        BY <2>1, <2>2 DEF ToSet
    <2>4. k \in DOMAIN proofs
        BY <2>3 DEF RecordHasAll, Inv, TypeOK
    <2> QED
        BY <2>3, <2>4 DEF EffectsInOrder
<1> QED
    BY <1>1, <1>2, <1>3, Within, PTL DEF Spec

-----------------------------------------------------------------------------
\* The steps that are left to a run, at most.
StepsLeft ==
    IF phase \in Ended THEN 0
    ELSE 1 + 2 * (Len(Order) - Len(proofs))
           + (IF phase = "start" THEN 2 ELSE IF phase = "next" THEN 1 ELSE 0)

\* Every step brings the end of the run nearer: no run has more than two steps
\* for each node of its line and three besides, and a script that never returns
\* is all that can hold it up.
THEOREM StepsRunOut == Spec => [][StepsLeft' \in Nat /\ StepsLeft' < StepsLeft]_vars
<1>1. Inv /\ EffectsInOrder /\ WithinLine /\ (Inv /\ WithinLine)' /\ [Next]_vars
        => [StepsLeft' \in Nat /\ StepsLeft' < StepsLeft]_vars
    <2> SUFFICES ASSUME Inv, WithinLine, (Inv /\ WithinLine)', Next
                 PROVE  StepsLeft' \in Nat /\ StepsLeft' < StepsLeft
        OBVIOUS
    <2>1. Order' = Order
        BY Fixed
    <2>2. /\ proofs \in Seq(Proof) /\ Len(proofs) \in Nat
          /\ Len(proofs) <= Len(ran) /\ Len(ran) \in Nat
          /\ Len(ran) <= Len(Order) /\ Len(Order) \in Nat
          /\ phase \in {"start", "next", "exec"} \cup Ended
        BY DEF Inv, TypeOK, Lockstep, WithinLine
    <2>3. Len(proofs') \in Nat /\ Len(proofs') <= Len(Order)
        BY <2>1 DEF Inv, TypeOK, Lockstep, WithinLine
    <2>4. CASE Fail \/ Kill \/ Finish
        <3>1. phase \notin Ended
            BY <2>4 DEF Next, Start, Execute, ScriptFails, ScriptSucceeds, Finish, Kill, Fail, Ended
        <3>2. phase' \in Ended
            BY <2>4 DEF Finish, Kill, Fail, Ended
        <3> QED
            BY <2>2, <3>1, <3>2 DEF StepsLeft
    <2>5. CASE Start /\ ~Fail
        BY <2>1, <2>2, <2>5 DEF Start, StepsLeft, Ended
    <2>6. CASE Execute /\ ~Fail
        BY <2>1, <2>2, <2>6 DEF Execute, StepsLeft, Ended
    <2>7. ASSUME NEW output \in Value, NEW now \in Time, ScriptSucceeds(output, now)
          PROVE  StepsLeft' \in Nat /\ StepsLeft' < StepsLeft
        <3>1. phase = "exec" /\ phase' = "next" /\ proofs' = Append(proofs, ProofOf(output, now))
            BY <2>7 DEF ScriptSucceeds, ProofOf
        <3>2. Len(proofs') = Len(proofs) + 1
            BY <2>2, <3>1, ProofType, AppendElements
        <3> QED
            BY <2>1, <2>2, <2>3, <3>1, <3>2 DEF StepsLeft, Ended
    <2> QED
        BY <2>4, <2>5, <2>6, <2>7 DEF Next, ScriptFails
<1> QED
    BY <1>1, Within, PTL DEF Spec
=============================================================================
