----------------------------- MODULE MCCertStore -----------------------------
(* Instances of CertStore for TLC. *)
EXTENDS CertStore, TLC

\* Writers and readers are interchangeable.
Symmetry ==
    Permutations(Writer) \cup Permutations(Reader)

\* What a state is up to the numbers of its files and what files hold that
\* nothing refers to any more (File::create empties the file it gets).
File(i) ==
    IF i = None
    THEN None
    ELSE [data |-> data[i], synced |-> synced[i],
          paths |-> {c \in Cert : i = tmp[c]} \X {"tmp"} \cup {c \in Cert : i = final[c]} \X {"final"}
                    \cup {c \in Cert : i = onDisk[c]} \X {"onDisk"},
          writers |-> {w \in Writer : fd[w] = i},
          readers |-> {r \in Reader : rfd[r] = i}]

UpToNumbers ==
    <<[c \in Cert |-> <<File(tmp[c]), File(final[c]), File(onDisk[c])>>],
      wpc, wcert, off, [w \in Writer |-> File(fd[w])], shared,
      rpc, rcert, roff, [r \in Reader |-> <<File(rfd[r]), IF rpc[r] = "read" THEN got[r] ELSE {}>>]>>
=============================================================================
