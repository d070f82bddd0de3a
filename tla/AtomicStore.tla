----------------------------- MODULE AtomicStore -----------------------------
(***************************************************************************)
(* What crates/apsl-cert/src/store.rs promises its callers: a content      *)
(* addressed set of certificates.  put adds a certificate in one step or   *)
(* leaves the set as it was, get_bytes answers with the certificate or     *)
(* with NotFound, and only a loss of power takes certificates away.        *)
(***************************************************************************)
CONSTANTS Writer, Reader, Cert, Faults, None

VARIABLES
    stored,     \* the certificates in the store
    call,       \* Writer -> "idle", "busy", or what its last put returned
    item,       \* Writer -> the certificate of that put
    lookup,     \* Reader -> "idle", "found", or what its last get returned
    query,      \* Reader -> the certificate of that get
    shared      \* certificates that two writers have put at a time

vars == <<stored, call, item, lookup, query, shared>>

Init ==
    /\ stored = {}
    /\ call = [w \in Writer |-> "idle"]
    /\ item = [w \in Writer |-> None]
    /\ lookup = [r \in Reader |-> "idle"]
    /\ query = [r \in Reader |-> None]
    /\ shared = {}

\* put is called.
Put(w, c) ==
    /\ call[w] # "busy"
    /\ call' = [call EXCEPT ![w] = "busy"]
    /\ item' = [item EXCEPT ![w] = c]
    /\ shared' = IF \E v \in Writer : call[v] = "busy" /\ item[v] = c
                  THEN shared \cup {c} ELSE shared
    /\ UNCHANGED <<stored, lookup, query>>

\* put takes effect and returns Ok.
Commit(w) ==
    /\ call[w] = "busy"
    /\ stored' = stored \cup {item[w]}
    /\ call' = [call EXCEPT ![w] = "ok"]
    /\ UNCHANGED <<item, lookup, query, shared>>

\* put fails, or its caller dies, without any effect.  A put that another put of
\* the same certificate has overtaken fails with the certificate in the store.
Abort(w) ==
    /\ call[w] = "busy"
    /\ \E outcome \in {"err", "idle"} :
        /\ outcome = "err" => "io" \in Faults \/ item[w] \in shared \cap stored
        /\ outcome = "idle" => "crash" \in Faults
        /\ call' = [call EXCEPT ![w] = outcome]
    /\ UNCHANGED <<stored, item, lookup, query, shared>>

\* get_bytes looks the certificate up; it misses one only on an I/O error.
Lookup(r, c) ==
    /\ lookup[r] # "found"
    /\ \E outcome \in {"found", "notfound"} :
        /\ outcome = "found" => c \in stored
        /\ outcome = "notfound" => c \notin stored \/ "io" \in Faults
        /\ lookup' = [lookup EXCEPT ![r] = outcome]
    /\ query' = [query EXCEPT ![r] = c]
    /\ UNCHANGED <<stored, call, item, shared>>

\* get_bytes returns the certificate it found, or fails: on an I/O error, or
\* because two writers have stored the certificate at a time.
Answer(r) ==
    /\ lookup[r] = "found"
    /\ \E outcome \in {"ok", "io", "mismatch"} :
        /\ outcome = "io" => "io" \in Faults \/ query[r] \in shared
        /\ outcome = "mismatch" => query[r] \in shared
        /\ lookup' = [lookup EXCEPT ![r] = outcome]
    /\ UNCHANGED <<stored, call, item, query, shared>>

\* Power is lost: recent certificates may go, every caller starts again.
Lose ==
    /\ "power" \in Faults
    /\ stored' \in SUBSET stored
    /\ call' = [w \in Writer |-> "idle"]
    /\ lookup' = [r \in Reader |-> "idle"]
    /\ UNCHANGED <<item, query, shared>>

Next ==
    \/ \E w \in Writer : Commit(w) \/ Abort(w)
    \/ \E w \in Writer, c \in Cert : Put(w, c)
    \/ \E r \in Reader : Answer(r)
    \/ \E r \in Reader, c \in Cert : Lookup(r, c)
    \/ Lose

Spec == Init /\ [][Next]_vars
=============================================================================
