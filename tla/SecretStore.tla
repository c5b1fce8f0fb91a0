---------------------------- MODULE SecretStore ----------------------------
(***************************************************************************)
(* What `penhan push` promises of a backend, whichever it is, to one clone *)
(* of a safe. The backend is a map from secret paths to contents, which    *)
(* others write too. Backends and Kubernetes implement this specification. *)
(***************************************************************************)
CONSTANTS
    Paths,       \* the secret paths
    Contents,    \* canonical contents of a secret
    None,        \* no secret
    Partial      \* what a write may leave that is cut short

VARIABLES
    store,     \* what the backend holds for the clone at each path
    want,      \* the contents the push has read in the clone
    others,    \* the paths that others have written since it did
    done       \* the push has come to its end, and says that it is complete

vars == <<store, want, others, done>>

Nothing == [f \in Paths |-> None]
Pushing == want # Nothing
Wanted == {f \in Paths : want[f] # None}

\* Every secret of the push is there, unless others wrote it meanwhile.
Synced == \A f \in Wanted \ others : store[f] = want[f]

GoesOn == want' = want /\ others' = others /\ (done' => Synced')
Ends == want' = Nothing /\ others' = {} /\ ~done'

-----------------------------------------------------------------------------
\* All secret files of the clone are read before anything is written.
Begin ==
    /\ ~Pushing
    /\ want' \in [Paths -> Contents \union {None}] \ {Nothing}
    /\ others' = {} /\ ~done'
    /\ UNCHANGED store

\* Only a secret that was read is written, as it was read, and only if it is
\* not there already; whether the push learns of it is another matter.
Write(f) ==
    /\ f \in Wanted /\ ~done
    /\ store[f] # want[f] \/ f \in others
    /\ \E x \in {want[f]} \union Partial : store' = [store EXCEPT ![f] = x]
    /\ GoesOn \/ Ends

\* It says so only when all is there.
Finish ==
    /\ Pushing /\ done'
    /\ UNCHANGED store /\ GoesOn

\* It may end at any time, and leaves what it has written.
End ==
    /\ Pushing /\ Ends
    /\ UNCHANGED store

\* The secrets in S are written otherwise: by another clone, a person, git or
\* an import.
Otherwise(S) ==
    /\ store' \in [Paths -> Contents \union {None} \union Partial]
    /\ \A f \in Paths \ S : store'[f] = store[f]
    /\ others' = IF Pushing THEN others \union S ELSE {}
    /\ UNCHANGED <<want, done>>

-----------------------------------------------------------------------------
Init ==
    /\ store \in [Paths -> Contents \union {None} \union Partial]
    /\ want = Nothing /\ others = {} /\ done = FALSE

Next ==
    \/ Begin \/ Finish \/ End
    \/ \E f \in Paths : Write(f)
    \/ \E S \in SUBSET Paths : Otherwise(S)

Spec == Init /\ [][Next]_vars
=============================================================================
