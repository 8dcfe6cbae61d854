-------------------------- MODULE MCUploadProtocol --------------------------
(* Values for the constants of UploadProtocol.                             *)
EXTENDS UploadProtocol, TLC

CONSTANTS m1, m2, n1, n2, k1, k2, w1, w2

\* Two manifests with names of their own that declare the same contents.
MCNameOf == [m \in Manifests |-> IF m = m1 THEN n1 ELSE n2]
OneFileOf == [m \in Manifests |-> <<k1>>]
OwnFileOf == [m \in Manifests |-> IF m = m1 THEN <<k1>> ELSE <<k2>>]
TwoFilesOf == [m \in Manifests |-> <<k1, k2>>]

\* Two manifests to which the client gave one id.
SharedNameOf == [m \in Manifests |-> n1]

\* What may run at once on one manifest.  complete() alone is kept from running
\* next to itself and to the operations that delete objects or start anew.
OneAtATime == {}
ExclusiveComplete ==
    (SUBSET AllOperations)
        \ {{"complete"}, {"complete", "start"}, {"complete", "abort"}, {"complete", "cleanup"}}
ConcurrentCompletes == {{"complete"}}

\* The constants are unchanged by exchanging manifests and names together.
Symmetry ==
    Permutations(Actors)
        \cup {(m1 :> m2) @@ (m2 :> m1) @@ (n1 :> n2) @@ (n2 :> n1)}
=============================================================================
