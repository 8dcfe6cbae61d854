---------------------------- MODULE MCJobLedger ----------------------------
(* Values for the constants of JobLedger.                                  *)
EXTENDS JobLedger, TLC

CONSTANTS e1, e2, d1, d2, h1, h2, c1, c2

MCDigestOf == (e1 :> d1) @@ (e2 :> d2)
OneEventDigestOf == e1 :> d1
SharedDigestOf == (e1 :> d1) @@ (e2 :> d1)

Symmetry == Permutations(Handlers) \cup Permutations(Consumers)
=============================================================================
