----------------------------- MODULE PlayHistory -----------------------------
(***************************************************************************)
(* What assistant.db promises to everything that counts the player's plays *)
(* (the fit, the experiment, the reports): the plays table is a history    *)
(* that only grows.  A play is a (generation, chart, playcount); plays are *)
(* added to the newest generation only, after every play of their chart    *)
(* there, with the number of plays that were missed since; of an earlier   *)
(* play nothing changes but that the last one of a chart may be corrected. *)
(*                                                                         *)
(* No file, no poll and no crash appears here; Collector implements this   *)
(* specification in their presence.                                        *)
(***************************************************************************)
EXTENDS Integers

CONSTANTS Charts, MaxCount, MaxGeneration

Generations == 0..MaxGeneration
PlayIds == Generations \X Charts \X (1..MaxCount)

VARIABLES
    generation,  \* the newest generation
    recorded     \* the plays: of each its result and what was missed before it

vars == <<generation, recorded>>

Init ==
    /\ generation = 0
    /\ recorded = <<>>

\* p comes before q in the history of one chart and generation.
Before(p, q) == p[1] = q[1] /\ p[2] = q[2] /\ p[3] < q[3]

\* Nothing of p's chart and generation comes after it.
IsLast(p) == \A q \in DOMAIN recorded : ~Before(p, q)

New == DOMAIN recorded' \ DOMAIN recorded

Follows(p) ==
    /\ p[1] = generation'
    /\ \A q \in New : q[2] = p[2] => q = p
    /\ \A q \in DOMAIN recorded :
          /\ q[1] = p[1] /\ q[2] = p[2] => q[3] < p[3]
          /\ Before(q, p) /\ IsLast(q) => recorded'[p].lost = p[3] - q[3] - 1

Kept(p) ==
    /\ p \in DOMAIN recorded'
    /\ recorded'[p].lost = recorded[p].lost
    /\ recorded'[p] # recorded[p] => p[1] = generation' /\ IsLast(p)

Record ==
    /\ generation' \in {generation, generation + 1} \cap Generations
    /\ DOMAIN recorded' \subseteq PlayIds
    /\ \A p \in New : Follows(p)
    /\ \A p \in DOMAIN recorded : Kept(p)

Spec == Init /\ [][Record]_vars

\* What a history counts: between two neighbouring plays lie exactly the plays
\* that the later one says were missed.
Accounted ==
    \A p, q \in DOMAIN recorded :
        Before(p, q) /\ ~(\E r \in DOMAIN recorded : Before(p, r) /\ Before(r, q))
            => recorded[q].lost = q[3] - p[3] - 1
=============================================================================
