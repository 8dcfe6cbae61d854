---------------------------- MODULE MCExperiment ----------------------------
(* Values for the constants of Experiment.                                 *)
EXTENDS Experiment

\* Charts 1 to 3 are known to the player, 4 to 7 are new; all of one axis.
MCAxisOf == [c \in Charts |-> "stream"]

\* A menu has a known chart in its focus, and one of them a new one beside it.
MCMenus == {[focus |-> {1}, others |-> {}], [focus |-> {2}, others |-> {4}]}

MCDraw == [k \in Keys |->
             IF k = "s1" THEN [arm |-> 0, selection |-> 0, transfer |-> [i \in Intervals |-> 0]]
             ELSE [arm |-> 1, selection |-> 1, transfer |-> [i \in Intervals |-> 4 * i]]]
=============================================================================
