--------------------------- MODULE MCDailyUpdate ---------------------------
(* The files below output_dir in the order write_export writes them; the   *)
(* processes are interchangeable.                                          *)
EXTENDS DailyUpdate, TLC

MCFiles == <<"session.json", "latest.json">>
MCSymmetry == Permutations(Commands)
=============================================================================
