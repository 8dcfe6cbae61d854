------------------------- MODULE RevisionPublication -------------------------
(***************************************************************************)
(* What the job ledger promises to everything that reads published tables, *)
(* as the append-only tables of migrations/0006_workflow.sql state it:     *)
(* a run of a revision gets at most one outcome and keeps it, only a       *)
(* failed run is followed by another one, and the latest pointer moves     *)
(* forward, in the same step as the success of the revision it names.      *)
(*                                                                         *)
(* No queue, no invocation and no crash appears here; JobLedger implements *)
(* this specification in their presence.                                   *)
(***************************************************************************)
EXTENDS Integers

CONSTANTS MaxRevision, MaxRun

Revisions == 1..MaxRevision
Runs == 0..MaxRun

VARIABLES
    run,      \* the current run of each revision
    outcome,  \* what each run of each revision came to, "none" so far
    latest    \* the published revision, 0 before the first

vars == <<run, outcome, latest>>

Init ==
    /\ run = [j \in Revisions |-> 0]
    /\ outcome = [x \in Revisions \X Runs |-> "none"]
    /\ latest = 0

\* The current run ends without a result.
Conclude(j, verdict) ==
    /\ outcome[<<j, run[j]>>] = "none"
    /\ outcome' = [outcome EXCEPT ![<<j, run[j]>>] = verdict]
    /\ UNCHANGED <<run, latest>>

\* The current run succeeds; an older revision never replaces a newer one.
Publish(j) ==
    /\ outcome[<<j, run[j]>>] = "none"
    /\ outcome' = [outcome EXCEPT ![<<j, run[j]>>] = "succeeded"]
    /\ latest' = IF j > latest THEN j ELSE latest
    /\ UNCHANGED run

\* An operator reruns a revision whose current run failed.
Rerun(j) ==
    /\ run[j] < MaxRun
    /\ outcome[<<j, run[j]>>] = "failed"
    /\ run' = [run EXCEPT ![j] = @ + 1]
    /\ UNCHANGED <<outcome, latest>>

Next == \E j \in Revisions :
    \/ \E verdict \in {"failed", "cancelled"} : Conclude(j, verdict)
    \/ Publish(j)
    \/ Rerun(j)

Spec == Init /\ [][Next]_vars
=============================================================================
