----------------------------- MODULE Experiment -----------------------------
(***************************************************************************)
(* The self-experiment of plan/experiment.py: a session gets one of two    *)
(* arms, a chart to practise and transfer charts, and its revisits are     *)
(* scored when their windows have closed.  The menu it takes candidates    *)
(* from is saved, and the pending transfers are kept out of menus, by      *)
(* db/recommendation_adapter.py; plays reach assistant.db from the         *)
(* collector and the daily import, late and perhaps from both.             *)
(*                                                                         *)
(* One experiment; time is counted in the days of its windows.  Charts are *)
(* numbers in the order of (sha256, mode); the hash of seed, session key   *)
(* and purpose is a constant, as it is in the code.  A command that reads  *)
(* and then writes in a transaction takes two steps.                       *)
(***************************************************************************)
EXTENDS Integers, FiniteSets

CONSTANTS
    Charts,       \* (sha256, mode)
    Practised,    \* charts with plays before the experiment
    AxisOf,       \* primary_axis of each chart; table and level are the same
    Menus,        \* what a menu can plan: its focus charts and the others
    Keys,         \* session keys
    Draw,         \* the seeded draws of each session key
    Intervals,    \* INTERVAL_DAYS
    Sources,      \* importers that record plays
    Days,         \* how long the experiment assigns sessions
    MaxDay,       \* bound: the clock
    MaxPlays,     \* bound: plays
    Playable,     \* bound: charts the player plays
    Outcomes,     \* bound: whether the player completes them
    MenuDuringAssign  \* whether a menu may be made while a session is assigned

ASSUME ExperimentAssumption ==
    /\ Charts \subseteq Nat /\ IsFiniteSet(Charts) /\ IsFiniteSet(Intervals)
    /\ Playable \subseteq Charts /\ Practised \subseteq Charts
    /\ Draw \in [Keys -> [arm : {0, 1}, selection : Nat, transfer : [Intervals -> Nat]]]
    /\ Intervals # {} /\ Intervals \subseteq Nat \ {0}
    /\ Days \in Nat \ {0}
    /\ MaxDay \in Nat /\ MaxPlays \in Nat
    /\ MenuDuringAssign \in BOOLEAN /\ Outcomes \subseteq BOOLEAN
    /\ \A m \in Menus : m.focus \subseteq Charts /\ m.others \subseteq Charts

Arms == {"coach", "control"}
TargetKinds == {"retention", "transfer"}
TimeOf == 0..MaxDay
Targets == Keys \X TargetKinds \X Intervals
Serials == 1..MaxPlays

VARIABLES
    today,     \* the clock
    plays,     \* what the player plays: chart, day, outcome
    recorded,  \* plays: (play, source) rows of assistant.db
    menu,      \* the latest row of sessions
    read,      \* candidates a running assign command has read, by session key
    sessions,  \* experiment_sessions
    targets,   \* experiment_targets
    due        \* the targets a running resolve command has read

vars == <<today, plays, recorded, menu, read, sessions, targets, due>>

NoMenu == [focus |-> {}, others |-> {}, played |-> {}]
NoSets == [coach |-> {}, control |-> {}, transfer |-> {}]
NoSession == [at |-> 0, arm |-> "none", chart |-> 0, transfer |-> 0, sets |-> NoSets]
NoTarget == [chart |-> 0, at |-> 0, due |-> 0, status |-> "none", play |-> 0]
Sets == [coach : SUBSET Charts, control : SUBSET Charts, transfer : SUBSET Charts]

TypeOK ==
    /\ today \in TimeOf
    /\ DOMAIN plays \subseteq Serials
    /\ \A n \in DOMAIN plays : plays[n] \in [chart : Charts, at : TimeOf, completed : BOOLEAN]
    /\ recorded \subseteq (DOMAIN plays) \X Sources
    /\ menu.focus \subseteq Charts /\ menu.others \subseteq Charts /\ menu.played \subseteq Charts
    /\ DOMAIN read = Keys /\ \A k \in Keys : read[k] \in Sets
    /\ DOMAIN sessions = Keys
    /\ \A k \in Keys : sessions[k] # NoSession =>
         /\ sessions[k].at \in TimeOf /\ sessions[k].arm \in Arms
         /\ sessions[k].chart \in Charts /\ sessions[k].transfer \in Charts
         /\ sessions[k].sets \in Sets
    /\ DOMAIN targets = Targets
    /\ \A t \in Targets : targets[t] # NoTarget =>
         /\ targets[t].chart \in Charts /\ targets[t].play \in 0..MaxPlays
         /\ targets[t].due = targets[t].at + t[3]
         /\ targets[t].status \in {"pending", "resolved", "missing", "duplicate"}
    /\ due \subseteq Targets

Init ==
    /\ today = 0
    /\ plays = << >> /\ recorded = {}
    /\ menu = NoMenu
    /\ read = [k \in Keys |-> NoSets]
    /\ sessions = [k \in Keys |-> NoSession]
    /\ targets = [t \in Targets |-> NoTarget]
    /\ due = {}

Pending == {t \in Targets : targets[t].status = "pending"}
PendingTransfers == {targets[t].chart : t \in {u \in Pending : u[2] = "transfer"}}
Recorded == {n \in DOMAIN plays : \E s \in Sources : <<n, s>> \in recorded}
PlayedCharts == Practised \cup {plays[n].chart : n \in Recorded}

-----------------------------------------------------------------------------
(* The player, the importers and the menu.                                 *)

PassDay ==
    /\ today < MaxDay
    /\ today' = today + 1
    /\ UNCHANGED <<plays, recorded, menu, read, sessions, targets, due>>

PlayChart(c, completed) ==
    /\ Cardinality(DOMAIN plays) < MaxPlays
    /\ LET n == Cardinality(DOMAIN plays) + 1
       IN plays' = [i \in DOMAIN plays \cup {n} |->
                      IF i = n THEN [chart |-> c, at |-> today, completed |-> completed]
                      ELSE plays[i]]
    /\ UNCHANGED <<today, recorded, menu, read, sessions, targets, due>>

\* The collector or the daily import records a play, at any later time.
Record(n, s) ==
    /\ <<n, s>> \notin recorded
    /\ recorded' = recorded \cup {<<n, s>>}
    /\ UNCHANGED <<today, plays, menu, read, sessions, targets, due>>

\* The query of load_input leaves out the charts of pending transfers.
Candidates == Charts \ PendingTransfers

SaveMenu(m) ==
    /\ MenuDuringAssign \/ \A k \in Keys : read[k] = NoSets
    /\ m.focus \cup m.others \subseteq Candidates
    /\ menu' = [focus |-> m.focus, others |-> m.others, played |-> PlayedCharts]
    /\ menu' # menu
    /\ UNCHANGED <<today, plays, recorded, read, sessions, targets, due>>

-----------------------------------------------------------------------------
(* Assignment.                                                             *)

\* Charts of this experiment that were chosen before, for any interval.
\* (Mutant: only those of the rows of experiment_sessions.)
ReservedBySessions ==
    {sessions[k].chart : k \in Keys} \cup {sessions[k].transfer : k \in Keys}
Reserved ==
    {sessions[k].chart : k \in Keys} \cup {sessions[k].transfer : k \in Keys}
        \cup {targets[t].chart : t \in Targets}

\* One comparison: the focus charts of an axis, played or not, against charts
\* the menu leaves out, and charts nobody has played to test the transfer on.
Stratum(axis, played) ==
    LET planned == menu.focus \cup menu.others
        known(c) == c \in menu.played
        unused == Charts \ (planned \cup Reserved)
        transfer == {c \in unused : AxisOf[c] = axis /\ ~known(c)}
    IN [coach |-> {c \in menu.focus \ Reserved : AxisOf[c] = axis /\ known(c) = played},
        control |-> {c \in unused : known(c) = played} \ transfer,
        transfer |-> transfer]

Usable(sets) == /\ sets.coach # {} /\ sets.control # {}
                /\ Cardinality(sets.transfer) >= Cardinality(Intervals)

\* build_candidate_sets, for a session that is not assigned yet.
BuildCandidateSets(k) ==
    /\ menu # NoMenu
    /\ read[k] = NoSets /\ sessions[k] = NoSession
    /\ \E axis \in {AxisOf[c] : c \in Charts}, played \in BOOLEAN :
         /\ Usable(Stratum(axis, played))
         /\ read' = [read EXCEPT ![k] = Stratum(axis, played)]
    /\ UNCHANGED <<today, plays, recorded, menu, sessions, targets, due>>

\* assign_session takes out what was used or played since, or refuses.
Left(k) ==
    [coach |-> read[k].coach \ Reserved, control |-> read[k].control \ Reserved,
     transfer |-> (read[k].transfer \ Reserved) \ PlayedCharts]
Acceptable(sets) ==
    Usable(sets) /\ sets.transfer \cap (sets.coach \cup sets.control) = {}

\* The drawn chart of a sorted list.
Nth(charts, n) ==
    CHOOSE c \in charts :
        Cardinality({d \in charts : d < c}) = n % Cardinality(charts)

ArmOf(k) == IF Draw[k].arm = 0 THEN "coach" ELSE "control"
SelectedChart(k) == Nth(Left(k)[ArmOf(k)], Draw[k].selection)

\* The charts of the intervals are drawn without putting them back.
TransferCharts(k) ==
    LET f[i \in Intervals] ==
          Nth(Left(k).transfer \ {f[j] : j \in {x \in Intervals : x < i}},
              Draw[k].transfer[i])
    IN f

FirstInterval == CHOOSE i \in Intervals : \A j \in Intervals : i <= j

AssignSession(k) ==
    /\ read[k] # NoSets /\ sessions[k] = NoSession
    /\ today < Days
    /\ Acceptable(Left(k))
    /\ sessions' = [sessions EXCEPT ![k] =
                      [at |-> today, arm |-> ArmOf(k), chart |-> SelectedChart(k),
                       transfer |-> TransferCharts(k)[FirstInterval], sets |-> Left(k)]]
    /\ targets' = [t \in Targets |->
                     IF t[1] # k THEN targets[t]
                     ELSE [chart |-> IF t[2] = "retention" THEN SelectedChart(k)
                                     ELSE TransferCharts(k)[t[3]],
                           at |-> today, due |-> today + t[3],
                           status |-> "pending", play |-> 0]]
    /\ read' = [read EXCEPT ![k] = NoSets]
    /\ UNCHANGED <<today, plays, recorded, menu, due>>

\* The period is over or too few charts are left.
RefuseSession(k) ==
    /\ read[k] # NoSets
    /\ today >= Days \/ ~Acceptable(Left(k))
    /\ read' = [read EXCEPT ![k] = NoSets]
    /\ UNCHANGED <<today, plays, recorded, menu, sessions, targets, due>>

-----------------------------------------------------------------------------
(* Resolution.                                                             *)

\* (Mutant: the query does not ask for status = 'pending'.)
ReadDueTargetsAgain ==
    /\ due = {}
    /\ due' = {t \in Targets : targets[t].status # "none" /\ targets[t].due <= today}
    /\ due' # {}
    /\ UNCHANGED <<today, plays, recorded, menu, read, sessions, targets>>
ReadDueTargets ==
    /\ due = {}
    /\ due' = {t \in Pending : targets[t].due <= today}
    /\ due' # {}
    /\ UNCHANGED <<today, plays, recorded, menu, read, sessions, targets>>

\* semantic_plays: rows of one play from two sources are one play.
Scorable(t) ==
    {n \in Recorded : plays[n].chart = targets[t].chart /\ plays[n].at = targets[t].due}

CountRows(t) == Cardinality({r \in recorded : r[1] \in Scorable(t)})   \* mutant
Count(t) == Cardinality(Scorable(t))

Early(t) == {n \in Recorded : /\ plays[n].chart = targets[t].chart
                              /\ plays[n].at \in targets[t].at..(targets[t].due - 1)}

Used(t, n) == \E u \in Targets \ {t} : targets[u].play = n

Verdict(t) ==
    IF t[2] = "transfer" /\ Early(t) # {} THEN "duplicate"
    ELSE IF Count(t) = 0 THEN "missing"
    ELSE IF Count(t) > 1 \/ \E n \in Scorable(t) : Used(t, n) THEN "duplicate"
    ELSE "resolved"

Settled(t) ==
    [targets[t] EXCEPT !.status = Verdict(t),
       !.play = IF Verdict(t) = "resolved" THEN CHOOSE n \in Scorable(t) : TRUE ELSE 0]

ClosedLate(t) == today > targets[t].due + 1                       \* mutant
Closed(t) == today > targets[t].due

\* Windows that are still open stay pending.  (The targets of one command
\* are of different charts or windows: none sees the play of another.)
ResolveTargets ==
    /\ due # {}
    /\ targets' = [t \in Targets |->
                     IF t \in due /\ Closed(t) THEN Settled(t) ELSE targets[t]]
    /\ due' = {}
    /\ UNCHANGED <<today, plays, recorded, menu, read, sessions>>

-----------------------------------------------------------------------------
Next ==
    \/ PassDay
    \/ \E c \in Playable, completed \in Outcomes : PlayChart(c, completed)
    \/ \E n \in DOMAIN plays, s \in Sources : Record(n, s)
    \/ \E m \in Menus : SaveMenu(m)
    \/ \E k \in Keys : BuildCandidateSets(k) \/ AssignSession(k) \/ RefuseSession(k)
    \/ ReadDueTargets \/ ResolveTargets

\* Days pass, and the resolve command is run now and then and runs to its end.
Spec == /\ Init /\ [][Next]_vars
        /\ WF_vars(PassDay) /\ WF_vars(ReadDueTargets) /\ WF_vars(ResolveTargets)

-----------------------------------------------------------------------------
(* Properties.                                                             *)

\* No chart plays two parts in the experiment: practised in one session and a
\* transfer of another, or a transfer of two intervals or two sessions, not
\* even when two assign commands had read the same candidates.
ChartsPlayOnePart ==
    \A t, u \in Targets :
        (targets[t] # NoTarget /\ targets[u] # NoTarget /\ targets[t].chart = targets[u].chart)
        => t[1] = u[1] /\ t[2] = u[2] /\ (t[2] = "transfer" => t = u)

\* The menu the player follows never plans a chart that is still to test the
\* transfer.  It holds unless a menu is made while a session is being assigned
\* (MenuDuringAssign).
TransfersNotPlanned ==
    (menu.focus \cup menu.others) \cap PendingTransfers = {}

\* What was concluded of a target stays: plays that are recorded late, or by
\* a second importer, change neither its verdict nor its outcome.
VerdictsStand ==
    [][\A t \in Targets : targets[t].status \in {"resolved", "missing", "duplicate"}
                          => targets'[t] = targets[t]]_vars

\* A target counts as spoilt only if the player really played the chart twice
\* in the window, or a transfer chart before it: not because two importers
\* recorded one play.
DuplicatesAreReal ==
    \A t \in Targets : targets[t].status = "duplicate" =>
        \/ Cardinality({n \in DOMAIN plays : /\ plays[n].chart = targets[t].chart
                                             /\ plays[n].at = targets[t].due}) > 1
        \/ t[2] = "transfer" /\ \E n \in DOMAIN plays :
              /\ plays[n].chart = targets[t].chart
              /\ plays[n].at \in targets[t].at..(targets[t].due - 1)

\* Every revisit is settled in the end if the resolve command keeps being run.
TargetsSettle ==
    <>[](\A t \in Pending : targets[t].due >= MaxDay)
=============================================================================
