---------------------------- MODULE DailyUpdate ----------------------------
(***************************************************************************)
(* The commands that the player runs after a session: `daily-update`       *)
(* imports copies of score.db and scoredatalog.db (collect/snapshot.py),   *)
(* fits the completion model (model/core.py), makes the menu, exports it   *)
(* (plan/menu.py) and saves it; `menu` does the last three.  Commands may  *)
(* overlap and die at any step, and the copies may be from any time.       *)
(*                                                                         *)
(* A database copy is the playcount of each chart in it (0: no row).  The  *)
(* menu is a function of import, model and date, as its seed is; the date  *)
(* follows from the import.                                                *)
(***************************************************************************)
EXTENDS Integers, Sequences, FiniteSets, FiniteSetsExt

CONSTANTS
    Charts,      \* (sha256, mode)
    Commands,    \* processes that run a command
    Files,       \* files below output_dir, in the order they are written
    MinResults,  \* MIN_RESULTS
    MaxPlays,    \* bound: plays
    MaxStarts,   \* bound: commands started
    MaxCrashes   \* bound: commands that die

Latest == "latest.json"

ASSUME DailyAssumption ==
    /\ Files \in Seq(STRING) /\ Len(Files) > 0 /\ Files[Len(Files)] = Latest
    /\ IsFiniteSet(Charts)
    /\ MinResults \in Nat /\ MaxPlays \in Nat /\ MaxStarts \in Nat /\ MaxCrashes \in Nat

VARIABLES
    world,      \* score.db and scoredatalog.db after each play, oldest first
    imports,    \* daily_imports: the pairs, in the order of their ids
    state,      \* score_state: playcount of each chart
    cursor,     \* chart_cursor of the daily generation
    plays,      \* plays of source daily_snapshot
    models,     \* model_state: n_train of each version
    command,    \* running commands
    revisions,  \* complete directories below output_dir/revisions
    view,       \* files below output_dir
    temporary,  \* their .tmp files, which the commands share
    sessions,   \* rows of sessions and recommendation_versions
    starts,     \* commands started; dates what they generate
    crashes     \* commands that died

database == <<imports, state, cursor, plays, models>>
output == <<revisions, view, temporary>>
vars == <<world, database, command, output, sessions, starts, crashes>>

NoRow == 0
None == [none |-> TRUE]
Members(s) == {s[i] : i \in 1..Len(s)}
Idle == [at |-> "idle"]

Init ==
    /\ world = <<[score |-> [c \in Charts |-> NoRow], log |-> [c \in Charts |-> NoRow]]>>
    /\ imports = <<>> /\ models = <<>> /\ plays = {}
    /\ state = [c \in Charts |-> NoRow] /\ cursor = [c \in Charts |-> NoRow]
    /\ command = [p \in Commands |-> Idle]
    /\ revisions = {} /\ sessions = {}
    /\ view = [f \in Members(Files) |-> None]
    /\ temporary = [f \in Members(Files) |-> None]
    /\ starts = 0 /\ crashes = 0

\* beatoraja counts the play in both databases.  Commands read copies, of any
\* age: plays while a command runs add nothing to plays before it starts.
PlayChart(c) ==
    /\ Len(world) <= MaxPlays /\ \A p \in Commands : command[p] = Idle
    /\ LET last == world[Len(world)]
           n == last.score[c] + 1
       IN  world' = Append(world, [score |-> [last.score EXCEPT ![c] = n],
                                   log |-> [last.log EXCEPT ![c] = n]])
    /\ UNCHANGED <<database, command, output, sessions, starts, crashes>>

(*-------------------------------- the import -----------------------------*)

Start(p) == command[p] = Idle /\ starts < MaxStarts /\ starts' = starts + 1
Go(p, at, again) ==
    command' = [command EXCEPT ![p] = [at |-> at, made |-> starts', again |-> again]]

Pairs == {[score |-> world[i].score, log |-> world[j].log] : i, j \in DOMAIN world}
Known(pair) == pair \in Members(imports)

\* scoredatalog.db is newer than score.db, as far as the charts tell.
Incoherent(pair) ==
    \E c \in Charts : pair.score[c] # NoRow /\ pair.log[c] > pair.score[c]
ScoreBackwards(pair) ==
    imports # <<>> /\ \E c \in Charts : pair.score[c] # NoRow /\ pair.score[c] < state[c]
LogBackwards(pair) == \E c \in Charts : pair.log[c] # NoRow /\ pair.log[c] < cursor[c]

Newer(old, new) == [c \in Charts |-> IF new[c] = NoRow THEN old[c] ELSE new[c]]

\* Mutant: the first play after the cursor is counted as lost too.
LostAll(pair, c) == pair.log[c] - cursor[c]

Lost(pair, c) == pair.log[c] - cursor[c] - 1

\* One play for each chart whose cursor moves, but none at the first import.
NewPlays(pair) ==
    IF imports = <<>> THEN {}
    ELSE {[chart |-> c, count |-> pair.log[c], lost |-> Lost(pair, c)]
          : c \in {d \in Charts : pair.log[d] > cursor[d]}}

Acceptable(pair) == ~Incoherent(pair) /\ ~ScoreBackwards(pair) /\ ~LogBackwards(pair)

\* Mutant: the scores written before the exception are not rolled back.
RefuseKeepsScores(p) ==
    /\ Start(p)
    /\ \E pair \in Pairs :
        /\ ~Known(pair) /\ ~Acceptable(pair)
        /\ state' = Newer(state, pair.score)
    /\ UNCHANGED <<world, imports, cursor, plays, models, command, output, sessions, crashes>>

\* SnapshotPairMismatch; the transaction leaves nothing behind.
Refuse(p) ==
    /\ Start(p)
    /\ \E pair \in Pairs : ~Known(pair) /\ ~Acceptable(pair)
    /\ UNCHANGED <<world, database, command, output, sessions, crashes>>

\* A pair imported before is not imported again.
ImportAgain(p) ==
    /\ Start(p)
    /\ \E pair \in Pairs : Known(pair)
    /\ Go(p, "fit", TRUE)
    /\ UNCHANGED <<world, database, output, sessions, crashes>>

\* No two imports overlap: the code reads the cursors before its transaction.
Import(p) ==
    /\ Start(p)
    /\ \E pair \in Pairs :
        /\ ~Known(pair) /\ Acceptable(pair)
        /\ imports' = Append(imports, pair)
        /\ plays' = plays \cup NewPlays(pair)
        /\ state' = Newer(state, pair.score)
        /\ cursor' = Newer(cursor, pair.log)
    /\ Go(p, "fit", FALSE)
    /\ UNCHANGED <<world, models, output, sessions, crashes>>

\* `menu`.
StartMenu(p) ==
    /\ Start(p) /\ Go(p, "menu", FALSE)
    /\ UNCHANGED <<world, database, output, sessions, crashes>>

Step(p, at) == command' = [command EXCEPT ![p].at = at]

(*--------------------------------- the model -----------------------------*)

\* fit_observations: too few results; the gate, a matter of the data, is not
\* passed; nothing new to learn from; or a new version.
Fit(p) ==
    /\ command[p].at = "fit"
    /\ LET n == Cardinality(plays)
           unchanged == models # <<>> /\ models[Len(models)] = n
       IN  \/ Step(p, "menu")
           \/ /\ n >= MinResults /\ ~unchanged
              /\ command' = [command EXCEPT ![p] =
                    [at |-> "save model", made |-> @.made, again |-> @.again,
                     version |-> Len(models) + 1, trained |-> n]]
    /\ UNCHANGED <<world, database, output, sessions, starts, crashes>>

\* (target, version) is the key: of two fits from the same version one fails.
SaveModel(p) ==
    /\ command[p].at = "save model"
    /\ IF command[p].version > Len(models)
       THEN /\ models' = Append(models, command[p].trained)
            /\ command' = [command EXCEPT ![p] =
                              [at |-> "menu", made |-> @.made, again |-> @.again]]
       ELSE UNCHANGED models /\ command' = [command EXCEPT ![p] = Idle]
    /\ UNCHANGED <<world, imports, state, cursor, plays, output, sessions, starts, crashes>>

(*--------------------------------- the menu ------------------------------*)

\* load_input and build_session; without an import there is no menu.
BuildSession(p) ==
    /\ command[p].at = "menu"
    /\ command' = IF imports = <<>> THEN [command EXCEPT ![p] = Idle]
                  ELSE [command EXCEPT ![p] =
                    [at |-> "export", again |-> @.again,
                     session |-> [import |-> Len(imports), model |-> Len(models),
                                  made |-> @.made]]]
    /\ UNCHANGED <<world, database, output, sessions, starts, crashes>>

Hash(s) == [import |-> s.import, model |-> s.model]
Revision(pointer) == IF pointer = None THEN 0 ELSE pointer.revision

\* write_export: the next revision after latest.json.
ReadPointer(p) ==
    /\ command[p].at = "export"
    /\ command' = [command EXCEPT ![p] =
            [at |-> "directory", again |-> @.again, session |-> @.session,
             revision |-> Revision(view[Latest]) + 1]]
    /\ UNCHANGED <<world, database, output, sessions, starts, crashes>>

Directory(p) == [revision |-> command[p].revision, hash |-> Hash(command[p].session),
                 session |-> command[p].session]
Exists(d) == \E r \in revisions : r.revision = d.revision /\ r.hash = d.hash

\* Mutant: the directory of a revision is written over.
WriteDirectoryOver(p) ==
    /\ command[p].at = "directory"
    /\ revisions' = {r \in revisions : r.revision # command[p].revision
                                       \/ r.hash # Hash(command[p].session)} \cup {Directory(p)}
    /\ Step(p, "publish")
    /\ UNCHANGED <<world, database, view, temporary, sessions, starts, crashes>>

\* Mutant: a conflict is taken for a revision already written.
WriteDirectoryTolerant(p) ==
    /\ command[p].at = "directory"
    /\ Step(p, "publish")
    /\ revisions' = IF Exists(Directory(p)) THEN revisions ELSE revisions \cup {Directory(p)}
    /\ UNCHANGED <<world, database, view, temporary, sessions, starts, crashes>>

\* _write_revision_directory renames a complete directory into its place.  In
\* one that exists, and the manifest of which says when another command made
\* it, nothing can be changed: RevisionConflictError.
WriteDirectory(p) ==
    /\ command[p].at = "directory"
    /\ IF Exists(Directory(p))
       THEN Step(p, "conflict") /\ UNCHANGED revisions
       ELSE Step(p, "publish") /\ revisions' = revisions \cup {Directory(p)}
    /\ UNCHANGED <<world, database, view, temporary, sessions, starts, crashes>>

\* Only a revision above latest.json is copied to the files that are served.
Publish(p) ==
    /\ command[p].at = "publish"
    /\ command' = IF command[p].revision > Revision(view[Latest])
                  THEN [command EXCEPT ![p] =
                    [at |-> "write", again |-> @.again, session |-> @.session,
                     revision |-> @.revision, file |-> 1]]
                  ELSE [command EXCEPT ![p] = [at |-> "persist", session |-> @.session]]
    /\ UNCHANGED <<world, database, output, sessions, starts, crashes>>

Content(p) == [revision |-> command[p].revision, hash |-> Hash(command[p].session),
               made |-> command[p].session.made]

\* _atomic_json: the file is written beside its place ...
WriteFile(p) ==
    /\ command[p].at = "write"
    /\ temporary' = [temporary EXCEPT ![Files[command[p].file]] = Content(p)]
    /\ Step(p, "rename")
    /\ UNCHANGED <<world, database, revisions, view, sessions, starts, crashes>>

\* ... and renamed, unless the other command has just renamed it.
RenameFile(p) ==
    LET f == Files[command[p].file]
    IN  /\ command[p].at = "rename"
        /\ IF temporary[f] = None
           THEN UNCHANGED view /\ command' = [command EXCEPT ![p] = Idle]
           ELSE /\ view' = [view EXCEPT ![f] = temporary[f]]
                /\ command' = IF command[p].file < Len(Files)
                              THEN [command EXCEPT ![p].at = "write", ![p].file = @ + 1]
                              ELSE [command EXCEPT ![p] = [at |-> "persist", session |-> @.session]]
        /\ temporary' = [temporary EXCEPT ![f] = None]
        /\ UNCHANGED <<world, database, revisions, sessions, starts, crashes>>

\* _persist_session, after the export.
PersistSession(p) ==
    /\ command[p].at = "persist"
    /\ sessions' = sessions \cup {command[p].session}
    /\ command' = [command EXCEPT ![p] = Idle]
    /\ UNCHANGED <<world, database, output, starts, crashes>>

\* Mutant: the session is saved though the export failed.
FailedSaves(p) ==
    /\ command[p].at = "conflict"
    /\ sessions' = sessions \cup {command[p].session}
    /\ command' = [command EXCEPT ![p] = Idle]
    /\ UNCHANGED <<world, database, output, starts, crashes>>

Failed(p) ==
    /\ command[p].at = "conflict"
    /\ command' = [command EXCEPT ![p] = Idle]
    /\ UNCHANGED <<world, database, output, sessions, starts, crashes>>

\* The process dies; what it has not committed or renamed is gone.
Crash(p) ==
    /\ command[p] # Idle /\ crashes < MaxCrashes
    /\ crashes' = crashes + 1
    /\ command' = [command EXCEPT ![p] = Idle]
    /\ UNCHANGED <<world, database, output, sessions, starts>>

Next ==
    \/ \E c \in Charts : PlayChart(c)
    \/ \E p \in Commands :
        \/ Refuse(p) \/ ImportAgain(p) \/ Import(p) \/ StartMenu(p) \/ Fit(p)
        \/ SaveModel(p) \/ BuildSession(p) \/ ReadPointer(p) \/ WriteDirectory(p) \/ Publish(p)
        \/ WriteFile(p) \/ RenameFile(p) \/ PersistSession(p) \/ Failed(p) \/ Crash(p)

Spec == Init /\ [][Next]_vars

(*------------------------------- properties ------------------------------*)

Sessions == [import : Nat \ {0}, model : Nat, made : 1..MaxStarts]

TypeOK ==
    /\ \A c \in Charts : state[c] \in Nat /\ cursor[c] \in Nat
    /\ \A r \in plays : r.chart \in Charts /\ r.count \in Nat /\ r.lost \in Nat
    /\ models \in Seq(Nat)
    /\ sessions \subseteq Sessions
    /\ \A r \in revisions : r.revision \in Nat \ {0} /\ r.session \in Sessions
    /\ starts \in 0..MaxStarts /\ crashes \in 0..MaxCrashes

Events(rows) == MapThenSumSet(LAMBDA r : 1 + r.lost, rows)

\* Every play that the submitted scoredatalog.db counted after the first
\* import is one row of plays or one of its lost events, once: whatever pairs
\* are submitted again, refused, or imported by commands that die.
PlaysAccounted ==
    imports # <<>> =>
        \A c \in Charts :
            Events({r \in plays : r.chart = c}) = cursor[c] - imports[1].log[c]

\* score_state and the cursors are those of the last pair imported: a pair
\* that is refused halfway leaves nothing of itself.
StateOfLastImport ==
    imports # <<>> =>
        LET last == imports[Len(imports)]
        IN  \A c \in Charts :
                /\ last.score[c] # NoRow => state[c] = last.score[c]
                /\ last.log[c] # NoRow => cursor[c] = last.log[c]

\* What was published as a revision is never changed or removed.
RevisionsImmutable == [][revisions \subseteq revisions']_vars

\* latest.json, and every file served beside it, is from a complete revision,
\* whichever commands overlap or die.
ViewFromRevisions ==
    \A f \in DOMAIN view :
        view[f] # None =>
            \E r \in revisions : /\ r.revision = view[f].revision /\ r.hash = view[f].hash
                                 /\ r.session.made = view[f].made

\* A session in assistant.db, which the experiment takes charts from, is one
\* that was exported.
SavedWasExported == \A s \in sessions : \E r \in revisions : r.session = s

\* README.md: running the update again with the same pair is a no-op.  It is
\* not when the earlier update died before latest.json was replaced.
RerunIsNoOp == \A p \in Commands : command[p].at = "conflict" => ~command[p].again
=============================================================================
