----------------------------- MODULE Collector -----------------------------
(***************************************************************************)
(* The collector daemon: collect/poller.py over collect/source.py,         *)
(* collect/normalize.py, collect/replay.py, collect/backfill.py and the    *)
(* plays, chart_cursor, collector_state, replay_metadata and               *)
(* replay_scan_state tables of db/store.py.                                *)
(*                                                                         *)
(* beatoraja writes scoredatalog.db (the last play of each chart),         *)
(* score.db (its best) and replay files at any time.  The daemon signs     *)
(* both databases, copies them one after the other, signs them again and   *)
(* commits what it read; replays are listed, then read and committed.      *)
(*                                                                         *)
(* A stat signature is only ever compared with a later one of the same     *)
(* file, so it is modelled by what happened to the file since it was       *)
(* taken: nothing, a write, or its replacement by another file.            *)
(***************************************************************************)
EXTENDS Integers, FiniteSets, Sequences, FiniteSetsExt

CONSTANTS
    Charts,          \* (sha256, mode) keys
    Kinds,           \* gauges a replay can tell
    SlotCount,       \* replay files, in the order of their paths
    ReplayLimit,     \* MAX_REPLAY_FILES, replays read in one scan
    MaxRetries,      \* max_retries, reads tried in one tick
    Tolerance,       \* REPLAY_MATCH_TOLERANCE_SECONDS
    MaxCount,        \* bound: plays of a chart
    MaxTime,         \* bound: the clock
    MaxWrites,       \* bound: writes of the game
    MaxRestores,     \* bound: times the game's database is replaced
    MaxFailures,     \* bound: crashes and failing statements
    Faults           \* which failures happen, and which rarer uses

AllFaults == {"crash", "busy", "correct", "restore", "partial", "backfill"}

ASSUME CollectorAssumption ==
    /\ Charts # {} /\ Kinds # {}
    /\ \A n \in {SlotCount, Tolerance, MaxCount, MaxTime, MaxWrites,
                 MaxRestores, MaxFailures} : n \in Nat
    /\ ReplayLimit \in Nat \ {0} /\ MaxRetries \in Nat \ {0}
    /\ Faults \subseteq AllFaults

Slots == 1..SlotCount
Counts == 1..MaxCount
Times == 0..MaxTime
Generations == 0..(MaxRestores + 1)

VARIABLES
    now,         \* the clock
    log,         \* scoredatalog.db: the last play of each chart
    best,        \* score.db: the play that made the best score of each chart
    replay,      \* the replay directory
    written,     \* writes of the game so far
    restores,    \* times scoredatalog.db was replaced or went back
    plays,       \* plays, a function of (generation, chart, playcount)
    cursor,      \* chart_cursor
    generation,  \* collector_state.source_generation
    stored,      \* collector_state: the signature and last_error
    history,     \* replay_metadata in the order of its ids
    seen,        \* replay_scan_state
    memory,      \* Poller._last_signature
    daemon,      \* the running tick
    failures

gameVars == <<now, log, best, replay, written, restores>>
scoreVars == <<plays, cursor, generation, stored>>
replayVars == <<history, seen>>
vars == <<gameVars, scoreVars, replayVars, memory, daemon, failures>>

NoRow == [count |-> 0, version |-> 0, at |-> 0]
Row == [count : 0..MaxCount, version : 0..1, at : Times]
NoFile == [chart |-> "none", at |-> 0, kind |-> "none", serial |-> 0, whole |-> FALSE]
File == [chart : Charts \cup {"none"}, at : Times, kind : Kinds \cup {"none"},
         serial : 0..MaxWrites, whole : BOOLEAN]
NoPlay == <<0, "none", 0>>
PlayId == Generations \X Charts \X Counts
Play == [version : 0..1, at : Times, best : 0..MaxCount, lost : 0..MaxCount,
         gauge : Kinds \cup {"none"}]

NoRows == [c \in Charts |-> NoRow]
NoBest == [c \in Charts |-> 0]
NoFiles == [s \in Slots |-> NoFile]
Waiting == [stage |-> "wait", attempt |-> 0, rows |-> NoRows, best |-> NoBest,
            moved |-> "same", touched |-> FALSE, swapped |-> FALSE,
            force |-> FALSE, listed |-> NoFiles]

TypeOK ==
    /\ now \in Times /\ written \in 0..MaxWrites
    /\ restores \in 0..MaxRestores /\ failures \in 0..MaxFailures
    /\ log \in [Charts -> Row] /\ best \in [Charts -> 0..MaxCount]
    /\ replay \in [Slots -> File] /\ seen \in [Slots -> File]
    /\ DOMAIN plays \subseteq PlayId /\ \A p \in DOMAIN plays : plays[p] \in Play
    /\ cursor \in [Generations \X Charts -> Row]
    /\ generation \in Generations
    /\ stored \in {"none", "same", "changed", "error"}
    /\ \A i \in DOMAIN history : history[i] \in
         [slot : Slots, file : File, play : PlayId \cup {NoPlay},
          status : {"matched", "unmatched", "ambiguous"}]
    /\ memory \in {"none", "same", "changed", "replaced"}
    /\ daemon \in [stage : {"wait", "retry", "score", "commit", "list", "scan"},
                   attempt : 0..MaxRetries, rows : [Charts -> Row],
                   best : [Charts -> 0..MaxCount],
                   moved : {"same", "changed", "replaced"},
                   touched : BOOLEAN, swapped : BOOLEAN, force : BOOLEAN,
                   listed : [Slots -> File]]

Init ==
    /\ now = 0 /\ written = 0 /\ restores = 0 /\ failures = 0
    /\ log = NoRows /\ best = NoBest
    /\ replay = NoFiles /\ seen = NoFiles
    /\ plays = << >>
    /\ cursor = [x \in Generations \X Charts |-> NoRow]
    /\ generation = 0 /\ stored = "none"
    /\ history = << >>
    /\ memory = "none" /\ daemon = Waiting

-----------------------------------------------------------------------------
(* The game.                                                               *)

\* What a write of scoredatalog.db does to the signatures taken before it.
Later(sign, write) ==
    CASE sign = "none" -> "none"
      [] sign = "replaced" -> "replaced"
      [] OTHER -> write

Signed == daemon.stage \in {"score", "commit"}

LogWritten(write) ==
    /\ memory' = Later(memory, write)
    /\ stored' = IF stored = "same" THEN "changed" ELSE stored
    /\ daemon' = IF Signed THEN [daemon EXCEPT !.moved = Later(@, write)] ELSE daemon

Write ==
    /\ written < MaxWrites
    /\ written' = written + 1

Tick ==
    /\ now < MaxTime
    /\ now' = now + 1
    /\ UNCHANGED <<log, best, replay, written, restores, scoreVars, replayVars,
                   memory, daemon, failures>>

\* A play overwrites the row of its chart; the best follows in score.db.
PlayChart(c) ==
    /\ Write
    /\ log[c].count < MaxCount
    /\ log' = [log EXCEPT ![c] = [count |-> @.count + 1, version |-> 0, at |-> now]]
    /\ LogWritten("changed")
    /\ UNCHANGED <<now, best, replay, restores, plays, cursor,
                   generation, replayVars, failures>>

WriteBest(c) ==
    /\ Write
    /\ best[c] < log[c].count
    /\ best' = [best EXCEPT ![c] = log[c].count]
    /\ daemon' = IF Signed THEN [daemon EXCEPT !.touched = TRUE] ELSE daemon
    /\ UNCHANGED <<now, log, replay, restores, scoreVars, replayVars,
                   memory, failures>>

\* The same play is written again with other values.
CorrectPlay(c) ==
    /\ Write
    /\ "correct" \in Faults
    /\ log[c].count > 0 /\ log[c].version = 0
    /\ log' = [log EXCEPT ![c].version = 1]
    /\ LogWritten("changed")
    /\ UNCHANGED <<now, best, replay, restores, plays, cursor,
                   generation, replayVars, failures>>

\* A replay of a play that has just ended; a file can be seen half written.
WriteReplay(s, c, kind, whole) ==
    /\ Write
    /\ whole \/ "partial" \in Faults
    /\ replay' = [replay EXCEPT ![s] = [chart |-> c, at |-> now, kind |-> kind,
                                        serial |-> written + 1, whole |-> whole]]
    /\ UNCHANGED <<now, log, best, restores, scoreVars, replayVars, memory,
                   daemon, failures>>

FinishReplay(s) ==
    /\ Write
    /\ replay[s].serial > 0 /\ ~replay[s].whole
    /\ replay' = [replay EXCEPT ![s].whole = TRUE]
    /\ UNCHANGED <<now, log, best, restores, scoreVars, replayVars,
                   memory, daemon, failures>>

\* The player puts back an old copy of both databases, in a new file or in the
\* old one.  A row the daemon saw is as it was then.
OlderRow(c, n) ==
    LET p == <<generation, c, n>>
    IN IF p \in DOMAIN plays
       THEN [count |-> n, version |-> plays[p].version, at |-> plays[p].at]
       ELSE [count |-> n, version |-> 0, at |-> 0]
Restore(older, write) ==
    /\ Write
    /\ "restore" \in Faults
    /\ restores < MaxRestores
    /\ \A c \in Charts : older[c] <= log[c].count
    /\ \E c \in Charts : older[c] < log[c].count
    /\ log' = [c \in Charts |->
                 IF older[c] = log[c].count THEN log[c] ELSE OlderRow(c, older[c])]
    /\ best' = [c \in Charts |-> IF best[c] > older[c] THEN older[c] ELSE best[c]]
    /\ restores' = restores + 1
    /\ LogWritten(write)
    /\ UNCHANGED <<now, replay, plays, cursor, generation, replayVars,
                   failures>>

Game ==
    \/ Tick
    \/ \E c \in Charts : PlayChart(c) \/ WriteBest(c) \/ CorrectPlay(c)
    \/ \E s \in Slots, c \in Charts, k \in Kinds, whole \in BOOLEAN :
         WriteReplay(s, c, k, whole)
    \/ \E s \in Slots : FinishReplay(s)
    \/ \E older \in [Charts -> 0..MaxCount], write \in {"changed", "replaced"} :
         Restore(older, write)

-----------------------------------------------------------------------------
(* assistant.db                                                            *)

\* derive_play: the row next to the aggregate of its chart.
Derived(row, bestPlay, lost) ==
    [version |-> row.version, at |-> row.at, best |-> bestPlay, lost |-> lost,
     gauge |-> "none"]

\* Only a row that is not behind the cursor moves it.
UpsertCursor(old, row) == IF row.count >= old.count THEN row ELSE old

\* backfill.run records the rows it finds in the generation the daemon starts
\* from, without a lost count; a collector_state that exists is left alone.  The
\* daemon does not run: its process is as one that has not begun to.
Backfill ==
    /\ daemon = Waiting /\ memory = "none"
    /\ stored = "none" \/ "backfill" \in Faults
    /\ LET rows == {c \in Charts : log[c].count > 0}
           ids == {<<0, c, log[c].count>> : c \in rows}
       IN /\ rows # {}
          /\ plays' = [p \in DOMAIN plays \cup ids |->
                         IF p \in DOMAIN plays THEN plays[p]
                         ELSE Derived(log[p[2]], best[p[2]], 0)]
          /\ cursor' = [x \in Generations \X Charts |->
                          IF x[1] = 0 /\ x[2] \in rows
                          THEN UpsertCursor(cursor[x], log[x[2]]) ELSE cursor[x]]
    /\ stored' = IF stored = "none" THEN "same" ELSE stored
    /\ UNCHANGED <<gameVars, generation, replayVars, memory, daemon, failures>>

-----------------------------------------------------------------------------
(* The daemon.                                                             *)

\* tick: an unchanged scoredatalog.db is not read; a fresh process believes
\* the signature that was stored last, if without an error.
Unchanged == memory = "same" \/ (memory = "none" /\ stored = "same")

SkipRead ==
    /\ daemon.stage = "wait" /\ Unchanged
    /\ memory' = "same"
    /\ daemon' = [Waiting EXCEPT !.stage = "scan", !.listed = replay]
    /\ UNCHANGED <<gameVars, scoreVars, replayVars, failures>>

\* _read_consistent_snapshot signs both databases and copies the first; a
\* write between these two only makes it read again.
ReadLog ==
    /\ (daemon.stage = "wait" /\ ~Unchanged) \/ daemon.stage = "retry"
    /\ daemon' = [Waiting EXCEPT !.stage = "score", !.attempt = daemon.attempt + 1,
                                 !.rows = log]
    /\ UNCHANGED <<gameVars, scoreVars, replayVars, memory, failures>>

StableEnough ==                                                \* mutant
    daemon.attempt = MaxRetries \/ (daemon.moved = "same" /\ ~daemon.touched)
Stable == daemon.moved = "same" /\ ~daemon.touched

\* _record_error keeps the generation; its last_error makes a fresh process
\* read again.  The loop of run_daemon tries again after the poll interval.
Fail ==
    /\ stored' = "error"
    /\ daemon' = Waiting

\* Then it copies the second and compares the signatures.
ReadScore ==
    /\ daemon.stage = "score"
    /\ \/ /\ Stable
          /\ daemon' = [daemon EXCEPT !.stage = "commit", !.best = best,
                                      !.swapped = (memory = "replaced")]
          /\ UNCHANGED stored
       \/ /\ ~Stable /\ daemon.attempt < MaxRetries
          /\ daemon' = [Waiting EXCEPT !.stage = "retry", !.attempt = daemon.attempt]
          /\ UNCHANGED stored
       \/ /\ ~Stable /\ daemon.attempt = MaxRetries
          /\ Fail
    /\ UNCHANGED <<gameVars, plays, cursor, generation, replayVars, memory, failures>>

\* What the rows of the read mean against the cursors of the generation.
Rows == {c \in Charts : daemon.rows[c].count > 0}
Known(c) == cursor[<<generation, c>>]
Rollback(c) == daemon.rows[c].count < Known(c).count   \* or the key vanished
NewGeneration == daemon.swapped \/ \E c \in Charts : Rollback(c)
Target == IF NewGeneration THEN generation + 1 ELSE generation
Cursor(c) == IF NewGeneration THEN NoRow ELSE Known(c)
Fresh == {c \in Rows : daemon.rows[c].count > Cursor(c).count}
Corrected == {c \in Rows \ Fresh : daemon.rows[c] # Cursor(c)}
Lost == [c \in Charts |-> IF c \notin Fresh \/ Cursor(c).count = 0 THEN 0
                          ELSE daemon.rows[c].count - Cursor(c).count - 1]
IdBeforeTarget(c) == <<generation, c, daemon.rows[c].count>>   \* mutant
Id(c) == <<Target, c, daemon.rows[c].count>>

\* mutant: nothing is overwritten
InsertPlaysOnce ==
    [p \in DOMAIN plays \cup {Id(c) : c \in Fresh \cup Corrected} |->
        IF p \in DOMAIN plays THEN plays[p]
        ELSE Derived(daemon.rows[p[2]], daemon.best[p[2]], Lost[p[2]])]

\* insert_play ignores a play it has; with update_existing it overwrites every
\* mutable column, and lost_events is not one of them.
InsertPlays ==
    [p \in DOMAIN plays \cup {Id(c) : c \in Fresh \cup Corrected} |->
        CASE p \notin DOMAIN plays ->
               Derived(daemon.rows[p[2]], daemon.best[p[2]], Lost[p[2]])
          [] p \in DOMAIN plays /\ p[2] \in Corrected /\ p = Id(p[2]) ->
               Derived(daemon.rows[p[2]], daemon.best[p[2]], plays[p].lost)
          [] OTHER -> plays[p]]

\* The signature of the read, not one of the moment of the commit, is what the
\* next tick is compared with, in this process or in a fresh one.
RememberNow == memory' = "same" /\ stored' = "same"               \* mutants
RememberStored == /\ stored' = IF daemon.moved = "same" THEN "same" ELSE "changed"
                  /\ memory' = memory
Remember ==
    /\ memory' = daemon.moved
    /\ stored' = IF daemon.moved = "same" THEN "same" ELSE "changed"

\* One transaction for the plays, the cursors and the collector's state.
Commit ==
    /\ daemon.stage = "commit"
    /\ plays' = InsertPlays
    /\ cursor' = [x \in Generations \X Charts |->
                    IF x[1] = Target /\ x[2] \in Fresh \cup Corrected
                    THEN UpsertCursor(cursor[x], daemon.rows[x[2]]) ELSE cursor[x]]
    /\ generation' = Target
    /\ Remember
    /\ daemon' = [Waiting EXCEPT !.stage = "list",
                                 !.force = \E c \in Fresh : Id(c) \notin DOMAIN plays]
    /\ UNCHANGED <<gameVars, replayVars, failures>>

-----------------------------------------------------------------------------
(* Replays: _collect_replays.                                              *)

Listed == {s \in Slots : daemon.listed[s] # NoFile}
Unseen == {s \in Listed : seen[s] = NoFile}
ChangedForgotten == {}                                         \* mutant
Changed == {s \in Listed \ Unseen : seen[s] # daemon.listed[s]}

\* Unseen files come before changed ones; unchanged ones only when forced.
Eligible == IF daemon.force THEN Listed ELSE Unseen \cup Changed
Place(s) == CASE s \in Unseen -> s
              [] s \in Changed -> s + SlotCount
              [] OTHER -> s + 2 * SlotCount
Selected == {s \in Eligible :
               Cardinality({t \in Eligible : Place(t) < Place(s)}) < ReplayLimit}

List ==
    /\ daemon.stage = "list"
    /\ daemon' = [daemon EXCEPT !.stage = "scan", !.listed = replay]
    /\ UNCHANGED <<gameVars, scoreVars, replayVars, memory, failures>>

\* The plays a replay may be of, in any generation.
Matches(file) == {p \in DOMAIN plays : /\ p[2] = file.chart
                                       /\ plays[p].at \in file.at..(file.at + Tolerance)}

Status(file) == CASE Matches(file) = {} -> "unmatched"
                  [] Cardinality(Matches(file)) = 1 -> "matched"
                  [] OTHER -> "ambiguous"
MatchedPlay(file) ==
    IF Status(file) = "matched" THEN CHOOSE p \in Matches(file) : TRUE ELSE NoPlay

\* A replay that was read before is matched anew; it never becomes unmatched.
Rematched(entry) ==
    IF Status(entry.file) = "unmatched" THEN entry
    ELSE [entry EXCEPT !.status = Status(entry.file), !.play = MatchedPlay(entry.file)]

Valid == {s \in Selected : replay[s].whole}
Ingested(s) == \E i \in DOMAIN history :
                  history[i].slot = s /\ history[i].file = replay[s]
NewEntries ==
    LET new == {s \in Valid : ~Ingested(s)}
        Nth(n) == CHOOSE s \in new : Cardinality({t \in new : t < s}) = n - 1
        Entry(s) == [slot |-> s, file |-> replay[s],
                     status |-> Status(replay[s]), play |-> MatchedPlay(replay[s])]
    IN [n \in 1..Cardinality(new) |-> Entry(Nth(n))]

HistoryAfterScan ==
    [i \in DOMAIN history |->
        IF history[i].slot \in Valid /\ history[i].file = replay[history[i].slot]
        THEN Rematched(history[i]) ELSE history[i]] \o NewEntries

\* refresh_play_gauge: the gauge of the latest replay matched with the play.
GaugeOf(entries, p) ==
    LET matched == {i \in DOMAIN entries : entries[i].play = p}
    IN IF matched = {} THEN "none" ELSE entries[Max(matched)].file.kind

RefreshedMatchesOnly ==                                        \* mutant
    {p \in DOMAIN plays : \E i \in DOMAIN HistoryAfterScan :
        /\ HistoryAfterScan[i].play = p
        /\ i \in DOMAIN history => history[i].play # p}

\* Plays that gained or lost a replay in this scan.
Refreshed ==
    {p \in DOMAIN plays : \E i \in DOMAIN HistoryAfterScan :
        LET before == IF i \in DOMAIN history THEN history[i].play ELSE NoPlay
            after == HistoryAfterScan[i].play
        IN before # after /\ p \in {before, after}}

\* A valid file is remembered as it was read, another one as it was listed.
Scan ==
    /\ daemon.stage = "scan"
    /\ history' = HistoryAfterScan
    /\ plays' = [p \in DOMAIN plays |->
                   IF p \in Refreshed
                   THEN [plays[p] EXCEPT !.gauge = GaugeOf(HistoryAfterScan, p)]
                   ELSE plays[p]]
    /\ seen' = [s \in Slots |-> CASE s \in Valid -> replay[s]
                                  [] s \in Selected \ Valid -> daemon.listed[s]
                                  [] s \notin Listed -> NoFile
                                  [] OTHER -> seen[s]]
    /\ daemon' = Waiting
    /\ UNCHANGED <<gameVars, cursor, generation, stored, memory, failures>>

-----------------------------------------------------------------------------
(* Failures.                                                               *)

\* A statement fails and its transaction is rolled back: SQLITE_BUSY, an
\* OSError of a source or of the replay directory.
Busy ==
    /\ "busy" \in Faults
    /\ failures < MaxFailures /\ failures' = failures + 1
    /\ daemon.stage \in {"score", "commit", "list", "scan"}
    /\ Fail
    /\ UNCHANGED <<gameVars, plays, cursor, generation, replayVars, memory>>

Crash ==
    /\ "crash" \in Faults
    /\ failures < MaxFailures /\ failures' = failures + 1
    /\ daemon # Waiting \/ memory # "none"
    /\ daemon' = Waiting
    /\ memory' = "none"
    /\ UNCHANGED <<gameVars, scoreVars, replayVars>>

Poll == SkipRead \/ ReadLog \/ ReadScore \/ Commit \/ List \/ Scan

Next == Game \/ Backfill \/ Poll \/ Busy \/ Crash

\* The daemon polls forever and is started again after a crash.
Spec == Init /\ [][Next]_vars /\ WF_vars(Poll)

-----------------------------------------------------------------------------
(* Properties.                                                             *)

\* A cursor stands at the last play recorded of its chart in its generation
\* and describes it as the plays table does; otherwise the next difference
\* would be taken from something that was never recorded.
CursorTellsLatestPlay ==
    \A g \in Generations, c \in Charts :
        LET row == cursor[<<g, c>>]
            counts == {p[3] : p \in {q \in DOMAIN plays : q[1] = g /\ q[2] = c}}
        IN IF row.count = 0 THEN counts = {}
           ELSE /\ row.count \in counts /\ \A n \in counts : n <= row.count
                /\ plays[<<g, c, row.count>>].version = row.version
                /\ plays[<<g, c, row.count>>].at = row.at

\* The aggregate a play is compared with is not newer than the play: the two
\* files are read together or not at all, although beatoraja keeps writing.
RowAndBestTogether == \A p \in DOMAIN plays : plays[p].best <= p[3]

\* The daemon opens a generation only for a database that was put back, once
\* for each time, however often a tick fails, is retried or starts again.
NoNeedlessGeneration == generation <= restores

\* The plays table is an append-only history, step by step: what was recorded
\* of a database that was replaced later stays as it is and gets no company,
\* and no retry, correction or crash loses or renumbers a play.  Replays only
\* add the gauge, which is not part of the history.
History ==
    INSTANCE PlayHistory
    WITH Charts <- Charts, MaxCount <- MaxCount, MaxGeneration <- MaxRestores + 1,
         generation <- generation,
         recorded <- [p \in DOMAIN plays |->
                         [version |-> plays[p].version, at |-> plays[p].at,
                          best |-> plays[p].best, lost |-> plays[p].lost]]
HistorySpec == History!Spec

\* Of a database never put back, a play that was not corrected shows the gauge
\* of the latest replay matched with it, and none after its replay turned out
\* to be ambiguous.
GaugeOfLatestReplay ==
    \A p \in DOMAIN plays :
        (plays[p].version = 0 /\ restores = 0) => plays[p].gauge = GaugeOf(history, p)

\* Once the game is quiet, the last play of every chart is recorded as the
\* game left it: no write is hidden by a signature taken around a read, a
\* failing statement or a crash.
LastPlaysRecorded ==
    <>[](\A c \in Charts : log[c].count > 0 =>
            /\ <<generation, c, log[c].count>> \in DOMAIN plays
            /\ plays[<<generation, c, log[c].count>>].version = log[c].version
            /\ plays[<<generation, c, log[c].count>>].at = log[c].at)

\* Once the game is quiet, every replay that is left is in the history.
LastReplaysRead ==
    <>[](\A s \in Slots : replay[s].whole => Ingested(s))

\* What the comment in tick says of replays that became visible before their
\* score: they are reconciled when the play has arrived.
ReplaysReconciled ==
    <>[](\A i \in DOMAIN history :
            /\ history[i].file = replay[history[i].slot]
            /\ history[i].status = "unmatched"
            => Matches(history[i].file) = {})
=============================================================================
