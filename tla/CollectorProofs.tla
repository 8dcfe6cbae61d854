-------------------------- MODULE CollectorProofs --------------------------
(***************************************************************************)
(* What Collector guarantees for every number of charts, plays, writes,    *)
(* restores, retries and failures.  The argument: what is committed was    *)
(* read while nothing wrote to scoredatalog.db, so it was its content at   *)
(* one moment; and as long as the daemon has opened a generation for every *)
(* time the database was put back, the database is ahead of its cursors,   *)
(* so that a difference is one of plays and never one of histories.  The   *)
(* gauges follow from what a scan matches anew: the plays it does not      *)
(* refresh keep their latest replay.                                       *)
(***************************************************************************)
EXTENDS Collector, WellFoundedInduction, NaturalsInduction, FiniteSetTheorems, SequenceTheorems,
        TLAPS

USE CollectorAssumption

-----------------------------------------------------------------------------
(* The invariant.                                                          *)

Daemons ==
    [stage : {"wait", "retry", "score", "commit", "list", "scan"},
     attempt : Nat, rows : [Charts -> Row], best : [Charts -> 0..MaxCount],
     moved : {"same", "changed", "replaced"}, touched : BOOLEAN, swapped : BOOLEAN,
     force : BOOLEAN, listed : [Slots -> File]]

\* A recorded play; its gauge is whatever the replays say.
IsPlay(play) ==
    /\ play = [version |-> play.version, at |-> play.at, best |-> play.best,
               lost |-> play.lost, gauge |-> play.gauge]
    /\ play.version \in 0..1 /\ play.at \in Times
    /\ play.best \in 0..MaxCount /\ play.lost \in 0..MaxCount

GameTyped ==
    /\ now \in Times /\ written \in 0..MaxWrites /\ restores \in 0..MaxRestores
    /\ log \in [Charts -> Row] /\ best \in [Charts -> 0..MaxCount]
    /\ replay \in [Slots -> File]

StoreTyped ==
    /\ DOMAIN plays \subseteq PlayId
    /\ \A p \in DOMAIN plays : IsPlay(plays[p])
    /\ cursor \in [Generations \X Charts -> Row]
    /\ generation \in Generations

Types ==
    /\ GameTyped /\ StoreTyped
    /\ stored \in {"none", "same", "changed", "error"}
    /\ memory \in {"none", "same", "changed", "replaced"}
    /\ daemon \in Daemons

\* The best of a chart is of a play that scoredatalog.db has had.
BestBehindLog == \A c \in Charts : best[c] <= log[c].count

\* What is read while nothing writes is the database as it is.
ReadIsLog ==
    /\ daemon.stage = "score" /\ daemon.moved = "same" => daemon.rows = log
    /\ daemon.stage = "commit" => \A c \in Charts : daemon.best[c] <= daemon.rows[c].count

\* While the daemon has opened a generation for every time the database was
\* put back, the database is ahead of the cursors, and of a read as well.
GenerationsOfRestores ==
    /\ generation <= restores
    /\ generation = restores =>
         /\ memory # "replaced"
         /\ \A c \in Charts : cursor[<<generation, c>>].count <= log[c].count
    /\ daemon.stage = "commit" =>
         /\ Target <= restores
         /\ Target = restores =>
              /\ daemon.moved # "replaced"
              /\ \A c \in Charts : daemon.rows[c].count <= log[c].count

\* Nothing is known of a generation that was not opened.
FutureEmpty ==
    \A g \in Generations, c \in Charts :
        g > generation => /\ cursor[<<g, c>>] = NoRow
                          /\ \A n \in Counts : <<g, c, n>> \notin DOMAIN plays

IInv == Types /\ BestBehindLog /\ ReadIsLog /\ GenerationsOfRestores /\ FutureEmpty
        /\ RowAndBestTogether

LEMMA RowTypes ==
    /\ NoRow \in Row /\ NoRow.count = 0
    /\ NoFile \in File
    /\ NoRows \in [Charts -> Row] /\ NoBest \in [Charts -> 0..MaxCount]
    /\ NoFiles \in [Slots -> File]
    /\ Waiting \in Daemons
<1>1. MaxCount \in Nat /\ MaxTime \in Nat /\ MaxWrites \in Nat /\ MaxRetries \in Nat
  OBVIOUS
<1>2. NoRow \in Row /\ NoRow.count = 0
  BY <1>1 DEF NoRow, Row, Times
<1>3. NoFile \in File
  BY <1>1 DEF NoFile, File, Times
<1>4. NoRows \in [Charts -> Row] /\ NoBest \in [Charts -> 0..MaxCount] /\ NoFiles \in [Slots -> File]
  BY <1>1, <1>2, <1>3 DEF NoRows, NoBest, NoFiles
<1>5. Waiting \in Daemons
  BY <1>1, <1>4 DEF Waiting, Daemons
<1> QED
  BY <1>2, <1>3, <1>4, <1>5

LEMMA InitIInv == Init => IInv
<1> SUFFICES ASSUME Init PROVE IInv
  OBVIOUS
<1>1. Types
  <2>1. GameTyped
    BY RowTypes DEF Init, GameTyped, Times
  <2>2. StoreTyped
    BY RowTypes DEF Init, StoreTyped, Generations
  <2> QED
    BY <2>1, <2>2, RowTypes DEF Init, Types
<1>2. BestBehindLog /\ ReadIsLog /\ FutureEmpty /\ RowAndBestTogether
  BY DEF Init, BestBehindLog, ReadIsLog, FutureEmpty, RowAndBestTogether, NoRows, NoRow, NoBest,
         Waiting
<1>3. GenerationsOfRestores
  <2>1. \A c \in Charts : cursor[<<generation, c>>] = NoRow /\ log[c] = NoRow
    BY DEF Init, Generations, NoRows
  <2> QED
    BY <2>1 DEF Init, GenerationsOfRestores, NoRow, Waiting
<1> QED
  BY <1>1, <1>2, <1>3 DEF IInv

-----------------------------------------------------------------------------
(* The game.                                                               *)

LEMMA TargetStays ==
    ASSUME daemon'.rows = daemon.rows, daemon'.swapped = daemon.swapped,
           UNCHANGED <<cursor, generation>>
    PROVE  Target' = Target
BY DEF Target, NewGeneration, Rollback, Known

LEMMA LogWrittenIs ==
    ASSUME Types, NEW write \in {"changed", "replaced"}, LogWritten(write)
    PROVE  /\ memory' \in {"none", "same", "changed", "replaced"}
           /\ stored' \in {"none", "same", "changed", "error"}
           /\ stored' = "none" <=> stored = "none"
           /\ daemon' \in Daemons
           /\ daemon'.stage = daemon.stage /\ daemon'.rows = daemon.rows
           /\ daemon'.best = daemon.best /\ daemon'.swapped = daemon.swapped
           /\ daemon.stage \in {"score", "commit"} => daemon'.moved # "same"
           /\ write = "changed" /\ memory' = "replaced" => memory = "replaced"
           /\ write = "changed" /\ daemon'.moved = "replaced" => daemon.moved = "replaced"
<1>1. daemon \in Daemons /\ daemon.moved \in {"same", "changed", "replaced"}
  BY DEF Types, Daemons
<1>2. PICK later \in {"changed", "replaced"} :
          /\ later = Later(daemon.moved, write)
          /\ write = "changed" /\ later = "replaced" => daemon.moved = "replaced"
  BY <1>1 DEF Later
<1>3. daemon' = IF Signed THEN [daemon EXCEPT !.moved = later] ELSE daemon
  BY <1>2 DEF LogWritten
<1>4. /\ daemon' \in Daemons
      /\ daemon'.stage = daemon.stage /\ daemon'.rows = daemon.rows
      /\ daemon'.best = daemon.best /\ daemon'.swapped = daemon.swapped
      /\ daemon'.moved = IF Signed THEN later ELSE daemon.moved
  BY <1>1, <1>3 DEF Daemons
<1>5. /\ memory' \in {"none", "same", "changed", "replaced"}
      /\ write = "changed" /\ memory' = "replaced" => memory = "replaced"
  BY DEF Types, LogWritten, Later
<1>6. /\ stored' \in {"none", "same", "changed", "error"}
      /\ stored' = "none" <=> stored = "none"
  BY DEF Types, LogWritten
<1> QED
  BY <1>2, <1>4, <1>5, <1>6 DEF Signed

\* A step of the game that leaves scoredatalog.db alone, writes a play, or
\* puts an old copy back.
LEMMA GameKeeps ==
    ASSUME IInv, GameTyped', BestBehindLog',
           UNCHANGED <<plays, cursor, generation>>,
           stored' \in {"none", "same", "changed", "error"},
           memory' \in {"none", "same", "changed", "replaced"},
           daemon' \in Daemons, daemon'.stage = daemon.stage, daemon'.rows = daemon.rows,
           daemon'.best = daemon.best, daemon'.swapped = daemon.swapped,
           \/ log' = log /\ restores' = restores /\ memory' = memory
              /\ daemon'.moved = daemon.moved
           \/ /\ daemon.stage \in {"score", "commit"} => daemon'.moved # "same"
              /\ \/ restores' = restores + 1
                 \/ /\ restores' = restores
                    /\ \A c \in Charts : log'[c].count >= log[c].count
                    /\ memory' = "replaced" => memory = "replaced"
                    /\ daemon'.moved = "replaced" => daemon.moved = "replaced"
    PROVE  IInv'
<1>1. Types' /\ FutureEmpty' /\ RowAndBestTogether'
  BY DEF IInv, Types, StoreTyped, FutureEmpty, RowAndBestTogether
<1>2. ReadIsLog'
  BY DEF IInv, ReadIsLog
<1>3. Target' = Target
  BY TargetStays
<1>4. restores \in Nat /\ generation \in Int /\ Target \in Int
  BY DEF IInv, Types, GameTyped, StoreTyped, Generations, Target
<1>5. \A c \in Charts : log[c].count \in Int /\ log'[c].count \in Int
                        /\ daemon.rows[c].count \in Int /\ cursor[<<generation, c>>].count \in Int
  BY DEF IInv, Types, GameTyped, StoreTyped, Daemons, Row
<1>6. GenerationsOfRestores'
  <2>1. CASE log' = log /\ restores' = restores /\ memory' = memory /\ daemon'.moved = daemon.moved
    BY <1>3, <2>1 DEF IInv, GenerationsOfRestores
  <2>2. CASE restores' = restores + 1
    BY <1>3, <1>4, <2>2 DEF IInv, GenerationsOfRestores
  <2>3. CASE /\ restores' = restores
             /\ \A c \in Charts : log'[c].count >= log[c].count
             /\ memory' = "replaced" => memory = "replaced"
             /\ daemon'.moved = "replaced" => daemon.moved = "replaced"
    <3>1. ASSUME generation = restores
          PROVE  /\ memory' # "replaced"
                 /\ \A c \in Charts : cursor[<<generation, c>>].count <= log'[c].count
      BY <1>5, <2>3, <3>1 DEF IInv, GenerationsOfRestores
    <3>2. ASSUME daemon.stage = "commit"
          PROVE  /\ Target <= restores
                 /\ Target = restores =>
                      /\ daemon'.moved # "replaced"
                      /\ \A c \in Charts : daemon.rows[c].count <= log'[c].count
      <4>1. /\ Target <= restores
            /\ Target = restores =>
                 /\ daemon.moved # "replaced"
                 /\ \A c \in Charts : daemon.rows[c].count <= log[c].count
        BY <3>2 DEF IInv, GenerationsOfRestores
      <4>2. ASSUME Target = restores, NEW c \in Charts
            PROVE  daemon.rows[c].count <= log'[c].count
        <5>1. daemon.rows[c].count <= log[c].count /\ log'[c].count >= log[c].count
          BY <2>3, <4>1, <4>2
        <5>2. /\ daemon.rows[c].count \in Int /\ log[c].count \in Int
              /\ log'[c].count \in Int
          BY <1>5, <4>2
        <5> QED
          BY <5>1, <5>2
      <4> QED
        BY <2>3, <4>1, <4>2
    <3> QED
      BY <1>3, <2>3, <3>1, <3>2 DEF IInv, GenerationsOfRestores
  <2> QED
    BY <2>1, <2>2, <2>3
<1> QED
  BY <1>1, <1>2, <1>6 DEF IInv

LEMMA GameStepKeeps ==
    ASSUME IInv, Game
    PROVE  IInv' /\ (stored' = "none" <=> stored = "none") /\ UNCHANGED <<plays, cursor, generation>>
<1>1. /\ Types /\ GameTyped /\ BestBehindLog /\ daemon \in Daemons
      /\ log \in [Charts -> Row] /\ best \in [Charts -> 0..MaxCount]
      /\ replay \in [Slots -> File] /\ now \in Times /\ written \in 0..MaxWrites
      /\ restores \in 0..MaxRestores
      /\ \A c \in Charts : log[c] \in Row /\ best[c] \in 0..MaxCount
      /\ \A c \in Charts : best[c] <= log[c].count
  BY DEF IInv, Types, GameTyped, BestBehindLog
<1>2. MaxCount \in Nat /\ MaxTime \in Nat /\ MaxWrites \in Nat /\ MaxRestores \in Nat
  OBVIOUS
<1>3. CASE Tick
  <2>1. now' \in Times
    BY <1>1, <1>2, <1>3 DEF Tick, Times
  <2>2. UNCHANGED <<log, best, replay, written, restores, plays, cursor, generation, stored,
                    memory, daemon>>
    BY <1>3 DEF Tick, scoreVars
  <2>3. GameTyped' /\ BestBehindLog'
    BY <1>1, <2>1, <2>2 DEF GameTyped, BestBehindLog
  <2> QED
    BY <1>1, <2>2, <2>3, GameKeeps DEF Types
<1>4. ASSUME NEW c \in Charts, PlayChart(c)
      PROVE  /\ IInv' /\ (stored' = "none" <=> stored = "none")
             /\ UNCHANGED <<plays, cursor, generation>>
  <2>1. PICK row : row = [count |-> log[c].count + 1, version |-> 0, at |-> now]
    OBVIOUS
  <2>2. row \in Row /\ row.count = log[c].count + 1
    BY <1>1, <1>2, <1>4, <2>1 DEF PlayChart, Row
  <2>3. log' = [log EXCEPT ![c] = row] /\ LogWritten("changed")
        /\ UNCHANGED <<now, best, replay, restores, plays, cursor, generation>>
        /\ written' \in 0..MaxWrites
    BY <1>1, <1>2, <1>4, <2>1 DEF PlayChart, Write
  <2>4. log' \in [Charts -> Row] /\ \A d \in Charts : log'[d].count >= log[d].count
    BY <1>1, <2>2, <2>3 DEF Row
  <2>5. GameTyped' /\ BestBehindLog'
    <3>1. \A d \in Charts : log[d].count \in Int /\ log'[d].count \in Int /\ best[d] \in Int
      BY <1>1, <2>4 DEF Row
    <3> QED
      BY <1>1, <2>3, <2>4, <3>1 DEF GameTyped, BestBehindLog
  <2> QED
    BY <1>1, <2>3, <2>4, <2>5, LogWrittenIs, GameKeeps
<1>5. ASSUME NEW c \in Charts, WriteBest(c)
      PROVE  /\ IInv' /\ (stored' = "none" <=> stored = "none")
             /\ UNCHANGED <<plays, cursor, generation>>
  <2>1. /\ best' = [best EXCEPT ![c] = log[c].count]
        /\ UNCHANGED <<now, log, replay, restores, plays, cursor, generation, stored, memory>>
        /\ written' \in 0..MaxWrites
        /\ daemon' = IF Signed THEN [daemon EXCEPT !.touched = TRUE] ELSE daemon
    BY <1>1, <1>2, <1>5 DEF WriteBest, Write, scoreVars
  <2>2. GameTyped' /\ BestBehindLog'
    <3>1. log[c].count \in 0..MaxCount
      BY <1>1 DEF Row
    <3> QED
      BY <1>1, <2>1, <3>1 DEF GameTyped, BestBehindLog
  <2>3. /\ daemon' \in Daemons /\ daemon'.stage = daemon.stage /\ daemon'.rows = daemon.rows
        /\ daemon'.best = daemon.best /\ daemon'.swapped = daemon.swapped
        /\ daemon'.moved = daemon.moved
    BY <1>1, <2>1 DEF Daemons
  <2> QED
    BY <1>1, <2>1, <2>2, <2>3, GameKeeps DEF Types
<1>6. ASSUME NEW c \in Charts, CorrectPlay(c)
      PROVE  /\ IInv' /\ (stored' = "none" <=> stored = "none")
             /\ UNCHANGED <<plays, cursor, generation>>
  <2>1. PICK row : row = [log[c] EXCEPT !.version = 1]
    OBVIOUS
  <2>2. row \in Row /\ row.count = log[c].count
    BY <1>1, <2>1 DEF Row
  <2>3. log' = [log EXCEPT ![c] = row] /\ LogWritten("changed")
        /\ UNCHANGED <<now, best, replay, restores, plays, cursor, generation>>
        /\ written' \in 0..MaxWrites
    BY <1>1, <1>2, <1>6, <2>1 DEF CorrectPlay, Write
  <2>4. log' \in [Charts -> Row] /\ \A d \in Charts : log'[d].count = log[d].count
    BY <1>1, <2>2, <2>3 DEF Row
  <2>5. \A d \in Charts : log[d].count \in Int
    BY <1>1 DEF Row
  <2>6. GameTyped' /\ BestBehindLog'
    BY <1>1, <2>3, <2>4 DEF GameTyped, BestBehindLog
  <2>7. \A d \in Charts : log'[d].count >= log[d].count
    BY <2>4, <2>5
  <2> QED
    BY <1>1, <2>3, <2>6, <2>7, LogWrittenIs, GameKeeps
<1>7. ASSUME NEW s \in Slots, UNCHANGED <<now, log, best, restores, plays, cursor, generation, stored,
                                         memory, daemon>>,
             written' \in 0..MaxWrites, replay' \in [Slots -> File]
      PROVE  /\ IInv' /\ (stored' = "none" <=> stored = "none")
             /\ UNCHANGED <<plays, cursor, generation>>
  <2>1. GameTyped' /\ BestBehindLog'
    BY <1>1, <1>7 DEF GameTyped, BestBehindLog
  <2> QED
    BY <1>1, <1>7, <2>1, GameKeeps DEF Types
<1>8. ASSUME NEW s \in Slots, NEW c \in Charts, NEW k \in Kinds, NEW whole \in BOOLEAN,
             WriteReplay(s, c, k, whole)
      PROVE  /\ IInv' /\ (stored' = "none" <=> stored = "none")
             /\ UNCHANGED <<plays, cursor, generation>>
  <2>1. written + 1 \in 0..MaxWrites
    BY <1>1, <1>2, <1>8 DEF WriteReplay, Write
  <2>2. [chart |-> c, at |-> now, kind |-> k, serial |-> written + 1, whole |-> whole] \in File
    BY <1>1, <2>1 DEF File
  <2>3. replay' \in [Slots -> File] /\ written' \in 0..MaxWrites
    BY <1>1, <1>8, <2>1, <2>2 DEF WriteReplay, Write
  <2> QED
    BY <1>7, <1>8, <2>3 DEF WriteReplay, scoreVars
<1>9. ASSUME NEW s \in Slots, FinishReplay(s)
      PROVE  /\ IInv' /\ (stored' = "none" <=> stored = "none")
             /\ UNCHANGED <<plays, cursor, generation>>
  <2>1. PICK file : file = [replay[s] EXCEPT !.whole = TRUE]
    OBVIOUS
  <2>2. file \in File
    BY <1>1, <2>1 DEF File
  <2>3. replay' = [replay EXCEPT ![s] = file]
    BY <1>9, <2>1 DEF FinishReplay
  <2>4. replay' \in [Slots -> File]
    BY <1>1, <2>2, <2>3
  <2>5. written' \in 0..MaxWrites
    BY <1>1, <1>2, <1>9 DEF FinishReplay, Write
  <2> QED
    BY <1>7, <1>9, <2>4, <2>5 DEF FinishReplay, scoreVars
<1>10. ASSUME NEW older \in [Charts -> 0..MaxCount], NEW write \in {"changed", "replaced"},
              Restore(older, write)
       PROVE  /\ IInv' /\ (stored' = "none" <=> stored = "none")
              /\ UNCHANGED <<plays, cursor, generation>>
  <2>1. /\ LogWritten(write) /\ restores' = restores + 1 /\ restores' \in 0..MaxRestores
        /\ written' \in 0..MaxWrites
        /\ UNCHANGED <<now, replay, plays, cursor, generation>>
    BY <1>1, <1>2, <1>10 DEF Restore, Write
  <2>2. \A c \in Charts : OlderRow(c, older[c]) \in Row /\ OlderRow(c, older[c]).count = older[c]
    <3> SUFFICES ASSUME NEW c \in Charts
                 PROVE  OlderRow(c, older[c]) \in Row /\ OlderRow(c, older[c]).count = older[c]
      OBVIOUS
    <3>1. 0 \in Times
      BY <1>2 DEF Times
    <3>2. CASE <<generation, c, older[c]>> \in DOMAIN plays
      BY <3>2 DEF IInv, Types, StoreTyped, IsPlay, OlderRow, Row
    <3>3. CASE <<generation, c, older[c]>> \notin DOMAIN plays
      BY <3>1, <3>3 DEF OlderRow, Row
    <3> QED
      BY <3>2, <3>3
  <2>3. log' \in [Charts -> Row] /\ \A c \in Charts : log'[c].count = older[c]
    BY <1>1, <1>10, <2>2 DEF Restore
  <2>4. /\ best' \in [Charts -> 0..MaxCount]
        /\ \A c \in Charts : best'[c] <= older[c]
    <3>1. best' = [c \in Charts |-> IF best[c] > older[c] THEN older[c] ELSE best[c]]
      BY <1>10 DEF Restore
    <3> QED
      BY <1>1, <3>1
  <2>5. GameTyped' /\ BestBehindLog'
    BY <1>1, <2>1, <2>3, <2>4 DEF GameTyped, BestBehindLog
  <2> QED
    BY <1>1, <2>1, <2>5, LogWrittenIs, GameKeeps
<1> QED
  BY <1>3, <1>4, <1>5, <1>6, <1>8, <1>9, <1>10 DEF Game

-----------------------------------------------------------------------------
(* The daemon without a commit.                                            *)

\* A step that leaves the files and the recorded plays alone and ends
\* outside of a read.
LEMMA DaemonKeeps ==
    ASSUME IInv, UNCHANGED <<now, log, best, replay, written, restores, plays, cursor, generation>>,
           stored' \in {"none", "same", "changed", "error"},
           memory' \in {"none", "same", memory},
           daemon' \in Daemons, daemon'.stage \notin {"score", "commit"}
    PROVE  IInv'
<1>1. Types' /\ FutureEmpty' /\ RowAndBestTogether' /\ BestBehindLog' /\ ReadIsLog'
  BY DEF IInv, Types, GameTyped, StoreTyped, FutureEmpty, RowAndBestTogether, BestBehindLog, ReadIsLog
<1>2. GenerationsOfRestores'
  BY DEF IInv, GenerationsOfRestores
<1> QED
  BY <1>1, <1>2 DEF IInv

LEMMA SkipReadKeeps == ASSUME IInv, SkipRead PROVE IInv'
<1>1. daemon' = [Waiting EXCEPT !.stage = "scan", !.listed = replay]
  BY DEF SkipRead
<1>2. daemon' \in Daemons /\ daemon'.stage = "scan"
  BY <1>1, RowTypes DEF Daemons, IInv, Types, GameTyped
<1> QED
  BY <1>2, DaemonKeeps DEF SkipRead, gameVars, scoreVars, IInv, Types

LEMMA FailKeeps ==
    ASSUME IInv, Fail,
           UNCHANGED <<now, log, best, replay, written, restores, plays, cursor, generation, memory>>
    PROVE  IInv'
<1>1. Waiting \in Daemons /\ Waiting.stage = "wait"
  BY RowTypes DEF Waiting
<1> QED
  BY <1>1, DaemonKeeps DEF Fail

LEMMA ReadLogKeeps == ASSUME IInv, ReadLog PROVE IInv'
<1>1. daemon' = [Waiting EXCEPT !.stage = "score", !.attempt = daemon.attempt + 1, !.rows = log]
  BY DEF ReadLog
<1>2. daemon.attempt + 1 \in Nat /\ log \in [Charts -> Row]
  BY DEF IInv, Types, GameTyped, Daemons
<1>3. /\ daemon' \in Daemons /\ daemon'.stage = "score" /\ daemon'.rows = log
  BY <1>1, <1>2, RowTypes DEF Daemons
<1>4. UNCHANGED <<now, log, best, replay, written, restores, plays, cursor, generation, stored, memory>>
  BY DEF ReadLog, gameVars, scoreVars
<1>5. Types' /\ FutureEmpty' /\ RowAndBestTogether' /\ BestBehindLog' /\ ReadIsLog'
  BY <1>3, <1>4 DEF IInv, Types, GameTyped, StoreTyped, FutureEmpty, RowAndBestTogether, BestBehindLog,
                    ReadIsLog
<1>6. GenerationsOfRestores'
  BY <1>3, <1>4 DEF IInv, GenerationsOfRestores
<1> QED
  BY <1>5, <1>6 DEF IInv

LEMMA ReadScoreKeeps == ASSUME IInv, ReadScore PROVE IInv'
<1>1. UNCHANGED <<now, log, best, replay, written, restores, plays, cursor, generation, memory>>
      /\ daemon.stage = "score" /\ daemon \in Daemons
  BY DEF ReadScore, gameVars, IInv, Types
<1>2. CASE /\ Stable
           /\ daemon' = [daemon EXCEPT !.stage = "commit", !.best = best,
                                       !.swapped = (memory = "replaced")]
           /\ UNCHANGED stored
  <2>1. daemon' \in Daemons
    <3>1. best \in [Charts -> 0..MaxCount] /\ (memory = "replaced") \in BOOLEAN
      BY DEF IInv, Types, GameTyped
    <3> QED
      BY <1>1, <1>2, <3>1 DEF Daemons
  <2>2. /\ daemon'.stage = "commit" /\ daemon'.best = best /\ daemon'.rows = log
        /\ daemon'.moved = "same" /\ daemon'.swapped = (memory = "replaced")
    BY <1>1, <1>2 DEF Daemons, Stable, IInv, ReadIsLog
  <2>3. Types' /\ FutureEmpty' /\ RowAndBestTogether' /\ BestBehindLog' /\ ReadIsLog'
    BY <1>1, <1>2, <2>1, <2>2 DEF IInv, Types, GameTyped, StoreTyped, FutureEmpty, RowAndBestTogether,
                                  BestBehindLog, ReadIsLog
  <2>4. restores \in Int /\ generation \in Int
        /\ \A c \in Charts : log[c].count \in Int /\ cursor[<<generation, c>>].count \in Int
    BY DEF IInv, Types, GameTyped, StoreTyped, Generations, Row
  <2>5. generation = restores => ~NewGeneration'
    <3> SUFFICES ASSUME generation = restores PROVE ~NewGeneration'
      OBVIOUS
    <3>1. memory # "replaced" /\ \A c \in Charts : cursor[<<generation, c>>].count <= log[c].count
      BY DEF IInv, GenerationsOfRestores
    <3>2. \A c \in Charts : ~Rollback(c)'
      BY <1>1, <2>2, <2>4, <3>1 DEF Rollback, Known
    <3> QED
      BY <2>2, <3>1, <3>2 DEF NewGeneration
  <2>6. Target' <= restores
    BY <1>1, <2>4, <2>5 DEF Target, IInv, GenerationsOfRestores
  <2>7. GenerationsOfRestores'
    <3>1. \A c \in Charts : daemon'.rows[c].count <= log'[c].count
      <4>1. daemon'.rows = log /\ log' = log
        BY <1>1, <2>2
      <4>2. \A c \in Charts : log[c].count <= log[c].count
        <5> TAKE c \in Charts
        <5>1. log[c].count \in Int
          BY <2>4
        <5> QED
          BY <5>1
      <4> QED
        BY <4>1, <4>2
    <3>2. daemon'.moved # "replaced"
      BY <2>2
    <3> QED
      BY <1>1, <2>6, <3>1, <3>2 DEF IInv, GenerationsOfRestores
  <2> QED
    BY <2>3, <2>7 DEF IInv
<1>3. CASE /\ daemon' = [Waiting EXCEPT !.stage = "retry", !.attempt = daemon.attempt]
           /\ UNCHANGED stored
  <2>1. daemon' \in Daemons /\ daemon'.stage = "retry"
    BY <1>1, <1>3, RowTypes DEF Daemons
  <2> QED
    BY <1>1, <1>3, <2>1, DaemonKeeps DEF IInv, Types
<1>4. CASE Fail
  BY <1>1, <1>4, FailKeeps
<1> QED
  BY <1>2, <1>3, <1>4 DEF ReadScore

LEMMA ListKeeps == ASSUME IInv, List PROVE IInv'
<1>1. daemon' = [daemon EXCEPT !.stage = "scan", !.listed = replay] /\ daemon \in Daemons
  BY DEF List, IInv, Types
<1>2. daemon' \in Daemons /\ daemon'.stage = "scan"
  BY <1>1 DEF Daemons, IInv, Types, GameTyped
<1> QED
  BY <1>2, DaemonKeeps DEF List, gameVars, scoreVars, IInv, Types

LEMMA CrashKeeps == ASSUME IInv, Crash PROVE IInv'
<1>1. Waiting \in Daemons /\ Waiting.stage = "wait"
  BY RowTypes DEF Waiting
<1> QED
  BY <1>1, DaemonKeeps DEF Crash, gameVars, scoreVars, IInv, Types

-----------------------------------------------------------------------------
(* What is recorded.                                                       *)

LEMMA DerivedIsPlay ==
    ASSUME NEW row \in Row, NEW b \in 0..MaxCount, NEW l \in 0..MaxCount
    PROVE  /\ IsPlay(Derived(row, b, l))
           /\ Derived(row, b, l).version = row.version /\ Derived(row, b, l).at = row.at
           /\ Derived(row, b, l).best = b /\ Derived(row, b, l).lost = l
BY DEF Derived, IsPlay, Row

LEMMA UpsertIsRow ==
    ASSUME NEW old \in Row, NEW row \in Row
    PROVE  /\ UpsertCursor(old, row) \in {old, row}
           /\ UpsertCursor(old, row).count >= old.count
           /\ UpsertCursor(old, row).count >= row.count
           /\ row.count >= old.count => UpsertCursor(old, row) = row
BY DEF UpsertCursor, Row

\* The replays change nothing but gauges.
LEMMA ScanIs ==
    ASSUME StoreTyped, Scan
    PROVE  /\ DOMAIN plays' = DOMAIN plays
           /\ \A p \in DOMAIN plays :
                 /\ IsPlay(plays'[p])
                 /\ plays'[p].version = plays[p].version /\ plays'[p].at = plays[p].at
                 /\ plays'[p].best = plays[p].best /\ plays'[p].lost = plays[p].lost
<1>1. /\ DOMAIN plays' = DOMAIN plays
      /\ \A p \in DOMAIN plays :
            plays'[p] = IF p \in Refreshed
                        THEN [plays[p] EXCEPT !.gauge = GaugeOf(HistoryAfterScan, p)]
                        ELSE plays[p]
  BY DEF Scan
<1>2. ASSUME NEW play, IsPlay(play), NEW gauge
      PROVE  /\ IsPlay([play EXCEPT !.gauge = gauge])
             /\ [play EXCEPT !.gauge = gauge].version = play.version
             /\ [play EXCEPT !.gauge = gauge].at = play.at
             /\ [play EXCEPT !.gauge = gauge].best = play.best
             /\ [play EXCEPT !.gauge = gauge].lost = play.lost
  <2>1. [play EXCEPT !.gauge = gauge] =
            [version |-> play.version, at |-> play.at, best |-> play.best, lost |-> play.lost,
             gauge |-> gauge]
    BY <1>2 DEF IsPlay
  <2> QED
    BY <1>2, <2>1 DEF IsPlay
<1>3. ASSUME NEW p \in DOMAIN plays
      PROVE  /\ IsPlay(plays'[p])
             /\ plays'[p].version = plays[p].version /\ plays'[p].at = plays[p].at
             /\ plays'[p].best = plays[p].best /\ plays'[p].lost = plays[p].lost
  <2>1. IsPlay(plays[p])
    BY DEF StoreTyped
  <2>2. CASE p \in Refreshed
    <3>1. plays'[p] = [plays[p] EXCEPT !.gauge = GaugeOf(HistoryAfterScan, p)]
      BY <1>1, <2>2
    <3> QED
      BY <1>2, <2>1, <3>1
  <2>3. CASE p \notin Refreshed
    BY <1>1, <2>1, <2>3
  <2> QED
    BY <2>2, <2>3
<1> QED
  BY <1>1, <1>3

LEMMA ScanKeeps == ASSUME IInv, Scan PROVE IInv'
<1>1. /\ daemon' = Waiting
      /\ UNCHANGED <<now, log, best, replay, written, restores, cursor, generation, stored, memory>>
  BY DEF Scan, gameVars
<1>2. Waiting \in Daemons /\ Waiting.stage = "wait"
  BY RowTypes DEF Waiting
<1>3. StoreTyped' /\ RowAndBestTogether' /\ FutureEmpty'
  BY <1>1, ScanIs DEF IInv, Types, StoreTyped, RowAndBestTogether, FutureEmpty
<1>4. Types' /\ BestBehindLog' /\ ReadIsLog'
  BY <1>1, <1>2, <1>3 DEF IInv, Types, GameTyped, BestBehindLog, ReadIsLog
<1>5. GenerationsOfRestores'
  BY <1>1, <1>2 DEF IInv, GenerationsOfRestores
<1> QED
  BY <1>3, <1>4, <1>5 DEF IInv

\* What a commit inserts: a fresh play after the cursor of its chart, or the
\* last play of its chart anew.
LEMMA CommitIs ==
    ASSUME IInv, Commit
    PROVE  /\ Target \in Generations /\ generation' = Target
           /\ Fresh \cup Corrected \subseteq Charts
           /\ \A c \in Charts : daemon.rows[c] \in Row /\ Cursor(c) \in Row
           /\ \A c \in Fresh : /\ daemon.rows[c].count \in Counts
                               /\ daemon.rows[c].count > Cursor(c).count
                               /\ Lost[c] \in 0..MaxCount
           /\ \A c \in Corrected : /\ ~NewGeneration /\ Target = generation
                                   /\ daemon.rows[c].count \in Counts
                                   /\ daemon.rows[c].count = Cursor(c).count
           /\ \A c \in Charts : Cursor(c) = cursor[<<Target, c>>]
<1>1. /\ daemon.stage = "commit" /\ daemon \in Daemons /\ generation' = Target
      /\ generation \in Generations /\ restores \in 0..MaxRestores
      /\ Target <= restores
  BY DEF Commit, IInv, Types, GameTyped, StoreTyped, GenerationsOfRestores
<1>2. Target \in Generations /\ Target \in {generation, generation + 1}
  BY <1>1 DEF Target, Generations
<1>3. \A c \in Charts : daemon.rows[c] \in Row /\ Cursor(c) \in Row /\ Known(c) \in Row
  BY <1>1, RowTypes DEF Cursor, Known, Daemons, IInv, Types, StoreTyped
<1>4. \A c \in Charts : Cursor(c) = cursor[<<Target, c>>]
  <2>1. CASE NewGeneration
    <3>1. Target = generation + 1 /\ Target > generation
      BY <1>1, <2>1 DEF Target, Generations
    <3> QED
      BY <1>2, <2>1, <3>1 DEF Cursor, IInv, FutureEmpty
  <2>2. CASE ~NewGeneration
    BY <2>2 DEF Target, Cursor, Known
  <2> QED
    BY <2>1, <2>2
<1>5. Fresh \cup Corrected \subseteq Charts
  BY DEF Fresh, Corrected, Rows
<1>6. ASSUME NEW c \in Fresh
      PROVE  /\ daemon.rows[c].count \in Counts /\ daemon.rows[c].count > Cursor(c).count
             /\ Lost[c] \in 0..MaxCount
  <2>1. c \in Charts /\ daemon.rows[c].count > 0 /\ daemon.rows[c].count > Cursor(c).count
    BY DEF Fresh, Rows
  <2>2. daemon.rows[c].count \in 0..MaxCount /\ Cursor(c).count \in 0..MaxCount
    BY <1>3, <2>1 DEF Row
  <2> QED
    BY <2>1, <2>2 DEF Lost, Counts
<1>7. ASSUME NEW c \in Corrected
      PROVE  /\ ~NewGeneration /\ Target = generation
             /\ daemon.rows[c].count \in Counts
             /\ daemon.rows[c].count = Cursor(c).count
  <2>1. c \in Charts /\ daemon.rows[c].count > 0 /\ ~(daemon.rows[c].count > Cursor(c).count)
    BY DEF Corrected, Fresh, Rows
  <2>2. /\ daemon.rows[c].count \in 0..MaxCount /\ Cursor(c).count \in 0..MaxCount
        /\ Known(c).count \in 0..MaxCount
    BY <1>3, <2>1 DEF Row
  <2>3. ~NewGeneration
    BY <2>1, <2>2, RowTypes DEF Cursor
  <2>4. Cursor(c) = Known(c) /\ ~(daemon.rows[c].count < Known(c).count)
    BY <2>1, <2>3 DEF Cursor, NewGeneration, Rollback
  <2> QED
    BY <2>1, <2>2, <2>3, <2>4 DEF Target, Counts
<1> QED
  BY <1>1, <1>2, <1>3, <1>4, <1>5, <1>6, <1>7

LEMMA InsertedIs ==
    ASSUME IInv, Commit
    PROVE  /\ DOMAIN plays' = DOMAIN plays \cup {Id(c) : c \in Fresh \cup Corrected}
           /\ \A p \in DOMAIN plays : plays'[p] = plays[p] \/ \E c \in Corrected : p = Id(c)
           /\ \A c \in Fresh : Id(c) \notin DOMAIN plays =>
                 plays'[Id(c)] = Derived(daemon.rows[c], daemon.best[c], Lost[c])
           /\ \A c \in Corrected : Id(c) \in DOMAIN plays =>
                 plays'[Id(c)] = Derived(daemon.rows[c], daemon.best[c], plays[Id(c)].lost)
           /\ \A c \in Corrected : Id(c) \notin DOMAIN plays =>
                 plays'[Id(c)] = Derived(daemon.rows[c], daemon.best[c], 0)
<1>1. plays' = InsertPlays
  BY DEF Commit
<1>2. \A c \in Fresh \cup Corrected : Id(c) = <<Target, c, daemon.rows[c].count>> /\ Id(c)[2] = c
  BY DEF Id
<1>3. Fresh \cap Corrected = {}
  BY DEF Corrected
<1>4. DOMAIN plays' = DOMAIN plays \cup {Id(c) : c \in Fresh \cup Corrected}
  BY <1>1 DEF InsertPlays
<1>5. \A p \in DOMAIN plays' : plays'[p] =
          CASE p \notin DOMAIN plays ->
                 Derived(daemon.rows[p[2]], daemon.best[p[2]], Lost[p[2]])
            [] p \in DOMAIN plays /\ p[2] \in Corrected /\ p = Id(p[2]) ->
                 Derived(daemon.rows[p[2]], daemon.best[p[2]], plays[p].lost)
            [] OTHER -> plays[p]
  BY <1>1, <1>4 DEF InsertPlays
<1>6. ASSUME NEW p \in DOMAIN plays
      PROVE  plays'[p] = plays[p] \/ \E c \in Corrected : p = Id(c)
  BY <1>4, <1>5
<1>7. ASSUME NEW c \in Fresh, Id(c) \notin DOMAIN plays
      PROVE  plays'[Id(c)] = Derived(daemon.rows[c], daemon.best[c], Lost[c])
  <2>1. Id(c) \in DOMAIN plays' /\ Id(c)[2] = c
    BY <1>2, <1>4
  <2> QED
    BY <1>5, <1>7, <2>1
<1>8. ASSUME NEW c \in Corrected
      PROVE  plays'[Id(c)] = Derived(daemon.rows[c], daemon.best[c],
                                     IF Id(c) \in DOMAIN plays THEN plays[Id(c)].lost ELSE 0)
  <2>1. Id(c) \in DOMAIN plays' /\ Id(c)[2] = c /\ c \notin Fresh
    BY <1>2, <1>3, <1>4
  <2>4. Lost[c] = 0
    BY <2>1 DEF Lost, Corrected, Rows
  <2>2. CASE Id(c) \in DOMAIN plays
    BY <1>5, <2>1, <2>2
  <2>3. CASE Id(c) \notin DOMAIN plays
    BY <1>5, <2>1, <2>3, <2>4
  <2> QED
    BY <2>2, <2>3
<1> QED
  BY <1>4, <1>6, <1>7, <1>8

LEMMA CursorAfterCommit ==
    ASSUME IInv, Commit
    PROVE  /\ cursor' \in [Generations \X Charts -> Row]
           /\ \A g \in Generations, c \in Charts :
                 IF g = Target /\ c \in Fresh \cup Corrected
                 THEN cursor'[<<g, c>>] = daemon.rows[c]
                 ELSE cursor'[<<g, c>>] = cursor[<<g, c>>]
<1>1. cursor' = [x \in Generations \X Charts |->
                    IF x[1] = Target /\ x[2] \in Fresh \cup Corrected
                    THEN UpsertCursor(cursor[x], daemon.rows[x[2]]) ELSE cursor[x]]
  BY DEF Commit
<1>2. ASSUME NEW g \in Generations, NEW c \in Charts
      PROVE  cursor'[<<g, c>>] = IF g = Target /\ c \in Fresh \cup Corrected
                                 THEN UpsertCursor(cursor[<<g, c>>], daemon.rows[c])
                                 ELSE cursor[<<g, c>>]
  BY <1>1
<1>3. ASSUME NEW c \in Fresh \cup Corrected
      PROVE  UpsertCursor(cursor[<<Target, c>>], daemon.rows[c]) = daemon.rows[c]
  <2>1. /\ c \in Charts /\ daemon.rows[c] \in Row /\ Cursor(c) \in Row
        /\ Cursor(c) = cursor[<<Target, c>>]
    BY CommitIs
  <2>2. daemon.rows[c].count > Cursor(c).count \/ daemon.rows[c].count = Cursor(c).count
    BY CommitIs
  <2>3. daemon.rows[c].count \in Int /\ Cursor(c).count \in Int
    BY <2>1 DEF Row
  <2>4. daemon.rows[c].count >= Cursor(c).count
    BY <2>2, <2>3
  <2> QED
    BY <2>1, <2>4 DEF UpsertCursor
<1>4. ASSUME NEW x \in Generations \X Charts
      PROVE  cursor'[x] \in Row
  <2>1. PICK g \in Generations, c \in Charts : x = <<g, c>>
    OBVIOUS
  <2>2. cursor[<<g, c>>] \in Row /\ daemon.rows[c] \in Row
    BY CommitIs DEF IInv, Types, StoreTyped
  <2> QED
    BY <1>2, <1>3, <2>1, <2>2
<1>5. cursor' \in [Generations \X Charts -> Row]
  BY <1>1, <1>4
<1> QED
  BY <1>2, <1>3, <1>5

LEMMA CommitKeeps == ASSUME IInv, Commit PROVE IInv'
<1>1. /\ UNCHANGED <<now, log, best, replay, written, restores>>
      /\ daemon \in Daemons /\ daemon.stage = "commit"
      /\ memory' = daemon.moved
      /\ stored' \in {"none", "same", "changed", "error"}
      /\ daemon' = [Waiting EXCEPT !.stage = "list",
                                   !.force = \E c \in Fresh : Id(c) \notin DOMAIN plays]
  BY DEF Commit, gameVars, Remember, IInv, Types
<1>2. daemon' \in Daemons /\ daemon'.stage = "list"
  <2>1. PICK force \in BOOLEAN : force = \E c \in Fresh : Id(c) \notin DOMAIN plays
    OBVIOUS
  <2> QED
    BY <1>1, <2>1, RowTypes DEF Daemons
<1>3. /\ Target \in Generations /\ generation' = Target
      /\ Fresh \cup Corrected \subseteq Charts
      /\ \A c \in Charts : daemon.rows[c] \in Row
      /\ \A c \in Fresh \cup Corrected : daemon.rows[c].count \in Counts
      /\ \A c \in Fresh : Lost[c] \in 0..MaxCount
  BY CommitIs
<1>4. \A c \in Fresh \cup Corrected : Id(c) \in PlayId /\ Id(c)[3] = daemon.rows[c].count
  BY <1>3 DEF Id, PlayId
<1>5. \A c \in Fresh \cup Corrected : daemon.best[c] \in 0..MaxCount
                                      /\ daemon.best[c] <= daemon.rows[c].count
  BY <1>1, <1>3 DEF IInv, ReadIsLog, Daemons
<1>6. ASSUME NEW p \in DOMAIN plays'
      PROVE  p \in PlayId /\ IsPlay(plays'[p]) /\ plays'[p].best <= p[3]
  <2>1. CASE p \in DOMAIN plays /\ plays'[p] = plays[p]
    BY <2>1 DEF IInv, Types, StoreTyped, RowAndBestTogether
  <2>2. CASE ~(p \in DOMAIN plays /\ plays'[p] = plays[p])
    <3>1. PICK c \in Fresh \cup Corrected, l \in 0..MaxCount :
              p = Id(c) /\ plays'[p] = Derived(daemon.rows[c], daemon.best[c], l)
      <4>1. CASE p \in DOMAIN plays
        <5>1. PICK c \in Corrected : p = Id(c)
          BY <2>2, <4>1, InsertedIs
        <5>2. plays[p].lost \in 0..MaxCount
          BY <4>1 DEF IInv, Types, StoreTyped, IsPlay
        <5> QED
          BY <4>1, <5>1, <5>2, InsertedIs
      <4>2. CASE p \notin DOMAIN plays
        <5>1. PICK c \in Fresh \cup Corrected : p = Id(c)
          BY <4>2, InsertedIs
        <5>2. 0 \in 0..MaxCount
          OBVIOUS
        <5>3. CASE c \in Fresh
          BY <1>3, <4>2, <5>1, <5>3, InsertedIs
        <5>4. CASE c \in Corrected
          BY <4>2, <5>1, <5>2, <5>4, InsertedIs
        <5> QED
          BY <5>3, <5>4
      <4> QED
        BY <4>1, <4>2
    <3>2. daemon.rows[c] \in Row /\ daemon.best[c] \in 0..MaxCount
      BY <1>3, <1>5
    <3>3. IsPlay(plays'[p]) /\ plays'[p].best = daemon.best[c]
      BY <3>1, <3>2, DerivedIsPlay
    <3> QED
      BY <1>4, <1>5, <3>1, <3>3
  <2> QED
    BY <2>1, <2>2
<1>7. StoreTyped' /\ RowAndBestTogether'
  BY <1>3, <1>6, CursorAfterCommit DEF StoreTyped, RowAndBestTogether
<1>8. Types' /\ BestBehindLog' /\ ReadIsLog'
  BY <1>1, <1>2, <1>7 DEF IInv, Types, GameTyped, BestBehindLog, ReadIsLog, Daemons
<1>9. FutureEmpty'
  <2> SUFFICES ASSUME NEW g \in Generations, NEW c \in Charts, g > Target
               PROVE  /\ cursor'[<<g, c>>] = NoRow
                      /\ \A n \in Counts : <<g, c, n>> \notin DOMAIN plays'
    BY <1>3 DEF FutureEmpty
  <2>1. g > generation /\ g # Target
    BY <1>3 DEF Target, Generations, IInv, Types, StoreTyped
  <2>2. cursor[<<g, c>>] = NoRow /\ \A n \in Counts : <<g, c, n>> \notin DOMAIN plays
    BY <2>1 DEF IInv, FutureEmpty
  <2>3. \A n \in Counts, d \in Fresh \cup Corrected : <<g, c, n>> # Id(d)
    BY <2>1 DEF Id
  <2> QED
    BY <2>1, <2>2, <2>3, InsertedIs, CursorAfterCommit
<1>10. GenerationsOfRestores'
  <2>1. Target <= restores
    BY <1>1 DEF IInv, GenerationsOfRestores
  <2>2. ASSUME Target = restores, NEW c \in Charts
        PROVE  cursor'[<<Target, c>>].count <= log[c].count
    <3>1. daemon.rows[c].count <= log[c].count
      BY <1>1, <2>2 DEF IInv, GenerationsOfRestores
    <3>2. CASE c \in Fresh \cup Corrected
      BY <1>3, <3>1, <3>2, CursorAfterCommit
    <3>3. CASE c \notin Fresh \cup Corrected
      <4>1. cursor'[<<Target, c>>] = Cursor(c) /\ Cursor(c) \in Row /\ daemon.rows[c] \in Row
        BY <1>3, <2>2, <3>3, CursorAfterCommit, CommitIs
      <4>2. CASE NewGeneration
        <5>1. Cursor(c).count = 0
          BY <4>2, RowTypes DEF Cursor
        <5>2. log[c].count \in Nat
          BY <2>2 DEF IInv, Types, GameTyped, Row
        <5> QED
          BY <4>1, <5>1, <5>2
      <4>3. CASE ~NewGeneration
        <5>1. Target = generation /\ Cursor(c) = cursor[<<generation, c>>]
          BY <4>3 DEF Target, Cursor, Known
        <5> QED
          BY <2>2, <4>1, <5>1 DEF IInv, GenerationsOfRestores
      <4> QED
        BY <4>2, <4>3
    <3> QED
      BY <3>2, <3>3
  <2>3. Target = restores => memory' # "replaced"
    BY <1>1 DEF IInv, GenerationsOfRestores
  <2> QED
    BY <1>1, <1>2, <1>3, <2>1, <2>2, <2>3 DEF GenerationsOfRestores
<1> QED
  BY <1>7, <1>8, <1>9, <1>10 DEF IInv

-----------------------------------------------------------------------------
(* The backfill.                                                           *)

LEMMA BackfillIs ==
    ASSUME IInv, Backfill
    PROVE  \E rows \in SUBSET Charts :
             /\ \A c \in rows : /\ log[c] \in Row /\ log[c].count \in Counts
                               /\ best[c] \in 0..MaxCount /\ best[c] <= log[c].count
             /\ DOMAIN plays' = DOMAIN plays \cup {<<0, c, log[c].count>> : c \in rows}
             /\ \A p \in DOMAIN plays : plays'[p] = plays[p]
             /\ \A c \in rows : <<0, c, log[c].count>> \notin DOMAIN plays =>
                   plays'[<<0, c, log[c].count>>] = Derived(log[c], best[c], 0)
             /\ cursor' \in [Generations \X Charts -> Row]
             /\ \A g \in Generations, c \in Charts :
                   cursor'[<<g, c>>] = IF g = 0 /\ c \in rows
                                       THEN UpsertCursor(cursor[<<g, c>>], log[c])
                                       ELSE cursor[<<g, c>>]
<1> DEFINE rows == {c \in Charts : log[c].count > 0}
           ids == {<<0, c, log[c].count>> : c \in rows}
<1>1. /\ plays' = [p \in DOMAIN plays \cup ids |->
                      IF p \in DOMAIN plays THEN plays[p] ELSE Derived(log[p[2]], best[p[2]], 0)]
      /\ cursor' = [x \in Generations \X Charts |->
                       IF x[1] = 0 /\ x[2] \in rows
                       THEN UpsertCursor(cursor[x], log[x[2]]) ELSE cursor[x]]
  BY DEF Backfill
<1>2. ASSUME NEW c \in rows
      PROVE  log[c] \in Row /\ log[c].count \in Counts
             /\ best[c] \in 0..MaxCount /\ best[c] <= log[c].count
  <2>1. log[c] \in Row /\ best[c] \in 0..MaxCount /\ best[c] <= log[c].count
    BY DEF IInv, Types, GameTyped, BestBehindLog
  <2> QED
    BY <2>1 DEF Row, Counts
<1>3. DOMAIN plays' = DOMAIN plays \cup ids /\ \A p \in DOMAIN plays : plays'[p] = plays[p]
  BY <1>1
<1>4. ASSUME NEW c \in rows, <<0, c, log[c].count>> \notin DOMAIN plays
      PROVE  plays'[<<0, c, log[c].count>>] = Derived(log[c], best[c], 0)
  BY <1>1, <1>4
<1>5. ASSUME NEW g \in Generations, NEW c \in Charts
      PROVE  cursor'[<<g, c>>] = IF g = 0 /\ c \in rows
                                 THEN UpsertCursor(cursor[<<g, c>>], log[c])
                                 ELSE cursor[<<g, c>>]
  BY <1>1
<1>6. cursor' \in [Generations \X Charts -> Row]
  <2>1. ASSUME NEW x \in Generations \X Charts
        PROVE  cursor'[x] \in Row
    <3>1. PICK g \in Generations, c \in Charts : x = <<g, c>>
      OBVIOUS
    <3>2. cursor[x] \in Row
      BY DEF IInv, Types, StoreTyped
    <3>3. CASE g = 0 /\ c \in rows
      BY <1>2, <1>5, <3>1, <3>2, <3>3, UpsertIsRow
    <3>4. CASE ~(g = 0 /\ c \in rows)
      BY <1>5, <3>1, <3>2, <3>4
    <3> QED
      BY <3>3, <3>4
  <2> QED
    BY <1>1, <2>1
<1>7. rows \in SUBSET Charts
  OBVIOUS
<1> HIDE DEF rows
<1> QED
  BY <1>2, <1>3, <1>4, <1>5, <1>6, <1>7

LEMMA BackfillKeeps == ASSUME IInv, Backfill PROVE IInv'
<1>1. PICK rows \in SUBSET Charts :
             /\ \A c \in rows : /\ log[c] \in Row /\ log[c].count \in Counts
                               /\ best[c] \in 0..MaxCount /\ best[c] <= log[c].count
             /\ DOMAIN plays' = DOMAIN plays \cup {<<0, c, log[c].count>> : c \in rows}
             /\ \A p \in DOMAIN plays : plays'[p] = plays[p]
             /\ \A c \in rows : <<0, c, log[c].count>> \notin DOMAIN plays =>
                   plays'[<<0, c, log[c].count>>] = Derived(log[c], best[c], 0)
             /\ cursor' \in [Generations \X Charts -> Row]
             /\ \A g \in Generations, c \in Charts :
                   cursor'[<<g, c>>] = IF g = 0 /\ c \in rows
                                       THEN UpsertCursor(cursor[<<g, c>>], log[c])
                                       ELSE cursor[<<g, c>>]
  BY BackfillIs
<1>2. /\ UNCHANGED <<now, log, best, replay, written, restores, generation, memory, daemon>>
      /\ daemon.stage = "wait" /\ stored' \in {"none", "same", "changed", "error"}
  BY DEF Backfill, gameVars, Waiting, IInv, Types
<1>3. 0 \in Generations /\ 0 \in 0..MaxCount
  BY DEF Generations
<1>4. ASSUME NEW p \in DOMAIN plays'
      PROVE  p \in PlayId /\ IsPlay(plays'[p]) /\ plays'[p].best <= p[3]
  <2>1. CASE p \in DOMAIN plays
    BY <1>1, <2>1 DEF IInv, Types, StoreTyped, RowAndBestTogether
  <2>2. CASE p \notin DOMAIN plays
    <3>1. PICK c \in rows : p = <<0, c, log[c].count>>
      BY <1>1, <2>2
    <3>2. plays'[p] = Derived(log[c], best[c], 0) /\ p[3] = log[c].count
      BY <1>1, <2>2, <3>1
    <3>3. IsPlay(plays'[p]) /\ plays'[p].best = best[c]
      BY <1>1, <1>3, <3>2, DerivedIsPlay
    <3>4. p \in PlayId
      BY <1>1, <1>3, <3>1 DEF PlayId
    <3> QED
      BY <1>1, <3>2, <3>3, <3>4
  <2> QED
    BY <2>1, <2>2
<1>5. StoreTyped' /\ RowAndBestTogether'
  BY <1>1, <1>2, <1>4 DEF IInv, Types, StoreTyped, RowAndBestTogether
<1>6. Types' /\ BestBehindLog' /\ ReadIsLog'
  BY <1>2, <1>5 DEF IInv, Types, GameTyped, BestBehindLog, ReadIsLog
<1>7. FutureEmpty'
  <2> SUFFICES ASSUME NEW g \in Generations, NEW c \in Charts, g > generation
               PROVE  /\ cursor'[<<g, c>>] = NoRow
                      /\ \A n \in Counts : <<g, c, n>> \notin DOMAIN plays'
    BY <1>2 DEF FutureEmpty
  <2>1. g # 0
    BY DEF Generations, IInv, Types, StoreTyped
  <2>2. cursor[<<g, c>>] = NoRow /\ \A n \in Counts : <<g, c, n>> \notin DOMAIN plays
    BY DEF IInv, FutureEmpty
  <2> QED
    BY <1>1, <2>1, <2>2
<1>8. GenerationsOfRestores'
  <2>1. ASSUME generation = restores, NEW c \in Charts
        PROVE  cursor'[<<generation, c>>].count <= log[c].count
    <3>1. cursor[<<generation, c>>].count <= log[c].count /\ generation \in Generations
      BY <2>1 DEF IInv, GenerationsOfRestores, Types, StoreTyped
    <3>2. log[c].count \in Int
      BY <2>1 DEF IInv, Types, GameTyped, Row
    <3>3. CASE generation = 0 /\ c \in rows
      <4>1. cursor'[<<generation, c>>] \in {cursor[<<generation, c>>], log[c]}
        BY <1>1, <2>1, <3>1, <3>3 DEF UpsertCursor
      <4> QED
        BY <3>1, <3>2, <4>1
    <3>4. CASE ~(generation = 0 /\ c \in rows)
      <4>1. cursor'[<<generation, c>>] = cursor[<<generation, c>>]
        BY <1>1, <2>1, <3>1, <3>4
      <4> QED
        BY <3>1, <4>1
    <3> QED
      BY <3>3, <3>4
  <2> QED
    BY <1>2, <2>1 DEF IInv, GenerationsOfRestores
<1> QED
  BY <1>5, <1>6, <1>7, <1>8 DEF IInv

-----------------------------------------------------------------------------

LEMMA NextKeeps == IInv /\ [Next]_vars => IInv'
<1> SUFFICES ASSUME IInv, [Next]_vars PROVE IInv'
  OBVIOUS
<1>1. CASE Game
  BY <1>1, GameStepKeeps
<1>2. CASE Backfill
  BY <1>2, BackfillKeeps
<1>3. CASE Poll
  BY <1>3, SkipReadKeeps, ReadLogKeeps, ReadScoreKeeps, CommitKeeps, ListKeeps, ScanKeeps DEF Poll
<1>4. CASE Busy
  BY <1>4, FailKeeps DEF Busy, gameVars
<1>5. CASE Crash
  BY <1>5, CrashKeeps
<1>6. CASE UNCHANGED vars
  <2>1. UNCHANGED <<now, log, best, replay, written, restores, plays, cursor, generation, stored,
                    memory, daemon>>
    BY <1>6 DEF vars, gameVars, scoreVars
  <2>2. GameTyped' /\ BestBehindLog'
    BY <2>1 DEF IInv, Types, GameTyped, BestBehindLog
  <2> QED
    BY <2>1, <2>2, GameKeeps DEF IInv, Types
<1> QED
  BY <1>1, <1>2, <1>3, <1>4, <1>5, <1>6 DEF Next

LEMMA SpecIInv == Spec => []IInv
BY InitIInv, NextKeeps, PTL DEF Spec

(***************************************************************************)
(* The aggregate a play is compared with is not newer than the play        *)
(* (_read_consistent_snapshot).                                            *)
(***************************************************************************)
THEOREM RowsWithTheirBest == Spec => []RowAndBestTogether
<1>1. IInv => RowAndBestTogether
  BY DEF IInv
<1> QED
  BY <1>1, SpecIInv, PTL

(***************************************************************************)
(* A generation is opened only for a database that was put back, once for  *)
(* each time (tick's new_generation).                                      *)
(***************************************************************************)
THEOREM GenerationsAreRestores == Spec => []NoNeedlessGeneration
<1>1. IInv => NoNeedlessGeneration
  BY DEF IInv, GenerationsOfRestores, NoNeedlessGeneration
<1> QED
  BY <1>1, SpecIInv, PTL

-----------------------------------------------------------------------------
(* The history.  Where `backfill` is run before the daemon and not again,  *)
(* a cursor and the plays of its chart tell the same.                      *)

Told(g, c) ==
    LET row == cursor[<<g, c>>]
        last == <<g, c, row.count>>
    IN IF row.count = 0
       THEN \A n \in Counts : <<g, c, n>> \notin DOMAIN plays
       ELSE /\ last \in DOMAIN plays
            /\ \A n \in Counts : <<g, c, n>> \in DOMAIN plays => n <= row.count
            /\ plays[last].version = row.version /\ plays[last].at = row.at

AllTold == \A g \in Generations, c \in Charts : Told(g, c)

\* Before the daemon has a state, nothing is recorded.
Unstarted ==
    stored = "none" =>
        /\ DOMAIN plays = {} /\ generation = 0
        /\ \A g \in Generations, c \in Charts : cursor[<<g, c>>] = NoRow

LEMMA ToldIsCursor == StoreTyped => (AllTold <=> CursorTellsLatestPlay)
<1> SUFFICES ASSUME StoreTyped PROVE AllTold <=> CursorTellsLatestPlay
  OBVIOUS
<1> SUFFICES ASSUME NEW g \in Generations, NEW c \in Charts
             PROVE  Told(g, c) <=>
                      LET row == cursor[<<g, c>>]
                          counts == {p[3] : p \in {q \in DOMAIN plays : q[1] = g /\ q[2] = c}}
                      IN IF row.count = 0 THEN counts = {}
                         ELSE /\ row.count \in counts /\ \A n \in counts : n <= row.count
                              /\ plays[<<g, c, row.count>>].version = row.version
                              /\ plays[<<g, c, row.count>>].at = row.at
  BY DEF AllTold, CursorTellsLatestPlay
<1> DEFINE counts == {p[3] : p \in {q \in DOMAIN plays : q[1] = g /\ q[2] = c}}
<1>1. ASSUME NEW n
      PROVE  n \in counts <=> n \in Counts /\ <<g, c, n>> \in DOMAIN plays
  <2>1. ASSUME NEW p \in DOMAIN plays, p[1] = g, p[2] = c
        PROVE  p = <<g, c, p[3]>> /\ p[3] \in Counts
    BY <2>1 DEF StoreTyped, PlayId
  <2>2. n \in counts => n \in Counts /\ <<g, c, n>> \in DOMAIN plays
    BY <2>1
  <2>3. <<g, c, n>> \in DOMAIN plays => n \in counts
    <3>1. <<g, c, n>>[1] = g /\ <<g, c, n>>[2] = c /\ <<g, c, n>>[3] = n
      OBVIOUS
    <3> QED
      BY <3>1
  <2> QED
    BY <2>2, <2>3
<1>2. cursor[<<g, c>>].count \in 0..MaxCount
  BY DEF StoreTyped, Row
<1>3. cursor[<<g, c>>].count # 0 => cursor[<<g, c>>].count \in Counts
  BY <1>2 DEF Counts
<1>4. counts = {} <=> \A n \in Counts : <<g, c, n>> \notin DOMAIN plays
  BY <1>1
<1> HIDE DEF counts
<1>5. Told(g, c) <=> IF cursor[<<g, c>>].count = 0 THEN counts = {}
                     ELSE /\ cursor[<<g, c>>].count \in counts
                          /\ \A n \in counts : n <= cursor[<<g, c>>].count
                          /\ plays[<<g, c, cursor[<<g, c>>].count>>].version = cursor[<<g, c>>].version
                          /\ plays[<<g, c, cursor[<<g, c>>].count>>].at = cursor[<<g, c>>].at
  BY <1>1, <1>3, <1>4 DEF Told
<1> QED
  BY <1>5 DEF counts

LEMMA InitTold == Init => AllTold /\ Unstarted
<1> SUFFICES ASSUME Init PROVE AllTold /\ Unstarted
  OBVIOUS
<1>1. DOMAIN plays = {}
  BY DEF Init
<1>2. \A g \in Generations, c \in Charts : cursor[<<g, c>>] = NoRow
  BY DEF Init
<1> QED
  BY <1>1, <1>2, RowTypes DEF Init, AllTold, Told, Unstarted

LEMMA CommitTells ==
    ASSUME IInv, AllTold, Commit
    PROVE  AllTold' /\ Unstarted'
<1>1. /\ Target \in Generations
      /\ Fresh \cup Corrected \subseteq Charts
      /\ \A c \in Charts : daemon.rows[c] \in Row /\ Cursor(c) = cursor[<<Target, c>>]
      /\ \A c \in Fresh : daemon.rows[c].count \in Counts /\ daemon.rows[c].count > Cursor(c).count
      /\ \A c \in Corrected : daemon.rows[c].count \in Counts /\ daemon.rows[c].count = Cursor(c).count
  BY CommitIs
<1>2. Unstarted'
  BY DEF Commit, Remember, Unstarted
<1>3. \A p : p \in DOMAIN plays' <=> p \in DOMAIN plays \/ \E d \in Fresh \cup Corrected : p = Id(d)
  BY InsertedIs
<1>4. \A d \in Charts : daemon.best[d] \in 0..MaxCount
  BY DEF IInv, Types, Daemons
<1>t. PICK target \in Generations : target = Target
  BY <1>1
<1>5. ASSUME NEW c \in Fresh \cup Corrected
      PROVE  Told(target, c)'
  <2>1. c \in Charts /\ daemon.rows[c] \in Row /\ daemon.rows[c].count \in Counts
        /\ daemon.rows[c].count # 0
    <3>1. c \in Charts /\ daemon.rows[c] \in Row
      BY <1>1, <1>5
    <3>2. daemon.rows[c].count \in Counts
      BY <1>1, <1>5
    <3> QED
      BY <3>1, <3>2 DEF Counts
  <2>2. cursor'[<<target, c>>] = daemon.rows[c]
    BY <1>1, <1>5, <1>t, <2>1, CursorAfterCommit
  <2>3. Id(c) = <<target, c, daemon.rows[c].count>> /\ Id(c) \in DOMAIN plays'
    BY <1>3, <1>5, <1>t DEF Id
  <2>4. Told(target, c) /\ Cursor(c).count \in 0..MaxCount
    BY <1>1, <1>t, <2>1 DEF AllTold, IInv, Types, StoreTyped, Row
  <2>5. plays'[Id(c)].version = daemon.rows[c].version /\ plays'[Id(c)].at = daemon.rows[c].at
    <3>1. CASE c \in Fresh
      <4>1. Id(c) \notin DOMAIN plays
        BY <1>1, <2>1, <2>3, <2>4, <1>t, <3>1 DEF Told, Counts
      <4>2. Lost[c] \in 0..MaxCount
        BY <3>1, CommitIs
      <4> QED
        BY <1>4, <2>1, <3>1, <4>1, <4>2, InsertedIs, DerivedIsPlay
    <3>2. CASE c \in Corrected
      <4>1. Id(c) \in DOMAIN plays
        BY <1>1, <2>1, <2>3, <2>4, <1>t, <3>2 DEF Told
      <4>2. plays[Id(c)].lost \in 0..MaxCount
        BY <4>1 DEF IInv, Types, StoreTyped, IsPlay
      <4> QED
        BY <1>4, <2>1, <3>2, <4>1, <4>2, InsertedIs, DerivedIsPlay
    <3> QED
      BY <1>5, <3>1, <3>2
  <2>6. ASSUME NEW n \in Counts, <<target, c, n>> \in DOMAIN plays'
        PROVE  n <= daemon.rows[c].count
    <3>1. CASE <<target, c, n>> \in DOMAIN plays
      <4>1. Cursor(c).count <= daemon.rows[c].count
        BY <1>1, <2>1, <2>4 DEF Counts
      <4>2. n <= Cursor(c).count
        BY <1>1, <2>1, <2>4, <1>t, <3>1 DEF Told
      <4> QED
        BY <2>1, <2>4, <4>1, <4>2 DEF Counts
    <3>2. CASE <<target, c, n>> \notin DOMAIN plays
      <4>1. PICK d \in Fresh \cup Corrected : <<target, c, n>> = Id(d)
        BY <1>3, <2>6, <3>2
      <4>2. n = daemon.rows[c].count
        BY <4>1, <1>t DEF Id
      <4> QED
        BY <2>1, <4>2 DEF Counts
    <3> QED
      BY <3>1, <3>2
  <2> QED
    BY <2>1, <2>2, <2>3, <2>5, <2>6 DEF Told
<1>6. ASSUME NEW g \in Generations, NEW c \in Charts, ~(g = target /\ c \in Fresh \cup Corrected)
      PROVE  Told(g, c)'
  <2>1. cursor'[<<g, c>>] = cursor[<<g, c>>]
    BY <1>6, <1>t, CursorAfterCommit
  <2>2. \A n, d : d \in Fresh \cup Corrected => <<g, c, n>> # Id(d)
    BY <1>6, <1>t DEF Id
  <2>3. \A n \in Counts :
           /\ <<g, c, n>> \in DOMAIN plays' <=> <<g, c, n>> \in DOMAIN plays
           /\ <<g, c, n>> \in DOMAIN plays => plays'[<<g, c, n>>] = plays[<<g, c, n>>]
    BY <1>3, <2>2, InsertedIs
  <2>4. Told(g, c)
    BY <1>6 DEF AllTold
  <2>5. CASE cursor[<<g, c>>].count = 0
    <3>1. \A n \in Counts : <<g, c, n>> \notin DOMAIN plays
      BY <2>4, <2>5 DEF Told
    <3>2. \A n \in Counts : <<g, c, n>> \notin DOMAIN plays'
      BY <2>3, <3>1
    <3> QED
      BY <2>1, <2>5, <3>2 DEF Told
  <2>6. CASE cursor[<<g, c>>].count # 0
    <3> DEFINE last == <<g, c, cursor[<<g, c>>].count>>
    <3> cursor[<<g, c>>].count \in Counts
      BY <2>6 DEF IInv, Types, StoreTyped, Row, Counts
    <3>4. last \in DOMAIN plays
      BY <2>4, <2>6 DEF Told
    <3>1. last \in DOMAIN plays' /\ plays'[last] = plays[last]
      BY <2>3, <3>4
    <3>2. \A n \in Counts : <<g, c, n>> \in DOMAIN plays' => n <= cursor[<<g, c>>].count
      BY <2>3, <2>4, <2>6 DEF Told
    <3>3. plays[last].version = cursor[<<g, c>>].version /\ plays[last].at = cursor[<<g, c>>].at
      BY <2>4, <2>6 DEF Told
    <3> QED
      BY <2>1, <2>6, <3>1, <3>2, <3>3 DEF Told
  <2> QED
    BY <2>5, <2>6
<1>7. AllTold'
  <2>1. ASSUME NEW g \in Generations, NEW c \in Charts PROVE Told(g, c)'
    BY <1>5, <1>6
  <2> QED
    BY <2>1 DEF AllTold
<1> QED
  BY <1>2, <1>7

LEMMA BackfillTells ==
    ASSUME IInv, Unstarted, Backfill, "backfill" \notin Faults
    PROVE  AllTold' /\ Unstarted'
<1>1. PICK rows \in SUBSET Charts :
             /\ \A c \in rows : /\ log[c] \in Row /\ log[c].count \in Counts
                               /\ best[c] \in 0..MaxCount /\ best[c] <= log[c].count
             /\ DOMAIN plays' = DOMAIN plays \cup {<<0, c, log[c].count>> : c \in rows}
             /\ \A p \in DOMAIN plays : plays'[p] = plays[p]
             /\ \A c \in rows : <<0, c, log[c].count>> \notin DOMAIN plays =>
                   plays'[<<0, c, log[c].count>>] = Derived(log[c], best[c], 0)
             /\ cursor' \in [Generations \X Charts -> Row]
             /\ \A g \in Generations, c \in Charts :
                   cursor'[<<g, c>>] = IF g = 0 /\ c \in rows
                                       THEN UpsertCursor(cursor[<<g, c>>], log[c])
                                       ELSE cursor[<<g, c>>]
  BY BackfillIs
<1>2. /\ stored = "none" /\ stored' = "same"
      /\ DOMAIN plays = {}
      /\ \A g \in Generations, c \in Charts : cursor[<<g, c>>] = NoRow
  BY DEF Backfill, Unstarted
<1>3. ASSUME NEW g \in Generations, NEW c \in Charts
      PROVE  Told(g, c)'
  <2>1. CASE g = 0 /\ c \in rows
    <3>1. log[c].count \in Counts /\ log[c].count # 0 /\ log[c] \in Row
      BY <1>1, <2>1 DEF Counts
    <3>2. cursor'[<<0, c>>] = log[c]
      <4>1. cursor[<<0, c>>] = NoRow
        BY <1>2, <2>1
      <4>2. log[c].count >= NoRow.count
        BY <3>1, RowTypes DEF Counts
      <4> QED
        BY <1>1, <2>1, <4>1, <4>2 DEF UpsertCursor
    <3>3. <<0, c, log[c].count>> \in DOMAIN plays'
          /\ plays'[<<0, c, log[c].count>>] = Derived(log[c], best[c], 0)
      BY <1>1, <1>2, <2>1
    <3>4. plays'[<<0, c, log[c].count>>].version = log[c].version
          /\ plays'[<<0, c, log[c].count>>].at = log[c].at
      BY <3>3 DEF Derived
    <3>5. \A n \in Counts : <<0, c, n>> \in DOMAIN plays' => n = log[c].count
      BY <1>1, <1>2
    <3>6. \A n \in Counts : <<0, c, n>> \in DOMAIN plays' => n <= log[c].count
      BY <3>1, <3>5 DEF Counts
    <3> QED
      BY <2>1, <3>1, <3>2, <3>3, <3>4, <3>6 DEF Told
  <2>2. CASE ~(g = 0 /\ c \in rows)
    <3>1. cursor'[<<g, c>>] = NoRow
      BY <1>1, <1>2, <2>2
    <3>2. \A n \in Counts : <<g, c, n>> \notin DOMAIN plays'
      BY <1>1, <1>2, <2>2
    <3> QED
      BY <3>1, <3>2, RowTypes DEF Told
  <2> QED
    BY <2>1, <2>2
<1> QED
  BY <1>2, <1>3 DEF AllTold, Unstarted

\* A step that records nothing.
LEMMA OthersTell ==
    ASSUME IInv, AllTold, Unstarted, stored' = "none" => stored = "none",
           UNCHANGED <<cursor, generation>>, DOMAIN plays' = DOMAIN plays,
           \A p \in DOMAIN plays : /\ plays'[p].version = plays[p].version
                                  /\ plays'[p].at = plays[p].at
    PROVE  AllTold' /\ Unstarted'
BY DEF AllTold, Told, Unstarted

LEMMA RecordsNothing ==
    ASSUME IInv, Next, ~Commit, ~Backfill
    PROVE  /\ stored' = "none" => stored = "none"
           /\ UNCHANGED <<cursor, generation>> /\ DOMAIN plays' = DOMAIN plays
           /\ \A p \in DOMAIN plays :
                 /\ plays'[p].version = plays[p].version /\ plays'[p].at = plays[p].at
                 /\ plays'[p].best = plays[p].best /\ plays'[p].lost = plays[p].lost
<1>1. CASE Game
  BY <1>1, GameStepKeeps
<1>2. CASE Scan
  BY <1>2, ScanIs DEF Scan, IInv, Types
<1>3. CASE SkipRead \/ ReadLog \/ List \/ Crash
  BY <1>3 DEF SkipRead, ReadLog, List, Crash, scoreVars
<1>4. CASE ReadScore
  BY <1>4 DEF ReadScore, Fail
<1>5. CASE Busy
  BY <1>5 DEF Busy, Fail
<1> QED
  BY <1>1, <1>2, <1>3, <1>4, <1>5 DEF Next, Poll

LEMMA NextTells ==
    ASSUME "backfill" \notin Faults
    PROVE  IInv /\ AllTold /\ Unstarted /\ [Next]_vars => AllTold' /\ Unstarted'
<1> SUFFICES ASSUME IInv, AllTold, Unstarted, [Next]_vars PROVE AllTold' /\ Unstarted'
  OBVIOUS
<1>1. CASE Commit
  BY <1>1, CommitTells
<1>2. CASE Backfill
  BY <1>2, BackfillTells
<1>3. CASE Next /\ ~Commit /\ ~Backfill
  BY <1>3, RecordsNothing, OthersTell
<1>4. CASE UNCHANGED vars
  BY <1>4, OthersTell DEF vars, scoreVars
<1> QED
  BY <1>1, <1>2, <1>3, <1>4

(***************************************************************************)
(* A cursor stands at the last play recorded of its chart and describes it *)
(* as the plays table does (tick's transaction, insert_play).              *)
(***************************************************************************)
THEOREM CursorsTell ==
    ASSUME "backfill" \notin Faults
    PROVE  Spec => []CursorTellsLatestPlay
<1>1. Init => IInv /\ AllTold /\ Unstarted
  BY InitIInv, InitTold
<1>2. IInv /\ AllTold /\ Unstarted /\ [Next]_vars => (IInv /\ AllTold /\ Unstarted)'
  BY NextKeeps, NextTells
<1>3. IInv /\ AllTold => CursorTellsLatestPlay
  BY ToldIsCursor DEF IInv, Types
<1> QED
  BY <1>1, <1>2, <1>3, PTL DEF Spec

-----------------------------------------------------------------------------
(* The refinement.                                                         *)

\* What History!Record asks, of the plays table itself.
Follows(p) ==
    /\ p[1] = generation'
    /\ \A q \in DOMAIN plays' \ DOMAIN plays : q[2] = p[2] => q = p
    /\ \A q \in DOMAIN plays : q[1] = p[1] /\ q[2] = p[2] =>
          /\ q[3] < p[3]
          /\ \/ plays'[p].lost = p[3] - q[3] - 1
             \/ \E r \in DOMAIN plays : r[1] = q[1] /\ r[2] = q[2] /\ q[3] < r[3]

Kept(p) ==
    /\ p \in DOMAIN plays' /\ plays'[p].lost = plays[p].lost
    /\ \/ plays'[p] = plays[p]
       \/ /\ p[1] = generation'
          /\ \A q \in DOMAIN plays : q[1] = p[1] /\ q[2] = p[2] => q[3] <= p[3]

LEMMA PlaysRecord ==
    ASSUME StoreTyped, StoreTyped', generation' \in {generation, generation + 1},
           \A p \in DOMAIN plays' \ DOMAIN plays : Follows(p),
           \A p \in DOMAIN plays : Kept(p)
    PROVE  History!Record
<1> DEFINE facts(p) == [version |-> plays[p].version, at |-> plays[p].at,
                        best |-> plays[p].best, lost |-> plays[p].lost]
           now0 == [p \in DOMAIN plays |-> facts(p)]
           next == [p \in DOMAIN plays' |-> [version |-> plays'[p].version, at |-> plays'[p].at,
                                             best |-> plays'[p].best, lost |-> plays'[p].lost]]
<1>1. /\ DOMAIN now0 = DOMAIN plays /\ DOMAIN next = DOMAIN plays'
      /\ \A p \in DOMAIN plays : now0[p].lost = plays[p].lost
      /\ \A p \in DOMAIN plays' : next[p].lost = plays'[p].lost
      /\ \A p \in DOMAIN plays \cap DOMAIN plays' : plays'[p] = plays[p] => next[p] = now0[p]
  OBVIOUS
<1> HIDE DEF now0, next
<1>2. \A p \in DOMAIN plays' : p[3] \in Int /\ p \in PlayId
  BY DEF StoreTyped, PlayId, Counts
<1>3. \A p \in DOMAIN plays : p \in DOMAIN plays'
  BY DEF Kept
<1>4. ASSUME NEW p \in DOMAIN plays' \ DOMAIN plays
      PROVE  /\ p[1] = generation'
             /\ \A q \in DOMAIN next \ DOMAIN now0 : q[2] = p[2] => q = p
             /\ \A q \in DOMAIN now0 :
                   /\ q[1] = p[1] /\ q[2] = p[2] => q[3] < p[3]
                   /\ /\ q[1] = p[1] /\ q[2] = p[2] /\ q[3] < p[3]
                      /\ \A r \in DOMAIN now0 : ~(q[1] = r[1] /\ q[2] = r[2] /\ q[3] < r[3])
                      => next[p].lost = p[3] - q[3] - 1
  <2>1. Follows(p)
    BY <1>4
  <2>2. next[p].lost = plays'[p].lost
    BY <1>1, <1>4
  <2> QED
    BY <1>1, <2>1, <2>2 DEF Follows
<1>5. ASSUME NEW p \in DOMAIN plays
      PROVE  /\ p \in DOMAIN next
             /\ next[p].lost = now0[p].lost
             /\ next[p] # now0[p] =>
                   /\ p[1] = generation'
                   /\ \A q \in DOMAIN now0 : ~(p[1] = q[1] /\ p[2] = q[2] /\ p[3] < q[3])
  <2>1. Kept(p)
    BY <1>5
  <2>2. p \in DOMAIN next /\ next[p].lost = now0[p].lost
    BY <1>1, <1>5, <2>1 DEF Kept
  <2>3. CASE plays'[p] = plays[p]
    BY <1>1, <1>3, <1>5, <2>2, <2>3
  <2>4. CASE plays'[p] # plays[p]
    <3>1. ASSUME NEW q \in DOMAIN plays, p[1] = q[1], p[2] = q[2]
          PROVE  ~(p[3] < q[3])
      <4>1. q[3] <= p[3] /\ q[3] \in Int /\ p[3] \in Int
        BY <1>2, <1>3, <2>1, <2>4, <3>1 DEF Kept
      <4> QED
        BY <4>1
    <3> QED
      BY <1>1, <2>1, <2>2, <2>4, <3>1 DEF Kept
  <2> QED
    BY <2>3, <2>4
<1>6. generation' \in {generation, generation + 1} \cap History!Generations
  BY DEF StoreTyped, Generations, History!Generations
<1>7. DOMAIN next \subseteq History!PlayIds
  BY <1>1, <1>2 DEF PlayId, Generations, Counts, History!PlayIds, History!Generations
<1> QED
  BY <1>1, <1>4, <1>5, <1>6, <1>7
  DEF now0, next, History!Record, History!New, History!Follows, History!Kept, History!Before,
      History!IsLast

LEMMA CommitRecords ==
    ASSUME IInv, AllTold, Commit
    PROVE  History!Record
<1>1. /\ Target \in Generations /\ generation' = Target
      /\ Fresh \cup Corrected \subseteq Charts
      /\ \A c \in Charts : daemon.rows[c] \in Row /\ Cursor(c) = cursor[<<Target, c>>]
      /\ \A c \in Fresh : daemon.rows[c].count \in Counts /\ daemon.rows[c].count > Cursor(c).count
      /\ \A c \in Corrected : /\ daemon.rows[c].count \in Counts
                              /\ daemon.rows[c].count = Cursor(c).count
  BY CommitIs
<1>2. StoreTyped /\ StoreTyped'
  BY CommitKeeps DEF IInv, Types
<1>3. generation' \in {generation, generation + 1}
  BY <1>1 DEF Target
<1>4. \A d \in Charts : daemon.best[d] \in 0..MaxCount
  BY DEF IInv, Types, Daemons
<1>5. ASSUME NEW c \in Charts
      PROVE  /\ Told(Target, c) /\ Cursor(c).count \in 0..MaxCount
             /\ Id(c) = <<Target, c, daemon.rows[c].count>>
             /\ \A q \in DOMAIN plays : q[1] = Target /\ q[2] = c =>
                   /\ q = <<Target, c, q[3]>> /\ q[3] \in Counts
                   /\ q[3] <= Cursor(c).count /\ Cursor(c).count # 0
                   /\ <<Target, c, Cursor(c).count>> \in DOMAIN plays
  <2>1. Told(Target, c) /\ Cursor(c) = cursor[<<Target, c>>] /\ Cursor(c).count \in 0..MaxCount
    BY <1>1, <1>2, <1>5 DEF AllTold, StoreTyped, Row
  <2>2. \A q \in DOMAIN plays : q[1] = Target /\ q[2] = c =>
           q = <<Target, c, q[3]>> /\ q[3] \in Counts
    BY <1>2 DEF StoreTyped, PlayId
  <2> QED
    BY <2>1, <2>2 DEF Told, Id
<1>6. ASSUME NEW p \in DOMAIN plays' \ DOMAIN plays
      PROVE  Follows(p)
  <2>1. PICK c \in Fresh \cup Corrected : p = Id(c)
    BY <1>6, InsertedIs
  <2>2. c \in Charts
    BY <1>1, <2>1
  <2>3. p = <<Target, c, daemon.rows[c].count>>
    BY <1>5, <2>1, <2>2
  <2>4. c \in Fresh
    <3>1. CASE c \in Corrected
      <4>1. daemon.rows[c].count = cursor[<<Target, c>>].count /\ daemon.rows[c].count # 0
        BY <1>1, <2>2, <3>1 DEF Counts
      <4>2. p \in DOMAIN plays
        BY <1>5, <2>2, <2>3, <4>1 DEF Told
      <4> QED
        BY <1>6, <4>2
    <3> QED
      BY <2>1, <3>1
  <2>5. p[1] = generation'
    BY <1>1, <2>3
  <2>6. ASSUME NEW q \in DOMAIN plays' \ DOMAIN plays, q[2] = p[2]
        PROVE  q = p
    <3>1. PICK d \in Fresh \cup Corrected : q = Id(d)
      BY <2>6, InsertedIs
    <3>2. d = c
      BY <2>3, <2>6, <3>1 DEF Id
    <3> QED
      BY <2>1, <3>1, <3>2
  <2>7. ASSUME NEW q \in DOMAIN plays, q[1] = p[1], q[2] = p[2]
        PROVE  /\ q[3] < p[3]
               /\ \/ plays'[p].lost = p[3] - q[3] - 1
                  \/ \E r \in DOMAIN plays : r[1] = q[1] /\ r[2] = q[2] /\ q[3] < r[3]
    <3>1. /\ q = <<Target, c, q[3]>> /\ q[3] \in Counts
          /\ q[3] <= Cursor(c).count /\ Cursor(c).count # 0
          /\ <<Target, c, Cursor(c).count>> \in DOMAIN plays
          /\ Cursor(c).count \in 0..MaxCount
      BY <1>5, <2>2, <2>3, <2>7
    <3>2. p[3] = daemon.rows[c].count /\ p[3] \in Counts /\ Cursor(c).count < p[3]
      BY <1>1, <2>3, <2>4
    <3>3. q[3] < p[3]
      BY <3>1, <3>2 DEF Counts
    <3>4. CASE q[3] = Cursor(c).count
      <4>1. plays'[p] = Derived(daemon.rows[c], daemon.best[c], Lost[c])
        BY <1>6, <2>1, <2>4, InsertedIs
      <4>2. Lost[c] = daemon.rows[c].count - Cursor(c).count - 1
        BY <2>2, <2>4, <3>1 DEF Lost
      <4>3. plays'[p].lost = Lost[c]
        BY <4>1 DEF Derived
      <4> QED
        BY <3>2, <3>3, <3>4, <4>2, <4>3
    <3>5. CASE q[3] # Cursor(c).count
      <4>1. q[3] < Cursor(c).count
        BY <3>1, <3>5 DEF Counts
      <4> DEFINE r == <<Target, c, Cursor(c).count>>
      <4>2. r \in DOMAIN plays /\ r[1] = q[1] /\ r[2] = q[2] /\ q[3] < r[3]
        BY <3>1, <4>1
      <4> QED
        BY <3>3, <4>2
    <3> QED
      BY <3>4, <3>5
  <2> QED
    BY <2>5, <2>6, <2>7 DEF Follows
<1>7. ASSUME NEW p \in DOMAIN plays
      PROVE  Kept(p)
  <2>1. p \in DOMAIN plays'
    BY InsertedIs
  <2>2. CASE plays'[p] = plays[p]
    BY <2>1, <2>2 DEF Kept
  <2>3. CASE \E c \in Corrected : p = Id(c)
    <3>1. PICK c \in Corrected : p = Id(c)
      BY <2>3
    <3>2. c \in Charts /\ daemon.rows[c].count = Cursor(c).count /\ p = <<Target, c, Cursor(c).count>>
      BY <1>1, <1>5, <3>1
    <3>3. plays'[p] = Derived(daemon.rows[c], daemon.best[c], plays[p].lost)
      BY <3>1, InsertedIs
    <3>4. plays'[p].lost = plays[p].lost
      BY <3>3 DEF Derived
    <3>5. p[1] = generation' /\ \A q \in DOMAIN plays : q[1] = p[1] /\ q[2] = p[2] => q[3] <= p[3]
      BY <1>1, <1>5, <3>2
    <3> QED
      BY <2>1, <3>4, <3>5 DEF Kept
  <2> QED
    BY <2>2, <2>3, InsertedIs
<1> QED
  BY <1>2, <1>3, <1>6, <1>7, PlaysRecord

LEMMA BackfillRecords ==
    ASSUME IInv, Unstarted, Backfill, "backfill" \notin Faults
    PROVE  History!Record
<1>1. DOMAIN plays = {} /\ generation = 0 /\ generation' = generation
  BY DEF Backfill, Unstarted
<1>2. PICK rows \in SUBSET Charts : DOMAIN plays' = {<<0, c, log[c].count>> : c \in rows}
  BY <1>1, BackfillIs
<1>3. StoreTyped /\ StoreTyped'
  BY BackfillKeeps DEF IInv, Types
<1>4. \A p \in DOMAIN plays' \ DOMAIN plays : Follows(p)
  BY <1>1, <1>2 DEF Follows
<1> QED
  BY <1>1, <1>3, <1>4, PlaysRecord

LEMMA NextRecords ==
    ASSUME "backfill" \notin Faults
    PROVE  IInv /\ AllTold /\ Unstarted /\ [Next]_vars => [History!Record]_(History!vars)
<1> SUFFICES ASSUME IInv, AllTold, Unstarted, [Next]_vars
             PROVE  [History!Record]_(History!vars)
  OBVIOUS
<1>1. CASE Commit
  BY <1>1, CommitRecords
<1>2. CASE Backfill
  BY <1>2, BackfillRecords
<1>3. CASE Next /\ ~Commit /\ ~Backfill
  <2>1. /\ UNCHANGED generation /\ DOMAIN plays' = DOMAIN plays
        /\ \A p \in DOMAIN plays :
              /\ plays'[p].version = plays[p].version /\ plays'[p].at = plays[p].at
              /\ plays'[p].best = plays[p].best /\ plays'[p].lost = plays[p].lost
    BY <1>3, RecordsNothing
  <2> QED
    BY <2>1 DEF History!vars
<1>4. CASE UNCHANGED vars
  BY <1>4 DEF vars, scoreVars, History!vars
<1> QED
  BY <1>1, <1>2, <1>3, <1>4

(***************************************************************************)
(* The plays table is the append-only history of PlayHistory in the        *)
(* presence of the game, the retries, corrections, restores and crashes    *)
(* (tick, insert_play, upsert_cursor), if backfill is not run again.       *)
(***************************************************************************)
THEOREM CollectorKeepsHistory ==
    ASSUME "backfill" \notin Faults
    PROVE  Spec => HistorySpec
<1>1. Init => IInv /\ AllTold /\ Unstarted
  BY InitIInv, InitTold
<1>2. IInv /\ AllTold /\ Unstarted /\ [Next]_vars => (IInv /\ AllTold /\ Unstarted)'
  BY NextKeeps, NextTells
<1>3. Init => History!Init
  BY DEF Init, History!Init
<1>4. IInv /\ AllTold /\ Unstarted /\ [Next]_vars => [History!Record]_(History!vars)
  BY NextRecords
<1> QED
  BY <1>1, <1>2, <1>3, <1>4, PTL DEF Spec, HistorySpec, History!Spec

\* The history, as PlayHistory sees it.
Recorded ==
    [p \in DOMAIN plays |-> [version |-> plays[p].version, at |-> plays[p].at,
                             best |-> plays[p].best, lost |-> plays[p].lost]]

\* The plays are identified by generations, charts and counts; the arithmetic
\* of Before needs it.
Identified == DOMAIN Recorded \subseteq History!PlayIds

\* One transaction keeps the account: a play it adds is measured from the last
\* one before it, and what it corrects keeps its count.
LEMMA RecordAccounts ==
    ASSUME Identified, History!Accounted, [History!Record]_(History!vars)
    PROVE  Identified' /\ (History!Accounted)'
<1>1. CASE UNCHANGED History!vars
  <2>1. Recorded' = Recorded
    BY <1>1 DEF History!vars, Recorded
  <2>2. History!Accounted <=>
          \A p, q \in DOMAIN Recorded :
            History!Before(p, q) /\ ~(\E r \in DOMAIN Recorded : History!Before(p, r) /\ History!Before(r, q))
              => Recorded[q].lost = q[3] - p[3] - 1
    BY DEF History!Accounted, Recorded
  <2>3. (History!Accounted)' <=>
          \A p, q \in DOMAIN Recorded' :
            History!Before(p, q) /\ ~(\E r \in DOMAIN Recorded' : History!Before(p, r) /\ History!Before(r, q))
              => Recorded'[q].lost = q[3] - p[3] - 1
    BY DEF History!Accounted, Recorded, History!Before
  <2> QED
    BY <2>1, <2>2, <2>3 DEF Identified
<1>2. CASE History!Record
  <2>1. Identified'
    BY <1>2 DEF History!Record, Identified, Recorded
  <2>2. ASSUME NEW p \in DOMAIN Recorded', NEW q \in DOMAIN Recorded', History!Before(p, q),
               ~ \E r \in DOMAIN Recorded' : History!Before(p, r) /\ History!Before(r, q)
        PROVE  Recorded'[q].lost = q[3] - p[3] - 1
    <3>1. \A r \in DOMAIN Recorded' : r[3] \in Int
      BY <2>1 DEF Identified, History!PlayIds
    <3>2. DOMAIN Recorded \subseteq DOMAIN Recorded'
      BY <1>2 DEF History!Record, History!Kept, Recorded
    <3>3. CASE p \in DOMAIN Recorded /\ q \in DOMAIN Recorded
      <4>1. Recorded[q].lost = q[3] - p[3] - 1
        BY <2>2, <3>2, <3>3 DEF History!Accounted, Recorded
      <4> QED
        BY <1>2, <3>3, <4>1 DEF History!Record, History!Kept, Recorded
    <3>4. CASE p \in DOMAIN Recorded /\ q \notin DOMAIN Recorded
      <4>1. History!Follows(q)
        BY <1>2, <3>4 DEF History!Record, History!New, Recorded
      <4>2. History!IsLast(p)
        <5>1. SUFFICES ASSUME NEW r \in DOMAIN Recorded, History!Before(p, r) PROVE FALSE
          BY DEF History!IsLast, Recorded
        <5>2. History!Before(r, q)
          BY <2>2, <4>1, <5>1 DEF History!Follows, History!Before, Recorded
        <5> QED
          BY <2>2, <3>2, <5>1, <5>2
      <4> QED
        BY <2>2, <3>4, <4>1, <4>2 DEF History!Follows, Recorded
    <3>5. CASE p \notin DOMAIN Recorded /\ q \in DOMAIN Recorded
      <4>1. q[3] < p[3]
        BY <1>2, <2>2, <3>5 DEF History!Record, History!New, History!Follows, History!Before, Recorded
      <4> QED
        BY <2>2, <3>1, <4>1 DEF History!Before
    <3>6. CASE p \notin DOMAIN Recorded /\ q \notin DOMAIN Recorded
      <4>1. p = q
        BY <1>2, <2>2, <3>6 DEF History!Record, History!New, History!Follows, History!Before, Recorded
      <4> QED
        BY <2>2, <3>1, <4>1 DEF History!Before
    <3> QED
      BY <3>3, <3>4, <3>5, <3>6
  <2>3. (History!Accounted)'
    BY <2>2 DEF History!Accounted, History!Before, Recorded
  <2> QED
    BY <2>1, <2>3
<1> QED
  BY <1>1, <1>2

\* Every history accounts for all plays (poller.tick's lost_events).
THEOREM HistoryAccounted == History!Spec => []History!Accounted
<1>1. History!Init => Identified /\ History!Accounted
  BY DEF History!Init, Identified, History!Accounted, Recorded
<1>2. Identified /\ History!Accounted /\ [History!Record]_(History!vars) => Identified' /\ (History!Accounted)'
  BY RecordAccounts
<1> QED
  BY <1>1, <1>2, PTL DEF History!Spec

(***************************************************************************)
(* Between two neighbouring plays of a chart lie exactly the plays the     *)
(* later one says were missed (lost_events).                               *)
(***************************************************************************)
THEOREM MissedPlaysAreCounted ==
    ASSUME "backfill" \notin Faults
    PROVE  Spec => []History!Accounted
BY CollectorKeepsHistory, HistoryAccounted, PTL DEF HistorySpec

-----------------------------------------------------------------------------
(* Gauges.                                                                 *)

\* x is a row of a chart that y may have overwritten: a play later, or the
\* same play corrected.
Earlier(x, y) ==
    \/ x.count = 0
    \/ x.count < y.count
    \/ x.count = y.count /\ x.at = y.at /\ x.version <= y.version

\* While the database was never put back, everything read of it is earlier.
CursorsEarlier ==
    restores = 0 =>
      \A g \in Generations, c \in Charts :
        /\ Earlier(cursor[<<g, c>>], log[c])
        /\ daemon.stage \in {"score", "commit"} =>
             Earlier(cursor[<<g, c>>], daemon.rows[c]) /\ Earlier(daemon.rows[c], log[c])

\* A replay is matched with a play that is recorded, or with none.
IsEntry(e) ==
    /\ e = [slot |-> e.slot, file |-> e.file, status |-> e.status, play |-> e.play]
    /\ e.play \in DOMAIN plays \cup {NoPlay}

HistoryTyped ==
    /\ \E n \in Nat : history = [i \in 1..n |-> history[i]]
    /\ \A i \in DOMAIN history : IsEntry(history[i])

GaugeInv == CursorsEarlier /\ HistoryTyped /\ GaugeOfLatestReplay

LEMMA EarlierIsOrder ==
    /\ \A x \in Row : Earlier(x, x)
    /\ \A x, y, z \in Row : Earlier(x, y) /\ Earlier(y, z) => Earlier(x, z)
<1>1. \A x \in Row : x.count \in Nat /\ x.version \in Int
  BY DEF Row
<1> QED
  BY <1>1 DEF Earlier

\* A play or a correction overwrites an earlier row.
LEMMA LogMoves ==
    ASSUME Types, Game, restores' = 0
    PROVE  /\ restores = 0 /\ log' \in [Charts -> Row] /\ UNCHANGED <<cursor, plays, history>>
           /\ daemon'.stage = daemon.stage /\ daemon'.rows = daemon.rows
           /\ \A c \in Charts : Earlier(log[c], log'[c])
<1> DEFINE Moves ==
             /\ restores = 0 /\ log' \in [Charts -> Row] /\ UNCHANGED <<cursor, plays, history>>
             /\ daemon'.stage = daemon.stage /\ daemon'.rows = daemon.rows
             /\ \A c \in Charts : Earlier(log[c], log'[c])
<1>1. log \in [Charts -> Row] /\ daemon \in Daemons /\ restores \in Nat
  BY DEF Types, GameTyped
<1>2. ASSUME log' = log PROVE \A c \in Charts : Earlier(log[c], log'[c])
  BY <1>1, <1>2, EarlierIsOrder
<1>3. ASSUME Tick \/ (\E s \in Slots, c \in Charts, k \in Kinds, whole \in BOOLEAN :
                         WriteReplay(s, c, k, whole)) \/ (\E s \in Slots : FinishReplay(s))
      PROVE  Moves
  BY <1>1, <1>2, <1>3 DEF Tick, WriteReplay, FinishReplay, scoreVars, replayVars
<1>4. ASSUME NEW c \in Charts, WriteBest(c) PROVE Moves
  <2>1. daemon' = daemon \/ daemon' = [daemon EXCEPT !.touched = TRUE]
    BY <1>4 DEF WriteBest
  <2>2. daemon'.stage = daemon.stage /\ daemon'.rows = daemon.rows
    BY <1>1, <2>1 DEF Daemons
  <2> QED
    BY <1>1, <1>2, <1>4, <2>2 DEF WriteBest, scoreVars, replayVars
<1>5. ASSUME NEW c \in Charts, PlayChart(c) PROVE Moves
  <2>1. daemon'.stage = daemon.stage /\ daemon'.rows = daemon.rows
    BY <1>5, LogWrittenIs DEF PlayChart
  <2>2. /\ log' = [log EXCEPT ![c] = [count |-> log[c].count + 1, version |-> 0, at |-> now]]
        /\ log[c].count < MaxCount /\ now \in Times
    BY <1>5 DEF PlayChart, Types, GameTyped
  <2>3. log[c] \in Row /\ MaxCount \in Nat
    BY <1>1
  <2>4. [count |-> log[c].count + 1, version |-> 0, at |-> now] \in Row
    BY <2>2, <2>3 DEF Row
  <2>5. Earlier(log[c], log'[c])
    BY <1>1, <2>2, <2>3 DEF Earlier, Row
  <2>6. \A d \in Charts : Earlier(log[d], log'[d])
    BY <1>1, <2>2, <2>5, EarlierIsOrder
  <2> QED
    BY <1>1, <1>5, <2>1, <2>2, <2>4, <2>6 DEF PlayChart, replayVars
<1>6. ASSUME NEW c \in Charts, CorrectPlay(c) PROVE Moves
  <2>1. daemon'.stage = daemon.stage /\ daemon'.rows = daemon.rows
    BY <1>6, LogWrittenIs DEF CorrectPlay
  <2>2. log[c] \in Row /\ log[c].version = 0
    BY <1>1, <1>6 DEF CorrectPlay
  <2>3. log' = [log EXCEPT ![c] = [log[c] EXCEPT !.version = 1]]
    BY <1>6 DEF CorrectPlay
  <2>4. [log[c] EXCEPT !.version = 1] = [count |-> log[c].count, version |-> 1, at |-> log[c].at]
    BY <2>2 DEF Row
  <2>5. [log[c] EXCEPT !.version = 1] \in Row
    BY <2>2, <2>4 DEF Row
  <2>6. Earlier(log[c], log'[c])
    BY <1>1, <2>2, <2>3, <2>4 DEF Earlier, Row
  <2>7. \A d \in Charts : Earlier(log[d], log'[d])
    BY <1>1, <2>3, <2>6, EarlierIsOrder
  <2> QED
    BY <1>1, <1>6, <2>1, <2>3, <2>5, <2>7 DEF CorrectPlay, replayVars
<1>7. ASSUME NEW older, NEW write, Restore(older, write) PROVE FALSE
  BY <1>1, <1>7 DEF Restore
<1> QED
  BY <1>3, <1>4, <1>5, <1>6, <1>7 DEF Game

LEMMA CursorsStayEarlier ==
    ASSUME IInv, CursorsEarlier, [Next]_vars
    PROVE  CursorsEarlier'
<1> SUFFICES ASSUME restores' = 0 PROVE CursorsEarlier'
  BY DEF CursorsEarlier
<1> DEFINE Ordered ==
             \A g \in Generations, c \in Charts :
               /\ Earlier(cursor'[<<g, c>>], log'[c])
               /\ daemon'.stage \in {"score", "commit"} =>
                    Earlier(cursor'[<<g, c>>], daemon'.rows[c]) /\ Earlier(daemon'.rows[c], log'[c])
<1>1. SUFFICES Ordered
  BY DEF CursorsEarlier, Earlier
<1>2. /\ Types /\ log \in [Charts -> Row] /\ daemon \in Daemons
      /\ cursor \in [Generations \X Charts -> Row] /\ \A c \in Charts : daemon.rows[c] \in Row
  BY DEF IInv, Types, GameTyped, StoreTyped, Daemons
<1>3. \A g \in Generations, c \in Charts : cursor[<<g, c>>] \in Row
  BY <1>2
<1>4. CASE Game
  BY <1>2, <1>3, <1>4, LogMoves, EarlierIsOrder DEF CursorsEarlier
<1>5. ASSUME ~Game PROVE restores = 0 /\ log' = log
  BY <1>5 DEF Next, Backfill, Poll, SkipRead, ReadLog, ReadScore, Commit, List, Scan, Busy,
              Crash, vars, gameVars
<1>6. ASSUME ~Game
      PROVE  \A g \in Generations, c \in Charts :
               /\ Earlier(cursor[<<g, c>>], log[c])
               /\ daemon.stage \in {"score", "commit"} =>
                    Earlier(cursor[<<g, c>>], daemon.rows[c]) /\ Earlier(daemon.rows[c], log[c])
  BY <1>5, <1>6 DEF CursorsEarlier
<1>7. Waiting.stage = "wait"
  BY DEF Waiting
<1>8. CASE ~Game /\ (SkipRead \/ List \/ Scan \/ Busy \/ Crash)
  <2>1. cursor' = cursor
    BY <1>8 DEF SkipRead, List, Scan, Busy, Crash, scoreVars
  <2>2. daemon'.stage \notin {"score", "commit"}
    BY <1>2, <1>7, <1>8 DEF SkipRead, List, Scan, Busy, Crash, Fail, Waiting, Daemons
  <2> QED
    BY <1>5, <1>6, <1>8, <2>1, <2>2
<1>9. CASE ~Game /\ ReadLog
  <2>1. cursor' = cursor /\ daemon'.rows = log
    BY <1>9 DEF ReadLog, scoreVars, Waiting
  <2> QED
    BY <1>2, <1>5, <1>6, <1>9, <2>1, EarlierIsOrder
<1>10. CASE ~Game /\ ReadScore
  <2>1. cursor' = cursor /\ daemon.stage = "score"
        /\ (daemon'.rows = daemon.rows \/ daemon'.stage \notin {"score", "commit"})
    BY <1>2, <1>7, <1>10 DEF ReadScore, Fail, Waiting, Daemons
  <2> QED
    BY <1>5, <1>6, <1>10, <2>1
<1>11. CASE ~Game /\ Commit
  <2>1. daemon'.stage = "list"
    BY <1>11 DEF Commit, Waiting
  <2>2. \A g \in Generations, c \in Charts :
           cursor'[<<g, c>>] = daemon.rows[c] \/ cursor'[<<g, c>>] = cursor[<<g, c>>]
    BY <1>11, CursorAfterCommit
  <2>3. daemon.stage = "commit"
    BY <1>11 DEF Commit
  <2> QED
    BY <1>5, <1>6, <1>11, <2>1, <2>2, <2>3
<1>12. CASE ~Game /\ Backfill
  <2>1. daemon' = daemon /\ daemon.stage = "wait"
    BY <1>7, <1>12 DEF Backfill
  <2>2. \A g \in Generations, c \in Charts :
           cursor'[<<g, c>>] = log[c] \/ cursor'[<<g, c>>] = cursor[<<g, c>>]
    BY <1>12, BackfillIs DEF UpsertCursor
  <2> QED
    BY <1>2, <1>5, <1>6, <1>12, <2>1, <2>2, EarlierIsOrder
<1>13. CASE ~Game /\ UNCHANGED vars
  BY <1>5, <1>6, <1>13 DEF vars, scoreVars
<1> QED
  BY <1>4, <1>8, <1>9, <1>10, <1>11, <1>12, <1>13 DEF Next, Poll

\* u is s, of length m, followed by t, of length n.
IsSequence(s, n) == s = [i \in 1..n |-> s[i]]
Appended(u, s, m, t, n) ==
    /\ IsSequence(u, m + n)
    /\ \A i \in 1..m : u[i] = s[i]
    /\ \A i \in 1..(m + n) : i \notin 1..m => i - m \in 1..n /\ u[i] = t[i - m]

LEMMA Concatenated ==
    \A s, t : \A m, n \in Nat :
      IsSequence(s, m) /\ IsSequence(t, n) => Appended(s \o t, s, m, t, n)
<1> SUFFICES ASSUME NEW s, NEW t, NEW m \in Nat, NEW n \in Nat,
                    IsSequence(s, m), IsSequence(t, n)
             PROVE  Appended(s \o t, s, m, t, n)
  OBVIOUS
<1> DEFINE S == {s[i] : i \in 1..m} \cup {t[i] : i \in 1..n}
<1>1. s \in [1..m -> S] /\ t \in [1..n -> S]
  <2>1. (\A i \in 1..m : s[i] \in S) /\ (\A i \in 1..n : t[i] \in S)
    OBVIOUS
  <2> HIDE DEF S
  <2>2. [i \in 1..m |-> s[i]] \in [1..m -> S] /\ [i \in 1..n |-> t[i]] \in [1..n -> S]
    BY <2>1
  <2> QED
    BY <2>2 DEF IsSequence
<1>2. s \in Seq(S) /\ t \in Seq(S) /\ Len(s) = m /\ Len(t) = n
  <2> HIDE DEF S
  <2>1. s \in Seq(S) /\ t \in Seq(S)
    BY <1>1, SeqDef
  <2> QED
    BY <1>1, <2>1, LenProperties
<1> HIDE DEF S
<1>3. s \o t \in Seq(S) /\ Len(s \o t) = m + n
  BY <1>2, ConcatProperties
<1>4. \A i \in 1..(m + n) : (s \o t)[i] = IF i <= m THEN s[i] ELSE t[i - m]
  BY <1>2, ConcatProperties
<1>5. s \o t \in [1..(m + n) -> S]
  BY <1>3, LenProperties
<1>6. s \o t = [i \in 1..(m + n) |-> (s \o t)[i]]
  BY <1>5
<1>7. \A i \in 1..m : i \in 1..(m + n) /\ i <= m
  OBVIOUS
<1>8. \A i \in 1..(m + n) : i \notin 1..m => i - m \in 1..n /\ ~(i <= m)
  OBVIOUS
<1> QED
  BY <1>4, <1>6, <1>7, <1>8 DEF IsSequence, Appended

LEMMA NewEntriesAre ==
    ASSUME Types
    PROVE  \E n \in Nat :
             /\ NewEntries = [i \in 1..n |-> NewEntries[i]]
             /\ \A i \in 1..n : \E s : NewEntries[i] =
                   [slot |-> s, file |-> replay[s], status |-> Status(replay[s]),
                    play |-> MatchedPlay(replay[s])]
<1> DEFINE new == {s \in Valid : ~Ingested(s)}
           Nth(n) == CHOOSE s \in new : Cardinality({t \in new : t < s}) = n - 1
           Entry(s) == [slot |-> s, file |-> replay[s],
                        status |-> Status(replay[s]), play |-> MatchedPlay(replay[s])]
<1>1. NewEntries = [n \in 1..Cardinality(new) |-> Entry(Nth(n))]
  BY DEF NewEntries
<1>2. Cardinality(new) \in Nat
  <2>1. new \subseteq Slots
    BY DEF Valid, Selected, Eligible, Listed, Unseen, Changed
  <2> HIDE DEF new, Nth, Entry
  <2>2. 1 \in Int /\ SlotCount \in Int
    <3>1. SlotCount \in Nat
      BY Zenon
    <3> QED
      BY <3>1
  <2>3. IsFiniteSet(Slots)
    BY <2>2, FS_Interval DEF Slots
  <2> QED
    BY <2>1, <2>3, FS_Subset, FS_CardinalityType
<1> HIDE DEF new
<1>3. \A i \in 1..Cardinality(new) : NewEntries[i] = Entry(Nth(i))
  BY <1>1
<1>4. NewEntries = [i \in 1..Cardinality(new) |-> NewEntries[i]]
  BY <1>1
<1> HIDE DEF Nth
<1>5. \A i \in 1..Cardinality(new) : \E s : NewEntries[i] =
         [slot |-> s, file |-> replay[s], status |-> Status(replay[s]),
          play |-> MatchedPlay(replay[s])]
  BY <1>3
<1> QED
  BY <1>2, <1>4, <1>5

\* A nonempty set of indices has a largest one.
LEMMA LastIndex ==
    ASSUME NEW n \in Nat, NEW s \in SUBSET (1..n), s # {}
    PROVE  Max(s) \in s
<1> DEFINE T == {k \in Nat : n - k \in s}
<1>1. T # {} /\ T \subseteq Nat
  <2>1. PICK e \in s : TRUE
    OBVIOUS
  <2>2. n - e \in Nat /\ n - (n - e) = e
    BY <2>1
  <2> QED
    BY <2>1, <2>2
<1>2. PICK k \in T : \A j \in T : <<j, k>> \notin OpToRel(<, Nat)
  <2> HIDE DEF T
  <2> QED
    BY <1>1, NatLessThanWellFounded, WFMin, Zenon
<1>3. \A e \in s : n - k >= e
  <2> TAKE e \in s
  <2>1. e \in 1..n /\ k \in Nat
    BY <1>1
  <2>2. SUFFICES ASSUME e > n - k PROVE FALSE
    BY <2>1
  <2>3. n - e \in Nat /\ n - (n - e) = e
    BY <2>1
  <2>4. n - e \in T
    BY <2>3
  <2>5. n - e < k
    BY <2>1, <2>2, <2>3
  <2>6. <<n - e, k>> \in OpToRel(<, Nat)
    BY <2>1, <2>3, <2>5 DEF OpToRel
  <2> QED
    BY <1>2, <2>4, <2>6
<1>4. n - k \in s
  OBVIOUS
<1> HIDE DEF T
<1> QED
  BY <1>3, <1>4 DEF Max

\* A replay is matched with a play that is recorded, or with none.
LEMMA MatchedIs ==
    /\ \A file : MatchedPlay(file) \in DOMAIN plays \cup {NoPlay}
    /\ \A e : IsEntry(e) => IsEntry(Rematched(e)) /\ Rematched(e).file = e.file
<1>1. ASSUME NEW file
      PROVE  MatchedPlay(file) \in DOMAIN plays \cup {NoPlay}
  <2>1. CASE Status(file) = "matched"
    <3>1. Matches(file) # {}
      BY <2>1, FS_EmptySet DEF Status
    <3>2. Matches(file) \subseteq DOMAIN plays
      BY DEF Matches
    <3> QED
      BY <2>1, <3>1, <3>2 DEF MatchedPlay
  <2>2. CASE Status(file) # "matched"
    BY <2>2 DEF MatchedPlay
  <2> QED
    BY <2>1, <2>2
<1>2. ASSUME NEW e, IsEntry(e)
      PROVE  IsEntry(Rematched(e)) /\ Rematched(e).file = e.file
  <2>1. CASE Status(e.file) = "unmatched"
    BY <1>2, <2>1 DEF Rematched
  <2>2. CASE Status(e.file) # "unmatched"
    <3>1. Rematched(e) = [slot |-> e.slot, file |-> e.file, status |-> Status(e.file),
                          play |-> MatchedPlay(e.file)]
      BY <1>2, <2>2 DEF Rematched, IsEntry
    <3> QED
      BY <1>1, <3>1 DEF IsEntry
  <2> QED
    BY <2>1, <2>2
<1> QED
  BY <1>1, <1>2

\* A scan appends entries and keeps of an older one what it read of the file.
LEMMA HistoryScanned ==
    ASSUME Types, HistoryTyped
    PROVE  \E k \in Nat :
             /\ HistoryAfterScan = [i \in 1..k |-> HistoryAfterScan[i]]
             /\ DOMAIN history \subseteq 1..k
             /\ \A i \in 1..k : IsEntry(HistoryAfterScan[i])
             /\ \A i \in DOMAIN history : HistoryAfterScan[i].file = history[i].file
<1> DEFINE Older == [i \in DOMAIN history |->
                       IF history[i].slot \in Valid /\ history[i].file = replay[history[i].slot]
                       THEN Rematched(history[i]) ELSE history[i]]
<1>1. PICK m \in Nat : history = [i \in 1..m |-> history[i]]
  BY DEF HistoryTyped
<1>2. DOMAIN history = 1..m
  BY <1>1
<1>3. \A i \in 1..m : IsEntry(Older[i]) /\ Older[i].file = history[i].file
  BY <1>2, MatchedIs DEF HistoryTyped
<1>4. Older = [i \in 1..m |-> Older[i]]
  BY <1>2
<1>5. PICK n \in Nat :
         /\ NewEntries = [i \in 1..n |-> NewEntries[i]]
         /\ \A i \in 1..n : \E s : NewEntries[i] =
               [slot |-> s, file |-> replay[s], status |-> Status(replay[s]),
                play |-> MatchedPlay(replay[s])]
  BY NewEntriesAre
<1>6. \A i \in 1..n : IsEntry(NewEntries[i])
  <2> TAKE i \in 1..n
  <2>1. PICK s : NewEntries[i] = [slot |-> s, file |-> replay[s], status |-> Status(replay[s]),
                                  play |-> MatchedPlay(replay[s])]
    BY <1>5
  <2>2. MatchedPlay(replay[s]) \in DOMAIN plays \cup {NoPlay}
    BY MatchedIs
  <2> HIDE DEF Older
  <2> QED
    BY <2>1, <2>2 DEF IsEntry
<1>7. HistoryAfterScan = Older \o NewEntries
  BY DEF HistoryAfterScan
<1> HIDE DEF Older
<1>8. /\ HistoryAfterScan = [i \in 1..(m + n) |-> HistoryAfterScan[i]]
      /\ \A i \in 1..m : HistoryAfterScan[i] = Older[i]
      /\ \A i \in 1..(m + n) : i \notin 1..m => i - m \in 1..n
                                                /\ HistoryAfterScan[i] = NewEntries[i - m]
  <2>1. IsSequence(Older, m) /\ IsSequence(NewEntries, n)
    BY <1>4, <1>5 DEF IsSequence
  <2>2. Appended(Older \o NewEntries, Older, m, NewEntries, n)
    BY <2>1, Concatenated
  <2> QED
    BY <1>7, <2>2 DEF Appended, IsSequence
<1>9. \A i \in 1..(m + n) : IsEntry(HistoryAfterScan[i])
  BY <1>3, <1>6, <1>8
<1>10. m + n \in Nat /\ DOMAIN history \subseteq 1..(m + n)
  BY <1>2
<1> QED
  BY <1>2, <1>3, <1>8, <1>9, <1>10

\* A play the scan does not refresh keeps its latest replay.
LEMMA GaugeKept ==
    ASSUME Types, HistoryTyped, NEW p \in DOMAIN plays, p \notin Refreshed
    PROVE  GaugeOf(HistoryAfterScan, p) = GaugeOf(history, p)
<1> DEFINE matched == {i \in DOMAIN history : history[i].play = p}
           after == {i \in DOMAIN HistoryAfterScan : HistoryAfterScan[i].play = p}
<1>1. PICK k \in Nat :
             /\ HistoryAfterScan = [i \in 1..k |-> HistoryAfterScan[i]]
             /\ DOMAIN history \subseteq 1..k
             /\ \A i \in DOMAIN history : HistoryAfterScan[i].file = history[i].file
  BY HistoryScanned
<1>2. DOMAIN HistoryAfterScan = 1..k
  BY <1>1
<1>3. p # NoPlay
  <2>1. p \in PlayId
    BY DEF Types, StoreTyped
  <2> QED
    BY <2>1 DEF PlayId, NoPlay, Counts
<1>4. \A i \in 1..k :
         LET before == IF i \in DOMAIN history THEN history[i].play ELSE NoPlay
         IN before = HistoryAfterScan[i].play \/ p \notin {before, HistoryAfterScan[i].play}
  BY <1>2 DEF Refreshed
<1>5. after = matched
  BY <1>1, <1>2, <1>3, <1>4
<1>6. CASE matched = {}
  BY <1>5, <1>6 DEF GaugeOf
<1>7. CASE matched # {}
  <2>1. matched \in SUBSET (1..k) /\ matched \subseteq DOMAIN history
    BY <1>1
  <2>2. GaugeOf(HistoryAfterScan, p) = HistoryAfterScan[Max(after)].file.kind
        /\ GaugeOf(history, p) = history[Max(matched)].file.kind
    BY <1>5, <1>7 DEF GaugeOf
  <2> HIDE DEF matched, after
  <2>3. Max(matched) \in matched
    BY <1>7, <2>1, LastIndex
  <2> QED
    BY <1>1, <1>5, <2>1, <2>2, <2>3
<1> QED
  BY <1>6, <1>7

\* A play that is not recorded has no replay.
LEMMA UnrecordedIsUnmatched ==
    HistoryTyped => \A p : p \notin DOMAIN plays /\ p # NoPlay => GaugeOf(history, p) = "none"
BY DEF HistoryTyped, IsEntry, GaugeOf

\* Recording plays leaves the history as it is.
LEMMA HistoryStaysTyped ==
    ASSUME HistoryTyped, history' = history, DOMAIN plays \subseteq DOMAIN plays'
    PROVE  HistoryTyped'
BY DEF HistoryTyped, IsEntry

LEMMA ScanGauges ==
    ASSUME IInv, GaugeInv, Scan
    PROVE  HistoryTyped' /\ GaugeOfLatestReplay'
<1>1. /\ history' = HistoryAfterScan /\ restores' = restores
      /\ DOMAIN plays' = DOMAIN plays
      /\ \A p \in DOMAIN plays :
            plays'[p] = IF p \in Refreshed
                        THEN [plays[p] EXCEPT !.gauge = GaugeOf(HistoryAfterScan, p)]
                        ELSE plays[p]
  BY DEF Scan, gameVars
<1>2. Types /\ HistoryTyped /\ GaugeOfLatestReplay
  BY DEF IInv, GaugeInv
<1>3. HistoryTyped'
  <2>1. PICK k \in Nat : /\ HistoryAfterScan = [i \in 1..k |-> HistoryAfterScan[i]]
                         /\ \A i \in 1..k : IsEntry(HistoryAfterScan[i])
    BY <1>2, HistoryScanned
  <2>2. DOMAIN history' = 1..k /\ history' = [i \in 1..k |-> history'[i]]
    BY <1>1, <2>1
  <2>3. \A e : IsEntry(e) =>
           /\ e = [slot |-> e.slot, file |-> e.file, status |-> e.status, play |-> e.play]
           /\ e.play \in DOMAIN plays' \cup {NoPlay}
    BY <1>1 DEF IsEntry
  <2> QED
    BY <1>1, <2>1, <2>2, <2>3 DEF HistoryTyped, IsEntry
<1>4. ASSUME NEW p \in DOMAIN plays, plays'[p].version = 0, restores' = 0
      PROVE  plays'[p].gauge = GaugeOf(HistoryAfterScan, p)
  <2>1. IsPlay(plays[p]) /\ plays'[p].version = plays[p].version
    BY <1>2, ScanIs DEF Types, StoreTyped
  <2>2. CASE p \in Refreshed
    <3>1. plays[p] = [version |-> plays[p].version, at |-> plays[p].at, best |-> plays[p].best,
                      lost |-> plays[p].lost, gauge |-> plays[p].gauge]
      BY <2>1 DEF IsPlay
    <3>2. plays'[p] = [plays[p] EXCEPT !.gauge = GaugeOf(HistoryAfterScan, p)]
      BY <1>1, <2>2
    <3> QED
      BY <3>1, <3>2
  <2>3. CASE p \notin Refreshed
    <3>1. plays'[p] = plays[p] /\ plays[p].gauge = GaugeOf(history, p)
      BY <1>1, <1>2, <1>4, <2>1, <2>3 DEF GaugeOfLatestReplay
    <3> QED
      BY <1>2, <2>3, <3>1, GaugeKept
  <2> QED
    BY <2>2, <2>3
<1>5. \A p : GaugeOf(history, p)' = GaugeOf(HistoryAfterScan, p)
  BY <1>1 DEF GaugeOf
<1> QED
  BY <1>1, <1>3, <1>4, <1>5 DEF GaugeOfLatestReplay

\* A corrected play is told by its version; a fresh one has no replay yet.
LEMMA CommitGauges ==
    ASSUME IInv, GaugeInv, Commit
    PROVE  HistoryTyped' /\ GaugeOfLatestReplay'
<1>1. history' = history /\ restores' = restores /\ daemon.stage = "commit"
  BY DEF Commit, gameVars, replayVars
<1>2. HistoryTyped /\ GaugeOfLatestReplay /\ CursorsEarlier
  BY DEF GaugeInv
<1>3. HistoryTyped'
  BY <1>1, <1>2, InsertedIs, HistoryStaysTyped
<1>4. \A p : GaugeOf(history, p)' = GaugeOf(history, p)
  BY <1>1 DEF GaugeOf
<1>5. ASSUME NEW c \in Fresh \cup Corrected
      PROVE  /\ c \in Charts /\ daemon.rows[c].count \in Counts /\ Id(c) # NoPlay
  <2>1. c \in Charts /\ daemon.rows[c].count \in Counts
    BY CommitIs
  <2> QED
    BY <2>1 DEF Id, NoPlay, Counts
<1>6. \A row, b, l : Derived(row, b, l).gauge = "none" /\ Derived(row, b, l).version = row.version
  BY DEF Derived
<1>7. ASSUME NEW c \in Corrected, restores = 0
      PROVE  daemon.rows[c].version # 0
  <2>1. /\ c \in Charts /\ Cursor(c) = cursor[<<Target, c>>] /\ Target \in Generations
        /\ daemon.rows[c] \in Row /\ Cursor(c) \in Row
        /\ daemon.rows[c].count = Cursor(c).count /\ daemon.rows[c].count \in Counts
    BY CommitIs
  <2>2. Earlier(Cursor(c), daemon.rows[c])
    BY <1>1, <1>2, <1>7, <2>1 DEF CursorsEarlier
  <2>3. daemon.rows[c] # Cursor(c)
    BY DEF Corrected
  <2> QED
    BY <2>1, <2>2, <2>3 DEF Earlier, Row, Counts
<1>8. ASSUME NEW p \in DOMAIN plays', plays'[p].version = 0, restores = 0
      PROVE  plays'[p].gauge = GaugeOf(history, p)
  <2>1. CASE p \in DOMAIN plays /\ plays'[p] = plays[p]
    BY <1>2, <1>8, <2>1 DEF GaugeOfLatestReplay
  <2>2. ASSUME NEW c \in Corrected, p = Id(c) PROVE FALSE
    <3>1. plays'[p].version = daemon.rows[c].version
      BY <1>6, <2>2, InsertedIs
    <3> QED
      BY <1>7, <1>8, <3>1
  <2>3. ASSUME NEW c \in Fresh, p = Id(c), p \notin DOMAIN plays
        PROVE  plays'[p].gauge = GaugeOf(history, p)
    <3>1. plays'[p].gauge = "none" /\ p # NoPlay
      BY <1>5, <1>6, <2>3, InsertedIs
    <3> QED
      BY <1>2, <2>3, <3>1, UnrecordedIsUnmatched
  <2> QED
    BY <2>1, <2>2, <2>3, InsertedIs
<1> QED
  BY <1>1, <1>3, <1>4, <1>8 DEF GaugeOfLatestReplay

LEMMA BackfillGauges ==
    ASSUME IInv, GaugeInv, Backfill
    PROVE  HistoryTyped' /\ GaugeOfLatestReplay'
<1>1. history' = history /\ restores' = restores
  BY DEF Backfill, gameVars, replayVars
<1>2. HistoryTyped /\ GaugeOfLatestReplay
  BY DEF GaugeInv
<1>3. PICK rows \in SUBSET Charts :
         /\ \A c \in rows : log[c].count \in Counts
         /\ DOMAIN plays' = DOMAIN plays \cup {<<0, c, log[c].count>> : c \in rows}
         /\ \A p \in DOMAIN plays : plays'[p] = plays[p]
         /\ \A c \in rows : <<0, c, log[c].count>> \notin DOMAIN plays =>
               plays'[<<0, c, log[c].count>>] = Derived(log[c], best[c], 0)
  BY BackfillIs
<1>4. HistoryTyped'
  BY <1>1, <1>2, <1>3, HistoryStaysTyped
<1>5. \A p : GaugeOf(history, p)' = GaugeOf(history, p)
  BY <1>1 DEF GaugeOf
<1>6. ASSUME NEW p \in DOMAIN plays', p \notin DOMAIN plays
      PROVE  plays'[p].gauge = GaugeOf(history, p)
  <2>1. PICK c \in rows : p = <<0, c, log[c].count>>
    BY <1>3, <1>6
  <2>2. plays'[p].gauge = "none" /\ p # NoPlay
    <3>1. plays'[p] = Derived(log[c], best[c], 0) /\ log[c].count \in Counts
      BY <1>3, <1>6, <2>1
    <3>2. p # NoPlay
      BY <2>1, <3>1 DEF NoPlay, Counts
    <3> QED
      BY <3>1, <3>2 DEF Derived
  <2> QED
    BY <1>2, <1>6, <2>2, UnrecordedIsUnmatched
<1> QED
  BY <1>1, <1>2, <1>3, <1>4, <1>5, <1>6 DEF GaugeOfLatestReplay

LEMMA NextGauges == IInv /\ GaugeInv /\ [Next]_vars => GaugeInv'
<1> SUFFICES ASSUME IInv, GaugeInv, [Next]_vars PROVE GaugeInv'
  OBVIOUS
<1>1. CursorsEarlier'
  BY CursorsStayEarlier DEF GaugeInv
<1> SUFFICES HistoryTyped' /\ GaugeOfLatestReplay'
  BY <1>1 DEF GaugeInv
<1>2. ASSUME UNCHANGED <<plays, history>>, restores' = 0 => restores = 0
      PROVE  HistoryTyped' /\ GaugeOfLatestReplay'
  <2>1. HistoryTyped' /\ \A p : GaugeOf(history, p)' = GaugeOf(history, p)
    BY <1>2 DEF GaugeInv, HistoryTyped, IsEntry, GaugeOf
  <2> QED
    BY <1>2, <2>1 DEF GaugeInv, GaugeOfLatestReplay
<1>3. CASE Game
  <2>1. UNCHANGED <<plays, history>>
    BY <1>3 DEF Game, Tick, PlayChart, WriteBest, CorrectPlay, WriteReplay, FinishReplay, Restore,
                scoreVars, replayVars
  <2>2. restores' = 0 => restores = 0
    BY <1>3, LogMoves DEF IInv
  <2> QED
    BY <1>2, <2>1, <2>2
<1>4. CASE SkipRead \/ ReadLog \/ ReadScore \/ List \/ Busy \/ Crash
  <2>1. UNCHANGED <<plays, history, restores>>
    BY <1>4 DEF SkipRead, ReadLog, ReadScore, List, Busy, Crash, gameVars, scoreVars, replayVars
  <2> QED
    BY <1>2, <2>1
<1>5. CASE UNCHANGED vars
  BY <1>2, <1>5 DEF vars, gameVars, scoreVars, replayVars
<1> QED
  BY <1>3, <1>4, <1>5, ScanGauges, CommitGauges, BackfillGauges DEF Next, Poll

LEMMA InitGauges == Init => GaugeInv
<1> SUFFICES ASSUME Init PROVE GaugeInv
  OBVIOUS
<1>1. CursorsEarlier
  BY DEF Init, CursorsEarlier, Earlier, NoRow, Waiting
<1>2. history = [i \in 1..0 |-> history[i]] /\ DOMAIN history = {} /\ DOMAIN plays = {}
  BY DEF Init
<1>3. 0 \in Nat
  OBVIOUS
<1> QED
  BY <1>1, <1>2, <1>3 DEF GaugeInv, HistoryTyped, GaugeOfLatestReplay

(***************************************************************************)
(* Of a database never put back, a play that was not corrected shows the   *)
(* gauge of the latest replay matched with it (refresh_play_gauge after    *)
(* insert_replay and the rematching of older replays).                     *)
(***************************************************************************)
THEOREM GaugesFollowReplays == Spec => []GaugeOfLatestReplay
<1>1. GaugeInv => GaugeOfLatestReplay
  BY DEF GaugeInv
<1> QED
  BY <1>1, SpecIInv, InitGauges, NextGauges, PTL DEF Spec
=============================================================================
