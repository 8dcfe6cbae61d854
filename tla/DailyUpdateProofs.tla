------------------------- MODULE DailyUpdateProofs -------------------------
(***************************************************************************)
(* What DailyUpdate guarantees for every set of charts, commands and files *)
(* and however many plays, starts and crashes there are.  The argument     *)
(* rests on refusing a pair that runs backwards: a chart's cursor is never *)
(* below the count of a play of it, so what an import adds to plays is     *)
(* new, and the sum of rows and lost events (a fold, of which two lemmas   *)
(* tell all that is needed) grows as the cursor does.  A file is only ever *)
(* written with what a directory renamed before it holds.                  *)
(***************************************************************************)
EXTENDS DailyUpdate, FiniteSetTheorems, SequenceTheorems, TLAPS

-----------------------------------------------------------------------------
(* Counting plays and lost events.                                         *)

\* Induction over finite sets: some members of a family of subsets of a finite
\* set have no smaller one in the family.
LEMMA SmallestSubset ==
    ASSUME NEW S, IsFiniteSet(S), NEW T, T \subseteq SUBSET S, T # {}
    PROVE  \E m \in T : \A u \in T : u \subseteq m => u = m
<1>1. IsWellFoundedOn(StrictSubsetOrdering(S), SUBSET S)
  BY FS_StrictSubsetOrderingWellFounded, FS_FiniteSubsetsOfFinite
<1>2. PICK m \in T : \A u \in T : <<u, m>> \notin StrictSubsetOrdering(S)
  BY <1>1, WFMin
<1>3. ASSUME NEW u \in T, u \subseteq m PROVE u = m
  <2>1. <<u, m>> \in (SUBSET S) \X (SUBSET S)
    OBVIOUS
  <2> QED
    BY <1>2, <1>3, <2>1 DEF StrictSubsetOrdering
<1> QED
  BY <1>3

Some(s) == CHOOSE x \in s : TRUE

\* The function that MapThenSumSet builds for Events.
IsTotal(g, S) ==
    g = [s \in SUBSET S |-> IF s = {} THEN 0
                            ELSE (1 + Some(s).lost) + g[s \ {Some(s)}]]

\* All such functions give a set the same value.
LEMMA TotalsAgree ==
    ASSUME NEW S, IsFiniteSet(S), NEW R, NEW g, NEW h, IsTotal(g, S), IsTotal(h, R),
           S \subseteq R
    PROVE  \A s \in SUBSET S : g[s] = h[s]
<1> DEFINE T == {s \in SUBSET S : g[s] # h[s]}
<1> SUFFICES ASSUME T # {} PROVE FALSE
  OBVIOUS
<1>1. PICK s \in T : \A u \in T : u \subseteq s => u = s
  <2>1. T \subseteq SUBSET S
    OBVIOUS
  <2> HIDE DEF T
  <2> QED
    BY <2>1, SmallestSubset
<1>2. s \in SUBSET S /\ s \in SUBSET R /\ g[s] # h[s]
  OBVIOUS
<1>3. CASE s = {}
  BY <1>2, <1>3 DEF IsTotal
<1>4. CASE s # {}
  <2>1. Some(s) \in s
    BY <1>4 DEF Some
  <2>2. g[s \ {Some(s)}] = h[s \ {Some(s)}]
    BY <1>1, <1>2, <2>1
  <2> QED
    BY <1>2, <1>4, <2>2 DEF IsTotal
<1> QED
  BY <1>3, <1>4

\* There is one for every finite set.
LEMMA TotalExists ==
    ASSUME NEW S, IsFiniteSet(S)
    PROVE  \E g : IsTotal(g, S)
<1> DEFINE Total(s) == CHOOSE g : IsTotal(g, s)
           T == {s \in SUBSET S : ~ \E g : IsTotal(g, s)}
<1> SUFFICES ASSUME T # {} PROVE FALSE
  OBVIOUS
<1>1. PICK s \in T : \A u \in T : u \subseteq s => u = s
  <2>1. T \subseteq SUBSET S
    OBVIOUS
  <2> HIDE DEF T
  <2> QED
    BY <2>1, SmallestSubset
<1>2. \A u \in (SUBSET s) \ {s} : IsTotal(Total(u), u)
  BY <1>1
<1>3. \A u \in SUBSET s : IsFiniteSet(u)
  BY <1>1, FS_Subset
<1> DEFINE value(u) == IF u = {} THEN 0 ELSE (1 + Some(u).lost) + Total(u \ {Some(u)})[u \ {Some(u)}]
           g == [u \in SUBSET s |-> value(u)]
<1> HIDE DEF Total
<1>4. ASSUME NEW u \in (SUBSET s) \ {s} PROVE Total(u)[u] = value(u)
  <2>1. IsTotal(Total(u), u)
    BY <1>2
  <2>2. CASE u = {}
    BY <2>1, <2>2 DEF IsTotal
  <2>3. CASE u # {}
    <3> DEFINE v == u \ {Some(u)}
    <3>1. Some(u) \in u
      BY <2>3 DEF Some
    <3>2. v \in (SUBSET s) \ {s} /\ v \subseteq u
      BY <3>1
    <3>3. IsTotal(Total(v), v) /\ IsFiniteSet(v)
      BY <1>2, <1>3, <3>2
    <3>4. Total(v)[v] = Total(u)[v]
      <4> HIDE DEF v
      <4> QED
        BY <2>1, <3>2, <3>3, TotalsAgree
    <3>5. Total(u)[u] = (1 + Some(u).lost) + Total(u)[v]
      BY <2>1, <2>3 DEF IsTotal
    <3> QED
      BY <2>3, <3>4, <3>5
  <2> QED
    BY <2>2, <2>3
<1>5. ASSUME NEW u \in SUBSET s, u # {} PROVE g[u] = (1 + Some(u).lost) + g[u \ {Some(u)}]
  <2> DEFINE v == u \ {Some(u)}
  <2>1. Some(u) \in u
    BY <1>5 DEF Some
  <2>2. v \in (SUBSET s) \ {s}
    BY <2>1
  <2>3. g[v] = Total(v)[v]
    BY <1>4, <2>2
  <2> QED
    BY <1>5, <2>3
<1>6. g[{}] = 0
  OBVIOUS
<1>7. IsTotal(g, s)
  <2>1. \A u \in SUBSET s : g[u] = IF u = {} THEN 0 ELSE (1 + Some(u).lost) + g[u \ {Some(u)}]
    BY <1>5, <1>6
  <2>2. g = [u \in SUBSET s |-> g[u]]
    OBVIOUS
  <2> HIDE DEF g
  <2> QED
    BY <2>1, <2>2 DEF IsTotal
<1> QED
  BY <1>1, <1>7

\* What Events computes: nothing is nothing, and a set with some row is that
\* row and the set without it.
LEMMA EventsDef ==
    /\ Events({}) = 0
    /\ \A rows : IsFiniteSet(rows) /\ rows # {} =>
          Events(rows) = (1 + Some(rows).lost) + Events(rows \ {Some(rows)})
<1> DEFINE Total(s) == CHOOSE g : IsTotal(g, s)
<1>1. \A rows : Events(rows) = Total(rows)[rows]
  BY DEF Events, MapThenSumSet, MapThenFoldSet, IsTotal, Some
<1>2. \A rows : IsFiniteSet(rows) => IsTotal(Total(rows), rows)
  BY TotalExists
<1> HIDE DEF Total
<1>3. Events({}) = 0
  BY <1>1, <1>2, FS_EmptySet DEF IsTotal
<1>4. ASSUME NEW rows, IsFiniteSet(rows), rows # {}
      PROVE  Events(rows) = (1 + Some(rows).lost) + Events(rows \ {Some(rows)})
  <2> DEFINE rest == rows \ {Some(rows)}
  <2>1. IsFiniteSet(rest) /\ rest \subseteq rows
    BY <1>4, FS_Subset
  <2>2. Total(rows)[rows] = (1 + Some(rows).lost) + Total(rows)[rest]
    BY <1>2, <1>4 DEF IsTotal
  <2>3. Total(rows)[rest] = Total(rest)[rest]
    <3> HIDE DEF rest
    <3> QED
      BY <1>2, <1>4, <2>1, TotalsAgree
  <2> QED
    BY <1>1, <2>2, <2>3
<1> QED
  BY <1>3, <1>4

\* The order of the rows does not matter: any row can be taken out.
LEMMA EventsWithout ==
    ASSUME NEW rows, IsFiniteSet(rows), \A r \in rows : r.lost \in Nat
    PROVE  Events(rows) \in Nat
           /\ \A r \in rows : Events(rows) = (1 + r.lost) + Events(rows \ {r})
<1> DEFINE Good(s) == /\ Events(s) \in Nat
                      /\ \A r \in s : Events(s) = (1 + r.lost) + Events(s \ {r})
           T == {s \in SUBSET rows : ~Good(s)}
<1> SUFFICES ASSUME T # {} PROVE FALSE
  OBVIOUS
<1>1. PICK s \in T : \A u \in T : u \subseteq s => u = s
  <2>1. T \subseteq SUBSET rows
    OBVIOUS
  <2> HIDE DEF T
  <2> QED
    BY <2>1, SmallestSubset
<1>2. IsFiniteSet(s) /\ \A r \in s : r.lost \in Nat
  BY <1>1, FS_Subset
<1>3. s # {}
  <2>1. ASSUME s = {} PROVE Events(s) \in Nat /\ \A r \in s : Events(s) = (1 + r.lost) + Events(s \ {r})
    BY <2>1, EventsDef
  <2> QED
    BY <1>1, <2>1
<1> DEFINE c == Some(s)
<1>4. c \in s
  BY <1>3 DEF Some
<1>5. Events(s) = (1 + c.lost) + Events(s \ {c})
  BY <1>2, <1>3, EventsDef
<1>6. \A r \in s : Good(s \ {r})
  BY <1>1
<1> HIDE DEF c
<1>7. Events(s) \in Nat
  BY <1>2, <1>4, <1>5, <1>6
<1>8. ASSUME NEW r \in s, r # c PROVE Events(s) = (1 + r.lost) + Events(s \ {r})
  <2>1. /\ Events(s \ {c}) = (1 + r.lost) + Events((s \ {c}) \ {r})
        /\ Events(s \ {r}) = (1 + c.lost) + Events((s \ {r}) \ {c})
    BY <1>4, <1>6, <1>8
  <2>2. (s \ {c}) \ {r} = (s \ {r}) \ {c}
    OBVIOUS
  <2>3. Events(s \ {c}) \in Nat /\ Events(s \ {r}) \in Nat /\ r.lost \in Nat /\ c.lost \in Nat
    BY <1>2, <1>4, <1>6, <1>8
  <2>4. Events((s \ {r}) \ {c}) \in Nat
    <3>1. (s \ {r}) \ {c} \notin T
      BY <1>1, <1>4
    <3> QED
      BY <3>1
  <2>5. \A x, y, e \in Nat : (1 + x) + ((1 + y) + e) = (1 + y) + ((1 + x) + e)
    OBVIOUS
  <2>6. Events(s) = (1 + c.lost) + ((1 + r.lost) + Events((s \ {r}) \ {c}))
    BY <1>5, <2>1, <2>2
  <2>7. Events(s) = (1 + r.lost) + ((1 + c.lost) + Events((s \ {r}) \ {c}))
    BY <2>3, <2>4, <2>5, <2>6
  <2> QED
    BY <2>1, <2>7
<1> QED
  BY <1>1, <1>5, <1>7, <1>8

\* A new row counts as itself and its lost events.
LEMMA EventsWith ==
    \A rows, r : IsFiniteSet(rows) /\ r \notin rows /\ (\A x \in rows \cup {r} : x.lost \in Nat) =>
        /\ Events(rows) \in Nat
        /\ Events(rows \cup {r}) = Events(rows) + 1 + r.lost
<1> SUFFICES ASSUME NEW rows, NEW r, IsFiniteSet(rows), r \notin rows,
                    \A x \in rows \cup {r} : x.lost \in Nat
             PROVE  /\ Events(rows) \in Nat
                    /\ Events(rows \cup {r}) = Events(rows) + 1 + r.lost
  OBVIOUS
<1>1. IsFiniteSet(rows \cup {r})
  BY FS_AddElement
<1>2. (rows \cup {r}) \ {r} = rows
  OBVIOUS
<1>3. Events(rows) \in Nat
  BY EventsWithout
<1>4. Events(rows \cup {r}) = (1 + r.lost) + Events((rows \cup {r}) \ {r})
  BY <1>1, EventsWithout
<1> QED
  BY <1>2, <1>3, <1>4

-----------------------------------------------------------------------------
(* The invariant.                                                          *)

Database == [score : [Charts -> Nat], log : [Charts -> Nat]]
Row == [chart : Charts, count : Nat, lost : Nat]
HashOf == [import : Nat \ {0}, model : Nat]
RevisionOf == [revision : Nat \ {0}, hash : HashOf, session : Sessions]
ContentOf == [revision : Nat \ {0}, hash : HashOf, made : 1..MaxStarts]

\* A running command, by what it carries.
Started == [at : {"fit", "menu"}, made : 1..MaxStarts, again : BOOLEAN]
Fitted == [at : {"save model"}, made : 1..MaxStarts, again : BOOLEAN,
           version : Nat, trained : Nat]
Built == [at : {"export"}, again : BOOLEAN, session : Sessions]
Numbered == [at : {"directory", "publish", "conflict"}, again : BOOLEAN,
             session : Sessions, revision : Nat \ {0}]
Serving == [at : {"write", "rename"}, again : BOOLEAN, session : Sessions,
            revision : Nat \ {0}, file : 1..Len(Files)]
Exported == [at : {"persist"}, session : Sessions]
Command == {Idle} \cup Started \cup Fitted \cup Built \cup Numbered \cup Serving \cup Exported

DatabaseTyped ==
    /\ world \in Seq(Database) /\ world # <<>> /\ imports \in Seq(Database)
    /\ state \in [Charts -> Nat] /\ cursor \in [Charts -> Nat]
    /\ plays \subseteq Row /\ IsFiniteSet(plays)
    /\ models \in Seq(Nat)

OutputTyped ==
    /\ revisions \subseteq RevisionOf
    /\ view \in [Members(Files) -> ContentOf \cup {None}]
    /\ temporary \in [Members(Files) -> ContentOf \cup {None}]
    /\ sessions \subseteq Sessions

CommandsTyped ==
    /\ command \in [Commands -> Command]
    /\ starts \in 0..MaxStarts /\ crashes \in 0..MaxCrashes

Typed == DatabaseTyped /\ OutputTyped /\ CommandsTyped

\* A command that copies files has written their revision, and one that saves
\* its session has exported it.
CommandsExport ==
    \A p \in Commands :
        /\ command[p].at \in {"publish", "write", "rename"} => Directory(p) \in revisions
        /\ command[p].at = "persist" => \E r \in revisions : r.session = command[p].session

IsOfRevision(content) ==
    \E r \in revisions : /\ r.revision = content.revision /\ r.hash = content.hash
                         /\ r.session.made = content.made

TemporaryFromRevisions ==
    \A f \in DOMAIN temporary : temporary[f] # None => IsOfRevision(temporary[f])

\* Before the first import nothing is recorded, and no play is ahead of its cursor.
CursorsAhead ==
    /\ imports = <<>> => plays = {} /\ cursor = [c \in Charts |-> NoRow]
    /\ \A r \in plays : r.count <= cursor[r.chart]

OutputInv == CommandsExport /\ TemporaryFromRevisions /\ ViewFromRevisions /\ SavedWasExported
AccountInv == CursorsAhead /\ PlaysAccounted /\ StateOfLastImport
IInv == Typed /\ OutputInv /\ AccountInv

\* The stage of a command tells what it carries.
LEMMA Shapes ==
    \A x \in Command :
        /\ x.at \in {"fit", "menu"} => x \in Started
        /\ x.at = "save model" => x \in Fitted
        /\ x.at = "export" => x \in Built
        /\ x.at \in {"directory", "publish", "conflict"} => x \in Numbered
        /\ x.at \in {"write", "rename"} => x \in Serving
        /\ x.at = "persist" => x \in Exported
<1>1. Idle.at = "idle"
  BY DEF Idle
<1>2. \A x \in Started : x.at \in {"fit", "menu"}
  BY DEF Started
<1>3. \A x \in Fitted : x.at = "save model"
  BY DEF Fitted
<1>4. \A x \in Built : x.at = "export"
  BY DEF Built
<1>5. \A x \in Numbered : x.at \in {"directory", "publish", "conflict"}
  BY DEF Numbered
<1>6. \A x \in Serving : x.at \in {"write", "rename"}
  BY DEF Serving
<1>7. \A x \in Exported : x.at = "persist"
  BY DEF Exported
<1> QED
  BY <1>1, <1>2, <1>3, <1>4, <1>5, <1>6, <1>7 DEF Command

\* Which steps change what.
LEMMA Footprints ==
    ASSUME [Next]_vars
    PROVE  /\ world' = world \/ \E c \in Charts : PlayChart(c)
           /\ UNCHANGED <<imports, state, cursor, plays>> \/ \E p \in Commands : Import(p)
           /\ models' = models \/ \E p \in Commands : SaveModel(p)
           /\ revisions' = revisions \/ \E p \in Commands : WriteDirectory(p)
           /\ view' = view \/ \E p \in Commands : RenameFile(p)
           /\ temporary' = temporary \/ \E p \in Commands : WriteFile(p) \/ RenameFile(p)
           /\ sessions' = sessions \/ \E p \in Commands : PersistSession(p)
           /\ starts' = starts \/ \E p \in Commands : Start(p)
           /\ crashes' = crashes \/ \E p \in Commands : Crash(p)
BY DEF Next, vars, database, output, PlayChart, Refuse, ImportAgain, Import, StartMenu, Fit,
       SaveModel, BuildSession, ReadPointer, WriteDirectory, Publish, WriteFile, RenameFile,
       PersistSession, Failed, Crash, Start

\* A snapshot pair has a playcount of every chart.
LEMMA PairsTyped ==
    ASSUME DatabaseTyped
    PROVE  Pairs \subseteq Database
<1>1. \A i \in DOMAIN world : world[i] \in Database
  BY DEF DatabaseTyped
<1> QED
  BY <1>1 DEF Pairs, Database

\* The rows of an import, one of each chart whose cursor moves.
LEMMA NewPlaysTyped ==
    ASSUME DatabaseTyped, NEW pair \in Database
    PROVE  NewPlays(pair) \subseteq Row /\ IsFiniteSet(NewPlays(pair))
<1> DEFINE moved == {d \in Charts : pair.log[d] > cursor[d]}
           row(c) == [chart |-> c, count |-> pair.log[c], lost |-> Lost(pair, c)]
           f == [c \in moved |-> row(c)]
<1>1. \A c \in moved : row(c) \in Row
  <2> SUFFICES ASSUME NEW c \in moved PROVE row(c) \in Row
    OBVIOUS
  <2>1. c \in Charts /\ pair.log[c] \in Nat /\ cursor[c] \in Nat /\ pair.log[c] > cursor[c]
    BY DEF DatabaseTyped, Database
  <2>2. Lost(pair, c) \in Nat
    BY <2>1 DEF Lost
  <2> QED
    BY <2>1, <2>2 DEF Row
<1>2. IsFiniteSet(moved)
  BY DailyAssumption, FS_Subset
<1>3. f \in Surjection(moved, {row(c) : c \in moved})
  BY DEF Surjection
<1>4. IsFiniteSet({row(c) : c \in moved})
  <2> HIDE DEF moved, f
  <2> QED
    BY <1>2, <1>3, FS_Surjection
<1> QED
  BY <1>1, <1>4, FS_EmptySet DEF NewPlays

LEMMA DatabaseStep ==
    ASSUME Typed, [Next]_vars
    PROVE  DatabaseTyped'
<1>1. world' \in Seq(Database) /\ world' # <<>>
  <2>1. CASE world' = world
    BY <2>1 DEF Typed, DatabaseTyped
  <2>2. ASSUME NEW c \in Charts, PlayChart(c) PROVE world' \in Seq(Database) /\ world' # <<>>
    <3> DEFINE last == world[Len(world)]
               next == [score |-> [last.score EXCEPT ![c] = last.score[c] + 1],
                        log |-> [last.log EXCEPT ![c] = last.score[c] + 1]]
    <3>1. last \in Database
      BY DEF Typed, DatabaseTyped
    <3>2. next \in Database
      <4> HIDE DEF last
      <4> QED
        BY <3>1 DEF Database
    <3>3. world' = Append(world, next)
      BY <2>2 DEF PlayChart
    <3> QED
      BY <3>2, <3>3 DEF Typed, DatabaseTyped
  <2> QED
    BY <2>1, <2>2, Footprints
<1>2. /\ imports' \in Seq(Database) /\ plays' \subseteq Row /\ IsFiniteSet(plays')
      /\ state' \in [Charts -> Nat] /\ cursor' \in [Charts -> Nat]
  <2>1. CASE UNCHANGED <<imports, state, cursor, plays>>
    BY <2>1 DEF Typed, DatabaseTyped
  <2>2. ASSUME NEW p \in Commands, Import(p)
        PROVE  /\ imports' \in Seq(Database) /\ plays' \subseteq Row /\ IsFiniteSet(plays')
               /\ state' \in [Charts -> Nat] /\ cursor' \in [Charts -> Nat]
    <3>1. PICK pair \in Pairs :
            /\ imports' = Append(imports, pair) /\ plays' = plays \cup NewPlays(pair)
            /\ state' = Newer(state, pair.score) /\ cursor' = Newer(cursor, pair.log)
      BY <2>2 DEF Import
    <3>2. pair \in Database
      BY PairsTyped DEF Typed
    <3>3. NewPlays(pair) \subseteq Row /\ IsFiniteSet(NewPlays(pair))
      BY <3>2, NewPlaysTyped DEF Typed
    <3>4. plays' \subseteq Row /\ IsFiniteSet(plays')
      BY <3>1, <3>3, FS_Union DEF Typed, DatabaseTyped
    <3> QED
      BY <3>1, <3>2, <3>4 DEF Typed, DatabaseTyped, Newer, Database
  <2> QED
    BY <2>1, <2>2, Footprints
<1>3. models' \in Seq(Nat)
  <2>1. CASE models' = models
    BY <2>1 DEF Typed, DatabaseTyped
  <2>2. ASSUME NEW p \in Commands, SaveModel(p) PROVE models' \in Seq(Nat)
    <3>1. command[p] \in Fitted
      BY <2>2, Shapes DEF SaveModel, Typed, CommandsTyped
    <3>2. command[p].trained \in Nat
      BY <3>1 DEF Fitted
    <3>3. models' = models \/ models' = Append(models, command[p].trained)
      BY <2>2 DEF SaveModel
    <3>4. \A m \in Seq(Nat), n \in Nat : Append(m, n) \in Seq(Nat)
      OBVIOUS
    <3>5. models \in Seq(Nat)
      BY DEF Typed, DatabaseTyped
    <3> QED
      BY <3>2, <3>3, <3>4, <3>5
  <2> QED
    BY <2>1, <2>2, Footprints
<1> QED
  BY <1>1, <1>2, <1>3 DEF DatabaseTyped

\* A command's step gives it something a command can carry; of the others
\* nothing changes.
LEMMA CommandStep ==
    ASSUME Typed, [Next]_vars
    PROVE  \/ command' = command
           \/ \E p \in Commands, x \in Command : command' = [command EXCEPT ![p] = x]
<1>1. MaxStarts \in Nat /\ starts \in 0..MaxStarts
  BY DailyAssumption DEF Typed, CommandsTyped
<1>2. \A p \in Commands : command[p] \in Command
  BY DEF Typed, CommandsTyped
<1> DEFINE Moves(p) == \E x \in Command : command' = [command EXCEPT ![p] = x]
<1>3. ASSUME NEW p \in Commands, ImportAgain(p) \/ Import(p) \/ StartMenu(p) PROVE Moves(p)
  <2>1. starts' \in 1..MaxStarts
    <3>1. Start(p)
      BY <1>3 DEF ImportAgain, Import, StartMenu
    <3> QED
      BY <1>1, <3>1 DEF Start
  <2>2. \A at \in {"fit", "menu"}, again \in BOOLEAN :
          [at |-> at, made |-> starts', again |-> again] \in Command
    BY <2>1 DEF Command, Started
  <2> QED
    BY <1>3, <2>2 DEF ImportAgain, Import, StartMenu, Go
<1>4. ASSUME NEW p \in Commands, Fit(p) PROVE Moves(p)
  <2>1. command[p] \in Started
    BY <1>2, <1>4, Shapes DEF Fit
  <2>2. Cardinality(plays) \in Nat /\ Len(models) + 1 \in Nat
    BY FS_CardinalityType DEF Typed, DatabaseTyped
  <2>3. [command[p] EXCEPT !.at = "menu"] \in Command
    BY <2>1 DEF Command, Started
  <2>4. [at |-> "save model", made |-> command[p].made, again |-> command[p].again,
         version |-> Len(models) + 1, trained |-> Cardinality(plays)] \in Command
    <3>1. command[p].made \in 1..MaxStarts /\ command[p].again \in BOOLEAN
      BY <2>1 DEF Started
    <3> QED
      BY <2>2, <3>1 DEF Command, Fitted
  <2>5. \/ command' = [command EXCEPT ![p] = [command[p] EXCEPT !.at = "menu"]]
        \/ command' = [command EXCEPT ![p] =
              [at |-> "save model", made |-> command[p].made, again |-> command[p].again,
               version |-> Len(models) + 1, trained |-> Cardinality(plays)]]
    BY <1>4 DEF Fit, Step
  <2> QED
    BY <2>3, <2>4, <2>5
<1>5. ASSUME NEW p \in Commands, SaveModel(p) PROVE Moves(p)
  <2>1. command[p] \in Fitted
    BY <1>2, <1>5, Shapes DEF SaveModel
  <2>2. Idle \in Command
    BY DEF Command
  <2>3. [at |-> "menu", made |-> command[p].made, again |-> command[p].again] \in Command
    BY <2>1 DEF Command, Started, Fitted
  <2> QED
    BY <1>5, <2>2, <2>3 DEF SaveModel
<1>6. ASSUME NEW p \in Commands, BuildSession(p) PROVE Moves(p)
  <2>1. command[p] \in Started
    BY <1>2, <1>6, Shapes DEF BuildSession
  <2>2. Idle \in Command
    BY DEF Command
  <2> DEFINE session == [import |-> Len(imports), model |-> Len(models), made |-> command[p].made]
  <2>3. imports # <<>> => Len(imports) \in Nat \ {0}
    BY EmptySeq DEF Typed, DatabaseTyped
  <2>4. Len(models) \in Nat
    BY DEF Typed, DatabaseTyped
  <2>5. imports # <<>> => session \in Sessions
    BY <2>1, <2>3, <2>4 DEF Sessions, Started
  <2>6. imports # <<>> => [at |-> "export", again |-> command[p].again, session |-> session] \in Command
    <3> HIDE DEF session
    <3> QED
      BY <2>1, <2>5 DEF Command, Built, Started
  <2> QED
    BY <1>6, <2>2, <2>6 DEF BuildSession
<1>7. ASSUME NEW p \in Commands, ReadPointer(p) PROVE Moves(p)
  <2>1. command[p] \in Built
    BY <1>2, <1>7, Shapes DEF ReadPointer
  <2>2. Latest \in Members(Files)
    BY DailyAssumption DEF Members
  <2>3. view[Latest] \in ContentOf \cup {None}
    BY <2>2 DEF Typed, OutputTyped
  <2>4. Revision(view[Latest]) + 1 \in Nat \ {0}
    BY <2>3 DEF Revision, ContentOf
  <2>5. [at |-> "directory", again |-> command[p].again, session |-> command[p].session,
         revision |-> Revision(view[Latest]) + 1] \in Command
    BY <2>1, <2>4 DEF Command, Numbered, Built
  <2> QED
    BY <1>7, <2>5 DEF ReadPointer
<1>8. ASSUME NEW p \in Commands, WriteDirectory(p) PROVE Moves(p)
  <2>1. command[p] \in Numbered
    BY <1>2, <1>8, Shapes DEF WriteDirectory
  <2>2. \A at \in {"publish", "conflict"} : [command[p] EXCEPT !.at = at] \in Command
    BY <2>1 DEF Command, Numbered
  <2> QED
    BY <1>8, <2>2 DEF WriteDirectory, Step
<1>9. ASSUME NEW p \in Commands, Publish(p) PROVE Moves(p)
  <2>1. command[p] \in Numbered
    BY <1>2, <1>9, Shapes DEF Publish
  <2>2. 1 \in 1..Len(Files)
    BY DailyAssumption
  <2>3. [at |-> "write", again |-> command[p].again, session |-> command[p].session,
         revision |-> command[p].revision, file |-> 1] \in Command
    BY <2>1, <2>2 DEF Command, Numbered, Serving
  <2>4. [at |-> "persist", session |-> command[p].session] \in Command
    BY <2>1 DEF Command, Numbered, Exported
  <2> QED
    BY <1>9, <2>3, <2>4 DEF Publish
<1>10. ASSUME NEW p \in Commands, WriteFile(p) PROVE Moves(p)
  <2>1. command[p] \in Serving
    BY <1>2, <1>10, Shapes DEF WriteFile
  <2>2. [command[p] EXCEPT !.at = "rename"] \in Command
    BY <2>1 DEF Command, Serving
  <2> QED
    BY <1>10, <2>2 DEF WriteFile, Step
<1>11. ASSUME NEW p \in Commands, RenameFile(p) PROVE Moves(p)
  <2>1. command[p] \in Serving
    BY <1>2, <1>11, Shapes DEF RenameFile
  <2>2. Idle \in Command
    BY DEF Command
  <2>3. command[p].file < Len(Files) =>
          [[command[p] EXCEPT !.at = "write"] EXCEPT !.file = command[p].file + 1] \in Command
    <3>1. command[p].file < Len(Files) => command[p].file + 1 \in 1..Len(Files)
      BY <2>1, DailyAssumption DEF Serving
    <3> QED
      BY <2>1, <3>1 DEF Command, Serving
  <2>4. [at |-> "persist", session |-> command[p].session] \in Command
    BY <2>1 DEF Command, Exported, Serving
  <2>5. \/ command' = [command EXCEPT ![p] = Idle]
        \/ /\ command[p].file < Len(Files)
           /\ command' = [command EXCEPT ![p] =
                [[command[p] EXCEPT !.at = "write"] EXCEPT !.file = command[p].file + 1]]
        \/ command' = [command EXCEPT ![p] = [at |-> "persist", session |-> command[p].session]]
    <3>1. command \in [Commands -> Command] /\ "at" \in DOMAIN command[p]
      BY <2>1 DEF Typed, CommandsTyped, Serving
    <3>2. [command EXCEPT ![p].at = "write", ![p].file = @ + 1]
            = [command EXCEPT ![p] =
                [[command[p] EXCEPT !.at = "write"] EXCEPT !.file = command[p].file + 1]]
      BY <2>1, <3>1 DEF Serving
    <3> QED
      BY <1>11, <3>2 DEF RenameFile
  <2> QED
    BY <2>2, <2>3, <2>4, <2>5
<1>12. ASSUME NEW p \in Commands, PersistSession(p) \/ Failed(p) \/ Crash(p) PROVE Moves(p)
  <2>1. Idle \in Command
    BY DEF Command
  <2> QED
    BY <1>12, <2>1 DEF PersistSession, Failed, Crash
<1>13. ASSUME (\E c \in Charts : PlayChart(c)) \/ (\E p \in Commands : Refuse(p)) \/ UNCHANGED vars
       PROVE  command' = command
  BY <1>13 DEF PlayChart, Refuse, vars
<1> HIDE DEF Moves
<1>14. command' = command \/ \E p \in Commands : Moves(p)
  BY <1>3, <1>4, <1>5, <1>6, <1>7, <1>8, <1>9, <1>10, <1>11, <1>12, <1>13 DEF Next
<1> QED
  BY <1>14 DEF Moves

LEMMA OutputStep ==
    ASSUME Typed, [Next]_vars
    PROVE  OutputTyped'
<1>1. \A p \in Commands : command[p] \in Command
  BY DEF Typed, CommandsTyped
<1>2. revisions' \subseteq RevisionOf
  <2>1. CASE revisions' = revisions
    BY <2>1 DEF Typed, OutputTyped
  <2>2. ASSUME NEW p \in Commands, WriteDirectory(p) PROVE revisions' \subseteq RevisionOf
    <3>1. command[p] \in Numbered
      BY <1>1, <2>2, Shapes DEF WriteDirectory
    <3>2. command[p].session \in Sessions /\ command[p].revision \in Nat \ {0}
      BY <3>1 DEF Numbered
    <3>3. Hash(command[p].session) \in HashOf
      BY <3>2 DEF Hash, HashOf, Sessions
    <3>4. Directory(p) \in RevisionOf
      BY <3>2, <3>3 DEF Directory, RevisionOf
    <3>5. revisions' = revisions \/ revisions' = revisions \cup {Directory(p)}
      BY <2>2 DEF WriteDirectory
    <3> QED
      BY <3>4, <3>5 DEF Typed, OutputTyped
  <2> QED
    BY <2>1, <2>2, Footprints
<1>3. temporary' \in [Members(Files) -> ContentOf \cup {None}]
  <2>1. CASE temporary' = temporary
    BY <2>1 DEF Typed, OutputTyped
  <2>2. ASSUME NEW p \in Commands, WriteFile(p)
        PROVE  temporary' \in [Members(Files) -> ContentOf \cup {None}]
    <3>1. command[p] \in Serving
      BY <1>1, <2>2, Shapes DEF WriteFile
    <3>2. command[p].session \in Sessions /\ command[p].revision \in Nat \ {0}
      BY <3>1 DEF Serving
    <3>3. Hash(command[p].session) \in HashOf
      BY <3>2 DEF Hash, HashOf, Sessions
    <3>4. Content(p) \in ContentOf
      BY <3>2, <3>3 DEF Content, ContentOf, Sessions
    <3> QED
      BY <2>2, <3>4 DEF WriteFile, Typed, OutputTyped
  <2>3. ASSUME NEW p \in Commands, RenameFile(p)
        PROVE  temporary' \in [Members(Files) -> ContentOf \cup {None}]
    BY <2>3 DEF RenameFile, Typed, OutputTyped
  <2> QED
    BY <2>1, <2>2, <2>3, Footprints
<1>4. view' \in [Members(Files) -> ContentOf \cup {None}]
  <2>1. CASE view' = view
    BY <2>1 DEF Typed, OutputTyped
  <2>2. ASSUME NEW p \in Commands, RenameFile(p)
        PROVE  view' \in [Members(Files) -> ContentOf \cup {None}]
    <3>1. command[p] \in Serving
      BY <1>1, <2>2, Shapes DEF RenameFile
    <3>2. Files[command[p].file] \in Members(Files)
      BY <3>1 DEF Serving, Members
    <3> QED
      BY <2>2, <3>2 DEF RenameFile, Typed, OutputTyped
  <2> QED
    BY <2>1, <2>2, Footprints
<1>5. sessions' \subseteq Sessions
  <2>1. CASE sessions' = sessions
    BY <2>1 DEF Typed, OutputTyped
  <2>2. ASSUME NEW p \in Commands, PersistSession(p) PROVE sessions' \subseteq Sessions
    <3>1. command[p] \in Exported
      BY <1>1, <2>2, Shapes DEF PersistSession
    <3> QED
      BY <2>2, <3>1 DEF PersistSession, Exported, Typed, OutputTyped
  <2> QED
    BY <2>1, <2>2, Footprints
<1> QED
  BY <1>2, <1>3, <1>4, <1>5 DEF OutputTyped

LEMMA TypedStep ==
    ASSUME Typed, [Next]_vars
    PROVE  Typed'
<1>1. command' \in [Commands -> Command]
  BY CommandStep DEF Typed, CommandsTyped
<1>2. starts' \in 0..MaxStarts
  <2>1. starts \in 0..MaxStarts /\ MaxStarts \in Nat
    BY DailyAssumption DEF Typed, CommandsTyped
  <2>2. starts' = starts \/ (starts < MaxStarts /\ starts' = starts + 1)
    BY Footprints DEF Start
  <2> QED
    BY <2>1, <2>2
<1>3. crashes' \in 0..MaxCrashes
  <2>1. crashes \in 0..MaxCrashes /\ MaxCrashes \in Nat
    BY DailyAssumption DEF Typed, CommandsTyped
  <2>2. crashes' = crashes \/ (crashes < MaxCrashes /\ crashes' = crashes + 1)
    BY Footprints DEF Crash
  <2> QED
    BY <2>1, <2>2
<1> QED
  BY <1>1, <1>2, <1>3, DatabaseStep, OutputStep DEF Typed, CommandsTyped

-----------------------------------------------------------------------------
(* What is exported.                                                       *)

\* A revision directory is written once and stays.
LEMMA RevisionsGrow ==
    ASSUME [Next]_vars
    PROVE  revisions \subseteq revisions'
BY Footprints DEF WriteDirectory

\* A command comes to copying files only from its own revision, and to saving
\* its session only from copying them or leaving them alone.
LEMMA CommandsExportStep ==
    ASSUME Typed, CommandsExport, [Next]_vars
    PROVE  CommandsExport'
<1> SUFFICES ASSUME NEW q \in Commands
             PROVE  /\ command'[q].at \in {"publish", "write", "rename"} => Directory(q)' \in revisions'
                    /\ command'[q].at = "persist" =>
                          \E r \in revisions' : r.session = command'[q].session
  BY DEF CommandsExport
<1>1. revisions \subseteq revisions'
  BY RevisionsGrow
<1>2. command \in [Commands -> Command]
  BY DEF Typed, CommandsTyped
<1>3. CASE command'[q] = command[q]
  BY <1>1, <1>3 DEF CommandsExport, Directory
<1>4. CASE command'[q].at \notin {"publish", "write", "rename", "persist"}
  BY <1>4
<1>5. CASE WriteDirectory(q)
  <2>1. command[q] \in Numbered
    BY <1>2, <1>5, Shapes DEF WriteDirectory
  <2>2. /\ command'[q].session = command[q].session /\ command'[q].revision = command[q].revision
        /\ command'[q].at \in {"publish", "conflict"}
        /\ command'[q].at = "publish" => Directory(q) \in revisions'
    BY <1>2, <1>5, <2>1 DEF WriteDirectory, Step, Numbered
  <2>3. Directory(q)' = Directory(q)
    BY <2>2 DEF Directory
  <2> QED
    BY <2>2, <2>3
<1>6. CASE Publish(q) \/ WriteFile(q) \/ RenameFile(q)
  <2>1. Directory(q) \in revisions
    BY <1>6 DEF Publish, WriteFile, RenameFile, CommandsExport
  <2>2. /\ command'[q] = Idle \/ command'[q].session = command[q].session
        /\ command'[q].at \in {"publish", "write", "rename"} =>
              command'[q].revision = command[q].revision
    <3>1. CASE Publish(q)
      BY <1>2, <3>1 DEF Publish
    <3>2. CASE WriteFile(q)
      <4>1. command[q] \in Serving
        BY <1>2, <3>2, Shapes DEF WriteFile
      <4> QED
        BY <1>2, <3>2, <4>1 DEF WriteFile, Step, Serving
    <3>3. CASE RenameFile(q)
      <4>1. command[q] \in Serving
        BY <1>2, <3>3, Shapes DEF RenameFile
      <4> QED
        BY <1>2, <3>3, <4>1 DEF RenameFile, Serving, Idle
    <3> QED
      BY <1>6, <3>1, <3>2, <3>3
  <2>3. Directory(q).session = command[q].session
    BY DEF Directory
  <2>4. CASE command'[q] = Idle
    BY <2>4 DEF Idle
  <2>5. CASE command'[q].session = command[q].session
    <3>1. command'[q].at \in {"publish", "write", "rename"} => Directory(q)' = Directory(q)
      BY <2>2, <2>5 DEF Directory
    <3> QED
      BY <1>1, <2>1, <2>3, <2>5, <3>1
  <2> QED
    BY <2>2, <2>4, <2>5
<1>7. \/ command'[q] = command[q]
      \/ command'[q].at \notin {"publish", "write", "rename", "persist"}
      \/ WriteDirectory(q) \/ Publish(q) \/ WriteFile(q) \/ RenameFile(q)
  <2>1. ASSUME NEW p \in Commands, Refuse(p) \/ ImportAgain(p) \/ Import(p) \/ StartMenu(p)
        PROVE  command'[q] = command[q] \/ command'[q].at \notin {"publish", "write", "rename", "persist"}
    BY <1>2, <2>1 DEF Refuse, ImportAgain, Import, StartMenu, Go
  <2>2. ASSUME NEW p \in Commands, Fit(p)
        PROVE  command'[q] = command[q] \/ command'[q].at \notin {"publish", "write", "rename", "persist"}
    <3>1. command[p] \in Started
      BY <1>2, <2>2, Shapes DEF Fit
    <3>2. \/ command' = [command EXCEPT ![p] = [command[p] EXCEPT !.at = "menu"]]
          \/ \E n, v : command' = [command EXCEPT ![p] =
                [at |-> "save model", made |-> command[p].made, again |-> command[p].again,
                 version |-> v, trained |-> n]]
      BY <1>2, <2>2, <3>1 DEF Fit, Step
    <3>3. \/ command'[p] = [command[p] EXCEPT !.at = "menu"]
          \/ \E n, v : command'[p] =
                [at |-> "save model", made |-> command[p].made, again |-> command[p].again,
                 version |-> v, trained |-> n]
      BY <1>2, <2>2, <3>2
    <3>4. command'[p].at = "menu" \/ command'[p].at = "save model"
      <4>1. "at" \in DOMAIN command[p]
        BY <3>1 DEF Started
      <4>2. [command[p] EXCEPT !.at = "menu"].at = "menu"
        BY <4>1
      <4>3. CASE command'[p] = [command[p] EXCEPT !.at = "menu"]
        BY <4>2, <4>3
      <4>4. CASE \E n, v : command'[p] =
                  [at |-> "save model", made |-> command[p].made, again |-> command[p].again,
                   version |-> v, trained |-> n]
        <5>1. PICK n, v : command'[p] =
                [at |-> "save model", made |-> command[p].made, again |-> command[p].again,
                 version |-> v, trained |-> n]
          BY <4>4
        <5>2. [at |-> "save model", made |-> command[p].made, again |-> command[p].again,
               version |-> v, trained |-> n].at = "save model"
          OBVIOUS
        <5> QED
          BY <5>1, <5>2
      <4> QED
        BY <3>3, <4>3, <4>4
    <3>5. p # q => command'[q] = command[q]
      BY <1>2, <2>2, <3>2
    <3> QED
      BY <3>4, <3>5
  <2>3. ASSUME NEW p \in Commands, SaveModel(p) \/ BuildSession(p) \/ ReadPointer(p)
        PROVE  command'[q] = command[q] \/ command'[q].at \notin {"publish", "write", "rename", "persist"}
    <3>1. CASE SaveModel(p)
      <4>1. \/ command' = [command EXCEPT ![p] =
                  [at |-> "menu", made |-> command[p].made, again |-> command[p].again]]
            \/ command' = [command EXCEPT ![p] = Idle]
        BY <1>2, <3>1 DEF SaveModel
      <4>2. command'[p].at = "menu" \/ command'[p].at = "idle"
        BY <1>2, <2>3, <4>1 DEF Idle
      <4>3. p # q => command'[q] = command[q]
        BY <1>2, <2>3, <4>1
      <4> QED
        BY <4>2, <4>3
    <3>2. CASE BuildSession(p)
      <4>1. /\ p # q => command'[q] = command[q]
            /\ command'[p].at = "idle" \/ command'[p].at = "export"
        BY <1>2, <3>2 DEF BuildSession, Idle
      <4> QED
        BY <4>1
    <3>3. CASE ReadPointer(p)
      BY <1>2, <3>3 DEF ReadPointer
    <3> QED
      BY <2>3, <3>1, <3>2, <3>3
  <2>4. ASSUME NEW p \in Commands, PersistSession(p) \/ Failed(p) \/ Crash(p)
        PROVE  command'[q] = command[q] \/ command'[q].at \notin {"publish", "write", "rename", "persist"}
    BY <1>2, <2>4 DEF PersistSession, Failed, Crash, Idle
  <2>5. ASSUME NEW p \in Commands, WriteDirectory(p) \/ Publish(p) \/ WriteFile(p) \/ RenameFile(p)
        PROVE  command'[q] = command[q] \/ p = q
    BY <1>2, <2>5 DEF WriteDirectory, Publish, WriteFile, RenameFile, Step
  <2>6. CASE (\E c \in Charts : PlayChart(c)) \/ UNCHANGED vars
    BY <2>6 DEF PlayChart, vars
  <2> QED
    BY <2>1, <2>2, <2>3, <2>4, <2>5, <2>6 DEF Next
<1> QED
  BY <1>3, <1>4, <1>5, <1>6, <1>7

\* Files, temporary or in their place, have the content of a revision.
LEMMA FilesStep ==
    ASSUME Typed, CommandsExport, TemporaryFromRevisions, ViewFromRevisions, [Next]_vars
    PROVE  TemporaryFromRevisions' /\ ViewFromRevisions'
<1>1. \A content : IsOfRevision(content) => IsOfRevision(content)'
  BY RevisionsGrow DEF IsOfRevision
<1>2. DOMAIN temporary = Members(Files) /\ DOMAIN view = Members(Files)
  BY DEF Typed, OutputTyped
<1>3. TemporaryFromRevisions'
  <2>1. CASE temporary' = temporary
    BY <1>1, <2>1 DEF TemporaryFromRevisions, IsOfRevision
  <2>2. ASSUME NEW p \in Commands, WriteFile(p) PROVE TemporaryFromRevisions'
    <3>1. Directory(p) \in revisions
      BY <2>2 DEF WriteFile, CommandsExport
    <3>2. IsOfRevision(Content(p))
      BY <3>1 DEF IsOfRevision, Directory, Content
    <3>3. revisions' = revisions /\ temporary' = [temporary EXCEPT ![Files[command[p].file]] = Content(p)]
      BY <2>2 DEF WriteFile
    <3>4. \A f \in DOMAIN temporary' : f \in DOMAIN temporary /\
             (temporary'[f] = temporary[f] \/ temporary'[f] = Content(p))
      BY <1>2, <3>3
    <3>5. \A f \in DOMAIN temporary' : temporary'[f] # None => IsOfRevision(temporary'[f])
      BY <3>2, <3>4 DEF TemporaryFromRevisions
    <3> QED
      BY <3>3, <3>5 DEF TemporaryFromRevisions, IsOfRevision
  <2>3. ASSUME NEW p \in Commands, RenameFile(p) PROVE TemporaryFromRevisions'
    <3>1. \A f \in DOMAIN temporary' : f \in DOMAIN temporary /\
             (temporary'[f] = temporary[f] \/ temporary'[f] = None)
      BY <1>2, <2>3 DEF RenameFile
    <3>2. revisions' = revisions
      BY <2>3 DEF RenameFile
    <3>3. \A f \in DOMAIN temporary' : temporary'[f] # None => IsOfRevision(temporary'[f])
      BY <3>1 DEF TemporaryFromRevisions
    <3> QED
      BY <3>2, <3>3 DEF TemporaryFromRevisions, IsOfRevision
  <2> QED
    BY <2>1, <2>2, <2>3, Footprints
<1>4. ViewFromRevisions'
  <2>1. CASE view' = view
    BY <2>1, RevisionsGrow DEF ViewFromRevisions
  <2>2. ASSUME NEW p \in Commands, RenameFile(p) PROVE ViewFromRevisions'
    <3>1. revisions' = revisions
      BY <2>2 DEF RenameFile
    <3>2. command[p] \in Serving
      BY <2>2, Shapes DEF RenameFile, Typed, CommandsTyped
    <3>3. Files[command[p].file] \in Members(Files)
      BY <3>2 DEF Serving, Members
    <3>4. \A f \in DOMAIN view' : f \in DOMAIN view /\
             \/ view'[f] = view[f]
             \/ f \in DOMAIN temporary /\ view'[f] = temporary[f]
      BY <1>2, <2>2, <3>3 DEF RenameFile
    <3>5. \A f \in DOMAIN view' : view'[f] # None => IsOfRevision(view'[f])
      BY <3>4 DEF TemporaryFromRevisions, ViewFromRevisions, IsOfRevision
    <3> QED
      BY <3>1, <3>5 DEF ViewFromRevisions, IsOfRevision
  <2> QED
    BY <2>1, <2>2, Footprints
<1> QED
  BY <1>3, <1>4

LEMMA OutputInvStep ==
    ASSUME Typed, OutputInv, [Next]_vars
    PROVE  OutputInv'
<1>1. SavedWasExported'
  <2>1. \A s \in sessions' : s \in sessions \/ \E r \in revisions : r.session = s
    <3>1. ASSUME NEW p \in Commands, PersistSession(p)
          PROVE  \A s \in sessions' : s \in sessions \/ \E r \in revisions : r.session = s
      BY <3>1 DEF PersistSession, OutputInv, CommandsExport
    <3> QED
      BY <3>1, Footprints
  <2> QED
    BY <2>1, RevisionsGrow DEF OutputInv, SavedWasExported
<1> QED
  BY <1>1, CommandsExportStep, FilesStep DEF OutputInv

-----------------------------------------------------------------------------
(* What is imported.                                                       *)

\* An import that is accepted moves no cursor back, and leaves each state and
\* cursor at what it found if it found a row.
LEMMA ImportStep ==
    ASSUME DatabaseTyped, NEW p \in Commands, Import(p)
    PROVE  \E pair \in Database :
             /\ imports' = Append(imports, pair) /\ plays' = plays \cup NewPlays(pair)
             /\ state' = Newer(state, pair.score) /\ cursor' = Newer(cursor, pair.log)
             /\ \A c \in Charts : pair.log[c] = 0 \/ cursor[c] <= pair.log[c]
<1>1. PICK pair \in Pairs :
        /\ Acceptable(pair)
        /\ imports' = Append(imports, pair) /\ plays' = plays \cup NewPlays(pair)
        /\ state' = Newer(state, pair.score) /\ cursor' = Newer(cursor, pair.log)
  BY DEF Import
<1>2. pair \in Database
  BY PairsTyped
<1>3. \A c \in Charts : pair.log[c] \in Nat /\ cursor[c] \in Nat
  BY <1>2 DEF Database, DatabaseTyped
<1> QED
  BY <1>1, <1>2, <1>3 DEF Acceptable, LogBackwards, NoRow

LEMMA CursorsStep ==
    ASSUME DatabaseTyped, CursorsAhead, [Next]_vars
    PROVE  CursorsAhead'
<1>1. CASE UNCHANGED <<imports, state, cursor, plays>>
  BY <1>1 DEF CursorsAhead
<1>2. ASSUME NEW p \in Commands, Import(p) PROVE CursorsAhead'
  <2>1. PICK pair \in Database :
          /\ imports' = Append(imports, pair) /\ plays' = plays \cup NewPlays(pair)
          /\ cursor' = Newer(cursor, pair.log)
          /\ \A c \in Charts : pair.log[c] = 0 \/ cursor[c] <= pair.log[c]
    BY <1>2, ImportStep
  <2>2. imports' # <<>>
    BY <2>1 DEF DatabaseTyped
  <2>3. \A c \in Charts : /\ pair.log[c] \in Nat /\ cursor[c] \in Nat
                         /\ cursor'[c] = IF pair.log[c] = 0 THEN cursor[c] ELSE pair.log[c]
    BY <2>1 DEF Newer, NoRow, Database, DatabaseTyped
  <2>4. \A c \in Charts : cursor'[c] \in Nat /\ cursor[c] <= cursor'[c] /\ pair.log[c] <= cursor'[c]
    BY <2>1, <2>3
  <2>5. ASSUME NEW r \in plays PROVE r.count <= cursor'[r.chart]
    <3>1. r.chart \in Charts /\ r.count \in Nat /\ r.count <= cursor[r.chart]
      BY DEF CursorsAhead, DatabaseTyped, Row
    <3> QED
      BY <2>3, <2>4, <3>1
  <2>6. ASSUME NEW r \in NewPlays(pair) PROVE r.count <= cursor'[r.chart]
    <3>1. r.chart \in Charts /\ r.count = pair.log[r.chart]
      BY DEF NewPlays
    <3> QED
      BY <2>4, <3>1
  <2> QED
    BY <2>1, <2>2, <2>5, <2>6 DEF CursorsAhead
<1> QED
  BY <1>1, <1>2, Footprints

\* An import adds to the plays of a chart what it adds to its cursor.
LEMMA PlaysAccountedStep ==
    ASSUME DatabaseTyped, CursorsAhead, PlaysAccounted, [Next]_vars
    PROVE  PlaysAccounted'
<1>1. CASE UNCHANGED <<imports, state, cursor, plays>>
  BY <1>1 DEF PlaysAccounted
<1>2. ASSUME NEW p \in Commands, Import(p) PROVE PlaysAccounted'
  <2>1. PICK pair \in Database :
          /\ imports' = Append(imports, pair) /\ plays' = plays \cup NewPlays(pair)
          /\ cursor' = Newer(cursor, pair.log)
          /\ \A c \in Charts : pair.log[c] = 0 \/ cursor[c] <= pair.log[c]
    BY <1>2, ImportStep
  <2>2. \A c \in Charts : /\ pair.log[c] \in Nat /\ cursor[c] \in Nat
                         /\ cursor'[c] = IF pair.log[c] = 0 THEN cursor[c] ELSE pair.log[c]
    BY <2>1 DEF Newer, NoRow, Database, DatabaseTyped
  <2> SUFFICES ASSUME NEW c \in Charts
               PROVE  Events({r \in plays' : r.chart = c}) = cursor'[c] - imports'[1].log[c]
    BY DEF PlaysAccounted
  <2> DEFINE old == {r \in plays : r.chart = c}
             row == [chart |-> c, count |-> pair.log[c], lost |-> Lost(pair, c)]
  <2>3. CASE imports = <<>>
    <3>1. NewPlays(pair) = {} /\ plays = {} /\ cursor[c] = 0
      BY <2>3 DEF NewPlays, CursorsAhead, NoRow
    <3>2. {r \in plays' : r.chart = c} = {}
      BY <2>1, <3>1
    <3>3. imports'[1] = pair
      BY <2>1, <2>3
    <3>4. cursor'[c] = pair.log[c] /\ pair.log[c] \in Nat
      BY <2>2, <3>1
    <3> QED
      BY <3>2, <3>3, <3>4, EventsDef
  <2>4. CASE imports # <<>>
    <3>1. imports'[1] = imports[1]
      BY <2>1, <2>4 DEF DatabaseTyped
    <3>2. imports[1] \in Database
      BY <2>4 DEF DatabaseTyped
    <3>3. imports[1].log[c] \in Nat /\ Events(old) = cursor[c] - imports[1].log[c]
      BY <2>4, <3>2 DEF PlaysAccounted, Database
    <3>4. CASE pair.log[c] > cursor[c]
      <4>1. {r \in NewPlays(pair) : r.chart = c} = {row}
        BY <2>4, <3>4 DEF NewPlays
      <4>2. {r \in plays' : r.chart = c} = old \cup {row}
        BY <2>1, <4>1
      <4>3. cursor'[c] = pair.log[c] /\ Lost(pair, c) = pair.log[c] - cursor[c] - 1
            /\ Lost(pair, c) \in Nat
        BY <2>2, <3>4 DEF Lost
      <4>4. row \notin old
        <5>1. \A r \in old : r.count <= cursor[c]
          BY DEF CursorsAhead
        <5> QED
          BY <2>2, <3>4, <5>1
      <4>5. IsFiniteSet(old)
        BY FS_Subset DEF DatabaseTyped
      <4>6. \A x \in old \cup {row} : x.lost \in Nat
        BY <4>3 DEF DatabaseTyped, Row
      <4>7. Events(old \cup {row}) = Events(old) + 1 + row.lost
        <5> HIDE DEF old, row
        <5> QED
          BY <4>4, <4>5, <4>6, EventsWith
      <4>8. Events({r \in plays' : r.chart = c})
              = (cursor[c] - imports[1].log[c]) + 1 + (pair.log[c] - cursor[c] - 1)
        BY <3>3, <4>2, <4>3, <4>7
      <4>9. \A b, n, m \in Nat : (n - b) + 1 + (m - n - 1) = m - b
        OBVIOUS
      <4> QED
        BY <2>2, <3>1, <3>3, <4>3, <4>8, <4>9
    <3>5. CASE ~(pair.log[c] > cursor[c])
      <4>1. {r \in NewPlays(pair) : r.chart = c} = {}
        BY <3>5 DEF NewPlays
      <4>2. {r \in plays' : r.chart = c} = old
        BY <2>1, <4>1
      <4>3. cursor'[c] = cursor[c]
        BY <2>1, <2>2, <3>5
      <4> QED
        BY <3>1, <3>3, <4>2, <4>3
    <3> QED
      BY <3>4, <3>5
  <2> QED
    BY <2>3, <2>4
<1> QED
  BY <1>1, <1>2, Footprints

LEMMA StateStep ==
    ASSUME DatabaseTyped, StateOfLastImport, [Next]_vars
    PROVE  StateOfLastImport'
<1>1. CASE UNCHANGED <<imports, state, cursor, plays>>
  BY <1>1 DEF StateOfLastImport
<1>2. ASSUME NEW p \in Commands, Import(p) PROVE StateOfLastImport'
  <2>1. PICK pair \in Database :
          /\ imports' = Append(imports, pair)
          /\ state' = Newer(state, pair.score) /\ cursor' = Newer(cursor, pair.log)
    BY <1>2, ImportStep
  <2>2. imports'[Len(imports')] = pair
    BY <2>1 DEF DatabaseTyped
  <2> QED
    BY <2>1, <2>2 DEF StateOfLastImport, Newer
<1> QED
  BY <1>1, <1>2, Footprints

-----------------------------------------------------------------------------
(* The theorems.                                                           *)

LEMMA Invariant == Spec => []IInv
<1>1. Init => IInv
  <2> SUFFICES ASSUME Init PROVE IInv
    OBVIOUS
  <2> DEFINE first == [score |-> [c \in Charts |-> NoRow], log |-> [c \in Charts |-> NoRow]]
  <2>1. first \in Database
    BY DEF Database, NoRow
  <2>2. world \in Seq(Database) /\ world # <<>>
    <3>1. world = <<first>>
      BY DEF Init
    <3> HIDE DEF first
    <3> QED
      BY <2>1, <3>1
  <2>3. DatabaseTyped
    BY <2>2, FS_EmptySet DEF Init, DatabaseTyped, NoRow
  <2>4. OutputTyped
    BY DEF Init, OutputTyped
  <2>5. CommandsTyped
    BY DailyAssumption DEF Init, CommandsTyped, Command
  <2>6. OutputInv
    BY DEF Init, OutputInv, CommandsExport, TemporaryFromRevisions, ViewFromRevisions,
           SavedWasExported, Idle
  <2>7. AccountInv
    BY DEF Init, AccountInv, CursorsAhead, PlaysAccounted, StateOfLastImport
  <2> QED
    BY <2>3, <2>4, <2>5, <2>6, <2>7 DEF IInv, Typed
<1>2. IInv /\ [Next]_vars => IInv'
  BY TypedStep, OutputInvStep, CursorsStep, PlaysAccountedStep, StateStep
     DEF IInv, AccountInv, Typed
<1> QED
  BY <1>1, <1>2, PTL DEF Spec

\* The database, the exports and the running commands stay within their types.
THEOREM TypesHold == Spec => []TypeOK
<1>1. Typed => TypeOK
  <2> SUFFICES ASSUME Typed PROVE TypeOK
    OBVIOUS
  <2>1. \A c \in Charts : state[c] \in Nat /\ cursor[c] \in Nat
    BY DEF Typed, DatabaseTyped
  <2>2. \A r \in plays : r.chart \in Charts /\ r.count \in Nat /\ r.lost \in Nat
    BY DEF Typed, DatabaseTyped, Row
  <2>3. \A r \in revisions : r.revision \in Nat \ {0} /\ r.session \in Sessions
    BY DEF Typed, OutputTyped, RevisionOf
  <2> QED
    BY <2>1, <2>2, <2>3 DEF Typed, DatabaseTyped, OutputTyped, CommandsTyped, TypeOK
<1> QED
  BY <1>1, Invariant, PTL DEF IInv

\* Every play counted after the first import is one row or one lost event of
\* one row (collect/snapshot.py's import of scoredatalog.db).
THEOREM PlaysCountedOnce == Spec => []PlaysAccounted
BY Invariant, PTL DEF IInv, AccountInv

\* A refused or repeated pair leaves nothing of itself in score_state and the
\* cursors (collect/snapshot.py's one transaction).
THEOREM ImportsAreWhole == Spec => []StateOfLastImport
BY Invariant, PTL DEF IInv, AccountInv

\* What is served has the content of a complete revision (plan/menu.py's
\* write_export), whichever commands overlap or die.
THEOREM ServedFilesAreRevisions == Spec => []ViewFromRevisions
BY Invariant, PTL DEF IInv, OutputInv

\* A session that is saved was exported (cli.py's _persist_session comes last).
THEOREM SavedSessionsWereExported == Spec => []SavedWasExported
BY Invariant, PTL DEF IInv, OutputInv

\* A revision directory is never changed or removed
\* (plan/menu.py's _write_revision_directory).
THEOREM RevisionsStay == Spec => RevisionsImmutable
<1>1. [Next]_vars => [revisions \subseteq revisions']_vars
  BY RevisionsGrow
<1> QED
  BY <1>1, PTL DEF Spec, RevisionsImmutable
=============================================================================
