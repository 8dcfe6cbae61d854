----------------------- MODULE ProgressMonitorProofs -----------------------
(***************************************************************************)
(* What ProgressMonitor guarantees for every number of workers, plays,     *)
(* ticks and faults, whether the sender runs in the window or as a         *)
(* command.  Beside the types, a thread that runs is the one the           *)
(* controller owns while the settings say on; the request that holds       *)
(* progress_lock has read what is stored; an answer that is on its way to  *)
(* the window is not ahead of what is stored; and a number that claims to  *)
(* be of today counts today's notes.                                       *)
(***************************************************************************)
EXTENDS ProgressMonitor, WellFoundedInduction, NaturalsInduction, FiniteSetTheorems, TLAPS

USE ProgressAssumption

----------------------------------------------------------------------------
(* Types.                                                                  *)

Stages == {"unborn", "wait", "poll", "posted", "live", "error", "dead"}
Numbers == [current : Int, today : Int]
Thread == [at : Stages, stop : BOOLEAN, force : BOOLEAN, clock : Int,
           counts : Numbers \cup {None},
           sent : [time : Int, counts : Numbers] \cup {None}]
Request == [worker : Workers, current : Int, today : Int, observed : Int]
Snapshots == [current : Int, today : Int, observed : Int]

\* The table player has a newest day.
RowsTyped ==
    /\ DOMAIN rows \subseteq Int
    /\ \A d \in DOMAIN rows : rows[d] \in Int
    /\ \E d \in DOMAIN rows : \A e \in DOMAIN rows : e <= d

\* A worker has counts while it sends them.
ThreadsTyped ==
    /\ worker \in [Workers -> Thread]
    /\ \A w \in Workers : worker[w].at \in {"poll", "posted"} => worker[w].counts \in Numbers
    /\ owner \in Workers \cup {Nobody}

NetworkTyped ==
    /\ posts \subseteq Request
    /\ handled # None => handled.post \in Request
    /\ stored \in Snapshots \cup {None}

Types == now \in Int /\ RowsTyped /\ ThreadsTyped /\ NetworkTyped

----------------------------------------------------------------------------
(* The newest day of a set of days that does not go on for ever.           *)

LEMMA LatestExists ==
    ASSUME NEW s \in SUBSET Int, s # {}, NEW m \in Int, \A e \in s : e <= m
    PROVE  Latest(s) \in s /\ \A e \in s : e <= Latest(s)
<1> DEFINE T == {n \in Nat : m - n \in s}
<1>1. T # {} /\ T \subseteq Nat
  <2>1. PICK e \in s : TRUE
    OBVIOUS
  <2>2. m - e \in Nat /\ m - (m - e) = e
    BY <2>1
  <2> QED
    BY <2>1, <2>2
<1>2. PICK n \in T : \A k \in T : <<k, n>> \notin OpToRel(<, Nat)
  <2> HIDE DEF T
  <2> QED
    BY <1>1, NatLessThanWellFounded, WFMin, Zenon
<1>3. \A e \in s : e <= m - n
  <2> TAKE e \in s
  <2>1. e \in Int /\ e <= m
    OBVIOUS
  <2>2. CASE e > m - n
    <3>1. m - e \in T
      <4>1. m - e \in Nat /\ m - (m - e) = e
        BY <2>1
      <4> QED
        BY <4>1
    <3>2. m - e < n /\ m - e \in Nat /\ n \in Nat
      BY <2>1, <2>2, <3>1
    <3>3. <<m - e, n>> \in OpToRel(<, Nat)
      BY <3>2 DEF OpToRel
    <3> QED
      BY <1>2, <3>1, <3>3
  <2> QED
    BY <2>1, <2>2
<1>4. m - n \in s
  BY <1>2
<1> QED
  BY <1>3, <1>4 DEF Latest

\* What the reader returns are numbers.
LEMMA CountsAreNumbers ==
    ASSUME RowsTyped, NEW day
    PROVE  ReadCounts(day) \in Numbers /\ Total \in Int
<1>1. PICK m \in DOMAIN rows : \A e \in DOMAIN rows : e <= m
  BY DEF RowsTyped
<1> DEFINE last == Latest(DOMAIN rows)
           before == DOMAIN rows \ {last}
<1>2. DOMAIN rows \in SUBSET Int /\ DOMAIN rows # {} /\ m \in Int
  BY <1>1 DEF RowsTyped
<1>3. last \in DOMAIN rows
  BY <1>1, <1>2, LatestExists
<1>4. Total \in Int
  BY <1>3 DEF Total, RowsTyped
<1>5. before # {} => Latest(before) \in before
  BY <1>1, <1>2, LatestExists
<1>6. before # {} => rows[Latest(before)] \in Int
  BY <1>5 DEF RowsTyped
<1> HIDE DEF last, before
<1>7. ReadCounts(day) = [current |-> Total,
                         today |-> IF last < day THEN 0
                                   ELSE IF last = day /\ before # {}
                                   THEN Total - rows[Latest(before)] ELSE Unknown]
  BY DEF ReadCounts, last, before
<1> QED
  BY <1>4, <1>6, <1>7 DEF Numbers, Unknown

----------------------------------------------------------------------------
(* Types are kept.                                                         *)

LEMMA IdleIsThread == Idle \in Thread /\ Dead \in Thread /\ Dead.at = "dead"
<1>1. Idle \in Thread
  BY DEF Idle, Thread, Stages
<1>2. "dead" \in Stages
  BY DEF Stages
<1>3. Dead.at = "dead"
  BY DEF Dead, Idle
<1> QED
  BY <1>1, <1>2, <1>3 DEF Dead, Thread

LEMMA TypesInit == Init => Types
  BY DEF Init, Types, RowsTyped, ThreadsTyped, NetworkTyped, Idle, Thread, Stages, Workers,
         Nobody

\* A step of one worker that writes a worker's record.
LEMMA WorkerChanges ==
    ASSUME ThreadsTyped, NEW w \in Workers, NEW t \in Thread,
           t.at \in {"poll", "posted"} => t.counts \in Numbers,
           worker' = [worker EXCEPT ![w] = t], owner' \in Workers \cup {Nobody}
    PROVE  ThreadsTyped'
  BY DEF ThreadsTyped

\* The answer to a request, stored or not, leaves a worker a worker.
LEMMA ReplyTyped ==
    ASSUME ThreadsTyped, NEW p \in Request, NEW ok \in BOOLEAN, worker' = Reply(p, ok),
           owner' = owner
    PROVE  ThreadsTyped'
<1>1. CASE ~Waits(p)
  BY <1>1 DEF Reply, ThreadsTyped
<1>2. CASE Waits(p)
  <2> DEFINE w == p.worker
  <2>1. /\ w \in Workers /\ worker[w] \in Thread /\ worker[w].counts \in Numbers
        /\ worker[w].at = "posted"
    BY <1>2 DEF Waits, ThreadsTyped, Request
  <2>2. Sent(worker[w]) \in Thread /\ Sent(worker[w]).at = "live"
    BY <2>1 DEF Sent, Thread, Stages
  <2>3. [worker[w] EXCEPT !.at = "error"] \in Thread
    BY <2>1 DEF Thread, Stages
  <2>4. worker' = [worker EXCEPT ![w] = IF ok THEN Sent(worker[w])
                                        ELSE [worker[w] EXCEPT !.at = "error"]]
    BY <1>2 DEF Reply
  <2>5. [worker[w] EXCEPT !.at = "error"].at = "error"
    BY <2>1 DEF Thread
  <2> HIDE DEF w
  <2> QED
    BY <2>1, <2>2, <2>3, <2>4, <2>5, WorkerChanges DEF ThreadsTyped
<1> QED
  BY <1>1, <1>2

\* Only the player's notes change the table.
LEMMA RowsStep == Types /\ [Next]_vars => RowsTyped'
<1> SUFFICES ASSUME Types, [Next]_vars PROVE RowsTyped'
  OBVIOUS
<1>1. ASSUME PlayNotes PROVE RowsTyped'
  <2> DEFINE s == {Day(now)} \cup DOMAIN rows
             d == Latest(s)
  <2>1. Day(now) \in Int
    BY DEF Types, Day
  <2>2. PICK m \in DOMAIN rows : \A e \in DOMAIN rows : e <= m
    BY DEF Types, RowsTyped
  <2>3. s \in SUBSET Int /\ s # {} /\ m \in Int
    BY <2>1, <2>2 DEF Types, RowsTyped
  <2>4. d \in s /\ \A e \in s : e <= d
    <3>1. CASE m >= Day(now)
      <4>1. \A e \in s : e <= m
        BY <2>1, <2>2, <3>1
      <4> HIDE DEF s
      <4> QED
        BY <2>3, <4>1, LatestExists
    <3>2. CASE m < Day(now)
      <4>1. \A e \in s : e <= Day(now)
        BY <2>1, <2>2, <2>3, <3>2 DEF Types, RowsTyped
      <4> HIDE DEF s
      <4> QED
        BY <2>1, <2>3, <4>1, LatestExists
    <3> QED
      BY <2>1, <2>3, <3>1, <3>2
  <2>5. Total \in Int
    BY CountsAreNumbers DEF Types
  <2>6. rows' = [e \in DOMAIN rows \cup {d} |-> IF e = d THEN Total + 1 ELSE rows[e]]
    BY <1>1 DEF PlayNotes
  <2>7. s \subseteq DOMAIN rows \cup {Day(now)} /\ DOMAIN rows \subseteq s
    OBVIOUS
  <2> HIDE DEF s, d
  <2> QED
    BY <2>3, <2>4, <2>5, <2>6, <2>7 DEF Types, RowsTyped
<1>2. ASSUME rows' = rows PROVE RowsTyped'
  BY <1>2 DEF Types, RowsTyped
<1>3. PlayNotes \/ rows' = rows
  BY DEF Next, Tick, WorkerStep, Begin, Poll, Publish, ReadFails, PostFails, ClickStart,
         ClickStop, ClickSendNow, Refresh, Restart, GuiStep, Launch, SaveOff, SaveOffFails,
         Stopped, JoinTimesOut, StartFails, ServerStep, Store, Receive, ServerDies, vars, world
<1> QED
  BY <1>1, <1>2, <1>3

LEMMA ClockStep == Types /\ [Next]_vars => now' \in Int
<1> SUFFICES ASSUME Types, [Next]_vars PROVE now' \in Int
  OBVIOUS
<1>1. Tick \/ now' = now
  BY DEF Next, PlayNotes, WorkerStep, Begin, Poll, Publish, ReadFails, PostFails, ClickStart,
         ClickStop, ClickSendNow, Refresh, Restart, GuiStep, Launch, SaveOff, SaveOffFails,
         Stopped, JoinTimesOut, StartFails, ServerStep, Store, Receive, ServerDies, vars, world
<1> QED
  BY <1>1 DEF Types, Tick

\* What a worker does in a round, up to its snapshot.
LEMMA WorkerStepTyped ==
    ASSUME Types, NEW w \in Workers, WorkerStep(w) \/ ReadFails(w) \/ PostFails(w)
    PROVE  ThreadsTyped' /\ NetworkTyped'
<1>1. worker[w] \in Thread /\ owner \in Workers \cup {Nobody} /\ ThreadsTyped
  BY DEF Types, ThreadsTyped
<1>2. \A day : ReadCounts(day) \in Numbers
  BY CountsAreNumbers DEF Types
<1>3. ASSUME Begin(w) PROVE ThreadsTyped' /\ NetworkTyped'
  <2> DEFINE t == IF worker[w].stop THEN Dead
                  ELSE [worker[w] EXCEPT !.at = "poll", !.clock = now,
                                         !.counts = ReadCounts(Day(now))]
  <2>1. t \in Thread /\ (t.at \in {"poll", "posted"} => t.counts \in Numbers)
    <3>1. CASE worker[w].stop
      BY <3>1, IdleIsThread
    <3>2. CASE ~worker[w].stop
      <4>1. ReadCounts(Day(now)) \in Numbers /\ now \in Int
        BY <1>2 DEF Types
      <4>2. t = [at |-> "poll", stop |-> worker[w].stop, force |-> worker[w].force,
                 clock |-> now, counts |-> ReadCounts(Day(now)), sent |-> worker[w].sent]
        BY <1>1, <3>2 DEF Thread
      <4> QED
        BY <1>1, <4>1, <4>2 DEF Thread, Stages
    <3> QED
      BY <3>1, <3>2
  <2>2. worker' = [worker EXCEPT ![w] = t] /\ owner' = owner
    BY <1>3 DEF Begin, window
  <2> HIDE DEF t
  <2>3. ThreadsTyped'
    BY <1>1, <2>1, <2>2, WorkerChanges
  <2> QED
    BY <1>3, <2>3 DEF Begin, network, Types, NetworkTyped
<1>4. ASSUME Poll(w) PROVE ThreadsTyped' /\ NetworkTyped'
  <2> DEFINE counts == IF Command THEN worker[w].counts ELSE ReadCounts(Day(now))
             clock == IF Command THEN now ELSE worker[w].clock
             due == Due(w, counts, worker[w].clock)
             t == [worker[w] EXCEPT !.at = IF due THEN "posted" ELSE "live", !.force = FALSE,
                                    !.clock = clock, !.counts = counts]
             p == [worker |-> w, current |-> counts.current, today |-> counts.today,
                   observed |-> clock]
  <2>1. counts \in Numbers /\ clock \in Int
    BY <1>1, <1>2, <1>4 DEF Poll, Types, ThreadsTyped, Thread
  <2>2. /\ worker' = [worker EXCEPT ![w] = t] /\ owner' = owner
        /\ posts' = (IF due THEN posts \cup {p} ELSE posts)
        /\ handled' = handled /\ stored' = stored
    BY <1>4 DEF Poll, window
  <2> HIDE DEF counts, clock, due
  <2>3. t \in Thread /\ t.counts \in Numbers
    BY <1>1, <2>1 DEF Thread, Stages
  <2>4. p \in Request
    BY <2>1 DEF Request, Numbers
  <2> HIDE DEF t, p
  <2>5. ThreadsTyped'
    BY <1>1, <2>2, <2>3, WorkerChanges
  <2>6. NetworkTyped'
    BY <2>2, <2>4 DEF Types, NetworkTyped
  <2> QED
    BY <2>5, <2>6
<1>5. ASSUME Publish(w) PROVE ThreadsTyped' /\ NetworkTyped'
  <2> DEFINE t == [worker[w] EXCEPT !.at = "wait", !.counts = None, !.clock = 0]
  <2>1. t \in Thread /\ t.at = "wait"
    <3> PICK a \in Stages, c \in Int, n \in Numbers \cup {None} :
               a = "wait" /\ c = 0 /\ n = None
      BY DEF Stages
    <3>1. /\ [worker[w] EXCEPT !.at = a, !.counts = n, !.clock = c] \in Thread
          /\ [worker[w] EXCEPT !.at = a, !.counts = n, !.clock = c].at = a
      BY <1>1 DEF Thread
    <3> QED
      BY <3>1
  <2>2. worker' = [worker EXCEPT ![w] = t] /\ owner' = owner
    BY <1>5 DEF Publish
  <2> HIDE DEF t
  <2>3. ThreadsTyped'
    BY <1>1, <2>1, <2>2, WorkerChanges
  <2> QED
    BY <1>5, <2>3 DEF Publish, network, Types, NetworkTyped
<1>6. ASSUME ReadFails(w) PROVE ThreadsTyped' /\ NetworkTyped'
  <2> DEFINE t == [worker[w] EXCEPT !.at = "error", !.force = FALSE]
  <2>1. t \in Thread /\ t.at = "error"
    BY <1>1 DEF Thread, Stages
  <2>2. worker' = [worker EXCEPT ![w] = t] /\ owner' = owner
    BY <1>6 DEF ReadFails, window
  <2> HIDE DEF t
  <2>3. ThreadsTyped'
    BY <1>1, <2>1, <2>2, WorkerChanges
  <2> QED
    BY <1>6, <2>3 DEF ReadFails, network, Types, NetworkTyped
<1>7. ASSUME PostFails(w) PROVE ThreadsTyped' /\ NetworkTyped'
  <2> DEFINE t == [worker[w] EXCEPT !.at = "error"]
  <2>1. t \in Thread /\ t.at = "error"
    BY <1>1 DEF Thread, Stages
  <2>2. worker' = [worker EXCEPT ![w] = t] /\ owner' = owner
    BY <1>7 DEF PostFails, window
  <2> HIDE DEF t
  <2>3. ThreadsTyped'
    BY <1>1, <2>1, <2>2, WorkerChanges
  <2> QED
    BY <1>7, <2>3 DEF PostFails, Types, NetworkTyped
<1> QED
  BY <1>3, <1>4, <1>5, <1>6, <1>7 DEF WorkerStep

\* A callback tells the owned thread to stop.
LEMMA ToldTyped ==
    ASSUME ThreadsTyped, worker' = Told(owner), owner' = owner
    PROVE  ThreadsTyped'
<1>1. CASE owner = Nobody
  BY <1>1 DEF Told, ThreadsTyped
<1>2. CASE owner # Nobody
  <2> DEFINE t == [worker[owner] EXCEPT !.stop = TRUE]
  <2>1. /\ t \in Thread /\ owner \in Workers
        /\ (t.at \in {"poll", "posted"} => t.counts \in Numbers)
    BY <1>2 DEF Thread, ThreadsTyped
  <2>2. worker' = [worker EXCEPT ![owner] = t]
    BY <1>2 DEF Told
  <2> HIDE DEF t
  <2> QED
    BY <2>1, <2>2, WorkerChanges
<1> QED
  BY <1>1, <1>2

\* The window's callbacks.
LEMMA WindowStepTyped ==
    ASSUME Types,
           \/ ClickStart \/ ClickStop \/ ClickSendNow \/ Refresh \/ Restart
           \/ GuiStep \/ JoinTimesOut \/ StartFails \/ SaveOffFails
    PROVE  ThreadsTyped' /\ NetworkTyped'
<1>1. UNCHANGED network
  BY DEF ClickStart, ClickStop, ClickSendNow, Refresh, Restart, GuiStep, Launch, SaveOff,
         Stopped, JoinTimesOut, StartFails, SaveOffFails
<1>2. NetworkTyped'
  BY <1>1 DEF network, Types, NetworkTyped
<1>3. ThreadsTyped
  BY DEF Types
<1>4. ASSUME ClickStart \/ ClickStop PROVE ThreadsTyped'
  BY <1>3, <1>4, ToldTyped DEF ClickStart, ClickStop
<1>5. ASSUME ClickSendNow PROVE ThreadsTyped'
  <2> DEFINE t == [worker[owner] EXCEPT !.force = TRUE]
  <2>1. /\ t \in Thread /\ owner \in Workers
        /\ (t.at \in {"poll", "posted"} => t.counts \in Numbers)
    BY <1>3, <1>5 DEF ClickSendNow, Thread, ThreadsTyped
  <2>2. worker' = [worker EXCEPT ![owner] = t] /\ owner' = owner
    BY <1>5 DEF ClickSendNow, window
  <2> HIDE DEF t
  <2> QED
    BY <1>3, <2>1, <2>2, WorkerChanges
<1>6. ASSUME Restart PROVE ThreadsTyped'
  BY <1>3, <1>6, IdleIsThread DEF Restart, ThreadsTyped
<1>7. ASSUME Launch PROVE ThreadsTyped'
  <2> PICK w \in Workers : worker[w].at = "unborn" /\ worker' = [worker EXCEPT ![w].at = "wait"]
                           /\ owner' = w
    BY <1>7 DEF Launch
  <2> DEFINE t == [worker[w] EXCEPT !.at = "wait"]
  <2>1. t \in Thread /\ t.at = "wait"
    BY <1>3 DEF Thread, Stages, ThreadsTyped
  <2>2. worker' = [worker EXCEPT ![w] = t] /\ owner' \in Workers
    OBVIOUS
  <2> HIDE DEF t
  <2> QED
    BY <1>3, <2>1, <2>2, WorkerChanges
<1>8. ASSUME Refresh \/ SaveOff \/ JoinTimesOut \/ StartFails \/ SaveOffFails
      PROVE  ThreadsTyped'
  BY <1>3, <1>8
     DEF Refresh, SaveOff, Stopped, JoinTimesOut, StartFails, SaveOffFails, ThreadsTyped
<1> QED
  BY <1>2, <1>4, <1>5, <1>6, <1>7, <1>8 DEF GuiStep

\* The server's thread.
LEMMA ServerStepTyped ==
    ASSUME Types, ServerStep \/ ServerDies
    PROVE  ThreadsTyped' /\ NetworkTyped'
<1>1. ThreadsTyped /\ NetworkTyped
  BY DEF Types
<1>2. ASSUME NEW p \in posts, Receive(p) PROVE ThreadsTyped' /\ NetworkTyped'
  BY <1>1, <1>2 DEF Receive, window, ThreadsTyped, NetworkTyped
<1>3. ASSUME Store PROVE ThreadsTyped' /\ NetworkTyped'
  <2> DEFINE p == handled.post
             old == handled.previous
             ok == Accepts(p, old) \/ (old # None /\ Same(p, old))
  <2>1. p \in Request
    BY <1>1, <1>3 DEF Store, NetworkTyped
  <2>2. worker' = Reply(p, ok) /\ owner' = owner /\ ok \in BOOLEAN
    BY <1>3 DEF Store, window, Accepts, Same
  <2>3. ThreadsTyped'
    <3> HIDE DEF ok, p
    <3> QED
      BY <1>1, <2>1, <2>2, ReplyTyped
  <2>4. Kept(p) \in Snapshots
    BY <2>1 DEF Kept, Request, Snapshots
  <2>5. NetworkTyped'
    BY <1>1, <1>3, <2>4 DEF Store, NetworkTyped
  <2> QED
    BY <2>3, <2>5
<1>4. ASSUME ServerDies PROVE ThreadsTyped' /\ NetworkTyped'
  <2>1. handled.post \in Request /\ worker' = Reply(handled.post, FALSE) /\ owner' = owner
    BY <1>1, <1>4 DEF ServerDies, NetworkTyped, window
  <2>2. ThreadsTyped'
    BY <1>1, <2>1, ReplyTyped
  <2> QED
    BY <1>1, <1>4, <2>2 DEF ServerDies, NetworkTyped
<1> QED
  BY <1>2, <1>3, <1>4 DEF ServerStep

LEMMA TypesStep == Types /\ [Next]_vars => Types'
<1> SUFFICES ASSUME Types, [Next]_vars PROVE ThreadsTyped' /\ NetworkTyped'
  BY RowsStep, ClockStep DEF Types
<1>1. ASSUME UNCHANGED <<worker, owner, posts, handled, stored>>
      PROVE  ThreadsTyped' /\ NetworkTyped'
  BY <1>1 DEF Types, ThreadsTyped, NetworkTyped
<1>2. CASE Tick \/ PlayNotes \/ UNCHANGED vars
  BY <1>1, <1>2 DEF Tick, PlayNotes, vars, window, network
<1> QED
  BY <1>2, WorkerStepTyped, WindowStepTyped, ServerStepTyped DEF Next

----------------------------------------------------------------------------
(* One thread, and none while the settings say off.                        *)

\* A thread that runs is the controller's, and the settings say on.
OwnedThreads == \A w \in Workers : Alive(w) => w = owner /\ enabled

LEMMA OwnedInit == Init => OwnedThreads
  BY DEF Init, OwnedThreads, Alive, Idle

\* A step in which no thread comes to life, and neither the controller nor the
\* settings give one up that runs.
LEMMA OwnedStays ==
    ASSUME OwnedThreads, \A w \in Workers : Alive(w)' => Alive(w),
           owner' = owner, enabled' = enabled
    PROVE  OwnedThreads'
  BY DEF OwnedThreads

LEMMA OwnedStep == Types /\ OwnedThreads /\ [Next]_vars => OwnedThreads'
<1> SUFFICES ASSUME Types, OwnedThreads, [Next]_vars PROVE OwnedThreads'
  OBVIOUS
<1>1. worker \in [Workers -> Thread] /\ owner \in Workers \cup {Nobody}
  BY DEF Types, ThreadsTyped
<1>2. ASSUME UNCHANGED <<worker, owner, enabled>> PROVE OwnedThreads'
  BY <1>2, OwnedStays DEF Alive
<1>3. ASSUME Tick \/ PlayNotes \/ Refresh \/ JoinTimesOut \/ (\E p \in posts : Receive(p))
             \/ UNCHANGED vars
      PROVE  OwnedThreads'
  BY <1>2, <1>3
     DEF Tick, PlayNotes, Refresh, JoinTimesOut, Receive, window, vars
<1>4. ASSUME NEW w \in Workers, WorkerStep(w) \/ ReadFails(w) \/ PostFails(w)
      PROVE  OwnedThreads'
  <2>1. /\ Alive(w) /\ owner' = owner /\ enabled' = enabled
        /\ \A v \in Workers \ {w} : worker'[v] = worker[v]
    BY <1>1, <1>4
       DEF WorkerStep, Begin, Poll, Publish, ReadFails, PostFails, window, Alive
  <2> QED
    BY <2>1, OwnedStays DEF Alive
<1>5. ASSUME worker' = Told(owner), owner' = owner, enabled' = enabled PROVE OwnedThreads'
  <2>1. \A w \in Workers : worker'[w].at = worker[w].at
    BY <1>1, <1>5 DEF Told, Thread
  <2> QED
    BY <1>5, <2>1, OwnedStays DEF Alive
<1>6. ASSUME ClickStart \/ ClickStop PROVE OwnedThreads'
  BY <1>5, <1>6 DEF ClickStart, ClickStop
<1>7. ASSUME ClickSendNow PROVE OwnedThreads'
  <2>1. \A w \in Workers : worker'[w].at = worker[w].at
    BY <1>1, <1>7 DEF ClickSendNow, Thread
  <2> QED
    BY <1>7, <2>1, OwnedStays DEF ClickSendNow, window, Alive
<1>8. ASSUME Restart PROVE OwnedThreads'
  BY <1>1, <1>8 DEF Restart, OwnedThreads, Alive, Dead, Idle
<1>9. ASSUME Joined PROVE \A w \in Workers : ~Alive(w)
  BY <1>9 DEF Joined, OwnedThreads, Nobody, Workers
<1>10. ASSUME Launch PROVE OwnedThreads'
  <2> PICK w \in Workers : worker' = [worker EXCEPT ![w].at = "wait"] /\ owner' = w
    BY <1>10 DEF Launch
  <2>1. \A v \in Workers \ {w} : ~Alive(v)'
    BY <1>1, <1>9, <1>10 DEF Launch, Alive
  <2> QED
    BY <1>10, <2>1 DEF Launch, OwnedThreads
<1>11. ASSUME SaveOff \/ StartFails \/ SaveOffFails PROVE OwnedThreads'
  BY <1>9, <1>11 DEF SaveOff, SaveOffFails, Stopped, StartFails, OwnedThreads, Alive
<1>12. ASSUME NEW p, NEW ok, worker' = Reply(p, ok), owner' = owner, enabled' = enabled,
              p \in Request
       PROVE  OwnedThreads'
  <2>1. CASE ~Waits(p)
    BY <1>2, <1>12, <2>1 DEF Reply
  <2>2. CASE Waits(p)
    <3>1. /\ Alive(p.worker) /\ p.worker \in Workers
          /\ \A v \in Workers \ {p.worker} : worker'[v] = worker[v]
      BY <1>1, <1>12, <2>2 DEF Waits, Reply, Alive, Request
    <3> QED
      BY <1>12, <3>1, OwnedStays DEF Alive
  <2> QED
    BY <2>1, <2>2
<1>13. ASSUME Store \/ ServerDies PROVE OwnedThreads'
  <2>1. handled.post \in Request /\ owner' = owner /\ enabled' = enabled
    BY <1>13 DEF Store, ServerDies, Types, NetworkTyped, window
  <2> QED
    BY <1>12, <1>13, <2>1 DEF Store, ServerDies
<1> QED
  BY <1>3, <1>4, <1>6, <1>7, <1>8, <1>10, <1>11, <1>13 DEF Next, GuiStep, ServerStep

\* ProgressMonitorController owns "exactly one sender worker": no two threads
\* poll and post at a time, however many are started, joins time out, starts
\* fail and the process restarts.
THEOREM OneThreadSends == Spec => []OneSender
<1>1. Types /\ OwnedThreads => OneSender
  <2> SUFFICES ASSUME OwnedThreads PROVE OneSender
    OBVIOUS
  <2> DEFINE alive == {w \in Workers : Alive(w)}
  <2>1. alive \subseteq {owner}
    BY DEF OwnedThreads
  <2>2. IsFiniteSet({owner}) /\ Cardinality({owner}) = 1
    BY FS_Singleton
  <2>3. Cardinality(alive) <= 1
    BY <2>1, <2>2, FS_Subset
  <2> QED
    BY <2>3 DEF OneSender
<1> QED
  BY <1>1, TypesInit, TypesStep, OwnedInit, OwnedStep, PTL DEF Spec

\* While the settings file says off no thread runs, so that a stop the window
\* has confirmed stays one, also after a restart.
THEOREM OffStaysSilent == Spec => []OffIsSilent
<1>1. OwnedThreads => OffIsSilent
  BY DEF OwnedThreads, OffIsSilent
<1> QED
  BY <1>1, TypesInit, TypesStep, OwnedInit, OwnedStep, PTL DEF Spec

----------------------------------------------------------------------------
(* progress.json.                                                          *)

\* The lock: nothing is stored between the reading and the answer.
LockHeld == handled # None => handled.previous = stored

LEMMA LockStep == LockHeld /\ [Next]_vars => LockHeld'
<1> SUFFICES ASSUME LockHeld, [Next]_vars PROVE LockHeld'
  OBVIOUS
<1>1. CASE \E p \in posts : Receive(p)
  BY <1>1 DEF Receive, LockHeld
<1>2. CASE Store \/ ServerDies
  BY <1>2 DEF Store, ServerDies, LockHeld
<1>3. ASSUME UNCHANGED <<handled, stored>> PROVE LockHeld'
  BY <1>3 DEF LockHeld
<1>4. \/ \E p \in posts : Receive(p)
      \/ Store \/ ServerDies \/ UNCHANGED <<handled, stored>>
  BY DEF Next, Tick, PlayNotes, WorkerStep, Begin, Poll, Publish, ReadFails, PostFails,
         ClickStart, ClickStop, ClickSendNow, Refresh, Restart, GuiStep, Launch, SaveOff,
         SaveOffFails, Stopped, JoinTimesOut, StartFails, ServerStep, vars, network
<1> QED
  BY <1>1, <1>2, <1>3, <1>4

\* progress.json only moves forward.
LEMMA StoredForward ==
    ASSUME Types, LockHeld, [Next]_vars
    PROVE  stored # None => /\ stored' # None
                            /\ stored'.observed >= stored.observed
                            /\ stored'.current >= stored.current
<1> DEFINE Forward == stored # None => /\ stored' # None
                                       /\ stored'.observed >= stored.observed
                                       /\ stored'.current >= stored.current
<1>1. ASSUME stored' = stored PROVE Forward
  BY <1>1 DEF Types, NetworkTyped, Snapshots
<1>2. ASSUME Store PROVE Forward
  <2> DEFINE p == handled.post
  <2>1. p \in Request /\ handled.previous = stored
    BY <1>2 DEF Store, LockHeld, Types, NetworkTyped
  <2>2. CASE stored' = stored
    BY <1>1, <2>2
  <2>3. CASE stored' # stored /\ stored # None
    <3>1. stored' = Kept(p) /\ Accepts(p, stored)
      BY <1>2, <2>1, <2>3 DEF Store
    <3>2. ~(p.observed < stored.observed) /\ ~(p.current < stored.current)
      BY <2>3, <3>1 DEF Accepts, Backwards
    <3>3. /\ stored \in Snapshots /\ Kept(p).observed = p.observed
          /\ Kept(p).current = p.current
      BY <2>3 DEF Types, NetworkTyped, Kept
    <3>4. Kept(p) # None
      BY DEF Kept, None
    <3> QED
      BY <2>1, <3>1, <3>2, <3>3, <3>4 DEF Request, Snapshots
  <2> QED
    BY <2>2, <2>3
<1>3. Store \/ stored' = stored
  BY DEF Next, Tick, PlayNotes, WorkerStep, Begin, Poll, Publish, ReadFails, PostFails,
         ClickStart, ClickStop, ClickSendNow, Refresh, Restart, GuiStep, Launch, SaveOff,
         SaveOffFails, Stopped, JoinTimesOut, StartFails, ServerStep, Receive, ServerDies,
         vars, network
<1> QED
  BY <1>1, <1>2, <1>3

\* Whatever the order in which requests of living and dead workers arrive, the
\* stored snapshot goes back neither in time nor in notes (receive_progress).
THEOREM StoredNeverGoesBack == Spec => NeverBackwards
<1> DEFINE Forward == stored # None => /\ stored' # None
                                       /\ stored'.observed >= stored.observed
                                       /\ stored'.current >= stored.current
<1>1. Types /\ LockHeld /\ [Next]_vars => [Forward]_vars
  BY StoredForward
<1>2. Init => LockHeld
  BY DEF Init, LockHeld
<1> QED
  BY <1>1, <1>2, TypesInit, TypesStep, LockStep, PTL DEF Spec, NeverBackwards

----------------------------------------------------------------------------
(* What the window shows as sent.                                          *)

\* A snapshot of this time and number has reached progress.json.
Reached(time, current) ==
    /\ time \in Int /\ current \in Int /\ stored # None
    /\ stored.observed >= time /\ stored.current >= current

\* An answer travels from the worker to the queue and on to the window.
SentInv ==
    /\ \A w \in Workers : worker[w].sent # None =>
          Reached(worker[w].sent.time, worker[w].sent.counts.current)
    /\ \A w \in Workers : queued[w] # None /\ queued[w].sent # None =>
          Reached(queued[w].sent.time, queued[w].sent.current)
    /\ gui.latest # None /\ gui.latest.sent # None =>
          Reached(gui.latest.sent.time, gui.latest.sent.current)

\* So what was reached stays reached.
LEMMA ReachedStays ==
    ASSUME Types, LockHeld, [Next]_vars
    PROVE  \A time, current : Reached(time, current) => Reached(time, current)'
<1> SUFFICES ASSUME NEW time, NEW current, Reached(time, current)
             PROVE  Reached(time, current)'
  OBVIOUS
<1>1. /\ stored' # None
      /\ stored'.observed >= stored.observed /\ stored'.current >= stored.current
  BY StoredForward DEF Reached
<1>2. stored \in Snapshots
  BY DEF Reached, Types, NetworkTyped
<1>3. stored' \in Snapshots
  BY <1>1, TypesStep DEF Types, NetworkTyped
<1> QED
  BY <1>1, <1>2, <1>3 DEF Reached, Snapshots

\* The answer that a request is stored tells its worker what was stored.
LEMMA StoreAnswers ==
    ASSUME Types, LockHeld, Store, NEW w \in Workers, worker'[w].sent # None
    PROVE  \/ worker'[w].sent = worker[w].sent
           \/ Reached(worker[w].sent.time, worker[w].sent.counts.current)'
<1> DEFINE p == handled.post
           ok == Accepts(p, stored) \/ (stored # None /\ Same(p, stored))
<1>1. /\ handled # None /\ p \in Request
      /\ stored' = (IF Accepts(p, stored) THEN Kept(p) ELSE stored)
      /\ worker' = Reply(p, ok)
  BY DEF Store, LockHeld, Types, NetworkTyped
<1>2. worker \in [Workers -> Thread] /\ p.worker \in Workers
  BY <1>1 DEF Types, ThreadsTyped, Request
<1>3. CASE Waits(p) /\ ok /\ w = p.worker
  <2>1. worker'[w] = Sent(worker[w])
    BY <1>1, <1>2, <1>3 DEF Reply
  <2>2. worker'[w].sent = [time |-> worker[w].clock, counts |-> worker[w].counts]
    BY <1>2, <2>1 DEF Sent, Thread
  <2>3. /\ worker[w].clock = p.observed
        /\ worker[w].counts.current = p.current
    BY <1>3 DEF Waits
  <2>4. stored' # None /\ stored'.observed = p.observed /\ stored'.current = p.current
    <3>1. CASE Accepts(p, stored)
      BY <1>1, <3>1 DEF Kept, None
    <3>2. CASE ~Accepts(p, stored)
      BY <1>1, <1>3, <3>2 DEF Same
    <3> QED
      BY <3>1, <3>2
  <2>5. p.observed \in Int /\ p.current \in Int
    BY <1>1 DEF Request
  <2>6. worker'[w].sent.time = p.observed /\ worker'[w].sent.counts.current = p.current
    BY <2>2, <2>3
  <2> HIDE DEF p
  <2> QED
    BY <2>4, <2>5, <2>6 DEF Reached
<1>4. CASE Waits(p) /\ ~ok /\ w = p.worker
  <2>1. worker'[w] = [worker[w] EXCEPT !.at = "error"]
    BY <1>1, <1>2, <1>4 DEF Reply
  <2> QED
    BY <1>2, <2>1 DEF Thread
<1>5. CASE ~Waits(p) \/ w # p.worker
  BY <1>1, <1>2, <1>5 DEF Reply
<1> QED
  BY <1>3, <1>4, <1>5

\* Other steps leave what a worker knows as sent, or make it forget.
LEMMA OthersAnswer ==
    ASSUME Types, [Next]_vars, ~Store, NEW w \in Workers, worker'[w].sent # None
    PROVE  worker'[w].sent = worker[w].sent
<1>1. worker \in [Workers -> Thread] /\ owner \in Workers \cup {Nobody}
  BY DEF Types, ThreadsTyped
<1>2. CASE worker' = worker
  BY <1>2
<1>3. ASSUME NEW v \in Workers, Begin(v) PROVE worker'[w].sent = worker[w].sent
  <2>1. Dead.sent = None
    BY DEF Dead, Idle
  <2>2. CASE worker[v].stop
    <3>1. worker' = [worker EXCEPT ![v] = Dead]
      BY <1>3, <2>2 DEF Begin
    <3> QED
      BY <1>1, <2>1, <3>1
  <2>3. CASE ~worker[v].stop
    <3>1. worker' = [worker EXCEPT ![v] = [worker[v] EXCEPT !.at = "poll", !.clock = now,
                                              !.counts = ReadCounts(Day(now))]]
      BY <1>3, <2>3 DEF Begin
    <3> QED
      BY <1>1, <3>1 DEF Thread
  <2> QED
    BY <2>2, <2>3
<1>4. ASSUME NEW v \in Workers, Poll(v) \/ ReadFails(v) \/ PostFails(v) \/ Publish(v)
      PROVE  worker'[w].sent = worker[w].sent
  <2>1. CASE Poll(v)
    <3> DEFINE counts == IF Command THEN worker[v].counts ELSE ReadCounts(Day(now))
               clock == IF Command THEN now ELSE worker[v].clock
               stage == IF Due(v, counts, worker[v].clock) THEN "posted" ELSE "live"
               t == [worker[v] EXCEPT !.at = stage, !.force = FALSE,
                                      !.clock = clock, !.counts = counts]
    <3>1. worker' = [worker EXCEPT ![v] = t]
      BY <2>1 DEF Poll
    <3> HIDE DEF counts, clock, stage
    <3>2. t.sent = worker[v].sent
      BY <1>1 DEF Thread
    <3> QED
      BY <1>1, <3>1, <3>2
  <2>2. CASE ReadFails(v)
    <3>1. worker' = [worker EXCEPT ![v] = [worker[v] EXCEPT !.at = "error", !.force = FALSE]]
      BY <1>1, <2>2 DEF ReadFails, Thread
    <3> QED
      BY <1>1, <3>1 DEF Thread
  <2>3. CASE PostFails(v)
    BY <1>1, <2>3 DEF PostFails, Thread
  <2>4. CASE Publish(v)
    <3>1. worker' = [worker EXCEPT ![v] = [worker[v] EXCEPT !.at = "wait", !.counts = None,
                                                            !.clock = 0]]
      BY <1>1, <2>4 DEF Publish, Thread
    <3> QED
      BY <1>1, <3>1 DEF Thread
  <2> QED
    BY <1>4, <2>1, <2>2, <2>3, <2>4
<1>5. ASSUME ClickStart \/ ClickStop \/ ClickSendNow PROVE worker'[w].sent = worker[w].sent
  BY <1>1, <1>5 DEF ClickStart, ClickStop, ClickSendNow, Told, Thread
<1>6. ASSUME Launch PROVE worker'[w].sent = worker[w].sent
  BY <1>1, <1>6 DEF Launch, Thread
<1>7. ASSUME Restart PROVE worker'[w].sent = worker[w].sent
  <2>1. worker'[w] = Dead \/ worker'[w] = worker[w]
    BY <1>7 DEF Restart
  <2> QED
    BY <2>1 DEF Dead, Idle
<1>8. ASSUME ServerDies PROVE worker'[w].sent = worker[w].sent
  <2> DEFINE p == handled.post
  <2>1. p.worker \in Workers /\ worker' = Reply(p, FALSE)
    BY <1>8 DEF ServerDies, Types, NetworkTyped, Request
  <2>2. \/ worker' = worker
        \/ worker' = [worker EXCEPT ![p.worker] = [worker[p.worker] EXCEPT !.at = "error"]]
    BY <2>1 DEF Reply
  <2>3. [worker[p.worker] EXCEPT !.at = "error"].sent = worker[p.worker].sent
    BY <1>1, <2>1 DEF Thread
  <2> HIDE DEF p
  <2> QED
    BY <1>1, <2>1, <2>2, <2>3
<1>9. \/ worker' = worker
      \/ \E v \in Workers : Begin(v) \/ Poll(v) \/ ReadFails(v) \/ PostFails(v) \/ Publish(v)
      \/ ClickStart \/ ClickStop \/ ClickSendNow \/ Launch \/ Restart \/ ServerDies
  BY DEF Next, Tick, PlayNotes, WorkerStep, Refresh, GuiStep, SaveOff, SaveOffFails, Stopped,
         JoinTimesOut, StartFails, ServerStep, Receive, vars
<1> QED
  BY <1>2, <1>3, <1>4, <1>5, <1>6, <1>7, <1>8, <1>9

\* The window and its queue, as far as they hold snapshots.
WindowTyped ==
    /\ queued = [w \in Workers |-> queued[w]]
    /\ gui = [at |-> gui.at, switch |-> gui.switch, latest |-> gui.latest,
              generation |-> gui.generation]
    /\ gui.generation \in Workers \cup {Nobody}

\* What a step does to them.
LEMMA WindowMoves ==
    ASSUME WindowTyped, [Next]_vars
    PROVE  /\ WindowTyped'
           /\ \A w \in Workers :
                queued'[w] = queued[w] \/ queued'[w] = None \/ Publish(w)
           /\ \/ gui'.latest = gui.latest \/ gui'.latest = None
              \/ gui'.latest = queued[gui.generation] /\ gui.generation \in Workers
<1> DEFINE Moves ==
             /\ WindowTyped'
             /\ \A w \in Workers :
                  queued'[w] = queued[w] \/ queued'[w] = None \/ Publish(w)
             /\ \/ gui'.latest = gui.latest \/ gui'.latest = None
                \/ gui'.latest = queued[gui.generation] /\ gui.generation \in Workers
<1>1. ASSUME UNCHANGED <<queued, gui>> PROVE Moves
  BY <1>1 DEF WindowTyped
<1>2. ASSUME NEW v \in Workers, Publish(v) PROVE Moves
  <2>1. queued' = [queued EXCEPT ![v] = Snapshot(v)] /\ gui' = gui
    BY <1>2 DEF Publish
  <2>2. queued' = [w \in Workers |-> IF w = v THEN Snapshot(v) ELSE queued[w]]
    BY <2>1 DEF WindowTyped
  <2> QED
    BY <1>2, <2>1, <2>2 DEF WindowTyped
<1>3. ASSUME ClickStart \/ ClickStop PROVE Moves
  <2>1. /\ queued' = queued
        /\ \E x, b : gui' = [at |-> x, switch |-> b, latest |-> None, generation |-> Nobody]
    BY <1>3 DEF ClickStart, ClickStop
  <2> QED
    BY <2>1 DEF WindowTyped
<1>4. ASSUME Launch PROVE Moves
  <2>1. PICK v \in Workers : gui' = [gui EXCEPT !.at = "idle", !.generation = v]
    BY <1>4 DEF Launch
  <2>2. queued' = queued
    BY <1>4 DEF Launch
  <2>3. gui' = [at |-> "idle", switch |-> gui.switch, latest |-> gui.latest, generation |-> v]
    BY <2>1 DEF WindowTyped
  <2> QED
    BY <2>2, <2>3 DEF WindowTyped
<1>5. ASSUME JoinTimesOut \/ StartFails \/ SaveOff \/ SaveOffFails PROVE Moves
  <2>1. /\ queued' = queued
        /\ \/ gui' = [gui EXCEPT !.at = "undo"]
           \/ \E b \in BOOLEAN : gui' = [gui EXCEPT !.at = "idle", !.switch = b]
    BY <1>5 DEF JoinTimesOut, Joining, StartFails, SaveOff, SaveOffFails, Stopped
  <2>2. \E x, b : gui' = [at |-> x, switch |-> b, latest |-> gui.latest,
                          generation |-> gui.generation]
    <3>1. CASE gui' = [gui EXCEPT !.at = "undo"]
      <4>1. gui' = [at |-> "undo", switch |-> gui.switch, latest |-> gui.latest,
                    generation |-> gui.generation]
        BY <3>1 DEF WindowTyped
      <4> QED
        BY <4>1
    <3>2. CASE \E b \in BOOLEAN : gui' = [gui EXCEPT !.at = "idle", !.switch = b]
      <4>1. PICK b \in BOOLEAN : gui' = [gui EXCEPT !.at = "idle", !.switch = b]
        BY <3>2
      <4>2. gui' = [at |-> "idle", switch |-> b, latest |-> gui.latest,
                    generation |-> gui.generation]
        BY <4>1 DEF WindowTyped
      <4> QED
        BY <4>2
    <3> QED
      BY <2>1, <3>1, <3>2
  <2>3. gui'.latest = gui.latest /\ gui'.generation = gui.generation
        /\ gui' = [at |-> gui'.at, switch |-> gui'.switch, latest |-> gui'.latest,
                   generation |-> gui'.generation]
    BY <2>2
  <2> QED
    BY <2>1, <2>3 DEF WindowTyped
<1>6. ASSUME Refresh PROVE Moves
  <2>1. queued' = [w \in Workers |-> None]
    BY <1>6 DEF Refresh
  <2>2. CASE gui.generation # Nobody /\ gui' = [gui EXCEPT !.latest = queued[gui.generation]]
    <3>1. gui' = [at |-> gui.at, switch |-> gui.switch, latest |-> queued[gui.generation],
                  generation |-> gui.generation]
      BY <2>2 DEF WindowTyped
    <3> QED
      BY <2>1, <2>2, <3>1 DEF WindowTyped
  <2>3. CASE gui' = gui
    BY <2>1, <2>3 DEF WindowTyped
  <2> QED
    BY <1>6, <2>2, <2>3 DEF Refresh
<1>7. ASSUME Restart PROVE Moves
  <2>1. /\ queued' = [w \in Workers |-> None]
        /\ \E x, b : gui' = [at |-> x, switch |-> b, latest |-> None, generation |-> Nobody]
    BY <1>7 DEF Restart
  <2> QED
    BY <2>1 DEF WindowTyped
<1>8. \/ UNCHANGED <<queued, gui>> \/ \E v \in Workers : Publish(v)
      \/ ClickStart \/ ClickStop \/ Launch \/ JoinTimesOut \/ StartFails
      \/ SaveOff \/ SaveOffFails \/ Refresh \/ Restart
  BY DEF Next, Tick, PlayNotes, WorkerStep, Begin, Poll, ReadFails, PostFails, ClickSendNow,
         GuiStep, ServerStep, Receive, Store, ServerDies, vars, window
<1> QED
  BY <1>1, <1>2, <1>3, <1>4, <1>5, <1>6, <1>7, <1>8

\* A publication hands on what the worker knows as sent.
LEMMA PublishHandsOn ==
    ASSUME WindowTyped, NEW w \in Workers, Publish(w), queued'[w].sent # None
    PROVE  /\ worker[w].sent # None
           /\ queued'[w].sent = [time |-> worker[w].sent.time,
                                 current |-> worker[w].sent.counts.current]
<1>1. queued'[w] = Snapshot(w)
  BY DEF Publish, WindowTyped
<1>2. queued'[w].sent = IF worker[w].sent = None THEN None
                        ELSE [time |-> worker[w].sent.time,
                              current |-> worker[w].sent.counts.current]
  BY <1>1 DEF Snapshot
<1> QED
  BY <1>2

LEMMA SentStep ==
    ASSUME Types, LockHeld, WindowTyped, SentInv, [Next]_vars
    PROVE  SentInv'
<1>1. \A time, current : Reached(time, current) => Reached(time, current)'
  BY ReachedStays
<1>2. ASSUME NEW w \in Workers, worker'[w].sent # None
      PROVE  Reached(worker[w].sent.time, worker[w].sent.counts.current)'
  <2>1. CASE worker'[w].sent = worker[w].sent
    <3>1. Reached(worker[w].sent.time, worker[w].sent.counts.current)
      BY <1>2, <2>1 DEF SentInv
    <3> QED
      BY <1>1, <2>1, <3>1 DEF Reached
  <2> QED
    BY <1>2, <2>1, StoreAnswers, OthersAnswer
<1>3. ASSUME NEW w \in Workers, queued'[w] # None, queued'[w].sent # None
      PROVE  Reached(queued[w].sent.time, queued[w].sent.current)'
  <2>1. CASE queued'[w] = queued[w]
    <3>1. Reached(queued[w].sent.time, queued[w].sent.current)
      BY <1>3, <2>1 DEF SentInv
    <3> QED
      BY <1>1, <2>1, <3>1 DEF Reached
  <2>2. CASE Publish(w)
    <3>1. Reached(worker[w].sent.time, worker[w].sent.counts.current)
      BY <1>3, <2>2, PublishHandsOn DEF SentInv
    <3>2. queued'[w].sent = [time |-> worker[w].sent.time,
                             current |-> worker[w].sent.counts.current]
      BY <1>3, <2>2, PublishHandsOn
    <3>3. /\ queued'[w].sent.time = worker[w].sent.time
          /\ queued'[w].sent.current = worker[w].sent.counts.current
      BY <3>2
    <3> QED
      BY <1>1, <3>1, <3>3 DEF Reached
  <2>3. queued'[w] = queued[w] \/ queued'[w] = None \/ Publish(w)
    BY WindowMoves
  <2> QED
    BY <1>3, <2>1, <2>2, <2>3
<1>4. ASSUME gui'.latest # None, gui'.latest.sent # None
      PROVE  Reached(gui.latest.sent.time, gui.latest.sent.current)'
  <2>1. CASE gui'.latest = gui.latest
    <3>1. Reached(gui.latest.sent.time, gui.latest.sent.current)
      BY <1>4, <2>1 DEF SentInv
    <3> QED
      BY <1>1, <2>1, <3>1 DEF Reached
  <2>2. CASE gui'.latest = queued[gui.generation] /\ gui.generation \in Workers
    <3>1. Reached(queued[gui.generation].sent.time, queued[gui.generation].sent.current)
      BY <1>4, <2>2 DEF SentInv
    <3> QED
      BY <1>1, <2>2, <3>1 DEF Reached
  <2>3. \/ gui'.latest = gui.latest \/ gui'.latest = None
        \/ gui'.latest = queued[gui.generation] /\ gui.generation \in Workers
    BY WindowMoves
  <2> QED
    BY <1>4, <2>1, <2>2, <2>3
<1> QED
  BY <1>2, <1>3, <1>4 DEF SentInv

\* What the window shows as sent has reached progress.json, or something newer
\* has (poll_once sets last_sent only on the server's answer).
THEOREM ShownIsStored == Spec => []SentIsStored
<1>1. Init => LockHeld /\ WindowTyped /\ SentInv
  <2> SUFFICES ASSUME Init PROVE LockHeld /\ WindowTyped /\ SentInv
    OBVIOUS
  <2>1. LockHeld /\ WindowTyped
    BY DEF Init, LockHeld, WindowTyped
  <2>2. /\ gui.latest = None
        /\ \A w \in Workers : worker[w].sent = None /\ queued[w] = None
    BY DEF Init, Idle
  <2> QED
    BY <2>1, <2>2 DEF SentInv
<1>2. WindowTyped /\ [Next]_vars => WindowTyped'
  BY WindowMoves
<1>3. SentInv => SentIsStored
  BY DEF SentInv, SentIsStored, Reached
<1> QED
  BY <1>1, <1>2, <1>3, TypesInit, TypesStep, LockStep, SentStep, PTL DEF Spec

----------------------------------------------------------------------------
(* The number of the day.                                                  *)

\* The table is cumulative and has no row of a day to come.
RowsRise ==
    \A d \in DOMAIN rows :
        /\ d <= Day(now) /\ rows[d] >= 0
        /\ \A e \in DOMAIN rows : d <= e => rows[d] <= rows[e]

\* A number that claims to be of today counts notes of today only.
OfItsDay(observed, today) ==
    /\ observed <= now
    /\ Day(observed) = Day(now) => today <= DayOf(Day(now))

DailyInv ==
    /\ RowsRise
    /\ \A w \in Workers : worker[w].at = "poll" => worker[w].clock <= now
    /\ \A p \in posts : OfItsDay(p.observed, p.today)
    /\ handled # None => OfItsDay(handled.post.observed, handled.post.today)
    /\ stored # None => OfItsDay(stored.observed, stored.today)

\* A later moment is not of an earlier day.
LEMMA DayRises ==
    ASSUME NEW s \in Int, NEW t \in Int, s <= t
    PROVE  Day(s) \in Int /\ Day(t) \in Int /\ Day(s) <= Day(t)
<1>1. DayLength \in Nat /\ DayLength > 0
  OBVIOUS
<1>2. \A n \in Nat, a, b \in Int : n > 0 /\ a <= b => (a \div n) <= (b \div n)
  OBVIOUS
<1>3. Day(s) \in Int /\ Day(t) \in Int
  BY <1>1 DEF Day
<1> QED
  BY <1>1, <1>2, <1>3 DEF Day

LEMMA LatestIs ==
    ASSUME NEW s \in SUBSET Int, NEW m \in s, \A e \in s : e <= m
    PROVE  Latest(s) = m
<1>1. m \in Int /\ s # {}
  OBVIOUS
<1>2. Latest(s) \in s /\ \A e \in s : e <= Latest(s)
  BY <1>1, LatestExists
<1>3. Latest(s) \in Int /\ m <= Latest(s) /\ Latest(s) <= m
  BY <1>2
<1> QED
  BY <1>1, <1>3

\* The row of the newest day, and the one before a day.
LEMMA RowsOf ==
    ASSUME Types, RowsRise
    PROVE  /\ Latest(DOMAIN rows) \in DOMAIN rows
           /\ \A e \in DOMAIN rows : e <= Latest(DOMAIN rows) /\ rows[e] <= Total
           /\ Total \in Nat
           /\ \A d \in Int : LET before == {e \in DOMAIN rows : e < d}
                             IN  before # {} => Latest(before) \in before
<1>1. PICK m \in DOMAIN rows : \A e \in DOMAIN rows : e <= m
  BY DEF Types, RowsTyped
<1>2. DOMAIN rows \in SUBSET Int
  BY DEF Types, RowsTyped
<1>3. Latest(DOMAIN rows) = m
  BY <1>1, <1>2, LatestIs
<1>4. \A e \in DOMAIN rows : rows[e] <= rows[m] /\ rows[m] \in Int /\ rows[m] >= 0
  BY <1>1 DEF RowsRise, Types, RowsTyped
<1>5. ASSUME NEW d \in Int, {e \in DOMAIN rows : e < d} # {}
      PROVE  Latest({e \in DOMAIN rows : e < d}) \in {e \in DOMAIN rows : e < d}
  <2> DEFINE s == {e \in DOMAIN rows : e < d}
  <2>1. s \in SUBSET Int /\ s # {} /\ \A e \in s : e <= d
    BY <1>2, <1>5
  <2> HIDE DEF s
  <2>2. Latest(s) \in s
    BY <2>1, LatestExists
  <2> QED
    BY <2>2 DEF s
<1> QED
  BY <1>1, <1>3, <1>4, <1>5 DEF Total

\* What was judged on a day is not negative.
LEMMA DayOfIsNat ==
    ASSUME Types, RowsRise, NEW d \in Int
    PROVE  DayOf(d) \in Nat
<1> DEFINE before == {e \in DOMAIN rows : e < d}
<1>1. CASE d \notin DOMAIN rows
  BY <1>1 DEF DayOf
<1>2. CASE d \in DOMAIN rows /\ before = {}
  <2>1. DayOf(d) = rows[d]
    BY <1>2 DEF DayOf
  <2>2. rows[d] \in Int /\ rows[d] >= 0
    BY <1>2 DEF Types, RowsTyped, RowsRise
  <2> QED
    BY <2>1, <2>2
<1>3. CASE d \in DOMAIN rows /\ before # {}
  <2>1. DayOf(d) = rows[d] - rows[Latest(before)]
    BY <1>3 DEF DayOf
  <2>2. Latest(before) \in before
    BY <1>3, RowsOf
  <2>3. Latest(before) \in DOMAIN rows /\ Latest(before) <= d
    BY <2>2 DEF Types, RowsTyped
  <2>4. rows[Latest(before)] <= rows[d] /\ rows[Latest(before)] \in Int /\ rows[d] \in Int
    BY <1>3, <2>3 DEF Types, RowsTyped, RowsRise
  <2> QED
    BY <2>1, <2>4
<1> QED
  BY <1>1, <1>2, <1>3

LEMMA TodayIsNat == Types /\ RowsRise => DayOf(Day(now)) \in Nat
BY DayRises, DayOfIsNat DEF Types

\* The number of the day that the reader takes is not more than was judged.
LEMMA ReadIsOfTheDay ==
    ASSUME Types, RowsRise
    PROVE  ReadCounts(Day(now)).today <= DayOf(Day(now))
<1> DEFINE last == Latest(DOMAIN rows)
           before == DOMAIN rows \ {last}
           day == Day(now)
<1>1. day \in Int
  BY DayRises DEF Types
<1>2. DayOf(day) \in Nat
  BY <1>1, DayOfIsNat
<1>3. /\ last \in DOMAIN rows /\ last \in Int /\ last <= day
      /\ \A e \in DOMAIN rows : e <= last /\ e \in Int
  BY RowsOf DEF RowsRise, Types, RowsTyped
<1>4. ReadCounts(day).today =
        IF last < day THEN 0
        ELSE IF last = day /\ before # {} THEN Total - rows[Latest(before)] ELSE Unknown
  BY DEF ReadCounts
<1>5. CASE last = day /\ before # {}
  <2>1. before = {e \in DOMAIN rows : e < day}
    BY <1>3, <1>5
  <2>2. DayOf(day) = rows[day] - rows[Latest({e \in DOMAIN rows : e < day})]
    BY <1>3, <1>5, <2>1 DEF DayOf
  <2>3. DayOf(day) = Total - rows[Latest(before)]
    BY <1>5, <2>1, <2>2 DEF Total
  <2>4. ReadCounts(day).today = DayOf(day)
    BY <1>1, <1>4, <1>5, <2>3
  <2> QED
    BY <1>2, <2>4
<1>6. CASE ~(last = day /\ before # {})
  BY <1>2, <1>4, <1>6 DEF Unknown
<1> QED
  BY <1>5, <1>6

\* Notes of today leave the table cumulative and add to the day.
LEMMA NotesAddUp ==
    ASSUME Types, RowsRise, PlayNotes
    PROVE  RowsRise' /\ DayOf(Day(now)) <= DayOf(Day(now))'
<1> DEFINE day == Day(now)
           before == {e \in DOMAIN rows : e < day}
<1>1. day \in Int /\ now' = now
  BY DayRises DEF Types, PlayNotes
<1>2. DOMAIN rows \in SUBSET Int /\ \A e \in DOMAIN rows : e <= day /\ rows[e] \in Int /\ rows[e] >= 0
  BY DEF Types, RowsTyped, RowsRise
<1>3. Latest({day} \cup DOMAIN rows) = day
  <2> DEFINE s == {day} \cup DOMAIN rows
  <2>1. s \in SUBSET Int /\ day \in s /\ \A e \in s : e <= day
    BY <1>1, <1>2
  <2> HIDE DEF s, day
  <2> QED
    BY <2>1, LatestIs DEF s
<1>4. rows' = [e \in DOMAIN rows \cup {day} |-> IF e = day THEN Total + 1 ELSE rows[e]]
  BY <1>3 DEF PlayNotes
<1>5. Total \in Nat /\ \A e \in DOMAIN rows : rows[e] <= Total
  BY RowsOf
<1>6. RowsRise'
  <2>1. DOMAIN rows' = DOMAIN rows \cup {day} /\ Day(now)' = day
    BY <1>1, <1>4 DEF Day
  <2>2. SUFFICES ASSUME NEW d \in DOMAIN rows', NEW e \in DOMAIN rows', d <= e
                 PROVE  d <= day /\ rows'[d] >= 0 /\ rows'[d] <= rows'[e]
    <3>1. \A d \in DOMAIN rows' : d \in Int
      BY <1>1, <1>2, <2>1
    <3> QED
      BY <2>1, <3>1 DEF RowsRise
  <2>3. rows'[d] = (IF d = day THEN Total + 1 ELSE rows[d])
        /\ rows'[e] = (IF e = day THEN Total + 1 ELSE rows[e])
    BY <1>4, <2>1
  <2>4. d \in Int /\ e \in Int /\ d <= day /\ e <= day
    BY <1>1, <1>2, <2>1
  <2>5. CASE e = day
    BY <1>2, <1>5, <2>1, <2>3, <2>4, <2>5
  <2>6. CASE e # day
    <3>1. d # day /\ d \in DOMAIN rows /\ e \in DOMAIN rows
      BY <1>1, <2>1, <2>2, <2>4, <2>6
    <3>2. rows[d] <= rows[e]
      BY <2>2, <3>1 DEF RowsRise
    <3> QED
      BY <1>2, <2>3, <2>4, <2>6, <3>1, <3>2
  <2> QED
    BY <2>5, <2>6
<1>7. DayOf(day) <= DayOf(day)'
  <2>1. DayOf(day)' = IF before = {} THEN Total + 1 ELSE (Total + 1) - rows[Latest(before)]
    <3>1. day' = day
      BY <1>1 DEF Day
    <3>2. {e \in DOMAIN rows' : e < day'} = before
      BY <1>1, <1>4, <3>1
    <3>3. before # {} => Latest(before) \in before
      BY <1>1, RowsOf
    <3>4. rows'[day] = Total + 1 /\ day \in DOMAIN rows'
      BY <1>4
    <3>5. before # {} => rows'[Latest(before)] = rows[Latest(before)]
      BY <1>1, <1>2, <1>4, <3>3
    <3>6. DayOf(day)' = IF day' \notin DOMAIN rows' THEN 0
                        ELSE IF {e \in DOMAIN rows' : e < day'} = {} THEN rows'[day']
                        ELSE rows'[day'] - rows'[Latest({e \in DOMAIN rows' : e < day'})]
      BY DEF DayOf, Latest
    <3>7. DayOf(day)' = IF before = {} THEN rows'[day] ELSE rows'[day] - rows'[Latest(before)]
      BY <3>1, <3>2, <3>4, <3>6
    <3>8. CASE before = {}
      BY <3>4, <3>7, <3>8
    <3>9. CASE before # {}
      <4>1. DayOf(day)' = rows'[day] - rows'[Latest(before)]
        BY <3>7, <3>9
      <4>2. rows'[Latest(before)] = rows[Latest(before)]
        BY <3>5, <3>9
      <4> HIDE DEF before
      <4>3. DayOf(day)' = (Total + 1) - rows[Latest(before)]
        BY <3>4, <4>1, <4>2
      <4> QED
        BY <3>9, <4>3
    <3> QED
      BY <3>8, <3>9
  <2>2. before # {} => Latest(before) \in before
    BY <1>1, RowsOf
  <2>3. before # {} => rows[Latest(before)] \in Int /\ rows[Latest(before)] <= Total
    BY <1>2, <1>5, <2>2
  <2>4. DayOf(day) = IF day \notin DOMAIN rows THEN 0
                     ELSE IF before = {} THEN rows[day] ELSE rows[day] - rows[Latest(before)]
    BY DEF DayOf
  <2>5. day \in DOMAIN rows => rows[day] <= Total /\ rows[day] \in Int
    BY <1>2, <1>5
  <2> HIDE DEF before, day
  <2> QED
    BY <1>5, <2>1, <2>3, <2>4, <2>5
<1> QED
  BY <1>6, <1>7

\* Only notes change the table, and only the clock changes the day.
LEMMA WorldMoves ==
    ASSUME [Next]_vars
    PROVE  Tick \/ PlayNotes \/ UNCHANGED world
BY DEF Next, WorkerStep, Begin, Poll, Publish, ReadFails, PostFails, ClickStart, ClickStop,
       ClickSendNow, Refresh, Restart, GuiStep, Launch, SaveOff, SaveOffFails, Stopped,
       JoinTimesOut, StartFails, ServerStep, Store, Receive, ServerDies, vars, world

LEMMA DayStays ==
    ASSUME Types, RowsRise, [Next]_vars
    PROVE  /\ RowsRise' /\ now \in Int /\ now' \in Int /\ now <= now'
           /\ \A o, n \in Int : OfItsDay(o, n) => OfItsDay(o, n)'
<1>1. CASE UNCHANGED world
  BY <1>1 DEF world, RowsRise, OfItsDay, DayOf, Day, Types
<1>2. CASE PlayNotes
  <2>1. now' = now /\ now \in Int /\ Day(now)' = Day(now)
    BY <1>2 DEF PlayNotes, Types, Day
  <2>2. RowsRise' /\ DayOf(Day(now)) <= DayOf(Day(now))'
    BY <1>2, NotesAddUp
  <2>3. DayOf(Day(now)) \in Int /\ DayOf(Day(now))' \in Int
    <3>1. Types' /\ RowsRise'
      BY <2>2, TypesStep
    <3>2. Types' /\ RowsRise' => (DayOf(Day(now)) \in Nat)'
      BY TodayIsNat, PTL
    <3> QED
      BY <3>1, <3>2, TodayIsNat
  <2>4. ASSUME NEW o \in Int, NEW n \in Int, OfItsDay(o, n) PROVE OfItsDay(o, n)'
    <3>1. o <= now /\ (Day(o) = Day(now) => n <= DayOf(Day(now)))
      BY <2>4 DEF OfItsDay
    <3> QED
      BY <2>1, <2>2, <2>3, <3>1 DEF OfItsDay
  <2> QED
    BY <2>1, <2>2, <2>4
<1>3. CASE Tick
  <2>1. now \in Int /\ now' = now + 1 /\ rows' = rows
    BY <1>3 DEF Tick, Types
  <2>2. Day(now) \in Int /\ Day(now') \in Int /\ Day(now) <= Day(now')
    BY <2>1, DayRises
  <2>3. \A d \in DOMAIN rows : d \in Int
    BY DEF Types, RowsTyped
  <2>4. RowsRise'
    <3>1. \A d \in DOMAIN rows : d <= Day(now')
      BY <2>2, <2>3 DEF RowsRise
    <3> QED
      BY <2>1, <3>1 DEF RowsRise
  <2>5. ASSUME NEW o \in Int, NEW n \in Int, OfItsDay(o, n) PROVE OfItsDay(o, n)'
    <3>1. o <= now /\ (Day(o) = Day(now) => n <= DayOf(Day(now)))
      BY <2>5 DEF OfItsDay
    <3>2. Day(o) \in Int /\ Day(o) <= Day(now)
      BY <2>1, <3>1, DayRises
    <3>3. CASE Day(o) = Day(now')
      <4>1. Day(now) = Day(now')
        BY <2>2, <3>2, <3>3
      <4>2. DayOf(Day(now))' = DayOf(Day(now))
        BY <2>1, <4>1 DEF DayOf
      <4> QED
        BY <2>1, <3>1, <3>3, <4>1, <4>2 DEF OfItsDay
    <3>4. CASE Day(o) # Day(now')
      BY <2>1, <3>1, <3>4 DEF OfItsDay
    <3> QED
      BY <3>3, <3>4
  <2> QED
    BY <2>1, <2>4, <2>5
<1> QED
  BY <1>1, <1>2, <1>3, WorldMoves

\* A worker polls with a clock that it has just read.
LEMMA ClocksRead ==
    ASSUME Types, NEW w \in Workers, [Next]_vars, worker'[w].at = "poll"
    PROVE  \/ worker'[w].clock = now
           \/ worker[w].at = "poll" /\ worker'[w].clock = worker[w].clock
<1>1. worker \in [Workers -> Thread] /\ owner \in Workers \cup {Nobody}
  BY DEF Types, ThreadsTyped
<1> DEFINE Read == \/ worker'[w].clock = now
                   \/ worker[w].at = "poll" /\ worker'[w].clock = worker[w].clock
<1>2. ASSUME worker'[w] = worker[w] PROVE Read
  BY <1>2
<1>3. ASSUME NEW v \in Workers, Begin(v) PROVE Read
  <2>1. CASE worker[v].stop
    <3>1. worker' = [worker EXCEPT ![v] = Dead]
      BY <1>3, <2>1 DEF Begin
    <3> QED
      BY <1>1, <1>2, <3>1, IdleIsThread
  <2>2. CASE ~worker[v].stop
    <3>1. worker' = [worker EXCEPT ![v] = [worker[v] EXCEPT !.at = "poll", !.clock = now,
                                              !.counts = ReadCounts(Day(now))]]
      BY <1>3, <2>2 DEF Begin
    <3> QED
      BY <1>1, <1>2, <3>1 DEF Thread
  <2> QED
    BY <2>1, <2>2
<1>4. ASSUME NEW v \in Workers, Poll(v) \/ ReadFails(v) \/ PostFails(v) \/ Publish(v)
      PROVE  Read
  <2>1. CASE Poll(v)
    <3> DEFINE counts == IF Command THEN worker[v].counts ELSE ReadCounts(Day(now))
               clock == IF Command THEN now ELSE worker[v].clock
               stage == IF Due(v, counts, worker[v].clock) THEN "posted" ELSE "live"
               t == [worker[v] EXCEPT !.at = stage, !.force = FALSE,
                                      !.clock = clock, !.counts = counts]
    <3>1. worker' = [worker EXCEPT ![v] = t]
      BY <2>1 DEF Poll
    <3>2. stage # "poll"
      OBVIOUS
    <3> HIDE DEF counts, clock, stage
    <3>3. t.at = stage
      BY <1>1 DEF Thread
    <3> QED
      BY <1>1, <1>2, <3>1, <3>2, <3>3
  <2>2. CASE ReadFails(v)
    <3>1. worker' = [worker EXCEPT ![v] = [worker[v] EXCEPT !.at = "error", !.force = FALSE]]
      BY <1>1, <2>2 DEF ReadFails, Thread
    <3> QED
      BY <1>1, <1>2, <3>1 DEF Thread
  <2>3. CASE PostFails(v)
    BY <1>1, <1>2, <2>3 DEF PostFails, Thread
  <2>4. CASE Publish(v)
    <3>1. worker' = [worker EXCEPT ![v] = [worker[v] EXCEPT !.at = "wait", !.counts = None,
                                                            !.clock = 0]]
      BY <1>1, <2>4 DEF Publish, Thread
    <3> QED
      BY <1>1, <1>2, <3>1 DEF Thread
  <2> QED
    BY <1>4, <2>1, <2>2, <2>3, <2>4
<1>5. ASSUME ClickStart \/ ClickStop \/ ClickSendNow PROVE Read
  <2>1. worker'[w].at = worker[w].at /\ worker'[w].clock = worker[w].clock
    BY <1>1, <1>5 DEF ClickStart, ClickStop, ClickSendNow, Told, Thread
  <2> QED
    BY <2>1
<1>6. ASSUME Launch PROVE Read
  <2>1. PICK v \in Workers : worker' = [worker EXCEPT ![v].at = "wait"]
    BY <1>6 DEF Launch
  <2>2. worker'[w] = worker[w] \/ worker'[w].at = "wait"
    BY <1>1, <2>1 DEF Thread
  <2> QED
    BY <1>2, <2>2
<1>7. ASSUME Restart PROVE Read
  <2>1. worker'[w] = Dead \/ worker'[w] = worker[w]
    BY <1>7 DEF Restart
  <2> QED
    BY <1>2, <2>1, IdleIsThread
<1>8. ASSUME Store \/ ServerDies PROVE Read
  <2>1. PICK ok \in BOOLEAN : worker' = Reply(handled.post, ok)
    BY <1>8 DEF Store, ServerDies, Accepts, Same
  <2> DEFINE p == handled.post
  <2>2. p.worker \in Workers
    BY <1>8 DEF Store, ServerDies, Types, NetworkTyped, Request
  <2>3. \/ worker' = worker
        \/ worker' = [worker EXCEPT ![p.worker] = Sent(worker[p.worker])]
        \/ worker' = [worker EXCEPT ![p.worker] = [worker[p.worker] EXCEPT !.at = "error"]]
    BY <2>1 DEF Reply
  <2>4. /\ Sent(worker[p.worker]).at = "live"
        /\ [worker[p.worker] EXCEPT !.at = "error"].at = "error"
    BY <1>1, <2>2 DEF Sent, Thread
  <2> HIDE DEF p
  <2> QED
    BY <1>1, <1>2, <2>2, <2>3, <2>4
<1>9. \/ worker' = worker
      \/ \E v \in Workers : Begin(v) \/ Poll(v) \/ ReadFails(v) \/ PostFails(v) \/ Publish(v)
      \/ ClickStart \/ ClickStop \/ ClickSendNow \/ Launch \/ Restart \/ Store \/ ServerDies
  BY DEF Next, Tick, PlayNotes, WorkerStep, Refresh, GuiStep, SaveOff, SaveOffFails, Stopped,
         JoinTimesOut, StartFails, ServerStep, Receive, vars
<1> QED
  BY <1>2, <1>3, <1>4, <1>5, <1>6, <1>7, <1>8, <1>9

\* Requests are made of what the window's worker polled, and what is stored of
\* requests.
LEMMA ClaimsMove ==
    ASSUME ~Command, [Next]_vars
    PROVE  /\ \A p \in posts' :
                \/ p \in posts
                \/ \E w \in Workers : /\ worker[w].at = "poll" /\ p.observed = worker[w].clock
                                      /\ p.today = ReadCounts(Day(now)).today
           /\ handled' # None => handled' = handled \/ handled'.post \in posts
           /\ stored' # None => stored' = stored \/ (handled # None /\ stored' = Kept(handled.post))
<1> DEFINE Made(p) == \E w \in Workers : /\ worker[w].at = "poll" /\ p.observed = worker[w].clock
                                         /\ p.today = ReadCounts(Day(now)).today
           Moves == /\ \A p \in posts' : p \in posts \/ Made(p)
                    /\ handled' # None => handled' = handled \/ handled'.post \in posts
                    /\ stored' # None =>
                         stored' = stored \/ (handled # None /\ stored' = Kept(handled.post))
<1>1. ASSUME NEW w \in Workers, Poll(w) PROVE Moves
  <2> DEFINE counts == ReadCounts(Day(now))
             new == [worker |-> w, current |-> counts.current, today |-> counts.today,
                     observed |-> worker[w].clock]
  <2>1. worker[w].at = "poll" /\ UNCHANGED <<handled, stored>>
        /\ (posts' = posts \/ posts' = posts \cup {new})
    BY <1>1 DEF Poll
  <2>2. Made(new)
    BY <2>1
  <2> HIDE DEF Made, new
  <2> QED
    BY <2>1, <2>2
<1>2. ASSUME UNCHANGED <<handled, stored>>, posts' \subseteq posts PROVE Moves
  BY <1>2
<1>3. ASSUME NEW w \in Workers, PostFails(w) PROVE Moves
  BY <1>2, <1>3 DEF PostFails
<1>4. ASSUME NEW p \in posts, Receive(p) PROVE Moves
  BY <1>4 DEF Receive
<1>5. ASSUME Store \/ ServerDies PROVE Moves
  BY <1>5 DEF Store, ServerDies
<1>6. \/ \E w \in Workers : Poll(w) \/ PostFails(w)
      \/ UNCHANGED network
      \/ \E p \in posts : Receive(p)
      \/ Store \/ ServerDies
  BY DEF Next, Tick, PlayNotes, WorkerStep, Begin, ReadFails, Publish, ClickStart, ClickStop,
         ClickSendNow, Refresh, Restart, GuiStep, Launch, SaveOff, SaveOffFails, Stopped,
         JoinTimesOut, StartFails, ServerStep, vars, network
<1> QED
  BY <1>1, <1>2, <1>3, <1>4, <1>5, <1>6 DEF network

LEMMA DailyStep ==
    ASSUME ~Command, Types, DailyInv, [Next]_vars
    PROVE  DailyInv'
<1>1. /\ RowsRise' /\ now \in Int /\ now' \in Int /\ now <= now'
      /\ \A o, n \in Int : OfItsDay(o, n) => OfItsDay(o, n)'
  BY DayStays DEF DailyInv
<1>2. ASSUME NEW w \in Workers, worker'[w].at = "poll" PROVE worker'[w].clock <= now'
  <2>1. worker[w].clock \in Int
    BY DEF Types, ThreadsTyped, Thread
  <2>2. worker[w].at = "poll" => worker[w].clock <= now
    BY DEF DailyInv
  <2> QED
    BY <1>1, <1>2, <2>1, <2>2, ClocksRead
<1>3. \A p \in posts : /\ p.observed \in Int /\ p.today \in Int
                       /\ OfItsDay(p.observed, p.today)
  BY DEF DailyInv, Types, NetworkTyped, Request
<1>4. ASSUME NEW p \in posts' PROVE OfItsDay(p.observed, p.today)'
  <2>1. CASE p \in posts
    BY <1>1, <1>3, <2>1
  <2>2. CASE p \notin posts
    <3>1. PICK w \in Workers : /\ worker[w].at = "poll" /\ p.observed = worker[w].clock
                               /\ p.today = ReadCounts(Day(now)).today
      BY <1>4, <2>2, ClaimsMove
    <3>2. worker[w].clock \in Int /\ worker[w].clock <= now
      BY <3>1 DEF DailyInv, Types, ThreadsTyped, Thread
    <3>3. p.today \in Int /\ p.today <= DayOf(Day(now))
      <4>1. ReadCounts(Day(now)) \in Numbers
        BY CountsAreNumbers DEF Types
      <4> QED
        BY <3>1, <4>1, ReadIsOfTheDay DEF DailyInv, Numbers
    <3>4. OfItsDay(p.observed, p.today)
      BY <3>1, <3>2, <3>3 DEF OfItsDay
    <3> QED
      BY <1>1, <3>1, <3>2, <3>3, <3>4
  <2> QED
    BY <2>1, <2>2
<1>5. ASSUME handled # None
      PROVE  /\ handled.post.observed \in Int /\ handled.post.today \in Int
             /\ OfItsDay(handled.post.observed, handled.post.today)
  BY <1>5 DEF DailyInv, Types, NetworkTyped, Request
<1>6. ASSUME handled' # None PROVE OfItsDay(handled.post.observed, handled.post.today)'
  <2>1. PICK o, n \in Int : /\ o = handled'.post.observed /\ n = handled'.post.today
                            /\ OfItsDay(o, n)
    BY <1>3, <1>5, <1>6, ClaimsMove
  <2>2. OfItsDay(o, n)'
    BY <1>1, <2>1
  <2> QED
    BY <2>1, <2>2 DEF OfItsDay
<1>7. ASSUME stored' # None PROVE OfItsDay(stored.observed, stored.today)'
  <2>1. PICK o, n \in Int : /\ o = stored'.observed /\ n = stored'.today
                            /\ OfItsDay(o, n)
    <3>1. CASE stored' = stored
      BY <1>7, <3>1 DEF DailyInv, Types, NetworkTyped, Snapshots
    <3>2. CASE handled # None /\ stored' = Kept(handled.post)
      BY <1>5, <3>2 DEF Kept
    <3> QED
      BY <1>7, <3>1, <3>2, ClaimsMove
  <2>2. OfItsDay(o, n)'
    BY <1>1, <2>1
  <2> QED
    BY <2>1, <2>2 DEF OfItsDay
<1> QED
  BY <1>1, <1>2, <1>4, <1>6, <1>7 DEF DailyInv

\* The cockpit's number of the day counts no notes of another day, if the
\* window sends it (poll_once reads the clock before the counts).
THEOREM TodayIsToday ==
    ASSUME ~Command
    PROVE  Spec => []DailyOfTheDay
<1>1. Init => DailyInv
  <2> SUFFICES ASSUME Init PROVE DailyInv
    OBVIOUS
  <2>1. now = 0 /\ rows = [d \in {0} |-> 0] /\ Day(now) = 0
    BY DEF Init, Day
  <2>2. RowsRise
    BY <2>1 DEF RowsRise
  <2>3. /\ posts = {} /\ handled = None /\ stored = None
        /\ \A w \in Workers : worker[w].at = "unborn"
    BY DEF Init, Idle
  <2> QED
    BY <2>2, <2>3 DEF DailyInv
<1>2. Types /\ DailyInv /\ [Next]_vars => DailyInv'
  BY DailyStep
<1>3. Types /\ DailyInv => DailyOfTheDay
  <2> SUFFICES ASSUME Types, DailyInv PROVE LiveJudged <= DayOf(Day(now))
    BY DEF DailyOfTheDay
  <2>1. DayOf(Day(now)) \in Nat
    BY TodayIsNat DEF DailyInv
  <2>2. ASSUME stored # None, Day(stored.observed) = Day(now)
        PROVE  stored.today <= DayOf(Day(now))
    BY <2>2 DEF DailyInv, OfItsDay
  <2>3. ASSUME stored # None PROVE Day(stored.observed) \in Int /\ Day(now) \in Int
    BY <2>3, DayRises DEF Types, NetworkTyped, Snapshots
  <2> QED
    BY <2>1, <2>2, <2>3 DEF LiveJudged, Unknown
<1> QED
  BY <1>1, <1>2, <1>3, TypesInit, TypesStep, PTL DEF Spec
=============================================================================
