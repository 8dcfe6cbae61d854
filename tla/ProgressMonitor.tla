-------------------------- MODULE ProgressMonitor --------------------------
(***************************************************************************)
(* The progress display of serve/: on the player's machine a monitor       *)
(* window whose GUI thread starts and stops one worker thread, or the      *)
(* sender command without a window; over the network the server thread of  *)
(* each request, which keeps the newest snapshot in progress.json and      *)
(* answers the cockpit's status request from it.                           *)
(*                                                                         *)
(* Judged notes are counted; a snapshot is what the sender read and when   *)
(* it says it read it.  The intervals between two polls are left open.     *)
(***************************************************************************)
EXTENDS Integers, Sequences, FiniteSets

CONSTANTS
    Command,      \* whether the sender runs as a command instead of the window
    DayLength,    \* ticks of a day in Asia/Tokyo
    Heartbeat,    \* heartbeat
    MaxTime,      \* bound: the clock
    MaxPlays,     \* bound: plays
    MaxStarts,    \* bound: workers the window creates
    MaxFaults     \* bound: lost posts, failed reads, starts and saves, restarts

ASSUME ProgressAssumption ==
    /\ Command \in BOOLEAN
    /\ {DayLength, Heartbeat, MaxTime, MaxPlays, MaxStarts, MaxFaults} \subseteq Nat
    /\ DayLength > 0

Nobody == 0
Workers == 1..MaxStarts
None == [none |-> TRUE]
TimeOf == 0..MaxTime
Unknown == -1
Counts == [current : 0..MaxPlays, today : Unknown..MaxPlays]
Posts == [worker : Workers, current : 0..MaxPlays, today : Unknown..MaxPlays,
          observed : TimeOf]
Stored == [current : 0..MaxPlays, today : Unknown..MaxPlays, observed : TimeOf]

VARIABLES
    now,       \* the clock of the player's machine and of the server
    rows,      \* table player: judged notes up to the last play of each day
    gui,       \* the window: what its callback is doing, switch, snapshot shown
    enabled,   \* send_enabled of the settings file
    owner,     \* _worker and _thread of the controller
    worker,    \* the worker threads
    queued,    \* the queue of snapshots: the last one of each worker
    posts,     \* requests on the network
    handled,   \* the request that holds progress_lock, with the state it read
    stored,    \* progress.json
    faults     \* faults so far

vars == <<now, rows, gui, enabled, owner, worker, queued,
          posts, handled, stored, faults>>
world == <<now, rows>>
window == <<gui, enabled, owner, queued>>
network == <<posts, handled, stored>>

Idle == [at |-> "unborn", stop |-> FALSE, force |-> FALSE, clock |-> 0,
         counts |-> None, sent |-> None]

Init ==
    /\ now = 0
    /\ rows = [d \in {0} |-> 0]
    /\ gui = [at |-> "idle", switch |-> FALSE, latest |-> None, generation |-> Nobody]
    /\ enabled = FALSE /\ owner = Nobody
    /\ worker = [w \in Workers |-> Idle]
    /\ queued = [w \in Workers |-> None]
    /\ posts = {} /\ handled = None /\ stored = None /\ faults = 0

Fault == faults < MaxFaults /\ faults' = faults + 1

(*------------------------------- the world -------------------------------*)

Day(t) == t \div DayLength
Latest(s) == CHOOSE d \in s : \A e \in s : e <= d
Total == rows[Latest(DOMAIN rows)]

Tick ==
    /\ now < MaxTime /\ now' = now + 1
    /\ UNCHANGED <<rows, window, worker, network, faults>>

\* beatoraja keeps one cumulative row a day.
PlayNotes ==
    /\ Total < MaxPlays /\ now < MaxTime
    /\ LET d == Latest({Day(now)} \cup DOMAIN rows)
       IN  rows' = [e \in DOMAIN rows \cup {d} |-> IF e = d THEN Total + 1 ELSE rows[e]]
    /\ UNCHANGED <<now, window, worker, network, faults>>

\* read_progress_counts: the newest two rows.
ReadCounts(day) ==
    LET last == Latest(DOMAIN rows)
        before == DOMAIN rows \ {last}
    IN  [current |-> Total,
         today |-> IF last < day THEN 0
                   ELSE IF last = day /\ before # {}
                   THEN Total - rows[Latest(before)]
                   ELSE Unknown]

(*------------------------- the worker and sender -------------------------*)

Alive(w) == worker[w].at \notin {"unborn", "dead"}

Dead == [Idle EXCEPT !.at = "dead"]

\* The next round of run.  The worker takes the time and then reads the counts;
\* the command reads the counts and takes the time when it posts them.
Begin(w) ==
    /\ worker[w].at = "wait"
    /\ worker' = [worker EXCEPT ![w] =
            IF worker[w].stop THEN Dead
            ELSE [worker[w] EXCEPT !.at = "poll", !.clock = now,
                                   !.counts = ReadCounts(Day(now))]]
    /\ UNCHANGED <<world, window, network, faults>>

\* Mutant: only the first snapshot and forced ones are due.
DueOnce(w, counts, clock) == worker[w].force \/ worker[w].sent = None

Due(w, counts, clock) ==
    \/ worker[w].force
    \/ worker[w].sent = None
    \/ counts # worker[w].sent.counts
    \/ clock - worker[w].sent.time >= Heartbeat

\* poll_once, up to the post.
Poll(w) ==
    /\ worker[w].at = "poll"
    /\ LET counts == IF Command THEN worker[w].counts ELSE ReadCounts(Day(now))
           clock == IF Command THEN now ELSE worker[w].clock
           due == Due(w, counts, worker[w].clock)
       IN  /\ worker' = [worker EXCEPT ![w] =
                [@ EXCEPT !.at = IF due THEN "posted" ELSE "live", !.force = FALSE,
                          !.clock = clock, !.counts = counts]]
           /\ posts' = IF due
                       THEN posts \cup {[worker |-> w, current |-> counts.current,
                                         today |-> counts.today, observed |-> clock]}
                       ELSE posts
    /\ UNCHANGED <<world, window, handled, stored, faults>>

ReadFails(w) ==
    /\ worker[w].at = "poll" /\ Fault
    /\ worker' = [worker EXCEPT ![w].at = "error", ![w].force = FALSE]
    /\ UNCHANGED <<world, window, network>>

\* urlopen gives up; the request may be gone or still on its way.
PostFails(w) ==
    /\ worker[w].at = "posted" /\ Fault
    /\ worker' = [worker EXCEPT ![w].at = "error"]
    /\ posts' \in {posts, {p \in posts : p.worker # w}}
    /\ UNCHANGED <<world, window, handled, stored>>

\* What the answer to a request does to the worker that waits for it.
Waits(p) ==
    LET w == worker[p.worker]
    IN  /\ w.at = "posted" /\ w.clock = p.observed
        /\ w.counts = [current |-> p.current, today |-> p.today]
Sent(w) == [w EXCEPT !.at = "live", !.sent = [time |-> w.clock, counts |-> w.counts]]

\* Mutant: last_sent is set whatever the server answers.
ReplyIgnored(p, ok) ==
    IF Waits(p) THEN [worker EXCEPT ![p.worker] = Sent(@)] ELSE worker

Reply(p, ok) ==
    IF ~Waits(p) THEN worker
    ELSE [worker EXCEPT ![p.worker] = IF ok THEN Sent(@) ELSE [@ EXCEPT !.at = "error"]]

Snapshot(w) ==
    [worker |-> w,
     sent |-> IF worker[w].sent = None THEN None
              ELSE [time |-> worker[w].sent.time, current |-> worker[w].sent.counts.current]]

Publish(w) ==
    /\ worker[w].at \in {"live", "error"}
    /\ queued' = [queued EXCEPT ![w] = Snapshot(w)]
    /\ worker' = [worker EXCEPT ![w].at = "wait", ![w].counts = None, ![w].clock = 0]
    /\ UNCHANGED <<world, gui, enabled, owner, network, faults>>

(*------------------------- the window's callbacks ------------------------*)

Told(w) == IF w = Nobody THEN worker ELSE [worker EXCEPT ![w].stop = TRUE]
Born == Cardinality({w \in Workers : worker[w].at # "unborn"})

\* start_worker invalidates the snapshots in the queue, checks the form and
\* tells the running worker to stop.
ClickStart ==
    /\ gui.at = "idle" /\ Born < MaxStarts
    /\ gui' \in {[at |-> x, switch |-> TRUE, latest |-> None, generation |-> Nobody]
                 : x \in IF faults < MaxFaults THEN {"starting", "undo"} ELSE {"starting"}}
    /\ faults' = IF gui'.at = "undo" THEN faults + 1 ELSE faults
    /\ worker' = Told(owner)
    /\ UNCHANGED <<world, enabled, owner, queued, network>>

ClickStop ==
    /\ gui.at = "idle" /\ gui.switch
    /\ gui' = [at |-> "stopping", switch |-> FALSE, latest |-> None, generation |-> Nobody]
    /\ worker' = Told(owner)
    /\ UNCHANGED <<world, enabled, owner, queued, network, faults>>

Joining == {"starting", "undo", "stopping"}

\* Mutant: a thread still running after the timeout is given up.
JoinedWhatever == TRUE

\* controller.stop returns.
Joined == owner # Nobody => ~Alive(owner)

\* The thread outlives the timeout of 6 seconds: the controller keeps it, and
\* start_worker tries to stop it once more before it gives up.
JoinTimesOut ==
    /\ gui.at \in Joining /\ ~Joined
    /\ gui' = CASE gui.at = "starting" -> [gui EXCEPT !.at = "undo"]
                [] gui.at = "undo" -> [gui EXCEPT !.at = "idle", !.switch = FALSE]
                [] gui.at = "stopping" -> [gui EXCEPT !.at = "idle", !.switch = TRUE]
    /\ UNCHANGED <<world, enabled, owner, worker, queued, network, faults>>

\* Mutant: the settings are left as they were.
LaunchUnsaved ==
    /\ gui.at = "starting" /\ Joined
    /\ \E w \in Workers :
        /\ worker[w].at = "unborn" /\ \A v \in Workers : v < w => worker[v].at # "unborn"
        /\ worker' = [worker EXCEPT ![w].at = "wait"]
        /\ owner' = w
        /\ gui' = [gui EXCEPT !.at = "idle", !.generation = w]
    /\ UNCHANGED <<world, enabled, queued, network, faults>>

\* The settings are saved as on, and the new worker starts.
Launch ==
    /\ gui.at = "starting" /\ Joined
    /\ enabled' = TRUE
    /\ \E w \in Workers :
        /\ worker[w].at = "unborn" /\ \A v \in Workers : v < w => worker[v].at # "unborn"
        /\ worker' = [worker EXCEPT ![w].at = "wait"]
        /\ owner' = w
        /\ gui' = [gui EXCEPT !.at = "idle", !.generation = w]
    /\ UNCHANGED <<world, queued, network, faults>>

\* The settings cannot be saved, or the worker cannot be created after they were.
StartFails ==
    /\ gui.at = "starting" /\ Joined /\ Fault
    /\ owner' = Nobody
    /\ enabled' \in {enabled, TRUE}
    /\ gui' = [gui EXCEPT !.at = "undo"]
    /\ UNCHANGED <<world, worker, queued, network>>

Stopped ==
    /\ gui.at \in {"undo", "stopping"} /\ Joined
    /\ owner' = Nobody
    /\ gui' = [gui EXCEPT !.at = "idle", !.switch = FALSE]
    /\ UNCHANGED <<world, worker, queued, network>>

SaveOff == Stopped /\ enabled' = FALSE /\ UNCHANGED faults
SaveOffFails == Stopped /\ Fault /\ UNCHANGED enabled

ClickSendNow ==
    /\ gui.at = "idle" /\ gui.switch /\ owner # Nobody
    /\ worker[owner].at \in {"poll", "posted", "live", "error", "wait"}
    /\ worker' = [worker EXCEPT ![owner].force = TRUE]
    /\ UNCHANGED <<world, window, network, faults>>

\* Every 250 ms; the generation of a snapshot tells which worker made it.
Refresh ==
    /\ gui.at = "idle" /\ \E w \in Workers : queued[w] # None
    /\ gui' = IF gui.generation # Nobody /\ queued[gui.generation] # None
              THEN [gui EXCEPT !.latest = queued[gui.generation]] ELSE gui
    /\ queued' = [w \in Workers |-> None]
    /\ UNCHANGED <<world, enabled, owner, worker, network, faults>>

\* The process ends with its daemon threads, and starts again as it was saved.
Restart ==
    /\ Fault /\ ~Command
    /\ gui' = [at |-> IF enabled /\ Born < MaxStarts THEN "starting" ELSE "idle",
               switch |-> enabled, latest |-> None, generation |-> Nobody]
    /\ owner' = Nobody
    /\ worker' = [w \in Workers |-> IF Alive(w) THEN Dead ELSE worker[w]]
    /\ queued' = [w \in Workers |-> None]
    /\ UNCHANGED <<world, enabled, network>>

(*------------------------------- the server ------------------------------*)

\* receive_progress takes progress_lock and reads progress.json.
Receive(p) ==
    /\ p \in posts /\ handled = None
    /\ handled' = [post |-> p, previous |-> stored]
    /\ posts' = posts \ {p}
    /\ UNCHANGED <<world, window, worker, stored, faults>>

Backwards(p, old) == p.observed < old.observed \/ p.current < old.current
Conflicting(p, old) ==
    /\ p.observed = old.observed
    /\ p.current # old.current \/ p.today # old.today
Same(p, old) == p.observed = old.observed /\ p.current = old.current /\ p.today = old.today

\* Mutant: the time is not compared with what is stored.
AcceptsAnyTime(p, old) == old = None \/ (p.current >= old.current /\ ~Same(p, old))

Accepts(p, old) == old = None \/ (~Backwards(p, old) /\ ~Conflicting(p, old) /\ ~Same(p, old))

Kept(p) == [current |-> p.current, today |-> p.today, observed |-> p.observed]

\* The file is replaced atomically before the lock is released.
Store ==
    /\ handled # None
    /\ LET p == handled.post
           old == handled.previous
       IN  /\ stored' = IF Accepts(p, old)
                        THEN Kept(p) ELSE stored
           /\ worker' = Reply(p, Accepts(p, old) \/ (old # None /\ Same(p, old)))
    /\ handled' = None
    /\ UNCHANGED <<world, window, posts, faults>>

\* The server dies while it handles a request.
ServerDies ==
    /\ handled # None /\ Fault
    /\ handled' = None /\ worker' = Reply(handled.post, FALSE)
    /\ UNCHANGED <<world, window, posts, stored>>

\* Mutant: the stored number of the day is taken as it is.
LiveJudgedAsStored == IF stored = None THEN Unknown ELSE stored.today

\* status: the number of the day, if it is known.
LiveJudged ==
    IF stored = None \/ Day(stored.observed) > Day(now) THEN Unknown
    ELSE IF Day(stored.observed) < Day(now) THEN 0
    ELSE stored.today

(*---------------------------------------------------------------------------*)

WorkerStep(w) ==
    \/ Begin(w) \/ Poll(w) \/ Publish(w)
GuiStep == Launch \/ SaveOff
ServerStep == Store \/ \E p \in posts : Receive(p)

Next ==
    \/ Tick \/ PlayNotes
    \/ \E w \in Workers : WorkerStep(w) \/ ReadFails(w) \/ PostFails(w)
    \/ ClickStart \/ ClickStop \/ ClickSendNow \/ Refresh \/ Restart
    \/ GuiStep \/ JoinTimesOut \/ StartFails \/ SaveOffFails
    \/ ServerStep \/ ServerDies

\* Threads, callbacks and requests go on; faults and the user need not.
Fairness ==
    /\ \A w \in Workers : WF_vars(WorkerStep(w))
    /\ WF_vars(GuiStep) /\ WF_vars(Refresh)
    /\ WF_vars(Store) /\ WF_vars(ServerStep)

Spec == Init /\ [][Next]_vars /\ Fairness

(*------------------------------- properties ------------------------------*)

TypeOK ==
    /\ now \in 0..MaxTime
    /\ \A d \in DOMAIN rows : rows[d] \in 0..MaxPlays
    /\ gui.at \in {"idle"} \cup Joining
    /\ gui.switch \in BOOLEAN /\ enabled \in BOOLEAN
    /\ owner \in Workers \cup {Nobody} /\ gui.generation \in Workers \cup {Nobody}
    /\ \A w \in Workers : worker[w].counts \in Counts \cup {None}
    /\ posts \subseteq Posts
    /\ handled = None \/ handled.post \in Posts
    /\ stored \in Stored \cup {None}
    /\ faults \in 0..MaxFaults

\* The controller owns "exactly one sender worker": however joins time out,
\* starts fail and the process restarts, no two threads poll at a time.
OneSender == Cardinality({w \in Workers : Alive(w)}) <= 1

\* While the settings file says off, no sender thread is left: what a stop
\* confirmed stays silent, and a restart agrees with what runs.
OffIsSilent == ~enabled => \A w \in Workers : ~Alive(w)

\* What the window shows as sent has reached progress.json, or something newer.
SentIsStored ==
    gui.latest # None /\ gui.latest.sent # None =>
        /\ stored # None
        /\ stored.observed >= gui.latest.sent.time
        /\ stored.current >= gui.latest.sent.current

\* The cockpit's number of the day counts no notes of another day, across
\* midnight and however late a snapshot arrives (README.md: after the date
\* changes the number goes back to 0 even before a new snapshot).
DayOf(d) == LET before == {e \in DOMAIN rows : e < d}
            IN  IF d \notin DOMAIN rows THEN 0
                ELSE IF before = {} THEN rows[d] ELSE rows[d] - rows[Latest(before)]
DailyOfTheDay == LiveJudged <= DayOf(Day(now))

\* progress.json never goes back, neither in time nor in notes, whatever the
\* order in which requests of living and dead workers are handled.
NeverBackwards ==
    [][stored # None => /\ stored' # None
                        /\ stored'.observed >= stored.observed
                        /\ stored'.current >= stored.current]_vars

\* A worker that keeps running brings the cockpit up to date; only a stored
\* snapshot that the clock has not passed yet can prevent it.
ProgressArrives ==
    []((\E w \in Workers : []Alive(w)) =>
        <>(stored # None /\ (stored.current = Total \/ stored.observed >= now)))
=============================================================================
