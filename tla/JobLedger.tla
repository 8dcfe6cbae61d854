----------------------------- MODULE JobLedger -----------------------------
(***************************************************************************)
(* The asynchronous job pipeline of the Cloudflare service: the D1 ledger  *)
(* of worker/src/job-ledger.ts, the request handlers and the queue         *)
(* consumer of worker/src/index.ts that call it, and the durable workflow  *)
(* of worker/src/workflow.ts that executes a job.                          *)
(*                                                                         *)
(* One (account, profile, trust domain) partition is modelled; the ledger  *)
(* never relates two partitions.  A job is named by the revision reserved  *)
(* for it, which is unique in the partition.  Every await on D1, on the    *)
(* Queue or on the Workflow binding ends an action: any other invocation   *)
(* may run there and the invocation itself may be killed there.  A D1      *)
(* batch is one transaction, hence one action.                             *)
(*                                                                         *)
(* Queue, Workflow engine and clocks are external: messages are delivered  *)
(* at least once and in any order, an instance identifier can be created   *)
(* once, a lease or a back-off ends at some unspecified later moment.      *)
(***************************************************************************)
EXTENDS Integers

CONSTANTS
    Events,       \* client events: plays, completed uploads, settings changes
    Digests,      \* input digests
    DigestOf,     \* the input digest an event is submitted with
    None,         \* "no row"
    Handlers,     \* concurrent API invocations of the Worker
    Consumers,    \* concurrent queue-consumer invocations
    MaxRevision,  \* bound: revisions reserved in the partition
    MaxRun,       \* bound: operator reruns of one job
    MaxSends,     \* bound: messages put on the queue
    Operations,   \* which API operations clients use
    Faults        \* which failures happen

AllOperations == {"accept", "cancel", "retry"}
AllFaults == {"crash", "send", "lease", "start", "deadletter", "lostreply",
              "timeout", "replay", "redeliver"}

ASSUME LedgerAssumption ==
    /\ MaxRevision \in Nat /\ MaxRun \in Nat /\ MaxSends \in Nat
    /\ DigestOf \in [Events -> Digests]
    /\ None \notin Events
    /\ Operations \subseteq AllOperations
    /\ Faults \subseteq AllFaults

Revisions == 1..MaxRevision
Runs == 0..MaxRun
MessageIds == 1..MaxSends
Messages == [id : MessageIds, job : Revisions, run : Runs]

Terminal == {"succeeded", "failed", "cancelled"}
JobStatus == {"absent", "queued", "running"} \cup Terminal

VARIABLES
    nextRevision,     \* profile_revision_counters.next_revision
    jobEvent,         \* jobs.event_id by revision, None before the row exists
    status,           \* jobs.status
    run,              \* jobs.workflow_run
    cancelRequested,  \* jobs.cancel_requested_at is set
    requeued,         \* job_requeues: (revision, run) pairs
    outcome,          \* revision_outcomes.status by (revision, run)
    latest,           \* latest_pointers.revision, 0 before the first
    dispatch,         \* job_dispatches.status
    leased,           \* job_dispatches.lease_until lies in the future
    backingOff,       \* job_dispatches.next_attempt_at lies in the future
    sent,             \* every message ever accepted by the Queue
    sends,            \* how many that are; the source of message ids
    acknowledged,     \* ids of messages the consumer acknowledged
    deadLettered,     \* ids of messages the Queue moved to the DLQ
    delivery,         \* job_deliveries.status by message id
    handler,          \* what each API invocation is doing
    consumer,         \* what each queue-consumer invocation is doing
    workflow,         \* stage of the instance job:<id>:run:<n>
    publishing,       \* (revision, run) pairs whose publish batch is under way
    acked             \* events whose client received a 2xx answer

jobVars == <<jobEvent, status, run, cancelRequested>>
resultVars == <<outcome, latest>>
outboxVars == <<dispatch, leased, backingOff>>
queueVars == <<sent, sends, acknowledged, deadLettered, delivery>>
engineVars == <<workflow, publishing>>
vars == <<nextRevision, jobVars, requeued, resultVars, outboxVars, queueVars,
          handler, consumer, engineVars, acked>>

HandlerStage == {"idle", "reserve", "insert", "claim", "send", "markSent",
                 "markPending", "reply", "cancelQueued", "cancelRecord",
                 "cancelFinish", "cancelRunning", "retry"}
ConsumerStage == {"idle", "insert", "reclaim", "load", "run", "start", "ack",
                  "retry"}
WorkflowStage == {"none", "created", "live", "publishing", "failing",
                  "cancelling", "recorded", "done"}

Invocation == [stage : HandlerStage, event : Events \cup {None},
               job : 0..MaxRevision, run : Runs]
Idle == [stage |-> "idle", event |-> None, job |-> 0, run |-> 0]

NoMessage == [id |-> 0, job |-> 0, run |-> 0]
Processing == [stage : ConsumerStage, message : Messages \cup {NoMessage}]
Waiting == [stage |-> "idle", message |-> NoMessage]

LedgerTypeOK ==
    /\ nextRevision \in 0..MaxRevision
    /\ jobEvent \in [Revisions -> Events \cup {None}]
    /\ status \in [Revisions -> JobStatus]
    /\ run \in [Revisions -> Runs]
    /\ cancelRequested \in [Revisions -> BOOLEAN]
    /\ requeued \subseteq Revisions \X Runs
    /\ outcome \in [Revisions \X Runs -> Terminal \cup {"none"}]
    /\ latest \in 0..MaxRevision

OutboxTypeOK ==
    /\ dispatch \in [Revisions -> {"pending", "sending", "sent"}]
    /\ leased \in [Revisions -> BOOLEAN]
    /\ backingOff \in [Revisions -> BOOLEAN]

QueueTypeOK ==
    /\ sent \subseteq Messages
    /\ sends \in 0..MaxSends
    /\ acknowledged \subseteq MessageIds
    /\ deadLettered \subseteq MessageIds
    /\ delivery \in [MessageIds -> {"none", "claimed", "retry", "acked"}]

ActorTypeOK ==
    /\ handler \in [Handlers -> Invocation]
    /\ consumer \in [Consumers -> Processing]
    /\ workflow \in [Revisions \X Runs -> WorkflowStage]
    /\ publishing \subseteq Revisions \X Runs
    /\ acked \subseteq Events

TypeOK == LedgerTypeOK /\ OutboxTypeOK /\ QueueTypeOK /\ ActorTypeOK

Init ==
    /\ nextRevision = 0
    /\ jobEvent = [j \in Revisions |-> None]
    /\ status = [j \in Revisions |-> "absent"]
    /\ run = [j \in Revisions |-> 0]
    /\ cancelRequested = [j \in Revisions |-> FALSE]
    /\ requeued = {}
    /\ outcome = [x \in Revisions \X Runs |-> "none"]
    /\ latest = 0
    /\ dispatch = [j \in Revisions |-> "pending"]
    /\ leased = [j \in Revisions |-> FALSE]
    /\ backingOff = [j \in Revisions |-> FALSE]
    /\ sent = {}
    /\ sends = 0
    /\ acknowledged = {}
    /\ deadLettered = {}
    /\ delivery = [i \in MessageIds |-> "none"]
    /\ handler = [h \in Handlers |-> Idle]
    /\ consumer = [c \in Consumers |-> Waiting]
    /\ workflow = [x \in Revisions \X Runs |-> "none"]
    /\ publishing = {}
    /\ acked = {}

JobRows == {j \in Revisions : status[j] # "absent"}

\* existingFor: a row found by event id or by idempotency key.  The key is a
\* function of the profile and the digest, and an event has one digest, so the
\* key alone finds every such row.
Existing(e) == {j \in JobRows : DigestOf[jobEvent[j]] = DigestOf[e]}

Queued == {m \in sent : m.id \notin acknowledged \cup deadLettered}

GoTo(h, stage) == handler' = [handler EXCEPT ![h].stage = stage]
Return(h) == handler' = [handler EXCEPT ![h] = Idle]

----------------------------------------------------------------------------
(* acceptJob and JobDispatcher.acceptAndEnqueue.                           *)

\* A duplicate continues with the envelope of the row it found.  A row of
\* another event with the same digest is an IdempotencyConflictError (409),
\* which changes nothing.  A client resubmits until it has an answer.
AcceptLookup(h, e) ==
    /\ "accept" \in Operations
    /\ handler[h].stage = "idle"
    /\ e \notin acked
    /\ \/ /\ Existing(e) = {}
          /\ handler' = [handler EXCEPT ![h] =
                            [stage |-> "reserve", event |-> e, job |-> 0, run |-> 0]]
       \/ \E j \in Existing(e) :
            /\ jobEvent[j] = e
            /\ handler' = [handler EXCEPT ![h] =
                              [stage |-> "claim", event |-> e, job |-> j, run |-> run[j]]]
    /\ UNCHANGED <<nextRevision, jobVars, requeued, resultVars, outboxVars,
                   queueVars, consumer, engineVars, acked>>

ReserveRevision(h) ==
    /\ handler[h].stage = "reserve"
    /\ nextRevision < MaxRevision
    /\ nextRevision' = nextRevision + 1
    /\ handler' = [handler EXCEPT ![h].stage = "insert", ![h].job = nextRevision + 1]
    /\ UNCHANGED <<jobVars, requeued, resultVars, outboxVars, queueVars,
                   consumer, engineVars, acked>>

\* Mutant of InsertJob: the tables carry no UNIQUE constraints.
InsertJobUnchecked(h) ==
    LET e == handler[h].event
        j == handler[h].job
    IN /\ handler[h].stage = "insert"
       /\ jobEvent' = [jobEvent EXCEPT ![j] = e]
       /\ status' = [status EXCEPT ![j] = "queued"]
       /\ dispatch' = [dispatch EXCEPT ![j] = "pending"]
       /\ GoTo(h, "claim")
       /\ UNCHANGED <<nextRevision, run, cancelRequested, requeued, resultVars,
                      leased, backingOff, queueVars, consumer, engineVars, acked>>

\* The batch of jobs, job_events, job_revisions and job_dispatches.  UNIQUE
\* (profile_id, idempotency_key) and (profile_id, event_id) reject it when a
\* concurrent invocation won; the reserved number is then never used.
InsertJob(h) ==
    LET e == handler[h].event
        j == handler[h].job
    IN /\ handler[h].stage = "insert"
       /\ \/ /\ Existing(e) = {}
             /\ jobEvent' = [jobEvent EXCEPT ![j] = e]
             /\ status' = [status EXCEPT ![j] = "queued"]
             /\ dispatch' = [dispatch EXCEPT ![j] = "pending"]
             /\ GoTo(h, "claim")
          \/ \E i \in Existing(e) :
               /\ IF jobEvent[i] = e
                  THEN handler' = [handler EXCEPT ![h] =
                          [stage |-> "claim", event |-> e, job |-> i, run |-> run[i]]]
                  ELSE Return(h)
               /\ UNCHANGED <<jobEvent, status, dispatch>>
       /\ UNCHANGED <<nextRevision, run, cancelRequested, requeued, resultVars,
                      leased, backingOff, queueVars, consumer, engineVars, acked>>

\* claimDispatch.  When the claim misses, dispatch() returns false and every
\* caller goes on to answer as if the message had been sent.
ClaimDispatch(h) ==
    LET j == handler[h].job IN
    /\ handler[h].stage = "claim"
    /\ \/ /\ dispatch[j] # "sent" /\ ~leased[j] /\ ~backingOff[j]
          /\ dispatch' = [dispatch EXCEPT ![j] = "sending"]
          /\ leased' = [leased EXCEPT ![j] = TRUE]
          /\ GoTo(h, "send")
       \/ /\ dispatch[j] = "sent" \/ leased[j] \/ backingOff[j]
          /\ GoTo(h, "reply")
          /\ UNCHANGED <<dispatch, leased>>
    /\ UNCHANGED <<nextRevision, jobVars, requeued, resultVars, backingOff,
                   queueVars, consumer, engineVars, acked>>

NewMessage(h) == [id |-> sends + 1,
                  job |-> handler[h].job, run |-> handler[h].run]

\* queue.send.  A send that throws may or may not have reached the Queue.
SendQueue(h) ==
    /\ handler[h].stage = "send"
    /\ \/ /\ sends < MaxSends
          /\ sends' = sends + 1
          /\ sent' = sent \cup {NewMessage(h)}
          /\ \/ GoTo(h, "markSent")
             \/ "send" \in Faults /\ GoTo(h, "markPending")
       \/ /\ "send" \in Faults
          /\ GoTo(h, "markPending")
          /\ UNCHANGED <<sent, sends>>
    /\ UNCHANGED <<nextRevision, jobVars, requeued, resultVars, outboxVars,
                   acknowledged, deadLettered, delivery, consumer, engineVars, acked>>

MarkDispatchSent(h) ==
    LET j == handler[h].job IN
    /\ handler[h].stage = "markSent"
    /\ dispatch' = [dispatch EXCEPT ![j] = "sent"]
    /\ leased' = [leased EXCEPT ![j] = FALSE]
    /\ backingOff' = [backingOff EXCEPT ![j] = FALSE]
    /\ GoTo(h, "reply")
    /\ UNCHANGED <<nextRevision, jobVars, requeued, resultVars, queueVars,
                   consumer, engineVars, acked>>

\* The caller answers 503 queue_unavailable.
MarkDispatchPending(h) ==
    LET j == handler[h].job IN
    /\ handler[h].stage = "markPending"
    /\ dispatch' = [dispatch EXCEPT ![j] = "pending"]
    /\ leased' = [leased EXCEPT ![j] = FALSE]
    /\ backingOff' = [backingOff EXCEPT ![j] = TRUE]
    /\ Return(h)
    /\ UNCHANGED <<nextRevision, jobVars, requeued, resultVars, queueVars,
                   consumer, engineVars, acked>>

\* The 200 or 202 reaches the client, which then forgets the event.
Reply(h) ==
    /\ handler[h].stage = "reply"
    /\ acked' = acked \cup ({handler[h].event} \ {None})
    /\ Return(h)
    /\ UNCHANGED <<nextRevision, jobVars, requeued, resultVars, outboxVars,
                   queueVars, consumer, engineVars>>

\* The invocation is killed at an await, or its answer never arrives.
HandlerCrash(h) ==
    /\ "crash" \in Faults
    /\ handler[h].stage # "idle"
    /\ Return(h)
    /\ UNCHANGED <<nextRevision, jobVars, requeued, resultVars, outboxVars,
                   queueVars, consumer, engineVars, acked>>

LeaseExpires(j) ==
    /\ "lease" \in Faults
    /\ leased[j]
    /\ leased' = [leased EXCEPT ![j] = FALSE]
    /\ UNCHANGED <<nextRevision, jobVars, requeued, resultVars, dispatch,
                   backingOff, queueVars, handler, consumer, engineVars, acked>>

BackoffElapses(j) ==
    /\ backingOff[j]
    /\ backingOff' = [backingOff EXCEPT ![j] = FALSE]
    /\ UNCHANGED <<nextRevision, jobVars, requeued, resultVars, dispatch,
                   leased, queueVars, handler, consumer, engineVars, acked>>

----------------------------------------------------------------------------
(* cancel and manualRetry.                                                 *)

\* Reads the row; a terminal job is left alone.
CancelRead(h, j) ==
    /\ "cancel" \in Operations
    /\ handler[h].stage = "idle"
    /\ status[j] \in {"queued", "running"}
    /\ handler' = [handler EXCEPT ![h] =
         [stage |-> IF status[j] = "queued" THEN "cancelQueued" ELSE "cancelRunning",
          event |-> None, job |-> j, run |-> run[j]]]
    /\ UNCHANGED <<nextRevision, jobVars, requeued, resultVars, outboxVars,
                   queueVars, consumer, engineVars, acked>>

\* UPDATE ... WHERE status = 'queued'; whether it matched is not looked at.
CancelQueued(h) ==
    LET j == handler[h].job IN
    /\ handler[h].stage = "cancelQueued"
    /\ status' = [status EXCEPT ![j] = IF @ = "queued" THEN "cancelled" ELSE @]
    /\ GoTo(h, "cancelRecord")
    /\ UNCHANGED <<nextRevision, jobEvent, run, cancelRequested, requeued,
                   resultVars, outboxVars, queueVars, consumer, engineVars, acked>>

\* recordOutcome for the run that was read: INSERT OR IGNORE ...
CancelRecord(h) ==
    LET x == <<handler[h].job, handler[h].run>> IN
    /\ handler[h].stage = "cancelRecord"
    /\ \/ /\ outcome[x] = "none"
          /\ outcome' = [outcome EXCEPT ![x] = "cancelled"]
          /\ GoTo(h, "cancelFinish")
       \/ /\ outcome[x] # "none"
          /\ Return(h)
          /\ UNCHANGED outcome
    /\ UNCHANGED <<nextRevision, jobVars, requeued, latest, outboxVars,
                   queueVars, consumer, engineVars, acked>>

\* ... then, only if it inserted, UPDATE jobs ... WHERE id, unconditionally.
CancelFinish(h) ==
    /\ handler[h].stage = "cancelFinish"
    /\ status' = [status EXCEPT ![handler[h].job] = "cancelled"]
    /\ Return(h)
    /\ UNCHANGED <<nextRevision, jobEvent, run, cancelRequested, requeued,
                   resultVars, outboxVars, queueVars, consumer, engineVars, acked>>

CancelRunning(h) ==
    LET j == handler[h].job IN
    /\ handler[h].stage = "cancelRunning"
    /\ cancelRequested' = [cancelRequested EXCEPT ![j] = @ \/ status[j] = "running"]
    /\ Return(h)
    /\ UNCHANGED <<nextRevision, jobEvent, status, run, requeued, resultVars,
                   outboxVars, queueVars, consumer, engineVars, acked>>

RetryRead(h, j) ==
    /\ "retry" \in Operations
    /\ handler[h].stage = "idle"
    /\ status[j] = "failed"
    /\ run[j] < MaxRun
    /\ handler' = [handler EXCEPT ![h] =
         [stage |-> "retry", event |-> None, job |-> j, run |-> run[j] + 1]]
    /\ UNCHANGED <<nextRevision, jobVars, requeued, resultVars, outboxVars,
                   queueVars, consumer, engineVars, acked>>

\* Mutant of RetryCommit: the new run is sent but not stored with the job.
RetryCommitSameRun(h) ==
    LET j == handler[h].job IN
    /\ handler[h].stage = "retry"
    /\ <<j, handler[h].run>> \notin requeued
    /\ requeued' = requeued \cup {<<j, handler[h].run>>}
    /\ status' = [status EXCEPT ![j] = IF @ = "failed" THEN "queued" ELSE @]
    /\ dispatch' = [dispatch EXCEPT ![j] = "pending"]
    /\ GoTo(h, "claim")
    /\ UNCHANGED <<nextRevision, jobEvent, run, cancelRequested, resultVars, leased,
                   backingOff, queueVars, consumer, engineVars, acked>>

\* The batch.  UNIQUE(job_id, workflow_run) on job_requeues rejects it as a
\* whole when another invocation already started this run; the guarded UPDATE
\* of jobs does not.  A missed UPDATE answers 409 after the batch committed.
RetryCommit(h) ==
    LET j == handler[h].job
        r == handler[h].run
        failed == status[j] = "failed"
    IN /\ handler[h].stage = "retry"
       /\ \/ /\ <<j, r>> \notin requeued
             /\ requeued' = requeued \cup {<<j, r>>}
             /\ status' = [status EXCEPT ![j] = IF failed THEN "queued" ELSE @]
             /\ run' = [run EXCEPT ![j] = IF failed THEN r ELSE @]
             /\ cancelRequested' = [cancelRequested EXCEPT ![j] = @ /\ ~failed]
             /\ dispatch' = [dispatch EXCEPT ![j] = "pending"]
             /\ leased' = [leased EXCEPT ![j] = FALSE]
             /\ backingOff' = [backingOff EXCEPT ![j] = FALSE]
             /\ IF failed THEN GoTo(h, "claim") ELSE Return(h)
          \/ /\ <<j, r>> \in requeued
             /\ Return(h)
             /\ UNCHANGED <<requeued, status, run, cancelRequested, outboxVars>>
       /\ UNCHANGED <<nextRevision, jobEvent, resultVars, queueVars, consumer,
                      engineVars, acked>>

----------------------------------------------------------------------------
(* consumeQueueMessage with claimDelivery, markDelivery, recordQueueRetry. *)

ConsumerTo(c, stage) == consumer' = [consumer EXCEPT ![c].stage = stage]
Finish(c) == consumer' = [consumer EXCEPT ![c] = Waiting]
Ack(m) == acknowledged' = acknowledged \cup {m.id}

\* A message id already claimed or acknowledged is acknowledged unread.  The
\* Queue may hand out a message that another invocation is still working on.
ReceiveMessage(c, m) ==
    /\ m \in Queued
    /\ consumer[c].stage = "idle"
    /\ "redeliver" \in Faults \/ \A d \in Consumers : consumer[d].message # m
    /\ \/ /\ delivery[m.id] \in {"none", "retry"}
          /\ consumer' = [consumer EXCEPT ![c] =
               [stage |-> IF delivery[m.id] = "none" THEN "insert" ELSE "reclaim",
                message |-> m]]
          /\ UNCHANGED acknowledged
       \/ /\ delivery[m.id] \in {"claimed", "acked"}
          /\ Ack(m)
          /\ UNCHANGED consumer
    /\ UNCHANGED <<nextRevision, jobVars, requeued, resultVars, outboxVars, sent, sends,
                   deadLettered, delivery, handler, engineVars, acked>>

\* INSERT OR IGNORE of a new delivery, or the UPDATE of one left for retry.
ClaimDelivery(c) ==
    LET m == consumer[c].message IN
    /\ \/ /\ \/ consumer[c].stage = "insert" /\ delivery[m.id] = "none"
             \/ consumer[c].stage = "reclaim"
          /\ delivery' = [delivery EXCEPT ![m.id] = "claimed"]
          /\ ConsumerTo(c, "load")
          /\ UNCHANGED acknowledged
       \/ /\ consumer[c].stage = "insert"
          /\ delivery[m.id] # "none"
          /\ Ack(m)
          /\ Finish(c)
          /\ UNCHANGED delivery
    /\ UNCHANGED <<nextRevision, jobVars, requeued, resultVars, outboxVars, sent, sends,
                   deadLettered, handler, engineVars, acked>>

LoadJob(c) ==
    LET m == consumer[c].message IN
    /\ consumer[c].stage = "load"
    /\ \/ /\ status[m.job] \in Terminal
          /\ delivery' = [delivery EXCEPT ![m.id] = "acked"]
          /\ Ack(m)
          /\ Finish(c)
       \/ /\ status[m.job] \notin Terminal
          /\ ConsumerTo(c, "run")
          /\ UNCHANGED <<delivery, acknowledged>>
    /\ UNCHANGED <<nextRevision, jobVars, requeued, resultVars, outboxVars, sent, sends,
                   deadLettered, handler, engineVars, acked>>

\* Mutant of MarkRunning: the UPDATE does not look at the status.
MarkRunningAlways(c) ==
    /\ consumer[c].stage = "run"
    /\ status' = [status EXCEPT ![consumer[c].message.job] = "running"]
    /\ ConsumerTo(c, "start")
    /\ UNCHANGED <<nextRevision, jobEvent, run, cancelRequested, requeued,
                   resultVars, outboxVars, queueVars, handler, engineVars, acked>>

\* UPDATE jobs SET status = 'running' WHERE status IN ('queued', 'running').
MarkRunning(c) ==
    LET j == consumer[c].message.job IN
    /\ consumer[c].stage = "run"
    /\ status' = [status EXCEPT ![j] = IF @ = "queued" THEN "running" ELSE @]
    /\ ConsumerTo(c, "start")
    /\ UNCHANGED <<nextRevision, jobEvent, run, cancelRequested, requeued,
                   resultVars, outboxVars, queueVars, handler, engineVars, acked>>

\* Mutant of StartWorkflow: every failure is taken for "already exists".
StartWorkflowSwallows(c) ==
    LET x == <<consumer[c].message.job, consumer[c].message.run>> IN
    /\ consumer[c].stage = "start"
    /\ \/ workflow' = [workflow EXCEPT ![x] = IF @ = "none" THEN "created" ELSE @]
       \/ "start" \in Faults /\ UNCHANGED workflow
    /\ ConsumerTo(c, "ack")
    /\ UNCHANGED <<nextRevision, jobVars, requeued, resultVars, outboxVars,
                   queueVars, handler, publishing, acked>>

\* GENERATE_WORKFLOW.create with the deterministic id of the message's run.
\* "Already exists" counts as success; any other failure, after which the
\* instance may or may not exist, sends the message back.
StartWorkflow(c) ==
    LET m == consumer[c].message
        x == <<m.job, m.run>>
        created == [workflow EXCEPT ![x] = IF @ = "none" THEN "created" ELSE @]
    IN /\ consumer[c].stage = "start"
       /\ \/ workflow' = created /\ ConsumerTo(c, "ack")
          \/ /\ "start" \in Faults
             /\ workflow' \in {workflow, created}
             /\ ConsumerTo(c, "retry")
       /\ UNCHANGED <<nextRevision, jobVars, requeued, resultVars, outboxVars,
                      queueVars, handler, publishing, acked>>

AckDelivery(c) ==
    LET m == consumer[c].message IN
    /\ consumer[c].stage = "ack"
    /\ delivery' = [delivery EXCEPT ![m.id] = "acked"]
    /\ Ack(m)
    /\ Finish(c)
    /\ UNCHANGED <<nextRevision, jobVars, requeued, resultVars, outboxVars, sent, sends,
                   deadLettered, handler, engineVars, acked>>

RecordQueueRetry(c) ==
    LET m == consumer[c].message IN
    /\ consumer[c].stage = "retry"
    /\ delivery' = [delivery EXCEPT ![m.id] = "retry"]
    /\ Finish(c)
    /\ UNCHANGED <<nextRevision, jobVars, requeued, resultVars, outboxVars, sent, sends,
                   acknowledged, deadLettered, handler, engineVars, acked>>

\* The consumer dies or a D1 call throws; the Queue will redeliver the message.
ConsumerCrash(c) ==
    /\ "crash" \in Faults
    /\ consumer[c].stage # "idle"
    /\ Finish(c)
    /\ UNCHANGED <<nextRevision, jobVars, requeued, resultVars, outboxVars,
                   queueVars, handler, engineVars, acked>>

\* max_retries is exhausted.
DeadLetter(m) ==
    /\ "deadletter" \in Faults
    /\ m \in Queued
    /\ delivery[m.id] = "retry"
    /\ \A c \in Consumers : consumer[c].message # m
    /\ deadLettered' = deadLettered \cup {m.id}
    /\ UNCHANGED <<nextRevision, jobVars, requeued, resultVars, outboxVars, sent, sends,
                   acknowledged, delivery, handler, consumer, engineVars, acked>>

----------------------------------------------------------------------------
(* GenerateWorkflow.run.  The five steps before publish touch the ledger   *)
(* only through beginStepAttempt; they are the stage "live".               *)

WorkflowTo(x, stage) == workflow' = [workflow EXCEPT ![x] = stage]

\* A run the job has left behind, or a concluded job, ends the instance.
WorkflowStart(j, r) ==
    /\ workflow[<<j, r>>] = "created"
    /\ WorkflowTo(<<j, r>>,
           IF run[j] # r \/ status[j] \in Terminal THEN "done" ELSE "live")
    /\ UNCHANGED <<nextRevision, jobVars, requeued, resultVars, outboxVars,
                   queueVars, handler, consumer, publishing, acked>>

\* beginStepAttempt refuses.
CancelObserved(j) == status[j] = "cancelled" \/ cancelRequested[j]

\* Mutant of WorkflowCancelled: the catch block passes a cancellation by.
WorkflowCancelledSilently(j, r) ==
    /\ workflow[<<j, r>>] = "live"
    /\ CancelObserved(j)
    /\ WorkflowTo(<<j, r>>, "done")
    /\ UNCHANGED <<nextRevision, jobVars, requeued, resultVars, outboxVars,
                   queueVars, handler, consumer, publishing, acked>>

WorkflowCancelled(j, r) ==
    /\ workflow[<<j, r>>] = "live"
    /\ CancelObserved(j)
    /\ WorkflowTo(<<j, r>>, "cancelling")
    /\ UNCHANGED <<nextRevision, jobVars, requeued, resultVars, outboxVars,
                   queueVars, handler, consumer, publishing, acked>>

\* Some step fails for good: a permanent error, or its attempts are used up.
StepFails(j, r) ==
    /\ workflow[<<j, r>>] = "live"
    /\ WorkflowTo(<<j, r>>, "failing")
    /\ UNCHANGED <<nextRevision, jobVars, requeued, resultVars, outboxVars,
                   queueVars, handler, consumer, publishing, acked>>

\* The publish step passes beginStepAttempt and issues its batch.
BeginPublish(j, r) ==
    /\ workflow[<<j, r>>] = "live"
    /\ ~CancelObserved(j)
    /\ WorkflowTo(<<j, r>>, "publishing")
    /\ publishing' = publishing \cup {<<j, r>>}
    /\ UNCHANGED <<nextRevision, jobVars, requeued, resultVars, outboxVars,
                   queueVars, handler, consumer, acked>>

\* Mutant of CommitPublish: the pointer moves to any revision that succeeds.
CommitPublishUnordered(j, r) ==
    /\ <<j, r>> \in publishing
    /\ publishing' = publishing \ {<<j, r>>}
    /\ outcome[<<j, r>>] = "none"
    /\ outcome' = [outcome EXCEPT ![<<j, r>>] = "succeeded"]
    /\ status' = [status EXCEPT ![j] =
                     IF @ \in {"queued", "running"} THEN "succeeded" ELSE @]
    /\ latest' = j
    /\ WorkflowTo(<<j, r>>, "done")
    /\ UNCHANGED <<nextRevision, jobEvent, run, cancelRequested, requeued,
                   outboxVars, queueVars, handler, consumer, acked>>

\* Mutant of CommitPublish: INSERT OR REPLACE into revision_outcomes.
CommitPublishReplacing(j, r) ==
    /\ <<j, r>> \in publishing
    /\ publishing' = publishing \ {<<j, r>>}
    /\ outcome' = [outcome EXCEPT ![<<j, r>>] = "succeeded"]
    /\ status' = [status EXCEPT ![j] =
                     IF @ \in {"queued", "running"} THEN "succeeded" ELSE @]
    /\ latest' = IF j > latest THEN j ELSE latest
    /\ WorkflowTo(<<j, r>>, "done")
    /\ UNCHANGED <<nextRevision, jobEvent, run, cancelRequested, requeued,
                   outboxVars, queueVars, handler, consumer, acked>>

\* recordSuccessAndPublish: the plain INSERT of the outcome makes the batch
\* fail as a whole when the run already has one; otherwise the job succeeds
\* and the pointer moves if the revision is newer.  The step may meanwhile
\* have timed out, and its answer may get lost; both lead to another attempt.
CommitPublish(j, r) ==
    LET x == <<j, r>>
        answer == IF workflow[x] = "publishing" THEN "done" ELSE workflow[x]
        noAnswer == IF workflow[x] = "publishing" THEN "live" ELSE workflow[x]
    IN /\ x \in publishing
       /\ publishing' = publishing \ {x}
       /\ \/ /\ outcome[x] = "none"
             /\ outcome' = [outcome EXCEPT ![x] = "succeeded"]
             /\ status' = [status EXCEPT ![j] =
                              IF @ \in {"queued", "running"} THEN "succeeded" ELSE @]
             /\ latest' = IF j > latest THEN j ELSE latest
             /\ \/ WorkflowTo(x, answer)
                \/ "lostreply" \in Faults /\ WorkflowTo(x, noAnswer)
          \/ /\ outcome[x] # "none"
             /\ WorkflowTo(x, noAnswer)
             /\ UNCHANGED <<outcome, status, latest>>
       /\ UNCHANGED <<nextRevision, jobEvent, run, cancelRequested, requeued,
                      outboxVars, queueVars, handler, consumer, acked>>

\* The step times out while its batch is still under way; it is tried again.
PublishTimeout(j, r) ==
    /\ "timeout" \in Faults
    /\ workflow[<<j, r>>] = "publishing"
    /\ WorkflowTo(<<j, r>>, "live")
    /\ UNCHANGED <<nextRevision, jobVars, requeued, resultVars, outboxVars,
                   queueVars, handler, consumer, publishing, acked>>

\* Mutant of RecordOutcome: INSERT OR REPLACE into revision_outcomes.
RecordOutcomeReplacing(j, r) ==
    /\ workflow[<<j, r>>] \in {"failing", "cancelling"}
    /\ outcome' = [outcome EXCEPT ![<<j, r>>] =
                      IF workflow[<<j, r>>] = "failing" THEN "failed" ELSE "cancelled"]
    /\ WorkflowTo(<<j, r>>, "recorded")
    /\ UNCHANGED <<nextRevision, jobVars, requeued, latest, outboxVars,
                   queueVars, handler, consumer, publishing, acked>>

\* Mutant of RecordOutcome: whether the INSERT took effect is not looked at, so
\* the status is set in any case.
RecordOutcomeUnchecked(j, r) ==
    LET verdict == IF workflow[<<j, r>>] = "failing" THEN "failed" ELSE "cancelled" IN
    /\ workflow[<<j, r>>] \in {"failing", "cancelling"}
    /\ outcome' = [outcome EXCEPT ![<<j, r>>] = IF @ = "none" THEN verdict ELSE @]
    /\ status' = [status EXCEPT ![j] = verdict]
    /\ WorkflowTo(<<j, r>>, "done")
    /\ UNCHANGED <<nextRevision, jobEvent, run, cancelRequested, requeued, latest,
                   outboxVars, queueVars, handler, consumer, publishing, acked>>

\* The catch block: recordOutcome inserts the outcome unless the run has one ...
RecordOutcome(j, r) ==
    LET x == <<j, r>> IN
    /\ workflow[x] \in {"failing", "cancelling"}
    /\ \/ /\ outcome[x] = "none"
          /\ outcome' = [outcome EXCEPT ![x] =
                            IF workflow[x] = "failing" THEN "failed" ELSE "cancelled"]
          /\ WorkflowTo(x, "recorded")
       \/ /\ outcome[x] # "none"
          /\ WorkflowTo(x, "done")
          /\ UNCHANGED outcome
    /\ UNCHANGED <<nextRevision, jobVars, requeued, latest, outboxVars,
                   queueVars, handler, consumer, publishing, acked>>

\* ... and, in a second transaction, sets the job's status.
FinishOutcome(j, r) ==
    /\ workflow[<<j, r>>] = "recorded"
    /\ status' = [status EXCEPT ![j] = outcome[<<j, r>>]]
    /\ WorkflowTo(<<j, r>>, "done")
    /\ UNCHANGED <<nextRevision, jobEvent, run, cancelRequested, requeued,
                   resultVars, outboxVars, queueVars, handler, consumer,
                   publishing, acked>>

\* The engine loses the isolate and runs the instance again from the top.
WorkflowReplay(j, r) ==
    /\ "replay" \in Faults
    /\ workflow[<<j, r>>] \notin {"none", "created", "done"}
    /\ WorkflowTo(<<j, r>>, "created")
    /\ UNCHANGED <<nextRevision, jobVars, requeued, resultVars, outboxVars,
                   queueVars, handler, consumer, publishing, acked>>

----------------------------------------------------------------------------
HandlerStep(h) ==
    \/ ReserveRevision(h) \/ InsertJob(h) \/ ClaimDispatch(h) \/ SendQueue(h)
    \/ MarkDispatchSent(h) \/ MarkDispatchPending(h) \/ Reply(h)
    \/ CancelQueued(h) \/ CancelRecord(h) \/ CancelFinish(h) \/ CancelRunning(h)
    \/ RetryCommit(h)

ConsumerStep(c) ==
    \/ \E m \in sent : ReceiveMessage(c, m)
    \/ ClaimDelivery(c) \/ LoadJob(c) \/ MarkRunning(c) \/ StartWorkflow(c)
    \/ AckDelivery(c) \/ RecordQueueRetry(c)

WorkflowStep(j, r) ==
    \/ WorkflowStart(j, r) \/ WorkflowCancelled(j, r) \/ StepFails(j, r)
    \/ BeginPublish(j, r) \/ CommitPublish(j, r)
    \/ RecordOutcome(j, r) \/ FinishOutcome(j, r)

Request(h) ==
    \/ \E e \in Events : AcceptLookup(h, e)
    \/ \E j \in Revisions : CancelRead(h, j) \/ RetryRead(h, j)

Fault ==
    \/ \E h \in Handlers : HandlerCrash(h)
    \/ \E c \in Consumers : ConsumerCrash(c)
    \/ \E m \in sent : DeadLetter(m)
    \/ \E j \in Revisions, r \in Runs : PublishTimeout(j, r) \/ WorkflowReplay(j, r)

Next ==
    \/ \E h \in Handlers : Request(h) \/ HandlerStep(h)
    \/ \E c \in Consumers : ConsumerStep(c)
    \/ \E j \in Revisions, r \in Runs : WorkflowStep(j, r)
    \/ \E j \in Revisions : LeaseExpires(j) \/ BackoffElapses(j)
    \/ Fault

Spec == Init /\ [][Next]_vars

----------------------------------------------------------------------------
(* What the scheduling justifies: an invocation that is not killed         *)
(* continues, a queued message is delivered to an idle consumer, the       *)
(* engine advances its instances, time passes.  Nothing makes a user       *)
(* submit, cancel or retry.                                                *)
Fairness ==
    /\ \A h \in Handlers : WF_vars(HandlerStep(h))
    /\ \A c \in Consumers : WF_vars(ConsumerStep(c))
    /\ \A j \in Revisions, r \in Runs : WF_vars(WorkflowStep(j, r))
    /\ \A j \in Revisions : WF_vars(LeaseExpires(j)) /\ WF_vars(BackoffElapses(j))

FairSpec == Spec /\ Fairness
----------------------------------------------------------------------------
(* Properties.                                                             *)

Succeeded == {j \in Revisions : \E r \in Runs : outcome[<<j, r>>] = "succeeded"}

\* The pointer recommend tables are read through always names the newest
\* revision that has succeeded, whatever the order in which runs finish, are
\* redelivered, time out or are cancelled (recordSuccessAndPublish).
LatestIsNewestSuccess ==
    /\ latest \in Succeeded \cup {0}
    /\ \A j \in Succeeded : j <= latest

\* The mutable jobs.status and the append-only outcome of the job's current
\* run, written by different statements of different invocations, never tell
\* contradictory stories (recordOutcome, recordSuccessAndPublish, cancel).
StatusAgreesWithOutcome ==
    \A j \in JobRows :
        LET o == outcome[<<j, run[j]>>] IN
        /\ status[j] = "succeeded" <=> o = "succeeded"
        /\ status[j] = "failed" => o = "failed"
        /\ status[j] = "cancelled" => o \in {"cancelled", "none"}
        /\ status[j] = "queued" => o = "none"

\* A job moves to its next run only over a failed one, and nothing a past run
\* still has in flight can give a run a second life: every earlier run stays
\* failed, no later run exists (manualRetry, WorkflowStart's stale-run check).
RunsFollowFailures ==
    \A j \in Revisions, r \in Runs :
        /\ r < run[j] => outcome[<<j, r>>] = "failed"
        /\ r > run[j] => outcome[<<j, r>>] = "none" /\ workflow[<<j, r>>] = "none"

\* Submissions of one input, raced by any number of invocations, create one
\* job (acceptJob and the UNIQUE constraints it leans on).
OneJobPerInput ==
    \A i, j \in JobRows : DigestOf[jobEvent[i]] = DigestOf[jobEvent[j]] => i = j

\* A job that succeeded or was cancelled stays so: no late consumer, zombie
\* publish, cancel or retry reopens it or turns it into something else.
ConclusionIsFinal ==
    [][\A j \in Revisions :
         status[j] \in {"succeeded", "cancelled"} => status'[j] = status[j]]_vars

\* A revision becomes the latest only through the current run of a job that is
\* running, so never through a cancelled job, a run the operator has replaced or
\* a job an earlier attempt already concluded (publish step, zombie batches).
PublishedByLiveRun ==
    [][latest' # latest =>
         /\ status[latest'] = "running"
         /\ outcome'[<<latest', run[latest']>>] = "succeeded"]_vars

\* The message of a run is taken off the queue only when the run's workflow
\* exists or nothing is left to do for it (consumeQueueMessage).
NeedsNothing(m) ==
    \/ workflow[m.job, m.run] # "none"
    \/ status[m.job] \in Terminal
    \/ m.run < run[m.job]

AckedMessageTookEffect ==
    \A m \in sent : m.id \in acknowledged => NeedsNothing(m)

\* Every job whose invocations survive and whose sends succeed comes to a
\* conclusion, whatever duplicates, cancels and permanent step failures do
\* (acceptAndEnqueue, consumeQueueMessage, GenerateWorkflow.run together).
AcceptedJobsConclude ==
    \A j \in Revisions : status[j] # "absent" ~> status[j] \in Terminal

\* The ledger implements the publication promise, step by step.
Publication ==
    INSTANCE RevisionPublication
    WITH MaxRevision <- MaxRevision, MaxRun <- MaxRun,
         run <- run, outcome <- outcome, latest <- latest
PublicationSpec == Publication!Spec

----------------------------------------------------------------------------
(* What the repository's documents say and the code does not do.           *)

\* docs/api-contract.md: after the 2xx the Queue is fed by a retrying Alarm, so
\* an acknowledged event's job is sent at some time.
AckedEventsAreSent ==
    \A e \in Events : e \in acked ~> \E m \in sent : jobEvent[m.job] = e

\* docs/adr/0003: an operator can run a failed job again; the rerun that was
\* accepted is put on the queue (or the job stops waiting for it).
RerunsAreSent ==
    \A j \in Revisions, r \in Runs \ {0} :
        status[j] = "queued" /\ run[j] = r ~>
            \/ \E m \in sent : m.job = j /\ m.run = r
            \/ status[j] # "queued"
=============================================================================
