-------------------------- MODULE JobLedgerProofs --------------------------
(***************************************************************************)
(* What JobLedger guarantees for every set of events, invocations and      *)
(* failures and for every bound: the mutable status of a job agrees with   *)
(* the append-only outcomes of its runs, and the pipeline implements       *)
(* RevisionPublication.                                                    *)
(*                                                                         *)
(* Neither is inductive by itself.  Invocations, messages and workflow     *)
(* instances keep working for the run they were made for while an operator *)
(* moves the job to another one.  The inductive invariant IInv therefore   *)
(* says, of each run, what can be true while it is past, current or still  *)
(* to come, and, of each actor, how its run compares with the job's.  For  *)
(* the messages, Custody says who answers for a delivery that is claimed.  *)
(***************************************************************************)
EXTENDS JobLedger, TLAPS

USE LedgerAssumption

----------------------------------------------------------------------------
(* Types.  TypeOK alone is not inductive: that a message, a requeue or an  *)
(* acknowledgement names a real job follows only from an invocation that   *)
(* sends, requeues or acknowledges being one that has found a row.         *)

\* An invocation that works on a job names one, and so does a consumer's message.
HandlersOK ==
    /\ handler \in [Handlers -> Invocation]
    /\ \A h \in Handlers :
         handler[h].stage \notin {"idle", "reserve"} => handler[h].job \in Revisions

ConsumersOK ==
    /\ consumer \in [Consumers -> Processing]
    /\ \A c \in Consumers :
         consumer[c].stage # "idle" => consumer[c].message \in Messages

\* An instance that is about to copy its run's outcome to the job has one.
RecordedRuns ==
    \A x \in Revisions \X Runs : workflow[x] = "recorded" => outcome[x] # "none"

TypeInv == TypeOK /\ HandlersOK /\ ConsumersOK /\ RecordedRuns

\* An invocation that takes up any well-typed work on a job stays typed.
LEMMA InvocationSet ==
    ASSUME HandlersOK, NEW h \in Handlers, NEW a \in Invocation,
           a.stage \notin {"idle", "reserve"} => a.job \in Revisions,
           handler' = [handler EXCEPT ![h] = a]
    PROVE  HandlersOK'
  BY DEF HandlersOK

\* So does one that goes on to another stage of the same work ...
LEMMA InvocationMoves ==
    ASSUME HandlersOK, NEW h \in Handlers, handler[h].stage \notin {"idle", "reserve"},
           NEW stage \in HandlerStage, GoTo(h, stage)
    PROVE  HandlersOK'
  <1>1. [handler[h] EXCEPT !.stage = stage] \in Invocation
    BY DEF HandlersOK, Invocation
  <1>2. [handler[h] EXCEPT !.stage = stage].job = handler[h].job
    BY DEF HandlersOK, Invocation
  <1>3. handler' = [handler EXCEPT ![h] = [handler[h] EXCEPT !.stage = stage]]
    BY DEF GoTo
  <1> QED
    BY <1>1, <1>2, <1>3, InvocationSet DEF HandlersOK

\* ... and one that returns.
LEMMA InvocationReturns ==
    ASSUME HandlersOK, NEW h \in Handlers, Return(h)
    PROVE  HandlersOK'
  <1>1. Idle \in Invocation
    BY DEF Idle, Invocation, HandlerStage, Runs
  <1> QED
    BY <1>1, InvocationSet DEF Return, Idle

\* A consumer that goes on with its message stays typed ...
LEMMA DeliveryMoves ==
    ASSUME ConsumersOK, NEW c \in Consumers, consumer[c].stage # "idle",
           NEW stage \in ConsumerStage, ConsumerTo(c, stage)
    PROVE  ConsumersOK'
  <1>1. [consumer[c] EXCEPT !.stage = stage] \in Processing
    BY DEF ConsumersOK, Processing
  <1>2. [consumer[c] EXCEPT !.stage = stage].message \in Messages
    BY DEF ConsumersOK, Processing
  <1> QED
    BY <1>1, <1>2 DEF ConsumerTo, ConsumersOK

\* ... and so does one that is done with it.
LEMMA DeliveryEnds ==
    ASSUME ConsumersOK, NEW c \in Consumers, Finish(c)
    PROVE  ConsumersOK'
  <1>1. Waiting \in Processing
    BY DEF Waiting, Processing, ConsumerStage
  <1> QED
    BY <1>1 DEF Finish, Waiting, ConsumersOK

\* API invocations.
LEMMA HandlerStepTypes ==
    ASSUME TypeInv, NEW h \in Handlers, Request(h) \/ HandlerStep(h) \/ HandlerCrash(h)
    PROVE  TypeInv'
<1> USE DEF TypeInv, TypeOK
<1>1. ASSUME NEW e \in Events, AcceptLookup(h, e) PROVE TypeInv'
  <2>1. HandlersOK'
    <3>1. [stage |-> "reserve", event |-> e, job |-> 0, run |-> 0] \in Invocation
      BY DEF Invocation, HandlerStage, Runs
    <3>2. ASSUME NEW i \in Revisions
          PROVE  [stage |-> "claim", event |-> e, job |-> i, run |-> run[i]] \in Invocation
      BY DEF Invocation, HandlerStage, Revisions, LedgerTypeOK
    <3> QED
      BY <1>1, <3>1, <3>2, InvocationSet DEF AcceptLookup, Existing, JobRows
  <2> QED
    BY <1>1, <2>1 DEF AcceptLookup, LedgerTypeOK, OutboxTypeOK, QueueTypeOK,
           ActorTypeOK, HandlersOK, ConsumersOK, RecordedRuns, jobVars, resultVars,
           outboxVars, queueVars, engineVars
<1>2. ASSUME ReserveRevision(h) PROVE TypeInv'
  <2>1. nextRevision' \in 0..MaxRevision
    BY <1>2 DEF ReserveRevision, LedgerTypeOK
  <2>2. HandlersOK'
    <3>1. nextRevision + 1 \in Revisions
      BY <1>2 DEF ReserveRevision, LedgerTypeOK, Revisions
    <3> DEFINE a == [handler[h] EXCEPT !.stage = "insert", !.job = nextRevision + 1]
    <3>2. Revisions \subseteq 0..MaxRevision
      BY DEF Revisions
    <3>3. handler[h] \in Invocation
      BY DEF HandlersOK
    <3>4. a \in Invocation /\ a.job = nextRevision + 1
      BY <3>1, <3>2, <3>3 DEF Invocation, HandlerStage
    <3>5. handler' = [handler EXCEPT ![h] = a]
      BY <1>2 DEF ReserveRevision
    <3> HIDE DEF a
    <3> QED
      BY <3>1, <3>4, <3>5, InvocationSet
  <2> QED
    BY <1>2, <2>1, <2>2 DEF ReserveRevision, LedgerTypeOK, OutboxTypeOK, QueueTypeOK,
           ActorTypeOK, HandlersOK, ConsumersOK, RecordedRuns, jobVars, resultVars,
           outboxVars, queueVars, engineVars
<1>3. ASSUME InsertJob(h) PROVE TypeInv'
  <2>1. status' \in [Revisions -> JobStatus]
    BY <1>3 DEF InsertJob, LedgerTypeOK, JobStatus, Terminal
  <2>2. jobEvent' \in [Revisions -> Events \cup {None}]
    BY <1>3 DEF InsertJob, LedgerTypeOK, ActorTypeOK, Invocation
  <2>3. OutboxTypeOK'
    BY <1>3 DEF InsertJob, OutboxTypeOK, outboxVars
  <2>4. HandlersOK'
    <3>1. CASE GoTo(h, "claim")
      BY <1>3, <3>1, InvocationMoves DEF InsertJob, HandlerStage
    <3>2. ASSUME NEW i \in Existing(handler[h].event), jobEvent[i] = handler[h].event,
                 handler' = [handler EXCEPT ![h] = [stage |-> "claim",
                     event |-> handler[h].event, job |-> i, run |-> run[i]]]
          PROVE  HandlersOK'
      <4>1. i \in Revisions
        BY DEF Existing, JobRows
      <4>2. [stage |-> "claim", event |-> handler[h].event, job |-> i, run |-> run[i]]
              \in Invocation
        BY <4>1 DEF Invocation, HandlerStage, Revisions, LedgerTypeOK, HandlersOK
      <4> QED
        BY <3>2, <4>1, <4>2, InvocationSet
    <3>3. CASE Return(h)
      BY <3>3, InvocationReturns
    <3> QED
      BY <1>3, <3>1, <3>2, <3>3 DEF InsertJob
  <2> QED
    BY <1>3, <2>1, <2>2, <2>3, <2>4 DEF InsertJob, LedgerTypeOK, OutboxTypeOK,
           QueueTypeOK, ActorTypeOK, HandlersOK, ConsumersOK, RecordedRuns, jobVars,
           resultVars, outboxVars, queueVars, engineVars
<1>4. ASSUME ClaimDispatch(h) PROVE TypeInv'
  <2>1. OutboxTypeOK'
    BY <1>4 DEF ClaimDispatch, OutboxTypeOK, outboxVars
  <2>2. HandlersOK'
    BY <1>4, InvocationMoves, InvocationReturns DEF ClaimDispatch, HandlerStage
  <2> QED
    BY <1>4, <2>1, <2>2 DEF ClaimDispatch, LedgerTypeOK, OutboxTypeOK, QueueTypeOK,
           ActorTypeOK, HandlersOK, ConsumersOK, RecordedRuns, jobVars, resultVars,
           outboxVars, queueVars, engineVars
<1>5. ASSUME SendQueue(h) PROVE TypeInv'
  <2>1. QueueTypeOK'
    <3>1. handler[h].stage = "send" /\ sends < MaxSends => NewMessage(h) \in Messages
      BY DEF HandlersOK, QueueTypeOK, Invocation, NewMessage, Messages, MessageIds
    <3> QED
      BY <1>5, <3>1 DEF SendQueue, QueueTypeOK
  <2>2. HandlersOK'
    BY <1>5, InvocationMoves, InvocationReturns DEF SendQueue, HandlerStage
  <2> QED
    BY <1>5, <2>1, <2>2 DEF SendQueue, LedgerTypeOK, OutboxTypeOK, QueueTypeOK,
           ActorTypeOK, HandlersOK, ConsumersOK, RecordedRuns, jobVars, resultVars,
           outboxVars, queueVars, engineVars
<1>6. ASSUME MarkDispatchSent(h) PROVE TypeInv'
  <2>1. OutboxTypeOK'
    BY <1>6 DEF MarkDispatchSent, OutboxTypeOK, outboxVars
  <2>2. HandlersOK'
    BY <1>6, InvocationMoves, InvocationReturns DEF MarkDispatchSent, HandlerStage
  <2> QED
    BY <1>6, <2>1, <2>2 DEF MarkDispatchSent, LedgerTypeOK, OutboxTypeOK, QueueTypeOK,
           ActorTypeOK, HandlersOK, ConsumersOK, RecordedRuns, jobVars, resultVars,
           outboxVars, queueVars, engineVars
<1>7. ASSUME MarkDispatchPending(h) PROVE TypeInv'
  <2>1. OutboxTypeOK'
    BY <1>7 DEF MarkDispatchPending, OutboxTypeOK, outboxVars
  <2>2. HandlersOK'
    BY <1>7, InvocationMoves, InvocationReturns DEF MarkDispatchPending, HandlerStage
  <2> QED
    BY <1>7, <2>1, <2>2 DEF MarkDispatchPending, LedgerTypeOK, OutboxTypeOK,
           QueueTypeOK, ActorTypeOK, HandlersOK, ConsumersOK, RecordedRuns, jobVars,
           resultVars, outboxVars, queueVars, engineVars
<1>8. ASSUME Reply(h) PROVE TypeInv'
  <2>1. acked' \subseteq Events
    BY <1>8 DEF Reply, ActorTypeOK, Invocation
  <2>2. HandlersOK'
    BY <1>8, InvocationMoves, InvocationReturns DEF Reply, HandlerStage
  <2> QED
    BY <1>8, <2>1, <2>2 DEF Reply, LedgerTypeOK, OutboxTypeOK, QueueTypeOK, ActorTypeOK,
           HandlersOK, ConsumersOK, RecordedRuns, jobVars, resultVars, outboxVars,
           queueVars, engineVars
<1>9. ASSUME HandlerCrash(h) PROVE TypeInv'
  <2>1. HandlersOK'
    BY <1>9, InvocationMoves, InvocationReturns DEF HandlerCrash, HandlerStage
  <2> QED
    BY <1>9, <2>1 DEF HandlerCrash, LedgerTypeOK, OutboxTypeOK, QueueTypeOK,
           ActorTypeOK, HandlersOK, ConsumersOK, RecordedRuns, jobVars, resultVars,
           outboxVars, queueVars, engineVars
<1>10. ASSUME NEW j \in Revisions, CancelRead(h, j) PROVE TypeInv'
  <2>1. HandlersOK'
    <3>1. [stage |-> IF status[j] = "queued" THEN "cancelQueued" ELSE "cancelRunning",
           event |-> None, job |-> j, run |-> run[j]] \in Invocation
      BY <1>10 DEF CancelRead, Invocation, HandlerStage, Revisions, Runs, LedgerTypeOK
    <3> QED
      BY <1>10, <3>1, InvocationSet DEF CancelRead
  <2> QED
    BY <1>10, <2>1 DEF CancelRead, LedgerTypeOK, OutboxTypeOK, QueueTypeOK, ActorTypeOK,
           HandlersOK, ConsumersOK, RecordedRuns, jobVars, resultVars, outboxVars,
           queueVars, engineVars
<1>11. ASSUME CancelQueued(h) PROVE TypeInv'
  <2>1. status' \in [Revisions -> JobStatus]
    BY <1>11 DEF CancelQueued, LedgerTypeOK, JobStatus, Terminal
  <2>2. HandlersOK'
    BY <1>11, InvocationMoves, InvocationReturns DEF CancelQueued, HandlerStage
  <2> QED
    BY <1>11, <2>1, <2>2 DEF CancelQueued, LedgerTypeOK, OutboxTypeOK, QueueTypeOK,
           ActorTypeOK, HandlersOK, ConsumersOK, RecordedRuns, jobVars, resultVars,
           outboxVars, queueVars, engineVars
<1>12. ASSUME CancelRecord(h) PROVE TypeInv'
  <2>1. outcome' \in [Revisions \X Runs -> Terminal \cup {"none"}]
    BY <1>12 DEF CancelRecord, LedgerTypeOK, Terminal
  <2>2. RecordedRuns'
    BY <1>12 DEF CancelRecord, RecordedRuns, LedgerTypeOK, ActorTypeOK, WorkflowTo,
           resultVars, engineVars
  <2>3. HandlersOK'
    BY <1>12, InvocationMoves, InvocationReturns DEF CancelRecord, HandlerStage
  <2> QED
    BY <1>12, <2>1, <2>2, <2>3 DEF CancelRecord, LedgerTypeOK, OutboxTypeOK,
           QueueTypeOK, ActorTypeOK, HandlersOK, ConsumersOK, RecordedRuns, jobVars,
           resultVars, outboxVars, queueVars, engineVars
<1>13. ASSUME CancelFinish(h) PROVE TypeInv'
  <2>1. status' \in [Revisions -> JobStatus]
    BY <1>13 DEF CancelFinish, LedgerTypeOK, JobStatus, Terminal
  <2>2. HandlersOK'
    BY <1>13, InvocationMoves, InvocationReturns DEF CancelFinish, HandlerStage
  <2> QED
    BY <1>13, <2>1, <2>2 DEF CancelFinish, LedgerTypeOK, OutboxTypeOK, QueueTypeOK,
           ActorTypeOK, HandlersOK, ConsumersOK, RecordedRuns, jobVars, resultVars,
           outboxVars, queueVars, engineVars
<1>14. ASSUME CancelRunning(h) PROVE TypeInv'
  <2>1. cancelRequested' \in [Revisions -> BOOLEAN]
    BY <1>14 DEF CancelRunning, LedgerTypeOK
  <2>2. HandlersOK'
    BY <1>14, InvocationMoves, InvocationReturns DEF CancelRunning, HandlerStage
  <2> QED
    BY <1>14, <2>1, <2>2 DEF CancelRunning, LedgerTypeOK, OutboxTypeOK, QueueTypeOK,
           ActorTypeOK, HandlersOK, ConsumersOK, RecordedRuns, jobVars, resultVars,
           outboxVars, queueVars, engineVars
<1>15. ASSUME NEW j \in Revisions, RetryRead(h, j) PROVE TypeInv'
  <2>1. HandlersOK'
    <3>1. [stage |-> "retry",
           event |-> None, job |-> j, run |-> run[j] + 1] \in Invocation
      BY <1>15 DEF RetryRead, Invocation, HandlerStage, Revisions, Runs, LedgerTypeOK
    <3> QED
      BY <1>15, <3>1, InvocationSet DEF RetryRead
  <2> QED
    BY <1>15, <2>1 DEF RetryRead, LedgerTypeOK, OutboxTypeOK, QueueTypeOK, ActorTypeOK,
           HandlersOK, ConsumersOK, RecordedRuns, jobVars, resultVars, outboxVars,
           queueVars, engineVars
<1>16. ASSUME RetryCommit(h) PROVE TypeInv'
  <2>1. requeued' \subseteq Revisions \X Runs
    BY <1>16 DEF RetryCommit, LedgerTypeOK, HandlersOK, Invocation
  <2>2. status' \in [Revisions -> JobStatus]
    BY <1>16 DEF RetryCommit, LedgerTypeOK, JobStatus, Terminal
  <2>3. run' \in [Revisions -> Runs]
    BY <1>16 DEF RetryCommit, LedgerTypeOK, ActorTypeOK, Invocation
  <2>4. cancelRequested' \in [Revisions -> BOOLEAN]
    BY <1>16 DEF RetryCommit, LedgerTypeOK
  <2>5. OutboxTypeOK'
    BY <1>16 DEF RetryCommit, OutboxTypeOK, outboxVars
  <2>6. HandlersOK'
    BY <1>16, InvocationMoves, InvocationReturns DEF RetryCommit, HandlerStage
  <2> QED
    BY <1>16, <2>1, <2>2, <2>3, <2>4, <2>5, <2>6 DEF RetryCommit, LedgerTypeOK,
           OutboxTypeOK, QueueTypeOK, ActorTypeOK, HandlersOK, ConsumersOK,
           RecordedRuns, jobVars, resultVars, outboxVars, queueVars, engineVars
<1> QED
  BY <1>1, <1>2, <1>3, <1>4, <1>5, <1>6, <1>7, <1>8, <1>9, <1>10, <1>11, <1>12, <1>13, <1>14, <1>15, <1>16 DEF Request, HandlerStep

\* The queue consumer.
LEMMA ConsumerStepTypes ==
    ASSUME TypeInv, NEW c \in Consumers, ConsumerStep(c) \/ ConsumerCrash(c)
    PROVE  TypeInv'
<1> USE DEF TypeInv, TypeOK
<1>1. ASSUME NEW m \in sent, ReceiveMessage(c, m) PROVE TypeInv'
  <2>1. QueueTypeOK'
    BY <1>1 DEF ReceiveMessage, QueueTypeOK, ConsumersOK, Messages, Ack, Finish
  <2>2. ConsumersOK'
    <3>1. m \in Messages
      BY <1>1 DEF ReceiveMessage, Queued, QueueTypeOK
    <3>2. \A stage \in ConsumerStage : [stage |-> stage, message |-> m] \in Processing
      BY <3>1 DEF Processing
    <3>3. \A stage \in ConsumerStage :
            consumer' = [consumer EXCEPT ![c] = [stage |-> stage, message |-> m]] =>
            ConsumersOK'
      BY <3>1, <3>2 DEF ConsumersOK
    <3> QED
      BY <1>1, <3>3 DEF ReceiveMessage, ConsumerStage, ConsumersOK
  <2> QED
    BY <1>1, <2>1, <2>2 DEF ReceiveMessage, LedgerTypeOK, OutboxTypeOK, QueueTypeOK,
           ActorTypeOK, HandlersOK, ConsumersOK, RecordedRuns, jobVars, resultVars,
           outboxVars, queueVars, engineVars
<1>2. ASSUME ClaimDelivery(c) PROVE TypeInv'
  <2>1. QueueTypeOK'
    BY <1>2 DEF ClaimDelivery, QueueTypeOK, ConsumersOK, Messages, Ack, Finish
  <2>2. ConsumersOK'
    BY <1>2, DeliveryMoves, DeliveryEnds DEF ClaimDelivery, ConsumerStage
  <2> QED
    BY <1>2, <2>1, <2>2 DEF ClaimDelivery, LedgerTypeOK, OutboxTypeOK, QueueTypeOK,
           ActorTypeOK, HandlersOK, ConsumersOK, RecordedRuns, jobVars, resultVars,
           outboxVars, queueVars, engineVars
<1>3. ASSUME LoadJob(c) PROVE TypeInv'
  <2>1. QueueTypeOK'
    BY <1>3 DEF LoadJob, QueueTypeOK, ConsumersOK, Messages, Ack, Finish
  <2>2. ConsumersOK'
    BY <1>3, DeliveryMoves, DeliveryEnds DEF LoadJob, ConsumerStage
  <2> QED
    BY <1>3, <2>1, <2>2 DEF LoadJob, LedgerTypeOK, OutboxTypeOK, QueueTypeOK,
           ActorTypeOK, HandlersOK, ConsumersOK, RecordedRuns, jobVars, resultVars,
           outboxVars, queueVars, engineVars
<1>4. ASSUME MarkRunning(c) PROVE TypeInv'
  <2>1. status' \in [Revisions -> JobStatus]
    BY <1>4 DEF MarkRunning, LedgerTypeOK, JobStatus, Terminal
  <2>2. ConsumersOK'
    BY <1>4, DeliveryMoves, DeliveryEnds DEF MarkRunning, ConsumerStage
  <2> QED
    BY <1>4, <2>1, <2>2 DEF MarkRunning, LedgerTypeOK, OutboxTypeOK, QueueTypeOK,
           ActorTypeOK, HandlersOK, ConsumersOK, RecordedRuns, jobVars, resultVars,
           outboxVars, queueVars, engineVars
<1>5. ASSUME StartWorkflow(c) PROVE TypeInv'
  <2>1. workflow' \in [Revisions \X Runs -> WorkflowStage]
    BY <1>5 DEF StartWorkflow, ActorTypeOK, WorkflowTo, WorkflowStage
  <2>2. RecordedRuns'
    BY <1>5 DEF StartWorkflow, RecordedRuns, LedgerTypeOK, ActorTypeOK, WorkflowTo,
           resultVars, engineVars
  <2>3. ConsumersOK'
    BY <1>5, DeliveryMoves, DeliveryEnds DEF StartWorkflow, ConsumerStage
  <2> QED
    BY <1>5, <2>1, <2>2, <2>3 DEF StartWorkflow, LedgerTypeOK, OutboxTypeOK,
           QueueTypeOK, ActorTypeOK, HandlersOK, ConsumersOK, RecordedRuns, jobVars,
           resultVars, outboxVars, queueVars, engineVars
<1>6. ASSUME AckDelivery(c) PROVE TypeInv'
  <2>1. QueueTypeOK'
    BY <1>6 DEF AckDelivery, QueueTypeOK, ConsumersOK, Messages, Ack, Finish
  <2>2. ConsumersOK'
    BY <1>6, DeliveryMoves, DeliveryEnds DEF AckDelivery, ConsumerStage
  <2> QED
    BY <1>6, <2>1, <2>2 DEF AckDelivery, LedgerTypeOK, OutboxTypeOK, QueueTypeOK,
           ActorTypeOK, HandlersOK, ConsumersOK, RecordedRuns, jobVars, resultVars,
           outboxVars, queueVars, engineVars
<1>7. ASSUME RecordQueueRetry(c) PROVE TypeInv'
  <2>1. QueueTypeOK'
    BY <1>7 DEF RecordQueueRetry, QueueTypeOK, ConsumersOK, Messages, Ack, Finish
  <2>2. ConsumersOK'
    BY <1>7, DeliveryMoves, DeliveryEnds DEF RecordQueueRetry, ConsumerStage
  <2> QED
    BY <1>7, <2>1, <2>2 DEF RecordQueueRetry, LedgerTypeOK, OutboxTypeOK, QueueTypeOK,
           ActorTypeOK, HandlersOK, ConsumersOK, RecordedRuns, jobVars, resultVars,
           outboxVars, queueVars, engineVars
<1>8. ASSUME ConsumerCrash(c) PROVE TypeInv'
  <2>1. ConsumersOK'
    BY <1>8, DeliveryMoves, DeliveryEnds DEF ConsumerCrash, ConsumerStage
  <2> QED
    BY <1>8, <2>1 DEF ConsumerCrash, LedgerTypeOK, OutboxTypeOK, QueueTypeOK,
           ActorTypeOK, HandlersOK, ConsumersOK, RecordedRuns, jobVars, resultVars,
           outboxVars, queueVars, engineVars
<1> QED
  BY <1>1, <1>2, <1>3, <1>4, <1>5, <1>6, <1>7, <1>8 DEF ConsumerStep

\* The workflow.
LEMMA WorkflowStepTypes ==
    ASSUME TypeInv, NEW j \in Revisions, NEW r \in Runs,
           WorkflowStep(j, r) \/ PublishTimeout(j, r) \/ WorkflowReplay(j, r)
    PROVE  TypeInv'
<1> USE DEF TypeInv, TypeOK
<1>1. ASSUME WorkflowStart(j, r) PROVE TypeInv'
  <2>1. workflow' \in [Revisions \X Runs -> WorkflowStage]
    BY <1>1 DEF WorkflowStart, ActorTypeOK, WorkflowTo, WorkflowStage
  <2>2. RecordedRuns'
    BY <1>1 DEF WorkflowStart, RecordedRuns, LedgerTypeOK, ActorTypeOK, WorkflowTo,
           resultVars, engineVars
  <2> QED
    BY <1>1, <2>1, <2>2 DEF WorkflowStart, LedgerTypeOK, OutboxTypeOK, QueueTypeOK,
           ActorTypeOK, HandlersOK, ConsumersOK, RecordedRuns, jobVars, resultVars,
           outboxVars, queueVars, engineVars
<1>2. ASSUME WorkflowCancelled(j, r) PROVE TypeInv'
  <2>1. workflow' \in [Revisions \X Runs -> WorkflowStage]
    BY <1>2 DEF WorkflowCancelled, ActorTypeOK, WorkflowTo, WorkflowStage
  <2>2. RecordedRuns'
    BY <1>2 DEF WorkflowCancelled, RecordedRuns, LedgerTypeOK, ActorTypeOK, WorkflowTo,
           resultVars, engineVars
  <2> QED
    BY <1>2, <2>1, <2>2 DEF WorkflowCancelled, LedgerTypeOK, OutboxTypeOK, QueueTypeOK,
           ActorTypeOK, HandlersOK, ConsumersOK, RecordedRuns, jobVars, resultVars,
           outboxVars, queueVars, engineVars
<1>3. ASSUME StepFails(j, r) PROVE TypeInv'
  <2>1. workflow' \in [Revisions \X Runs -> WorkflowStage]
    BY <1>3 DEF StepFails, ActorTypeOK, WorkflowTo, WorkflowStage
  <2>2. RecordedRuns'
    BY <1>3 DEF StepFails, RecordedRuns, LedgerTypeOK, ActorTypeOK, WorkflowTo,
           resultVars, engineVars
  <2> QED
    BY <1>3, <2>1, <2>2 DEF StepFails, LedgerTypeOK, OutboxTypeOK, QueueTypeOK,
           ActorTypeOK, HandlersOK, ConsumersOK, RecordedRuns, jobVars, resultVars,
           outboxVars, queueVars, engineVars
<1>4. ASSUME BeginPublish(j, r) PROVE TypeInv'
  <2>1. workflow' \in [Revisions \X Runs -> WorkflowStage]
    BY <1>4 DEF BeginPublish, ActorTypeOK, WorkflowTo, WorkflowStage
  <2>2. RecordedRuns'
    BY <1>4 DEF BeginPublish, RecordedRuns, LedgerTypeOK, ActorTypeOK, WorkflowTo,
           resultVars, engineVars
  <2>3. publishing' \subseteq Revisions \X Runs
    BY <1>4 DEF BeginPublish, ActorTypeOK
  <2> QED
    BY <1>4, <2>1, <2>2, <2>3 DEF BeginPublish, LedgerTypeOK, OutboxTypeOK, QueueTypeOK,
           ActorTypeOK, HandlersOK, ConsumersOK, RecordedRuns, jobVars, resultVars,
           outboxVars, queueVars, engineVars
<1>5. ASSUME CommitPublish(j, r) PROVE TypeInv'
  <2>1. status' \in [Revisions -> JobStatus]
    BY <1>5 DEF CommitPublish, LedgerTypeOK, JobStatus, Terminal
  <2>2. RecordedRuns'
    BY <1>5 DEF CommitPublish, RecordedRuns, LedgerTypeOK, ActorTypeOK, WorkflowTo,
           resultVars, engineVars
  <2>3. outcome' \in [Revisions \X Runs -> Terminal \cup {"none"}]
    BY <1>5 DEF CommitPublish, LedgerTypeOK, Terminal
  <2>4. latest' \in 0..MaxRevision
    BY <1>5 DEF CommitPublish, LedgerTypeOK, Revisions
  <2>5. workflow' \in [Revisions \X Runs -> WorkflowStage]
    BY <1>5 DEF CommitPublish, ActorTypeOK, WorkflowTo, WorkflowStage
  <2>6. publishing' \subseteq Revisions \X Runs
    BY <1>5 DEF CommitPublish, ActorTypeOK
  <2> QED
    BY <1>5, <2>1, <2>2, <2>3, <2>4, <2>5, <2>6 DEF CommitPublish, LedgerTypeOK,
           OutboxTypeOK, QueueTypeOK, ActorTypeOK, HandlersOK, ConsumersOK,
           RecordedRuns, jobVars, resultVars, outboxVars, queueVars, engineVars
<1>6. ASSUME PublishTimeout(j, r) PROVE TypeInv'
  <2>1. workflow' \in [Revisions \X Runs -> WorkflowStage]
    BY <1>6 DEF PublishTimeout, ActorTypeOK, WorkflowTo, WorkflowStage
  <2>2. RecordedRuns'
    BY <1>6 DEF PublishTimeout, RecordedRuns, LedgerTypeOK, ActorTypeOK, WorkflowTo,
           resultVars, engineVars
  <2> QED
    BY <1>6, <2>1, <2>2 DEF PublishTimeout, LedgerTypeOK, OutboxTypeOK, QueueTypeOK,
           ActorTypeOK, HandlersOK, ConsumersOK, RecordedRuns, jobVars, resultVars,
           outboxVars, queueVars, engineVars
<1>7. ASSUME RecordOutcome(j, r) PROVE TypeInv'
  <2>1. outcome' \in [Revisions \X Runs -> Terminal \cup {"none"}]
    BY <1>7 DEF RecordOutcome, LedgerTypeOK, Terminal
  <2>2. RecordedRuns'
    BY <1>7 DEF RecordOutcome, RecordedRuns, LedgerTypeOK, ActorTypeOK, WorkflowTo,
           resultVars, engineVars
  <2>3. workflow' \in [Revisions \X Runs -> WorkflowStage]
    BY <1>7 DEF RecordOutcome, ActorTypeOK, WorkflowTo, WorkflowStage
  <2> QED
    BY <1>7, <2>1, <2>2, <2>3 DEF RecordOutcome, LedgerTypeOK, OutboxTypeOK,
           QueueTypeOK, ActorTypeOK, HandlersOK, ConsumersOK, RecordedRuns, jobVars,
           resultVars, outboxVars, queueVars, engineVars
<1>8. ASSUME FinishOutcome(j, r) PROVE TypeInv'
  <2>1. status' \in [Revisions -> JobStatus]
    <3>1. outcome[<<j, r>>] \in JobStatus \cup {"none"}
      BY DEF LedgerTypeOK, JobStatus
    <3>2. outcome[<<j, r>>] # "none"
      BY <1>8 DEF FinishOutcome, RecordedRuns
    <3> QED
      BY <1>8, <3>1, <3>2 DEF FinishOutcome, LedgerTypeOK
  <2>2. RecordedRuns'
    BY <1>8 DEF FinishOutcome, RecordedRuns, LedgerTypeOK, ActorTypeOK, WorkflowTo,
           resultVars, engineVars
  <2>3. workflow' \in [Revisions \X Runs -> WorkflowStage]
    BY <1>8 DEF FinishOutcome, ActorTypeOK, WorkflowTo, WorkflowStage
  <2> QED
    BY <1>8, <2>1, <2>2, <2>3 DEF FinishOutcome, LedgerTypeOK, OutboxTypeOK,
           QueueTypeOK, ActorTypeOK, HandlersOK, ConsumersOK, RecordedRuns, jobVars,
           resultVars, outboxVars, queueVars, engineVars
<1>9. ASSUME WorkflowReplay(j, r) PROVE TypeInv'
  <2>1. workflow' \in [Revisions \X Runs -> WorkflowStage]
    BY <1>9 DEF WorkflowReplay, ActorTypeOK, WorkflowTo, WorkflowStage
  <2>2. RecordedRuns'
    BY <1>9 DEF WorkflowReplay, RecordedRuns, LedgerTypeOK, ActorTypeOK, WorkflowTo,
           resultVars, engineVars
  <2> QED
    BY <1>9, <2>1, <2>2 DEF WorkflowReplay, LedgerTypeOK, OutboxTypeOK, QueueTypeOK,
           ActorTypeOK, HandlersOK, ConsumersOK, RecordedRuns, jobVars, resultVars,
           outboxVars, queueVars, engineVars
<1> QED
  BY <1>1, <1>2, <1>3, <1>4, <1>5, <1>6, <1>7, <1>8, <1>9 DEF WorkflowStep

\* Leases and back-offs ending.
LEMMA OutboxTimeTypes ==
    ASSUME TypeInv, NEW j \in Revisions, LeaseExpires(j) \/ BackoffElapses(j)
    PROVE  TypeInv'
  BY DEF LeaseExpires, BackoffElapses, TypeInv, TypeOK, LedgerTypeOK, OutboxTypeOK,
         QueueTypeOK, ActorTypeOK, HandlersOK, ConsumersOK, RecordedRuns, jobVars,
         resultVars, outboxVars, queueVars, engineVars

\* Messages leaving for the dead-letter queue.
LEMMA DeadLetterTypes ==
    ASSUME TypeInv, NEW m \in sent, DeadLetter(m)
    PROVE  TypeInv'
  BY DEF DeadLetter, TypeInv, TypeOK, LedgerTypeOK, OutboxTypeOK, QueueTypeOK, Messages,
         ActorTypeOK, HandlersOK, ConsumersOK, RecordedRuns, jobVars, resultVars,
         outboxVars, queueVars, engineVars

\* The initial state is typed.
LEMMA TypeInit == Init => TypeInv
<1> SUFFICES ASSUME Init PROVE TypeInv
  OBVIOUS
<1>1. LedgerTypeOK
  BY DEF Init, LedgerTypeOK, JobStatus, Runs
<1>2. OutboxTypeOK /\ QueueTypeOK
  BY DEF Init, OutboxTypeOK, QueueTypeOK
<1>3. Idle \in Invocation /\ Waiting \in Processing
  BY DEF Idle, Waiting, Invocation, Processing, HandlerStage, ConsumerStage, Runs
<1>4. HandlersOK /\ ConsumersOK /\ ActorTypeOK
  BY <1>3 DEF Init, HandlersOK, ConsumersOK, ActorTypeOK, WorkflowStage, Idle, Waiting
<1>5. RecordedRuns
  BY DEF Init, RecordedRuns
<1> QED
  BY <1>1, <1>2, <1>4, <1>5 DEF TypeInv, TypeOK

\* Every step preserves the types.
LEMMA TypeStep == TypeInv /\ [Next]_vars => TypeInv'
<1> SUFFICES ASSUME TypeInv, [Next]_vars PROVE TypeInv'
  OBVIOUS
<1>1. CASE \E h \in Handlers : Request(h) \/ HandlerStep(h) \/ HandlerCrash(h)
  BY <1>1, HandlerStepTypes
<1>2. CASE \E c \in Consumers : ConsumerStep(c) \/ ConsumerCrash(c)
  BY <1>2, ConsumerStepTypes
<1>3. CASE \E j \in Revisions, r \in Runs :
              WorkflowStep(j, r) \/ PublishTimeout(j, r) \/ WorkflowReplay(j, r)
  BY <1>3, WorkflowStepTypes
<1>4. CASE \E j \in Revisions : LeaseExpires(j) \/ BackoffElapses(j)
  BY <1>4, OutboxTimeTypes
<1>5. CASE \E m \in sent : DeadLetter(m)
  BY <1>5, DeadLetterTypes
<1>6. CASE UNCHANGED vars
  BY <1>6 DEF vars, TypeInv, TypeOK, LedgerTypeOK, OutboxTypeOK, QueueTypeOK, ActorTypeOK,
              HandlersOK, ConsumersOK, RecordedRuns, jobVars, resultVars, outboxVars,
              queueVars, engineVars
<1> QED
  BY <1>1, <1>2, <1>3, <1>4, <1>5, <1>6 DEF Next, Fault

\* Every variable of the pipeline stays within its type, whatever clients,
\* consumers, instances and failures do.
THEOREM TypesHold == Spec => []TypeOK
<1>1. TypeInv => TypeOK
  BY DEF TypeInv
<1> QED
  BY <1>1, TypeInit, TypeStep, PTL DEF Spec

----------------------------------------------------------------------------
(* The invariant.                                                          *)

\* Reserved numbers: each is in the hands of at most one invocation, and no
\* row bears it before that invocation inserts one.
FreshRevisions ==
    /\ \A j \in Revisions : j > nextRevision => status[j] = "absent"
    /\ \A h \in Handlers :
         handler[h].stage = "insert" =>
            handler[h].job <= nextRevision /\ status[handler[h].job] = "absent"
    /\ \A g, h \in Handlers :
         /\ handler[g].stage = "insert"
         /\ handler[h].stage = "insert"
         /\ handler[g].job = handler[h].job
         => g = h

\* An invocation acts on an existing job and on a run the job has reached, or
\* for a retry on at most the next one; one about to record a cancellation no
\* longer sees its run queued, and one that has recorded it owns the outcome.
InvocationLagsBehind(a) ==
    /\ a.stage \in {"reserve", "insert"} => a.run = 0
    /\ a.stage \notin {"idle", "reserve", "insert"} => status[a.job] # "absent"
    /\ a.stage \notin {"idle", "reserve", "insert", "retry"} => a.run <= run[a.job]
    /\ a.stage = "retry" => a.run \in 1..(run[a.job] + 1)
    /\ a.stage = "cancelRecord" /\ a.run = run[a.job] => status[a.job] # "queued"
    /\ a.stage = "cancelFinish" => outcome[<<a.job, a.run>>] = "cancelled"

\* A message names an existing job and a run it has reached.
MessageLagsBehind(m) == status[m.job] # "absent" /\ m.run <= run[m.job]

\* A consumer about to start a run's workflow has moved the job out of the queue.
DeliveryLagsBehind(p) ==
    LET m == p.message IN
    /\ p.stage # "idle" => m \in sent
    /\ p.stage = "start" /\ m.run = run[m.job] => status[m.job] # "queued"

\* Every run a job has reached was requeued once, so no second retry reaches it.
RunsWereRequeued ==
    \A j \in Revisions, r \in Runs : r \in 1..run[j] => <<j, r>> \in requeued

\* What the job's status, and the outcome, the instance and the publish batch
\* of its current run can be together.
Consistent(s, o, w, batch) ==
    /\ s = "succeeded" <=> o = "succeeded"
    /\ s = "failed" => o = "failed" /\ w # "recorded"
    /\ s = "cancelled" => o \in {"cancelled", "none"}
    /\ s \in {"absent", "queued"} => o = "none" /\ w = "none"
    /\ w = "recorded" => o \in {"failed", "cancelled"}
    /\ batch => w # "none"
    /\ s = "cancelled" /\ o = "none" => w \in {"none", "created", "done"} /\ ~batch

CurrentRun(j) ==
    Consistent(status[j], outcome[<<j, run[j]>>], workflow[<<j, run[j]>>],
               <<j, run[j]>> \in publishing)

PastRun(j, r) == outcome[<<j, r>>] = "failed" /\ workflow[<<j, r>>] # "recorded"

FutureRun(j, r) ==
    outcome[<<j, r>>] = "none" /\ workflow[<<j, r>>] = "none" /\ <<j, r>> \notin publishing

RunsInv ==
    /\ \A j \in Revisions : CurrentRun(j)
    /\ \A j \in Revisions, r \in Runs : r < run[j] => PastRun(j, r)
    /\ \A j \in Revisions, r \in Runs : r > run[j] => FutureRun(j, r)

IInv ==
    /\ TypeInv
    /\ FreshRevisions
    /\ \A h \in Handlers : InvocationLagsBehind(handler[h])
    /\ \A m \in sent : MessageLagsBehind(m)
    /\ \A c \in Consumers : DeliveryLagsBehind(consumer[c])
    /\ RunsWereRequeued
    /\ RunsInv

----------------------------------------------------------------------------
(* Steps of one run.                                                       *)

\* The step touches no run of no job but run r of job j, and j's status.
OnlyRun(j, r) ==
    /\ UNCHANGED <<run, requeued>>
    /\ \A i \in Revisions \ {j} : status'[i] = status[i]
    /\ \A i \in Revisions, n \in Runs : ~(i = j /\ n = r) =>
         /\ outcome'[<<i, n>>] = outcome[<<i, n>>]
         /\ workflow'[<<i, n>>] = workflow[<<i, n>>]
         /\ <<i, n>> \in publishing' <=> <<i, n>> \in publishing

\* The part of the types the following steps use.
LEMMA LedgerTypes ==
    ASSUME IInv
    PROVE  /\ status \in [Revisions -> JobStatus]
           /\ run \in [Revisions -> Runs]
           /\ outcome \in [Revisions \X Runs -> Terminal \cup {"none"}]
           /\ workflow \in [Revisions \X Runs -> WorkflowStage]
           /\ publishing \subseteq Revisions \X Runs
           /\ \A h \in Handlers : handler[h] \in Invocation
           /\ \A c \in Consumers : consumer[c] \in Processing
  BY DEF IInv, TypeInv, TypeOK, LedgerTypeOK, ActorTypeOK, HandlersOK, ConsumersOK

\* A step of a job's current run that leaves the run consistent is harmless.
LEMMA CurrentRunMoves ==
    ASSUME IInv, NEW j \in Revisions, OnlyRun(j, run[j]), CurrentRun(j)'
    PROVE  RunsInv'
<1>1. run \in [Revisions -> Runs] /\ run' = run
  BY LedgerTypes DEF OnlyRun
<1>2. ASSUME NEW i \in Revisions PROVE CurrentRun(i)'
  <2>1. CASE i = j
    BY <2>1
  <2>2. CASE i # j
    BY <1>1, <2>2 DEF IInv, RunsInv, CurrentRun, OnlyRun
  <2> QED
    BY <2>1, <2>2
<1>3. ASSUME NEW i \in Revisions, NEW n \in Runs, n # run[i]
      PROVE  /\ PastRun(i, n)' <=> PastRun(i, n)
             /\ FutureRun(i, n)' <=> FutureRun(i, n)
  BY <1>3 DEF OnlyRun, PastRun, FutureRun
<1>4. ASSUME NEW i \in Revisions, NEW n \in Runs
      PROVE  /\ n < run[i] => PastRun(i, n)'
             /\ n > run[i] => FutureRun(i, n)'
  BY <1>1, <1>3 DEF IInv, RunsInv, Runs
<1> QED
  BY <1>1, <1>2, <1>4 DEF RunsInv

\* So is one of a past run that leaves its failure and the status alone.
LEMMA PastRunMoves ==
    ASSUME IInv, NEW j \in Revisions, NEW r \in Runs, r < run[j],
           OnlyRun(j, r), status'[j] = status[j], PastRun(j, r)'
    PROVE  RunsInv'
<1>1. run \in [Revisions -> Runs] /\ run' = run
  BY LedgerTypes DEF OnlyRun
<1>2. ASSUME NEW i \in Revisions PROVE CurrentRun(i)'
  <2>1. run[i] \in Runs /\ ~(i = j /\ run[i] = r) /\ status'[i] = status[i]
    BY <1>1 DEF Runs, OnlyRun
  <2> QED
    BY <1>1, <2>1 DEF IInv, RunsInv, CurrentRun, OnlyRun
<1>3. ASSUME NEW i \in Revisions, NEW n \in Runs
      PROVE  /\ n < run[i] => PastRun(i, n)'
             /\ n > run[i] => FutureRun(i, n)'
  <2>1. CASE i = j /\ n = r
    BY <1>1, <2>1 DEF Runs
  <2>2. CASE ~(i = j /\ n = r)
    BY <2>2 DEF IInv, RunsInv, OnlyRun, PastRun, FutureRun
  <2> QED
    BY <2>1, <2>2
<1> QED
  BY <1>1, <1>2, <1>3 DEF RunsInv

\* A step of an instance, or of its publish batch, is one of the two.
LEMMA InstanceMoves ==
    ASSUME IInv, NEW j \in Revisions, NEW r \in Runs, OnlyRun(j, r),
           workflow[<<j, r>>] # "none" \/ <<j, r>> \in publishing,
           r = run[j] => CurrentRun(j)',
           r < run[j] => PastRun(j, r)' /\ status'[j] = status[j]
    PROVE  RunsInv'
<1>1. ~ (r > run[j])
  BY DEF IInv, RunsInv, FutureRun
<1>2. CASE r = run[j]
  BY <1>2, CurrentRunMoves
<1>3. CASE r < run[j]
  BY <1>3, PastRunMoves
<1> QED
  BY <1>1, <1>2, <1>3, LedgerTypes DEF Runs

\* Every step of a workflow instance, and of the engine under it.
LEMMA WorkflowStepRuns ==
    ASSUME IInv, NEW j \in Revisions, NEW r \in Runs,
           WorkflowStep(j, r) \/ PublishTimeout(j, r) \/ WorkflowReplay(j, r)
    PROVE  RunsInv'
<1> DEFINE x == <<j, r>>
<1>1. /\ status \in [Revisions -> JobStatus]
      /\ outcome \in [Revisions \X Runs -> Terminal \cup {"none"}]
      /\ workflow \in [Revisions \X Runs -> WorkflowStage]
      /\ publishing \subseteq Revisions \X Runs
      /\ run[j] \in Runs
  BY LedgerTypes
<1>2. CurrentRun(j) /\ (r < run[j] => PastRun(j, r))
  BY DEF IInv, RunsInv
<1>3. ASSUME WorkflowStart(j, r) \/ WorkflowReplay(j, r) PROVE RunsInv'
  <2>1. /\ OnlyRun(j, r) /\ workflow[x] # "none"
        /\ UNCHANGED <<status, run, outcome, publishing>>
    BY <1>1, <1>3 DEF WorkflowStart, WorkflowReplay, OnlyRun, WorkflowTo, jobVars, resultVars
  <2>2. r = run[j] => CurrentRun(j)'
    BY <1>1, <1>2, <1>3, <2>1
       DEF WorkflowStart, WorkflowReplay, CurrentRun, Consistent, WorkflowTo, Terminal
  <2>3. r < run[j] => PastRun(j, r)' /\ status'[j] = status[j]
    BY <1>1, <1>2, <1>3, <2>1 DEF WorkflowStart, WorkflowReplay, PastRun, WorkflowTo
  <2> QED
    BY <2>1, <2>2, <2>3, InstanceMoves
<1>4. ASSUME \/ WorkflowCancelled(j, r) \/ StepFails(j, r)
             \/ BeginPublish(j, r) \/ PublishTimeout(j, r)
      PROVE  RunsInv'
  <2>1. /\ OnlyRun(j, r) /\ workflow[x] \in {"live", "publishing"}
        /\ UNCHANGED <<status, run, outcome>>
        /\ workflow'[x] \in {"live", "failing", "cancelling", "publishing"}
    BY <1>1, <1>4
       DEF WorkflowCancelled, StepFails, BeginPublish, PublishTimeout, OnlyRun, WorkflowTo,
           jobVars, resultVars
  <2>2. r = run[j] => CurrentRun(j)'
    BY <1>2, <2>1 DEF CurrentRun, Consistent
  <2>3. r < run[j] => PastRun(j, r)' /\ status'[j] = status[j]
    BY <1>2, <2>1 DEF PastRun
  <2> QED
    BY <2>1, <2>2, <2>3, InstanceMoves
<1>5. ASSUME RecordOutcome(j, r) PROVE RunsInv'
  <2>1. OnlyRun(j, r) /\ workflow[x] # "none"
    BY <1>1, <1>5 DEF RecordOutcome, OnlyRun, WorkflowTo, jobVars
  <2>2. r = run[j] => CurrentRun(j)'
    BY <1>1, <1>2, <1>5, <2>1
       DEF RecordOutcome, CurrentRun, Consistent, WorkflowTo, OnlyRun, jobVars
  <2>3. r < run[j] => PastRun(j, r)' /\ status'[j] = status[j]
    BY <1>1, <1>2, <1>5 DEF RecordOutcome, PastRun, WorkflowTo, jobVars
  <2> QED
    BY <2>1, <2>2, <2>3, InstanceMoves
<1>6. ASSUME FinishOutcome(j, r) PROVE RunsInv'
  <2>1. OnlyRun(j, r) /\ workflow[x] # "none"
    BY <1>1, <1>6 DEF FinishOutcome, OnlyRun, WorkflowTo, resultVars
  <2>2. r = run[j] => CurrentRun(j)'
    BY <1>1, <1>2, <1>6, <2>1
       DEF FinishOutcome, CurrentRun, Consistent, WorkflowTo, OnlyRun, resultVars,
           JobStatus, Terminal
  <2>3. r < run[j] => PastRun(j, r)' /\ status'[j] = status[j]
    BY <1>1, <1>2, <1>6 DEF FinishOutcome, PastRun
  <2> QED
    BY <2>1, <2>2, <2>3, InstanceMoves
<1>7. ASSUME CommitPublish(j, r) PROVE RunsInv'
  <2>1. /\ OnlyRun(j, r) /\ x \in publishing /\ x \notin publishing'
        /\ workflow'[x] \in {workflow[x], "done", "live"}
        /\ workflow[x] = "none" => workflow'[x] = "none"
        /\ workflow'[x] = "recorded" => workflow[x] = "recorded"
    BY <1>1, <1>7 DEF CommitPublish, OnlyRun, WorkflowTo
  <2>2. CASE outcome[x] = "none"
    <3>1. r = run[j] => status[j] = "running" /\ workflow[x] # "none"
      BY <1>1, <1>2, <2>1, <2>2 DEF CurrentRun, Consistent, JobStatus, Terminal
    <3>2. r = run[j] => status'[j] = "succeeded" /\ outcome'[x] = "succeeded"
      BY <1>1, <1>7, <2>2, <3>1 DEF CommitPublish
    <3>3. r = run[j] => CurrentRun(j)'
      BY <1>2, <2>1, <2>2, <3>1, <3>2 DEF CurrentRun, Consistent, OnlyRun
    <3>4. ~ (r < run[j])
      BY <1>2, <2>2 DEF PastRun
    <3> QED
      BY <2>1, <3>3, <3>4, InstanceMoves
  <2>3. CASE outcome[x] # "none"
    <3>1. UNCHANGED <<status, outcome>>
      BY <1>7, <2>3 DEF CommitPublish
    <3>2. /\ x \in publishing => workflow[x] # "publishing" \/ workflow'[x] = "live"
          /\ workflow[x] # "publishing" => workflow'[x] = workflow[x]
      BY <1>1, <1>7, <2>3 DEF CommitPublish, WorkflowTo
    <3>3. r = run[j] => CurrentRun(j)'
      BY <1>2, <2>1, <2>3, <3>1, <3>2 DEF CurrentRun, Consistent, OnlyRun
    <3>4. r < run[j] => PastRun(j, r)' /\ status'[j] = status[j]
      BY <1>2, <2>1, <3>1 DEF PastRun
    <3> QED
      BY <2>1, <3>3, <3>4, InstanceMoves
  <2> QED
    BY <2>2, <2>3
<1> QED
  BY <1>3, <1>4, <1>5, <1>6, <1>7 DEF WorkflowStep

\* Requeues are only ever added.
LEMMA RequeuesKept ==
    ASSUME IInv, run' = run, requeued' = requeued
    PROVE  RunsWereRequeued'
  BY DEF IInv, RunsWereRequeued

\* The steps of a consumer: it moves a job out of the queue, or creates the
\* instance of a run the job has reached.
LEMMA ConsumerStepRuns ==
    ASSUME IInv, NEW c \in Consumers, ConsumerStep(c) \/ ConsumerCrash(c)
    PROVE  RunsInv'
<1> PICK m : m = consumer[c].message
  OBVIOUS
<1> DEFINE x == <<m.job, m.run>>
<1>1. /\ status \in [Revisions -> JobStatus]
      /\ outcome \in [Revisions \X Runs -> Terminal \cup {"none"}]
      /\ workflow \in [Revisions \X Runs -> WorkflowStage]
      /\ publishing \subseteq Revisions \X Runs
      /\ run \in [Revisions -> Runs]
  BY LedgerTypes
<1>2. consumer[c].stage # "idle" =>
         m.job \in Revisions /\ m.run \in Runs /\ MessageLagsBehind(m)
  BY DEF IInv, TypeInv, ConsumersOK, Messages, DeliveryLagsBehind
<1>3. ASSUME MarkRunning(c) PROVE RunsInv'
  <2>1. m.job \in Revisions /\ run[m.job] \in Runs /\ status[m.job] # "absent"
    BY <1>1, <1>2, <1>3 DEF MarkRunning, MessageLagsBehind
  <2>2. OnlyRun(m.job, run[m.job])
    BY <1>1, <1>3 DEF MarkRunning, OnlyRun, resultVars, engineVars
  <2>3. CurrentRun(m.job)
    BY <2>1 DEF IInv, RunsInv
  <2>4. CurrentRun(m.job)'
    BY <1>1, <1>3, <2>1, <2>3 DEF MarkRunning, CurrentRun, Consistent, resultVars, engineVars
  <2> QED
    BY <2>1, <2>2, <2>4, CurrentRunMoves
<1>4. ASSUME StartWorkflow(c) PROVE RunsInv'
  <2>1. /\ m.job \in Revisions /\ m.run \in Runs
        /\ status[m.job] # "absent" /\ m.run <= run[m.job]
        /\ m.run = run[m.job] => status[m.job] # "queued"
    BY <1>2, <1>4 DEF StartWorkflow, MessageLagsBehind, IInv, DeliveryLagsBehind
  <2>2. OnlyRun(m.job, m.run)
    BY <1>1, <1>4 DEF StartWorkflow, OnlyRun, jobVars, resultVars
  <2>3. UNCHANGED <<status, run, outcome, publishing>>
    BY <1>4 DEF StartWorkflow, jobVars, resultVars
  <2>4. \/ workflow'[x] = workflow[x]
        \/ workflow[x] = "none" /\ workflow'[x] = "created"
    BY <1>1, <1>4, <2>1 DEF StartWorkflow
  <2>5. CASE m.run = run[m.job]
    <3>1. CurrentRun(m.job)
      BY <2>1 DEF IInv, RunsInv
    <3>2. CurrentRun(m.job)'
      BY <2>1, <2>3, <2>4, <2>5, <3>1 DEF CurrentRun, Consistent
    <3> QED
      BY <2>1, <2>2, <2>5, <3>2, CurrentRunMoves
  <2>6. CASE m.run < run[m.job]
    <3>1. PastRun(m.job, m.run)
      BY <2>1, <2>6 DEF IInv, RunsInv
    <3>2. PastRun(m.job, m.run)'
      BY <2>3, <2>4, <3>1 DEF PastRun
    <3> QED
      BY <2>1, <2>2, <2>3, <2>6, <3>2, PastRunMoves
  <2>7. run[m.job] \in Runs
    BY <1>1, <2>1
  <2> QED
    BY <2>1, <2>5, <2>6, <2>7 DEF Runs
<1>5. UNCHANGED <<status, run, outcome, workflow, publishing>> => RunsInv'
  BY DEF IInv, RunsInv, CurrentRun, PastRun, FutureRun
<1>6. ASSUME NEW n \in sent, ReceiveMessage(c, n) PROVE RunsInv'
  BY <1>5, <1>6 DEF ReceiveMessage, jobVars, resultVars, engineVars
<1>7. ASSUME ClaimDelivery(c) \/ LoadJob(c) PROVE RunsInv'
  BY <1>5, <1>7 DEF ClaimDelivery, LoadJob, jobVars, resultVars, engineVars
<1>8. ASSUME AckDelivery(c) \/ RecordQueueRetry(c) \/ ConsumerCrash(c) PROVE RunsInv'
  BY <1>5, <1>8
     DEF AckDelivery, RecordQueueRetry, ConsumerCrash, jobVars, resultVars, engineVars
<1> QED
  BY <1>3, <1>4, <1>6, <1>7, <1>8 DEF ConsumerStep

\* The run a retry starts is the next one, and has not been touched.
LEMMA RetryStartsNextRun ==
    ASSUME IInv, NEW h \in Handlers, handler[h].stage = "retry",
           <<handler[h].job, handler[h].run>> \notin requeued
    PROVE  /\ handler[h].job \in Revisions
           /\ handler[h].run \in Runs
           /\ handler[h].run = run[handler[h].job] + 1
<1> DEFINE j == handler[h].job
           r == handler[h].run
<1>1. j \in Revisions /\ r \in Runs /\ run[j] \in Runs
  BY LedgerTypes DEF IInv, TypeInv, HandlersOK, Invocation
<1>2. r \in 1..(run[j] + 1)
  BY DEF IInv, InvocationLagsBehind
<1>3. r \notin 1..run[j]
  BY <1>1 DEF IInv, RunsWereRequeued
<1> QED
  BY <1>1, <1>2, <1>3 DEF Runs

\* The steps of an API invocation on the rows of a job.
LEMMA HandlerStepRuns ==
    ASSUME IInv, NEW h \in Handlers, Request(h) \/ HandlerStep(h) \/ HandlerCrash(h)
    PROVE  RunsInv' /\ RunsWereRequeued'
<1> PICK j, r : j = handler[h].job /\ r = handler[h].run
  OBVIOUS
<1>1. /\ status \in [Revisions -> JobStatus]
      /\ outcome \in [Revisions \X Runs -> Terminal \cup {"none"}]
      /\ workflow \in [Revisions \X Runs -> WorkflowStage]
      /\ publishing \subseteq Revisions \X Runs
      /\ run \in [Revisions -> Runs]
  BY LedgerTypes
<1>2. /\ r \in Runs
      /\ handler[h].stage \notin {"idle", "reserve"} => j \in Revisions
      /\ InvocationLagsBehind(handler[h])
  BY DEF IInv, TypeInv, HandlersOK, Invocation
<1>3. \A i \in Revisions : CurrentRun(i)
  BY DEF IInv, RunsInv
<1>4. ASSUME UNCHANGED <<status, run, requeued, outcome, workflow, publishing>>
      PROVE  RunsInv' /\ RunsWereRequeued'
  BY <1>4, RequeuesKept DEF IInv, RunsInv, CurrentRun, PastRun, FutureRun
<1>5. ASSUME j \in Revisions, OnlyRun(j, run[j]), CurrentRun(j)'
      PROVE  RunsInv' /\ RunsWereRequeued'
  BY <1>5, CurrentRunMoves, RequeuesKept DEF OnlyRun
<1>6. ASSUME InsertJob(h) PROVE RunsInv' /\ RunsWereRequeued'
  <2>1. j \in Revisions /\ status[j] = "absent"
    BY <1>2, <1>6 DEF InsertJob, IInv, FreshRevisions
  <2>2. CASE UNCHANGED status
    BY <1>4, <1>6, <2>2 DEF InsertJob, resultVars, engineVars
  <2>3. CASE status' = [status EXCEPT ![j] = "queued"]
    <3>1. OnlyRun(j, run[j])
      BY <1>1, <1>6, <2>3 DEF InsertJob, OnlyRun, resultVars, engineVars
    <3>2. CurrentRun(j)'
      BY <1>1, <1>3, <1>6, <2>1, <2>3
         DEF InsertJob, CurrentRun, Consistent, resultVars, engineVars
    <3> QED
      BY <1>5, <2>1, <3>1, <3>2
  <2> QED
    BY <1>6, <2>2, <2>3 DEF InsertJob
<1>7. ASSUME CancelQueued(h) PROVE RunsInv' /\ RunsWereRequeued'
  <2>1. j \in Revisions
    BY <1>2, <1>7 DEF CancelQueued
  <2>2. OnlyRun(j, run[j])
    BY <1>1, <1>7 DEF CancelQueued, OnlyRun, resultVars, engineVars
  <2>3. CurrentRun(j)'
    BY <1>1, <1>3, <1>7, <2>1 DEF CancelQueued, CurrentRun, Consistent, resultVars, engineVars
  <2> QED
    BY <1>5, <2>1, <2>2, <2>3
<1>8. ASSUME CancelRecord(h) PROVE RunsInv' /\ RunsWereRequeued'
  <2>1. /\ j \in Revisions /\ status[j] # "absent" /\ r <= run[j]
        /\ r = run[j] => status[j] # "queued"
    BY <1>2, <1>8 DEF CancelRecord, InvocationLagsBehind
  <2>2. CASE outcome[<<j, r>>] # "none"
    BY <1>4, <1>8, <2>2 DEF CancelRecord, jobVars, engineVars
  <2>3. CASE outcome[<<j, r>>] = "none"
    <3>1. r = run[j]
      <4>1. ~ (r < run[j])
        BY <1>2, <2>1, <2>3 DEF IInv, RunsInv, PastRun
      <4> QED
        BY <1>1, <1>2, <2>1, <4>1 DEF Runs
    <3>2. outcome' = [outcome EXCEPT ![<<j, r>>] = "cancelled"]
      BY <1>8, <2>3 DEF CancelRecord
    <3>3. OnlyRun(j, run[j])
      BY <1>1, <1>8, <3>1, <3>2 DEF CancelRecord, OnlyRun, jobVars, engineVars
    <3>4. CurrentRun(j)'
      BY <1>1, <1>3, <1>8, <2>1, <2>3, <3>1, <3>2
         DEF CancelRecord, CurrentRun, Consistent, jobVars, engineVars
    <3> QED
      BY <1>5, <2>1, <3>3, <3>4
  <2> QED
    BY <2>2, <2>3
<1>9. ASSUME CancelFinish(h) PROVE RunsInv' /\ RunsWereRequeued'
  <2>1. /\ j \in Revisions /\ status[j] # "absent" /\ r <= run[j]
        /\ outcome[<<j, r>>] = "cancelled"
    BY <1>2, <1>9 DEF CancelFinish, InvocationLagsBehind
  <2>2. r = run[j]
    <3>1. ~ (r < run[j]) /\ run[j] \in Runs
      BY <1>1, <1>2, <2>1 DEF IInv, RunsInv, PastRun
    <3> QED
      BY <1>2, <2>1, <3>1 DEF Runs
  <2>3. OnlyRun(j, run[j])
    BY <1>1, <1>9 DEF CancelFinish, OnlyRun, resultVars, engineVars
  <2>4. CurrentRun(j)'
    BY <1>1, <1>3, <1>9, <2>1, <2>2
       DEF CancelFinish, CurrentRun, Consistent, resultVars, engineVars
  <2> QED
    BY <1>5, <2>1, <2>3, <2>4
<1>10. ASSUME RetryCommit(h) PROVE RunsInv' /\ RunsWereRequeued'
  <2>1. CASE <<j, r>> \in requeued
    BY <1>4, <1>10, <2>1 DEF RetryCommit, resultVars, engineVars
  <2>2. CASE <<j, r>> \notin requeued /\ status[j] # "failed"
    <3>1. UNCHANGED <<outcome, workflow, publishing>> /\ status' = status /\ run' = run
      BY <1>1, <1>10, <2>2 DEF RetryCommit, resultVars, engineVars
    <3>2. RunsWereRequeued'
      BY <1>10, <3>1, <2>2 DEF RetryCommit, IInv, RunsWereRequeued
    <3> QED
      BY <3>1, <3>2 DEF IInv, RunsInv, CurrentRun, PastRun, FutureRun
  <2>3. CASE <<j, r>> \notin requeued /\ status[j] = "failed"
    <3>1. j \in Revisions /\ r = run[j] + 1
      BY <1>10, <2>3, RetryStartsNextRun DEF RetryCommit
    <3>2. /\ UNCHANGED <<outcome, workflow, publishing>>
          /\ status' = [status EXCEPT ![j] = "queued"]
          /\ run' = [run EXCEPT ![j] = r]
          /\ requeued' = requeued \cup {<<j, r>>}
      BY <1>10, <2>3 DEF RetryCommit, resultVars, engineVars
    <3>3. RunsWereRequeued'
      BY <1>1, <1>2, <3>1, <3>2 DEF IInv, RunsWereRequeued, Runs
    <3>4. PastRun(j, run[j])
      BY <1>3, <2>3, <3>1 DEF CurrentRun, Consistent, PastRun
    <3>5. FutureRun(j, r)
      BY <1>1, <1>2, <3>1 DEF IInv, RunsInv, Runs
    <3>6. ASSUME NEW i \in Revisions PROVE CurrentRun(i)'
      BY <1>1, <1>3, <3>2, <3>5 DEF CurrentRun, Consistent, FutureRun
    <3>7. ASSUME NEW i \in Revisions, NEW n \in Runs, n < run'[i] PROVE PastRun(i, n)'
      <4>1. n < run[i] \/ (i = j /\ n = run[j])
        <5>1. run[i] \in Runs /\ run[j] \in Runs
          BY <1>1, <3>1
        <5>2. run'[i] = IF i = j THEN run[j] + 1 ELSE run[i]
          BY <1>1, <3>1, <3>2
        <5> QED
          BY <3>7, <5>1, <5>2 DEF Runs
      <4>2. PastRun(i, n)
        BY <3>4, <4>1 DEF IInv, RunsInv
      <4> QED
        BY <3>2, <4>2 DEF PastRun
    <3>8. ASSUME NEW i \in Revisions, NEW n \in Runs, n > run'[i] PROVE FutureRun(i, n)'
      <4>1. n > run[i]
        BY <1>1, <3>1, <3>2, <3>8 DEF Runs
      <4>2. FutureRun(i, n)
        BY <4>1 DEF IInv, RunsInv
      <4> QED
        BY <3>2, <4>2 DEF FutureRun
    <3> QED
      BY <3>3, <3>6, <3>7, <3>8 DEF RunsInv
  <2> QED
    BY <2>1, <2>2, <2>3
<1>11. ASSUME NEW e \in Events, AcceptLookup(h, e) PROVE RunsInv' /\ RunsWereRequeued'
  BY <1>4, <1>11 DEF AcceptLookup, jobVars, resultVars, engineVars
<1>12. ASSUME NEW i \in Revisions, CancelRead(h, i) \/ RetryRead(h, i)
       PROVE  RunsInv' /\ RunsWereRequeued'
  BY <1>4, <1>12 DEF CancelRead, RetryRead, jobVars, resultVars, engineVars
<1>13. ASSUME \/ ReserveRevision(h) \/ ClaimDispatch(h) \/ SendQueue(h)
              \/ MarkDispatchSent(h) \/ MarkDispatchPending(h) \/ Reply(h)
              \/ CancelRunning(h) \/ HandlerCrash(h)
       PROVE  RunsInv' /\ RunsWereRequeued'
  BY <1>4, <1>13
     DEF ReserveRevision, ClaimDispatch, SendQueue, MarkDispatchSent, MarkDispatchPending,
         Reply, CancelRunning, HandlerCrash, jobVars, resultVars, engineVars
<1> QED
  BY <1>6, <1>7, <1>8, <1>9, <1>10, <1>11, <1>12, <1>13 DEF Request, HandlerStep

----------------------------------------------------------------------------
(* What no step ever undoes.                                               *)

\* A row, once there, stays; a job's runs only grow; a run that has left the
\* queue does not return to it; an outcome is kept.
Advances ==
    \A j \in Revisions :
        /\ status[j] # "absent" => status'[j] # "absent"
        /\ run[j] <= run'[j]
        /\ run'[j] = run[j] /\ status'[j] = "queued" => status[j] \in {"absent", "queued"}
        /\ \A r \in Runs : outcome[<<j, r>>] # "none" =>
                              outcome'[<<j, r>>] = outcome[<<j, r>>]

\* No step but the insertion of a job gives a free number a row.
NoNewRow == \A j \in Revisions : status[j] = "absent" => status'[j] = "absent"

\* A step that touches no status, run or outcome takes nothing back.
LEMMA NothingMoves ==
    ASSUME IInv, UNCHANGED <<status, run, outcome>>
    PROVE  Advances /\ NoNewRow
<1>1. \A j \in Revisions : run[j] \in Int
  BY LedgerTypes DEF Runs
<1> QED
  BY <1>1 DEF Advances, NoNewRow

\* Instances, the engine under them and their batches take nothing back.
LEMMA WorkflowStepAdvances ==
    ASSUME IInv, NEW j \in Revisions, NEW r \in Runs,
           WorkflowStep(j, r) \/ PublishTimeout(j, r) \/ WorkflowReplay(j, r)
    PROVE  Advances /\ NoNewRow
<1>1. /\ status \in [Revisions -> JobStatus]
      /\ outcome \in [Revisions \X Runs -> Terminal \cup {"none"}]
      /\ \A i \in Revisions : run[i] \in Int
      /\ run[j] \in Runs
  BY LedgerTypes DEF Runs
<1>2. ASSUME workflow[<<j, r>>] = "recorded" PROVE status[j] \notin {"absent", "queued"}
  <2>1. r = run[j]
    <3>1. ~ (r < run[j]) /\ ~ (r > run[j])
      BY <1>2 DEF IInv, RunsInv, PastRun, FutureRun
    <3> QED
      BY <1>1, <3>1 DEF Runs
  <2> QED
    BY <1>2, <2>1 DEF IInv, RunsInv, CurrentRun, Consistent
<1>3. ASSUME CommitPublish(j, r) PROVE Advances /\ NoNewRow
  BY <1>1, <1>3 DEF CommitPublish, Advances, NoNewRow
<1>4. ASSUME RecordOutcome(j, r) PROVE Advances /\ NoNewRow
  BY <1>1, <1>4 DEF RecordOutcome, jobVars, Advances, NoNewRow
<1>5. ASSUME FinishOutcome(j, r) PROVE Advances /\ NoNewRow
  <2>1. outcome[<<j, r>>] \in Terminal
    BY <1>1, <1>5 DEF FinishOutcome, IInv, TypeInv, RecordedRuns
  <2>2. run' = run /\ outcome' = outcome
    BY <1>5 DEF FinishOutcome, resultVars
  <2>3. status' = [status EXCEPT ![j] = outcome[<<j, r>>]]
    BY <1>5 DEF FinishOutcome
  <2>4. status[j] # "absent"
    BY <1>2, <1>5 DEF FinishOutcome
  <2> QED
    BY <1>1, <2>1, <2>2, <2>3, <2>4 DEF Advances, NoNewRow, Terminal
<1>6. ASSUME \/ WorkflowStart(j, r) \/ WorkflowCancelled(j, r) \/ StepFails(j, r)
             \/ BeginPublish(j, r) \/ PublishTimeout(j, r) \/ WorkflowReplay(j, r)
      PROVE  Advances /\ NoNewRow
  BY <1>6, NothingMoves
     DEF WorkflowStart, WorkflowCancelled, StepFails, BeginPublish, PublishTimeout,
         WorkflowReplay, jobVars, resultVars
<1> QED
  BY <1>3, <1>4, <1>5, <1>6 DEF WorkflowStep

\* Queue consumers take nothing back.
LEMMA ConsumerStepAdvances ==
    ASSUME IInv, NEW c \in Consumers, ConsumerStep(c) \/ ConsumerCrash(c)
    PROVE  Advances /\ NoNewRow
<1>1. ASSUME MarkRunning(c) PROVE Advances /\ NoNewRow
  <2>1. status \in [Revisions -> JobStatus] /\ \A i \in Revisions : run[i] \in Int
    BY LedgerTypes DEF Runs
  <2> QED
    BY <1>1, <2>1 DEF MarkRunning, resultVars, Advances, NoNewRow
<1>2. ASSUME NEW n \in sent, ReceiveMessage(c, n) PROVE Advances /\ NoNewRow
  BY <1>2, NothingMoves DEF ReceiveMessage, jobVars, resultVars
<1>3. ASSUME \/ ClaimDelivery(c) \/ LoadJob(c) \/ StartWorkflow(c) \/ AckDelivery(c)
             \/ RecordQueueRetry(c) \/ ConsumerCrash(c)
      PROVE  Advances /\ NoNewRow
  BY <1>3, NothingMoves
     DEF ClaimDelivery, LoadJob, StartWorkflow, AckDelivery, RecordQueueRetry,
         ConsumerCrash, jobVars, resultVars
<1> QED
  BY <1>1, <1>2, <1>3 DEF ConsumerStep

\* API invocations take nothing back, and only InsertJob adds a row.
LEMMA HandlerStepAdvances ==
    ASSUME IInv, NEW h \in Handlers, Request(h) \/ HandlerStep(h) \/ HandlerCrash(h)
    PROVE  Advances /\ (InsertJob(h) \/ NoNewRow)
<1> PICK j, r : j = handler[h].job /\ r = handler[h].run
  OBVIOUS
<1>1. /\ status \in [Revisions -> JobStatus]
      /\ outcome \in [Revisions \X Runs -> Terminal \cup {"none"}]
      /\ run \in [Revisions -> Runs]
      /\ \A i \in Revisions : run[i] \in Int
  BY LedgerTypes DEF Runs
<1>2. handler[h].stage \notin {"idle", "reserve"} => j \in Revisions
  BY DEF IInv, TypeInv, HandlersOK
<1>3. ASSUME InsertJob(h) PROVE Advances
  <2>1. j \in Revisions /\ status[j] = "absent"
    BY <1>2, <1>3 DEF InsertJob, IInv, FreshRevisions
  <2> QED
    BY <1>1, <1>3, <2>1 DEF InsertJob, resultVars, Advances
<1>4. ASSUME CancelQueued(h) PROVE Advances /\ NoNewRow
  BY <1>1, <1>4 DEF CancelQueued, resultVars, Advances, NoNewRow
<1>5. ASSUME CancelRecord(h) PROVE Advances /\ NoNewRow
  BY <1>1, <1>5 DEF CancelRecord, jobVars, Advances, NoNewRow
<1>6. ASSUME CancelFinish(h) PROVE Advances /\ NoNewRow
  <2>1. j \in Revisions /\ status[j] # "absent"
    BY <1>2, <1>6 DEF CancelFinish, IInv, InvocationLagsBehind
  <2> QED
    BY <1>1, <1>6, <2>1 DEF CancelFinish, resultVars, Advances, NoNewRow
<1>7. ASSUME RetryCommit(h) PROVE Advances /\ NoNewRow
  <2>1. CASE <<j, r>> \in requeued \/ status[j] # "failed"
    <3>1. status' = status /\ run' = run /\ outcome' = outcome
      BY <1>1, <1>7, <2>1 DEF RetryCommit, resultVars
    <3> QED
      BY <3>1, NothingMoves
  <2>2. CASE <<j, r>> \notin requeued /\ status[j] = "failed"
    <3>1. j \in Revisions /\ r = run[j] + 1
      BY <1>7, <2>2, RetryStartsNextRun DEF RetryCommit
    <3>2. /\ status' = [status EXCEPT ![j] = "queued"]
          /\ run' = [run EXCEPT ![j] = r]
          /\ outcome' = outcome
      BY <1>7, <2>2 DEF RetryCommit, resultVars
    <3> QED
      BY <1>1, <2>2, <3>1, <3>2 DEF Advances, NoNewRow
  <2> QED
    BY <2>1, <2>2
<1>8. ASSUME NEW e \in Events, AcceptLookup(h, e) PROVE Advances /\ NoNewRow
  BY <1>8, NothingMoves DEF AcceptLookup, jobVars, resultVars
<1>9. ASSUME NEW i \in Revisions, CancelRead(h, i) \/ RetryRead(h, i)
      PROVE  Advances /\ NoNewRow
  BY <1>9, NothingMoves DEF CancelRead, RetryRead, jobVars, resultVars
<1>10. ASSUME \/ ReserveRevision(h) \/ ClaimDispatch(h) \/ SendQueue(h)
              \/ MarkDispatchSent(h) \/ MarkDispatchPending(h) \/ Reply(h)
              \/ CancelRunning(h) \/ HandlerCrash(h)
       PROVE  Advances /\ NoNewRow
  BY <1>10, NothingMoves
     DEF ReserveRevision, ClaimDispatch, SendQueue, MarkDispatchSent, MarkDispatchPending,
         Reply, CancelRunning, HandlerCrash, jobVars, resultVars
<1> QED
  BY <1>3, <1>4, <1>5, <1>6, <1>7, <1>8, <1>9, <1>10 DEF Request, HandlerStep

----------------------------------------------------------------------------
(* Actors keep lagging behind.                                             *)

\* Whatever an invocation is about to do stays as possible as it was.
LEMMA InvocationStaysBehind ==
    ASSUME IInv, TypeInv', Advances, NEW a \in Invocation,
           a.stage \notin {"idle", "reserve"} => a.job \in Revisions,
           InvocationLagsBehind(a)
    PROVE  InvocationLagsBehind(a)'
<1>1. /\ a.run \in Int
      /\ \A j \in Revisions : run[j] \in Int /\ run'[j] \in Int
  BY LedgerTypes DEF TypeInv, TypeOK, LedgerTypeOK, Runs, Invocation
<1>2. CASE a.stage \in {"idle", "reserve"}
  BY <1>2 DEF InvocationLagsBehind
<1>3. CASE a.stage \notin {"idle", "reserve"}
  <2>1. a.job \in Revisions /\ run[a.job] \in Int /\ run'[a.job] \in Int
    BY <1>1, <1>3
  <2>2. run[a.job] <= run'[a.job]
    BY <2>1 DEF Advances
  <2>3. a.stage \notin {"idle", "reserve", "insert"} => status'[a.job] # "absent"
    BY <2>1 DEF InvocationLagsBehind, Advances
  <2>4. a.stage \notin {"idle", "reserve", "insert", "retry"} => a.run <= run'[a.job]
    BY <1>1, <2>1, <2>2 DEF InvocationLagsBehind
  <2>5. a.stage = "retry" => a.run \in 1..(run'[a.job] + 1)
    BY <1>1, <2>1, <2>2 DEF InvocationLagsBehind
  <2>6. a.stage = "cancelRecord" /\ a.run = run'[a.job] => status'[a.job] # "queued"
    <3>1. SUFFICES ASSUME a.stage = "cancelRecord", a.run = run'[a.job]
                   PROVE  status'[a.job] # "queued"
      OBVIOUS
    <3>2. run'[a.job] = run[a.job]
      BY <1>1, <2>1, <2>2, <3>1 DEF InvocationLagsBehind
    <3> QED
      BY <2>1, <3>1, <3>2 DEF InvocationLagsBehind, Advances
  <2>7. a.stage = "cancelFinish" => outcome'[<<a.job, a.run>>] = "cancelled"
    BY <2>1 DEF InvocationLagsBehind, Advances, Invocation
  <2> QED
    BY <1>3, <2>3, <2>4, <2>5, <2>6, <2>7 DEF InvocationLagsBehind
<1> QED
  BY <1>2, <1>3

\* An invocation's next step acts on a job and a run that are there by then.
LEMMA InvocationMovesBehind ==
    ASSUME IInv, TypeInv', Advances, NEW h \in Handlers,
           Request(h) \/ HandlerStep(h) \/ HandlerCrash(h)
    PROVE  InvocationLagsBehind(handler[h])'
<1> PICK a : a = handler[h]
  OBVIOUS
<1>1. /\ a \in Invocation
      /\ a.stage \notin {"idle", "reserve"} => a.job \in Revisions
      /\ InvocationLagsBehind(a)
      /\ handler \in [Handlers -> Invocation]
  BY DEF IInv, TypeInv, HandlersOK
<1>2. ASSUME NEW b \in Invocation, handler' = [handler EXCEPT ![h] = b],
             b.stage \notin {"idle", "reserve"} => b.job \in Revisions,
             InvocationLagsBehind(b)
      PROVE  InvocationLagsBehind(handler[h])'
  <2>1. InvocationLagsBehind(b)' /\ handler'[h] = b
    BY <1>1, <1>2, InvocationStaysBehind
  <2> QED
    BY <2>1 DEF InvocationLagsBehind
<1>3. ASSUME Return(h) PROVE InvocationLagsBehind(handler[h])'
  <2>1. handler'[h] = Idle
    BY <1>1, <1>3 DEF Return
  <2> QED
    BY <2>1 DEF Idle, InvocationLagsBehind
<1>4. ASSUME a.stage \notin {"idle", "reserve", "insert", "retry"},
             NEW s \in {"send", "reply", "markSent", "markPending"}, GoTo(h, s)
      PROVE  InvocationLagsBehind(handler[h])'
  <2> DEFINE b == [a EXCEPT !.stage = s]
  <2>1. handler' = [handler EXCEPT ![h] = b]
    BY <1>4 DEF GoTo
  <2>2. b \in Invocation /\ b.job = a.job /\ b.run = a.run /\ b.stage = s
    BY <1>1 DEF Invocation, HandlerStage
  <2>3. InvocationLagsBehind(b)
    BY <1>1, <1>4, <2>2 DEF InvocationLagsBehind
  <2> HIDE DEF b
  <2> QED
    BY <1>1, <1>2, <1>4, <2>1, <2>2, <2>3
<1>5. \A j \in Revisions : run[j] \in Runs /\ run'[j] \in Runs
  BY LedgerTypes DEF TypeInv, TypeOK, LedgerTypeOK
<1>6. ASSUME NEW e \in Events, AcceptLookup(h, e) PROVE InvocationLagsBehind(handler[h])'
  <2>1. CASE handler' = [handler EXCEPT ![h] =
                            [stage |-> "reserve", event |-> e, job |-> 0, run |-> 0]]
    BY <1>1, <2>1 DEF InvocationLagsBehind
  <2>2. ASSUME NEW j \in JobRows,
               handler' = [handler EXCEPT ![h] =
                              [stage |-> "claim", event |-> e, job |-> j, run |-> run[j]]]
        PROVE  InvocationLagsBehind(handler[h])'
    <3> DEFINE b == [stage |-> "claim", event |-> e, job |-> j, run |-> run[j]]
    <3>1. j \in Revisions /\ status[j] # "absent" /\ run[j] \in Runs
      BY <1>5 DEF JobRows
    <3>2. run[j] <= run[j]
      BY <3>1 DEF Runs
    <3>3. b \in Invocation
      BY <3>1 DEF Invocation, HandlerStage, Revisions
    <3>4. InvocationLagsBehind(b)
      BY <3>1, <3>2 DEF InvocationLagsBehind
    <3> QED
      BY <1>2, <2>2, <3>1, <3>3, <3>4
  <2> QED
    BY <1>6, <2>1, <2>2 DEF AcceptLookup, Existing
<1>7. ASSUME ReserveRevision(h) PROVE InvocationLagsBehind(handler[h])'
  <2>1. handler'[h].stage = "insert" /\ handler'[h].run = a.run /\ a.stage = "reserve"
    BY <1>1, <1>7 DEF ReserveRevision, Invocation
  <2> QED
    BY <1>1, <2>1 DEF InvocationLagsBehind
<1>8. ASSUME InsertJob(h) PROVE InvocationLagsBehind(handler[h])'
  <2>1. a.stage = "insert" /\ a.job \in Revisions /\ a.run = 0
    BY <1>1, <1>8 DEF InsertJob, InvocationLagsBehind
  <2>2. CASE status' = [status EXCEPT ![a.job] = "queued"] /\ GoTo(h, "claim")
    <3>1. /\ handler'[h].stage = "claim" /\ handler'[h].job = a.job
          /\ handler'[h].run = a.run
      BY <1>1, <2>2 DEF GoTo, Invocation
    <3>2. status'[a.job] = "queued" /\ 0 <= run'[a.job]
      BY <1>5, <2>1, <2>2, LedgerTypes DEF Runs
    <3> QED
      BY <2>1, <3>1, <3>2 DEF InvocationLagsBehind
  <2>3. ASSUME NEW j \in JobRows,
               handler' = [handler EXCEPT ![h] =
                  [stage |-> "claim", event |-> a.event, job |-> j, run |-> run[j]]]
        PROVE  InvocationLagsBehind(handler[h])'
    <3> DEFINE b == [stage |-> "claim", event |-> a.event, job |-> j, run |-> run[j]]
    <3>1. j \in Revisions /\ status[j] # "absent" /\ run[j] \in Runs
      BY <1>5 DEF JobRows
    <3>2. run[j] <= run[j]
      BY <3>1 DEF Runs
    <3>3. b \in Invocation
      BY <1>1, <3>1 DEF Invocation, HandlerStage, Revisions
    <3>4. InvocationLagsBehind(b)
      BY <3>1, <3>2 DEF InvocationLagsBehind
    <3> QED
      BY <1>2, <2>3, <3>1, <3>3, <3>4
  <2> QED
    BY <1>3, <1>8, <2>2, <2>3 DEF InsertJob, Existing
<1>9. ASSUME ClaimDispatch(h) PROVE InvocationLagsBehind(handler[h])'
  BY <1>4, <1>9 DEF ClaimDispatch
<1>10. ASSUME SendQueue(h) PROVE InvocationLagsBehind(handler[h])'
  BY <1>4, <1>10 DEF SendQueue
<1>11. ASSUME MarkDispatchSent(h) PROVE InvocationLagsBehind(handler[h])'
  BY <1>4, <1>11 DEF MarkDispatchSent
<1>12. ASSUME MarkDispatchPending(h) \/ Reply(h) \/ CancelFinish(h)
              \/ CancelRunning(h) \/ HandlerCrash(h)
       PROVE  InvocationLagsBehind(handler[h])'
  BY <1>3, <1>12 DEF MarkDispatchPending, Reply, CancelFinish, CancelRunning, HandlerCrash
<1>13. ASSUME CancelQueued(h) PROVE InvocationLagsBehind(handler[h])'
  <2>1. a.stage = "cancelQueued" /\ a.job \in Revisions
    BY <1>1, <1>13 DEF CancelQueued
  <2>2. /\ handler'[h].stage = "cancelRecord" /\ handler'[h].job = a.job
        /\ handler'[h].run = a.run
    BY <1>1, <1>13 DEF CancelQueued, GoTo, Invocation
  <2>3. status'[a.job] \notin {"absent", "queued"} /\ run' = run
    BY <1>1, <1>13, <2>1, LedgerTypes DEF CancelQueued, InvocationLagsBehind
  <2>4. a.run <= run[a.job]
    BY <1>1, <2>1 DEF InvocationLagsBehind
  <2> QED
    BY <2>2, <2>3, <2>4 DEF InvocationLagsBehind
<1>14. ASSUME CancelRecord(h) PROVE InvocationLagsBehind(handler[h])'
  <2>1. CASE outcome[<<a.job, a.run>>] = "none"
    <3>1. a.stage = "cancelRecord" /\ a.job \in Revisions /\ a.run \in Runs
      BY <1>1, <1>14 DEF CancelRecord, Invocation
    <3>2. /\ handler'[h].stage = "cancelFinish" /\ handler'[h].job = a.job
          /\ handler'[h].run = a.run
      BY <1>1, <1>14, <2>1 DEF CancelRecord, GoTo, Invocation
    <3>3. /\ outcome'[<<a.job, a.run>>] = "cancelled"
          /\ status' = status /\ run' = run
      BY <1>14, <2>1, <3>1, LedgerTypes DEF CancelRecord, jobVars
    <3>4. status[a.job] # "absent" /\ a.run <= run[a.job]
      BY <1>1, <3>1 DEF InvocationLagsBehind
    <3> QED
      BY <3>2, <3>3, <3>4 DEF InvocationLagsBehind
  <2>2. CASE outcome[<<a.job, a.run>>] # "none"
    BY <1>3, <1>14, <2>2 DEF CancelRecord
  <2> QED
    BY <2>1, <2>2
<1>15. ASSUME NEW j \in Revisions, CancelRead(h, j) PROVE InvocationLagsBehind(handler[h])'
  <2>1. ASSUME NEW s \in {"cancelQueued", "cancelRunning"},
               handler' = [handler EXCEPT ![h] =
                  [stage |-> s, event |-> None, job |-> j, run |-> run[j]]]
        PROVE  InvocationLagsBehind(handler[h])'
    <3> DEFINE b == [stage |-> s, event |-> None, job |-> j, run |-> run[j]]
    <3>1. status[j] # "absent" /\ run[j] \in Runs /\ run[j] <= run[j]
      BY <1>5, <1>15 DEF CancelRead, Runs
    <3>2. b \in Invocation
      BY <3>1 DEF Invocation, HandlerStage, Revisions
    <3>3. InvocationLagsBehind(b)
      BY <3>1 DEF InvocationLagsBehind
    <3> QED
      BY <1>2, <2>1, <3>2, <3>3
  <2> QED
    BY <1>15, <2>1 DEF CancelRead
<1>16. ASSUME NEW j \in Revisions, RetryRead(h, j) PROVE InvocationLagsBehind(handler[h])'
  <2>1. status[j] # "absent" /\ run[j] \in Runs /\ run[j] < MaxRun
    BY <1>5, <1>16 DEF RetryRead
  <2>2. run[j] + 1 \in Runs /\ run[j] + 1 \in 1..(run[j] + 1)
    BY <2>1 DEF Runs
  <2> DEFINE b == [stage |-> "retry", event |-> None, job |-> j, run |-> run[j] + 1]
  <2>3. b \in Invocation
    BY <2>2 DEF Invocation, HandlerStage, Revisions
  <2>4. InvocationLagsBehind(b)
    BY <2>1, <2>2 DEF InvocationLagsBehind
  <2>5. handler' = [handler EXCEPT ![h] = b]
    BY <1>16 DEF RetryRead
  <2> QED
    BY <1>2, <2>3, <2>4, <2>5
<1>17. ASSUME RetryCommit(h) PROVE InvocationLagsBehind(handler[h])'
  <2>1. CASE <<a.job, a.run>> \in requeued \/ status[a.job] # "failed"
    BY <1>3, <1>17, <2>1 DEF RetryCommit
  <2>2. CASE <<a.job, a.run>> \notin requeued /\ status[a.job] = "failed"
    <3>1. a.job \in Revisions /\ a.run \in Runs
      BY <1>17, <2>2, RetryStartsNextRun DEF RetryCommit
    <3>2. /\ handler'[h].stage = "claim" /\ handler'[h].job = a.job
          /\ handler'[h].run = a.run
      BY <1>1, <1>17, <2>2 DEF RetryCommit, GoTo, Invocation
    <3>3. status'[a.job] = "queued" /\ run'[a.job] = a.run
      BY <1>17, <2>2, <3>1, LedgerTypes DEF RetryCommit
    <3>4. a.run <= a.run
      BY <3>1 DEF Runs
    <3> QED
      BY <3>2, <3>3, <3>4 DEF InvocationLagsBehind
  <2> QED
    BY <2>1, <2>2
<1> QED
  BY <1>6, <1>7, <1>8, <1>9, <1>10, <1>11, <1>12, <1>13, <1>14, <1>15, <1>16, <1>17
     DEF Request, HandlerStep

\* Whatever a consumer is about to do stays as possible as it was.
LEMMA DeliveryStaysBehind ==
    ASSUME IInv, TypeInv', Advances, sent \subseteq sent', NEW p \in Processing,
           p.stage # "idle" => p.message \in Messages,
           DeliveryLagsBehind(p)
    PROVE  DeliveryLagsBehind(p)'
<1>1. CASE p.stage = "idle"
  BY <1>1 DEF DeliveryLagsBehind
<1>2. CASE p.stage # "idle"
  <2> DEFINE m == p.message
  <2>1. m \in sent /\ m.job \in Revisions /\ m.run \in Int
    BY <1>2 DEF DeliveryLagsBehind, Messages, Runs
  <2>2. run[m.job] \in Int /\ run'[m.job] \in Int /\ run[m.job] <= run'[m.job]
    BY <2>1, LedgerTypes DEF TypeInv, TypeOK, LedgerTypeOK, Runs, Advances
  <2>3. m.run <= run[m.job]
    BY <2>1 DEF IInv, MessageLagsBehind
  <2>4. ASSUME p.stage = "start", m.run = run'[m.job] PROVE status'[m.job] # "queued"
    <3>1. m.run = run[m.job] /\ run'[m.job] = run[m.job]
      BY <2>1, <2>2, <2>3, <2>4
    <3>2. status[m.job] \notin {"absent", "queued"}
      BY <2>1, <2>4, <3>1 DEF DeliveryLagsBehind, IInv, MessageLagsBehind
    <3> QED
      BY <2>1, <3>1, <3>2 DEF Advances
  <2>5. m \in sent'
    BY <2>1
  <2> QED
    BY <2>4, <2>5 DEF DeliveryLagsBehind
<1> QED
  BY <1>1, <1>2

\* A consumer's next step is as possible as its message was when it read it.
LEMMA DeliveryMovesBehind ==
    ASSUME IInv, TypeInv', Advances, NEW c \in Consumers, ConsumerStep(c) \/ ConsumerCrash(c)
    PROVE  DeliveryLagsBehind(consumer[c])' /\ sent' = sent
<1> PICK p : p = consumer[c]
  OBVIOUS
<1>1. /\ p \in Processing
      /\ p.stage # "idle" => p.message \in Messages
      /\ DeliveryLagsBehind(p)
      /\ consumer \in [Consumers -> Processing]
  BY DEF IInv, TypeInv, ConsumersOK
<1>2. sent' = sent
  BY DEF ConsumerStep, ReceiveMessage, ClaimDelivery, LoadJob, MarkRunning, StartWorkflow,
         AckDelivery, RecordQueueRetry, ConsumerCrash, queueVars
<1>3. ASSUME NEW q \in Processing, consumer' = [consumer EXCEPT ![c] = q],
             q.stage # "idle" => q.message \in Messages,
             DeliveryLagsBehind(q)
      PROVE  DeliveryLagsBehind(consumer[c])'
  <2>1. DeliveryLagsBehind(q)' /\ consumer'[c] = q
    BY <1>1, <1>2, <1>3, DeliveryStaysBehind
  <2> QED
    BY <2>1 DEF DeliveryLagsBehind
<1>4. ASSUME Finish(c) PROVE DeliveryLagsBehind(consumer[c])'
  <2>1. consumer'[c] = Waiting
    BY <1>1, <1>4 DEF Finish
  <2> QED
    BY <2>1 DEF Waiting, DeliveryLagsBehind
<1>5. ASSUME p.stage # "idle", NEW s \in ConsumerStage \ {"idle", "start"}, ConsumerTo(c, s)
      PROVE  DeliveryLagsBehind(consumer[c])'
  <2> DEFINE q == [p EXCEPT !.stage = s]
  <2>1. consumer' = [consumer EXCEPT ![c] = q]
    BY <1>5 DEF ConsumerTo
  <2>2. q \in Processing /\ q.message = p.message /\ q.stage = s
    BY <1>1, <1>5 DEF Processing
  <2>3. DeliveryLagsBehind(q)
    BY <1>1, <1>5, <2>2 DEF DeliveryLagsBehind
  <2> HIDE DEF q
  <2> QED
    BY <1>1, <1>3, <1>5, <2>1, <2>2, <2>3
<1>6. ASSUME NEW m \in sent, ReceiveMessage(c, m) PROVE DeliveryLagsBehind(consumer[c])'
  <2>1. CASE consumer' = consumer
    <3>1. DeliveryLagsBehind(p)' /\ consumer'[c] = p
      BY <1>1, <1>2, <2>1, DeliveryStaysBehind
    <3> QED
      BY <3>1 DEF DeliveryLagsBehind
  <2>2. ASSUME NEW s \in {"insert", "reclaim"},
               consumer' = [consumer EXCEPT ![c] = [stage |-> s, message |-> m]]
        PROVE  DeliveryLagsBehind(consumer[c])'
    <3>1. m \in Messages
      BY DEF IInv, TypeInv, TypeOK, QueueTypeOK
    <3>2. [stage |-> s, message |-> m] \in Processing
      BY <3>1 DEF Processing, ConsumerStage
    <3>3. DeliveryLagsBehind([stage |-> s, message |-> m])
      BY DEF DeliveryLagsBehind
    <3> QED
      BY <1>3, <2>2, <3>1, <3>2, <3>3
  <2> QED
    BY <1>6, <2>1, <2>2 DEF ReceiveMessage
<1>7. ASSUME ClaimDelivery(c) PROVE DeliveryLagsBehind(consumer[c])'
  BY <1>4, <1>5, <1>7 DEF ClaimDelivery, ConsumerStage
<1>8. ASSUME LoadJob(c) PROVE DeliveryLagsBehind(consumer[c])'
  BY <1>4, <1>5, <1>8 DEF LoadJob, ConsumerStage
<1>9. ASSUME MarkRunning(c) PROVE DeliveryLagsBehind(consumer[c])'
  <2>1. /\ p.message \in sent /\ p.message.job \in Revisions
    BY <1>1, <1>9 DEF MarkRunning, DeliveryLagsBehind, Messages
  <2>2. status'[p.message.job] # "queued"
    BY <1>9, <2>1, LedgerTypes DEF MarkRunning
  <2>3. consumer'[c].message = p.message
    BY <1>1, <1>9 DEF MarkRunning, ConsumerTo, Processing
  <2> QED
    BY <1>2, <2>1, <2>2, <2>3 DEF DeliveryLagsBehind
<1>10. ASSUME StartWorkflow(c) PROVE DeliveryLagsBehind(consumer[c])'
  BY <1>5, <1>10 DEF StartWorkflow, ConsumerStage
<1>11. ASSUME AckDelivery(c) \/ RecordQueueRetry(c) \/ ConsumerCrash(c)
       PROVE  DeliveryLagsBehind(consumer[c])'
  BY <1>4, <1>11 DEF AckDelivery, RecordQueueRetry, ConsumerCrash
<1> QED
  BY <1>2, <1>6, <1>7, <1>8, <1>9, <1>10, <1>11 DEF ConsumerStep

\* Messages are sent by invocations only, for a run the job has reached.
LEMMA MessagesStayBehind ==
    ASSUME IInv, TypeInv', Advances,
           \A m \in sent' : m \in sent \/ MessageLagsBehind(m)
    PROVE  \A m \in sent' : MessageLagsBehind(m)'
<1> SUFFICES ASSUME NEW m \in sent' PROVE MessageLagsBehind(m)'
  OBVIOUS
<1>1. m \in Messages /\ MessageLagsBehind(m)
  BY DEF IInv, TypeInv, TypeOK, QueueTypeOK
<1>2. m.job \in Revisions /\ m.run \in Int
  BY <1>1 DEF Messages, Runs
<1>3. run[m.job] \in Int /\ run'[m.job] \in Int /\ run[m.job] <= run'[m.job]
  BY <1>2, LedgerTypes DEF TypeInv, TypeOK, LedgerTypeOK, Runs, Advances
<1> QED
  BY <1>1, <1>2, <1>3 DEF MessageLagsBehind, Advances

\* Invocations only add messages, each for a run its job has reached.
LEMMA HandlerSends ==
    ASSUME IInv, NEW h \in Handlers, Request(h) \/ HandlerStep(h) \/ HandlerCrash(h)
    PROVE  /\ sent \subseteq sent'
           /\ \A m \in sent' : m \in sent \/ MessageLagsBehind(m)
<1>1. ASSUME SendQueue(h)
      PROVE  /\ sent \subseteq sent'
             /\ \A m \in sent' : m \in sent \/ MessageLagsBehind(m)
  <2>1. MessageLagsBehind(NewMessage(h))
    BY <1>1 DEF SendQueue, NewMessage, MessageLagsBehind, IInv, InvocationLagsBehind
  <2>2. sent' = sent \/ sent' = sent \cup {NewMessage(h)}
    BY <1>1 DEF SendQueue
  <2> QED
    BY <2>1, <2>2
<1>2. ASSUME NEW e \in Events, AcceptLookup(h, e) PROVE sent' = sent
  BY <1>2 DEF AcceptLookup, queueVars
<1>3. ASSUME NEW j \in Revisions, CancelRead(h, j) \/ RetryRead(h, j) PROVE sent' = sent
  BY <1>3 DEF CancelRead, RetryRead, queueVars
<1>4. ASSUME ~ SendQueue(h), HandlerStep(h) \/ HandlerCrash(h) PROVE sent' = sent
  BY <1>4 DEF HandlerStep, ReserveRevision, InsertJob, ClaimDispatch, MarkDispatchSent,
              MarkDispatchPending, Reply, CancelQueued, CancelRecord, CancelFinish,
              CancelRunning, RetryCommit, HandlerCrash, queueVars
<1> QED
  BY <1>1, <1>2, <1>3, <1>4 DEF Request

\* A step of one invocation moves no other actor.
LEMMA OthersStay ==
    ASSUME IInv, NEW h \in Handlers, Request(h) \/ HandlerStep(h) \/ HandlerCrash(h)
    PROVE  /\ \A g \in Handlers : g = h \/ handler'[g] = handler[g]
           /\ consumer' = consumer
<1>1. handler \in [Handlers -> Invocation]
  BY DEF IInv, TypeInv, HandlersOK
<1>2. ASSUME NEW e \in Events, AcceptLookup(h, e)
      PROVE  /\ \A g \in Handlers : g = h \/ handler'[g] = handler[g]
             /\ consumer' = consumer
  BY <1>1, <1>2 DEF AcceptLookup
<1>3. ASSUME NEW j \in Revisions, CancelRead(h, j) \/ RetryRead(h, j)
      PROVE  /\ \A g \in Handlers : g = h \/ handler'[g] = handler[g]
             /\ consumer' = consumer
  BY <1>1, <1>3 DEF CancelRead, RetryRead
<1>4. ASSUME InsertJob(h) \/ RetryCommit(h) \/ SendQueue(h)
      PROVE  /\ \A g \in Handlers : g = h \/ handler'[g] = handler[g]
             /\ consumer' = consumer
  BY <1>1, <1>4 DEF InsertJob, RetryCommit, SendQueue, GoTo, Return
<1>5. ASSUME \/ ReserveRevision(h) \/ ClaimDispatch(h) \/ MarkDispatchSent(h)
             \/ MarkDispatchPending(h) \/ Reply(h) \/ CancelQueued(h) \/ CancelRecord(h)
             \/ CancelFinish(h) \/ CancelRunning(h) \/ HandlerCrash(h)
      PROVE  /\ \A g \in Handlers : g = h \/ handler'[g] = handler[g]
             /\ consumer' = consumer
  BY <1>1, <1>5
     DEF ReserveRevision, ClaimDispatch, MarkDispatchSent, MarkDispatchPending, Reply,
         CancelQueued, CancelRecord, CancelFinish, CancelRunning, HandlerCrash, GoTo, Return
<1> QED
  BY <1>2, <1>3, <1>4, <1>5 DEF Request, HandlerStep

\* A step that inserts no row and reserves no number leaves the free ones free.
LEMMA FreshStays ==
    ASSUME IInv, NoNewRow, nextRevision' = nextRevision,
           \A g \in Handlers : handler'[g].stage = "insert" => handler'[g] = handler[g]
    PROVE  FreshRevisions'
<1>1. \A g \in Handlers : handler[g].stage = "insert" => handler[g].job \in Revisions
  BY DEF IInv, TypeInv, HandlersOK
<1>2. FreshRevisions
  BY DEF IInv
<1> QED
  BY <1>1, <1>2 DEF FreshRevisions, NoNewRow

\* Numbers are reserved once and used by the invocation that reserved them.
LEMMA HandlerStepFresh ==
    ASSUME IInv, NEW h \in Handlers, Request(h) \/ HandlerStep(h) \/ HandlerCrash(h)
    PROVE  FreshRevisions'
<1> PICK a : a = handler[h]
  OBVIOUS
<1>1. /\ a \in Invocation
      /\ handler \in [Handlers -> Invocation]
      /\ status \in [Revisions -> JobStatus]
      /\ nextRevision \in 0..MaxRevision
      /\ \A g \in Handlers : handler[g].stage = "insert" => handler[g].job \in Revisions
      /\ FreshRevisions
  BY DEF IInv, TypeInv, HandlersOK, TypeOK, LedgerTypeOK
<1>2. \A g \in Handlers : g = h \/ handler'[g] = handler[g]
  BY OthersStay
<1>3. ASSUME handler'[h].stage # "insert", ~ InsertJob(h), nextRevision' = nextRevision
      PROVE  FreshRevisions'
  BY <1>2, <1>3, FreshStays, HandlerStepAdvances
<1>4. ASSUME ReserveRevision(h) PROVE FreshRevisions'
  <2>1. /\ nextRevision' = nextRevision + 1 /\ nextRevision' \in Revisions
        /\ status' = status
        /\ handler'[h].job = nextRevision + 1
    BY <1>1, <1>4 DEF ReserveRevision, jobVars, Revisions, Invocation
  <2>2. status[nextRevision + 1] = "absent"
    BY <1>1, <2>1 DEF FreshRevisions
  <2>3. ASSUME NEW g \in Handlers \ {h}, handler'[g].stage = "insert"
        PROVE  handler'[g].job <= nextRevision /\ status[handler'[g].job] = "absent"
    BY <1>1, <1>2, <2>3 DEF FreshRevisions
  <2>4. \A j \in Revisions : j > nextRevision' => status'[j] = "absent"
    BY <1>1, <2>1 DEF FreshRevisions, Revisions
  <2>5. ASSUME NEW g \in Handlers, handler'[g].stage = "insert"
        PROVE  handler'[g].job <= nextRevision' /\ status'[handler'[g].job] = "absent"
    <3>1. CASE g = h
      BY <1>1, <2>1, <2>2, <3>1
    <3>2. CASE g # h
      <4>1. handler'[g] = handler[g] /\ handler[g].job \in Revisions
        BY <1>1, <1>2, <2>5, <3>2
      <4> QED
        BY <1>1, <2>1, <2>3, <2>5, <3>2, <4>1 DEF Revisions
    <3> QED
      BY <3>1, <3>2
  <2>6. ASSUME NEW f \in Handlers, NEW g \in Handlers, handler'[f].stage = "insert",
               handler'[g].stage = "insert", handler'[f].job = handler'[g].job
        PROVE  f = g
    <3>1. ASSUME NEW i \in Handlers \ {h}, handler'[i].stage = "insert"
          PROVE  handler'[i].job # nextRevision + 1
      BY <1>1, <2>3, <3>1
    <3> QED
      BY <1>1, <1>2, <2>1, <2>6, <3>1 DEF FreshRevisions
  <2> QED
    BY <2>4, <2>5, <2>6 DEF FreshRevisions
<1>5. ASSUME InsertJob(h) PROVE FreshRevisions'
  <2>1. /\ a.stage = "insert" /\ a.job \in Revisions
        /\ nextRevision' = nextRevision /\ handler'[h].stage # "insert"
    BY <1>1, <1>5 DEF InsertJob, GoTo, Return, Idle, Invocation
  <2>2. CASE status' = status
    <3>1. NoNewRow
      BY <2>2 DEF NoNewRow
    <3> QED
      BY <1>2, <2>1, <3>1, FreshStays
  <2>3. CASE status' = [status EXCEPT ![a.job] = "queued"]
    <3>1. a.job <= nextRevision
      BY <1>1, <2>1 DEF FreshRevisions
    <3>2. \A j \in Revisions : j > nextRevision => j # a.job
      BY <1>1, <3>1 DEF Revisions
    <3>3. \A g \in Handlers : handler'[g].stage = "insert" =>
             g # h /\ handler'[g] = handler[g] /\ handler[g].job # a.job
      BY <1>1, <1>2, <2>1 DEF FreshRevisions
    <3>4. \A j \in Revisions : j # a.job => status'[j] = status[j]
      BY <1>1, <2>3
    <3> QED
      BY <1>1, <2>1, <3>2, <3>3, <3>4 DEF FreshRevisions
  <2> QED
    BY <1>5, <2>2, <2>3 DEF InsertJob
<1>6. ASSUME NEW e \in Events, AcceptLookup(h, e) PROVE FreshRevisions'
  <2>1. /\ handler'[h].stage # "insert" /\ nextRevision' = nextRevision
        /\ handler[h].stage = "idle"
    BY <1>1, <1>6 DEF AcceptLookup
  <2> QED
    BY <1>3, <2>1 DEF InsertJob
<1>7. ASSUME NEW j \in Revisions, CancelRead(h, j) \/ RetryRead(h, j) PROVE FreshRevisions'
  <2>1. /\ handler'[h].stage # "insert" /\ nextRevision' = nextRevision
        /\ handler[h].stage = "idle"
    BY <1>1, <1>7 DEF CancelRead, RetryRead
  <2> QED
    BY <1>3, <2>1 DEF InsertJob
<1>8. ASSUME \/ ClaimDispatch(h) \/ SendQueue(h) \/ MarkDispatchSent(h)
             \/ MarkDispatchPending(h) \/ Reply(h) \/ CancelQueued(h) \/ CancelRecord(h)
             \/ CancelFinish(h) \/ CancelRunning(h) \/ RetryCommit(h)
      PROVE  FreshRevisions'
  <2>1. nextRevision' = nextRevision /\ handler[h].stage # "insert"
    BY <1>8 DEF ClaimDispatch, SendQueue, MarkDispatchSent, MarkDispatchPending, Reply,
                CancelQueued, CancelRecord, CancelFinish, CancelRunning, RetryCommit
  <2>2. handler'[h].stage # "insert"
    BY <1>1, <1>8
       DEF ClaimDispatch, SendQueue, MarkDispatchSent, MarkDispatchPending, Reply,
           CancelQueued, CancelRecord, CancelFinish, CancelRunning, RetryCommit,
           GoTo, Return, Idle, Invocation
  <2> QED
    BY <1>3, <2>1, <2>2 DEF InsertJob
<1>9. ASSUME HandlerCrash(h) PROVE FreshRevisions'
  <2>1. /\ nextRevision' = nextRevision /\ status' = status
        /\ handler'[h].stage # "insert"
    BY <1>1, <1>9 DEF HandlerCrash, Return, Idle, jobVars
  <2>2. NoNewRow
    BY <2>1 DEF NoNewRow
  <2> QED
    BY <1>2, <2>1, <2>2, FreshStays
<1> QED
  BY <1>4, <1>5, <1>6, <1>7, <1>8, <1>9 DEF Request, HandlerStep

\* Steps of the engine, of time and of consumers disturb no invocation.
LEMMA InvocationsStay ==
    ASSUME IInv, TypeInv', Advances, NoNewRow, UNCHANGED <<nextRevision, handler>>
    PROVE  FreshRevisions' /\ \A h \in Handlers : InvocationLagsBehind(handler[h])'
<1>1. FreshRevisions'
  BY FreshStays
<1>2. ASSUME NEW h \in Handlers PROVE InvocationLagsBehind(handler[h])'
  <2> PICK a : a = handler[h]
    OBVIOUS
  <2>1. /\ a \in Invocation /\ InvocationLagsBehind(a)
        /\ a.stage \notin {"idle", "reserve"} => a.job \in Revisions
    BY DEF IInv, TypeInv, HandlersOK
  <2>2. InvocationLagsBehind(a)' /\ handler'[h] = a
    BY <2>1, InvocationStaysBehind
  <2> QED
    BY <2>2 DEF InvocationLagsBehind
<1> QED
  BY <1>1, <1>2

\* What a consumer that does not move is doing stays possible.
LEMMA DeliveryStays ==
    ASSUME IInv, TypeInv', Advances, sent \subseteq sent', NEW c \in Consumers,
           consumer'[c] = consumer[c]
    PROVE  DeliveryLagsBehind(consumer[c])'
<1> PICK p : p = consumer[c]
  OBVIOUS
<1>1. /\ p \in Processing /\ DeliveryLagsBehind(p)
      /\ p.stage # "idle" => p.message \in Messages
  BY DEF IInv, TypeInv, ConsumersOK
<1>2. DeliveryLagsBehind(p)' /\ consumer'[c] = p
  BY <1>1, DeliveryStaysBehind
<1> QED
  BY <1>2 DEF DeliveryLagsBehind

\* The initial state satisfies the inductive invariant.
LEMMA IInvInit == Init => IInv
<1> SUFFICES ASSUME Init PROVE IInv
  OBVIOUS
<1>1. TypeInv
  BY TypeInit
<1>2. FreshRevisions /\ \A h \in Handlers : InvocationLagsBehind(handler[h])
  BY DEF Init, Idle, FreshRevisions, InvocationLagsBehind
<1>3. \A c \in Consumers : DeliveryLagsBehind(consumer[c])
  BY DEF Init, Waiting, DeliveryLagsBehind
<1>4. RunsWereRequeued
  BY DEF Init, RunsWereRequeued
<1>5. RunsInv
  <2>1. \A j \in Revisions : <<j, 0>> \in Revisions \X Runs
    BY DEF Runs
  <2> QED
    BY <2>1 DEF Init, RunsInv, CurrentRun, Consistent, PastRun, FutureRun, Runs
<1> QED
  BY <1>1, <1>2, <1>3, <1>4, <1>5 DEF Init, IInv

\* Every step preserves the inductive invariant.
LEMMA IInvStep == IInv /\ [Next]_vars => IInv'
<1> SUFFICES ASSUME IInv, [Next]_vars PROVE IInv'
  OBVIOUS
<1>1. TypeInv'
  BY TypeStep DEF IInv
<1>2. ASSUME NEW h \in Handlers, Request(h) \/ HandlerStep(h) \/ HandlerCrash(h)
      PROVE  IInv'
  <2>1. Advances
    BY <1>2, HandlerStepAdvances
  <2>2. sent \subseteq sent' /\ \A m \in sent' : MessageLagsBehind(m)'
    BY <1>1, <1>2, <2>1, HandlerSends, MessagesStayBehind
  <2>3. ASSUME NEW g \in Handlers PROVE InvocationLagsBehind(handler[g])'
    <3>1. CASE g = h
      BY <1>1, <1>2, <2>1, <3>1, InvocationMovesBehind
    <3>2. CASE g # h
      <4> PICK a : a = handler[g]
        OBVIOUS
      <4>1. /\ a \in Invocation /\ InvocationLagsBehind(a)
            /\ a.stage \notin {"idle", "reserve"} => a.job \in Revisions
        BY DEF IInv, TypeInv, HandlersOK
      <4>2. InvocationLagsBehind(a)' /\ handler'[g] = a
        BY <1>1, <1>2, <2>1, <3>2, <4>1, InvocationStaysBehind, OthersStay
      <4> QED
        BY <4>2 DEF InvocationLagsBehind
    <3> QED
      BY <3>1, <3>2
  <2>4. ASSUME NEW c \in Consumers PROVE DeliveryLagsBehind(consumer[c])'
    BY <1>1, <1>2, <2>1, <2>2, DeliveryStays, OthersStay
  <2>5. FreshRevisions' /\ RunsInv' /\ RunsWereRequeued'
    BY <1>2, HandlerStepFresh, HandlerStepRuns
  <2> QED
    BY <1>1, <2>2, <2>3, <2>4, <2>5 DEF IInv
<1>3. ASSUME NEW c \in Consumers, ConsumerStep(c) \/ ConsumerCrash(c) PROVE IInv'
  <2>1. Advances /\ NoNewRow
    BY <1>3, ConsumerStepAdvances
  <2>2. /\ UNCHANGED <<nextRevision, handler, run, requeued>>
        /\ \A d \in Consumers : d = c \/ consumer'[d] = consumer[d]
    <3>1. consumer \in [Consumers -> Processing]
      BY DEF IInv, TypeInv, ConsumersOK
    <3> QED
      BY <1>3, <3>1
         DEF ConsumerStep, ReceiveMessage, ClaimDelivery, LoadJob, MarkRunning, StartWorkflow,
             AckDelivery, RecordQueueRetry, ConsumerCrash, ConsumerTo, Finish, jobVars
  <2>3. sent' = sent /\ DeliveryLagsBehind(consumer[c])'
    BY <1>1, <1>3, <2>1, DeliveryMovesBehind
  <2>4. ASSUME NEW d \in Consumers PROVE DeliveryLagsBehind(consumer[d])'
    BY <1>1, <2>1, <2>2, <2>3, <2>4, DeliveryStays
  <2>5. \A m \in sent' : MessageLagsBehind(m)'
    BY <1>1, <2>1, <2>3, MessagesStayBehind
  <2>6. FreshRevisions' /\ \A h \in Handlers : InvocationLagsBehind(handler[h])'
    BY <1>1, <2>1, <2>2, InvocationsStay
  <2>7. RunsInv' /\ RunsWereRequeued'
    BY <1>3, <2>2, ConsumerStepRuns, RequeuesKept
  <2> QED
    BY <1>1, <2>4, <2>5, <2>6, <2>7 DEF IInv
<1>4. ASSUME Advances, NoNewRow, RunsInv',
             UNCHANGED <<nextRevision, handler, consumer, sent, run, requeued>>
      PROVE  IInv'
  <2>1. FreshRevisions' /\ \A h \in Handlers : InvocationLagsBehind(handler[h])'
    BY <1>1, <1>4, InvocationsStay
  <2>2. \A m \in sent' : MessageLagsBehind(m)'
    BY <1>1, <1>4, MessagesStayBehind
  <2>3. ASSUME NEW c \in Consumers PROVE DeliveryLagsBehind(consumer[c])'
    BY <1>1, <1>4, <2>3, DeliveryStays
  <2>4. RunsWereRequeued'
    BY <1>4, RequeuesKept
  <2> QED
    BY <1>1, <1>4, <2>1, <2>2, <2>3, <2>4 DEF IInv
<1>5. ASSUME NEW j \in Revisions, NEW r \in Runs,
             WorkflowStep(j, r) \/ PublishTimeout(j, r) \/ WorkflowReplay(j, r)
      PROVE  IInv'
  <2>1. UNCHANGED <<nextRevision, handler, consumer, sent, run, requeued>>
    BY <1>5 DEF WorkflowStep, WorkflowStart, WorkflowCancelled, StepFails, BeginPublish,
                CommitPublish, RecordOutcome, FinishOutcome, PublishTimeout,
                WorkflowReplay, jobVars, queueVars
  <2> QED
    BY <1>4, <1>5, <2>1, WorkflowStepAdvances, WorkflowStepRuns
<1>6. ASSUME UNCHANGED <<nextRevision, handler, consumer, sent, run, requeued, status,
                         outcome, workflow, publishing>>
      PROVE  IInv'
  <2>1. Advances /\ NoNewRow
    BY <1>6, NothingMoves
  <2>2. RunsInv'
    BY <1>6 DEF IInv, RunsInv, CurrentRun, PastRun, FutureRun
  <2> QED
    BY <1>4, <1>6, <2>1, <2>2
<1>7. ASSUME NEW j \in Revisions, LeaseExpires(j) \/ BackoffElapses(j) PROVE IInv'
  BY <1>6, <1>7
     DEF LeaseExpires, BackoffElapses, jobVars, resultVars, queueVars, engineVars
<1>8. ASSUME NEW m \in sent, DeadLetter(m) PROVE IInv'
  BY <1>6, <1>8 DEF DeadLetter, jobVars, resultVars, engineVars
<1>9. CASE UNCHANGED vars
  BY <1>6, <1>9 DEF vars, jobVars, resultVars, queueVars, engineVars
<1> QED
  BY <1>2, <1>3, <1>5, <1>7, <1>8, <1>9 DEF Next, Fault

----------------------------------------------------------------------------
(* The theorems.                                                           *)

\* Whatever interleaving of accepts, cancels, retries, deliveries, replays and
\* failures: jobs.status and the outcome of the job's current run agree.
THEOREM StatusAgrees == Spec => []StatusAgreesWithOutcome
<1>1. IInv => StatusAgreesWithOutcome
  BY DEF IInv, RunsInv, CurrentRun, Consistent, StatusAgreesWithOutcome, JobRows
<1> QED
  BY <1>1, IInvInit, IInvStep, PTL DEF Spec

\* Reruns come after failures only, and no run is ever anticipated or revived.
THEOREM RunsFollow == Spec => []RunsFollowFailures
<1>1. IInv => RunsFollowFailures
  BY DEF IInv, RunsInv, PastRun, FutureRun, RunsFollowFailures
<1> QED
  BY <1>1, IInvInit, IInvStep, PTL DEF Spec

\* A run whose outcome is still open, and whose instance or publish batch is at
\* work, is the job's current one.
LEMMA OpenRunIsCurrent ==
    ASSUME IInv, NEW j \in Revisions, NEW r \in Runs, outcome[<<j, r>>] = "none",
           workflow[<<j, r>>] # "none" \/ <<j, r>> \in publishing
    PROVE  r = run[j]
<1>1. ~ (r < run[j])
  BY DEF IInv, RunsInv, PastRun
<1>2. ~ (r > run[j])
  BY DEF IInv, RunsInv, FutureRun
<1> QED
  BY <1>1, <1>2, LedgerTypes DEF Runs

\* Only a running job can be published.
LEMMA PublishedJobIsRunning ==
    ASSUME IInv, NEW j \in Revisions, NEW r \in Runs, outcome[<<j, r>>] = "none",
           <<j, r>> \in publishing
    PROVE  r = run[j] /\ status[j] = "running"
<1>1. r = run[j]
  BY OpenRunIsCurrent
<1>2. CurrentRun(j) /\ status[j] \in JobStatus
  BY LedgerTypes DEF IInv, RunsInv
<1> QED
  BY <1>1, <1>2 DEF CurrentRun, Consistent, JobStatus, Terminal

\* What an invocation records as cancelled is the job's current run.
LEMMA CancelledRunIsCurrent ==
    ASSUME IInv, NEW h \in Handlers,
           \/ /\ handler[h].stage = "cancelRecord"
              /\ outcome[<<handler[h].job, handler[h].run>>] = "none"
           \/ handler[h].stage = "cancelFinish"
    PROVE  handler[h].job \in Revisions /\ handler[h].run = run[handler[h].job]
<1> DEFINE j == handler[h].job
           r == handler[h].run
<1>1. j \in Revisions /\ r \in Runs /\ run[j] \in Runs
  BY LedgerTypes DEF IInv, TypeInv, HandlersOK, Invocation
<1>2. r <= run[j]
  BY DEF IInv, InvocationLagsBehind
<1>3. outcome[<<j, r>>] # "failed"
  BY DEF IInv, InvocationLagsBehind
<1>4. ~ (r < run[j])
  BY <1>1, <1>3 DEF IInv, RunsInv, PastRun
<1> QED
  BY <1>1, <1>2, <1>4 DEF Runs

\* Every step of the pipeline is a step of RevisionPublication or leaves what
\* RevisionPublication describes alone.
LEMMA StepIsPublicationStep ==
    ASSUME IInv, [Next]_vars
    PROVE  [Publication!Next]_(Publication!vars)
<1> USE DEF Publication!vars, Publication!Next, Publication!Revisions, Publication!Runs,
            Revisions, Runs
<1>1. /\ run \in [Revisions -> Runs]
      /\ outcome \in [Revisions \X Runs -> Terminal \cup {"none"}]
  BY LedgerTypes
<1>2. ASSUME NEW h \in Handlers, CancelRecord(h) PROVE [Publication!Next]_(Publication!vars)
  <2> PICK j, r : j = handler[h].job /\ r = handler[h].run
    OBVIOUS
  <2>1. CASE outcome[<<j, r>>] # "none"
    BY <1>2, <2>1 DEF CancelRecord, jobVars
  <2>2. CASE outcome[<<j, r>>] = "none"
    <3>1. j \in Revisions /\ r = run[j]
      BY <1>2, <2>2, CancelledRunIsCurrent DEF CancelRecord
    <3>2. Publication!Conclude(j, "cancelled")
      BY <1>2, <2>2, <3>1 DEF CancelRecord, jobVars, Publication!Conclude
    <3> QED
      BY <3>1, <3>2
  <2> QED
    BY <2>1, <2>2
<1>3. ASSUME NEW h \in Handlers, RetryCommit(h) PROVE [Publication!Next]_(Publication!vars)
  <2> PICK j, r : j = handler[h].job /\ r = handler[h].run
    OBVIOUS
  <2>1. CASE <<j, r>> \in requeued \/ status[j] # "failed"
    BY <1>1, <1>3, <2>1 DEF RetryCommit, resultVars
  <2>2. CASE <<j, r>> \notin requeued /\ status[j] = "failed"
    <3>1. j \in Revisions /\ r \in Runs /\ r = run[j] + 1
      BY <1>3, <2>2, RetryStartsNextRun DEF RetryCommit
    <3>2. outcome[<<j, run[j]>>] = "failed"
      BY <2>2, <3>1 DEF IInv, RunsInv, CurrentRun, Consistent
    <3>3. /\ run' = [run EXCEPT ![j] = run[j] + 1]
          /\ UNCHANGED <<outcome, latest>>
      BY <1>3, <2>2, <3>1 DEF RetryCommit, resultVars
    <3>4. run[j] < MaxRun
      BY <1>1, <3>1
    <3>5. Publication!Rerun(j)
      BY <3>2, <3>3, <3>4 DEF Publication!Rerun
    <3> QED
      BY <3>1, <3>5
  <2> QED
    BY <2>1, <2>2
<1>4. ASSUME NEW j \in Revisions, NEW r \in Runs, CommitPublish(j, r)
      PROVE  [Publication!Next]_(Publication!vars)
  <2>1. CASE outcome[<<j, r>>] = "none"
    <3>1. r = run[j]
      BY <1>4, <2>1, OpenRunIsCurrent DEF CommitPublish
    <3>2. Publication!Publish(j)
      BY <1>4, <2>1, <3>1 DEF CommitPublish, Publication!Publish
    <3> QED
      BY <3>2
  <2>2. CASE outcome[<<j, r>>] # "none"
    BY <1>4, <2>2 DEF CommitPublish
  <2> QED
    BY <2>1, <2>2
<1>5. ASSUME NEW j \in Revisions, NEW r \in Runs, RecordOutcome(j, r)
      PROVE  [Publication!Next]_(Publication!vars)
  <2>1. CASE outcome[<<j, r>>] = "none"
    <3>1. r = run[j]
      BY <1>5, <2>1, OpenRunIsCurrent DEF RecordOutcome
    <3>2. \E verdict \in {"failed", "cancelled"} : Publication!Conclude(j, verdict)
      BY <1>5, <2>1, <3>1 DEF RecordOutcome, jobVars, Publication!Conclude
    <3> QED
      BY <3>2
  <2>2. CASE outcome[<<j, r>>] # "none"
    BY <1>5, <2>2 DEF RecordOutcome, jobVars
  <2> QED
    BY <2>1, <2>2
<1>6. ASSUME NEW h \in Handlers, ~ CancelRecord(h), ~ RetryCommit(h),
             Request(h) \/ HandlerStep(h) \/ HandlerCrash(h)
      PROVE  UNCHANGED <<run, outcome, latest>>
  <2>1. ASSUME NEW e \in Events, AcceptLookup(h, e) PROVE UNCHANGED <<run, outcome, latest>>
    BY <2>1 DEF AcceptLookup, jobVars, resultVars
  <2>2. ASSUME NEW j \in Revisions, CancelRead(h, j) \/ RetryRead(h, j)
        PROVE  UNCHANGED <<run, outcome, latest>>
    BY <2>2 DEF CancelRead, RetryRead, jobVars, resultVars
  <2>3. ASSUME HandlerStep(h) \/ HandlerCrash(h) PROVE UNCHANGED <<run, outcome, latest>>
    BY <1>6, <2>3
       DEF HandlerStep, ReserveRevision, InsertJob, ClaimDispatch, SendQueue,
           MarkDispatchSent, MarkDispatchPending, Reply, CancelQueued, CancelFinish,
           CancelRunning, HandlerCrash, jobVars, resultVars
  <2> QED
    BY <1>6, <2>1, <2>2, <2>3 DEF Request
<1>7. ASSUME NEW c \in Consumers, ConsumerStep(c) \/ ConsumerCrash(c)
      PROVE  UNCHANGED <<run, outcome, latest>>
  BY <1>7 DEF ConsumerStep, ReceiveMessage, ClaimDelivery, LoadJob, MarkRunning,
              StartWorkflow, AckDelivery, RecordQueueRetry, ConsumerCrash, jobVars, resultVars
<1>8. ASSUME NEW j \in Revisions, NEW r \in Runs, ~ CommitPublish(j, r), ~ RecordOutcome(j, r),
             WorkflowStep(j, r) \/ PublishTimeout(j, r) \/ WorkflowReplay(j, r)
      PROVE  UNCHANGED <<run, outcome, latest>>
  BY <1>8 DEF WorkflowStep, WorkflowStart, WorkflowCancelled, StepFails, BeginPublish,
              FinishOutcome, PublishTimeout, WorkflowReplay, jobVars, resultVars
<1>9. ASSUME \/ \E j \in Revisions : LeaseExpires(j) \/ BackoffElapses(j)
             \/ \E m \in sent : DeadLetter(m)
             \/ UNCHANGED vars
      PROVE  UNCHANGED <<run, outcome, latest>>
  BY <1>9 DEF LeaseExpires, BackoffElapses, DeadLetter, vars, jobVars, resultVars
<1> HIDE DEF Publication!Next
<1>10. UNCHANGED <<run, outcome, latest>> => [Publication!Next]_(Publication!vars)
  OBVIOUS
<1>11. CASE \E h \in Handlers : Request(h) \/ HandlerStep(h) \/ HandlerCrash(h)
  BY <1>2, <1>3, <1>6, <1>10, <1>11
<1>12. CASE \E c \in Consumers : ConsumerStep(c) \/ ConsumerCrash(c)
  BY <1>7, <1>10, <1>12
<1>13. CASE \E j \in Revisions, r \in Runs :
               WorkflowStep(j, r) \/ PublishTimeout(j, r) \/ WorkflowReplay(j, r)
  BY <1>4, <1>5, <1>8, <1>10, <1>13
<1>14. CASE \/ \E j \in Revisions : LeaseExpires(j) \/ BackoffElapses(j)
            \/ \E m \in sent : DeadLetter(m)
            \/ UNCHANGED vars
  BY <1>9, <1>10, <1>14
<1> QED
  BY <1>11, <1>12, <1>13, <1>14 DEF Next, Fault

\* The pipeline implements the publication promise: in spite of everything that
\* interleaves in it, runs are concluded once, rerun only after failures, and
\* the pointer moves forward together with a success.
THEOREM LedgerImplementsPublication == Spec => PublicationSpec
<1>1. Init => Publication!Init
  BY DEF Init, Publication!Init, Publication!Revisions, Publication!Runs, Revisions, Runs
<1> QED
  BY <1>1, IInvInit, IInvStep, StepIsPublicationStep, PTL
     DEF Spec, PublicationSpec, Publication!Spec

\* The pointer that tables are read through always names the newest revision
\* that has succeeded.
THEOREM LatestIsNewest == Spec => []LatestIsNewestSuccess
<1> DEFINE Inv == IInv /\ LatestIsNewestSuccess
<1>1. Init => Inv
  BY IInvInit DEF Init, LatestIsNewestSuccess, Succeeded
<1>2. Inv /\ [Next]_vars => Inv'
  <2> SUFFICES ASSUME IInv, LatestIsNewestSuccess, [Next]_vars PROVE LatestIsNewestSuccess'
    BY IInvStep
  <2>1. /\ run \in [Revisions -> Runs]
        /\ outcome \in [Revisions \X Runs -> Terminal \cup {"none"}]
        /\ latest \in 0..MaxRevision
    BY LedgerTypes DEF IInv, TypeInv, TypeOK, LedgerTypeOK
  <2>2. CASE UNCHANGED <<run, outcome, latest>>
    BY <2>2 DEF LatestIsNewestSuccess, Succeeded
  <2>3. ASSUME NEW j \in Revisions, NEW verdict \in {"failed", "cancelled"},
               Publication!Conclude(j, verdict)
        PROVE  LatestIsNewestSuccess'
    <3>1. \A i \in Revisions, r \in Runs :
             outcome'[<<i, r>>] = "succeeded" <=> outcome[<<i, r>>] = "succeeded"
      BY <2>1, <2>3 DEF Publication!Conclude
    <3> QED
      BY <2>3, <3>1 DEF Publication!Conclude, LatestIsNewestSuccess, Succeeded
  <2>4. ASSUME NEW j \in Revisions, Publication!Publish(j) PROVE LatestIsNewestSuccess'
    <3>1. Succeeded' = Succeeded \cup {j}
      BY <2>1, <2>4 DEF Publication!Publish, Succeeded
    <3>2. latest' = IF j > latest THEN j ELSE latest
      BY <2>4 DEF Publication!Publish
    <3>3. Succeeded \subseteq Int /\ j \in Int /\ latest \in Int
      BY <2>1 DEF Succeeded, Revisions
    <3> QED
      BY <3>1, <3>2, <3>3 DEF LatestIsNewestSuccess
  <2>5. ASSUME NEW j \in Revisions, Publication!Rerun(j) PROVE LatestIsNewestSuccess'
    BY <2>5 DEF Publication!Rerun, LatestIsNewestSuccess, Succeeded
  <2> QED
    BY <2>2, <2>3, <2>4, <2>5, StepIsPublicationStep
       DEF Publication!Next, Publication!vars, Publication!Revisions, Revisions
<1>3. Inv => LatestIsNewestSuccess
  OBVIOUS
<1> QED
  BY <1>1, <1>2, <1>3, PTL DEF Spec

\* A revision is published by the current run of a job that is running, never
\* by a cancelled one, a replaced run or one that already has an outcome.
THEOREM PublishesLiveRuns == Spec => PublishedByLiveRun
<1>1. ASSUME IInv, [Next]_vars, latest' # latest
      PROVE  /\ status[latest'] = "running"
             /\ outcome'[<<latest', run[latest']>>] = "succeeded"
  <2>1. ASSUME NEW j \in Revisions, NEW r \in Runs, CommitPublish(j, r)
        PROVE  /\ status[latest'] = "running"
               /\ outcome'[<<latest', run[latest']>>] = "succeeded"
    <3>1. <<j, r>> \in publishing /\ outcome[<<j, r>>] = "none" /\ latest' = j
      BY <1>1, <2>1 DEF CommitPublish
    <3>2. r = run[j] /\ status[j] = "running"
      BY <1>1, <3>1, PublishedJobIsRunning
    <3>3. outcome'[<<j, r>>] = "succeeded"
      BY <1>1, <2>1, <3>1, LedgerTypes DEF CommitPublish
    <3> QED
      BY <3>1, <3>2, <3>3
  <2>2. ASSUME NEW h \in Handlers, Request(h) \/ HandlerStep(h) \/ HandlerCrash(h)
        PROVE  latest' = latest
    <3>1. ASSUME NEW e \in Events, AcceptLookup(h, e) PROVE latest' = latest
      BY <3>1 DEF AcceptLookup, resultVars
    <3>2. ASSUME NEW j \in Revisions, CancelRead(h, j) \/ RetryRead(h, j)
          PROVE  latest' = latest
      BY <3>2 DEF CancelRead, RetryRead, resultVars
    <3>3. ASSUME HandlerStep(h) \/ HandlerCrash(h) PROVE latest' = latest
      BY <3>3 DEF HandlerStep, ReserveRevision, InsertJob, ClaimDispatch, SendQueue,
                  MarkDispatchSent, MarkDispatchPending, Reply, CancelQueued, CancelRecord,
                  CancelFinish, CancelRunning, RetryCommit, HandlerCrash, resultVars
    <3> QED
      BY <2>2, <3>1, <3>2, <3>3 DEF Request
  <2>3. ASSUME NEW c \in Consumers, ConsumerStep(c) \/ ConsumerCrash(c) PROVE latest' = latest
    BY <2>3 DEF ConsumerStep, ReceiveMessage, ClaimDelivery, LoadJob, MarkRunning,
                StartWorkflow, AckDelivery, RecordQueueRetry, ConsumerCrash, resultVars
  <2>4. ASSUME NEW j \in Revisions, NEW r \in Runs, ~ CommitPublish(j, r),
               WorkflowStep(j, r) \/ PublishTimeout(j, r) \/ WorkflowReplay(j, r)
        PROVE  latest' = latest
    BY <2>4 DEF WorkflowStep, WorkflowStart, WorkflowCancelled, StepFails, BeginPublish,
                RecordOutcome, FinishOutcome, PublishTimeout, WorkflowReplay, resultVars
  <2>5. ASSUME \/ \E j \in Revisions : LeaseExpires(j) \/ BackoffElapses(j)
               \/ \E m \in sent : DeadLetter(m)
               \/ UNCHANGED vars
        PROVE  latest' = latest
    BY <2>5 DEF LeaseExpires, BackoffElapses, DeadLetter, vars, resultVars
  <2> QED
    BY <1>1, <2>1, <2>2, <2>3, <2>4, <2>5 DEF Next, Fault
<1>2. IInv /\ [Next]_vars =>
         [latest' # latest =>
            /\ status[latest'] = "running"
            /\ outcome'[<<latest', run[latest']>>] = "succeeded"]_vars
  BY <1>1
<1> QED
  BY <1>2, IInvInit, IInvStep, PTL DEF Spec, PublishedByLiveRun

\* A job that succeeded or was cancelled is never reopened or relabelled.
THEOREM ConclusionsAreFinal == Spec => ConclusionIsFinal
<1> DEFINE Final(j) == status[j] \in {"succeeded", "cancelled"} => status'[j] = status[j]
<1>1. ASSUME IInv, [Next]_vars, NEW j \in Revisions PROVE Final(j)
  <2>1. status \in [Revisions -> JobStatus] /\ CurrentRun(j)
    BY <1>1, LedgerTypes DEF IInv, RunsInv
  <2>2. ASSUME NEW h \in Handlers, CancelFinish(h) PROVE Final(j)
    <3>1. CASE j = handler[h].job
      <4>1. outcome[<<j, run[j]>>] = "cancelled"
        <5>1. handler[h].run = run[j]
          BY <1>1, <2>2, <3>1, CancelledRunIsCurrent DEF CancelFinish
        <5> QED
          BY <1>1, <2>2, <3>1, <5>1 DEF CancelFinish, IInv, InvocationLagsBehind
      <4>2. status[j] # "succeeded"
        BY <2>1, <4>1 DEF CurrentRun, Consistent
      <4> QED
        BY <2>1, <2>2, <3>1, <4>2 DEF CancelFinish
    <3>2. CASE j # handler[h].job
      BY <2>1, <2>2, <3>2 DEF CancelFinish
    <3> QED
      BY <3>1, <3>2
  <2>3. ASSUME NEW h \in Handlers, InsertJob(h) PROVE Final(j)
    <3>1. status[handler[h].job] = "absent"
      BY <1>1, <2>3 DEF InsertJob, IInv, FreshRevisions
    <3> QED
      BY <2>1, <2>3, <3>1 DEF InsertJob
  <2>4. ASSUME NEW h \in Handlers, CancelQueued(h) \/ RetryCommit(h) PROVE Final(j)
    BY <2>1, <2>4 DEF CancelQueued, RetryCommit
  <2>5. ASSUME NEW h \in Handlers, Request(h) \/ HandlerStep(h) \/ HandlerCrash(h),
               ~ CancelFinish(h), ~ InsertJob(h), ~ CancelQueued(h), ~ RetryCommit(h)
        PROVE  status' = status
    <3>1. ASSUME NEW e \in Events, AcceptLookup(h, e) PROVE status' = status
      BY <3>1 DEF AcceptLookup, jobVars
    <3>2. ASSUME NEW i \in Revisions, CancelRead(h, i) \/ RetryRead(h, i)
          PROVE  status' = status
      BY <3>2 DEF CancelRead, RetryRead, jobVars
    <3>3. ASSUME HandlerStep(h) \/ HandlerCrash(h) PROVE status' = status
      BY <2>5, <3>3
         DEF HandlerStep, ReserveRevision, ClaimDispatch, SendQueue, MarkDispatchSent,
             MarkDispatchPending, Reply, CancelRecord, CancelRunning, HandlerCrash, jobVars
    <3> QED
      BY <2>5, <3>1, <3>2, <3>3 DEF Request
  <2>6. ASSUME NEW c \in Consumers, ConsumerStep(c) \/ ConsumerCrash(c) PROVE Final(j)
    <3>1. ASSUME MarkRunning(c) PROVE Final(j)
      BY <2>1, <3>1 DEF MarkRunning
    <3>2. ASSUME ~ MarkRunning(c) PROVE status' = status
      BY <2>6, <3>2 DEF ConsumerStep, ReceiveMessage, ClaimDelivery, LoadJob, StartWorkflow,
                        AckDelivery, RecordQueueRetry, ConsumerCrash, jobVars
    <3> QED
      BY <3>1, <3>2
  <2>7. ASSUME NEW i \in Revisions, NEW r \in Runs, CommitPublish(i, r) PROVE Final(j)
    BY <2>1, <2>7 DEF CommitPublish
  <2>8. ASSUME NEW i \in Revisions, NEW r \in Runs, FinishOutcome(i, r) PROVE Final(j)
    <3>1. CASE i = j
      <4>1. r = run[j]
        <5>1. run[j] \in Runs /\ ~ (r < run[j]) /\ ~ (r > run[j])
          BY <1>1, <2>8, <3>1, LedgerTypes DEF FinishOutcome, IInv, RunsInv, PastRun, FutureRun
        <5> QED
          BY <5>1 DEF Runs
      <4> QED
        BY <2>1, <2>8, <3>1, <4>1 DEF FinishOutcome, CurrentRun, Consistent
    <3>2. CASE i # j
      BY <2>1, <2>8, <3>2 DEF FinishOutcome
    <3> QED
      BY <3>1, <3>2
  <2>9. ASSUME NEW i \in Revisions, NEW r \in Runs, ~ CommitPublish(i, r), ~ FinishOutcome(i, r),
               WorkflowStep(i, r) \/ PublishTimeout(i, r) \/ WorkflowReplay(i, r)
        PROVE  status' = status
    BY <2>9 DEF WorkflowStep, WorkflowStart, WorkflowCancelled, StepFails, BeginPublish,
                RecordOutcome, PublishTimeout, WorkflowReplay, jobVars
  <2>10. ASSUME \/ \E i \in Revisions : LeaseExpires(i) \/ BackoffElapses(i)
                \/ \E m \in sent : DeadLetter(m)
                \/ UNCHANGED vars
         PROVE  status' = status
    BY <2>10 DEF LeaseExpires, BackoffElapses, DeadLetter, vars, jobVars
  <2> HIDE DEF Final
  <2>11. status' = status => Final(j)
    BY DEF Final
  <2> QED
    BY <1>1, <2>2, <2>3, <2>4, <2>5, <2>6, <2>7, <2>8, <2>9, <2>10, <2>11 DEF Next, Fault
<1>2. IInv /\ [Next]_vars =>
         [\A j \in Revisions :
            status[j] \in {"succeeded", "cancelled"} => status'[j] = status[j]]_vars
  BY <1>1
<1> QED
  BY <1>2, IInvInit, IInvStep, PTL DEF Spec, ConclusionIsFinal

\* Whatever number of invocations submits one input, and however they overlap,
\* one job is made of it (acceptJob): the UNIQUE constraints decide when the
\* row is inserted, and no later step renames a row or gives it another event.
THEOREM InputsHaveOneJob == Spec => []OneJobPerInput
<1> DEFINE Inv == IInv /\ OneJobPerInput
<1>1. Init => Inv
  BY IInvInit DEF Init, OneJobPerInput, JobRows
<1>2. Inv /\ [Next]_vars => Inv'
  <2> SUFFICES ASSUME Inv, [Next]_vars PROVE OneJobPerInput'
    BY IInvStep
  <2>1. ASSUME NoNewRow, jobEvent' = jobEvent PROVE OneJobPerInput'
    BY <2>1 DEF NoNewRow, OneJobPerInput, JobRows
  <2>2. ASSUME NEW h \in Handlers, InsertJob(h) PROVE OneJobPerInput'
    <3>1. /\ status \in [Revisions -> JobStatus]
          /\ handler[h].job \in Revisions
          /\ jobEvent \in [Revisions -> Events \cup {None}]
      BY <2>2 DEF InsertJob, IInv, TypeInv, TypeOK, LedgerTypeOK, HandlersOK
    <3>2. CASE UNCHANGED <<jobEvent, status>>
      BY <3>2 DEF OneJobPerInput, JobRows
    <3>3. CASE /\ Existing(handler[h].event) = {}
               /\ jobEvent' = [jobEvent EXCEPT ![handler[h].job] = handler[h].event]
               /\ status' = [status EXCEPT ![handler[h].job] = "queued"]
      BY <3>1, <3>3 DEF OneJobPerInput, JobRows, Existing
    <3> QED
      BY <2>2, <3>2, <3>3 DEF InsertJob
  <2>3. ASSUME NEW h \in Handlers, Request(h) \/ HandlerStep(h) \/ HandlerCrash(h),
               ~ InsertJob(h)
        PROVE  OneJobPerInput'
    <3>1. jobEvent' = jobEvent
      BY <2>3
         DEF Request, AcceptLookup, CancelRead, RetryRead, HandlerStep, ReserveRevision,
             ClaimDispatch, SendQueue, MarkDispatchSent, MarkDispatchPending, Reply,
             CancelQueued, CancelRecord, CancelFinish, CancelRunning, RetryCommit,
             HandlerCrash, jobVars
    <3> QED
      BY <2>1, <2>3, <3>1, HandlerStepAdvances
  <2>4. ASSUME NEW c \in Consumers, ConsumerStep(c) \/ ConsumerCrash(c)
        PROVE  OneJobPerInput'
    <3>1. jobEvent' = jobEvent
      BY <2>4 DEF ConsumerStep, ReceiveMessage, ClaimDelivery, LoadJob, MarkRunning,
                  StartWorkflow, AckDelivery, RecordQueueRetry, ConsumerCrash, jobVars
    <3> QED
      BY <2>1, <2>4, <3>1, ConsumerStepAdvances
  <2>5. ASSUME NEW j \in Revisions, NEW r \in Runs,
               WorkflowStep(j, r) \/ PublishTimeout(j, r) \/ WorkflowReplay(j, r)
        PROVE  OneJobPerInput'
    <3>1. jobEvent' = jobEvent
      BY <2>5 DEF WorkflowStep, WorkflowStart, WorkflowCancelled, StepFails, BeginPublish,
                  CommitPublish, RecordOutcome, FinishOutcome, PublishTimeout,
                  WorkflowReplay, jobVars
    <3> QED
      BY <2>1, <2>5, <3>1, WorkflowStepAdvances
  <2>6. ASSUME \/ \E j \in Revisions : LeaseExpires(j) \/ BackoffElapses(j)
               \/ \E m \in sent : DeadLetter(m)
               \/ UNCHANGED vars
        PROVE  OneJobPerInput'
    BY <2>1, <2>6 DEF LeaseExpires, BackoffElapses, DeadLetter, vars, jobVars, NoNewRow
  <2> QED
    BY <2>2, <2>3, <2>4, <2>5, <2>6 DEF Next, Fault
<1> QED
  BY <1>1, <1>2, PTL DEF Spec

----------------------------------------------------------------------------
(* Acknowledged messages.  While no consumer is killed and the Queue hands *)
(* out no message that is being worked on, a claimed delivery has a        *)
(* consumer that works on it, so a message that is not its consumer's and  *)
(* is not left for a retry has been dealt with.                            *)

Holds(c, m) == consumer[c].stage # "idle" /\ consumer[c].message = m

\* The messages on the queue are numbered.
Numbered ==
    /\ \A m \in sent : m.id <= sends
    /\ \A m, n \in sent : m.id = n.id => m = n
    /\ \A i \in MessageIds : i > sends => delivery[i] = "none" /\ i \notin acknowledged

\* What the delivery of the message a consumer works on can be.
DeliveryOf(p, d) ==
    /\ p.stage = "insert" => d = "none"
    /\ p.stage = "reclaim" => d = "retry"
    /\ p.stage \notin {"idle", "insert", "reclaim"} => d = "claimed"

Custody ==
    /\ Numbered
    /\ \A c, d \in Consumers, m \in sent : Holds(c, m) /\ Holds(d, m) => c = d
    /\ \A c \in Consumers, m \in sent : Holds(c, m) =>
         /\ DeliveryOf(consumer[c], delivery[m.id])
         /\ consumer[c].stage = "ack" => NeedsNothing(m)
    /\ \A m \in sent : delivery[m.id] = "claimed" => \E c \in Consumers : Holds(c, m)
    /\ \A m \in sent : delivery[m.id] = "acked" \/ m.id \in acknowledged => NeedsNothing(m)

\* The part of the types the following steps use.
LEMMA QueueTypes ==
    ASSUME IInv
    PROVE  /\ sent \subseteq Messages /\ sends \in Nat
           /\ delivery \in [MessageIds -> {"none", "claimed", "retry", "acked"}]
           /\ consumer \in [Consumers -> Processing]
           /\ \A m \in sent : m \in Messages /\ m.id \in MessageIds /\ m.id \in Int
                              /\ m.job \in Revisions /\ m.run \in Runs /\ m.run <= run[m.job]
           /\ \A c \in Consumers : consumer[c].stage # "idle" => consumer[c].message \in sent
<1>1. /\ sent \subseteq Messages /\ sends \in Nat
      /\ delivery \in [MessageIds -> {"none", "claimed", "retry", "acked"}]
      /\ consumer \in [Consumers -> Processing]
  BY DEF IInv, TypeInv, TypeOK, QueueTypeOK, ActorTypeOK
<1>2. \A m \in sent : MessageLagsBehind(m)
  BY DEF IInv
<1>3. \A c \in Consumers : consumer[c].stage # "idle" => consumer[c].message \in sent
  BY DEF IInv, DeliveryLagsBehind
<1>4. \A m \in Messages : m.id \in MessageIds /\ m.id \in Int /\ m.job \in Revisions /\ m.run \in Runs
  BY DEF Messages, MessageIds
<1> QED
  BY <1>1, <1>2, <1>3, <1>4 DEF MessageLagsBehind

\* An instance, once created, exists for good.
LEMMA InstancesStay ==
    ASSUME IInv, [Next]_vars, NEW x \in Revisions \X Runs, workflow[x] # "none"
    PROVE  workflow'[x] # "none"
<1>1. workflow \in [Revisions \X Runs -> WorkflowStage]
  BY LedgerTypes
<1>2. ASSUME NEW c \in Consumers, ConsumerStep(c) \/ ConsumerCrash(c) PROVE workflow'[x] # "none"
  <2>1. CASE StartWorkflow(c)
    BY <1>1, <2>1 DEF StartWorkflow
  <2>2. CASE ~StartWorkflow(c)
    BY <1>2, <2>2 DEF ConsumerStep, ReceiveMessage, ClaimDelivery, LoadJob, MarkRunning, AckDelivery,
                      RecordQueueRetry, ConsumerCrash, engineVars
  <2> QED
    BY <2>1, <2>2
<1>3. ASSUME NEW j \in Revisions, NEW r \in Runs,
             WorkflowStep(j, r) \/ PublishTimeout(j, r) \/ WorkflowReplay(j, r)
      PROVE  workflow'[x] # "none"
  <2>1. CASE CommitPublish(j, r)
    BY <1>1, <2>1 DEF CommitPublish, WorkflowTo
  <2>2. CASE FinishOutcome(j, r) \/ RecordOutcome(j, r) \/ WorkflowStart(j, r)
    BY <1>1, <2>2 DEF FinishOutcome, RecordOutcome, WorkflowStart, WorkflowTo
  <2>3. CASE \/ WorkflowCancelled(j, r) \/ StepFails(j, r) \/ BeginPublish(j, r)
             \/ PublishTimeout(j, r) \/ WorkflowReplay(j, r)
    BY <1>1, <2>3 DEF WorkflowCancelled, StepFails, BeginPublish, PublishTimeout, WorkflowReplay,
                      WorkflowTo
  <2> QED
    BY <1>3, <2>1, <2>2, <2>3 DEF WorkflowStep
<1>4. ASSUME NEW h \in Handlers, Request(h) \/ HandlerStep(h) \/ HandlerCrash(h)
      PROVE  workflow' = workflow
  <2>1. ASSUME NEW e \in Events, AcceptLookup(h, e) PROVE workflow' = workflow
    BY <2>1 DEF AcceptLookup, engineVars
  <2>2. ASSUME NEW j \in Revisions, CancelRead(h, j) \/ RetryRead(h, j)
        PROVE  workflow' = workflow
    BY <2>2 DEF CancelRead, RetryRead, engineVars
  <2>3. ASSUME HandlerStep(h) \/ HandlerCrash(h) PROVE workflow' = workflow
    BY <2>3 DEF HandlerStep, ReserveRevision, InsertJob, ClaimDispatch, SendQueue,
                MarkDispatchSent, MarkDispatchPending, Reply, CancelQueued, CancelRecord,
                CancelFinish, CancelRunning, RetryCommit, HandlerCrash, engineVars
  <2> QED
    BY <1>4, <2>1, <2>2, <2>3 DEF Request
<1>5. ASSUME \/ \E j \in Revisions : LeaseExpires(j) \/ BackoffElapses(j)
             \/ \E m \in sent : DeadLetter(m)
             \/ UNCHANGED vars
      PROVE  workflow' = workflow
  BY <1>5 DEF LeaseExpires, BackoffElapses, DeadLetter, vars, engineVars
<1> QED
  BY <1>2, <1>3, <1>4, <1>5 DEF Next, Fault

\* Only an operator takes a job back from its end, and then to its next run.
LEMMA EndsStay ==
    ASSUME IInv, [Next]_vars, NEW j \in Revisions, status[j] \in Terminal
    PROVE  run[j] <= run'[j] /\ (status'[j] \in Terminal \/ run[j] < run'[j])
<1> DEFINE Ends == run[j] <= run'[j] /\ (status'[j] \in Terminal \/ run[j] < run'[j])
<1>1. /\ status \in [Revisions -> JobStatus] /\ run \in [Revisions -> Runs] /\ run[j] \in Nat
      /\ outcome \in [Revisions \X Runs -> Terminal \cup {"none"}]
  BY LedgerTypes DEF Runs
<1>2. ASSUME status' = status, run' = run PROVE Ends
  BY <1>1, <1>2
<1>3. ASSUME NEW h \in Handlers, RetryCommit(h) PROVE Ends
  <2>1. CASE <<handler[h].job, handler[h].run>> \in requeued \/ status[handler[h].job] # "failed"
    <3>1. status' = status /\ run' = run
      BY <1>1, <1>3, <2>1 DEF RetryCommit
    <3> QED
      BY <1>2, <3>1
  <2>2. CASE <<handler[h].job, handler[h].run>> \notin requeued /\ status[handler[h].job] = "failed"
    <3>1. handler[h].job \in Revisions /\ handler[h].run = run[handler[h].job] + 1
      BY <1>3, <2>2, RetryStartsNextRun DEF RetryCommit, IInv, TypeInv, HandlersOK
    <3>2. /\ status' = [status EXCEPT ![handler[h].job] = "queued"]
          /\ run' = [run EXCEPT ![handler[h].job] = handler[h].run]
      BY <1>3, <2>2 DEF RetryCommit
    <3> QED
      BY <1>1, <3>1, <3>2
  <2> QED
    BY <2>1, <2>2
<1>4. ASSUME NEW h \in Handlers, InsertJob(h) PROVE Ends
  <2>1. status[handler[h].job] = "absent"
    BY <1>4 DEF InsertJob, IInv, FreshRevisions
  <2> QED
    BY <1>1, <1>4, <2>1 DEF InsertJob, Terminal
<1>5. ASSUME NEW h \in Handlers, CancelQueued(h) \/ CancelFinish(h) PROVE Ends
  BY <1>1, <1>5 DEF CancelQueued, CancelFinish, Terminal
<1>6. ASSUME NEW h \in Handlers, Request(h) \/ HandlerStep(h) \/ HandlerCrash(h),
             ~RetryCommit(h), ~InsertJob(h), ~CancelQueued(h), ~CancelFinish(h)
      PROVE  status' = status /\ run' = run
  <2>1. ASSUME NEW e \in Events, AcceptLookup(h, e) PROVE status' = status /\ run' = run
    BY <2>1 DEF AcceptLookup, jobVars
  <2>2. ASSUME NEW i \in Revisions, CancelRead(h, i) \/ RetryRead(h, i)
        PROVE  status' = status /\ run' = run
    BY <2>2 DEF CancelRead, RetryRead, jobVars
  <2>3. ASSUME HandlerStep(h) \/ HandlerCrash(h) PROVE status' = status /\ run' = run
    BY <1>6, <2>3 DEF HandlerStep, ReserveRevision, ClaimDispatch, SendQueue, MarkDispatchSent,
                      MarkDispatchPending, Reply, CancelRecord, CancelRunning, HandlerCrash, jobVars
  <2> QED
    BY <1>6, <2>1, <2>2, <2>3 DEF Request
<1>7. ASSUME NEW c \in Consumers, ConsumerStep(c) \/ ConsumerCrash(c) PROVE Ends
  <2>1. CASE MarkRunning(c)
    BY <1>1, <2>1 DEF MarkRunning, Terminal
  <2>2. CASE ~MarkRunning(c)
    <3>1. status' = status /\ run' = run
      BY <1>7, <2>2 DEF ConsumerStep, ReceiveMessage, ClaimDelivery, LoadJob, StartWorkflow,
                        AckDelivery, RecordQueueRetry, ConsumerCrash, jobVars
    <3> QED
      BY <1>2, <3>1
  <2> QED
    BY <2>1, <2>2
<1>8. ASSUME NEW i \in Revisions, NEW r \in Runs, CommitPublish(i, r) PROVE Ends
  BY <1>1, <1>8 DEF CommitPublish, Terminal
<1>9. ASSUME NEW i \in Revisions, NEW r \in Runs, FinishOutcome(i, r) PROVE Ends
  <2>1. outcome[<<i, r>>] \in Terminal
    BY <1>1, <1>9 DEF FinishOutcome, IInv, TypeInv, RecordedRuns
  <2> QED
    BY <1>1, <1>9, <2>1 DEF FinishOutcome
<1>10. ASSUME NEW i \in Revisions, NEW r \in Runs, ~CommitPublish(i, r), ~FinishOutcome(i, r),
              WorkflowStep(i, r) \/ PublishTimeout(i, r) \/ WorkflowReplay(i, r)
       PROVE  status' = status /\ run' = run
  BY <1>10 DEF WorkflowStep, WorkflowStart, WorkflowCancelled, StepFails, BeginPublish,
               RecordOutcome, PublishTimeout, WorkflowReplay, jobVars
<1>11. ASSUME \/ \E i \in Revisions : LeaseExpires(i) \/ BackoffElapses(i)
              \/ \E m \in sent : DeadLetter(m)
              \/ UNCHANGED vars
       PROVE  status' = status /\ run' = run
  BY <1>11 DEF LeaseExpires, BackoffElapses, DeadLetter, vars, jobVars
<1> SUFFICES Ends
  OBVIOUS
<1> HIDE DEF Ends
<1> QED
  BY <1>2, <1>3, <1>4, <1>5, <1>6, <1>7, <1>8, <1>9, <1>10, <1>11 DEF Next, Fault

LEMMA NextAdvances ==
    ASSUME IInv, [Next]_vars
    PROVE  Advances
<1>1. ASSUME \/ \E j \in Revisions : LeaseExpires(j) \/ BackoffElapses(j)
             \/ \E m \in sent : DeadLetter(m)
             \/ UNCHANGED vars
      PROVE  UNCHANGED <<status, run, outcome>>
  BY <1>1 DEF LeaseExpires, BackoffElapses, DeadLetter, vars, jobVars, resultVars
<1> QED
  BY <1>1, HandlerStepAdvances, ConsumerStepAdvances, WorkflowStepAdvances, NothingMoves
     DEF Next, Fault

\* What was dealt with needs nothing later either.
LEMMA NothingNeeded ==
    ASSUME IInv, [Next]_vars
    PROVE  \A m \in sent : NeedsNothing(m) => NeedsNothing(m)'
<1> SUFFICES ASSUME NEW m \in sent, NeedsNothing(m) PROVE NeedsNothing(m)'
  OBVIOUS
<1>1. /\ m.job \in Revisions /\ m.run \in Runs /\ m.run <= run[m.job]
  BY QueueTypes
<1>2. m.run \in Int /\ run[m.job] \in Int /\ run'[m.job] \in Int
  <2>1. run \in [Revisions -> Runs] /\ run' \in [Revisions -> Runs]
    BY LedgerTypes, IInvStep DEF IInv, TypeInv, TypeOK, LedgerTypeOK
  <2> QED
    BY <1>1, <2>1 DEF Runs
<1>3. run[m.job] <= run'[m.job]
  BY <1>1, NextAdvances DEF Advances
<1>4. CASE workflow[m.job, m.run] # "none"
  <2>1. <<m.job, m.run>> \in Revisions \X Runs
    BY <1>1
  <2>2. workflow'[<<m.job, m.run>>] # "none"
    BY <1>4, <2>1, InstancesStay
  <2> QED
    BY <2>2 DEF NeedsNothing
<1>5. CASE status[m.job] \in Terminal
  <2>1. status'[m.job] \in Terminal \/ run[m.job] < run'[m.job]
    BY <1>1, <1>5, EndsStay
  <2>2. run[m.job] < run'[m.job] => m.run < run'[m.job]
    BY <1>1, <1>2
  <2> QED
    BY <2>1, <2>2 DEF NeedsNothing
<1>6. CASE m.run < run[m.job]
  <2>1. m.run < run'[m.job]
    BY <1>2, <1>3, <1>6
  <2> QED
    BY <2>1 DEF NeedsNothing
<1> QED
  BY <1>4, <1>5, <1>6 DEF NeedsNothing

\* A step that leaves the queue and its consumers alone.
LEMMA CustodyStays ==
    ASSUME IInv, Custody, [Next]_vars, UNCHANGED <<sent, sends, acknowledged, delivery, consumer>>
    PROVE  Custody'
<1>1. Numbered'
  BY DEF Custody, Numbered
<1>2. \A c, m : Holds(c, m)' <=> Holds(c, m)
  BY DEF Holds
<1> QED
  BY <1>1, <1>2, NothingNeeded DEF Custody

\* A message is put on the queue.
LEMMA CustodySends ==
    ASSUME IInv, Custody, [Next]_vars, NEW h \in Handlers, SendQueue(h)
    PROVE  Custody'
<1>1. UNCHANGED <<acknowledged, delivery, consumer>>
  BY DEF SendQueue
<1>2. CASE UNCHANGED <<sent, sends>>
  BY <1>1, <1>2, CustodyStays
<1>3. CASE sends < MaxSends /\ sends' = sends + 1 /\ sent' = sent \cup {NewMessage(h)}
  <2>1. sends \in Nat /\ MaxSends \in Nat /\ NewMessage(h).id = sends + 1 /\ sends + 1 \in MessageIds
    BY <1>3, QueueTypes DEF NewMessage, MessageIds
  <2>2. \A m \in sent : m.id \in Int /\ m.id <= sends /\ m.id # sends + 1
    BY <2>1, QueueTypes DEF Custody, Numbered
  <2>3. \A i \in MessageIds : i > sends + 1 => i > sends
    BY <2>1 DEF MessageIds
  <2>4. Numbered'
    <3>1. \A m \in sent' : m.id <= sends'
      BY <1>3, <2>1, <2>2
    <3>2. \A m, n \in sent' : m.id = n.id => m = n
      BY <1>3, <2>1, <2>2 DEF Custody, Numbered
    <3>3. \A i \in MessageIds : i > sends' => delivery'[i] = "none" /\ i \notin acknowledged'
      BY <1>1, <1>3, <2>1, <2>3 DEF Custody, Numbered
    <3> QED
      BY <3>1, <3>2, <3>3 DEF Numbered
  <2>5. \A c, m : Holds(c, m)' <=> Holds(c, m)
    BY <1>1 DEF Holds
  <2>6. \A c \in Consumers : ~Holds(c, NewMessage(h))
    BY <2>1, <2>2, QueueTypes DEF Holds
  <2>7. delivery[NewMessage(h).id] = "none" /\ NewMessage(h).id \notin acknowledged
    BY <2>1 DEF Custody, Numbered
  <2> QED
    BY <1>1, <1>3, <2>4, <2>5, <2>6, <2>7, NothingNeeded DEF Custody
<1> QED
  BY <1>2, <1>3 DEF SendQueue

\* A consumer goes on with its message, or leaves it dealt with or for a retry.
LEMMA HolderMoves ==
    ASSUME IInv, Custody, [Next]_vars, NEW c \in Consumers, NEW m \in sent, Holds(c, m),
           UNCHANGED <<sent, sends>>,
           NEW p, consumer' = [consumer EXCEPT ![c] = p], p.stage # "idle" => p.message = m,
           NEW d, delivery' = [delivery EXCEPT ![m.id] = d],
           DeliveryOf(p, d), d = "claimed" => p.stage # "idle",
           acknowledged' \in {acknowledged, acknowledged \cup {m.id}},
           p.stage = "ack" \/ d = "acked" \/ m.id \in acknowledged' => NeedsNothing(m)'
    PROVE  Custody'
<1>1. /\ consumer \in [Consumers -> Processing] /\ m.id \in MessageIds /\ m.id \in Int
      /\ delivery \in [MessageIds -> {"none", "claimed", "retry", "acked"}]
      /\ \A n \in sent : n.id \in MessageIds
  BY QueueTypes
<1>2. /\ consumer'[c] = p /\ delivery'[m.id] = d
      /\ \A e \in Consumers \ {c} : consumer'[e] = consumer[e]
      /\ \A i \in MessageIds \ {m.id} : delivery'[i] = delivery[i]
                                        /\ (i \in acknowledged' <=> i \in acknowledged)
  BY <1>1
<1>3. \A n \in sent : n # m => n.id # m.id
  BY DEF Custody, Numbered
<1>4. \A e \in Consumers, n \in sent : e # c => (Holds(e, n)' <=> Holds(e, n))
  BY <1>2 DEF Holds
<1>5. \A n \in sent : Holds(c, n)' => n = m
  BY <1>2 DEF Holds
<1>6. \A e \in Consumers : e # c => ~Holds(e, m)
  BY DEF Custody
<1>7. m.id <= sends
  BY DEF Custody, Numbered
<1>8. Numbered'
  <2>1. \A i \in MessageIds : i > sends => i # m.id
    BY <1>1, <1>7, QueueTypes DEF MessageIds
  <2> QED
    BY <1>2, <2>1 DEF Custody, Numbered
<1>9. \A n \in sent : n # m /\ delivery'[n.id] = "claimed" => \E e \in Consumers : Holds(e, n)'
  <2> TAKE n \in sent
  <2> SUFFICES ASSUME n # m, delivery'[n.id] = "claimed" PROVE \E e \in Consumers : Holds(e, n)'
    OBVIOUS
  <2>1. delivery[n.id] = "claimed"
    BY <1>1, <1>2, <1>3
  <2>2. PICK e \in Consumers : Holds(e, n)
    BY <2>1 DEF Custody
  <2>3. e # c
    BY <2>2 DEF Holds
  <2> QED
    BY <1>4, <2>2, <2>3
<1>10. d = "claimed" => Holds(c, m)'
  BY <1>2 DEF Holds
<1>11. \A n \in sent : n # m /\ (delivery'[n.id] = "acked" \/ n.id \in acknowledged') => NeedsNothing(n)'
  BY <1>1, <1>2, <1>3, NothingNeeded DEF Custody
<1>12. \A e \in Consumers, n \in sent : Holds(e, n)' =>
          /\ DeliveryOf(consumer'[e], delivery'[n.id])
          /\ consumer'[e].stage = "ack" => NeedsNothing(n)'
  <2> TAKE e \in Consumers, n \in sent
  <2>1. CASE e = c
    BY <1>2, <1>5, <2>1
  <2>2. CASE e # c
    BY <1>1, <1>2, <1>3, <1>4, <1>6, <2>2, NothingNeeded DEF Custody
  <2> QED
    BY <2>1, <2>2
<1>13. \A e, f \in Consumers, n \in sent : Holds(e, n)' /\ Holds(f, n)' => e = f
  BY <1>4, <1>5, <1>6 DEF Custody
<1> QED
  BY <1>2, <1>8, <1>9, <1>10, <1>11, <1>12, <1>13 DEF Custody, DeliveryOf

\* An idle consumer takes a message nobody works on, or acknowledges one that
\* was dealt with.
LEMMA CustodyReceives ==
    ASSUME IInv, Custody, [Next]_vars, "redeliver" \notin Faults,
           NEW c \in Consumers, NEW m \in sent, ReceiveMessage(c, m)
    PROVE  Custody'
<1>1. /\ UNCHANGED <<sent, sends, delivery>> /\ consumer[c].stage = "idle"
      /\ \A d \in Consumers : ~Holds(d, m)
  BY DEF ReceiveMessage, Holds
<1>2. /\ consumer \in [Consumers -> Processing] /\ m.id \in MessageIds
      /\ delivery[m.id] \in {"none", "claimed", "retry", "acked"}
  BY QueueTypes
<1>3. CASE delivery[m.id] \in {"none", "retry"} /\ acknowledged' = acknowledged
           /\ consumer' = [consumer EXCEPT ![c] =
                 [stage |-> IF delivery[m.id] = "none" THEN "insert" ELSE "reclaim", message |-> m]]
  <2>1. /\ consumer'[c] = [stage |-> IF delivery[m.id] = "none" THEN "insert" ELSE "reclaim",
                           message |-> m]
        /\ \A d \in Consumers \ {c} : consumer'[d] = consumer[d]
    BY <1>2, <1>3
  <2>2. \A n : Holds(c, n)' <=> n = m
    BY <2>1 DEF Holds
  <2>3. \A d \in Consumers : \A n : d # c => (Holds(d, n)' <=> Holds(d, n))
    BY <2>1 DEF Holds
  <2>4. ~Holds(c, m) /\ \A n : ~Holds(c, n)
    BY <1>1 DEF Holds
  <2>5. DeliveryOf(consumer'[c], delivery'[m.id]) /\ consumer'[c].stage # "ack"
    BY <1>1, <1>3, <2>1 DEF DeliveryOf
  <2>6. Numbered'
    BY <1>1, <1>3 DEF Custody, Numbered
  <2>7. \A d, e \in Consumers, n \in sent : Holds(d, n)' /\ Holds(e, n)' => d = e
    BY <1>1, <2>2, <2>3 DEF Custody
  <2>8. \A d \in Consumers, n \in sent : Holds(d, n)' =>
          /\ DeliveryOf(consumer'[d], delivery'[n.id])
          /\ consumer'[d].stage = "ack" => NeedsNothing(n)'
    <3> TAKE d \in Consumers, n \in sent
    <3>1. CASE d = c
      BY <2>2, <2>5, <3>1
    <3>2. CASE d # c
      BY <1>1, <2>1, <2>3, <3>2, NothingNeeded DEF Custody
    <3> QED
      BY <3>1, <3>2
  <2>9. \A n \in sent : delivery'[n.id] = "claimed" => \E d \in Consumers : Holds(d, n)'
    BY <1>1, <2>3, <2>4 DEF Custody
  <2>10. \A n \in sent : delivery'[n.id] = "acked" \/ n.id \in acknowledged' => NeedsNothing(n)'
    BY <1>1, <1>3, NothingNeeded DEF Custody
  <2> QED
    BY <1>1, <2>6, <2>7, <2>8, <2>9, <2>10 DEF Custody, DeliveryOf
<1>4. CASE delivery[m.id] \in {"claimed", "acked"} /\ acknowledged' = acknowledged \cup {m.id}
           /\ consumer' = consumer
  <2>1. delivery[m.id] = "acked"
    BY <1>1, <1>4 DEF Custody
  <2>2. \A d, n : Holds(d, n)' <=> Holds(d, n)
    BY <1>4 DEF Holds
  <2>3. \A n \in sent : n.id = m.id => n = m
    BY DEF Custody, Numbered
  <2>4. Numbered'
    <3>1. m.id <= sends /\ sends \in Nat /\ m.id \in Int
      BY QueueTypes DEF Custody, Numbered
    <3>2. \A i \in MessageIds : i > sends => i # m.id
      BY <3>1 DEF MessageIds
    <3> QED
      BY <1>1, <1>4, <3>2 DEF Custody, Numbered
  <2> QED
    BY <1>1, <1>4, <2>1, <2>2, <2>3, <2>4, NothingNeeded DEF Custody
<1> QED
  BY <1>3, <1>4 DEF ReceiveMessage, Ack

\* A consumer works on its message.
LEMMA CustodyWorks ==
    ASSUME IInv, Custody, [Next]_vars, NEW c \in Consumers,
           \/ ClaimDelivery(c) \/ LoadJob(c) \/ MarkRunning(c) \/ StartWorkflow(c)
           \/ AckDelivery(c) \/ RecordQueueRetry(c)
    PROVE  Custody'
<1>1. consumer[c].stage # "idle"
  BY DEF ClaimDelivery, LoadJob, MarkRunning, StartWorkflow, AckDelivery, RecordQueueRetry
<1>2. PICK m \in sent : m = consumer[c].message
  BY <1>1, QueueTypes
<1>3. PICK d : d = delivery[m.id]
  OBVIOUS
<1>4. /\ Holds(c, m) /\ consumer[c] \in Processing
      /\ m.id \in MessageIds /\ delivery \in [MessageIds -> {"none", "claimed", "retry", "acked"}]
      /\ m.job \in Revisions /\ m.run \in Runs
  BY <1>1, <1>2, QueueTypes DEF Holds
<1>5. DeliveryOf(consumer[c], d) /\ (consumer[c].stage = "ack" => NeedsNothing(m))
  BY <1>3, <1>4 DEF Custody
<1>6. UNCHANGED <<sent, sends>>
  BY DEF ClaimDelivery, LoadJob, MarkRunning, StartWorkflow, AckDelivery, RecordQueueRetry, queueVars
<1>7. ASSUME NEW s \in ConsumerStage, ConsumerTo(c, s)
      PROVE  consumer' = [consumer EXCEPT ![c] = [stage |-> s, message |-> m]]
  <2>1. [consumer[c] EXCEPT !.stage = s] = [stage |-> s, message |-> m]
    BY <1>2, <1>4 DEF Processing
  <2> QED
    BY <1>7, <2>1 DEF ConsumerTo
<1>8. delivery' = delivery /\ d = "claimed" => delivery' = [delivery EXCEPT ![m.id] = "claimed"]
  BY <1>3, <1>4
<1>9. (m.id \in acknowledged \/ NeedsNothing(m)) => NeedsNothing(m)'
  BY NothingNeeded DEF Custody
<1>10. ASSUME NEW p, consumer' = [consumer EXCEPT ![c] = p], p.stage # "idle" => p.message = m,
              NEW e, delivery' = [delivery EXCEPT ![m.id] = e],
              DeliveryOf(p, e), e = "claimed" => p.stage # "idle",
              acknowledged' \in {acknowledged, acknowledged \cup {m.id}},
              p.stage = "ack" \/ e = "acked" \/ m.id \in acknowledged' => NeedsNothing(m)'
       PROVE  Custody'
  BY <1>4, <1>6, <1>10, HolderMoves
<1>11. ASSUME NEW s \in {"load", "run", "start", "ack", "retry"}, ConsumerTo(c, s),
              delivery' = [delivery EXCEPT ![m.id] = "claimed"], acknowledged' = acknowledged,
              s = "ack" => NeedsNothing(m)'
       PROVE  Custody'
  <2> DEFINE p == [stage |-> s, message |-> m]
  <2>1. p.stage = s /\ p.message = m
    OBVIOUS
  <2>2. DeliveryOf(p, "claimed")
    BY <2>1 DEF DeliveryOf
  <2>3. p.stage = "ack" \/ "claimed" = "acked" \/ m.id \in acknowledged' => NeedsNothing(m)'
    BY <1>9, <1>11, <2>1
  <2> HIDE DEF p
  <2>4. consumer' = [consumer EXCEPT ![c] = p]
    BY <1>7, <1>11 DEF p, ConsumerStage
  <2> QED
    BY <1>10, <1>11, <2>1, <2>2, <2>3, <2>4
<1>12. ASSUME NEW e \in {"acked", "retry"}, consumer' = [consumer EXCEPT ![c] = Waiting],
              delivery' = [delivery EXCEPT ![m.id] = e],
              acknowledged' \in {acknowledged, acknowledged \cup {m.id}},
              e = "acked" \/ m.id \in acknowledged' => NeedsNothing(m)'
       PROVE  Custody'
  <2>1. Waiting.stage = "idle"
    BY DEF Waiting
  <2>2. DeliveryOf(Waiting, e)
    BY <2>1 DEF DeliveryOf
  <2> QED
    BY <1>10, <1>12, <2>1, <2>2
<1>13. CASE ClaimDelivery(c)
  <2>1. /\ consumer[c].stage \in {"insert", "reclaim"} /\ acknowledged' = acknowledged
        /\ delivery' = [delivery EXCEPT ![m.id] = "claimed"] /\ ConsumerTo(c, "load")
    BY <1>2, <1>3, <1>5, <1>13 DEF ClaimDelivery, DeliveryOf
  <2> QED
    BY <1>11, <2>1
<1>14. CASE LoadJob(c)
  <2>1. CASE status[m.job] \in Terminal
    <3>1. NeedsNothing(m)
      BY <2>1 DEF NeedsNothing
    <3>2. /\ acknowledged' = acknowledged \cup {m.id} /\ consumer' = [consumer EXCEPT ![c] = Waiting]
          /\ delivery' = [delivery EXCEPT ![m.id] = "acked"]
      BY <1>2, <1>14, <2>1 DEF LoadJob, Ack, Finish
    <3> QED
      BY <1>9, <1>12, <3>1, <3>2
  <2>2. CASE status[m.job] \notin Terminal
    <3>1. acknowledged' = acknowledged /\ delivery' = delivery /\ ConsumerTo(c, "run")
          /\ consumer[c].stage = "load"
      BY <1>2, <1>14, <2>2 DEF LoadJob
    <3>2. delivery' = [delivery EXCEPT ![m.id] = "claimed"]
      BY <1>5, <1>8, <3>1 DEF DeliveryOf
    <3> QED
      BY <1>11, <3>1, <3>2
  <2> QED
    BY <2>1, <2>2
<1>15. CASE MarkRunning(c)
  <2>1. acknowledged' = acknowledged /\ delivery' = delivery /\ ConsumerTo(c, "start")
        /\ consumer[c].stage = "run"
    BY <1>15 DEF MarkRunning, queueVars
  <2>2. delivery' = [delivery EXCEPT ![m.id] = "claimed"]
    BY <1>5, <1>8, <2>1 DEF DeliveryOf
  <2> QED
    BY <1>11, <2>1, <2>2
<1>16. CASE StartWorkflow(c)
  <2>1. acknowledged' = acknowledged /\ delivery' = delivery /\ consumer[c].stage = "start"
    BY <1>16 DEF StartWorkflow, queueVars
  <2>2. delivery' = [delivery EXCEPT ![m.id] = "claimed"]
    BY <1>5, <1>8, <2>1 DEF DeliveryOf
  <2>3. CASE ConsumerTo(c, "retry")
    BY <1>11, <2>1, <2>2, <2>3
  <2>4. CASE /\ ConsumerTo(c, "ack")
             /\ workflow' = [workflow EXCEPT ![<<m.job, m.run>>] = IF @ = "none" THEN "created" ELSE @]
    <3>1. workflow'[<<m.job, m.run>>] # "none"
      BY <1>4, <2>4, LedgerTypes
    <3>2. NeedsNothing(m)'
      BY <3>1 DEF NeedsNothing
    <3> QED
      BY <1>11, <2>1, <2>2, <2>4, <3>2
  <2> QED
    BY <1>2, <1>16, <2>3, <2>4 DEF StartWorkflow
<1>17. CASE AckDelivery(c)
  <2>1. /\ acknowledged' = acknowledged \cup {m.id} /\ consumer' = [consumer EXCEPT ![c] = Waiting]
        /\ delivery' = [delivery EXCEPT ![m.id] = "acked"] /\ consumer[c].stage = "ack"
    BY <1>2, <1>17 DEF AckDelivery, Ack, Finish
  <2> QED
    BY <1>5, <1>9, <1>12, <2>1
<1>18. CASE RecordQueueRetry(c)
  <2>1. /\ acknowledged' = acknowledged /\ consumer' = [consumer EXCEPT ![c] = Waiting]
        /\ delivery' = [delivery EXCEPT ![m.id] = "retry"]
    BY <1>2, <1>18 DEF RecordQueueRetry, Finish
  <2> QED
    BY <1>9, <1>12, <2>1
<1> QED
  BY <1>13, <1>14, <1>15, <1>16, <1>17, <1>18

\* API invocations but for their sends, instances and clocks do not touch the
\* queue.
LEMMA OthersLeaveQueue ==
    ASSUME \/ \E h \in Handlers : (Request(h) \/ HandlerStep(h) \/ HandlerCrash(h)) /\ ~SendQueue(h)
           \/ \E j \in Revisions, r \in Runs :
                WorkflowStep(j, r) \/ PublishTimeout(j, r) \/ WorkflowReplay(j, r)
           \/ \E j \in Revisions : LeaseExpires(j) \/ BackoffElapses(j)
           \/ \E m \in sent : DeadLetter(m)
           \/ UNCHANGED vars
    PROVE  UNCHANGED <<sent, sends, acknowledged, delivery, consumer>>
<1> DEFINE Left == UNCHANGED <<sent, sends, acknowledged, delivery, consumer>>
<1>1. ASSUME NEW h \in Handlers, Request(h) PROVE Left
  <2>1. ASSUME NEW e \in Events, AcceptLookup(h, e) PROVE Left
    BY <2>1 DEF AcceptLookup, queueVars
  <2>2. ASSUME NEW j \in Revisions, CancelRead(h, j) \/ RetryRead(h, j) PROVE Left
    BY <2>2 DEF CancelRead, RetryRead, queueVars
  <2> QED
    BY <1>1, <2>1, <2>2 DEF Request
<1>2. ASSUME NEW h \in Handlers, HandlerStep(h) \/ HandlerCrash(h), ~SendQueue(h) PROVE Left
  BY <1>2 DEF HandlerStep, ReserveRevision, InsertJob, ClaimDispatch, MarkDispatchSent,
              MarkDispatchPending, Reply, CancelQueued, CancelRecord, CancelFinish,
              CancelRunning, RetryCommit, HandlerCrash, queueVars
<1>3. ASSUME NEW j \in Revisions, NEW r \in Runs,
             WorkflowStep(j, r) \/ PublishTimeout(j, r) \/ WorkflowReplay(j, r)
      PROVE  Left
  BY <1>3 DEF WorkflowStep, WorkflowStart, WorkflowCancelled, StepFails, BeginPublish, CommitPublish,
              RecordOutcome, FinishOutcome, PublishTimeout, WorkflowReplay, queueVars
<1>4. ASSUME \/ \E j \in Revisions : LeaseExpires(j) \/ BackoffElapses(j)
             \/ \E m \in sent : DeadLetter(m)
             \/ UNCHANGED vars
      PROVE  Left
  BY <1>4 DEF LeaseExpires, BackoffElapses, DeadLetter, vars, queueVars
<1> SUFFICES Left
  OBVIOUS
<1> HIDE DEF Left
<1> QED
  BY <1>1, <1>2, <1>3, <1>4

(***************************************************************************)
(* The message of a run leaves the queue only when the run's workflow      *)
(* exists or nothing is left to do for it (consumeQueueMessage), as long   *)
(* as no invocation is killed and no message is delivered twice at a time: *)
(* a delivery that was claimed by an invocation that died, or by one that  *)
(* is still at work, is acknowledged unread.                               *)
(***************************************************************************)
THEOREM AckedMessagesTookEffect ==
    ASSUME "crash" \notin Faults, "redeliver" \notin Faults
    PROVE  Spec => []AckedMessageTookEffect
<1>1. Init => Custody
  BY DEF Init, Custody, Numbered, Holds, MessageIds
<1>2. IInv /\ Custody /\ [Next]_vars => Custody'
  <2> SUFFICES ASSUME IInv, Custody, [Next]_vars PROVE Custody'
    OBVIOUS
  <2>1. ASSUME NEW c \in Consumers, ConsumerStep(c) PROVE Custody'
    BY <2>1, CustodyReceives, CustodyWorks DEF ConsumerStep
  <2>2. \A c \in Consumers : ~ConsumerCrash(c)
    BY DEF ConsumerCrash
  <2> QED
    BY <2>1, <2>2, CustodySends, OthersLeaveQueue, CustodyStays DEF Next, Fault
<1>3. Custody => AckedMessageTookEffect
  BY DEF Custody, AckedMessageTookEffect
<1> QED
  BY <1>1, <1>2, <1>3, IInvInit, IInvStep, PTL DEF Spec
=============================================================================
