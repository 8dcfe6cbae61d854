---------------------- MODULE GenerationContainerProofs ----------------------
(***************************************************************************)
(* What GenerationContainer guarantees for every number of attempts,       *)
(* restarts, lost steps and faults.  The argument: a request that stores   *)
(* has made all its artifacts; a key of the container's store, once set,   *)
(* stays until the container stops; so what a successful answer carries is *)
(* the whole store of that container, then and ever after, and the step    *)
(* stores in the bucket nothing but what that answer carried.              *)
(***************************************************************************)
EXTENDS GenerationContainer, TLAPS

----------------------------------------------------------------------------
(* Types.                                                                  *)

Stages ==
    {"none", "receive", "admit", "preflight", "core", "tables", "look", "keep", "respond", "over"}

Request == [at : Stages, made : Packets, next : 1..3]

Statuses == {"succeeded", "refused", "conflict", "unavailable", "limit"}

Reply == [status : Statuses, life : Nat, manifest : Packets, artifacts : Packets]

Errand == [at : {"idle", "waiting", "storing", "again", "failed", "done"}, next : 1..4]

Types ==
    /\ now \in 0..MaxTime /\ defect \in AllDefects
    /\ objects \in Packets
    /\ threads \in [Attempts -> Request]
    /\ answers \in [Attempts -> Reply \cup {None}]
    /\ bridge \in [Attempts -> Errand]
    /\ DOMAIN bucket = {"events", "model", "menu", "manifest"}
    /\ life \in Nat

Whole(packet) == packet["events"] # None /\ packet["model"] # None /\ packet["menu"] # None

\* A request that stores has made all its artifacts.
MadeWhole ==
    \A a \in Attempts :
        /\ threads[a].at \in {"look", "keep", "respond"} => Whole(threads[a].made)
        /\ threads[a].at = "tables" =>
              threads[a].made["events"] # None /\ threads[a].made["model"] # None

\* An attempt is answered once, after it was posted and before it is stored.
AnsweredOnce ==
    \A a \in Attempts :
        /\ answers[a] # None => threads[a].at = "over"
        /\ bridge[a].at = "idle" => threads[a].at = "none"
        /\ bridge[a].at \in {"idle", "waiting"} => bridge[a].next = 1

\* A successful answer carries the whole store of its container.
AnswersWhole ==
    \A a \in Attempts : Succeeded(a) =>
        /\ answers[a].artifacts = answers[a].manifest
        /\ Whole(answers[a].artifacts)
        /\ answers[a].life <= life
        /\ answers[a].life = life => answers[a].artifacts = objects

\* What the step has stored is what it was answered.
StoredAsAnswered ==
    \A a \in Attempts : bridge[a].at \in {"storing", "done"} =>
        /\ Succeeded(a)
        /\ bridge[a].next > 1 => bucket["events"] = answers[a].artifacts["events"]
        /\ bridge[a].next > 2 => bucket["model"] = answers[a].artifacts["model"]
        /\ bridge[a].next > 3 => bucket["menu"] = answers[a].artifacts["menu"]
        /\ bridge[a].at = "done" =>
              bridge[a].next = 4 /\ bucket["manifest"] = answers[a].manifest

IInv ==
    /\ Types /\ MadeWhole /\ AnsweredOnce /\ AnswersWhole /\ AnswersAgree /\ StoredAsAnswered

LEMMA OrderIs ==
    /\ Len(Order) = 3
    /\ Order[1] = "events" /\ Order[2] = "model" /\ Order[3] = "menu"
    /\ Kinds = {"events", "model", "menu"}
<1>1. DOMAIN Order = 1..3
  BY DEF Order
<1>2. Len(Order) = 3 /\ Order[1] = "events" /\ Order[2] = "model" /\ Order[3] = "menu"
  BY DEF Order
<1> QED
  BY <1>1, <1>2 DEF Kinds

LEMMA EmptyIsPacket == Empty \in Packets /\ \A k \in Kinds : Empty[k] = None
BY DEF Empty, Packets

LEMMA InitIInv == Init => IInv
<1> SUFFICES ASSUME Init PROVE IInv
  OBVIOUS
<1>1. Types
  <2>1. NoRequest \in Request
    BY OrderIs, EmptyIsPacket DEF NoRequest, Request, Stages
  <2>2. [at |-> "idle", next |-> 1] \in Errand
    BY DEF Errand
  <2>3. DOMAIN bucket = {"events", "model", "menu", "manifest"}
    BY OrderIs DEF Init
  <2> QED
    BY <2>1, <2>2, <2>3, EmptyIsPacket, ContainerAssumption DEF Init, Types
<1>2. \A a \in Attempts : answers[a] = None /\ threads[a].at = "none" /\ bridge[a].at = "idle"
                           /\ bridge[a].next = 1
  BY DEF Init, NoRequest
<1> QED
  BY <1>1, <1>2 DEF IInv, MadeWhole, AnsweredOnce, AnswersWhole, AnswersAgree,
                    StoredAsAnswered, Succeeded

----------------------------------------------------------------------------
(* The request's thread.                                                   *)

\* Going on to another place, with the artifacts made so far.
Moves(a) ==
    /\ threads[a].at \notin {"none", "over"}
    /\ threads' \in [Attempts -> Request]
    /\ \A b \in Attempts : b # a => threads'[b] = threads[b]
    /\ threads'[a].at \notin {"none", "over"}
    /\ threads'[a].at \in {"look", "keep", "respond"} => Whole(threads'[a].made)
    /\ threads'[a].at = "tables" =>
          threads'[a].made["events"] # None /\ threads'[a].made["model"] # None
    /\ UNCHANGED <<now, defect, answers, bridge, bucket, life>>
    /\ objects' \in Packets
    /\ \A k \in {"events", "model", "menu"} : objects[k] # None => objects'[k] = objects[k]

LEMMA WholeStays ==
    ASSUME objects \in Packets, objects' \in Packets, Whole(objects),
           \A k \in {"events", "model", "menu"} : objects[k] # None => objects'[k] = objects[k]
    PROVE  objects' = objects
BY OrderIs DEF Whole, Packets

LEMMA MovesKeeps ==
    ASSUME IInv, NEW a \in Attempts, Moves(a)
    PROVE  IInv'
<1>1. Types'
  BY DEF IInv, Types, Moves
<1>2. MadeWhole'
  BY DEF IInv, MadeWhole, Moves
<1>3. AnsweredOnce'
  BY DEF IInv, AnsweredOnce, Moves
<1>4. AnswersWhole'
  <2> SUFFICES ASSUME NEW b \in Attempts, Succeeded(b)
               PROVE  /\ answers[b].artifacts = answers[b].manifest
                      /\ Whole(answers[b].artifacts)
                      /\ answers[b].life <= life
                      /\ answers[b].life = life => answers[b].artifacts = objects'
    BY DEF AnswersWhole, Succeeded, Moves, Whole
  <2>1. /\ answers[b].artifacts = answers[b].manifest
        /\ Whole(answers[b].artifacts)
        /\ answers[b].life <= life
        /\ answers[b].life = life => answers[b].artifacts = objects
    BY DEF IInv, AnswersWhole
  <2>2. ASSUME answers[b].life = life
        PROVE  objects' = objects
    <3>1. Whole(objects)
      BY <2>1, <2>2
    <3> QED
      BY <3>1, WholeStays DEF IInv, Types, Moves
  <2> QED
    BY <2>1, <2>2
<1>5. AnswersAgree'
  BY DEF IInv, AnswersAgree, Moves, Succeeded
<1>6. StoredAsAnswered'
  BY DEF IInv, StoredAsAnswered, Moves, Succeeded
<1> QED
  BY <1>1, <1>2, <1>3, <1>4, <1>5, <1>6 DEF IInv

LEMMA AnswerKeeps ==
    ASSUME IInv, NEW a \in Attempts, NEW status \in Statuses, Answer(a, status),
           threads[a].at \notin {"none", "over"},
           status = "succeeded" => threads[a].at = "respond" /\ objects = threads[a].made,
           UNCHANGED <<now, defect, objects, bridge, bucket, life>>
    PROVE  IInv'
<1> DEFINE reply == [status |-> status, life |-> life,
                     manifest |-> threads[a].made, artifacts |-> objects]
<1>1. /\ threads \in [Attempts -> Request] /\ answers \in [Attempts -> Reply \cup {None}]
      /\ objects \in Packets /\ life \in Nat
  BY DEF IInv, Types
<1>2. threads' = [threads EXCEPT ![a].at = "over"] /\ threads[a] \in Request
  BY <1>1 DEF Answer
<1>3. /\ threads' \in [Attempts -> Request] /\ threads'[a].at = "over"
      /\ \A b \in Attempts : b # a => threads'[b] = threads[b]
  BY <1>1, <1>2 DEF Request, Stages
<1>4. reply \in Reply
  BY <1>1, <1>2 DEF Reply, Request
<1>5. /\ answers' \in [Attempts -> Reply \cup {None}]
      /\ answers'[a] \in {reply, None}
      /\ \A b \in Attempts : b # a => answers'[b] = answers[b]
  <2>1. answers' = [answers EXCEPT ![a] = IF bridge[a].at = "waiting" THEN reply ELSE None]
    BY DEF Answer
  <2> HIDE DEF reply
  <2> QED
    BY <1>1, <1>4, <2>1
<1>6. Succeeded(a)' => /\ answers'[a] = reply /\ Whole(objects) /\ reply.status = "succeeded"
                       /\ reply.life = life /\ reply.artifacts = objects
                       /\ reply.manifest = objects
  BY <1>5 DEF IInv, MadeWhole, Succeeded
<1> HIDE DEF reply
<1>7. \A b \in Attempts : b # a => (Succeeded(b)' <=> Succeeded(b))
  BY <1>5 DEF Succeeded
<1>8. ~Succeeded(a) /\ bridge[a].at \notin {"storing", "done", "idle"}
  BY DEF IInv, AnsweredOnce, StoredAsAnswered, Succeeded, Types, Errand
<1>9. Types' /\ MadeWhole'
  BY <1>3, <1>5 DEF IInv, Types, MadeWhole
<1>10. AnsweredOnce'
  BY <1>3, <1>5, <1>8 DEF IInv, AnsweredOnce
<1>11. AnswersWhole'
  BY <1>1, <1>5, <1>6, <1>7 DEF IInv, AnswersWhole, Whole
<1>12. AnswersAgree'
  <2> SUFFICES ASSUME NEW b \in Attempts, NEW c \in Attempts, Succeeded(b)', Succeeded(c)',
                      answers'[b].life = answers'[c].life
               PROVE  answers'[b].artifacts = answers'[c].artifacts
    BY DEF AnswersAgree
  <2>1. \A d \in Attempts : d # a /\ Succeeded(d)' /\ answers'[d].life = life
                                => answers'[d].artifacts = objects
    BY <1>5, <1>7 DEF IInv, AnswersWhole
  <2>2. CASE b = a \/ c = a
    BY <1>6, <2>1, <2>2
  <2>3. CASE b # a /\ c # a
    BY <1>5, <1>7, <2>3 DEF IInv, AnswersAgree
  <2> QED
    BY <2>2, <2>3
<1>13. StoredAsAnswered'
  BY <1>5, <1>7, <1>8 DEF IInv, StoredAsAnswered
<1> QED
  BY <1>9, <1>10, <1>11, <1>12, <1>13 DEF IInv

LEMMA GoMoves ==
    ASSUME IInv, NEW a \in Attempts, NEW place \in Stages \ {"none", "over", "tables"},
           threads[a].at \notin {"none", "over"}, Go(a, place),
           place \in {"look", "keep", "respond"} =>
               threads[a].at \in {"look", "keep", "respond"},
           UNCHANGED <<now, defect, objects, bridge, bucket, life>>
    PROVE  Moves(a)
<1>1. threads \in [Attempts -> Request] /\ objects \in Packets /\ threads[a] \in Request
  BY DEF IInv, Types
<1>2. /\ threads' = [threads EXCEPT ![a].at = place] /\ answers' = answers
  BY DEF Go
<1>3. /\ threads' \in [Attempts -> Request] /\ threads'[a].at = place
      /\ threads'[a].made = threads[a].made
      /\ \A b \in Attempts : b # a => threads'[b] = threads[b]
  BY <1>1, <1>2 DEF Request
<1> QED
  BY <1>1, <1>2, <1>3 DEF Moves, IInv, MadeWhole

LEMMA PhaseKeeps ==
    ASSUME IInv, NEW a \in Attempts, NEW place \in {"receive", "admit", "preflight"},
           NEW following \in {"admit", "preflight", "core"}, Phase(a, place, following)
    PROVE  IInv'
<1>1. CASE Answer(a, "refused")
  BY <1>1, AnswerKeeps DEF Phase, Statuses
<1>2. CASE Go(a, following)
  BY <1>2, GoMoves, MovesKeeps DEF Phase, Stages
<1> QED
  BY <1>1, <1>2 DEF Phase

LEMMA TrainKeeps ==
    ASSUME IInv, NEW a \in Attempts, Train(a)
    PROVE  IInv'
<1> DEFINE model == IF Gated THEN now ELSE 0
           made == [threads[a].made EXCEPT !["events"] = 0, !["model"] = model]
<1>1. /\ threads \in [Attempts -> Request] /\ objects \in Packets /\ threads[a] \in Request
      /\ threads[a].made \in Packets
  BY DEF IInv, Types, Request
<1>2. model \in Nat
  BY ContainerAssumption DEF IInv, Types
<1> HIDE DEF model
<1>3. made \in Packets /\ made["events"] = 0 /\ made["model"] = model
  BY <1>1, <1>2, OrderIs DEF Packets
<1>4. threads' = [threads EXCEPT ![a] = [@ EXCEPT !.at = "tables", !.made = made]]
  BY <1>1 DEF Train, model, Request
<1> HIDE DEF made
<1>5. /\ threads' \in [Attempts -> Request] /\ threads'[a].at = "tables" /\ threads'[a].made = made
      /\ \A b \in Attempts : b # a => threads'[b] = threads[b]
  BY <1>1, <1>3, <1>4 DEF Request, Stages
<1>6. made["events"] # None /\ made["model"] # None
  BY <1>2, <1>3, ContainerAssumption
<1>7. threads[a].at = "core" /\ UNCHANGED <<now, defect, objects, answers, bridge, bucket, life>>
  BY DEF Train
<1>8. Moves(a)
  BY <1>1, <1>5, <1>6, <1>7 DEF Moves
<1> QED
  BY <1>8, MovesKeeps

LEMMA BuildTablesKeeps ==
    ASSUME IInv, NEW a \in Attempts, BuildTables(a)
    PROVE  IInv'
<1>1. CASE Answer(a, "refused")
  BY <1>1, AnswerKeeps DEF BuildTables, Statuses
<1>2. CASE threads' = [threads EXCEPT ![a].at = "look", ![a].made["menu"] = Day]
           /\ UNCHANGED answers
  <2> DEFINE made == [threads[a].made EXCEPT !["menu"] = Day]
  <2>1. /\ threads \in [Attempts -> Request] /\ objects \in Packets /\ threads[a] \in Request
        /\ threads[a].made \in Packets
    BY DEF IInv, Types, Request
  <2>2. Day \in Nat
    BY ContainerAssumption DEF IInv, Types, Day
  <2>3. /\ made \in Packets /\ made["menu"] = Day
        /\ made["events"] = threads[a].made["events"]
        /\ made["model"] = threads[a].made["model"]
    BY <2>1, <2>2, OrderIs DEF Packets
  <2>4. threads' = [threads EXCEPT ![a] = [@ EXCEPT !.at = "look", !.made = made]]
    BY <1>2, <2>1 DEF Request
  <2> HIDE DEF made
  <2>5. /\ threads' \in [Attempts -> Request] /\ threads'[a].at = "look"
        /\ threads'[a].made = made
        /\ \A b \in Attempts : b # a => threads'[b] = threads[b]
    BY <2>1, <2>3, <2>4 DEF Request, Stages
  <2>6. Whole(made)
    BY <2>2, <2>3, ContainerAssumption DEF Whole, IInv, MadeWhole, BuildTables
  <2>7. threads[a].at = "tables" /\ UNCHANGED <<now, defect, objects, answers, bridge, bucket, life>>
    BY <1>2 DEF BuildTables
  <2>8. Moves(a)
    BY <2>1, <2>5, <2>6, <2>7 DEF Moves
  <2> QED
    BY <2>8, MovesKeeps
<1> QED
  BY <1>1, <1>2 DEF BuildTables

LEMMA KeyIsKind ==
    ASSUME IInv, NEW a \in Attempts
    PROVE  Key(a) \in {"events", "model", "menu"} /\ threads[a].next \in 1..3
<1>1. threads[a].next \in 1..3
  BY DEF IInv, Types, Request
<1> QED
  BY <1>1, OrderIs DEF Key

LEMMA LookKeeps ==
    ASSUME IInv, NEW a \in Attempts, Look(a)
    PROVE  IInv'
<1>1. CASE Answer(a, "conflict")
  BY <1>1, AnswerKeeps DEF Look, Statuses
<1>2. CASE Go(a, "keep")
  BY <1>2, GoMoves, MovesKeeps DEF Look, Stages
<1> QED
  BY <1>1, <1>2 DEF Look

LEMMA KeepKeeps ==
    ASSUME IInv, NEW a \in Attempts, Keep(a)
    PROVE  IInv'
<1>1. /\ threads \in [Attempts -> Request] /\ objects \in Packets /\ threads[a] \in Request
      /\ threads[a].made \in Packets
  BY DEF IInv, Types, Request
<1>2. objects' \in Packets /\ \A k \in Kinds : objects[k] # None => objects'[k] = objects[k]
  <2>1. Key(a) \in Kinds
    BY KeyIsKind, OrderIs
  <2>2. threads[a].made[Key(a)] \in Nat \cup {None}
    BY <1>1, <2>1 DEF Packets
  <2> QED
    BY <1>1, <2>1, <2>2 DEF Keep, Kept, Packets
<1>3. /\ threads' \in [Attempts -> Request] /\ threads'[a].at \in {"look", "respond"}
      /\ threads'[a].made = threads[a].made
      /\ \A b \in Attempts : b # a => threads'[b] = threads[b]
  <2>1. CASE threads[a].next < Len(Order)
    <3>1. PICK n \in 1..3 : n = threads[a].next + 1
      BY <2>1, KeyIsKind, OrderIs
    <3>2. PICK thread : thread = [threads[a] EXCEPT !.at = "look", !.next = n]
      OBVIOUS
    <3>3. threads' = [threads EXCEPT ![a] = thread]
      BY <1>1, <2>1, <3>1, <3>2 DEF Keep, Request
    <3>4. thread \in Request /\ thread.at = "look" /\ thread.made = threads[a].made
      BY <1>1, <3>2 DEF Request, Stages
    <3> QED
      BY <1>1, <3>3, <3>4
  <2>2. CASE ~(threads[a].next < Len(Order))
    <3>1. threads' = [threads EXCEPT ![a].at = "respond"]
      BY <2>2 DEF Keep
    <3> QED
      BY <1>1, <3>1 DEF Request, Stages
  <2> QED
    BY <2>1, <2>2
<1>4. threads[a].at = "keep" /\ Whole(threads[a].made)
      /\ UNCHANGED <<now, defect, answers, bridge, bucket, life>>
  BY DEF Keep, IInv, MadeWhole
<1>5. Moves(a)
  BY <1>2, <1>3, <1>4, OrderIs DEF Moves
<1> QED
  BY <1>5, MovesKeeps

LEMMA RespondKeeps ==
    ASSUME IInv, NEW a \in Attempts, Respond(a)
    PROVE  IInv'
<1>1. CASE Intact(a)
  BY <1>1, AnswerKeeps DEF Respond, Intact, Statuses
<1>2. CASE ~Intact(a)
  BY <1>2, AnswerKeeps DEF Respond, Statuses
<1> QED
  BY <1>1, <1>2

LEMMA BreaksKeeps ==
    ASSUME IInv, NEW a \in Attempts, Breaks(a)
    PROVE  IInv'
BY AnswerKeeps DEF Breaks, Statuses

----------------------------------------------------------------------------
(* The step, and the container's life.                                     *)

LEMMA PostKeeps ==
    ASSUME IInv, NEW a \in Attempts, Post(a)
    PROVE  IInv'
<1>1. threads \in [Attempts -> Request] /\ bridge \in [Attempts -> Errand]
      /\ threads[a] \in Request /\ bridge[a] \in Errand
  BY DEF IInv, Types
<1>2. /\ bridge' \in [Attempts -> Errand] /\ bridge'[a].at = "waiting"
      /\ bridge'[a].next = bridge[a].next
      /\ \A b \in Attempts : b # a => bridge'[b] = bridge[b]
  BY <1>1 DEF Post, Errand
<1>3. /\ threads' \in [Attempts -> Request] /\ threads'[a].at = "receive"
      /\ \A b \in Attempts : b # a => threads'[b] = threads[b]
  BY <1>1 DEF Post, Request, Stages
<1>4. answers[a] = None /\ UNCHANGED <<now, defect, objects, answers, bucket, life>>
  BY DEF IInv, AnsweredOnce, Post
<1>5. Types' /\ MadeWhole' /\ AnsweredOnce'
  BY <1>2, <1>3, <1>4 DEF IInv, Types, MadeWhole, AnsweredOnce, Post
<1>6. AnswersWhole' /\ AnswersAgree' /\ StoredAsAnswered'
  BY <1>2, <1>4 DEF IInv, AnswersWhole, AnswersAgree, StoredAsAnswered, Succeeded, Whole
<1> QED
  BY <1>5, <1>6 DEF IInv

LEMMA TakeAnswerKeeps ==
    ASSUME IInv, NEW a \in Attempts, TakeAnswer(a)
    PROVE  IInv'
<1>1. bridge \in [Attempts -> Errand] /\ bridge[a] \in Errand
  BY DEF IInv, Types
<1>2. UNCHANGED <<now, defect, objects, threads, answers, bucket, life>>
  BY DEF TakeAnswer
<1>3. Outcome(answers[a].status) \in {"storing", "again", "failed"}
      /\ (Outcome(answers[a].status) = "storing" => Succeeded(a))
  BY DEF TakeAnswer, Outcome, Succeeded
<1>4. /\ bridge' \in [Attempts -> Errand] /\ bridge'[a].at = Outcome(answers[a].status)
      /\ bridge'[a].next = bridge[a].next
      /\ \A b \in Attempts : b # a => bridge'[b] = bridge[b]
  BY <1>1, <1>3 DEF TakeAnswer, Errand
<1>5. bridge[a].next = 1
  BY DEF IInv, AnsweredOnce, TakeAnswer
<1> HIDE DEF Outcome
<1>6. Types' /\ MadeWhole' /\ AnswersWhole' /\ AnswersAgree'
  BY <1>2, <1>4 DEF IInv, Types, MadeWhole, AnswersWhole, AnswersAgree, Succeeded, Whole
<1>7. AnsweredOnce' /\ StoredAsAnswered'
  BY <1>2, <1>3, <1>4, <1>5 DEF IInv, AnsweredOnce, StoredAsAnswered, Succeeded
<1> QED
  BY <1>6, <1>7 DEF IInv

\* The step's attempt ends, or it stores the item that is next.
LEMMA GivenUpKeeps ==
    ASSUME IInv, bridge' \in [Attempts -> Errand],
           \A b \in Attempts : bridge'[b] = bridge[b] \/ bridge'[b].at \in {"again", "failed"},
           UNCHANGED <<now, defect, objects, threads, answers, bucket, life>>
    PROVE  IInv'
<1>1. Types' /\ MadeWhole' /\ AnswersWhole' /\ AnswersAgree'
  BY DEF IInv, Types, MadeWhole, AnswersWhole, AnswersAgree, Succeeded, Whole
<1>2. AnsweredOnce' /\ StoredAsAnswered'
  BY DEF IInv, AnsweredOnce, StoredAsAnswered, Succeeded
<1> QED
  BY <1>1, <1>2 DEF IInv

LEMMA StoreArtifactKeeps ==
    ASSUME IInv, NEW a \in Attempts, StoreArtifact(a)
    PROVE  IInv'
<1> DEFINE key == Item(a)[1]
           content == Item(a)[2]
<1>1. bridge \in [Attempts -> Errand] /\ bridge[a] \in Errand /\ bridge[a].at = "storing"
  BY DEF IInv, Types, StoreArtifact
<1>2. /\ bridge[a].next = 1 => key = "events" /\ content = answers[a].artifacts["events"]
      /\ bridge[a].next = 2 => key = "model" /\ content = answers[a].artifacts["model"]
      /\ bridge[a].next = 3 => key = "menu" /\ content = answers[a].artifacts["menu"]
      /\ bridge[a].next = 4 => key = "manifest" /\ content = answers[a].manifest
  BY OrderIs DEF Item
<1>3. bridge[a].next \in 1..4
  BY <1>1 DEF Errand
<1>4. UNCHANGED <<now, defect, objects, threads, answers, life>>
  BY DEF StoreArtifact
<1>5. CASE bucket[key] # None /\ ~Same(key, content)
  <2>1. bridge' = [bridge EXCEPT ![a].at = "failed"] /\ bucket' = bucket
    BY <1>5 DEF StoreArtifact
  <2>2. /\ bridge' \in [Attempts -> Errand]
        /\ \A b \in Attempts : bridge'[b] = bridge[b] \/ bridge'[b].at \in {"again", "failed"}
    BY <1>1, <2>1 DEF Errand
  <2> QED
    BY <1>4, <2>1, <2>2, GivenUpKeeps
<1>6. CASE ~(bucket[key] # None /\ ~Same(key, content))
  <2>1. /\ bucket' = IF bucket[key] = None THEN [bucket EXCEPT ![key] = content] ELSE bucket
        /\ bridge' = IF key = "manifest" THEN [bridge EXCEPT ![a].at = "done"]
                     ELSE [bridge EXCEPT ![a].next = @ + 1]
    BY <1>6 DEF StoreArtifact
  <2>2. key \in {"events", "model", "menu", "manifest"}
    BY <1>2, <1>3
  <2> HIDE DEF key, content
  <2>3. /\ DOMAIN bucket' = {"events", "model", "menu", "manifest"}
        /\ bucket'[key] = content
        /\ \A k \in {"events", "model", "menu", "manifest"} :
              bucket'[k] = bucket[k] \/ (k = key /\ bucket[k] = None)
    <3>1. DOMAIN bucket = {"events", "model", "menu", "manifest"}
      BY DEF IInv, Types
    <3>2. CASE bucket[key] = None
      BY <2>1, <2>2, <3>1, <3>2
    <3>3. CASE bucket[key] # None
      BY <1>6, <2>1, <2>2, <3>1, <3>3 DEF Same
    <3> QED
      BY <3>2, <3>3
  <2>4. /\ bridge' \in [Attempts -> Errand]
        /\ \A b \in Attempts : b # a => bridge'[b] = bridge[b]
        /\ key = "manifest" => bridge'[a].at = "done" /\ bridge'[a].next = bridge[a].next
        /\ key # "manifest" => bridge'[a].at = "storing" /\ bridge'[a].next = bridge[a].next + 1
    <3>1. CASE key = "manifest"
      <4>1. bridge' = [bridge EXCEPT ![a].at = "done"]
        BY <2>1, <3>1
      <4> QED
        BY <1>1, <3>1, <4>1 DEF Errand
    <3>2. CASE key # "manifest"
      <4>1. bridge' = [bridge EXCEPT ![a].next = @ + 1]
        BY <2>1, <3>2
      <4>2. bridge[a].next + 1 \in 1..4
        BY <1>2, <1>3, <3>2
      <4> QED
        BY <1>1, <3>2, <4>1, <4>2 DEF Errand
    <3> QED
      BY <3>1, <3>2
  <2>5. Types' /\ MadeWhole' /\ AnswersWhole' /\ AnswersAgree'
    BY <1>4, <2>3, <2>4 DEF IInv, Types, MadeWhole, AnswersWhole, AnswersAgree, Succeeded, Whole
  <2>6. AnsweredOnce'
    BY <1>1, <1>4, <2>4 DEF IInv, AnsweredOnce
  <2>7. Succeeded(a)
        /\ (bridge[a].next > 1 => bucket["events"] = answers[a].artifacts["events"])
        /\ (bridge[a].next > 2 => bucket["model"] = answers[a].artifacts["model"])
        /\ (bridge[a].next > 3 => bucket["menu"] = answers[a].artifacts["menu"])
    BY <1>1 DEF IInv, StoredAsAnswered
  <2>8. \A b \in Attempts : Succeeded(b) => Whole(answers[b].artifacts)
                                          /\ answers[b].manifest = answers[b].artifacts
                                          /\ answers[b].manifest # None
    <3> SUFFICES ASSUME NEW b \in Attempts, Succeeded(b)
                 PROVE  /\ Whole(answers[b].artifacts)
                        /\ answers[b].manifest = answers[b].artifacts
                        /\ answers[b].manifest # None
      OBVIOUS
    <3>1. answers[b] \in Reply
      BY DEF IInv, Types, Succeeded
    <3> QED
      BY <3>1, ContainerAssumption DEF IInv, AnswersWhole, Reply
  <2>9. StoredAsAnswered'
    <3> SUFFICES ASSUME NEW b \in Attempts, bridge'[b].at \in {"storing", "done"}
                 PROVE  /\ Succeeded(b)
                        /\ bridge'[b].next > 1 => bucket'["events"] = answers[b].artifacts["events"]
                        /\ bridge'[b].next > 2 => bucket'["model"] = answers[b].artifacts["model"]
                        /\ bridge'[b].next > 3 => bucket'["menu"] = answers[b].artifacts["menu"]
                        /\ bridge'[b].at = "done" =>
                              bridge'[b].next = 4 /\ bucket'["manifest"] = answers[b].manifest
      BY <1>4 DEF StoredAsAnswered, Succeeded
    <3>1. CASE b = a
      <4>1. CASE key = "manifest"
        BY <1>2, <1>3, <2>3, <2>4, <2>7, <2>8, <3>1, <4>1 DEF Whole
      <4>2. CASE key # "manifest"
        BY <1>2, <1>3, <2>3, <2>4, <2>7, <2>8, <3>1, <4>2 DEF Whole
      <4> QED
        BY <4>1, <4>2
    <3>2. CASE b # a
      <4>1. /\ Succeeded(b)
            /\ bridge[b].next > 1 => bucket["events"] = answers[b].artifacts["events"]
            /\ bridge[b].next > 2 => bucket["model"] = answers[b].artifacts["model"]
            /\ bridge[b].next > 3 => bucket["menu"] = answers[b].artifacts["menu"]
            /\ bridge[b].at = "done" => bridge[b].next = 4 /\ bucket["manifest"] = answers[b].manifest
            /\ bridge'[b] = bridge[b]
        BY <2>4, <3>2 DEF IInv, StoredAsAnswered
      <4> QED
        BY <2>3, <2>8, <4>1 DEF Whole
    <3> QED
      BY <3>1, <3>2
  <2> QED
    BY <2>5, <2>6, <2>9 DEF IInv
<1> QED
  BY <1>5, <1>6

LEMMA LoseKeeps ==
    ASSUME IInv, NEW a \in Attempts, Lose(a)
    PROVE  IInv'
<1>1. bridge \in [Attempts -> Errand] /\ bridge[a] \in Errand
  BY DEF IInv, Types
<1>2. /\ bridge' \in [Attempts -> Errand]
      /\ \A b \in Attempts : bridge'[b] = bridge[b] \/ bridge'[b].at \in {"again", "failed"}
  BY <1>1 DEF Lose, Errand
<1> QED
  BY <1>2, GivenUpKeeps DEF Lose

LEMMA RestartKeeps ==
    ASSUME IInv, Restart
    PROVE  IInv'
<1>1. /\ bridge \in [Attempts -> Errand] /\ threads \in [Attempts -> Request] /\ life \in Nat
  BY DEF IInv, Types
<1>2. /\ bridge' \in [Attempts -> Errand]
      /\ \A b \in Attempts : bridge'[b] = bridge[b] \/ bridge'[b].at = "again"
  <2>1. \A b \in Attempts : bridge[b] \in Errand /\ [bridge[b] EXCEPT !.at = "again"] \in Errand
                            /\ [bridge[b] EXCEPT !.at = "again"].at = "again"
    BY <1>1 DEF Errand
  <2> QED
    BY <2>1 DEF Restart
<1>3. /\ threads' \in [Attempts -> Request]
      /\ \A b \in Attempts : threads'[b] = threads[b] \/ threads'[b].at = "over"
      /\ \A b \in Attempts : threads[b].at \in {"none", "over"} => threads'[b].at = threads[b].at
  <2>1. \A b \in Attempts : threads[b] \in Request /\ [threads[b] EXCEPT !.at = "over"] \in Request
                            /\ [threads[b] EXCEPT !.at = "over"].at = "over"
    BY <1>1 DEF Request, Stages
  <2> QED
    BY <2>1 DEF Restart
<1>4. /\ objects' = Empty /\ life' = life + 1
      /\ UNCHANGED <<now, defect, answers, bucket>>
  BY DEF Restart
<1>5. Types' /\ MadeWhole' /\ AnsweredOnce'
  BY <1>1, <1>2, <1>3, <1>4, EmptyIsPacket DEF IInv, Types, MadeWhole, AnsweredOnce
<1>6. AnswersWhole'
  <2>1. \A b \in Attempts : Succeeded(b) => answers[b].life \in Nat
    BY DEF IInv, Types, Succeeded, Reply
  <2> QED
    BY <1>1, <1>4, <2>1 DEF IInv, AnswersWhole, Succeeded, Whole
<1>7. AnswersAgree' /\ StoredAsAnswered'
  BY <1>2, <1>4 DEF IInv, AnswersAgree, StoredAsAnswered, Succeeded
<1> QED
  BY <1>5, <1>6, <1>7 DEF IInv

LEMMA TickKeeps ==
    ASSUME IInv, now' \in 0..MaxTime,
           UNCHANGED <<defect, objects, threads, answers, bridge, bucket, life>>
    PROVE  IInv'
<1>1. Types' /\ MadeWhole' /\ AnsweredOnce'
  BY DEF IInv, Types, MadeWhole, AnsweredOnce
<1>2. AnswersWhole' /\ AnswersAgree' /\ StoredAsAnswered'
  BY DEF IInv, AnswersWhole, AnswersAgree, StoredAsAnswered, Succeeded, Whole
<1> QED
  BY <1>1, <1>2 DEF IInv

LEMMA NextKeeps == IInv /\ [Next]_vars => IInv'
<1> SUFFICES ASSUME IInv, [Next]_vars
             PROVE  IInv'
  OBVIOUS
<1>1. CASE Tick
  <2>1. now' \in 0..MaxTime
    BY <1>1, ContainerAssumption DEF Tick, IInv, Types
  <2> QED
    BY <1>1, <2>1, TickKeeps DEF Tick
<1>2. CASE Restart
  BY <1>2, RestartKeeps
<1>3. ASSUME NEW a \in Attempts, Step(a)
      PROVE  IInv'
  <2>1. CASE Receive(a) \/ Admit(a) \/ Preflight(a)
    BY <2>1, PhaseKeeps DEF Receive, Admit, Preflight
  <2>2. CASE Post(a) \/ TakeAnswer(a) \/ StoreArtifact(a) \/ Lose(a)
    BY <2>2, PostKeeps, TakeAnswerKeeps, StoreArtifactKeeps, LoseKeeps
  <2>3. CASE Train(a) \/ BuildTables(a) \/ Look(a) \/ Keep(a) \/ Respond(a) \/ Breaks(a)
    BY <2>3, TrainKeeps, BuildTablesKeeps, LookKeeps, KeepKeeps, RespondKeeps, BreaksKeeps
  <2> QED
    BY <1>3, <2>1, <2>2, <2>3 DEF Step
<1>4. CASE UNCHANGED vars
  <2>1. now' \in 0..MaxTime
    BY <1>4 DEF vars, IInv, Types
  <2> QED
    BY <1>4, <2>1, TickKeeps DEF vars
<1> QED
  BY <1>1, <1>2, <1>3, <1>4 DEF Next

LEMMA SpecIInv == Spec => []IInv
BY InitIInv, NextKeeps, PTL DEF Spec

----------------------------------------------------------------------------

(***************************************************************************)
(* Every variable holds what the code can put there.                       *)
(***************************************************************************)
THEOREM TypesHold == Spec => []TypeOK
<1>1. IInv => TypeOK
  BY OrderIs DEF IInv, Types, Request, Errand, TypeOK
<1> QED
  BY <1>1, SpecIInv, PTL

(***************************************************************************)
(* A 200 answer carries exactly the artifacts its output manifest lists    *)
(* (put, then do_POST's digest check).                                     *)
(***************************************************************************)
THEOREM AnswersAreIntact == Spec => []AnswersIntact
<1>1. IInv => AnswersIntact
  BY DEF IInv, AnswersWhole, AnswersIntact
<1> QED
  BY <1>1, SpecIInv, PTL

(***************************************************************************)
(* Two attempts one container answered with success were answered the same *)
(* artifacts (MemoryArtifactStore.put).                                    *)
(***************************************************************************)
THEOREM OneContainerOneAnswer == Spec => []AnswersAgree
<1>1. IInv => AnswersAgree
  BY DEF IInv
<1> QED
  BY <1>1, SpecIInv, PTL

(***************************************************************************)
(* When the step is done, the bucket holds exactly what the manifest       *)
(* stored with it lists (processContainerJob, immutablePut).               *)
(***************************************************************************)
THEOREM StepsDeliverTheWhole == Spec => []DeliveredWhole
<1>1. ASSUME IInv
      PROVE  DeliveredWhole
  <2> SUFFICES ASSUME NEW a \in Attempts, bridge[a].at = "done"
               PROVE  /\ bucket["manifest"] # None
                      /\ \A k \in Kinds : bucket[k] = bucket["manifest"][k]
    BY DEF DeliveredWhole
  <2>1. /\ Succeeded(a) /\ bridge[a].next = 4
        /\ bucket["events"] = answers[a].artifacts["events"]
        /\ bucket["model"] = answers[a].artifacts["model"]
        /\ bucket["menu"] = answers[a].artifacts["menu"]
        /\ bucket["manifest"] = answers[a].manifest
        /\ answers[a].manifest = answers[a].artifacts
    BY <1>1 DEF IInv, StoredAsAnswered, AnswersWhole
  <2>2. answers[a] \in Reply
    BY <1>1, <2>1 DEF IInv, Types, Succeeded
  <2>3. answers[a].manifest # None
    BY <2>2, ContainerAssumption DEF Reply
  <2> QED
    BY <2>1, <2>3, OrderIs
<1> QED
  BY <1>1, SpecIInv, PTL

==============================================================================
