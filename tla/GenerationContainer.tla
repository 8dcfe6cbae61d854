------------------------- MODULE GenerationContainer -------------------------
(***************************************************************************)
(* One job's attempts on its generation container.  The Workflow's         *)
(* `normalize` step posts the five databases to the container named after  *)
(* the job (container-bridge.ts processContainerJob).  The container's     *)
(* HTTP server (cloudflare/container) runs every request on a thread of    *)
(* its own, all of them share one ContainerAdapter and its                 *)
(* MemoryArtifactStore, and a request nobody waits for any more keeps      *)
(* running: a step times out after five minutes, a request after fifteen.  *)
(*                                                                         *)
(* The seven artifacts are three kinds here, by what their content depends *)
(* on: the normalized events and features follow from the input, the model *)
(* also holds the second it was trained in, the tables the day they are    *)
(* for.  A content is the reading of the clock it holds.                   *)
(***************************************************************************)
EXTENDS Integers, Sequences

CONSTANTS
    None,
    MaxAttempts,   \* attempts of the step (WORKFLOW_STEP_POLICIES.normalize)
    Gated,         \* TRUE: the fit passes its gate and there is a model
    DayLength, MaxTime,
    MaxRestarts,   \* restarts of the container (it sleeps after ten minutes)
    MaxLost,       \* attempts the step gives up while they run
    MaxFaults      \* requests that run out of time or of anything else

(* The order in which the artifacts are stored. *)
Order == <<"events", "model", "menu">>
Kinds == {Order[i] : i \in DOMAIN Order}

Packets == [Kinds -> Nat \cup {None}]

ASSUME ContainerAssumption ==
    /\ MaxAttempts \in Nat \ {0} /\ DayLength \in Nat \ {0}
    /\ {MaxTime, MaxRestarts, MaxLost, MaxFaults} \subseteq Nat
    /\ Gated \in BOOLEAN
    /\ None \notin Nat \cup Packets

VARIABLES
    now,
    defect,    \* of the job's input, the same for every attempt
    objects,   \* MemoryArtifactStore.objects: the content under each key
    threads,   \* the request of each attempt: where it is, what it made
    answers,   \* what the container answered it
    bridge,    \* what the step's attempt is doing
    bucket,    \* the R2 artifact bucket, the manifest included
    life,      \* how often the container was started
    lost, faults

vars == <<now, defect, objects, threads, answers, bridge, bucket, life, lost, faults>>

Attempts == 1..MaxAttempts

Day == now \div DayLength

Empty == [k \in Kinds |-> None]

NoRequest == [at |-> "none", made |-> Empty, next |-> 1]

(* What may be wrong with a job's input, by the function that refuses it. *)
HeaderDefects == {"manifest header", "job kind", "play event"}

FrameDefects ==
    {"magic", "file header", "file name", "file digest", "file size", "context digest"}

ManifestDefects ==
    {"contract", "other profile's object", "other profile's key", "game mode", "raw model input"}

SettingsDefects == {"context of another profile", "settings"}

BundleDefects == {"sidecar", "stray file", "empty database"}

DatabaseDefects == {"corrupt database", "database schema"}

CatalogDefects == {"no catalog", "catalog digest", "catalog row"}

ClassificationDefects ==
    {"classification digest", "unknown source", "unparsable level", "axes incomplete",
     "entry given twice"}

AllDefects ==
    UNION {HeaderDefects, FrameDefects, ManifestDefects, SettingsDefects, BundleDefects,
           DatabaseDefects, CatalogDefects, ClassificationDefects, {"none", "no menu"}}

Init ==
    /\ now = 0
    /\ defect \in AllDefects
    /\ objects = Empty
    /\ threads = [a \in Attempts |-> NoRequest]
    /\ answers = [a \in Attempts |-> None]
    /\ bridge = [a \in Attempts |-> [at |-> "idle", next |-> 1]]
    /\ bucket = [k \in Kinds \cup {"manifest"} |-> None]
    /\ life = 0 /\ lost = 0 /\ faults = 0

Tick ==
    /\ now < MaxTime
    /\ now' = now + 1
    /\ UNCHANGED <<defect, objects, threads, answers, bridge, bucket, life, lost, faults>>

(* The step's next attempt posts the frame of the five databases. *)
Post(a) ==
    /\ bridge[a].at = "idle"
    /\ \A b \in 1..(a - 1) : bridge[b].at = "again"
    /\ bridge' = [bridge EXCEPT ![a].at = "waiting"]
    /\ threads' = [threads EXCEPT ![a].at = "receive"]
    /\ UNCHANGED <<now, defect, objects, answers, bucket, life, lost, faults>>

------------------------------------------------------------------------------
(* The handler's thread.  An answer nobody waits for is written to a closed *)
(* connection and ends the request all the same.                            *)

Answer(a, status) ==
    /\ threads' = [threads EXCEPT ![a].at = "over"]
    /\ answers' = [answers EXCEPT ![a] =
          IF bridge[a].at = "waiting"
          THEN [status |-> status, life |-> life,
                manifest |-> threads[a].made, artifacts |-> objects]
          ELSE None]

Go(a, place) ==
    /\ threads' = [threads EXCEPT ![a].at = place]
    /\ UNCHANGED answers

(* What each phase of the request refuses. *)
Refuses(place) ==
    CASE place = "receive"   -> HeaderDefects \cup FrameDefects
      [] place = "admit"     -> ManifestDefects \cup SettingsDefects
      [] place = "preflight" -> BundleDefects \cup DatabaseDefects
      [] OTHER               -> CatalogDefects \cup ClassificationDefects \cup {"no menu"}

Phase(a, place, following) ==
    /\ threads[a].at = place
    /\ IF defect \in Refuses(place) THEN Answer(a, "refused") ELSE Go(a, following)
    /\ UNCHANGED <<now, defect, objects, bridge, bucket, life, lost, faults>>

(* do_POST: the headers, the play event's profile, the frame's digests. *)
Receive(a) == Phase(a, "receive", "admit")

(* run: the manifest, the profile of the table context, the settings. *)
Admit(a) == Phase(a, "admit", "preflight")

(* The bundle directory and the integrity of the five databases. *)
Preflight(a) == Phase(a, "preflight", "core")

(* Backfill, snapshot and the play; the features; the model and its second. *)
Train(a) ==
    /\ threads[a].at = "core"
    /\ threads' = [threads EXCEPT ![a].at = "tables",
                                  ![a].made = [@ EXCEPT !["events"] = 0,
                                                        !["model"] = IF Gated THEN now ELSE 0]]
    /\ UNCHANGED <<now, defect, objects, answers, bridge, bucket, life, lost, faults>>

(* The table and classification catalogues, and the menu of the day. *)
BuildTables(a) ==
    /\ threads[a].at = "tables"
    /\ IF defect \in Refuses("tables")
       THEN Answer(a, "refused")
       ELSE /\ threads' = [threads EXCEPT ![a].at = "look", ![a].made["menu"] = Day]
            /\ UNCHANGED answers
    /\ UNCHANGED <<now, defect, objects, bridge, bucket, life, lost, faults>>

(* MemoryArtifactStore.put reads the key, compares, and only then sets it. *)
Key(a) == Order[threads[a].next]

Conflicts(a) == objects[Key(a)] \notin {None, threads[a].made[Key(a)]}

Look(a) ==
    /\ threads[a].at = "look"
    /\ IF Conflicts(a) THEN Answer(a, "conflict") ELSE Go(a, "keep")
    /\ UNCHANGED <<now, defect, objects, bridge, bucket, life, lost, faults>>

(* Mutant: the key is assigned instead of set when it is absent. *)
KeptOver(a) == [objects EXCEPT ![Key(a)] = threads[a].made[Key(a)]]

(* setdefault *)
Kept(a) ==
    IF objects[Key(a)] = None
    THEN [objects EXCEPT ![Key(a)] = threads[a].made[Key(a)]]
    ELSE objects

Keep(a) ==
    /\ threads[a].at = "keep"
    /\ objects' = Kept(a)
    /\ threads' = IF threads[a].next < Len(Order)
                  THEN [threads EXCEPT ![a].at = "look", ![a].next = @ + 1]
                  ELSE [threads EXCEPT ![a].at = "respond"]
    /\ UNCHANGED <<now, defect, answers, bridge, bucket, life, lost, faults>>

(* Mutant: the stored content is answered without its digest. *)
IntactUnchecked(a) == TRUE

(* What is stored is what the request made and its manifest lists. *)
Intact(a) == objects = threads[a].made

Respond(a) ==
    /\ threads[a].at = "respond"
    /\ Answer(a, IF Intact(a) THEN "succeeded" ELSE "unavailable")
    /\ UNCHANGED <<now, defect, objects, bridge, bucket, life, lost, faults>>

(* _check_deadline between the phases (413), any other exception (503). *)
Breaks(a) ==
    /\ faults < MaxFaults
    /\ threads[a].at \notin {"none", "over"}
    /\ \/ threads[a].at \in {"preflight", "core", "tables", "look"} /\ Answer(a, "limit")
       \/ Answer(a, "unavailable")
    /\ faults' = faults + 1
    /\ UNCHANGED <<now, defect, objects, bridge, bucket, life, lost>>

------------------------------------------------------------------------------
(* The step. *)

(* A status of 500 and above is retried, any other failure is final. *)
Outcome(status) ==
    CASE status = "succeeded"   -> "storing"
      [] status = "unavailable" -> "again"
      [] OTHER                  -> "failed"

TakeAnswer(a) ==
    /\ bridge[a].at = "waiting" /\ answers[a] # None
    /\ bridge' = [bridge EXCEPT ![a].at = Outcome(answers[a].status)]
    /\ UNCHANGED <<now, defect, objects, threads, answers, bucket, life, lost, faults>>

(* What the step stores next: the artifacts in order, then the manifest. *)
Item(a) ==
    IF bridge[a].next <= Len(Order)
    THEN <<Order[bridge[a].next], answers[a].artifacts[Order[bridge[a].next]]>>
    ELSE <<"manifest", answers[a].manifest>>

(* Mutant: what is in the bucket is taken for what should be. *)
SameWhatever(key, content) == TRUE

(* immutablePut compares the stored digest. *)
Same(key, content) == bucket[key] = content

StoreArtifact(a) ==
    LET key == Item(a)[1]  content == Item(a)[2] IN
    /\ bridge[a].at = "storing"
    /\ IF bucket[key] # None /\ ~Same(key, content)
       THEN /\ bridge' = [bridge EXCEPT ![a].at = "failed"]
            /\ UNCHANGED bucket
       ELSE /\ bucket' = IF bucket[key] = None THEN [bucket EXCEPT ![key] = content] ELSE bucket
            /\ bridge' = IF key = "manifest"
                         THEN [bridge EXCEPT ![a].at = "done"]
                         ELSE [bridge EXCEPT ![a].next = @ + 1]
    /\ UNCHANGED <<now, defect, objects, threads, answers, life, lost, faults>>

(* The step times out, or the isolate that ran it is gone. *)
Lose(a) ==
    /\ lost < MaxLost
    /\ bridge[a].at \in {"waiting", "storing"}
    /\ bridge' = [bridge EXCEPT ![a].at = "again"]
    /\ lost' = lost + 1
    /\ UNCHANGED <<now, defect, objects, threads, answers, bucket, life, faults>>

(* The container stops and starts: its store was in memory. *)
Restart ==
    /\ life < MaxRestarts
    /\ life' = life + 1
    /\ objects' = Empty
    /\ threads' = [a \in Attempts |-> IF threads[a].at = "none" THEN threads[a]
                                      ELSE [threads[a] EXCEPT !.at = "over"]]
    /\ bridge' = [a \in Attempts |-> IF bridge[a].at = "waiting" /\ answers[a] = None
                                     THEN [bridge[a] EXCEPT !.at = "again"] ELSE bridge[a]]
    /\ UNCHANGED <<now, defect, answers, bucket, lost, faults>>

Step(a) ==
    \/ Post(a) \/ Receive(a) \/ Admit(a) \/ Preflight(a) \/ Train(a) \/ BuildTables(a)
    \/ Look(a) \/ Keep(a) \/ Respond(a) \/ Breaks(a)
    \/ TakeAnswer(a) \/ StoreArtifact(a) \/ Lose(a)

Next == Tick \/ Restart \/ \E a \in Attempts : Step(a)

Spec == Init /\ [][Next]_vars

------------------------------------------------------------------------------
Succeeded(a) == answers[a] # None /\ answers[a].status = "succeeded"

(* Every variable holds what the code can put there. *)
TypeOK ==
    /\ now \in 0..MaxTime
    /\ defect \in AllDefects
    /\ objects \in Packets
    /\ \A a \in Attempts :
          /\ threads[a].made \in Packets
          /\ threads[a].next \in 1..Len(Order)
          /\ bridge[a].next \in 1..(Len(Order) + 1)
    /\ DOMAIN bucket = Kinds \cup {"manifest"}

(***************************************************************************)
(* A 200 answer carries exactly the artifacts its output manifest lists,   *)
(* although another thread may have stored the key between this thread's   *)
(* reading and setting of it (put, then do_POST's digest check).           *)
(***************************************************************************)
AnswersIntact == \A a \in Attempts : Succeeded(a) => answers[a].artifacts = answers[a].manifest

(***************************************************************************)
(* Two attempts one container answered with success were answered the same *)
(* artifacts: a key, once answered, never stands for another content.      *)
(***************************************************************************)
AnswersAgree ==
    \A a, b \in Attempts :
        Succeeded(a) /\ Succeeded(b) /\ answers[a].life = answers[b].life
            => answers[a].artifacts = answers[b].artifacts

(***************************************************************************)
(* When an attempt of the step is done, the bucket holds exactly what the  *)
(* manifest stored with it lists, whatever earlier attempts left there.    *)
(***************************************************************************)
DeliveredWhole ==
    \A a \in Attempts : bridge[a].at = "done" =>
        /\ bucket["manifest"] # None
        /\ \A k \in Kinds : bucket[k] = bucket["manifest"][k]

(***************************************************************************)
(* An attempt is idempotent (docs/architecture.md): a job whose input is   *)
(* sound is never failed for good because an earlier attempt of the same   *)
(* job had already stored its artifacts.                                   *)
(***************************************************************************)
AttemptsIdempotent ==
    \A a \in Attempts : bridge[a].at = "failed" =>
        answers[a] # None /\ answers[a].status \in {"refused", "limit"}

==============================================================================
