--------------------------- MODULE UploadProtocol ---------------------------
(***************************************************************************)
(* The five-database upload of worker/src/upload-protocol.ts over the D1   *)
(* store of worker/src/upload-store.ts and an R2 bucket.                   *)
(*                                                                         *)
(* One profile scope is modelled; nothing is shared between two.  Every    *)
(* await on D1 or R2 ends an action, but hydrate's queries are one read,   *)
(* INSERT OR IGNORE and the SELECT after it are one step, and the parts of *)
(* a file are one part: rows of a session and of upload_dedup only grow.   *)
(* An upload id is the position of its row in upload_sessions.             *)
(*                                                                         *)
(* R2 is external: a multipart is completed or aborted once and throws     *)
(* afterwards, completing one replaces the object under its key.           *)
(***************************************************************************)
EXTENDS Integers, FiniteSets

CONSTANTS
    Manifests,    \* manifests, told apart by their digest
    FileCount,    \* files of a manifest, handled in this order
    Names,        \* (month, manifest_id) pairs, chosen by the client
    NameOf,       \* the name a manifest carries
    Contents,     \* (sha256, size) pairs of files
    ContentOf,    \* the content a manifest declares for each file
    None,
    Actors,       \* concurrent Worker invocations
    MaxSessions,  \* bound: rows of upload_sessions
    MaxExpired,   \* bound: sessions that outlive their expiry unfinished
    Operations,   \* what clients and operators call
    Overlapping,  \* pairs of operations that may run at once on one manifest
    Faults        \* which failures happen

AllOperations == {"start", "part", "complete", "abort", "cleanup"}
AllFaults == {"crash", "corrupt", "checksum", "r2"}

ASSUME UploadAssumption ==
    /\ FileCount \in Nat \ {0} /\ MaxSessions \in Nat /\ MaxExpired \in Nat
    /\ ContentOf \in [Manifests -> [1..FileCount -> Contents]]
    /\ NameOf \in [Manifests -> Names]
    /\ None \notin Manifests \cup Names
    /\ Operations \subseteq AllOperations
    /\ Overlapping \subseteq SUBSET AllOperations
    /\ Faults \subseteq AllFaults

Files == 1..FileCount
Sessions == 1..MaxSessions

\* uploads/v1/<scope>/<month>/<manifest id>/<file name>: the object is named
\* after the manifest's own id, not after the upload or the digest.
Keys == Names \X Files

VARIABLES
    count,      \* rows of upload_sessions
    manifest,   \* upload_sessions.manifest_sha256
    state,      \* upload_sessions.state
    expired,    \* upload_sessions.expires_at <= now
    fileState,  \* upload_files.state
    objectKey,  \* upload_files.object_key, as the <<name, file>> it stands for
    owned,      \* upload_files.created_object_key, r2_upload_id, encryption set
    part,       \* upload_parts: "none", or what the bytes turn out to be
    multipart,  \* R2 multipart uploads
    objects,    \* R2: the session whose multipart made the object, 0 if none
    dedup,      \* upload_dedup: the key registered for a content
    actor       \* what each invocation is doing

rowVars == <<count, manifest, state, expired>>
fileVars == <<fileState, objectKey, owned, part>>
bucketVars == <<multipart, objects>>
vars == <<rowVars, fileVars, bucketVars, dedup, actor>>

NoKey == <<None, 0>>

Stage == {"idle", "open", "insert", "markDeduplicated", "send", "abortPart",
          "record", "markAbortedPart", "file", "verify", "register", "drop",
          "markFile", "refresh", "finish", "scan", "abortFile", "sweep", "markAborted"}

\* todo: the files still to handle in this pass over the session's files;
\* required: those that were upload_required, present: those that had parts
\* when the session was read; hits: files found in upload_dedup by start;
\* keys: what cleanupSessionObjects is going to delete.
Invocation == [op : AllOperations \cup {"none"}, stage : Stage,
               manifest : Manifests \cup {None}, id : 0..MaxSessions,
               file : 0..FileCount, todo : SUBSET Files, required : SUBSET Files,
               present : SUBSET Files, hits : [Files -> Keys \cup {NoKey}],
               ref : Keys \cup {NoKey}, bytes : {"none", "good", "corrupt"},
               keys : SUBSET Keys]

NoHits == [f \in Files |-> NoKey]
Idle == [op |-> "none", stage |-> "idle", manifest |-> None, id |-> 0,
         file |-> 0, todo |-> {}, required |-> {}, present |-> {},
         hits |-> NoHits, ref |-> NoKey, bytes |-> "none", keys |-> {}]

TypeOK ==
    /\ count \in 0..MaxSessions
    /\ manifest \in [Sessions -> Manifests \cup {None}]
    /\ state \in [Sessions -> {"absent", "active", "completed", "aborted", "expired"}]
    /\ expired \in [Sessions -> BOOLEAN]
    /\ fileState \in [Sessions \X Files ->
                        {"none", "upload_required", "deduplicated", "completed"}]
    /\ objectKey \in [Sessions \X Files -> Keys \cup {NoKey}]
    /\ owned \in [Sessions \X Files -> BOOLEAN]
    /\ part \in [Sessions \X Files -> {"none", "good", "corrupt"}]
    /\ multipart \in [Sessions \X Files -> {"none", "open", "completed", "aborted"}]
    /\ objects \in [Keys -> 0..MaxSessions]
    /\ dedup \in [Contents -> Keys \cup {NoKey}]
    /\ actor \in [Actors -> Invocation]

Init ==
    /\ count = 0
    /\ manifest = [s \in Sessions |-> None]
    /\ state = [s \in Sessions |-> "absent"]
    /\ expired = [s \in Sessions |-> FALSE]
    /\ fileState = [x \in Sessions \X Files |-> "none"]
    /\ objectKey = [x \in Sessions \X Files |-> NoKey]
    /\ owned = [x \in Sessions \X Files |-> FALSE]
    /\ part = [x \in Sessions \X Files |-> "none"]
    /\ multipart = [x \in Sessions \X Files |-> "none"]
    /\ objects = [k \in Keys |-> 0]
    /\ dedup = [c \in Contents |-> NoKey]
    /\ actor = [a \in Actors |-> Idle]

First(files) == CHOOSE f \in files : \A g \in files : f <= g
Live == {s \in 1..count : state[s] \in {"active", "completed"}}
Usable(s) == state[s] = "active" /\ ~expired[s]
Key(s, f) == <<NameOf[manifest[s]], f>>
Content(s, f) == ContentOf[manifest[s]][f]

Required(s) == {f \in Files : fileState[<<s, f>>] = "upload_required"}
Present(s) == {f \in Files : part[<<s, f>>] # "none"}

GoTo(a, stage) == actor' = [actor EXCEPT ![a].stage = stage]
Return(a) == actor' = [actor EXCEPT ![a] = Idle]

\* The environment: which invocations may work on manifest m at once.
MayBegin(a, op, m) ==
    /\ op \in Operations
    /\ actor[a].stage = "idle"
    /\ \A b \in Actors \ {a} : actor[b].manifest = m =>
         {op, actor[b].op} \in Overlapping

\* getSession: what an operation of an existing session keeps of its rows.
Read(op, stage, s) ==
    [Idle EXCEPT !.op = op, !.stage = stage, !.manifest = manifest[s], !.id = s,
                 !.todo = Files, !.required = Required(s), !.present = Present(s)]

----------------------------------------------------------------------------
(* start                                                                   *)

\* findSessionByManifest.  A live session is returned, or refused with 410
\* once it has expired; neither changes anything.
StartRead(a, m) ==
    /\ MayBegin(a, "start", m)
    /\ ~\E s \in Live : manifest[s] = m
    /\ actor' = [actor EXCEPT ![a] =
          [Idle EXCEPT !.op = "start", !.stage = "open", !.manifest = m, !.todo = Files]]
    /\ UNCHANGED <<rowVars, fileVars, bucketVars, dedup>>

\* findDedup for the next file; without a hit a multipart is created, which
\* nobody else knows of before the session is stored.
OpenFile(a) ==
    LET f == First(actor[a].todo)
        m == actor[a].manifest
    IN /\ actor[a].stage = "open"
       /\ actor' = [actor EXCEPT ![a].todo = @ \ {f},
                                 ![a].hits[f] = dedup[ContentOf[m][f]],
                                 ![a].stage = IF actor[a].todo = {f} THEN "insert" ELSE @]
       /\ UNCHANGED <<rowVars, fileVars, bucketVars, dedup>>

\* createSession's batch.  The partial UNIQUE index on live manifests lets one
\* of two concurrent starts in; the other aborts the multiparts it created.
CreateSession(a) ==
    LET m == actor[a].manifest
        s == count + 1
        hit(f) == actor[a].hits[f] # NoKey
        mine(x) == x[1] = s
    IN /\ actor[a].stage = "insert"
       /\ \/ /\ ~\E t \in Live : manifest[t] = m
             /\ count < MaxSessions
             /\ count' = s
             /\ manifest' = [manifest EXCEPT ![s] = m]
             /\ state' = [state EXCEPT ![s] = "active"]
             /\ fileState' = [x \in Sessions \X Files |->
                   IF ~mine(x) THEN fileState[x]
                   ELSE IF hit(x[2]) THEN "deduplicated" ELSE "upload_required"]
             /\ objectKey' = [x \in Sessions \X Files |->
                   IF ~mine(x) THEN objectKey[x]
                   ELSE IF hit(x[2]) THEN actor[a].hits[x[2]] ELSE <<NameOf[m], x[2]>>]
             /\ owned' = [x \in Sessions \X Files |-> IF mine(x) THEN ~hit(x[2]) ELSE owned[x]]
             /\ multipart' = [x \in Sessions \X Files |->
                   IF mine(x) /\ ~hit(x[2]) THEN "open" ELSE multipart[x]]
             /\ IF \A f \in Files : hit(f)
                THEN actor' = [actor EXCEPT ![a].stage = "markDeduplicated", ![a].id = s]
                ELSE Return(a)
          \/ /\ \E t \in Live : manifest[t] = m
             /\ Return(a)
             /\ UNCHANGED <<count, manifest, state, fileState, objectKey, owned, multipart>>
       /\ UNCHANGED <<expired, part, objects, dedup>>

\* Every file was known: the session is completed at once.
MarkDeduplicated(a) ==
    LET s == actor[a].id IN
    /\ actor[a].stage = "markDeduplicated"
    /\ state' = [state EXCEPT ![s] = IF @ = "active" THEN "completed" ELSE @]
    /\ Return(a)
    /\ UNCHANGED <<count, manifest, expired, fileVars, bucketVars, dedup>>

----------------------------------------------------------------------------
(* uploadPart                                                              *)

\* A part that was recorded before is answered "duplicate" without an upload.
PartRead(a, s, f) ==
    /\ MayBegin(a, "part", manifest[s])
    /\ Usable(s)
    /\ f \in Required(s) \ Present(s)
    /\ actor' = [actor EXCEPT ![a] = [Read("part", "send", s) EXCEPT !.file = f]]
    /\ UNCHANGED <<rowVars, fileVars, bucketVars, dedup>>

\* The bytes reach R2: the file's, some that changed after it was hashed, or
\* some that contradict X-Part-SHA256.  An R2 failure answers 502.
SendPart(a) ==
    LET x == <<actor[a].id, actor[a].file>> IN
    /\ actor[a].stage = "send"
    /\ \/ /\ multipart[x] = "open"
          /\ \/ \E bytes \in {"good", "corrupt"} :
                  /\ bytes = "corrupt" => "corrupt" \in Faults
                  /\ actor' = [actor EXCEPT ![a].stage = "record", ![a].bytes = bytes]
             \/ "checksum" \in Faults /\ GoTo(a, "abortPart")
       \/ /\ multipart[x] # "open" \/ "r2" \in Faults
          /\ Return(a)
    /\ UNCHANGED <<rowVars, fileVars, bucketVars, dedup>>

AbortPart(a) ==
    LET x == <<actor[a].id, actor[a].file>> IN
    /\ actor[a].stage = "abortPart"
    /\ \/ multipart' = [multipart EXCEPT ![x] = IF @ = "open" THEN "aborted" ELSE @]
       \/ "r2" \in Faults /\ UNCHANGED multipart
    /\ GoTo(a, "markAbortedPart")
    /\ UNCHANGED <<rowVars, fileVars, objects, dedup>>

\* markAborted: the other files' multiparts and objects are left alone.
MarkAbortedPart(a) ==
    LET s == actor[a].id IN
    /\ actor[a].stage = "markAbortedPart"
    /\ state' = [state EXCEPT ![s] = IF @ = "active" THEN "aborted" ELSE @]
    /\ Return(a)
    /\ UNCHANGED <<count, manifest, expired, fileVars, bucketVars, dedup>>

\* recordPart does not look at the session's state.
RecordPart(a) ==
    LET x == <<actor[a].id, actor[a].file>> IN
    /\ actor[a].stage = "record"
    /\ part' = [part EXCEPT ![x] = IF @ = "none" THEN actor[a].bytes ELSE @]
    /\ Return(a)
    /\ UNCHANGED <<rowVars, fileState, objectKey, owned, bucketVars, dedup>>

----------------------------------------------------------------------------
(* complete                                                                *)

CompleteRead(a, s) ==
    /\ MayBegin(a, "complete", manifest[s])
    /\ Usable(s)
    /\ actor' = [actor EXCEPT ![a] =
          [Read("complete", IF Required(s) = {} THEN "refresh" ELSE "file", s)
              EXCEPT !.todo = Required(s)]]
    /\ UNCHANGED <<rowVars, fileVars, bucketVars, dedup>>

\* The catch block starts over with all files of the session it has read.
Fail(a) ==
    actor' = [actor EXCEPT ![a] =
        [Idle EXCEPT !.op = "complete", !.stage = "scan", !.manifest = actor[a].manifest,
                     !.id = actor[a].id, !.todo = Files, !.required = actor[a].required]]

\* validatePartLayout: the parts that were read make up the file.
PartsComplete(a, f) == f \in actor[a].present

\* multipart.complete may throw although the object was made.
CompleteMultipart(a) ==
    LET s == actor[a].id
        f == First(actor[a].todo)
        x == <<s, f>>
    IN /\ actor[a].stage = "file"
       /\ \/ /\ PartsComplete(a, f)
             /\ multipart[x] = "open"
             /\ multipart' = [multipart EXCEPT ![x] = "completed"]
             /\ objects' = [objects EXCEPT ![Key(s, f)] = s]
             /\ \/ actor' = [actor EXCEPT ![a].stage = "verify", ![a].file = f]
                \/ "r2" \in Faults /\ Fail(a)
          \/ /\ ~PartsComplete(a, f) \/ multipart[x] # "open" \/ "r2" \in Faults
             /\ Fail(a)
             /\ UNCHANGED bucketVars
       /\ UNCHANGED <<rowVars, fileVars, dedup>>

\* bucket.get and verifyEncryptedObject: the object has to carry this
\* session's encryption metadata and decrypt to the declared digest.
Verified(s, f) == objects[Key(s, f)] = s /\ part[<<s, f>>] = "good"

VerifyObject(a) ==
    LET s == actor[a].id
        f == actor[a].file
    IN /\ actor[a].stage = "verify"
       /\ \/ Verified(s, f) /\ GoTo(a, "register")
          \/ (~Verified(s, f) \/ "r2" \in Faults) /\ Fail(a)
       /\ UNCHANGED <<rowVars, fileVars, bucketVars, dedup>>

\* putDedup: INSERT OR IGNORE, then the row that is there.
RegisterContent(a) ==
    LET s == actor[a].id
        f == actor[a].file
        c == Content(s, f)
        ref == IF dedup[c] = NoKey THEN Key(s, f) ELSE dedup[c]
    IN /\ actor[a].stage = "register"
       /\ dedup' = [dedup EXCEPT ![c] = ref]
       /\ actor' = [actor EXCEPT ![a].ref = ref,
                                 ![a].stage = IF ref = Key(s, f) THEN "markFile" ELSE "drop"]
       /\ UNCHANGED <<rowVars, fileVars, bucketVars>>

\* Another session registered the content first.
DropObject(a) ==
    /\ actor[a].stage = "drop"
    /\ objects' = [objects EXCEPT ![Key(actor[a].id, actor[a].file)] = 0]
    /\ GoTo(a, "markFile")
    /\ UNCHANGED <<rowVars, fileVars, multipart, dedup>>

\* Mutant of MarkFileCompleted: the row keeps the key the session created.
MarkFileCompletedOwnKey(a) ==
    LET x == <<actor[a].id, actor[a].file>>
        rest == actor[a].todo \ {actor[a].file}
    IN /\ actor[a].stage = "markFile"
       /\ fileState' = [fileState EXCEPT ![x] = "completed"]
       /\ actor' = [actor EXCEPT ![a].todo = rest,
                                 ![a].stage = IF rest = {} THEN "refresh" ELSE "file"]
       /\ UNCHANGED <<rowVars, objectKey, owned, part, bucketVars, dedup>>

MarkFileCompleted(a) ==
    LET x == <<actor[a].id, actor[a].file>>
        rest == actor[a].todo \ {actor[a].file}
    IN /\ actor[a].stage = "markFile"
       /\ fileState' = [fileState EXCEPT ![x] = "completed"]
       /\ objectKey' = [objectKey EXCEPT ![x] = actor[a].ref]
       /\ actor' = [actor EXCEPT ![a].todo = rest,
                                 ![a].stage = IF rest = {} THEN "refresh" ELSE "file"]
       /\ UNCHANGED <<rowVars, owned, part, bucketVars, dedup>>

Refresh(a) ==
    /\ actor[a].stage = "refresh"
    /\ IF Required(actor[a].id) = {} THEN GoTo(a, "finish") ELSE Fail(a)
    /\ UNCHANGED <<rowVars, fileVars, bucketVars, dedup>>

\* markCompleted, guarded by state = 'active'; a miss is an error like others.
MarkCompleted(a) ==
    LET s == actor[a].id IN
    /\ actor[a].stage = "finish"
    /\ \/ state[s] = "active" /\ state' = [state EXCEPT ![s] = "completed"] /\ Return(a)
       \/ state[s] # "active" /\ Fail(a) /\ UNCHANGED state
    /\ UNCHANGED <<count, manifest, expired, fileVars, bucketVars, dedup>>

----------------------------------------------------------------------------
(* abort, cleanupExpired, cleanupSessionObjects                            *)

\* An aborted session may be aborted again; a completed one is left alone.
AbortRead(a, s) ==
    /\ MayBegin(a, "abort", manifest[s])
    /\ state[s] # "completed"
    /\ actor' = [actor EXCEPT ![a] = Read("abort", "scan", s)]
    /\ UNCHANGED <<rowVars, fileVars, bucketVars, dedup>>

\* listExpired
CleanupExpired(a, s) ==
    /\ MayBegin(a, "cleanup", manifest[s])
    /\ state[s] = "active" /\ expired[s]
    /\ actor' = [actor EXCEPT ![a] = Read("cleanup", "scan", s)]
    /\ UNCHANGED <<rowVars, fileVars, bucketVars, dedup>>

Scan(a, collected) ==
    LET f == First(actor[a].todo)
        next == IF f \in actor[a].required THEN "abortFile"
                ELSE IF actor[a].todo = {f} THEN "sweep" ELSE "scan"
    IN /\ actor[a].stage = "scan"
       /\ actor' = [actor EXCEPT ![a].todo = @ \ {f}, ![a].keys = @ \cup collected,
                                 ![a].file = f, ![a].stage = next]
       /\ UNCHANGED <<rowVars, fileVars, bucketVars, dedup>>

\* Mutant of ScanFile: objects are collected without asking who refers to them.
ScanFileUnchecked(a) ==
    LET s == actor[a].id
        f == First(actor[a].todo)
    IN Scan(a, IF owned[<<s, f>>] THEN {Key(s, f)} ELSE {})

\* Mutant of ScanFile: an object is kept whenever its content is registered.
ScanFileRegistered(a) ==
    LET s == actor[a].id
        f == First(actor[a].todo)
    IN Scan(a, IF owned[<<s, f>>] /\ dedup[Content(s, f)] = NoKey
               THEN {Key(s, f)} ELSE {})

\* findDedup decides whether the session's own object may go.
ScanFile(a) ==
    LET s == actor[a].id
        f == First(actor[a].todo)
    IN Scan(a, IF owned[<<s, f>>] /\ dedup[Content(s, f)] # Key(s, f)
               THEN {Key(s, f)} ELSE {})

\* A file that was upload_required has its multipart aborted; a failure is
\* ignored.
AbortFile(a) ==
    LET x == <<actor[a].id, actor[a].file>> IN
    /\ actor[a].stage = "abortFile"
    /\ \/ multipart' = [multipart EXCEPT ![x] = IF @ = "open" THEN "aborted" ELSE @]
       \/ "r2" \in Faults /\ UNCHANGED multipart
    /\ GoTo(a, IF actor[a].todo = {} THEN "sweep" ELSE "scan")
    /\ UNCHANGED <<rowVars, fileVars, objects, dedup>>

\* The deletes run in parallel.
DeleteObject(a) ==
    /\ actor[a].stage = "sweep"
    /\ \E k \in actor[a].keys :
         /\ objects' = [objects EXCEPT ![k] = 0]
         /\ actor' = [actor EXCEPT ![a].keys = @ \ {k}]
    /\ UNCHANGED <<rowVars, fileVars, multipart, dedup>>

\* Deletes that failed are ignored: their keys stay in keys.
SweepDone(a) ==
    /\ actor[a].stage = "sweep"
    /\ actor[a].keys = {} \/ "r2" \in Faults
    /\ GoTo(a, "markAborted")
    /\ UNCHANGED <<rowVars, fileVars, bucketVars, dedup>>

MarkAborted(a) ==
    LET s == actor[a].id
        verdict == IF actor[a].op = "cleanup" THEN "expired" ELSE "aborted"
    IN /\ actor[a].stage = "markAborted"
       /\ state' = [state EXCEPT ![s] = IF @ = "active" THEN verdict ELSE @]
       /\ Return(a)
       /\ UNCHANGED <<count, manifest, expired, fileVars, bucketVars, dedup>>

----------------------------------------------------------------------------
\* The invocation is killed at an await, or a D1 call throws outside a catch.
Crash(a) ==
    /\ "crash" \in Faults
    /\ actor[a].stage # "idle"
    /\ Return(a)
    /\ UNCHANGED <<rowVars, fileVars, bucketVars, dedup>>

Expire(s) ==
    /\ Cardinality({t \in Sessions : expired[t]}) < MaxExpired
    /\ state[s] = "active" /\ ~expired[s]
    /\ expired' = [expired EXCEPT ![s] = TRUE]
    /\ UNCHANGED <<count, manifest, state, fileVars, bucketVars, dedup, actor>>

Begin(a) ==
    \/ \E m \in Manifests : StartRead(a, m)
    \/ \E s \in 1..count :
         \/ \E f \in Files : PartRead(a, s, f)
         \/ CompleteRead(a, s) \/ AbortRead(a, s) \/ CleanupExpired(a, s)

Continue(a) ==
    \/ OpenFile(a) \/ CreateSession(a) \/ MarkDeduplicated(a)
    \/ SendPart(a) \/ AbortPart(a) \/ MarkAbortedPart(a) \/ RecordPart(a)
    \/ CompleteMultipart(a) \/ VerifyObject(a) \/ RegisterContent(a)
    \/ DropObject(a) \/ MarkFileCompleted(a) \/ Refresh(a) \/ MarkCompleted(a)
    \/ ScanFile(a) \/ AbortFile(a) \/ DeleteObject(a) \/ SweepDone(a) \/ MarkAborted(a)

Next ==
    \/ \E a \in Actors : Begin(a) \/ Continue(a) \/ Crash(a)
    \/ \E s \in 1..count : Expire(s)

Spec == Init /\ [][Next]_vars

----------------------------------------------------------------------------
(* Properties                                                              *)

\* The object of key k, if there is one, decrypts to content c.
Holds(k, c) ==
    /\ objects[k] # 0
    /\ LET s == objects[k]
       IN part[<<s, k[2]>>] = "good" /\ Content(s, k[2]) = c

\* Every content in upload_dedup is in R2 under the registered key, with the
\* declared bytes.  Later uploads of the content send nothing and rely on it,
\* while clean-up, losers of the registration and retried sessions of the same
\* manifest delete and replace objects under keys that are not their own.
CanonicalObjectsIntact ==
    \A c \in Contents : dedup[c] # NoKey => Holds(dedup[c], c)

\* A completed session refers, for each of its files, to the object registered
\* for its content: not to one it has dropped for another session's, and not to
\* one that was never verified.
CompletedFilesCanonical ==
    \A s \in 1..count : state[s] = "completed" =>
        \A f \in Files : /\ fileState[<<s, f>>] # "upload_required"
                         /\ objectKey[<<s, f>>] # NoKey
                         /\ objectKey[<<s, f>>] = dedup[Content(s, f)]

\* abort(), cleanupExpired() and a failed complete() end a session only after
\* every object it made is gone, except those other uploads may refer to and
\* those whose delete failed: whatever the order, earlier crashes and races
\* with other manifests, no unreferenced ciphertext stays behind.
AbortLeavesNothing ==
    [][\A a \in Actors : LET s == actor[a].id IN
         actor[a].stage = "markAborted" /\ state[s] = "active" /\ state'[s] # "active" =>
           \A f \in Files : objects[Key(s, f)] = s =>
             \/ dedup[Content(s, f)] = Key(s, f)
             \/ Key(s, f) \in actor[a].keys]_vars

\* getCompletedSession: a file without encryption and parts of its own is
\* resolved to the first row of upload_files with its object key that has them.
Owner(s, f) ==
    IF owned[<<s, f>>] /\ part[<<s, f>>] # "none" THEN s
    ELSE First({t \in 1..count : owned[<<t, f>>] /\ objectKey[<<t, f>>] = objectKey[<<s, f>>]})

\* What getCompletedSession gives the job for a file are the metadata of the
\* session that made the object: with any other, decryption fails.
CompletedSessionsReadable ==
    \A s \in 1..count : state[s] = "completed" =>
        \A f \in Files : objects[objectKey[<<s, f>>]] = Owner(s, f)
=============================================================================
