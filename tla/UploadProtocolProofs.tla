------------------------ MODULE UploadProtocolProofs ------------------------
(***************************************************************************)
(* What UploadProtocol guarantees for any manifests, files, sessions,      *)
(* invocations and failures.  What completed sessions refer to is right    *)
(* whatever overlaps (CanonicalInv).  That the objects are there rests on  *)
(* two conditions the code does not enforce: that complete runs alone on   *)
(* its manifest, and that no two manifests share an id (ObjectsInv).       *)
(***************************************************************************)
EXTENDS UploadProtocol, WellFoundedInduction, TLAPS

USE UploadAssumption

-----------------------------------------------------------------------------
(* Types.                                                                  *)

\* The rows of a session that was created.
RowsThere ==
    \A s \in 1..count :
        /\ manifest[s] \in Manifests /\ state[s] # "absent"
        /\ \A f \in Files : fileState[<<s, f>>] # "none"

Starting == {"open", "insert"}
Sending == {"send", "abortPart", "record", "markAbortedPart"}
Storing == {"verify", "register", "drop", "markFile"}
Completing == Storing \cup {"file", "refresh", "finish"}
Ending == {"scan", "abortFile", "sweep", "markAborted"}

\* What an invocation holds where it stands.
Shape(a) ==
    /\ actor[a].stage = "idle" => actor[a] = Idle
    /\ actor[a].stage \in Starting =>
          actor[a].op = "start" /\ actor[a].manifest \in Manifests
    /\ actor[a].stage = "markDeduplicated" => actor[a].op = "start"
    /\ actor[a].stage \in Sending => actor[a].op = "part" /\ actor[a].file \in Files
    /\ actor[a].stage \in Completing => actor[a].op = "complete"
    /\ actor[a].stage \in Storing => actor[a].file \in Files
    /\ actor[a].stage \in Ending => actor[a].op \in {"complete", "abort", "cleanup"}
    /\ actor[a].stage \notin Starting \cup {"idle"} =>
          actor[a].id \in 1..count /\ actor[a].manifest = manifest[actor[a].id]
    /\ actor[a].stage \in {"open", "file", "scan"} \cup Storing => actor[a].todo # {}
    /\ actor[a].stage \in {"insert", "sweep", "markAborted"} => actor[a].todo = {}
    /\ actor[a].keys # {} => actor[a].stage \in Ending

Types == TypeOK /\ RowsThere /\ \A a \in Actors : Shape(a)

LEMMA FirstIn == \A files \in SUBSET Files : files # {} => First(files) \in files
<1> SUFFICES ASSUME NEW files \in SUBSET Files, files # {} PROVE First(files) \in files
  OBVIOUS
<1>1. files \subseteq Nat
  BY DEF Files
<1>2. PICK x \in files : \A y \in files : ~(<<y, x>> \in OpToRel(<, Nat))
  BY <1>1, NatLessThanWellFounded, WFMin
<1>3. ASSUME NEW y \in files, ~(x <= y) PROVE FALSE
  <2>1. x \in Nat /\ y \in Nat /\ y < x
    BY <1>1, <1>3
  <2>2. <<y, x>>[1] < <<y, x>>[2] /\ <<y, x>> \in Nat \X Nat
    BY <2>1
  <2> QED
    BY <1>2, <2>2 DEF OpToRel
<1> QED
  BY <1>3 DEF First

LEMMA NoKeyIsNoKey == NoKey \notin Keys /\ Idle \in Invocation
<1>1. NoKey \notin Keys
  BY DEF NoKey, Keys
<1>2. Idle.op \in AllOperations \cup {"none"} /\ Idle.stage \in Stage
  BY DEF Idle, Stage
<1> QED
  BY <1>1 DEF Idle, NoHits, Invocation, Stage

LEMMA TypesInit == Init => Types
<1> SUFFICES ASSUME Init PROVE Types
  OBVIOUS
<1>1. TypeOK
  BY NoKeyIsNoKey DEF Init, TypeOK, Sessions
<1>2. RowsThere
  BY DEF Init, RowsThere
<1>3. \A a \in Actors : Shape(a)
  BY DEF Init, Shape, Idle, Starting, Sending, Storing, Completing, Ending
<1> QED
  BY <1>1, <1>2, <1>3 DEF Types

\* Invocations that do nothing keep their shape: rows of sessions stay.
LEMMA ShapesKept ==
    ASSUME Types, NEW a \in Actors, Shape(a)', count' \in {count, count + 1},
           \A s \in 1..count : manifest'[s] = manifest[s],
           \A b \in Actors \ {a} : actor'[b] = actor[b]
    PROVE  \A b \in Actors : Shape(b)'
<1>1. count \in Nat
  BY DEF Types, TypeOK
<1>2. ASSUME NEW b \in Actors \ {a} PROVE Shape(b)'
  <2>1. Shape(b) /\ actor'[b] = actor[b]
    BY DEF Types
  <2>2. actor[b].id \in 1..count => actor[b].id \in 1..count' /\ manifest'[actor[b].id] = manifest[actor[b].id]
    BY <1>1
  <2> QED
    BY <2>1, <2>2 DEF Shape
<1> QED
  BY <1>2

-----------------------------------------------------------------------------
(* What each step makes of its invocation.                                 *)

\* Only invocation a moves.
OnlyMoves(a) ==
    /\ actor' \in [Actors -> Invocation]
    /\ \A b \in Actors \ {a} : actor'[b] = actor[b]

\* It goes on with what it was called for.
GoesOn(a) ==
    /\ OnlyMoves(a)
    /\ actor'[a].op = actor[a].op /\ actor'[a].manifest = actor[a].manifest

LEMMA ActorTyped ==
    ASSUME Types, NEW a \in Actors
    PROVE  actor \in [Actors -> Invocation] /\ actor[a] \in Invocation /\ Shape(a)
BY DEF Types, TypeOK

LEMMA GoToIs ==
    ASSUME Types, NEW a \in Actors, NEW stage \in Stage, GoTo(a, stage)
    PROVE  /\ GoesOn(a) /\ actor'[a].stage = stage
           /\ actor'[a].id = actor[a].id /\ actor'[a].file = actor[a].file
           /\ actor'[a].todo = actor[a].todo /\ actor'[a].hits = actor[a].hits
           /\ actor'[a].ref = actor[a].ref /\ actor'[a].keys = actor[a].keys
<1>1. actor' = [actor EXCEPT ![a] = [actor[a] EXCEPT !.stage = stage]]
  BY DEF GoTo
<1>3. actor[a] \in Invocation
  BY ActorTyped
<1>2. [actor[a] EXCEPT !.stage = stage] \in Invocation
  BY <1>3 DEF Invocation
<1> QED
  BY <1>1, <1>2, ActorTyped DEF GoesOn, OnlyMoves, Invocation

LEMMA ReturnIs ==
    ASSUME Types, NEW a \in Actors, Return(a)
    PROVE  OnlyMoves(a) /\ actor'[a] = Idle /\ Shape(a)'
<1>1. OnlyMoves(a) /\ actor'[a] = Idle
  BY ActorTyped, NoKeyIsNoKey DEF Return, OnlyMoves
<1>2. Idle.stage = "idle" /\ Idle.keys = {}
  BY DEF Idle
<1> QED
  BY <1>1, <1>2 DEF Shape, Starting, Sending, Storing, Completing, Ending

LEMMA StartReadIs ==
    ASSUME Types, NEW a \in Actors, NEW m \in Manifests, StartRead(a, m)
    PROVE  /\ OnlyMoves(a) /\ actor'[a].op = "start" /\ actor'[a].manifest = m
           /\ actor'[a].stage = "open" /\ actor'[a].todo = Files /\ actor'[a].keys = {}
<1>1. actor' = [actor EXCEPT ![a] =
          [Idle EXCEPT !.op = "start", !.stage = "open", !.manifest = m, !.todo = Files]]
  BY DEF StartRead
<1>2. [Idle EXCEPT !.op = "start", !.stage = "open", !.manifest = m, !.todo = Files] \in Invocation
  BY NoKeyIsNoKey DEF Invocation, AllOperations, Stage
<1> QED
  BY <1>1, <1>2, ActorTyped DEF OnlyMoves, Idle

LEMMA OpenFileIs ==
    ASSUME Types, NEW a \in Actors, OpenFile(a)
    PROVE  /\ GoesOn(a) /\ actor[a].op = "start" /\ actor[a].manifest \in Manifests
           /\ actor[a].stage = "open" /\ actor'[a].keys = actor[a].keys
           /\ \E f \in actor[a].todo :
                /\ f \in Files
                /\ actor'[a].todo = actor[a].todo \ {f}
                /\ actor'[a].stage = IF actor[a].todo = {f} THEN "insert" ELSE "open"
                /\ actor'[a].hits =
                     [actor[a].hits EXCEPT ![f] = dedup[ContentOf[actor[a].manifest][f]]]
<1>1. PICK f \in Files : f = First(actor[a].todo) /\ f \in actor[a].todo
  BY FirstIn DEF Types, TypeOK, Shape, OpenFile, Invocation
<1>2. /\ actor \in [Actors -> Invocation] /\ actor[a] \in Invocation
      /\ actor[a].stage = "open" /\ actor[a].op = "start" /\ actor[a].manifest \in Manifests
  BY ActorTyped DEF OpenFile, Shape, Starting
<1>3. dedup[ContentOf[actor[a].manifest][f]] \in Keys \cup {NoKey}
  BY <1>2 DEF Types, TypeOK, Files
<1>4. actor' = [actor EXCEPT ![a].todo = @ \ {f},
                             ![a].hits[f] = dedup[ContentOf[actor[a].manifest][f]],
                             ![a].stage = IF actor[a].todo = {f} THEN "insert" ELSE @]
  BY <1>1 DEF OpenFile
<1>5. actor' = [actor EXCEPT ![a] =
           [actor[a] EXCEPT !.todo = @ \ {f},
                            !.hits = [@ EXCEPT ![f] = dedup[ContentOf[actor[a].manifest][f]]],
                            !.stage = IF actor[a].todo = {f} THEN "insert" ELSE @]]
  BY <1>2, <1>4 DEF Invocation
<1>6. [actor[a] EXCEPT !.todo = @ \ {f},
                       !.hits = [@ EXCEPT ![f] = dedup[ContentOf[actor[a].manifest][f]]],
                       !.stage = IF actor[a].todo = {f} THEN "insert" ELSE @] \in Invocation
  BY <1>2, <1>3 DEF Invocation, Stage
<1>7. GoesOn(a) /\ actor'[a].keys = actor[a].keys
  BY <1>2, <1>5, <1>6 DEF GoesOn, OnlyMoves, Invocation
<1>8. /\ actor'[a].todo = actor[a].todo \ {f}
      /\ actor'[a].stage = IF actor[a].todo = {f} THEN "insert" ELSE "open"
      /\ actor'[a].hits = [actor[a].hits EXCEPT ![f] = dedup[ContentOf[actor[a].manifest][f]]]
  BY <1>2, <1>5 DEF Invocation
<1> QED
  BY <1>1, <1>2, <1>7, <1>8

\* getSession.
LEMMA ReadIs ==
    ASSUME Types, NEW a \in Actors, NEW s \in 1..count, NEW op \in AllOperations,
           NEW stage \in Stage
    PROVE  /\ Read(op, stage, s) \in Invocation
           /\ Read(op, stage, s).op = op /\ Read(op, stage, s).stage = stage
           /\ Read(op, stage, s).manifest = manifest[s] /\ Read(op, stage, s).id = s
           /\ Read(op, stage, s).todo = Files /\ Read(op, stage, s).keys = {}
<1>1. s \in 0..MaxSessions /\ manifest[s] \in Manifests /\ Required(s) \in SUBSET Files
      /\ Present(s) \in SUBSET Files
  BY DEF Types, TypeOK, RowsThere, Sessions, Required, Present
<1>2. Read(op, stage, s) \in Invocation
  BY <1>1, NoKeyIsNoKey DEF Read, Invocation
<1> QED
  BY <1>2 DEF Read, Idle

LEMMA PartReadIs ==
    ASSUME Types, NEW a \in Actors, NEW s \in 1..count, NEW f \in Files, PartRead(a, s, f)
    PROVE  /\ OnlyMoves(a) /\ actor'[a].op = "part" /\ actor'[a].stage = "send"
           /\ actor'[a].manifest = manifest[s] /\ actor'[a].id = s
           /\ actor'[a].file = f /\ actor'[a].keys = {}
<1> DEFINE r == Read("part", "send", s)
<1>1. actor' = [actor EXCEPT ![a] = [r EXCEPT !.file = f]]
  BY DEF PartRead
<1>2. /\ r \in Invocation /\ r.op = "part" /\ r.stage = "send" /\ r.manifest = manifest[s]
      /\ r.id = s /\ r.keys = {}
  BY ReadIs DEF AllOperations, Stage
<1> HIDE DEF r
<1>4. f \in 0..FileCount
  BY DEF Files
<1>3. [r EXCEPT !.file = f] \in Invocation
  BY <1>2, <1>4 DEF Invocation
<1> QED
  BY <1>1, <1>2, <1>3, ActorTyped DEF OnlyMoves, Invocation

LEMMA CompleteReadIs ==
    ASSUME Types, NEW a \in Actors, NEW s \in 1..count, CompleteRead(a, s)
    PROVE  /\ OnlyMoves(a) /\ actor'[a].op = "complete"
           /\ actor'[a].stage = IF Required(s) = {} THEN "refresh" ELSE "file"
           /\ actor'[a].manifest = manifest[s] /\ actor'[a].id = s
           /\ actor'[a].todo = Required(s) /\ actor'[a].keys = {}
<1> DEFINE stage == IF Required(s) = {} THEN "refresh" ELSE "file"
           r == Read("complete", stage, s)
<1>1. actor' = [actor EXCEPT ![a] = [r EXCEPT !.todo = Required(s)]]
  BY DEF CompleteRead
<1>2. /\ r \in Invocation /\ r.op = "complete" /\ r.stage = stage /\ r.manifest = manifest[s]
      /\ r.id = s /\ r.keys = {}
  BY ReadIs DEF AllOperations, Stage
<1>3. Required(s) \in SUBSET Files
  BY DEF Required
<1> HIDE DEF r, stage
<1>4. [r EXCEPT !.todo = Required(s)] \in Invocation
  BY <1>2, <1>3 DEF Invocation, Files
<1> QED
  BY <1>1, <1>2, <1>4, ActorTyped DEF OnlyMoves, Invocation, stage

LEMMA EndReadIs ==
    ASSUME Types, NEW a \in Actors, NEW s \in 1..count, AbortRead(a, s) \/ CleanupExpired(a, s)
    PROVE  /\ OnlyMoves(a) /\ actor'[a].op \in {"abort", "cleanup"}
           /\ actor'[a].stage = "scan"
           /\ actor'[a].manifest = manifest[s] /\ actor'[a].id = s
           /\ actor'[a].todo = Files /\ actor'[a].keys = {}
<1>1. PICK op \in {"abort", "cleanup"} : actor' = [actor EXCEPT ![a] = Read(op, "scan", s)]
  BY DEF AbortRead, CleanupExpired
<1> QED
  BY <1>1, ReadIs, ActorTyped DEF OnlyMoves, AllOperations, Stage

\* The catch block.
LEMMA FailIs ==
    ASSUME Types, NEW a \in Actors, actor[a].op = "complete", Fail(a)
    PROVE  /\ GoesOn(a) /\ actor'[a].stage = "scan" /\ actor'[a].id = actor[a].id
           /\ actor'[a].todo = Files /\ actor'[a].keys = {}
<1> DEFINE r == [Idle EXCEPT !.op = "complete", !.stage = "scan", !.manifest = actor[a].manifest,
                             !.id = actor[a].id, !.todo = Files, !.required = actor[a].required]
<1>1. actor' = [actor EXCEPT ![a] = r]
  BY DEF Fail
<1>2. actor[a].manifest \in Manifests \cup {None} /\ actor[a].id \in 0..MaxSessions
      /\ actor[a].required \in SUBSET Files
  BY ActorTyped DEF Invocation
<1>3. r \in Invocation
  BY <1>2, NoKeyIsNoKey DEF Invocation, AllOperations, Stage
<1>4. r.op = "complete" /\ r.manifest = actor[a].manifest /\ r.stage = "scan"
      /\ r.id = actor[a].id /\ r.todo = Files /\ r.keys = {}
  BY DEF Idle
<1> HIDE DEF r
<1> QED
  BY <1>1, <1>3, <1>4, ActorTyped DEF GoesOn, OnlyMoves

LEMMA SendPartIs ==
    ASSUME Types, NEW a \in Actors, SendPart(a)
    PROVE  \/ /\ GoesOn(a) /\ actor'[a].stage \in {"record", "abortPart"}
              /\ actor'[a].id = actor[a].id /\ actor'[a].file = actor[a].file
              /\ actor'[a].keys = actor[a].keys
           \/ Return(a)
<1>1. CASE GoTo(a, "abortPart")
  BY <1>1, GoToIs DEF Stage
<1>2. CASE \E bytes \in {"good", "corrupt"} :
              actor' = [actor EXCEPT ![a].stage = "record", ![a].bytes = bytes]
  <2>1. PICK bytes \in {"good", "corrupt"} :
              actor' = [actor EXCEPT ![a].stage = "record", ![a].bytes = bytes]
    BY <1>2
  <2>2. actor[a] \in Invocation /\ actor \in [Actors -> Invocation]
    BY ActorTyped
  <2>3. actor' = [actor EXCEPT ![a] = [actor[a] EXCEPT !.stage = "record", !.bytes = bytes]]
    BY <2>1, <2>2 DEF Invocation
  <2>4. [actor[a] EXCEPT !.stage = "record", !.bytes = bytes] \in Invocation
    BY <2>2 DEF Invocation, Stage
  <2> QED
    BY <2>2, <2>3, <2>4 DEF GoesOn, OnlyMoves, Invocation
<1> QED
  BY <1>1, <1>2 DEF SendPart

LEMMA CompleteMultipartIs ==
    ASSUME Types, NEW a \in Actors, CompleteMultipart(a)
    PROVE  /\ First(actor[a].todo) \in actor[a].todo /\ First(actor[a].todo) \in Files
           /\ \/ /\ GoesOn(a) /\ actor'[a].stage = "verify"
                 /\ actor'[a].id = actor[a].id /\ actor'[a].file = First(actor[a].todo)
                 /\ actor'[a].todo = actor[a].todo /\ actor'[a].keys = actor[a].keys
                 /\ multipart[<<actor[a].id, First(actor[a].todo)>>] = "open"
                 /\ multipart' = [multipart EXCEPT ![<<actor[a].id, First(actor[a].todo)>>] = "completed"]
                 /\ objects' = [objects EXCEPT ![Key(actor[a].id, First(actor[a].todo))] = actor[a].id]
              \/ Fail(a)
<1>1. /\ actor \in [Actors -> Invocation] /\ actor[a] \in Invocation
      /\ actor[a].stage = "file" /\ actor[a].todo # {}
  BY ActorTyped DEF CompleteMultipart, Shape
<1>2. PICK f \in Files : f = First(actor[a].todo) /\ f \in actor[a].todo
  BY <1>1, FirstIn DEF Invocation
<1>3. ASSUME actor' = [actor EXCEPT ![a].stage = "verify", ![a].file = f]
      PROVE  /\ GoesOn(a) /\ actor'[a].stage = "verify"
             /\ actor'[a].id = actor[a].id /\ actor'[a].file = f
             /\ actor'[a].todo = actor[a].todo /\ actor'[a].keys = actor[a].keys
  <2>1. actor' = [actor EXCEPT ![a] = [actor[a] EXCEPT !.stage = "verify", !.file = f]]
    BY <1>1, <1>3 DEF Invocation
  <2>2. f \in 0..FileCount
    BY DEF Files
  <2>3. [actor[a] EXCEPT !.stage = "verify", !.file = f] \in Invocation
    BY <1>1, <2>2 DEF Invocation, Stage
  <2> QED
    BY <1>1, <2>1, <2>3 DEF GoesOn, OnlyMoves, Invocation
<1> QED
  BY <1>2, <1>3 DEF CompleteMultipart

LEMMA RegisterContentIs ==
    ASSUME Types, NEW a \in Actors, RegisterContent(a)
    PROVE  LET s == actor[a].id
               f == actor[a].file
               c == Content(s, f)
               ref == IF dedup[c] = NoKey THEN Key(s, f) ELSE dedup[c]
           IN /\ s \in 1..count /\ f \in Files /\ c \in Contents /\ Key(s, f) \in Keys
              /\ GoesOn(a) /\ actor'[a].ref = ref
              /\ actor'[a].stage = IF ref = Key(s, f) THEN "markFile" ELSE "drop"
              /\ actor'[a].id = s /\ actor'[a].file = f
              /\ actor'[a].todo = actor[a].todo /\ actor'[a].keys = actor[a].keys
              /\ dedup' = [dedup EXCEPT ![c] = ref]
<1> DEFINE s == actor[a].id
           f == actor[a].file
           c == Content(s, f)
           ref == IF dedup[c] = NoKey THEN Key(s, f) ELSE dedup[c]
<1>1. /\ actor \in [Actors -> Invocation] /\ actor[a] \in Invocation
      /\ s \in 1..count /\ f \in Files
  BY ActorTyped DEF RegisterContent, Shape, Storing, Starting
<1>2. manifest[s] \in Manifests
  BY <1>1 DEF Types, RowsThere
<1>3. c \in Contents /\ Key(s, f) \in Keys
  BY <1>1, <1>2 DEF Content, Key, Keys, Files
<1>4. ref \in Keys \cup {NoKey}
  BY <1>3 DEF Types, TypeOK
<1>5. dedup' = [dedup EXCEPT ![c] = ref]
      /\ actor' = [actor EXCEPT ![a].ref = ref,
                                ![a].stage = IF ref = Key(s, f) THEN "markFile" ELSE "drop"]
  BY DEF RegisterContent
<1> HIDE DEF ref
<1> DEFINE stage == IF ref = Key(s, f) THEN "markFile" ELSE "drop"
<1>6. stage \in Stage /\ stage = IF ref = Key(s, f) THEN "markFile" ELSE "drop"
  BY DEF Stage
<1> HIDE DEF stage
<1>7. actor' = [actor EXCEPT ![a] = [actor[a] EXCEPT !.ref = ref, !.stage = stage]]
  BY <1>1, <1>5, <1>6 DEF Invocation
<1>8. [actor[a] EXCEPT !.ref = ref, !.stage = stage] \in Invocation
  BY <1>1, <1>4, <1>6 DEF Invocation
<1>9. GoesOn(a) /\ actor'[a].ref = ref /\ actor'[a].stage = stage
      /\ actor'[a].id = s /\ actor'[a].file = f
      /\ actor'[a].todo = actor[a].todo /\ actor'[a].keys = actor[a].keys
  BY <1>1, <1>7, <1>8 DEF GoesOn, OnlyMoves, Invocation
<1> QED
  BY <1>1, <1>3, <1>5, <1>6, <1>9 DEF ref

LEMMA MarkFileCompletedIs ==
    ASSUME Types, NEW a \in Actors, MarkFileCompleted(a)
    PROVE  LET rest == actor[a].todo \ {actor[a].file}
           IN /\ actor[a].id \in 1..count /\ actor[a].file \in Files /\ actor[a].op = "complete"
              /\ GoesOn(a) /\ actor'[a].todo = rest
              /\ actor'[a].stage = IF rest = {} THEN "refresh" ELSE "file"
              /\ actor'[a].id = actor[a].id /\ actor'[a].keys = actor[a].keys
<1> DEFINE rest == actor[a].todo \ {actor[a].file}
           stage == IF rest = {} THEN "refresh" ELSE "file"
<1>1. /\ actor \in [Actors -> Invocation] /\ actor[a] \in Invocation /\ actor[a].op = "complete"
      /\ actor[a].id \in 1..count /\ actor[a].file \in Files
  BY ActorTyped DEF MarkFileCompleted, Shape, Storing, Starting, Completing
<1>2. actor' = [actor EXCEPT ![a].todo = rest, ![a].stage = stage]
  BY DEF MarkFileCompleted
<1>3. rest \in SUBSET Files /\ stage \in Stage
  BY <1>1 DEF Invocation, Stage
<1> HIDE DEF rest, stage
<1>4. actor' = [actor EXCEPT ![a] = [actor[a] EXCEPT !.todo = rest, !.stage = stage]]
  BY <1>1, <1>2 DEF Invocation
<1>5. [actor[a] EXCEPT !.todo = rest, !.stage = stage] \in Invocation
  BY <1>1, <1>3 DEF Invocation
<1>6. GoesOn(a) /\ actor'[a].todo = rest /\ actor'[a].stage = stage
      /\ actor'[a].id = actor[a].id /\ actor'[a].keys = actor[a].keys
  BY <1>1, <1>4, <1>5 DEF GoesOn, OnlyMoves, Invocation
<1> QED
  BY <1>1, <1>6 DEF stage, rest

LEMMA ScanFileIs ==
    ASSUME Types, NEW a \in Actors, ScanFile(a)
    PROVE  \E f \in Files :
             LET s == actor[a].id
                 mine == owned[<<s, f>>] /\ dedup[Content(s, f)] # Key(s, f)
             IN /\ f \in actor[a].todo /\ s \in 1..count /\ Key(s, f) \in Keys
                /\ GoesOn(a) /\ actor'[a].id = s
                /\ actor'[a].todo = actor[a].todo \ {f}
                /\ actor'[a].keys = IF mine THEN actor[a].keys \cup {Key(s, f)} ELSE actor[a].keys
                /\ actor'[a].stage \in {"abortFile", "scan", "sweep"}
                /\ actor'[a].stage = "scan" => actor'[a].todo # {}
                /\ actor'[a].stage = "sweep" => actor'[a].todo = {}
<1>1. /\ actor \in [Actors -> Invocation] /\ actor[a] \in Invocation
      /\ actor[a].id \in 1..count /\ actor[a].todo # {}
  BY ActorTyped DEF ScanFile, Scan, Shape, Starting
<1>2. PICK f \in Files : f = First(actor[a].todo) /\ f \in actor[a].todo
  BY <1>1, FirstIn DEF Invocation
<1> DEFINE s == actor[a].id
           mine == owned[<<s, f>>] /\ dedup[Content(s, f)] # Key(s, f)
           rest == actor[a].todo \ {f}
           keys == actor[a].keys \cup (IF mine THEN {Key(s, f)} ELSE {})
           stage == IF f \in actor[a].required THEN "abortFile"
                    ELSE IF actor[a].todo = {f} THEN "sweep" ELSE "scan"
<1>3. actor' = [actor EXCEPT ![a].todo = rest, ![a].keys = keys, ![a].file = f, ![a].stage = stage]
  BY <1>2 DEF ScanFile, Scan
<1>4. Key(s, f) \in Keys
  <2>1. manifest[s] \in Manifests
    BY <1>1 DEF Types, RowsThere
  <2> QED
    BY <2>1 DEF Key, Keys
<1>5. rest \in SUBSET Files /\ keys \in SUBSET Keys /\ f \in 0..FileCount /\ stage \in Stage
  BY <1>1, <1>4 DEF Invocation, Stage, Files
<1>6. /\ stage \in {"abortFile", "scan", "sweep"}
      /\ stage = "scan" => rest # {}
      /\ stage = "sweep" => rest = {}
  BY <1>2
<1>7. keys = IF mine THEN actor[a].keys \cup {Key(s, f)} ELSE actor[a].keys
  OBVIOUS
<1> HIDE DEF rest, keys, stage
<1>8. actor' = [actor EXCEPT ![a] =
                   [actor[a] EXCEPT !.todo = rest, !.keys = keys, !.file = f, !.stage = stage]]
  BY <1>1, <1>3 DEF Invocation
<1>9. [actor[a] EXCEPT !.todo = rest, !.keys = keys, !.file = f, !.stage = stage] \in Invocation
  BY <1>1, <1>5 DEF Invocation
<1>10. GoesOn(a) /\ actor'[a].id = s /\ actor'[a].todo = rest /\ actor'[a].keys = keys
       /\ actor'[a].stage = stage
  BY <1>1, <1>8, <1>9 DEF GoesOn, OnlyMoves, Invocation
<1> QED
  BY <1>1, <1>2, <1>4, <1>6, <1>7, <1>10 DEF rest

LEMMA DeleteObjectIs ==
    ASSUME Types, NEW a \in Actors, DeleteObject(a)
    PROVE  \E k \in actor[a].keys :
              /\ k \in Keys /\ objects' = [objects EXCEPT ![k] = 0]
              /\ GoesOn(a) /\ actor'[a].stage = "sweep" /\ actor'[a].id = actor[a].id
              /\ actor'[a].todo = actor[a].todo /\ actor'[a].keys = actor[a].keys \ {k}
<1>1. actor \in [Actors -> Invocation] /\ actor[a] \in Invocation /\ actor[a].stage = "sweep"
  BY ActorTyped DEF DeleteObject
<1>2. PICK k \in actor[a].keys : /\ objects' = [objects EXCEPT ![k] = 0]
                                 /\ actor' = [actor EXCEPT ![a].keys = @ \ {k}]
  BY DEF DeleteObject
<1>3. actor' = [actor EXCEPT ![a] = [actor[a] EXCEPT !.keys = @ \ {k}]]
  BY <1>2
<1>4. [actor[a] EXCEPT !.keys = @ \ {k}] \in Invocation /\ k \in Keys
  BY <1>1 DEF Invocation
<1>5. GoesOn(a) /\ actor'[a].stage = "sweep" /\ actor'[a].id = actor[a].id
      /\ actor'[a].todo = actor[a].todo /\ actor'[a].keys = actor[a].keys \ {k}
  BY <1>1, <1>3, <1>4 DEF GoesOn, OnlyMoves, Invocation
<1> QED
  BY <1>2, <1>4, <1>5

-----------------------------------------------------------------------------
(* Types are kept.                                                         *)

FilesTyped ==
    /\ objectKey \in [Sessions \X Files -> Keys \cup {NoKey}]
    /\ owned \in [Sessions \X Files -> BOOLEAN]
    /\ part \in [Sessions \X Files -> {"none", "good", "corrupt"}]
    /\ multipart \in [Sessions \X Files -> {"none", "open", "completed", "aborted"}]
    /\ objects \in [Keys -> 0..MaxSessions]
    /\ dedup \in [Contents -> Keys \cup {NoKey}]

StatesTyped ==
    /\ state \in [Sessions -> {"absent", "active", "completed", "aborted", "expired"}]
    /\ expired \in [Sessions -> BOOLEAN]
    /\ fileState \in [Sessions \X Files -> {"none", "upload_required", "deduplicated", "completed"}]
    /\ \A s \in 1..count : state[s] # "absent" /\ \A f \in Files : fileState[<<s, f>>] # "none"

LEMMA TypesTyped == Types => FilesTyped /\ StatesTyped
BY DEF Types, TypeOK, RowsThere, FilesTyped, StatesTyped

LEMMA TypesFrom ==
    ASSUME Types, NEW a \in Actors, OnlyMoves(a), Shape(a)', UNCHANGED <<count, manifest>>,
           FilesTyped', StatesTyped'
    PROVE  Types'
<1>1. \A b \in Actors : Shape(b)'
  BY ShapesKept DEF OnlyMoves
<1>2. TypeOK' /\ RowsThere'
  BY DEF Types, TypeOK, RowsThere, FilesTyped, StatesTyped, OnlyMoves
<1> QED
  BY <1>1, <1>2 DEF Types

LEMMA BeginTypes == ASSUME Types, NEW a \in Actors, Begin(a) PROVE Types'
<1>1. UNCHANGED <<rowVars, fileVars, bucketVars, dedup>>
  BY DEF Begin, StartRead, PartRead, CompleteRead, AbortRead, CleanupExpired
<1>2. OnlyMoves(a) /\ Shape(a)'
  <2>1. ASSUME NEW m \in Manifests, StartRead(a, m) PROVE OnlyMoves(a) /\ Shape(a)'
    <3>1. 1 \in Files
      BY DEF Files
    <3> QED
      BY <2>1, <3>1, StartReadIs DEF Shape, Starting, Sending, Storing, Completing, Ending
  <2>2. ASSUME NEW s \in 1..count, NEW f \in Files, PartRead(a, s, f) PROVE OnlyMoves(a) /\ Shape(a)'
    BY <1>1, <2>2, PartReadIs DEF Shape, Starting, Sending, Storing, Completing, Ending, rowVars
  <2>3. ASSUME NEW s \in 1..count, CompleteRead(a, s) PROVE OnlyMoves(a) /\ Shape(a)'
    BY <1>1, <2>3, CompleteReadIs DEF Shape, Starting, Sending, Storing, Completing, Ending, rowVars
  <2>4. ASSUME NEW s \in 1..count, AbortRead(a, s) \/ CleanupExpired(a, s)
        PROVE  OnlyMoves(a) /\ Shape(a)'
    <3>1. 1 \in Files
      BY DEF Files
    <3> QED
      BY <1>1, <2>4, <3>1, EndReadIs DEF Shape, Starting, Sending, Storing, Completing, Ending, rowVars
  <2> QED
    BY <2>1, <2>2, <2>3, <2>4 DEF Begin
<1>3. FilesTyped' /\ StatesTyped'
  BY <1>1, TypesTyped DEF rowVars, fileVars, bucketVars, FilesTyped, StatesTyped
<1> QED
  BY <1>1, <1>2, <1>3, TypesFrom DEF rowVars

\* The state of one session is replaced.
LEMMA StateTypes ==
    ASSUME Types, NEW s, NEW verdict \in {"active", "completed", "aborted", "expired"},
           state' = [state EXCEPT ![s] = IF @ = "active" THEN verdict ELSE @],
           UNCHANGED <<count, expired, fileState>>
    PROVE  StatesTyped'
<1>1. StatesTyped
  BY TypesTyped
<1>2. ASSUME NEW t \in Sessions
      PROVE  /\ state'[t] \in {"absent", "active", "completed", "aborted", "expired"}
             /\ state[t] # "absent" => state'[t] # "absent"
  BY <1>1, <1>2 DEF StatesTyped
<1>3. 1..count \subseteq Sessions
  BY DEF Types, TypeOK, Sessions
<1>4. state' \in [Sessions -> {"absent", "active", "completed", "aborted", "expired"}]
  BY <1>1, <1>2 DEF StatesTyped
<1> QED
  BY <1>1, <1>2, <1>3, <1>4 DEF StatesTyped

LEMMA ReturnTypes ==
    ASSUME Types, NEW a \in Actors, Return(a), UNCHANGED <<count, manifest>>,
           FilesTyped', StatesTyped'
    PROVE  Types'
BY ReturnIs, TypesFrom

\* A step of a session's invocation to another stage, that keeps the rest.
LEMMA StageTypes ==
    ASSUME Types, NEW a \in Actors, NEW stage \in Stage, GoTo(a, stage),
           UNCHANGED <<count, manifest>>, FilesTyped', StatesTyped',
           actor[a].stage \notin Starting \cup {"idle", "markDeduplicated"},
           stage \in Sending => actor[a].stage \in Sending,
           stage \in Completing => actor[a].stage \in Completing,
           stage \in Storing => actor[a].stage \in Storing,
           stage \in Ending => actor[a].stage \in Ending,
           stage \in Sending \cup Completing \cup Ending,
           stage \in {"file", "scan"} => actor[a].todo # {},
           stage \in {"sweep", "markAborted"} => actor[a].todo = {}
    PROVE  Types'
<1>1. /\ GoesOn(a) /\ actor'[a].stage = stage
      /\ actor'[a].id = actor[a].id /\ actor'[a].file = actor[a].file
      /\ actor'[a].todo = actor[a].todo /\ actor'[a].keys = actor[a].keys
  BY GoToIs
<1>2. Shape(a)
  BY ActorTyped
<1>3. Shape(a)'
  BY <1>1, <1>2 DEF GoesOn, Shape, Starting, Sending, Storing, Completing, Ending
<1> QED
  BY <1>1, <1>3, TypesFrom DEF GoesOn

LEMMA OpenFileTypes == ASSUME Types, NEW a \in Actors, OpenFile(a) PROVE Types'
<1>1. UNCHANGED <<rowVars, fileVars, bucketVars, dedup>>
  BY DEF OpenFile
<1>2. Shape(a)'
  <2>1. PICK f \in actor[a].todo :
           /\ actor'[a].todo = actor[a].todo \ {f}
           /\ actor'[a].stage = IF actor[a].todo = {f} THEN "insert" ELSE "open"
    BY OpenFileIs
  <2>2. /\ actor'[a].op = "start" /\ actor'[a].manifest \in Manifests
        /\ actor[a].stage = "open" /\ actor'[a].keys = actor[a].keys
    BY OpenFileIs DEF GoesOn
  <2>3. actor'[a].keys = {}
    BY <2>2, ActorTyped DEF Shape, Ending
  <2> QED
    BY <2>1, <2>2, <2>3 DEF Shape, Starting, Sending, Storing, Completing, Ending
<1>3. FilesTyped' /\ StatesTyped'
  BY <1>1, TypesTyped DEF rowVars, fileVars, bucketVars, FilesTyped, StatesTyped
<1> QED
  BY <1>1, <1>2, <1>3, OpenFileIs, TypesFrom DEF rowVars, GoesOn

\* What a session that is created is made of.
LEMMA CreateSessionIs ==
    ASSUME Types, NEW a \in Actors, CreateSession(a), ~Return(a) \/ count' # count
    PROVE  LET s == count + 1
               m == actor[a].manifest
               hit(f) == actor[a].hits[f] # NoKey
           IN /\ m \in Manifests /\ actor[a].op = "start" /\ actor[a].todo = {}
              /\ s \in Sessions /\ count' = s
              /\ \A t \in Live : manifest[t] # m
              /\ manifest' = [manifest EXCEPT ![s] = m]
              /\ state' = [state EXCEPT ![s] = "active"]
              /\ \A t \in Sessions, f \in Files :
                   /\ fileState'[<<t, f>>] =
                        IF t # s THEN fileState[<<t, f>>]
                        ELSE IF hit(f) THEN "deduplicated" ELSE "upload_required"
                   /\ objectKey'[<<t, f>>] =
                        IF t # s THEN objectKey[<<t, f>>]
                        ELSE IF hit(f) THEN actor[a].hits[f] ELSE <<NameOf[m], f>>
                   /\ owned'[<<t, f>>] = IF t = s THEN ~hit(f) ELSE owned[<<t, f>>]
                   /\ multipart'[<<t, f>>] =
                        IF t = s /\ ~hit(f) THEN "open" ELSE multipart[<<t, f>>]
              /\ FilesTyped'
              /\ fileState' \in [Sessions \X Files ->
                                   {"none", "upload_required", "deduplicated", "completed"}]
              /\ UNCHANGED <<expired, part, objects, dedup>>
              /\ \/ /\ GoesOn(a) /\ actor'[a].stage = "markDeduplicated" /\ actor'[a].id = s
                    /\ actor'[a].keys = actor[a].keys
                    /\ \A f \in Files : hit(f)
                 \/ Return(a)
<1> DEFINE s == count + 1
           m == actor[a].manifest
           hit(f) == actor[a].hits[f] # NoKey
<1>1. /\ actor \in [Actors -> Invocation] /\ actor[a] \in Invocation /\ actor[a].stage = "insert"
      /\ m \in Manifests /\ actor[a].op = "start" /\ actor[a].todo = {}
  BY ActorTyped DEF CreateSession, Shape, Starting
<1>2. /\ ~\E t \in Live : manifest[t] = m
      /\ count < MaxSessions
      /\ count' = s
      /\ manifest' = [manifest EXCEPT ![s] = m]
      /\ state' = [state EXCEPT ![s] = "active"]
      /\ fileState' = [x \in Sessions \X Files |->
            IF x[1] # s THEN fileState[x]
            ELSE IF hit(x[2]) THEN "deduplicated" ELSE "upload_required"]
      /\ objectKey' = [x \in Sessions \X Files |->
            IF x[1] # s THEN objectKey[x]
            ELSE IF hit(x[2]) THEN actor[a].hits[x[2]] ELSE <<NameOf[m], x[2]>>]
      /\ owned' = [x \in Sessions \X Files |-> IF x[1] = s THEN ~hit(x[2]) ELSE owned[x]]
      /\ multipart' = [x \in Sessions \X Files |->
            IF x[1] = s /\ ~hit(x[2]) THEN "open" ELSE multipart[x]]
      /\ IF \A f \in Files : hit(f)
         THEN actor' = [actor EXCEPT ![a].stage = "markDeduplicated", ![a].id = s]
         ELSE Return(a)
  BY DEF CreateSession
<1>3. s \in Sessions /\ s \in 0..MaxSessions
  BY <1>2 DEF Types, TypeOK, Sessions
<1>4. UNCHANGED <<expired, part, objects, dedup>>
  BY DEF CreateSession
<1>5. \A f \in Files : actor[a].hits[f] \in Keys \cup {NoKey} /\ <<NameOf[m], f>> \in Keys
  BY <1>1 DEF Invocation, Keys
<1>6. FilesTyped'
  <2>1. FilesTyped
    BY TypesTyped
  <2>2. objectKey' \in [Sessions \X Files -> Keys \cup {NoKey}]
    <3>1. ASSUME NEW x \in Sessions \X Files
          PROVE  objectKey'[x] \in Keys \cup {NoKey}
      BY <1>2, <1>5, <2>1 DEF FilesTyped
    <3> QED
      BY <1>2, <3>1
  <2>3. owned' \in [Sessions \X Files -> BOOLEAN]
    <3>1. ASSUME NEW x \in Sessions \X Files
          PROVE  owned'[x] \in BOOLEAN
      <4>1. owned[x] \in BOOLEAN
        BY <2>1 DEF FilesTyped
      <4>2. CASE x[1] = s
        BY <1>2, <4>2
      <4>3. CASE x[1] # s
        BY <1>2, <4>1, <4>3
      <4> QED
        BY <4>2, <4>3
    <3> QED
      BY <1>2, <3>1
  <2>4. multipart' \in [Sessions \X Files -> {"none", "open", "completed", "aborted"}]
    BY <1>2, <2>1 DEF FilesTyped
  <2> QED
    BY <1>4, <2>1, <2>2, <2>3, <2>4 DEF FilesTyped
<1>7. fileState' \in [Sessions \X Files -> {"none", "upload_required", "deduplicated", "completed"}]
  BY <1>2 DEF Types, TypeOK
<1>8. CASE \A f \in Files : hit(f)
  <2>1. actor' = [actor EXCEPT ![a] = [actor[a] EXCEPT !.stage = "markDeduplicated", !.id = s]]
    BY <1>1, <1>2, <1>8 DEF Invocation
  <2>2. [actor[a] EXCEPT !.stage = "markDeduplicated", !.id = s] \in Invocation
    BY <1>1, <1>3 DEF Invocation, Stage
  <2> QED
    BY <1>1, <2>1, <2>2, <1>2, <1>3, <1>4, <1>6, <1>7, <1>8 DEF GoesOn, OnlyMoves, Invocation
<1>9. CASE ~\A f \in Files : hit(f)
  BY <1>1, <1>2, <1>3, <1>4, <1>6, <1>7, <1>9
<1> QED
  BY <1>8, <1>9

LEMMA CreateSessionTypes == ASSUME Types, NEW a \in Actors, CreateSession(a) PROVE Types'
<1>1. CASE Return(a) /\ count' = count
  <2>1. UNCHANGED <<rowVars, fileVars, bucketVars, dedup>>
    <3>1. count' # count + 1
      BY <1>1 DEF Types, TypeOK
    <3> QED
      BY <3>1 DEF CreateSession, rowVars, fileVars, bucketVars
  <2>2. FilesTyped' /\ StatesTyped'
    BY <2>1, TypesTyped DEF rowVars, fileVars, bucketVars, FilesTyped, StatesTyped
  <2> QED
    BY <1>1, <2>1, <2>2, ReturnTypes DEF rowVars
<1>2. CASE ~(Return(a) /\ count' = count)
  <2> DEFINE s == count + 1
             m == actor[a].manifest
  <2>1. /\ m \in Manifests /\ s \in Sessions /\ count' = s
        /\ manifest' = [manifest EXCEPT ![s] = m] /\ state' = [state EXCEPT ![s] = "active"]
        /\ FilesTyped' /\ expired' = expired
        /\ fileState' \in [Sessions \X Files ->
                             {"none", "upload_required", "deduplicated", "completed"}]
        /\ \/ /\ GoesOn(a) /\ actor'[a].stage = "markDeduplicated" /\ actor'[a].id = s
              /\ actor'[a].keys = actor[a].keys
           \/ Return(a)
    BY <1>2, CreateSessionIs
  <2>8. \A t \in Sessions, f \in Files :
           IF t = s THEN fileState'[<<t, f>>] # "none"
           ELSE fileState'[<<t, f>>] = fileState[<<t, f>>]
    <3> DEFINE hit(f) == actor[a].hits[f] # NoKey
    <3>1. \A t \in Sessions, f \in Files :
            /\ fileState'[<<t, f>>] =
                 IF t # s THEN fileState[<<t, f>>]
                 ELSE IF hit(f) THEN "deduplicated" ELSE "upload_required"
            /\ objectKey'[<<t, f>>] =
                 IF t # s THEN objectKey[<<t, f>>]
                 ELSE IF hit(f) THEN actor[a].hits[f] ELSE <<NameOf[m], f>>
            /\ owned'[<<t, f>>] = IF t = s THEN ~hit(f) ELSE owned[<<t, f>>]
            /\ multipart'[<<t, f>>] =
                 IF t = s /\ ~hit(f) THEN "open" ELSE multipart[<<t, f>>]
      BY <1>2, CreateSessionIs
    <3> QED
      BY <3>1
  <2>2. /\ count \in 0..MaxSessions /\ manifest \in [Sessions -> Manifests \cup {None}]
        /\ \A t \in 1..count : t \in Sessions /\ t # s
        /\ count + 1 \in 0..MaxSessions
    BY <2>1 DEF Types, TypeOK, Sessions
  <2>3. \A t \in 1..count' : t = s \/ t \in 1..count
    BY <2>1, <2>2
  <2>4. StatesTyped'
    <3>1. \A t \in 1..count' : state'[t] # "absent" /\ \A f \in Files : fileState'[<<t, f>>] # "none"
      BY <2>1, <2>2, <2>3, <2>8, TypesTyped DEF StatesTyped
    <3> QED
      BY <2>1, <3>1, TypesTyped DEF StatesTyped
  <2>5. OnlyMoves(a) /\ Shape(a)'
    <3>1. CASE Return(a)
      BY <3>1, ReturnIs
    <3>2. CASE GoesOn(a) /\ actor'[a].stage = "markDeduplicated" /\ actor'[a].id = s
               /\ actor'[a].keys = actor[a].keys
      <4>1. actor[a].op = "start" /\ actor[a].keys = {}
        BY ActorTyped DEF CreateSession, Shape, Starting, Ending
      <4>2. s \in 1..count' /\ manifest'[s] = m
        BY <2>1, <2>2
      <4> QED
        BY <3>2, <4>1, <4>2 DEF GoesOn, Shape, Starting, Sending, Storing, Completing, Ending
    <3> QED
      BY <2>1, <3>1, <3>2
  <2>6. \A b \in Actors : Shape(b)'
    BY <2>1, <2>2, <2>5, ShapesKept DEF OnlyMoves
  <2>7. manifest' \in [Sessions -> Manifests \cup {None}] /\ count' \in 0..MaxSessions
        /\ \A t \in 1..count' : manifest'[t] \in Manifests
    <3>1. \A t \in 1..count : manifest[t] \in Manifests
      BY DEF Types, RowsThere
    <3>2. \A t \in 1..count' : manifest'[t] \in Manifests
      <4>1. \A t \in 1..count : manifest'[t] = manifest[t]
        BY <2>1, <2>2
      <4>2. manifest'[s] = m
        BY <2>1, <2>2
      <4> QED
        BY <2>1, <2>3, <3>1, <4>1, <4>2
    <3>3. manifest' \in [Sessions -> Manifests \cup {None}]
      BY <2>1, <2>2
    <3>4. count' \in 0..MaxSessions
      BY <2>1, <2>2
    <3> QED
      BY <3>2, <3>3, <3>4
  <2> QED
    BY <2>1, <2>4, <2>5, <2>6, <2>7
    DEF Types, TypeOK, RowsThere, FilesTyped, StatesTyped, OnlyMoves
<1> QED
  BY <1>1, <1>2

LEMMA PartTypes ==
    ASSUME Types, NEW a \in Actors,
           SendPart(a) \/ AbortPart(a) \/ MarkAbortedPart(a) \/ RecordPart(a)
    PROVE  Types'
<1>1. CASE SendPart(a)
  <2>1. UNCHANGED <<rowVars, fileVars, bucketVars, dedup>>
    BY <1>1 DEF SendPart
  <2>2. FilesTyped' /\ StatesTyped'
    BY <2>1, TypesTyped DEF rowVars, fileVars, bucketVars, FilesTyped, StatesTyped
  <2>3. CASE Return(a)
    BY <2>1, <2>2, <2>3, ReturnTypes DEF rowVars
  <2>4. CASE /\ GoesOn(a) /\ actor'[a].stage \in {"record", "abortPart"}
             /\ actor'[a].id = actor[a].id /\ actor'[a].file = actor[a].file
             /\ actor'[a].keys = actor[a].keys
    <3>1. actor[a].stage = "send" /\ Shape(a)
      BY <1>1, ActorTyped DEF SendPart
    <3>2. Shape(a)'
      BY <2>1, <2>4, <3>1
      DEF GoesOn, Shape, Starting, Sending, Storing, Completing, Ending, rowVars
    <3> QED
      BY <2>1, <2>2, <2>4, <3>2, TypesFrom DEF GoesOn, rowVars
  <2> QED
    BY <1>1, <2>3, <2>4, SendPartIs
<1>2. CASE AbortPart(a)
  <2>1. FilesTyped' /\ StatesTyped' /\ UNCHANGED <<count, manifest>>
    BY <1>2, TypesTyped DEF AbortPart, rowVars, fileVars, FilesTyped, StatesTyped
  <2>2. GoTo(a, "markAbortedPart") /\ actor[a].stage = "abortPart"
    BY <1>2 DEF AbortPart
  <2> QED
    BY <2>1, <2>2, StageTypes DEF Stage, Starting, Sending, Storing, Completing, Ending
<1>3. CASE MarkAbortedPart(a)
  <2>1. UNCHANGED <<count, manifest, expired, fileVars, bucketVars, dedup>> /\ Return(a)
    BY <1>3 DEF MarkAbortedPart
  <2>2. state' = [state EXCEPT ![actor[a].id] = IF @ = "active" THEN "aborted" ELSE @]
    BY <1>3 DEF MarkAbortedPart
  <2>3. FilesTyped'
    BY <2>1, TypesTyped DEF bucketVars, fileVars, FilesTyped
  <2>4. StatesTyped'
    BY <2>1, <2>2, StateTypes DEF fileVars
  <2> QED
    BY <2>1, <2>3, <2>4, ReturnTypes
<1>4. CASE RecordPart(a)
  <2>1. actor[a].bytes \in {"none", "good", "corrupt"}
    BY ActorTyped DEF Invocation
  <2>3. part' \in [Sessions \X Files -> {"none", "good", "corrupt"}]
    BY <1>4, <2>1, TypesTyped DEF RecordPart, FilesTyped
  <2>4. UNCHANGED <<rowVars, fileState, objectKey, owned, bucketVars, dedup>> /\ Return(a)
    BY <1>4 DEF RecordPart
  <2>2. FilesTyped' /\ StatesTyped' /\ UNCHANGED <<count, manifest>>
    BY <2>3, <2>4, TypesTyped DEF bucketVars, rowVars, FilesTyped, StatesTyped
  <2> QED
    BY <2>2, <2>4, ReturnTypes
<1> QED
  BY <1>1, <1>2, <1>3, <1>4
LEMMA FailTypes ==
    ASSUME Types, NEW a \in Actors, Fail(a), actor[a].stage \in Completing,
           UNCHANGED <<count, manifest>>, FilesTyped', StatesTyped'
    PROVE  Types'
<1>1. Shape(a) /\ actor[a].op = "complete" /\ 1 \in Files
  BY ActorTyped DEF Shape, Files
<1>2. /\ GoesOn(a) /\ actor'[a].stage = "scan" /\ actor'[a].id = actor[a].id
      /\ actor'[a].todo = Files /\ actor'[a].keys = {}
  BY <1>1, FailIs
<1>3. actor[a].id \in 1..count /\ actor[a].manifest = manifest[actor[a].id]
  BY <1>1 DEF Shape, Starting, Completing, Storing
<1>4. Shape(a)'
  BY <1>1, <1>2, <1>3 DEF GoesOn, Shape, Starting, Sending, Storing, Completing, Ending
<1> QED
  BY <1>2, <1>4, TypesFrom DEF GoesOn

LEMMA CompleteTypes ==
    ASSUME Types, NEW a \in Actors,
           \/ CompleteMultipart(a) \/ VerifyObject(a) \/ RegisterContent(a) \/ DropObject(a)
           \/ MarkFileCompleted(a) \/ Refresh(a) \/ MarkCompleted(a)
    PROVE  Types'
<1>1. FilesTyped /\ StatesTyped /\ Shape(a)
  BY TypesTyped, ActorTyped
<1>2. /\ actor[a].stage \in Completing /\ actor[a].id \in 1..count /\ actor[a].id \in Sessions
      /\ actor[a].keys = {} /\ actor[a].manifest = manifest[actor[a].id]
  <2>1. actor[a].stage \in Completing
    BY DEF CompleteMultipart, VerifyObject, RegisterContent, DropObject, MarkFileCompleted,
           Refresh, MarkCompleted, Completing, Storing
  <2>2. count \in Nat /\ count <= MaxSessions
    BY DEF Types, TypeOK
  <2> QED
    BY <1>1, <2>1, <2>2 DEF Shape, Completing, Storing, Starting, Ending, Sessions
<1>3. UNCHANGED rowVars \/ MarkCompleted(a)
  BY DEF CompleteMultipart, VerifyObject, RegisterContent, DropObject, MarkFileCompleted, Refresh
<1>4. UNCHANGED <<count, manifest>>
  BY <1>3 DEF rowVars, MarkCompleted
<1>5. CASE CompleteMultipart(a)
  <2>1. UNCHANGED <<rowVars, fileVars, dedup>>
    BY <1>5 DEF CompleteMultipart
  <2>2. /\ multipart' \in [Sessions \X Files -> {"none", "open", "completed", "aborted"}]
        /\ objects' \in [Keys -> 0..MaxSessions]
    <3>1. CASE UNCHANGED bucketVars
      BY <1>1, <3>1 DEF FilesTyped, bucketVars
    <3>2. CASE ~UNCHANGED bucketVars
      <4>1. PICK f : /\ multipart' = [multipart EXCEPT ![<<actor[a].id, f>>] = "completed"]
                     /\ objects' = [objects EXCEPT ![Key(actor[a].id, f)] = actor[a].id]
        BY <1>5, <3>2 DEF CompleteMultipart
      <4>2. actor[a].id \in 0..MaxSessions
        BY <1>2 DEF Sessions
      <4> QED
        BY <1>1, <4>1, <4>2 DEF FilesTyped
    <3> QED
      BY <3>1, <3>2
  <2>3. FilesTyped' /\ StatesTyped'
    BY <1>1, <2>1, <2>2 DEF rowVars, fileVars, FilesTyped, StatesTyped
  <2>4. CASE Fail(a)
    BY <1>2, <1>4, <2>3, <2>4, FailTypes
  <2>5. CASE ~Fail(a)
    <3>1. /\ GoesOn(a) /\ actor'[a].stage = "verify"
          /\ actor'[a].id = actor[a].id /\ actor'[a].file \in Files
          /\ actor'[a].todo = actor[a].todo /\ actor'[a].keys = actor[a].keys
          /\ actor[a].todo # {}
      BY <1>5, <2>5, CompleteMultipartIs
    <3>2. Shape(a)'
      BY <1>1, <1>2, <1>4, <3>1
      DEF GoesOn, Shape, Starting, Sending, Storing, Completing, Ending
    <3> QED
      BY <1>4, <2>3, <3>1, <3>2, TypesFrom DEF GoesOn
  <2> QED
    BY <2>4, <2>5
<1>6. CASE VerifyObject(a)
  <2>1. UNCHANGED <<rowVars, fileVars, bucketVars, dedup>> /\ actor[a].stage = "verify"
    BY <1>6 DEF VerifyObject
  <2>2. FilesTyped' /\ StatesTyped'
    BY <1>1, <2>1 DEF rowVars, fileVars, bucketVars, FilesTyped, StatesTyped
  <2>3. CASE GoTo(a, "register")
    BY <1>4, <2>1, <2>2, <2>3, StageTypes
    DEF Stage, Starting, Sending, Storing, Completing, Ending
  <2>4. CASE Fail(a)
    BY <1>2, <1>4, <2>2, <2>4, FailTypes
  <2> QED
    BY <1>6, <2>3, <2>4 DEF VerifyObject
<1>7. CASE RegisterContent(a)
  <2>1. UNCHANGED <<rowVars, fileVars, bucketVars>> /\ actor[a].stage = "register"
    BY <1>7 DEF RegisterContent
  <2>2. /\ GoesOn(a) /\ actor'[a].stage \in {"markFile", "drop"}
        /\ actor'[a].id = actor[a].id /\ actor'[a].file = actor[a].file
        /\ actor'[a].todo = actor[a].todo /\ actor'[a].keys = actor[a].keys
    BY <1>7, RegisterContentIs
  <2>3. dedup' \in [Contents -> Keys \cup {NoKey}]
    <3>1. PICK c, ref : /\ dedup' = [dedup EXCEPT ![c] = ref]
                        /\ c \in Contents /\ ref \in Keys \cup {NoKey}
      <4>1. /\ Key(actor[a].id, actor[a].file) \in Keys
            /\ Content(actor[a].id, actor[a].file) \in Contents
        BY <1>7, RegisterContentIs
      <4> QED
        BY <1>1, <1>7, <4>1 DEF RegisterContent, FilesTyped
    <3> QED
      BY <1>1, <3>1 DEF FilesTyped
  <2>4. FilesTyped' /\ StatesTyped'
    BY <1>1, <2>1, <2>3 DEF rowVars, fileVars, bucketVars, FilesTyped, StatesTyped
  <2>5. Shape(a)'
    BY <1>1, <1>2, <1>4, <2>1, <2>2
    DEF GoesOn, Shape, Starting, Sending, Storing, Completing, Ending
  <2> QED
    BY <1>4, <2>2, <2>4, <2>5, TypesFrom DEF GoesOn
<1>8. CASE DropObject(a)
  <2>1. /\ UNCHANGED <<rowVars, fileVars, multipart, dedup>> /\ actor[a].stage = "drop"
        /\ GoTo(a, "markFile")
    BY <1>8 DEF DropObject
  <2>2. objects' \in [Keys -> 0..MaxSessions]
    <3>1. PICK k : objects' = [objects EXCEPT ![k] = 0]
      BY <1>8 DEF DropObject
    <3>2. 0 \in 0..MaxSessions /\ objects \in [Keys -> 0..MaxSessions]
      BY <1>1 DEF FilesTyped
    <3> QED
      BY <3>1, <3>2
  <2>3. FilesTyped' /\ StatesTyped'
    BY <1>1, <2>1, <2>2 DEF rowVars, fileVars, FilesTyped, StatesTyped
  <2> QED
    BY <1>4, <2>1, <2>3, StageTypes DEF Stage, Starting, Sending, Storing, Completing, Ending
<1>9. CASE MarkFileCompleted(a)
  <2> DEFINE x == <<actor[a].id, actor[a].file>>
  <2>1. /\ UNCHANGED <<rowVars, owned, part, bucketVars, dedup>> /\ actor[a].stage = "markFile"
        /\ fileState' = [fileState EXCEPT ![x] = "completed"]
        /\ objectKey' = [objectKey EXCEPT ![x] = actor[a].ref]
    BY <1>9 DEF MarkFileCompleted
  <2>2. actor[a].ref \in Keys \cup {NoKey}
    BY ActorTyped DEF Invocation
  <2>3. FilesTyped'
    BY <1>1, <2>1, <2>2 DEF bucketVars, FilesTyped
  <2>4. /\ fileState' \in [Sessions \X Files ->
                             {"none", "upload_required", "deduplicated", "completed"}]
        /\ \A y \in Sessions \X Files : fileState[y] # "none" => fileState'[y] # "none"
    BY <1>1, <2>1 DEF StatesTyped
  <2>5. 1..count \subseteq Sessions
    BY DEF Types, TypeOK, Sessions
  <2>6. StatesTyped'
    <3>1. \A s \in 1..count, f \in Files : fileState'[<<s, f>>] # "none"
      BY <1>1, <2>4, <2>5 DEF StatesTyped
    <3> QED
      BY <1>1, <2>1, <2>4, <3>1 DEF StatesTyped, rowVars
  <2>7. Shape(a)'
    <3>1. /\ GoesOn(a) /\ actor'[a].todo = actor[a].todo \ {actor[a].file}
          /\ actor'[a].stage =
               IF actor[a].todo \ {actor[a].file} = {} THEN "refresh" ELSE "file"
          /\ actor'[a].id = actor[a].id /\ actor'[a].keys = actor[a].keys
      BY <1>9, MarkFileCompletedIs
    <3> QED
      BY <1>1, <1>2, <1>4, <2>1, <3>1
      DEF GoesOn, Shape, Starting, Sending, Storing, Completing, Ending
  <2> QED
    BY <1>4, <1>9, <2>3, <2>6, <2>7, MarkFileCompletedIs, TypesFrom DEF GoesOn
<1>10. CASE Refresh(a)
  <2>1. UNCHANGED <<rowVars, fileVars, bucketVars, dedup>> /\ actor[a].stage = "refresh"
    BY <1>10 DEF Refresh
  <2>2. FilesTyped' /\ StatesTyped'
    BY <1>1, <2>1 DEF rowVars, fileVars, bucketVars, FilesTyped, StatesTyped
  <2>3. CASE GoTo(a, "finish")
    BY <1>4, <2>1, <2>2, <2>3, StageTypes
    DEF Stage, Starting, Sending, Storing, Completing, Ending
  <2>4. CASE Fail(a)
    BY <1>2, <1>4, <2>2, <2>4, FailTypes
  <2> QED
    BY <1>10, <2>3, <2>4 DEF Refresh
<1>11. CASE MarkCompleted(a)
  <2>1. UNCHANGED <<count, manifest, expired, fileVars, bucketVars, dedup>>
    BY <1>11 DEF MarkCompleted
  <2>2. FilesTyped'
    BY <1>1, <2>1 DEF fileVars, bucketVars, FilesTyped
  <2>3. StatesTyped'
    <3>1. state' = [state EXCEPT ![actor[a].id] = IF @ = "active" THEN "completed" ELSE @]
      BY <1>1, <1>11 DEF MarkCompleted, StatesTyped
    <3> QED
      BY <2>1, <3>1, StateTypes DEF fileVars
  <2> QED
    BY <1>2, <1>4, <1>11, <2>2, <2>3, FailTypes, ReturnTypes DEF MarkCompleted
<1> QED
  BY <1>5, <1>6, <1>7, <1>8, <1>9, <1>10, <1>11

LEMMA EndTypes ==
    ASSUME Types, NEW a \in Actors,
           \/ ScanFile(a) \/ AbortFile(a) \/ DeleteObject(a) \/ SweepDone(a) \/ MarkAborted(a)
    PROVE  Types'
<1>1. FilesTyped /\ StatesTyped /\ Shape(a)
  BY TypesTyped, ActorTyped
<1>2. /\ actor[a].id \in 1..count /\ actor[a].manifest = manifest[actor[a].id]
      /\ actor[a].stage \in Ending /\ actor[a].op \in {"complete", "abort", "cleanup"}
  BY <1>1 DEF ScanFile, Scan, AbortFile, DeleteObject, SweepDone, MarkAborted, Shape, Ending,
              Starting
<1>3. UNCHANGED <<count, manifest, expired, fileVars, dedup>> /\ (UNCHANGED state \/ MarkAborted(a))
  BY DEF ScanFile, Scan, AbortFile, DeleteObject, SweepDone, MarkAborted, rowVars
<1>4. CASE ScanFile(a)
  <2>1. UNCHANGED <<state, bucketVars>>
    BY <1>4 DEF ScanFile, Scan, rowVars
  <2>2. FilesTyped' /\ StatesTyped'
    BY <1>1, <1>3, <2>1 DEF fileVars, bucketVars, FilesTyped, StatesTyped
  <2>3. /\ GoesOn(a) /\ actor'[a].id = actor[a].id
        /\ actor'[a].stage \in {"abortFile", "scan", "sweep"}
        /\ actor'[a].stage = "scan" => actor'[a].todo # {}
        /\ actor'[a].stage = "sweep" => actor'[a].todo = {}
    BY <1>4, ScanFileIs
  <2>4. Shape(a)'
    BY <1>2, <1>3, <2>3 DEF GoesOn, Shape, Starting, Sending, Storing, Completing, Ending
  <2> QED
    BY <1>3, <2>2, <2>3, <2>4, TypesFrom DEF GoesOn
<1>5. CASE AbortFile(a)
  <2>1. UNCHANGED <<state, objects>> /\ actor[a].stage = "abortFile"
    BY <1>5 DEF AbortFile, rowVars
  <2>2. FilesTyped' /\ StatesTyped'
    <3>1. multipart' \in [Sessions \X Files -> {"none", "open", "completed", "aborted"}]
      BY <1>1, <1>5 DEF AbortFile, FilesTyped
    <3> QED
      BY <1>1, <1>3, <2>1, <3>1 DEF fileVars, FilesTyped, StatesTyped
  <2>3. GoTo(a, IF actor[a].todo = {} THEN "sweep" ELSE "scan")
    BY <1>5 DEF AbortFile
  <2> QED
    BY <1>3, <2>1, <2>2, <2>3, StageTypes DEF Stage, Starting, Sending, Storing, Completing, Ending
<1>6. CASE DeleteObject(a)
  <2>1. PICK k \in actor[a].keys :
              /\ k \in Keys /\ objects' = [objects EXCEPT ![k] = 0]
              /\ GoesOn(a) /\ actor'[a].stage = "sweep" /\ actor'[a].id = actor[a].id
              /\ actor'[a].todo = actor[a].todo /\ actor'[a].keys = actor[a].keys \ {k}
    BY <1>6, DeleteObjectIs
  <2>2. UNCHANGED <<state, multipart>> /\ actor[a].stage = "sweep"
    BY <1>6 DEF DeleteObject, rowVars
  <2>3. FilesTyped' /\ StatesTyped'
    <3>1. objects' \in [Keys -> 0..MaxSessions]
      BY <1>1, <2>1 DEF FilesTyped
    <3> QED
      BY <1>1, <1>3, <2>2, <3>1 DEF fileVars, FilesTyped, StatesTyped
  <2>4. Shape(a)'
    BY <1>1, <1>2, <1>3, <2>1, <2>2
    DEF GoesOn, Shape, Starting, Sending, Storing, Completing, Ending
  <2> QED
    BY <1>3, <2>1, <2>3, <2>4, TypesFrom DEF GoesOn
<1>7. CASE SweepDone(a)
  <2>1. UNCHANGED <<state, bucketVars>> /\ actor[a].stage = "sweep" /\ GoTo(a, "markAborted")
    BY <1>7 DEF SweepDone, rowVars
  <2>2. FilesTyped' /\ StatesTyped'
    BY <1>1, <1>3, <2>1 DEF fileVars, bucketVars, FilesTyped, StatesTyped
  <2>3. actor[a].todo = {}
    BY <1>1, <2>1 DEF Shape
  <2> QED
    BY <1>3, <2>1, <2>2, <2>3, StageTypes DEF Stage, Starting, Sending, Storing, Completing, Ending
<1>8. CASE MarkAborted(a)
  <2>1. UNCHANGED bucketVars /\ Return(a)
    BY <1>8 DEF MarkAborted
  <2>2. FilesTyped'
    BY <1>1, <1>3, <2>1 DEF fileVars, bucketVars, FilesTyped
  <2>3. StatesTyped'
    <3>1. PICK verdict \in {"expired", "aborted"} :
            state' = [state EXCEPT ![actor[a].id] = IF @ = "active" THEN verdict ELSE @]
      BY <1>8 DEF MarkAborted
    <3> QED
      BY <1>3, <3>1, StateTypes DEF fileVars
  <2> QED
    BY <1>3, <2>1, <2>2, <2>3, ReturnTypes
<1> QED
  BY <1>4, <1>5, <1>6, <1>7, <1>8

LEMMA TypesStep == ASSUME Types, [Next]_vars PROVE Types'
<1>1. ASSUME NEW a \in Actors, MarkDeduplicated(a) PROVE Types'
  <2>1. UNCHANGED <<count, manifest, expired, fileVars, bucketVars, dedup>> /\ Return(a)
    BY <1>1 DEF MarkDeduplicated
  <2>2. FilesTyped'
    BY <2>1, TypesTyped DEF fileVars, bucketVars, FilesTyped
  <2>3. StatesTyped'
    <3>1. state' = [state EXCEPT ![actor[a].id] = IF @ = "active" THEN "completed" ELSE @]
      BY <1>1 DEF MarkDeduplicated
    <3> QED
      BY <2>1, <3>1, StateTypes DEF fileVars
  <2> QED
    BY <2>1, <2>2, <2>3, ReturnTypes
<1>2. ASSUME NEW a \in Actors, Crash(a) PROVE Types'
  <2>1. UNCHANGED <<rowVars, fileVars, bucketVars, dedup>> /\ Return(a)
    BY <1>2 DEF Crash
  <2>2. FilesTyped' /\ StatesTyped'
    BY <2>1, TypesTyped DEF rowVars, fileVars, bucketVars, FilesTyped, StatesTyped
  <2> QED
    BY <2>1, <2>2, ReturnTypes DEF rowVars
<1>3. ASSUME NEW s \in 1..count, Expire(s) PROVE Types'
  <2>1. UNCHANGED <<count, manifest, state, fileVars, bucketVars, dedup, actor>>
    BY <1>3 DEF Expire
  <2>2. expired' \in [Sessions -> BOOLEAN]
    BY <1>3 DEF Expire, Types, TypeOK
  <2>3. TypeOK' /\ RowsThere'
    BY <2>1, <2>2 DEF Types, TypeOK, RowsThere, fileVars, bucketVars
  <2>4. \A a \in Actors : Shape(a)'
    BY <2>1 DEF Types, Shape
  <2> QED
    BY <2>3, <2>4 DEF Types
<1>4. CASE UNCHANGED vars
  <2>1. UNCHANGED <<count, manifest, state, expired, fileState, objectKey, owned, part,
                    multipart, objects, dedup, actor>>
    BY <1>4 DEF vars, rowVars, fileVars, bucketVars
  <2>2. TypeOK' /\ RowsThere'
    BY <2>1 DEF Types, TypeOK, RowsThere
  <2>3. \A a \in Actors : Shape(a)'
    BY <2>1 DEF Types, Shape
  <2> QED
    BY <2>2, <2>3 DEF Types
<1> QED
  BY <1>1, <1>2, <1>3, <1>4, BeginTypes, OpenFileTypes, CreateSessionTypes, PartTypes,
     CompleteTypes, EndTypes
  DEF Next, Continue

\* Every row, object and invocation is of the kind the code gives it; an
\* invocation that works on a session works on one that exists.
THEOREM TypesHold == Spec => []TypeOK
<1>1. Types => TypeOK
  BY DEF Types
<1> QED
  BY <1>1, TypesInit, TypesStep, PTL DEF Spec
-----------------------------------------------------------------------------
(* What a step may change.                                                 *)

Creates(a) == CreateSession(a) /\ count' # count

\* Where an invocation can come from.
Arrival(a) ==
    /\ OnlyMoves(a)
    /\ \/ actor'[a] = Idle
       \/ GoesOn(a) /\ (actor[a].op # "start" => actor'[a].id = actor[a].id)
       \/ /\ \E op \in AllOperations, m \in Manifests :
               MayBegin(a, op, m) /\ actor'[a].op = op /\ actor'[a].manifest = m
          /\ actor'[a].op = "complete" => \E s \in 1..count : CompleteRead(a, s)
    /\ actor'[a].stage \in Starting => OpenFile(a) \/ \E m \in Manifests : StartRead(a, m)
    /\ actor'[a].stage \in {"drop", "markFile"} => RegisterContent(a) \/ DropObject(a)
    /\ actor'[a].stage \in {"finish", "markDeduplicated"} => Refresh(a) \/ Creates(a)
    /\ actor'[a].stage \in {"verify", "register"} => CompleteMultipart(a) \/ VerifyObject(a)
    /\ actor'[a].stage \in Ending =>
          \/ actor'[a].todo = Files /\ actor'[a].keys = {}
          \/ ScanFile(a) \/ AbortFile(a) \/ DeleteObject(a) \/ SweepDone(a)

LEMMA ReturnArrives == ASSUME Types, NEW a \in Actors, Return(a) PROVE Arrival(a)
<1>1. OnlyMoves(a) /\ actor'[a] = Idle
  BY ReturnIs
<1>2. Idle.stage = "idle"
  BY DEF Idle
<1> QED
  BY <1>1, <1>2 DEF Arrival, Starting, Ending

LEMMA FailArrives ==
    ASSUME Types, NEW a \in Actors, Fail(a), actor[a].op = "complete" PROVE Arrival(a)
<1>1. /\ GoesOn(a) /\ actor'[a].stage = "scan" /\ actor'[a].id = actor[a].id
      /\ actor'[a].todo = Files /\ actor'[a].keys = {}
  BY FailIs
<1> QED
  BY <1>1 DEF Arrival, GoesOn, Starting

LEMMA Arrives ==
    ASSUME Types, NEW a \in Actors, Begin(a) \/ Continue(a) \/ Crash(a)
    PROVE  Arrival(a)
<1> USE DEF Starting, Ending
<1>0. Shape(a)
  BY ActorTyped
<1>1. ASSUME NEW m \in Manifests, StartRead(a, m) PROVE Arrival(a)
  <2>1. /\ OnlyMoves(a) /\ actor'[a].op = "start" /\ actor'[a].manifest = m
        /\ actor'[a].stage = "open"
    BY <1>1, StartReadIs
  <2>2. MayBegin(a, "start", m) /\ "start" \in AllOperations
    BY <1>1 DEF StartRead, AllOperations
  <2> QED
    BY <1>1, <2>1, <2>2 DEF Arrival
<1>2. ASSUME NEW s \in 1..count, NEW f \in Files, PartRead(a, s, f) PROVE Arrival(a)
  <2>1. /\ OnlyMoves(a) /\ actor'[a].op = "part" /\ actor'[a].stage = "send"
        /\ actor'[a].manifest = manifest[s]
    BY <1>2, PartReadIs
  <2>2. MayBegin(a, "part", manifest[s]) /\ "part" \in AllOperations /\ manifest[s] \in Manifests
    BY <1>2 DEF PartRead, AllOperations, Types, RowsThere
  <2> QED
    BY <2>1, <2>2 DEF Arrival
<1>3. ASSUME NEW s \in 1..count, CompleteRead(a, s) PROVE Arrival(a)
  <2>1. /\ OnlyMoves(a) /\ actor'[a].op = "complete" /\ actor'[a].stage \in {"refresh", "file"}
        /\ actor'[a].manifest = manifest[s]
    BY <1>3, CompleteReadIs
  <2>2. /\ MayBegin(a, "complete", manifest[s]) /\ "complete" \in AllOperations
        /\ manifest[s] \in Manifests
    BY <1>3 DEF CompleteRead, AllOperations, Types, RowsThere
  <2> QED
    BY <1>3, <2>1, <2>2 DEF Arrival
<1>4. ASSUME NEW s \in 1..count, AbortRead(a, s) \/ CleanupExpired(a, s) PROVE Arrival(a)
  <2>1. /\ OnlyMoves(a) /\ actor'[a].op \in {"abort", "cleanup"} /\ actor'[a].stage = "scan"
        /\ actor'[a].manifest = manifest[s] /\ actor'[a].todo = Files /\ actor'[a].keys = {}
    BY <1>4, EndReadIs
  <2>2. PICK op \in {"abort", "cleanup"} :
          MayBegin(a, op, manifest[s]) /\ actor' = [actor EXCEPT ![a] = Read(op, "scan", s)]
    BY <1>4 DEF AbortRead, CleanupExpired
  <2>3. op \in AllOperations /\ manifest[s] \in Manifests /\ "scan" \in Stage
    BY DEF AllOperations, Types, RowsThere, Stage
  <2>4. actor'[a].op = op
    BY <2>2, <2>3, ReadIs, ActorTyped
  <2> QED
    BY <2>1, <2>2, <2>3, <2>4 DEF Arrival
<1>5. CASE OpenFile(a)
  <2>1. GoesOn(a) /\ actor[a].op = "start" /\ actor'[a].stage \in {"open", "insert"}
    BY <1>5, OpenFileIs
  <2> QED
    BY <1>5, <2>1 DEF Arrival, GoesOn
<1>6. CASE CreateSession(a)
  <2>1. CASE Return(a)
    BY <2>1, ReturnArrives
  <2>2. CASE ~Return(a)
    <3>1. /\ GoesOn(a) /\ actor[a].op = "start" /\ actor'[a].stage = "markDeduplicated"
          /\ count' = count + 1 /\ count \in Nat
      BY <1>6, <2>2, CreateSessionIs DEF Types, TypeOK
    <3> QED
      BY <1>6, <3>1 DEF Arrival, Creates, GoesOn
  <2> QED
    BY <2>1, <2>2
<1>7. CASE MarkDeduplicated(a) \/ MarkAbortedPart(a) \/ RecordPart(a) \/ MarkAborted(a) \/ Crash(a)
  BY <1>7, ReturnArrives DEF MarkDeduplicated, MarkAbortedPart, RecordPart, MarkAborted, Crash
<1>8. CASE SendPart(a)
  <2>1. CASE Return(a)
    BY <2>1, ReturnArrives
  <2>2. CASE ~Return(a)
    BY <1>8, <2>2, SendPartIs DEF Arrival, GoesOn
  <2> QED
    BY <2>1, <2>2
<1>9. CASE AbortPart(a)
  BY <1>9, GoToIs DEF AbortPart, Arrival, GoesOn, Stage
<1>10. CASE CompleteMultipart(a)
  <2>1. actor[a].op = "complete"
    BY <1>0, <1>10 DEF CompleteMultipart, Shape, Completing
  <2>2. CASE Fail(a)
    BY <2>1, <2>2, FailArrives
  <2>3. CASE ~Fail(a)
    <3>1. GoesOn(a) /\ actor'[a].stage = "verify" /\ actor'[a].id = actor[a].id
      BY <1>10, <2>3, CompleteMultipartIs
    <3> QED
      BY <1>10, <3>1 DEF Arrival, GoesOn
  <2> QED
    BY <2>2, <2>3
<1>11. CASE VerifyObject(a)
  <2>1. actor[a].op = "complete"
    BY <1>0, <1>11 DEF VerifyObject, Shape, Completing, Storing
  <2>2. CASE Fail(a)
    BY <2>1, <2>2, FailArrives
  <2>3. CASE GoTo(a, "register")
    <3>1. GoesOn(a) /\ actor'[a].stage = "register" /\ actor'[a].id = actor[a].id
      BY <2>3, GoToIs DEF Stage
    <3> QED
      BY <1>11, <3>1 DEF Arrival, GoesOn
  <2> QED
    BY <1>11, <2>2, <2>3 DEF VerifyObject
<1>12. CASE RegisterContent(a)
  <2>1. /\ GoesOn(a) /\ actor'[a].stage \in {"markFile", "drop"} /\ actor'[a].id = actor[a].id
    BY <1>12, RegisterContentIs
  <2> QED
    BY <1>12, <2>1 DEF Arrival, GoesOn
<1>13. CASE DropObject(a)
  <2>1. /\ GoesOn(a) /\ actor'[a].stage = "markFile" /\ actor'[a].id = actor[a].id
    BY <1>13, GoToIs DEF DropObject, Stage
  <2> QED
    BY <1>13, <2>1 DEF Arrival, GoesOn
<1>14. CASE MarkFileCompleted(a)
  <2>1. /\ GoesOn(a) /\ actor'[a].stage \in {"refresh", "file"} /\ actor'[a].id = actor[a].id
    BY <1>14, MarkFileCompletedIs
  <2> QED
    BY <1>14, <2>1 DEF Arrival, GoesOn
<1>15. CASE Refresh(a)
  <2>1. actor[a].op = "complete"
    BY <1>0, <1>15 DEF Refresh, Shape, Completing
  <2>2. CASE Fail(a)
    BY <2>1, <2>2, FailArrives
  <2>3. CASE GoTo(a, "finish")
    <3>1. GoesOn(a) /\ actor'[a].stage = "finish" /\ actor'[a].id = actor[a].id
      BY <2>3, GoToIs DEF Stage
    <3> QED
      BY <1>15, <3>1 DEF Arrival, GoesOn
  <2> QED
    BY <1>15, <2>2, <2>3 DEF Refresh
<1>16. CASE MarkCompleted(a)
  <2>1. actor[a].op = "complete"
    BY <1>0, <1>16 DEF MarkCompleted, Shape, Completing
  <2> QED
    BY <1>16, <2>1, FailArrives, ReturnArrives DEF MarkCompleted
<1>17. CASE ScanFile(a)
  <2>1. /\ GoesOn(a) /\ actor'[a].stage \in {"abortFile", "scan", "sweep"}
        /\ actor'[a].id = actor[a].id
    BY <1>17, ScanFileIs
  <2> QED
    BY <1>17, <2>1 DEF Arrival, GoesOn
<1>18. CASE AbortFile(a)
  <2>1. PICK stage \in {"sweep", "scan"} : GoTo(a, stage)
    BY <1>18 DEF AbortFile
  <2>2. /\ GoesOn(a) /\ actor'[a].stage = stage /\ actor'[a].id = actor[a].id
    BY <2>1, GoToIs DEF Stage
  <2> QED
    BY <1>18, <2>2 DEF Arrival, GoesOn
<1>19. CASE DeleteObject(a)
  <2>1. /\ GoesOn(a) /\ actor'[a].stage = "sweep" /\ actor'[a].id = actor[a].id
    BY <1>19, DeleteObjectIs
  <2> QED
    BY <1>19, <2>1 DEF Arrival, GoesOn
<1>20. CASE SweepDone(a)
  <2>1. /\ GoesOn(a) /\ actor'[a].stage = "markAborted" /\ actor'[a].id = actor[a].id
    BY <1>20, GoToIs DEF SweepDone, Stage
  <2> QED
    BY <1>20, <2>1 DEF Arrival, GoesOn
<1> QED
  BY <1>1, <1>2, <1>3, <1>4, <1>5, <1>6, <1>7, <1>8, <1>9, <1>10, <1>11, <1>12, <1>13, <1>14,
     <1>15, <1>16, <1>17, <1>18, <1>19, <1>20
  DEF Begin, Continue

\* An invocation stays as it is, or it is the one that moves.
LEMMA ActorsStep ==
    ASSUME Types, [Next]_vars, NEW b \in Actors
    PROVE  actor'[b] = actor[b] \/ Arrival(b)
<1>1. CASE UNCHANGED actor
  BY <1>1
<1>2. ASSUME NEW a \in Actors, Begin(a) \/ Continue(a) \/ Crash(a) PROVE actor'[b] = actor[b] \/ Arrival(b)
  BY <1>2, Arrives DEF Arrival, OnlyMoves
<1> QED
  BY <1>1, <1>2 DEF Next, Expire, vars

\* Which actions change which tables.
LEMMA Footprints ==
    ASSUME [Next]_vars
    PROVE  /\ UNCHANGED <<count, manifest, owned>> \/ \E a \in Actors : CreateSession(a)
           /\ \/ UNCHANGED state
              \/ \E a \in Actors : \/ CreateSession(a) \/ MarkDeduplicated(a) \/ MarkAbortedPart(a)
                                   \/ MarkCompleted(a) \/ MarkAborted(a)
           /\ \/ UNCHANGED <<fileState, objectKey>>
              \/ \E a \in Actors : CreateSession(a) \/ MarkFileCompleted(a)
           /\ UNCHANGED part \/ \E a \in Actors : RecordPart(a)
           /\ \/ UNCHANGED multipart
              \/ \E a \in Actors : \/ CreateSession(a) \/ AbortPart(a) \/ CompleteMultipart(a)
                                   \/ AbortFile(a)
           /\ \/ UNCHANGED objects
              \/ \E a \in Actors : CompleteMultipart(a) \/ DropObject(a) \/ DeleteObject(a)
           /\ UNCHANGED dedup \/ \E a \in Actors : RegisterContent(a)
<1>1. CASE UNCHANGED vars
  BY <1>1 DEF vars, rowVars, fileVars, bucketVars
<1>2. ASSUME NEW s \in 1..count, Expire(s)
      PROVE  UNCHANGED <<count, manifest, state, fileVars, bucketVars, dedup>>
  BY <1>2 DEF Expire
<1>3. ASSUME NEW a \in Actors, Begin(a) \/ Crash(a)
      PROVE  UNCHANGED <<rowVars, fileVars, bucketVars, dedup>>
  BY <1>3 DEF Begin, StartRead, PartRead, CompleteRead, AbortRead, CleanupExpired, Crash
<1>4. ASSUME NEW a \in Actors, Continue(a)
      PROVE  /\ UNCHANGED <<count, manifest, owned>> \/ CreateSession(a)
             /\ \/ UNCHANGED state
                \/ CreateSession(a) \/ MarkDeduplicated(a) \/ MarkAbortedPart(a)
                \/ MarkCompleted(a) \/ MarkAborted(a)
             /\ UNCHANGED <<fileState, objectKey>> \/ CreateSession(a) \/ MarkFileCompleted(a)
             /\ UNCHANGED part \/ RecordPart(a)
             /\ \/ UNCHANGED multipart
                \/ CreateSession(a) \/ AbortPart(a) \/ CompleteMultipart(a) \/ AbortFile(a)
             /\ UNCHANGED objects \/ CompleteMultipart(a) \/ DropObject(a) \/ DeleteObject(a)
             /\ UNCHANGED dedup \/ RegisterContent(a)
  <2>1. CASE \/ OpenFile(a) \/ SendPart(a) \/ VerifyObject(a) \/ Refresh(a) \/ ScanFile(a)
             \/ SweepDone(a)
    BY <2>1 DEF OpenFile, SendPart, VerifyObject, Refresh, ScanFile, Scan, SweepDone,
                rowVars, fileVars, bucketVars
  <2>2. CASE MarkDeduplicated(a) \/ MarkAbortedPart(a) \/ MarkCompleted(a) \/ MarkAborted(a)
    BY <2>2 DEF MarkDeduplicated, MarkAbortedPart, MarkCompleted, MarkAborted, fileVars, bucketVars
  <2>3. CASE AbortPart(a) \/ CompleteMultipart(a) \/ AbortFile(a)
    BY <2>3 DEF AbortPart, CompleteMultipart, AbortFile, rowVars, fileVars
  <2>4. CASE CreateSession(a)
    BY <2>4 DEF CreateSession
  <2>5. CASE RecordPart(a)
    BY <2>5 DEF RecordPart, rowVars, bucketVars
  <2>6. CASE RegisterContent(a) \/ DropObject(a) \/ DeleteObject(a)
    BY <2>6 DEF RegisterContent, DropObject, DeleteObject, rowVars, fileVars, bucketVars
  <2>7. CASE MarkFileCompleted(a)
    BY <2>7 DEF MarkFileCompleted, rowVars, bucketVars
  <2> QED
    BY <1>4, <2>1, <2>2, <2>3, <2>4, <2>5, <2>6, <2>7 DEF Continue
<1> QED
  BY <1>1, <1>2, <1>3, <1>4 DEF Next, rowVars, fileVars, bucketVars

\* A session is created, or the sessions are those that were there.
LEMMA CreatesOrNot ==
    ASSUME Types, NEW a \in Actors, CreateSession(a), ~Creates(a)
    PROVE  UNCHANGED <<rowVars, fileVars, bucketVars, dedup>> /\ Return(a)
<1>1. count' # count + 1
  BY DEF Creates, Types, TypeOK
<1> QED
  BY <1>1 DEF CreateSession, rowVars, fileVars, bucketVars

\* The rows of a session keep their manifest and their owner.
LEMMA RowsStay ==
    ASSUME Types, [Next]_vars, NEW s \in 1..count
    PROVE  /\ s \in Sessions /\ s \in 1..count' /\ manifest[s] \in Manifests
           /\ manifest'[s] = manifest[s]
           /\ \A f \in Files : /\ Key(s, f) \in Keys /\ Content(s, f) \in Contents
                               /\ Key(s, f)' = Key(s, f) /\ Content(s, f)' = Content(s, f)
                               /\ owned'[<<s, f>>] = owned[<<s, f>>]
<1>1. s \in Sessions /\ manifest[s] \in Manifests /\ count \in Nat
  BY DEF Types, TypeOK, RowsThere, Sessions
<1>2. /\ s \in 1..count' /\ manifest'[s] = manifest[s]
      /\ \A f \in Files : owned'[<<s, f>>] = owned[<<s, f>>]
  <2>1. CASE UNCHANGED <<count, manifest, owned>>
    BY <2>1
  <2>2. ASSUME NEW a \in Actors, Creates(a)
        PROVE  /\ s \in 1..count' /\ manifest'[s] = manifest[s]
               /\ \A f \in Files : owned'[<<s, f>>] = owned[<<s, f>>]
    <3>1. count' = count + 1 /\ manifest' = [manifest EXCEPT ![count + 1] = actor[a].manifest]
      BY <2>2, CreateSessionIs DEF Creates
    <3>2. s # count + 1
      BY <1>1
    <3>3. ASSUME NEW f \in Files PROVE owned'[<<s, f>>] = owned[<<s, f>>]
      <4>1. owned' = [x \in Sessions \X Files |->
                        IF x[1] = count + 1 THEN ~(actor[a].hits[x[2]] # NoKey) ELSE owned[x]]
        BY <2>2 DEF Creates, CreateSession
      <4> QED
        BY <1>1, <3>2, <4>1
    <3> QED
      BY <1>1, <3>1, <3>2, <3>3
  <2> QED
    BY <2>1, <2>2, Footprints, CreatesOrNot DEF rowVars, fileVars
<1>3. ASSUME NEW f \in Files
      PROVE  Key(s, f) \in Keys /\ Content(s, f) \in Contents
  BY <1>1 DEF Key, Keys, Content, Files
<1> QED
  BY <1>1, <1>2, <1>3 DEF Key, Content

\* What is registered stays registered.
LEMMA DedupStays ==
    ASSUME Types, [Next]_vars, NEW c \in Contents
    PROVE  \/ dedup'[c] = dedup[c]
           \/ /\ dedup[c] = NoKey
              /\ \E a \in Actors :
                   /\ RegisterContent(a) /\ actor[a].id \in 1..count /\ actor[a].file \in Files
                   /\ c = Content(actor[a].id, actor[a].file)
                   /\ dedup'[c] = Key(actor[a].id, actor[a].file)
<1>1. ASSUME NEW a \in Actors, RegisterContent(a), dedup'[c] # dedup[c]
      PROVE  /\ dedup[c] = NoKey
             /\ actor[a].id \in 1..count /\ actor[a].file \in Files
             /\ c = Content(actor[a].id, actor[a].file)
             /\ dedup'[c] = Key(actor[a].id, actor[a].file)
  <2> DEFINE d == Content(actor[a].id, actor[a].file)
             k == Key(actor[a].id, actor[a].file)
  <2>1. /\ dedup' = [dedup EXCEPT ![d] = IF dedup[d] = NoKey THEN k ELSE dedup[d]]
        /\ actor[a].id \in 1..count /\ actor[a].file \in Files
    BY <1>1, RegisterContentIs
  <2>2. dedup \in [Contents -> Keys \cup {NoKey}]
    BY DEF Types, TypeOK
  <2> HIDE DEF d, k
  <2>3. c = d /\ dedup[c] = NoKey /\ dedup'[c] = k
    BY <1>1, <2>1, <2>2
  <2> QED
    BY <2>1, <2>3 DEF d, k
<1> QED
  BY <1>1, Footprints

\* A part that was recorded stays recorded.
LEMMA PartStays ==
    ASSUME Types, [Next]_vars, NEW x \in Sessions \X Files, part[x] # "none"
    PROVE  part'[x] = part[x]
<1>1. ASSUME NEW a \in Actors, RecordPart(a) PROVE part'[x] = part[x]
  <2>1. PICK y : part' = [part EXCEPT ![y] = IF @ = "none" THEN actor[a].bytes ELSE @]
    BY <1>1 DEF RecordPart
  <2> QED
    BY <2>1 DEF Types, TypeOK
<1> QED
  BY <1>1, Footprints

\* The state of a session that is there only leaves "active".
LEMMA StateMoves ==
    ASSUME Types, [Next]_vars, NEW s \in 1..count
    PROVE  state'[s] = state[s] \/ (state[s] = "active" /\ state'[s] # "active")
<1>1. s \in Sessions /\ state \in [Sessions -> {"absent", "active", "completed", "aborted", "expired"}]
      /\ count \in Nat
  BY DEF Types, TypeOK, Sessions
<1>2. ASSUME NEW t, NEW verdict \in {"completed", "aborted", "expired"},
             state' = [state EXCEPT ![t] = IF @ = "active" THEN verdict ELSE @]
      PROVE  state'[s] = state[s] \/ (state[s] = "active" /\ state'[s] # "active")
  BY <1>1, <1>2
<1>3. ASSUME NEW a \in Actors, \/ MarkDeduplicated(a) \/ MarkAbortedPart(a) \/ MarkAborted(a)
      PROVE  state'[s] = state[s] \/ (state[s] = "active" /\ state'[s] # "active")
  <2>1. PICK verdict \in {"completed", "aborted", "expired"} :
           state' = [state EXCEPT ![actor[a].id] = IF @ = "active" THEN verdict ELSE @]
    BY <1>3 DEF MarkDeduplicated, MarkAbortedPart, MarkAborted
  <2> QED
    BY <1>2, <2>1
<1>4. ASSUME NEW a \in Actors, MarkCompleted(a)
      PROVE  state'[s] = state[s] \/ (state[s] = "active" /\ state'[s] # "active")
  BY <1>1, <1>4 DEF MarkCompleted
<1>5. ASSUME NEW a \in Actors, CreateSession(a)
      PROVE  state'[s] = state[s] \/ (state[s] = "active" /\ state'[s] # "active")
  <2>1. CASE Creates(a)
    <3>1. state' = [state EXCEPT ![count + 1] = "active"]
      BY <2>1, CreateSessionIs DEF Creates
    <3> QED
      BY <1>1, <3>1
  <2>2. CASE ~Creates(a)
    BY <1>5, <2>2, CreatesOrNot DEF rowVars
  <2> QED
    BY <2>1, <2>2
<1> QED
  BY <1>3, <1>4, <1>5, Footprints
-----------------------------------------------------------------------------
(* Files and contents: what holds whatever overlaps.                       *)

\* What start found is what is registered.
Started(a) ==
    actor[a].stage \in Starting =>
        \A f \in Files \ actor[a].todo : actor[a].hits[f] # NoKey =>
            actor[a].hits[f] = dedup[ContentOf[actor[a].manifest][f]]

\* What complete is going to put into the row is what is registered.
Confirmed(a) ==
    actor[a].stage \in {"drop", "markFile"} =>
        LET s == actor[a].id
            f == actor[a].file
        IN /\ actor[a].ref # NoKey /\ actor[a].ref = dedup[Content(s, f)]
           /\ actor[a].stage = "drop" => actor[a].ref # Key(s, f)

\* Nothing is left to send when a session is about to be completed.
Settled(a) ==
    actor[a].stage \in {"finish", "markDeduplicated"} => Required(actor[a].id) = {}

FilesCanonical ==
    \A s \in 1..count, f \in Files : fileState[<<s, f>>] # "upload_required" =>
        objectKey[<<s, f>>] # NoKey /\ objectKey[<<s, f>>] = dedup[Content(s, f)]

CompletedSettled == \A s \in 1..count : state[s] = "completed" => Required(s) = {}

CanonicalInv ==
    /\ Types /\ FilesCanonical /\ CompletedSettled
    /\ \A a \in Actors : Started(a) /\ Confirmed(a) /\ Settled(a)

LEMMA CanonicalInit == Init => CanonicalInv
<1> SUFFICES ASSUME Init PROVE CanonicalInv
  OBVIOUS
<1>1. FilesCanonical /\ CompletedSettled
  BY DEF Init, FilesCanonical, CompletedSettled
<1>2. \A a \in Actors : actor[a].stage = "idle"
  BY DEF Init, Idle
<1>3. \A a \in Actors : Started(a) /\ Confirmed(a) /\ Settled(a)
  BY <1>2 DEF Started, Confirmed, Settled, Starting
<1> QED
  BY <1>1, <1>3, TypesInit DEF CanonicalInv

LEMMA StartedStep ==
    ASSUME CanonicalInv, [Next]_vars, NEW a \in Actors PROVE Started(a)'
<1>0. Types /\ Types' /\ Started(a)
  BY TypesStep DEF CanonicalInv
<1> SUFFICES ASSUME actor'[a].stage \in Starting, NEW f \in Files \ actor'[a].todo,
                    actor'[a].hits[f] # NoKey
             PROVE  actor'[a].hits[f] = dedup'[ContentOf[actor'[a].manifest][f]]
  BY DEF Started
<1>1. CASE actor'[a] = actor[a]
  <2>1. actor[a].hits[f] = dedup[ContentOf[actor[a].manifest][f]]
    BY <1>0, <1>1 DEF Started
  <2>2. PICK m \in Manifests : m = actor[a].manifest
    BY <1>0, <1>1, ActorTyped DEF Shape
  <2>3. ContentOf[m][f] \in Contents
    BY DEF Files
  <2> QED
    BY <1>0, <1>1, <2>1, <2>2, <2>3, DedupStays
<1>2. ASSUME NEW m \in Manifests, StartRead(a, m) PROVE FALSE
  BY <1>0, <1>2, StartReadIs
<1>3. CASE OpenFile(a)
  <2>1. PICK g \in Files :
          /\ g \in actor[a].todo /\ actor'[a].todo = actor[a].todo \ {g}
          /\ actor'[a].hits = [actor[a].hits EXCEPT ![g] = dedup[ContentOf[actor[a].manifest][g]]]
    BY <1>0, <1>3, OpenFileIs
  <2>2. dedup' = dedup /\ actor'[a].manifest = actor[a].manifest /\ actor[a].stage = "open"
    BY <1>0, <1>3, OpenFileIs DEF OpenFile, GoesOn
  <2>3. actor[a].hits \in [Files -> Keys \cup {NoKey}]
    BY <1>0, ActorTyped DEF Invocation
  <2>4. CASE f = g
    BY <2>1, <2>2, <2>3, <2>4
  <2>5. CASE f # g
    <3>1. actor'[a].hits[f] = actor[a].hits[f] /\ f \in Files \ actor[a].todo
      BY <2>1, <2>3, <2>5
    <3> QED
      BY <1>0, <2>2, <3>1 DEF Started, Starting
  <2> QED
    BY <2>4, <2>5
<1> QED
  BY <1>0, <1>1, <1>2, <1>3, ActorsStep DEF Arrival

LEMMA ConfirmedStep ==
    ASSUME CanonicalInv, [Next]_vars, NEW a \in Actors PROVE Confirmed(a)'
<1>0. Types /\ Types' /\ Confirmed(a)
  BY TypesStep DEF CanonicalInv
<1> SUFFICES ASSUME actor'[a].stage \in {"drop", "markFile"}
             PROVE  /\ actor'[a].ref # NoKey
                    /\ actor'[a].ref = dedup'[Content(actor[a].id, actor[a].file)']
                    /\ actor'[a].stage = "drop" =>
                          actor'[a].ref # Key(actor[a].id, actor[a].file)'
  BY DEF Confirmed, Content, Key
<1>1. ASSUME NEW s \in 1..count, NEW f \in Files, NEW ref, ref # NoKey,
             ref = dedup[Content(s, f)] \/ ref = dedup'[Content(s, f)],
             actor'[a].id = s, actor'[a].file = f, actor'[a].ref = ref,
             actor'[a].stage = "drop" => ref # Key(s, f)
      PROVE  /\ actor'[a].ref # NoKey
             /\ actor'[a].ref = dedup'[Content(actor[a].id, actor[a].file)']
             /\ actor'[a].stage = "drop" => actor'[a].ref # Key(actor[a].id, actor[a].file)'
  <2>1. /\ Content(s, f) \in Contents
        /\ Key(s, f)' = Key(s, f) /\ Content(s, f)' = Content(s, f)
    BY <1>0, RowsStay
  <2>2. ref = dedup'[Content(s, f)]
    BY <1>0, <1>1, <2>1, DedupStays
  <2> QED
    BY <1>1, <2>1, <2>2 DEF Content, Key
<1>2. CASE actor'[a] = actor[a]
  <2>1. PICK s \in 1..count, f \in Files : s = actor[a].id /\ f = actor[a].file
    BY <1>0, <1>2, ActorTyped DEF Shape, Storing, Starting
  <2> QED
    BY <1>0, <1>1, <1>2, <2>1 DEF Confirmed
<1>3. CASE RegisterContent(a)
  <2>1. PICK s \in 1..count, f \in Files : s = actor[a].id /\ f = actor[a].file
    BY <1>0, <1>3, RegisterContentIs
  <2>2. PICK ref : ref = IF dedup[Content(s, f)] = NoKey THEN Key(s, f) ELSE dedup[Content(s, f)]
    OBVIOUS
  <2>3. /\ actor'[a].ref = ref /\ actor'[a].id = s /\ actor'[a].file = f
        /\ actor'[a].stage = IF ref = Key(s, f) THEN "markFile" ELSE "drop"
        /\ dedup' = [dedup EXCEPT ![Content(s, f)] = ref]
        /\ Content(s, f) \in Contents /\ Key(s, f) \in Keys
    BY <1>0, <1>3, <2>1, <2>2, RegisterContentIs
  <2>4. ref # NoKey /\ ref = dedup'[Content(s, f)]
    BY <1>0, <2>2, <2>3, NoKeyIsNoKey DEF Types, TypeOK
  <2> QED
    BY <1>1, <2>3, <2>4
<1>4. CASE DropObject(a)
  <2>1. actor[a].stage = "drop" /\ GoTo(a, "markFile")
    BY <1>4 DEF DropObject
  <2>2. PICK s \in 1..count, f \in Files : s = actor[a].id /\ f = actor[a].file
    BY <1>0, <2>1, ActorTyped DEF Shape, Storing, Starting
  <2>3. /\ actor'[a].stage = "markFile" /\ actor'[a].id = s /\ actor'[a].file = f
        /\ actor'[a].ref = actor[a].ref
    BY <1>0, <2>1, <2>2, GoToIs DEF Stage
  <2> QED
    BY <1>0, <1>1, <2>1, <2>2, <2>3 DEF Confirmed
<1> QED
  BY <1>0, <1>2, <1>3, <1>4, ActorsStep DEF Arrival

\* No file of a session that is there becomes upload_required.
LEMMA RequiredShrinks ==
    ASSUME Types, [Next]_vars, NEW s \in 1..count
    PROVE  Required(s)' \subseteq Required(s)
<1> SUFFICES ASSUME NEW f \in Files, fileState'[<<s, f>>] = "upload_required"
             PROVE  fileState[<<s, f>>] = "upload_required"
  BY DEF Required
<1>1. s \in Sessions /\ count \in Nat
  BY DEF Types, TypeOK, Sessions
<1>2. ASSUME NEW a \in Actors, CreateSession(a) PROVE fileState[<<s, f>>] = "upload_required"
  <2>1. CASE Creates(a)
    <3>1. fileState' = [x \in Sessions \X Files |->
             IF ~(x[1] = count + 1) THEN fileState[x]
             ELSE IF actor[a].hits[x[2]] # NoKey THEN "deduplicated" ELSE "upload_required"]
      BY <2>1 DEF Creates, CreateSession
    <3> QED
      BY <1>1, <3>1
  <2>2. CASE ~Creates(a)
    BY <1>2, <2>2, CreatesOrNot DEF fileVars
  <2> QED
    BY <2>1, <2>2
<1>3. ASSUME NEW a \in Actors, MarkFileCompleted(a) PROVE fileState[<<s, f>>] = "upload_required"
  <2>1. PICK y : fileState' = [fileState EXCEPT ![y] = "completed"]
    BY <1>3 DEF MarkFileCompleted
  <2> QED
    BY <1>1, <2>1 DEF Types, TypeOK
<1> QED
  BY <1>2, <1>3, Footprints

LEMMA SettledStep ==
    ASSUME CanonicalInv, [Next]_vars, NEW a \in Actors PROVE Settled(a)'
<1>0. Types /\ Types' /\ Settled(a)
  BY TypesStep DEF CanonicalInv
<1> SUFFICES ASSUME actor'[a].stage \in {"finish", "markDeduplicated"}
             PROVE  Required(actor[a].id)' = {}
  BY DEF Settled, Required
<1>1. ASSUME NEW s \in 1..count, actor'[a].id = s, Required(s) = {}
      PROVE  Required(actor[a].id)' = {}
  <2>1. Required(s)' = {}
    BY <1>0, <1>1, RequiredShrinks
  <2> QED
    BY <1>1, <2>1 DEF Required
<1>2. CASE actor'[a] = actor[a]
  <2>1. PICK s \in 1..count : s = actor[a].id
    BY <1>0, <1>2, ActorTyped DEF Shape, Starting
  <2> QED
    BY <1>0, <1>1, <1>2, <2>1 DEF Settled
<1>3. CASE Refresh(a)
  <2>1. actor[a].stage = "refresh" /\ actor[a].op = "complete"
    BY <1>0, <1>3, ActorTyped DEF Refresh, Shape, Completing
  <2>2. PICK s \in 1..count : s = actor[a].id
    BY <1>0, <2>1, ActorTyped DEF Shape, Starting
  <2>3. ~Fail(a)
    BY <1>0, <2>1, FailIs
  <2>4. GoTo(a, "finish") /\ Required(s) = {}
    BY <1>3, <2>2, <2>3 DEF Refresh
  <2> QED
    BY <1>0, <1>1, <2>2, <2>4, GoToIs DEF Stage
<1>4. CASE Creates(a)
  <2>1. ~Return(a)
    BY <1>0, ReturnIs DEF Idle
  <2>2. /\ actor'[a].id = count + 1 /\ \A f \in Files : actor[a].hits[f] # NoKey
        /\ count + 1 \in Sessions
    BY <1>0, <1>4, <2>1, CreateSessionIs DEF Creates
  <2>3. fileState' = [x \in Sessions \X Files |->
           IF ~(x[1] = count + 1) THEN fileState[x]
           ELSE IF actor[a].hits[x[2]] # NoKey THEN "deduplicated" ELSE "upload_required"]
    BY <1>4 DEF Creates, CreateSession
  <2>4. \A f \in Files : fileState'[<<count + 1, f>>] = "deduplicated"
    BY <2>2, <2>3
  <2> QED
    BY <2>2, <2>4 DEF Required
<1> QED
  BY <1>0, <1>2, <1>3, <1>4, ActorsStep DEF Arrival

LEMMA FilesCanonicalStep ==
    ASSUME CanonicalInv, [Next]_vars PROVE FilesCanonical'
<1>0. Types /\ Types' /\ FilesCanonical /\ count \in Nat
  BY TypesStep DEF CanonicalInv, Types, TypeOK
<1> SUFFICES ASSUME NEW s \in 1..count', NEW f \in Files, fileState'[<<s, f>>] # "upload_required"
             PROVE  /\ objectKey'[<<s, f>>] # NoKey
                    /\ objectKey'[<<s, f>>] = dedup'[Content(s, f)']
  BY DEF FilesCanonical, Content
<1>1. ASSUME s \in 1..count, objectKey'[<<s, f>>] = objectKey[<<s, f>>],
             fileState[<<s, f>>] # "upload_required"
      PROVE  /\ objectKey'[<<s, f>>] # NoKey
             /\ objectKey'[<<s, f>>] = dedup'[Content(s, f)']
  <2>1. Content(s, f)' = Content(s, f) /\ Content(s, f) \in Contents
    BY <1>0, <1>1, RowsStay
  <2>2. objectKey[<<s, f>>] # NoKey /\ objectKey[<<s, f>>] = dedup[Content(s, f)]
    BY <1>0, <1>1 DEF FilesCanonical
  <2> QED
    BY <1>0, <1>1, <2>1, <2>2, DedupStays
<1>2. CASE UNCHANGED <<fileState, objectKey, count>>
  BY <1>1, <1>2
<1>3. ASSUME NEW a \in Actors, Creates(a)
      PROVE  /\ objectKey'[<<s, f>>] # NoKey
             /\ objectKey'[<<s, f>>] = dedup'[Content(s, f)']
  <2>1. /\ count' = count + 1 /\ s \in Sessions /\ count + 1 \in Sessions /\ dedup' = dedup
        /\ actor[a].manifest \in Manifests /\ actor[a].todo = {}
        /\ manifest' = [manifest EXCEPT ![count + 1] = actor[a].manifest]
    BY <1>0, <1>3, CreateSessionIs DEF Creates, Types, TypeOK, Sessions
  <2>2. fileState' = [x \in Sessions \X Files |->
           IF ~(x[1] = count + 1) THEN fileState[x]
           ELSE IF actor[a].hits[x[2]] # NoKey THEN "deduplicated" ELSE "upload_required"]
    BY <1>3 DEF Creates, CreateSession
  <2>3. objectKey' = [x \in Sessions \X Files |->
           IF ~(x[1] = count + 1) THEN objectKey[x]
           ELSE IF actor[a].hits[x[2]] # NoKey THEN actor[a].hits[x[2]]
           ELSE <<NameOf[actor[a].manifest], x[2]>>]
    BY <1>3 DEF Creates, CreateSession
  <2>4. CASE s = count + 1
    <3>1. actor[a].hits[f] # NoKey /\ objectKey'[<<s, f>>] = actor[a].hits[f]
      BY <2>1, <2>2, <2>3, <2>4
    <3>2. actor[a].stage = "insert" /\ Started(a)
      BY <1>3 DEF Creates, CreateSession, CanonicalInv
    <3>3. actor[a].hits[f] = dedup[ContentOf[actor[a].manifest][f]]
      BY <2>1, <3>1, <3>2 DEF Started, Starting
    <3>4. manifest'[s] = actor[a].manifest
      BY <1>0, <2>1, <2>4 DEF Types, TypeOK
    <3>5. Content(s, f)' = ContentOf[actor[a].manifest][f]
      BY <3>4 DEF Content
    <3> QED
      BY <2>1, <3>1, <3>3, <3>5
  <2>5. CASE s # count + 1
    <3>1. s \in 1..count
      BY <1>0, <2>1, <2>5
    <3>2. objectKey'[<<s, f>>] = objectKey[<<s, f>>] /\ fileState'[<<s, f>>] = fileState[<<s, f>>]
      BY <2>1, <2>2, <2>3, <2>5
    <3> QED
      BY <1>1, <3>1, <3>2
  <2> QED
    BY <2>4, <2>5
<1>4. ASSUME NEW a \in Actors, MarkFileCompleted(a)
      PROVE  /\ objectKey'[<<s, f>>] # NoKey
             /\ objectKey'[<<s, f>>] = dedup'[Content(s, f)']
  <2>1. PICK t \in 1..count, g \in Files : t = actor[a].id /\ g = actor[a].file
    BY <1>0, <1>4, MarkFileCompletedIs
  <2>2. /\ fileState' = [fileState EXCEPT ![<<t, g>>] = "completed"]
        /\ objectKey' = [objectKey EXCEPT ![<<t, g>>] = actor[a].ref]
        /\ UNCHANGED <<count, dedup>> /\ actor[a].stage = "markFile"
    BY <1>4, <2>1 DEF MarkFileCompleted, rowVars
  <2>3. s \in 1..count /\ s \in Sessions /\ Content(s, f)' = Content(s, f)
    BY <1>0, <2>2, RowsStay
  <2>4. CASE s = t /\ f = g
    <3>1. Confirmed(a)
      BY DEF CanonicalInv
    <3>2. objectKey'[<<s, f>>] = actor[a].ref
      BY <1>0, <2>2, <2>3, <2>4 DEF Types, TypeOK
    <3> QED
      BY <2>1, <2>2, <2>3, <2>4, <3>1, <3>2 DEF Confirmed
  <2>5. CASE ~(s = t /\ f = g)
    <3>1. <<s, f>> # <<t, g>> /\ <<s, f>> \in Sessions \X Files
      BY <2>3, <2>5
    <3>2. fileState'[<<s, f>>] = fileState[<<s, f>>] /\ objectKey'[<<s, f>>] = objectKey[<<s, f>>]
      BY <1>0, <2>2, <3>1 DEF Types, TypeOK
    <3> QED
      BY <1>1, <2>3, <3>2
  <2> QED
    BY <2>4, <2>5
<1>5. UNCHANGED <<count, manifest, owned>> \/ \E a \in Actors : CreateSession(a)
  BY Footprints
<1>6. UNCHANGED <<fileState, objectKey>> \/ \E a \in Actors : CreateSession(a) \/ MarkFileCompleted(a)
  BY Footprints
<1>7. ASSUME NEW a \in Actors, CreateSession(a), ~Creates(a)
      PROVE  UNCHANGED <<fileState, objectKey, count>>
  BY <1>0, <1>7, CreatesOrNot DEF fileVars, rowVars
<1> QED
  BY <1>2, <1>3, <1>4, <1>5, <1>6, <1>7

LEMMA CompletedSettledStep ==
    ASSUME CanonicalInv, [Next]_vars PROVE CompletedSettled'
<1>0. Types /\ Types' /\ CompletedSettled /\ count \in Nat
  BY TypesStep DEF CanonicalInv, Types, TypeOK
<1> SUFFICES ASSUME NEW s \in 1..count', state'[s] = "completed" PROVE Required(s)' = {}
  BY DEF CompletedSettled, Required
<1>1. CASE s \in 1..count
  <2>1. Required(s)' \subseteq Required(s)
    BY <1>0, <1>1, RequiredShrinks
  <2>2. s \in Sessions /\ state \in [Sessions -> {"absent", "active", "completed", "aborted", "expired"}]
    BY <1>0, <1>1 DEF Types, TypeOK, Sessions
  <2>3. CASE state[s] = "completed"
    BY <1>0, <1>1, <2>1, <2>3 DEF CompletedSettled
  <2>4. ASSUME NEW a \in Actors, MarkDeduplicated(a) \/ MarkCompleted(a), state[s] # "completed"
        PROVE  Required(s) = {}
    <3>1. PICK verdict : state' = [state EXCEPT ![actor[a].id] = verdict]
      BY <2>4, <2>2 DEF MarkDeduplicated, MarkCompleted
    <3>2. s = actor[a].id \/ state' = state
      BY <2>2, <2>4, <3>1
    <3>3. s = actor[a].id
      BY <2>4, <3>2
    <3> QED
      BY <2>4, <3>3 DEF CanonicalInv, Settled, MarkDeduplicated, MarkCompleted
  <2>5. ASSUME NEW a \in Actors, MarkAbortedPart(a) \/ MarkAborted(a)
        PROVE  state[s] = "completed"
    <3>1. PICK verdict \in {"expired", "aborted"} :
             state' = [state EXCEPT ![actor[a].id] = IF @ = "active" THEN verdict ELSE @]
      BY <2>5 DEF MarkAbortedPart, MarkAborted
    <3> QED
      BY <2>2, <3>1
  <2>6. ASSUME NEW a \in Actors, CreateSession(a)
        PROVE  state[s] = "completed"
    <3>1. CASE Creates(a)
      <4>1. state' = [state EXCEPT ![count + 1] = "active"] /\ s # count + 1
        BY <1>0, <1>1, <3>1, CreateSessionIs DEF Creates
      <4> QED
        BY <2>2, <4>1
    <3>2. CASE ~Creates(a)
      BY <1>0, <2>6, <3>2, CreatesOrNot DEF rowVars
    <3> QED
      BY <3>1, <3>2
  <2>7. Required(s) = {}
    BY <2>3, <2>4, <2>5, <2>6, <1>0, <1>1, Footprints DEF CompletedSettled
  <2> QED
    BY <2>1, <2>7
<1>2. CASE s \notin 1..count
  <2>1. count' # count
    BY <1>2
  <2>2. PICK a \in Actors : Creates(a)
    BY <2>1, Footprints DEF Creates
  <2>3. state' = [state EXCEPT ![count + 1] = "active"] /\ count' = count + 1 /\ count + 1 \in Sessions
    BY <1>0, <2>2, CreateSessionIs DEF Creates
  <2>4. s = count + 1
    BY <1>0, <1>2, <2>3
  <2> QED
    BY <1>0, <2>3, <2>4 DEF Types, TypeOK
<1> QED
  BY <1>1, <1>2

LEMMA CanonicalStep == ASSUME CanonicalInv, [Next]_vars PROVE CanonicalInv'
<1>1. Types'
  BY TypesStep DEF CanonicalInv
<1>2. \A a \in Actors : Started(a)' /\ Confirmed(a)' /\ Settled(a)'
  BY StartedStep, ConfirmedStep, SettledStep
<1> QED
  BY <1>1, <1>2, FilesCanonicalStep, CompletedSettledStep DEF CanonicalInv

\* Each file of a completed session refers to the object that is registered
\* for its content, whatever runs at the same time and whatever fails.
THEOREM CompletedFilesAreCanonical == Spec => []CompletedFilesCanonical
<1>1. ASSUME CanonicalInv PROVE CompletedFilesCanonical
  BY <1>1 DEF CanonicalInv, FilesCanonical, CompletedSettled, CompletedFilesCanonical, Required
<1> QED
  BY <1>1, CanonicalInit, CanonicalStep, PTL DEF Spec

-----------------------------------------------------------------------------
(* Objects: what holds where complete runs alone on its manifest, and each *)
(* manifest has a name of its own.                                         *)

ExclusiveCompletion ==
    \A op \in {"complete", "start", "abort", "cleanup"} : {"complete", op} \notin Overlapping

OwnNames == \A m, l \in Manifests : NameOf[m] = NameOf[l] => m = l

\* MayBegin keeps apart what must not overlap.
Apart ==
    \A a, b \in Actors : a # b /\ actor[a].manifest \in Manifests
        /\ actor[b].manifest = actor[a].manifest => {actor[a].op, actor[b].op} \in Overlapping

\* The partial UNIQUE index.
UniqueLive == \A s, t \in Live : manifest[s] = manifest[t] => s = t

\* Only the session's own multiparts make objects, under its own keys.
OwnedParts ==
    \A s \in Sessions, f \in Files : multipart[<<s, f>>] # "none" =>
        s \in 1..count /\ owned[<<s, f>>]

OwnObjects ==
    \A k \in Keys : objects[k] # 0 =>
        LET s == objects[k]
        IN s \in 1..count /\ k = Key(s, k[2]) /\ owned[<<s, k[2]>>]

\* The session an invocation completes is the only active one of its manifest.
Alone(a) ==
    actor[a].op = "complete" =>
        \A s \in 1..count : state[s] = "active" /\ manifest[s] = actor[a].manifest =>
            s = actor[a].id

\* A multipart that may still be completed makes an object nobody refers to.
Completable(s) ==
    state[s] = "active" \/ \E a \in Actors : actor[a].op = "complete" /\ actor[a].id = s
Unregistered ==
    \A s \in 1..count, f \in Files :
        multipart[<<s, f>>] = "open" /\ Completable(s) => dedup[Content(s, f)] # Key(s, f)

\* The same of what start is about to create.
Unhit(a) ==
    actor[a].stage \in Starting =>
        \A f \in Files \ actor[a].todo : actor[a].hits[f] = NoKey =>
            dedup[ContentOf[actor[a].manifest][f]] # <<NameOf[actor[a].manifest], f>>

\* What is being registered was made and verified.
Stored(a) ==
    LET s == actor[a].id
        f == actor[a].file
    IN /\ actor[a].stage \in {"verify", "register"} => multipart[<<s, f>>] = "completed"
       /\ actor[a].stage = "register" => Verified(s, f)

\* What the clean-up is going to delete is not registered, and what it leaves is.
Spared(a) ==
    \A k \in actor[a].keys : \E f \in Files :
        k = Key(actor[a].id, f) /\ dedup[Content(actor[a].id, f)] # k

Swept(a) ==
    LET s == actor[a].id IN
    actor[a].stage \in Ending =>
        \A f \in Files \ actor[a].todo : objects[Key(s, f)] = s =>
            dedup[Content(s, f)] = Key(s, f) \/ Key(s, f) \in actor[a].keys

ObjectsInv ==
    /\ CanonicalInv /\ Apart /\ UniqueLive /\ OwnedParts /\ OwnObjects /\ Unregistered
    /\ CanonicalObjectsIntact
    /\ \A a \in Actors : Alone(a) /\ Unhit(a) /\ Stored(a) /\ Spared(a) /\ Swept(a)

LEMMA CompletingOp ==
    ASSUME Types, NEW a \in Actors, actor[a].op = "complete"
    PROVE  /\ actor[a].id \in 1..count /\ actor[a].manifest = manifest[actor[a].id]
           /\ actor[a].manifest \in Manifests
<1>1. actor[a].stage \notin Starting \cup {"idle"}
  BY ActorTyped DEF Shape, Starting, Idle
<1> QED
  BY <1>1, ActorTyped DEF Shape, Types, RowsThere

LEMMA EndingOp ==
    ASSUME Types, NEW a \in Actors, actor[a].stage \in Ending
    PROVE  /\ actor[a].id \in 1..count /\ actor[a].manifest = manifest[actor[a].id]
           /\ actor[a].manifest \in Manifests
           /\ actor[a].op \in {"complete", "abort", "cleanup"}
<1>1. actor[a].stage \notin Starting \cup {"idle"}
  BY DEF Ending, Starting
<1> QED
  BY <1>1, ActorTyped DEF Shape, Types, RowsThere, Ending

\* The invocation that completes a session of a manifest has no other beside
\* it that starts, completes, aborts or cleans up.
LEMMA NothingBeside ==
    ASSUME Types, Apart, ExclusiveCompletion, NEW a \in Actors, NEW b \in Actors,
           actor[a].op = "complete", actor[b].op \in {"complete", "start", "abort", "cleanup"},
           actor[b].manifest = actor[a].manifest
    PROVE  a = b
<1> SUFFICES ASSUME a # b PROVE FALSE
  OBVIOUS
<1>1. {actor[a].op, actor[b].op} \in Overlapping
  BY CompletingOp DEF Apart
<1>2. PICK op \in {"complete", "start", "abort", "cleanup"} : op = actor[b].op
  OBVIOUS
<1>3. {"complete", op} \in Overlapping
  BY <1>1, <1>2
<1> QED
  BY <1>3 DEF ExclusiveCompletion

\* Where every manifest has its own name, an object's key tells its content.
LEMMA SameKey ==
    ASSUME Types, OwnNames, NEW s \in 1..count, NEW t \in 1..count,
           NEW f \in Files, NEW g \in Files, Key(s, f) = Key(t, g)
    PROVE  manifest[s] = manifest[t] /\ f = g /\ Content(s, f) = Content(t, g)
<1>1. manifest[s] \in Manifests /\ manifest[t] \in Manifests
  BY DEF Types, RowsThere
<1>2. NameOf[manifest[s]] = NameOf[manifest[t]] /\ f = g
  BY DEF Key
<1>3. manifest[s] = manifest[t]
  BY <1>1, <1>2 DEF OwnNames
<1> QED
  BY <1>2, <1>3 DEF Content

\* How an object comes and goes.
LEMMA ObjectMoves ==
    ASSUME Types, [Next]_vars, NEW k \in Keys, objects'[k] # objects[k]
    PROVE  \E a \in Actors :
             \/ \E f \in Files :
                  /\ CompleteMultipart(a) /\ actor[a].op = "complete"
                  /\ k = Key(actor[a].id, f) /\ objects'[k] = actor[a].id
                  /\ multipart[<<actor[a].id, f>>] = "open"
             \/ /\ DropObject(a) /\ actor[a].op = "complete" /\ actor[a].file \in Files
                /\ k = Key(actor[a].id, actor[a].file) /\ objects'[k] = 0
             \/ /\ DeleteObject(a) /\ actor[a].stage \in Ending
                /\ k \in actor[a].keys /\ objects'[k] = 0
<1>1. objects \in [Keys -> 0..MaxSessions]
  BY DEF Types, TypeOK
<1>2. ASSUME NEW a \in Actors, CompleteMultipart(a)
      PROVE  \E f \in Files :
                  /\ CompleteMultipart(a) /\ actor[a].op = "complete"
                  /\ k = Key(actor[a].id, f) /\ objects'[k] = actor[a].id
                  /\ multipart[<<actor[a].id, f>>] = "open"
  <2>1. actor[a].op = "complete"
    BY <1>2, ActorTyped DEF CompleteMultipart, Shape, Completing
  <2>2. PICK f \in Files : f = First(actor[a].todo)
    BY <1>2, CompleteMultipartIs
  <2>3. ~UNCHANGED bucketVars
    BY DEF bucketVars
  <2>4. /\ multipart[<<actor[a].id, f>>] = "open"
        /\ objects' = [objects EXCEPT ![Key(actor[a].id, f)] = actor[a].id]
    BY <1>2, <2>2, <2>3 DEF CompleteMultipart
  <2> QED
    BY <1>1, <1>2, <2>1, <2>4
<1>3. ASSUME NEW a \in Actors, DropObject(a)
      PROVE  /\ actor[a].op = "complete" /\ actor[a].file \in Files
             /\ k = Key(actor[a].id, actor[a].file) /\ objects'[k] = 0
  <2>1. actor[a].op = "complete" /\ actor[a].file \in Files
    BY <1>3, ActorTyped DEF DropObject, Shape, Completing, Storing
  <2>2. objects' = [objects EXCEPT ![Key(actor[a].id, actor[a].file)] = 0]
    BY <1>3 DEF DropObject
  <2> QED
    BY <1>1, <2>1, <2>2
<1>4. ASSUME NEW a \in Actors, DeleteObject(a)
      PROVE  actor[a].stage \in Ending /\ k \in actor[a].keys /\ objects'[k] = 0
  <2>1. PICK l \in actor[a].keys : objects' = [objects EXCEPT ![l] = 0]
    BY <1>4, DeleteObjectIs
  <2> QED
    BY <1>1, <1>4, <2>1 DEF DeleteObject, Ending
<1>5. PICK a \in Actors : CompleteMultipart(a) \/ DropObject(a) \/ DeleteObject(a)
  BY Footprints
<1> QED
  BY <1>2, <1>3, <1>4, <1>5

\* How a multipart of a session that is there moves.
LEMMA MultipartMoves ==
    ASSUME Types, [Next]_vars, NEW s \in 1..count, NEW f \in Files
    PROVE  /\ multipart'[<<s, f>>] = "open" => multipart[<<s, f>>] = "open"
           /\ multipart[<<s, f>>] = "completed" => multipart'[<<s, f>>] = "completed"
           /\ multipart'[<<s, f>>] # "none" => multipart[<<s, f>>] # "none"
<1>1. /\ s \in Sessions /\ count \in Nat
      /\ multipart \in [Sessions \X Files -> {"none", "open", "completed", "aborted"}]
  BY DEF Types, TypeOK, Sessions
<1>2. ASSUME NEW a \in Actors, Creates(a) PROVE multipart'[<<s, f>>] = multipart[<<s, f>>]
  <2>1. multipart' = [x \in Sessions \X Files |->
           IF (x[1] = count + 1) /\ ~(actor[a].hits[x[2]] # NoKey) THEN "open" ELSE multipart[x]]
    BY <1>2 DEF Creates, CreateSession
  <2> QED
    BY <1>1, <2>1
<1>3. ASSUME NEW a \in Actors, AbortPart(a) \/ AbortFile(a), ~UNCHANGED multipart
      PROVE  \/ multipart'[<<s, f>>] = multipart[<<s, f>>]
             \/ (multipart[<<s, f>>] = "open" /\ multipart'[<<s, f>>] = "aborted")
  <2>1. PICK x : multipart' = [multipart EXCEPT ![x] = IF @ = "open" THEN "aborted" ELSE @]
    BY <1>3 DEF AbortPart, AbortFile
  <2> QED
    BY <1>1, <2>1
<1>4. ASSUME NEW a \in Actors, CompleteMultipart(a), ~UNCHANGED multipart
      PROVE  \/ multipart'[<<s, f>>] = multipart[<<s, f>>]
             \/ (multipart[<<s, f>>] = "open" /\ multipart'[<<s, f>>] = "completed")
  <2>1. PICK x : multipart[x] = "open" /\ multipart' = [multipart EXCEPT ![x] = "completed"]
    BY <1>4 DEF CompleteMultipart, bucketVars
  <2> QED
    BY <1>1, <2>1
<1>5. ASSUME NEW a \in Actors, CreateSession(a), ~Creates(a) PROVE UNCHANGED multipart
  BY <1>5, CreatesOrNot DEF bucketVars
<1> QED
  BY <1>2, <1>3, <1>4, <1>5, Footprints

\* The session that is created.
LEMMA NewSession ==
    ASSUME Types, [Next]_vars, NEW s \in 1..count', s \notin 1..count
    PROVE  /\ s = count + 1 /\ s \in Sessions
           /\ \E a \in Actors : Creates(a) /\ manifest'[s] = actor[a].manifest
                                /\ actor[a].manifest \in Manifests
                                /\ actor[a].stage = "insert" /\ actor[a].op = "start"
                                /\ \A t \in Live : manifest[t] # actor[a].manifest
<1>1. PICK a \in Actors : Creates(a)
  BY Footprints DEF Creates
<1>2. /\ count' = count + 1 /\ count + 1 \in Sessions /\ actor[a].manifest \in Manifests
      /\ manifest' = [manifest EXCEPT ![count + 1] = actor[a].manifest]
      /\ actor[a].op = "start" /\ \A t \in Live : manifest[t] # actor[a].manifest
  BY <1>1, CreateSessionIs DEF Creates
<1>3. s = count + 1
  BY <1>2 DEF Types, TypeOK
<1>4. manifest'[s] = actor[a].manifest /\ actor[a].stage = "insert"
  BY <1>1, <1>2, <1>3 DEF Types, TypeOK, Creates, CreateSession
<1> QED
  BY <1>1, <1>2, <1>3, <1>4

LEMMA ObjectsInit == Init => ObjectsInv
<1> SUFFICES ASSUME Init PROVE ObjectsInv
  OBVIOUS
<1>1. \A a \in Actors : /\ actor[a].stage = "idle" /\ actor[a].op = "none"
                        /\ actor[a].manifest = None /\ actor[a].keys = {}
  BY DEF Init, Idle
<1>2. Apart
  BY <1>1 DEF Apart
<1>3. \A a \in Actors : Alone(a) /\ Unhit(a) /\ Stored(a) /\ Spared(a) /\ Swept(a)
  BY <1>1 DEF Alone, Unhit, Stored, Spared, Swept, Starting, Ending
<1>4. UniqueLive /\ OwnedParts /\ OwnObjects /\ Unregistered
  BY DEF Init, UniqueLive, Live, OwnedParts, OwnObjects, Unregistered
<1>5. CanonicalObjectsIntact
  BY DEF Init, CanonicalObjectsIntact
<1> QED
  BY <1>2, <1>3, <1>4, <1>5, CanonicalInit DEF ObjectsInv

LEMMA ApartStep == ASSUME ObjectsInv, [Next]_vars PROVE Apart'
<1>0. Types /\ Apart
  BY DEF ObjectsInv, CanonicalInv
<1> SUFFICES ASSUME NEW a \in Actors, NEW b \in Actors, a # b, actor'[a].manifest \in Manifests,
                    actor'[b].manifest = actor'[a].manifest
             PROVE  {actor'[a].op, actor'[b].op} \in Overlapping
  BY DEF Apart
<1>1. ASSUME NEW x \in Actors, NEW y \in Actors, x # y, actor'[y] = actor[y], Arrival(x),
             actor'[x].manifest \in Manifests, actor'[y].manifest = actor'[x].manifest
      PROVE  {actor'[x].op, actor'[y].op} \in Overlapping
  <2>1. CASE actor'[x] = Idle
    BY <1>1, <2>1 DEF Idle
  <2>2. CASE GoesOn(x)
    BY <1>0, <1>1, <2>2 DEF Apart, GoesOn
  <2>3. ASSUME NEW op, NEW m \in Manifests,
               MayBegin(x, op, m), actor'[x].op = op, actor'[x].manifest = m
        PROVE  {actor'[x].op, actor'[y].op} \in Overlapping
    <3>1. {op, actor[y].op} \in Overlapping
      BY <1>1, <2>3 DEF MayBegin
    <3> QED
      BY <1>1, <2>3, <3>1
  <2> QED
    BY <1>1, <2>1, <2>2, <2>3 DEF Arrival
<1>2. CASE actor'[a] = actor[a] /\ actor'[b] = actor[b]
  BY <1>0, <1>2 DEF Apart
<1>3. CASE actor'[a] # actor[a]
  <2>1. Arrival(a)
    BY <1>0, <1>3, ActorsStep
  <2> QED
    BY <1>1, <2>1 DEF Arrival, OnlyMoves
<1>4. CASE actor'[b] # actor[b]
  <2>1. Arrival(b)
    BY <1>0, <1>4, ActorsStep
  <2>2. actor'[a] = actor[a]
    BY <2>1 DEF Arrival, OnlyMoves
  <2>3. {actor'[b].op, actor'[a].op} \in Overlapping
    BY <1>1, <2>1, <2>2
  <2>4. {actor'[b].op, actor'[a].op} = {actor'[a].op, actor'[b].op}
    OBVIOUS
  <2> QED
    BY <2>3, <2>4
<1> QED
  BY <1>2, <1>3, <1>4

LEMMA UniqueLiveStep == ASSUME ObjectsInv, [Next]_vars PROVE UniqueLive'
<1>0. Types /\ UniqueLive
  BY DEF ObjectsInv, CanonicalInv
<1>1. Live' = {s \in 1..count' : state'[s] \in {"active", "completed"}}
  BY DEF Live
<1> SUFFICES ASSUME NEW s \in Live', NEW t \in Live', manifest'[s] = manifest'[t] PROVE s = t
  BY DEF UniqueLive
<1>2. s \in 1..count' /\ t \in 1..count'
  BY <1>1
<1>3. CASE s \in 1..count /\ t \in 1..count
  <2>1. s \in Live /\ t \in Live
    <3>1. \A u \in 1..count : u \in Live' => u \in Live
      BY <1>0, <1>1, StateMoves DEF Live
    <3> QED
      BY <1>3, <3>1
  <2> QED
    BY <1>0, <1>3, <2>1, RowsStay DEF UniqueLive
<1>4. ASSUME NEW u \in Live', NEW v \in Live', u \in 1..count, v \in 1..count', v \notin 1..count
      PROVE  manifest'[u] # manifest'[v]
  <2>1. u \in Live
    BY <1>0, <1>1, <1>4, StateMoves DEF Live
  <2>2. manifest[u] # manifest'[v]
    BY <1>0, <1>4, <2>1, NewSession
  <2> QED
    BY <1>0, <1>4, <2>2, RowsStay
<1>5. CASE s \notin 1..count /\ t \notin 1..count
  BY <1>0, <1>2, <1>5, NewSession
<1> QED
  BY <1>2, <1>3, <1>4, <1>5

LEMMA OwnedPartsStep == ASSUME ObjectsInv, [Next]_vars PROVE OwnedParts'
<1>0. Types /\ OwnedParts /\ count \in Nat
  BY DEF ObjectsInv, CanonicalInv, Types, TypeOK
<1> SUFFICES ASSUME NEW s \in Sessions, NEW f \in Files, multipart'[<<s, f>>] # "none"
             PROVE  s \in 1..count' /\ owned'[<<s, f>>]
  BY DEF OwnedParts
<1>1. CASE s \in 1..count
  <2>1. multipart[<<s, f>>] # "none"
    BY <1>0, <1>1, MultipartMoves
  <2>2. owned[<<s, f>>]
    BY <1>0, <2>1 DEF OwnedParts
  <2> QED
    BY <1>0, <1>1, <2>2, RowsStay
<1>2. CASE s \notin 1..count
  <2>1. multipart[<<s, f>>] = "none"
    BY <1>0, <1>2 DEF OwnedParts
  <2>2. PICK a \in Actors : \/ Creates(a) \/ AbortPart(a) \/ AbortFile(a)
                            \/ (CompleteMultipart(a) /\ ~UNCHANGED multipart)
    BY <1>0, <2>1, Footprints, CreatesOrNot DEF bucketVars
  <2>3. multipart \in [Sessions \X Files -> {"none", "open", "completed", "aborted"}]
    BY <1>0 DEF Types, TypeOK
  <2>4. ASSUME AbortPart(a) \/ AbortFile(a) PROVE FALSE
    <3>1. PICK x : multipart' = [multipart EXCEPT ![x] = IF @ = "open" THEN "aborted" ELSE @]
                   \/ UNCHANGED multipart
      BY <2>4 DEF AbortPart, AbortFile
    <3> QED
      BY <2>1, <2>3, <3>1
  <2>5. ASSUME CompleteMultipart(a), ~UNCHANGED multipart PROVE FALSE
    <3>1. PICK x : multipart[x] = "open" /\ multipart' = [multipart EXCEPT ![x] = "completed"]
      BY <2>5 DEF CompleteMultipart, bucketVars
    <3> QED
      BY <2>1, <2>3, <3>1
  <2>6. CASE Creates(a)
    <3>1. multipart' = [x \in Sessions \X Files |->
             IF (x[1] = count + 1) /\ ~(actor[a].hits[x[2]] # NoKey) THEN "open" ELSE multipart[x]]
      BY <2>6 DEF Creates, CreateSession
    <3>2. owned' = [x \in Sessions \X Files |->
                      IF x[1] = count + 1 THEN ~(actor[a].hits[x[2]] # NoKey) ELSE owned[x]]
      BY <2>6 DEF Creates, CreateSession
    <3>3. count' = count + 1
      BY <1>0, <2>6, CreateSessionIs DEF Creates
    <3>4. s = count + 1 /\ ~(actor[a].hits[f] # NoKey)
      BY <2>1, <3>1
    <3>5. s \in 1..count'
      BY <1>0, <3>3, <3>4
    <3>6. owned'[<<s, f>>]
      BY <3>2, <3>4
    <3> QED
      BY <3>5, <3>6
  <2> QED
    BY <2>2, <2>4, <2>5, <2>6
<1> QED
  BY <1>1, <1>2

LEMMA OwnObjectsStep == ASSUME ObjectsInv, [Next]_vars PROVE OwnObjects'
<1>0. Types /\ OwnObjects /\ OwnedParts
  BY DEF ObjectsInv, CanonicalInv
<1> SUFFICES ASSUME NEW k \in Keys, NEW s, s = objects'[k], s # 0
             PROVE  s \in 1..count' /\ k = Key(s, k[2])' /\ owned'[<<s, k[2]>>]
  BY DEF OwnObjects, Key
<1>1. k[2] \in Files
  BY DEF Keys
<1>2. ASSUME s \in 1..count, k = Key(s, k[2]), owned[<<s, k[2]>>]
      PROVE  s \in 1..count' /\ k = Key(s, k[2])' /\ owned'[<<s, k[2]>>]
  BY <1>0, <1>1, <1>2, RowsStay
<1>3. CASE objects'[k] = objects[k]
  BY <1>0, <1>2, <1>3 DEF OwnObjects
<1>4. CASE objects'[k] # objects[k]
  <2>1. PICK a \in Actors, f \in Files :
          /\ actor[a].op = "complete" /\ k = Key(actor[a].id, f) /\ objects'[k] = actor[a].id
          /\ multipart[<<actor[a].id, f>>] = "open"
    BY <1>0, <1>4, ObjectMoves
  <2>2. actor[a].id \in 1..count /\ s = actor[a].id /\ k[2] = f
    BY <1>0, <2>1, CompletingOp DEF Key
  <2>3. s \in Sessions
    BY <1>0, <2>2 DEF Types, TypeOK, Sessions
  <2>4. owned[<<s, f>>]
    BY <1>0, <2>1, <2>2, <2>3 DEF OwnedParts
  <2> QED
    BY <1>2, <2>1, <2>2, <2>4
<1> QED
  BY <1>3, <1>4

LEMMA AloneStep ==
    ASSUME ObjectsInv, ExclusiveCompletion, [Next]_vars, NEW a \in Actors PROVE Alone(a)'
<1>0. Types /\ Types' /\ Apart /\ UniqueLive /\ Alone(a)
  BY TypesStep DEF ObjectsInv, CanonicalInv
<1> SUFFICES ASSUME actor'[a].op = "complete", NEW s \in 1..count', state'[s] = "active",
                    manifest'[s] = actor'[a].manifest
             PROVE  s = actor'[a].id
  BY DEF Alone
<1>1. ASSUME s \in 1..count PROVE state[s] = "active" /\ manifest[s] = actor'[a].manifest
  BY <1>0, <1>1, StateMoves, RowsStay
<1>2. CASE /\ actor[a].op = "complete" /\ actor'[a].manifest = actor[a].manifest
           /\ actor'[a].id = actor[a].id
  <2>1. CASE s \in 1..count
    BY <1>0, <1>1, <1>2, <2>1 DEF Alone
  <2>2. CASE s \notin 1..count
    <3>1. PICK b \in Actors : actor[b].op = "start" /\ actor[b].manifest = manifest'[s]
      BY <1>0, <2>2, NewSession
    <3>2. a = b
      BY <1>0, <1>2, <3>1, NothingBeside
    <3> QED
      BY <1>2, <3>1, <3>2
  <2> QED
    BY <2>1, <2>2
<1>3. ASSUME NEW t \in 1..count, CompleteRead(a, t) PROVE s = actor'[a].id
  <2>1. UNCHANGED <<count, state, manifest>> /\ state[t] = "active"
    BY <1>3 DEF CompleteRead, rowVars, Usable
  <2>2. actor'[a].id = t /\ actor'[a].manifest = manifest[t]
    BY <1>0, <1>3, CompleteReadIs
  <2>3. s \in Live /\ t \in Live
    BY <2>1 DEF Live
  <2> QED
    BY <1>0, <2>1, <2>2, <2>3 DEF UniqueLive
<1>4. CASE actor'[a] = actor[a]
  BY <1>2, <1>4
<1>5. CASE Arrival(a)
  <2>1. CASE actor'[a] = Idle
    BY <2>1 DEF Idle
  <2>2. CASE GoesOn(a) /\ (actor[a].op # "start" => actor'[a].id = actor[a].id)
    BY <1>2, <2>2 DEF GoesOn
  <2> QED
    BY <1>3, <1>5, <2>1, <2>2 DEF Arrival
<1> QED
  BY <1>0, <1>4, <1>5, ActorsStep

LEMMA UnregisteredStep ==
    ASSUME ObjectsInv, ExclusiveCompletion, OwnNames, [Next]_vars PROVE Unregistered'
<1>0. /\ Types /\ Types' /\ Apart /\ OwnedParts /\ Unregistered
      /\ \A a \in Actors : Alone(a) /\ Unhit(a) /\ Stored(a)
  BY TypesStep DEF ObjectsInv, CanonicalInv
<1> SUFFICES ASSUME NEW s \in 1..count', NEW f \in Files, multipart'[<<s, f>>] = "open",
                    \/ state'[s] = "active"
                    \/ \E a \in Actors : actor'[a].op = "complete" /\ actor'[a].id = s
             PROVE  dedup'[Content(s, f)'] # Key(s, f)'
  BY DEF Unregistered, Completable, Content, Key
<1>1. CASE s \in 1..count
  <2>1. multipart[<<s, f>>] = "open"
    BY <1>0, <1>1, MultipartMoves
  <2>2. /\ Key(s, f)' = Key(s, f) /\ Content(s, f)' = Content(s, f) /\ Content(s, f) \in Contents
        /\ Key(s, f) \in Keys
    BY <1>0, <1>1, RowsStay
  <2>3. \/ state[s] = "active"
        \/ \E a \in Actors : actor[a].op = "complete" /\ actor[a].id = s
    <3>1. CASE state'[s] = "active"
      BY <1>0, <1>1, <3>1, StateMoves
    <3>2. ASSUME NEW a \in Actors, actor'[a].op = "complete", actor'[a].id = s
          PROVE  \/ state[s] = "active"
                 \/ actor[a].op = "complete" /\ actor[a].id = s
      <4>1. ASSUME NEW t \in 1..count, CompleteRead(a, t) PROVE state[s] = "active"
        BY <1>0, <3>2, <4>1, CompleteReadIs DEF CompleteRead, Usable
      <4>2. CASE actor'[a] = Idle
        BY <3>2, <4>2 DEF Idle
      <4>3. CASE GoesOn(a) /\ (actor[a].op # "start" => actor'[a].id = actor[a].id)
        BY <3>2, <4>3 DEF GoesOn
      <4>4. CASE actor'[a] = actor[a]
        BY <3>2, <4>4
      <4> QED
        BY <1>0, <3>2, <4>1, <4>2, <4>3, <4>4, ActorsStep DEF Arrival
    <3> QED
      BY <3>1, <3>2
  <2>4. dedup[Content(s, f)] # Key(s, f)
    BY <1>0, <1>1, <2>1, <2>3 DEF Unregistered, Completable
  <2>5. ASSUME NEW b \in Actors, RegisterContent(b), actor[b].id \in 1..count,
               actor[b].file \in Files, Key(actor[b].id, actor[b].file) = Key(s, f)
        PROVE  FALSE
    <3>1. actor[b].stage = "register" /\ actor[b].op = "complete"
      BY <1>0, <2>5, ActorTyped DEF RegisterContent, Shape, Completing, Storing
    <3>2. manifest[actor[b].id] = manifest[s] /\ actor[b].file = f
      BY <1>0, <1>1, <2>5, SameKey
    <3>3. actor[b].manifest = manifest[s]
      BY <1>0, <3>1, <3>2, CompletingOp
    <3>4. actor[b].id = s
      <4>1. CASE state[s] = "active"
        BY <1>0, <1>1, <3>1, <3>3, <4>1 DEF Alone
      <4>2. ASSUME NEW d \in Actors, actor[d].op = "complete", actor[d].id = s PROVE actor[b].id = s
        <5>1. actor[d].manifest = actor[b].manifest
          BY <1>0, <3>3, <4>2, CompletingOp
        <5>2. d = b
          BY <1>0, <3>1, <4>2, <5>1, NothingBeside
        <5> QED
          BY <4>2, <5>2
      <4> QED
        BY <2>3, <4>1, <4>2
    <3>5. multipart[<<s, f>>] = "completed"
      BY <1>0, <3>1, <3>2, <3>4 DEF Stored
    <3> QED
      BY <2>1, <3>5
  <2>6. dedup'[Content(s, f)] # Key(s, f)
    <3>1. CASE dedup'[Content(s, f)] = dedup[Content(s, f)]
      BY <2>4, <3>1
    <3>2. CASE dedup'[Content(s, f)] # dedup[Content(s, f)]
      <4>1. PICK b \in Actors : /\ RegisterContent(b) /\ actor[b].id \in 1..count
                                /\ actor[b].file \in Files
                                /\ dedup'[Content(s, f)] = Key(actor[b].id, actor[b].file)
        BY <1>0, <2>2, <3>2, DedupStays
      <4> QED
        BY <2>5, <4>1
    <3> QED
      BY <3>1, <3>2
  <2> QED
    BY <2>2, <2>6
<1>2. CASE s \notin 1..count
  <2>1. PICK a \in Actors : /\ Creates(a) /\ manifest'[s] = actor[a].manifest
                            /\ actor[a].stage = "insert" /\ actor[a].op = "start"
    BY <1>0, <1>2, NewSession
  <2>2. s = count + 1 /\ s \in Sessions /\ dedup' = dedup /\ actor[a].todo = {}
    BY <1>0, <1>2, <2>1, NewSession, CreateSessionIs DEF Creates
  <2>3. multipart[<<s, f>>] = "none"
    BY <1>0, <1>2, <2>2 DEF OwnedParts
  <2>4. multipart' = [x \in Sessions \X Files |->
           IF (x[1] = count + 1) /\ ~(actor[a].hits[x[2]] # NoKey) THEN "open" ELSE multipart[x]]
    BY <2>1 DEF Creates, CreateSession
  <2>5. actor[a].hits[f] = NoKey
    BY <2>2, <2>3, <2>4
  <2>6. dedup[ContentOf[actor[a].manifest][f]] # <<NameOf[actor[a].manifest], f>>
    BY <1>0, <2>1, <2>2, <2>5 DEF Unhit, Starting
  <2>7. /\ Content(s, f)' = ContentOf[actor[a].manifest][f]
        /\ Key(s, f)' = <<NameOf[actor[a].manifest], f>>
    BY <2>1 DEF Content, Key
  <2> QED
    BY <2>2, <2>6, <2>7
<1> QED
  BY <1>1, <1>2

LEMMA UnhitStep ==
    ASSUME ObjectsInv, ExclusiveCompletion, OwnNames, [Next]_vars, NEW a \in Actors
    PROVE  Unhit(a)'
<1>0. Types /\ Types' /\ Apart /\ Unhit(a)
  BY TypesStep DEF ObjectsInv, CanonicalInv
<1> SUFFICES ASSUME actor'[a].stage \in Starting, NEW f \in Files \ actor'[a].todo,
                    actor'[a].hits[f] = NoKey
             PROVE  dedup'[ContentOf[actor'[a].manifest][f]] # <<NameOf[actor'[a].manifest], f>>
  BY DEF Unhit
<1>1. CASE actor'[a] = actor[a]
  <2>1. PICK m \in Manifests : m = actor[a].manifest /\ actor[a].op = "start"
    BY <1>0, <1>1, ActorTyped DEF Shape
  <2>2. dedup[ContentOf[m][f]] # <<NameOf[m], f>> /\ ContentOf[m][f] \in Contents
    BY <1>0, <1>1, <2>1 DEF Unhit, Files
  <2>3. ASSUME NEW b \in Actors, RegisterContent(b), actor[b].id \in 1..count,
               actor[b].file \in Files, Key(actor[b].id, actor[b].file) = <<NameOf[m], f>>
        PROVE  FALSE
    <3>1. actor[b].op = "complete"
      BY <1>0, <2>3, ActorTyped DEF RegisterContent, Shape, Completing, Storing
    <3>2. manifest[actor[b].id] \in Manifests /\ NameOf[manifest[actor[b].id]] = NameOf[m]
      BY <1>0, <2>3 DEF Key, Types, RowsThere
    <3>3. actor[b].manifest = m
      BY <1>0, <3>1, <3>2, CompletingOp DEF OwnNames
    <3>4. b = a
      BY <1>0, <2>1, <3>1, <3>3, NothingBeside
    <3> QED
      BY <2>1, <3>1, <3>4
  <2>4. dedup'[ContentOf[m][f]] # <<NameOf[m], f>>
    BY <1>0, <2>2, <2>3, DedupStays
  <2> QED
    BY <1>1, <2>1, <2>4
<1>2. ASSUME NEW m \in Manifests, StartRead(a, m) PROVE FALSE
  BY <1>0, <1>2, StartReadIs
<1>3. CASE OpenFile(a)
  <2>1. PICK g \in Files :
          /\ g \in actor[a].todo /\ actor'[a].todo = actor[a].todo \ {g}
          /\ actor'[a].hits = [actor[a].hits EXCEPT ![g] = dedup[ContentOf[actor[a].manifest][g]]]
    BY <1>0, <1>3, OpenFileIs
  <2>2. /\ dedup' = dedup /\ actor'[a].manifest = actor[a].manifest /\ actor[a].stage = "open"
        /\ actor[a].manifest \in Manifests
    BY <1>0, <1>3, OpenFileIs DEF OpenFile, GoesOn
  <2>3. actor[a].hits \in [Files -> Keys \cup {NoKey}]
    BY <1>0, ActorTyped DEF Invocation
  <2>4. CASE f = g
    <3>1. dedup[ContentOf[actor[a].manifest][f]] = NoKey
      BY <2>1, <2>3, <2>4
    <3>2. <<NameOf[actor[a].manifest], f>> \in Keys
      BY <2>2 DEF Keys
    <3> QED
      BY <2>2, <3>1, <3>2, NoKeyIsNoKey
  <2>5. CASE f # g
    <3>1. actor'[a].hits[f] = actor[a].hits[f] /\ f \in Files \ actor[a].todo
      BY <2>1, <2>3, <2>5
    <3> QED
      BY <1>0, <2>2, <3>1 DEF Unhit, Starting
  <2> QED
    BY <2>4, <2>5
<1> QED
  BY <1>0, <1>1, <1>2, <1>3, ActorsStep DEF Arrival

\* Beside the invocation that completes a session nobody touches its objects.
LEMMA ObjectsOfAlone ==
    ASSUME ObjectsInv, ExclusiveCompletion, OwnNames, [Next]_vars, NEW a \in Actors,
           actor[a].op = "complete", NEW f \in Files,
           objects'[Key(actor[a].id, f)] # objects[Key(actor[a].id, f)]
    PROVE  CompleteMultipart(a) \/ DropObject(a) \/ DeleteObject(a)
<1>0. Types /\ Apart /\ Spared(a)
  BY DEF ObjectsInv, CanonicalInv
<1>1. PICK s \in 1..count : s = actor[a].id /\ manifest[s] = actor[a].manifest
  BY <1>0, CompletingOp
<1>2. Key(s, f) \in Keys
  BY <1>0, RowsStay
<1>3. ASSUME NEW b \in Actors, actor[b].op \in {"complete", "abort", "cleanup"},
             NEW g \in Files, Key(actor[b].id, g) = Key(s, f), actor[b].id \in 1..count,
             manifest[actor[b].id] = actor[b].manifest
      PROVE  b = a
  <2>1. manifest[actor[b].id] = manifest[s]
    BY <1>0, <1>3, SameKey
  <2> QED
    BY <1>0, <1>1, <1>3, <2>1, NothingBeside
<1>4. ASSUME NEW b \in Actors, DeleteObject(b), actor[b].stage \in Ending, Key(s, f) \in actor[b].keys
      PROVE  b = a
  <2>1. /\ actor[b].op \in {"complete", "abort", "cleanup"} /\ actor[b].id \in 1..count
        /\ manifest[actor[b].id] = actor[b].manifest
    BY <1>0, <1>4, EndingOp
  <2>2. PICK g \in Files : Key(s, f) = Key(actor[b].id, g)
    BY <1>4 DEF ObjectsInv, Spared
  <2> QED
    BY <1>3, <2>1, <2>2
<1>5. ASSUME NEW b \in Actors, actor[b].op = "complete", NEW g \in Files,
             Key(s, f) = Key(actor[b].id, g)
      PROVE  b = a
  <2>1. actor[b].id \in 1..count /\ manifest[actor[b].id] = actor[b].manifest
    BY <1>0, <1>5, CompletingOp
  <2> QED
    BY <1>3, <1>5, <2>1
<1> QED
  BY <1>0, <1>1, <1>2, <1>4, <1>5, ObjectMoves

LEMMA StoredStep ==
    ASSUME ObjectsInv, ExclusiveCompletion, OwnNames, [Next]_vars, NEW a \in Actors
    PROVE  Stored(a)'
<1>0. Types /\ Types' /\ Stored(a)
  BY TypesStep DEF ObjectsInv, CanonicalInv
<1> SUFFICES ASSUME actor'[a].stage \in {"verify", "register"}
             PROVE  /\ multipart'[<<actor'[a].id, actor'[a].file>>] = "completed"
                    /\ actor'[a].stage = "register" => Verified(actor[a].id, actor[a].file)'
  BY DEF Stored, Verified, Key
<1>1. CASE actor'[a] = actor[a]
  <2>1. actor[a].op = "complete" /\ actor[a].id \in 1..count /\ actor[a].file \in Files
    BY <1>0, <1>1, ActorTyped DEF Shape, Completing, Storing, Starting
  <2>2. PICK s \in 1..count, f \in Files : s = actor[a].id /\ f = actor[a].file
    BY <2>1
  <2>3. multipart'[<<s, f>>] = "completed"
    BY <1>0, <1>1, <2>2, MultipartMoves DEF Stored
  <2>4. ASSUME actor[a].stage = "register" PROVE Verified(s, f)'
    <3>1. /\ Key(s, f)' = Key(s, f) /\ Key(s, f) \in Keys /\ s \in Sessions
      BY <1>0, RowsStay
    <3>2. ~(CompleteMultipart(a) \/ DropObject(a) \/ DeleteObject(a))
      BY <2>4 DEF CompleteMultipart, DropObject, DeleteObject
    <3>3. objects'[Key(s, f)] = objects[Key(s, f)]
      BY <2>1, <2>2, <3>2, ObjectsOfAlone
    <3>4. objects[Key(s, f)] = s /\ part[<<s, f>>] = "good"
      BY <1>0, <2>2, <2>4 DEF Stored, Verified
    <3>5. part'[<<s, f>>] = "good"
      BY <1>0, <3>1, <3>4, PartStays
    <3> QED
      BY <3>1, <3>3, <3>4, <3>5 DEF Verified
  <2> QED
    BY <1>1, <2>2, <2>3, <2>4 DEF Verified, Key
<1>2. CASE CompleteMultipart(a)
  <2>1. actor[a].op = "complete" /\ actor[a].id \in 1..count
    BY <1>0, <1>2, ActorTyped DEF CompleteMultipart, Shape, Completing, Starting, Storing
  <2>2. ~Fail(a)
    BY <1>0, <2>1, FailIs
  <2>3. PICK f \in Files : f = First(actor[a].todo)
    BY <1>0, <1>2, CompleteMultipartIs
  <2>4. /\ actor'[a].stage = "verify" /\ actor'[a].id = actor[a].id /\ actor'[a].file = f
        /\ multipart' = [multipart EXCEPT ![<<actor[a].id, f>>] = "completed"]
    BY <1>0, <1>2, <2>2, <2>3, CompleteMultipartIs
  <2>5. <<actor[a].id, f>> \in Sessions \X Files
    BY <1>0, <2>1 DEF Types, TypeOK, Sessions
  <2> QED
    BY <1>0, <2>4, <2>5 DEF Types, TypeOK
<1>3. CASE VerifyObject(a)
  <2>1. actor[a].op = "complete" /\ actor[a].stage = "verify"
    BY <1>0, <1>3, ActorTyped DEF VerifyObject, Shape, Completing, Storing
  <2>2. ~Fail(a)
    BY <1>0, <2>1, FailIs
  <2>3. Verified(actor[a].id, actor[a].file) /\ GoTo(a, "register")
    BY <1>3, <2>2 DEF VerifyObject
  <2>4. /\ actor'[a].id = actor[a].id /\ actor'[a].file = actor[a].file
        /\ actor'[a].stage = "register"
    BY <1>0, <2>3, GoToIs DEF Stage
  <2>5. UNCHANGED <<manifest, part, multipart, objects>>
    BY <1>3 DEF VerifyObject, rowVars, fileVars, bucketVars
  <2> QED
    BY <1>0, <2>1, <2>3, <2>4, <2>5 DEF Stored, Verified, Key
<1> QED
  BY <1>0, <1>1, <1>2, <1>3, ActorsStep DEF Arrival

LEMMA SparedStep ==
    ASSUME ObjectsInv, ExclusiveCompletion, OwnNames, [Next]_vars, NEW a \in Actors
    PROVE  Spared(a)'
<1>0. Types /\ Types' /\ Apart /\ Spared(a)
  BY TypesStep DEF ObjectsInv, CanonicalInv
<1> SUFFICES ASSUME NEW k \in actor'[a].keys
             PROVE  \E f \in Files : k = Key(actor[a].id, f)' /\ dedup'[Content(actor[a].id, f)'] # k
  BY DEF Spared, Key, Content
<1>1. ASSUME NEW s \in 1..count, NEW f \in Files, actor'[a].id = s, k = Key(s, f),
             dedup'[Content(s, f)] # k
      PROVE  \E g \in Files : k = Key(actor[a].id, g)' /\ dedup'[Content(actor[a].id, g)'] # k
  <2>1. Key(s, f)' = Key(s, f) /\ Content(s, f)' = Content(s, f)
    BY <1>0, RowsStay
  <2> QED
    BY <1>1, <2>1 DEF Key, Content
<1>2. actor'[a].stage \in Ending
  BY <1>0 DEF Types, Shape
<1>3. CASE actor'[a] = actor[a]
  <2>1. PICK s \in 1..count : s = actor[a].id /\ manifest[s] = actor[a].manifest
                              /\ actor[a].op \in {"complete", "abort", "cleanup"}
    BY <1>0, <1>2, <1>3, EndingOp
  <2>2. PICK f \in Files : k = Key(s, f) /\ dedup[Content(s, f)] # k
    BY <1>0, <1>3, <2>1 DEF Spared
  <2>3. Content(s, f) \in Contents
    BY <1>0, RowsStay
  <2>4. ASSUME NEW b \in Actors, RegisterContent(b), actor[b].id \in 1..count,
               actor[b].file \in Files, Key(actor[b].id, actor[b].file) = Key(s, f)
        PROVE  FALSE
    <3>1. actor[b].op = "complete" /\ actor[b].stage = "register"
      BY <1>0, <2>4, ActorTyped DEF RegisterContent, Shape, Completing, Storing
    <3>2. actor[b].manifest = actor[a].manifest
      BY <1>0, <2>1, <2>4, <3>1, SameKey, CompletingOp
    <3>3. b = a
      BY <1>0, <2>1, <3>1, <3>2, NothingBeside
    <3> QED
      BY <1>2, <1>3, <3>1, <3>3 DEF Ending
  <2>5. dedup'[Content(s, f)] # k
    <3>1. CASE dedup'[Content(s, f)] = dedup[Content(s, f)]
      BY <2>2, <3>1
    <3>2. CASE dedup'[Content(s, f)] # dedup[Content(s, f)]
      <4>1. PICK b \in Actors : /\ RegisterContent(b) /\ actor[b].id \in 1..count
                                /\ actor[b].file \in Files
                                /\ dedup'[Content(s, f)] = Key(actor[b].id, actor[b].file)
        BY <1>0, <2>3, <3>2, DedupStays
      <4> QED
        BY <2>2, <2>4, <4>1
    <3> QED
      BY <3>1, <3>2
  <2> QED
    BY <1>1, <1>3, <2>1, <2>2, <2>5
<1>4. ASSUME dedup' = dedup, actor[a].stage \in Ending, actor'[a].id = actor[a].id,
             k \in actor[a].keys
      PROVE  \E f \in Files : k = Key(actor[a].id, f)' /\ dedup'[Content(actor[a].id, f)'] # k
  <2>1. PICK s \in 1..count : s = actor[a].id
    BY <1>0, <1>4, EndingOp
  <2>2. PICK f \in Files : k = Key(s, f) /\ dedup[Content(s, f)] # k
    BY <1>0, <1>4, <2>1 DEF Spared
  <2> QED
    BY <1>1, <1>4, <2>1, <2>2
<1>5. CASE ScanFile(a)
  <2>1. PICK s \in 1..count : s = actor[a].id
    BY <1>0, <1>5, ScanFileIs
  <2>2. PICK f \in Files :
          /\ actor'[a].keys = IF owned[<<s, f>>] /\ dedup[Content(s, f)] # Key(s, f)
                              THEN actor[a].keys \cup {Key(s, f)} ELSE actor[a].keys
          /\ actor'[a].id = s /\ actor'[a].todo = actor[a].todo \ {f}
    BY <1>0, <1>5, <2>1, ScanFileIs
  <2>3. dedup' = dedup /\ actor[a].stage \in Ending
    BY <1>5 DEF ScanFile, Scan, Ending
  <2>4. CASE k \in actor[a].keys
    BY <1>4, <2>1, <2>2, <2>3, <2>4
  <2>5. CASE k = Key(s, f) /\ dedup[Content(s, f)] # Key(s, f)
    BY <1>1, <2>2, <2>3, <2>5
  <2> QED
    BY <2>2, <2>4, <2>5
<1>6. CASE AbortFile(a) \/ SweepDone(a)
  <2>1. PICK stage \in Stage : GoTo(a, stage)
    BY <1>6 DEF AbortFile, SweepDone, Stage
  <2>2. actor'[a].keys = actor[a].keys /\ actor'[a].id = actor[a].id
    BY <1>0, <2>1, GoToIs
  <2>3. dedup' = dedup /\ actor[a].stage \in Ending
    BY <1>6 DEF AbortFile, SweepDone, Ending
  <2> QED
    BY <1>4, <2>2, <2>3
<1>7. CASE DeleteObject(a)
  <2>1. actor'[a].id = actor[a].id /\ k \in actor[a].keys
    BY <1>0, <1>7, DeleteObjectIs
  <2>2. dedup' = dedup /\ actor[a].stage \in Ending
    BY <1>7 DEF DeleteObject, Ending
  <2> QED
    BY <1>4, <2>1, <2>2
<1> QED
  BY <1>0, <1>2, <1>3, <1>5, <1>6, <1>7, ActorsStep DEF Arrival

LEMMA SweptStep ==
    ASSUME ObjectsInv, ExclusiveCompletion, OwnNames, [Next]_vars, NEW a \in Actors
    PROVE  Swept(a)'
<1>0. Types /\ Types' /\ Apart /\ OwnObjects /\ Swept(a)
  BY TypesStep DEF ObjectsInv, CanonicalInv
<1> SUFFICES ASSUME actor'[a].stage \in Ending, NEW f \in Files \ actor'[a].todo,
                    objects'[Key(actor[a].id, f)'] = actor'[a].id
             PROVE  \/ dedup'[Content(actor[a].id, f)'] = Key(actor[a].id, f)'
                    \/ Key(actor[a].id, f)' \in actor'[a].keys
  BY DEF Swept, Key, Content
<1>1. CASE actor'[a].todo = Files
  BY <1>1
<1>2. ASSUME NEW s \in 1..count, s = actor[a].id, actor'[a].id = s, actor[a].stage \in Ending,
             objects[Key(s, f)] = s =>
                dedup[Content(s, f)] = Key(s, f) \/ Key(s, f) \in actor'[a].keys
      PROVE  \/ dedup'[Content(actor[a].id, f)'] = Key(actor[a].id, f)'
             \/ Key(actor[a].id, f)' \in actor'[a].keys
  <2>1. /\ Key(s, f)' = Key(s, f) /\ Content(s, f)' = Content(s, f) /\ Key(s, f) \in Keys
        /\ Content(s, f) \in Contents
    BY <1>0, RowsStay
  <2>2. /\ Key(actor[a].id, f)' = Key(s, f) /\ Content(actor[a].id, f)' = Content(s, f)
    BY <1>2, <2>1 DEF Key, Content
  <2>3. objects[Key(s, f)] = s
    <3>1. CASE objects'[Key(s, f)] = objects[Key(s, f)]
      BY <1>2, <2>2, <3>1
    <3>2. CASE objects'[Key(s, f)] # objects[Key(s, f)]
      <4>1. objects'[Key(s, f)] = s /\ s # 0
        BY <1>2, <2>2
      <4>2. PICK b \in Actors : /\ CompleteMultipart(b) /\ actor[b].op = "complete"
                                /\ actor[b].id = s
        BY <1>0, <2>1, <3>2, <4>1, ObjectMoves
      <4>3. actor[b].manifest = manifest[s]
        BY <1>0, <4>2, CompletingOp
      <4>4. actor[a].manifest = manifest[s] /\ actor[a].op \in {"complete", "abort", "cleanup"}
        BY <1>0, <1>2, EndingOp
      <4>5. a = b
        BY <1>0, <4>2, <4>3, <4>4, NothingBeside
      <4> QED
        BY <1>2, <4>2, <4>5 DEF CompleteMultipart, Ending
    <3> QED
      BY <3>1, <3>2
  <2>4. CASE Key(s, f) \in actor'[a].keys
    BY <2>2, <2>4
  <2>5. CASE dedup[Content(s, f)] = Key(s, f)
    <3>1. dedup[Content(s, f)] # NoKey
      BY <2>1, <2>5, NoKeyIsNoKey
    <3>2. dedup'[Content(s, f)] = Key(s, f)
      BY <1>0, <2>1, <2>5, <3>1, DedupStays
    <3> QED
      BY <2>2, <3>2
  <2> QED
    BY <1>2, <2>3, <2>4, <2>5
<1>3. ASSUME actor[a].stage \in Ending, actor'[a].id = actor[a].id,
             actor'[a].todo = actor[a].todo, actor'[a].keys = actor[a].keys
      PROVE  \/ dedup'[Content(actor[a].id, f)'] = Key(actor[a].id, f)'
             \/ Key(actor[a].id, f)' \in actor'[a].keys
  <2>1. PICK s \in 1..count : s = actor[a].id
    BY <1>0, <1>3, EndingOp
  <2>2. objects[Key(s, f)] = s => dedup[Content(s, f)] = Key(s, f) \/ Key(s, f) \in actor'[a].keys
    BY <1>0, <1>3, <2>1 DEF Swept
  <2> QED
    BY <1>2, <1>3, <2>1, <2>2
<1>4. CASE actor'[a] = actor[a]
  BY <1>3, <1>4
<1>5. CASE ScanFile(a)
  <2>1. PICK s \in 1..count : s = actor[a].id
    BY <1>0, <1>5, ScanFileIs
  <2>2. PICK g \in Files :
          /\ actor'[a].keys = IF owned[<<s, g>>] /\ dedup[Content(s, g)] # Key(s, g)
                              THEN actor[a].keys \cup {Key(s, g)} ELSE actor[a].keys
          /\ actor'[a].id = s /\ actor'[a].todo = actor[a].todo \ {g}
    BY <1>0, <1>5, <2>1, ScanFileIs
  <2>3. actor[a].stage \in Ending
    BY <1>5 DEF ScanFile, Scan, Ending
  <2>4. objects[Key(s, f)] = s => dedup[Content(s, f)] = Key(s, f) \/ Key(s, f) \in actor'[a].keys
    <3>1. CASE f = g
      <4>1. ASSUME objects[Key(s, f)] = s PROVE owned[<<s, f>>]
        <5>1. Key(s, f) \in Keys /\ Key(s, f)[2] = f
          BY <1>0, RowsStay DEF Key
        <5>2. s # 0
          BY <1>0 DEF Types, TypeOK
        <5> QED
          BY <1>0, <4>1, <5>1, <5>2 DEF OwnObjects
      <4> QED
        BY <2>2, <3>1, <4>1
    <3>2. CASE f # g
      <4>1. f \in Files \ actor[a].todo
        BY <2>2, <3>2
      <4> QED
        BY <1>0, <2>1, <2>2, <2>3, <4>1 DEF Swept
    <3> QED
      BY <3>1, <3>2
  <2> QED
    BY <1>2, <2>1, <2>2, <2>3, <2>4
<1>6. CASE AbortFile(a) \/ SweepDone(a)
  <2>1. PICK stage \in Stage : GoTo(a, stage)
    BY <1>6 DEF AbortFile, SweepDone, Stage
  <2>2. /\ actor'[a].keys = actor[a].keys /\ actor'[a].id = actor[a].id
        /\ actor'[a].todo = actor[a].todo
    BY <1>0, <2>1, GoToIs
  <2>3. actor[a].stage \in Ending
    BY <1>6 DEF AbortFile, SweepDone, Ending
  <2> QED
    BY <1>3, <2>2, <2>3
<1>7. CASE DeleteObject(a)
  <2>1. PICK k \in actor[a].keys :
          /\ k \in Keys /\ objects' = [objects EXCEPT ![k] = 0]
          /\ actor'[a].id = actor[a].id
          /\ actor'[a].todo = actor[a].todo /\ actor'[a].keys = actor[a].keys \ {k}
    BY <1>0, <1>7, DeleteObjectIs
  <2>2. actor[a].stage \in Ending
    BY <1>7 DEF DeleteObject, Ending
  <2>3. PICK s \in 1..count : s = actor[a].id
    BY <1>0, <2>2, EndingOp
  <2>4. Key(s, f) # k
    <3>1. Key(actor[a].id, f)' = Key(s, f) /\ s # 0
      BY <1>0, <2>1, <2>3, RowsStay DEF Key
    <3>2. objects'[Key(s, f)] = s
      BY <2>1, <2>3, <3>1
    <3> QED
      BY <1>0, <2>1, <3>1, <3>2 DEF Types, TypeOK
  <2>5. objects[Key(s, f)] = s => dedup[Content(s, f)] = Key(s, f) \/ Key(s, f) \in actor'[a].keys
    BY <1>0, <2>1, <2>2, <2>3, <2>4 DEF Swept
  <2> QED
    BY <1>2, <2>1, <2>2, <2>3, <2>5
<1> QED
  BY <1>0, <1>1, <1>4, <1>5, <1>6, <1>7, ActorsStep DEF Arrival

LEMMA IntactStep ==
    ASSUME ObjectsInv, ExclusiveCompletion, OwnNames, [Next]_vars
    PROVE  CanonicalObjectsIntact'
<1>0. /\ Types /\ Types' /\ OwnObjects /\ Unregistered /\ CanonicalObjectsIntact
      /\ \A a \in Actors : Stored(a) /\ Spared(a) /\ Confirmed(a)
  BY TypesStep DEF ObjectsInv, CanonicalInv
<1> SUFFICES ASSUME NEW c \in Contents, dedup'[c] # NoKey PROVE Holds(dedup[c], c)'
  BY DEF CanonicalObjectsIntact
<1>1. PICK k : k = dedup'[c]
  OBVIOUS
<1>2. k \in Keys /\ k[2] \in Files
  <2>1. k \in Keys
    BY <1>0, <1>1 DEF Types, TypeOK
  <2> QED
    BY <2>1 DEF Keys
<1>3. ASSUME NEW s \in 1..count, objects'[k] = s, part[<<s, k[2]>>] = "good", Content(s, k[2]) = c
      PROVE  Holds(dedup[c], c)'
  <2>1. s \in Sessions /\ Content(s, k[2])' = Content(s, k[2])
    BY <1>0, <1>2, RowsStay
  <2>4. s # 0
    BY <1>0 DEF Types, TypeOK
  <2>2. part'[<<s, k[2]>>] = "good"
    BY <1>0, <1>2, <1>3, <2>1, PartStays
  <2>3. Content(s, k[2])' = c
    BY <1>3, <2>1
  <2> QED
    BY <1>1, <1>3, <2>2, <2>3, <2>4 DEF Holds, Content
<1>4. CASE dedup'[c] # dedup[c]
  <2>1. PICK a \in Actors : /\ RegisterContent(a) /\ actor[a].id \in 1..count
                            /\ actor[a].file \in Files
                            /\ c = Content(actor[a].id, actor[a].file)
                            /\ k = Key(actor[a].id, actor[a].file)
    BY <1>0, <1>1, <1>4, DedupStays
  <2>2. PICK s \in 1..count, f \in Files : s = actor[a].id /\ f = actor[a].file
    BY <2>1
  <2>3. objects' = objects /\ actor[a].stage = "register"
    BY <2>1 DEF RegisterContent, bucketVars
  <2>4. Verified(s, f)
    BY <1>0, <2>2, <2>3 DEF Stored
  <2>5. k[2] = f
    BY <2>1, <2>2 DEF Key
  <2> QED
    BY <1>3, <2>1, <2>2, <2>3, <2>4, <2>5 DEF Verified
<1>5. CASE dedup'[c] = dedup[c]
  <2>1. PICK s : s = objects[k]
    OBVIOUS
  <2>2. s # 0 /\ part[<<s, k[2]>>] = "good" /\ Content(s, k[2]) = c
    BY <1>0, <1>1, <1>5, <2>1 DEF CanonicalObjectsIntact, Holds
  <2>3. s \in 1..count /\ k = Key(s, k[2])
    BY <1>0, <1>2, <2>1, <2>2 DEF OwnObjects
  <2>4. ASSUME NEW t \in 1..count, NEW f \in Files, k = Key(t, f)
        PROVE  dedup[Content(t, f)] = Key(t, f)
    <3>1. Content(t, f) = c
      BY <1>0, <1>2, <2>2, <2>3, <2>4, SameKey
    <3> QED
      BY <1>1, <1>5, <2>4, <3>1
  <2>5. CASE objects'[k] = objects[k]
    BY <1>3, <2>1, <2>2, <2>3, <2>5
  <2>6. CASE objects'[k] # objects[k]
    <3>1. PICK a \in Actors :
             \/ \E f \in Files :
                  /\ actor[a].op = "complete"
                  /\ k = Key(actor[a].id, f)
                  /\ multipart[<<actor[a].id, f>>] = "open"
             \/ /\ DropObject(a) /\ actor[a].op = "complete" /\ actor[a].file \in Files
                /\ k = Key(actor[a].id, actor[a].file)
             \/ actor[a].stage \in Ending /\ k \in actor[a].keys
      BY <1>0, <1>2, <2>6, ObjectMoves
    <3>2. ASSUME NEW f \in Files, actor[a].op = "complete", k = Key(actor[a].id, f),
                 multipart[<<actor[a].id, f>>] = "open"
          PROVE  FALSE
      <4>1. PICK t \in 1..count : t = actor[a].id
        BY <1>0, <3>2, CompletingOp
      <4>2. dedup[Content(t, f)] # Key(t, f)
        BY <1>0, <3>2, <4>1 DEF Unregistered, Completable
      <4> QED
        BY <2>4, <3>2, <4>1, <4>2
    <3>3. ASSUME DropObject(a), actor[a].op = "complete", actor[a].file \in Files,
                 k = Key(actor[a].id, actor[a].file)
          PROVE  FALSE
      <4>1. PICK t \in 1..count, f \in Files : t = actor[a].id /\ f = actor[a].file
        BY <1>0, <3>3, CompletingOp
      <4>2. dedup[Content(t, f)] # Key(t, f)
        BY <1>0, <3>3, <4>1 DEF Confirmed, DropObject
      <4> QED
        BY <2>4, <3>3, <4>1, <4>2
    <3>4. ASSUME actor[a].stage \in Ending, k \in actor[a].keys PROVE FALSE
      <4>1. PICK t \in 1..count : t = actor[a].id
        BY <1>0, <3>4, EndingOp
      <4>2. PICK f \in Files : k = Key(t, f) /\ dedup[Content(t, f)] # k
        BY <1>0, <3>4, <4>1 DEF Spared
      <4> QED
        BY <2>4, <4>2
    <3> QED
      BY <3>1, <3>2, <3>3, <3>4
  <2> QED
    BY <2>5, <2>6
<1> QED
  BY <1>4, <1>5

LEMMA ObjectsStep ==
    ASSUME ObjectsInv, ExclusiveCompletion, OwnNames, [Next]_vars PROVE ObjectsInv'
<1>1. CanonicalInv'
  BY CanonicalStep DEF ObjectsInv
<1>2. \A a \in Actors : Alone(a)' /\ Unhit(a)' /\ Stored(a)' /\ Spared(a)' /\ Swept(a)'
  BY AloneStep, UnhitStep, StoredStep, SparedStep, SweptStep
<1> QED
  BY <1>1, <1>2, ApartStep, UniqueLiveStep, OwnedPartsStep, OwnObjectsStep, UnregisteredStep,
     IntactStep
  DEF ObjectsInv

\* Where complete has its manifest to itself and manifests do not share names,
\* what is registered is in R2 with the declared bytes, always.
THEOREM CanonicalObjectsStay ==
    ASSUME ExclusiveCompletion, OwnNames PROVE Spec => []CanonicalObjectsIntact
<1>1. ObjectsInv => CanonicalObjectsIntact
  BY DEF ObjectsInv
<1>2. ASSUME ObjectsInv, [Next]_vars PROVE ObjectsInv'
  BY <1>2, ObjectsStep
<1> QED
  BY <1>1, <1>2, ObjectsInit, PTL DEF Spec

\* There, whoever ends a session leaves no object of it but what others may
\* refer to and what could not be deleted.
THEOREM AbortsLeaveNothing ==
    ASSUME ExclusiveCompletion, OwnNames PROVE Spec => AbortLeavesNothing
<1>1. ASSUME ObjectsInv, [Next]_vars
      PROVE  [\A a \in Actors : LET s == actor[a].id IN
                actor[a].stage = "markAborted" /\ state[s] = "active" /\ state'[s] # "active" =>
                  \A f \in Files : objects[Key(s, f)] = s =>
                    \/ dedup[Content(s, f)] = Key(s, f)
                    \/ Key(s, f) \in actor[a].keys]_vars
  <2> SUFFICES ASSUME NEW a \in Actors, actor[a].stage = "markAborted", NEW f \in Files,
                      objects[Key(actor[a].id, f)] = actor[a].id
               PROVE  \/ dedup[Content(actor[a].id, f)] = Key(actor[a].id, f)
                      \/ Key(actor[a].id, f) \in actor[a].keys
    OBVIOUS
  <2>1. Swept(a) /\ Types
    BY <1>1 DEF ObjectsInv, CanonicalInv
  <2>2. actor[a].todo = {} /\ actor[a].stage \in Ending
    BY <2>1, ActorTyped DEF Shape, Ending
  <2> QED
    BY <2>1, <2>2 DEF Swept
<1>2. ASSUME ObjectsInv, [Next]_vars PROVE ObjectsInv'
  BY <1>2, ObjectsStep
<1> QED
  BY <1>1, <1>2, ObjectsInit, PTL DEF Spec, AbortLeavesNothing

=============================================================================
