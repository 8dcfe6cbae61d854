-------------------------- MODULE TableRefreshProofs --------------------------
(***************************************************************************)
(* What TableRefresh guarantees for every number of edits, URLs and        *)
(* mishaps.  The argument: whatever table is kept (the cache file, the     *)
(* rows, what the command has read of the cache) is one the publisher had  *)
(* up, none newer than what is up now, and of these the rows are the       *)
(* oldest; what a command fetches is newer than anything kept.             *)
(***************************************************************************)
EXTENDS TableRefresh, TLAPS

USE TableAssumption

----------------------------------------------------------------------------
(* The invariant.                                                          *)

Headers == [version : Nat, defect : Defects, to : Places]
Documents == [version : Nat, defect : Defects, url : Places]
Data == Headers \cup Documents

Sites == [header : Headers, data : [Places -> Documents]]

Copies == [header : Headers, headerValidator : Nat, data : Data, dataValidator : Nat]

Stages == {"source", "header", "data", "save", "store", "refuse"}

Runs ==
    [at : Stages, began : Sites, cache : Copies \cup {None}, stale : BOOLEAN,
     header : Headers \cup {None}, data : Data \cup {None}]

Legacy == kind = "genocide-legacy"

\* What is published is the newest there is, each document at its URL.
Published ==
    /\ edits \in Nat /\ mishaps \in Nat
    /\ site \in Sites
    /\ site.header.version <= edits
    /\ \A p \in Places : site.data[p].version <= edits /\ site.data[p].url = p

\* A header, and a table, that the publisher has had up.
WasUp(header) ==
    /\ header \in Headers
    /\ header.version <= site.header.version
    /\ header.version = site.header.version => header = site.header

Genuine(header, data) ==
    /\ WasUp(header)
    /\ data \in Data
    /\ Legacy => data = header
    /\ ~Legacy => /\ data \in Documents
                  /\ data.url = header.to
                  /\ data.version <= site.data[header.to].version

\* The rows are no newer than this table, or this header.
RowsNoNewer(header, data) ==
    rows # None =>
        \/ header.version > rows.header.version
        \/ header = rows.header /\ data.version >= rows.data.version

RowsHeaderNoNewer(header) ==
    rows # None => header.version > rows.header.version \/ header = rows.header

\* A cached table is as new as the rows; its validators are those of what
\* it holds.
Cached(copy) ==
    /\ copy \in Copies
    /\ Genuine(copy.header, copy.data)
    /\ copy.headerValidator = copy.header.version
    /\ copy.dataValidator = copy.data.version
    /\ RowsNoNewer(copy.header, copy.data)

Kept ==
    /\ cache # None => Cached(cache)
    /\ rows # None => Genuine(rows.header, rows.data)

\* What was published when the command began is no newer than what is now.
BeganEarlier ==
    /\ run.began.header.version <= site.header.version
    /\ \A p \in Places : run.began.data[p].version <= site.data[p].version

\* The table the command is about to keep.
Fetched ==
    /\ Genuine(run.header, run.data)
    /\ RowsNoNewer(run.header, run.data)
    /\ ~run.stale => /\ run.header.version >= run.began.header.version
                     /\ run.data.version >= DataOf(run.began, run.header).version

\* What holds of the command that runs.
Fetching ==
    run.at # "idle" =>
        /\ run \in Runs
        /\ BeganEarlier
        /\ run.cache # None => Cached(run.cache)
        /\ run.at \in {"source", "header", "data"} => cache \in {None, run.cache}
        /\ run.at = "data" => /\ ~Legacy /\ WasUp(run.header) /\ RowsHeaderNoNewer(run.header)
                              /\ run.header.version >= run.began.header.version
        /\ run.at \in {"save", "store"} => Fetched
        /\ run.at = "store" /\ cache # None =>
              cache.header = run.header /\ cache.data = run.data

IInv == Published /\ Kept /\ Fetching

LEMMA InitIInv == Init => IInv
<1> SUFFICES ASSUME Init PROVE IInv
  OBVIOUS
<1>1. Published
  <2>1. Header(0, "none", 1) \in Headers /\ Header(0, "none", 1).version = 0
    BY DEF Header, Headers, Defects
  <2>2. \A p \in Places : Document(0, "none", p) \in Documents
                          /\ Document(0, "none", p).version = 0 /\ Document(0, "none", p).url = p
    BY DEF Document, Documents, Defects
  <2> QED
    BY <2>1, <2>2 DEF Init, Published, Sites
<1>2. Kept /\ Fetching
  BY DEF Init, Kept, Fetching, Idle
<1> QED
  BY <1>1, <1>2 DEF IInv

----------------------------------------------------------------------------
(* The publisher.                                                          *)

LEMMA EditIs ==
    ASSUME Published, Edit
    PROVE  /\ Published'
           /\ UNCHANGED <<catalog, kind, cache, run, rows, error, mishaps>>
           /\ site'.header = site.header \/ site'.header.version > site.header.version
           /\ \A p \in Places : site'.data[p].version >= site.data[p].version
<1>1. PICK p \in Places, d \in Defects :
          \/ site' = [site EXCEPT !.header = Header(edits + 1, d, p)]
          \/ site' = [site EXCEPT !.data[p] = Document(edits + 1, d, p)]
  BY DEF Edit
<1>2. edits' = edits + 1 /\ edits \in Nat /\ site \in Sites
      /\ UNCHANGED <<catalog, kind, cache, run, rows, error, mishaps>>
  BY DEF Edit, Published
<1> DEFINE header == Header(edits + 1, d, p)
           document == Document(edits + 1, d, p)
<1>3. header \in Headers /\ header.version = edits + 1
  BY <1>2 DEF Header, Headers
<1>4. document \in Documents /\ document.version = edits + 1 /\ document.url = p
  BY <1>2 DEF Document, Documents
<1> HIDE DEF header, document
<1>5. CASE site' = [site EXCEPT !.header = header]
  <2>1. site' \in Sites /\ site'.header = header /\ site'.data = site.data
    BY <1>2, <1>3, <1>5 DEF Sites
  <2>2. \A q \in Places : site.data[q].version \in Nat
    BY <1>2 DEF Sites, Documents
  <2>3. site.header.version \in Nat
    BY <1>2 DEF Sites, Headers
  <2> QED
    BY <1>2, <1>3, <2>1, <2>2, <2>3 DEF Published
<1>6. CASE site' = [site EXCEPT !.data[p] = document]
  <2>1. site' \in Sites /\ site'.header = site.header
        /\ site'.data = [site.data EXCEPT ![p] = document]
    <3>1. PICK data : data = [site.data EXCEPT ![p] = document]
      OBVIOUS
    <3>2. data \in [Places -> Documents]
      BY <1>2, <1>4, <3>1 DEF Sites
    <3>3. site' = [site EXCEPT !.data = data]
      BY <1>2, <1>6, <3>1 DEF Sites
    <3> QED
      BY <1>2, <3>1, <3>2, <3>3 DEF Sites
  <2>2. site'.data[p] = document /\ \A q \in Places : q # p => site'.data[q] = site.data[q]
    BY <1>2, <2>1 DEF Sites
  <2>3. \A q \in Places : site.data[q].version \in Nat
    BY <1>2 DEF Sites, Documents
  <2>4. site.header.version \in Nat
    BY <1>2 DEF Sites, Headers
  <2> QED
    BY <1>2, <1>4, <2>1, <2>2, <2>3, <2>4 DEF Published
<1> QED
  BY <1>1, <1>5, <1>6 DEF header, document

LEMMA EditKeeps ==
    ASSUME IInv, Edit
    PROVE  IInv'
<1>1. /\ Published'
      /\ UNCHANGED <<catalog, kind, cache, run, rows, error, mishaps>>
      /\ site'.header = site.header \/ site'.header.version > site.header.version
      /\ \A p \in Places : site'.data[p].version >= site.data[p].version
  BY EditIs DEF IInv
<1>2. /\ site \in Sites /\ site' \in Sites
      /\ site.header.version \in Nat /\ site'.header.version \in Nat
      /\ \A p \in Places : site.data[p].version \in Nat /\ site'.data[p].version \in Nat
  BY <1>1 DEF IInv, Published, Sites, Headers, Documents
<1>3. ASSUME NEW header, WasUp(header)
      PROVE  WasUp(header)'
  <2>1. header \in Headers /\ header.version \in Nat
    BY <1>3 DEF WasUp, Headers
  <2> QED
    BY <1>1, <1>2, <1>3, <2>1 DEF WasUp
<1>4. ASSUME NEW header, NEW data, Genuine(header, data)
      PROVE  Genuine(header, data)'
  <2>1. ~Legacy => data.version \in Nat /\ header.to \in Places
    BY <1>4 DEF Genuine, Documents, WasUp, Headers
  <2>2. Legacy' <=> Legacy
    BY <1>1 DEF Legacy
  <2> QED
    BY <1>1, <1>2, <1>3, <1>4, <2>1, <2>2 DEF Genuine
<1>5. ASSUME NEW copy, Cached(copy)
      PROVE  Cached(copy)'
  BY <1>1, <1>4, <1>5 DEF Cached, RowsNoNewer
<1>6. Kept'
  BY <1>1, <1>4, <1>5 DEF IInv, Kept
<1>7. Fetching'
  <2> SUFFICES ASSUME run.at # "idle"
               PROVE  Fetching'
    BY <1>1 DEF Fetching
  <2>1. BeganEarlier'
    <3>1. run.began \in Sites
      BY DEF IInv, Fetching, Runs
    <3>2. run.began.header.version \in Nat
          /\ \A p \in Places : run.began.data[p].version \in Nat
      BY <3>1 DEF Sites, Headers, Documents
    <3> QED
      BY <1>1, <1>2, <3>2 DEF IInv, Fetching, BeganEarlier
  <2>2. run.at \in {"save", "store"} => Fetched'
    BY <1>1, <1>4 DEF IInv, Fetching, Fetched, RowsNoNewer, DataOf
  <2>3. Legacy' <=> Legacy
    BY <1>1 DEF Legacy
  <2>4. run.cache # None => Cached(run.cache)'
    BY <1>1, <1>5 DEF IInv, Fetching
  <2>5. run.at = "data" => WasUp(run.header)' /\ RowsHeaderNoNewer(run.header)'
    BY <1>1, <1>3 DEF IInv, Fetching, RowsHeaderNoNewer
  <2> QED
    BY <1>1, <2>1, <2>2, <2>3, <2>4, <2>5 DEF IInv, Fetching
<1> QED
  BY <1>1, <1>6, <1>7 DEF IInv

----------------------------------------------------------------------------
(* The command.                                                            *)

\* The rows and what is published stay.
LEMMA QuietKeeps ==
    ASSUME IInv, mishaps' \in Nat, UNCHANGED <<kind, site, edits, rows>>
    PROVE  /\ Published'
           /\ (rows # None => Genuine(rows.header, rows.data))'
           /\ \A h, d : /\ WasUp(h) <=> WasUp(h)'
                        /\ Genuine(h, d) <=> Genuine(h, d)'
                        /\ RowsNoNewer(h, d) <=> RowsNoNewer(h, d)'
                        /\ RowsHeaderNoNewer(h) <=> RowsHeaderNoNewer(h)'
                        /\ Cached(h) <=> Cached(h)'
           /\ Legacy' <=> Legacy
<1>1. Legacy' <=> Legacy
  BY DEF Legacy
<1>2. Published'
  BY DEF IInv, Published
<1>3. \A h : WasUp(h) <=> WasUp(h)'
  BY DEF WasUp
<1>4. \A h, d : Genuine(h, d) <=> Genuine(h, d)'
  BY <1>1, <1>3 DEF Genuine
<1>5. \A h, d : (RowsNoNewer(h, d) <=> RowsNoNewer(h, d)')
                /\ (RowsHeaderNoNewer(h) <=> RowsHeaderNoNewer(h)')
  BY DEF RowsNoNewer, RowsHeaderNoNewer
<1>6. \A h : Cached(h) <=> Cached(h)'
  BY <1>4, <1>5 DEF Cached
<1>7. (rows # None => Genuine(rows.header, rows.data))'
  BY <1>4 DEF IInv, Kept
<1> QED
  BY <1>1, <1>2, <1>3, <1>4, <1>5, <1>6, <1>7

LEMMA BeginKeeps ==
    ASSUME IInv, Begin
    PROVE  IInv'
<1>1. mishaps' \in Nat /\ UNCHANGED <<kind, site, edits, rows, cache>>
  BY DEF Begin, IInv, Published
<1>2. PICK at \in {"source", "header"} :
          run' = [at |-> at, began |-> site, cache |-> cache, stale |-> FALSE,
                  header |-> None, data |-> None]
  BY DEF Begin
<1>3. site \in Sites /\ cache \in Copies \cup {None}
  BY DEF IInv, Published, Kept, Cached
<1>4. run' \in Runs
  BY <1>2, <1>3 DEF Runs, Stages
<1>5. site.header.version \in Nat /\ \A p \in Places : site.data[p].version \in Nat
  BY <1>3 DEF Sites, Headers, Documents
<1>6. Fetching'
  BY <1>1, <1>2, <1>4, <1>5, QuietKeeps DEF Fetching, BeganEarlier, IInv, Kept
<1> QED
  BY <1>1, <1>6, QuietKeeps DEF IInv, Kept

\* A step of the command that writes no file and no row.
LEMMA CommandStep ==
    ASSUME IInv, run.at # "idle", mishaps' \in Nat,
           UNCHANGED <<kind, site, edits, rows, cache>>,
           run' \in Runs, run'.began = run.began, run'.cache = run.cache,
           run'.at \in {"source", "header", "data"} => run.at \in {"source", "header", "data"},
           run'.at = "data" => /\ ~Legacy /\ WasUp(run'.header) /\ RowsHeaderNoNewer(run'.header)
                               /\ run'.header.version >= run'.began.header.version,
           run'.at \in {"save", "store"} =>
               /\ Genuine(run'.header, run'.data)
               /\ RowsNoNewer(run'.header, run'.data)
               /\ ~run'.stale => /\ run'.header.version >= run'.began.header.version
                                 /\ run'.data.version >= DataOf(run'.began, run'.header).version,
           run'.at = "store" /\ cache # None =>
               cache.header = run'.header /\ cache.data = run'.data
    PROVE  IInv'
<1>1. run' \in Runs /\ BeganEarlier' /\ (run.cache # None => Cached(run.cache)')
  BY QuietKeeps DEF IInv, Fetching, BeganEarlier
<1>2. run'.at \in {"save", "store"} => Fetched'
  BY QuietKeeps DEF Fetched, DataOf
<1>3. Fetching'
  BY <1>1, <1>2, QuietKeeps DEF IInv, Fetching
<1> QED
  BY <1>3, QuietKeeps DEF IInv, Kept

LEMMA AskSourceKeeps ==
    ASSUME IInv, AskSource
    PROVE  IInv'
<1>1. run \in Runs /\ run.at = "source" /\ run' = [run EXCEPT !.at = "header"]
  BY DEF IInv, Fetching, AskSource
<1>2. /\ run' \in Runs /\ run'.at = "header" /\ run'.began = run.began /\ run'.cache = run.cache
  BY <1>1 DEF Runs, Stages
<1> QED
  BY <1>1, <1>2, CommandStep DEF AskSource, IInv, Published

LEMMA FallBackKeeps ==
    ASSUME IInv, run.at \in {"source", "header", "data"}, FallBack, mishaps' \in Nat,
           UNCHANGED <<kind, site, edits, rows, cache>>
    PROVE  IInv'
<1>1. run \in Runs /\ cache \in {None, run.cache}
  BY DEF IInv, Fetching
<1>2. CASE run.cache = None
  <2>1. run' = [run EXCEPT !.at = "refuse"]
    BY <1>2 DEF FallBack
  <2>2. run' \in Runs /\ run'.at = "refuse" /\ run'.began = run.began /\ run'.cache = run.cache
    BY <1>1, <2>1 DEF Runs, Stages
  <2> QED
    BY <2>2, CommandStep
<1>3. CASE run.cache # None
  <2>1. Cached(run.cache) /\ run.cache.header \in Headers /\ run.cache.data \in Data
    BY <1>3 DEF IInv, Fetching, Cached, Genuine, WasUp
  <2>2. PICK header \in Headers, data \in Data : header = run.cache.header /\ data = run.cache.data
    BY <2>1
  <2>3. run' = [run EXCEPT !.at = "store", !.stale = TRUE, !.header = header, !.data = data]
    BY <1>3, <2>2 DEF FallBack
  <2>4. /\ run' \in Runs /\ run'.at = "store" /\ run'.began = run.began /\ run'.cache = run.cache
        /\ run'.stale = TRUE /\ run'.header = header /\ run'.data = data
    BY <1>1, <2>3 DEF Runs, Stages
  <2>5. Genuine(header, data) /\ RowsNoNewer(header, data)
        /\ (cache # None => cache.header = header /\ cache.data = data)
    BY <1>1, <2>1, <2>2 DEF Cached
  <2> QED
    BY <2>4, <2>5, CommandStep
<1> QED
  BY <1>2, <1>3

LEMMA AskHeaderKeeps ==
    ASSUME IInv, AskHeader
    PROVE  IInv'
<1> DEFINE same == NotModified(HeaderValidator, site.header)
           header == IF same THEN run.cache.header ELSE site.header
<1>1. run \in Runs /\ run.at = "header" /\ UNCHANGED <<kind, site, edits, rows, cache>>
      /\ mishaps' \in Nat
  BY DEF IInv, Fetching, AskHeader, Published
<1>2. /\ WasUp(header) /\ RowsHeaderNoNewer(header)
      /\ header.version >= site.header.version
  <2>1. site.header \in Headers /\ site.header.version \in Nat
    BY DEF IInv, Published, Sites, Headers
  <2>2. CASE ~same
    <3>1. header = site.header
      BY <2>2
    <3> HIDE DEF header
    <3>2. WasUp(header) /\ header.version >= site.header.version
      BY <2>1, <3>1 DEF WasUp
    <3>3. RowsHeaderNoNewer(header)
      <4>1. rows # None => /\ rows.header.version \in Nat
                           /\ rows.header.version <= site.header.version
                           /\ rows.header.version = site.header.version => rows.header = site.header
        BY DEF IInv, Kept, Genuine, WasUp, Headers
      <4> QED
        BY <2>1, <3>1, <4>1 DEF RowsHeaderNoNewer
    <3> QED
      BY <3>2, <3>3
  <2>3. CASE same
    <3>1. header = run.cache.header /\ run.cache # None
          /\ site.header.version <= run.cache.headerValidator
      BY <2>3 DEF NotModified, HeaderValidator
    <3>2. Cached(run.cache)
      BY <1>1, <3>1 DEF IInv, Fetching
    <3> QED
      BY <3>1, <3>2 DEF Cached, Genuine, RowsNoNewer, RowsHeaderNoNewer
  <2> QED
    BY <2>2, <2>3
<1>3. \/ FallBack
      \/ Legacy /\ run' = [run EXCEPT !.at = "save", !.header = header, !.data = header]
      \/ ~Legacy /\ run' = [run EXCEPT !.at = "data", !.header = header]
  BY DEF AskHeader, Legacy
<1> HIDE DEF header, same
<1>4. header \in Headers /\ header.version \in Nat /\ header \in Data
  BY <1>2 DEF WasUp, Headers, Data
<1>5. header.version >= run.began.header.version
  <2>1. run.began.header.version <= site.header.version
    BY <1>1 DEF IInv, Fetching, BeganEarlier
  <2>2. run.began.header.version \in Nat /\ site.header.version \in Nat
    BY <1>1 DEF IInv, Published, Runs, Sites, Headers
  <2> QED
    BY <1>2, <1>4, <2>1, <2>2
<1>6. CASE FallBack
  BY <1>1, <1>6, FallBackKeeps
<1>7. CASE Legacy /\ run' = [run EXCEPT !.at = "save", !.header = header, !.data = header]
  <2>1. /\ run' \in Runs /\ run'.at = "save" /\ run'.began = run.began /\ run'.cache = run.cache
        /\ run'.header = header /\ run'.data = header
    BY <1>1, <1>4, <1>7 DEF Runs, Stages
  <2>2. Genuine(header, header)
    BY <1>2, <1>4, <1>7 DEF Genuine
  <2>3. RowsNoNewer(header, header)
    BY <1>2, <1>4, <1>7 DEF RowsHeaderNoNewer, RowsNoNewer, IInv, Kept, Genuine
  <2>4. DataOf(run.began, header) = header
    BY <1>7 DEF DataOf, Legacy
  <2> QED
    BY <1>1, <1>4, <1>5, <2>1, <2>2, <2>3, <2>4, CommandStep
<1>8. CASE ~Legacy /\ run' = [run EXCEPT !.at = "data", !.header = header]
  <2>1. /\ run' \in Runs /\ run'.at = "data" /\ run'.began = run.began /\ run'.cache = run.cache
        /\ run'.header = header
    BY <1>1, <1>4, <1>8 DEF Runs, Stages
  <2> QED
    BY <1>1, <1>2, <1>5, <1>8, <2>1, CommandStep
<1> QED
  BY <1>3, <1>6, <1>7, <1>8

LEMMA AskDataKeeps ==
    ASSUME IInv, AskData
    PROVE  IInv'
<1> DEFINE published == DataOf(site, run.header)
           same == NotModified(DataValidator, published)
           data == IF same THEN run.cache.data ELSE published
<1>1. run \in Runs /\ run.at = "data" /\ UNCHANGED <<kind, site, edits, rows, cache>>
      /\ mishaps' \in Nat
  BY DEF IInv, Fetching, AskData, Published
<1>2. /\ ~Legacy /\ WasUp(run.header) /\ RowsHeaderNoNewer(run.header)
      /\ run.header.version >= run.began.header.version
      /\ run.header.to \in Places /\ run.header \in Headers
  BY <1>1 DEF IInv, Fetching, WasUp, Headers
<1>3. published = site.data[run.header.to] /\ published \in Documents
      /\ published.version \in Nat /\ published.url = run.header.to
  BY <1>2 DEF DataOf, Legacy, IInv, Published, Sites, Documents
<1> HIDE DEF published
<1>4. /\ Genuine(run.header, data) /\ RowsNoNewer(run.header, data)
      /\ data.version >= published.version /\ data \in Documents
  <2>1. CASE ~same
    <3>1. data = published
      BY <2>1
    <3> HIDE DEF data
    <3>2. Genuine(run.header, data)
      BY <1>2, <1>3, <3>1 DEF Genuine, Data
    <3>3. rows # None /\ rows.header = run.header => rows.data.version <= published.version
      BY <1>2, <1>3 DEF IInv, Kept, Genuine
    <3>4. rows # None => rows.data.version \in Nat
      BY <1>2 DEF IInv, Kept, Genuine, Documents
    <3>5. RowsNoNewer(run.header, data)
      BY <1>2, <1>3, <3>1, <3>3, <3>4 DEF RowsNoNewer, RowsHeaderNoNewer
    <3> QED
      BY <1>3, <3>1, <3>2, <3>5
  <2>2. CASE same
    <3>1. data = run.cache.data /\ run.cache # None
          /\ run.cache.header.to = run.header.to
          /\ published.version <= run.cache.dataValidator
      BY <2>2 DEF NotModified, DataValidator
    <3> HIDE DEF data
    <3>2. Cached(run.cache) /\ data.version = run.cache.dataValidator
      BY <1>1, <3>1 DEF IInv, Fetching, Cached
    <3>3. data \in Documents /\ data.version \in Nat /\ Genuine(run.header, data)
      BY <1>2, <3>1, <3>2 DEF Cached, Genuine, Documents
    <3>4. RowsNoNewer(run.header, data)
      <4> SUFFICES ASSUME rows # None, run.header = rows.header
                   PROVE  data.version >= rows.data.version
        BY <1>2 DEF RowsNoNewer, RowsHeaderNoNewer
      <4>1. \/ run.cache.header.version > rows.header.version
            \/ run.cache.header = rows.header /\ data.version >= rows.data.version
        BY <3>1, <3>2 DEF Cached, RowsNoNewer
      <4>2. rows.data.version \in Nat /\ rows.data.version <= published.version
        BY <1>2, <1>3 DEF IInv, Kept, Genuine, Documents
      <4> QED
        BY <1>3, <3>1, <3>2, <3>3, <4>2
    <3> QED
      BY <1>3, <3>1, <3>2, <3>3, <3>4
  <2> QED
    BY <2>1, <2>2
<1>5. FallBack \/ run' = [run EXCEPT !.at = "save", !.data = data]
  BY DEF AskData, published
<1> HIDE DEF data, same
<1>6. CASE FallBack
  BY <1>1, <1>6, FallBackKeeps
<1>7. CASE run' = [run EXCEPT !.at = "save", !.data = data]
  <2>1. /\ run' \in Runs /\ run'.at = "save" /\ run'.began = run.began /\ run'.cache = run.cache
        /\ run'.header = run.header /\ run'.data = data
    BY <1>1, <1>4, <1>7 DEF Runs, Stages, Data
  <2>2. data.version >= DataOf(run.began, run.header).version
    <3>1. DataOf(run.began, run.header) = run.began.data[run.header.to]
      BY <1>2 DEF DataOf, Legacy
    <3>2. run.began.data[run.header.to].version <= published.version
      BY <1>1, <1>2, <1>3 DEF IInv, Fetching, BeganEarlier
    <3>3. run.began.data[run.header.to].version \in Nat
      BY <1>1, <1>2 DEF Runs, Sites, Documents
    <3>4. data.version \in Nat
      BY <1>4 DEF Documents
    <3> QED
      BY <1>3, <1>4, <3>1, <3>2, <3>3, <3>4
  <2> QED
    BY <1>1, <1>2, <1>4, <2>1, <2>2, CommandStep
<1> QED
  BY <1>5, <1>6, <1>7

LEMMA SaveCacheKeeps ==
    ASSUME IInv, SaveCache
    PROVE  IInv'
<1>1. run \in Runs /\ run.at = "save" /\ UNCHANGED <<kind, site, edits, rows>>
      /\ mishaps' \in Nat /\ Fetched
  BY DEF IInv, Fetching, SaveCache, Published
<1>2. /\ run' = [run EXCEPT !.at = "store"]
      /\ run' \in Runs /\ run'.at = "store" /\ run'.began = run.began /\ run'.cache = run.cache
      /\ run'.header = run.header /\ run'.data = run.data /\ run'.stale = run.stale
  BY <1>1 DEF SaveCache, Runs, Stages
<1>3. run.header \in Headers /\ run.header.version \in Nat /\ run.data \in Data
      /\ run.data.version \in Nat
  BY <1>1 DEF Fetched, Genuine, WasUp, Headers, Documents, Data
<1>4. /\ cache' \in Copies /\ cache'.header = run.header /\ cache'.data = run.data
      /\ cache'.headerValidator = run.header.version /\ cache'.dataValidator = run.data.version
  BY <1>3 DEF SaveCache, Saved, Copies
<1>5. Cached(cache)'
  BY <1>1, <1>4, QuietKeeps DEF Cached, Fetched
<1>6. Kept'
  BY <1>1, <1>5, QuietKeeps DEF Kept
<1>7. Fetched' /\ BeganEarlier'
  BY <1>1, <1>2, QuietKeeps DEF Fetched, DataOf, IInv, Fetching, BeganEarlier
<1>8. run.cache # None => Cached(run.cache)'
  BY <1>1, <1>2, QuietKeeps DEF IInv, Fetching
<1>9. Fetching'
  BY <1>2, <1>4, <1>7, <1>8 DEF Fetching
<1> QED
  BY <1>1, <1>6, <1>9, QuietKeeps DEF IInv

LEMMA ReplaceKeeps ==
    ASSUME IInv, run.at = "store", Replace, mishaps' \in Nat,
           UNCHANGED <<kind, site, edits, cache>>
    PROVE  IInv'
<1>1. run.at # "idle" /\ Fetched /\ run'.at = "idle"
      /\ (cache # None => cache.header = run.header /\ cache.data = run.data)
  BY DEF IInv, Fetching, Replace, Idle
<1>2. rows'.header = run.header /\ rows'.data = run.data
  BY DEF Replace
<1>3. Published' /\ (Legacy' <=> Legacy)
  BY DEF IInv, Published, Legacy
<1>4. \A h, d : Genuine(h, d) => Genuine(h, d)'
  BY <1>3 DEF Genuine, WasUp
<1>5. Genuine(rows.header, rows.data)'
  BY <1>1, <1>2, <1>4 DEF Fetched
<1>6. cache # None => Cached(cache)'
  <2> SUFFICES ASSUME cache # None PROVE Cached(cache)'
    OBVIOUS
  <2>1. Cached(cache)
    BY DEF IInv, Kept
  <2>2. cache.data.version \in Nat
    BY <2>1 DEF Cached, Genuine, Documents, WasUp, Headers
  <2>3. RowsNoNewer(cache.header, cache.data)'
    BY <1>1, <1>2, <2>2 DEF RowsNoNewer
  <2> QED
    BY <1>4, <2>1, <2>3 DEF Cached
<1>7. Kept' /\ Fetching'
  BY <1>1, <1>5, <1>6 DEF Kept, Fetching
<1> QED
  BY <1>3, <1>7 DEF IInv

LEMMA RefusedKeeps ==
    ASSUME IInv, run.at = "store", Refused, mishaps' \in Nat,
           UNCHANGED <<kind, site, edits, cache>>
    PROVE  IInv'
<1>1. run \in Runs /\ run' = [run EXCEPT !.at = "refuse"] /\ rows' = rows
  BY DEF IInv, Fetching, Refused
<1>2. /\ run' \in Runs /\ run'.at = "refuse" /\ run'.began = run.began /\ run'.cache = run.cache
  BY <1>1 DEF Runs, Stages
<1> QED
  BY <1>1, <1>2, CommandStep

LEMMA StoresKeep ==
    ASSUME IInv, StoreTable \/ StoreClassifications
    PROVE  IInv'
<1>1. /\ run.at = "store" /\ mishaps' \in Nat /\ UNCHANGED <<kind, site, edits, cache>>
      /\ Refused \/ Replace
  BY DEF StoreTable, StoreClassifications, IInv, Published
<1> QED
  BY <1>1, ReplaceKeeps, RefusedKeeps

\* The command is over, or the cache file is gone.
LEMMA EndsKeep ==
    ASSUME IInv, mishaps' \in Nat, UNCHANGED <<kind, site, edits, rows>>,
           \/ run' = Idle /\ cache' = cache
           \/ run' = run /\ cache' \in {None, cache}
    PROVE  IInv'
<1>1. Kept'
  BY QuietKeeps DEF IInv, Kept
<1>2. CASE run' = Idle
  BY <1>1, <1>2, QuietKeeps DEF IInv, Fetching, Idle
<1>3. CASE run' = run /\ cache' \in {None, cache}
  <2>1. Fetched => Fetched'
    BY <1>3, QuietKeeps DEF Fetched, DataOf
  <2>2. BeganEarlier => BeganEarlier'
    BY <1>3 DEF BeganEarlier
  <2>3. Fetching'
    BY <1>3, <2>1, <2>2, QuietKeeps DEF IInv, Fetching
  <2> QED
    BY <1>1, <2>3, QuietKeeps DEF IInv
<1> QED
  BY <1>2, <1>3

LEMMA NextKeeps == IInv /\ [Next]_vars => IInv'
<1> SUFFICES ASSUME IInv, [Next]_vars
             PROVE  IInv'
  OBVIOUS
<1>1. mishaps \in Nat /\ mishaps + 1 \in Nat
  BY DEF IInv, Published
<1>2. CASE Begin \/ AskSource \/ AskHeader \/ AskData \/ SaveCache
  BY <1>2, BeginKeeps, AskSourceKeeps, AskHeaderKeeps, AskDataKeeps, SaveCacheKeeps
<1>3. CASE StoreTable \/ StoreClassifications
  BY <1>3, StoresKeep
<1>4. CASE RecordError \/ Crash \/ LoseCache \/ UNCHANGED vars
  BY <1>1, <1>4, EndsKeep DEF RecordError, Crash, LoseCache, Mishap, vars
<1>5. CASE RequestFails
  BY <1>1, <1>5, FallBackKeeps DEF RequestFails, Mishap
<1>6. CASE Edit
  BY <1>6, EditKeeps
<1> QED
  BY <1>2, <1>3, <1>4, <1>5, <1>6 DEF Next, Command

LEMMA SpecIInv == Spec => []IInv
BY InitIInv, NextKeeps, PTL DEF Spec

----------------------------------------------------------------------------

\* The only steps that change the rows.
LEMMA OnlyReplaceWrites ==
    ASSUME IInv, [Next]_vars, rows' # rows \/ Stores
    PROVE  run.at = "store" /\ Replace /\ UNCHANGED <<kind, cache>>
<1>1. mishaps \in Nat
  BY DEF IInv, Published
<1>2. CASE Begin \/ AskSource \/ AskHeader \/ AskData \/ SaveCache \/ RecordError
  BY <1>2 DEF Begin, AskSource, AskHeader, AskData, SaveCache, RecordError, Stores
<1>3. CASE StoreTable \/ StoreClassifications
  <2>1. run.at = "store" /\ (Replace \/ Refused) /\ UNCHANGED <<kind, cache>>
    BY <1>3 DEF StoreTable, StoreClassifications
  <2>2. ~Refused
    <3> SUFFICES ASSUME Refused PROVE FALSE
      OBVIOUS
    <3>1. run \in Runs
      BY <2>1 DEF IInv, Fetching
    <3>2. run'.at = "refuse" /\ rows' = rows
      BY <3>1 DEF Refused, Runs
    <3> QED
      BY <3>2 DEF Stores
  <2> QED
    BY <2>1, <2>2
<1>4. CASE RequestFails \/ Crash
  BY <1>1, <1>4 DEF RequestFails, Crash, Mishap, Stores
<1>5. CASE LoseCache \/ Edit \/ UNCHANGED vars
  BY <1>5 DEF LoseCache, Edit, Stores, vars
<1> QED
  BY <1>2, <1>3, <1>4, <1>5 DEF Next, Command

(***************************************************************************)
(* A refresh never puts an older table in place of a newer one (the cache  *)
(* file is written before the transaction, _save_cache).                   *)
(***************************************************************************)
THEOREM RowsOnlyAdvance == Spec => RowsNeverBack
<1>1. IInv /\ [Next]_vars => [rows # None /\ rows' # rows => NotOlder(rows, rows')]_vars
  <2> SUFFICES ASSUME IInv, [Next]_vars, rows # None, rows' # rows
               PROVE  NotOlder(rows, rows')
    OBVIOUS
  <2>1. run.at = "store" /\ Replace
    BY OnlyReplaceWrites
  <2>2. RowsNoNewer(run.header, run.data)
    BY <2>1 DEF IInv, Fetching, Fetched
  <2>3. rows'.header = run.header /\ rows'.data = run.data
    BY <2>1 DEF Replace
  <2> QED
    BY <2>2, <2>3 DEF RowsNoNewer, NotOlder
<1> QED
  BY <1>1, SpecIInv, PTL DEF Spec, RowsNeverBack

(***************************************************************************)
(* Rows stored without an error are no older than what was published when  *)
(* the command began, and are those of the URL the header names            *)
(* (fetch_table, last_error).                                              *)
(***************************************************************************)
THEOREM StoredTablesAreFresh == Spec => FreshIsFresh
<1>1. ASSUME IInv, [Next]_vars, Stores, error' = "none"
      PROVE  /\ rows'.header.version >= run.began.header.version
             /\ rows'.data.version >= DataOf(run.began, rows'.header).version
             /\ kind # "genocide-legacy" => rows'.data.url = rows'.header.to
  <2>1. run.at = "store" /\ Replace
    BY <1>1, OnlyReplaceWrites
  <2>2. Fetched /\ ~run.stale
    <3>1. ~run.stale
      BY <1>1, <2>1 DEF Replace
    <3> QED
      BY <1>1, <2>1, <3>1 DEF IInv, Fetching
  <2>3. rows'.header = run.header /\ rows'.data = run.data
    BY <2>1 DEF Replace
  <2> QED
    BY <2>2, <2>3 DEF Fetched, Genuine, Legacy
<1>2. IInv /\ [Next]_vars =>
          [Stores /\ error' = "none" =>
              /\ rows'.header.version >= run.began.header.version
              /\ rows'.data.version >= DataOf(run.began, rows'.header).version
              /\ kind # "genocide-legacy" => rows'.data.url = rows'.header.to]_vars
  BY <1>1
<1> QED
  BY <1>2, SpecIInv, PTL DEF Spec, FreshIsFresh
-----------------------------------------------------------------------------
(* Types.                                                                  *)

\* What is cached, or about to be stored, could be read as a table.
Readable ==
    /\ cache # None => cache.data.defect # "malformed"
    /\ run.at # "idle" /\ run.cache # None => run.cache.data.defect # "malformed"
    /\ run.at \in {"save", "store"} => run.data.defect # "malformed"

TypeInv == TypeOK /\ Readable

\* A step that takes no document over keeps the types.
LEMMA QuietTypes ==
    ASSUME TypeInv, UNCHANGED <<kind, rows, edits>>, cache' \in {None, cache},
           error' \in {"none", "stale", "failed"}, mishaps' \in {mishaps, mishaps + 1},
           mishaps' # mishaps => mishaps < MaxMishaps,
           \/ run'.at = "idle"
           \/ /\ run.at # "idle" /\ run'.at \in Stages
              /\ run'.cache = run.cache
              /\ run'.at \in {"save", "store"} => run'.data.defect # "malformed"
    PROVE  TypeInv'
<1>1. mishaps' \in 0..MaxMishaps
  BY DEF TypeInv, TypeOK
<1>2. TypeOK'
  BY <1>1 DEF TypeInv, TypeOK, Stages
<1>3. Readable'
  BY DEF TypeInv, Readable
<1> QED
  BY <1>2, <1>3 DEF TypeInv

LEMMA FallBackTypes ==
    ASSUME IInv, TypeInv, run.at \in {"source", "header", "data"}, FallBack,
           UNCHANGED <<kind, rows, edits, cache, error>>,
           mishaps' \in {mishaps, mishaps + 1}, mishaps' # mishaps => mishaps < MaxMishaps
    PROVE  TypeInv'
<1>1. run \in Runs
  BY DEF IInv, Fetching
<1>2. /\ run'.at \in {"refuse", "store"} /\ run'.cache = run.cache
      /\ run'.at = "store" => run.cache # None /\ run'.data = run.cache.data
  BY <1>1 DEF FallBack, Runs
<1>3. run'.at = "store" => run'.data.defect # "malformed"
  BY <1>2 DEF TypeInv, Readable
<1> QED
  BY <1>2, <1>3, QuietTypes DEF Stages, TypeInv, TypeOK

LEMMA CommandTypes ==
    ASSUME IInv, TypeInv, Command
    PROVE  TypeInv'
<1>1. run.at # "idle" => run \in Runs
  BY DEF IInv, Fetching
<1>2. CASE Begin
  <2>1. /\ run'.at \in {"source", "header"} /\ run'.cache = cache
        /\ UNCHANGED <<kind, edits, cache, rows, error, mishaps>>
    BY <1>2 DEF Begin
  <2>2. Readable'
    BY <2>1 DEF TypeInv, Readable
  <2> QED
    BY <2>1, <2>2 DEF TypeInv, TypeOK
<1>3. CASE AskSource
  <2>1. run'.at = "header" /\ run'.cache = run.cache /\ run.at # "idle"
    BY <1>1, <1>3 DEF AskSource, Runs
  <2> QED
    BY <1>3, <2>1, QuietTypes DEF AskSource, Stages, TypeInv, TypeOK
<1>4. CASE AskHeader
  <2> DEFINE header == IF NotModified(HeaderValidator, site.header)
                       THEN run.cache.header ELSE site.header
  <2>1. \/ FallBack
        \/ header.defect # "malformed" /\ run' = [run EXCEPT !.at = "save", !.header = header, !.data = header]
        \/ run' = [run EXCEPT !.at = "data", !.header = header]
    BY <1>4 DEF AskHeader
  <2> HIDE DEF header
  <2>2. CASE FallBack
    BY <1>4, <2>2, FallBackTypes DEF AskHeader
  <2>3. CASE ~FallBack
    <3>1. /\ run'.at \in {"save", "data"} /\ run'.cache = run.cache /\ run.at # "idle"
          /\ run'.at = "save" => run'.data.defect # "malformed"
      BY <1>1, <1>4, <2>1, <2>3 DEF AskHeader, Runs
    <3> QED
      BY <1>4, <3>1, QuietTypes DEF AskHeader, Stages, TypeInv, TypeOK
  <2> QED
    BY <2>2, <2>3
<1>5. CASE AskData
  <2> DEFINE data == IF NotModified(DataValidator, DataOf(site, run.header))
                     THEN run.cache.data ELSE DataOf(site, run.header)
  <2>1. \/ FallBack
        \/ data.defect # "malformed" /\ run' = [run EXCEPT !.at = "save", !.data = data]
    BY <1>5 DEF AskData
  <2> HIDE DEF data
  <2>2. CASE FallBack
    BY <1>5, <2>2, FallBackTypes DEF AskData
  <2>3. CASE ~FallBack
    <3>1. /\ run'.at = "save" /\ run'.cache = run.cache /\ run.at # "idle"
          /\ run'.data.defect # "malformed"
      BY <1>1, <1>5, <2>1, <2>3 DEF AskData, Runs
    <3> QED
      BY <1>5, <3>1, QuietTypes DEF AskData, Stages, TypeInv, TypeOK
  <2> QED
    BY <2>2, <2>3
<1>6. CASE SaveCache
  <2>1. /\ run'.at = "store" /\ run'.cache = run.cache /\ run'.data = run.data
        /\ cache'.data = run.data /\ run.data.defect # "malformed" /\ run.at # "idle"
        /\ UNCHANGED <<kind, edits, rows, error, mishaps>>
    BY <1>1, <1>6 DEF SaveCache, Saved, Runs, TypeInv, Readable
  <2>2. Readable'
    BY <2>1 DEF TypeInv, Readable
  <2> QED
    BY <2>1, <2>2 DEF TypeInv, TypeOK
<1>7. CASE StoreTable \/ StoreClassifications
  <2>1. /\ run.at = "store" /\ run.data.defect # "malformed"
        /\ UNCHANGED <<kind, edits, cache, mishaps>>
    BY <1>7 DEF StoreTable, StoreClassifications, TypeInv, Readable
  <2>2. CASE Refused
    <3>1. run'.at = "refuse" /\ run'.cache = run.cache
      BY <1>1, <2>1, <2>2 DEF Refused, Runs
    <3> QED
      BY <2>1, <2>2, <3>1, QuietTypes DEF Refused, Stages, TypeInv, TypeOK
  <2>3. CASE ~Refused
    <3>1. Replace /\ run.data.defect \notin {"malformed", "doubled"}
      BY <1>7, <2>1, <2>3 DEF StoreTable, StoreClassifications
    <3>2. run.data.defect \in Defects
      BY <2>1 DEF IInv, Fetching, Fetched, Genuine, Data, Headers, Documents
    <3>3. rows'.data = run.data /\ run'.at = "idle" /\ error' \in {"none", "stale", "failed"}
      BY <3>1 DEF Replace, Idle
    <3>4. TypeOK'
      BY <2>1, <3>1, <3>2, <3>3 DEF TypeInv, TypeOK
    <3>5. Readable'
      BY <2>1, <3>3 DEF TypeInv, Readable
    <3> QED
      BY <3>4, <3>5 DEF TypeInv
  <2> QED
    BY <2>2, <2>3
<1>8. CASE RecordError
  BY <1>8, QuietTypes DEF RecordError, Idle
<1> QED
  BY <1>2, <1>3, <1>4, <1>5, <1>6, <1>7, <1>8 DEF Command

\* What is stored are tables: a document that cannot be read as one, or names a
\* chart twice, never becomes rows (fetch_table, the entries' primary key).
THEOREM TypesHold == Spec => []TypeOK
<1>1. Init => TypeInv
  BY DEF Init, TypeInv, TypeOK, Readable, Idle
<1>2. IInv /\ TypeInv /\ [Next]_vars => TypeInv'
  <2> SUFFICES ASSUME IInv, TypeInv, [Next]_vars PROVE TypeInv'
    OBVIOUS
  <2>1. CASE Edit
    <3>1. edits' \in 0..MaxEdits /\ UNCHANGED <<kind, cache, run, rows, error, mishaps>>
      BY <2>1 DEF Edit, TypeInv, TypeOK
    <3> QED
      BY <3>1 DEF TypeInv, TypeOK, Readable
  <2>2. CASE RequestFails
    BY <2>2, FallBackTypes DEF RequestFails, Mishap
  <2>3. CASE Crash
    BY <2>3, QuietTypes DEF Crash, Mishap, Idle, TypeInv, TypeOK
  <2>4. CASE LoseCache
    <3>1. mishaps' \in 0..MaxMishaps /\ UNCHANGED <<kind, edits, run, rows, error>> /\ cache' = None
      BY <2>4 DEF LoseCache, Mishap, TypeInv, TypeOK
    <3> QED
      BY <3>1 DEF TypeInv, TypeOK, Readable
  <2>5. CASE UNCHANGED vars
    BY <2>5 DEF vars, TypeInv, TypeOK, Readable
  <2> QED
    BY <2>1, <2>2, <2>3, <2>4, <2>5, CommandTypes DEF Next
<1>3. TypeInv => TypeOK
  BY DEF TypeInv
<1> QED
  BY <1>1, <1>2, <1>3, SpecIInv, PTL DEF Spec
===============================================================================
