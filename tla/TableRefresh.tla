----------------------------- MODULE TableRefresh -----------------------------
(***************************************************************************)
(* Refreshing one difficulty table, by `refresh-tables` or by              *)
(* `refresh-classifications` (cli.py), over fetch_table: the web page, the *)
(* JSON header it names and the JSON data the header names are asked for   *)
(* one after the other, with the validators of the cached copies, while    *)
(* their publisher edits them, connections fail and the command may die;   *)
(* the cache file is replaced when the whole table is valid, the rows of   *)
(* assistant.db after that, in a transaction of their own.                 *)
(*                                                                         *)
(* A document is the number of the edit it comes from, which is also its   *)
(* Last-Modified time, with what is wrong with it and its URL, the data,   *)
(* or the URL of the data, the header.                                     *)
(***************************************************************************)
EXTENDS Integers

CONSTANTS
    None,
    Places,       \* the URLs a header may give for its data
    MaxEdits,     \* edits of the publisher
    MaxMishaps    \* requests that fail, commands that die, cache files deleted

ASSUME TableAssumption ==
    /\ 1 \in Places
    /\ {MaxEdits, MaxMishaps} \subseteq Nat

VARIABLES
    catalog,   \* which command: it decides what rows it can store
    kind,      \* source_kind: what is behind the table's URL
    site,      \* the documents as published
    edits,
    cache,     \* the cache file
    run,       \* the command that runs: where it is, what it has fetched
    rows,      \* the table's rows in assistant.db, as the documents they are from
    error,     \* last_error of the table's source row
    mishaps

vars == <<catalog, kind, site, edits, cache, run, rows, error, mishaps>>

Idle == [at |-> "idle"]

Defects == {"none", "malformed", "doubled", "unknown level"}

Document(version, defect, url) == [version |-> version, defect |-> defect, url |-> url]

Header(version, defect, to) == [version |-> version, defect |-> defect, to |-> to]

Init ==
    /\ catalog \in {"tables", "classifications"}
    /\ kind \in {"html", "json"} \cup IF catalog = "tables" THEN {"genocide-legacy"} ELSE {}
    /\ site = [header |-> Header(0, "none", 1), data |-> [p \in Places |-> Document(0, "none", p)]]
    /\ edits = 0
    /\ cache = None
    /\ run = Idle
    /\ rows = None
    /\ error = "none"
    /\ mishaps = 0

(* The data of a header: of the legacy page it is the page itself. *)
DataOf(s, header) == IF kind = "genocide-legacy" THEN header ELSE s.data[header.to]

(* The publisher replaces the header (the page, of the legacy table) or the
   data at some URL. *)
Edit ==
    /\ edits < MaxEdits
    /\ edits' = edits + 1
    /\ \E p \in Places, d \in Defects :
          \/ /\ kind = "genocide-legacy" \/ d \in {"none", "malformed"}
             /\ site' = [site EXCEPT !.header = Header(edits + 1, d, p)]
          \/ /\ kind # "genocide-legacy"
             /\ site' = [site EXCEPT !.data[p] = Document(edits + 1, d, p)]
    /\ UNCHANGED <<catalog, kind, cache, run, rows, error, mishaps>>

------------------------------------------------------------------------------
(* fetch_table *)

Begin ==
    /\ run.at = "idle"
    /\ run' = [at |-> IF kind = "html" THEN "source" ELSE "header",
               began |-> site, cache |-> cache, stale |-> FALSE,
               header |-> None, data |-> None]
    /\ UNCHANGED <<catalog, kind, site, edits, cache, rows, error, mishaps>>

(* A server answers 304 to a copy that is as new as what it has. *)
NotModified(validator, document) == validator # None /\ document.version <= validator

(* The cached table if there is one, else the refresh of the table fails. *)
FallBack ==
    run' = IF run.cache = None
           THEN [run EXCEPT !.at = "refuse"]
           ELSE [run EXCEPT !.at = "store", !.stale = TRUE,
                            !.header = run.cache.header, !.data = run.cache.data]

(* Mutant: a page that is not modified is taken for a table that is not. *)
AskSourceOnly ==
    /\ run.at = "source"
    /\ run' = IF run.cache = None
              THEN [run EXCEPT !.at = "header"]
              ELSE [run EXCEPT !.at = "store",
                               !.header = run.cache.header, !.data = run.cache.data]
    /\ UNCHANGED <<catalog, kind, site, edits, cache, rows, error, mishaps>>

(* The page says where the header is; it is at one place, modified or not. *)
AskSource ==
    /\ run.at = "source"
    /\ run' = [run EXCEPT !.at = "header"]
    /\ UNCHANGED <<catalog, kind, site, edits, cache, rows, error, mishaps>>

HeaderValidator == IF run.cache = None THEN None ELSE run.cache.headerValidator

(* The header, or the source that is one, or the legacy page that holds all. *)
AskHeader ==
    /\ run.at = "header"
    /\ LET same == NotModified(HeaderValidator, site.header)
           header == IF same THEN run.cache.header ELSE site.header
       IN IF header.defect = "malformed"
          THEN FallBack
          ELSE run' = IF kind = "genocide-legacy"
                      THEN [run EXCEPT !.at = "save", !.header = header, !.data = header]
                      ELSE [run EXCEPT !.at = "data", !.header = header]
    /\ UNCHANGED <<catalog, kind, site, edits, cache, rows, error, mishaps>>

(* Mutant: the validators of the data at one URL are sent to another. *)
DataValidatorAnyUrl == IF run.cache = None THEN None ELSE run.cache.dataValidator

DataValidator ==
    IF run.cache # None /\ run.cache.header.to = run.header.to
    THEN run.cache.dataValidator
    ELSE None

AskData ==
    /\ run.at = "data"
    /\ LET published == DataOf(site, run.header)
           data == IF NotModified(DataValidator, published) THEN run.cache.data ELSE published
       IN IF data.defect = "malformed"
          THEN FallBack
          ELSE run' = [run EXCEPT !.at = "save", !.data = data]
    /\ UNCHANGED <<catalog, kind, site, edits, cache, rows, error, mishaps>>

(* Mutant: the file is left alone when the header has not changed. *)
SavedOfNewHeader ==
    IF cache # None /\ cache.header = run.header
    THEN cache
    ELSE [header |-> run.header, headerValidator |-> run.header.version,
          data |-> run.data, dataValidator |-> run.data.version]

(* A 304 keeps the old validator, which is the version of what was cached. *)
Saved ==
    [header |-> run.header, headerValidator |-> run.header.version,
     data |-> run.data, dataValidator |-> run.data.version]

(* _save_cache: a temporary file, then its replacement of the cache file. *)
SaveCache ==
    /\ run.at = "save"
    /\ cache' = Saved
    /\ run' = [run EXCEPT !.at = "store"]
    /\ UNCHANGED <<catalog, kind, site, edits, rows, error, mishaps>>

(* One of the things that go wrong, at most MaxMishaps times. *)
Mishap ==
    /\ mishaps < MaxMishaps
    /\ mishaps' = mishaps + 1

(* A connection is refused, breaks, times out, or is answered an error. *)
RequestFails ==
    /\ run.at \in {"source", "header", "data"}
    /\ Mishap
    /\ FallBack
    /\ UNCHANGED <<catalog, kind, site, edits, cache, rows, error>>

------------------------------------------------------------------------------
(* The commands.  The transaction deletes the table's rows, inserts those of
   the fetched data and writes the source row. *)

Replace ==
    /\ rows' = [header |-> run.header, data |-> run.data]
    /\ error' = IF run.stale THEN "stale" ELSE "none"
    /\ run' = Idle

Refused ==
    /\ run' = [run EXCEPT !.at = "refuse"]
    /\ UNCHANGED <<rows, error>>

(* table_entries holds a chart once per level; other levels it takes as text. *)
StoreTable ==
    /\ run.at = "store" /\ catalog = "tables"
    /\ IF run.data.defect = "doubled" THEN Refused ELSE Replace
    /\ UNCHANGED <<catalog, kind, site, edits, cache, mishaps>>

(* build_classification_batch refuses a repeated hash and a level that is on
   none of the source's scales. *)
StoreClassifications ==
    /\ run.at = "store" /\ catalog = "classifications"
    /\ IF run.data.defect # "none" THEN Refused ELSE Replace
    /\ UNCHANGED <<catalog, kind, site, edits, cache, mishaps>>

(* The failure is recorded, the rows stay. *)
RecordError ==
    /\ run.at = "refuse"
    /\ error' = "failed"
    /\ run' = Idle
    /\ UNCHANGED <<catalog, kind, site, edits, cache, rows, mishaps>>

Crash ==
    /\ Mishap
    /\ run.at # "idle"
    /\ run' = Idle
    /\ UNCHANGED <<catalog, kind, site, edits, cache, rows, error>>

LoseCache ==
    /\ Mishap
    /\ cache # None
    /\ cache' = None
    /\ UNCHANGED <<catalog, kind, site, edits, run, rows, error>>

Command ==
    \/ Begin \/ AskSource \/ AskHeader \/ AskData \/ SaveCache
    \/ StoreTable \/ StoreClassifications \/ RecordError

Next == Command \/ Edit \/ RequestFails \/ Crash \/ LoseCache

(* The command is run again and again, and a run that does not die ends. *)
Spec == Init /\ [][Next]_vars /\ WF_vars(Command)

------------------------------------------------------------------------------
(* Every variable holds what the code can put there. *)
TypeOK ==
    /\ kind \in {"html", "json", "genocide-legacy"}
    /\ run.at \in {"idle", "source", "header", "data", "save", "store", "refuse"}
    /\ error \in {"none", "stale", "failed"}
    /\ edits \in 0..MaxEdits /\ mishaps \in 0..MaxMishaps
    /\ rows # None => rows.data.defect \in Defects \ {"malformed", "doubled"}

Stores == run.at = "store" /\ run'.at = "idle" /\ mishaps' = mishaps

(***************************************************************************)
(* Rows stored without an error are no older than what was published when  *)
(* the command began to fetch, header and data, and are those of the URL   *)
(* the header names: a validator never vouches for another document, and   *)
(* a cached table is told as stale (fetch_table, last_error).              *)
(***************************************************************************)
FreshIsFresh ==
    [][Stores /\ error' = "none" =>
          /\ rows'.header.version >= run.began.header.version
          /\ rows'.data.version >= DataOf(run.began, rows'.header).version
          /\ kind # "genocide-legacy" => rows'.data.url = rows'.header.to]_vars

NotOlder(old, new) ==
    \/ new.header.version > old.header.version
    \/ new.header = old.header /\ new.data.version >= old.data.version

(***************************************************************************)
(* A refresh never puts an older table in place of a newer one: the cache  *)
(* a failing fetch falls back on is at least as new as the rows, although  *)
(* the two are written apart and the command may die between them          *)
(* (_save_cache before the transaction).                                   *)
(***************************************************************************)
RowsNeverBack == [][rows # None /\ rows' # rows => NotOlder(rows, rows')]_vars

Fit == site.header.defect = "none" /\ DataOf(site, site.header).defect = "none"

(***************************************************************************)
(* Once the publisher has put up a sound table and left it alone, repeated *)
(* refreshes end with its rows and no error: no cached copy, no validator  *)
(* and no earlier failure keeps an old table for good.                     *)
(***************************************************************************)
CatchesUp ==
    <>[](Fit => /\ rows = [header |-> site.header, data |-> DataOf(site, site.header)]
                /\ error = "none")
===============================================================================
