------------------------------ MODULE Indexer ------------------------------
(***************************************************************************)
(* The index of the training material that quizzes are made from            *)
(* (daemon/rag/indexer.py).  A watcher notes which files changed; a worker  *)
(* takes what has rested for a while, and puts the chunks of a file into    *)
(* the collection in place of those it had.  A manifest says which content  *)
(* of each file the collection holds; it is kept in memory and on disk.     *)
(* The content of a file is a version, 0 when there is no file; a version   *)
(* has as many chunks as Size says, none when it cannot be parsed.          *)
(***************************************************************************)
EXTENDS Integers, FiniteSets

CONSTANTS
  Files, Size, None,
  MaxChanges, MaxStops   \* bounds on the changes of files and on the stops of the daemon

Versions == 1 .. MaxChanges + 1

\* What the worker does for a file.
Jobs ==
  [of : Files, step : {"drop", "forget", "hash", "dead", "deindex", "index", "record"},
   hash : Versions \cup {0}]

IndexerAssumption ==
  /\ {MaxChanges, MaxStops} \subseteq Nat /\ MaxChanges > 0
  /\ Versions \subseteq DOMAIN Size /\ \A v \in Versions : Size[v] \in Nat
  /\ None \notin Versions /\ None \notin {"delete", "upsert"} /\ None \notin Jobs

VARIABLES
  content,     \* what is on disk
  chunks,      \* of every file the chunks in the collection: a position and its version
  manifest,    \* _manifest_files: the hash of every file, 0 when there is none
  saved,       \* .index-manifest.json
  pending,     \* _pending: the last action noted of each file, or None
  due,         \* the same for the files of the worker's round
  work,        \* what the worker does: its file and step; or None
  up,          \* the daemon runs
  changes, stops,
  unseen,      \* history: files that changed while the daemon was off
  cut,         \* history: files the worker was at when the daemon stopped, or that were
               \* noted then
  unparsed,    \* history: files of whose last version nothing could be indexed
  mixed,       \* history: files that were indexed as another version than was hashed
  botched      \* history: files whose last deletion from the collection failed, or of which
               \* some chunks could not be embedded since

vars == <<content, chunks, manifest, saved, pending, due, work, up, changes, stops,
          unseen, cut, unparsed, mixed, botched>>
sides == <<content, changes, stops, unseen, cut, up, due>>

\* What the collection holds of a file once the chunks K of version v are put into it, on top
\* of what it held: chunks have the position in their id.
Upserted(old, v, K) == {c \in old : c.pos \notin K} \cup {[pos |-> n, version |-> v] : n \in K}

Doing(step) == up /\ work # None /\ work.step = step
Go(step) == work' = [work EXCEPT !.step = step]

----------------------------------------------------------------------------
(* Files and the watcher                                                    *)

Noted(n, action) ==
  IF up THEN pending' = [pending EXCEPT ![n] = action] /\ UNCHANGED unseen
  ELSE unseen' = unseen \cup {n} /\ UNCHANGED pending

\* A file is written: another content, or one it had before.
Change(n, v) ==
  /\ changes < MaxChanges /\ changes' = changes + 1 /\ v # content[n]
  /\ content' = [content EXCEPT ![n] = v]
  /\ Noted(n, IF v = 0 THEN "delete" ELSE "upsert")
  /\ UNCHANGED <<chunks, manifest, saved, due, work, up, stops, cut, unparsed, mixed, botched>>

----------------------------------------------------------------------------
(* The worker: _debounce_worker                                             *)

\* The worker's round: the files that have rested long enough.
Round(S) ==
  /\ up /\ work = None /\ \A n \in Files : due[n] = None
  /\ S # {} /\ \A n \in S : pending[n] # None
  /\ due' = [n \in Files |-> IF n \in S THEN pending[n] ELSE None]
  /\ pending' = [n \in Files |-> IF n \in S THEN None ELSE pending[n]]
  /\ UNCHANGED <<content, chunks, manifest, saved, work, up, changes, stops, unseen, cut,
                 unparsed, mixed, botched>>

\* One file of the round: nothing for an upsert of a file that is gone.
Take(n) ==
  /\ up /\ work = None /\ due[n] # None
  /\ due' = [due EXCEPT ![n] = None]
  /\ work' = IF due[n] = "delete" THEN [of |-> n, step |-> "drop", hash |-> 0]
             ELSE IF content[n] = 0 THEN None ELSE [of |-> n, step |-> "hash", hash |-> 0]
  /\ UNCHANGED <<content, chunks, manifest, saved, pending, up, changes, stops, unseen, cut,
                 unparsed, mixed, botched>>

\* deindex_file: the chunks of the file go; or stay, for nobody hears that it failed.
Emptied ==
  \/ chunks' = [chunks EXCEPT ![work.of] = {}] /\ botched' = botched \ {work.of}
  \/ UNCHANGED chunks /\ botched' = botched \cup {work.of}

\* A deletion: deindex_file, then the manifest.
Drop ==
  /\ Doing("drop") /\ Emptied /\ Go("forget")
  /\ UNCHANGED <<manifest, saved, pending, unparsed, mixed, sides>>

Forget ==
  /\ Doing("forget")
  /\ manifest' = [manifest EXCEPT ![work.of] = 0] /\ saved' = manifest' /\ work' = None
  /\ UNCHANGED <<chunks, pending, unparsed, mixed, botched, sides>>

\* _upsert_file_if_needed: nothing for a content that is in the manifest; a file that went
\* meanwhile cannot be hashed, and nothing catches it: the worker is no more.
Hash ==
  /\ Doing("hash")
  /\ LET h == content[work.of] IN
       work' = IF h = 0 THEN [work EXCEPT !.step = "dead"]
               ELSE IF manifest[work.of] = h THEN None
               ELSE [work EXCEPT !.step = IF manifest[work.of] = 0 THEN "index" ELSE "deindex",
                                 !.hash = h]
  /\ UNCHANGED <<chunks, manifest, saved, pending, unparsed, mixed, botched, sides>>

Deindex ==
  /\ Doing("deindex") /\ Emptied /\ Go("index")
  /\ UNCHANGED <<manifest, saved, pending, unparsed, mixed, sides>>

\* index_file reads the file as it is by now.  A chunk that cannot be embedded is left out; with
\* none, as with a file that is gone or cannot be parsed, the manifest stays as it is; and
\* nothing catches a failure of the collection: the worker is no more.
Index ==
  /\ Doing("index")
  /\ LET n == work.of
         v == content[n]
     IN \/ \E K \in SUBSET (1 .. IF v = 0 THEN 0 ELSE Size[v]) :
             /\ K # {} /\ Go("record")
             /\ chunks' = [chunks EXCEPT ![n] = Upserted(@, v, K)]
             /\ unparsed' = unparsed \ {n}
             /\ mixed' = IF v = work.hash THEN mixed \ {n} ELSE mixed \cup {n}
             /\ botched' = IF K = 1 .. Size[v] THEN botched ELSE botched \cup {n}
        \/ work' = None /\ unparsed' = unparsed \cup {n} /\ UNCHANGED <<chunks, mixed, botched>>
        \/ Go("dead") /\ UNCHANGED <<chunks, unparsed, mixed, botched>>
  /\ UNCHANGED <<manifest, saved, pending, sides>>

\* Rejected variant of Record: what is recorded is not the content that was hashed first.
RecordLate ==
  /\ Doing("record")
  /\ manifest' = [manifest EXCEPT ![work.of] = content[work.of]] /\ saved' = manifest'
  /\ work' = None
  /\ UNCHANGED <<chunks, pending, unparsed, mixed, botched, sides>>

Record ==
  /\ Doing("record")
  /\ manifest' = [manifest EXCEPT ![work.of] = work.hash] /\ saved' = manifest' /\ work' = None
  /\ UNCHANGED <<chunks, pending, unparsed, mixed, botched, sides>>

----------------------------------------------------------------------------
(* The daemon                                                               *)

\* The file is noted, or the worker is at it.
Busy(n) == pending[n] # None \/ due[n] # None \/ (work # None /\ work.of = n)

Stop ==
  /\ up /\ stops < MaxStops /\ stops' = stops + 1 /\ up' = FALSE
  /\ cut' = cut \cup {n \in Files : Busy(n)}
  /\ pending' = [n \in Files |-> None] /\ due' = pending' /\ work' = None
  /\ UNCHANGED <<content, chunks, manifest, saved, changes, unseen, unparsed, mixed, botched>>

\* start_indexer: the manifest is loaded, the watcher started; nothing is compared.
StartIndexer ==
  /\ ~up /\ up' = TRUE /\ manifest' = saved
  /\ UNCHANGED <<content, chunks, saved, pending, due, work, changes, stops, unseen, cut,
                 unparsed, mixed, botched>>

Init ==
  /\ content \in [Files -> {0, 1}]
  /\ chunks = [n \in Files |-> IF content[n] = 0 THEN {} ELSE Upserted({}, 1, 1 .. Size[1])]
  /\ manifest = content /\ saved = content
  /\ pending = [n \in Files |-> None] /\ due = pending /\ work = None /\ up = TRUE
  /\ changes = 0 /\ stops = 0 /\ unseen = {} /\ cut = {} /\ unparsed = {} /\ mixed = {}
  /\ botched = {}

Next ==
  \/ \E S \in SUBSET Files : Round(S)
  \/ \E n \in Files : Take(n) \/ \E v \in Versions \cup {0} : Change(n, v)
  \/ Drop \/ Forget \/ Hash \/ Deindex \/ Index \/ Record \/ Stop \/ StartIndexer

Spec == Init /\ [][Next]_vars

----------------------------------------------------------------------------
(* Properties                                                               *)

\* The variables have the types the code gives them.
TypeOK ==
  /\ {content, manifest, saved} \subseteq [Files -> Versions \cup {0}]
  /\ \A n \in Files : \A c \in chunks[n] : c.version \in Versions
  /\ unseen \cup cut \cup unparsed \cup mixed \cup botched \subseteq Files

\* The chunks a version of a file has when nothing else is left in the collection.
ChunksOf(v) == IF v = 0 THEN {} ELSE Upserted({}, v, 1 .. Size[v])

\* The collection has the chunks of the file's content, and no others.
Current(n) == chunks[n] = ChunksOf(content[n])

\* indexer.py:3, "keeps the ChromaDB collection up to date": a file that is neither noted nor
\* being indexed has exactly the chunks of its content in the collection, unless it changed or
\* was noted while the daemon stopped, nothing of its last version could be indexed, it changed
\* between the two readings of one indexing, or the collection or the embedding failed it.
IndexIsCurrent ==
  \A n \in Files \ (unseen \cup cut \cup unparsed \cup mixed \cup botched) :
    ~Busy(n) => Current(n)

----------------------------------------------------------------------------
(* Promises the code does not keep; TLC shows how                           *)

\* The same for a file that changed while the daemon was off: index_all is never called.
OffIsCaughtUp ==
  up => \A n \in Files \ (cut \cup unparsed \cup mixed \cup botched) : ~Busy(n) => Current(n)

\* The same for a file that can be parsed again: its old hash is still in the manifest, so a
\* content it had before is taken for indexed.
ParsesAgain ==
  \A n \in Files \ (unseen \cup cut \cup mixed \cup botched) :
    ~Busy(n) /\ content[n] # 0 /\ Size[content[n]] > 0 => Current(n)

\* The same for a file that changed while it was indexed and changed back.
HashedIsIndexed ==
  \A n \in Files \ (unseen \cup cut \cup unparsed \cup botched) : ~Busy(n) => Current(n)

\* The same when the collection fails a deletion, or the embedding of some chunks: the manifest
\* says that the file is gone, or indexed.
FailuresAreRedone ==
  \A n \in Files \ (unseen \cup cut \cup unparsed \cup mixed) : ~Busy(n) => Current(n)

\* The worker survives a file that goes between the check that it is there and its hash, and
\* a collection that does not take the chunks.
WorkerSurvives == work # None => work.step # "dead"

----------------------------------------------------------------------------
(* The inductive invariant behind the theorems of RecordsProofs            *)

IndexTypeOK ==
  /\ content \in [Files -> Versions \cup {0}] /\ manifest \in [Files -> Versions \cup {0}]
  /\ saved = manifest /\ chunks = [n \in Files |-> chunks[n]]
  /\ pending \in [Files -> {None, "delete", "upsert"}]
  /\ due \in [Files -> {None, "delete", "upsert"}]
  /\ work \in Jobs \cup {None} /\ up \in BOOLEAN
  /\ ~up => work = None /\ \A n \in Files : pending[n] = None /\ due[n] = None

\* Chunks are of versions, and what is noted of files is of files.
ChunksTypeOK ==
  /\ \A n \in Files : \A c \in chunks[n] : c.version \in Versions
  /\ unseen \cup cut \cup unparsed \cup mixed \cup botched \subseteq Files

At(n, steps) == work # None /\ work.of = n /\ work.step \in steps

\* The collection holds of a file what the manifest says, except while the worker is between
\* the two, or when the last indexing of it went wrong.
HeldIsRecorded(n) ==
  /\ n \notin botched =>
       /\ manifest[n] = 0 /\ ~At(n, {"record"}) => chunks[n] = {}
       /\ At(n, {"forget", "index"}) => chunks[n] = {}
       /\ manifest[n] # 0 /\ n \notin unparsed \cup mixed
            /\ ~At(n, {"forget", "index", "record", "dead"})
            => chunks[n] = ChunksOf(manifest[n])
       /\ At(n, {"record"}) /\ n \notin mixed => chunks[n] = ChunksOf(work.hash)
  /\ At(n, {"deindex", "index", "record"}) => work.hash # 0

\* What is noted of a file, and what the worker does for one that did not change since it was
\* noted, fits the file; and when nothing is noted the manifest does.
NotedIsSo(n) ==
  /\ pending[n] # None => (pending[n] = "delete" <=> content[n] = 0)
  /\ pending[n] = None =>
       /\ due[n] # None => (due[n] = "delete" <=> content[n] = 0)
       /\ At(n, {"drop", "forget"}) => content[n] = 0
       /\ At(n, {"hash"}) => content[n] # 0
       /\ At(n, {"deindex", "index", "record"}) => content[n] = work.hash
       /\ n \notin unparsed \cup mixed /\ ~Busy(n) => manifest[n] = content[n]

IndexerInv ==
  /\ IndexTypeOK /\ ChunksTypeOK
  /\ \A n \in Files \ (unseen \cup cut) : HeldIsRecorded(n) /\ NotedIsSo(n)
=============================================================================
