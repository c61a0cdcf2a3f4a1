---------------------------- MODULE SessionFile -----------------------------
(***************************************************************************)
(* session-state.json and its two writers (daemon/session_state.py,         *)
(* daemon/participant/state.py, daemon/__main__.py): the main loop flushes  *)
(* what the activities and the roster are, the request handlers persist     *)
(* what participant_state holds.  Each reads the file, merges its keys and  *)
(* replaces it by way of one temporary file, on threads of their own and    *)
(* without a lock.  Of the contents: the session id, a key only the main    *)
(* loop writes (the activities), one only the handlers write (the grants    *)
(* and switches), and the participants, which both write, each with the     *)
(* points it knows of.                                                      *)
(***************************************************************************)
EXTENDS Integers, FiniteSets

CONSTANTS
  Torn,      \* a file cut off half-way, or with nothing in it
  Absent,    \* no file
  MaxChange  \* bound on changes of each thing that is kept

Writers == {"main", "handler"}
Version == 0 .. MaxChange

\* A file: the id is there or not (find_session_folder_by_id finds the folder by it).
Contents == [id : BOOLEAN, activities : Version, grants : Version, points : Version]

FileAssumption ==
  MaxChange \in Nat \ {0} /\ Torn # Absent /\ {Torn, Absent} \cap Contents = {}

VARIABLES
  live,      \* the singletons: activities, grants, points
  cached,    \* the points as participant_state.scores knows them
  disk,      \* session-state.json
  tmp,       \* session-state.json.tmp
  save,      \* per writer: where its save_session_state stands, and what it writes
  flushed,   \* last_session_state_hash: what the main loop wrote last
  kept,      \* history: what each writer's own keys were when its last save ended
  crossed    \* history: two saves of this session overlapped

vars == <<live, cached, disk, tmp, save, flushed, kept, crossed>>

Idle == [at |-> "idle", text |-> Absent]
Blank == [id |-> FALSE, activities |-> 0, grants |-> 0, points |-> 0]
Empty(file) == file \in {Torn, Absent}

\* load_session_state: {} for a file that is not there or cannot be read.
Load(file) == IF Empty(file) THEN Blank ELSE file

\* Rejected variant of Merge: the file is what the writer knows of.
Replace(w, existing) ==
  IF w = "main"
  THEN [Blank EXCEPT !.id = existing.id, !.activities = live.activities,
                     !.points = live.points]
  ELSE [Blank EXCEPT !.id = existing.id, !.grants = live.grants, !.points = cached]

\* {**existing, **incoming}.  A handler's snapshot has the participants as well: the flat
\* names and scores of ParticipantState.snapshot are put into that key when it is validated.
Merge(w, existing) ==
  IF w = "main"
  THEN [existing EXCEPT !.activities = live.activities, !.points = live.points]
  ELSE [existing EXCEPT !.grants = live.grants, !.points = cached]

\* Something that is kept changes: an activity, points, a switch.
Change ==
  /\ \E k \in DOMAIN live : live[k] < MaxChange /\ live' = [live EXCEPT ![k] = @ + 1]
  /\ UNCHANGED <<cached, disk, tmp, save, flushed, kept, crossed>>

\* save_session_state begins: the file is read and the text made.  The main loop saves when
\* the hash of what it would write is not that of its last write, a handler always; without
\* a difference to the file nothing is written.
Begin(w) ==
  LET text == Merge(w, Load(disk)) IN
  /\ save[w] = Idle
  /\ w = "main" => <<live.activities, live.points>> # flushed
  /\ IF text = Load(disk)
     THEN /\ flushed' = IF w = "main" THEN <<live.activities, live.points>> ELSE flushed
          /\ kept' = IF w = "main" THEN [kept EXCEPT !.activities = text.activities]
                     ELSE [kept EXCEPT !.grants = text.grants]
          /\ UNCHANGED <<save, crossed>>
     ELSE /\ save' = [save EXCEPT ![w] = [at |-> "read", text |-> text]]
          /\ crossed' = (crossed \/ \E v \in Writers \ {w} : save[v] # Idle)
          /\ UNCHANGED <<flushed, kept>>
  /\ UNCHANGED <<live, cached, disk, tmp>>

\* tmp.write_text: the temporary file is emptied, and written.
Truncate(w) ==
  /\ save[w].at = "read"
  /\ save' = [save EXCEPT ![w].at = "open"] /\ tmp' = Torn
  /\ UNCHANGED <<live, cached, disk, flushed, kept, crossed>>

WriteText(w) ==
  /\ save[w].at = "open"
  /\ save' = [save EXCEPT ![w].at = "written"] /\ tmp' = save[w].text
  /\ UNCHANGED <<live, cached, disk, flushed, kept, crossed>>

\* tmp.replace(path).  When the other writer has just moved the temporary file away this one
\* fails: the main loop will try again, the handler answers 500.
Install(w) ==
  /\ save[w].at = "written"
  /\ save' = [save EXCEPT ![w] = Idle] /\ tmp' = Absent
  /\ IF tmp = Absent
     THEN UNCHANGED <<disk, flushed, kept>>
     ELSE /\ disk' = tmp
          /\ flushed' = IF w = "main"
                        THEN <<save[w].text.activities, save[w].text.points>> ELSE flushed
          /\ kept' = IF w = "main" THEN [kept EXCEPT !.activities = save[w].text.activities]
                     ELSE [kept EXCEPT !.grants = save[w].text.grants]
  /\ UNCHANGED <<live, cached, crossed>>

\* The daemon dies at any point and starts again on what the file holds; the restored points
\* are in both places.  Its first save is made after the restore.
Restart ==
  LET found == Load(disk) IN
  /\ live' = [activities |-> found.activities, grants |-> found.grants,
              points |-> found.points]
  /\ cached' = found.points
  /\ save' = [w \in Writers |-> Idle]
  /\ flushed' = <<found.activities, found.points>>
  /\ kept' = [activities |-> found.activities, grants |-> found.grants]
  /\ UNCHANGED <<disk, tmp, crossed>>

Init ==
  /\ live = [activities |-> 0, grants |-> 0, points |-> 0] /\ cached = 0
  /\ disk = [Blank EXCEPT !.id = TRUE] /\ tmp = Absent
  /\ save = [w \in Writers |-> Idle] /\ flushed = <<0, 0>>
  /\ kept = [activities |-> 0, grants |-> 0] /\ crossed = FALSE

Next ==
  \/ Change \/ Restart
  \/ \E w \in Writers : Begin(w) \/ Truncate(w) \/ WriteText(w) \/ Install(w)

Spec == Init /\ [][Next]_vars

----------------------------------------------------------------------------
(* Properties                                                               *)

\* The variables have the types the code gives them.
TypeOK ==
  /\ live \in [activities : Version, grants : Version, points : Version]
  /\ cached \in Version
  /\ disk \in Contents \cup {Torn, Absent} /\ tmp \in Contents \cup {Torn, Absent}
  /\ save \in [Writers -> [at : {"idle", "read", "open", "written"},
                           text : Contents \cup {Absent}]]
  /\ flushed \in Version \X Version
  /\ kept \in [activities : Version, grants : Version] /\ crossed \in BOOLEAN

\* As long as no two saves overlap: the file is whole at every moment, so a crash in the
\* middle of a save loses that save and no more; it keeps the id that its folder is found
\* by; and what one writer saved of its own survives the saves of the other.
FileIsWhole ==
  ~crossed =>
    /\ ~Empty(disk) /\ disk.id
    /\ disk.activities = kept.activities /\ disk.grants = kept.grants

----------------------------------------------------------------------------
(* Promises the code does not keep; TLC shows how                           *)

\* session_state.py:469, "atomically writes": whatever the threads do.
AlwaysWhole == ~Empty(disk) /\ disk.id

\* session_state.py:473, "disjoint top-level key sets": what the main loop flushed of
\* the points is in the file until it flushes again.
PointsSurvive ==
  ~crossed /\ (\A w \in Writers : save[w] = Idle) => disk.points = flushed[2]

----------------------------------------------------------------------------
(* The inductive invariant behind the theorems of Records                   *)

\* A save that is under way has a text.
SavesHaveTexts ==
  \A w \in Writers : IF save[w].at = "idle" THEN save[w] = Idle ELSE save[w].text \in Contents

\* As long as no two saves overlap, the one under way writes what the other writer has saved of
\* its own, and the temporary file is its own.
SavesAreMerged ==
  ~crossed =>
    /\ \A v, w \in Writers : save[v].at # "idle" /\ save[w].at # "idle" => v = w
    /\ \A w \in Writers : save[w].at # "idle" =>
         /\ save[w].text.id
         /\ w = "main" => save[w].text.grants = kept.grants
         /\ w = "handler" => save[w].text.activities = kept.activities
         /\ save[w].at = "written" => tmp = save[w].text

FileInv == TypeOK /\ SavesHaveTexts /\ SavesAreMerged /\ FileIsWhole
=============================================================================
