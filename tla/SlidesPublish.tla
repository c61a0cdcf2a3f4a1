--------------------------- MODULE SlidesPublish ----------------------------
(***************************************************************************)
(* The publisher of the decks (daemon/slides/upload.py, convert.py,         *)
(* catalog.py): every few seconds it looks for decks that changed, pulls    *)
(* one of them as a PDF from Drive as soon as Drive has the change, puts it *)
(* into the publish folder and records that in two places, its state file   *)
(* and a marker beside the PDF.  The trainer goes on saving meanwhile, and  *)
(* the process may die between any two steps.  A version stands for the     *)
(* time of a file as well as for its contents.                              *)
(***************************************************************************)
EXTENDS Integers, FiniteSets

CONSTANTS
  Decks,
  None,
  MaxVersion   \* bound on the saves of a deck

PublishAssumption == MaxVersion \in Nat \ {0} /\ None \notin Decks

Version == 0 .. MaxVersion

VARIABLES
  source, drive,    \* per deck: in PowerPoint, and as Drive exports it
  state,            \* per deck, daemon_state: exported (last_exported_mtime), drive
                    \* (last_drive_fingerprint), retry (retry_after is ahead), behind (out_of_sync)
  saved,            \* the state file
  marker,           \* <target_pdf>.lastmodified in the publish folder
  published,        \* the PDF in the publish folder
  cooling,          \* last_export_finished_at is less than a cooldown ago
  job,              \* the deck in work: where it stands, and the PDF pulled
  listed,           \* last_slides_hash: the decks in the list that was pushed last
  lucky             \* history: every save was published before the next, nothing failed

world == <<source, drive>>
record == <<state, saved, marker>>
vars == <<world, record, published, cooling, job, listed, lucky>>

NoJob == [deck |-> None, at |-> "idle", pdf |-> None]
Idle == job = NoJob

\* detect_changed_files: newer than what either record says.
Changed ==
  {d \in Decks : source[d] > state[d].exported /\ source[d] > marker[d]}

\* The first in the order of their times.
Heads == {d \in Changed : \A e \in Changed : source[d] <= source[e]}

Set(d, entry) == state' = [state EXCEPT ![d] = entry]
SaveState == saved' = [files |-> state', listed |-> listed']

\* run_once takes one deck, unless the last export was just now; a deck in its backoff is
\* not passed over.
Take(d) ==
  /\ Idle /\ ~cooling /\ d \in Heads /\ ~state[d].retry
  /\ job' = [deck |-> d, at |-> "pulling", pdf |-> None]
  /\ UNCHANGED <<world, record, published, cooling, listed, lucky>>

\* convert_with_google_drive_pull: a PDF other than the last one is what was waited for.
Pull ==
  LET d == job.deck IN
  /\ job.at = "pulling" /\ state[d].drive # drive[d]
  /\ job' = [job EXCEPT !.at = "pulled", !.pdf = drive[d]]
  /\ Set(d, [state[d] EXCEPT !.drive = drive[d], !.behind = FALSE])
  /\ UNCHANGED <<world, saved, marker, published, cooling, listed, lucky>>

\* Rejected variant of GiveUp: the deck is not marked.
GiveUpSilently ==
  LET d == job.deck IN
  /\ job.at = "pulling" /\ job' = NoJob
  /\ Set(d, [state[d] EXCEPT !.exported = source[d], !.retry = FALSE])
  /\ UNCHANGED listed /\ SaveState
  /\ UNCHANGED <<world, marker, published, cooling, lucky>>

\* ... none came in time: drive_sync_timeout.  The deck is marked and not tried again before
\* its next change.
GiveUp ==
  LET d == job.deck IN
  /\ job.at = "pulling" /\ job' = NoJob
  /\ Set(d, [state[d] EXCEPT !.exported = source[d], !.retry = FALSE, !.behind = TRUE])
  /\ UNCHANGED listed /\ SaveState
  /\ UNCHANGED <<world, marker, published, cooling, lucky>>

\* upload_pdf, in whatever mode, ...
Upload ==
  /\ job.at = "pulled" /\ job' = [job EXCEPT !.at = "uploaded"]
  /\ published' = [published EXCEPT ![job.deck] = job.pdf]
  /\ UNCHANGED <<world, record, cooling, listed, lucky>>

\* ... or it fails, or the push of the current slides after it: a backoff.
Fail ==
  /\ job.at \in {"pulled", "uploaded"} /\ job' = NoJob
  /\ Set(job.deck, [state[job.deck] EXCEPT !.retry = TRUE])
  /\ UNCHANGED listed /\ SaveState
  /\ lucky' = FALSE
  /\ UNCHANGED <<world, marker, published, cooling>>

\* The export is recorded with the time the deck has now, first in the state file, ...
Record ==
  LET d == job.deck IN
  /\ job.at = "uploaded" /\ job' = [job EXCEPT !.at = "recorded", !.pdf = source[d]]
  /\ Set(d, [state[d] EXCEPT !.exported = source[d], !.retry = FALSE])
  /\ UNCHANGED listed /\ SaveState
  /\ UNCHANGED <<world, marker, published, cooling, lucky>>

\* ... then by the marker; Railway is told, and the cooldown begins.
Mark ==
  /\ job.at = "recorded" /\ job' = NoJob
  /\ marker' = [marker EXCEPT ![job.deck] = job.pdf]
  /\ cooling' = TRUE
  /\ UNCHANGED <<world, state, saved, published, listed, lucky>>

\* sync_slides_list: the list is pushed when it is not the one pushed last.
PushList ==
  /\ Idle /\ listed # published /\ listed' = published
  /\ UNCHANGED state /\ SaveState
  /\ UNCHANGED <<world, marker, published, cooling, job, lucky>>

\* The cooldown is over; a backoff is over.
Cooled ==
  /\ cooling /\ cooling' = FALSE
  /\ UNCHANGED <<world, record, published, job, listed, lucky>>

RetryDue(d) ==
  /\ state[d].retry /\ job.deck # d /\ Set(d, [state[d] EXCEPT !.retry = FALSE])
  /\ UNCHANGED <<world, saved, marker, published, cooling, job, listed, lucky>>

\* load_daemon_state: the files and the hash of the list come back, the time of the last
\* export does not.
Restart ==
  /\ state' = saved.files /\ listed' = saved.listed /\ cooling' = FALSE
  /\ job' = NoJob /\ lucky' = (lucky /\ Idle)
  /\ UNCHANGED <<world, saved, marker, published>>

SaveDeck(d) ==
  /\ source[d] < MaxVersion /\ source' = [source EXCEPT ![d] = @ + 1]
  /\ lucky' = (lucky /\ published[d] = source[d] /\ job.deck # d)
  /\ UNCHANGED <<drive, record, published, cooling, job, listed>>

DriveSyncs(d) ==
  /\ drive[d] < source[d] /\ drive' = [drive EXCEPT ![d] = source[d]]
  /\ UNCHANGED <<source, record, published, cooling, job, listed, lucky>>

Init ==
  /\ source = [d \in Decks |-> 0] /\ drive = source
  /\ state = [d \in Decks |-> [exported |-> 0, drive |-> 0, retry |-> FALSE, behind |-> FALSE]]
  /\ marker = source /\ published = source
  /\ cooling = FALSE /\ job = NoJob /\ listed = published /\ lucky = TRUE
  /\ saved = [files |-> state, listed |-> listed]

Next ==
  \/ \E d \in Decks : Take(d) \/ RetryDue(d) \/ SaveDeck(d) \/ DriveSyncs(d)
  \/ Pull \/ GiveUp \/ Upload \/ Fail \/ Record \/ Mark
  \/ PushList \/ Cooled \/ Restart

Spec == Init /\ [][Next]_vars

----------------------------------------------------------------------------
(* Properties                                                               *)

\* The variables have the types the code gives them.
TypeOK ==
  /\ source \in [Decks -> Version] /\ drive \in [Decks -> Version]
  /\ state \in [Decks -> [exported : Version, drive : Version, retry : BOOLEAN,
                          behind : BOOLEAN]]
  /\ marker \in [Decks -> Version] /\ published \in [Decks -> Version]
  /\ cooling \in BOOLEAN /\ lucky \in BOOLEAN
  /\ job \in [deck : Decks \cup {None}, at : {"idle", "pulling", "pulled", "uploaded", "recorded"},
              pdf : Version \cup {None}]

\* A deck that counts as exported is published as it is, or is marked as out of sync, unless
\* something crossed a job: also with Drive behind, jobs given up and restarts in between.
LossesAreKnown ==
  lucky => \A d \in Decks \ Changed :
             published[d] = source[d] \/ state[d].behind \/ job.deck = d

----------------------------------------------------------------------------
(* Promises the code does not keep; TLC shows how                           *)

\* upload.py:182-188, the time recorded is that of the deck that was published: not when it
\* is saved again during the export.
ExportedIsPublished ==
  Idle => \A d \in Decks \ Changed : published[d] = source[d] \/ state[d].behind

\* upload.py:213, one deck at a time, and the others have their turn.
NobodyIsHeldUp ==
  \A d \in Changed : ~state[d].retry => \A e \in Heads : ~state[e].retry

----------------------------------------------------------------------------
(* The inductive invariant behind the theorems of LimitsProofs             *)

Entries == [exported : Version, drive : Version, retry : BOOLEAN, behind : BOOLEAN]

JobTypeOK ==
  \/ Idle
  \/ /\ job \in [deck : Decks, at : {"pulling", "pulled", "uploaded", "recorded"},
                  pdf : Version \cup {None}]
     /\ job.at # "pulling" => job.pdf \in Version

RecordTypeOK ==
  /\ source \in [Decks -> Version] /\ drive \in [Decks -> Version]
  /\ state \in [Decks -> Entries] /\ marker \in [Decks -> Version]
  /\ saved.files \in [Decks -> Entries] /\ saved.listed \in [Decks -> Version]
  /\ listed \in [Decks -> Version] /\ published \in [Decks -> Version]
  /\ cooling \in BOOLEAN /\ lucky \in BOOLEAN

\* The fingerprint is that of what is published, or of what is about to be; Drive has that or
\* what PowerPoint has; and no record is ahead of the deck.
InStep(d) ==
  /\ ~state[d].retry /\ state[d].exported <= source[d] /\ marker[d] <= source[d]
  /\ drive[d] \in {state[d].drive, source[d]}
  /\ job.deck # d \/ job.at = "pulling" => state[d].drive = published[d]
  /\ job.deck = d /\ job.at # "pulling" => job.pdf = source[d] /\ state[d].drive = source[d]
  /\ job.deck = d /\ job.at \in {"uploaded", "recorded"} => published[d] = source[d]

PublishInv ==
  /\ RecordTypeOK /\ JobTypeOK /\ LossesAreKnown
  /\ lucky => /\ \A d \in Decks : InStep(d)
              /\ job.at \notin {"pulled", "uploaded"} => saved.files = state
=============================================================================
