----------------------------- MODULE Migration -----------------------------
(***************************************************************************)
(* The script that renames the poll of a session file to quiz               *)
(* (scripts/migrate_poll_to_quiz.py), beside the daemon that reads files of *)
(* either form (daemon/persisted_models.py).  The script backs the file up, *)
(* which is not atomic, and replaces it, which is; it may be stopped        *)
(* anywhere and run again, and nothing keeps the daemon from saving         *)
(* meanwhile.  The values of a key are a few model values.                  *)
(***************************************************************************)
EXTENDS Integers

CONSTANTS
  Values,    \* what a key may hold
  None,      \* a key that is absent, no file
  Torn,      \* a file that was opened for writing and not yet written
  MaxRuns    \* bound on the runs and the saves

MigrationAssumption == MaxRuns \in Nat \ {0} /\ {None, Torn} \cap Values = {}

VARIABLES
  file,      \* the session file
  bak,       \* its backup
  script,    \* the run under way: its step, what it read, whether it backs up; or None
  runs,
  original,  \* history: what the file was before the script touched it
  raced      \* history: the daemon saved during a run

vars == <<file, bak, script, runs, original, raced>>

Opt == Values \cup {None}

\* The keys it is about; one flat key stands for the five.
Contents ==
  [activity : {"none", "quiz", "poll"}, poll : Opt, quiz : Opt, poll_flat : Opt, quiz_flat : Opt]

First(a, b) == IF a # None THEN a ELSE b

----------------------------------------------------------------------------
(* Pure functions                                                           *)

\* Rejected variant of Transform: of two keys the legacy one wins.
TransformLegacyWins(c) ==
  [activity |-> IF c.activity = "poll" THEN "quiz" ELSE c.activity,
   poll |-> None, quiz |-> First(c.poll, c.quiz),
   poll_flat |-> None, quiz_flat |-> First(c.quiz_flat, c.poll_flat)]

\* transform: of two keys the one of the new form wins.
Transform(c) ==
  [activity |-> IF c.activity = "poll" THEN "quiz" ELSE c.activity,
   poll |-> None, quiz |-> First(c.quiz, c.poll),
   poll_flat |-> None, quiz_flat |-> First(c.quiz_flat, c.poll_flat)]

\* Is there anything to change?
Changes(c) == c.activity = "poll" \/ c.poll # None \/ c.poll_flat # None

\* What the daemon takes a file for: _normalize_legacy_participant_maps.
Loaded(c) ==
  [activity |-> IF c.activity = "poll" THEN "quiz" ELSE c.activity,
   quiz |-> First(c.quiz, c.poll), flat |-> First(c.quiz_flat, c.poll_flat)]

----------------------------------------------------------------------------
(* A run of the script over the file: process_file                          *)

At(step) == script # None /\ script.step = step
Do(step) == script' = [script EXCEPT !.step = step]
More == runs < MaxRuns /\ runs' = runs + 1

Begin(backup) ==
  /\ script = None /\ Changes(file) /\ More
  /\ script' = [step |-> "backup", text |-> file, backup |-> backup]
  /\ UNCHANGED <<file, bak, original, raced>>

\* No backup is asked for, or there is one: it is not written again.
SkipBackup ==
  /\ At("backup") /\ (~script.backup \/ bak # None) /\ Do("replace")
  /\ UNCHANGED <<file, bak, runs, original, raced>>

OpenBackup ==
  /\ At("backup") /\ script.backup /\ bak = None /\ bak' = Torn /\ Do("fill")
  /\ UNCHANGED <<file, runs, original, raced>>

\* Rejected variant of FillBackup: the backup is of what the file becomes.
FillBackupLate ==
  /\ At("fill") /\ bak' = Transform(script.text) /\ Do("replace")
  /\ UNCHANGED <<file, runs, original, raced>>

FillBackup ==
  /\ At("fill") /\ bak' = script.text /\ Do("replace")
  /\ UNCHANGED <<file, runs, original, raced>>

\* A temporary file is written and takes the place of the file.
Replace ==
  /\ At("replace") /\ file' = Transform(script.text) /\ script' = None
  /\ UNCHANGED <<bak, runs, original, raced>>

\* An error of the disk, or Ctrl-C.
Stop ==
  /\ script # None /\ script' = None
  /\ UNCHANGED <<file, bak, runs, original, raced>>

----------------------------------------------------------------------------
(* The daemon, and the trainer                                              *)

\* save_session_state: what is loaded of the file, merged with a quiz of another value.
Save(v) ==
  /\ More
  /\ file' = [activity |-> Loaded(file).activity, poll |-> None, quiz |-> v,
              poll_flat |-> None, quiz_flat |-> None]
  /\ original' = file' /\ raced' = (raced \/ script # None)
  /\ UNCHANGED <<bak, script>>

Init ==
  /\ file \in Contents /\ original = file
  /\ bak = None /\ script = None /\ runs = 0 /\ raced = FALSE

Next ==
  \/ \E backup \in BOOLEAN : Begin(backup)
  \/ SkipBackup \/ OpenBackup \/ FillBackup \/ Replace \/ Stop
  \/ \E v \in Values : Save(v)

Spec == Init /\ [][Next]_vars

----------------------------------------------------------------------------
(* Properties                                                               *)

\* The variables have the types the code gives them.
TypeOK ==
  /\ file \in Contents /\ original \in Contents
  /\ bak \notin {None, Torn} => bak \in Contents
  /\ script # None => script.text \in Contents /\ script.backup \in BOOLEAN

\* migrate_poll_to_quiz.py:5, "rewrites persisted JSON files on disk so the daemon can load
\* them under the new schema": wherever the script was stopped and however often it ran, the
\* daemon loads of the file what it would have loaded without it, and a backup that was
\* written is of a file that had something to migrate.
LoadsTheSame ==
  /\ ~raced => Loaded(file) = Loaded(original)
  /\ bak \notin {None, Torn} => Changes(bak)

----------------------------------------------------------------------------
(* Promises the code does not keep; TLC shows how                           *)

\* A save of the daemon during a run is not lost.
SavesStay == Loaded(file) = Loaded(original)

\* A backup that is there can be restored: one that was cut off is never written again.
BackupIsWhole == bak = Torn => At("fill")

----------------------------------------------------------------------------
(* The inductive invariant behind the theorems of Records                   *)

Runs == [step : {"backup", "fill", "replace"}, text : Contents, backup : BOOLEAN]

MigrationTypeOK ==
  /\ file \in Contents /\ original \in Contents /\ bak \in Contents \cup {None, Torn}
  /\ script \in Runs \cup {None} /\ raced \in BOOLEAN

\* A run is about a file that had something to migrate, and that is as it was unless a save
\* came between.
RunsAreOfTheFile ==
  script # None => Changes(script.text) /\ (~raced => script.text = file)

MigrationInv == MigrationTypeOK /\ RunsAreOfTheFile /\ LoadsTheSame
=============================================================================
