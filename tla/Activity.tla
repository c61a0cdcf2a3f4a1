------------------------------ MODULE Activity ------------------------------
(***************************************************************************)
(* The activity everybody is looking at: participant_state.current_activity *)
(* on the daemon, and what the phones were last told of it.  Seven features *)
(* write it; each of their modules extends this one, and takes SetActivity  *)
(* for the host's switch and for the opening of any other feature.          *)
(***************************************************************************)
EXTENDS Integers, FiniteSets

VARIABLES
  activity,    \* current_activity
  announced    \* current_activity of the last activity_updated broadcast

activityVars == <<activity, announced>>

\* _VALID_ACTIVITIES.
Activities == {"none", "quiz", "poll", "wordcloud", "qa", "codereview", "debate", "aishare"}

ActivityTypeOK == activity \in Activities /\ announced \in Activities
ActivityInit == activity = "none" /\ announced = "none"

\* What a handler does that opens or closes a feature: set and broadcast.
Route(a) == activity' = a /\ announced' = a

\* POST or PUT host/activity; any other name is refused with 400.
SetActivity(a) == a \in Activities /\ Route(a)

\* The daemon restarts: what it restores went through _normalize_legacy_participant_maps,
\* which takes "poll" for the former name of the quiz.
ActivityRestored ==
  activity' = (IF activity = "poll" THEN "quiz" ELSE activity) /\ UNCHANGED announced
=============================================================================
