----------------------------- MODULE CodeReview -----------------------------
(***************************************************************************)
(* The code review of the daemon (daemon/codereview/state.py,               *)
(* daemon/codereview/router.py): a snippet, the lines participants select,  *)
(* the lines the host confirms and the points they bring.  A snippet is its *)
(* number of lines, 0 for none.  A handler is one action, but for the       *)
(* creation with smart paste, which awaits a language model: request and    *)
(* answer are two, and anything may happen in between.                      *)
(***************************************************************************)
EXTENDS Activity

CONSTANTS
  Pids,          \* participants, by uuid
  MaxLines,      \* _MAX_LINES
  MaxReviews     \* bound on the reviews ever asked for

ReviewAssumption == IsFiniteSet(Pids) /\ MaxLines \in Nat \ {0} /\ MaxReviews \in Nat

VARIABLES
  size,        \* lines of the snippet
  phase,       \* CodeReviewState.phase
  selected,    \* selections, {} also for no entry
  confirmed,   \* lines confirmed by the host
  pastes,      \* creations that await the language model, numbered as they came
  asked,       \* history: reviews asked for
  paid         \* history: <<participant, line>> awarded in this review, with how often

reviewVars == <<size, phase, selected, confirmed, pastes, asked, paid>>
vars == <<reviewVars, activityVars>>

Lines == 0 .. MaxLines - 1
Nothing == [p \in Pids |-> {}]
Unpaid == [p \in Pids |-> [l \in Lines |-> 0]]

\* Rejected variant of Open: the selections of the last review stay.
OpenKeepsSelections(n) ==
  /\ size' = n /\ phase' = "selecting" /\ confirmed' = {} /\ UNCHANGED selected
  /\ paid' = Unpaid /\ Route("codereview")

\* CodeReviewState.create.
Open(n) ==
  /\ size' = n /\ phase' = "selecting" /\ selected' = Nothing /\ confirmed' = {}
  /\ paid' = Unpaid /\ Route("codereview")

\* POST codereview without smart paste.
Create(n) ==
  /\ asked < MaxReviews /\ asked' = asked + 1
  /\ Open(n) /\ UNCHANGED pastes

\* POST codereview with smart paste: off to the language model, for up to 30 seconds ...
CreateSmart ==
  /\ asked < MaxReviews /\ asked' = asked + 1
  /\ pastes' = pastes \cup {asked + 1}
  /\ UNCHANGED <<size, phase, selected, confirmed, paid, activityVars>>

\* ... and back with the code it found, or the text as it was; too long a one is refused
\* with 400.  What happened since is not looked at.
SmartAnswers(k, n) ==
  /\ pastes' = pastes \ {k} /\ UNCHANGED asked
  /\ IF n <= MaxLines THEN Open(n)
     ELSE UNCHANGED <<size, phase, selected, confirmed, paid, activityVars>>

\* PUT codereview/status with open = false, whatever the phase.
CloseSelection ==
  /\ phase' = "reviewing"
  /\ UNCHANGED <<size, selected, confirmed, pastes, asked, paid, activityVars>>

\* PUT codereview/selection: all of a participant's lines at once; 409 when the review is
\* not the activity or the selection is closed, and lines it does not have are ignored.
Select(p, L) ==
  /\ activity = "codereview" /\ phase = "selecting"
  /\ selected' = [selected EXCEPT ![p] = {l \in L : l < size}]
  /\ UNCHANGED <<size, phase, confirmed, pastes, asked, paid, activityVars>>

\* Rejected variant of ConfirmLine: a confirmed line may be confirmed again.
ConfirmLineAgain(l) ==
  /\ size > 0 /\ l < size
  /\ confirmed' = confirmed \cup {l}
  /\ paid' = [p \in Pids |-> [paid[p] EXCEPT ![l] = IF l \in selected[p] THEN @ + 1 ELSE @]]
  /\ UNCHANGED <<size, phase, selected, pastes, asked, activityVars>>

\* PUT codereview/confirm-line: 200 points to everybody who has it selected now; 409 for a
\* line that is confirmed, 400 for one the snippet does not have.
ConfirmLine(l) ==
  /\ size > 0 /\ l < size /\ l \notin confirmed
  /\ confirmed' = confirmed \cup {l}
  /\ paid' = [p \in Pids |-> [paid[p] EXCEPT ![l] = IF l \in selected[p] THEN @ + 1 ELSE @]]
  /\ UNCHANGED <<size, phase, selected, pastes, asked, activityVars>>

\* DELETE codereview.
ClearReview ==
  /\ size' = 0 /\ phase' = "idle" /\ selected' = Nothing /\ confirmed' = {}
  /\ paid' = Unpaid /\ Route("none") /\ UNCHANGED <<pastes, asked>>

\* purge_participant takes the selection back.
Purge(p) ==
  /\ selected' = [selected EXCEPT ![p] = {}]
  /\ paid' = [paid EXCEPT ![p] = [l \in Lines |-> 0]]
  /\ UNCHANGED <<size, phase, confirmed, pastes, asked, activityVars>>

\* The daemon restarts: the review comes back from the file of the session, requests to
\* the language model do not.
Restart ==
  /\ pastes' = {} /\ ActivityRestored
  /\ UNCHANGED <<size, phase, selected, confirmed, asked, paid>>

Init ==
  /\ size = 0 /\ phase = "idle" /\ selected = Nothing /\ confirmed = {}
  /\ pastes = {} /\ asked = 0 /\ paid = Unpaid /\ ActivityInit

Next ==
  \/ \E n \in 1 .. MaxLines : Create(n)
  \/ CreateSmart
  \/ \E k \in pastes, n \in 1 .. MaxLines + 1 : SmartAnswers(k, n)
  \/ CloseSelection \/ ClearReview \/ Restart
  \/ \E p \in Pids, L \in SUBSET Lines : Select(p, L)
  \/ \E l \in Lines : ConfirmLine(l)
  \/ \E p \in Pids : Purge(p)
  \/ \E a \in {"none", "codereview"} : SetActivity(a) /\ UNCHANGED reviewVars

Spec == Init /\ [][Next]_vars

----------------------------------------------------------------------------
(* Properties                                                               *)

\* The variables have the types the code gives them.
TypeOK ==
  /\ size \in 0 .. MaxLines /\ phase \in {"idle", "selecting", "reviewing"}
  /\ selected \in [Pids -> SUBSET Lines] /\ confirmed \subseteq Lines
  /\ pastes \subseteq 1 .. MaxReviews /\ asked \in 0 .. MaxReviews
  /\ paid \in [Pids -> [Lines -> Nat]]
  /\ ActivityTypeOK

\* Within one review a line is paid to a participant at most once, and only a line that is
\* confirmed; selections and confirmations are lines of the snippet on show, also when a
\* late answer of the language model replaced it.
ReviewPaysOnce ==
  /\ \A p \in Pids, l \in Lines : paid[p][l] <= 1 /\ (paid[p][l] = 1 => l \in confirmed)
  /\ \A p \in Pids : \A l \in selected[p] \cup confirmed : l < size

----------------------------------------------------------------------------
(* A promise the code does not keep; TLC shows how, see the README          *)

\* The review the host asked for last is the one on show: an earlier request that waited
\* for the language model does not replace it.
LatestReviewWins ==
  [][\A k \in pastes : size' # size /\ pastes' = pastes \ {k} => k = asked]_vars

----------------------------------------------------------------------------
(* The inductive invariant behind the theorems of ActivitiesProofs          *)

ReviewTypeOK ==
  /\ size \in 0 .. MaxLines /\ phase \in {"idle", "selecting", "reviewing"}
  /\ selected \in [Pids -> SUBSET Lines] /\ confirmed \subseteq Lines
  /\ paid \in [Pids -> [Lines -> Nat]]
RequestsTypeOK == pastes \subseteq 1 .. MaxReviews /\ asked \in 0 .. MaxReviews

ReviewInv == ReviewTypeOK /\ RequestsTypeOK /\ ReviewPaysOnce
=============================================================================
