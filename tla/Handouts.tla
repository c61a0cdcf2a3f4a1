------------------------------ MODULE Handouts ------------------------------
(***************************************************************************)
(* The small services of daemon/misc: texts pasted for the host, bug        *)
(* reports mailed to the trainer, and the feedback form whose link is on    *)
(* every page, with its marker file in the session folder                   *)
(* (daemon/misc/router.py, state.py, feedback_form.py).  Publishing and     *)
(* retracting the form wait for the disk in a thread, and the session may   *)
(* change meanwhile.                                                        *)
(***************************************************************************)
EXTENDS Integers, FiniteSets, Sequences

CONSTANTS
  Sessions, Links, None,
  MaxPastes,     \* 10
  MaxReports,    \* MAX_BUG_REPORTS_PER_PARTICIPANT
  MinGap,        \* MIN_SECONDS_BETWEEN_BUG_REPORTS, in ticks
  MaxTexts       \* bound on the pastes made

HandoutsAssumption == {MaxPastes, MaxReports, MinGap, MaxTexts} \subseteq Nat \ {0}

VARIABLES
  session,
  texts, made,       \* paste_texts of a participant; pastes made so far (their ids)
  reports, age,      \* bug_reports_sent: how many; ticks since the last one, at most MinGap
  gap,               \* history: the shortest time between two mails of this session
  url,               \* get_feedback_url()
  page,              \* what the room's pages show
  marker,            \* feedback-form.json of each session
  jobs,              \* publishing and retracting, waiting for the disk
  mixed              \* history: two of them overlapped, or the session changed under one,
                     \* or the disk refused

pasteVars == <<texts, made>>
mailVars == <<reports, age, gap>>
formVars == <<url, page, marker, jobs, mixed>>
vars == <<session, pasteVars, mailVars, formVars>>

----------------------------------------------------------------------------
(* Pastes and bug reports                                                   *)

\* POST paste: ten at a time.
Paste ==
  /\ made < MaxTexts /\ Cardinality(texts) < MaxPastes
  /\ made' = made + 1 /\ texts' = texts \cup {made'}
  /\ UNCHANGED <<session, mailVars, formVars>>

\* dismiss_paste, by the id that the host's page shows.
Dismiss(id) ==
  /\ texts' = texts \ {id}
  /\ UNCHANGED <<session, made, mailVars, formVars>>

\* Rejected variant of Report: the clock is read from the first report.
ReportEager ==
  /\ reports < MaxReports
  /\ reports' = reports + 1 /\ age' = 0
  /\ gap' = IF reports > 0 /\ age < gap THEN age ELSE gap
  /\ UNCHANGED <<session, pasteVars, formVars>>

\* POST misc/bug-report within its limits; only a mail that was accepted counts.
Report ==
  /\ reports < MaxReports /\ (reports > 0 => age >= MinGap)
  /\ reports' = reports + 1 /\ age' = 0
  /\ gap' = IF reports > 0 /\ age < gap THEN age ELSE gap
  /\ UNCHANGED <<session, pasteVars, formVars>>

Tick ==
  /\ age < MinGap /\ age' = age + 1
  /\ UNCHANGED <<session, pasteVars, reports, gap, formVars>>

----------------------------------------------------------------------------
(* The feedback form                                                        *)

Begins(kind, link) ==
  /\ \A j \in jobs : j.kind # kind
  /\ jobs' = jobs \cup {[kind |-> kind, link |-> link, folder |-> session, saved |-> FALSE]}
  /\ mixed' = (mixed \/ jobs # {})

\* POST feedback-form: the marker is written in a thread ...
Publish(link) ==
  /\ Begins("publish", link)
  /\ UNCHANGED <<session, pasteVars, mailVars, url, page, marker>>

\* DELETE feedback-form: memory and pages first, then the thread removes the marker.
Retract ==
  /\ Begins("retract", None) /\ url' = None /\ page' = None
  /\ UNCHANGED <<session, pasteVars, mailVars, marker>>

\* Rejected variant of Disk: the marker is left where it is.
DiskKeepsMarker(j) ==
  /\ ~j.saved
  /\ marker' = IF j.kind = "retract" THEN marker ELSE [marker EXCEPT ![j.folder] = j.link]
  /\ jobs' = (jobs \ {j}) \cup {[j EXCEPT !.saved = TRUE]}
  /\ UNCHANGED <<session, pasteVars, mailVars, url, page, mixed>>

\* The thread is done with the marker of the folder it was given.
Disk(j) ==
  /\ ~j.saved /\ marker' = [marker EXCEPT ![j.folder] = j.link]
  /\ jobs' = (jobs \ {j}) \cup {[j EXCEPT !.saved = TRUE]}
  /\ UNCHANGED <<session, pasteVars, mailVars, url, page, mixed>>

\* The disk refuses: the request fails, and the marker stays as it was.
DiskFails(j) ==
  /\ ~j.saved /\ jobs' = jobs \ {j} /\ mixed' = TRUE
  /\ UNCHANGED <<session, pasteVars, mailVars, url, page, marker>>

\* ... and the handler goes on: a published link is kept and shown.
Answer(j) ==
  /\ j.saved /\ jobs' = jobs \ {j}
  /\ IF j.kind = "publish" THEN url' = j.link /\ page' = j.link ELSE UNCHANGED <<url, page>>
  /\ UNCHANGED <<session, pasteVars, mailVars, marker, mixed>>

----------------------------------------------------------------------------
(* Sessions and restarts                                                    *)

\* The session changes: pastes and reports start anew (a folder entered again restores its
\* pastes, see SessionFile), the link is the one of the marker, and its room loads the page.
Enter(s) ==
  /\ s # session /\ session' = s
  /\ texts' = {} /\ reports' = 0 /\ gap' = MinGap
  /\ url' = marker[s] /\ page' = marker[s]
  /\ mixed' = (mixed \/ jobs # {})
  /\ UNCHANGED <<made, age, marker, jobs>>

\* A restart of the daemon: the form is read back, the reports are forgotten; the page is
\* not told, it asks when it reconnects.
Restart ==
  /\ jobs' = {} /\ reports' = 0 /\ gap' = MinGap
  /\ url' = marker[session] /\ page' = marker[session]
  /\ UNCHANGED <<session, pasteVars, age, marker, mixed>>

Init ==
  /\ session \in Sessions
  /\ texts = {} /\ made = 0 /\ reports = 0 /\ age = MinGap /\ gap = MinGap
  /\ url = None /\ page = None /\ marker = [s \in Sessions |-> None] /\ jobs = {}
  /\ mixed = FALSE

Posting ==
  \/ Paste \/ (\E id \in texts : Dismiss(id)) \/ Report \/ Tick

Form ==
  \/ \E l \in Links : Publish(l)
  \/ Retract
  \/ \E j \in jobs : Disk(j) \/ DiskFails(j) \/ Answer(j)

Next == Posting \/ Form \/ (\E s \in Sessions : Enter(s)) \/ Restart

Spec == Init /\ [][Next]_vars

----------------------------------------------------------------------------
(* Properties                                                               *)

\* The variables have the types the code gives them.
TypeOK ==
  /\ session \in Sessions /\ texts \subseteq 1 .. made /\ Cardinality(texts) <= MaxPastes
  /\ reports \in 0 .. MaxReports /\ {age, gap} \subseteq 0 .. MinGap
  /\ {url, page} \subseteq Links \cup {None} /\ marker \in [Sessions -> Links \cup {None}]
  /\ \A j \in jobs : j.kind \in {"publish", "retract"} /\ j.folder \in Sessions

\* feedback_form.py:36-41, a retracted link does not come back with a restart and a published
\* one is not lost: once nothing is under way the room shows what the folder keeps.
FormSurvives ==
  jobs = {} /\ ~mixed => /\ url = marker[session]
                         /\ page = url

\* misc/router.py:151-154, the inbox is not flooded: two mails of a participant are a gap apart.
MailsKeepApart == gap >= MinGap

----------------------------------------------------------------------------
(* Promises the code does not keep; TLC shows how                           *)

\* misc/router.py:556-565: the link goes to the room it was published for, also when the
\* session changes while the marker is written.
FormStaysHome ==
  [][\A j \in jobs : Answer(j) /\ j.kind = "publish" => j.folder = session]_vars

\* ... and what the room shows is what a restart brings back, whoever retracts meanwhile.
AlwaysSurvives == jobs = {} => url = marker[session]

----------------------------------------------------------------------------
(* The inductive invariant behind the theorems of LimitsProofs              *)

FormTypeOK ==
  /\ session \in Sessions /\ {url, page} \subseteq Links \cup {None}
  /\ marker \in [Sessions -> Links \cup {None}] /\ mixed \in BOOLEAN
  /\ jobs \subseteq [kind : {"publish", "retract"}, link : Links \cup {None},
                    folder : Sessions, saved : BOOLEAN]
  /\ \A j \in jobs : j.kind = "retract" => j.link = None

PastesTypeOK == made \in Nat /\ texts \subseteq 1 .. made /\ Cardinality(texts) <= MaxPastes

MailsInv ==
  /\ reports \in 0 .. MaxReports /\ age \in 0 .. MinGap /\ gap \in 0 .. MinGap
  /\ MailsKeepApart

\* While nothing crosses, one of them is under way at a time, in the session that is on: what
\* a retraction has taken from the pages stays away, and what is saved is what will be shown.
OneWaitsForTheDisk ==
  ~mixed =>
    /\ \A i, j \in jobs : i = j
    /\ \A j \in jobs : /\ j.folder = session
                      /\ (j.kind = "retract" => url = None /\ page = None)
                      /\ (j.saved => marker[session] = j.link)

HandoutsInv == PastesTypeOK /\ MailsInv /\ FormTypeOK /\ OneWaitsForTheDisk /\ FormSurvives
=============================================================================
