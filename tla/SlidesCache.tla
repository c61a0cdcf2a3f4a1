---------------------------- MODULE SlidesCache -----------------------------
(***************************************************************************)
(* The PDF of one deck on its way from PowerPoint to the phones: Drive      *)
(* exports it some time after a change, Railway keeps a copy                *)
(* (railway/features/slides), and the daemon decides when that copy is      *)
(* downloaded again (daemon/slides/router.py, loop.py, ws_client.py).       *)
(* Participants who ask for the deck and pollers that follow a change of    *)
(* the file download on threads of their own, and a slot per deck is to     *)
(* keep them apart; others ask Railway without a look at it.  Decks do not  *)
(* touch each other, so there is one; what the phones are shown of its      *)
(* status, by broadcasts that change nothing, is left out.                  *)
(***************************************************************************)
EXTENDS Integers, FiniteSets

CONSTANTS
  Pids,
  Pollers,     \* threads of the redownload poller (bound on those that run at once)
  Outsiders,   \* calls from elsewhere: the compilation of the host page, the publisher, the
               \* start of a talk (bound on those that are under way at once)
  None, Failed,
  Attempts,    \* _REDOWNLOAD_MAX_RETRIES
  MaxVersion,  \* bound on the changes of the deck
  MaxPast      \* bound on what goes past the slot: such calls, forced checks, redeploys

CacheAssumption ==
  /\ {Attempts, MaxVersion} \subseteq Nat \ {0} /\ MaxPast \in Nat
  /\ Outsiders \cap (Pids \cup Pollers) = {} /\ Pids \cap Pollers = {}
  /\ None # Failed /\ {None, Failed} \cap Int = {}

Version == 0 .. MaxVersion
Askers == Pids \cup Pollers \cup Outsiders
Out == -1   \* the request is on its way
In == -2    \* it waits for the download

VARIABLES
  source, drive,     \* the deck in PowerPoint, and as Drive exports it
  file, fetching,    \* /tmp/slides-cache and _pending_refresh of Railway
  ask,               \* per asker: no call, Out, In, or its result
  linked,            \* the catalog has a drive_export_url for the deck
  status, sha, noted,        \* slides_updated of the daemon: status, last_sha256, modified_at
  active, pending,   \* the slot, _pending_redownload_slugs
  owed,              \* threads whose _finish_download found a queued redownload
  checks,            \* GET slides/check of each participant
  poller,            \* per poller: the hash before, attempts left, whether it marked the deck
  scan,              \* the scan found the slot taken and has not queued the redownload
  probe,             \* probe_railway_cache: what HEAD said, not yet noted
  past,              \* what has gone past the slot so far
  forced,            \* history: a check with force=true began, and there was no rest since
  beside             \* history: who has not the slot deleted the copy, or a probe ran beside
                     \* who has it, and no download began and no probe was right since

railwayVars == <<file, fetching>>
noteVars == <<status, sha, noted>>
slotVars == <<active, pending, owed>>
workVars == <<checks, poller, scan, probe>>
history == <<past, forced, beside>>
vars == <<source, drive, railwayVars, ask, linked, noteVars, slotVars, workVars, history>>

Result(r) == ask[r] \in Version \cup {Failed}
Idle == [before |-> None, left |-> 0, marked |-> FALSE]

\* The downloads under way: of checks, and of pollers.
Downloads == {p \in Pids : checks[p] \in {"asks", "marked"}}
Polling == {q \in Pollers : poller[q].left > 0}

\* The event loop is not between two steps of one handler that awaits nothing; the pollers
\* and the main loop have threads of their own.
LoopIsFree == "loop" \notin owed /\ \A p \in Pids : checks[p] \notin {"refused", "marked"}

Past == past < MaxPast /\ past' = past + 1

----------------------------------------------------------------------------
(* Railway                                                                  *)

\* POST slides/refresh: who comes while a download runs shares it; else the copy is deleted
\* and the download begins.
Reach(r) ==
  /\ ask[r] = Out /\ ask' = [ask EXCEPT ![r] = In]
  /\ fetching' = TRUE /\ file' = IF fetching THEN file ELSE None
  /\ beside' = (beside \/ (~fetching /\ (r \in Outsiders \/ forced \/ probe # None)))
  /\ UNCHANGED <<source, drive, linked, noteVars, slotVars, workVars, past, forced>>

\* Who waits is answered; a call from elsewhere ends, whatever the answer.
Answered(calls, result) ==
  ask' = [r \in Askers |-> IF ask[r] \notin calls THEN ask[r]
                           ELSE IF r \in Outsiders THEN None ELSE result]

\* do_download: the copy is replaced in one step, and every caller has its answer.
Fetched ==
  /\ fetching /\ fetching' = FALSE /\ file' = drive
  /\ Answered({In}, drive)
  /\ UNCHANGED <<source, drive, linked, noteVars, slotVars, workVars, history>>

\* Drive cannot export it, or answers with something that is no PDF.
FetchFails ==
  /\ fetching /\ fetching' = FALSE /\ Answered({In}, Failed)
  /\ UNCHANGED <<source, drive, file, linked, noteVars, slotVars, workVars, history>>

\* A caller gives up after its 120 seconds; the download goes on.
GivesUp(r) ==
  /\ ask[r] = In /\ ask' = [ask EXCEPT ![r] = IF r \in Outsiders THEN None ELSE Failed]
  /\ UNCHANGED <<source, drive, railwayVars, linked, noteVars, slotVars, workVars, history>>

\* A redeploy: the copies are gone.
RailwayRestarts ==
  /\ Past /\ file' = None /\ fetching' = FALSE /\ beside' = TRUE
  /\ Answered({Out, In}, Failed)
  /\ UNCHANGED <<source, drive, linked, noteVars, slotVars, workVars, forced>>

----------------------------------------------------------------------------
(* The slot                                                                 *)

Asks(r) == ask' = [ask EXCEPT ![r] = Out]

\* _claim_download.
Claim ==
  /\ ~active /\ active' = TRUE /\ UNCHANGED pending
  /\ beside' = (beside /\ (forced \/ probe # None)) /\ UNCHANGED <<past, forced>>

\* _finish_download, called by whoever ends whether it has the slot or not: the slot is free,
\* who waits is woken to answer by the status, and a queued redownload is due.
Woken(cs) == [p \in Pids |-> IF cs[p] = "waits" THEN "none" ELSE cs[p]]
Finish(thread) ==
  /\ active' = FALSE /\ pending' = FALSE
  /\ owed' = IF pending THEN owed \cup {thread} ELSE owed
  /\ forced' = (forced /\ (Downloads \cup Polling)' # {}) /\ UNCHANGED <<past, beside>>

StartPoller ==
  /\ \E q \in Pollers \ Polling :
       poller' = [poller EXCEPT ![q] = [before |-> sha, left |-> Attempts, marked |-> FALSE]]
  /\ status' = "downloading" /\ UNCHANGED <<sha, ask>>

\* _trigger_pending_redownload.
Trigger(thread) ==
  /\ thread \in owed /\ owed' = owed \ {thread}
  /\ \/ active /\ UNCHANGED <<active, pending, poller, status, sha, ask, history>>
     \/ Claim /\ StartPoller
  /\ UNCHANGED <<source, drive, railwayVars, linked, noted, checks, scan, probe>>

----------------------------------------------------------------------------
(* Participants ask for the deck                                            *)

\* A check whose download begins.
Downloading(p) ==
  /\ checks' = [checks EXCEPT ![p] = "asks"] /\ Asks(p) /\ status' = "downloading"
  /\ UNCHANGED <<source, drive, railwayVars, linked, sha, noted, owed, poller, scan, probe>>

\* Rejected variant of Check: the claim is looked at and not taken.
CheckUnclaimed(p) ==
  /\ LoopIsFree /\ checks[p] = "none" /\ linked /\ status # "cached" /\ ~active
  /\ UNCHANGED <<active, pending, history>> /\ Downloading(p)

\* check_slide_cache: what is cached is answered at once and changes nothing.
Check(p) ==
  /\ LoopIsFree /\ checks[p] = "none" /\ linked /\ status # "cached" /\ Claim
  /\ Downloading(p)

\* ... force=true asks nobody.
CheckForced(p) ==
  /\ LoopIsFree /\ checks[p] = "none" /\ linked /\ Past /\ forced' = TRUE
  /\ UNCHANGED <<active, pending, beside>> /\ Downloading(p)

\* ... without a URL to export the deck from it is 404: claimed or forced, _finish_download is
\* called, and what it finds queued is not started.
CheckUnlinked(p) ==
  /\ LoopIsFree /\ checks[p] = "none" /\ ~linked
  /\ active' = FALSE /\ pending' = FALSE /\ checks' = Woken(checks)
  /\ UNCHANGED <<source, drive, railwayVars, ask, linked, noteVars, owed, poller, scan, probe,
                 history>>

\* ... the slot is taken: _get_wait_event is looked up next, and a poller may end meanwhile.
CheckRefused(p) ==
  /\ LoopIsFree /\ checks[p] = "none" /\ status # "cached" /\ active
  /\ checks' = [checks EXCEPT ![p] = "refused"]
  /\ UNCHANGED <<source, drive, railwayVars, ask, linked, noteVars, slotVars, poller, scan,
                 probe, history>>

Await(p) ==
  /\ checks[p] = "refused" /\ checks' = [checks EXCEPT ![p] = "waits"]
  /\ UNCHANGED <<source, drive, railwayVars, ask, linked, noteVars, slotVars, poller, scan,
                 probe, history>>

\* The download of a check has ended: first the status, ...
CheckMarks(p) ==
  /\ LoopIsFree /\ checks[p] = "asks" /\ Result(p)
  /\ checks' = [checks EXCEPT ![p] = "marked"] /\ ask' = [ask EXCEPT ![p] = None]
  /\ \/ ask[p] = Failed /\ status' = "download_failed" /\ UNCHANGED sha
     \/ ask[p] # Failed /\ status' = "cached" /\ sha' = ask[p]
  /\ UNCHANGED <<source, drive, railwayVars, linked, noted, slotVars, poller, scan, probe,
                 history>>

\* ... then the slot; other threads may come in between.
CheckEnds(p) ==
  /\ checks[p] = "marked" /\ checks' = [Woken(checks) EXCEPT ![p] = "none"]
  /\ UNCHANGED poller /\ Finish("loop")
  /\ UNCHANGED <<source, drive, railwayVars, ask, linked, noteVars, scan, probe>>

----------------------------------------------------------------------------
(* A change of the deck                                                     *)

\* scan_pptx_mtimes: the change is noted; a cached deck is downloaded again, now or after
\* the download that runs.
Scan ==
  /\ ~scan /\ noted # source /\ noted' = source
  /\ \/ /\ status # "cached" \/ ~linked
        /\ UNCHANGED <<active, pending, poller, scan, status, sha, ask, history>>
     \/ /\ status = "cached" /\ linked /\ Claim /\ StartPoller /\ UNCHANGED scan
     \/ /\ status = "cached" /\ linked /\ active /\ scan' = TRUE
        /\ UNCHANGED <<active, pending, poller, status, sha, ask, history>>
  /\ UNCHANGED <<source, drive, railwayVars, linked, owed, checks, probe>>

ScanQueues ==
  /\ scan /\ scan' = FALSE /\ pending' = TRUE
  /\ UNCHANGED <<source, drive, railwayVars, ask, linked, noteVars, active, owed, checks, poller,
                 probe, history>>

\* _run_redownload_poller, after its delays: an attempt, ...
PollerAsks(q) ==
  /\ q \in Polling /\ ~poller[q].marked /\ ask[q] = None /\ Asks(q)
  /\ UNCHANGED <<source, drive, railwayVars, linked, noteVars, slotVars, workVars, history>>

\* ... which brought something new: the status, ...
PollerMarks(q) ==
  /\ Result(q) /\ ask[q] \notin {Failed, poller[q].before}
  /\ ask' = [ask EXCEPT ![q] = None] /\ status' = "cached" /\ sha' = ask[q]
  /\ poller' = [poller EXCEPT ![q].marked = TRUE]
  /\ UNCHANGED <<source, drive, railwayVars, linked, noted, slotVars, checks, scan, probe,
                 history>>

\* ... then the slot; or it was the last one, and failed or brought the old deck, ...
InVain(q) == Result(q) /\ ask[q] \in {Failed, poller[q].before}
PollerEnds(q) ==
  /\ poller[q].marked \/ (InVain(q) /\ poller[q].left = 1)
  /\ ask' = [ask EXCEPT ![q] = None] /\ poller' = [poller EXCEPT ![q] = Idle]
  /\ checks' = Woken(checks) /\ Finish(q)
  /\ UNCHANGED <<source, drive, railwayVars, linked, noteVars, scan, probe>>

\* ... or not the last one: again.
PollerRetries(q) ==
  /\ InVain(q) /\ poller[q].left > 1
  /\ poller' = [poller EXCEPT ![q].left = @ - 1] /\ ask' = [ask EXCEPT ![q] = None]
  /\ UNCHANGED <<source, drive, railwayVars, linked, noteVars, slotVars, checks, scan, probe,
                 history>>

----------------------------------------------------------------------------
(* Who asks past the slot; the link, restarts, the world                    *)

\* The publisher, who has put a new PDF on Drive, and the start of a talk have the copy
\* refreshed, whatever its status is.
Refresh(r) ==
  /\ linked /\ ask[r] = None /\ Asks(r) /\ Past
  /\ UNCHANGED <<source, drive, railwayVars, linked, noteVars, slotVars, workVars, forced,
                 beside>>

\* get_slides_compilation does for a deck that is not cached.
Prefetch(r) == LoopIsFree /\ status # "cached" /\ Refresh(r)

\* probe_railway_cache on a new link: HEAD, and the status by it.
Probe ==
  /\ probe = None /\ probe' = IF file = None THEN "not_cached" ELSE "cached"
  /\ UNCHANGED <<source, drive, railwayVars, ask, linked, noteVars, slotVars, checks, poller,
                 scan, history>>

ProbeEnds ==
  /\ probe # None /\ probe' = None /\ status' = probe
  /\ beside' = IF active THEN beside \/ probe = "cached"
               ELSE beside /\ (forced \/ (probe = "cached" /\ file = None))
  /\ UNCHANGED <<source, drive, railwayVars, ask, linked, sha, noted, slotVars, checks, poller,
                 scan, past, forced>>

\* The daemon starts anew: the catalog is read, with the times of the files as they are.
DaemonRestarts ==
  /\ linked' \in BOOLEAN /\ status' = "not_cached" /\ sha' = None /\ noted' = source
  /\ active' = FALSE /\ pending' = FALSE /\ owed' = {}
  /\ checks' = [p \in Pids |-> "none"] /\ poller' = [q \in Pollers |-> Idle]
  /\ scan' = FALSE /\ probe' = None /\ forced' = FALSE /\ beside' = FALSE
  /\ ask' = [r \in Askers |-> IF r \in Outsiders THEN ask[r] ELSE None]
  /\ UNCHANGED <<source, drive, railwayVars, past>>

\* The trainer saves the deck; Drive exports what it has of it later.
Save ==
  /\ source < MaxVersion /\ source' = source + 1
  /\ UNCHANGED <<drive, railwayVars, ask, linked, noteVars, slotVars, workVars, history>>

DriveSyncs ==
  /\ drive < source /\ drive' = source
  /\ UNCHANGED <<source, railwayVars, ask, linked, noteVars, slotVars, workVars, history>>

Init ==
  /\ source = 0 /\ drive = 0 /\ file \in {0, None} /\ fetching = FALSE
  /\ ask = [r \in Askers |-> None] /\ linked \in BOOLEAN
  /\ status = "not_cached" /\ sha = None /\ noted = source
  /\ active = FALSE /\ pending = FALSE /\ owed = {}
  /\ checks = [p \in Pids |-> "none"] /\ poller = [q \in Pollers |-> Idle]
  /\ scan = FALSE /\ probe = None /\ past = 0 /\ forced = FALSE /\ beside = FALSE

Railway ==
  \/ \E r \in Askers : Reach(r) \/ GivesUp(r)
  \/ Fetched \/ FetchFails \/ RailwayRestarts

Checking ==
  \E p \in Pids :
    \/ Check(p) \/ CheckForced(p) \/ CheckUnlinked(p) \/ CheckRefused(p)
    \/ Await(p) \/ CheckMarks(p) \/ CheckEnds(p)

Following ==
  \/ Scan \/ ScanQueues
  \/ \E q \in Pollers : PollerAsks(q) \/ PollerMarks(q) \/ PollerEnds(q) \/ PollerRetries(q)
  \/ \E thread \in Pollers \cup {"loop"} : Trigger(thread)

Others ==
  \/ \E r \in Outsiders : Refresh(r) \/ Prefetch(r)
  \/ Probe \/ ProbeEnds \/ DaemonRestarts \/ Save \/ DriveSyncs

Next == Railway \/ Checking \/ Following \/ Others

Spec == Init /\ [][Next]_vars

----------------------------------------------------------------------------
(* Properties                                                               *)

Statuses == {"not_cached", "downloading", "cached", "download_failed"}

\* The variables have the types the code gives them.
TypeOK ==
  /\ source \in Version /\ drive \in Version
  /\ file \in Version \cup {None} /\ fetching \in BOOLEAN /\ linked \in BOOLEAN
  /\ \A r \in Askers : ask[r] \in {None, Out, In, Failed} \cup Version
  /\ status \in Statuses /\ sha \in Version \cup {None} /\ noted \in Version
  /\ active \in BOOLEAN /\ pending \in BOOLEAN /\ owed \subseteq Pollers \cup {"loop"}
  /\ checks \in [Pids -> {"none", "refused", "waits", "asks", "marked"}]
  /\ poller \in [Pollers ->
       [before : Version \cup {None}, left : 0 .. Attempts, marked : BOOLEAN]]
  /\ scan \in BOOLEAN /\ probe \in {None, "not_cached", "cached"}
  /\ past \in 0 .. MaxPast /\ forced \in BOOLEAN /\ beside \in BOOLEAN

\* The slot is taken only while somebody downloads, so that it does not stay taken; and but
\* for checks with force=true, and whoever starts before the last of them is over,
\* participants' downloads, the poller of a change and the redownload queued behind either
\* never run two at a time.
OneDownload ==
  /\ active => Downloads \cup Polling # {}
  /\ ~forced => Cardinality(Downloads) + Cardinality(Polling) = IF active THEN 1 ELSE 0

\* What the daemon answers "cached" for at once is there to be downloaded, while changes are
\* followed, downloads fail or are given up and the daemon restarts; unless who has not the
\* slot deleted the copy and neither a claim, a right probe nor a restart came since.
CachedIsThere == ~beside /\ status = "cached" => file # None

----------------------------------------------------------------------------
(* Promises the code does not keep; TLC shows how                           *)

\* slides/router.py:26, "single source of truth" for every download.
SlotIsTheTruth == Cardinality(Downloads) + Cardinality(Polling) <= 1

\* slides/loop.py:151, the daemon "has an accurate picture of what Railway currently has".
PictureIsAccurate == status = "cached" /\ ~fetching => file # None

\* slides/router.py:53, "wake any async waiters".
NobodyWaitsInVain == ~active => \A p \in Pids : checks[p] # "waits"

\* slides/router.py:71, "redownload after the current in-flight download completes".
QueuedIsServed == pending => active

\* slides/loop.py:175, a changed deck is downloaded again until Drive has published it.
ChangesAreFollowed ==
  linked /\ status = "cached" /\ noted = source /\ ~scan /\ ~pending /\ owed = {} /\ file # None
    => file = source

----------------------------------------------------------------------------
(* The inductive invariant behind the theorems of LimitsProofs              *)

Calls == {None, Out, In, Failed} \cup Version

CacheTypeOK ==
  /\ source \in Version /\ drive \in Version /\ sha \in Version \cup {None}
  /\ ask \in [Askers -> Calls]
  /\ checks \in [Pids -> {"none", "refused", "waits", "asks", "marked"}]
  /\ poller \in [Pollers ->
       [before : Version \cup {None}, left : 0 .. Attempts, marked : BOOLEAN]]

\* Who waits for Railway is under way and has not marked the deck yet; who has, still is.
CallsAreUnderWay ==
  /\ \A p \in Pids : ask[p] # None => checks[p] = "asks"
  /\ \A q \in Pollers : /\ ask[q] # None => ~poller[q].marked
                        /\ ask[q] # None \/ poller[q].marked => q \in Polling

\* The slot is taken for one download, a check's or a poller's.
SlotIsForOne ==
  /\ active <=> Downloads \cup Polling # {}
  /\ \A x, y \in Downloads \cup Polling : x = y

CacheInv ==
  /\ CacheTypeOK /\ CallsAreUnderWay
  /\ active => Downloads \cup Polling # {}
  /\ ~forced => SlotIsForOne
  /\ ~linked => Downloads \cup Polling = {} /\ owed = {}

\* Who has the slot finds a deck that is not "cached" until it marks it; who has an answer, or
\* what a probe saw, has the copy behind it.
CopyIsBehindIt ==
  /\ ~forced /\ status = "cached" =>
       /\ \A p \in Downloads : checks[p] = "marked"
       /\ \A q \in Polling : poller[q].marked
  /\ probe # None /\ probe = "cached" => file # None
  /\ \A r \in Pids \cup Pollers : ask[r] \in Version => file # None

CopyInv == CachedIsThere /\ (~beside => CopyIsBehindIt)
=============================================================================
