-------------------------- MODULE SessionLifecycle --------------------------
(***************************************************************************)
(* How the daemon starts, resumes, persists, ends and recovers a session   *)
(* and tells Railway about it (daemon/session/router.py,                   *)
(* daemon/session/pending.py, daemon/session_state.py and the main loop of *)
(* daemon/__main__.py).                                                    *)
(*                                                                         *)
(* Three threads meet here: the REST handlers put a request in a slot and  *)
(* announce the new id at once, the main loop takes the request and        *)
(* changes memory and disk, and the thread of the WebSocket re-announces   *)
(* the running session whenever it has connected.  They share the session  *)
(* variables without a lock.  Railway is reduced to the session id it      *)
(* serves and the announcements on their way to it; Gateway has the rest.  *)
(*                                                                         *)
(* The content of a session is a set of tokens <<kind, id>>: an activity   *)
(* of that kind holds something a phone of session id said.  The quiz is   *)
(* saved like every other kind and is the one that is never restored.      *)
(***************************************************************************)
EXTENDS Naturals, Sequences, FiniteSets, TLC

CONSTANTS
  Folders,      \* session folders, by name
  Ids,          \* the session ids there are to generate
  Kinds,        \* the activities in play, of "quiz" and others
  Today,        \* the folder dated today that find_session_folder returns, or None
  PageFlow,     \* TRUE: one host who uses the landing page and waits for it
  FreshNames,   \* TRUE: a new session is never given an existing folder
  MaxRequests,  \* bound on the requests of the host
  MaxOutages,   \* bound on the losses of the link and the restarts of the daemon
  MaxRestarts,  \* bound on the restarts of Railway
  MaxMidnights, \* bound on the midnights that pass
  None

\* The requests of the host; a resume is queued as a create with the folder's id.
End == [action |-> "end"]
Create(f, i) == [action |-> "create", folder |-> f, id |-> i]
Creates == {Create(f, i) : f \in Folders, i \in Ids}
Requests == {End} \cup Creates

ASSUME SessionAssumption ==
  /\ Today \in Folders \cup {None}
  /\ None \notin Folders \cup Ids \cup {"idle", "start"}
  /\ None \notin Requests
  /\ Ids \cap {"idle", "start"} = {}
  /\ {PageFlow, FreshNames} \subseteq BOOLEAN
  /\ {MaxRequests, MaxOutages, MaxRestarts, MaxMidnights} \subseteq Nat

VARIABLES
  slot,    \* session.pending: at most one request, the last one put
  resume,  \* a POST /resume that waits for Google Drive, or None
  used,    \* the ids generated so far
  name,    \* session_name of the main loop
  id,      \* _active_session_id of the main loop
  overdue, \* _active_since is before today
  main,    \* what the main loop still has to do for the request it took
  cache,   \* the activity state in memory
  link,    \* the WebSocket: "up", "dead" (lost, not noticed yet) or "down"
  sync,    \* _sync_session_on_reconnect: "idle", "start" or the id it read
  call,    \* a participant's call on its way to the daemon, or None
  up,      \* announcements on their way to Railway
  rid,     \* state.session_id of Railway
  fid,     \* session_id in each folder's session-state.json
  data,    \* the activities in each folder's session-state.json
  gid,     \* active_session_id in global-state.json
  gOld,    \* active_since in global-state.json is before today
  crossed, \* the announcement sent last was of an id no longer active
  budget   \* what is left of the bounds

hostVars   == <<slot, resume, used>>
memoryVars == <<name, id, overdue, cache>>
linkVars   == <<link, sync, up, crossed>>
diskVars   == <<fid, data, gid, gOld>>
vars == <<hostVars, memoryVars, main, linkVars, call, rid, diskVars, budget>>

----------------------------------------------------------------------------
(* Helpers                                                                 *)

Tokens == Kinds \X Ids

\* What _apply_runtime_snapshot_restore brings back: all but the quiz.
Restored(tokens) == {t \in tokens : t[1] # "quiz"}

\* Rejected variant of Load: the memory starts empty.
LoadNothing(f) == {}

\* load_session_state and its restore into the memory.
Load(f) == Restored(data[f])

Spend(what) ==
  /\ budget[what] > 0
  /\ budget' = [budget EXCEPT ![what] = @ - 1]

\* announce_session_id and announce_session_cleared: sent only over a link
\* the daemon believes in, lost when that link is dead.
Announce(i, stale) ==
  IF link = "up"
    THEN up' = Append(up, i) /\ crossed' = stale
    ELSE UNCHANGED <<up, crossed>>

Prefixes(s) == {SubSeq(s, 1, n) : n \in 0..Len(s)}

Init ==
  /\ slot = None /\ resume = None /\ used = {}
  /\ name = None /\ id = None /\ overdue = FALSE /\ cache = {}
  /\ main = "idle"
  /\ link = "up" /\ sync = "idle" /\ up = <<>> /\ crossed = FALSE
  /\ call = None /\ rid = None
  /\ fid = [f \in Folders |-> None]
  /\ data = [f \in Folders |-> {}]
  /\ gid = None /\ gOld = FALSE
  /\ budget = [requests |-> MaxRequests, outages |-> MaxOutages,
               restarts |-> MaxRestarts, midnights |-> MaxMidnights]

----------------------------------------------------------------------------
(* The host, through the REST handlers                                     *)

\* One host at the landing page: it shows /api/session/active, and nothing
\* that was asked before is still under way.
Patient == slot = None /\ resume = None /\ main = "idle"
MayStart == PageFlow => Patient /\ id = None
MayEnd == PageFlow => Patient /\ id # None

\* start_session, from the moment Google Drive has answered.
HostCreates(f, i) ==
  /\ MayStart
  /\ FreshNames => fid[f] = None
  /\ i \notin used
  /\ Spend("requests")
  /\ used' = used \cup {i}
  /\ slot' = Create(f, i)
  /\ Announce(i, FALSE)
  /\ UNCHANGED <<resume, memoryVars, main, link, sync, call, rid, diskVars>>

\* resume_session up to the wait: the folder keeps its id, or gets one.
HostResumes(f, i) ==
  /\ MayStart
  /\ resume = None
  /\ IF fid[f] = None THEN i \notin used ELSE i = fid[f]
  /\ Spend("requests")
  /\ used' = used \cup {i}
  /\ resume' = Create(f, i)
  /\ UNCHANGED <<slot, memoryVars, main, linkVars, call, rid, diskVars>>

\* resume_session after the wait; without Google Drive it gives up (503).
ResumeAnswers ==
  /\ resume # None
  /\ slot' = resume
  /\ Announce(resume.id, FALSE)
  /\ resume' = None
  /\ UNCHANGED <<used, memoryVars, main, link, sync, call, rid, diskVars, budget>>

ResumeFails ==
  /\ resume # None
  /\ resume' = None
  /\ UNCHANGED <<slot, used, memoryVars, main, linkVars, call, rid, diskVars, budget>>

HostEnds ==
  /\ MayEnd
  /\ Spend("requests")
  /\ slot' = End
  /\ UNCHANGED <<resume, used, memoryVars, main, linkVars, call, rid, diskVars>>

----------------------------------------------------------------------------
(* The main loop.  It does nothing while the link is known to be down.     *)

Looping == main = "idle" /\ link # "down"

\* "create": the id at once, the folder's own id only if it has none, and a
\* fresh memory only if no session is running.
MainCreates ==
  /\ Looping
  /\ slot # None /\ slot # End
  /\ LET f == slot.folder IN
     /\ id' = slot.id
     /\ overdue' = FALSE
     /\ fid' = IF fid[f] = None THEN [fid EXCEPT ![f] = slot.id] ELSE fid
     /\ IF name = None
          THEN name' = f /\ cache' = Load(f)
          ELSE UNCHANGED <<name, cache>>
  /\ slot' = None
  /\ main' = "announce"
  /\ UNCHANGED <<resume, used, linkVars, call, rid, data, gid, gOld, budget>>

MainAnnounces ==
  /\ main = "announce"
  /\ Announce(id, FALSE)
  /\ main' = "save"
  /\ UNCHANGED <<hostVars, memoryVars, link, sync, call, rid, diskVars, budget>>

\* Rejected variant of MainSaves: the switch is saved with the next poll.
MainSavesWithThePoll ==
  /\ main = "save"
  /\ main' = "idle"
  /\ UNCHANGED <<hostVars, memoryVars, linkVars, call, rid, diskVars, budget>>

\* The forced flush of global-state.json that ends a create.
MainSaves ==
  /\ main = "save"
  /\ gid' = id /\ gOld' = overdue
  /\ main' = "idle"
  /\ UNCHANGED <<hostVars, memoryVars, linkVars, call, rid, fid, data, budget>>

\* Rejected variant of DayIsOver: a session lasts until the host ends it.
DayIsNeverOver == FALSE

\* session_day_is_over, asked when the slot is empty.
DayIsOver == slot = None /\ name # None /\ overdue

\* "end", asked for or because the day is over: the snapshot and the global
\* state are flushed, the memory of the activities stays as it is.
MainEnds ==
  /\ Looping
  /\ slot = End \/ DayIsOver
  /\ slot' = None
  /\ IF name = None
       THEN UNCHANGED <<name, id, data, gid, gOld, main>>
       ELSE /\ data' = [data EXCEPT ![name] = cache]
            /\ name' = None /\ id' = None
            /\ gid' = None /\ gOld' = FALSE
            /\ main' = "clear"
  /\ UNCHANGED <<resume, used, overdue, cache, linkVars, call, rid, fid, budget>>

MainClears ==
  /\ main = "clear"
  /\ Announce(None, FALSE)
  /\ main' = "idle"
  /\ UNCHANGED <<hostVars, memoryVars, link, sync, call, rid, diskVars, budget>>

\* The poll of every 3 seconds: both backups, when they have changed.
Persist ==
  /\ Looping
  /\ gid' = id
  /\ gOld' = IF id = None THEN FALSE ELSE overdue
  /\ data' = IF name = None THEN data ELSE [data EXCEPT ![name] = cache]
  /\ <<gid', gOld', data'>> # <<gid, gOld, data>>
  /\ UNCHANGED <<hostVars, memoryVars, main, linkVars, call, rid, fid, budget>>

Midnight ==
  /\ Spend("midnights")
  /\ overdue' = TRUE
  /\ gOld' = (gid # None)
  /\ UNCHANGED <<hostVars, name, id, cache, main, linkVars, call, rid, fid, data, gid>>

----------------------------------------------------------------------------
(* The participants                                                        *)

\* A call of a phone of the served session leaves Railway ...
PhoneCalls(k) ==
  /\ link = "up" /\ rid # None
  /\ call = None
  /\ <<k, rid>> \notin cache
  /\ call' = <<k, rid>>
  /\ UNCHANGED <<hostVars, memoryVars, main, linkVars, rid, diskVars, budget>>

\* ... and changes the memory of the daemon, which does not ask for which
\* session it was made.
CallLands ==
  /\ call # None
  /\ cache' = cache \cup {call}
  /\ call' = None
  /\ UNCHANGED <<hostVars, name, id, overdue, main, linkVars, rid, diskVars, budget>>

----------------------------------------------------------------------------
(* The link and Railway                                                    *)

\* Rejected variants of SyncReads: nothing is announced again; the name of the
\* folder is taken for the id.
SyncReadsNothing ==
  /\ sync = "start"
  /\ sync' = "idle"
  /\ UNCHANGED <<hostVars, memoryVars, main, link, up, crossed, call, rid, diskVars, budget>>
SyncReadsName ==
  /\ sync = "start"
  /\ sync' = IF name = None THEN "idle" ELSE name
  /\ UNCHANGED <<hostVars, memoryVars, main, link, up, crossed, call, rid, diskVars, budget>>

\* _sync_session_on_reconnect: read, then send, with no lock around the two.
SyncReads ==
  /\ sync = "start"
  /\ sync' = IF name = None \/ id = None THEN "idle" ELSE id
  /\ UNCHANGED <<hostVars, memoryVars, main, link, up, crossed, call, rid, diskVars, budget>>

SyncSends ==
  /\ sync \in Ids
  /\ Announce(sync, sync # id)
  /\ sync' = "idle"
  /\ UNCHANGED <<hostVars, memoryVars, main, link, call, rid, diskVars, budget>>

\* Some of what was sent last is lost with the connection.
Cut == up' \in Prefixes(up) /\ call' \in {call, None}

LinkLost ==
  /\ link = "up"
  /\ Spend("outages")
  /\ link' = "dead"
  /\ Cut
  /\ UNCHANGED <<hostVars, memoryVars, main, sync, crossed, rid, diskVars>>

\* The thread that runs the callbacks is the one that reads the socket.
LossNoticed ==
  /\ link = "dead" /\ sync = "idle"
  /\ link' = "down"
  /\ UNCHANGED <<hostVars, memoryVars, main, sync, up, crossed, call, rid, diskVars, budget>>

\* Rejected variant of Connect: the client reconnects only for a running session.
ConnectForSession ==
  /\ link = "down" /\ name # None
  /\ link' = "up" /\ sync' = "start"
  /\ UNCHANGED <<hostVars, memoryVars, main, up, crossed, call, rid, diskVars, budget>>

Connect ==
  /\ link = "down"
  /\ link' = "up" /\ sync' = "start"
  /\ UNCHANGED <<hostVars, memoryVars, main, up, crossed, call, rid, diskVars, budget>>

RailwayReceives ==
  /\ up # <<>>
  /\ rid' = Head(up) /\ up' = Tail(up)
  /\ UNCHANGED <<hostVars, memoryVars, main, link, sync, crossed, call, diskVars, budget>>

RailwayRestarts ==
  /\ Spend("restarts")
  /\ rid' = None /\ up' = <<>>
  /\ call' \in {call, None}
  /\ link' = IF link = "up" THEN "dead" ELSE link
  /\ UNCHANGED <<hostVars, memoryVars, main, sync, crossed, diskVars>>

\* Gateway's eviction, once the daemon has been away for the whole grace.
GraceOver ==
  /\ link # "up" /\ up = <<>>
  /\ rid # None
  /\ rid' = None
  /\ UNCHANGED <<hostVars, memoryVars, main, linkVars, call, diskVars, budget>>

----------------------------------------------------------------------------
(* The daemon dies and is started again                                    *)

\* find_session_folder_by_id
FolderOf(i) == {f \in Folders : i # None /\ fid[f] = i}

\* The boot half of run(): the saved id, its folder or else today's, and the
\* folder's activities.  Announcing is left to the connection.
DaemonRestarts ==
  /\ Spend("outages")
  /\ id' = gid
  /\ overdue' = gOld
  /\ IF FolderOf(gid) # {} THEN name' \in FolderOf(gid) ELSE name' = Today
  /\ cache' = IF name' = None THEN {} ELSE Load(name')
  /\ slot' = None /\ resume' = None
  /\ main' = "idle"
  /\ link' = "down" /\ sync' = "idle"
  /\ up' \in Prefixes(up)
  /\ call' = None
  /\ UNCHANGED <<used, crossed, rid, diskVars>>

----------------------------------------------------------------------------
HostStep == \/ \E f \in Folders, i \in Ids : HostCreates(f, i) \/ HostResumes(f, i)
            \/ HostEnds
RestStep == ResumeAnswers \/ ResumeFails
MainStep == MainCreates \/ MainAnnounces \/ MainSaves \/ MainEnds \/ MainClears
PhoneStep == \E k \in Kinds : PhoneCalls(k)
SyncStep == SyncReads \/ SyncSends
LinkStep == LossNoticed \/ Connect

Next ==
  \/ HostStep \/ RestStep
  \/ MainStep \/ Persist \/ Midnight
  \/ PhoneStep \/ CallLands
  \/ SyncStep \/ LinkStep \/ LinkLost
  \/ RailwayReceives \/ RailwayRestarts \/ GraceOver
  \/ DaemonRestarts

Spec == Init /\ [][Next]_vars

\* The threads keep running and the client keeps reconnecting.  The host,
\* the phones, failures and midnights owe nothing.
Fairness ==
  /\ WF_vars(RestStep) /\ WF_vars(MainStep)
  /\ WF_vars(SyncStep) /\ WF_vars(LinkStep)
  /\ WF_vars(RailwayReceives)

FairSpec == Spec /\ Fairness

----------------------------------------------------------------------------
(* Properties                                                              *)

\* Only the values the code can produce: a folder and an id wherever it has one, and
\* no id announced that is not one.
FlagsTypeOK == overdue \in BOOLEAN /\ gOld \in BOOLEAN /\ crossed \in BOOLEAN

HostTypeOK ==
  /\ slot \in Requests \cup {None} /\ resume \in Creates \cup {None}
  /\ used \subseteq Ids

MemoryTypeOK ==
  /\ name \in Folders \cup {None} /\ id \in Ids \cup {None}
  /\ main \in {"idle", "announce", "save", "clear"}
  /\ cache \subseteq Tokens /\ call \in Tokens \cup {None}

LinkTypeOK ==
  /\ link \in {"up", "dead", "down"}
  /\ sync \in Ids \cup {"idle", "start"}
  /\ up \in Seq(Ids \cup {None}) /\ rid \in Ids \cup {None}

DiskTypeOK ==
  /\ fid \in [Folders -> Ids \cup {None}]
  /\ data \in [Folders -> SUBSET Tokens]
  /\ gid \in Ids \cup {None}

TypeOK == FlagsTypeOK /\ HostTypeOK /\ MemoryTypeOK /\ LinkTypeOK /\ DiskTypeOK

Running == name # None /\ id # None

\* Nothing is on its way between the host, the main loop and Railway.
Quiet == /\ main = "idle" /\ slot = None /\ resume = None
         /\ link = "up" /\ sync = "idle" /\ up = <<>>

\* Once things are quiet, Railway serves the session that is running, whichever of
\* the three threads announced what, and whatever was lost or restarted; only an id
\* read by the reconnect callback before a switch and sent after it may be in the way.
RunningIsServed == (Quiet /\ Running /\ ~crossed) => rid = id

\* Once things are quiet, the last word Railway heard is not the reconnect callback's,
\* about a session that was ended or replaced between its reading and its sending.
ReconnectNeverReactivates == Quiet => ~crossed

\* Whenever the main loop is between two requests, a restart of the daemon finds the
\* session it runs, by the id on disk and in the same folder, or none if none runs.
RestartKeepsTheSession ==
  main = "idle" =>
    IF name = None THEN gid = None
    ELSE gid = id /\ FolderOf(gid) = {name}

\* What was saved in a folder survives in it: no restart, resume, switch or end makes
\* a later backup of the folder smaller.
ActivitiesSurvive ==
  [][\A f \in Folders : Restored(data[f]) \subseteq data'[f]]_vars

\* In the end the session that runs is the one that is served.
ServedInTheEnd == <>[]((Running /\ ~crossed) => rid = id)

\* A request in the slot is taken or replaced, even if the link is lost meanwhile.
RequestsAreTaken == (slot # None) ~> (slot = None)

\* A session does not outlive its day.
EndsWithItsDay == (name # None /\ overdue) ~> (name = None \/ ~overdue)

\* Generated ids and folders are interchangeable, for the safety run.
Symmetry == Permutations(Ids) \cup Permutations(Folders)

----------------------------------------------------------------------------
(* Promises the code does not keep; TLC shows how, see the README           *)

\* Once things are quiet and no session runs, Railway serves nobody.
EndedIsNotServed == (Quiet /\ id = None) => rid = None

\* ActivitiesSurvive for every activity, the quiz included.
EverythingSurvives == [][\A f \in Folders : data[f] \subseteq data'[f]]_vars

\* A session that is created starts from what its own folder holds and what its own
\* phones said since it was announced, not from what was said in another one.
CleanSlate ==
  [][MainCreates => cache' \subseteq Restored(data[slot.folder]) \cup Kinds \X {slot.id}]_vars
=============================================================================
