-------------------------------- MODULE Wiki --------------------------------
(***************************************************************************)
(* The session's wiki: the main loop watches the vault in the session       *)
(* folder, a thread builds a site of it and uploads it, Railway serves it   *)
(* (daemon/wiki/publisher.py, builder.py, railway/features/wiki); and the   *)
(* notes starred by the trainer and by participants, kept beside the vault  *)
(* (takeaways.py, stars.py).  One job at a time builds or uploads; the      *)
(* vault, the session and Railway change meanwhile.                         *)
(***************************************************************************)
EXTENDS Integers, FiniteSets

CONSTANTS
  Sessions, None,
  Pids, Notes,   \* who may star, and the notes
  MaxEdits       \* bound on the changes of the vaults

\* What a vault has besides its notes: an index.md, a Home.md or neither.
Entries == {"index", "Home", "notes"}

\* A session's vault at a revision; a site that was made of one; and a job of the publisher.
Keys == Sessions \X (0 .. MaxEdits)
Sites == [rev : 0 .. MaxEdits, root : {"index", "Home", "list"}]
Jobs ==
  [kind : {"build", "resend"}, of : Keys, at : {"start", "built", "sent"},
   site : Sites \cup {None}]

WikiAssumption ==
  /\ MaxEdits \in Nat \ {0} /\ None \notin Sessions \cup {"index", "Home", "list"}
  /\ None \notin Keys /\ None \notin Sites /\ None \notin Jobs

VARIABLES
  session, vault, edits,   \* the active session; vaults: revision, entry page, written to just now
  known,                   \* WikiPublisher._session_id
  published, payload,      \* the key and the site last published
  resend, failed,          \* _resend, _failed
  job,                     \* the thread: what it does, for whom, and the site it made
  site,                    \* what Railway holds: whose site, and the site
  linked,                  \* the daemon's WebSocket to Railway
  raced,                   \* history: Railway came back while the first site was on its way
  starring,                \* star and takeaway requests that wait for their thread
  takeaways, stars,        \* the cache of the session: notes, and <<participant, note>> pairs
  saved,                   \* the files of each session
  unsaved,                 \* history: a file could not be written
  shown                    \* the takeaways the room was told last

vaultVars == <<session, vault, edits>>
publisherVars == <<known, published, payload, resend, failed, job>>
railwayVars == <<site, linked, raced>>
starVars == <<starring, takeaways, stars, saved, unsaved, shown>>
vars == <<vaultVars, publisherVars, railwayVars, starVars>>

----------------------------------------------------------------------------
(* The vault and its site                                                   *)

\* The summarizer writes.
Edit(s, entry) ==
  /\ edits < MaxEdits /\ edits' = edits + 1
  /\ vault' = [vault EXCEPT ![s] = [rev |-> edits', entry |-> entry, fresh |-> TRUE]]
  /\ UNCHANGED <<session, publisherVars, railwayVars, starVars>>

\* SETTLE_S pass without a change.
Settle(s) ==
  /\ vault[s].fresh /\ vault' = [vault EXCEPT ![s].fresh = FALSE]
  /\ UNCHANGED <<session, edits, publisherVars, railwayVars, starVars>>

Key(s) == <<s, vault[s].rev>>

\* Rejected variant of Site: a vault is published as it is.
BareSite(v) == [rev |-> v.rev, root |-> IF v.entry = "index" THEN "index" ELSE None]

\* build_site: its root is the vault's index, or a copy of Home, or a list of the notes.
Site(v) ==
  [rev |-> v.rev,
   root |-> CASE v.entry = "index" -> "index" [] v.entry = "Home" -> "Home" [] OTHER -> "list"]

----------------------------------------------------------------------------
(* The publisher                                                            *)

Idle == job = None
Forgotten == published' = None /\ payload' = None /\ failed' = None /\ resend' = FALSE

\* tick: a session that is new starts with nothing published ...
Start(kind, s, site0) == job' = [kind |-> kind, of |-> Key(s), at |-> "start", site |-> site0]
Tick ==
  /\ UNCHANGED <<vaultVars, railwayVars, starVars>>
  /\ known' = session
  /\ IF known # session
     THEN /\ Forgotten
          /\ IF Idle /\ session # None /\ vault[session].rev > 0 /\ ~vault[session].fresh
             THEN Start("build", session, None) ELSE UNCHANGED job
     ELSE /\ UNCHANGED <<published, payload, failed>>
          /\ Idle /\ session # None /\ vault[session].rev > 0
          /\ IF Key(session) = published
             THEN resend /\ resend' = FALSE /\ Start("resend", session, payload)
             ELSE /\ Key(session) # failed /\ ~vault[session].fresh
                  /\ Start("build", session, None) /\ UNCHANGED resend

\* RETRY_AFTER_FAILURE_S pass.
Retry ==
  /\ failed # None /\ failed' = None
  /\ UNCHANGED <<vaultVars, known, published, payload, resend, job, railwayVars, starVars>>

\* The vault is copied and built, as it is by then ...
Build ==
  /\ job # None /\ job.kind = "build" /\ job.at = "start"
  /\ job' = [job EXCEPT !.at = "built", !.site = Site(vault[job.of[1]])]
  /\ UNCHANGED <<vaultVars, known, published, payload, resend, failed, railwayVars, starVars>>

Uploading == job # None /\ (job.at = "built" \/ (job.kind = "resend" /\ job.at = "start"))

\* ... and uploaded: every other session's site is deleted with it.
Upload ==
  /\ Uploading /\ job' = [job EXCEPT !.at = "sent"]
  /\ site' = [of |-> job.of[1], site |-> job.site]
  /\ UNCHANGED <<vaultVars, known, published, payload, resend, failed, linked, raced, starVars>>

\* The build or the upload fails.
JobFails ==
  /\ job # None /\ job.at # "sent" /\ job' = None
  /\ IF job.kind = "build" THEN failed' = job.of /\ UNCHANGED resend
     ELSE resend' = TRUE /\ UNCHANGED failed
  /\ UNCHANGED <<vaultVars, known, published, payload, railwayVars, starVars>>

\* The job is done: a site of a session that is over is not the published one.
JobEnds ==
  /\ job # None /\ job.at = "sent" /\ job' = None
  /\ IF job.kind = "build" /\ known = job.of[1]
     THEN published' = job.of /\ payload' = job.site
     ELSE UNCHANGED <<published, payload>>
  /\ UNCHANGED <<vaultVars, known, resend, failed, railwayVars, starVars>>

----------------------------------------------------------------------------
(* Railway                                                                  *)

\* A redeploy: the site is gone, and the WebSocket with it.
RailwayRestarts ==
  /\ site' = None /\ linked' = FALSE
  /\ raced' = (raced \/ (job # None /\ job.at = "sent"))
  /\ UNCHANGED <<vaultVars, publisherVars, starVars>>

\* Rejected variant of Reconnect: Railway is trusted to have kept the site.
ReconnectTrusting ==
  /\ ~linked /\ linked' = TRUE /\ failed' = None
  /\ UNCHANGED <<vaultVars, known, published, payload, resend, job, site, raced, starVars>>

\* The daemon connects again: invalidate.
Reconnect ==
  /\ ~linked /\ linked' = TRUE
  /\ resend' = (payload # None) /\ failed' = None
  /\ UNCHANGED <<vaultVars, known, published, payload, job, site, raced, starVars>>

----------------------------------------------------------------------------
(* Stars                                                                    *)

Ask(r) ==
  /\ starring = None /\ session # None /\ starring' = r
  /\ UNCHANGED <<vaultVars, publisherVars, railwayVars, takeaways, stars, saved, unsaved, shown>>

\* POST wiki/star of a participant, of a note that is published; POST /wiki/takeaway.
Star(p, n, on) == payload # None /\ Ask([who |-> p, note |-> n, on |-> on, in |-> session])
Takeaway(n, on) == Ask([who |-> None, note |-> n, on |-> on, in |-> session])

With(set, x, on) == IF on THEN set \cup {x} ELSE set \ {x}

\* The thread: the file of the session that is active by then is written, the cache with it;
\* the room is told.
Save ==
  /\ starring # None /\ starring' = None /\ session # None
  /\ LET r == starring
     IN  IF r.who = None
         THEN /\ takeaways' = With(takeaways, r.note, r.on)
              /\ saved' = [saved EXCEPT ![session].takeaways = takeaways']
              /\ shown' = takeaways' /\ UNCHANGED stars
         ELSE /\ stars' = With(stars, <<r.who, r.note>>, r.on)
              /\ saved' = IF stars' # stars THEN [saved EXCEPT ![session].stars = stars'] ELSE saved
              /\ UNCHANGED <<takeaways, shown>>
  /\ UNCHANGED <<vaultVars, publisherVars, railwayVars, unsaved>>

\* Rejected variant of SaveFails: a takeaway is kept as a star is.
SaveFailsInMemory ==
  /\ starring # None /\ starring' = None /\ session # None
  /\ IF starring.who = None
     THEN takeaways' = With(takeaways, starring.note, starring.on) /\ UNCHANGED <<stars, unsaved>>
     ELSE /\ stars' = With(stars, <<starring.who, starring.note>>, starring.on)
          /\ unsaved' = (unsaved \/ stars' # stars) /\ UNCHANGED takeaways
  /\ UNCHANGED <<vaultVars, publisherVars, railwayVars, saved, shown>>

\* The file cannot be written: a takeaway is not kept either, a star is.
SaveFails ==
  /\ starring # None /\ starring' = None /\ session # None
  /\ IF starring.who = None
     THEN UNCHANGED <<stars, unsaved>>
     ELSE /\ stars' = With(stars, <<starring.who, starring.note>>, starring.on)
          /\ unsaved' = (unsaved \/ stars' # stars)
  /\ UNCHANGED <<vaultVars, publisherVars, railwayVars, takeaways, saved, shown>>

\* forget_participant.
Purge(p) ==
  /\ session # None
  /\ stars' = {x \in stars : x[1] # p}
  /\ saved' = IF stars' # stars THEN [saved EXCEPT ![session].stars = stars'] ELSE saved
  /\ UNCHANGED <<vaultVars, publisherVars, railwayVars, starring, takeaways, unsaved, shown>>

\* The session changes, or the daemon restarts into one: the caches are read from its files.
Cached(s) ==
  /\ takeaways' = IF s = None THEN {} ELSE saved[s].takeaways
  /\ stars' = IF s = None THEN {} ELSE saved[s].stars
  /\ shown' = takeaways'

Enter(s) ==
  /\ s # session /\ session' = s /\ Cached(s)
  /\ UNCHANGED <<vault, edits, publisherVars, railwayVars, starring, saved, unsaved>>

\* ... whose publisher knows nothing.
DaemonRestarts ==
  /\ Cached(session) /\ starring' = None /\ unsaved' = FALSE
  /\ known' = None /\ Forgotten /\ job' = None /\ linked' = TRUE
  /\ UNCHANGED <<vaultVars, site, raced, saved>>

NoFiles == [takeaways |-> {}, stars |-> {}]

\* The daemon and Railway start; or the site of a session has been made and is served.
From(s, rev, key, made) ==
  /\ session = s /\ edits = rev
  /\ vault = [t \in Sessions |->
               IF t = s /\ rev > 0 THEN [rev |-> rev, entry |-> "Home", fresh |-> FALSE]
               ELSE [rev |-> 0, entry |-> "notes", fresh |-> FALSE]]
  /\ known = (IF key = None THEN None ELSE s) /\ published = key /\ payload = made
  /\ resend = FALSE /\ failed = None /\ job = None
  /\ site = (IF key = None THEN None ELSE [of |-> s, site |-> made])
  /\ linked = TRUE /\ raced = FALSE
  /\ starring = None /\ takeaways = {} /\ stars = {} /\ shown = {} /\ unsaved = FALSE
  /\ saved = [t \in Sessions |-> NoFiles]

Init == \E s \in Sessions : From(s, 0, None, None)
InitServed == \E s \in Sessions : From(s, 1, <<s, 1>>, [rev |-> 1, root |-> "Home"])

Publishing ==
  \/ \E s \in Sessions, e \in Entries : Edit(s, e)
  \/ \E s \in Sessions : Settle(s)
  \/ Tick \/ Retry \/ Build \/ Upload \/ JobFails \/ JobEnds
  \/ RailwayRestarts \/ Reconnect

Starring ==
  \/ \E n \in Notes, on \in BOOLEAN : Takeaway(n, on) \/ \E p \in Pids : Star(p, n, on)
  \/ Save \/ SaveFails
  \/ \E p \in Pids : Purge(p)

Sitting == (\E s \in Sessions \cup {None} : Enter(s)) \/ DaemonRestarts

Next == Publishing \/ Starring \/ Sitting

Spec == Init /\ [][Next]_vars

----------------------------------------------------------------------------
(* Properties                                                               *)

Made(x) == x = None \/ (x.rev \in 0 .. edits /\ x.root \in {"index", "Home", "list", None})

\* The variables have the types the code gives them.
TypeOK ==
  /\ {session, known} \subseteq Sessions \cup {None} /\ edits \in 0 .. MaxEdits
  /\ vault \in [Sessions -> [rev : 0 .. edits, entry : Entries, fresh : BOOLEAN]]
  /\ published \in Keys \cup {None} /\ failed \in Keys \cup {None} /\ Made(payload)
  /\ job # None => job.of \in Keys /\ Made(job.site)
  /\ site # None => site.of \in Sessions /\ Made(site.site)
  /\ {resend, linked, raced, unsaved} \subseteq BOOLEAN
  /\ takeaways \cup shown \subseteq Notes /\ stars \subseteq Pids \X Notes

\* publisher.py:94-101: the site that counts as published is what Railway serves, or is owed
\* to it; and it is at least as new as the vault it is kept for.
ServedOrOwed ==
  payload # None =>
    /\ payload.rev >= published[2]
    /\ linked /\ Idle /\ ~resend /\ ~raced /\ known = session =>
         site = [of |-> known, site |-> payload]

\* builder.py:232-235: whatever the summarizer has written so far, the site's root is a page.
RootIsServed == site # None => site.site.root # None

\* The stars of the session are those of its file, also when the file cannot be written.
StarsAreKept ==
  session # None => /\ takeaways = saved[session].takeaways /\ shown = takeaways
                    /\ ~unsaved => stars = saved[session].stars

----------------------------------------------------------------------------
(* Promises the code does not keep; TLC shows how                           *)

\* publisher.py:83-92: Railway that came back without the site gets it again.
AlwaysServed ==
  payload # None /\ linked /\ Idle /\ ~resend /\ known = session =>
    site = [of |-> known, site |-> payload]

\* stars.py:23-24: the stars survive a restart.
StarsSurvive == session # None => stars = saved[session].stars

\* router.py:891-896: a star goes to the session whose note it is.
StarStaysHome == [][Save => starring.in = session]_vars

----------------------------------------------------------------------------
(* The inductive invariant behind the theorems of LimitsProofs             *)

WikiTypeOK ==
  /\ session \in Sessions \cup {None} /\ known \in Sessions \cup {None}
  /\ edits \in 0 .. MaxEdits
  /\ vault \in [Sessions -> [rev : 0 .. edits, entry : Entries, fresh : BOOLEAN]]
  /\ published \in Keys \cup {None} /\ payload \in Sites \cup {None}
  /\ published = None <=> payload = None
  /\ job \in Jobs \cup {None} /\ site \in [of : Sessions, site : Sites] \cup {None}
  /\ linked \in BOOLEAN /\ raced \in BOOLEAN /\ resend \in BOOLEAN

\* A job has the site it is about to upload, not older than the vault it was started for; and
\* what was sent is there, unless Railway came back.
JobFits ==
  job # None =>
    /\ job.kind = "resend" => job.site # None /\ job.at # "built"
    /\ job.at # "start" => job.site # None
    /\ job.kind = "build" =>
         IF job.at = "start" THEN vault[job.of[1]].rev >= job.of[2]
         ELSE job.site.rev >= job.of[2]
    /\ job.at = "sent" /\ ~raced => site = [of |-> job.of[1], site |-> job.site]

\* While a site counts as published a job is for its session, and one that resends, resends it;
\* and nothing else has been sent to Railway since.
ServedFits ==
  payload # None =>
    /\ payload.rev >= published[2]
    /\ job # None => job.of[1] = known /\ (job.kind = "resend" => job.site = payload)
    /\ Idle \/ (job.kind = "build" /\ job.at # "sent") =>
         (linked /\ ~resend /\ ~raced => site = [of |-> known, site |-> payload])

StarsTypeOK ==
  /\ starring \in [who : Pids \cup {None}, note : Notes, on : BOOLEAN, in : Sessions]
        \cup {None}
  /\ takeaways \subseteq Notes /\ stars \subseteq Pids \X Notes
  /\ saved \in [Sessions -> [takeaways : SUBSET Notes, stars : SUBSET (Pids \X Notes)]]
  /\ unsaved \in BOOLEAN

WikiInv == WikiTypeOK /\ JobFits /\ ServedFits /\ StarsTypeOK /\ StarsAreKept
=============================================================================
