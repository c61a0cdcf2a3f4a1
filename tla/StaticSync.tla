---------------------------- MODULE StaticSync -----------------------------
(***************************************************************************)
(* The pages Railway serves follow the trainer's working copy               *)
(* (daemon/static_sync.py, railway/features/internal/router.py).  On every  *)
(* connection Railway sends the inventory of its static files; the main     *)
(* loop of the daemon uploads what differs, deletes what it does not have,  *)
(* and has every open page reloaded if anything changed.  What a file holds *)
(* is its version, 0 when there is none.                                    *)
(***************************************************************************)
EXTENDS Integers

CONSTANTS
  Files, Excluded, Odd,   \* the files; those left out of the sync; those Railway refuses
  Nothing,
  MaxVersion, MaxCuts     \* bounds on the edits, and on the lost connections

SyncAssumption ==
  /\ Excluded \cup Odd \subseteq Files /\ Excluded \cap Odd = {}
  /\ MaxVersion \in Nat \ {0} /\ MaxCuts \in Nat
  /\ Nothing \notin [up : SUBSET Files, down : SUBSET Files, changed : BOOLEAN]

VARIABLES
  here,      \* the working copy
  there,     \* what Railway serves
  image,     \* what a deployment of Railway starts with
  linked,
  request,   \* sync_files, not yet taken by the main loop: the inventory, or Nothing
  job,       \* the sync under way: uploads and deletions left, whether anything changed
  reload,    \* a reload is under way to the pages
  pages,     \* what a page that is always open was loaded from
  cuts,
  clean,     \* history: nothing failed, and nothing changed but by a sync, since one began
  lost,      \* history: a reload was not sent, or missed, or a late request changed what is
             \* served, since one was heard
  late       \* requests the daemon gave up waiting for, which Railway may still carry out

vars == <<here, there, image, linked, request, job, reload, pages, cuts, clean, lost, late>>
side == <<image, cuts, late>>

Synced == Files \ (Excluded \cup Odd)

\* _build_static_hashes and compute_local_hashes: the files there are but the excluded.
Hashes(dir) == [n \in Files |-> IF n \in Excluded THEN 0 ELSE dir[n]]

\* diff_hashes.
ToUpload(mine, theirs) == {n \in Files : mine[n] # 0 /\ mine[n] # theirs[n]}
ToDelete(mine, theirs) == {n \in Files : mine[n] = 0 /\ theirs[n] # 0}

----------------------------------------------------------------------------
(* The daemon                                                               *)

\* The main loop takes the inventory, and compares.
Start ==
  /\ request # Nothing /\ job = Nothing
  /\ LET mine == Hashes(here) IN
       /\ job' = [up |-> ToUpload(mine, request), down |-> ToDelete(mine, request),
                  changed |-> FALSE]
       /\ clean' = (\A n \in Files : request[n] = Hashes(there)[n])
  /\ request' = Nothing
  /\ UNCHANGED <<here, there, linked, reload, pages, lost, side>>

\* upload_static: the file as it is now; one that is gone is passed over; _validate_path
\* refuses what is excluded or odd.
Upload(n) ==
  /\ job # Nothing /\ n \in job.up
  /\ LET done == here[n] # 0 /\ n \in Synced IN
       /\ there' = IF done THEN [there EXCEPT ![n] = here[n]] ELSE there
       /\ job' = [job EXCEPT !.up = @ \ {n}, !.changed = @ \/ done]
  /\ UNCHANGED <<here, linked, request, reload, pages, clean, lost, side>>

\* Rejected variant of Delete: only an upload counts as a change.
DeleteQuietly(n) ==
  /\ job # Nothing /\ job.up = {} /\ n \in job.down
  /\ there' = IF n \in Synced THEN [there EXCEPT ![n] = 0] ELSE there
  /\ job' = [job EXCEPT !.down = @ \ {n}]
  /\ UNCHANGED <<here, linked, request, reload, pages, clean, lost, side>>

\* delete_static, when the uploads are over.
Delete(n) ==
  /\ job # Nothing /\ job.up = {} /\ n \in job.down
  /\ LET done == n \in Synced IN
       /\ there' = IF done THEN [there EXCEPT ![n] = 0] ELSE there
       /\ job' = [job EXCEPT !.down = @ \ {n}, !.changed = @ \/ done]
  /\ UNCHANGED <<here, linked, request, reload, pages, clean, lost, side>>

\* The files whose request is the next or under way: the uploads come first.
Turn == IF job.up # {} THEN {n \in job.up : here[n] # 0} ELSE job.down

\* What Railway may still do when nobody waits for its answer: nothing, or what n's request said.
Unanswered(n) ==
  late' \in {late, IF n \in Synced
                   THEN late \cup {[of |-> n, version |-> IF n \in job.up THEN here[n] ELSE 0]}
                   ELSE late}

\* A request that fails is logged and not counted, and the sync goes on: it was refused or
\* never arrived, or its answer did not come in time.
Fail(n) ==
  /\ job # Nothing /\ n \in Turn
  /\ cuts < MaxCuts /\ cuts' = cuts + 1
  /\ job' = [job EXCEPT !.up = @ \ {n}, !.down = @ \ {n}]
  /\ Unanswered(n) /\ clean' = FALSE
  /\ UNCHANGED <<here, there, image, linked, request, reload, pages, lost>>

\* Railway carries out a request whose answer nobody waits for.
Land(m) ==
  /\ late' = late \ {m}
  /\ there' = [there EXCEPT ![m.of] = m.version]
  /\ clean' = (clean /\ there' = there) /\ lost' = (lost \/ there' # there)
  /\ UNCHANGED <<here, image, linked, request, job, reload, pages, cuts>>

\* The reload is sent after the last change, over the WebSocket if there is one.
Finish ==
  /\ job # Nothing /\ job.up = {} /\ job.down = {} /\ job' = Nothing
  /\ reload' = (reload \/ (job.changed /\ linked))
  /\ lost' = (lost \/ (job.changed /\ ~linked))
  /\ UNCHANGED <<here, there, linked, request, pages, clean, side>>

----------------------------------------------------------------------------
(* Around it                                                                *)

\* daemon_ws: Railway sends the inventory; it replaces one that was not taken yet.
Connect ==
  /\ ~linked /\ linked' = TRUE /\ request' = Hashes(there)
  /\ UNCHANGED <<here, there, job, reload, pages, clean, lost, side>>

Disconnect ==
  /\ linked /\ linked' = FALSE /\ cuts < MaxCuts /\ cuts' = cuts + 1
  /\ lost' = (lost \/ reload) /\ reload' = FALSE
  /\ UNCHANGED <<here, there, image, request, job, pages, clean, late>>

\* The daemon ends, with its link and its sync, and without the answer it waits for.
Crash ==
  /\ job # Nothing /\ cuts < MaxCuts /\ cuts' = cuts + 1
  /\ job' = Nothing /\ request' = Nothing /\ linked' = FALSE
  /\ lost' = (lost \/ job.changed) /\ clean' = FALSE
  /\ UNCHANGED late \/ \E n \in Turn : Unanswered(n)
  /\ UNCHANGED <<here, there, image, reload, pages>>

\* A deployment: the image is what was pushed, what the old Railway had to do is gone with it,
\* and every page notices the new version.
Redeploy ==
  /\ cuts < MaxCuts /\ cuts' = cuts + 1
  /\ image' \in {image, here} /\ there' = image' /\ pages' = image'
  /\ linked' = FALSE /\ reload' = FALSE /\ lost' = FALSE /\ clean' = FALSE
  /\ late' = {} /\ UNCHANGED <<here, request, job>>

\* The working copy changes: a checkout, an editor.
Edit(n) ==
  /\ here[n] < MaxVersion /\ here' = [here EXCEPT ![n] = @ + 1] /\ clean' = FALSE
  /\ UNCHANGED <<there, linked, request, job, reload, pages, lost, side>>

Remove(n) ==
  /\ here[n] # 0 /\ here' = [here EXCEPT ![n] = 0] /\ clean' = FALSE
  /\ cuts < MaxCuts /\ cuts' = cuts + 1
  /\ UNCHANGED <<there, image, linked, request, job, reload, pages, lost, late>>

HearReload ==
  /\ reload /\ reload' = FALSE /\ pages' = there /\ lost' = FALSE
  /\ UNCHANGED <<here, there, linked, request, job, clean, side>>

Init ==
  /\ here = [n \in Files |-> 1] /\ there = here /\ image = here /\ pages = here
  /\ linked = FALSE /\ request = Nothing /\ job = Nothing /\ reload = FALSE
  /\ cuts = 0 /\ clean = FALSE /\ lost = FALSE /\ late = {}

Next ==
  \/ Start \/ Finish \/ Connect \/ Disconnect \/ Crash \/ Redeploy \/ HearReload
  \/ \E n \in Files : Upload(n) \/ Delete(n) \/ Fail(n) \/ Edit(n) \/ Remove(n)
  \/ \E m \in late : Land(m)

Spec == Init /\ [][Next]_vars

----------------------------------------------------------------------------
(* Properties                                                               *)

\* The variables have the types the code gives them.
TypeOK ==
  /\ {here, there, image, pages} \subseteq [Files -> 0 .. MaxVersion]
  /\ request # Nothing => request \in [Files -> 0 .. MaxVersion]
  /\ job # Nothing => job.up \cup job.down \subseteq Files /\ job.up \cap job.down = {}
  /\ late \subseteq [of : Synced, version : 0 .. MaxVersion]

\* static_sync.py:1, "compare local static/ with backend inventory and upload changes": a sync
\* nothing interfered with leaves Railway with the working copy; no sync ever touches what is
\* excluded from it; and the pages show what is served since the last reload they heard, unless
\* one was not sent or missed, or Railway carried out a request that was given up.
SyncConverges ==
  /\ clean /\ job = Nothing => \A n \in Synced : there[n] = here[n]
  /\ \A n \in Excluded : there[n] = image[n]
  /\ job = Nothing /\ ~reload /\ ~lost => pages = there

----------------------------------------------------------------------------
(* Promises the code does not keep; TLC shows how                           *)

\* The pages show what is served once the link is up and there is nothing left to do: a reload
\* lost with the link is not made up for, the next inventory has no difference; and there is none
\* for a change whose answer came too late.
PagesFollow == linked /\ request = Nothing /\ job = Nothing /\ ~reload => pages = there

\* A clean sync brings every file, also of a kind the other end does not take.
OddFollow == clean /\ job = Nothing => \A n \in Files \ Excluded : there[n] = here[n]

----------------------------------------------------------------------------
(* The inductive invariant behind the theorems of Records                   *)

Dirs == [Files -> 0 .. MaxVersion]
Jobs == [up : SUBSET Files, down : SUBSET Files, changed : BOOLEAN]

SyncTypeOK ==
  /\ {here, there, image, pages} \subseteq Dirs /\ request \in Dirs \cup {Nothing}
  /\ job \in Jobs \cup {Nothing} /\ (job # Nothing => job.up \cap job.down = {})
  /\ {linked, reload, clean, lost} \subseteq BOOLEAN
  /\ late \subseteq [of : Synced, version : 0 .. MaxVersion]

\* What a clean sync has left to do is the whole difference, and what it has not told the
\* pages is what it changed.
JobsAreTheDifference ==
  job # Nothing =>
    /\ clean => \A n \in Synced : /\ n \in job.up => here[n] # 0
                                  /\ n \in job.down => here[n] = 0
                                  /\ n \notin job.up \cup job.down => there[n] = here[n]
    /\ ~job.changed /\ ~reload /\ ~lost => pages = there

SyncInv == SyncTypeOK /\ JobsAreTheDifference /\ SyncConverges
=============================================================================
