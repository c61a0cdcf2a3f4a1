# Verification of the training assistant

TLA+ models of the program in this repository, the TLC runs that check them on
small instances, and theorems with proofs that hold for every instance.  This
file says what the system's parts are, which module models which, what the runs
and the proofs show, and what is not covered.

## 1. The system

A trainer's Mac runs the **daemon** (`daemon/`), which owns the state of a live
session: who is there, the quiz, the poll, the debate, the scores, the files.
Participants' phones never reach the Mac.  They talk to **Railway**
(`railway/`), a public process with one asyncio loop that serves the pages, holds
one WebSocket per phone and one to the daemon, and keeps next to nothing of its own.

```
 phones ──HTTP──▶ Railway ──proxy_request──▶ daemon worker ──HTTP──▶ daemon's REST handlers
   ▲                │  ▲                         │                        │
   └──WebSocket─────┘  └──proxy_response, events─┘     main loop ◀─slot───┘
       (events)        ◀──set_session_id────────────   (sessions, disk)
```

Threads of the daemon: the main loop (session lifecycle, presence messages,
backups to disk), the WebSocket client (receives, reconnects, runs the
reconnect callbacks), the event loop of the local HTTP server (every REST handler),
32 proxy workers, and background threads (slides, wiki, indexer, add-on bridge).
Most singletons are written by the event loop; the main loop writes them at a
session switch; almost nothing is locked.

### 1.1 Inventory

| Component | State | Operations | What is hard | What makes it correct |
|---|---|---|---|---|
| Public gateway (`railway/features/ws`, `railway/shared`) | `participants`, `session_id`, registry, `daemon_ws`, the grace timer | connect, replace, drop, handler's end, session switch, eviction, presence | every send and close suspends; late cleanups of replaced sockets; half-open links | the roster holds exactly the sockets that are served; cohorts do not mix; nobody is evicted within the grace; the daemon's `online_participants` agrees in the end |
| Proxied calls (`proxy_bridge.py`, `proxy_handler.py`, `ws_client.py`) | pending futures, worker pool, the link | call, submit, perform, events, response, time-out | answers late, lost, out of order; link re-made between two sends | a call is performed at most once and returns its own result; what a caller was told is done is seen by all |
| Session lifecycle (`daemon/__main__.py`, `daemon/session`, `session_state.py`) | slot of requests, running session, memory, `global-state.json`, `session-state.json` | create, resume, end, midnight, backup, boot, re-sync | four producers of announcements; crash between two writes; one slot | Railway serves the session that runs; a restart comes back to it; nothing saved is lost; a new session starts clean |
| Session file (`session_state.py`) | `session-state.json` | read, merge, write, rename | two threads, one temporary file | no producer's keys are lost |
| Quiz and scores (`daemon/quiz`, `daemon/scores.py`) | quiz, votes, awards, scores | create, vote, end, reveal, timer, clear, reset, purge, restore | repeated reveals; other writers of the scores; rounding | scores are the sum of what was awarded; earlier and better votes never earn less |
| Poll (`daemon/poll`) | draft, votes, cached tally | update, start, vote, stop, clear | edits while it runs; a start that waits for the host's page; cache | the tally shown is the tally |
| Activity switch (`daemon/activity`) | `current_activity` | set, and seven features' own starts and ends | written from everywhere | phones are shown the activity that runs |
| Debate (`daemon/debate`) | phase, sides, arguments, champions | launch, pick, assign, argue, upvote, clean up by an LLM, rounds, reset | the clean-up answers minutes later | sides, champions and arguments agree; points once.  That a result is applied to the debate it was asked for is not so: section 5 |
| Q&A, word cloud, code review, AI share | questions, words, selections, answers | submit, upvote, confirm, reveal | several awards for one deed | each deed pays once |
| Identity, roster, purge (`daemon/participant`) | names, universes, flags, locations | register, rename, purge, restore | registration racing a session reset; a dozen stores | names are unique; a purged participant is nowhere |
| Sound effects, attention, emoji | grants, cooldown, windows | press, grant, revoke, ring | check, await, act | one press per cooldown for the room |
| Slides, materials archive, wiki (both sides) | caches, futures, fingerprints | refresh, download, build, publish | deduplication, time-outs, retries | one fetch per deck; a request is answered with what was asked |
| Uploads, inbox, bridge relays, add-on bridge | boxes, files with expiry | put, poll, fetch, expire | restart of a counter, lost notices | what was put is delivered, once |
| Throttles, rate limits, daemon lock, static sync | timers, buckets, lock file | request, run, allow, acquire | same-tick double run, check then write | at most one run per interval and no lost last change; one daemon |
| Transcript, summary, RAG, LLM, telemetry, pages, host panel, adapters, scripts | files and outside services | – | – | – |

`PROJECT.json` lists every component with its sources and status, and under
`hazards` what can go wrong at which line, with the property that would catch it.

## 2. The modules

The core, each with runs of its own:

| Module | Models | Checked by |
|---|---|---|
| `Gateway` | Railway's sockets, roster, session id, grace period, link to the daemon | `Gateway_*.cfg`, `GatewayProofs` |
| `RequestReply` | what a participant's call promises: asked, performed at most once, returned or failed | `ProxyBridge` (as the abstraction) |
| `ProxyBridge` | the call through Railway, the link, a worker and the local server | `ProxyBridge_calls.cfg`, `ProxyBridgeProofs` |
| `SessionLifecycle` | create, resume, end, backup, crash and boot of a session, and its announcements | `SessionLifecycle_*.cfg`, `SessionLifecycleProofs` |
| `Quiz` | the quiz, its points and the scores | `Quiz_*.cfg`, and the proofs at its end |

The activities, composed in `MCActivities`, with their proofs in `ActivitiesProofs`, and those of a debate by
itself at the end of `Debate`:

| Module | Models | What makes it more than a setter |
|---|---|---|
| `Activity` | `current_activity` and what the phones were told of it | seven features write it; every activity's module extends this one |
| `Poll` | draft, run, edit, stop, clear, ballots as lists, purge, restart | edits while it runs, a cached tally, the private poll, a start that waits for the host |
| `Debate` | sides, assignment, champions, arguments, upvotes, phases | the clean-up by a language model answers whenever it likes |
| `AiShare` | ticks, favourites, typed values, a ranking that grows and is moderated | a tap names an id the page saw earlier; ids are used again |
| `QuestionBoard` | questions, upvotes, the order shown | awards, edits and purges between two upvotes |
| `WordCloud` | words, counts, order | – |
| `CodeReview` | snippet, selections, confirmations, awards | the smart paste waits for a language model |
| `QuizQueue` | prepared questions, launched and removed by position | the position is that of an older list |

The services, composed in `MCServices`.  The twelve marked * keep to a limit or serve
what somebody made, are composed in `Limits` first, and have their proofs in `LimitsProofs`; the eleven marked † keep a record of
something, are composed in `Records`, and have theirs in `RecordsProofs`:

| Module | Models | What makes it hard |
|---|---|---|
| `Identity` † | registration, names, the trainer's claim, purge, attendance sheet | a handler changes the roster in one step and publishes it in a later one |
| `Whereabouts` † | coordinates, time zones, countries | look-ups that take seconds and answer out of order |
| `SessionFile` † | `session-state.json` | two threads read, merge and write over one temporary file |
| `Throttle` * | leading and trailing runs of both throttles | requests of threads, of handlers and of the timer in one tick |
| `FxLever` * | grants, tile, cooldown, presses | brakes are passed before two awaits, the cooldown is noted after them |
| `Reactions` * | sliding windows, buckets of tokens | a clean-up that drops other people's windows |
| `SlidesCache` * | a deck's copy on Railway: who downloads it, when, and who waits | one slot, four kinds of callers, deduplication, queueing |
| `SlidesPublish` * | export of changed decks from Drive | the trainer saves meanwhile, the process dies between two records |
| `ExportProbe` * | the alarm on a deck Drive cannot export | every change cancels a thread and starts one |
| `FollowMe` † | slides, scroll positions, notes: what the audience follows | three reporters, queues, lost broadcasts, a phone that joins late |
| `Uploads` † | a participant's file until it is saved and acknowledged | lost notices, redeploys that number anew, equal names |
| `Handouts` * | pastes, bug reports, the feedback form | its marker file is written while the session changes |
| `Relays` * | the tablet's requests to the Mac, clipboard, sealed parcels | two sockets, a thread beside the event loop, a memory limit |
| `Wiki` * | fingerprint, build, upload, resend; stars and takeaways | one job at a time, Railway forgets, the session changes |
| `Materials` * | the session's archive | callers share a build; the daemon zips the folder of the moment |
| `OpenedFiles` * | the list of files the trainer opened, with links | two processes rewrite one document; GitHub may not answer |
| `NotesWatch` † | the watch over the session folder | a probe reads file by file while others write |
| `DaemonLock` * | one daemon at a time | read, judge, kill, write: nothing is atomic |
| `AddonLink` † | what the add-on knows of the session | two fields read one by one on a new connection |
| `Migration` † | the script that renames polls to quizzes in the session files | stopped anywhere and run again, beside a daemon that saves |
| `StaticSync` † | Railway's pages follow the working copy | uploads and deletions fail one by one, redeploys |
| `Highlight` † | a marked passage of the summary | located in a text that has changed since it was shown |
| `Indexer` † | the index of the training material | a watcher, a worker and a manifest in memory and on disk |

The head of each module says what it stands for, what it leaves out and why one
action is what it is.  `*Proofs` modules hold theorems; those of `Quiz` and `Debate` stand at the
end of their modules.  A module with runs of its own also
holds the symmetry sets and the promises of section 5 that no run lists; each `.cfg` gives
the constants.  A component whose invariant is proved ends with a section *the inductive
invariant behind the theorems of ...*, which names its parts; the properties are above it.
Definitions called *rejected variant* are plausible wrong forms of the
definition that follows them.  They are not part of any specification; they
exist so that each property can be shown to notice a mistake.

### 2.1 Gateway

Railway runs one asyncio loop, so an action is the code between two awaits that
really suspend: a send or close on somebody else's socket, a sleep, a receive.
`sock[s].ph` is where the handler of a client socket is: `kicking` (a host panel
that awaits the previous one's close), `live`, `stalled` (its send is in its
one-second time-out), `closing` (the disconnect is not delivered yet), `done`.
`todo` and `at` are the two loops that send clients away one by one (the session
switch of each daemon connection and the eviction): `WalkSend` is the awaited
send and close, `WalkPop` the removal that follows it.  `outbox` holds
announcements per connection, because a half-open old connection can still
deliver one; `inbox` and `online` are the presence messages and the daemon's set.
A daemon is the environment: it connects (perhaps announcing a session at once),
announces, loses its link.  When it reconnects, `DaemonConnect` cancels the timer,
`DaemonInstall` replaces the old connection after the awaited kick, and
`StatePush` sends the whole roster.

### 2.2 RequestReply and ProxyBridge

`RequestReply` is the promise: `Ask`, `Perform` at most once (a write, or a
rejection that changes nothing), `Return` with the verdict of that execution, or
`Fail`, which promises nothing.  `ProxyBridge` has the machinery: the future
registered before the send, the FIFO link in two halves that are lost separately
and noticed later, the queue and the workers, the local HTTP request that can be
`posted` and go on after the worker has given up, the events and the response as
two separate sends over whatever link there is by then, the time-outs on both sides.  The
refinement mapping is at the end of the module: `status` is `asked` while a call waits,
`answer` is the future's value once the call is `ok`.

### 2.3 SessionLifecycle

Four producers announce ids to Railway: the REST handler that creates or resumes
(before anything has happened), the main loop after it has executed the request, the
main loop at an end, and the reconnect callback on the WebSocket thread, which
reads the id and sends it in two steps (`SyncReads`, `SyncSends`).  `slot` is the
box of `session/pending.py`: one request, the last one put.  The main loop takes
it only while it believes the link is up, and runs each request in the order of
the code: `MainCreates`, `MainAnnounces`, `MainSaves`; `MainEnds`,
`MainClears`.  `Persist` is the backup of every three seconds, `DaemonRestarts` a crash at
any point followed by the boot.  The content of an activity is a set of tokens
`<<kind, id>>`: something a phone of session `id` said in an activity of that kind.

### 2.4 Quiz

One action per route.  The handlers do not suspend before their state is written, so
each is one step.  A vote is a set of options and a time; points are computed
with exact fractions and Python's rounding to even (`RoundDiv`).  `extra` and
`wiped` are history variables for the ledger: what other activities have awarded
since the quiz opened, and whether the host has reset the scores since.

### 2.5 MCActivities

The activities share the current activity, which each module takes in with
`Activity`, and the points, which are `Quiz`'s.  They touch nothing else of one
another, so the module explores them one at a time: `focus` says which one moves, the
others stay as they are, and `Activity.SetActivity` stands for what
the other activities do to this one.  `Debate` is taken in twice (`debate`: two people
and two arguments; `teams`: four people, for the sizes of the sides), over the same variables, and
the survey's routes are explored in two parts (`answers`, `ranking`).  Every set and every bound is
a constant that `MCActivities_all.cfg` gives a value, so that a theorem about the composition is
about any number of participants, options, arguments, lines and texts; `ActivitiesAssumption` is what is
asked of them.  That a component's theorem does not depend on the others standing still is what
`PollAlone`, `ReviewAlone` and `SurveyAlone` say: they are about the component's own specification, the
survey's with both parts at once.

### 2.6 MCServices

The services share no state at all.  `Limits` composes twelve of them and `Records` eleven, each with its own
variables under their own names: of those the properties are proved.  What is left is a second instance of three for a second question:
`Identity` with one who has everything done to him (`claims`; `names` has two people), `Materials` with decks
(`decks`; `archive` has two sessions) and `OpenedFiles` with two paths (`paths`; `repos` has two repositories).
These have at most fourteen variables, and `MCServices` lends them `v1` to `v14` by `INSTANCE ... WITH`.
In each initial state one service is chosen by `focus`, which `Records` calls `moving`, and moves alone.
`Init` contains `LimitsInit` and `RecordsInit`, and by each disjunct of `Next` the variables of `Limits` move by
`LimitsNext` or stay, and so do those of `Records` by `RecordsNext`: what is proved of `LimitsSpec` and `RecordsSpec`
holds of what the run explores.
What one service does to another appears as an input: a session that changes, a link
that is lost, a restart.  Three services are explored in parts of their actions that do not meet: `bridge`, `clipboard` and
`parcels` of `Relays`, `wiki` and `stars` of `Wiki`, `presenting`, `writing` and `reading` of `FollowMe`.

The slides cache has every caller of Railway's refresh in it: the checks that took the slot, the redownload poller, and
those past the slot: checks with `force=true`, the prefetch of the scan, the publisher.  Marking a deck as cached and
freeing the slot are two steps, as in the code, and what finds the deck cached and the slot taken is queued
(`pending`, `owed`).  `forced` and `beside` note who is under way past the slot; section 5 says what he can break.

`Reactions` measures the code from outside, by the ages of the hits it let through
(`took`, the last `Quota + 1` of each participant and control) and by what went through the bucket in
each stretch of time up to now (`passed`), beside the windows and tokens the code itself keeps.

## 3. What the runs show

All runs finish within minutes with two workers.  Every property of a passing run is
paired in `PROJECT.json` with a variant of the code that breaks it.

| Run | Instance | Shows |
|---|---|---|
| `gateway_steady` | 1 phone and the host, 3 sockets, 2 daemon connections, 1 lost link, 1 restart | `ListedIsServed`, `LiveStaysListed`, `PresenceSettled` |
| `gateway_switch` | 1 phone, 2 sessions, 2 announcements, 1 lost link | `CohortIsolation`, `LastAnnouncementWins`, `TypeOK` |
| `gateway_absence` | the daemon may stay away; fairness | `GraceRespected`, `AbsenceEndsSession` |
| `gateway_pop` (violation) | 2 phones, a switch | `LiveStaysListed` fails |
| `proxy_calls` | 2 calls, 1 worker, a lost link, a restart, a host write; fairness | `CallsAreAtomic` (refinement), `FuturesMatchCalls`, `OkMeansShownUnlessCut`, `EveryCallReturns`, `PoolDrains`, `TypeOK` |
| `quiz_rounds` | 2 participants, 2 options, votes at 0, 1 or 4 ticks, 3 of quizzes, reveals and bonuses together, a restore | `BallotsFit`, `ScoreExplained`, `RevealIsFair`, `TypeOK` |
| `quiz_debt` (violation) | 3 of quizzes and reveals | `NobodyInDebt` fails |
| `session_served` | 1 folder, 2 ids, 3 requests of any hosts, a lost link or a restart of the daemon, a midnight; fairness | `RunningIsServed`, `ServedInTheEnd`, `RequestsAreTaken`, `EndsWithItsDay` |
| `session_disk` | one host at the landing page, 2 folders, 2 ids, 3 requests, two of lost links and restarts of the daemon, a restart of Railway, a midnight | `RestartKeepsTheSession`, `ActivitiesSurvive`, `TypeOK` |
| `session_reactivated` (violation) | the same without midnight and activities | `ReconnectNeverReactivates` fails |
| `activities` | section 2.5 | see below |
| `services` | section 2.6 | see below |

A property of `activities` or `services` is a conjunction of the properties of the
components, each stated, with the code it is about, in the component's module:

| Property | Components |
|---|---|
| `BallotsFit`, `PhonesSeeTheTally`, `ResultsStand` | `Poll`: no ballot outlives its poll; phones and cache have the tally of the ballots; results that were announced stand |
| `TeamsAgree`, `AutoAssignBalances` | `Debate`: champions, arguments and assignments agree with the sides, which are even after an assignment |
| `PaidVotesStick` | `Debate`, `QuestionBoard`: a vote that was paid is not taken back, not even by a clean-up that answers late |
| `AnswersAgree` | `AiShare`: favourites are ticked, typed values stand under "Other", no vote is left for an item that is gone |
| `BoardIsFair` | `QuestionBoard`, `WordCloud`: questions are shown once each, by votes, with no vote missing; the order of the cloud lists the words that have a count |
| `ReviewPaysOnce` | `CodeReview`: a line pays a participant at most once, and only when confirmed |
| `FilesAreWhole` | `SessionFile!FileIsWhole`, `Uploads!NothingIsLost`, `Migration!LoadsTheSame`, `Highlight!WordsSurvive` |
| `ViewsAgree` | `AddonLink!OverlayKnows`, `Whereabouts!CountryFits`, `NotesWatch!PagesShowTheFolder` and `ToastsAreNews`, `StaticSync!SyncConverges`, `Identity!PhonesKnowTheNames` and `NobodyElseIsTrainer`, `Indexer!IndexIsCurrent`, `FollowMe!FollowersFollow` and `TotalsMatchTimeline` |
| `LimitsHold` | `Throttle!AtMostOnePush` and `ChangeIsOnItsWay`, `FxLever!RoomIsSpared`, `Reactions!LimitsHold`, `SlidesCache!OneDownload`, `ExportProbe!AlarmIsWatched`, `Handouts!MailsKeepApart`, `Relays!OneFits`, `OpenedFiles!NothingPrivate`, `DaemonLock!OneDaemon` |
| `ServedIsCurrent` | `Limits!ServedIsThere`: `SlidesCache!CachedIsThere`, `Handouts!FormSurvives`, `Relays!RequestsComeHome`, `OpenedFiles!OpenedStays` and `RelinkHeals`, `SlidesPublish!LossesAreKnown`, `Wiki!ServedOrOwed`, `RootIsServed` and `StarsAreKept`, `Materials!ArchivesAreWhole` and `ArchivesAreOurs`; beside it `Materials!DecksFit` and the second instances |

Many of these hold only while nothing has crossed: the modules keep a history variable
(`crossed`, `raced`, `mixed`, `torn`, `lost`, `clashed`, `forced`, `beside`, `short`, `late`, `botched`) that becomes true at the very step where
two activities of the program met in the order nobody planned for, and the property is
stated for what happens without it.  The same property without the condition is one
of the promises of section 5, and TLC shows the meeting that breaks it.

### 3.1 Bounds, and why they are enough

* *Gateway.*  A phone needs two sockets for a reconnection and a third for the
  one that replaces a replacement; two daemon connections are an old half-open one
  and a new one.  Finished sockets and connections are reused (`Recycle`), so the
  number of reconnections is not bounded, only how many overlap.  The phones
  interact only through the session id and the loops that visit them; two are used
  where a loop must be between two of them.  The steady and the switch run are
  separate because their product is out of reach: a switch needs two sessions
  and two announcements, a stay needs the host and a restart.  `MaxMail` is a guard on
  handlers that send presence; the daemon's own queue is unbounded.  The theorems of section 4
  have none of these bounds but one session where they say so.
* *ProxyBridge.*  Two calls are what a wrong match of answers needs; a restart of
  Railway and a lost link (from either end, noticed later by the other) are the two ways
  an answer gets lost or late.  One worker is the hard case for `PoolDrains`: the second job waits for it.  The theorems
  hold for any number of workers.
* *SessionLifecycle.*  Two folders and two ids are the old session and the
  new one; three requests are create, end, create.  `session_served` lets any host
  request anything, which is why one folder is enough: the second only matters to what is on disk.
  Lost links and restarts of the daemon share one bound (`MaxOutages`), a restart being a lost link too.
  `session_disk` restricts the host to
  the guards of the landing page (`PageFlow`) and to names no folder has
  (`FreshNames`), because the code breaks `RestartKeepsTheSession` otherwise: section 5.
* *Quiz.*  Two participants are needed to compare votes; two options with single and
  multiple choice give every ratio of right and wrong; three events are a reveal
  repeated, a quiz replaced after a reveal, or a bonus between the two.  Times 1 and 4 are
  on both sides of the clamp of the speed bonus (three times the delay of the fastest).
  `RevealIsFair` ranges over every reveal that could follow, not only those the budget allows.
* *Activities.*  Two participants meet at one argument, question or line; four are what an
  uneven draw of sides needs.  Three items on a list of three ids make the survey use an id again;
  three questions are an order that an upvote changes in the middle; three reviews are two that
  wait for the language model beside one that is shown; two panels are the two hosts' pages.
  A ballot of two indices (`MaxNamed`) may repeat one, which is what makes a tally exceed the voters and a ballot of a
  multi poll not fit a single choice; two starts (`MaxStarts`) may wait for the host at once.
* *Services.*  Two of a kind where two must meet (participants at the lever, sessions, decks,
  tablets, daemons), one where the code keeps them apart (the deck of the cache, the file of the
  index).  Versions, saves and runs go to the smallest number at which the interesting
  overlap happens: two saves of a deck during one export, three writes to the
  notes around a probe of four reads, three starts of a daemon for a lock that is judged, taken and judged again.
  `Throttle` counts three ticks for an interval, so that a request falls at its beginning, within and at
  its end; `Relays` has room for one parcel of two units and not for two.

No deadlock check is switched off for `Gateway`, `Quiz` and the activities: they can always
take a step.  `ProxyBridge`, `SessionLifecycle` and some services stop when the bounded
requests are used up and everything is delivered, so their configurations say `CHECK_DEADLOCK FALSE`.

### 3.2 Fairness

Only what the code schedules by itself is fair: tasks and timers of asyncio
(`WF` on handlers, sends with a time-out, the grace sleep), the daemon's main loop,
the worker threads, and in `SessionLifecycle` the client's endless reconnect loop
(`ws_client.py:114`).  Hosts, phones, failures, midnights and the
local HTTP handlers owe nothing.  `session_served` needs the reconnection because
the main loop takes no request while the link is down; `EveryCallReturns`
does not need the link at all, only Railway's own timer.  The compositions of
activities and services state no fairness: what must eventually be done
there is stated as a debt (`ChangeIsOnItsWay`, `ServedOrOwed`, `LossesAreKnown`): either it has been
done, or somebody still holds the request to do it.

## 4. What is proved

| Theorem | Says | Argument |
|---|---|---|
| `GatewayProofs!TypeCorrect`, `ListIsServed` | `[]TypeOK`, `[]ListedIsServed` | `ListedInv`: a handler that has not ended, and only one of that participant, owns the entry; the clean-up compares before it removes |
| `GatewayProofs!GraceIsRespected` | `[]GraceRespected` | `GraceInv`: the timer sleeps only while nobody is connected, and `away` counts at least as long as it has slept |
| `GatewayProofs!AnnouncementsWin` | `[]LastAnnouncementWins` | `AnnouncedInv`: what the outbox of the newest connection ends in, or the session id when it is empty, is what was announced last |
| `GatewayProofs!CohortsStayApart` | `[]CohortIsolation` while the daemon returns within the grace | `LoopsInv` and `CohortInv`: a socket of an earlier session is still on the list of a loop that will close it |
| `GatewayProofs!LiveSocketsStay` | `LiveStaysListed` within one session | `NoWalk`: within one session no loop of a switch or an eviction ever runs, and every other removal compares the socket |
| `GatewayProofs!PresenceSettles` | `[]PresenceSettled` within one session | `PresenceInv`: the online set differs from the roster only by what mail is under way, a push still owes, or a handler has not said yet |
| `ProxyBridgeProofs!TypeCorrect`, `BridgeInvariant` | `[]IInv` | for each call, where its request, its job, its local HTTP request and its reply can be at the same time: a reply on the way carries the verdict of the handler or an error, a job is in the queue at most once, a future is empty while its call waits |
| `ProxyBridgeProofs!FuturesMatch` | `[]FuturesMatchCalls` | from `IInv` |
| `ProxyBridgeProofs!BridgeIsAtomic` | `Spec => CallsAreAtomic` | every step is mapped to a step of `RequestReply` or to a stutter; a restart fails all waiting calls at once, which is why `Fail` takes a set |
| `ProxyBridgeProofs!OkIsShown` | `[]OkMeansShownUnlessCut` | `ShownInv`: a good reply on the wire stands behind its event, or the event has been shown, or the call was cut |
| `Quiz!TypeCorrect`, `OnlyValidBallots` | `[]TypeOK`, `[]BallotsFit` | inductive together: a ballot is checked against the quiz that is there, and `CreateQuiz`, `ClearQuiz` drop the votes with it |
| `Quiz!LedgerHolds` | `[]ScoreExplained` | the ledger is stated per participant as score = base + awarded + extra, inductive with `TypeOK`; a reveal takes back exactly `awarded` before it awards anew |
| `Quiz!RevealsAreFair` | `[]RevealIsFair` | not an induction but arithmetic: division, and so rounding to even, keeps the order and leaves whole numbers alone; the speed falls with the time and lies in 500..1000; products grow in both factors |
| `SessionLifecycleProofs!TypeCorrect`, `LifecycleInvariant` | `[]IInv` | `Told`: the last word sent to Railway is the id that runs, unless the slot, the main loop or the reconnect callback still owes it, or the callback has crossed a switch |
| `SessionLifecycleProofs!RunningServed` | `[]RunningIsServed` | when things are quiet nobody owes anything, so the last word is the running id and it has arrived |
| `SessionLifecycleProofs!BackupsGrow` | `[][...]` `ActivitiesSurvive` | `KeptInMemory`: memory holds at least what the running folder has; `ClearedFirst`: it is loaded from the folder whenever a session without one is entered |
| `SessionLifecycleProofs!RestartFindsIt` | `[]RestartKeepsTheSession` for one patient host and new names | `DiskInv`: a session has one folder, asks for no id in use, and between two requests what is running is what is saved |
| `ActivitiesProofs!ActivitiesInvariant`, `ActivitiesTyped` | `[]ActivitiesInv`, `[]TypeOK` of `MCActivities` | one conjunct per activity, each inductive under its own steps, under `SetActivity`, and when another activity moves |
| `ActivitiesProofs!BallotsAlwaysFit`, `PhonesAlwaysSeeTheTally`, `ResultsAlwaysStand` | `[]BallotsFit`, `[]PhonesSeeTheTally`, `ResultsStand` | `Poll!ShownInv`: the two are only inductive together with the cache, which has the counts or is marked dirty, and with `RunsOrEnded`, since a poll that runs has not ended; phones are told when the start has come back from the host |
| `ActivitiesProofs!ReviewAlwaysPaysOnce` | `[]ReviewPaysOnce` | `ReviewInv`: what is paid was confirmed, with the selections frozen at the close |
| `ActivitiesProofs!AnswersAlwaysAgree` | `[]AnswersAgree` | `SurveyInv`: hearts are bits of ticked boxes; votes, taps and items stay below the highest number ever used; answers and ranking interleave |
| `ActivitiesProofs!BoardIsAlwaysFair` | `[]BoardIsFair` | `BoardInv`: questions have ids of their own and the next one is new, so sorting by votes keeps each once; `CloudInv`: words are known finitely often |
| `ActivitiesProofs!AssignmentsAlwaysBalance`, `Debate!AssignmentsStayEven` | `AutoAssignBalances`, of the composition and of a debate by itself | `Joined`, a closed form of the loop of `auto_assign_remaining`, satisfies its recurrence (`JoinedStep`); a least number on which the two differ cannot exist (`ForShareIs`); then sets of people are counted |
| `ActivitiesProofs!TeamsAlwaysAgree`, `PaidVotesAlwaysStick` | `[]TeamsAgree`, `PaidVotesStick` | from the lemmas of `Debate`, of both its instances; a question that is edited or answered keeps its upvotes |
| `Debate!TypeCorrect`, `TeamsAlwaysAgree`, `PaidVotesStay` | `[]TeamsAgree`, `PaidVotesStick` of a debate by itself | `Teams`: sides, champions, authors and automatic assignments; a clean-up merges arguments and keeps the union of their voters |
| `LimitsProofs!LimitsInvariant`, `LimitsAlwaysHold`, `ServedIsAlwaysThere` | `[]LimitsInv`, `[]LimitsHold`, `[]ServedIsThere` | component by component, see below; `ServedIsThere` is what `ServedIsCurrent` says of the twelve |
| `RelaysAlone`, `WikiAlone` (`LimitsProofs`), `RosterAlone`, `FollowAlone` (`RecordsProofs`) | the same of `Relays`, `Wiki`, `Identity` and `FollowMe` by themselves | all parts of each at once, under its own specification |
| `RecordsProofs!RecordsInvariant`, `RecordsTyped` | `[]RecordsInv`, `[]RecordsTypeOK` | component by component, see below |
| `RecordsProofs!ViewsAlwaysAgree`, `FilesAreAlwaysWhole` | `[]ViewsAgree`, `[]FilesAreWhole` | conjuncts of `RecordsInv`, or what it says of a moment in which nothing is under way |

`LimitsHold` and `ServedIsThere` follow from an inductive invariant per component:

* `Throttle`: `Paced`, a booked run falls an interval after the last one, and `Decided`, a run about
  to begin was decided on in this tick; without them a timer and a request could both find the interval over.
  `ChangeIsOnItsWay` is inductive with them: a change has been pushed, or a run is booked, spawned or posted that will push it.
* `FxLever`: `ClockIsTheRooms`, until presses of two overlap the daemon's clock shows the press the room
  heard last, and one press at most is on its way; so the brake reads the truth.
* `Reactions`: `Covers`, the hits of a participant that are still within the window are the newest ones the limiter
  keeps, position by position from the end, although it forgets others' windows in between; `BucketInv`, for
  each stretch of time what is left and what it gave is no more than a full bucket and what flowed in.
* `SlidesCache`: `SlotIsForOne`, until a check with `force=true` the slot is taken exactly while one check or one poller
  downloads; and `CopyIsBehindIt`: until who has not the slot deletes the copy, or a probe runs beside who has it, a deck
  called cached while the slot is taken was marked by its holder, who deletes nothing any more, and an answer has a copy behind it.
  Both come back, when those past the slot are done, and with the next download or probe.
* `ExportProbe`: `OneIsAboutTo`, of all probes ever started one at most is about to raise the alarm, and the
  one that is not cancelled has not ended, so an alarm that rings has somebody who watches for its end.
* `Handouts`: the clock of the mails, and `OneWaitsForTheDisk`, while nothing crosses one write of the marker at most is
  under way, in the session that is on.  `Relays`: `RoomForOne`, while uploads come one at a time there is
  room for what has been read of the one under way; `BridgeInv`, ids on the way are of requests their tablet has asked.
* `OpenedFiles`: `Honest` documents, and `Remembered`: the document, the copy a recorder has in hand and the one the relink
  command has in hand are of public repositories, and a cached tree was true once; so a rewrite, whoever does it, lists nothing private.
  `KeptInv`: no document names a file twice, and until two rewrite it at once it has what was opened.
* `DaemonLock`: `Alone`, until two starts overlap, who runs holds the lock and renews it, and who starts finds that
  daemon healthy and leaves.
* `SlidesPublish`: `InStep`, while each save is published before the next, the fingerprint recorded of a deck is that of what is
  published, or of the PDF in hand, and no record is ahead of the deck; so what a step overtakes is marked as behind.
* `Wiki`: `JobFits`, a job has a site no older than the vault it was started for; `ServedFits`, a site that counts as published
  is what Railway has, unless it came back or a job is about to send it; `StarsAreKept` is inductive by itself.
* `Materials`: `OneAtATime`, until an upload outlives a redeployment the slot is for one request, on its way or in work, and
  a `.part` file is of the upload being written; so the archive installed is that upload's and nobody else's.

`ViewsAgree` and `FilesAreWhole` follow from one per component as well:

* `AddonLink`: `Heard`, what the add-on will know when it has heard everything on the wire (`Coming`) is the session there
  is, unless a callback met a change, a message was lost or the folder was renamed; `Orderly`, a callback that met no change
  holds what is so.
* `Whereabouts`: `AnswersFit`, while look-ups do not overlap each of them, and each line of the backlog, is of the location its
  participant has now, so that whatever it brings fits.
* `NotesWatch`: `PagesAreOfProbes`, a time of writing tells the text of a file and the pages show the last probe;
  `SinceTheEntry`, what a probe found in the room is at least as long as what was there on entering, so a toast is news.
* `StaticSync`: `JobsAreTheDifference`, the uploads and deletions a clean sync has left are all that is still different, and
  pages that missed no reload differ from what is served only by what the job has changed; a request that Railway carries out
  after it was given up (`late`) ends both.
* `SessionFile`: `SavesAreMerged`, while no two saves overlap, the text about to be written has what the other writer
  saved of its own, and the temporary file is the writer's own.
* `Uploads`: `ThreadsKeepApart`, while no two threads take one path and no redeploy numbers anew, a thread has a path of its own
  with nothing under it until it has fetched, and then the very file Railway has under that number, or a part of it if
  the transfer was cut off without an exception (`short`).
* `Migration`: `RunsAreOfTheFile`, a run is about the file as it is, unless a save came between; each step then keeps
  what the loader makes of it.
* `Identity`: `GateTells`, what last passed the gate that spares the phones repetitions is what they and the sheet have;
  `NothingIsForgotten`, a change that has not passed it has a handler that will bring it there; `ClaimsAreMade`, in memory and in the file.
* `Indexer`: `HeldIsRecorded`, the collection has of a file what the manifest says, except at the worker's own steps between
  the two, and unless a deletion or an embedding failed (`botched`); `NotedIsSo`, what is noted of a file fits it, and where nothing is noted the manifest does.
* `FollowMe`: the two properties are inductive with the types.  A pass takes a whole queue: the last event that is followed
  says where it ends (`LastPlace`: among finitely many places there is a last one), and the seconds of a slide in two
  lists are those in the one and those in the other (`SecondsAdd`), so adding what waited keeps totals and moments together.
* `Highlight`: `JobsAreOfTheFile`, what is about to be written is what was read with at most one mark more
  (`MarksKeepTheWords`), and it was read after the last edit, unless one came between.

The assumptions are those named in the modules (`GatewayAssumption`,
`QuizAssumption`, `ProxyAssumption`, `SessionAssumption`; `ActivitiesAssumption`, `LimitsAssumption` and
`RecordsAssumption` are those of the components together): numbers are
naturals, special values are not members of the sets, what is counted is finite.  TLC evaluates each on
the run of its composition.  Where a theorem is conditional, the
condition stands before its arrow and is a choice of constants: `BlipsOnly`, one
session (`OneSession`), the landing page's discipline (`Landing`).  Section 5 shows what
happens without it.  Nothing bounds the number of phones,
calls, workers, folders, ids, votes, losses, restarts, opened files or processes in a theorem; the bounds of
the compositions (`MaxStarts` and the like) are constants, and a theorem holds for each value of them.

Three services are explored in parts by the composition because their product is large: `RelaysAlone`, `WikiAlone` and
`FollowAlone` are about all parts at once.  `RosterAlone` is about `Identity` with everything that writes and loads the session's file,
which the run explores for one participant.  Every constant of a component being arbitrary in them, these theorems and those
of the compositions also say of one participant, two paths or archives with decks what the second instances of the run show.

Only model-checked: of `ServedIsCurrent` the property `DecksFit` (a fold over a list of decks, so induction over data);
the services' `TypeOK` as a whole (that of
the eleven of `Records` is proved, the invariants of `Limits` carry the types they need); and all liveness
properties: fairness and `ENABLED` are out of the prover's reach.

## 5. Disagreements between the code and its documents

Three are runs that are expected to violate one property; the property quotes the
document and the finding in `PROJECT.json` gives both places.

| Run | What the code does |
|---|---|
| `gateway_pop` | The loop of a session switch pops a phone's entry after two awaits without looking whether it is still the old socket: a phone that has joined the new session gets no events until it reconnects. |
| `quiz_debt` | The reset of the scores leaves the quiz's awards, and the next reveal takes them back again. |
| `session_reactivated` | The reconnect callback reads the id, the session ends, the callback sends the id. |

The others are definitions that no run lists, each with the place it is taken from in its
comment.  TLC finds a short counterexample to each.  For the core, give it as the
only property of the configuration named here, with the changes in the third column.

| Definition | In | With | What the code does |
|---|---|---|---|
| `ClearedMeansEmpty` | `Gateway_pop.cfg` | `BlipsOnly = FALSE`, `MaxSwitches = 0`, `MaxDrops = 1`, one session | The eviction (`ws/router.py:253`) visits a snapshot and clears the session id last: who joins in between stays connected to nothing. |
| `OkMeansShown` | `ProxyBridge_calls.cfg` | – | Events and response are separate sends (`proxy_handler.py:163`), dropped silently without a link: `200` and no broadcast, against "This ensures Railway has updated AppState and broadcast to participants before the HTTP response reaches the calling participant" (`docs/superpowers/specs/2026-04-03-rest-proxy-identity-design.md:58`). |
| `TimerOnlyWhileOpen` | `Quiz_debt.cfg` | – | A timer can be started on a closed quiz (`quiz/router.py:153`), against `quiz/state.py:51`. |
| `EndedIsNotServed` | `SessionLifecycle_reactivated.cfg` | – | The message that clears the session (`__main__.py:1419`) is sent once; lost with the link, nothing repeats it. |
| `RestartKeepsTheSession` | `SessionLifecycle_reactivated.cfg` | `FreshNames = FALSE` | Creating under the name of a folder with an id (`__main__.py:1246`): memory has the new id, the folder keeps the old one, a restart finds neither. |
| `CleanSlate` | `SessionLifecycle_reactivated.cfg` | `Kinds = {"other"}`, `Today = f1` | A session created after the daemon has started itself on today's folder is not cleared (`__main__.py:1260`) and keeps writing there. |
| `EverythingSurvives` | `SessionLifecycle_reactivated.cfg` | `Kinds = {"quiz"}` | The boot (`__main__.py:268`) restores everything but the quiz, and the first backup writes an empty one over it. |
| `AnnouncedIsCurrent` | `MCActivities_all.cfg` | – | Some of the seven writers of the activity change it without telling the phones (`poll/router.py:170`: a stopped poll that is cleared). |
| `LatestReviewWins`, `RemovesWhatWasShown` | `MCActivities_all.cfg` | – | A smart paste that answers late replaces the review opened after it; a queued question is removed by the position of an older list. |

For a component of `MCActivities` or `MCServices`, take the composition's configuration and the
instance named there, start from `Init /\ focus = "..."`, and check the definition alone.

| Component (focus) | Definition | What the code does |
|---|---|---|
| `Poll` (poll) | `PollSurvives` | Snapshots of polls are dropped by the load (`persisted_models.py:316`): a restart forgets a running poll. |
| `Identity` (claims) | `TrainerStaysTrainer` | The claim is persisted by one writer and the name by another; a restart between them demotes. |
| `Identity` (names) | `SheetTagsRight`, `SheetIsComplete` | Who types the fictional name he has is untagged in memory, not in the sheet; of two browsers that claim the trainer's name, the second has no row when the first goes on under another. |
| `Identity` (names, with all of `Next`) | `GuestStaysTagged` | A fictional name flushed before its tag comes back untagged. |
| `Whereabouts` (places) | `CountryAlwaysFits` | The look-up of a place that was sent later fails, and the country of the earlier one stays. |
| `SessionFile` (file) | `AlwaysWhole`, `PointsSurvive` | Two threads use one temporary name; the handlers' write carries points the main loop has already replaced. |
| `Throttle` (throttle) | `AsyncRunsOnce` | Two requests in one tick both start a run at once: the time is noted when it runs. |
| `FxLever` (lever) | `OneLever`, `OnlyTheGranted` | Two presses pass the brakes before either notes the time; a grant taken away during the await presses still. |
| `SlidesCache` (cache) | `SlotIsTheTruth`, `PictureIsAccurate` | A check with `force=true` takes no look at the slot (`slides/router.py:258`); a probe from before a redeploy notes the deck as cached after it. |
| `SlidesCache` (cache) | `NobodyWaitsInVain` | Who found the slot taken starts to wait after it was released. |
| `SlidesCache` (cache) | `QueuedIsServed` | The release looks at the queue while a scan that found the slot taken has not queued its redownload yet: it stays queued until the next download. |
| `SlidesCache` (cache) | `ChangesAreFollowed` | A change while the daemon was off: the probe of its start notes the old copy with the new date of the deck, and no download follows. |
| `SlidesPublish` (publish) | `ExportedIsPublished`, `NobodyIsHeldUp` | A save during the export is recorded as published; a deck that fails is tried first, before one that has never been tried. |
| `Debate` (debate) | `ResultsComeHome` | Nothing cancels a clean-up that is under way nor names its debate: it answers into the one launched since, adds its arguments there and moves it on to `prep`. |
| `AiShare` (ranking) | `TapsHitWhatWasShown` | The number of a deleted last item goes to the next one (`aishare/state.py:233`): a late tap votes for another text than the page showed. |
| `FollowMe` (presenting) | `CountIsShown`, `FreshTalkOpens` | The count is not repeated to who missed it; a deck the host has cleared stays cleared in the next session. |
| `Uploads` (uploads) | `WholeIsSaved`, `SavedStays`, `AckIsForItsFile`, `EverySavedIsListed` | A transfer that ends early without an exception is taken for complete, listed and acknowledged (`upload.py:47`, `:92`), and Railway removes its copy; two threads find the same name free; after a redeploy numbers are given again, and old acknowledgements and lines meet new files. |
| `Handouts` (handouts) | `FormStaysHome`, `AlwaysSurvives` | The session changes, or the form is retracted, while its marker is written: the link opens in another room, or outlives its marker. |
| `Relays` (parcels; clipboard) | `TwoFit`; `NewestIsNews`, `ReadOnce` | Two uploads pass the total together; a clip's number is there before the clip, so that a reader takes the old clip under the new number and never gets the new one. |
| `Relays` (bridge, three Macs) | `OneMac` | Two Macs that replace the same third are connected side by side. |
| `Wiki` (wiki; stars) | `AlwaysServed`; `StarsSurvive`, `StarStaysHome` | Railway restarts between an upload and its record, which then says it has the site; a star whose file could not be written is gone at the restart, one set while the session changes goes to the new one. |
| `Materials` (archive) | `WaitedForIsUnderWay`, `ArchivesAlwaysOurs` | A request lost with the link leaves its callers waiting for their time-out; the daemon zips the folder it is in by then. |
| `OpenedFiles` (paths) | `OpenedAlwaysStays` | Recorder and relink command rewrite one document. |
| `OpenedFiles` (repos) | `ReasonsAreFacts`, `MigrationIsComplete` | A failure of GitHub becomes a reason in the document; the key is stripped although a file of it could not be moved. |
| `NotesWatch` (notes) | `OnlySharedIsSeen`, `PagesAlwaysShowTheFolder` | A line the trainer has not shared is toasted with the one before it that he has, when both come in one probe; a write during the probe is taken for seen. |
| `DaemonLock` (lock) | `AlwaysOneDaemon`, `LockOfTheHealthy` | Two starts judge the same lock before either has written it; the one that ends removes the other's. |
| `AddonLink` (addon) | `EndIsKnown`, `FolderIsKnown`, `AlwaysKnows` | An end or a rename the add-on missed is not repeated; a reconnection reads the id before and the folder after a change. |
| `Migration` (migration) | `SavesStay`, `BackupIsWhole` | The script replaces what the daemon saved meanwhile; a backup cut off is taken for one. |
| `StaticSync` (static) | `PagesFollow`, `OddFollow` | A reload lost with the link is not made up for; for a request that Railway carries out after it timed out there is none, since it counts as failed; a file of a kind Railway refuses is never brought nor removed. |
| `Highlight` (highlight) | `EditsStay`, `RightOccurrence` | An edit between the second reading and the write is lost; a mark set meanwhile on a neighbour changes context and offset, and another occurrence fits better. |
| `Indexer` (index) | `OffIsCaughtUp`, `ParsesAgain`, `HashedIsIndexed`, `FailuresAreRedone`, `WorkerSurvives` | Nothing looks for changes made while the daemon was off; the manifest keeps hashes of what is not in the collection, so that a content that comes back is taken for indexed; a deletion that fails and a chunk that cannot be embedded are passed over, and the file counts as gone or indexed (`indexer.py:174`, `:196`); a file that goes between the check that it is there and its hash, or a collection that refuses the chunks, ends the worker. |

More divergences were met that no property is about: the purge, which its handler calls
complete (`daemon/participant/purge.py`), leaves a participant's survey answers, sound grants
and their counts.

Hazards beyond the forty of `PROJECT.json`, all in modules above and covered there: the
roster snapshot of the eviction (`ws/router.py:253`) and the id checked before the host panel's await
(`:367`); a call of the old session performed after the switch (`proxy_handler.py:139`), events of two
workers in the opposite order (`:163`) and a queue longer than the caller's patience (`:84`); the
timer of a closed quiz (`quiz/router.py:153`); the end lost with the link and the uncleared session
(`__main__.py:1419`, `:1260`); registrations between announcement and reset (`session/router.py:247`); the
activity after a cleared poll (`poll/router.py:170`).

## 6. Limits

Left out of the modules above, on purpose: wording and formats, authentication,
the content of events, the read-only pages of past sessions, the type of a session (talk
or workshop) but for what the page of a talk shows, the stack of paused sessions
(the main loop has the code, nothing puts such a request), the battery of a tablet (one value that is overwritten).

Not modelled, and why:

* `scripts/` but for the migration: generators of documents and patches of the site's
  renderer, run by hand at build time, with no state that lasts.
* Message schemas (`ws_messages.py`), `host_server.py`, `host_state` builders, pages,
  authentication, configuration: types, snapshots of the components above, redirects.
* The soundboard (a read-only query), the inbox (one webhook that pushes what it was sent).
* Transcript and summary readers: parsing; of the transcript only its reset touches a session.
* LLM, retrieval and telemetry adapters: outside services.  What is modelled is when they answer
  (`Debate`, `CodeReview`, `Whereabouts`, `SlidesPublish`, `OpenedFiles`), never what.
* Browser code: of it only the landing page's guards (`SessionLifecycle`) and what a page holds
  when it sends (`QuizQueue`, `AiShare`, `Highlight`).

What could follow: `Gateway` and `SessionLifecycle` with one channel of
announcements between them, so that a cohort is followed from the host's request to a phone;
`Identity` within `SessionLifecycle`, for registrations that arrive between the announcement
and the reset; a single-flight cell as the
abstract specification of `Materials` and `SlidesCache`.
