------------------------------- MODULE Limits -------------------------------
(***************************************************************************)
(* The services that limit something or serve something: how often the      *)
(* daemon pushes, how often the room hears the lever, what a phone may       *)
(* react, how many downloads run, which alarms stay, how many mails go out,  *)
(* how much is held for the trainer's devices, what the document of the      *)
(* opened files tells, how many daemons there are; and the slides, the site  *)
(* and the archives that are made of what the trainer has.  They share no    *)
(* state, so they are explored one by one: focus says which one moves.       *)
(***************************************************************************)
EXTENDS Integers, FiniteSets

CONSTANTS
  Pids, Ringers,                    \* participants; those who react
  Host, None, Torn,
  Interval, MaxPending,             \* Throttle
  Tiles, Cooldowns, MaxPresses,     \* FxLever
  Quota, Window, Burst, Rate, Look, \* Reactions
  Pollers, Outsiders, Attempts, MaxVersion, MaxPast,   \* SlidesCache
  MaxProbes,                        \* ExportProbe
  Sessions, FormLinks, MaxPastes, MaxReports, MinGap, MaxTexts,  \* Handouts
  Macs, Tablets, MaxRequests, FileIds, Size, MaxTotal, MaxClips,  \* Relays
  Repos, Public, Branches, Default, RepoPaths, MaxOpens,       \* OpenedFiles
  Processes, MaxStarts,             \* DaemonLock
  Decks, MaxSaves,                  \* SlidesPublish
  Vaults, Readers, WikiNotes, MaxRevisions,              \* Wiki
  Callers, ArchiveDecks, DeckSizes, MaxZip, MaxBuilds   \* Materials

VARIABLES
  focus,  \* the service that moves
  kind, up, since, timer, posted, spawned, dirty, quiet,
  enabled, granted, tile, cooldown, fired, lastOk, counts, presses, heard, overlapped,
  allowed, hits, tokens, took, passed,
  source, drive, file, fetching, ask, deckLinked, status, sha, noted, active, pending,
  owed, checks, poller, scan, probe, past, forced, beside,
  healthy, workers, current, alarming, shown,
  session, texts, made, reports, age, gap, url, page, marker, jobs, mixed,
  mac, joining, alive, asked, parked, inbound, answered, box, clips, writing, after, got,
  files, streams, crossed,
  pushed, ever, doc, legacy, visible, trees, todo, opens, mine, cli, kept, twoWriters, rotten,
  pc, seen, lock, stalled, signalled, starts, raced,
  deckSource, deckDrive, exports, exportsFile, exportMarker, publishedDecks, cooling,
  exportJob, listedDecks, lucky,
  wikiRoom, vault, vaultEdits, known, publishedKey, payload, resend, buildFailed, wikiJob,
  site, wikiLinked, wikiRaced, starring, takeaways, stars, savedStars, unsaved, starsShown,
  archiveLinked, archiveRoom, zippedFolder, slot, archiveCallers, inbox, builds, posting,
  zipWriting, zipPart, zip, zipFresh, cachedDecks, zipHistory

Throttle == INSTANCE Throttle
Lever == INSTANCE FxLever WITH crossed <- overlapped
Reactions == INSTANCE Reactions WITH Pids <- Ringers
Cache == INSTANCE SlidesCache WITH Failed <- Torn, linked <- deckLinked
Probe == INSTANCE ExportProbe
Handouts == INSTANCE Handouts WITH Links <- FormLinks
Relays == INSTANCE Relays
Opened == INSTANCE OpenedFiles
  WITH Paths <- RepoPaths, seen <- visible, crossed <- twoWriters
Lock == INSTANCE DaemonLock WITH Pids <- Processes
Publish == INSTANCE SlidesPublish WITH MaxVersion <- MaxSaves, source <- deckSource,
    drive <- deckDrive, state <- exports, saved <- exportsFile, marker <- exportMarker,
    published <- publishedDecks, job <- exportJob, listed <- listedDecks
Wiki == INSTANCE Wiki WITH Sessions <- Vaults, Pids <- Readers, Notes <- WikiNotes,
    MaxEdits <- MaxRevisions, session <- wikiRoom, edits <- vaultEdits,
    published <- publishedKey, failed <- buildFailed, job <- wikiJob, linked <- wikiLinked,
    raced <- wikiRaced, saved <- savedStars, shown <- starsShown
Archive == INSTANCE Materials WITH Decks <- ArchiveDecks, Size <- DeckSizes,
    linked <- archiveLinked, session <- archiveRoom, folder <- zippedFolder,
    waiting <- archiveCallers, writing <- zipWriting, part <- zipPart, fresh <- zipFresh,
    cached <- cachedDecks, history <- zipHistory

ASSUME LimitsAssumption ==
  /\ Throttle!ThrottleAssumption /\ Lever!LeverAssumption /\ Reactions!ReactionsAssumption
  /\ Cache!CacheAssumption /\ Probe!ProbeAssumption
  /\ Handouts!HandoutsAssumption /\ Relays!RelaysAssumption /\ Opened!OpenedAssumption
  /\ Lock!LockAssumption /\ Publish!PublishAssumption /\ Wiki!WikiAssumption
  /\ Archive!MaterialsAssumption

throttleVars == <<kind, up, since, timer, posted, spawned, dirty, quiet>>
leverVars == <<enabled, granted, tile, cooldown, fired, lastOk, counts, presses, heard, overlapped>>
reactionVars == <<allowed, hits, tokens, took, passed>>
cacheVars ==
  <<source, drive, file, fetching, ask, deckLinked, status, sha, noted, active, pending,
    owed, checks, poller, scan, probe, past, forced, beside>>
probeVars == <<healthy, workers, current, alarming, shown>>
handoutVars == <<session, texts, made, reports, age, gap, url, page, marker, jobs, mixed>>
relayVars ==
  <<mac, joining, alive, asked, parked, inbound, answered, box, clips, writing, after, got,
    files, streams, crossed>>
openedVars ==
  <<pushed, ever, doc, legacy, visible, trees, todo, opens, mine, cli, kept, twoWriters,
    rotten>>
lockVars == <<pc, seen, lock, stalled, signalled, starts, raced>>
publishVars ==
  <<deckSource, deckDrive, exports, exportsFile, exportMarker, publishedDecks, cooling,
    exportJob, listedDecks, lucky>>
wikiVars ==
  <<wikiRoom, vault, vaultEdits, known, publishedKey, payload, resend, buildFailed, wikiJob,
    site, wikiLinked, wikiRaced, starring, takeaways, stars, savedStars, unsaved, starsShown>>
archiveVars ==
  <<archiveLinked, archiveRoom, zippedFolder, slot, archiveCallers, inbox, builds, posting,
    zipWriting, zipPart, zip, zipFresh, cachedDecks, zipHistory>>
limitVars ==
  <<focus, throttleVars, leverVars, reactionVars, cacheVars, probeVars, handoutVars,
    relayVars, openedVars, lockVars, publishVars, wikiVars, archiveVars>>

\* A service that does not move starts in one of its initial states only.
LimitsInit ==
  /\ Throttle!Init /\ (focus # "throttle" => kind = "loop")
  /\ Lever!Init /\ (focus # "lever" => tile = CHOOSE t \in Tiles : TRUE)
  /\ Reactions!Init
  /\ Cache!Init /\ (focus # "cache" => file = None /\ deckLinked)
  /\ Probe!Init /\ (focus # "probe" => healthy)
  /\ Handouts!Init /\ (focus # "handouts" => session = CHOOSE s \in Sessions : TRUE)
  /\ Relays!Init
  /\ Opened!Init /\ (focus # "repos" => legacy = {})
  /\ Lock!Init
  /\ Publish!Init
  /\ \/ Wiki!Init /\ (focus # "wiki" => wikiRoom = CHOOSE s \in Vaults : TRUE)
     \/ focus = "stars" /\ Wiki!InitServed
  /\ Archive!Init /\ (focus # "archive" => archiveRoom = CHOOSE s \in Sessions : TRUE)

LimitsNext ==
  /\ UNCHANGED focus
  /\ \/ focus = "throttle" /\ Throttle!Next
     \/ focus # "throttle" /\ UNCHANGED throttleVars
  /\ \/ focus = "lever" /\ Lever!Next
     \/ focus # "lever" /\ UNCHANGED leverVars
  /\ \/ focus = "reactions" /\ Reactions!Next
     \/ focus # "reactions" /\ UNCHANGED reactionVars
  /\ \/ focus = "probe" /\ Probe!Next
     \/ focus # "probe" /\ UNCHANGED probeVars
  /\ \/ focus = "handouts" /\ Handouts!Next
     \/ focus # "handouts" /\ UNCHANGED handoutVars
  /\ \/ focus = "bridge" /\ (Relays!Bridge \/ Relays!RailwayRestarts)
     \/ focus = "clipboard" /\ (Relays!Clipboard \/ Relays!RailwayRestarts)
     \/ focus = "parcels" /\ (Relays!Parcels \/ Relays!RailwayRestarts)
     \/ focus \notin {"bridge", "clipboard", "parcels"} /\ UNCHANGED relayVars
  /\ \/ focus = "repos" /\ Opened!Next
     \/ focus # "repos" /\ UNCHANGED openedVars
  /\ \/ focus = "lock" /\ Lock!Next
     \/ focus # "lock" /\ UNCHANGED lockVars
  /\ \/ focus = "publish" /\ Publish!Next
     \/ focus # "publish" /\ UNCHANGED publishVars
  /\ \/ focus = "archive" /\ Archive!Next
     \/ focus # "archive" /\ UNCHANGED archiveVars
  /\ \/ focus = "wiki" /\ (Wiki!Publishing \/ Wiki!Sitting)
     \/ focus = "stars" /\ (Wiki!Starring \/ Wiki!Sitting)
     \/ focus \notin {"wiki", "stars"} /\ UNCHANGED wikiVars
  /\ \/ focus = "cache" /\ Cache!Next
     \/ focus # "cache" /\ UNCHANGED cacheVars

Limited ==
  {"throttle", "lever", "reactions", "cache", "probe", "handouts", "bridge", "clipboard",
   "parcels", "repos", "lock", "publish", "wiki", "stars", "archive"}

LimitsSpec == LimitsInit /\ [][LimitsNext]_limitVars

----------------------------------------------------------------------------
(* Properties: those of the components                                      *)

\* What may happen once at a time, or so often, or to so few, does: see Throttle, FxLever,
\* Reactions, SlidesCache, ExportProbe, Handouts, Relays, OpenedFiles and DaemonLock.
LimitsHold ==
  /\ Throttle!AtMostOnePush /\ Throttle!ChangeIsOnItsWay
  /\ Lever!RoomIsSpared
  /\ Reactions!LimitsHold
  /\ Cache!OneDownload
  /\ Probe!AlarmIsWatched
  /\ Handouts!MailsKeepApart
  /\ Relays!OneFits
  /\ Opened!NothingPrivate
  /\ Lock!OneDaemon

\* What is called cached is there, the published form is the folder's, a parked request is its
\* tablet's, what was opened stays in its document with links that lead somewhere, a deck that
\* was not exported is known not to be, the site is served or owed, a star is kept, and an
\* archive is whole and the session's: see SlidesCache, Handouts, Relays, OpenedFiles,
\* SlidesPublish, Wiki and Materials.
ServedIsThere ==
  /\ Cache!CachedIsThere /\ Handouts!FormSurvives /\ Relays!RequestsComeHome
  /\ Opened!OpenedStays /\ Opened!RelinkHeals
  /\ Publish!LossesAreKnown
  /\ Wiki!ServedOrOwed /\ Wiki!RootIsServed /\ Wiki!StarsAreKept
  /\ Archive!ArchivesAreWhole /\ Archive!ArchivesAreOurs

\* The invariant behind the theorems: that of each component.
LimitsInv ==
  /\ Throttle!ThrottleInv /\ Lever!LeverInv /\ Reactions!ReactionsInv
  /\ Cache!CacheInv /\ Cache!CopyInv /\ Probe!ProbeInv /\ Handouts!HandoutsInv
  /\ Relays!RelaysInv /\ Opened!OpenedInv /\ Opened!KeptInv /\ Lock!LockInv
  /\ Publish!PublishInv /\ Wiki!WikiInv /\ Archive!MaterialsInv

\* The variables of the service that moves have their types.
LimitsTypeOK ==
  /\ focus = "throttle" => Throttle!TypeOK
  /\ focus = "lever" => Lever!TypeOK
  /\ focus = "reactions" => Reactions!TypeOK
  /\ focus = "cache" => Cache!TypeOK
  /\ focus = "probe" => Probe!TypeOK
  /\ focus = "handouts" => Handouts!TypeOK
  /\ focus \in {"bridge", "clipboard", "parcels"} => Relays!TypeOK
  /\ focus = "repos" => Opened!TypeOK
  /\ focus = "lock" => Lock!TypeOK
  /\ focus = "publish" => Publish!TypeOK
  /\ focus \in {"wiki", "stars"} => Wiki!TypeOK
  /\ focus = "archive" => Archive!TypeOK
=============================================================================
