------------------------------ MODULE Records ------------------------------
(***************************************************************************)
(* The services that keep a record of something: what the add-on knows of   *)
(* the session, where the participants are, what the room sees of the       *)
(* session's folder, the static files of Railway, the session's file, the   *)
(* uploads, the migrated session files, the marks in the summary, who the   *)
(* participants are, what is in the training material and what the audience *)
(* follows.  They share no state, so they are explored one by one: moving   *)
(* says which one moves.                                                    *)
(***************************************************************************)
EXTENDS Integers, FiniteSets, Sequences

CONSTANTS
  Nothing, Broken,                          \* what is absent; a file cut off half-way
  SessionIds, Folders, MaxTalks,            \* AddonLink
  Travellers, Coords, Zones, Typed, MaxPlaces,   \* Whereabouts
  Rooms, NoteFiles, MaxLines, MaxWrites,    \* NotesWatch
  Statics, Excluded, Odd, MaxEditions, MaxCuts,     \* StaticSync
  MaxChange,                                \* SessionFile
  UploadNames, MaxUploads,                        \* Uploads
  Values, MaxRuns,                          \* Migration
  Vocabulary, MaxWords, MaxEdits, MaxSelections,  \* Highlight
  Participants, TypedNames, FictionNames, Guest, Trainer, MaxNameCalls,   \* Identity
  IndexFiles, ChunkCounts, MaxChanges, MaxStops,  \* Indexer
  ShownDecks, Catalogued, Drafts, MaxPage, Passages, MaxEvents, MaxMoments   \* FollowMe

VARIABLES
  moving,  \* the service that moves
  activeId, folder, loopAt, addonLinked, addonWire, callback, overlay, talks, idRaced, missed,
  renamed,
  placeOf, zone, country, lookups, backlog, placesSent, lookupsMixed,
  noteText, written, summary, docx, opened, clock, room, half, prev, agendaPath, roomShown,
  toasts, atEntry, noteTorn,
  here, there, image, syncLinked, request, syncJob, reload, pages, cuts, clean, lost,
  latePosts, live, cachedPoints, stateFile, stateTmp, saving, flushed, ownKept, savesCrossed,
  uploadsSent, nextId, entries, uploadWire, uploadLinked, threads, uploadsFolder, uploadList,
  uploadsGone, uploadsCut, clashed,
  migrated, bak, script, runs, original, saveRaced,
  summaryFile, hostPage, waiting, marking, edits, selections, words, editRaced, misplaced,
  mode, names, order, anon, trainers, gate, awaiting, namesSeen, sheet, rosterFile, claimed,
  unsaid,
  content, chunks, manifest, manifestFile, indexPending, indexDue, indexWork, indexUp,
  changes, stops, unseen, indexCut, unparsed, indexMixed, botched,
  slideEvents, airtimes, inTalk, slideNow, slidesCleared, slidesViewed, slideTimeline, toldCount,
  talkDeck, deckDownloads, inFront, talkNotes, scrolledTo, openNote, followLinked, follower,
  unheard

Link == INSTANCE AddonLink WITH Sessions <- SessionIds, None <- Nothing, MaxCalls <- MaxTalks,
    active <- activeId, at <- loopAt, linked <- addonLinked, wire <- addonWire,
    call <- callback, calls <- talks, raced <- idRaced
Where == INSTANCE Whereabouts WITH Pids <- Travellers, None <- Nothing, Texts <- Typed,
    MaxCalls <- MaxPlaces, at <- placeOf, jobs <- lookups, calls <- placesSent,
    mixed <- lookupsMixed
Watch == INSTANCE NotesWatch WITH Sessions <- Rooms, Files <- NoteFiles, None <- Nothing,
    text <- noteText, at <- written, now <- clock, session <- room, shown <- roomShown,
    since <- atEntry, torn <- noteTorn
Sync == INSTANCE StaticSync WITH Files <- Statics, MaxVersion <- MaxEditions,
    linked <- syncLinked, job <- syncJob, late <- latePosts
Saves == INSTANCE SessionFile WITH Torn <- Broken, Absent <- Nothing, cached <- cachedPoints,
    disk <- stateFile, tmp <- stateTmp, save <- saving, kept <- ownKept,
    crossed <- savesCrossed
Uploads == INSTANCE Uploads WITH Names <- UploadNames, None <- Nothing,
    sent <- uploadsSent, wire <- uploadWire,
    linked <- uploadLinked, disk <- uploadsFolder, listed <- uploadList, gone <- uploadsGone,
    short <- uploadsCut
Migration == INSTANCE Migration WITH None <- Nothing, Torn <- Broken, file <- migrated,
    raced <- saveRaced
Highlight == INSTANCE Highlight WITH Words <- Vocabulary, file <- summaryFile,
    page <- hostPage, job <- marking, raced <- editRaced
People == INSTANCE Identity WITH Pids <- Participants, Typed <- TypedNames,
    Pool <- FictionNames, MaxCalls <- MaxNameCalls, None <- Nothing, seen <- namesSeen,
    file <- rosterFile
Index == INSTANCE Indexer WITH Files <- IndexFiles, Size <- ChunkCounts, None <- Nothing,
    saved <- manifestFile, pending <- indexPending, due <- indexDue, work <- indexWork,
    up <- indexUp, cut <- indexCut, mixed <- indexMixed
Follow == INSTANCE FollowMe WITH Decks <- ShownDecks, None <- Nothing, Notes <- Passages,
    events <- slideEvents, batches <- airtimes, talk <- inTalk, current <- slideNow,
    cleared <- slidesCleared, viewed <- slidesViewed, timeline <- slideTimeline,
    told <- toldCount, deck <- talkDeck, downloads <- deckDownloads, view <- inFront,
    notes <- talkNotes, summary <- scrolledTo, wiki <- openNote, linked <- followLinked,
    phone <- follower, missed <- unheard

ASSUME RecordsAssumption ==
  /\ Link!LinkAssumption /\ Where!WhereaboutsAssumption /\ Watch!NotesAssumption
  /\ Sync!SyncAssumption /\ Saves!FileAssumption /\ Uploads!UploadsAssumption
  /\ Migration!MigrationAssumption /\ Highlight!HighlightAssumption
  /\ People!IdentityAssumption /\ Index!IndexerAssumption /\ Follow!FollowAssumption

linkVars ==
  <<activeId, folder, loopAt, addonLinked, addonWire, callback, overlay, talks, idRaced,
    missed, renamed>>
whereVars == <<placeOf, zone, country, lookups, backlog, placesSent, lookupsMixed>>
notesVars ==
  <<noteText, written, summary, docx, opened, clock, room, half, prev, agendaPath, roomShown,
    toasts, atEntry, noteTorn>>
syncVars ==
  <<here, there, image, syncLinked, request, syncJob, reload, pages, cuts, clean, lost,
    latePosts>>
savesVars ==
  <<live, cachedPoints, stateFile, stateTmp, saving, flushed, ownKept, savesCrossed>>
uploadVars ==
  <<uploadsSent, nextId, entries, uploadWire, uploadLinked, threads, uploadsFolder,
    uploadList, uploadsGone, uploadsCut, clashed>>
migrationVars == <<migrated, bak, script, runs, original, saveRaced>>
highlightVars ==
  <<summaryFile, hostPage, waiting, marking, edits, selections, words, editRaced, misplaced>>
nameVars ==
  <<mode, names, order, anon, trainers, gate, awaiting, namesSeen, sheet, rosterFile,
    claimed, unsaid>>
indexVars ==
  <<content, chunks, manifest, manifestFile, indexPending, indexDue, indexWork, indexUp,
    changes, stops, unseen, indexCut, unparsed, indexMixed, botched>>
followVars ==
  <<slideEvents, airtimes, inTalk, slideNow, slidesCleared, slidesViewed, slideTimeline,
    toldCount, talkDeck, deckDownloads, inFront, talkNotes, scrolledTo, openNote,
    followLinked, follower, unheard>>
recordVars ==
  <<moving, linkVars, whereVars, notesVars, syncVars, savesVars, uploadVars, migrationVars,
    highlightVars, nameVars, indexVars, followVars>>

\* A service that does not move starts in one of its initial states only.
RecordsInit ==
  /\ Link!Init /\ Where!Init /\ Sync!Init /\ Saves!Init /\ Uploads!Init
  /\ Watch!Init
  /\ \/ moving = "notes"
     \/ /\ room = CHOOSE s \in Rooms : TRUE
        /\ \A s \in Rooms, f \in NoteFiles : noteText[s][f] = <<>>
  /\ Migration!Init
  /\ moving = "migration" \/ migrated = CHOOSE c \in Migration!Contents : TRUE
  /\ Highlight!Init
  /\ moving = "highlight" \/ words = <<CHOOSE w \in Vocabulary : TRUE>>
  /\ People!Init /\ (moving = "names" \/ mode = "workshop")
  /\ Index!Init /\ (moving = "index" \/ \A n \in IndexFiles : content[n] = 0)
  /\ Follow!Init /\ (moving \in {"presenting", "writing", "reading"} \/ ~inTalk)

RecordsNext ==
  /\ UNCHANGED moving
  /\ \/ moving = "addon" /\ Link!Next
     \/ moving # "addon" /\ UNCHANGED linkVars
  /\ \/ moving = "places" /\ Where!Next
     \/ moving # "places" /\ UNCHANGED whereVars
  /\ \/ moving = "notes" /\ Watch!Next
     \/ moving # "notes" /\ UNCHANGED notesVars
  /\ \/ moving = "static" /\ Sync!Next
     \/ moving # "static" /\ UNCHANGED syncVars
  /\ \/ moving = "file" /\ Saves!Next
     \/ moving # "file" /\ UNCHANGED savesVars
  /\ \/ moving = "uploads" /\ Uploads!Next
     \/ moving # "uploads" /\ UNCHANGED uploadVars
  /\ \/ moving = "migration" /\ Migration!Next
     \/ moving # "migration" /\ UNCHANGED migrationVars
  /\ \/ moving = "highlight" /\ Highlight!Next
     \/ moving # "highlight" /\ UNCHANGED highlightVars
  /\ \/ moving = "names" /\ People!Acting
     \/ moving # "names" /\ UNCHANGED nameVars
  /\ \/ moving = "index" /\ Index!Next
     \/ moving # "index" /\ UNCHANGED indexVars
  /\ \/ moving = "presenting" /\ (Follow!Around \/ Follow!Presenting)
     \/ moving = "writing" /\ (Follow!Around \/ Follow!Writing)
     \/ moving = "reading" /\ (Follow!Around \/ Follow!Reading)
     \/ moving \notin {"presenting", "writing", "reading"} /\ UNCHANGED followVars

Recorded ==
  {"addon", "places", "notes", "static", "file", "uploads", "migration", "highlight",
   "names", "index", "presenting", "writing", "reading"}

RecordsSpec == RecordsInit /\ [][RecordsNext]_recordVars

----------------------------------------------------------------------------
(* Properties: those of the components                                      *)

\* What the add-on, the room, the map, the pages of the site, the phones, the index and the
\* audience were told is so: see AddonLink, Whereabouts, NotesWatch, StaticSync, Identity,
\* Indexer and FollowMe.
ViewsAgree ==
  /\ Link!OverlayKnows
  /\ Where!CountryFits
  /\ Watch!PagesShowTheFolder /\ Watch!ToastsAreNews
  /\ Sync!SyncConverges
  /\ People!PhonesKnowTheNames /\ People!NobodyElseIsTrainer
  /\ Index!IndexIsCurrent
  /\ Follow!FollowersFollow /\ Follow!TotalsMatchTimeline

\* What is kept in a file is whole and is what was kept: see SessionFile, Uploads, Migration
\* and Highlight.
FilesAreWhole ==
  /\ Saves!FileIsWhole
  /\ Uploads!NothingIsLost
  /\ Migration!LoadsTheSame
  /\ Highlight!WordsSurvive

\* The variables of the services have their types.
RecordsTypeOK ==
  /\ Link!TypeOK /\ Where!TypeOK /\ Watch!TypeOK /\ Sync!TypeOK /\ Saves!TypeOK
  /\ Uploads!TypeOK /\ Migration!TypeOK /\ Highlight!TypeOK /\ People!TypeOK
  /\ Index!TypeOK /\ Follow!TypeOK

\* The invariant behind the theorems: that of each component.
RecordsInv ==
  /\ Link!LinkInv /\ Where!WhereInv /\ Watch!NotesInv /\ Sync!SyncInv
  /\ Saves!FileInv /\ Uploads!UploadsInv /\ Migration!MigrationInv /\ Highlight!HighlightInv
  /\ People!IdentityInv /\ Index!IndexerInv /\ Follow!FollowInv
=============================================================================
