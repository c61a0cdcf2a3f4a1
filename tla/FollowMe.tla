------------------------------ MODULE FollowMe ------------------------------
(***************************************************************************)
(* What the audience follows: the slide PowerPoint shows, the notes VS Code *)
(* has open, which of the two is in front, where the host reads the summary *)
(* and which wiki note is open.  The add-on's events wait in queues for the *)
(* main loop (daemon/addon_bridge_client.py, daemon/__main__.py); the other *)
(* reports are handled at once (daemon/misc).  Connected phones live on     *)
(* broadcasts, which are lost while the link to Railway is down, and a      *)
(* phone that joins gets everything from GET state.                         *)
(***************************************************************************)
EXTENDS Integers, Sequences, SequencesExt, FiniteSets

CONSTANTS
  Decks,
  Catalogued,   \* the decks of slides_catalog: only their airtime is counted
  Drafts,       \* decks in no catalog: a talk's deck dropped on the host page
  MaxPage,
  None,
  Notes,        \* positions in the summary, wiki notes, texts of the notes file
  MaxEvents,    \* bound on each queue
  MaxMoments    \* bound on the moments of the timeline

Slides == Decks \X (1 .. MaxPage)

FollowAssumption ==
  /\ Catalogued \subseteq Decks /\ Drafts \subseteq Decks \ Catalogued
  /\ None \notin Decks \cup Slides
  /\ {MaxPage, MaxEvents, MaxMoments} \subseteq Nat \ {0}

VARIABLES
  events, batches,   \* _slide_queue and _slides_viewed_queue
  talk,              \* mode = "talk"
  current, cleared,  \* current_slide, slides_cleared
  viewed, timeline,  \* slides_viewed (seconds per slide), slide_timeline
  told,              \* _prev_slides_history_count
  deck, downloads,   \* talk_presentation_slug, and the decks on their way to Railway
  view, notes, summary, wiki,   \* presenter_view, talk_notes, summary_scroll, wiki_note
  linked,            \* the link to Railway
  phone,             \* what a connected phone shows; None: nobody is connected
  missed             \* history: what the phone cannot know

queueVars == <<events, batches>>
slideVars == <<current, cleared, viewed, timeline, told>>
deckVars == <<deck, downloads>>
noteVars == <<view, notes, summary, wiki>>
audienceVars == <<phone, missed>>
vars == <<queueVars, talk, slideVars, deckVars, noteVars, linked, audienceVars>>

Shown == DOMAIN viewed

\* One broadcast: the phone shows it, or misses it with the link.
Broadcast(field, value) ==
  IF phone # None /\ linked
  THEN phone' = [phone EXCEPT ![field] = value] /\ missed' = missed \ {field}
  ELSE phone' = phone /\ missed' = missed \cup {field}

----------------------------------------------------------------------------
(* The add-on                                                               *)

\* A slide or deck change, or PowerPoint coming to the front.
PowerPoint(slide, front) ==
  /\ Len(events) < MaxEvents
  /\ events' = Append(events, [slide |-> slide, front |-> front])
  /\ UNCHANGED <<batches, talk, slideVars, deckVars, noteVars, linked, audienceVars>>

\* The minute's viewing time: a second of one slide, of a deck that is in the catalog; nobody
\* counts the others.
Airtime(slide) ==
  /\ Len(batches) < MaxEvents /\ Len(batches) + Len(timeline) < MaxMoments
  /\ batches' = Append(batches, slide)
  /\ UNCHANGED <<events, talk, slideVars, deckVars, noteVars, linked, audienceVars>>

----------------------------------------------------------------------------
(* The main loop, which stands still while the link is down                 *)

\* _resolve_presentation_slide_target: the catalog, else the deck dropped for the talk.
Follows(slide) == slide[1] \notin Drafts \/ slide[1] = deck

\* The slide events that are followed; the last of them is the current slide, and one that
\* shows another slide than the last is told.
Followed == {i \in DOMAIN events : Follows(events[i].slide)}
Latest == IF Followed = {} THEN current ELSE events[Max(Followed)].slide
Turned == \E i \in Followed : events[i].slide # current

\* A slide that is new comes to the front, and so does PowerPoint.
InFront == IF Turned \/ \E i \in DOMAIN events : events[i].front THEN "slides" ELSE view

\* merge_slides_viewed: the totals and the moments of the viewing times.
Seconds(moments, slide) == Cardinality({i \in DOMAIN moments : moments[i] = slide})
Merged ==
  [s \in Shown \cup ToSet(batches) |->
     (IF s \in Shown THEN viewed[s] ELSE 0) + Seconds(batches, s)]

\* What a pass tells: a slide, what is in front, and the count when it differs from the one of
\* the pass before.
PassTells(count) ==
  (IF Turned THEN {"slide"} ELSE {})
  \cup (IF talk /\ InFront # view THEN {"view"} ELSE {})
  \cup (IF count # told THEN {"count"} ELSE {})

\* One pass: the slide events, the viewing times, and the broadcasts.
Pass ==
  /\ linked /\ events' = <<>> /\ batches' = <<>>
  /\ current' = Latest /\ view' = InFront /\ cleared' = (cleared /\ ~Turned)
  /\ viewed' = Merged /\ timeline' = timeline \o batches
  /\ told' = Cardinality(DOMAIN Merged)
  /\ missed' = missed \ PassTells(told')
  /\ phone' = IF phone = None THEN None
              ELSE [phone EXCEPT !.slide = IF Turned THEN Latest ELSE @,
                                 !.view = IF "view" \in PassTells(told') THEN InFront ELSE @,
                                 !.count = IF "count" \in PassTells(told') THEN told' ELSE @]
  /\ UNCHANGED <<talk, deckVars, notes, summary, wiki, linked>>

----------------------------------------------------------------------------
(* The host                                                                 *)

\* Rejected variant of ClearShown: the moments stay.
ClearTotals ==
  /\ current' = None /\ viewed' = <<>> /\ cleared' = TRUE
  /\ IF phone # None /\ linked
     THEN /\ phone' = [phone EXCEPT !.slide = None, !.count = 0]
          /\ missed' = missed \ {"slide", "count"}
     ELSE phone' = phone /\ missed' = missed \cup {"slide", "count"}
  /\ UNCHANGED <<queueVars, talk, timeline, told, deckVars, noteVars, linked>>

\* POST slides/clear.
ClearShown ==
  /\ current' = None /\ viewed' = <<>> /\ timeline' = <<>> /\ cleared' = TRUE
  /\ IF phone # None /\ linked
     THEN /\ phone' = [phone EXCEPT !.slide = None, !.count = 0]
          /\ missed' = missed \ {"slide", "count"}
     ELSE phone' = phone /\ missed' = missed \cup {"slide", "count"}
  /\ UNCHANGED <<queueVars, talk, told, deckVars, noteVars, linked>>

\* POST talk-presentation-path: the deck is unknown until Railway has its PDF.
Drop(d) ==
  /\ talk /\ d \notin downloads
  /\ deck' = None /\ downloads' = downloads \cup {d}
  /\ missed' = missed \cup {"slide"}
  /\ UNCHANGED <<queueVars, talk, slideVars, noteVars, linked, phone>>

\* ... Railway has it: the phones go to its first page, current_slide stays.
Activate(d) ==
  /\ d \in downloads /\ downloads' = downloads \ {d} /\ deck' = d
  /\ phone' = IF phone # None /\ linked THEN [phone EXCEPT !.slide = <<d, 1>>] ELSE phone
  /\ missed' = IF linked /\ current = None /\ ~cleared THEN missed \ {"slide"}
               ELSE missed \cup {"slide"}
  /\ UNCHANGED <<queueVars, talk, slideVars, noteVars, linked>>

\* ... or the download failed.
DropFails(d) ==
  /\ d \in downloads /\ downloads' = downloads \ {d}
  /\ UNCHANGED <<queueVars, talk, slideVars, deck, noteVars, linked, audienceVars>>

\* POST /summary/scroll and /wiki/note: recorded and told.
Scroll(n) ==
  /\ summary' = n /\ Broadcast("summary", n)
  /\ UNCHANGED <<queueVars, talk, slideVars, deckVars, view, notes, wiki, linked>>

OpenNote(n) ==
  /\ wiki' = n /\ Broadcast("wiki", n)
  /\ UNCHANGED <<queueVars, talk, slideVars, deckVars, view, notes, summary, linked>>

\* POST /notes/live, of the session's notes file with its text or not.  Without a text when
\* the daemon has none, the text is asked for and nothing else happens; the phones of a talk
\* are told what changed, and focus brings the notes to the front.
Report(text, focused) ==
  /\ notes # None \/ text # None
  /\ LET new == IF text = None THEN notes ELSE text
         ahead == IF focused THEN "notes" ELSE view
         gone == (IF talk /\ new # notes THEN {"notes"} ELSE {})
                 \cup (IF talk /\ ahead # view THEN {"view"} ELSE {})
     IN  /\ notes' = new /\ view' = ahead
         /\ IF phone # None /\ linked
            THEN /\ missed' = missed \ gone
                 /\ phone' = [phone EXCEPT !.notes = IF "notes" \in gone THEN new ELSE @,
                                           !.view = IF "view" \in gone THEN ahead ELSE @]
            ELSE phone' = phone /\ missed' = missed \cup gone
  /\ UNCHANGED <<queueVars, talk, slideVars, deckVars, summary, wiki, linked>>

\* reset_for_new_session: all but slides_cleared; the phones belong to the old session.
NewSession(kind) ==
  /\ talk' = kind
  /\ current' = None /\ viewed' = <<>> /\ timeline' = <<>> /\ deck' = None
  /\ view' = "slides" /\ notes' = None /\ summary' = None /\ wiki' = None
  /\ phone' = None /\ missed' = {}
  /\ UNCHANGED <<queueVars, cleared, told, downloads, linked>>

\* The daemon restarts: the slides and the talk's deck are restored from the session file.
Restart ==
  /\ events' = <<>> /\ batches' = <<>> /\ downloads' = {}
  /\ cleared' = FALSE /\ told' = Cardinality(Shown)
  /\ view' = "slides" /\ notes' = None /\ summary' = None /\ wiki' = None
  /\ missed' = missed \cup {"slide", "count", "view", "notes", "summary", "wiki"}
  /\ UNCHANGED <<talk, current, viewed, timeline, deck, linked, phone>>

----------------------------------------------------------------------------
(* The audience                                                             *)

\* GET state: a phone that joins starts on the talk's deck unless the slides were cleared.
Landing ==
  IF current # None THEN current
  ELSE IF deck # None /\ ~cleared THEN <<deck, 1>> ELSE None

Join ==
  /\ linked
  /\ phone' = [slide |-> Landing, count |-> Cardinality(Shown), view |-> view,
               notes |-> IF talk THEN notes ELSE None, summary |-> summary, wiki |-> wiki]
  /\ missed' = {}
  /\ UNCHANGED <<queueVars, talk, slideVars, deckVars, noteVars, linked>>

LinkChanges ==
  /\ linked' = ~linked
  /\ UNCHANGED <<queueVars, talk, slideVars, deckVars, noteVars, audienceVars>>

Init ==
  /\ events = <<>> /\ batches = <<>> /\ talk \in BOOLEAN
  /\ current = None /\ cleared = FALSE /\ viewed = <<>> /\ timeline = <<>> /\ told = 0
  /\ deck = None /\ downloads = {}
  /\ view = "slides" /\ notes = None /\ summary = None /\ wiki = None
  /\ linked = TRUE /\ phone = None /\ missed = {}

Around ==
  \/ \E s \in Slides, front \in BOOLEAN : PowerPoint(s, front)
  \/ Pass \/ Join \/ LinkChanges \/ Restart
  \/ \E kind \in BOOLEAN : NewSession(kind)

Presenting ==
  \/ \E s \in Slides : s[1] \in Catalogued /\ Airtime(s)
  \/ ClearShown
  \/ \E d \in Drafts : Drop(d)
  \/ \E d \in downloads : Activate(d) \/ DropFails(d)

Writing == \E n \in Notes \cup {None}, focused \in BOOLEAN : Report(n, focused)

Reading == \E n \in Notes \cup {None} : Scroll(n) \/ OpenNote(n)

Next == Around \/ Presenting \/ Writing \/ Reading

Spec == Init /\ [][Next]_vars

----------------------------------------------------------------------------
(* Properties                                                               *)

Phones ==
  [slide : Slides \cup {None}, count : Nat, view : {"slides", "notes"},
   notes : Notes \cup {None}, summary : Notes \cup {None}, wiki : Notes \cup {None}]

\* The variables have the types the code gives them.
TypeOK ==
  /\ events \in Seq([slide : Slides, front : BOOLEAN]) /\ batches \in Seq(Slides)
  /\ {talk, cleared, linked} \subseteq BOOLEAN
  /\ current \in Slides \cup {None} /\ told \in Nat
  /\ Shown \subseteq Slides /\ \A s \in Shown : viewed[s] \in Nat
  /\ timeline \in Seq(Slides)
  /\ deck \in Drafts \cup {None} /\ downloads \subseteq Drafts
  /\ view \in {"slides", "notes"} /\ {notes, summary, wiki} \subseteq Notes \cup {None}
  /\ phone \in Phones \cup {None}

\* merge_viewed.py:22-26, the totals and the moments: a slide has the seconds of its moments
\* whatever was cleared, restarted or left waiting in a queue.
TotalsMatchTimeline ==
  /\ Shown = ToSet(timeline)
  /\ \A s \in Shown : viewed[s] = Seconds(timeline, s)

\* A phone that missed no message shows what a phone that joins now would be given.
FollowersFollow ==
  phone # None =>
    /\ "slide" \in missed \/ phone.slide = Landing
    /\ talk => /\ "view" \in missed \/ phone.view = view
               /\ "notes" \in missed \/ phone.notes = notes
    /\ "summary" \in missed \/ phone.summary = summary
    /\ "wiki" \in missed \/ phone.wiki = wiki

----------------------------------------------------------------------------
(* Promises the code does not keep; TLC shows how                           *)

\* __main__.py:1183: after a pass the phones have the number of slides shown.
CountIsShown ==
  batches = <<>> /\ told = Cardinality(Shown) /\ phone # None /\ "count" \notin missed =>
    phone.count = told

\* misc/state.py:51, "the next slide event resets it": a talk that has not been cleared
\* opens on its deck.
FreshTalkOpens == [][\A kind \in BOOLEAN : NewSession(kind) => ~cleared']_vars

----------------------------------------------------------------------------
(* The inductive invariant behind the theorems of RecordsProofs            *)

FollowInv ==
  /\ TypeOK /\ viewed = [s \in Shown |-> viewed[s]]
  /\ TotalsMatchTimeline /\ FollowersFollow
=============================================================================
