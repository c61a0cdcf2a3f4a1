----------------------------- MODULE Materials -----------------------------
(***************************************************************************)
(* The archive of the session that a participant downloads                  *)
(* (railway/features/materials/router.py, daemon/materials).  Railway keeps *)
(* one archive per session and asks the daemon for a new one when it is     *)
(* stale; everybody who asks meanwhile waits for the same build.  The       *)
(* daemon zips the folder of the session it is in and posts the archive,    *)
(* to which Railway adds the PDFs of the decks that were shown.             *)
(***************************************************************************)
EXTENDS Integers, FiniteSets, Sequences, SequencesExt

CONSTANTS
  Callers, Sessions, None,
  Decks, Size,    \* the decks and the size of a deck's PDF
  MaxZip,         \* MAX_ZIP_WITH_DECKS_BYTES, less the archive itself
  MaxBuilds       \* bound on the requests sent to the daemon

MaterialsAssumption ==
  Size \in [Decks -> Nat \ {0}] /\ MaxZip \in Nat /\ MaxBuilds \in Nat \ {0}

VARIABLES
  linked,      \* the daemon's WebSocket is up
  session,     \* Railway's state.session_id
  folder,      \* the session whose folder the daemon is in
  slot,        \* _pending_build is there and not done
  waiting,     \* callers waiting for it
  inbox,       \* build_materials_zip messages on their way, by session id
  builds,      \* how many of them were sent
  posting,     \* the archive that the daemon posts
  writing,     \* uploads that Railway's handler is writing
  part, zip,   \* per session: who wrote the .zip.part; the archive that is served
  fresh,       \* _cache_is_fresh()
  cached,      \* decks whose PDF is in the slides cache
  history      \* late: an upload came after a redeployment had forgotten its request;
               \* crossed: a folder was zipped for another session

railwayVars == <<session, slot, waiting, part, zip, fresh, cached>>
daemonVars == <<folder, posting>>
linkVars == <<linked, inbox, builds>>
vars == <<railwayVars, daemonVars, linkVars, writing, history>>

----------------------------------------------------------------------------
(* Decks: the daemon names them, Railway adds what fits                     *)

\* Airtimes: the seconds each deck was shown, in units of MIN_DECK_SECONDS.
Airtimes == [Decks -> 0 .. 2]

\* select_viewed_decks: shown for long enough, most-viewed first.
SelectViewed(airtime) ==
  CHOOSE s \in SetToSeqs({d \in Decks : airtime[d] >= 1}) :
    \A i, j \in 1 .. Len(s) : i < j => airtime[s[i]] >= airtime[s[j]]

\* Rejected variant of AppendCached: a deck is checked alone.
AppendEach(wanted) ==
  FoldLeft(LAMBDA acc, d : IF d \in cached /\ Size[d] <= MaxZip
                           THEN [total |-> acc.total + Size[d], added |-> acc.added \cup {d}]
                           ELSE acc,
           [total |-> 0, added |-> {}], wanted)

\* _append_cached_decks: in that order, every deck that is cached and still fits.
AppendCached(wanted) ==
  FoldLeft(LAMBDA acc, d : IF d \in cached /\ acc.total + Size[d] <= MaxZip
                           THEN [total |-> acc.total + Size[d], added |-> acc.added \cup {d}]
                           ELSE acc,
           [total |-> 0, added |-> {}], wanted)

----------------------------------------------------------------------------
(* Railway, asked for the archive                                           *)

Stale == zip[session] = None \/ ~fresh

\* Rejected variant of Get: every caller asks for a build.
GetAlone(c) ==
  /\ c \notin waiting /\ Stale /\ linked
  /\ builds < MaxBuilds /\ builds' = builds + 1
  /\ inbox' = Append(inbox, session)
  /\ slot' = TRUE /\ waiting' = waiting \cup {c}
  /\ UNCHANGED <<session, part, zip, fresh, cached, daemonVars, linked, writing, history>>

\* get_materials_zip with a stale archive: request_build, one for everybody.
Get(c) ==
  /\ c \notin waiting /\ Stale
  /\ IF slot THEN waiting' = waiting \cup {c} /\ UNCHANGED <<slot, inbox, builds>>
     ELSE /\ linked                  \* otherwise "Trainer not connected", at once
          /\ builds < MaxBuilds /\ builds' = builds + 1
          /\ inbox' = Append(inbox, session)
          /\ slot' = TRUE /\ waiting' = waiting \cup {c}
  /\ UNCHANGED <<session, part, zip, fresh, cached, daemonVars, linked, writing, history>>

\* BUILD_TIMEOUT_S: the caller gets what is there; the future stays pending.
GiveUp(c) ==
  /\ c \in waiting /\ waiting' = waiting \ {c}
  /\ UNCHANGED <<session, slot, part, zip, fresh, cached, daemonVars, linkVars, writing,
                 history>>

\* CACHE_TTL_S.
Expire ==
  /\ fresh /\ fresh' = FALSE
  /\ UNCHANGED <<session, slot, waiting, part, zip, cached, daemonVars, linkVars, writing,
                 history>>

----------------------------------------------------------------------------
(* The daemon, on its main loop                                             *)

\* handle_build_materials_zip: the folder of this moment, the session id of the request.
Take ==
  /\ inbox # <<>> /\ posting = None /\ inbox' = Tail(inbox)
  /\ history' = [history EXCEPT !.crossed = @ \/ folder # Head(inbox)]
  /\ \E airtime \in Airtimes :
       posting' = [for |-> Head(inbox), of |-> folder, decks |-> SelectViewed(airtime),
                   nr |-> 1 + builds - Len(inbox)]
  /\ UNCHANGED <<railwayVars, folder, linked, builds, writing>>

\* The folder cannot be read or is too large: the error is posted, the callers are told.
TakeFails ==
  /\ inbox # <<>> /\ posting = None /\ inbox' = Tail(inbox)
  /\ slot' = FALSE /\ waiting' = {}
  /\ UNCHANGED <<session, part, zip, fresh, cached, daemonVars, linked, builds, writing,
                 history>>

\* Nothing of the archive arrives: the daemon only logs it.
PostFails ==
  /\ posting # None /\ posting \notin writing /\ posting' = None
  /\ UNCHANGED <<railwayVars, folder, linkVars, writing, history>>

\* The daemon waits for the answer for 30 s; Railway goes on with what it has.
PostTimesOut ==
  /\ posting \in writing /\ posting' = None
  /\ UNCHANGED <<railwayVars, folder, linkVars, writing, history>>

----------------------------------------------------------------------------
(* upload_materials_zip                                                     *)

\* The handler opens the .part file of the session and writes it, chunk by chunk.
Open ==
  /\ posting # None /\ posting \notin writing
  /\ writing' = writing \cup {posting}
  /\ part' = [part EXCEPT ![posting.for] = @ \cup {posting}]
  /\ UNCHANGED <<session, slot, waiting, zip, fresh, cached, daemonVars, linkVars, history>>

Answered(u) == posting' = (IF posting = u THEN None ELSE posting)

\* Rejected variant of Install: the archive goes to the session of the moment.
InstallHere(u) ==
  /\ u \in writing /\ writing' = writing \ {u} /\ Answered(u)
  /\ LET appended == AppendCached(u.decks) IN
     zip' = [zip EXCEPT ![session] = [of |-> u.of, by |-> part[u.for], wanted |-> u.decks,
                                      decks |-> appended.added]]
  /\ part' = [part EXCEPT ![u.for] = {}]
  /\ fresh' = TRUE /\ slot' = FALSE /\ waiting' = {}
  /\ UNCHANGED <<session, cached, folder, linkVars, history>>

\* The archive is complete: decks in a thread, atomic swap, everybody who waits is told;
\* the decks that are not cached are downloaded in the background.
Install(u) ==
  /\ u \in writing /\ writing' = writing \ {u} /\ Answered(u)
  /\ IF part[u.for] = {} THEN UNCHANGED <<part, zip, fresh, slot, waiting>>  \* FileNotFoundError
     ELSE /\ LET appended == AppendCached(u.decks) IN
             zip' = [zip EXCEPT ![u.for] =
                       [of |-> u.of, by |-> part[u.for], wanted |-> u.decks,
                        decks |-> appended.added]]
          /\ part' = [part EXCEPT ![u.for] = {}]
          /\ fresh' = TRUE /\ slot' = FALSE /\ waiting' = {}
  /\ UNCHANGED <<session, cached, folder, linkVars, history>>

\* Too large, empty, or the disk is full: the .part is removed, and nobody is told.
Refuse(u) ==
  /\ u \in writing /\ writing' = writing \ {u} /\ Answered(u)
  /\ part' = [part EXCEPT ![u.for] = {}]
  /\ UNCHANGED <<session, slot, waiting, zip, fresh, cached, folder, linkVars, history>>

\* A download started by _warm_slides_cache, or by a participant, is there.
Warm(d) ==
  /\ d \notin cached /\ cached' = cached \cup {d}
  /\ UNCHANGED <<session, slot, waiting, part, zip, fresh, daemonVars, linkVars, writing,
                 history>>

----------------------------------------------------------------------------
(* Sessions, links and redeployments                                        *)

Switch(s) ==
  /\ s # folder /\ folder' = s
  /\ UNCHANGED <<railwayVars, posting, linkVars, writing, history>>

\* session_started reaches Railway.
Told ==
  /\ linked /\ session # folder /\ session' = folder
  /\ UNCHANGED <<slot, waiting, part, zip, fresh, cached, daemonVars, linkVars, writing,
                 history>>

\* The requests on the link are lost with it.
Drop ==
  /\ linked /\ linked' = FALSE /\ inbox' = <<>>
  /\ UNCHANGED <<railwayVars, daemonVars, builds, writing, history>>

Relink ==
  /\ ~linked /\ linked' = TRUE
  /\ UNCHANGED <<railwayVars, daemonVars, inbox, builds, writing, history>>

\* A redeployment: Railway's disk and memory are new; a POST under way may still arrive.
Redeploy ==
  /\ linked' = FALSE /\ inbox' = <<>>
  /\ slot' = FALSE /\ waiting' = {} /\ writing' = {} /\ fresh' = FALSE /\ cached' = {}
  /\ part' = [s \in Sessions |-> {}] /\ zip' = [s \in Sessions |-> None]
  /\ history' = [history EXCEPT !.late = @ \/ posting \notin writing \cup {None}]
  /\ posting' = (IF posting \in writing THEN None ELSE posting)
  /\ UNCHANGED <<session, folder, builds>>

Init ==
  /\ linked = TRUE /\ session \in Sessions /\ folder = session
  /\ slot = FALSE /\ waiting = {} /\ inbox = <<>> /\ builds = 0
  /\ posting = None /\ writing = {}
  /\ part = [s \in Sessions |-> {}] /\ zip = [s \in Sessions |-> None]
  /\ fresh = FALSE /\ cached = {} /\ history = [late |-> FALSE, crossed |-> FALSE]

Railway ==
  \/ \E c \in Callers : Get(c) \/ GiveUp(c)
  \/ Open \/ (\E u \in writing : Install(u) \/ Refuse(u))
  \/ Expire \/ (\E d \in Decks : Warm(d)) \/ Redeploy

Daemon == Take \/ TakeFails \/ PostFails \/ PostTimesOut \/ \E s \in Sessions : Switch(s)

Next == Railway \/ Daemon \/ Told \/ Drop \/ Relink

Spec == Init /\ [][Next]_vars

----------------------------------------------------------------------------
(* Properties                                                               *)

Upload == [for : Sessions, of : Sessions, decks : Seq(Decks), nr : 1 .. MaxBuilds]

\* The variables have the types the code gives them.
TypeOK ==
  /\ {linked, slot, fresh, history.late, history.crossed} \subseteq BOOLEAN
  /\ {session, folder} \subseteq Sessions
  /\ waiting \subseteq Callers /\ cached \subseteq Decks /\ builds \in 0 .. MaxBuilds
  /\ inbox \in Seq(Sessions) /\ posting \in Upload \cup {None} /\ writing \subseteq Upload
  /\ \A s \in Sessions : /\ part[s] \subseteq Upload
                         /\ zip[s] # None => zip[s].by \subseteq Upload

\* materials/router.py:271 "a concurrent GET never sees a partial file": what is served was
\* written by one upload, also when a POST times out and
\* the daemon goes on to the next request, as long as none outlives a redeployment.
ArchivesAreWhole ==
  ~history.late => \A s \in Sessions : zip[s] # None => Cardinality(zip[s].by) = 1

\* :237, what is served for a session is its folder, as long as no request is answered from
\* another one.
ArchivesAreOurs ==
  ~history.crossed => \A s \in Sessions : zip[s] # None => zip[s].of = s

\* :91-93, the decks in an archive are decks that were shown, and together they fit.
DecksFit ==
  \A s \in Sessions : zip[s] # None =>
    /\ zip[s].decks \subseteq ToSet(zip[s].wanted)
    /\ FoldLeft(LAMBDA n, d : IF d \in zip[s].decks THEN n + Size[d] ELSE n,
                0, zip[s].wanted) <= MaxZip

----------------------------------------------------------------------------
(* Promises the code does not keep; TLC shows how                           *)

\* :164-171: who waits for a build waits for one that is under way.
WaitedForIsUnderWay == waiting # {} => inbox # <<>> \/ posting # None \/ writing # {}

\* :91-93: the archive of a session holds the folder of that session, whichever session the
\* daemon is in when it builds it.
ArchivesAlwaysOurs == \A s \in Sessions : zip[s] # None => zip[s].of = s

----------------------------------------------------------------------------
(* The inductive invariant behind the theorems of LimitsProofs             *)

\* The uploads under way: the daemon is at one, or Railway writes it.
Live == writing \cup (IF posting = None THEN {} ELSE {posting})

PostsTypeOK ==
  /\ session \in Sessions /\ folder \in Sessions /\ slot \in BOOLEAN
  /\ inbox \in Seq(Sessions) /\ \A u \in Live : u.for \in Sessions
  /\ part = [s \in Sessions |-> part[s]] /\ zip = [s \in Sessions |-> zip[s]]
  /\ history \in [late : BOOLEAN, crossed : BOOLEAN]

\* As long as no upload outlives a redeployment, the slot is for one request at a time, on its
\* way or in work, and a .part file is of the upload that is being written.
OneAtATime ==
  /\ ~slot => inbox = <<>> /\ Live = {}
  /\ inbox # <<>> => Live = {} /\ Len(inbox) = 1
  /\ \A u, v \in Live : u = v
  /\ \A s \in Sessions : \A u \in part[s] : u \in writing /\ u.for = s

MaterialsInv ==
  /\ PostsTypeOK /\ ArchivesAreWhole /\ ArchivesAreOurs
  /\ ~history.late => OneAtATime
  /\ ~history.crossed => \A u \in Live : u.of = u.for
=============================================================================
