------------------------------- MODULE Relays -------------------------------
(***************************************************************************)
(* What Railway passes between the trainer's devices and never looks into   *)
(* (railway/features/bridge, inbox): the tablet's requests to the Mac over  *)
(* two WebSockets, the newest clip of the clipboard, and sealed files.      *)
(* Everything is in memory.  Handlers of the WebSockets interleave where    *)
(* they await a send or a close; the clip is written by a thread while the  *)
(* reader polls on the event loop; a file is stored when its stream ends,   *)
(* and other uploads go on meanwhile.  Expiry may come at any time.         *)
(***************************************************************************)
EXTENDS Integers, FiniteSets

CONSTANTS
  Macs, Tablets, None,
  MaxRequests,    \* bound on a tablet's requests
  FileIds, Size,  \* of every file
  MaxTotal,       \* MAX_TOTAL
  MaxClips        \* bound on the clips put

RelaysAssumption ==
  /\ {MaxRequests, Size, MaxTotal, MaxClips} \subseteq Nat \ {0}
  /\ None \notin Macs \cup Tablets /\ Macs \cap Tablets = {}

VARIABLES
  mac,       \* _mac_ws
  joining,   \* connections of the Mac that await the close of the one before
  alive,     \* sockets that are open
  asked,     \* requests each tablet sent: their ids are <<tablet, number>>
  parked,    \* _pending: requests that wait for the Mac's answer
  inbound,   \* requests the Mac holds
  answered,  \* ids the tablets got an answer for
  box, clips,      \* the Mac's box: seq and ciphertext; clips put so far by the phone
  writing,         \* put_clip has counted the clip and not stored it yet
  after, got,      \* the reader's last seq and clip
  files, streams,  \* _files: size, or 0 when taken; uploads on their way: what was checked
  crossed          \* history: two uploads overlapped

bridgeVars == <<mac, joining, asked, parked, inbound, answered>>
clipVars == <<box, clips, writing, after, got>>
fileVars == <<files, streams, crossed>>
vars == <<alive, bridgeVars, clipVars, fileVars>>

----------------------------------------------------------------------------
(* The tablet bridge                                                        *)

Requests == Tablets \X (1 .. MaxRequests)

\* bridge_mac_endpoint: the connection before is closed, which is awaited ...
MacConnects(m) ==
  /\ m \notin alive /\ alive' = alive \cup {m}
  /\ IF mac \in {None, m} THEN mac' = m /\ UNCHANGED joining
     ELSE joining' = joining \cup {[new |-> m, old |-> mac]} /\ UNCHANGED mac
  /\ UNCHANGED <<asked, parked, inbound, answered, clipVars, fileVars>>

\* ... then this one is the Mac.
MacTakesOver(j) ==
  /\ j \in joining /\ joining' = joining \ {j} /\ mac' = j.new
  /\ alive' = alive \ {j.old}
  /\ UNCHANGED <<asked, parked, inbound, answered, clipVars, fileVars>>

\* The socket of a Mac ends, kicked or broken: only the Mac of the moment is forgotten.
MacEnds(m) ==
  /\ m \in Macs /\ \A j \in joining : j.new # m
  /\ m \in alive \/ m = mac
  /\ alive' = alive \ {m} /\ mac' = IF mac = m THEN None ELSE mac
  /\ inbound' = {i \in inbound : i.at # m}
  /\ UNCHANGED <<joining, asked, parked, answered, clipVars, fileVars>>

TabletConnects(t) ==
  /\ t \notin alive /\ alive' = alive \cup {t}
  /\ UNCHANGED <<bridgeVars, clipVars, fileVars>>

\* bridge_tablet_endpoint: old requests are pruned; the request is parked and sent, or
\* answered at once when there is no Mac or the send fails.
Ask(t, stale) ==
  /\ t \in alive /\ asked[t] < MaxRequests /\ stale \subseteq parked
  /\ asked' = [asked EXCEPT ![t] = @ + 1]
  /\ LET id == <<t, asked'[t]>>
     IN  IF mac # None /\ mac \in alive
         THEN /\ parked' = (parked \ stale) \cup {id}
              /\ inbound' = inbound \cup {[at |-> mac, id |-> id]} /\ UNCHANGED answered
         ELSE /\ parked' = parked \ stale
              /\ answered' = answered \cup {id} /\ UNCHANGED inbound
  /\ UNCHANGED <<alive, mac, joining, clipVars, fileVars>>

\* The Mac answers: to the tablet that asked, if its request is still parked.
Answer(i) ==
  /\ i \in inbound /\ i.at \in alive /\ inbound' = inbound \ {i}
  /\ parked' = parked \ {i.id}
  /\ answered' = IF i.id \in parked THEN answered \cup {i.id} ELSE answered
  /\ UNCHANGED <<alive, mac, joining, asked, clipVars, fileVars>>

\* Rejected variant of TabletEnds: its requests stay until they are pruned.
TabletLeaves(t) ==
  /\ t \in alive /\ alive' = alive \ {t} /\ UNCHANGED parked
  /\ UNCHANGED <<mac, joining, asked, inbound, answered, clipVars, fileVars>>

\* The tablet's socket ends: its requests are dropped.
TabletEnds(t) ==
  /\ t \in alive /\ alive' = alive \ {t} /\ parked' = {id \in parked : id[1] # t}
  /\ UNCHANGED <<mac, joining, asked, inbound, answered, clipVars, fileVars>>

----------------------------------------------------------------------------
(* The clipboard                                                            *)

\* put_clip, in its thread: the number first ...
CountClip ==
  /\ ~writing /\ clips < MaxClips /\ clips' = clips + 1
  /\ box' = [box EXCEPT !.seq = @ + 1] /\ writing' = TRUE
  /\ UNCHANGED <<alive, bridgeVars, after, got, fileVars>>

\* ... then the clip.
StoreClip ==
  /\ writing /\ box' = [box EXCEPT !.clip = clips] /\ writing' = FALSE
  /\ UNCHANGED <<alive, bridgeVars, clips, after, got, fileVars>>

\* _news: what has another number than the reader's last one.
ReadClip ==
  /\ box.clip # 0 /\ box.seq # after
  /\ after' = box.seq /\ got' = box.clip
  /\ UNCHANGED <<alive, bridgeVars, box, clips, writing, fileVars>>

ExpireClip ==
  /\ box.clip # 0 /\ ~writing /\ box' = [box EXCEPT !.clip = 0]
  /\ UNCHANGED <<alive, bridgeVars, clips, writing, after, got, fileVars>>

----------------------------------------------------------------------------
(* Files                                                                    *)

Total(f) == Size * Cardinality({i \in DOMAIN f : f[i] # 0})

\* Rejected variant of Chunk: what is held is not compared.
ChunkUnchecked(i) ==
  /\ streams[i] < Size /\ streams' = [streams EXCEPT ![i] = @ + 1]
  /\ crossed' = (crossed \/ \E o \in FileIds \ {i} : streams[o] > 0)
  /\ UNCHANGED <<alive, bridgeVars, clipVars, files>>

\* put_file reads a chunk and compares what it has with what is held at that moment.
Chunk(i) ==
  /\ streams[i] < Size /\ streams[i] + 1 <= MaxTotal - Total(files)
  /\ streams' = [streams EXCEPT ![i] = @ + 1]
  /\ crossed' = (crossed \/ \E o \in FileIds \ {i} : streams[o] > 0)
  /\ UNCHANGED <<alive, bridgeVars, clipVars, files>>

\* It is refused, or its stream breaks.
Refused(i) ==
  /\ streams[i] > 0 /\ streams' = [streams EXCEPT ![i] = 0]
  /\ UNCHANGED <<alive, bridgeVars, clipVars, files, crossed>>

\* The stream ends and the file is there.
Stored(i) ==
  /\ streams[i] = Size /\ streams' = [streams EXCEPT ![i] = 0]
  /\ files' = [f \in DOMAIN files \cup {i} |-> IF f = i THEN Size ELSE files[f]]
  /\ UNCHANGED <<alive, bridgeVars, clipVars, crossed>>

\* DELETE: taken.
Take(i) ==
  /\ files' = [f \in DOMAIN files \cup {i} |-> IF f = i THEN 0 ELSE files[f]]
  /\ UNCHANGED <<alive, bridgeVars, clipVars, streams, crossed>>

\* _forget_old.
Forget(i) ==
  /\ i \in DOMAIN files /\ files' = [f \in DOMAIN files \ {i} |-> files[f]]
  /\ UNCHANGED <<alive, bridgeVars, clipVars, streams, crossed>>

\* A redeploy.
RailwayRestarts ==
  /\ mac' = None /\ joining' = {} /\ alive' = {} /\ parked' = {} /\ inbound' = {}
  /\ box' = [seq |-> 0, clip |-> 0] /\ writing' = FALSE
  /\ files' = <<>> /\ streams' = [i \in FileIds |-> 0]
  /\ UNCHANGED <<asked, answered, clips, after, got, crossed>>

Init ==
  /\ mac = None /\ joining = {} /\ alive = {} /\ asked = [t \in Tablets |-> 0]
  /\ parked = {} /\ inbound = {} /\ answered = {}
  /\ box = [seq |-> 0, clip |-> 0] /\ clips = 0 /\ writing = FALSE /\ after = -1 /\ got = 0
  /\ files = <<>> /\ streams = [i \in FileIds |-> 0]
  /\ crossed = FALSE

Bridge ==
  \/ \E m \in Macs : MacConnects(m) \/ MacEnds(m)
  \/ \E j \in joining : MacTakesOver(j)
  \/ \E t \in Tablets : TabletConnects(t) \/ TabletEnds(t) \/ \E s \in SUBSET parked : Ask(t, s)
  \/ \E i \in inbound : Answer(i)

Clipboard == CountClip \/ StoreClip \/ ReadClip \/ ExpireClip

Parcels == \E i \in FileIds : Chunk(i) \/ Refused(i) \/ Stored(i) \/ Take(i) \/ Forget(i)

Next == Bridge \/ Clipboard \/ Parcels \/ RailwayRestarts

Spec == Init /\ [][Next]_vars

----------------------------------------------------------------------------
(* Properties                                                               *)

\* The variables have the types the code gives them.
TypeOK ==
  /\ mac \in Macs \cup {None} /\ alive \subseteq Macs \cup Tablets
  /\ \A j \in joining : j.new \in Macs /\ j.old \in Macs
  /\ asked \in [Tablets -> 0 .. MaxRequests] /\ parked \subseteq Requests
  /\ \A i \in inbound : i.at \in Macs /\ i.id \in Requests
  /\ answered \subseteq Requests
  /\ box \in [seq : Nat, clip : 0 .. clips] /\ writing \in BOOLEAN
  /\ after \in Nat \cup {-1} /\ got \in 0 .. clips
  /\ \A i \in DOMAIN files : files[i] \in {0, Size}
  /\ streams \in [FileIds -> 0 .. Size]

\* bridge/router.py:48-50 and 174-176: what is parked belongs to a tablet that is there, and waits
\* for its only answer, whichever Mac gives it.
RequestsComeHome == parked \cap answered = {} /\ \A id \in parked : id[1] \in alive

\* file_relay.py:55, of uploads that come one at a time: what is held never passes MAX_TOTAL.
OneFits == ~crossed => Total(files) <= MaxTotal

----------------------------------------------------------------------------
(* Promises the code does not keep; TLC shows how                           *)

\* file_relay.py:55, "two uploads at once must not pass the total between them".
TwoFit == Total(files) <= MaxTotal

\* clip_relay.py:8, a restart "still counts as news": a stored clip that the reader does
\* not have is news to it.
NewestIsNews == box.clip # 0 /\ ~writing /\ got < box.clip => box.seq # after

\* clip_relay.py:55-61, in a thread: a clip is not read under the number of another.
ReadOnce == [][ReadClip => got' # got]_vars

\* bridge/router.py:45, "The single connected Mac".
OneMac == joining = {} => Cardinality(alive \cap Macs) <= 1

----------------------------------------------------------------------------
(* The inductive invariant behind the theorems of LimitsProofs              *)

BridgeTypeOK ==
  /\ mac \in Macs \cup {None} /\ alive \subseteq Macs \cup Tablets
  /\ joining \subseteq [new : Macs, old : Macs]
  /\ asked \in [Tablets -> 0 .. MaxRequests]

\* The ids in use are of requests that were asked.
AskedSoFar == {r \in Requests : r[2] <= asked[r[1]]}

BridgeInv ==
  /\ BridgeTypeOK
  /\ parked \subseteq AskedSoFar /\ answered \subseteq AskedSoFar
  /\ inbound \subseteq [at : Macs, id : AskedSoFar]
  /\ RequestsComeHome

ClipsTypeOK ==
  /\ box \in [seq : Nat, clip : 0 .. clips] /\ clips \in Nat /\ writing \in BOOLEAN
  /\ after \in Nat \cup {-1} /\ got \in 0 .. clips

\* Of uploads that come one at a time, there is room for what was read of the one under way.
RoomForOne ==
  ~crossed => \A i \in FileIds : streams[i] > 0 =>
                /\ Total(files) + streams[i] <= MaxTotal
                /\ \A o \in FileIds : streams[o] > 0 => o = i

ParcelsInv ==
  /\ IsFiniteSet(DOMAIN files) /\ streams \in [FileIds -> 0 .. Size] /\ crossed \in BOOLEAN
  /\ RoomForOne /\ OneFits

RelaysInv == BridgeInv /\ ClipsTypeOK /\ ParcelsInv
=============================================================================
