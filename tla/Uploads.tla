------------------------------ MODULE Uploads -------------------------------
(***************************************************************************)
(* A participant's files on their way to the session folder: Railway takes  *)
(* a file into a temporary one and tells the daemon                         *)
(* (railway/features/upload/router.py); a thread per file fetches it, saves *)
(* it under a name that is free, lists it for the host and acknowledges it, *)
(* on which Railway drops its copy (daemon/upload.py, daemon/misc/state.py).*)
(* Uploads are numbered by history; the code numbers them anew after a      *)
(* redeploy.  The files are those of one participant and one session.       *)
(***************************************************************************)
EXTENDS Integers, FiniteSets, Functions

CONSTANTS Names, None, MaxUploads

UploadsAssumption == MaxUploads \in Nat \ {0}

VARIABLES
  sent,      \* history: uploads accepted, the last one's number
  nextId,    \* upload_next_id
  entries,   \* uploaded_files of Railway: id, upload, name, whether the temporary file is there
  wire,      \* file_ready_for_download messages
  linked,    \* the daemon is connected
  threads,   \* _do_download: its message, the path it picked, and where it is
  disk,      \* the uploads folder: path -> upload, or Part
  listed,    \* uploaded_files of the daemon: id -> upload, whether the host has seen it
  gone,      \* history: uploads lost with a redeploy, or turned away
  short,     \* history: uploads of which a part was taken for the whole
  clashed    \* history: two threads picked one path, or the numbers restarted under a thread

railwayVars == <<sent, nextId, entries>>
daemonVars == <<threads, disk, listed>>
vars == <<railwayVars, wire, linked, daemonVars, gone, short, clashed>>

Paths == Names \X (0 .. MaxUploads)
Part == 0     \* what is on disk of a transfer that did not come to its end

\* POST api/upload: the entry, and a message for the daemon that is lost when there is none.
Upload(name) ==
  /\ sent < MaxUploads
  /\ sent' = sent + 1 /\ nextId' = nextId + 1
  /\ LET entry == [id |-> nextId', up |-> sent', name |-> name]
     IN  /\ entries' = entries \cup {[id |-> nextId', up |-> sent', name |-> name, temp |-> TRUE]}
         /\ wire' = IF linked THEN wire \cup {entry} ELSE wire
  /\ UNCHANGED <<linked, daemonVars, gone, short, clashed>>

\* Too large, empty, or broken off: the temporary file goes and the number is spent.
TurnedAway ==
  /\ sent < MaxUploads /\ sent' = sent + 1 /\ nextId' = nextId + 1 /\ gone' = gone \cup {sent'}
  /\ UNCHANGED <<entries, wire, linked, daemonVars, short, clashed>>

\* handle_file_ready_for_download: a thread.
Handle(m) ==
  /\ m \in wire /\ wire' = wire \ {m}
  /\ threads' = threads \cup {[of |-> m, path |-> None, at |-> "pick"]}
  /\ UNCHANGED <<railwayVars, linked, disk, listed, gone, short, clashed>>

Moves(t, s) == threads' = (threads \ {t}) \cup s
Free(name, n) == <<name, n>> \notin DOMAIN disk /\ \A k \in 0 .. n - 1 : <<name, k>> \in DOMAIN disk

\* The first path that does not exist yet; the thread takes it without creating it.
Pick(t) ==
  /\ t.at = "pick"
  /\ \E n \in 0 .. MaxUploads :
       /\ Free(t.of.name, n)
       /\ Moves(t, {[t EXCEPT !.path = <<t.of.name, n>>, !.at = "fetch"]})
       /\ clashed' = (clashed \/ \E o \in threads : o.path = <<t.of.name, n>>)
  /\ UNCHANGED <<railwayVars, wire, linked, disk, listed, gone, short>>

Without(f, x) == [y \in DOMAIN f \ {x} |-> f[y]]
With(f, x, v) == [y \in DOMAIN f \cup {x} |-> IF y = x THEN v ELSE f[y]]
Held(id) == {e \in entries : e.id = id /\ e.temp}

\* What came of the file is saved and listed; an entry of that number keeps its seen mark.
Save(t, e, what) ==
  /\ disk' = With(disk, t.path, what)
  /\ listed' = With(listed, e.id, [up |-> t.of.up,
                                   seen |-> e.id \in DOMAIN listed /\ listed[e.id].seen])
  /\ Moves(t, {[t EXCEPT !.at = "ack"]})
  /\ UNCHANGED <<railwayVars, wire, linked, gone, clashed>>

\* GET upload/{id}: the file Railway has under that number, to its end.
Fetch(t) ==
  /\ t.at = "fetch" /\ \E e \in Held(t.of.id) : Save(t, e, e.up)
  /\ UNCHANGED short

\* ... or a part of it: a connection that is closed early reads like the end of the file, and
\* the size is not compared.
FetchShort(t) ==
  /\ t.at = "fetch"
  /\ \E e \in Held(t.of.id) : Save(t, e, Part) /\ short' = short \cup {e.up}

\* Rejected variant of FetchFails: the acknowledgement follows all the same.
FetchFailsQuietly(t) ==
  /\ t.at = "fetch" /\ Moves(t, {[t EXCEPT !.at = "ack"]}) /\ disk' = Without(disk, t.path)
  /\ UNCHANGED <<railwayVars, wire, linked, listed, gone, short, clashed>>

\* ... it is not there, or the transfer raises: what is under the path is removed.
FetchFails(t) ==
  /\ t.at = "fetch" /\ Moves(t, {}) /\ disk' = Without(disk, t.path)
  /\ UNCHANGED <<railwayVars, wire, linked, listed, gone, short, clashed>>

\* POST upload/{id}/ack: Railway drops its copy.
Ack(t) ==
  /\ t.at = "ack" /\ Moves(t, {})
  /\ entries' = {[e EXCEPT !.temp = e.temp /\ e.id # t.of.id] : e \in entries}
  /\ UNCHANGED <<sent, nextId, wire, linked, disk, listed, gone, short, clashed>>

AckFails(t) ==
  /\ t.at = "ack" /\ Moves(t, {})
  /\ UNCHANGED <<railwayVars, wire, linked, disk, listed, gone, short, clashed>>

\* POST uploads/seen.
Seen(id) ==
  /\ id \in DOMAIN listed /\ listed' = [listed EXCEPT ![id].seen = TRUE]
  /\ UNCHANGED <<railwayVars, wire, linked, threads, disk, gone, short, clashed>>

LinkChanges ==
  /\ linked' = ~linked /\ wire' = {}
  /\ UNCHANGED <<railwayVars, daemonVars, gone, short, clashed>>

\* A redeploy of Railway: entries and numbers start anew.
RailwayRestarts ==
  /\ entries' = {} /\ nextId' = 0 /\ wire' = {} /\ linked' = FALSE
  /\ gone' = gone \cup {e.up : e \in {x \in entries : x.temp}}
  /\ clashed' = (clashed \/ threads # {})
  /\ UNCHANGED <<sent, daemonVars, short>>

\* A restart of the daemon: the list was persisted, the threads are gone, and what some of them
\* had written by then stays.
DaemonRestarts ==
  /\ threads' = {} /\ wire' = {} /\ linked' = FALSE
  /\ \E S \in SUBSET {t.path : t \in {x \in threads : x.at = "fetch"}} :
       disk' = [p \in DOMAIN disk \cup S |-> IF p \in S THEN Part ELSE disk[p]]
  /\ UNCHANGED <<railwayVars, listed, gone, short, clashed>>

Init ==
  /\ sent = 0 /\ nextId = 0 /\ entries = {} /\ wire = {} /\ linked = TRUE
  /\ threads = {} /\ disk = <<>> /\ listed = <<>> /\ gone = {} /\ short = {}
  /\ clashed = FALSE

Next ==
  \/ \E n \in Names : Upload(n)
  \/ TurnedAway
  \/ \E m \in wire : Handle(m)
  \/ \E t \in threads : \/ Pick(t) \/ Fetch(t) \/ FetchShort(t) \/ FetchFails(t)
                       \/ Ack(t) \/ AckFails(t)
  \/ \E id \in DOMAIN listed : Seen(id)
  \/ LinkChanges \/ RailwayRestarts \/ DaemonRestarts

Spec == Init /\ [][Next]_vars

----------------------------------------------------------------------------
(* Properties                                                               *)

Sent == 1 .. sent

\* The variables have the types the code gives them.
TypeOK ==
  /\ sent \in 0 .. MaxUploads /\ nextId \in 0 .. sent
  /\ \A e \in entries : e.id \in 1 .. nextId /\ e.up \in Sent /\ e.name \in Names
  /\ \A m \in wire : m.id \in 1 .. nextId /\ m.up \in Sent
  /\ \A t \in threads : t.path \in Paths \cup {None} /\ t.at \in {"pick", "fetch", "ack"}
  /\ DOMAIN disk \subseteq Paths /\ Range(disk) \subseteq Sent \cup {Part}
  /\ \A id \in DOMAIN listed : listed[id].up \in Sent /\ listed[id].seen \in BOOLEAN
  /\ gone \cup short \subseteq Sent /\ {linked, clashed} \subseteq BOOLEAN

\* An upload is in the session folder, whole, or Railway still has it.
Safe(up) == up \in Range(disk) \/ \E e \in entries : e.up = up /\ e.temp

\* upload/router.py: Railway's copy goes only when the file is in the session folder: a file
\* that was taken is in one place or the other, whatever raises on the way and whatever goes
\* with a link, a daemon or a redeploy.  Not so for one of which a part was taken for the whole,
\* and once two threads picked one path, or one outlived the numbers its file goes by.
NothingIsLost == ~clashed => \A up \in Sent \ (gone \cup short) : Safe(up)

----------------------------------------------------------------------------
(* Promises the code does not keep; TLC shows how                           *)

\* daemon/upload.py:92, the acknowledgement of a file that was saved: also of one that was cut
\* off without an exception.
WholeIsSaved == ~clashed => \A up \in Sent \ gone : Safe(up)

\* daemon/upload.py:34-41, a name that is free: no file is written over another.
SavedStays == [][\A p \in DOMAIN disk : p \in DOMAIN disk' /\ disk'[p] = disk[p]]_vars

\* ... nor is a copy dropped for the acknowledgement of another file.
AckIsForItsFile ==
  [][\A t \in threads : Ack(t) =>
       \A e \in Held(t.of.id) : e.up \in Range(disk) \cup short]_vars

\* daemon/misc/state.py:126-133: each saved file has a line of its own in the host's list.
EverySavedIsListed == Cardinality(DOMAIN listed) >= Cardinality(Range(disk) \ {Part})

----------------------------------------------------------------------------
(* The inductive invariant behind the theorems of Records                   *)

Messages == [id : 1 .. nextId, up : Sent, name : Names]

UploadsTypeOK ==
  /\ sent \in 0 .. MaxUploads /\ nextId \in 0 .. sent
  /\ entries \subseteq [id : 1 .. nextId, up : Sent, name : Names, temp : BOOLEAN]
  /\ wire \subseteq Messages
  /\ threads \subseteq [of : [id : Nat, up : Sent, name : Names], path : Paths \cup {None},
                        at : {"pick", "fetch", "ack"}]
  /\ \A t \in threads : t.at # "pick" => t.path \in Paths
  /\ DOMAIN disk \subseteq Paths /\ disk \in [DOMAIN disk -> Sent \cup {Part}]
  /\ listed \in [DOMAIN listed -> [up : Sent, seen : BOOLEAN]]
  /\ gone \subseteq Sent /\ short \subseteq Sent /\ {linked, clashed} \subseteq BOOLEAN

\* As long as no two threads take one path and the numbers are those of one Railway: a thread
\* has a path of its own with nothing under it until it has fetched, and then what Railway
\* has under that number, or a part of it.
ThreadsKeepApart ==
  ~clashed =>
    /\ \A e, f \in entries : e.id = f.id => e = f
    /\ \A t \in threads : t.of.id <= nextId
    /\ \A t, o \in threads : t.at # "pick" /\ o.at # "pick" /\ t.path = o.path => t = o
    /\ \A t \in threads : t.at = "fetch" => t.path \notin DOMAIN disk
    /\ \A t \in threads, e \in entries : t.at = "ack" /\ e.id = t.of.id /\ e.temp =>
         t.path \in DOMAIN disk /\ (disk[t.path] = e.up \/ e.up \in short)

UploadsInv == UploadsTypeOK /\ ThreadsKeepApart /\ NothingIsLost
=============================================================================
