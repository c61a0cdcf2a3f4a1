----------------------------- MODULE AddonLink -----------------------------
(***************************************************************************)
(* What the add-on on the trainer's Mac knows of the session                *)
(* (daemon/addon_bridge_client.py, its callers in daemon/__main__.py).      *)
(* The main loop announces what starts and ends; the thread of the link     *)
(* announces the active session again on every new connection.  It reads    *)
(* the id and the folder one after the other, while the main loop writes    *)
(* them one after the other.                                                *)
(***************************************************************************)
EXTENDS Integers, Sequences, FiniteSets

CONSTANTS Sessions, Folders, None, MaxCalls   \* bound on the requests and disconnections

LinkAssumption == MaxCalls \in Nat \ {0} /\ None \notin Sessions \cup Folders

VARIABLES
  active,   \* session_state's active id
  folder,   \* config.session_folder
  at,       \* where the main loop is: "idle" or what it still does, with the folder to set
  linked,   \* _ws is a connection
  wire,     \* the messages under way on it
  call,     \* the connection callback: "off", "read" the id next, or what it read and sends
  overlay,  \* what the add-on knows: None, or the session of its folder
  calls,
  raced,    \* history: a callback ran while the main loop changed the session
  missed,   \* history: an end was announced when nobody heard it
  renamed   \* history: the active session was renamed, or created over

vars == <<active, folder, at, linked, wire, call, overlay, calls, raced, missed, renamed>>
untouched == <<calls, raced, missed, renamed>>

\* The payload of session_started; the last day of the set follows from the folder.
Started(id, dir) == [id |-> id, dir |-> dir]

\* _send: best effort.
Send(msg) == wire' = IF linked THEN Append(wire, msg) ELSE wire

Idle == at.step = "idle"
Does(step) == at' = [at EXCEPT !.step = step]
Races == raced' = (raced \/ call.step # "off")
Asks == calls < MaxCalls /\ calls' = calls + 1

----------------------------------------------------------------------------
(* The main loop                                                            *)

\* Create or resume with no session: the id is saved, then the folder is set, then sent.
Create(s, dir) ==
  /\ Idle /\ active = None /\ Asks
  /\ active' = s /\ at' = [step |-> "config", dir |-> dir] /\ Races
  /\ UNCHANGED <<folder, linked, wire, call, overlay, missed, renamed>>

SetFolder ==
  /\ at.step = "config" /\ folder' = at.dir /\ Does("send") /\ Races
  /\ UNCHANGED <<active, linked, wire, call, overlay, calls, missed, renamed>>

\* Create on top of a session: the id changes, and nothing else.
CreateOver(s) ==
  /\ Idle /\ active # None /\ s # active /\ Asks
  /\ active' = s /\ Does("send") /\ Races /\ renamed' = TRUE
  /\ UNCHANGED <<folder, linked, wire, call, overlay, missed>>

SendStarted ==
  /\ at.step = "send" /\ Does("idle") /\ Send(Started(active, folder)) /\ Races
  /\ UNCHANGED <<active, folder, linked, call, overlay, calls, missed, renamed>>

\* Resume of the active session announces it again.
Resume ==
  /\ Idle /\ active # None /\ Asks /\ Does("send") /\ Races
  /\ UNCHANGED <<active, folder, linked, wire, call, overlay, missed, renamed>>

\* Rename: another folder, and no word to the add-on.
Rename(dir) ==
  /\ Idle /\ active # None /\ dir # folder /\ Asks
  /\ folder' = dir /\ renamed' = TRUE /\ Races
  /\ UNCHANGED <<active, at, linked, wire, call, overlay, missed>>

\* End: the folder goes, the end is sent, and the active id is saved after that.
End ==
  /\ Idle /\ active # None /\ Asks
  /\ folder' = None /\ Does("tell") /\ Races
  /\ UNCHANGED <<active, linked, wire, call, overlay, missed, renamed>>

SendEnded ==
  /\ at.step = "tell" /\ Does("save") /\ Send(None) /\ Races
  /\ missed' = (missed \/ ~linked)
  /\ UNCHANGED <<active, folder, linked, call, overlay, calls, renamed>>

SaveEnded ==
  /\ at.step = "save" /\ Does("idle") /\ active' = None /\ Races
  /\ UNCHANGED <<folder, linked, wire, call, overlay, calls, missed, renamed>>

----------------------------------------------------------------------------
(* The link's thread and the add-on                                         *)

\* A connection: _ws is there for every thread before the callback runs.
Connect ==
  /\ ~linked /\ call.step = "off" /\ linked' = TRUE /\ call' = [call EXCEPT !.step = "read"]
  /\ raced' = (raced \/ ~Idle)
  /\ UNCHANGED <<active, folder, at, wire, overlay, calls, missed, renamed>>

\* Rejected variant of ReadActive: whoever connects is told of no session.
ReadNothing ==
  /\ call.step = "read" /\ call' = [call EXCEPT !.step = "off"]
  /\ UNCHANGED <<active, folder, at, linked, wire, overlay, untouched>>

ReadActive ==
  /\ call.step = "read"
  /\ call' = [call EXCEPT !.step = IF active = None THEN "off" ELSE "folder", !.id = active]
  /\ UNCHANGED <<active, folder, at, linked, wire, overlay, untouched>>

ReadFolder ==
  /\ call.step = "folder" /\ call' = [call EXCEPT !.step = "send", !.dir = folder]
  /\ UNCHANGED <<active, folder, at, linked, wire, overlay, untouched>>

SendActive ==
  /\ call.step = "send" /\ Send(Started(call.id, call.dir))
  /\ call' = [step |-> "off", id |-> None, dir |-> None]
  /\ UNCHANGED <<active, folder, at, linked, overlay, untouched>>

Hear ==
  /\ wire # <<>> /\ wire' = Tail(wire) /\ overlay' = Head(wire)
  /\ UNCHANGED <<active, folder, at, linked, call, untouched>>

\* The connection ends, with what was under way; the thread's reading loop ends first, so a
\* callback is over.  The add-on may have been restarted.
Disconnect ==
  /\ linked /\ call.step = "off" /\ Asks /\ linked' = FALSE /\ wire' = <<>>
  /\ overlay' \in {overlay, None}
  /\ missed' = (missed \/ \E i \in DOMAIN wire : wire[i] = None)
  /\ UNCHANGED <<active, folder, at, call, raced, renamed>>

Init ==
  /\ active = None /\ folder = None /\ at = [step |-> "idle", dir |-> None]
  /\ linked = FALSE /\ wire = <<>> /\ call = [step |-> "off", id |-> None, dir |-> None]
  /\ overlay = None /\ calls = 0 /\ raced = FALSE /\ missed = FALSE /\ renamed = FALSE

Next ==
  \/ \E s \in Sessions : CreateOver(s) \/ \E dir \in Folders : Create(s, dir)
  \/ \E dir \in Folders : Rename(dir)
  \/ SetFolder \/ SendStarted \/ Resume \/ End \/ SendEnded \/ SaveEnded
  \/ Connect \/ ReadActive \/ ReadFolder \/ SendActive \/ Hear \/ Disconnect

Spec == Init /\ [][Next]_vars

----------------------------------------------------------------------------
(* Properties                                                               *)

\* The variables have the types the code gives them.
TypeOK ==
  /\ active \in Sessions \cup {None} /\ folder \in Folders \cup {None}
  /\ \A i \in DOMAIN wire :
       wire[i] # None => wire[i].id \in Sessions /\ wire[i].dir \in Folders \cup {None}
  /\ overlay # None => overlay.id \in Sessions /\ overlay.dir \in Folders \cup {None}

Settled == linked /\ Idle /\ call.step = "off" /\ wire = <<>>

\* __main__.py:982, "send session state on reconnect": once everything has been said, the
\* add-on knows the active session and its folder, and no session when there is none, as long
\* as no callback ran during a change, no end was missed and nothing was renamed.
OverlayKnows ==
  Settled /\ ~raced /\ ~missed /\ ~renamed =>
    overlay = IF active = None THEN None ELSE Started(active, folder)

----------------------------------------------------------------------------
(* Promises the code does not keep; TLC shows how                           *)

\* The same when an end was missed: nothing tells the add-on on the next connection.
EndIsKnown ==
  Settled /\ ~raced /\ ~renamed => (active = None => overlay = None)

\* The same when the session was renamed: artefacts go on to the old folder.
FolderIsKnown ==
  Settled /\ ~raced /\ ~missed /\ active # None => overlay.dir = folder

\* The same when a connection and a change meet.
AlwaysKnows ==
  Settled /\ ~missed /\ ~renamed =>
    overlay = IF active = None THEN None ELSE Started(active, folder)

----------------------------------------------------------------------------
(* The inductive invariant behind the theorems of Records                   *)

Messages == [id : Sessions, dir : Folders \cup {None}] \cup {None}

LinkTypeOK ==
  /\ active \in Sessions \cup {None} /\ folder \in Folders \cup {None}
  /\ at \in [step : {"idle", "config", "send", "tell", "save"}, dir : Folders \cup {None}]
  /\ at.step = "config" => at.dir \in Folders
  /\ call \in [step : {"off", "read", "folder", "send"}, id : Sessions \cup {None},
               dir : Folders \cup {None}]
  /\ call.step \in {"folder", "send"} => call.id \in Sessions
  /\ wire \in Seq(Messages) /\ overlay \in Messages
  /\ {linked, raced, missed, renamed} \subseteq BOOLEAN

\* What the add-on will know once it has heard everything.
Coming == IF wire = <<>> THEN overlay ELSE wire[Len(wire)]

\* What is under way is on a connection, and so is a callback; the main loop is busy with a
\* session only; and a callback that met no change has read what is so.
Orderly ==
  /\ ~linked => wire = <<>> /\ call.step = "off"
  /\ ~Idle => active # None
  /\ ~raced /\ call.step # "off" => Idle
  /\ ~raced /\ call.step \in {"folder", "send"} => active # None /\ call.id = active
  /\ ~raced /\ call.step = "send" => call.dir = folder

\* Nothing else than the session there is will be known.
Heard ==
  ~raced /\ ~missed /\ ~renamed =>
    /\ (Idle /\ active = None) \/ at.step = "save" => Coming = None
    /\ Idle /\ active # None /\ linked /\ call.step = "off" => Coming = Started(active, folder)

LinkInv == LinkTypeOK /\ Orderly /\ Heard
=============================================================================
