------------------------------ MODULE Gateway ------------------------------
(***************************************************************************)
(* The public half of the system: the Railway process that holds the       *)
(* WebSockets of the phones and of the host panel, and the one WebSocket   *)
(* of the trainer's daemon (railway/features/ws/router.py,                 *)
(* railway/shared/messaging.py, railway/shared/session_registry.py).       *)
(*                                                                         *)
(* Railway runs one asyncio loop, so an action of this module is the code  *)
(* between two awaits that really suspend: a send or a close on somebody   *)
(* else's socket, a sleep, a receive.  `websocket.accept()` does not       *)
(* suspend under uvicorn, so a connection is judged and listed in one      *)
(* step.                                                                   *)
(*                                                                         *)
(* The daemon is the environment here: it opens and loses its link,        *)
(* announces session ids, and keeps the set of participants it believes    *)
(* online.  SessionLifecycle models it in detail.                          *)
(***************************************************************************)
EXTENDS Integers, Sequences, FiniteSets, TLC

CONSTANTS
  Phones,       \* participant uuids
  Host,         \* the reserved id "__host__"
  Pids,         \* who connects in this instance: phones, and the host or not
  Sessions,     \* session ids, already lowercased
  Sockets,      \* client WebSocket objects; a finished one may be reused
  Links,        \* daemon WebSocket objects; a finished one may be reused
  Grace,        \* _DAEMON_DISCONNECT_GRACE_SECONDS, in ticks
  BlipsOnly,    \* TRUE: the daemon always returns before the grace is over
  MaxSwitches,  \* bound on the session announcements that change something
  MaxDrops,     \* bound on the losses of the daemon's link
  MaxRestarts,  \* bound on the restarts of the Railway process
  MaxMail,      \* bound on the presence messages in flight to the daemon
  None

Nothing == "nothing"           \* no announcement on this connection yet
Evictor == "evictor"           \* the task _evict_all_clients_after_grace
Walkers == Links \cup {Evictor}  \* the loops that drop clients one by one

ASSUME GatewayAssumption ==
  /\ Host \notin Phones
  /\ Pids \subseteq Phones \cup {Host}
  /\ None \notin Phones \cup {Host} \cup Sessions \cup Sockets \cup Links
  /\ Evictor \notin Links
  /\ Grace \in Nat \ {0}
  /\ BlipsOnly \in BOOLEAN
  /\ {MaxSwitches, MaxDrops, MaxRestarts, MaxMail} \subseteq Nat

VARIABLES
  sessionId,     \* state.session_id
  registry,      \* session_registry: "unknown", "live" or "ended" per id
  participants,  \* state.participants: pid -> the listed socket
  history,       \* state.participant_history: the session each pid was added
                 \* under, None when the pid is not in the set
  sock,          \* every client socket with the phase of its handler
  daemonWs,      \* state.daemon_ws
  conn,          \* phase of the handler of each daemon connection
  todo,          \* what each client-dropping loop still has to visit
  at,            \* the client whose send or close such a loop awaits
  kick,          \* _pending_kick_task: "none", "asleep" or "running"
  left,          \* ticks until the sleeping task wakes up
  absent,        \* ticks since daemonWs became None, at most Grace
  link,          \* the connection the daemon process itself uses
  said,          \* the session id it announced last on that connection
  outbox,        \* per connection, announcements Railway has not handled yet
  inbox,         \* presence messages Railway sent and it has not handled
  online,        \* the daemon's online_participants
  budget         \* what is left of MaxSwitches, MaxDrops and MaxRestarts

railwayVars == <<sessionId, registry, participants, history, sock>>
daemonVars  == <<link, said, outbox, inbox, online>>
evictVars   == <<kick, left, absent>>
walkVars    == <<todo, at>>
vars == <<railwayVars, daemonWs, conn, walkVars, evictVars, daemonVars, budget>>

----------------------------------------------------------------------------
(* Helpers                                                                 *)

Idle == [pid |-> None, sess |-> None, ph |-> "free", old |-> None]

\* A socket object is still named by a loop or by a host that kicks it.
Referenced(s) ==
  \/ \E w \in Walkers : \E e \in todo[w] \cup at[w] : e[2] = s
  \/ \E t \in Sockets : sock[t].old = s

\* push_to_daemon: to state.daemon_ws, if there is one.  A send on a link that
\* the daemon has already lost goes nowhere.
Push(m) == inbox' = IF daemonWs # None /\ daemonWs = link
                    THEN Append(inbox, m) ELSE inbox
Presence(p, isOnline) == [who |-> {p}, kind |-> IF isOnline THEN "online" ELSE "offline"]
CanPush == Len(inbox) < MaxMail

IsActive(x) == x # None /\ x = sessionId              \* is_active_session_id

Listed == {<<p, participants[p]>> : p \in {q \in Pids : participants[q] # None}}

\* The server closes s: its handler sees a disconnect at its next receive.
Closed(f, s) == IF f[s].ph \in {"live", "stalled"} THEN [f EXCEPT ![s].ph = "closing"] ELSE f

----------------------------------------------------------------------------
(* Client sockets                                                          *)

\* session_websocket_endpoint for an id that is not live: 1013 "try again" for
\* an id nobody announced yet, a redirect away for the others.  No socket is kept.
Refused(s, p, x) ==
  /\ sock[s].ph = "free" /\ ~IsActive(x)
  /\ sock' = [sock EXCEPT ![s] =
        [pid |-> p, sess |-> x, old |-> None,
         ph  |-> IF sessionId = None /\ registry[x] = "unknown" THEN "retry" ELSE "away"]]
  /\ UNCHANGED <<sessionId, registry, participants, history, daemonWs, conn,
                 walkVars, evictVars, daemonVars, budget>>

\* _handle_participant_connection of a phone, up to its receive loop.
PhoneConnect(s, p, x) ==
  /\ p \in Phones /\ sock[s].ph = "free" /\ IsActive(x) /\ CanPush
  /\ sock' = [sock EXCEPT ![s] = [pid |-> p, sess |-> x, ph |-> "live", old |-> None]]
  /\ participants' = [participants EXCEPT ![p] = s]
  /\ history' = [history EXCEPT ![p] = x]
  /\ Push(Presence(p, TRUE))
  /\ UNCHANGED <<sessionId, registry, daemonWs, conn, walkVars, evictVars,
                 link, said, outbox, online, budget>>

\* The host panel connects: with no previous panel it is listed at once; else
\* _kick_old_connection first sends and closes, which takes time.
HostConnect(s, x) ==
  /\ Host \in Pids /\ sock[s].ph = "free" /\ IsActive(x)
  /\ LET old == participants[Host]
         me  == [pid |-> Host, sess |-> x, old |-> old,
                 ph |-> IF old = None THEN "live" ELSE "kicking"]
     IN IF old = None
        THEN /\ sock' = [sock EXCEPT ![s] = me]
             /\ participants' = [participants EXCEPT ![Host] = s]
        ELSE /\ sock' = [Closed(sock, old) EXCEPT ![s] = me]
             /\ UNCHANGED participants
  /\ UNCHANGED <<sessionId, registry, history, daemonWs, conn, walkVars,
                 evictVars, daemonVars, budget>>

\* The kick is over.  The guarded delete of the old entry is overwritten by the
\* new one in the same step.
HostListed(s) ==
  /\ sock[s].ph = "kicking"
  /\ sock' = [sock EXCEPT ![s].ph = "live", ![s].old = None]
  /\ participants' = [participants EXCEPT ![Host] = s]
  /\ UNCHANGED <<sessionId, registry, history, daemonWs, conn, walkVars,
                 evictVars, daemonVars, budget>>

\* The browser closes, or the network does.
PeerGone(s) ==
  /\ sock[s].ph = "live"
  /\ sock' = [sock EXCEPT ![s].ph = "closing"]
  /\ UNCHANGED <<sessionId, registry, participants, history, daemonWs, conn,
                 walkVars, evictVars, daemonVars, budget>>

\* A fan-out (broadcast, heartbeat, count update) finds that the listed socket
\* stopped draining: its send is now inside the one second timeout of _send.
Stall(s) ==
  /\ sock[s].ph = "live" /\ participants[sock[s].pid] = s
  /\ sock' = [sock EXCEPT ![s].ph = "stalled"]
  /\ UNCHANGED <<sessionId, registry, participants, history, daemonWs, conn,
                 walkVars, evictVars, daemonVars, budget>>

\* Rejected variant of Drop: forgets the pid whatever socket it maps to by now.
DropAnyway(s) ==
  /\ sock[s].ph = "stalled"
  /\ participants' = [participants EXCEPT ![sock[s].pid] = None]
  /\ sock' = Closed(sock, s)
  /\ UNCHANGED <<sessionId, registry, history, daemonWs, conn, walkVars, evictVars,
                 daemonVars, budget>>

\* _drop: forget the socket only while the entry is still this socket.
Drop(s) ==
  /\ sock[s].ph = "stalled"
  /\ participants' = IF participants[sock[s].pid] = s
                     THEN [participants EXCEPT ![sock[s].pid] = None] ELSE participants
  /\ sock' = Closed(sock, s)
  /\ UNCHANGED <<sessionId, registry, history, daemonWs, conn, walkVars,
                 evictVars, daemonVars, budget>>

\* Rejected variant of HandlerExit: a cleanup that is not in a finally block.
HandlerExitLeaksEntry(s) ==
  /\ sock[s].ph = "closing" /\ CanPush
  /\ IF sock[s].pid \in Phones THEN Push(Presence(sock[s].pid, FALSE)) ELSE UNCHANGED inbox
  /\ sock' = [sock EXCEPT ![s].ph = "done"]
  /\ UNCHANGED <<sessionId, registry, participants, history, daemonWs, conn, walkVars,
                 evictVars, link, said, outbox, online, budget>>

\* The finally block of _handle_participant_connection.
HandlerExit(s) ==
  /\ sock[s].ph = "closing" /\ CanPush
  /\ LET p == sock[s].pid
         rest == IF participants[p] = s THEN [participants EXCEPT ![p] = None]
                 ELSE participants
     IN /\ participants' = rest
        /\ IF p \in Phones /\ rest[p] = None
           THEN Push(Presence(p, FALSE)) ELSE UNCHANGED inbox
  /\ sock' = [sock EXCEPT ![s].ph = "done"]
  /\ UNCHANGED <<sessionId, registry, history, daemonWs, conn, walkVars,
                 evictVars, link, said, outbox, online, budget>>

\* A finished socket nobody names any more is as good as a new one.
Recycle(s) ==
  /\ sock[s].ph \in {"done", "retry", "away"} /\ ~Referenced(s)
  /\ sock' = [sock EXCEPT ![s] = Idle]
  /\ UNCHANGED <<sessionId, registry, participants, history, daemonWs, conn,
                 walkVars, evictVars, daemonVars, budget>>

----------------------------------------------------------------------------
(* The daemon's connection                                                 *)

NoEviction == /\ todo' = [todo EXCEPT ![Evictor] = {}]
              /\ at' = [at EXCEPT ![Evictor] = {}]

\* Rejected variant of CancelKick: forgets the task without cancelling it.
CancelNothing == UNCHANGED <<kick, left, todo, at>>
CancelKick == kick' = "none" /\ left' = 0 /\ NoEviction    \* _cancel_pending_kick

\* Rejected variant of RestartGrace: cancels the old timer and schedules none.
NoGrace == kick' = "none" /\ left' = 0 /\ NoEviction
RestartGrace == kick' = "asleep" /\ left' = Grace /\ NoEviction


\* Rejected variant of StatePush: a new link starts without the list.
NoStatePush(mail) == mail

\* The daemon_state_push of a new connection: who is connected right now.
StatePush(mail) == Append(mail, [who |-> {p \in Phones \cap Pids : participants[p] # None},
                                 kind |-> "all"])

\* The daemon (re)connects and re-announces its session, if it has one.  What it
\* had already queued for its main thread survives; what was still on the old
\* link is lost.  The cancel also ends an eviction that is under way, at its await.
\* A previous connection Railway has not given up yet is closed first.
DaemonConnect(d, x, keep) ==
  /\ conn[d] = "free" /\ link = None /\ keep \in 0 .. Len(inbox) /\ keep < MaxMail
  /\ link' = d
  /\ said' = IF x = None THEN Nothing ELSE x
  /\ outbox' = [outbox EXCEPT ![d] = IF x = None THEN <<>> ELSE <<x>>]
  /\ CancelKick
  /\ LET mail == SubSeq(inbox, 1, keep)
     IN IF daemonWs = None
        THEN /\ conn' = [conn EXCEPT ![d] = "loop"]
             /\ daemonWs' = d /\ absent' = 0
             /\ inbox' = StatePush(mail)
        ELSE /\ conn' = [conn EXCEPT ![d] = "kicking"]
             /\ inbox' = mail
             /\ UNCHANGED <<daemonWs, absent>>
  /\ UNCHANGED <<railwayVars, online, budget>>

\* Rejected variant of DaemonInstall: leaves the old connection's loop running.
DaemonInstallBeside(d) ==
  /\ conn[d] = "kicking" /\ CanPush
  /\ conn' = [conn EXCEPT ![d] = "loop"]
  /\ daemonWs' = d /\ absent' = 0
  /\ inbox' = IF d = link THEN StatePush(inbox) ELSE inbox
  /\ UNCHANGED <<railwayVars, walkVars, kick, left, link, said, outbox, online, budget>>

\* The old daemon socket is closed, what was still unread on it with it: the new
\* one is installed.
DaemonInstall(d) ==
  /\ conn[d] = "kicking" /\ CanPush
  /\ conn' = [e \in Links |-> IF e = d THEN "loop"
                              ELSE IF e = daemonWs /\ conn[e] = "loop" THEN "closed"
                              ELSE conn[e]]
  /\ daemonWs' = d /\ absent' = 0
  /\ inbox' = IF d = link THEN StatePush(inbox) ELSE inbox
  /\ UNCHANGED <<railwayVars, walkVars, kick, left, link, said, outbox, online, budget>>

\* The daemon loses its connection.  Railway may not notice for a while, and may
\* still find some of the announcements in its receive buffer.
LinkLost(keep) ==
  /\ link # None /\ budget.drops > 0 /\ keep \in 0 .. Len(outbox[link])
  /\ budget' = [budget EXCEPT !.drops = @ - 1]
  /\ link' = None /\ said' = Nothing
  /\ outbox' = [outbox EXCEPT ![link] = SubSeq(@, 1, keep)]
  /\ UNCHANGED <<railwayVars, daemonWs, conn, walkVars, evictVars, inbox, online>>

\* The finally block of daemon_websocket_endpoint: it restarts the grace period
\* even when a newer daemon connection is in place.
DaemonExit(d) ==
  /\ \/ conn[d] = "closed"
     \/ conn[d] = "loop" /\ d # link /\ outbox[d] = <<>>
  /\ conn' = [conn EXCEPT ![d] = "free"]
  /\ outbox' = [outbox EXCEPT ![d] = <<>>]
  /\ daemonWs' = IF daemonWs = d THEN None ELSE daemonWs
  /\ RestartGrace
  /\ UNCHANGED <<railwayVars, absent, link, said, inbox, online, budget>>

\* The daemon sends set_session_id: a session starts, changes, or ends (None).
Announce(x) ==
  /\ link # None /\ budget.switches > 0 /\ Len(outbox[link]) < 2
  /\ budget' = [budget EXCEPT !.switches = @ - 1]
  /\ said' = x
  /\ outbox' = [outbox EXCEPT ![link] = Append(@, x)]
  /\ UNCHANGED <<railwayVars, daemonWs, conn, walkVars, evictVars, link, inbox, online>>

\* Rejected variant of SetSession: ending a session sends nobody away.
SetSessionEndKeepsClients(d) ==
  /\ conn[d] = "loop" /\ outbox[d] # <<>>
  /\ LET new == Head(outbox[d])
         changed == sessionId # None /\ new # None /\ new # sessionId
     IN /\ sessionId' = new
        /\ registry' = [x \in Sessions |->
              IF x = new THEN "live"
              ELSE IF changed /\ x = sessionId THEN "ended" ELSE registry[x]]
        /\ history' = IF changed THEN [p \in Phones |-> None] ELSE history
        /\ todo' = [todo EXCEPT ![d] = IF changed THEN Listed ELSE {}]
        /\ conn' = [conn EXCEPT ![d] = IF changed THEN "walking" ELSE "loop"]
  /\ outbox' = [outbox EXCEPT ![d] = Tail(@)]
  /\ UNCHANGED <<participants, sock, daemonWs, at, evictVars, link, said, inbox, online, budget>>

\* _handle_set_session_id up to the first await: id, registry and caches change
\* together; the loop that drops the old clients starts from a snapshot.
SetSession(d) ==
  /\ conn[d] = "loop" /\ outbox[d] # <<>>
  /\ LET new == Head(outbox[d])
         changed == sessionId # None /\ new # sessionId
     IN /\ sessionId' = new
        /\ registry' = [x \in Sessions |->
              IF x = new THEN "live"
              ELSE IF changed /\ x = sessionId THEN "ended" ELSE registry[x]]
        /\ history' = IF changed THEN [p \in Phones |-> None] ELSE history
        /\ todo' = [todo EXCEPT ![d] = IF changed THEN Listed ELSE {}]
        /\ conn' = [conn EXCEPT ![d] = IF changed THEN "walking" ELSE "loop"]
  /\ outbox' = [outbox EXCEPT ![d] = Tail(@)]
  /\ UNCHANGED <<participants, sock, daemonWs, at, evictVars, link, said, inbox, online, budget>>

----------------------------------------------------------------------------
(* Dropping clients one after another, each with its own awaits            *)

\* The redirect frame and the close go to the socket of the snapshot ...
WalkSend(w) ==
  /\ at[w] = {} /\ \E e \in todo[w] :
       /\ at' = [at EXCEPT ![w] = {e}]
       /\ todo' = [todo EXCEPT ![w] = @ \ {e}]
       /\ sock' = Closed(sock, e[2])
  /\ UNCHANGED <<sessionId, registry, participants, history, daemonWs, conn,
                 evictVars, daemonVars, budget>>

\* ... but the pop removes whatever is listed under the pid by then.
WalkPop(w) ==
  /\ \E e \in at[w] : participants' = [participants EXCEPT ![e[1]] = None]
  /\ at' = [at EXCEPT ![w] = {}]
  /\ UNCHANGED <<sessionId, registry, history, sock, daemonWs, conn, todo,
                 evictVars, daemonVars, budget>>

SwitchDone(d) ==
  /\ conn[d] = "walking" /\ todo[d] = {} /\ at[d] = {}
  /\ conn' = [conn EXCEPT ![d] = IF daemonWs = d THEN "loop" ELSE "closed"]
  /\ UNCHANGED <<railwayVars, daemonWs, walkVars, evictVars, daemonVars, budget>>

----------------------------------------------------------------------------
(* The grace period                                                        *)

\* Rejected variant of Tick: the sleep is not over when it is over.
TickPastZero ==
  /\ kick = "asleep"
  /\ left' = left - 1
  /\ absent' = IF daemonWs = None /\ absent < Grace THEN absent + 1 ELSE absent
  /\ UNCHANGED <<railwayVars, daemonWs, conn, walkVars, kick, daemonVars, budget>>

\* One tick of the sleep.  Closing the socket of a handler that already ended
\* returns at once: a new connection is installed well before the next tick.
Tick ==
  /\ kick = "asleep" /\ left > IF BlipsOnly THEN 1 ELSE 0
  /\ daemonWs = None => \A d \in Links : conn[d] # "kicking"
  /\ left' = left - 1
  /\ absent' = IF daemonWs = None /\ absent < Grace THEN absent + 1 ELSE absent
  /\ UNCHANGED <<railwayVars, daemonWs, conn, walkVars, kick, daemonVars, budget>>

\* The sleep is over: evict everybody, unless a daemon is connected.
Wake ==
  /\ kick = "asleep" /\ left = 0
  /\ IF daemonWs # None
     THEN kick' = "none" /\ UNCHANGED todo
     ELSE kick' = "running" /\ todo' = [todo EXCEPT ![Evictor] = Listed]
  /\ UNCHANGED <<railwayVars, daemonWs, conn, at, left, absent, daemonVars, budget>>

\* Everybody of the snapshot is gone: the session is invalidated.
EvictDone ==
  /\ kick = "running" /\ todo[Evictor] = {} /\ at[Evictor] = {}
  /\ kick' = "none"
  /\ sessionId' = None
  /\ registry' = [x \in Sessions |-> IF x = sessionId THEN "ended" ELSE registry[x]]
  /\ history' = [p \in Phones |-> None]
  /\ UNCHANGED <<participants, sock, daemonWs, conn, walkVars, left, absent,
                 daemonVars, budget>>

----------------------------------------------------------------------------
(* The daemon's main thread, and a restart of Railway                      *)

\* drain_queue: handle_participant_presence or _handle_daemon_state_push.
DrainPresence ==
  /\ inbox # <<>>
  /\ LET m == Head(inbox)
     IN online' = CASE m.kind = "all"     -> m.who
                    [] m.kind = "online"  -> online \cup m.who
                    [] m.kind = "offline" -> online \ m.who
  /\ inbox' = Tail(inbox)
  /\ UNCHANGED <<railwayVars, daemonWs, conn, walkVars, evictVars, link, said, outbox, budget>>

NoWalks == [w \in Walkers |-> {}]
Unregistered == [x \in Sessions |-> "unknown"]
Nobody == [p \in Phones |-> None]
Silence == [d \in Links |-> <<>>]

\* AppState and SessionRegistry live in memory: all of it is gone, and so is
\* every connection.
RailwayRestart(keep) ==
  /\ budget.restarts > 0 /\ keep \in 0 .. Len(inbox)
  /\ budget' = [budget EXCEPT !.restarts = @ - 1]
  /\ sessionId' = None /\ registry' = Unregistered /\ history' = Nobody
  /\ participants' = [p \in Pids |-> None]
  /\ sock' = [s \in Sockets |-> Idle]
  /\ daemonWs' = None /\ conn' = [d \in Links |-> "free"]
  /\ todo' = NoWalks /\ at' = NoWalks
  /\ kick' = "none" /\ left' = 0 /\ absent' = 0
  /\ link' = None /\ said' = Nothing /\ outbox' = Silence
  /\ inbox' = SubSeq(inbox, 1, keep)
  /\ UNCHANGED online

----------------------------------------------------------------------------
Init ==
  /\ sessionId = None /\ registry = Unregistered /\ history = Nobody
  /\ participants = [p \in Pids |-> None]
  /\ sock = [s \in Sockets |-> Idle]
  /\ daemonWs = None /\ conn = [d \in Links |-> "free"]
  /\ todo = NoWalks /\ at = NoWalks
  /\ kick = "none" /\ left = 0 /\ absent = 0
  /\ link = None /\ said = Nothing /\ outbox = Silence /\ inbox = <<>> /\ online = {}
  /\ budget = [switches |-> MaxSwitches, drops |-> MaxDrops, restarts |-> MaxRestarts]

ClientStep(s) ==
  \/ \E p \in Pids, x \in Sessions : Refused(s, p, x) \/ PhoneConnect(s, p, x)
  \/ \E x \in Sessions : HostConnect(s, x)
  \/ HostListed(s) \/ PeerGone(s) \/ Stall(s) \/ Drop(s) \/ HandlerExit(s) \/ Recycle(s)

DaemonStep(d) ==
  \/ \E x \in Sessions \cup {None}, keep \in 0 .. MaxMail : DaemonConnect(d, x, keep)
  \/ DaemonInstall(d) \/ DaemonExit(d) \/ SetSession(d) \/ SwitchDone(d)

WalkStep(w) == WalkSend(w) \/ WalkPop(w)

Next ==
  \/ \E s \in Sockets : ClientStep(s)
  \/ \E d \in Links : DaemonStep(d)
  \/ \E w \in Walkers : WalkStep(w)
  \/ \E x \in Sessions \cup {None} : Announce(x)
  \/ \E keep \in 0 .. 2 : LinkLost(keep)
  \/ Tick \/ Wake \/ EvictDone \/ DrainPresence
  \/ \E keep \in 0 .. MaxMail : RailwayRestart(keep)

\* Fairness: Railway's tasks and timers run, sends and closes end (uvicorn
\* bounds them), a closed socket's handler is scheduled, the daemon drains its
\* queue.  Nobody has to connect, to announce or to lose anything.
Fairness ==
  /\ \A s \in Sockets : WF_vars(HostListed(s)) /\ WF_vars(Drop(s)) /\ WF_vars(HandlerExit(s))
  /\ \A d \in Links : WF_vars(DaemonInstall(d)) /\ WF_vars(DaemonExit(d))
                      /\ WF_vars(SetSession(d)) /\ WF_vars(SwitchDone(d))
  /\ \A w \in Walkers : WF_vars(WalkStep(w))
  /\ WF_vars(Tick) /\ WF_vars(Wake) /\ WF_vars(EvictDone) /\ WF_vars(DrainPresence)

Spec == Init /\ [][Next]_vars
FairSpec == Spec /\ Fairness

----------------------------------------------------------------------------
(* Properties                                                              *)

TypeOK ==
  /\ sessionId \in Sessions \cup {None}
  /\ registry \in [Sessions -> {"unknown", "live", "ended"}]
  /\ participants \in [Pids -> Sockets \cup {None}]
  /\ history \in [Phones -> Sessions \cup {None}]
  /\ sock \in [Sockets -> [pid : Pids \cup {None}, sess : Sessions \cup {None},
                           ph : {"free", "kicking", "live", "stalled", "closing",
                                 "done", "retry", "away"},
                           old : Sockets \cup {None}]]
  /\ daemonWs \in Links \cup {None} /\ link \in Links \cup {None}
  /\ conn \in [Links -> {"free", "kicking", "loop", "walking", "closed"}]
  /\ todo \in [Walkers -> SUBSET (Pids \X Sockets)]
  /\ at \in [Walkers -> SUBSET (Pids \X Sockets)]
  /\ kick \in {"none", "asleep", "running"} /\ left \in 0 .. Grace /\ absent \in 0 .. Grace
  /\ said \in Sessions \cup {None, Nothing}
  /\ outbox \in [Links -> Seq(Sessions \cup {None})]
  /\ inbox \in Seq([who : SUBSET Phones, kind : {"all", "online", "offline"}])
  /\ online \subseteq Phones
  /\ budget \in [switches : 0 .. MaxSwitches, drops : 0 .. MaxDrops, restarts : 0 .. MaxRestarts]

\* A connection whose handler has finished is never left in the broadcast list:
\* every entry is a socket of that very pid whose handler still runs.
ListedIsServed ==
  \A p \in Pids : participants[p] # None =>
     /\ sock[participants[p]].pid = p
     /\ sock[participants[p]].ph \in {"live", "stalled", "closing"}

\* Cohorts stay apart: a listed phone joined the session that is live now, or a
\* loop is about to drop that socket; and nobody of an earlier cohort is still in
\* participant_history.  (The host panel may follow from session to session.)
CohortIsolation ==
  \A p \in Phones \cap Pids :
     /\ participants[p] # None =>
          \/ sock[participants[p]].sess = sessionId
          \/ \E w \in Walkers : <<p, participants[p]>> \in todo[w] \cup at[w]
     /\ history[p] \in {sessionId, None}

\* A working socket stays in the broadcast list until a newer socket of the same
\* pid takes its place: no late cleanup, failed send or kick of an OLD socket
\* removes it, in whatever order they happen.
LiveStaysListed ==
  [][\A p \in Pids :
       LET s == participants[p]
       IN s # None /\ sock[s].ph = "live" /\ sock'[s].ph = "live"
            => participants'[p] # None]_vars

\* Whenever nothing is in flight, the daemon believes online exactly the phones
\* Railway lists: across drops of the link, reconnections over a half-open socket,
\* messages lost with a link or left over from the previous one, and restarts.
PresenceSettled ==
  (/\ inbox = <<>> /\ daemonWs # None /\ daemonWs = link
   /\ \A s \in Sockets : sock[s].ph # "closing")
    => online = {p \in Phones \cap Pids : participants[p] # None}

\* Nobody is evicted unless the daemon has been away, without interruption, for
\* the whole grace period.
GraceRespected == kick = "running" => daemonWs = None /\ absent = Grace

\* What the daemon announced last on its current connection is what Railway ends
\* up with: an announcement left over from an older connection never overrides it.
LastAnnouncementWins ==
  (link # None /\ conn[link] = "loop" /\ outbox[link] = <<>> /\ said # Nothing)
    => sessionId = said

\* A daemon that stays away loses its session: the live id does not outlive the
\* grace period (the landing page and the proxy would go on serving it).
AbsenceEndsSession ==
  (daemonWs = None /\ sessionId # None) ~> (sessionId = None \/ daemonWs # None)

\* Sockets, daemon connections and phones are interchangeable: sound for the
\* safety runs, not used for the liveness run.
Symmetry == Permutations(Sockets) \cup Permutations(Links) \cup Permutations(Phones)

----------------------------------------------------------------------------
(* Promises the code does not keep; TLC shows how, see the README           *)

\* Eviction is complete: once the id is cleared and no loop is dropping clients,
\* no phone is connected.
ClearedMeansEmpty ==
  (sessionId = None /\ \A w \in Walkers : todo[w] = {} /\ at[w] = {})
    => \A p \in Phones \cap Pids : participants[p] = None
=============================================================================
