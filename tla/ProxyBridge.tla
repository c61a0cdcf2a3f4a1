---------------------------- MODULE ProxyBridge -----------------------------
(***************************************************************************)
(* The calls of the phones.  A phone only reaches Railway, which forwards  *)
(* /api/participant/* over the daemon's WebSocket                          *)
(* (railway/features/ws/proxy_bridge.py).  The daemon runs each request on *)
(* a worker thread that calls the daemon's own HTTP server, sends the      *)
(* events of the handler and then the response (daemon/proxy_handler.py),  *)
(* over whatever link there is by then (daemon/ws_client.py).              *)
(*                                                                         *)
(* Handlers run on one event loop and do not suspend between reading and   *)
(* writing the state, so Handle is one action.  The content of a write is  *)
(* its place in the order of all writes.  A crash of the daemon process    *)
(* is not part of this module.                                             *)
(***************************************************************************)
EXTENDS Integers, Sequences, FiniteSets

CONSTANTS
  Requests,      \* the calls of the phones, each with an id of its own
  Workers,       \* size of the worker pool (32 in the code)
  MaxDrops,      \* bound on the losses of the link, seen from either end
  MaxRestarts,   \* bound on the restarts of Railway
  MaxHostWrites  \* bound on the writes that come from the host panel

ASSUME ProxyAssumption ==
  /\ Workers \in Nat \ {0}
  /\ {MaxDrops, MaxRestarts, MaxHostWrites} \subseteq Nat

NotYet   == -1
Rejected == 0
Broken   == -2   \* an error made on the way: a 400 or 502 of the worker

VARIABLES
  call,      \* of every call: "new", "waiting", "answered", "ok" or "failed"
  pending,   \* _pending_requests
  future,    \* the result of its future, while it is waiting and afterwards
  daemonWs,  \* Railway holds a connection of the daemon (state.daemon_ws)
  link,      \* the daemon holds a connection to Railway (ws_client._ws)
  down, up,  \* what is on its way on that connection
  jobs,      \* the queue of the worker pool
  job,       \* what the worker of a request does
  got,       \* the response it holds
  http,      \* its local HTTP request: "none", "posted" or "served"
  writes,    \* number of writes of the daemon's state
  verdict,   \* what the handler did with a request
  shown,     \* the requests whose event has been fanned out to the phones
  cut,       \* history: requests in progress while a link was lost
  budget     \* what is left of the bounds

railwayVars == <<call, pending, future>>
linkVars    == <<daemonWs, link, down, up>>
workerVars  == <<jobs, job, got>>
stateVars   == <<http, writes, verdict>>
vars == <<railwayVars, linkVars, workerVars, stateVars, shown, cut, budget>>

----------------------------------------------------------------------------
(* Helpers                                                                 *)

Event(r)    == [kind |-> "event", of |-> r, result |-> NotYet]
Reply(r, v) == [kind |-> "reply", of |-> r, result |-> v]

\* WsClient.send: over the current link; without one the message is dropped.
\* What is sent on a link that Railway has already given up is lost too.
Send(m) == up' = IF link /\ daemonWs THEN Append(up, m) ELSE up

Busy == {r \in Requests : job[r] \in {"calling", "events", "reply"}}
InProgress == {r \in Requests : job[r] \in {"queued", "calling", "events", "reply"}}

----------------------------------------------------------------------------
(* Railway: a call comes in and waits                                      *)

\* "Trainer not connected".
CallUnconnected(r) ==
  /\ call[r] = "new" /\ ~daemonWs
  /\ call' = [call EXCEPT ![r] = "failed"]
  /\ UNCHANGED <<pending, future, linkVars, workerVars, stateVars, shown, cut, budget>>

\* proxy_to_daemon up to its wait.  On a dead link the frame goes nowhere.
Call(r) ==
  /\ call[r] = "new" /\ daemonWs
  /\ call' = [call EXCEPT ![r] = "waiting"]
  /\ pending' = pending \cup {r}
  /\ down' = IF link THEN Append(down, r) ELSE down
  /\ UNCHANGED <<future, daemonWs, link, up, workerVars, stateVars, shown, cut, budget>>

\* Rejected variant of CallSendFails: forgets to take the future back.
CallSendFailsLeaks(r, left) ==
  /\ call[r] = "new" /\ daemonWs
  /\ call' = [call EXCEPT ![r] = "failed"]
  /\ pending' = pending \cup {r}
  /\ down' = IF left /\ link THEN Append(down, r) ELSE down
  /\ UNCHANGED <<future, daemonWs, link, up, workerVars, stateVars, shown, cut, budget>>

\* ws.send_json raises, possibly after the frame has left.
CallSendFails(r, left) ==
  /\ call[r] = "new" /\ daemonWs
  /\ call' = [call EXCEPT ![r] = "failed"]
  /\ down' = IF left /\ link THEN Append(down, r) ELSE down
  /\ UNCHANGED <<pending, future, daemonWs, link, up, workerVars, stateVars, shown, cut, budget>>

\* Rejected variant of TimeOut: waits without a limit while the link seems up.
TimeOutUnconnected(r) ==
  /\ call[r] \in {"waiting", "answered"} /\ ~daemonWs
  /\ call' = [call EXCEPT ![r] = "failed"]
  /\ pending' = pending \ {r}
  /\ UNCHANGED <<future, linkVars, workerVars, stateVars, shown, cut, budget>>

\* wait_for gives up after PROXY_TIMEOUT; it may do so although the future was
\* resolved a moment before.
TimeOut(r) ==
  /\ call[r] \in {"waiting", "answered"}
  /\ call' = [call EXCEPT ![r] = "failed"]
  /\ pending' = pending \ {r}
  /\ UNCHANGED <<future, linkVars, workerVars, stateVars, shown, cut, budget>>

\* The waiting task resumes and answers the phone with what the daemon returned.
Finish(r) ==
  /\ call[r] = "answered"
  /\ call' = [call EXCEPT ![r] = IF future[r] = Broken THEN "failed" ELSE "ok"]
  /\ pending' = pending \ {r}
  /\ UNCHANGED <<future, linkVars, workerVars, stateVars, shown, cut, budget>>

----------------------------------------------------------------------------
(* Railway: the receive loop of the daemon's connection, in order          *)

\* _handle_broadcast: the fan-out is awaited before the next message is read.
ReceiveEvent ==
  /\ daemonWs /\ up # <<>> /\ Head(up).kind = "event"
  /\ shown' = shown \cup {Head(up).of}
  /\ up' = Tail(up)
  /\ UNCHANGED <<railwayVars, daemonWs, link, down, workerVars, stateVars, cut, budget>>

\* Rejected variant of ReceiveReply: resolves some pending call, not the one named.
ReceiveReplyAny ==
  /\ daemonWs /\ up # <<>> /\ Head(up).kind = "reply"
  /\ LET r == Head(up).of
         q == IF pending = {} THEN r ELSE CHOOSE p \in pending : TRUE
     IN IF q \in pending /\ call[q] = "waiting"
        THEN /\ call' = [call EXCEPT ![q] = "answered"]
             /\ future' = [future EXCEPT ![q] = Head(up).result]
        ELSE UNCHANGED <<call, future>>
  /\ up' = Tail(up)
  /\ UNCHANGED <<pending, daemonWs, link, down, workerVars, stateVars, shown, cut, budget>>

\* handle_proxy_response: an id that is no longer pending is ignored, and so is a
\* future that is already done.
ReceiveReply ==
  /\ daemonWs /\ up # <<>> /\ Head(up).kind = "reply"
  /\ LET r == Head(up).of
     IN IF r \in pending /\ call[r] = "waiting"
        THEN /\ call' = [call EXCEPT ![r] = "answered"]
             /\ future' = [future EXCEPT ![r] = Head(up).result]
        ELSE UNCHANGED <<call, future>>
  /\ up' = Tail(up)
  /\ UNCHANGED <<pending, daemonWs, link, down, workerVars, stateVars, shown, cut, budget>>

----------------------------------------------------------------------------
(* Daemon: the WebSocket thread and the worker pool                        *)

\* The WebSocket thread reads a proxy_request and submits it.
Submit ==
  /\ link /\ down # <<>>
  /\ down' = Tail(down)
  /\ jobs' = Append(jobs, Head(down))
  /\ job' = [job EXCEPT ![Head(down)] = "queued"]
  /\ UNCHANGED <<railwayVars, daemonWs, link, up, got, stateVars, shown, cut, budget>>

\* A worker takes the oldest job and calls the local server.
Start ==
  /\ jobs # <<>> /\ Cardinality(Busy) < Workers
  /\ jobs' = Tail(jobs)
  /\ job' = [job EXCEPT ![Head(jobs)] = "calling"]
  /\ http' = [http EXCEPT ![Head(jobs)] = "posted"]
  /\ UNCHANGED <<railwayVars, linkVars, got, writes, verdict, shown, cut, budget>>

\* The handler of the request runs, whether or not the worker still waits for it.
Handle(r, accepts) ==
  /\ http[r] = "posted"
  /\ http' = [http EXCEPT ![r] = "served"]
  /\ IF accepts
     THEN /\ writes' = writes + 1
          /\ verdict' = [verdict EXCEPT ![r] = writes + 1]
     ELSE /\ verdict' = [verdict EXCEPT ![r] = Rejected]
          /\ UNCHANGED writes
  /\ UNCHANGED <<railwayVars, linkVars, workerVars, shown, cut, budget>>

\* Rejected variant of TakeResponse: does not wait for the handler.
TakeResponseEarly(r) ==
  /\ job[r] = "calling" /\ http[r] # "none"
  /\ got' = [got EXCEPT ![r] = verdict[r]]
  /\ job' = [job EXCEPT ![r] = IF verdict[r] = Rejected THEN "reply" ELSE "events"]
  /\ UNCHANGED <<railwayVars, linkVars, jobs, stateVars, shown, cut, budget>>

\* The local response arrives; the events of the handler travel in its header.
TakeResponse(r) ==
  /\ job[r] = "calling" /\ http[r] = "served"
  /\ got' = [got EXCEPT ![r] = verdict[r]]
  /\ job' = [job EXCEPT ![r] = IF verdict[r] = Rejected THEN "reply" ELSE "events"]
  /\ UNCHANGED <<railwayVars, linkVars, jobs, stateVars, shown, cut, budget>>

\* Rejected variant of LocalFailure: the worker dies without an answer.
LocalFailureSilent(r, sent) ==
  /\ job[r] = "calling"
  /\ http' = IF ~sent /\ http[r] = "posted" THEN [http EXCEPT ![r] = "none"] ELSE http
  /\ UNCHANGED <<railwayVars, linkVars, workerVars, writes, verdict, shown, cut, budget>>

\* The path is refused, the local server is not up, or it is too slow (its handler
\* may then still run): the worker makes an error response.
LocalFailure(r, sent) ==
  /\ job[r] = "calling"
  /\ http' = IF ~sent /\ http[r] = "posted" THEN [http EXCEPT ![r] = "none"] ELSE http
  /\ got' = [got EXCEPT ![r] = Broken]
  /\ job' = [job EXCEPT ![r] = "reply"]
  /\ UNCHANGED <<railwayVars, linkVars, jobs, writes, verdict, shown, cut, budget>>

\* Rejected variant of SendEvents: the response goes first.
SendEventsLast(r) ==
  /\ job[r] = "events"
  /\ up' = IF link /\ daemonWs THEN up \o <<Reply(r, got[r]), Event(r)>> ELSE up
  /\ job' = [job EXCEPT ![r] = "done"]
  /\ UNCHANGED <<railwayVars, daemonWs, link, down, jobs, got, stateVars, shown, cut, budget>>

\* The events go out, before the response; nobody looks at the result of send.
SendEvents(r) ==
  /\ job[r] = "events"
  /\ Send(Event(r))
  /\ job' = [job EXCEPT ![r] = "reply"]
  /\ UNCHANGED <<railwayVars, daemonWs, link, down, jobs, got, stateVars, shown, cut, budget>>

SendReply(r) ==
  /\ job[r] = "reply"
  /\ Send(Reply(r, got[r]))
  /\ job' = [job EXCEPT ![r] = "done"]
  /\ UNCHANGED <<railwayVars, daemonWs, link, down, jobs, got, stateVars, shown, cut, budget>>

\* A handler of the host panel writes the state, past the proxy.
HostWrite ==
  /\ budget.host > 0
  /\ budget' = [budget EXCEPT !.host = @ - 1]
  /\ writes' = writes + 1
  /\ UNCHANGED <<railwayVars, linkVars, workerVars, http, verdict, shown, cut>>

----------------------------------------------------------------------------
(* The link                                                                *)

\* The daemon connects.  What Railway had not read on a previous connection that
\* it still held is gone.
Connect ==
  /\ ~link
  /\ link' = TRUE /\ daemonWs' = TRUE
  /\ down' = <<>> /\ up' = <<>>
  /\ UNCHANGED <<railwayVars, workerVars, stateVars, shown, cut, budget>>

\* The daemon finds its connection dead; some of what it sent still arrives.
DaemonLosesLink(keep) ==
  /\ link /\ budget.drops > 0
  /\ budget' = [budget EXCEPT !.drops = @ - 1]
  /\ link' = FALSE /\ down' = <<>>
  /\ up' = SubSeq(up, 1, keep)
  /\ cut' = cut \cup InProgress
  /\ UNCHANGED <<railwayVars, daemonWs, workerVars, stateVars, shown>>

\* Railway finds the connection dead; some of what it sent still arrives.
RailwayLosesLink(keep) ==
  /\ daemonWs /\ budget.drops > 0
  /\ budget' = [budget EXCEPT !.drops = @ - 1]
  /\ daemonWs' = FALSE /\ up' = <<>>
  /\ down' = SubSeq(down, 1, keep)
  /\ cut' = cut \cup InProgress
  /\ UNCHANGED <<railwayVars, link, workerVars, stateVars, shown>>

\* The other end follows: a close frame, a reset or a missing pong.
NoticeLoss ==
  /\ daemonWs # link
  /\ IF link THEN down = <<>> ELSE up = <<>>
  /\ link' = FALSE /\ daemonWs' = FALSE
  /\ cut' = cut \cup InProgress
  /\ UNCHANGED <<railwayVars, down, up, workerVars, stateVars, shown, budget>>

\* Railway restarts: the connections of the phones break, its futures are gone.
RailwayRestart ==
  /\ budget.restarts > 0
  /\ budget' = [budget EXCEPT !.restarts = @ - 1]
  /\ call' = [r \in Requests |-> IF r \in pending THEN "failed" ELSE call[r]]
  /\ pending' = {}
  /\ daemonWs' = FALSE /\ up' = <<>>
  /\ cut' = cut \cup InProgress
  /\ UNCHANGED <<future, link, down, workerVars, stateVars, shown>>

----------------------------------------------------------------------------
Init ==
  /\ call = [r \in Requests |-> "new"] /\ pending = {}
  /\ future = [r \in Requests |-> NotYet]
  /\ daemonWs = FALSE /\ link = FALSE /\ down = <<>> /\ up = <<>>
  /\ jobs = <<>> /\ job = [r \in Requests |-> "none"]
  /\ got = [r \in Requests |-> NotYet] /\ http = [r \in Requests |-> "none"]
  /\ writes = 0 /\ verdict = [r \in Requests |-> NotYet]
  /\ shown = {} /\ cut = {}
  /\ budget = [drops |-> MaxDrops, restarts |-> MaxRestarts, host |-> MaxHostWrites]

RailwayStep(r) ==
  \/ CallUnconnected(r) \/ Call(r)
  \/ \E left \in BOOLEAN : CallSendFails(r, left)
  \/ TimeOut(r) \/ Finish(r)

WorkerStep(r) ==
  \/ \E accepts \in BOOLEAN : Handle(r, accepts)
  \/ TakeResponse(r) \/ SendEvents(r) \/ SendReply(r)
  \/ \E sent \in BOOLEAN : LocalFailure(r, sent)

LinkStep ==
  \/ Connect \/ NoticeLoss \/ RailwayRestart
  \/ \E keep \in 0 .. Len(up) : DaemonLosesLink(keep)
  \/ \E keep \in 0 .. Len(down) : RailwayLosesLink(keep)

Next ==
  \/ \E r \in Requests : RailwayStep(r) \/ WorkerStep(r)
  \/ ReceiveEvent \/ ReceiveReply \/ Submit \/ Start \/ HostWrite
  \/ LinkStep

\* Timers fire, tasks and threads are scheduled.  No fairness for the local server
\* (a handler may hang: the worker then gives up after its own time limit, which is
\* part of WorkerStep) nor for the link.
Fairness ==
  /\ \A r \in Requests :
        /\ WF_vars(TimeOut(r) \/ Finish(r))
        /\ WF_vars((\E sent \in BOOLEAN : LocalFailure(r, sent)) \/ TakeResponse(r)
                     \/ SendEvents(r) \/ SendReply(r))
  /\ WF_vars(Start) /\ WF_vars(Submit) /\ WF_vars(ReceiveEvent \/ ReceiveReply)

Spec == Init /\ [][Next]_vars
FairSpec == Spec /\ Fairness

----------------------------------------------------------------------------
(* Properties                                                              *)

RailwayTypeOK ==
  /\ call \in [Requests -> {"new", "waiting", "answered", "ok", "failed"}]
  /\ pending \subseteq Requests
  /\ future \in [Requests -> Int]

\* A reply always carries a verdict or an error.
LinkTypeOK ==
  /\ down \in Seq(Requests)
  /\ up \in Seq([kind : {"event", "reply"}, of : Requests, result : Int])
  /\ \A i \in 1 .. Len(up) : up[i].kind = "reply" => up[i].result # NotYet

WorkerTypeOK ==
  /\ jobs \in Seq(Requests)
  /\ job \in [Requests -> {"none", "queued", "calling", "events", "reply", "done"}]
  /\ got \in [Requests -> Int]

StateTypeOK ==
  /\ http \in [Requests -> {"none", "posted", "served"}]
  /\ writes \in Nat /\ verdict \in [Requests -> {NotYet} \cup Nat]

HistoryTypeOK ==
  /\ shown \subseteq Requests /\ cut \subseteq Requests
  /\ budget \in [drops : 0 .. MaxDrops, restarts : 0 .. MaxRestarts, host : 0 .. MaxHostWrites]

FlagsTypeOK == daemonWs \in BOOLEAN /\ link \in BOOLEAN

TypeOK == RailwayTypeOK /\ LinkTypeOK /\ WorkerTypeOK /\ StateTypeOK
          /\ HistoryTypeOK /\ FlagsTypeOK

\* Every call that still waits has its future registered, and no other future stays
\* behind: not after a timeout, a failed send, a late answer or a restart.
FuturesMatchCalls == pending = {r \in Requests : call[r] \in {"waiting", "answered"}}

\* A phone that gets its answer finds its own change already broadcast to everybody,
\* unless a link was lost while the request was in progress.
OkMeansShownUnlessCut ==
  \A r \in Requests : (call[r] = "ok" /\ verdict[r] # Rejected /\ r \notin cut) => r \in shown

\* Whatever is lost or late, every call returns.
EveryCallReturns ==
  \A r \in Requests : (call[r] = "waiting") ~> (call[r] \in {"ok", "failed"})

\* Every request the daemon took is worked off, also one that waits for a worker behind others
\* whose handler hangs or whose answer nobody takes: none keeps a worker forever.
PoolDrains == \A r \in Requests : (job[r] = "queued") ~> (job[r] = "done")

Status == [r \in Requests |->
             IF call[r] \in {"waiting", "answered"} THEN "asked" ELSE call[r]]
Answer == [r \in Requests |-> IF call[r] = "ok" THEN future[r] ELSE NotYet]

\* A call behaves like an atomic one: performed at most once, answered at most once,
\* and with the verdict of its own execution.
Abstract == INSTANCE RequestReply WITH
  status <- Status, answer <- Answer

CallsAreAtomic == Abstract!Spec

----------------------------------------------------------------------------
(* A promise the code does not keep; TLC shows how, see the README          *)

\* OkMeansShownUnlessCut without its exception, as the design document states it.
OkMeansShown ==
  \A r \in Requests : (call[r] = "ok" /\ verdict[r] # Rejected) => r \in shown
=============================================================================
