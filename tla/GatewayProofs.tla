---------------------------- MODULE GatewayProofs ----------------------------
(***************************************************************************)
(* Theorems about Gateway, for every set of participants, sessions and     *)
(* connections, every grace period and every bound.                        *)
(***************************************************************************)
EXTENDS Gateway, TLAPS

Handler == [pid : Pids \cup {None}, sess : Sessions \cup {None},
            ph : {"free", "kicking", "live", "stalled", "closing", "done", "retry", "away"},
            old : Sockets \cup {None}]
Message == [who : SUBSET Phones, kind : {"all", "online", "offline"}]
Entries == Pids \X Sockets

ClientsTypeOK ==
  /\ participants \in [Pids -> Sockets \cup {None}] /\ sock \in [Sockets -> Handler]
SessionTypeOK ==
  /\ sessionId \in Sessions \cup {None}
  /\ registry \in [Sessions -> {"unknown", "live", "ended"}]
  /\ history \in [Phones -> Sessions \cup {None}]
LinksTypeOK ==
  /\ daemonWs \in Links \cup {None} /\ link \in Links \cup {None}
  /\ conn \in [Links -> {"free", "kicking", "loop", "walking", "closed"}]
WalksTypeOK == todo \in [Walkers -> SUBSET Entries] /\ at \in [Walkers -> SUBSET Entries]
KickTypeOK ==
  kick \in {"none", "asleep", "running"} /\ left \in 0 .. Grace /\ absent \in 0 .. Grace
SaidTypeOK ==
  said \in Sessions \cup {None, Nothing} /\ outbox \in [Links -> Seq(Sessions \cup {None})]
MailTypeOK == inbox \in Seq(Message) /\ online \subseteq Phones
BudgetTypeOK ==
  budget \in [switches : 0 .. MaxSwitches, drops : 0 .. MaxDrops, restarts : 0 .. MaxRestarts]

\* The type invariant is the conjunction of its named parts.
LEMMA TypeParts ==
  TypeOK <=> /\ ClientsTypeOK /\ SessionTypeOK /\ LinksTypeOK /\ WalksTypeOK
             /\ KickTypeOK /\ SaidTypeOK /\ MailTypeOK /\ BudgetTypeOK
BY DEF TypeOK, ClientsTypeOK, SessionTypeOK, LinksTypeOK, WalksTypeOK, KickTypeOK,
       SaidTypeOK, MailTypeOK, BudgetTypeOK, Handler, Message, Entries

\* The same of the next state.
LEMMA TypePartsNext ==
  TypeOK' <=> /\ ClientsTypeOK' /\ SessionTypeOK' /\ LinksTypeOK' /\ WalksTypeOK'
              /\ KickTypeOK' /\ SaidTypeOK' /\ MailTypeOK' /\ BudgetTypeOK'
BY DEF TypeOK, ClientsTypeOK, SessionTypeOK, LinksTypeOK, WalksTypeOK, KickTypeOK,
       SaidTypeOK, MailTypeOK, BudgetTypeOK, Handler, Message, Entries

----------------------------------------------------------------------------
(* Sequences                                                               *)

\* The last element of a sequence that has one.
Latest(s) == s[Len(s)]

\* Appending: the length, the old places and the new one.
LEMMA AppendFacts ==
  ASSUME NEW S, NEW s \in Seq(S), NEW e \in S
  PROVE  Append(s, e) \in Seq(S) /\ Append(s, e) # <<>> /\ Latest(Append(s, e)) = e
BY DEF Latest

\* Taking the head off: the length and where the rest has moved to.
LEMMA TailFacts ==
  ASSUME NEW S, NEW s \in Seq(S), s # <<>>
  PROVE  /\ Head(s) \in S /\ Tail(s) \in Seq(S)
         /\ Tail(s) = <<>> => Head(s) = Latest(s)
         /\ Tail(s) # <<>> => Latest(Tail(s)) = Latest(s)
<1>1. Len(s) \in Nat \ {0} /\ Head(s) = s[1] /\ Head(s) \in S
  OBVIOUS
<1>2. /\ Tail(s) \in Seq(S) /\ Len(Tail(s)) = Len(s) - 1
      /\ \A i \in 1 .. Len(s) - 1 : Tail(s)[i] = s[i + 1]
  OBVIOUS
<1>3. ASSUME Tail(s) = <<>> PROVE Head(s) = Latest(s)
  <2>1. Len(Tail(s)) = 0
    <3>1. Len(<<>>) = 0
      OBVIOUS
    <3> QED BY <1>3, <3>1, Zenon
  <2>2. Len(s) \in Nat /\ Len(Tail(s)) = Len(s) - 1
    BY <1>1, <1>2
  <2>3. Len(s) = 1
    <3> DEFINE n == Len(s)
               k == Len(Tail(s))
    <3>1. n \in Nat /\ k = n - 1 /\ k = 0
      BY <2>1, <2>2
    <3> HIDE DEF n, k
    <3>2. n = 1
      BY <3>1
    <3> QED BY <3>2 DEF n
  <2> QED BY <2>3, <1>1, Zenon DEF Latest
<1>4. ASSUME Tail(s) # <<>> PROVE Latest(Tail(s)) = Latest(s)
  <2>1. Len(Tail(s)) # 0
    BY <1>2, <1>4
  <2>2. Len(s) - 1 \in 1 .. Len(s) - 1
    BY <2>1, <1>1, <1>2
  <2> QED BY <2>2, <1>1, <1>2 DEF Latest
<1> QED BY <1>1, <1>2, <1>3, <1>4

\* Putting in front: what ConnectDaemon does with a first announcement.
LEMMA PrefixFacts ==
  ASSUME NEW S, NEW s \in Seq(S), NEW keep \in 0 .. Len(s)
  PROVE  SubSeq(s, 1, keep) \in Seq(S)
OBVIOUS

\* A sequence of one.
LEMMA SingleFacts ==
  ASSUME NEW S, NEW e \in S
  PROVE  <<e>> \in Seq(S) /\ <<e>> # <<>> /\ Latest(<<e>>) = e
BY DEF Latest

----------------------------------------------------------------------------
(* The clients' sockets                                                    *)

\* Closing a socket changes the phase of its handler and nothing else.
LEMMA ClosedFacts ==
  ASSUME NEW f \in [Sockets -> Handler], NEW s \in Sockets
  PROVE  /\ Closed(f, s) \in [Sockets -> Handler]
         /\ \A t \in Sockets :
              /\ Closed(f, s)[t].pid = f[t].pid /\ Closed(f, s)[t].sess = f[t].sess
              /\ \/ Closed(f, s)[t].ph = f[t].ph
                 \/ f[t].ph \in {"live", "stalled"} /\ Closed(f, s)[t].ph = "closing"
BY DEF Closed, Handler

\* What a step of a client's socket leaves alone.
ClientFrame ==
  UNCHANGED <<sessionId, registry, daemonWs, conn, walkVars, evictVars, link, said, outbox,
              online, budget>>

\* What no step of a client socket touches.
LEMMA ClientStepFrame ==
  ASSUME NEW s \in Sockets, ClientStep(s)
  PROVE  ClientFrame
BY DEF ClientStep, ClientFrame, Refused, PhoneConnect, HostConnect, HostListed, PeerGone,
       Stall, Drop, HandlerExit, Recycle, daemonVars

\* A push to the daemon keeps its inbox well-typed.
LEMMA PushType ==
  ASSUME MailTypeOK, NEW p \in Phones, NEW b \in BOOLEAN, Push(Presence(p, b))
  PROVE  inbox' \in Seq(Message)
<1>1. Presence(p, b) \in Message
  BY DEF Presence, Message
<1>2. inbox \in Seq(Message)
  BY DEF MailTypeOK
<1> QED BY <1>1, <1>2, AppendFacts DEF Push

\* Only the host's panel waits while the one before it is closed.
PanelsWait == \A s \in Sockets : sock[s].ph = "kicking" => sock[s].pid = Host /\ Host \in Pids
\* A handler that runs has somebody's socket.
RunningHasPid ==
  \A s \in Sockets : sock[s].ph \in {"live", "stalled", "closing"} => sock[s].pid \in Pids

ListedInv == ListedIsServed /\ PanelsWait /\ RunningHasPid

\* A step of a client's socket keeps its variables well-typed.
LEMMA ClientStepType ==
  ASSUME GatewayAssumption, TypeOK, ListedInv, NEW s \in Sockets, ClientStep(s)
  PROVE  TypeOK'
<1>0. /\ ClientsTypeOK /\ SessionTypeOK /\ LinksTypeOK /\ WalksTypeOK
      /\ KickTypeOK /\ SaidTypeOK /\ MailTypeOK /\ BudgetTypeOK
  BY TypeParts
<1>1. ClientFrame
  BY ClientStepFrame
<1>2. /\ LinksTypeOK' /\ WalksTypeOK' /\ KickTypeOK' /\ SaidTypeOK' /\ BudgetTypeOK'
  BY <1>0, <1>1 DEF ClientFrame, LinksTypeOK, WalksTypeOK, KickTypeOK, SaidTypeOK,
     BudgetTypeOK, walkVars, evictVars
<1>3. /\ participants' \in [Pids -> Sockets \cup {None}]
      /\ sock' \in [Sockets -> Handler]
      /\ history' \in [Phones -> Sessions \cup {None}]
      /\ inbox' \in Seq(Message)
  <2>0. /\ participants \in [Pids -> Sockets \cup {None}] /\ sock \in [Sockets -> Handler]
        /\ history \in [Phones -> Sessions \cup {None}] /\ inbox \in Seq(Message)
    BY <1>0 DEF ClientsTypeOK, SessionTypeOK, MailTypeOK
  <2>1. ASSUME NEW p \in Pids, NEW x \in Sessions, Refused(s, p, x)
        PROVE  <1>3!1 /\ <1>3!2 /\ <1>3!3 /\ <1>3!4
    BY <2>0, <2>1 DEF Refused, Handler, daemonVars
  <2>2. ASSUME NEW p \in Pids, NEW x \in Sessions, PhoneConnect(s, p, x)
        PROVE  <1>3!1 /\ <1>3!2 /\ <1>3!3 /\ <1>3!4
    <3>1. inbox' \in Seq(Message)
      BY <2>2, <1>0, PushType DEF PhoneConnect
    <3> QED BY <3>1, <2>0, <2>2 DEF PhoneConnect, Handler
  <2>3. ASSUME NEW x \in Sessions, HostConnect(s, x)
        PROVE  <1>3!1 /\ <1>3!2 /\ <1>3!3 /\ <1>3!4
    <3>0. Host \in Pids
      BY <2>3 DEF HostConnect
    <3>1. /\ inbox' = inbox /\ history' = history
      BY <2>3 DEF HostConnect, daemonVars
    <3>2. CASE participants[Host] = None
      BY <3>0, <3>1, <3>2, <2>0, <2>3 DEF HostConnect, Handler
    <3>3. CASE participants[Host] # None
      <4>1. participants[Host] \in Sockets
        BY <3>0, <3>3, <2>0
      <4>2. Closed(sock, participants[Host]) \in [Sockets -> Handler]
        BY <4>1, <2>0, ClosedFacts
      <4> QED BY <3>0, <3>1, <3>3, <4>1, <4>2, <2>0, <2>3 DEF HostConnect, Handler
    <3> QED BY <3>2, <3>3
  <2>4. ASSUME HostListed(s) PROVE <1>3!1 /\ <1>3!2 /\ <1>3!3 /\ <1>3!4
    <3>1. Host \in Pids
      BY <2>4 DEF HostListed, ListedInv, PanelsWait
    <3>2. participants' \in [Pids -> Sockets \cup {None}]
      BY <3>1, <2>0, <2>4 DEF HostListed
    <3>3. sock' \in [Sockets -> Handler]
      <4> DEFINE live == [sock EXCEPT ![s].ph = "live"]
      <4>1. live \in [Sockets -> Handler]
        BY SMTT(30), <2>0 DEF Handler
      <4>2. sock' = [live EXCEPT ![s].old = None]
        BY <2>4 DEF HostListed
      <4> HIDE DEF live
      <4> QED BY <4>1, <4>2 DEF Handler
    <3> QED BY <3>2, <3>3, <2>0, <2>4 DEF HostListed, daemonVars
  <2>5. ASSUME PeerGone(s) PROVE <1>3!1 /\ <1>3!2 /\ <1>3!3 /\ <1>3!4
    BY SMTT(30), <2>0, <2>5 DEF PeerGone, Handler, daemonVars
  <2>6. ASSUME Stall(s) PROVE <1>3!1 /\ <1>3!2 /\ <1>3!3 /\ <1>3!4
    BY <2>0, <2>6 DEF Stall, Handler, daemonVars
  <2>7. ASSUME Drop(s) PROVE <1>3!1 /\ <1>3!2 /\ <1>3!3 /\ <1>3!4
    BY <2>0, <2>7, ClosedFacts DEF Drop, daemonVars
  <2>8. ASSUME HandlerExit(s) PROVE <1>3!1 /\ <1>3!2 /\ <1>3!3 /\ <1>3!4
    <3>1. inbox' \in Seq(Message)
      BY <2>0, <2>8, <1>0, PushType DEF HandlerExit
    <3>2. sock[s].pid \in Pids
      BY <2>8 DEF HandlerExit, ListedInv, RunningHasPid
    <3>3. /\ participants' = participants \/ participants' = [participants EXCEPT ![sock[s].pid] = None]
          /\ sock' = [sock EXCEPT ![s].ph = "done"] /\ history' = history
      BY <2>8 DEF HandlerExit
    <3>4. participants' \in [Pids -> Sockets \cup {None}]
      BY <3>2, <3>3, <2>0
    <3>5. sock' \in [Sockets -> Handler]
      BY <3>3, <2>0 DEF Handler
    <3> QED BY <3>1, <3>3, <3>4, <3>5, <2>0
  <2>9. ASSUME Recycle(s) PROVE <1>3!1 /\ <1>3!2 /\ <1>3!3 /\ <1>3!4
    BY <2>0, <2>9 DEF Recycle, Idle, Handler, daemonVars
  <2> QED BY <2>1, <2>2, <2>3, <2>4, <2>5, <2>6, <2>7, <2>8, <2>9 DEF ClientStep
<1>4. SessionTypeOK' /\ MailTypeOK'
  BY <1>0, <1>1, <1>3 DEF ClientFrame, SessionTypeOK, MailTypeOK
<1>5. ClientsTypeOK'
  BY <1>3 DEF ClientsTypeOK
<1> QED BY <1>2, <1>4, <1>5, TypePartsNext

\* What a step may do to the sockets that are not its own: close them.
Kept(t) ==
  /\ sock'[t].pid = sock[t].pid
  /\ \/ sock'[t].ph = sock[t].ph
     \/ /\ sock[t].ph \in {"live", "stalled", "closing"}
        /\ sock'[t].ph \in {"live", "stalled", "closing"}

\* Entries that only go away, and sockets that are only closed, keep the list in order.
LEMMA KeptListed ==
  ASSUME ClientsTypeOK, ListedInv, \A t \in Sockets : Kept(t),
         \A p \in Pids : participants'[p] \in {participants[p], None}
  PROVE  ListedInv'
<1>1. ListedIsServed'
  BY DEF ListedInv, ListedIsServed, Kept, ClientsTypeOK
<1>2. PanelsWait'
  BY DEF ListedInv, PanelsWait, Kept, ClientsTypeOK
<1>3. RunningHasPid'
  BY DEF ListedInv, RunningHasPid, Kept, ClientsTypeOK
<1> QED BY <1>1, <1>2, <1>3 DEF ListedInv

\* A socket that is listed under its own pid by its handler.
LEMMA NewListed ==
  ASSUME ClientsTypeOK, ListedInv, NEW s \in Sockets, NEW p \in Pids,
         sock[s].ph \in {"free", "kicking"}, sock' \in [Sockets -> Handler],
         sock'[s].pid = p, sock'[s].ph = "live",
         \A t \in Sockets \ {s} : Kept(t), participants' = [participants EXCEPT ![p] = s]
  PROVE  ListedInv'
<1>1. ASSUME NEW q \in Pids, participants'[q] # None
      PROVE  /\ sock'[participants'[q]].pid = q
             /\ sock'[participants'[q]].ph \in {"live", "stalled", "closing"}
  <2>1. CASE q = p
    BY <2>1 DEF ClientsTypeOK
  <2>2. CASE q # p
    <3>1. participants'[q] = participants[q] /\ participants[q] \in Sockets \ {s}
      BY <2>2, <1>1 DEF ClientsTypeOK, ListedInv, ListedIsServed
    <3>2. Kept(participants[q])
      BY <3>1
    <3> QED BY <3>1, <3>2, <1>1 DEF Kept, ListedInv, ListedIsServed
  <2> QED BY <2>1, <2>2
<1>2. PanelsWait'
  BY DEF ListedInv, PanelsWait, Kept
<1>3. RunningHasPid'
  BY DEF ListedInv, RunningHasPid, Kept
<1> QED BY <1>1, <1>2, <1>3 DEF ListedInv, ListedIsServed

\* A socket that nobody lists and that is not served after the step.
LEMMA UnservedListed ==
  ASSUME ClientsTypeOK, ListedInv, NEW s \in Sockets,
         \A p \in Pids : participants'[p] \in {participants[p], None} \ {s},
         sock'[s].ph \in {"free", "done", "retry", "away"},
         \A t \in Sockets \ {s} : Kept(t)
  PROVE  ListedInv'
<1>1. ASSUME NEW q \in Pids, participants'[q] # None
      PROVE  /\ sock'[participants'[q]].pid = q
             /\ sock'[participants'[q]].ph \in {"live", "stalled", "closing"}
  <2>1. participants'[q] = participants[q] /\ participants[q] \in Sockets \ {s}
    BY <1>1 DEF ClientsTypeOK
  <2>2. Kept(participants[q])
    BY <2>1
  <2> QED BY <2>1, <2>2, <1>1 DEF Kept, ListedInv, ListedIsServed
<1>2. PanelsWait'
  BY DEF ListedInv, PanelsWait, Kept
<1>3. RunningHasPid'
  BY DEF ListedInv, RunningHasPid, Kept
<1> QED BY <1>1, <1>2, <1>3 DEF ListedInv, ListedIsServed

\* Whatever a client's socket does, only served sockets are listed.
LEMMA ClientStepListed ==
  ASSUME GatewayAssumption, ClientsTypeOK, ListedInv, NEW s \in Sockets, ClientStep(s)
  PROVE  ListedInv'
<1>0. /\ participants \in [Pids -> Sockets \cup {None}] /\ sock \in [Sockets -> Handler]
      /\ None \notin Sockets
  BY DEF ClientsTypeOK, GatewayAssumption
<1>1. ASSUME NEW p \in Pids, NEW x \in Sessions, Refused(s, p, x) PROVE ListedInv'
  <2>1. \A q \in Pids : participants'[q] \in {participants[q], None} \ {s}
    BY <1>0, <1>1 DEF Refused, ListedInv, ListedIsServed
  <2>2. sock'[s].ph \in {"free", "done", "retry", "away"} /\ \A t \in Sockets \ {s} : Kept(t)
    BY <1>0, <1>1 DEF Refused, Kept
  <2> QED BY <2>1, <2>2, UnservedListed
<1>2. ASSUME NEW p \in Pids, NEW x \in Sessions, PhoneConnect(s, p, x) PROVE ListedInv'
  <2>1. /\ sock[s].ph = "free" /\ participants' = [participants EXCEPT ![p] = s]
        /\ sock' = [sock EXCEPT ![s] = [pid |-> p, sess |-> x, ph |-> "live", old |-> None]]
    BY <1>2 DEF PhoneConnect
  <2>2. /\ sock' \in [Sockets -> Handler] /\ sock'[s].pid = p /\ sock'[s].ph = "live"
        /\ \A t \in Sockets \ {s} : Kept(t)
    BY <1>0, <2>1 DEF Handler, Kept
  <2> QED BY <2>1, <2>2, NewListed
<1>3. ASSUME NEW x \in Sessions, HostConnect(s, x) PROVE ListedInv'
  <2>0. Host \in Pids /\ sock[s].ph = "free"
    BY <1>3 DEF HostConnect
  <2>1. CASE participants[Host] = None
    <3>1. /\ participants' = [participants EXCEPT ![Host] = s]
          /\ sock' = [sock EXCEPT ![s] = [pid |-> Host, sess |-> x, old |-> None, ph |-> "live"]]
      BY <1>3, <2>1 DEF HostConnect
    <3>2. /\ sock' \in [Sockets -> Handler] /\ sock'[s].pid = Host /\ sock'[s].ph = "live"
          /\ \A t \in Sockets \ {s} : Kept(t)
      BY <1>0, <2>0, <3>1 DEF Handler, Kept
    <3> QED BY <2>0, <3>1, <3>2, NewListed
  <2>2. CASE participants[Host] # None
    <3>1. /\ participants' = participants
          /\ sock' = [Closed(sock, participants[Host]) EXCEPT
                         ![s] = [pid |-> Host, sess |-> x, old |-> participants[Host],
                                 ph |-> "kicking"]]
      BY <1>3, <2>2 DEF HostConnect
    <3>2. participants[Host] \in Sockets
      BY <1>0, <2>0, <2>2
    <3> DEFINE closed == Closed(sock, participants[Host])
    <3>3. /\ closed \in [Sockets -> Handler]
          /\ \A t \in Sockets :
              /\ closed[t].pid = sock[t].pid
              /\ \/ closed[t].ph = sock[t].ph
                 \/ sock[t].ph \in {"live", "stalled"} /\ closed[t].ph = "closing"
      BY <1>0, <3>2, ClosedFacts
    <3>4. sock' = [closed EXCEPT ![s] = [pid |-> Host, sess |-> x, old |-> participants[Host],
                                         ph |-> "kicking"]]
      BY <3>1
    <3> HIDE DEF closed
    <3>5. \A t \in Sockets \ {s} : Kept(t)
      BY <3>3, <3>4 DEF Kept
    <3>6. sock'[s].pid = Host /\ sock'[s].ph = "kicking"
      BY <3>3, <3>4
    <3>7. ASSUME NEW q \in Pids, participants[q] # None
          PROVE  /\ sock'[participants[q]].pid = q
                 /\ sock'[participants[q]].ph \in {"live", "stalled", "closing"}
      <4>1. participants[q] \in Sockets \ {s}
        BY <1>0, <2>0, <3>7 DEF ListedInv, ListedIsServed
      <4>2. Kept(participants[q])
        BY <4>1, <3>5
      <4> QED BY <4>1, <4>2, <3>7 DEF Kept, ListedInv, ListedIsServed
    <3>8. ListedIsServed'
      BY <3>1, <3>7 DEF ListedIsServed
    <3>9. PanelsWait' /\ RunningHasPid'
      BY <2>0, <3>5, <3>6 DEF ListedInv, PanelsWait, RunningHasPid, Kept
    <3> QED BY <3>8, <3>9 DEF ListedInv
  <2> QED BY <2>1, <2>2
<1>4. ASSUME HostListed(s) PROVE ListedInv'
  <2>1. /\ sock[s].ph = "kicking" /\ sock[s].pid = Host /\ Host \in Pids
        /\ participants' = [participants EXCEPT ![Host] = s]
    BY <1>4 DEF HostListed, ListedInv, PanelsWait
  <2> DEFINE live == [sock EXCEPT ![s].ph = "live"]
  <2>2. /\ live \in [Sockets -> Handler] /\ live[s].pid = Host /\ live[s].ph = "live"
        /\ \A t \in Sockets \ {s} : live[t] = sock[t]
    BY <1>0, <2>1 DEF Handler
  <2>3. sock' = [live EXCEPT ![s].old = None]
    BY <1>4 DEF HostListed
  <2> HIDE DEF live
  <2>4. /\ sock' \in [Sockets -> Handler] /\ sock'[s].pid = Host /\ sock'[s].ph = "live"
        /\ \A t \in Sockets \ {s} : Kept(t)
    BY <2>2, <2>3 DEF Handler, Kept
  <2> QED BY <2>1, <2>4, NewListed
<1>5. ASSUME PeerGone(s) \/ Stall(s) PROVE ListedInv'
  <2>1. (\A t \in Sockets : Kept(t)) /\ participants' = participants
    BY <1>0, <1>5 DEF PeerGone, Stall, Kept, Handler
  <2> QED BY <2>1, KeptListed
<1>6. ASSUME Drop(s) PROVE ListedInv'
  <2>1. \A p \in Pids : participants'[p] \in {participants[p], None}
    BY <1>0, <1>6 DEF Drop
  <2>2. sock' = Closed(sock, s)
    BY <1>6 DEF Drop
  <2>3. \A t \in Sockets : Kept(t)
    BY <1>0, <2>2, ClosedFacts DEF Kept
  <2> QED BY <2>1, <2>3, KeptListed
<1>7. ASSUME HandlerExit(s) PROVE ListedInv'
  <2>1. /\ sock[s].ph = "closing" /\ sock' = [sock EXCEPT ![s].ph = "done"]
        /\ participants' = IF participants[sock[s].pid] = s
                           THEN [participants EXCEPT ![sock[s].pid] = None] ELSE participants
    BY <1>7 DEF HandlerExit
  <2>2. \A p \in Pids : participants'[p] \in {participants[p], None} \ {s}
    BY <1>0, <2>1 DEF ListedInv, ListedIsServed
  <2>3. sock'[s].ph \in {"free", "done", "retry", "away"} /\ \A t \in Sockets \ {s} : Kept(t)
    BY <1>0, <2>1 DEF Kept, Handler
  <2> QED BY <2>2, <2>3, UnservedListed
<1>8. ASSUME Recycle(s) PROVE ListedInv'
  <2>1. \A q \in Pids : participants'[q] \in {participants[q], None} \ {s}
    BY <1>0, <1>8 DEF Recycle, ListedInv, ListedIsServed
  <2>2. sock'[s].ph \in {"free", "done", "retry", "away"} /\ \A t \in Sockets \ {s} : Kept(t)
    BY <1>0, <1>8 DEF Recycle, Kept, Idle
  <2> QED BY <2>1, <2>2, UnservedListed
<1> QED BY <1>1, <1>2, <1>3, <1>4, <1>5, <1>6, <1>7, <1>8 DEF ClientStep

----------------------------------------------------------------------------
(* Types and the list, step by step                                        *)

\* An inbox after whatever of it got lost.
LEMMA PrefixType ==
  ASSUME MailTypeOK, NEW keep \in 0 .. Len(inbox)
  PROVE  SubSeq(inbox, 1, keep) \in Seq(Message)
BY PrefixFacts DEF MailTypeOK

\* The push of the whole roster after a reconnection keeps the types.
LEMMA StatePushType ==
  ASSUME NEW mail \in Seq(Message)
  PROVE  StatePush(mail) \in Seq(Message)
<1>1. [who |-> {p \in Phones \cap Pids : participants[p] # None}, kind |-> "all"] \in Message
  BY DEF Message
<1> QED BY <1>1, AppendFacts DEF StatePush

\* What the steps of the daemon's connections leave alone.
LEMMA DaemonStepFrame ==
  ASSUME NEW d \in Links, DaemonStep(d)
  PROVE  UNCHANGED <<participants, sock, budget, online>>
BY DEF DaemonStep, DaemonConnect, DaemonInstall, DaemonExit, SetSession, SwitchDone,
       railwayVars, daemonVars

\* The steps of a daemon connection keep the types and the roster rule.
LEMMA DaemonStepType ==
  ASSUME GatewayAssumption, TypeOK, NEW d \in Links, DaemonStep(d)
  PROVE  TypeOK'
<1>0. /\ ClientsTypeOK /\ SessionTypeOK /\ LinksTypeOK /\ WalksTypeOK
      /\ KickTypeOK /\ SaidTypeOK /\ MailTypeOK /\ BudgetTypeOK
  BY TypeParts
<1>a. ClientsTypeOK' /\ BudgetTypeOK'
  BY <1>0, DaemonStepFrame DEF ClientsTypeOK, BudgetTypeOK
<1> DEFINE Rest == /\ SessionTypeOK' /\ LinksTypeOK' /\ WalksTypeOK'
                   /\ KickTypeOK' /\ SaidTypeOK' /\ MailTypeOK'
<1>1. ASSUME NEW x \in Sessions \cup {None}, NEW keep \in 0 .. MaxMail,
             DaemonConnect(d, x, keep)
      PROVE  Rest
  <2>0. keep \in 0 .. Len(inbox)
    BY <1>1 DEF DaemonConnect
  <2>1. SessionTypeOK'
    BY <1>0, <1>1 DEF DaemonConnect, railwayVars, SessionTypeOK
  <2>2. LinksTypeOK'
    BY <1>0, <1>1 DEF DaemonConnect, LinksTypeOK
  <2>3. WalksTypeOK'
    BY <1>0, <1>1 DEF DaemonConnect, CancelKick, NoEviction, WalksTypeOK, Walkers
  <2>4. KickTypeOK'
    BY <1>0, <1>1 DEF DaemonConnect, CancelKick, KickTypeOK, GatewayAssumption
  <2>5. SaidTypeOK'
    <3>1. (IF x = None THEN <<>> ELSE <<x>>) \in Seq(Sessions \cup {None})
      <4>1. <<>> \in Seq(Sessions \cup {None})
        OBVIOUS
      <4>2. <<x>> \in Seq(Sessions \cup {None})
        BY SingleFacts
      <4> QED BY <4>1, <4>2
    <3>2. outbox' = [outbox EXCEPT ![d] = IF x = None THEN <<>> ELSE <<x>>]
      BY <1>1 DEF DaemonConnect
    <3>3. outbox' \in [Links -> Seq(Sessions \cup {None})]
      BY <3>1, <3>2, <1>0 DEF SaidTypeOK
    <3>4. said' \in Sessions \cup {None, Nothing}
      BY <1>1 DEF DaemonConnect
    <3> QED BY <3>3, <3>4 DEF SaidTypeOK
  <2>6. MailTypeOK'
    <3>1. SubSeq(inbox, 1, keep) \in Seq(Message)
      BY <1>0, <2>0, PrefixType
    <3>2. StatePush(SubSeq(inbox, 1, keep)) \in Seq(Message)
      BY <3>1, StatePushType
    <3>3. inbox' \in Seq(Message) /\ online' = online
      BY <3>1, <3>2, <1>1 DEF DaemonConnect
    <3> QED BY <3>3, <1>0 DEF MailTypeOK
  <2> QED BY <2>1, <2>2, <2>3, <2>4, <2>5, <2>6
<1>2. ASSUME DaemonInstall(d) PROVE Rest
  <2>1. SessionTypeOK' /\ WalksTypeOK' /\ SaidTypeOK'
    BY <1>0, <1>2 DEF DaemonInstall, railwayVars, walkVars, SessionTypeOK, WalksTypeOK, SaidTypeOK
  <2>2. LinksTypeOK'
    BY <1>0, <1>2 DEF DaemonInstall, LinksTypeOK
  <2>4. KickTypeOK'
    BY <1>0, <1>2 DEF DaemonInstall, KickTypeOK, GatewayAssumption
  <2>6. MailTypeOK'
    BY <1>0, <1>2, StatePushType DEF DaemonInstall, MailTypeOK
  <2> QED BY <2>1, <2>2, <2>4, <2>6
<1>3. ASSUME DaemonExit(d) PROVE Rest
  <2>1. SessionTypeOK' /\ MailTypeOK'
    BY <1>0, <1>3 DEF DaemonExit, railwayVars, SessionTypeOK, MailTypeOK
  <2>2. LinksTypeOK'
    BY <1>0, <1>3 DEF DaemonExit, LinksTypeOK
  <2>3. WalksTypeOK'
    BY <1>0, <1>3 DEF DaemonExit, RestartGrace, NoEviction, WalksTypeOK, Walkers
  <2>4. KickTypeOK'
    BY <1>0, <1>3 DEF DaemonExit, RestartGrace, KickTypeOK, GatewayAssumption
  <2>5. SaidTypeOK'
    <3>1. <<>> \in Seq(Sessions \cup {None})
      OBVIOUS
    <3> QED BY <3>1, <1>0, <1>3 DEF DaemonExit, SaidTypeOK
  <2> QED BY <2>1, <2>2, <2>3, <2>4, <2>5
<1>4. ASSUME SetSession(d) PROVE Rest
  <2>0. /\ outbox[d] \in Seq(Sessions \cup {None}) /\ outbox[d] # <<>>
    BY <1>0, <1>4 DEF SetSession, SaidTypeOK
  <2>a. Head(outbox[d]) \in Sessions \cup {None} /\ Tail(outbox[d]) \in Seq(Sessions \cup {None})
    BY <2>0, TailFacts
  <2>1. SessionTypeOK'
    BY <1>0, <1>4, <2>a DEF SetSession, SessionTypeOK
  <2>2. LinksTypeOK'
    BY <1>0, <1>4 DEF SetSession, LinksTypeOK, daemonVars
  <2>3. WalksTypeOK'
    <3>1. Listed \subseteq Entries
      BY <1>0 DEF Listed, Entries, ClientsTypeOK
    <3> QED BY <3>1, <1>0, <1>4 DEF SetSession, WalksTypeOK, Walkers
  <2>4. KickTypeOK' /\ MailTypeOK'
    BY <1>0, <1>4 DEF SetSession, KickTypeOK, MailTypeOK, evictVars
  <2>5. SaidTypeOK'
    BY <1>0, <1>4, <2>a DEF SetSession, SaidTypeOK
  <2> QED BY <2>1, <2>2, <2>3, <2>4, <2>5
<1>5. ASSUME SwitchDone(d) PROVE Rest
  BY <1>0, <1>5 DEF SwitchDone, railwayVars, walkVars, evictVars, daemonVars, SessionTypeOK,
     LinksTypeOK, WalksTypeOK, KickTypeOK, SaidTypeOK, MailTypeOK
<1>6. Rest
  BY <1>1, <1>2, <1>3, <1>4, <1>5 DEF DaemonStep
<1> QED BY <1>a, <1>6, TypePartsNext

\* So do the two loops that send clients away.
LEMMA WalkStepType ==
  ASSUME TypeOK, NEW w \in Walkers, WalkStep(w)
  PROVE  TypeOK'
<1>0. /\ ClientsTypeOK /\ SessionTypeOK /\ LinksTypeOK /\ WalksTypeOK
      /\ KickTypeOK /\ SaidTypeOK /\ MailTypeOK /\ BudgetTypeOK
  BY TypeParts
<1>1. /\ SessionTypeOK' /\ LinksTypeOK' /\ KickTypeOK' /\ SaidTypeOK' /\ MailTypeOK'
      /\ BudgetTypeOK'
  BY <1>0 DEF WalkStep, WalkSend, WalkPop, daemonVars, evictVars, SessionTypeOK, LinksTypeOK,
     KickTypeOK, SaidTypeOK, MailTypeOK, BudgetTypeOK
<1>2. CASE WalkSend(w)
  <2>1. PICK e \in todo[w] : /\ at' = [at EXCEPT ![w] = {e}]
                             /\ todo' = [todo EXCEPT ![w] = @ \ {e}]
                             /\ sock' = Closed(sock, e[2])
    BY <1>2 DEF WalkSend
  <2>2. e \in Entries /\ e[2] \in Sockets
    BY <1>0, <2>1 DEF WalksTypeOK, Entries
  <2>3. WalksTypeOK'
    BY <1>0, <2>1, <2>2 DEF WalksTypeOK
  <2>4. ClientsTypeOK'
    BY <1>0, <1>2, <2>1, <2>2, ClosedFacts DEF ClientsTypeOK, WalkSend
  <2> QED BY <1>1, <2>3, <2>4, TypePartsNext
<1>3. CASE WalkPop(w)
  <2>1. PICK e \in at[w] : participants' = [participants EXCEPT ![e[1]] = None]
    BY <1>3 DEF WalkPop
  <2>2. e[1] \in Pids
    BY <1>0, <2>1 DEF WalksTypeOK, Entries
  <2>3. WalksTypeOK'
    BY <1>0, <1>3 DEF WalksTypeOK, WalkPop
  <2>4. ClientsTypeOK'
    BY <1>0, <1>3, <2>1, <2>2 DEF ClientsTypeOK, WalkPop
  <2> QED BY <1>1, <2>3, <2>4, TypePartsNext
<1> QED BY <1>2, <1>3 DEF WalkStep

\* The steps that are nobody's connection: announcements, losses, the timer, the daemon's
\* queue and the restart.
OtherStep ==
  \/ \E x \in Sessions \cup {None} : Announce(x)
  \/ \E keep \in 0 .. 2 : LinkLost(keep)
  \/ Tick \/ Wake \/ EvictDone \/ DrainPresence
  \/ \E keep \in 0 .. MaxMail : RailwayRestart(keep)

\* The kinds of steps there are, one by one.
LEMMA NextSteps ==
  ASSUME Next
  PROVE  \/ \E s \in Sockets : ClientStep(s)
         \/ \E d \in Links : DaemonStep(d)
         \/ \E w \in Walkers : WalkStep(w)
         \/ OtherStep
BY DEF Next, OtherStep

\* The timer, the restart and the recycling keep the types.
LEMMA OtherStepType ==
  ASSUME GatewayAssumption, TypeOK, OtherStep
  PROVE  TypeOK'
<1>0. /\ ClientsTypeOK /\ SessionTypeOK /\ LinksTypeOK /\ WalksTypeOK
      /\ KickTypeOK /\ SaidTypeOK /\ MailTypeOK /\ BudgetTypeOK
  BY TypeParts
<1>1. ASSUME NEW x \in Sessions \cup {None}, Announce(x) PROVE TypeOK'
  <2>1. /\ ClientsTypeOK' /\ SessionTypeOK' /\ LinksTypeOK' /\ WalksTypeOK'
        /\ KickTypeOK' /\ MailTypeOK'
    BY <1>0, <1>1 DEF Announce, railwayVars, walkVars, evictVars, ClientsTypeOK, SessionTypeOK,
       LinksTypeOK, WalksTypeOK, KickTypeOK, MailTypeOK
  <2>2. SaidTypeOK'
    <3>1. link \in Links /\ outbox[link] \in Seq(Sessions \cup {None})
      BY <1>0, <1>1 DEF Announce, LinksTypeOK, SaidTypeOK
    <3>2. Append(outbox[link], x) \in Seq(Sessions \cup {None})
      BY <3>1, AppendFacts
    <3> QED BY <1>0, <1>1, <3>1, <3>2 DEF Announce, SaidTypeOK
  <2>3. BudgetTypeOK'
    BY <1>0, <1>1 DEF Announce, BudgetTypeOK, GatewayAssumption
  <2> QED BY <2>1, <2>2, <2>3, TypePartsNext
<1>2. ASSUME NEW keep \in 0 .. 2, LinkLost(keep) PROVE TypeOK'
  <2>1. /\ ClientsTypeOK' /\ SessionTypeOK' /\ LinksTypeOK' /\ WalksTypeOK'
        /\ KickTypeOK' /\ MailTypeOK'
    BY <1>0, <1>2 DEF LinkLost, railwayVars, walkVars, evictVars, ClientsTypeOK, SessionTypeOK,
       LinksTypeOK, WalksTypeOK, KickTypeOK, MailTypeOK
  <2>2. SaidTypeOK'
    <3>1. link \in Links /\ outbox[link] \in Seq(Sessions \cup {None})
      BY <1>0, <1>2 DEF LinkLost, LinksTypeOK, SaidTypeOK
    <3>2. SubSeq(outbox[link], 1, keep) \in Seq(Sessions \cup {None})
      BY <1>2, <3>1, PrefixFacts DEF LinkLost
    <3> QED BY <1>0, <1>2, <3>1, <3>2 DEF LinkLost, SaidTypeOK
  <2>3. BudgetTypeOK'
    BY <1>0, <1>2 DEF LinkLost, BudgetTypeOK, GatewayAssumption
  <2> QED BY <2>1, <2>2, <2>3, TypePartsNext
<1>3. ASSUME Tick PROVE TypeOK'
  <2>1. /\ ClientsTypeOK' /\ SessionTypeOK' /\ LinksTypeOK' /\ WalksTypeOK'
        /\ SaidTypeOK' /\ MailTypeOK' /\ BudgetTypeOK'
    BY <1>0, <1>3 DEF Tick, railwayVars, walkVars, daemonVars, ClientsTypeOK, SessionTypeOK,
       LinksTypeOK, WalksTypeOK, SaidTypeOK, MailTypeOK, BudgetTypeOK
  <2>2. KickTypeOK'
    BY <1>0, <1>3 DEF Tick, KickTypeOK, GatewayAssumption
  <2> QED BY <2>1, <2>2, TypePartsNext
<1>4. ASSUME Wake PROVE TypeOK'
  <2>1. /\ ClientsTypeOK' /\ SessionTypeOK' /\ LinksTypeOK'
        /\ SaidTypeOK' /\ MailTypeOK' /\ BudgetTypeOK'
    BY <1>0, <1>4 DEF Wake, railwayVars, daemonVars, ClientsTypeOK, SessionTypeOK,
       LinksTypeOK, SaidTypeOK, MailTypeOK, BudgetTypeOK
  <2>2. KickTypeOK'
    BY <1>0, <1>4 DEF Wake, KickTypeOK
  <2>3. WalksTypeOK'
    <3>1. Listed \subseteq Entries
      BY <1>0 DEF Listed, Entries, ClientsTypeOK
    <3> QED BY <3>1, <1>0, <1>4 DEF Wake, WalksTypeOK, Walkers
  <2> QED BY <2>1, <2>2, <2>3, TypePartsNext
<1>5. ASSUME EvictDone PROVE TypeOK'
  <2>1. /\ ClientsTypeOK' /\ LinksTypeOK' /\ WalksTypeOK'
        /\ SaidTypeOK' /\ MailTypeOK' /\ BudgetTypeOK' /\ KickTypeOK'
    BY <1>0, <1>5 DEF EvictDone, daemonVars, walkVars, ClientsTypeOK, LinksTypeOK, WalksTypeOK,
       SaidTypeOK, MailTypeOK, BudgetTypeOK, KickTypeOK
  <2>2. SessionTypeOK'
    BY <1>0, <1>5 DEF EvictDone, SessionTypeOK
  <2> QED BY <2>1, <2>2, TypePartsNext
<1>6. ASSUME DrainPresence PROVE TypeOK'
  <2>1. /\ ClientsTypeOK' /\ SessionTypeOK' /\ LinksTypeOK' /\ WalksTypeOK'
        /\ KickTypeOK' /\ SaidTypeOK' /\ BudgetTypeOK'
    BY <1>0, <1>6 DEF DrainPresence, railwayVars, walkVars, evictVars, ClientsTypeOK,
       SessionTypeOK, LinksTypeOK, WalksTypeOK, KickTypeOK, SaidTypeOK, BudgetTypeOK
  <2>2. inbox \in Seq(Message) /\ inbox # <<>> /\ online \subseteq Phones
    BY <1>0, <1>6 DEF DrainPresence, MailTypeOK
  <2>3. Head(inbox) \in Message /\ Tail(inbox) \in Seq(Message)
    BY <2>2, TailFacts
  <2>4. online' \subseteq Phones /\ inbox' = Tail(inbox)
    BY <1>6, <2>2, <2>3 DEF DrainPresence, Message
  <2> QED BY <2>1, <2>3, <2>4, TypePartsNext DEF MailTypeOK
<1>7. ASSUME NEW keep \in 0 .. MaxMail, RailwayRestart(keep) PROVE TypeOK'
  <2>1. ClientsTypeOK' /\ SessionTypeOK' /\ LinksTypeOK' /\ WalksTypeOK' /\ KickTypeOK'
    BY <1>7 DEF RailwayRestart, Idle, Unregistered, Nobody, NoWalks, Handler, Entries,
       ClientsTypeOK, SessionTypeOK, LinksTypeOK, WalksTypeOK, KickTypeOK, GatewayAssumption
  <2>2. SaidTypeOK'
    <3>1. <<>> \in Seq(Sessions \cup {None})
      OBVIOUS
    <3> QED BY <3>1, <1>7 DEF RailwayRestart, Silence, SaidTypeOK
  <2>3. MailTypeOK'
    BY <1>0, <1>7, PrefixType DEF RailwayRestart, MailTypeOK
  <2>4. BudgetTypeOK'
    <3>1. budget.restarts > 0 /\ budget' = [budget EXCEPT !.restarts = @ - 1]
      BY <1>7 DEF RailwayRestart
    <3> QED BY <1>0, <3>1 DEF BudgetTypeOK, GatewayAssumption
  <2> QED BY <2>1, <2>2, <2>3, <2>4, TypePartsNext
<1> QED BY <1>1, <1>2, <1>3, <1>4, <1>5, <1>6, <1>7 DEF OtherStep

\* The steps of the loops that drop clients, and the others, only take away or close.
LEMMA RestListed ==
  ASSUME GatewayAssumption, TypeOK, ListedInv,
         \/ \E d \in Links : DaemonStep(d)
         \/ \E w \in Walkers : WalkStep(w)
         \/ OtherStep
  PROVE  ListedInv'
<1>0. ClientsTypeOK /\ WalksTypeOK
  BY TypeParts
<1>a. ASSUME UNCHANGED <<participants, sock>> PROVE ListedInv'
  BY <1>a DEF ListedInv, ListedIsServed, PanelsWait, RunningHasPid
<1>1. ASSUME NEW d \in Links, DaemonStep(d) PROVE ListedInv'
  BY <1>1, <1>a, DaemonStepFrame
<1>2. ASSUME NEW w \in Walkers, WalkSend(w) PROVE ListedInv'
  <2>1. PICK e \in todo[w] : sock' = Closed(sock, e[2])
    BY <1>2 DEF WalkSend
  <2>2. e[2] \in Sockets
    BY <1>0, <2>1 DEF WalksTypeOK, Entries
  <2>3. \A t \in Sockets : Kept(t)
    BY <1>0, <2>1, <2>2, ClosedFacts DEF Kept, ClientsTypeOK
  <2>4. participants' = participants
    BY <1>2 DEF WalkSend
  <2> QED BY <1>0, <2>3, <2>4, KeptListed
<1>3. ASSUME NEW w \in Walkers, WalkPop(w) PROVE ListedInv'
  <2>1. PICK e \in at[w] : participants' = [participants EXCEPT ![e[1]] = None]
    BY <1>3 DEF WalkPop
  <2>2. \A p \in Pids : participants'[p] \in {participants[p], None}
    BY <1>0, <2>1 DEF ClientsTypeOK
  <2>3. \A t \in Sockets : Kept(t)
    BY <1>3 DEF Kept, WalkPop
  <2> QED BY <1>0, <2>2, <2>3, KeptListed
<1>4. ASSUME OtherStep PROVE ListedInv'
  <2>1. ASSUME NEW keep \in 0 .. MaxMail, RailwayRestart(keep) PROVE ListedInv'
    BY <2>1 DEF RailwayRestart, Idle, ListedInv, ListedIsServed, PanelsWait, RunningHasPid
  <2>2. UNCHANGED <<participants, sock>> \/ \E keep \in 0 .. MaxMail : RailwayRestart(keep)
    BY <1>4 DEF OtherStep, Announce, LinkLost, Tick, Wake, EvictDone, DrainPresence, railwayVars
  <2> QED BY <2>1, <2>2, <1>a
<1> QED BY <1>1, <1>2, <1>3, <1>4 DEF WalkStep

\* Railway starts typed and with an empty roster.
LEMMA TypeInit == GatewayAssumption /\ Init => TypeOK /\ ListedInv
<1> SUFFICES ASSUME GatewayAssumption, Init PROVE TypeOK /\ ListedInv
  OBVIOUS
<1>1. ClientsTypeOK /\ SessionTypeOK /\ LinksTypeOK /\ WalksTypeOK /\ KickTypeOK
  BY DEF Init, Idle, Unregistered, Nobody, NoWalks, Handler, Entries, ClientsTypeOK,
     SessionTypeOK, LinksTypeOK, WalksTypeOK, KickTypeOK, GatewayAssumption
<1>2. SaidTypeOK /\ MailTypeOK
  <2>1. <<>> \in Seq(Sessions \cup {None}) /\ <<>> \in Seq(Message)
    OBVIOUS
  <2> QED BY <2>1 DEF Init, Silence, SaidTypeOK, MailTypeOK
<1>3. BudgetTypeOK
  BY DEF Init, BudgetTypeOK, GatewayAssumption
<1>4. ListedInv
  BY DEF Init, Idle, ListedInv, ListedIsServed, PanelsWait, RunningHasPid
<1> QED BY <1>1, <1>2, <1>3, <1>4, TypeParts

\* Every step keeps the types and the roster rule: TypeOK and ListedInv are inductive together.
LEMMA TypeNext ==
  ASSUME GatewayAssumption, TypeOK, ListedInv, [Next]_vars
  PROVE  TypeOK' /\ ListedInv'
<1>0. ClientsTypeOK
  BY TypeParts
<1>1. CASE Next
  BY <1>0, <1>1, NextSteps, ClientStepType, DaemonStepType, WalkStepType, OtherStepType,
     ClientStepListed, RestListed
<1>2. CASE UNCHANGED vars
  <2>1. TypeOK'
    BY <1>2 DEF vars, railwayVars, walkVars, evictVars, daemonVars, TypeOK
  <2>2. ListedInv'
    BY <1>2 DEF vars, railwayVars, ListedInv, ListedIsServed, PanelsWait, RunningHasPid
  <2> QED BY <2>1, <2>2
<1> QED BY <1>1, <1>2

\* Every reachable state is well-typed.
THEOREM TypeCorrect == Spec => []TypeOK
<1>1. Init => TypeOK /\ ListedInv
  BY TypeInit, GatewayAssumption
<1>2. TypeOK /\ ListedInv /\ [Next]_vars => TypeOK' /\ ListedInv'
  BY TypeNext, GatewayAssumption
<1> QED BY <1>1, <1>2, PTL DEF Spec

\* Whatever is cleaned up late, kicked, dropped or evicted: every entry of the broadcast
\* list is a socket of that very participant whose handler still runs.
THEOREM ListIsServed == Spec => []ListedIsServed
<1>1. Init => TypeOK /\ ListedInv
  BY TypeInit, GatewayAssumption
<1>2. TypeOK /\ ListedInv /\ [Next]_vars => TypeOK' /\ ListedInv'
  BY TypeNext, GatewayAssumption
<1>3. ListedInv => ListedIsServed
  BY DEF ListedInv
<1> QED BY <1>1, <1>2, <1>3, PTL DEF Spec

----------------------------------------------------------------------------
(* The grace period                                                        *)

\* The clock of the absence stands while a daemon is connected, and has run for as long as
\* the sleep has when there is none; a connection that is being installed has cancelled the
\* eviction, and the sleep that its predecessor's end starts cannot be over before it is in.
GraceInv ==
  /\ daemonWs # None => absent = 0
  /\ daemonWs = None /\ kick = "asleep" => absent >= Grace - left
  /\ kick = "running" => daemonWs = None /\ absent = Grace
  /\ (\E d \in Links : conn[d] = "kicking") =>
       /\ kick # "running" /\ (daemonWs = None /\ kick = "asleep" => left = Grace)

\* A step that leaves the timer, the daemon's place and what waits for it as they are.
LEMMA GraceKept ==
  ASSUME GraceInv, UNCHANGED <<daemonWs, evictVars>>,
         \A d \in Links : conn'[d] = "kicking" => conn[d] = "kicking"
  PROVE  GraceInv'
BY DEF GraceInv, evictVars

\* Every step keeps the account of the grace: what is left and how long it has been absent.
LEMMA GraceStep ==
  ASSUME GatewayAssumption, TypeOK, GraceInv, [Next]_vars
  PROVE  GraceInv'
<1>0. LinksTypeOK /\ KickTypeOK /\ Grace \in Nat \ {0}
  BY TypeParts DEF GatewayAssumption
<1>a. None \notin Links
  BY DEF GatewayAssumption
<1>1. ASSUME NEW s \in Sockets, ClientStep(s) PROVE GraceInv'
  <2>1. ClientFrame
    BY <1>1, ClientStepFrame
  <2> QED BY <2>1, GraceKept DEF ClientFrame
<1>2. ASSUME NEW w \in Walkers, WalkStep(w) PROVE GraceInv'
  BY <1>2, GraceKept DEF WalkStep, WalkSend, WalkPop
<1>3. ASSUME NEW d \in Links, NEW x \in Sessions \cup {None}, NEW keep \in 0 .. MaxMail,
             DaemonConnect(d, x, keep)
      PROVE  GraceInv'
  <2>1. kick' = "none"
    BY <1>3 DEF DaemonConnect, CancelKick
  <2>2. daemonWs' # None => absent' = 0
    BY <1>3 DEF DaemonConnect, GraceInv
  <2> QED BY <2>1, <2>2 DEF GraceInv
<1>4. ASSUME NEW d \in Links, DaemonInstall(d) PROVE GraceInv'
  <2>1. daemonWs' = d /\ absent' = 0 /\ kick' = kick /\ conn[d] = "kicking"
    BY <1>4 DEF DaemonInstall
  <2> QED BY <2>1, <1>a DEF GraceInv
<1>5. ASSUME NEW d \in Links, DaemonExit(d) PROVE GraceInv'
  <2>1. /\ kick' = "asleep" /\ left' = Grace /\ absent' = absent
        /\ daemonWs' \in {daemonWs, None}
    BY <1>5 DEF DaemonExit, RestartGrace
  <2> QED BY <2>1, <1>0 DEF GraceInv, KickTypeOK
<1>6. ASSUME NEW d \in Links, SetSession(d) PROVE GraceInv'
  <2>1. \A e \in Links : conn'[e] = "kicking" => conn[e] = "kicking"
    BY <1>0, <1>6 DEF SetSession, LinksTypeOK
  <2> QED BY <2>1, <1>6, GraceKept DEF SetSession
<1>7. ASSUME NEW d \in Links, SwitchDone(d) PROVE GraceInv'
  <2>1. \A e \in Links : conn'[e] = "kicking" => conn[e] = "kicking"
    BY <1>0, <1>7 DEF SwitchDone, LinksTypeOK
  <2> QED BY <2>1, <1>7, GraceKept DEF SwitchDone
<1>8. ASSUME Tick PROVE GraceInv'
  <2>1. /\ kick = "asleep" /\ kick' = kick /\ daemonWs' = daemonWs /\ conn' = conn
        /\ left' = left - 1 /\ left > 0
        /\ absent' = IF daemonWs = None /\ absent < Grace THEN absent + 1 ELSE absent
        /\ daemonWs = None => \A d \in Links : conn[d] # "kicking"
    BY <1>0, <1>8 DEF Tick, KickTypeOK
  <2> QED BY <2>1, <1>0 DEF GraceInv, KickTypeOK
<1>9. ASSUME Wake PROVE GraceInv'
  <2>1. /\ kick = "asleep" /\ left = 0
        /\ kick' = IF daemonWs # None THEN "none" ELSE "running"
        /\ UNCHANGED <<daemonWs, conn, left, absent>>
    BY <1>9 DEF Wake
  <2> QED BY <2>1, <1>0 DEF GraceInv, KickTypeOK
<1>10. ASSUME EvictDone PROVE GraceInv'
  <2>1. kick' = "none" /\ UNCHANGED <<daemonWs, conn, left, absent>>
    BY <1>10 DEF EvictDone
  <2> QED BY <2>1 DEF GraceInv
<1>11. ASSUME NEW keep \in 0 .. MaxMail, RailwayRestart(keep) PROVE GraceInv'
  <2>1. kick' = "none" /\ absent' = 0 /\ daemonWs' = None
    BY <1>11 DEF RailwayRestart
  <2> QED BY <2>1 DEF GraceInv
<1>12. ASSUME \/ \E x \in Sessions \cup {None} : Announce(x)
              \/ \E keep \in 0 .. 2 : LinkLost(keep)
              \/ DrainPresence
              \/ UNCHANGED vars
       PROVE  GraceInv'
  <2>1. UNCHANGED <<daemonWs, evictVars, conn>>
    BY <1>12 DEF Announce, LinkLost, DrainPresence, vars
  <2> QED BY <2>1, GraceKept
<1> QED BY <1>1, <1>2, <1>3, <1>4, <1>5, <1>6, <1>7, <1>8, <1>9, <1>10, <1>11, <1>12
    DEF Next, DaemonStep

\* Nobody is evicted before the daemon was away, without a break, for the whole grace period:
\* however often its links come, overlap and end.
THEOREM GraceIsRespected == Spec => []GraceRespected
<1>1. Init => TypeOK /\ ListedInv /\ GraceInv
  <2>1. Init => GraceInv
    BY DEF Init, GraceInv
  <2> QED BY <2>1, TypeInit, GatewayAssumption
<1>2. TypeOK /\ ListedInv /\ GraceInv /\ [Next]_vars => TypeOK' /\ ListedInv' /\ GraceInv'
  BY TypeNext, GraceStep, GatewayAssumption
<1>3. GraceInv => GraceRespected
  BY DEF GraceInv, GraceRespected
<1> QED BY <1>1, <1>2, <1>3, PTL DEF Spec

----------------------------------------------------------------------------
(* The last announcement                                                   *)

\* One connection is heard at a time: the one Railway pushes to.
OneIsHeard == \A d \in Links : conn[d] = "loop" => daemonWs = d

\* The connection the daemon uses is, or will be, heard.
InUse == /\ link # None /\ said # Nothing
         /\ \/ conn[link] \in {"kicking", "loop"}
            \/ conn[link] = "walking" /\ daemonWs = link

\* What the daemon said last is the last in the queue, or has been handled last of all.
SaidIsLast ==
  InUse => /\ outbox[link] = <<>> => conn[link] # "kicking" /\ sessionId = said
           /\ outbox[link] # <<>> => Latest(outbox[link]) = said

AnnouncedInv == OneIsHeard /\ SaidIsLast

\* Every step keeps the session id at the last announcement read.
LEMMA AnnouncedStep ==
  ASSUME GatewayAssumption, TypeOK, GraceInv, AnnouncedInv, [Next]_vars
  PROVE  AnnouncedInv'
<1>0. LinksTypeOK /\ SaidTypeOK /\ SessionTypeOK
  BY TypeParts
<1>a. None \notin Links /\ None \notin Sessions
  BY DEF GatewayAssumption
<1>b. ASSUME UNCHANGED <<sessionId, daemonWs, conn, link, said, outbox>> PROVE AnnouncedInv'
  BY <1>b DEF AnnouncedInv, OneIsHeard, SaidIsLast, InUse
<1>c. \A d \in Links : outbox[d] \in Seq(Sessions \cup {None})
  BY <1>0 DEF SaidTypeOK
<1>1. ASSUME NEW s \in Sockets, ClientStep(s) PROVE AnnouncedInv'
  BY <1>1, <1>b, ClientStepFrame DEF ClientFrame
<1>2. ASSUME NEW d \in Links, NEW x \in Sessions \cup {None}, NEW keep \in 0 .. MaxMail,
             DaemonConnect(d, x, keep)
      PROVE  AnnouncedInv'
  <2>1. /\ conn[d] = "free" /\ link' = d /\ said' = IF x = None THEN Nothing ELSE x
        /\ outbox' = [outbox EXCEPT ![d] = IF x = None THEN <<>> ELSE <<x>>]
        /\ sessionId' = sessionId
        /\ IF daemonWs = None THEN conn' = [conn EXCEPT ![d] = "loop"] /\ daemonWs' = d
           ELSE conn' = [conn EXCEPT ![d] = "kicking"] /\ daemonWs' = daemonWs
    BY <1>2 DEF DaemonConnect, railwayVars
  <2>2. OneIsHeard'
    BY <2>1, <1>0, <1>a DEF AnnouncedInv, OneIsHeard, LinksTypeOK
  <2>3. ASSUME said' # Nothing
        PROVE  outbox'[link'] # <<>> /\ Latest(outbox'[link']) = said'
    <3>1. x # None /\ said' = x
      BY <2>1, <2>3
    <3>2. outbox'[d] = <<x>>
      BY <2>1, <3>1, <1>0 DEF SaidTypeOK
    <3>3. <<x>> # <<>> /\ Latest(<<x>>) = x
      BY SingleFacts
    <3> QED BY <2>1, <3>1, <3>2, <3>3
  <2>4. SaidIsLast'
    BY <2>3 DEF SaidIsLast, InUse
  <2> QED BY <2>2, <2>4 DEF AnnouncedInv
<1>3. ASSUME NEW d \in Links, DaemonInstall(d) PROVE AnnouncedInv'
  <2>1. /\ conn[d] = "kicking" /\ daemonWs' = d
        /\ conn' = [e \in Links |-> IF e = d THEN "loop"
                                    ELSE IF e = daemonWs /\ conn[e] = "loop" THEN "closed"
                                    ELSE conn[e]]
        /\ UNCHANGED <<sessionId, link, said, outbox>>
    BY <1>3 DEF DaemonInstall, railwayVars
  <2>2. OneIsHeard'
    BY <2>1, <1>0 DEF AnnouncedInv, OneIsHeard, LinksTypeOK
  <2>3. SaidIsLast'
    <3>1. ASSUME InUse' PROVE InUse
      BY <2>1, <3>1, <1>0 DEF InUse, LinksTypeOK, AnnouncedInv, OneIsHeard
    <3>2. ASSUME InUse', outbox[link] = <<>> PROVE conn[link] # "kicking" /\ sessionId = said
      BY <3>1, <3>2 DEF AnnouncedInv, SaidIsLast
    <3>3. ASSUME InUse', outbox[link] # <<>> PROVE Latest(outbox[link]) = said
      BY <3>1, <3>3 DEF AnnouncedInv, SaidIsLast
    <3>4. ASSUME InUse', conn[link] # "kicking" PROVE conn'[link] # "kicking"
      BY <2>1, <3>4, <1>0 DEF InUse, LinksTypeOK
    <3> QED BY <2>1, <3>2, <3>3, <3>4 DEF SaidIsLast
  <2> QED BY <2>2, <2>3 DEF AnnouncedInv
<1>4. ASSUME NEW d \in Links, DaemonExit(d) PROVE AnnouncedInv'
  <2>1. /\ conn' = [conn EXCEPT ![d] = "free"] /\ outbox' = [outbox EXCEPT ![d] = <<>>]
        /\ daemonWs' = IF daemonWs = d THEN None ELSE daemonWs
        /\ UNCHANGED <<sessionId, link, said>>
    BY <1>4 DEF DaemonExit, railwayVars
  <2>2. OneIsHeard'
    BY <2>1, <1>0 DEF AnnouncedInv, OneIsHeard, LinksTypeOK
  <2>3. ASSUME InUse'
        PROVE  link # d /\ InUse /\ conn'[link] = conn[link] /\ outbox'[link] = outbox[link]
    <3>1. link \in Links /\ link # d
      BY <2>1, <2>3, <1>0 DEF InUse, LinksTypeOK
    <3> QED BY <3>1, <2>1, <2>3, <1>0 DEF InUse, LinksTypeOK, SaidTypeOK
  <2>4. SaidIsLast'
    BY <2>1, <2>3 DEF SaidIsLast, AnnouncedInv
  <2> QED BY <2>2, <2>4 DEF AnnouncedInv
<1>5. ASSUME NEW d \in Links, SetSession(d) PROVE AnnouncedInv'
  <2>1. /\ conn[d] = "loop" /\ outbox[d] # <<>> /\ sessionId' = Head(outbox[d])
        /\ outbox' = [outbox EXCEPT ![d] = Tail(@)]
        /\ UNCHANGED <<daemonWs, link, said>>
        /\ conn' = [conn EXCEPT ![d] = "walking"] \/ conn' = [conn EXCEPT ![d] = "loop"]
    BY <1>5 DEF SetSession
  <2>2. daemonWs = d
    BY <2>1 DEF AnnouncedInv, OneIsHeard
  <2>3. OneIsHeard'
    BY <2>1, <1>0 DEF AnnouncedInv, OneIsHeard, LinksTypeOK
  <2>4. CASE link = d
    <3>1. outbox'[d] = Tail(outbox[d]) /\ conn'[d] # "kicking"
      BY <2>1, <1>0 DEF SaidTypeOK, LinksTypeOK
    <3>2. ASSUME InUse' PROVE Latest(outbox[d]) = said
      BY <2>1, <2>4, <3>2 DEF AnnouncedInv, SaidIsLast, InUse
    <3>3. /\ Tail(outbox[d]) = <<>> => Head(outbox[d]) = Latest(outbox[d])
          /\ Tail(outbox[d]) # <<>> => Latest(Tail(outbox[d])) = Latest(outbox[d])
      BY <2>1, <1>c, TailFacts
    <3>4. SaidIsLast'
      BY <2>1, <2>4, <3>1, <3>2, <3>3 DEF SaidIsLast
    <3> QED BY <2>3, <3>4 DEF AnnouncedInv
  <2>5. CASE link # d
    <3>1. ASSUME InUse'
          PROVE  /\ outbox'[link] = outbox[link] /\ outbox[link] # <<>>
                 /\ Latest(outbox[link]) = said
      <4>1. link \in Links /\ conn'[link] = conn[link] /\ outbox'[link] = outbox[link]
        BY <2>1, <2>5, <3>1, <1>0 DEF InUse, LinksTypeOK, SaidTypeOK
      <4>2. InUse /\ conn[link] = "kicking"
        BY <4>1, <2>1, <2>2, <2>5, <3>1 DEF InUse, AnnouncedInv, OneIsHeard
      <4> QED BY <4>1, <4>2 DEF AnnouncedInv, SaidIsLast
    <3>2. SaidIsLast'
      BY <2>1, <3>1 DEF SaidIsLast
    <3> QED BY <2>3, <3>2 DEF AnnouncedInv
  <2> QED BY <2>4, <2>5
<1>6. ASSUME NEW d \in Links, SwitchDone(d) PROVE AnnouncedInv'
  <2>1. /\ conn[d] = "walking"
        /\ conn' = [conn EXCEPT ![d] = IF daemonWs = d THEN "loop" ELSE "closed"]
        /\ UNCHANGED <<sessionId, daemonWs, link, said, outbox>>
    BY <1>6 DEF SwitchDone, railwayVars, daemonVars
  <2>2. OneIsHeard'
    BY <2>1, <1>0 DEF AnnouncedInv, OneIsHeard, LinksTypeOK
  <2>3. ASSUME InUse' PROVE InUse /\ (conn[link] # "kicking" => conn'[link] # "kicking")
    BY <2>1, <2>3, <1>0 DEF InUse, LinksTypeOK
  <2>4. SaidIsLast'
    BY <2>1, <2>3 DEF SaidIsLast, AnnouncedInv
  <2> QED BY <2>2, <2>4 DEF AnnouncedInv
<1>7. ASSUME NEW x \in Sessions \cup {None}, Announce(x) PROVE AnnouncedInv'
  <2>1. /\ link # None /\ said' = x /\ outbox' = [outbox EXCEPT ![link] = Append(@, x)]
        /\ UNCHANGED <<sessionId, daemonWs, conn, link>>
    BY <1>7 DEF Announce, railwayVars
  <2>2. outbox'[link] # <<>> /\ Latest(outbox'[link]) = said'
    <3>1. link \in Links /\ outbox'[link] = Append(outbox[link], x)
      BY <2>1, <1>0 DEF LinksTypeOK, SaidTypeOK
    <3>2. Append(outbox[link], x) # <<>> /\ Latest(Append(outbox[link], x)) = x
      BY <3>1, <1>c, AppendFacts
    <3> QED BY <2>1, <3>1, <3>2
  <2>3. OneIsHeard' /\ SaidIsLast'
    BY <2>1, <2>2 DEF AnnouncedInv, OneIsHeard, SaidIsLast
  <2> QED BY <2>3 DEF AnnouncedInv
<1>8. ASSUME NEW keep \in 0 .. 2, LinkLost(keep) PROVE AnnouncedInv'
  <2>1. link' = None /\ UNCHANGED <<daemonWs, conn>>
    BY <1>8 DEF LinkLost
  <2> QED BY <2>1 DEF AnnouncedInv, OneIsHeard, SaidIsLast, InUse
<1>9. ASSUME EvictDone PROVE AnnouncedInv'
  <2>1. kick = "running" /\ UNCHANGED <<daemonWs, conn, link, said, outbox>>
    BY <1>9 DEF EvictDone, daemonVars
  <2>2. daemonWs = None /\ \A d \in Links : conn[d] # "kicking"
    BY <2>1 DEF GraceInv
  <2>3. ~InUse
    BY <2>2, <1>0, <1>a DEF InUse, LinksTypeOK, AnnouncedInv, OneIsHeard
  <2> QED BY <2>1, <2>3 DEF AnnouncedInv, OneIsHeard, SaidIsLast, InUse
<1>10. ASSUME NEW keep \in 0 .. MaxMail, RailwayRestart(keep) PROVE AnnouncedInv'
  BY <1>10 DEF RailwayRestart, AnnouncedInv, OneIsHeard, SaidIsLast, InUse
<1>11. ASSUME NEW w \in Walkers, WalkStep(w) PROVE AnnouncedInv'
  BY <1>11, <1>b DEF WalkStep, WalkSend, WalkPop, daemonVars
<1>12. ASSUME Tick \/ Wake \/ DrainPresence \/ UNCHANGED vars PROVE AnnouncedInv'
  BY <1>12, <1>b DEF Tick, Wake, DrainPresence, vars, railwayVars, daemonVars
<1> QED BY <1>1, <1>2, <1>3, <1>4, <1>5, <1>6, <1>7, <1>8, <1>9, <1>10, <1>11, <1>12
    DEF Next, DaemonStep

\* What the daemon announced last on its connection is what Railway ends up with, whatever is
\* left over of the connections before it and whatever the grace period does meanwhile.
THEOREM AnnouncementsWin == Spec => []LastAnnouncementWins
<1>1. Init => TypeOK /\ ListedInv /\ GraceInv /\ AnnouncedInv
  <2>1. Init => GraceInv /\ AnnouncedInv
    BY DEF Init, GraceInv, AnnouncedInv, OneIsHeard, SaidIsLast, InUse
  <2> QED BY <2>1, TypeInit, GatewayAssumption
<1>2. TypeOK /\ ListedInv /\ GraceInv /\ AnnouncedInv /\ [Next]_vars
      => TypeOK' /\ ListedInv' /\ GraceInv' /\ AnnouncedInv'
  BY TypeNext, GraceStep, AnnouncedStep, GatewayAssumption
<1>3. AnnouncedInv => LastAnnouncementWins
  BY DEF AnnouncedInv, SaidIsLast, InUse, LastAnnouncementWins
<1> QED BY <1>1, <1>2, <1>3, PTL DEF Spec

----------------------------------------------------------------------------
(* Cohorts                                                                 *)

\* While the daemon always returns in time, nobody is evicted.
NoEvictor ==
  /\ kick # "running" /\ (kick = "asleep" => left >= 1)
  /\ todo[Evictor] = {} /\ at[Evictor] = {}
\* Clients are dropped by a connection that is at it, one after another.
WalksInTurn ==
  /\ \A d \in Links : conn[d] # "walking" => todo[d] = {} /\ at[d] = {}
  /\ \A w \in Walkers : \A e, f \in at[w] : e = f
JoinedSome ==
  \A p \in Phones \cap Pids :
    participants[p] # None => sock[participants[p]].sess # None

LoopsInv == NoEvictor /\ WalksInTurn
CohortInv == JoinedSome /\ CohortIsolation

\* A phone's entry is of the session, or is about to go.
Fits(p) == \/ sock[participants[p]].sess = sessionId
           \/ \E w \in Walkers : <<p, participants[p]>> \in todo[w] \cup at[w]

\* A roster whose every entry fits the session has one cohort.
LEMMA CohortByFit ==
  CohortIsolation <=>
    \A p \in Phones \cap Pids :
      (participants[p] # None => Fits(p)) /\ history[p] \in {sessionId, None}
BY DEF CohortIsolation, Fits

\* The same of the next state.
LEMMA CohortByFitNext ==
  CohortIsolation' <=>
    \A p \in Phones \cap Pids :
      (participants'[p] # None => Fits(p)') /\ history'[p] \in {sessionId', None}
BY DEF CohortIsolation, Fits

\* Entries of phones that only go away, under sockets that stay what they are.
LEMMA CohortKept ==
  ASSUME CohortInv, UNCHANGED <<sessionId, history, todo, at>>,
         \A p \in Phones \cap Pids :
           participants'[p] # None =>
             /\ participants'[p] = participants[p]
             /\ sock'[participants[p]].sess = sock[participants[p]].sess
  PROVE  CohortInv'
BY DEF CohortInv, JoinedSome, CohortIsolation

\* A phone joins only the session that is served.
LEMMA ClientStepCohort ==
  ASSUME GatewayAssumption, TypeOK, ListedInv, CohortInv, NEW s \in Sockets, ClientStep(s)
  PROVE  CohortInv'
<1>0. /\ participants \in [Pids -> Sockets \cup {None}] /\ sock \in [Sockets -> Handler]
      /\ history \in [Phones -> Sessions \cup {None}]
      /\ None \notin Sockets /\ None \notin Sessions /\ Host \notin Phones
  BY TypeParts DEF ClientsTypeOK, SessionTypeOK, GatewayAssumption
<1>1. UNCHANGED <<sessionId, todo, at>>
  BY ClientStepFrame DEF ClientFrame, walkVars
<1>2. ASSUME sock[s].ph \in {"free", "done", "retry", "away"}
      PROVE  \A p \in Phones \cap Pids : participants[p] # s
  BY <1>2, <1>0 DEF ListedInv, ListedIsServed
<1>3. ASSUME NEW p \in Pids, NEW x \in Sessions, Refused(s, p, x) PROVE CohortInv'
  <2>1. /\ history' = history /\ participants' = participants
        /\ \A t \in Sockets \ {s} : sock'[t] = sock[t]
    BY <1>0, <1>3 DEF Refused
  <2>2. \A q \in Phones \cap Pids : participants[q] # s
    BY <1>2, <1>3 DEF Refused
  <2> QED BY <2>1, <2>2, <1>0, <1>1, CohortKept
<1>4. ASSUME NEW p \in Pids, NEW x \in Sessions, PhoneConnect(s, p, x) PROVE CohortInv'
  <2>1. /\ p \in Phones /\ x = sessionId /\ history' = [history EXCEPT ![p] = x]
        /\ participants' = [participants EXCEPT ![p] = s]
        /\ sock' = [sock EXCEPT ![s] = [pid |-> p, sess |-> x, ph |-> "live", old |-> None]]
    BY <1>4 DEF PhoneConnect, IsActive
  <2>2. \A q \in Phones \cap Pids : participants[q] # s
    BY <1>2, <1>4 DEF PhoneConnect
  <2>3. sock'[s].sess = x /\ \A t \in Sockets \ {s} : sock'[t] = sock[t]
    BY <2>1, <1>0
  <2>4. ASSUME NEW q \in Phones \cap Pids
        PROVE  /\ participants'[q] # None => sock'[participants'[q]].sess # None /\ Fits(q)'
               /\ history'[q] \in {sessionId', None}
    <3>1. CASE q = p
      BY <3>1, <2>1, <2>3, <1>0, <1>1 DEF Fits
    <3>2. CASE q # p
      <4>1. /\ participants'[q] = participants[q] /\ history'[q] = history[q]
            /\ participants[q] # None => sock'[participants[q]] = sock[participants[q]]
        BY <3>2, <2>1, <2>2, <2>3, <1>0
      <4> QED BY <4>1, <1>1, CohortByFit DEF CohortInv, JoinedSome, Fits
    <3> QED BY <3>1, <3>2
  <2> QED BY <2>4, CohortByFitNext DEF CohortInv, JoinedSome
<1>5. ASSUME NEW x \in Sessions, HostConnect(s, x) PROVE CohortInv'
  <2>1. /\ Host \in Pids /\ sock[s].ph = "free" /\ history' = history
        /\ participants' = participants \/ participants' = [participants EXCEPT ![Host] = s]
    BY <1>5 DEF HostConnect
  <2>2. \A t \in Sockets \ {s} : sock'[t].sess = sock[t].sess
    <3>1. CASE participants[Host] = None
      BY <3>1, <1>0, <1>5 DEF HostConnect
    <3>2. CASE participants[Host] # None
      <4>1. participants[Host] \in Sockets
        BY <3>2, <2>1, <1>0
      <4> DEFINE closed == Closed(sock, participants[Host])
      <4>2. closed \in [Sockets -> Handler] /\ \A t \in Sockets : closed[t].sess = sock[t].sess
        BY <4>1, <1>0, ClosedFacts
      <4>3. sock' = [closed EXCEPT ![s] = [pid |-> Host, sess |-> x, old |-> participants[Host],
                                           ph |-> "kicking"]]
        BY <3>2, <1>5 DEF HostConnect
      <4> HIDE DEF closed
      <4> QED BY <4>2, <4>3
    <3> QED BY <3>1, <3>2
  <2>3. \A q \in Phones \cap Pids : participants[q] # s /\ participants'[q] = participants[q]
    BY <1>2, <2>1, <1>0
  <2> QED BY <2>1, <2>2, <2>3, <1>0, <1>1, CohortKept
<1>6. ASSUME HostListed(s) PROVE CohortInv'
  <2>1. \A q \in Phones \cap Pids : participants'[q] = participants[q]
    BY <1>0, <1>6 DEF HostListed
  <2>2. history' = history /\ \A t \in Sockets : sock'[t].sess = sock[t].sess
    BY <1>0, <1>6 DEF HostListed, Handler
  <2> QED BY <2>1, <2>2, <1>0, <1>1, CohortKept
<1>7. ASSUME PeerGone(s) \/ Stall(s) PROVE CohortInv'
  <2>1. /\ participants' = participants /\ history' = history
        /\ \A t \in Sockets : sock'[t].sess = sock[t].sess
    BY <1>0, <1>7 DEF PeerGone, Stall, Handler
  <2> QED BY <2>1, <1>0, <1>1, CohortKept
<1>8. ASSUME Drop(s) PROVE CohortInv'
  <2>1. \A q \in Phones \cap Pids : participants'[q] \in {participants[q], None}
    BY <1>0, <1>8 DEF Drop
  <2>2. history' = history /\ sock' = Closed(sock, s)
    BY <1>8 DEF Drop
  <2>3. \A t \in Sockets : sock'[t].sess = sock[t].sess
    BY <2>2, <1>0, ClosedFacts
  <2> QED BY <2>1, <2>2, <2>3, <1>0, <1>1, CohortKept
<1>9. ASSUME HandlerExit(s) PROVE CohortInv'
  <2>0. /\ history' = history /\ sock' = [sock EXCEPT ![s].ph = "done"]
        /\ participants' = participants \/ participants' = [participants EXCEPT ![sock[s].pid] = None]
    BY <1>9 DEF HandlerExit
  <2>1. \A q \in Phones \cap Pids : participants'[q] \in {participants[q], None}
    BY <1>0, <2>0
  <2>2. \A t \in Sockets : sock'[t].sess = sock[t].sess
    BY <1>0, <2>0 DEF Handler
  <2> QED BY <2>0, <2>1, <2>2, <1>0, <1>1, CohortKept
<1>10. ASSUME Recycle(s) PROVE CohortInv'
  <2>1. /\ history' = history /\ participants' = participants
        /\ \A t \in Sockets \ {s} : sock'[t] = sock[t]
    BY <1>0, <1>10 DEF Recycle
  <2>2. \A q \in Phones \cap Pids : participants[q] # s
    BY <1>2, <1>10 DEF Recycle
  <2> QED BY <2>1, <2>2, <1>0, <1>1, CohortKept
<1> QED BY <1>3, <1>4, <1>5, <1>6, <1>7, <1>8, <1>9, <1>10 DEF ClientStep

\* Every step keeps the loops in turn: the eviction never runs while links only blip.
LEMMA LoopsStep ==
  ASSUME GatewayAssumption, BlipsOnly, TypeOK, LoopsInv, [Next]_vars
  PROVE  LoopsInv'
<1>0. LinksTypeOK /\ KickTypeOK /\ WalksTypeOK /\ Grace \in Nat \ {0} /\ Evictor \notin Links
  BY TypeParts DEF GatewayAssumption
<1>a. ASSUME UNCHANGED <<todo, at, kick, left, conn>> PROVE LoopsInv'
  BY <1>a DEF LoopsInv, NoEvictor, WalksInTurn
<1>1. ASSUME NEW s \in Sockets, ClientStep(s) PROVE LoopsInv'
  BY <1>1, <1>a, ClientStepFrame DEF ClientFrame, walkVars, evictVars
<1>2. ASSUME NEW d \in Links, NEW x \in Sessions \cup {None}, NEW keep \in 0 .. MaxMail,
             DaemonConnect(d, x, keep)
      PROVE  LoopsInv'
  <2>1. /\ conn[d] = "free" /\ kick' = "none"
        /\ todo' = [todo EXCEPT ![Evictor] = {}] /\ at' = [at EXCEPT ![Evictor] = {}]
        /\ \A e \in Links : e # d => conn'[e] = conn[e]
    BY <1>0, <1>2 DEF DaemonConnect, CancelKick, NoEviction, LinksTypeOK
  <2>2. todo' = todo /\ at' = at
    BY <2>1, <1>0 DEF LoopsInv, NoEvictor, WalksTypeOK
  <2> QED BY <2>1, <2>2 DEF LoopsInv, NoEvictor, WalksInTurn
<1>3. ASSUME NEW d \in Links, DaemonInstall(d) PROVE LoopsInv'
  <2>1. /\ UNCHANGED <<todo, at, kick, left>>
        /\ \A e \in Links : conn'[e] # conn[e] => conn[e] # "walking"
    BY <1>0, <1>3 DEF DaemonInstall, walkVars, LinksTypeOK
  <2> QED BY <2>1 DEF LoopsInv, NoEvictor, WalksInTurn
<1>4. ASSUME NEW d \in Links, DaemonExit(d) PROVE LoopsInv'
  <2>1. /\ kick' = "asleep" /\ left' = Grace /\ conn[d] # "walking"
        /\ todo' = [todo EXCEPT ![Evictor] = {}] /\ at' = [at EXCEPT ![Evictor] = {}]
        /\ \A e \in Links : e # d => conn'[e] = conn[e]
    BY <1>0, <1>4 DEF DaemonExit, RestartGrace, NoEviction, LinksTypeOK
  <2>2. todo' = todo /\ at' = at
    BY <2>1, <1>0 DEF LoopsInv, NoEvictor, WalksTypeOK
  <2> QED BY <2>1, <2>2, <1>0 DEF LoopsInv, NoEvictor, WalksInTurn
<1>5. ASSUME NEW d \in Links, SetSession(d) PROVE LoopsInv'
  <2>1. /\ conn[d] = "loop" /\ UNCHANGED <<at, kick, left>>
        /\ \E new :
             /\ todo' = [todo EXCEPT ![d] = IF new THEN Listed ELSE {}]
             /\ conn' = [conn EXCEPT ![d] = IF new THEN "walking" ELSE "loop"]
    BY <1>5 DEF SetSession, evictVars
  <2>2. /\ \A w \in Walkers : w # d => todo'[w] = todo[w]
        /\ conn'[d] # "walking" => todo'[d] = {}
        /\ \A e \in Links : e # d => conn'[e] = conn[e]
    BY <2>1, <1>0 DEF WalksTypeOK, LinksTypeOK, Walkers
  <2> QED BY <2>1, <2>2, <1>0 DEF LoopsInv, NoEvictor, WalksInTurn, Walkers
<1>6. ASSUME NEW d \in Links, SwitchDone(d) PROVE LoopsInv'
  <2>1. /\ todo[d] = {} /\ at[d] = {} /\ UNCHANGED <<todo, at, kick, left>>
        /\ \A e \in Links : e # d => conn'[e] = conn[e]
    BY <1>0, <1>6 DEF SwitchDone, walkVars, evictVars, LinksTypeOK
  <2> QED BY <2>1 DEF LoopsInv, NoEvictor, WalksInTurn
<1>7. ASSUME NEW w \in Walkers, WalkSend(w) PROVE LoopsInv'
  <2>1. PICK e \in todo[w] : /\ at' = [at EXCEPT ![w] = {e}]
                             /\ todo' = [todo EXCEPT ![w] = @ \ {e}]
    BY <1>7 DEF WalkSend
  <2>2. w # Evictor /\ (w \in Links => conn[w] = "walking")
    BY <2>1 DEF LoopsInv, NoEvictor, WalksInTurn
  <2>3. UNCHANGED <<kick, left, conn>>
    BY <1>7 DEF WalkSend, evictVars
  <2> QED BY <2>1, <2>2, <2>3, <1>0 DEF LoopsInv, NoEvictor, WalksInTurn, WalksTypeOK, Walkers
<1>8. ASSUME NEW w \in Walkers, WalkPop(w) PROVE LoopsInv'
  <2>1. at' = [at EXCEPT ![w] = {}] /\ UNCHANGED <<todo, kick, left, conn>>
    BY <1>8 DEF WalkPop, evictVars
  <2> QED BY <2>1, <1>0 DEF LoopsInv, NoEvictor, WalksInTurn, WalksTypeOK, Walkers
<1>9. ASSUME Tick PROVE LoopsInv'
  <2>1. left > 1 /\ left' = left - 1 /\ UNCHANGED <<todo, at, kick, conn>>
    BY <1>9 DEF Tick, walkVars
  <2> QED BY <2>1, <1>0 DEF LoopsInv, NoEvictor, WalksInTurn, KickTypeOK
<1>10. ASSUME Wake \/ EvictDone PROVE LoopsInv'
  BY <1>10, <1>0 DEF Wake, EvictDone, LoopsInv, NoEvictor, KickTypeOK
<1>11. ASSUME NEW keep \in 0 .. MaxMail, RailwayRestart(keep) PROVE LoopsInv'
  BY <1>11 DEF RailwayRestart, NoWalks, LoopsInv, NoEvictor, WalksInTurn, Walkers
<1>12. ASSUME \/ \E x \in Sessions \cup {None} : Announce(x)
              \/ \E keep \in 0 .. 2 : LinkLost(keep)
              \/ DrainPresence
              \/ UNCHANGED vars
       PROVE  LoopsInv'
  BY <1>12, <1>a DEF Announce, LinkLost, DrainPresence, vars, walkVars, evictVars
<1> QED BY <1>1, <1>2, <1>3, <1>4, <1>5, <1>6, <1>7, <1>8, <1>9, <1>10, <1>11, <1>12
    DEF Next, DaemonStep, WalkStep

\* Every step keeps the roster of one cohort, but for those a loop has still to visit.
LEMMA CohortStep ==
  ASSUME GatewayAssumption, TypeOK, ListedInv, LoopsInv, CohortInv, [Next]_vars
  PROVE  CohortInv'
<1>0. /\ participants \in [Pids -> Sockets \cup {None}] /\ sock \in [Sockets -> Handler]
      /\ history \in [Phones -> Sessions \cup {None}] /\ WalksTypeOK
      /\ None \notin Sockets /\ Evictor \notin Links
  BY TypeParts DEF ClientsTypeOK, SessionTypeOK, GatewayAssumption
<1>a. ASSUME UNCHANGED <<sessionId, history, todo, at, participants, sock>> PROVE CohortInv'
  BY <1>a DEF CohortInv, JoinedSome, CohortIsolation
<1>1. ASSUME NEW s \in Sockets, ClientStep(s) PROVE CohortInv'
  BY <1>1, ClientStepCohort
<1>2. ASSUME NEW d \in Links, NEW x \in Sessions \cup {None}, NEW keep \in 0 .. MaxMail,
             DaemonConnect(d, x, keep)
      PROVE  CohortInv'
  <2>1. todo' = todo /\ at' = at
    BY <1>0, <1>2 DEF DaemonConnect, CancelKick, NoEviction, LoopsInv, NoEvictor, WalksTypeOK
  <2> QED BY <2>1, <1>2, <1>a DEF DaemonConnect, railwayVars
<1>3. ASSUME NEW d \in Links, DaemonExit(d) PROVE CohortInv'
  <2>1. todo' = todo /\ at' = at
    BY <1>0, <1>3 DEF DaemonExit, RestartGrace, NoEviction, LoopsInv, NoEvictor, WalksTypeOK
  <2> QED BY <2>1, <1>3, <1>a DEF DaemonExit, railwayVars
<1>4. ASSUME NEW d \in Links, SetSession(d) PROVE CohortInv'
  <2> DEFINE new == Head(outbox[d])
             changed == sessionId # None /\ new # sessionId
  <2>1. /\ conn[d] = "loop" /\ sessionId' = new
        /\ history' = IF changed THEN [p \in Phones |-> None] ELSE history
        /\ todo' = [todo EXCEPT ![d] = IF changed THEN Listed ELSE {}]
        /\ UNCHANGED <<participants, sock, at>>
    BY <1>4 DEF SetSession
  <2>2. todo[d] = {} /\ d \in Walkers
    BY <2>1 DEF LoopsInv, WalksInTurn, Walkers
  <2> HIDE DEF new
  <2>3. ASSUME NEW p \in Phones \cap Pids
        PROVE  (participants'[p] # None => Fits(p)') /\ history'[p] \in {sessionId', None}
    <3>0. /\ participants[p] # None => Fits(p) /\ sock[participants[p]].sess # None
          /\ history[p] \in {sessionId, None}
      BY CohortByFit DEF CohortInv, JoinedSome
    <3>1. CASE changed
      <4>1. participants[p] # None => <<p, participants[p]>> \in Listed
        BY DEF Listed
      <4>2. todo'[d] = Listed /\ history'[p] = None
        BY <3>1, <2>1, <2>2, <1>0 DEF WalksTypeOK
      <4> QED BY <4>1, <4>2, <2>1, <2>2 DEF Fits
    <3>2. CASE ~changed
      <4>1. todo' = todo /\ history' = history
        BY <3>2, <2>1, <2>2, <1>0 DEF WalksTypeOK
      <4>2. sessionId = None \/ sessionId' = sessionId
        BY <3>2, <2>1
      <4>3. ASSUME participants[p] # None PROVE Fits(p)'
        BY <4>1, <4>2, <4>3, <3>0, <2>1 DEF Fits
      <4>4. history'[p] \in {sessionId', None}
        BY <4>1, <4>2, <3>0
      <4> QED BY <4>3, <4>4, <2>1
    <3> QED BY <3>1, <3>2
  <2>4. JoinedSome'
    BY <2>1 DEF CohortInv, JoinedSome
  <2> QED BY <2>3, <2>4, CohortByFitNext DEF CohortInv
<1>5. ASSUME NEW w \in Walkers, WalkSend(w) PROVE CohortInv'
  <2>1. PICK e \in todo[w] : /\ at' = [at EXCEPT ![w] = {e}]
                             /\ todo' = [todo EXCEPT ![w] = @ \ {e}]
                             /\ sock' = Closed(sock, e[2])
    BY <1>5 DEF WalkSend
  <2>2. UNCHANGED <<participants, sessionId, history>> /\ at[w] = {}
    BY <1>5 DEF WalkSend
  <2>3. e[2] \in Sockets
    BY <2>1, <1>0 DEF WalksTypeOK, Entries
  <2>4. \A t \in Sockets : sock'[t].sess = sock[t].sess
    BY <2>1, <2>3, <1>0, ClosedFacts
  <2>5. ASSUME NEW v \in Walkers PROVE todo'[v] \cup at'[v] = todo[v] \cup at[v]
    BY <2>1, <2>2, <1>0 DEF WalksTypeOK
  <2>6. ASSUME NEW p \in Phones \cap Pids, participants[p] # None
        PROVE  sock'[participants[p]].sess = sock[participants[p]].sess
    BY <2>4, <2>6, <1>0
  <2>7. JoinedSome'
    BY <2>2, <2>6 DEF CohortInv, JoinedSome
  <2>8. ASSUME NEW p \in Phones \cap Pids, participants[p] # None, Fits(p) PROVE Fits(p)'
    BY <2>2, <2>5, <2>6, <2>8 DEF Fits
  <2>9. CohortIsolation'
    BY <2>2, <2>8, CohortByFit, CohortByFitNext DEF CohortInv
  <2> QED BY <2>7, <2>9 DEF CohortInv
<1>6. ASSUME NEW w \in Walkers, WalkPop(w) PROVE CohortInv'
  <2>1. PICK e \in at[w] : participants' = [participants EXCEPT ![e[1]] = None]
    BY <1>6 DEF WalkPop
  <2>2. at' = [at EXCEPT ![w] = {}] /\ UNCHANGED <<sock, sessionId, history, todo>>
    BY <1>6 DEF WalkPop
  <2>3. ASSUME NEW p \in Phones \cap Pids, participants'[p] # None
        PROVE  participants'[p] = participants[p] /\ p # e[1]
    BY <2>1, <2>3, <1>0
  <2>4. JoinedSome'
    BY <2>2, <2>3 DEF CohortInv, JoinedSome
  <2>5. ASSUME NEW p \in Phones \cap Pids, participants'[p] # None, Fits(p) PROVE Fits(p)'
    <3>1. participants'[p] = participants[p] /\ p # e[1]
      BY <2>3, <2>5
    <3>2. <<p, participants[p]>> \notin at[w]
      BY <3>1, <2>1 DEF LoopsInv, WalksInTurn
    <3>3. \A v \in Walkers : v # w => at'[v] = at[v]
      BY <2>2, <1>0 DEF WalksTypeOK
    <3> QED BY <3>1, <3>2, <3>3, <2>2, <2>5 DEF Fits
  <2>6. CohortIsolation'
    BY <2>2, <2>3, <2>5, CohortByFit, CohortByFitNext DEF CohortInv
  <2> QED BY <2>4, <2>6 DEF CohortInv
<1>7. ASSUME Wake \/ EvictDone PROVE CohortInv'
  <2>1. ~EvictDone
    BY DEF EvictDone, LoopsInv, NoEvictor
  <2>2. ~Wake
    BY TypeParts DEF Wake, LoopsInv, NoEvictor
  <2> QED BY <2>1, <2>2, <1>7
<1>8. ASSUME NEW keep \in 0 .. MaxMail, RailwayRestart(keep) PROVE CohortInv'
  BY <1>8 DEF RailwayRestart, Nobody, CohortInv, JoinedSome, CohortIsolation
<1>9. ASSUME \/ \E d \in Links : DaemonInstall(d) \/ SwitchDone(d)
             \/ \E x \in Sessions \cup {None} : Announce(x)
             \/ \E keep \in 0 .. 2 : LinkLost(keep)
             \/ Tick \/ DrainPresence
             \/ UNCHANGED vars
      PROVE  CohortInv'
  BY <1>9, <1>a DEF DaemonInstall, SwitchDone, Announce, LinkLost, Tick, DrainPresence, vars,
     railwayVars, walkVars
<1> QED BY <1>1, <1>2, <1>3, <1>4, <1>5, <1>6, <1>7, <1>8, <1>9
    DEF Next, DaemonStep, WalkStep

\* While the daemon always returns within the grace period: however switches, losses of the
\* link and late clean-ups interleave, a listed phone joined the session that is live, or is
\* about to be dropped, and the history holds nobody of an earlier session.
THEOREM CohortsStayApart == BlipsOnly /\ Spec => []CohortIsolation
<1> SUFFICES ASSUME BlipsOnly PROVE Spec => []CohortIsolation
  OBVIOUS
<1>1. Init => TypeOK /\ ListedInv /\ LoopsInv /\ CohortInv
  <2>1. Init => LoopsInv /\ CohortInv
    BY DEF Init, NoWalks, Nobody, LoopsInv, NoEvictor, WalksInTurn, Walkers, CohortInv,
       JoinedSome, CohortIsolation
  <2> QED BY <2>1, TypeInit, GatewayAssumption
<1>2. TypeOK /\ ListedInv /\ LoopsInv /\ CohortInv /\ [Next]_vars
      => TypeOK' /\ ListedInv' /\ LoopsInv' /\ CohortInv'
  BY TypeNext, LoopsStep, CohortStep, GatewayAssumption
<1>3. CohortInv => CohortIsolation
  BY DEF CohortInv
<1> QED BY <1>1, <1>2, <1>3, PTL DEF Spec

----------------------------------------------------------------------------
(* One session: presence                                                   *)

\* The daemon serves one session and always returns in time.
OneSession == BlipsOnly /\ MaxSwitches = 0 /\ \A x, y \in Sessions : x = y

\* Then nobody is ever dropped, since no announcement changes anything.
NoWalk ==
  /\ budget.switches = 0 /\ \A d \in Links : conn[d] # "walking"
  /\ \A d \in Links : \A i \in 1 .. Len(outbox[d]) : outbox[d][i] # None

\* With one session id and no switch, no loop ever has anybody to send away.
LEMMA NoWalkStep ==
  ASSUME GatewayAssumption, OneSession, TypeOK, LoopsInv, NoWalk, [Next]_vars
  PROVE  NoWalk'
<1>0. LinksTypeOK /\ SaidTypeOK /\ SessionTypeOK /\ BudgetTypeOK /\ WalksTypeOK /\ None \notin Sessions
  BY TypeParts DEF GatewayAssumption
<1>a. ASSUME UNCHANGED <<budget, conn, outbox>> PROVE NoWalk'
  BY <1>a DEF NoWalk
<1>b. \A d \in Links : outbox[d] \in Seq(Sessions \cup {None})
  BY <1>0 DEF SaidTypeOK
<1>1. ASSUME NEW s \in Sockets, ClientStep(s) PROVE NoWalk'
  BY <1>1, <1>a, ClientStepFrame DEF ClientFrame
<1>2. ASSUME NEW d \in Links, NEW x \in Sessions \cup {None}, NEW keep \in 0 .. MaxMail,
             DaemonConnect(d, x, keep)
      PROVE  NoWalk'
  <2>1. /\ budget' = budget /\ outbox' = [outbox EXCEPT ![d] = IF x = None THEN <<>> ELSE <<x>>]
        /\ \/ conn' = [conn EXCEPT ![d] = "loop"]
           \/ conn' = [conn EXCEPT ![d] = "kicking"]
    BY <1>2 DEF DaemonConnect
  <2>2. ASSUME NEW e \in Links, NEW i \in 1 .. Len(outbox'[e]) PROVE outbox'[e][i] # None
    <3>1. CASE e # d
      BY <3>1, <2>1, <2>2, <1>0 DEF NoWalk, SaidTypeOK
    <3>2. CASE e = d /\ x = None
      <4>1. outbox'[e] = <<>>
        BY <3>2, <2>1, <1>0 DEF SaidTypeOK
      <4> QED BY <4>1, <2>2
    <3>3. CASE e = d /\ x # None
      <4>1. outbox'[e] = <<x>>
        BY <3>3, <2>1, <1>0 DEF SaidTypeOK
      <4> QED BY <4>1, <2>2, <3>3
    <3> QED BY <3>1, <3>2, <3>3
  <2>3. \A e \in Links : conn'[e] # "walking"
    BY <2>1, <1>0 DEF NoWalk, LinksTypeOK
  <2> QED BY <2>1, <2>2, <2>3 DEF NoWalk
<1>3. ASSUME NEW d \in Links, DaemonInstall(d) PROVE NoWalk'
  BY <1>0, <1>3 DEF DaemonInstall, NoWalk, LinksTypeOK
<1>4. ASSUME NEW d \in Links, DaemonExit(d) PROVE NoWalk'
  <2>1. /\ budget' = budget /\ conn' = [conn EXCEPT ![d] = "free"]
        /\ outbox' = [outbox EXCEPT ![d] = <<>>]
    BY <1>4 DEF DaemonExit
  <2>2. Len(<<>>) = 0
    OBVIOUS
  <2>3. \A e \in Links : outbox'[e] = <<>> \/ outbox'[e] = outbox[e]
    BY <2>1, <1>0 DEF SaidTypeOK
  <2>4. \A e \in Links : conn'[e] # "walking"
    BY <2>1, <1>0 DEF NoWalk, LinksTypeOK
  <2> QED BY <2>1, <2>2, <2>3, <2>4 DEF NoWalk
<1>5. ASSUME NEW d \in Links, SetSession(d) PROVE NoWalk'
  <2> DEFINE new == Head(outbox[d])
  <2>1. /\ outbox[d] # <<>> /\ outbox' = [outbox EXCEPT ![d] = Tail(@)] /\ budget' = budget
        /\ conn' = [conn EXCEPT ![d] = IF sessionId # None /\ new # sessionId
                                      THEN "walking" ELSE "loop"]
    BY <1>5 DEF SetSession
  <2>2. /\ Len(outbox[d]) \in Nat \ {0} /\ new = outbox[d][1] /\ new \in Sessions \cup {None}
        /\ Len(Tail(outbox[d])) = Len(outbox[d]) - 1
        /\ \A i \in 1 .. Len(outbox[d]) - 1 : Tail(outbox[d])[i] = outbox[d][i + 1]
    <3> DEFINE q == outbox[d]
    <3>1. q \in Seq(Sessions \cup {None}) /\ q # <<>>
      BY <2>1, <1>b
    <3> HIDE DEF q
    <3>2. /\ Len(q) \in Nat \ {0} /\ Head(q) = q[1] /\ Head(q) \in Sessions \cup {None}
          /\ Len(Tail(q)) = Len(q) - 1 /\ \A i \in 1 .. Len(q) - 1 : Tail(q)[i] = q[i + 1]
      BY <3>1
    <3> QED BY <3>2 DEF q
  <2> HIDE DEF new
  <2>3. new \in Sessions
    BY <2>2 DEF NoWalk
  <2>4. sessionId = None \/ sessionId = new
    BY <2>3, <1>0 DEF OneSession, SessionTypeOK
  <2>5. \A e \in Links : conn'[e] # "walking"
    BY <2>1, <2>4, <1>0 DEF NoWalk, LinksTypeOK
  <2>6. \A e \in Links : outbox'[e] = IF e = d THEN Tail(outbox[d]) ELSE outbox[e]
    BY <2>1, <1>0 DEF SaidTypeOK
  <2>7. \A e \in Links : \A i \in 1 .. Len(outbox'[e]) : outbox'[e][i] # None
    <3>1. ASSUME NEW i \in 1 .. Len(Tail(outbox[d])) PROVE Tail(outbox[d])[i] # None
      <4>1. i \in 1 .. Len(outbox[d]) - 1 /\ i + 1 \in 1 .. Len(outbox[d])
        BY <2>2, <3>1
      <4> QED BY <4>1, <2>2 DEF NoWalk
    <3> QED BY <2>6, <3>1 DEF NoWalk
  <2> QED BY <2>1, <2>5, <2>7 DEF NoWalk
<1>6. ASSUME NEW d \in Links, SwitchDone(d) PROVE NoWalk'
  BY <1>6 DEF SwitchDone, NoWalk
<1>7. ASSUME NEW x \in Sessions \cup {None}, Announce(x) PROVE NoWalk'
  BY <1>7 DEF Announce, NoWalk
<1>8. ASSUME NEW keep \in 0 .. 2, LinkLost(keep) PROVE NoWalk'
  <2>1. /\ link \in Links /\ keep \in 0 .. Len(outbox[link]) /\ conn' = conn
        /\ outbox' = [outbox EXCEPT ![link] = SubSeq(@, 1, keep)]
        /\ budget' = [budget EXCEPT !.drops = @ - 1]
    BY <1>8, <1>0 DEF LinkLost, LinksTypeOK
  <2>2. budget'.switches = 0
    BY <2>1, <1>0 DEF NoWalk, BudgetTypeOK
  <2>3. /\ Len(SubSeq(outbox[link], 1, keep)) = keep
        /\ \A i \in 1 .. keep : SubSeq(outbox[link], 1, keep)[i] = outbox[link][i]
    <3> DEFINE q == outbox[link]
    <3>1. q \in Seq(Sessions \cup {None}) /\ keep \in 0 .. Len(q)
      BY <2>1, <1>b
    <3> HIDE DEF q
    <3>2. Len(SubSeq(q, 1, keep)) = keep /\ \A i \in 1 .. keep : SubSeq(q, 1, keep)[i] = q[i]
      BY <3>1
    <3> QED BY <3>2 DEF q
  <2>4. \A e \in Links : outbox'[e] = IF e = link THEN SubSeq(outbox[link], 1, keep) ELSE outbox[e]
    BY <2>1, <1>0 DEF SaidTypeOK
  <2>5. Len(outbox[link]) \in Nat
    BY <2>1, <1>b
  <2>6. \A e \in Links : \A i \in 1 .. Len(outbox'[e]) : outbox'[e][i] # None
    BY <2>1, <2>3, <2>4, <2>5 DEF NoWalk
  <2> QED BY <2>1, <2>2, <2>6 DEF NoWalk
<1>9. ASSUME NEW keep \in 0 .. MaxMail, RailwayRestart(keep) PROVE NoWalk'
  <2>1. /\ budget' = [budget EXCEPT !.restarts = @ - 1] /\ outbox' = [d \in Links |-> <<>>]
        /\ conn' = [d \in Links |-> "free"]
    BY <1>9 DEF RailwayRestart, Silence
  <2>2. Len(<<>>) = 0
    OBVIOUS
  <2>3. budget'.switches = 0
    BY <2>1, <1>0 DEF NoWalk, BudgetTypeOK
  <2> QED BY <2>1, <2>2, <2>3 DEF NoWalk
<1>10. ASSUME \/ \E w \in Walkers : WalkStep(w)
              \/ Tick \/ Wake \/ EvictDone \/ DrainPresence
              \/ UNCHANGED vars
       PROVE  NoWalk'
  BY <1>10, <1>a DEF WalkStep, WalkSend, WalkPop, Tick, Wake, EvictDone, DrainPresence, vars,
     daemonVars
<1> QED BY <1>1, <1>2, <1>3, <1>4, <1>5, <1>6, <1>7, <1>8, <1>9, <1>10
    DEF Next, DaemonStep

\* So nobody is popped while its socket lives.
LEMMA NoWalkMeans ==
  ASSUME LoopsInv, NoWalk, NEW w \in Walkers
  PROVE  ~WalkStep(w)
<1>1. at[w] = {} /\ todo[w] = {}
  BY DEF LoopsInv, NoEvictor, WalksInTurn, NoWalk, Walkers
<1> QED BY <1>1 DEF WalkStep, WalkSend, WalkPop

\* In one session a working socket stays listed until another one of the same participant
\* takes its place.
LEMMA LiveStep ==
  ASSUME GatewayAssumption, TypeOK, ListedInv, LoopsInv, NoWalk, [Next]_vars,
         NEW p \in Pids, participants[p] # None,
         sock[participants[p]].ph = "live", sock'[participants[p]].ph = "live"
  PROVE  participants'[p] # None
<1>0. /\ participants \in [Pids -> Sockets \cup {None}] /\ sock \in [Sockets -> Handler]
      /\ None \notin Sockets
  BY TypeParts DEF ClientsTypeOK, GatewayAssumption
<1>1. ASSUME NEW s \in Sockets, ClientStep(s) PROVE participants'[p] # None
  <2>1. CASE Drop(s) \/ HandlerExit(s)
    <3>1. sock[s].ph # "live" /\ participants[p] # s
      BY <2>1 DEF Drop, HandlerExit
    <3>2. sock[participants[p]].pid = p
      BY DEF ListedInv, ListedIsServed
    <3>3. \/ participants' = participants
          \/ /\ participants[sock[s].pid] = s
             /\ participants' = [participants EXCEPT ![sock[s].pid] = None]
      BY <2>1 DEF Drop, HandlerExit
    <3> QED BY <3>1, <3>3, <1>0
  <2>2. CASE \/ \E q \in Pids, x \in Sessions : Refused(s, q, x)
             \/ PeerGone(s) \/ Stall(s) \/ Recycle(s)
    BY <2>2 DEF Refused, PeerGone, Stall, Recycle
  <2>3. ASSUME NEW q \in Pids, participants' = [participants EXCEPT ![q] = s]
        PROVE  participants'[p] # None
    BY <2>3, <1>0
  <2>4. ASSUME NEW x \in Sessions, HostConnect(s, x) PROVE participants'[p] # None
    <3>1. Host \in Pids
      BY <2>4 DEF HostConnect
    <3>2. participants' = participants \/ participants' = [participants EXCEPT ![Host] = s]
      BY <2>4 DEF HostConnect
    <3> QED BY <3>1, <3>2, <2>3
  <2>5. ASSUME NEW q \in Pids, NEW x \in Sessions, PhoneConnect(s, q, x)
        PROVE  participants'[p] # None
    BY <2>5, <2>3 DEF PhoneConnect
  <2>6. ASSUME HostListed(s) PROVE participants'[p] # None
    BY <2>6, <2>3 DEF HostListed, ListedInv, PanelsWait
  <2> QED BY <1>1, <2>1, <2>2, <2>4, <2>5, <2>6 DEF ClientStep
<1>2. ASSUME NEW keep \in 0 .. MaxMail, RailwayRestart(keep) PROVE participants'[p] # None
  BY <1>2, <1>0 DEF RailwayRestart, Idle
<1>3. ASSUME \E w \in Walkers : WalkStep(w) PROVE participants'[p] # None
  BY <1>3, NoWalkMeans
<1>4. ASSUME \E d \in Links : DaemonStep(d) PROVE participants'[p] # None
  BY <1>4, DaemonStepFrame
<1>5. ASSUME \/ \E x \in Sessions \cup {None} : Announce(x)
             \/ \E keep \in 0 .. 2 : LinkLost(keep)
             \/ Tick \/ Wake \/ EvictDone \/ DrainPresence
             \/ UNCHANGED vars
      PROVE  participants'[p] # None
  BY <1>5 DEF Announce, LinkLost, Tick, Wake, EvictDone, DrainPresence, vars, railwayVars
<1> QED BY <1>1, <1>2, <1>3, <1>4, <1>5 DEF Next

\* However late the clean-up, the failed send or the kick of an older socket comes: the one
\* that works stays in the broadcast list.
THEOREM LiveSocketsStay == OneSession /\ Spec => LiveStaysListed
<1> SUFFICES ASSUME OneSession PROVE Spec => LiveStaysListed
  OBVIOUS
<1>0. BlipsOnly
  BY DEF OneSession
<1>1. Init => TypeOK /\ ListedInv /\ LoopsInv /\ NoWalk
  <2>1. Init => LoopsInv /\ NoWalk
    <3>1. Len(<<>>) = 0
      OBVIOUS
    <3> QED BY <3>1 DEF Init, NoWalks, Silence, LoopsInv, NoEvictor, WalksInTurn, Walkers,
               NoWalk, OneSession
  <2> QED BY <2>1, TypeInit, GatewayAssumption
<1>2. TypeOK /\ ListedInv /\ LoopsInv /\ NoWalk /\ [Next]_vars
      => TypeOK' /\ ListedInv' /\ LoopsInv' /\ NoWalk'
  BY <1>0, TypeNext, LoopsStep, NoWalkStep, GatewayAssumption
<1>3. TypeOK /\ ListedInv /\ LoopsInv /\ NoWalk /\ [Next]_vars =>
        [\A p \in Pids :
           LET s == participants[p]
           IN s # None /\ sock[s].ph = "live" /\ sock'[s].ph = "live"
                => participants'[p] # None]_vars
  BY LiveStep, GatewayAssumption
<1> QED BY <1>1, <1>2, <1>3, PTL DEF Spec, LiveStaysListed

\* What a message says of a phone, and what is believed of it once a queue is worked off.
Concerns(m, p) == m.kind = "all" \/ p \in m.who
Says(m, p) == m.kind # "offline" /\ p \in m.who
Believed(q, on, p) ==
  \/ \E i \in 1 .. Len(q) : Says(q[i], p) /\ \A j \in i + 1 .. Len(q) : ~Concerns(q[j], p)
  \/ p \in on /\ \A i \in 1 .. Len(q) : ~Concerns(q[i], p)

\* The last message about a phone counts.
LEMMA AppendBelieved ==
  ASSUME NEW S, NEW q \in Seq(S), NEW m \in S, NEW on, NEW p
  PROVE  Believed(Append(q, m), on, p) <=>
           IF Concerns(m, p) THEN Says(m, p) ELSE Believed(q, on, p)
<1> DEFINE r == Append(q, m)
<1>1. /\ Len(q) \in Nat /\ Len(r) = Len(q) + 1 /\ r[Len(q) + 1] = m
      /\ \A i \in 1 .. Len(q) : r[i] = q[i]
  OBVIOUS
<1> HIDE DEF r
<1>0. Says(m, p) => Concerns(m, p)
  BY DEF Says, Concerns
<1>2. CASE Concerns(m, p)
  <2>1. \A i \in 1 .. Len(q) : Len(q) + 1 \in i + 1 .. Len(r)
    BY <1>1
  <2>2. ASSUME NEW i \in 1 .. Len(r), Says(r[i], p), \A j \in i + 1 .. Len(r) : ~Concerns(r[j], p)
        PROVE  Says(m, p)
    BY <1>1, <1>2, <2>1, <2>2
  <2>3. ~ \A i \in 1 .. Len(r) : ~Concerns(r[i], p)
    BY <1>1, <1>2
  <2>4. ASSUME Says(m, p) PROVE Believed(r, on, p)
    <3>1. Len(q) + 1 \in 1 .. Len(r) /\ Says(r[Len(q) + 1], p)
      BY <1>1, <2>4
    <3>2. \A j \in (Len(q) + 1) + 1 .. Len(r) : ~Concerns(r[j], p)
      BY <1>1
    <3> QED BY <3>1, <3>2 DEF Believed
  <2> QED BY <1>2, <2>2, <2>3, <2>4 DEF Believed, r
<1>3. CASE ~Concerns(m, p)
  <2>1. ASSUME Believed(r, on, p) PROVE Believed(q, on, p)
    <3>1. CASE p \in on /\ \A i \in 1 .. Len(r) : ~Concerns(r[i], p)
      BY <3>1, <1>1 DEF Believed
    <3>2. ASSUME NEW i \in 1 .. Len(r), Says(r[i], p),
                 \A j \in i + 1 .. Len(r) : ~Concerns(r[j], p)
          PROVE  Believed(q, on, p)
      <4>1. i # Len(q) + 1
        BY <1>0, <1>1, <1>3, <3>2
      <4>2. i \in 1 .. Len(q)
        BY <4>1, <1>1
      <4>3. \A j \in i + 1 .. Len(q) : j \in i + 1 .. Len(r) /\ r[j] = q[j]
        BY <4>2, <1>1
      <4> QED BY <4>2, <4>3, <3>2, <1>1 DEF Believed
    <3> QED BY <2>1, <3>1, <3>2 DEF Believed
  <2>2. ASSUME Believed(q, on, p) PROVE Believed(r, on, p)
    <3>1. CASE p \in on /\ \A i \in 1 .. Len(q) : ~Concerns(q[i], p)
      <4>1. \A i \in 1 .. Len(r) : i \in 1 .. Len(q) \/ i = Len(q) + 1
        BY <1>1
      <4> QED BY <4>1, <3>1, <1>1, <1>3 DEF Believed
    <3>2. ASSUME NEW i \in 1 .. Len(q), Says(q[i], p),
                 \A j \in i + 1 .. Len(q) : ~Concerns(q[j], p)
          PROVE  Believed(r, on, p)
      <4>1. i \in 1 .. Len(r) /\ Says(r[i], p)
        BY <1>1, <3>2
      <4>2. \A j \in i + 1 .. Len(r) : j = Len(q) + 1 \/ (j \in i + 1 .. Len(q) /\ r[j] = q[j])
        BY <1>1
      <4>3. \A j \in i + 1 .. Len(r) : ~Concerns(r[j], p)
        BY <4>2, <3>2, <1>1, <1>3
      <4> QED BY <4>1, <4>3 DEF Believed
    <3> QED BY <2>2, <3>1, <3>2 DEF Believed
  <2> QED BY <1>3, <2>1, <2>2 DEF r
<1> QED BY <1>2, <1>3

\* Working off the first message changes nothing about that.
LEMMA TailBelieved ==
  ASSUME NEW S, NEW q \in Seq(S), q # <<>>, NEW on, NEW next, NEW p,
         p \in next <=> IF Concerns(Head(q), p) THEN Says(Head(q), p) ELSE p \in on
  PROVE  Believed(Tail(q), next, p) <=> Believed(q, on, p)
<1> DEFINE r == Tail(q)
           h == Head(q)
<1>1. /\ Len(q) \in Nat \ {0} /\ Len(r) = Len(q) - 1 /\ q[1] = h
      /\ \A i \in 1 .. Len(q) - 1 : r[i] = q[i + 1]
  OBVIOUS
<1> HIDE DEF r, h
<1>0. p \in next <=> IF Concerns(h, p) THEN Says(h, p) ELSE p \in on
  BY DEF h
<1>2. /\ \A i \in 1 .. Len(r) : i + 1 \in 1 .. Len(q) /\ r[i] = q[i + 1]
      /\ \A i \in 1 .. Len(q) : i = 1 \/ (i - 1 \in 1 .. Len(r) /\ r[i - 1] = q[i])
  BY <1>1
<1>3. ASSUME Believed(r, next, p) PROVE Believed(q, on, p)
  <2>1. ASSUME NEW i \in 1 .. Len(r), Says(r[i], p),
               \A j \in i + 1 .. Len(r) : ~Concerns(r[j], p)
        PROVE  Believed(q, on, p)
    <3>1. i + 1 \in 1 .. Len(q) /\ Says(q[i + 1], p)
      BY <1>2, <2>1
    <3>2. ASSUME NEW j \in (i + 1) + 1 .. Len(q) PROVE ~Concerns(q[j], p)
      <4>1. j - 1 \in i + 1 .. Len(r) /\ r[j - 1] = q[j]
        BY <1>1, <1>2, <3>1
      <4> QED BY <4>1, <2>1
    <3> QED BY <3>1, <3>2 DEF Believed
  <2>2. CASE p \in next /\ \A i \in 1 .. Len(r) : ~Concerns(r[i], p)
    <3>1. CASE Concerns(h, p)
      <4>1. Says(q[1], p) /\ 1 \in 1 .. Len(q)
        BY <1>0, <1>1, <2>2, <3>1
      <4>2. ASSUME NEW j \in 1 + 1 .. Len(q) PROVE ~Concerns(q[j], p)
        <5>1. j - 1 \in 1 .. Len(r) /\ r[j - 1] = q[j]
          BY <1>1, <1>2
        <5> QED BY <5>1, <2>2
      <4> QED BY <4>1, <4>2 DEF Believed
    <3>2. CASE ~Concerns(h, p)
      <4>1. \A i \in 1 .. Len(q) : ~Concerns(q[i], p)
        BY <1>1, <1>2, <2>2, <3>2
      <4> QED BY <4>1, <1>0, <2>2, <3>2 DEF Believed
    <3> QED BY <3>1, <3>2
  <2> QED BY <1>3, <2>1, <2>2 DEF Believed
<1>4. ASSUME Believed(q, on, p) PROVE Believed(r, next, p)
  <2>1. ASSUME NEW i \in 1 .. Len(q), Says(q[i], p),
               \A j \in i + 1 .. Len(q) : ~Concerns(q[j], p)
        PROVE  Believed(r, next, p)
    <3>1. CASE i = 1
      <4>1. \A j \in 1 .. Len(r) : ~Concerns(r[j], p)
        <5>1. ASSUME NEW j \in 1 .. Len(r) PROVE ~Concerns(r[j], p)
          <6>1. j + 1 \in i + 1 .. Len(q) /\ r[j] = q[j + 1]
            BY <1>1, <1>2, <3>1
          <6> QED BY <6>1, <2>1
        <5> QED BY <5>1
      <4>2. Says(h, p) /\ Concerns(h, p)
        BY <1>1, <2>1, <3>1 DEF Says, Concerns
      <4> QED BY <4>1, <4>2, <1>0 DEF Believed
    <3>2. CASE i # 1
      <4>1. i - 1 \in 1 .. Len(r) /\ Says(r[i - 1], p)
        BY <1>2, <2>1, <3>2
      <4>2. ASSUME NEW j \in (i - 1) + 1 .. Len(r) PROVE ~Concerns(r[j], p)
        <5>1. j + 1 \in i + 1 .. Len(q) /\ r[j] = q[j + 1]
          BY <1>1, <1>2, <4>1
        <5> QED BY <5>1, <2>1
      <4> QED BY <4>1, <4>2 DEF Believed
    <3> QED BY <3>1, <3>2
  <2>2. CASE p \in on /\ \A i \in 1 .. Len(q) : ~Concerns(q[i], p)
    <3>1. ~Concerns(h, p)
      BY <1>1, <2>2
    <3>2. \A i \in 1 .. Len(r) : ~Concerns(r[i], p)
      BY <1>2, <2>2
    <3> QED BY <3>1, <3>2, <1>0, <2>2 DEF Believed
  <2> QED BY <1>4, <2>1, <2>2 DEF Believed
<1> QED BY <1>3, <1>4 DEF r

Ours == Phones \cap Pids
OurMessage == [who : SUBSET Ours, kind : {"all", "online", "offline"}]

\* The daemon hears of our phones only.
OnlyOurs == inbox \in Seq(OurMessage) /\ online \subseteq Ours
\* A connection that Railway pushes to is one it has accepted.
HeardIsOpen == daemonWs # None => conn[daemonWs] \in {"loop", "walking"}
\* What the daemon will believe is what Railway lists, but for a phone whose handler is about
\* to say that it left.
Settling ==
  daemonWs # None /\ daemonWs = link =>
    \A p \in Ours :
      /\ participants[p] # None => Believed(inbox, online, p)
      /\ participants[p] = None /\ Believed(inbox, online, p)
           => \E s \in Sockets : sock[s].pid = p /\ sock[s].ph = "closing"

PresenceInv == OnlyOurs /\ HeardIsOpen /\ Settling

\* The push of the roster tells the daemon exactly who is there.
LEMMA StatePushOurs ==
  ASSUME NEW mail \in Seq(OurMessage)
  PROVE  /\ StatePush(mail) \in Seq(OurMessage)
         /\ \A p \in Ours : \A on : Believed(StatePush(mail), on, p) <=> participants[p] # None
<1> DEFINE m == [who |-> {p \in Phones \cap Pids : participants[p] # None}, kind |-> "all"]
<1>1. m \in OurMessage
  BY DEF OurMessage, Ours
<1>2. StatePush(mail) \in Seq(OurMessage)
  BY <1>1, AppendFacts DEF StatePush
<1>3. ASSUME NEW p \in Ours, NEW on PROVE Believed(StatePush(mail), on, p) <=> participants[p] # None
  <2>1. Concerns(m, p) /\ (Says(m, p) <=> participants[p] # None)
    BY DEF Concerns, Says, Ours
  <2> HIDE DEF m
  <2>2. Believed(Append(mail, m), on, p) <=> Says(m, p)
    BY <1>1, <2>1, AppendBelieved
  <2> QED BY <2>1, <2>2 DEF StatePush, m
<1> QED BY <1>2, <1>3

\* Steps that neither send nor list, and end no handler.
LEMMA PresenceKept ==
  ASSUME PresenceInv, UNCHANGED <<daemonWs, conn, link, inbox, online>>,
         \A p \in Ours : participants'[p] = participants[p],
         \A t \in Sockets : sock[t].ph = "closing" =>
                              sock'[t].ph = "closing" /\ sock'[t].pid = sock[t].pid
  PROVE  PresenceInv'
<1>1. OnlyOurs' /\ HeardIsOpen'
  BY DEF PresenceInv, OnlyOurs, HeardIsOpen
<1>2. ASSUME daemonWs # None, daemonWs = link, NEW p \in Ours
      PROVE  /\ participants'[p] # None => Believed(inbox, online, p)
             /\ participants'[p] = None /\ Believed(inbox, online, p)
                  => \E s \in Sockets : sock'[s].pid = p /\ sock'[s].ph = "closing"
  BY <1>2 DEF PresenceInv, Settling
<1>3. Settling'
  BY <1>2 DEF Settling
<1> QED BY <1>1, <1>3 DEF PresenceInv

\* A step that tells the daemon of one phone, or would if it could.
LEMMA PresencePushed ==
  ASSUME GatewayAssumption, PresenceInv, UNCHANGED <<daemonWs, conn, link, online>>,
         NEW p \in Ours, NEW b \in BOOLEAN, Push(Presence(p, b)),
         participants'[p] # None <=> b,
         \A q \in Ours \ {p} : participants'[q] = participants[q],
         \A t \in Sockets : sock[t].ph = "closing" /\ sock[t].pid # p =>
                              sock'[t].ph = "closing" /\ sock'[t].pid = sock[t].pid
  PROVE  PresenceInv'
<1> DEFINE m == Presence(p, b)
<1>1. m \in OurMessage
  BY DEF Presence, OurMessage
<1>2. /\ Concerns(m, p) /\ (Says(m, p) <=> b)
      /\ \A q \in Ours \ {p} : ~Concerns(m, q)
  BY DEF Presence, Concerns, Says
<1>3. inbox \in Seq(OurMessage) /\ online \subseteq Ours
  BY DEF PresenceInv, OnlyOurs
<1>4. inbox' = IF daemonWs # None /\ daemonWs = link THEN Append(inbox, m) ELSE inbox
  BY DEF Push
<1> HIDE DEF m
<1>5. OnlyOurs' /\ HeardIsOpen'
  BY <1>1, <1>3, <1>4, AppendFacts DEF OnlyOurs, HeardIsOpen, PresenceInv
<1>6. ASSUME daemonWs # None, daemonWs = link, NEW q \in Ours
      PROVE  /\ participants'[q] # None => Believed(inbox', online, q)
             /\ participants'[q] = None /\ Believed(inbox', online, q)
                  => \E s \in Sockets : sock'[s].pid = q /\ sock'[s].ph = "closing"
  <2>1. Believed(inbox', online, q) <=> IF Concerns(m, q) THEN Says(m, q)
                                        ELSE Believed(inbox, online, q)
    BY <1>1, <1>3, <1>4, <1>6, AppendBelieved
  <2>2. CASE q = p
    BY <2>1, <2>2, <1>2
  <2>3. CASE q # p
    BY <2>1, <2>3, <1>2, <1>6 DEF PresenceInv, Settling
  <2> QED BY <2>2, <2>3
<1>7. Settling'
  BY <1>6 DEF Settling
<1> QED BY <1>5, <1>7 DEF PresenceInv

\* A phone that comes or goes leaves a message that makes up for it.
LEMMA ClientStepPresence ==
  ASSUME GatewayAssumption, TypeOK, ListedInv, PresenceInv, NEW s \in Sockets, ClientStep(s)
  PROVE  PresenceInv'
<1>0. /\ participants \in [Pids -> Sockets \cup {None}] /\ sock \in [Sockets -> Handler]
      /\ None \notin Sockets /\ Host \notin Phones
  BY TypeParts DEF ClientsTypeOK, GatewayAssumption
<1>1. UNCHANGED <<daemonWs, conn, link, online>>
  BY ClientStepFrame DEF ClientFrame
<1>2. ASSUME NEW p \in Pids, NEW x \in Sessions, Refused(s, p, x) PROVE PresenceInv'
  <2>1. /\ inbox' = inbox /\ participants' = participants /\ sock[s].ph = "free"
        /\ \A t \in Sockets \ {s} : sock'[t] = sock[t]
    BY <1>0, <1>2 DEF Refused, daemonVars
  <2> QED BY <2>1, <1>1, PresenceKept
<1>3. ASSUME NEW p \in Pids, NEW x \in Sessions, PhoneConnect(s, p, x) PROVE PresenceInv'
  <2>1. /\ p \in Phones /\ participants' = [participants EXCEPT ![p] = s]
        /\ sock[s].ph = "free" /\ Push(Presence(p, TRUE))
        /\ sock' = [sock EXCEPT ![s] = [pid |-> p, sess |-> x, ph |-> "live", old |-> None]]
    BY <1>3 DEF PhoneConnect
  <2>2. \A t \in Sockets : sock[t].ph = "closing" => sock'[t] = sock[t]
    BY <2>1, <1>0
  <2>3. p \in Ours /\ participants'[p] # None
    BY <2>1, <1>0 DEF Ours
  <2>4. \A q \in Ours \ {p} : participants'[q] = participants[q]
    BY <2>1, <1>0 DEF Ours
  <2> QED BY <2>1, <2>2, <2>3, <2>4, <1>1, PresencePushed
<1>4. ASSUME NEW x \in Sessions, HostConnect(s, x) PROVE PresenceInv'
  <2>1. /\ Host \in Pids /\ sock[s].ph = "free" /\ inbox' = inbox
        /\ participants' = participants \/ participants' = [participants EXCEPT ![Host] = s]
    BY <1>4 DEF HostConnect, daemonVars
  <2>2. \A t \in Sockets : sock[t].ph = "closing" =>
                           sock'[t].ph = "closing" /\ sock'[t].pid = sock[t].pid
    <3>1. CASE participants[Host] = None
      BY <3>1, <2>1, <1>0, <1>4 DEF HostConnect
    <3>2. CASE participants[Host] # None
      <4>1. participants[Host] \in Sockets
        BY <3>2, <2>1, <1>0
      <4> DEFINE closed == Closed(sock, participants[Host])
      <4>2. /\ closed \in [Sockets -> Handler]
            /\ \A t \in Sockets : sock[t].ph = "closing" =>
                                   closed[t].ph = "closing" /\ closed[t].pid = sock[t].pid
        BY <4>1, <1>0, ClosedFacts
      <4>3. sock' = [closed EXCEPT ![s] = [pid |-> Host, sess |-> x, old |-> participants[Host],
                                           ph |-> "kicking"]]
        BY <3>2, <1>4 DEF HostConnect
      <4> HIDE DEF closed
      <4> QED BY <4>2, <4>3, <2>1
    <3> QED BY <3>1, <3>2
  <2>3. \A q \in Ours : participants'[q] = participants[q]
    BY <2>1, <1>0 DEF Ours
  <2> QED BY <2>1, <2>2, <2>3, <1>1, PresenceKept
<1>5. ASSUME HostListed(s) PROVE PresenceInv'
  <2>1. inbox' = inbox /\ \A q \in Ours : participants'[q] = participants[q]
    BY <1>0, <1>5 DEF HostListed, daemonVars, Ours
  <2>2. \A t \in Sockets : sock[t].ph = "closing" => sock'[t] = sock[t]
    BY <1>0, <1>5 DEF HostListed
  <2> QED BY <2>1, <2>2, <1>1, PresenceKept
<1>6. ASSUME PeerGone(s) \/ Stall(s) PROVE PresenceInv'
  <2>1. inbox' = inbox /\ participants' = participants
    BY <1>6 DEF PeerGone, Stall, daemonVars
  <2>2. \A t \in Sockets : sock[t].ph = "closing" => sock'[t] = sock[t]
    BY <1>0, <1>6 DEF PeerGone, Stall
  <2> QED BY <2>1, <2>2, <1>1, PresenceKept
<1>7. ASSUME Recycle(s) PROVE PresenceInv'
  <2>1. inbox' = inbox /\ participants' = participants
    BY <1>7 DEF Recycle, daemonVars
  <2>2. \A t \in Sockets : sock[t].ph = "closing" => sock'[t] = sock[t]
    BY <1>0, <1>7 DEF Recycle
  <2> QED BY <2>1, <2>2, <1>1, PresenceKept
<1>8. ASSUME Drop(s) PROVE PresenceInv'
  <2>1. /\ sock[s].ph = "stalled" /\ sock' = Closed(sock, s) /\ inbox' = inbox
        /\ participants' = IF participants[sock[s].pid] = s
                           THEN [participants EXCEPT ![sock[s].pid] = None] ELSE participants
    BY <1>8 DEF Drop, daemonVars
  <2>2. \A t \in Sockets : sock[t].ph = "closing" =>
                           sock'[t].ph = "closing" /\ sock'[t].pid = sock[t].pid
    BY <2>1, <1>0, ClosedFacts
  <2>3. sock'[s].ph = "closing" /\ sock'[s].pid = sock[s].pid
    BY <2>1, <1>0 DEF Closed, Handler
  <2>4. ASSUME daemonWs # None, daemonWs = link, NEW q \in Ours
        PROVE  /\ participants'[q] # None => Believed(inbox, online, q)
               /\ participants'[q] = None /\ Believed(inbox, online, q)
                    => \E t \in Sockets : sock'[t].pid = q /\ sock'[t].ph = "closing"
    <3>1. CASE participants'[q] = participants[q]
      BY <3>1, <2>2, <2>4 DEF PresenceInv, Settling
    <3>2. CASE participants'[q] # participants[q]
      <4>1. q = sock[s].pid /\ participants'[q] = None
        BY <3>2, <2>1, <1>0 DEF Ours
      <4> QED BY <4>1, <2>3
    <3> QED BY <3>1, <3>2
  <2>5. Settling'
    BY <2>1, <2>4, <1>1 DEF Settling
  <2>6. OnlyOurs' /\ HeardIsOpen'
    BY <2>1, <1>1 DEF PresenceInv, OnlyOurs, HeardIsOpen
  <2> QED BY <2>5, <2>6 DEF PresenceInv
<1>9. ASSUME HandlerExit(s) PROVE PresenceInv'
  <2> DEFINE p == sock[s].pid
  <2>1. /\ sock[s].ph = "closing" /\ sock' = [sock EXCEPT ![s].ph = "done"]
        /\ participants' = IF participants[p] = s
                           THEN [participants EXCEPT ![p] = None] ELSE participants
        /\ IF p \in Phones /\ participants'[p] = None
           THEN Push(Presence(p, FALSE)) ELSE UNCHANGED inbox
    BY <1>9 DEF HandlerExit
  <2>2. p \in Pids
    BY <2>1 DEF ListedInv, RunningHasPid
  <2>3. \A t \in Sockets : sock[t].ph = "closing" /\ sock[t].pid # p =>
                           sock'[t].ph = "closing" /\ sock'[t].pid = sock[t].pid
    BY <2>1, <1>0
  <2>4. \A q \in Ours \ {p} : participants'[q] = participants[q]
    BY <2>1, <1>0 DEF Ours
  <2> HIDE DEF p
  <2>5. CASE p \in Phones /\ participants'[p] = None
    BY <2>1, <2>2, <2>3, <2>4, <2>5, <1>1, PresencePushed DEF Ours
  <2>6. CASE ~(p \in Phones /\ participants'[p] = None)
    <3>1. inbox' = inbox
      BY <2>1, <2>6
    <3>2. \A q \in Ours : participants'[q] = participants[q]
      BY <2>1, <2>2, <2>4, <2>6, <1>0 DEF Ours
    <3>3. p \in Ours => participants'[p] # None
      BY <2>6 DEF Ours
    <3>4. ASSUME daemonWs # None, daemonWs = link, NEW q \in Ours
          PROVE  /\ participants'[q] # None => Believed(inbox, online, q)
                 /\ participants'[q] = None /\ Believed(inbox, online, q)
                      => \E t \in Sockets : sock'[t].pid = q /\ sock'[t].ph = "closing"
      <4>1. participants'[q] = participants[q]
        BY <3>2
      <4>2. participants[q] # None => Believed(inbox, online, q)
        BY <3>4 DEF PresenceInv, Settling
      <4>3. ASSUME participants[q] = None, Believed(inbox, online, q)
            PROVE  \E t \in Sockets : sock'[t].pid = q /\ sock'[t].ph = "closing"
        <5>1. q # p
          BY <3>3, <4>1, <4>3
        <5>2. PICK t \in Sockets : sock[t].pid = q /\ sock[t].ph = "closing"
          BY <3>4, <4>3 DEF PresenceInv, Settling
        <5> QED BY <5>1, <5>2, <2>3
      <4> QED BY <4>1, <4>2, <4>3
    <3>5. Settling'
      BY <3>1, <3>4, <1>1 DEF Settling
    <3>6. OnlyOurs' /\ HeardIsOpen'
      BY <3>1, <1>1 DEF PresenceInv, OnlyOurs, HeardIsOpen
    <3> QED BY <3>5, <3>6 DEF PresenceInv
  <2> QED BY <2>5, <2>6
<1> QED BY <1>2, <1>3, <1>4, <1>5, <1>6, <1>7, <1>8, <1>9 DEF ClientStep

\* Every step keeps what the queue will make the daemon believe equal to the roster.
LEMMA PresenceStep ==
  ASSUME GatewayAssumption, TypeOK, ListedInv, LoopsInv, NoWalk, PresenceInv, [Next]_vars
  PROVE  PresenceInv'
<1>0. LinksTypeOK /\ None \notin Links
  BY TypeParts DEF GatewayAssumption
<1>a. ASSUME UNCHANGED <<daemonWs, conn, link, inbox, online, participants, sock>>
      PROVE  PresenceInv'
  BY <1>a, PresenceKept
<1>b. inbox \in Seq(OurMessage) /\ online \subseteq Ours
  BY DEF PresenceInv, OnlyOurs
<1>1. ASSUME NEW s \in Sockets, ClientStep(s) PROVE PresenceInv'
  BY <1>1, ClientStepPresence
<1>2. ASSUME NEW d \in Links, NEW x \in Sessions \cup {None}, NEW keep \in 0 .. MaxMail,
             DaemonConnect(d, x, keep)
      PROVE  PresenceInv'
  <2> DEFINE mail == SubSeq(inbox, 1, keep)
  <2>0. mail \in Seq(OurMessage)
    <3>1. keep \in 0 .. Len(inbox)
      BY <1>2 DEF DaemonConnect
    <3> QED BY <3>1, <1>b, PrefixFacts
  <2> HIDE DEF mail
  <2>1. conn[d] = "free" /\ link' = d /\ UNCHANGED <<participants, sock, online>>
    BY <1>2 DEF DaemonConnect, railwayVars
  <2>2. CASE daemonWs = None
    <3>1. conn' = [conn EXCEPT ![d] = "loop"] /\ daemonWs' = d /\ inbox' = StatePush(mail)
      BY <1>2, <2>2 DEF DaemonConnect, mail
    <3>2. OnlyOurs'
      BY <2>0, <2>1, <3>1, <1>b, StatePushOurs DEF OnlyOurs
    <3>3. HeardIsOpen'
      BY <3>1, <1>0 DEF HeardIsOpen, LinksTypeOK
    <3>4. \A p \in Ours : Believed(inbox', online, p) <=> participants[p] # None
      BY <2>0, <3>1, StatePushOurs
    <3>5. Settling'
      BY <2>1, <3>4 DEF Settling
    <3> QED BY <3>2, <3>3, <3>5 DEF PresenceInv
  <2>3. CASE daemonWs # None
    <3>1. conn' = [conn EXCEPT ![d] = "kicking"] /\ daemonWs' = daemonWs /\ inbox' = mail
      BY <1>2, <2>3 DEF DaemonConnect, mail
    <3>2. OnlyOurs'
      BY <2>0, <2>1, <3>1, <1>b DEF OnlyOurs
    <3>3. daemonWs # d
      BY <2>1, <2>3 DEF PresenceInv, HeardIsOpen
    <3>4. HeardIsOpen'
      BY <3>1, <3>3, <1>0 DEF HeardIsOpen, LinksTypeOK, PresenceInv
    <3>5. Settling'
      BY <2>1, <3>1, <3>3 DEF Settling
    <3> QED BY <3>2, <3>4, <3>5 DEF PresenceInv
  <2> QED BY <2>2, <2>3
<1>3. ASSUME NEW d \in Links, DaemonInstall(d) PROVE PresenceInv'
  <2>1. /\ daemonWs' = d /\ inbox' = (IF d = link THEN StatePush(inbox) ELSE inbox)
        /\ UNCHANGED <<participants, sock, online, link>>
    BY <1>3 DEF DaemonInstall, railwayVars
  <2>2. conn'[d] = "loop"
    BY <1>3 DEF DaemonInstall
  <2>3. OnlyOurs'
    BY <2>1, <1>b, StatePushOurs DEF OnlyOurs
  <2>4. HeardIsOpen'
    BY <2>1, <2>2 DEF HeardIsOpen
  <2>5. ASSUME d = link, NEW p \in Ours PROVE Believed(inbox', online, p) <=> participants[p] # None
    BY <2>1, <2>5, <1>b, StatePushOurs
  <2>6. Settling'
    BY <2>1, <2>5 DEF Settling
  <2> QED BY <2>3, <2>4, <2>6 DEF PresenceInv
<1>4. ASSUME NEW d \in Links, DaemonExit(d) PROVE PresenceInv'
  <2>1. /\ daemonWs' = (IF daemonWs = d THEN None ELSE daemonWs) /\ conn' = [conn EXCEPT ![d] = "free"]
        /\ UNCHANGED <<participants, sock, online, link, inbox>>
    BY <1>4 DEF DaemonExit, railwayVars
  <2>2. HeardIsOpen'
    BY <2>1, <1>0 DEF HeardIsOpen, LinksTypeOK, PresenceInv
  <2>3. OnlyOurs'
    BY <2>1, <1>b DEF OnlyOurs
  <2>4. Settling'
    BY <2>1 DEF Settling, PresenceInv
  <2> QED BY <2>2, <2>3, <2>4 DEF PresenceInv
<1>5. ASSUME NEW d \in Links, SetSession(d) \/ SwitchDone(d) PROVE PresenceInv'
  <2>1. UNCHANGED <<daemonWs, participants, sock, online, link, inbox>>
    BY <1>5 DEF SetSession, SwitchDone, railwayVars, daemonVars
  <2>2. /\ \A e \in Links : e # d => conn'[e] = conn[e]
        /\ d = daemonWs => conn'[d] \in {"loop", "walking"}
    BY <1>0, <1>5 DEF SetSession, SwitchDone, LinksTypeOK
  <2>3. HeardIsOpen'
    BY <2>1, <2>2, <1>0 DEF HeardIsOpen, LinksTypeOK, PresenceInv
  <2>4. OnlyOurs' /\ Settling'
    BY <2>1 DEF OnlyOurs, Settling, PresenceInv
  <2> QED BY <2>3, <2>4 DEF PresenceInv
<1>6. ASSUME NEW keep \in 0 .. 2, LinkLost(keep) PROVE PresenceInv'
  <2>1. link' = None /\ UNCHANGED <<daemonWs, conn, inbox, online>>
    BY <1>6 DEF LinkLost
  <2> QED BY <2>1 DEF PresenceInv, OnlyOurs, HeardIsOpen, Settling
<1>7. ASSUME DrainPresence PROVE PresenceInv'
  <2> DEFINE m == Head(inbox)
  <2>1. /\ inbox # <<>> /\ inbox' = Tail(inbox)
        /\ UNCHANGED <<daemonWs, conn, link, participants, sock>>
    BY <1>7 DEF DrainPresence, railwayVars
  <2>2. m \in OurMessage /\ Tail(inbox) \in Seq(OurMessage)
    BY <2>1, <1>b, TailFacts
  <2> HIDE DEF m
  <2>3. online' = CASE m.kind = "all"     -> m.who
                    [] m.kind = "online"  -> online \cup m.who
                    [] m.kind = "offline" -> online \ m.who
    BY <1>7 DEF DrainPresence, m
  <2>4. ASSUME NEW p \in Ours
        PROVE  p \in online' <=> IF Concerns(m, p) THEN Says(m, p) ELSE p \in online
    <3>1. CASE m.kind = "all"
      BY <2>3, <3>1 DEF Concerns, Says
    <3>2. CASE m.kind = "online"
      BY <2>3, <3>2 DEF Concerns, Says
    <3>3. CASE m.kind = "offline"
      BY <2>3, <3>3 DEF Concerns, Says
    <3> QED BY <2>2, <3>1, <3>2, <3>3 DEF OurMessage
  <2>5. online' \subseteq Ours
    BY <2>2, <2>3, <1>b DEF OurMessage
  <2>6. ASSUME NEW p \in Ours PROVE Believed(inbox', online', p) <=> Believed(inbox, online, p)
    BY <2>1, <2>4, <1>b, TailBelieved DEF m
  <2>7. OnlyOurs' /\ HeardIsOpen'
    BY <2>1, <2>2, <2>5 DEF OnlyOurs, HeardIsOpen, PresenceInv
  <2>8. Settling'
    BY <2>1, <2>6 DEF Settling, PresenceInv
  <2> QED BY <2>7, <2>8 DEF PresenceInv
<1>8. ASSUME NEW keep \in 0 .. MaxMail, RailwayRestart(keep) PROVE PresenceInv'
  <2>1. /\ daemonWs' = None /\ keep \in 0 .. Len(inbox)
        /\ inbox' = SubSeq(inbox, 1, keep) /\ online' = online
    BY <1>8 DEF RailwayRestart
  <2>2. inbox' \in Seq(OurMessage)
    BY <2>1, <1>b, PrefixFacts
  <2> QED BY <2>1, <2>2, <1>b DEF PresenceInv, OnlyOurs, HeardIsOpen, Settling
<1>9. ASSUME \E w \in Walkers : WalkStep(w) PROVE PresenceInv'
  BY <1>9, NoWalkMeans
<1>10. ASSUME \/ \E x \in Sessions \cup {None} : Announce(x)
              \/ Tick \/ Wake \/ EvictDone
              \/ UNCHANGED vars
       PROVE  PresenceInv'
  BY <1>10, <1>a DEF Announce, Tick, Wake, EvictDone, vars, railwayVars, daemonVars
<1> QED BY <1>1, <1>2, <1>3, <1>4, <1>5, <1>6, <1>7, <1>8, <1>9, <1>10 DEF Next, DaemonStep

\* In one session: whenever nothing is under way the daemon believes online exactly the phones
\* that Railway lists, whatever was lost with a link, left over from the one before it, or
\* cleaned up late.
THEOREM PresenceSettles == OneSession /\ Spec => []PresenceSettled
<1> SUFFICES ASSUME OneSession PROVE Spec => []PresenceSettled
  OBVIOUS
<1>0. BlipsOnly
  BY DEF OneSession
<1>1. Init => TypeOK /\ ListedInv /\ LoopsInv /\ NoWalk /\ PresenceInv
  <2>1. Init => LoopsInv /\ NoWalk
    <3>1. Len(<<>>) = 0
      OBVIOUS
    <3> QED BY <3>1 DEF Init, NoWalks, Silence, LoopsInv, NoEvictor, WalksInTurn, Walkers,
               NoWalk, OneSession
  <2>2. Init => PresenceInv
    BY DEF Init, PresenceInv, OnlyOurs, HeardIsOpen, Settling
  <2> QED BY <2>1, <2>2, TypeInit, GatewayAssumption
<1>2. TypeOK /\ ListedInv /\ LoopsInv /\ NoWalk /\ PresenceInv /\ [Next]_vars
      => TypeOK' /\ ListedInv' /\ LoopsInv' /\ NoWalk' /\ PresenceInv'
  BY <1>0, TypeNext, LoopsStep, NoWalkStep, PresenceStep, GatewayAssumption
<1>3. PresenceInv => PresenceSettled
  <2> SUFFICES ASSUME PresenceInv, inbox = <<>>, daemonWs # None, daemonWs = link,
                      \A s \in Sockets : sock[s].ph # "closing"
               PROVE  online = {p \in Phones \cap Pids : participants[p] # None}
    BY DEF PresenceSettled
  <2>1. \A p : Believed(inbox, online, p) <=> p \in online
    <3>1. Len(<<>>) = 0
      OBVIOUS
    <3> QED BY <3>1 DEF Believed
  <2>2. \A p \in Ours : p \in online <=> participants[p] # None
    BY <2>1 DEF PresenceInv, Settling
  <2> QED BY <2>2 DEF PresenceInv, OnlyOurs, Ours
<1> QED BY <1>1, <1>2, <1>3, PTL DEF Spec
=============================================================================
