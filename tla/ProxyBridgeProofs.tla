-------------------------- MODULE ProxyBridgeProofs --------------------------
(***************************************************************************)
(* Proofs about ProxyBridge: its type invariant, the match of futures and  *)
(* calls, and that every behaviour of the bridge is one of RequestReply.   *)
(***************************************************************************)
EXTENDS ProxyBridge, TLAPS

\* A request is in one place only: on the wire, in the queue, or with its worker.
OnePlace ==
  /\ \A i \in 1 .. Len(down) : call[down[i]] # "new" /\ job[down[i]] = "none"
  /\ \A i, j \in 1 .. Len(down) : i # j => down[i] # down[j]
  /\ \A i \in 1 .. Len(jobs) : job[jobs[i]] = "queued"
  /\ \A i, j \in 1 .. Len(jobs) : i # j => jobs[i] # jobs[j]

\* It reaches the handler at most once, and only when it was called.
ServedOnce ==
  \A r \in Requests :
     /\ job[r] # "none" => call[r] # "new"
     /\ job[r] \in {"none", "queued"} => http[r] = "none"
     /\ http[r] = "served" <=> verdict[r] # NotYet

\* Whatever is on its way back to the caller is an error or its own verdict.
Genuine(r, v) == v # NotYet /\ (v = Broken \/ v = verdict[r])

WorkersGenuine == \A r \in Requests : job[r] \in {"events", "reply"} => Genuine(r, got[r])
WireGenuine    == \A i \in 1 .. Len(up) : up[i].kind = "reply" => Genuine(up[i].of, up[i].result)
CallsGenuine   == \A r \in Requests : call[r] \in {"answered", "ok"} => Genuine(r, future[r])

OwnVerdict == WorkersGenuine /\ WireGenuine /\ CallsGenuine

IInv == TypeOK /\ OnePlace /\ ServedOnce /\ OwnVerdict

----------------------------------------------------------------------------
(* Sequences                                                               *)

\* An element of a sequence is of the type of the sequence.
LEMMA ElementOf ==
  ASSUME NEW S, NEW s \in Seq(S), NEW i \in 1 .. Len(s)
  PROVE  s[i] \in S
OBVIOUS

\* What is left of a sequence after its head.
LEMMA TailFacts ==
  ASSUME NEW S, NEW s \in Seq(S), s # <<>>
  PROVE  /\ Head(s) \in S /\ Head(s) = s[1] /\ Len(s) \in Nat \ {0}
         /\ Tail(s) \in Seq(S) /\ Len(Tail(s)) = Len(s) - 1
         /\ \A i \in 1 .. Len(s) - 1 : Tail(s)[i] = s[i + 1]
OBVIOUS

\* A sequence with one more element.
LEMMA AppendFacts ==
  ASSUME NEW S, NEW s \in Seq(S), NEW e \in S
  PROVE  /\ Append(s, e) \in Seq(S) /\ Len(Append(s, e)) = Len(s) + 1
         /\ \A i \in 1 .. Len(s) : Append(s, e)[i] = s[i]
         /\ Append(s, e)[Len(s) + 1] = e
OBVIOUS

\* A prefix of a sequence.
LEMMA PrefixFacts ==
  ASSUME NEW S, NEW s \in Seq(S), NEW keep \in 0 .. Len(s)
  PROVE  /\ SubSeq(s, 1, keep) \in Seq(S) /\ Len(SubSeq(s, 1, keep)) = keep
         /\ \A i \in 1 .. keep : SubSeq(s, 1, keep)[i] = s[i]
OBVIOUS

----------------------------------------------------------------------------
(* Types                                                                   *)

Message == [kind : {"event", "reply"}, of : Requests, result : Int]

\* What a worker sends keeps the wire well typed.
LEMMA SendType ==
  ASSUME LinkTypeOK, NEW m \in Message, m.kind = "reply" => m.result # NotYet, Send(m)
  PROVE  /\ up' \in Seq(Message)
         /\ \A i \in 1 .. Len(up') : up'[i].kind = "reply" => up'[i].result # NotYet
<1>0. up \in Seq(Message)
  BY DEF LinkTypeOK, Message
<1>1. CASE link /\ daemonWs
  <2>1. up' = Append(up, m)
    BY <1>1 DEF Send
  <2> QED BY <2>1, <1>0, AppendFacts DEF LinkTypeOK
<1>2. CASE ~(link /\ daemonWs)
  <2>1. up' = up
    BY <1>2 DEF Send
  <2> QED BY <2>1, <1>0 DEF LinkTypeOK
<1> QED BY <1>1, <1>2

Budgets == [drops : 0 .. MaxDrops, restarts : 0 .. MaxRestarts, host : 0 .. MaxHostWrites]

\* Spending from a budget leaves a budget.
LEMMA BudgetType ==
  ASSUME NEW b \in Budgets
  PROVE  /\ b.drops > 0 => [b EXCEPT !.drops = @ - 1] \in Budgets
         /\ b.restarts > 0 => [b EXCEPT !.restarts = @ - 1] \in Budgets
         /\ b.host > 0 => [b EXCEPT !.host = @ - 1] \in Budgets
<1>1. MaxDrops \in Nat /\ MaxRestarts \in Nat /\ MaxHostWrites \in Nat
  BY ProxyAssumption DEF ProxyAssumption
<1> QED BY <1>1 DEF Budgets

Unflagged == RailwayTypeOK /\ LinkTypeOK /\ WorkerTypeOK /\ StateTypeOK /\ HistoryTypeOK

\* The steps of the waiting tasks of Railway keep the types.
LEMMA RailwayStepType ==
  ASSUME TypeOK, NEW r \in Requests, RailwayStep(r)
  PROVE  Unflagged'
<1> USE DEF TypeOK, Unflagged, RailwayTypeOK, LinkTypeOK, WorkerTypeOK, StateTypeOK,
            HistoryTypeOK, railwayVars, linkVars, workerVars, stateVars
<1>1. CASE CallUnconnected(r)
  BY <1>1 DEF CallUnconnected
<1>2. CASE Call(r)
  BY <1>2, AppendFacts DEF Call
<1>3. ASSUME NEW left \in BOOLEAN, CallSendFails(r, left) PROVE Unflagged'
  BY <1>3, AppendFacts DEF CallSendFails
<1>4. CASE TimeOut(r)
  BY <1>4 DEF TimeOut
<1>5. CASE Finish(r)
  BY <1>5 DEF Finish
<1> QED BY <1>1, <1>2, <1>3, <1>4, <1>5 DEF RailwayStep

\* The steps of the workers keep the types.
LEMMA WorkerStepType ==
  ASSUME TypeOK, NEW r \in Requests, WorkerStep(r),
         \A q \in Requests : job[q] \in {"events", "reply"} => got[q] # NotYet,
         http[r] = "served" => verdict[r] # NotYet
  PROVE  Unflagged'
<1> USE DEF TypeOK, Unflagged, RailwayTypeOK, LinkTypeOK, WorkerTypeOK, StateTypeOK,
            HistoryTypeOK, railwayVars, linkVars, workerVars, stateVars
<1>1. ASSUME NEW accepts \in BOOLEAN, Handle(r, accepts) PROVE Unflagged'
  <2>1. \/ writes' = writes + 1 /\ verdict' = [verdict EXCEPT ![r] = writes + 1]
        \/ writes' = writes /\ verdict' = [verdict EXCEPT ![r] = Rejected]
    BY <1>1, Zenon DEF Handle
  <2>2. StateTypeOK'
    <3>1. http' \in [Requests -> {"none", "posted", "served"}]
      BY <1>1 DEF Handle
    <3>2. writes' \in Nat /\ verdict' \in [Requests -> {NotYet} \cup Nat]
      <4> HIDE DEF LinkTypeOK, WorkerTypeOK, RailwayTypeOK, HistoryTypeOK
      <4> QED BY <2>1 DEF Rejected
    <3> QED BY <3>1, <3>2
  <2> QED BY <1>1, <2>2 DEF Handle
<1>2. CASE TakeResponse(r)
  BY <1>2 DEF TakeResponse, NotYet
<1>3. CASE SendEvents(r)
  <2>1. Event(r) \in Message /\ Event(r).kind # "reply"
    BY DEF Event, Message, NotYet
  <2>2. /\ up' \in Seq(Message)
        /\ \A i \in 1 .. Len(up') : up'[i].kind = "reply" => up'[i].result # NotYet
    BY <1>3, <2>1, SendType DEF SendEvents
  <2> QED BY <1>3, <2>2 DEF SendEvents, Message
<1>4. CASE SendReply(r)
  <2>1. Reply(r, got[r]) \in Message /\ Reply(r, got[r]).result # NotYet
    BY <1>4 DEF Reply, Message, SendReply
  <2>2. /\ up' \in Seq(Message)
        /\ \A i \in 1 .. Len(up') : up'[i].kind = "reply" => up'[i].result # NotYet
    BY <1>4, <2>1, SendType DEF SendReply
  <2> QED BY <1>4, <2>2 DEF SendReply, Message
<1>5. ASSUME NEW sent \in BOOLEAN, LocalFailure(r, sent) PROVE Unflagged'
  BY <1>5 DEF LocalFailure, Broken
<1> QED BY <1>1, <1>2, <1>3, <1>4, <1>5 DEF WorkerStep

\* The steps of the receive loops, of the pool and of the link keep the types.
LEMMA OtherStepType ==
  ASSUME TypeOK, ProxyAssumption,
         ReceiveEvent \/ ReceiveReply \/ Submit \/ Start \/ HostWrite \/ LinkStep
  PROVE  Unflagged'
<1> USE DEF TypeOK, Unflagged, RailwayTypeOK, LinkTypeOK, WorkerTypeOK, StateTypeOK,
            HistoryTypeOK, railwayVars, linkVars, workerVars, stateVars
<1>0. up \in Seq(Message)
  BY DEF Message
<1>1. CASE ReceiveEvent
  <2>1. Head(up) \in Message /\ Tail(up) \in Seq(Message) /\ Len(Tail(up)) = Len(up) - 1
        /\ Len(up) \in Nat \ {0} /\ \A i \in 1 .. Len(up) - 1 : Tail(up)[i] = up[i + 1]
    BY <1>0, <1>1, TailFacts DEF ReceiveEvent
  <2>2. LinkTypeOK'
    BY <1>1, <2>1 DEF ReceiveEvent, Message
  <2>3. HistoryTypeOK'
    BY <1>1, <2>1 DEF ReceiveEvent, Message
  <2> QED BY <1>1, <2>2, <2>3 DEF ReceiveEvent
<1>2. CASE ReceiveReply
  <2>1. Head(up) \in Message /\ Tail(up) \in Seq(Message) /\ Len(Tail(up)) = Len(up) - 1
        /\ Len(up) \in Nat \ {0} /\ \A i \in 1 .. Len(up) - 1 : Tail(up)[i] = up[i + 1]
    BY <1>0, <1>2, TailFacts DEF ReceiveReply
  <2>2. LinkTypeOK'
    BY <1>2, <2>1 DEF ReceiveReply, Message
  <2>3. RailwayTypeOK'
    <3>1. Head(up).of \in Requests /\ Head(up).result \in Int
      BY <2>1 DEF Message
    <3>2. /\ \/ /\ call' = [call EXCEPT ![Head(up).of] = "answered"]
                /\ future' = [future EXCEPT ![Head(up).of] = Head(up).result]
             \/ call' = call /\ future' = future
          /\ pending' = pending
      BY <1>2 DEF ReceiveReply
    <3> QED BY <3>1, <3>2
  <2> QED BY <1>2, <2>2, <2>3 DEF ReceiveReply
<1>3. CASE Submit
  BY <1>3, TailFacts, AppendFacts DEF Submit
<1>4. CASE Start
  BY <1>4, TailFacts DEF Start
<1>5. CASE HostWrite
  <2>1. HistoryTypeOK'
    BY <1>5, BudgetType DEF HostWrite, Budgets
  <2>2. StateTypeOK'
    BY <1>5 DEF HostWrite
  <2> QED BY <1>5, <2>1, <2>2 DEF HostWrite
<1>6. CASE Connect
  BY <1>6 DEF Connect
<1>7. CASE NoticeLoss
  BY <1>7 DEF NoticeLoss, InProgress
<1>8. CASE RailwayRestart
  <2>1. HistoryTypeOK'
    BY <1>8, BudgetType DEF RailwayRestart, InProgress, Budgets
  <2>2. RailwayTypeOK' /\ LinkTypeOK'
    BY <1>8 DEF RailwayRestart
  <2> QED BY <1>8, <2>1, <2>2 DEF RailwayRestart
<1>9. ASSUME NEW keep \in 0 .. Len(up), DaemonLosesLink(keep) PROVE Unflagged'
  <2>1. SubSeq(up, 1, keep) \in Seq(Message) /\ Len(SubSeq(up, 1, keep)) = keep
        /\ \A i \in 1 .. keep : SubSeq(up, 1, keep)[i] = up[i]
    BY <1>0, PrefixFacts
  <2>2. HistoryTypeOK'
    BY <1>9, BudgetType DEF DaemonLosesLink, InProgress, Budgets
  <2>3. LinkTypeOK'
    <3>1. down' = <<>> /\ up' = SubSeq(up, 1, keep)
      BY <1>9 DEF DaemonLosesLink
    <3>2. down' \in Seq(Requests)
      BY <3>1
    <3>3. up' \in Seq(Message) /\ Len(up') = keep
      BY <2>1, <3>1
    <3>4. Len(up) \in Nat
      BY <1>0
    <3>5. \A i \in 1 .. Len(up') : up'[i].kind = "reply" => up'[i].result # NotYet
      BY <2>1, <3>1, <3>3, <3>4
    <3> QED BY <3>2, <3>3, <3>5 DEF Message
  <2> QED BY <1>9, <2>2, <2>3 DEF DaemonLosesLink
<1>10. ASSUME NEW keep \in 0 .. Len(down), RailwayLosesLink(keep) PROVE Unflagged'
  <2>1. SubSeq(down, 1, keep) \in Seq(Requests) /\ Len(SubSeq(down, 1, keep)) = keep
        /\ \A i \in 1 .. keep : SubSeq(down, 1, keep)[i] = down[i]
    <3>1. down \in Seq(Requests) /\ keep \in 0 .. Len(down)
      BY <1>0
    <3> QED BY <3>1, PrefixFacts, SMTT(30)
  <2>2. HistoryTypeOK'
    BY <1>10, BudgetType DEF RailwayLosesLink, InProgress, Budgets
  <2>3. LinkTypeOK'
    BY <1>10, <2>1 DEF RailwayLosesLink, Message
  <2> QED BY <1>10, <2>2, <2>3 DEF RailwayLosesLink
<1> QED BY <1>1, <1>2, <1>3, <1>4, <1>5, <1>6, <1>7, <1>8, <1>9, <1>10 DEF LinkStep

\* The two flags stay Boolean.
LEMMA FlagsType == TypeOK /\ [Next]_vars => FlagsTypeOK'
<1> SUFFICES ASSUME TypeOK, [Next]_vars PROVE FlagsTypeOK'
  OBVIOUS
<1> USE DEF TypeOK, FlagsTypeOK, linkVars
<1>1. ASSUME NEW r \in Requests, RailwayStep(r) PROVE FlagsTypeOK'
  BY <1>1, Zenon DEF RailwayStep, CallUnconnected, Call, CallSendFails, TimeOut, Finish
<1>2. ASSUME NEW r \in Requests, WorkerStep(r) PROVE FlagsTypeOK'
  BY <1>2, Zenon DEF WorkerStep, Handle, TakeResponse, SendEvents, SendReply, LocalFailure
<1>3. CASE ReceiveEvent \/ ReceiveReply \/ Submit \/ Start \/ HostWrite
  BY <1>3, Zenon DEF ReceiveEvent, ReceiveReply, Submit, Start, HostWrite
<1>4. CASE LinkStep
  BY <1>4, Zenon DEF LinkStep, Connect, NoticeLoss, RailwayRestart, DaemonLosesLink,
                     RailwayLosesLink
<1>5. CASE UNCHANGED vars
  BY <1>5 DEF vars
<1> QED BY <1>1, <1>2, <1>3, <1>4, <1>5 DEF Next

----------------------------------------------------------------------------
(* The inductive invariant                                                 *)

\* A call never becomes new again.
LEMMA CallsStay ==
  ASSUME TypeOK, [Next]_vars, NEW q \in Requests, call[q] # "new"
  PROVE  call'[q] # "new"
<1> USE DEF TypeOK, RailwayTypeOK, LinkTypeOK, railwayVars
<1>1. ASSUME NEW r \in Requests, RailwayStep(r) PROVE call'[q] # "new"
  BY <1>1 DEF RailwayStep, CallUnconnected, Call, CallSendFails, TimeOut, Finish
<1>2. ASSUME NEW r \in Requests, WorkerStep(r) PROVE call'[q] # "new"
  BY <1>2 DEF WorkerStep, Handle, TakeResponse, SendEvents, SendReply, LocalFailure
<1>3. CASE ReceiveReply
  BY <1>3 DEF ReceiveReply
<1>4. CASE ReceiveEvent \/ Submit \/ Start \/ HostWrite
  BY <1>4 DEF ReceiveEvent, Submit, Start, HostWrite
<1>5. CASE LinkStep
  BY <1>5 DEF LinkStep, Connect, NoticeLoss, RailwayRestart, DaemonLosesLink, RailwayLosesLink
<1>6. CASE UNCHANGED vars
  BY <1>6 DEF vars
<1> QED BY <1>1, <1>2, <1>3, <1>4, <1>5, <1>6 DEF Next

\* What the handler decided stands.
LEMMA VerdictStays ==
  ASSUME TypeOK, ServedOnce, [Next]_vars, NEW q \in Requests, verdict[q] # NotYet
  PROVE  verdict'[q] = verdict[q]
<1> USE DEF TypeOK, StateTypeOK, stateVars
<1>1. ASSUME NEW r \in Requests, RailwayStep(r) PROVE verdict' = verdict
  BY <1>1 DEF RailwayStep, CallUnconnected, Call, CallSendFails, TimeOut, Finish
<1>2. ASSUME NEW r \in Requests, NEW accepts \in BOOLEAN, Handle(r, accepts)
      PROVE  verdict'[q] = verdict[q]
  <2>1. r # q
    BY <1>2 DEF Handle, ServedOnce
  <2>2. \/ verdict' = [verdict EXCEPT ![r] = writes + 1]
        \/ verdict' = [verdict EXCEPT ![r] = Rejected]
    BY <1>2, Zenon DEF Handle
  <2> QED BY <2>1, <2>2
<1>3. ASSUME NEW r \in Requests,
             \/ TakeResponse(r) \/ SendEvents(r) \/ SendReply(r)
             \/ \E sent \in BOOLEAN : LocalFailure(r, sent)
      PROVE  verdict' = verdict
  BY <1>3 DEF TakeResponse, SendEvents, SendReply, LocalFailure
<1>4. CASE ReceiveReply \/ ReceiveEvent \/ Submit \/ Start \/ HostWrite
  BY <1>4 DEF ReceiveReply, ReceiveEvent, Submit, Start, HostWrite
<1>5. CASE LinkStep
  BY <1>5 DEF LinkStep, Connect, NoticeLoss, RailwayRestart, DaemonLosesLink, RailwayLosesLink
<1>6. CASE UNCHANGED vars
  BY <1>6 DEF vars
<1> QED BY <1>1, <1>2, <1>3, <1>4, <1>5, <1>6 DEF Next, WorkerStep

\* No step makes a request reach the handler twice.
LEMMA ServedOnceStep ==
  ASSUME IInv, [Next]_vars
  PROVE  ServedOnce'
<1> USE DEF IInv, TypeOK, StateTypeOK, WorkerTypeOK
<1>0. ASSUME NEW q \in Requests, call[q] # "new" PROVE call'[q] # "new"
  BY <1>0, CallsStay
<1>1. ASSUME NEW r \in Requests, RailwayStep(r) PROVE UNCHANGED <<job, http, verdict>>
  BY <1>1 DEF RailwayStep, CallUnconnected, Call, CallSendFails, TimeOut, Finish,
              workerVars, stateVars
<1>2. ASSUME NEW r \in Requests, NEW accepts \in BOOLEAN, Handle(r, accepts)
      PROVE  ServedOnce'
  <2>1. \/ verdict' = [verdict EXCEPT ![r] = writes + 1]
        \/ verdict' = [verdict EXCEPT ![r] = Rejected]
    BY <1>2, Zenon DEF Handle
  <2>2. verdict'[r] # NotYet /\ \A q \in Requests \ {r} : verdict'[q] = verdict[q]
    BY <2>1 DEF NotYet, Rejected
  <2>3. UNCHANGED <<job, call>> /\ http[r] = "posted" /\ http' = [http EXCEPT ![r] = "served"]
    BY <1>2 DEF Handle, workerVars, railwayVars
  <2> QED BY <2>2, <2>3 DEF ServedOnce
<1>3. ASSUME NEW r \in Requests, TakeResponse(r) \/ SendEvents(r) \/ SendReply(r)
      PROVE  ServedOnce'
  <2>1. UNCHANGED <<http, verdict, call>> /\ job[r] \in {"calling", "events", "reply"}
        /\ \E j \in {"events", "reply", "done"} : job' = [job EXCEPT ![r] = j]
    BY <1>3 DEF TakeResponse, SendEvents, SendReply, stateVars, railwayVars
  <2> QED BY <2>1 DEF ServedOnce
<1>4. ASSUME NEW r \in Requests, NEW sent \in BOOLEAN, LocalFailure(r, sent)
      PROVE  ServedOnce'
  <2>1. \/ http' = http
        \/ http[r] = "posted" /\ http' = [http EXCEPT ![r] = "none"]
    BY <1>4, Zenon DEF LocalFailure
  <2>2. UNCHANGED <<verdict, call>> /\ job[r] = "calling" /\ job' = [job EXCEPT ![r] = "reply"]
    BY <1>4 DEF LocalFailure, railwayVars
  <2> QED BY <2>1, <2>2 DEF ServedOnce
<1>5. CASE Submit
  <2>1. Head(down) \in Requests /\ call[Head(down)] # "new" /\ job[Head(down)] = "none"
    BY <1>5, TailFacts DEF Submit, OnePlace, LinkTypeOK
  <2>2. UNCHANGED <<http, verdict, call>> /\ job' = [job EXCEPT ![Head(down)] = "queued"]
    BY <1>5 DEF Submit, stateVars, railwayVars
  <2> QED BY <2>1, <2>2 DEF ServedOnce
<1>6. CASE Start
  <2>1. Head(jobs) \in Requests /\ job[Head(jobs)] = "queued"
    BY <1>6, TailFacts DEF Start, OnePlace
  <2>2. /\ UNCHANGED <<verdict, call>> /\ job' = [job EXCEPT ![Head(jobs)] = "calling"]
        /\ http' = [http EXCEPT ![Head(jobs)] = "posted"]
    BY <1>6 DEF Start, railwayVars
  <2> QED BY <2>1, <2>2 DEF ServedOnce
<1>7. CASE ReceiveEvent \/ ReceiveReply \/ HostWrite
  <2>1. UNCHANGED <<job, http, verdict>>
    BY <1>7 DEF ReceiveEvent, ReceiveReply, HostWrite, workerVars, stateVars
  <2> QED BY <2>1, <1>0 DEF ServedOnce
<1>8. CASE LinkStep
  <2>1. UNCHANGED <<job, http, verdict>>
    BY <1>8 DEF LinkStep, Connect, NoticeLoss, RailwayRestart, DaemonLosesLink,
                RailwayLosesLink, workerVars, stateVars
  <2> QED BY <2>1, <1>0 DEF ServedOnce
<1>9. CASE UNCHANGED vars
  BY <1>9 DEF vars, railwayVars, workerVars, stateVars, ServedOnce
<1>10. ASSUME UNCHANGED <<job, http, verdict>> PROVE ServedOnce'
  BY <1>10, <1>0 DEF ServedOnce
<1> QED BY <1>1, <1>2, <1>3, <1>4, <1>5, <1>6, <1>7, <1>8, <1>9, <1>10 DEF Next, WorkerStep

\* Steps that leave the workers alone: the wire to the daemon is cut, or a call that
\* was new is added to it.
LEMMA OnePlaceKept ==
  ASSUME IInv, [Next]_vars, job' = job, jobs' = jobs,
         \/ down' = down
         \/ \E keep \in 0 .. Len(down) : down' = SubSeq(down, 1, keep)
         \/ down' = <<>>
         \/ \E r \in Requests : call[r] = "new" /\ call'[r] # "new" /\ down' = Append(down, r)
  PROVE  OnePlace'
<1> USE DEF IInv, TypeOK, LinkTypeOK, OnePlace
<1>0. ASSUME NEW q \in Requests, call[q] # "new" PROVE call'[q] # "new"
  BY <1>0, CallsStay
<1>1. CASE down' = down
  BY <1>0, <1>1
<1>2. ASSUME NEW keep \in 0 .. Len(down), down' = SubSeq(down, 1, keep) PROVE OnePlace'
  <2>1. Len(down') = keep /\ \A i \in 1 .. keep : down'[i] = down[i] /\ i \in 1 .. Len(down)
    BY <1>2, PrefixFacts
  <2>2. \A i \in 1 .. Len(down) : down[i] \in Requests
    OBVIOUS
  <2>3. \A i \in 1 .. keep : call'[down[i]] # "new" /\ job'[down[i]] = "none"
    BY <1>0, <2>1, <2>2
  <2>4. \A i, j \in 1 .. keep : i # j => down'[i] # down'[j]
    BY <2>1
  <2> QED BY <2>1, <2>3, <2>4
<1>3. CASE down' = <<>>
  BY <1>0, <1>3
<1>4. ASSUME NEW r \in Requests, call[r] = "new", call'[r] # "new", down' = Append(down, r)
      PROVE  OnePlace'
  <2>1. /\ Len(down') = Len(down) + 1 /\ down'[Len(down) + 1] = r
        /\ \A i \in 1 .. Len(down) : down'[i] = down[i]
    BY <1>4, AppendFacts
  <2>2. \A i \in 1 .. Len(down) : down[i] \in Requests /\ down[i] # r
    BY <1>4
  <2>3. job[r] = "none"
    BY <1>4 DEF ServedOnce, WorkerTypeOK
  <2>4. \A i \in 1 .. Len(down') : i \in 1 .. Len(down) \/ i = Len(down) + 1
    BY <2>1
  <2> QED BY <1>0, <1>4, <2>1, <2>2, <2>3, <2>4
<1> QED BY <1>1, <1>2, <1>3, <1>4

\* No step duplicates a request.
LEMMA OnePlaceStep ==
  ASSUME IInv, [Next]_vars
  PROVE  OnePlace'
<1>1. ASSUME NEW r \in Requests, RailwayStep(r) PROVE OnePlace'
  <2>1. UNCHANGED <<job, jobs>>
    BY <1>1 DEF RailwayStep, CallUnconnected, Call, CallSendFails, TimeOut, Finish, workerVars
  <2>2. CASE CallUnconnected(r) \/ TimeOut(r) \/ Finish(r)
    <3>1. down' = down
      BY <2>2 DEF CallUnconnected, TimeOut, Finish, linkVars
    <3> QED BY <2>1, <3>1, OnePlaceKept
  <2>3. ASSUME Call(r) \/ \E left \in BOOLEAN : CallSendFails(r, left) PROVE OnePlace'
    <3>1. down' = down \/ down' = Append(down, r)
      BY <2>3, Zenon DEF Call, CallSendFails
    <3>2. call[r] = "new" /\ call'[r] # "new"
      BY <2>3 DEF Call, CallSendFails, IInv, TypeOK, RailwayTypeOK
    <3> QED BY <2>1, <3>1, <3>2, OnePlaceKept
  <2> QED BY <1>1, <2>2, <2>3 DEF RailwayStep
<1>2. ASSUME NEW r \in Requests, WorkerStep(r) PROVE OnePlace'
  <2>1. UNCHANGED <<down, jobs, call>>
    BY <1>2 DEF WorkerStep, Handle, TakeResponse, SendEvents, SendReply, LocalFailure,
                linkVars, workerVars, railwayVars
  <2>2. \/ job' = job
        \/ /\ job[r] \in {"calling", "events", "reply"}
           /\ \E j \in {"events", "reply", "done"} : job' = [job EXCEPT ![r] = j]
    BY <1>2 DEF WorkerStep, Handle, TakeResponse, SendEvents, SendReply, LocalFailure, workerVars
  <2> USE DEF IInv, TypeOK, WorkerTypeOK, LinkTypeOK, OnePlace
  <2>3. \A q \in Requests : job[q] \in {"none", "queued"} => job'[q] = job[q]
    BY <2>2
  <2>4. \A i \in 1 .. Len(down) : down[i] \in Requests
    OBVIOUS
  <2>5. \A i \in 1 .. Len(jobs) : jobs[i] \in Requests
    OBVIOUS
  <2>6. \A i \in 1 .. Len(down) : job'[down[i]] = "none"
    BY <2>3, <2>4
  <2>7. \A i \in 1 .. Len(jobs) : job'[jobs[i]] = "queued"
    BY <2>3, <2>5
  <2>8. /\ \A i \in 1 .. Len(down) : call[down[i]] # "new"
        /\ \A i, j \in 1 .. Len(down) : i # j => down[i] # down[j]
        /\ \A i, j \in 1 .. Len(jobs) : i # j => jobs[i] # jobs[j]
    OBVIOUS
  <2> HIDE DEF OnePlace, LinkTypeOK, WorkerTypeOK, TypeOK, IInv
  <2>9. down' = down /\ jobs' = jobs /\ call' = call
    BY <2>1
  <2> QED BY <2>6, <2>7, <2>8, <2>9, Zenon DEF OnePlace
<1>3. CASE ReceiveEvent \/ ReceiveReply \/ HostWrite
  <2>1. UNCHANGED <<job, jobs, down>>
    BY <1>3 DEF ReceiveEvent, ReceiveReply, HostWrite, workerVars, linkVars
  <2> QED BY <2>1, OnePlaceKept
<1>4. CASE Submit
  <2> USE DEF IInv, TypeOK, WorkerTypeOK, LinkTypeOK, OnePlace
  <2>1. /\ Head(down) = down[1] /\ Head(down) \in Requests /\ Len(down) \in Nat \ {0}
        /\ Len(Tail(down)) = Len(down) - 1
        /\ \A i \in 1 .. Len(down) - 1 : Tail(down)[i] = down[i + 1]
    BY <1>4, TailFacts DEF Submit
  <2>2. /\ Len(Append(jobs, Head(down))) = Len(jobs) + 1 /\ Len(jobs) \in Nat
        /\ \A i \in 1 .. Len(jobs) : Append(jobs, Head(down))[i] = jobs[i]
        /\ Append(jobs, Head(down))[Len(jobs) + 1] = Head(down)
    BY <2>1, AppendFacts
  <2>3. /\ call' = call /\ down' = Tail(down) /\ jobs' = Append(jobs, Head(down))
        /\ job' = [job EXCEPT ![Head(down)] = "queued"]
    BY <1>4 DEF Submit, railwayVars
  <2>4. \A i \in 1 .. Len(down') : i + 1 \in 2 .. Len(down) /\ down'[i] = down[i + 1]
    BY <2>1, <2>3
  <2>5. /\ \A i \in 1 .. Len(down') : call'[down'[i]] # "new" /\ job'[down'[i]] = "none"
        /\ \A i, j \in 1 .. Len(down') : i # j => down'[i] # down'[j]
    <3>1. \A i \in 2 .. Len(down) : down[i] # Head(down) /\ down[i] \in Requests
      BY <2>1
    <3>2. \A i \in 1 .. Len(down') : down'[i] \in Requests /\ down'[i] # Head(down)
                                     /\ job[down'[i]] = "none" /\ call[down'[i]] # "new"
      BY <2>1, <2>3, <2>4, <3>1
    <3>3. \A i, j \in 1 .. Len(down') : i # j => down'[i] # down'[j]
      BY <2>1, <2>3, <2>4
    <3> QED BY <2>3, <3>2, <3>3
  <2>6. \A i \in 1 .. Len(jobs) : jobs[i] # Head(down) /\ jobs[i] \in Requests
    <3>1. job[Head(down)] = "none"
      BY <2>1
    <3>2. \A i \in 1 .. Len(jobs) : jobs[i] \in Requests /\ job[jobs[i]] = "queued"
      OBVIOUS
    <3> QED BY <3>1, <3>2
  <2> HIDE DEF IInv, TypeOK, WorkerTypeOK, LinkTypeOK, OnePlace
  <2>a. /\ Len(jobs') = Len(jobs) + 1 /\ jobs'[Len(jobs) + 1] = Head(down)
         /\ \A i \in 1 .. Len(jobs) : jobs'[i] = jobs[i]
    BY <2>2, <2>3
  <2>7. \A i \in 1 .. Len(jobs') : i \in 1 .. Len(jobs) \/ i = Len(jobs) + 1
    BY <2>2, <2>a
  <2>8. \A i \in 1 .. Len(jobs') : job'[jobs'[i]] = "queued"
    <3>1. job'[Head(down)] = "queued"
      BY <2>1, <2>3 DEF IInv, TypeOK, WorkerTypeOK
    <3>2. \A i \in 1 .. Len(jobs) : job'[jobs[i]] = "queued"
      BY <2>1, <2>3, <2>6 DEF IInv, TypeOK, WorkerTypeOK, OnePlace
    <3> QED BY <2>7, <2>a, <3>1, <3>2
  <2> USE DEF IInv, OnePlace
  <2>9. \A i, j \in 1 .. Len(jobs') : i # j => jobs'[i] # jobs'[j]
    BY <2>2, <2>6, <2>7, <2>a
  <2> QED BY <2>5, <2>8, <2>9
<1>5. CASE Start
  <2> USE DEF IInv, TypeOK, WorkerTypeOK, LinkTypeOK, OnePlace
  <2>1. /\ Head(jobs) = jobs[1] /\ Head(jobs) \in Requests /\ Len(jobs) \in Nat \ {0}
        /\ Len(Tail(jobs)) = Len(jobs) - 1
        /\ \A i \in 1 .. Len(jobs) - 1 : Tail(jobs)[i] = jobs[i + 1]
    BY <1>5, TailFacts DEF Start
  <2>2. /\ UNCHANGED <<call, down>> /\ jobs' = Tail(jobs)
        /\ job' = [job EXCEPT ![Head(jobs)] = "calling"]
    BY <1>5 DEF Start, railwayVars, linkVars
  <2>3. \A i \in 1 .. Len(jobs') : i + 1 \in 2 .. Len(jobs) /\ jobs'[i] = jobs[i + 1]
    BY <2>1, <2>2
  <2>4. \A i \in 1 .. Len(down) : down[i] # Head(jobs) /\ down[i] \in Requests
    BY <2>1
  <2>5. /\ \A i \in 1 .. Len(jobs') : job'[jobs'[i]] = "queued"
        /\ \A i, j \in 1 .. Len(jobs') : i # j => jobs'[i] # jobs'[j]
    BY <2>1, <2>2, <2>3
  <2>6. /\ \A i \in 1 .. Len(down') : call'[down'[i]] # "new" /\ job'[down'[i]] = "none"
        /\ \A i, j \in 1 .. Len(down') : i # j => down'[i] # down'[j]
    BY <2>2, <2>4
  <2> QED BY <2>5, <2>6
<1>6. CASE LinkStep
  <2>1. UNCHANGED <<job, jobs>>
    BY <1>6 DEF LinkStep, Connect, NoticeLoss, RailwayRestart, DaemonLosesLink,
                RailwayLosesLink, workerVars
  <2>2. \/ down' = down \/ down' = <<>>
        \/ \E keep \in 0 .. Len(down) : down' = SubSeq(down, 1, keep)
    BY <1>6, Zenon DEF LinkStep, Connect, NoticeLoss, RailwayRestart, DaemonLosesLink,
                       RailwayLosesLink
  <2> QED BY <2>1, <2>2, OnePlaceKept
<1>7. CASE UNCHANGED vars
  BY <1>7, OnePlaceKept DEF vars, workerVars, linkVars
<1> QED BY <1>1, <1>2, <1>3, <1>4, <1>5, <1>6, <1>7 DEF Next

\* An answer that is true stays true.
LEMMA GenuineStays ==
  ASSUME IInv, [Next]_vars, NEW r \in Requests, NEW v, Genuine(r, v)
  PROVE  v # NotYet /\ (v = Broken \/ v = verdict'[r])
BY VerdictStays DEF IInv, Genuine

\* The messages on the wire to Railway.
LEMMA WireType ==
  ASSUME LinkTypeOK, NEW i \in 1 .. Len(up)
  PROVE  up[i] \in Message /\ up[i].of \in Requests /\ up[i].result \in Int
<1>1. up \in Seq(Message)
  BY DEF LinkTypeOK, Message
<1>2. up[i] \in Message
  BY <1>1, ElementOf
<1> QED BY <1>2 DEF Message

\* The wire to Railway after a step that only takes messages from it.
LEMMA UpKept ==
  ASSUME IInv, [Next]_vars,
         \/ up' = up \/ up' = <<>>
         \/ up # <<>> /\ up' = Tail(up)
         \/ \E keep \in 0 .. Len(up) : up' = SubSeq(up, 1, keep)
  PROVE  WireGenuine'
<1>0. up \in Seq(Message) /\ Len(up) \in Nat
  BY DEF IInv, TypeOK, LinkTypeOK, Message
<1>1. \A i \in 1 .. Len(up) : up[i].kind = "reply" =>
          up[i].result # NotYet /\ (up[i].result = Broken \/ up[i].result = verdict'[up[i].of])
  <2> SUFFICES ASSUME NEW i \in 1 .. Len(up), up[i].kind = "reply"
               PROVE  up[i].result # NotYet
                      /\ (up[i].result = Broken \/ up[i].result = verdict'[up[i].of])
    OBVIOUS
  <2>1. up[i] \in Message /\ up[i].of \in Requests
    BY WireType DEF IInv, TypeOK
  <2>2. Genuine(up[i].of, up[i].result)
    BY DEF IInv, OwnVerdict, WireGenuine
  <2> QED BY <2>1, <2>2, GenuineStays
<1>2. \A i \in 1 .. Len(up') : \E j \in 1 .. Len(up) : up'[i] = up[j]
  <2>1. CASE up' = up \/ up' = <<>>
    BY <1>0, <2>1
  <2>2. CASE up # <<>> /\ up' = Tail(up)
    <3>1. Len(up') = Len(up) - 1 /\ \A i \in 1 .. Len(up) - 1 : up'[i] = up[i + 1]
      BY <1>0, <2>2, TailFacts
    <3>2. \A i \in 1 .. Len(up) - 1 : i + 1 \in 1 .. Len(up)
      BY <1>0
    <3> QED BY <3>1, <3>2
  <2>3. ASSUME NEW keep \in 0 .. Len(up), up' = SubSeq(up, 1, keep)
        PROVE  \A i \in 1 .. Len(up') : \E j \in 1 .. Len(up) : up'[i] = up[j]
    <3>1. Len(up') = keep /\ \A i \in 1 .. keep : up'[i] = up[i] /\ i \in 1 .. Len(up)
      BY <1>0, <2>3, PrefixFacts
    <3> QED BY <3>1
  <2> QED BY <2>1, <2>2, <2>3
<1> QED BY <1>1, <1>2 DEF WireGenuine, Genuine

\* The wire after a worker sent something true.
LEMMA SendGenuine ==
  ASSUME IInv, [Next]_vars, NEW m \in Message, Send(m),
         m.kind = "reply" => Genuine(m.of, m.result)
  PROVE  WireGenuine'
<1>0. up \in Seq(Message) /\ Len(up) \in Nat
  BY DEF IInv, TypeOK, LinkTypeOK, Message
<1>1. CASE up' = up
  BY <1>1, UpKept
<1>2. CASE up' = Append(up, m)
  <2>1. /\ Len(up') = Len(up) + 1 /\ up'[Len(up) + 1] = m
        /\ \A i \in 1 .. Len(up) : up'[i] = up[i]
    BY <1>0, <1>2, AppendFacts
  <2>2. \A i \in 1 .. Len(up') : i \in 1 .. Len(up) \/ i = Len(up) + 1
    BY <1>0, <2>1
  <2>3. \A i \in 1 .. Len(up) : up[i].of \in Requests
    BY WireType DEF IInv, TypeOK
  <2>4. m.of \in Requests
    BY DEF Message
  <2>5. \A i \in 1 .. Len(up') : up'[i].kind = "reply" => Genuine(up'[i].of, up'[i].result)
    BY <2>1, <2>2 DEF IInv, OwnVerdict, WireGenuine
  <2>6. \A i \in 1 .. Len(up') : up'[i].of \in Requests
    BY <2>1, <2>2, <2>3, <2>4
  <2>7. ASSUME NEW i \in 1 .. Len(up'), up'[i].kind = "reply"
        PROVE  up'[i].result # NotYet
               /\ (up'[i].result = Broken \/ up'[i].result = verdict'[up'[i].of])
    BY <2>5, <2>6, <2>7, GenuineStays
  <2> QED BY <2>7 DEF WireGenuine, Genuine
<1> QED BY <1>1, <1>2, Zenon DEF Send

\* Workers that get no new response hold genuine ones.
LEMMA WorkersKept ==
  ASSUME IInv, [Next]_vars, UNCHANGED got,
         \A q \in Requests : job'[q] \in {"events", "reply"} => job[q] \in {"events", "reply"}
  PROVE  WorkersGenuine'
<1>1. \A q \in Requests : job[q] \in {"events", "reply"} => Genuine(q, got[q])
  BY DEF IInv, OwnVerdict, WorkersGenuine
<1> QED BY <1>1, GenuineStays DEF WorkersGenuine, Genuine

\* Calls that get no new answer hold genuine ones.
LEMMA CallsKept ==
  ASSUME IInv, [Next]_vars, UNCHANGED future,
         \A q \in Requests : call'[q] \in {"answered", "ok"} => call[q] \in {"answered", "ok"}
  PROVE  CallsGenuine'
<1>1. \A q \in Requests : call[q] \in {"answered", "ok"} => Genuine(q, future[q])
  BY DEF IInv, OwnVerdict, CallsGenuine
<1> QED BY <1>1, GenuineStays DEF CallsGenuine, Genuine

\* No step puts a foreign verdict on its way.
LEMMA OwnVerdictStep ==
  ASSUME IInv, [Next]_vars
  PROVE  OwnVerdict'
<1> USE DEF OwnVerdict
<1>1. ASSUME NEW r \in Requests, RailwayStep(r) PROVE OwnVerdict'
  <2>1. UNCHANGED <<job, got, future, up>>
    BY <1>1 DEF RailwayStep, CallUnconnected, Call, CallSendFails, TimeOut, Finish,
                workerVars, linkVars
  <2>2. \A q \in Requests : call'[q] \in {"answered", "ok"} => call[q] \in {"answered", "ok"}
    BY <1>1 DEF RailwayStep, CallUnconnected, Call, CallSendFails, TimeOut, Finish,
                IInv, TypeOK, RailwayTypeOK
  <2> QED BY <2>1, <2>2, UpKept, WorkersKept, CallsKept
<1>2. ASSUME NEW r \in Requests, NEW accepts \in BOOLEAN, Handle(r, accepts)
      PROVE  OwnVerdict'
  <2>1. UNCHANGED <<job, got, future, up, call>>
    BY <1>2 DEF Handle, workerVars, linkVars, railwayVars
  <2> QED BY <2>1, UpKept, WorkersKept, CallsKept
<1>3. ASSUME NEW r \in Requests, TakeResponse(r) PROVE OwnVerdict'
  <2>1. UNCHANGED <<future, up, call, verdict>>
    BY <1>3 DEF TakeResponse, stateVars, linkVars, railwayVars
  <2>2. WorkersGenuine'
    BY <1>3, <2>1 DEF TakeResponse, IInv, ServedOnce, WorkersGenuine, Genuine, TypeOK, WorkerTypeOK
  <2> QED BY <2>1, <2>2, UpKept, CallsKept
<1>4. ASSUME NEW r \in Requests, SendEvents(r) PROVE OwnVerdict'
  <2>1. Event(r) \in Message /\ Event(r).kind # "reply" /\ Send(Event(r))
    BY <1>4 DEF Event, Message, NotYet, SendEvents
  <2>2. UNCHANGED <<future, call, got>>
    BY <1>4 DEF SendEvents, railwayVars
  <2>3. \A q \in Requests : job'[q] \in {"events", "reply"} => job[q] \in {"events", "reply"}
    BY <1>4 DEF SendEvents, IInv, TypeOK, WorkerTypeOK
  <2> QED BY <2>1, <2>2, <2>3, SendGenuine, WorkersKept, CallsKept
<1>5. ASSUME NEW r \in Requests, SendReply(r) PROVE OwnVerdict'
  <2>1. Reply(r, got[r]) \in Message /\ Send(Reply(r, got[r]))
        /\ Reply(r, got[r]).of = r /\ Reply(r, got[r]).result = got[r]
    BY <1>5 DEF Reply, Message, SendReply, IInv, TypeOK, WorkerTypeOK
  <2>2. Genuine(r, got[r])
    BY <1>5 DEF SendReply, IInv, WorkersGenuine
  <2>3. UNCHANGED <<future, call, got>>
    BY <1>5 DEF SendReply, railwayVars
  <2>4. \A q \in Requests : job'[q] \in {"events", "reply"} => job[q] \in {"events", "reply"}
    BY <1>5 DEF SendReply, IInv, TypeOK, WorkerTypeOK
  <2> QED BY <2>1, <2>2, <2>3, <2>4, SendGenuine, WorkersKept, CallsKept
<1>6. ASSUME NEW r \in Requests, NEW sent \in BOOLEAN, LocalFailure(r, sent)
      PROVE  OwnVerdict'
  <2>1. UNCHANGED <<future, up, call, verdict>>
    BY <1>6 DEF LocalFailure, linkVars, railwayVars
  <2>2. got' = [got EXCEPT ![r] = Broken] /\ job' = [job EXCEPT ![r] = "reply"]
    BY <1>6 DEF LocalFailure
  <2>3. WorkersGenuine'
    BY <2>1, <2>2 DEF IInv, WorkersGenuine, Genuine, TypeOK, WorkerTypeOK, NotYet, Broken
  <2> QED BY <2>1, <2>3, UpKept, CallsKept
<1>7. CASE ReceiveReply
  <2>1. up # <<>> /\ up' = Tail(up) /\ UNCHANGED <<job, got, verdict>>
    BY <1>7 DEF ReceiveReply, workerVars, stateVars
  <2>2. Head(up) = up[1] /\ 1 \in 1 .. Len(up)
    BY <2>1, TailFacts DEF IInv, TypeOK, LinkTypeOK
  <2>3. Head(up).of \in Requests /\ Genuine(Head(up).of, Head(up).result)
    <3>1. up[1].of \in Requests
      BY <2>2, WireType DEF IInv, TypeOK
    <3>2. up[1].kind = "reply"
      BY <1>7, <2>2 DEF ReceiveReply
    <3>3. Genuine(up[1].of, up[1].result)
      BY <2>2, <3>2 DEF IInv, WireGenuine
    <3> QED BY <2>2, <3>1, <3>3
  <2>4. \/ UNCHANGED <<call, future>>
        \/ /\ call' = [call EXCEPT ![Head(up).of] = "answered"]
           /\ future' = [future EXCEPT ![Head(up).of] = Head(up).result]
    BY <1>7 DEF ReceiveReply
  <2>5. CallsGenuine'
    <3> DEFINE h == Head(up).of
               v == Head(up).result
    <3>1. h \in Requests /\ Genuine(h, v)
      BY <2>3
    <3>2. \/ UNCHANGED <<call, future>>
          \/ call' = [call EXCEPT ![h] = "answered"] /\ future' = [future EXCEPT ![h] = v]
      BY <2>4
    <3> HIDE DEF h, v
    <3> QED BY <2>1, <3>1, <3>2 DEF IInv, CallsGenuine, Genuine, TypeOK, RailwayTypeOK
  <2> QED BY <2>1, <2>5, UpKept, WorkersKept
<1>8. CASE ReceiveEvent \/ HostWrite
  <2>1. UNCHANGED <<job, got, call, future>>
    BY <1>8 DEF ReceiveEvent, HostWrite, workerVars, railwayVars
  <2>2. up' = up \/ (up # <<>> /\ up' = Tail(up))
    BY <1>8, Zenon DEF ReceiveEvent, HostWrite, linkVars
  <2> QED BY <2>1, <2>2, UpKept, WorkersKept, CallsKept
<1>9. CASE Submit \/ Start
  <2>1. UNCHANGED <<got, call, future, up>>
    BY <1>9 DEF Submit, Start, railwayVars, linkVars
  <2>2. \A q \in Requests : job'[q] \in {"events", "reply"} => job[q] \in {"events", "reply"}
    BY <1>9 DEF Submit, Start, IInv, TypeOK, WorkerTypeOK
  <2> QED BY <2>1, <2>2, UpKept, WorkersKept, CallsKept
<1>10. CASE LinkStep
  <2>1. UNCHANGED <<job, got, future>>
    BY <1>10 DEF LinkStep, Connect, NoticeLoss, RailwayRestart, DaemonLosesLink,
                 RailwayLosesLink, workerVars, railwayVars
  <2>2. \A q \in Requests : call'[q] \in {"answered", "ok"} => call[q] \in {"answered", "ok"}
    BY <1>10 DEF LinkStep, Connect, NoticeLoss, RailwayRestart, DaemonLosesLink,
                 RailwayLosesLink, railwayVars, IInv, TypeOK, RailwayTypeOK
  <2>3. \/ up' = up \/ up' = <<>>
        \/ \E keep \in 0 .. Len(up) : up' = SubSeq(up, 1, keep)
    BY <1>10, Zenon DEF LinkStep, Connect, NoticeLoss, RailwayRestart, DaemonLosesLink,
                 RailwayLosesLink
  <2> QED BY <2>1, <2>2, <2>3, UpKept, WorkersKept, CallsKept
<1>11. CASE UNCHANGED vars
  BY <1>11, UpKept, WorkersKept, CallsKept DEF vars, railwayVars, linkVars, workerVars
<1> QED BY <1>1, <1>2, <1>3, <1>4, <1>5, <1>6, <1>7, <1>8, <1>9, <1>10, <1>11
        DEF Next, WorkerStep

----------------------------------------------------------------------------
(* The invariants                                                          *)

\* Every step keeps the types.
LEMMA TypeStep ==
  ASSUME IInv, [Next]_vars
  PROVE  TypeOK'
<1>1. \A q \in Requests : /\ job[q] \in {"events", "reply"} => got[q] # NotYet
                          /\ http[q] = "served" => verdict[q] # NotYet
  BY DEF IInv, OwnVerdict, WorkersGenuine, Genuine, ServedOnce
<1>2. ASSUME Next PROVE Unflagged'
  <2>1. ASSUME NEW r \in Requests, RailwayStep(r) PROVE Unflagged'
    BY <2>1, RailwayStepType DEF IInv
  <2>2. ASSUME NEW r \in Requests, WorkerStep(r) PROVE Unflagged'
    BY <1>1, <2>2, WorkerStepType DEF IInv
  <2>3. ASSUME ReceiveEvent \/ ReceiveReply \/ Submit \/ Start \/ HostWrite \/ LinkStep
        PROVE  Unflagged'
    BY <2>3, OtherStepType, ProxyAssumption DEF IInv
  <2> QED BY <1>2, <2>1, <2>2, <2>3, Zenon DEF Next
<1>3. ASSUME UNCHANGED vars PROVE Unflagged'
  <2>1. UNCHANGED <<call, pending, future, down, up, jobs, job, got, http, writes, verdict,
                    shown, cut, budget>>
    BY <1>3 DEF vars, railwayVars, linkVars, workerVars, stateVars
  <2>2. RailwayTypeOK' /\ WorkerTypeOK'
    BY <2>1 DEF IInv, TypeOK, RailwayTypeOK, WorkerTypeOK
  <2>3. LinkTypeOK'
    BY <2>1 DEF IInv, TypeOK, LinkTypeOK
  <2>4. StateTypeOK' /\ HistoryTypeOK'
    BY <2>1 DEF IInv, TypeOK, StateTypeOK, HistoryTypeOK
  <2> QED BY <2>2, <2>3, <2>4 DEF Unflagged
<1>4. Unflagged'
  BY <1>2, <1>3, Zenon
<1> QED BY <1>4, FlagsType DEF IInv, Unflagged, TypeOK

\* The inductive invariant holds at the start.
LEMMA InitInv == Init => IInv
<1> SUFFICES ASSUME Init PROVE IInv
  OBVIOUS
<1>1. RailwayTypeOK /\ WorkerTypeOK /\ StateTypeOK
  <2>1. RailwayTypeOK
    BY DEF Init, RailwayTypeOK, NotYet
  <2>2. WorkerTypeOK
    BY DEF Init, WorkerTypeOK, NotYet
  <2>3. StateTypeOK
    BY DEF Init, StateTypeOK, NotYet
  <2> QED BY <2>1, <2>2, <2>3
<1>5. LinkTypeOK
  <2>1. up = <<>> /\ down = <<>>
    BY DEF Init
  <2> QED BY <2>1 DEF LinkTypeOK
<1>2. HistoryTypeOK
  <2>1. MaxDrops \in Nat /\ MaxRestarts \in Nat /\ MaxHostWrites \in Nat
    BY ProxyAssumption DEF ProxyAssumption
  <2> QED BY <2>1 DEF Init, HistoryTypeOK
<1>3. FlagsTypeOK
  BY Zenon DEF Init, FlagsTypeOK
<1>4. OnePlace /\ ServedOnce /\ OwnVerdict
  BY DEF Init, OnePlace, ServedOnce, OwnVerdict, WorkersGenuine, WireGenuine, CallsGenuine, NotYet
<1> QED BY <1>1, <1>2, <1>3, <1>4, <1>5 DEF IInv, TypeOK

\* In every reachable state a request is in one place, it was served at most once, and
\* whatever travels back to its caller is an error or its own verdict.
THEOREM BridgeInvariant == Spec => []IInv
<1>1. IInv /\ [Next]_vars => IInv'
  BY TypeStep, OnePlaceStep, ServedOnceStep, OwnVerdictStep DEF IInv
<1> QED BY <1>1, InitInv, PTL DEF Spec

\* The variables of the bridge keep their types.
THEOREM TypeCorrect == Spec => []TypeOK
<1>1. IInv => TypeOK
  BY DEF IInv
<1> QED BY <1>1, BridgeInvariant, PTL

\* Every waiting call has its future in _pending_requests, and no future stays behind.
THEOREM FuturesMatch == Spec => []FuturesMatchCalls
<1>1. Init => FuturesMatchCalls
  BY DEF Init, FuturesMatchCalls
<1>2. ASSUME TypeOK, FuturesMatchCalls, [Next]_vars PROVE FuturesMatchCalls'
  <2> USE DEF TypeOK, RailwayTypeOK, LinkTypeOK, FuturesMatchCalls, railwayVars
  <2>1. ASSUME NEW r \in Requests, RailwayStep(r) PROVE FuturesMatchCalls'
    BY <1>2, <2>1 DEF RailwayStep, CallUnconnected, Call, CallSendFails, TimeOut, Finish
  <2>2. ASSUME NEW r \in Requests, WorkerStep(r) PROVE UNCHANGED <<call, pending>>
    BY <2>2 DEF WorkerStep, Handle, TakeResponse, SendEvents, SendReply, LocalFailure
  <2>3. CASE ReceiveReply
    BY <1>2, <2>3 DEF ReceiveReply
  <2>4. CASE ReceiveEvent \/ Submit \/ Start \/ HostWrite
    BY <1>2, <2>4 DEF ReceiveEvent, Submit, Start, HostWrite
  <2>5. CASE LinkStep
    BY <1>2, <2>5 DEF LinkStep, Connect, NoticeLoss, RailwayRestart, DaemonLosesLink,
                      RailwayLosesLink
  <2>6. CASE UNCHANGED vars
    BY <1>2, <2>6 DEF vars
  <2> QED BY <1>2, <2>1, <2>2, <2>3, <2>4, <2>5, <2>6 DEF Next
<1> QED BY <1>1, <1>2, TypeCorrect, PTL DEF Spec

----------------------------------------------------------------------------
(* Refinement                                                              *)

\* The bridge starts where RequestReply starts.
LEMMA RefinementInit == Init => Abstract!Init
BY DEF Init, Abstract!Init, Status, Answer, NotYet, Abstract!NotYet

\* A step of a waiting task of Railway.
LEMMA RailwayRefines ==
  ASSUME IInv, NEW r \in Requests, RailwayStep(r)
  PROVE  Abstract!Next
<1> USE DEF IInv, TypeOK, RailwayTypeOK, Status, Answer, stateVars, NotYet, Abstract!NotYet
<1>1. ASSUME CallUnconnected(r) \/ TimeOut(r) \/ \E left \in BOOLEAN : CallSendFails(r, left)
      PROVE  Abstract!Fail({r})
  BY <1>1 DEF CallUnconnected, TimeOut, CallSendFails, Abstract!Fail
<1>2. CASE Call(r)
  BY <1>2 DEF Call, Abstract!Ask, Abstract!Next
<1>3. CASE Finish(r) /\ future[r] = Broken
  <2>1. Abstract!Fail({r})
    BY <1>3 DEF Finish, Abstract!Fail
  <2> QED BY <2>1 DEF Abstract!Next
<1>4. CASE Finish(r) /\ future[r] # Broken
  <2>1. future[r] = verdict[r] /\ verdict[r] # NotYet
    BY <1>4 DEF Finish, OwnVerdict, CallsGenuine, Genuine
  <2>2. Abstract!Return(r)
    BY <1>4, <2>1 DEF Finish, Abstract!Return
  <2> QED BY <2>2 DEF Abstract!Next
<1> QED BY <1>1, <1>2, <1>3, <1>4 DEF RailwayStep, Abstract!Next

\* A step of a worker performs the call or does not show.
LEMMA WorkerRefines ==
  ASSUME IInv, NEW r \in Requests, WorkerStep(r)
  PROVE  Abstract!Next \/ UNCHANGED Abstract!vars
<1> USE DEF Status, Answer, stateVars, railwayVars
<1>1. ASSUME NEW accepts \in BOOLEAN, Handle(r, accepts) PROVE Abstract!Perform(r)
  <2>1. verdict[r] = NotYet /\ call[r] # "new"
    BY <1>1 DEF Handle, IInv, ServedOnce, TypeOK, WorkerTypeOK
  <2>2. \/ writes' = writes + 1 /\ verdict' = [verdict EXCEPT ![r] = writes + 1]
        \/ verdict' = [verdict EXCEPT ![r] = Rejected] /\ UNCHANGED writes
    BY <1>1, Zenon DEF Handle
  <2>3. UNCHANGED <<call, future>>
    BY <1>1 DEF Handle
  <2> QED BY <2>1, <2>2, <2>3
          DEF Abstract!Perform, NotYet, Rejected, Abstract!NotYet, Abstract!Rejected
<1>2. ASSUME \/ TakeResponse(r) \/ SendEvents(r) \/ SendReply(r)
             \/ \E sent \in BOOLEAN : LocalFailure(r, sent)
      PROVE  UNCHANGED Abstract!vars
  BY <1>2 DEF TakeResponse, SendEvents, SendReply, LocalFailure, Abstract!vars
<1> QED BY <1>1, <1>2 DEF WorkerStep, Abstract!Next

\* Every other step lets calls fail, is a write of the host, or does not show.
LEMMA OtherRefines ==
  ASSUME IInv, FuturesMatchCalls,
         ReceiveEvent \/ ReceiveReply \/ Submit \/ Start \/ HostWrite \/ LinkStep
  PROVE  Abstract!Next \/ UNCHANGED Abstract!vars
<1> USE DEF Status, Answer, stateVars, railwayVars
<1>1. ASSUME ReceiveEvent \/ Submit \/ Start PROVE UNCHANGED Abstract!vars
  BY <1>1 DEF ReceiveEvent, Submit, Start, Abstract!vars
<1>2. CASE ReceiveReply
  BY <1>2 DEF ReceiveReply, Abstract!vars, IInv, TypeOK, RailwayTypeOK
<1>3. CASE HostWrite
  BY <1>3 DEF HostWrite, Abstract!Next, Abstract!OtherWrite
<1>4. CASE RailwayRestart
  <2>1. Abstract!Fail(pending)
    BY <1>4 DEF RailwayRestart, Abstract!Fail, FuturesMatchCalls, IInv, TypeOK, RailwayTypeOK
  <2>2. pending \in SUBSET Requests
    BY DEF IInv, TypeOK, RailwayTypeOK
  <2>3. Abstract!Next
    BY <2>1, <2>2 DEF Abstract!Next, Abstract!Fail
  <2> QED BY <2>3
<1>5. ASSUME LinkStep, ~RailwayRestart PROVE UNCHANGED Abstract!vars
  BY <1>5 DEF LinkStep, Connect, NoticeLoss, DaemonLosesLink, RailwayLosesLink, Abstract!vars
<1> QED BY <1>1, <1>2, <1>3, <1>4, <1>5

\* The bridge implements RequestReply: through lost links, late and missing answers,
\* timeouts, failing workers and restarts of Railway, a call is performed at most once,
\* returns once, and a good return carries the verdict of its own execution.
THEOREM BridgeIsAtomic == Spec => CallsAreAtomic
<1>1. IInv /\ FuturesMatchCalls /\ [Next]_vars => [Abstract!Next]_(Abstract!vars)
  <2> SUFFICES ASSUME IInv, FuturesMatchCalls, [Next]_vars
               PROVE  Abstract!Next \/ UNCHANGED Abstract!vars
    OBVIOUS
  <2>1. CASE Next
    <3>1. ASSUME NEW r \in Requests, RailwayStep(r) PROVE Abstract!Next
      BY <3>1, RailwayRefines
    <3>2. ASSUME NEW r \in Requests, WorkerStep(r)
          PROVE  Abstract!Next \/ UNCHANGED Abstract!vars
      BY <3>2, WorkerRefines
    <3>3. ASSUME ReceiveEvent \/ ReceiveReply \/ Submit \/ Start \/ HostWrite \/ LinkStep
          PROVE  Abstract!Next \/ UNCHANGED Abstract!vars
      BY <3>3, OtherRefines
    <3> QED BY <2>1, <3>1, <3>2, <3>3, Zenon DEF Next
  <2>2. CASE UNCHANGED vars
    <3>1. UNCHANGED <<call, future, writes, verdict>>
      BY <2>2 DEF vars, railwayVars, stateVars
    <3> QED BY <3>1 DEF Abstract!vars, Status, Answer
  <2> QED BY <2>1, <2>2, Zenon
<1> QED BY <1>1, RefinementInit, BridgeInvariant, FuturesMatch, PTL
        DEF Spec, CallsAreAtomic, Abstract!Spec
----------------------------------------------------------------------------
(* What a caller was told is done has been shown                            *)

\* The event of r has been fanned out, or is among the first n messages of s.
Told(r, s, n, fanned) ==
  r \in fanned \/ \E j \in 1 .. n : s[j].kind = "event" /\ s[j].of = r

\* The result of a write.
Good(v) == v # Broken /\ v # Rejected

\* A request that no cut has met is worked on with the link that brought it.
Linked == \A r \in InProgress : r \in cut \/ link = TRUE

\* Its event is ahead of its reply: when a worker is about to send the reply, on the wire, and
\* when the reply has been read.
InHand ==
  \A r \in Requests :
     job[r] = "reply" /\ Good(got[r]) /\ r \notin cut
       => daemonWs = FALSE \/ Told(r, up, Len(up), shown)
OnWire ==
  \A i \in 1 .. Len(up) :
     up[i].kind = "reply" /\ Good(up[i].result) /\ up[i].of \notin cut
       => Told(up[i].of, up, i - 1, shown)
Answered ==
  \A r \in Requests :
     call[r] \in {"answered", "ok"} /\ Good(future[r]) /\ r \notin cut => r \in shown

OkIsGood == \A r \in Requests : call[r] = "ok" => future[r] # Broken

ShownInv == Linked /\ InHand /\ OnWire /\ Answered /\ OkIsGood

\* A step that leaves the wire alone, and at most forgets calls, adds to the cut and the shown.
LEMMA AnsweredKept ==
  ASSUME Answered, OkIsGood, future' = future, cut \subseteq cut', shown \subseteq shown',
         \A q \in Requests : call'[q] \in {"answered", "ok"} => call[q] \in {"answered", "ok"},
         \A q \in Requests : call'[q] = "ok" => call[q] = "ok"
  PROVE  Answered' /\ OkIsGood'
BY DEF Answered, OkIsGood

\* A job that is not handed a new reply keeps what its worker knows.
LEMMA InHandKept ==
  ASSUME InHand, up' = up, shown' = shown, cut \subseteq cut', daemonWs' = daemonWs,
         \A q \in Requests : job'[q] = "reply" /\ Good(got'[q])
                               => job[q] = "reply" /\ Good(got[q])
  PROVE  InHand'
BY DEF InHand

\* A wire that does not change keeps what its answers are worth.
LEMMA OnWireKept ==
  ASSUME OnWire, up' = up, shown' = shown, cut \subseteq cut'
  PROVE  OnWire'
BY DEF OnWire

\* A link that does not change stays whole for those who are in progress.
LEMMA LinkedKept ==
  ASSUME Linked, link' = link, cut \subseteq cut', InProgress' \subseteq InProgress
  PROVE  Linked'
BY DEF Linked

\* A loss of the link or a restart cuts whatever is in progress.
LEMMA CutWorkers ==
  ASSUME cut' = cut \cup InProgress, job' = job
  PROVE  Linked' /\ InHand'
<1>1. InProgress' = InProgress
  BY DEF InProgress
<1>2. \A r \in Requests : job'[r] = "reply" => r \in cut'
  BY DEF InProgress
<1> QED BY <1>1, <1>2 DEF Linked, InHand

\* What is among the first messages stays there when one more is sent.
LEMMA ToldAppend ==
  ASSUME NEW s \in Seq(Message), NEW m \in Message, NEW r, NEW n \in 0 .. Len(s), NEW F,
         Told(r, s, n, F)
  PROVE  Told(r, Append(s, m), n, F)
<1>1. ASSUME NEW j \in 1 .. n PROVE Append(s, m)[j] = s[j]
  BY AppendFacts
<1> QED BY <1>1 DEF Told

\* When a message is read, an event that was among the first is still there or fanned out.
LEMMA ToldTail ==
  ASSUME NEW s \in Seq(Message), s # <<>>, NEW r, NEW n \in 0 .. Len(s), NEW F, NEW G,
         F \subseteq G, Head(s).kind = "event" => Head(s).of \in G, Told(r, s, n, F)
  PROVE  Told(r, Tail(s), n - 1, G)
<1>1. CASE r \in F
  BY <1>1 DEF Told
<1>2. ASSUME NEW j \in 1 .. n, s[j].kind = "event", s[j].of = r PROVE Told(r, Tail(s), n - 1, G)
  <2>1. CASE j = 1
    BY <2>1, <1>2, TailFacts DEF Told
  <2>2. CASE j # 1
    <3>1. j - 1 \in 1 .. n - 1 /\ j - 1 \in 1 .. Len(s) - 1 /\ (j - 1) + 1 = j
      BY <2>2, TailFacts
    <3>2. Tail(s)[j - 1] = s[j]
      BY <3>1, TailFacts
    <3> QED BY <3>1, <3>2, <1>2 DEF Told
  <2> QED BY <2>1, <2>2
<1> QED BY <1>1, <1>2 DEF Told

\* The wire is a sequence of messages.
LEMMA UpSeq == TypeOK => up \in Seq(Message)
BY DEF TypeOK, LinkTypeOK, Message

\* A cut-off wire holds what it held, in the same order.
LEMMA OnWirePrefix ==
  ASSUME TypeOK, OnWire, NEW keep \in 0 .. Len(up), up' = SubSeq(up, 1, keep),
         shown' = shown, cut \subseteq cut'
  PROVE  OnWire'
<1>1. Len(up') = keep /\ \A i \in 1 .. keep : up'[i] = up[i]
  BY UpSeq, PrefixFacts
<1>2. Len(up) \in Nat
  BY UpSeq
<1> SUFFICES ASSUME NEW i \in 1 .. keep, up'[i].kind = "reply", Good(up'[i].result),
                    up'[i].of \notin cut'
             PROVE  Told(up'[i].of, up', i - 1, shown')
  BY <1>1 DEF OnWire
<1>3. i \in 1 .. Len(up) /\ up'[i] = up[i]
  BY <1>1, <1>2
<1>4. Told(up[i].of, up, i - 1, shown)
  BY <1>3 DEF OnWire
<1>5. \A j \in 1 .. i - 1 : up'[j] = up[j]
  BY <1>1
<1> QED BY <1>3, <1>4, <1>5 DEF Told

\* Reading a message keeps every reply behind its event, or the event fanned out.
LEMMA OnWireTail ==
  ASSUME TypeOK, OnWire, up # <<>>, up' = Tail(up), shown \subseteq shown', cut' = cut,
         Head(up).kind = "event" => Head(up).of \in shown'
  PROVE  OnWire'
<1>1. /\ up \in Seq(Message) /\ Len(up) \in Nat \ {0} /\ Len(up') = Len(up) - 1
      /\ \A i \in 1 .. Len(up) - 1 : up'[i] = up[i + 1]
  BY UpSeq, TailFacts
<1> SUFFICES ASSUME NEW i \in 1 .. Len(up) - 1, up'[i].kind = "reply", Good(up'[i].result),
                    up'[i].of \notin cut'
             PROVE  Told(up'[i].of, up', i - 1, shown')
  BY <1>1 DEF OnWire
<1>2. i + 1 \in 1 .. Len(up) /\ up'[i] = up[i + 1] /\ (i + 1) - 1 = i /\ i \in 0 .. Len(up)
  BY <1>1
<1>3. Told(up[i + 1].of, up, i, shown)
  BY <1>2 DEF OnWire
<1> QED BY <1>1, <1>2, <1>3, ToldTail

\* Railway takes the next message off the wire: the workers know as much as before.
LEMMA InHandTail ==
  ASSUME TypeOK, InHand, up # <<>>, up' = Tail(up), shown \subseteq shown',
         UNCHANGED <<cut, job, got, daemonWs>>, Head(up).kind = "event" => Head(up).of \in shown'
  PROVE  InHand'
<1>1. up \in Seq(Message) /\ Len(up) \in Nat \ {0} /\ Len(up') = Len(up) - 1
  BY UpSeq, TailFacts
<1>2. ASSUME NEW r \in Requests, Told(r, up, Len(up), shown)
      PROVE  Told(r, up', Len(up'), shown')
  BY <1>1, <1>2, ToldTail
<1> QED BY <1>2 DEF InHand

\* Sending keeps the order on the wire; a reply goes out behind its event.
LEMMA SendShown ==
  ASSUME TypeOK, InHand, OnWire, NEW m \in Message, Send(m), UNCHANGED <<shown, cut, daemonWs, got>>,
         m.kind = "reply" /\ Good(m.result) /\ m.of \notin cut /\ daemonWs = TRUE
           => Told(m.of, up, Len(up), shown)
  PROVE  /\ OnWire'
         /\ \A r \in Requests : daemonWs = TRUE /\ Told(r, up, Len(up), shown)
                                  => Told(r, up', Len(up'), shown')
<1>0. up \in Seq(Message) /\ Len(up) \in Nat
  BY UpSeq
<1>1. CASE link /\ daemonWs
  <2>1. up' = Append(up, m)
    BY <1>1 DEF Send
  <2>2. /\ Len(up') = Len(up) + 1 /\ up'[Len(up) + 1] = m
        /\ \A i \in 1 .. Len(up) : up'[i] = up[i]
    BY <1>0, <2>1, AppendFacts
  <2>3. daemonWs = TRUE
    BY <1>1 DEF TypeOK, FlagsTypeOK
  <2>4. ASSUME NEW i \in 1 .. Len(up'), up'[i].kind = "reply", Good(up'[i].result),
               up'[i].of \notin cut'
        PROVE  Told(up'[i].of, up', i - 1, shown')
    <3>1. CASE i = Len(up) + 1
      <4>1. Told(m.of, up, Len(up), shown)
        BY <3>1, <2>2, <2>3, <2>4
      <4>2. Len(up) \in 0 .. Len(up) /\ i - 1 = Len(up)
        BY <1>0, <3>1
      <4>3. Told(m.of, up', Len(up), shown)
        BY <1>0, <2>1, <4>1, <4>2, ToldAppend
      <4> QED BY <3>1, <2>2, <4>2, <4>3
    <3>2. CASE i # Len(up) + 1
      <4>1. i \in 1 .. Len(up) /\ i - 1 \in 0 .. Len(up) /\ up'[i] = up[i]
        BY <3>2, <2>2, <1>0
      <4>2. Told(up[i].of, up, i - 1, shown)
        BY <4>1, <2>4 DEF OnWire
      <4> QED BY <1>0, <2>1, <4>1, <4>2, ToldAppend
    <3> QED BY <3>1, <3>2
  <2>5. ASSUME NEW r \in Requests, Told(r, up, Len(up), shown)
        PROVE  Told(r, up', Len(up'), shown')
    <3>1. Told(r, up', Len(up), shown)
      BY <1>0, <2>1, <2>5, ToldAppend
    <3> QED BY <3>1, <2>2, <1>0 DEF Told
  <2> QED BY <2>4, <2>5 DEF OnWire
<1>2. CASE ~(link /\ daemonWs)
  <2>1. up' = up
    BY <1>2 DEF Send
  <2> QED BY <2>1, OnWireKept
<1> QED BY <1>1, <1>2

\* Every step keeps a reply behind its event, unless a loss of the link cut the request.
LEMMA ShownStep ==
  ASSUME TypeOK, OnePlace, ShownInv, [Next]_vars
  PROVE  ShownInv'
<1> USE DEF ShownInv
<1>a. /\ call \in [Requests -> {"new", "waiting", "answered", "ok", "failed"}]
      /\ future \in [Requests -> Int] /\ got \in [Requests -> Int]
      /\ job \in [Requests -> {"none", "queued", "calling", "events", "reply", "done"}]
      /\ up \in Seq(Message)
  BY UpSeq DEF TypeOK, RailwayTypeOK, WorkerTypeOK
<1>1. ASSUME NEW r \in Requests, RailwayStep(r) PROVE ShownInv'
  <2>1. UNCHANGED <<job, got, future, up, link, daemonWs, shown, cut>>
    BY <1>1 DEF RailwayStep, CallUnconnected, Call, CallSendFails, TimeOut, Finish,
                workerVars, linkVars
  <2>2. InProgress' = InProgress
    BY <2>1 DEF InProgress
  <2>3. Linked' /\ InHand' /\ OnWire'
    BY <2>1, <2>2, LinkedKept, InHandKept, OnWireKept
  <2>4. Answered' /\ OkIsGood'
    <3>1. CASE Finish(r)
      BY <3>1, <2>1, <1>a DEF Finish, Answered, OkIsGood
    <3>2. CASE ~Finish(r)
      <4>1. \A q \in Requests : call'[q] \in {"answered", "ok"} => call'[q] = call[q]
        BY <1>1, <3>2, <1>a DEF RailwayStep, CallUnconnected, Call, CallSendFails, TimeOut
      <4> QED BY <4>1, <2>1, AnsweredKept
    <3> QED BY <3>1, <3>2
  <2> QED BY <2>3, <2>4
<1>2. ASSUME NEW r \in Requests, NEW accepts \in BOOLEAN, Handle(r, accepts)
      PROVE  ShownInv'
  <2>1. UNCHANGED <<call, job, got, future, up, link, daemonWs, shown, cut>>
    BY <1>2 DEF Handle, workerVars, linkVars, railwayVars
  <2>2. InProgress' = InProgress
    BY <2>1 DEF InProgress
  <2> QED BY <2>1, <2>2, LinkedKept, InHandKept, OnWireKept, AnsweredKept
<1>3. ASSUME NEW r \in Requests,
             TakeResponse(r) \/ \E sent \in BOOLEAN : LocalFailure(r, sent)
      PROVE  ShownInv'
  <2>1. UNCHANGED <<call, future, up, link, daemonWs, shown, cut>>
    BY <1>3 DEF TakeResponse, LocalFailure, linkVars, railwayVars
  <2>2. /\ job[r] = "calling"
        /\ \/ job' = [job EXCEPT ![r] = "events"] /\ got' = [got EXCEPT ![r] = verdict[r]]
           \/ job' = [job EXCEPT ![r] = "reply"] /\ got' = [got EXCEPT ![r] = Rejected]
           \/ job' = [job EXCEPT ![r] = "reply"] /\ got' = [got EXCEPT ![r] = Broken]
    BY <1>3 DEF TakeResponse, LocalFailure
  <2>3. InProgress' \subseteq InProgress
    BY <2>2, <1>a DEF InProgress
  <2>4. \A q \in Requests : job'[q] = "reply" /\ Good(got'[q])
                              => job[q] = "reply" /\ Good(got[q])
    BY <2>2, <1>a DEF Good
  <2> QED BY <2>1, <2>3, <2>4, LinkedKept, InHandKept, OnWireKept, AnsweredKept
<1>4. ASSUME NEW r \in Requests, SendEvents(r) PROVE ShownInv'
  <2>1. Event(r) \in Message /\ Event(r).kind = "event" /\ Event(r).of = r /\ Send(Event(r))
    BY <1>4 DEF Event, Message, NotYet, SendEvents
  <2>2. UNCHANGED <<call, future, got, link, daemonWs, shown, cut>>
    BY <1>4 DEF SendEvents, railwayVars
  <2>3. job[r] = "events" /\ job' = [job EXCEPT ![r] = "reply"]
    BY <1>4 DEF SendEvents
  <2>4. /\ OnWire'
        /\ \A q \in Requests : daemonWs = TRUE /\ Told(q, up, Len(up), shown)
                                 => Told(q, up', Len(up'), shown')
    BY <2>1, <2>2, SendShown
  <2>5. InProgress' \subseteq InProgress
    BY <2>3, <1>a DEF InProgress
  <2>6. r \notin cut => daemonWs = FALSE \/ Told(r, up', Len(up'), shown')
    <3>1. ASSUME r \notin cut, daemonWs # FALSE PROVE Told(r, up', Len(up'), shown')
      <4>1. link /\ daemonWs
        <5>1. link = TRUE
          BY <3>1, <2>3 DEF Linked, InProgress
        <5>2. daemonWs = TRUE
          BY <3>1 DEF TypeOK, FlagsTypeOK
        <5> QED BY <5>1, <5>2
      <4>2. up' = Append(up, Event(r))
        BY <4>1, <2>1 DEF Send
      <4>3. Len(up) \in Nat /\ Len(up') = Len(up) + 1 /\ up'[Len(up) + 1] = Event(r)
        BY <4>2, <2>1, <1>a, AppendFacts
      <4> QED BY <4>3, <2>1 DEF Told
    <3> QED BY <3>1
  <2>7. InHand'
    <3>1. \A q \in Requests \ {r} : job'[q] = job[q]
      BY <2>3, <1>a
    <3>2. daemonWs = FALSE \/ daemonWs = TRUE
      BY DEF TypeOK, FlagsTypeOK
    <3> QED BY <3>1, <3>2, <2>2, <2>4, <2>6 DEF InHand
  <2> QED BY <2>2, <2>4, <2>5, <2>7, LinkedKept, AnsweredKept
<1>5. ASSUME NEW r \in Requests, SendReply(r) PROVE ShownInv'
  <2>1. /\ Reply(r, got[r]) \in Message /\ Send(Reply(r, got[r]))
        /\ Reply(r, got[r]).of = r /\ Reply(r, got[r]).result = got[r]
    BY <1>5, <1>a DEF Reply, Message, SendReply
  <2>2. UNCHANGED <<call, future, got, link, daemonWs, shown, cut>>
    BY <1>5 DEF SendReply, railwayVars
  <2>3. job[r] = "reply" /\ job' = [job EXCEPT ![r] = "done"]
    BY <1>5 DEF SendReply
  <2>4. Good(got[r]) /\ r \notin cut /\ daemonWs = TRUE => Told(r, up, Len(up), shown)
    BY <2>3 DEF InHand
  <2>5. /\ OnWire'
        /\ \A q \in Requests : daemonWs = TRUE /\ Told(q, up, Len(up), shown)
                                 => Told(q, up', Len(up'), shown')
    BY <2>1, <2>2, <2>4, SendShown
  <2>6. InProgress' \subseteq InProgress
    BY <2>3, <1>a DEF InProgress
  <2>7. InHand'
    <3>1. \A q \in Requests : job'[q] = "reply" => job[q] = "reply"
      BY <2>3, <1>a
    <3>2. daemonWs = FALSE \/ daemonWs = TRUE
      BY DEF TypeOK, FlagsTypeOK
    <3> QED BY <3>1, <3>2, <2>2, <2>5 DEF InHand
  <2> QED BY <2>2, <2>5, <2>6, <2>7, LinkedKept, AnsweredKept
<1>6. CASE ReceiveEvent
  <2>1. /\ up # <<>> /\ Head(up).kind = "event" /\ up' = Tail(up)
        /\ shown' = shown \cup {Head(up).of}
        /\ UNCHANGED <<call, future, job, got, link, daemonWs, cut>>
    BY <1>6 DEF ReceiveEvent, railwayVars, workerVars
  <2>2. InProgress' = InProgress
    BY <2>1 DEF InProgress
  <2> QED BY <2>1, <2>2, LinkedKept, InHandTail, OnWireTail, AnsweredKept
<1>7. CASE ReceiveReply
  <2>1. /\ up # <<>> /\ Head(up).kind = "reply" /\ up' = Tail(up)
        /\ UNCHANGED <<job, got, link, daemonWs, shown, cut>>
    BY <1>7 DEF ReceiveReply, workerVars
  <2>2. InProgress' = InProgress
    BY <2>1 DEF InProgress
  <2>3. InHand' /\ OnWire'
    BY <2>1, InHandTail, OnWireTail
  <2>4. Answered' /\ OkIsGood'
    <3> DEFINE h == Head(up).of
               v == Head(up).result
    <3>1. \/ UNCHANGED <<call, future>>
          \/ /\ call' = [call EXCEPT ![h] = "answered"] /\ future' = [future EXCEPT ![h] = v]
             /\ call[h] = "waiting"
      BY <1>7 DEF ReceiveReply
    <3>2. h \in Requests /\ (Good(v) /\ h \notin cut => h \in shown)
      <4>1. Head(up) = up[1] /\ Head(up) \in Message /\ 1 \in 1 .. Len(up)
        BY <2>1, <1>a, TailFacts
      <4>2. Good(v) /\ h \notin cut => Told(h, up, 0, shown)
        BY <4>1, <2>1 DEF OnWire
      <4> QED BY <4>1, <4>2 DEF Told, Message
    <3> HIDE DEF h, v
    <3> QED BY <3>1, <3>2, <2>1, <1>a DEF Answered, OkIsGood
  <2> QED BY <2>1, <2>2, <2>3, <2>4, LinkedKept
<1>8. CASE Submit \/ Start \/ HostWrite
  <2>1. UNCHANGED <<call, future, up, got, link, daemonWs, shown, cut>>
    BY <1>8 DEF Submit, Start, HostWrite, railwayVars, linkVars, workerVars
  <2>2. \A q \in Requests : job'[q] = "reply" => job[q] = "reply"
    BY <1>8, <1>a DEF Submit, Start, HostWrite, workerVars
  <2>3. Linked'
    <3>1. CASE Submit
      <4>1. link' = TRUE
        BY <3>1 DEF Submit, TypeOK, FlagsTypeOK
      <4> QED BY <4>1 DEF Linked
    <3>2. CASE Start
      <4>1. InProgress' \subseteq InProgress
        <5>1. Head(jobs) = jobs[1] /\ 1 \in 1 .. Len(jobs)
          BY <3>2, TailFacts DEF Start, TypeOK, WorkerTypeOK
        <5>2. job[Head(jobs)] = "queued" /\ job' = [job EXCEPT ![Head(jobs)] = "calling"]
          BY <5>1, <3>2 DEF Start, OnePlace
        <5> QED BY <5>2, <1>a DEF InProgress
      <4> QED BY <4>1, <2>1, LinkedKept
    <3>3. CASE HostWrite
      <4>1. InProgress' = InProgress
        BY <3>3 DEF HostWrite, InProgress, workerVars
      <4> QED BY <4>1, <2>1, LinkedKept
    <3> QED BY <1>8, <3>1, <3>2, <3>3
  <2> QED BY <2>1, <2>2, <2>3, InHandKept, OnWireKept, AnsweredKept
<1>9. CASE Connect
  <2>1. /\ link # TRUE /\ link' = TRUE /\ up' = <<>>
        /\ UNCHANGED <<call, future, job, got, shown, cut>>
    BY <1>9 DEF Connect, railwayVars, workerVars
  <2>2. InProgress \subseteq cut
    BY <2>1 DEF Linked
  <2>3. Linked' /\ InHand'
    BY <2>1, <2>2 DEF Linked, InHand, InProgress
  <2>4. OnWire'
    <3>1. Len(<<>>) = 0
      OBVIOUS
    <3> QED BY <3>1, <2>1 DEF OnWire
  <2> QED BY <2>1, <2>3, <2>4, AnsweredKept
<1>10. CASE \/ NoticeLoss \/ RailwayRestart
            \/ \E keep \in 0 .. Len(up) : DaemonLosesLink(keep)
            \/ \E keep \in 0 .. Len(down) : RailwayLosesLink(keep)
  <2>1. /\ cut' = cut \cup InProgress /\ UNCHANGED <<job, got, future, shown>>
        /\ \A q \in Requests : call'[q] \in {"answered", "ok"} => call'[q] = call[q]
    BY <1>10, <1>a DEF NoticeLoss, RailwayRestart, DaemonLosesLink, RailwayLosesLink,
       workerVars, railwayVars
  <2>2. Linked' /\ InHand' /\ Answered' /\ OkIsGood'
    BY <2>1, CutWorkers, AnsweredKept
  <2>3. \/ up' = up \/ up' = <<>>
        \/ \E keep \in 0 .. Len(up) : up' = SubSeq(up, 1, keep)
    BY <1>10, Zenon DEF NoticeLoss, RailwayRestart, DaemonLosesLink, RailwayLosesLink
  <2>4. OnWire'
    <3>1. CASE up' = <<>>
      <4>1. Len(<<>>) = 0
        OBVIOUS
      <4> QED BY <4>1, <3>1 DEF OnWire
    <3>2. cut \subseteq cut'
      BY <2>1
    <3> QED BY <2>1, <2>3, <3>1, <3>2, OnWireKept, OnWirePrefix
  <2> QED BY <2>2, <2>4
<1>11. CASE UNCHANGED vars
  <2>1. UNCHANGED <<call, job, got, future, up, link, daemonWs, shown, cut>>
    BY <1>11 DEF vars, workerVars, linkVars, railwayVars
  <2>2. InProgress' = InProgress
    BY <2>1 DEF InProgress
  <2> QED BY <2>1, <2>2, LinkedKept, InHandKept, OnWireKept, AnsweredKept
<1> QED BY <1>1, <1>2, <1>3, <1>4, <1>5, <1>6, <1>7, <1>8, <1>9, <1>10, <1>11
        DEF Next, WorkerStep, LinkStep

\* A phone whose call was not met by a loss of the link gets its answer only after everybody
\* was sent what it changed: for any number of calls, workers, losses and restarts.
THEOREM OkIsShown == Spec => []OkMeansShownUnlessCut
<1>1. Init => ShownInv
  <2>1. ASSUME Init PROVE OnWire
    <3>1. Len(<<>>) = 0
      OBVIOUS
    <3> QED BY <2>1, <3>1 DEF Init, OnWire
  <2> QED BY <2>1 DEF Init, ShownInv, Linked, InHand, Answered, OkIsGood, InProgress
<1>2. IInv /\ ShownInv /\ [Next]_vars => ShownInv'
  BY ShownStep DEF IInv
<1>3. IInv /\ ShownInv => OkMeansShownUnlessCut
  <2> SUFFICES ASSUME IInv, ShownInv, NEW r \in Requests, call[r] = "ok",
                      verdict[r] # Rejected, r \notin cut
               PROVE  r \in shown
    BY DEF OkMeansShownUnlessCut
  <2>1. future[r] # Broken /\ future[r] = verdict[r]
    BY DEF IInv, OwnVerdict, CallsGenuine, Genuine, ShownInv, OkIsGood
  <2> QED BY <2>1 DEF ShownInv, Answered, Good
<1> QED BY <1>1, <1>2, <1>3, BridgeInvariant, PTL DEF Spec

=============================================================================
