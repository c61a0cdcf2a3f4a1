----------------------- MODULE SessionLifecycleProofs -----------------------
(***************************************************************************)
(* Proofs about SessionLifecycle: its type invariant, that Railway serves  *)
(* the running session once things are quiet, and that no backup of a      *)
(* folder forgets a restored activity.                                     *)
(***************************************************************************)
EXTENDS SessionLifecycle, TLAPS

\* What Railway will serve when it has received all that was sent.
LastWord == IF up = <<>> THEN rid ELSE up[Len(up)]

\* An announcement is still owed by the main loop, by a request it has not taken, or
\* by the reconnect callback, which otherwise holds the right id or has nothing to say.
Told ==
  /\ link = "up" /\ Running /\ ~crossed
  /\ slot = None /\ main # "announce" /\ sync # "start"
  => LastWord = id \/ sync = id

\* The clear is announced after the session was given up.
ClearedFirst == main = "clear" => name = None

\* The memory of a running session holds what its folder holds.
KeptInMemory == name # None => Restored(data[name]) \subseteq cache

----------------------------------------------------------------------------
(* Sequences                                                               *)

\* A sequence with one more element ends in it.
LEMMA AppendFacts ==
  ASSUME NEW S, NEW s \in Seq(S), NEW e \in S
  PROVE  /\ Append(s, e) \in Seq(S) /\ Append(s, e) # <<>>
         /\ Append(s, e)[Len(Append(s, e))] = e
OBVIOUS

\* What is left of a sequence after its head ends as the sequence did.
LEMMA TailFacts ==
  ASSUME NEW S, NEW s \in Seq(S), s # <<>>
  PROVE  /\ Head(s) \in S /\ Tail(s) \in Seq(S)
         /\ Tail(s) # <<>> => Tail(s)[Len(Tail(s))] = s[Len(s)]
         /\ Tail(s) = <<>> => Head(s) = s[Len(s)]
<1>1. /\ Head(s) \in S /\ Head(s) = s[1] /\ Len(s) \in Nat \ {0}
      /\ Tail(s) \in Seq(S) /\ Len(Tail(s)) = Len(s) - 1
      /\ \A k \in 1 .. Len(s) - 1 : Tail(s)[k] = s[k + 1]
  OBVIOUS
<1>2. ASSUME Tail(s) # <<>> PROVE Tail(s)[Len(Tail(s))] = s[Len(s)]
  <2>1. Len(Tail(s)) # 0
    BY <1>1, <1>2
  <2>2. Len(s) - 1 \in 1 .. Len(s) - 1
    BY <1>1, <2>1
  <2> QED BY <1>1, <2>2
<1>3. ASSUME Tail(s) = <<>> PROVE Head(s) = s[Len(s)]
  <2>1. Len(<<>>) = 0
    OBVIOUS
  <2>2. Len(s) - 1 = 0
    BY <1>1, <1>3, <2>1
  <2>3. Len(s) \in Nat
    BY <1>1
  <2>4. Len(s) = 1
    BY <2>2, <2>3
  <2> QED BY <1>1, <2>4
<1> QED BY <1>1, <1>2, <1>3

\* A prefix of a sequence is one.
LEMMA PrefixFacts ==
  ASSUME NEW S, NEW s \in Seq(S), NEW p \in Prefixes(s)
  PROVE  p \in Seq(S)
<1>1. PICK n \in 0 .. Len(s) : p = SubSeq(s, 1, n)
  BY DEF Prefixes
<1> QED BY <1>1

----------------------------------------------------------------------------
(* Types                                                                   *)

\* An announcement keeps the queue well typed.
LEMMA AnnounceType ==
  ASSUME LinkTypeOK, NEW i \in Ids \cup {None}, NEW stale, Announce(i, stale)
  PROVE  up' \in Seq(Ids \cup {None})
<1>1. CASE link = "up"
  <2>1. up' = Append(up, i)
    BY <1>1 DEF Announce
  <2> QED BY <2>1, AppendFacts DEF LinkTypeOK
<1>2. CASE link # "up"
  BY <1>2 DEF Announce, LinkTypeOK
<1> QED BY <1>1, <1>2

\* A request that starts a session names a folder and an id.
LEMMA CreateType ==
  ASSUME NEW r \in Creates
  PROVE  r.folder \in Folders /\ r.id \in Ids
BY DEF Creates, Create

Unflagged == HostTypeOK /\ MemoryTypeOK /\ LinkTypeOK /\ DiskTypeOK

\* What is restored of a set of tokens is part of it.
LEMMA RestoredPart ==
  ASSUME NEW T
  PROVE  Restored(T) \subseteq T /\ Restored(Restored(T)) = Restored(T)
BY DEF Restored

\* The host's requests keep the types.
LEMMA HostStepType ==
  ASSUME TypeOK, HostStep \/ RestStep
  PROVE  Unflagged'
<1> USE DEF TypeOK, Unflagged, HostTypeOK, MemoryTypeOK, DiskTypeOK,
            hostVars, memoryVars, linkVars, diskVars
<1>1. ASSUME NEW f \in Folders, NEW i \in Ids, HostCreates(f, i) PROVE Unflagged'
  <2>1. Create(f, i) \in Creates
    BY DEF Creates
  <2>2. up' \in Seq(Ids \cup {None})
    BY <1>1, AnnounceType DEF HostCreates
  <2> QED BY <1>1, <2>1, <2>2 DEF HostCreates, LinkTypeOK, Requests
<1>2. ASSUME NEW f \in Folders, NEW i \in Ids, HostResumes(f, i) PROVE Unflagged'
  <2>1. Create(f, i) \in Creates
    BY DEF Creates
  <2> QED BY <1>2, <2>1 DEF HostResumes, LinkTypeOK
<1>3. CASE HostEnds
  BY <1>3 DEF HostEnds, LinkTypeOK, Requests
<1>4. CASE ResumeAnswers
  <2>1. resume \in Creates
    BY <1>4 DEF ResumeAnswers
  <2>2. up' \in Seq(Ids \cup {None})
    BY <1>4, <2>1, CreateType, AnnounceType DEF ResumeAnswers
  <2> QED BY <1>4, <2>1, <2>2 DEF ResumeAnswers, LinkTypeOK, Requests
<1>5. CASE ResumeFails
  BY <1>5 DEF ResumeFails, LinkTypeOK
<1> QED BY <1>1, <1>2, <1>3, <1>4, <1>5 DEF HostStep, RestStep

\* The main loop keeps the types.
LEMMA MainStepType ==
  ASSUME TypeOK, MainStep \/ Persist \/ Midnight
  PROVE  Unflagged'
<1> USE DEF TypeOK, Unflagged, HostTypeOK, MemoryTypeOK, DiskTypeOK,
            hostVars, memoryVars, linkVars, diskVars
<1>1. CASE MainCreates
  <2>1. slot \in Creates
    BY <1>1 DEF MainCreates, Requests
  <2>2. slot.folder \in Folders /\ slot.id \in Ids
    BY <2>1, CreateType
  <2>3. Load(slot.folder) \subseteq Tokens
    BY <2>2, RestoredPart DEF Load
  <2>4. fid' \in [Folders -> Ids \cup {None}]
    BY <1>1, <2>2 DEF MainCreates
  <2>5. name' \in Folders \cup {None} /\ cache' \subseteq Tokens
    BY <1>1, <2>2, <2>3 DEF MainCreates
  <2> QED BY <1>1, <2>2, <2>4, <2>5 DEF MainCreates, LinkTypeOK
<1>2. CASE MainAnnounces
  <2>1. up' \in Seq(Ids \cup {None})
    BY <1>2, AnnounceType DEF MainAnnounces
  <2> QED BY <1>2, <2>1 DEF MainAnnounces, LinkTypeOK
<1>3. CASE MainSaves
  BY <1>3 DEF MainSaves, LinkTypeOK
<1>4. CASE MainEnds
  <2>1. CASE name = None
    BY <1>4, <2>1 DEF MainEnds, LinkTypeOK
  <2>2. CASE name # None
    BY <1>4, <2>2 DEF MainEnds, LinkTypeOK
  <2> QED BY <2>1, <2>2
<1>5. CASE MainClears
  <2>1. up' \in Seq(Ids \cup {None})
    BY <1>5, AnnounceType DEF MainClears
  <2> QED BY <1>5, <2>1 DEF MainClears, LinkTypeOK
<1>6. CASE Persist
  <2>1. data' \in [Folders -> SUBSET Tokens]
    BY <1>6 DEF Persist
  <2>2. gid' \in Ids \cup {None} /\ fid' = fid
    BY <1>6 DEF Persist
  <2> QED BY <1>6, <2>1, <2>2 DEF Persist, LinkTypeOK
<1>7. CASE Midnight
  BY <1>7 DEF Midnight, LinkTypeOK
<1> QED BY <1>1, <1>2, <1>3, <1>4, <1>5, <1>6, <1>7 DEF MainStep

\* The phones, the link, Railway and a restart keep the types.
LEMMA OtherStepType ==
  ASSUME TypeOK,
         PhoneStep \/ CallLands \/ SyncStep \/ LinkStep \/ LinkLost
           \/ RailwayReceives \/ RailwayRestarts \/ GraceOver \/ DaemonRestarts
  PROVE  Unflagged'
<1> USE DEF TypeOK, Unflagged, HostTypeOK, MemoryTypeOK, DiskTypeOK, LinkTypeOK,
            hostVars, memoryVars, linkVars, diskVars
<1>1. ASSUME NEW k \in Kinds, PhoneCalls(k) PROVE Unflagged'
  <2>1. <<k, rid>> \in Tokens
    BY <1>1 DEF PhoneCalls, Tokens
  <2> QED BY <1>1, <2>1 DEF PhoneCalls
<1>2. CASE CallLands
  BY <1>2 DEF CallLands
<1>3. CASE SyncReads
  BY <1>3 DEF SyncReads
<1>4. CASE SyncSends
  <2>1. up' \in Seq(Ids \cup {None})
    BY <1>4, AnnounceType DEF SyncSends
  <2> QED BY <1>4, <2>1 DEF SyncSends
<1>5. CASE LossNoticed
  BY <1>5 DEF LossNoticed
<1>6. CASE Connect
  BY <1>6 DEF Connect
<1>7. CASE LinkLost
  <2>1. up' \in Seq(Ids \cup {None}) /\ call' \in {call, None}
    BY <1>7, PrefixFacts DEF LinkLost, Cut
  <2> QED BY <1>7, <2>1 DEF LinkLost
<1>8. CASE RailwayReceives
  BY <1>8, TailFacts DEF RailwayReceives
<1>9. CASE RailwayRestarts
  BY <1>9 DEF RailwayRestarts
<1>10. CASE GraceOver
  BY <1>10 DEF GraceOver
<1>11. CASE DaemonRestarts
  <2>1. up' \in Seq(Ids \cup {None})
    BY <1>11, PrefixFacts DEF DaemonRestarts
  <2>2. name' \in Folders \cup {None}
    <3>1. Today \in Folders \cup {None}
      BY SessionAssumption DEF SessionAssumption
    <3> QED BY <1>11, <3>1 DEF DaemonRestarts, FolderOf
  <2>3. cache' \subseteq Tokens
    <3>1. CASE name' = None
      BY <1>11, <3>1 DEF DaemonRestarts
    <3>2. CASE name' # None
      <4>1. data[name'] \subseteq Tokens
        BY <2>2, <3>2
      <4>2. cache' = Restored(data[name'])
        BY <1>11, <3>2 DEF DaemonRestarts, Load
      <4> QED BY <4>1, <4>2, RestoredPart
    <3> QED BY <3>1, <3>2
  <2> QED BY <1>11, <2>1, <2>2, <2>3 DEF DaemonRestarts
<1> QED BY <1>1, <1>2, <1>3, <1>4, <1>5, <1>6, <1>7, <1>8, <1>9, <1>10, <1>11
        DEF PhoneStep, SyncStep, LinkStep

\* Every announcement that goes out says whether it was stale.
LEMMA AnnounceFlag ==
  ASSUME crossed \in BOOLEAN, NEW i, NEW stale \in BOOLEAN, Announce(i, stale)
  PROVE  crossed' \in BOOLEAN
BY Zenon DEF Announce

\* Every step keeps the flags Boolean.
LEMMA FlagStepType ==
  ASSUME TypeOK, Next
  PROVE  FlagsTypeOK'
<1>0. overdue \in BOOLEAN /\ gOld \in BOOLEAN /\ crossed \in BOOLEAN
  BY DEF TypeOK, FlagsTypeOK
<1>f. FALSE \in BOOLEAN /\ TRUE \in BOOLEAN
  OBVIOUS
<1> USE DEF hostVars, memoryVars, linkVars, diskVars
<1>1. crossed' \in BOOLEAN
  <2>1. ASSUME NEW f \in Folders, NEW i \in Ids, HostCreates(f, i) PROVE crossed' \in BOOLEAN
    <3>1. Announce(i, FALSE) BY <2>1, Zenon DEF HostCreates
    <3> QED BY <1>0, <1>f, <3>1, AnnounceFlag
  <2>2. ASSUME ResumeAnswers PROVE crossed' \in BOOLEAN
    <3>1. Announce(resume.id, FALSE) BY <2>2, Zenon DEF ResumeAnswers
    <3> QED BY <1>0, <1>f, <3>1, AnnounceFlag
  <2>3. ASSUME MainAnnounces PROVE crossed' \in BOOLEAN
    <3>1. Announce(id, FALSE) BY <2>3, Zenon DEF MainAnnounces
    <3> QED BY <1>0, <1>f, <3>1, AnnounceFlag
  <2>4. ASSUME MainClears PROVE crossed' \in BOOLEAN
    <3>1. Announce(None, FALSE) BY <2>4, Zenon DEF MainClears
    <3> QED BY <1>0, <1>f, <3>1, AnnounceFlag
  <2>5. ASSUME SyncSends PROVE crossed' \in BOOLEAN
    <3>1. Announce(sync, sync # id) BY <2>5, Zenon DEF SyncSends
    <3>2. (sync # id) \in BOOLEAN OBVIOUS
    <3> QED BY <1>0, <3>1, <3>2, AnnounceFlag
  <2>6. ASSUME NEW f \in Folders, NEW i \in Ids, HostResumes(f, i) PROVE crossed' = crossed
    BY <2>6, Zenon DEF HostResumes
  <2>7. ASSUME HostEnds \/ ResumeFails PROVE crossed' = crossed
    BY <2>7, Zenon DEF HostEnds, ResumeFails
  <2>8. ASSUME MainCreates \/ MainSaves \/ MainEnds \/ Persist \/ Midnight PROVE crossed' = crossed
    BY <2>8, Zenon DEF MainCreates, MainSaves, MainEnds, Persist, Midnight
  <2>9. ASSUME PhoneStep \/ CallLands \/ SyncReads \/ LinkStep PROVE crossed' = crossed
    BY <2>9, Zenon DEF PhoneStep, PhoneCalls, CallLands, SyncReads, LinkStep, LossNoticed, Connect
  <2>10. ASSUME LinkLost \/ RailwayReceives \/ RailwayRestarts \/ GraceOver \/ DaemonRestarts
         PROVE crossed' = crossed
    BY <2>10, Zenon DEF LinkLost, RailwayReceives, RailwayRestarts, GraceOver, DaemonRestarts
  <2> QED BY <1>0, <2>1, <2>2, <2>3, <2>4, <2>5, <2>6, <2>7, <2>8, <2>9, <2>10, Zenon
          DEF Next, HostStep, RestStep, MainStep, SyncStep
<1>2. overdue' \in BOOLEAN
  <2>1. ASSUME MainCreates \/ Midnight \/ DaemonRestarts PROVE overdue' \in BOOLEAN
    BY <1>0, <1>f, <2>1, Zenon DEF MainCreates, Midnight, DaemonRestarts
  <2>2. ASSUME NEW f \in Folders, NEW i \in Ids, HostCreates(f, i) \/ HostResumes(f, i)
        PROVE overdue' = overdue
    BY <2>2, Zenon DEF HostCreates, HostResumes
  <2>3. ASSUME HostEnds \/ RestStep PROVE overdue' = overdue
    BY <2>3, Zenon DEF HostEnds, RestStep, ResumeAnswers, ResumeFails
  <2>4. ASSUME MainAnnounces \/ MainSaves \/ MainEnds \/ MainClears \/ Persist
        PROVE overdue' = overdue
    BY <2>4, Zenon DEF MainAnnounces, MainSaves, MainEnds, MainClears, Persist
  <2>5. ASSUME PhoneStep \/ CallLands \/ SyncStep \/ LinkStep PROVE overdue' = overdue
    BY <2>5, Zenon DEF PhoneStep, PhoneCalls, CallLands, SyncStep, SyncReads, SyncSends,
                       LinkStep, LossNoticed, Connect
  <2>6. ASSUME LinkLost \/ RailwayReceives \/ RailwayRestarts \/ GraceOver
        PROVE overdue' = overdue
    BY <2>6, Zenon DEF LinkLost, RailwayReceives, RailwayRestarts, GraceOver
  <2> QED BY <1>0, <2>1, <2>2, <2>3, <2>4, <2>5, <2>6, Zenon DEF Next, HostStep, MainStep
<1>3. gOld' \in BOOLEAN
  <2>1. ASSUME MainSaves \/ MainEnds PROVE gOld' \in BOOLEAN
    BY <1>0, <1>f, <2>1, Zenon DEF MainSaves, MainEnds
  <2>2. ASSUME Persist PROVE gOld' \in BOOLEAN
    <3>1. gOld' = FALSE \/ gOld' = overdue
      BY <2>2, Zenon DEF Persist
    <3> QED BY <1>0, <1>f, <3>1, Zenon
  <2>3. ASSUME Midnight PROVE gOld' \in BOOLEAN
    <3>1. gOld' = (gid # None)
      BY <2>3, Zenon DEF Midnight
    <3> QED BY <3>1
  <2>4. ASSUME NEW f \in Folders, NEW i \in Ids, HostCreates(f, i) \/ HostResumes(f, i)
        PROVE gOld' = gOld
    BY <2>4, Zenon DEF HostCreates, HostResumes
  <2>5. ASSUME HostEnds \/ RestStep PROVE gOld' = gOld
    BY <2>5, Zenon DEF HostEnds, RestStep, ResumeAnswers, ResumeFails
  <2>6. ASSUME MainCreates \/ MainAnnounces \/ MainClears PROVE gOld' = gOld
    BY <2>6, Zenon DEF MainCreates, MainAnnounces, MainClears
  <2>7. ASSUME PhoneStep \/ CallLands \/ SyncStep \/ LinkStep PROVE gOld' = gOld
    BY <2>7, Zenon DEF PhoneStep, PhoneCalls, CallLands, SyncStep, SyncReads, SyncSends,
                       LinkStep, LossNoticed, Connect
  <2>8. ASSUME LinkLost \/ RailwayReceives \/ RailwayRestarts \/ GraceOver \/ DaemonRestarts
        PROVE gOld' = gOld
    BY <2>8, Zenon DEF LinkLost, RailwayReceives, RailwayRestarts, GraceOver, DaemonRestarts
  <2> QED BY <1>0, <2>1, <2>2, <2>3, <2>4, <2>5, <2>6, <2>7, <2>8, Zenon
          DEF Next, HostStep, MainStep
<1> QED BY <1>1, <1>2, <1>3 DEF FlagsTypeOK

\* Type correctness is inductive.
LEMMA TypeStep ==
  ASSUME TypeOK, [Next]_vars
  PROVE  TypeOK'
<1>1. CASE Next
  <2>1. Unflagged'
    BY <1>1, HostStepType, MainStepType, OtherStepType, Zenon DEF Next
  <2>2. FlagsTypeOK'
    BY <1>1, FlagStepType
  <2> QED BY <2>1, <2>2, Zenon DEF TypeOK, Unflagged
<1>2. CASE UNCHANGED vars
  BY <1>2 DEF TypeOK, FlagsTypeOK, HostTypeOK, MemoryTypeOK, LinkTypeOK, DiskTypeOK,
              vars, hostVars, memoryVars, linkVars, diskVars
<1> QED BY <1>1, <1>2

\* The first state is well typed.
LEMMA TypeInit ==
  ASSUME Init
  PROVE  TypeOK
<1>1. FlagsTypeOK
  BY Zenon DEF Init, FlagsTypeOK
<1>2. HostTypeOK /\ MemoryTypeOK /\ LinkTypeOK /\ DiskTypeOK
  BY DEF Init, HostTypeOK, MemoryTypeOK, LinkTypeOK, DiskTypeOK
<1> QED BY <1>1, <1>2 DEF TypeOK

\* Every state is well typed.
THEOREM TypeCorrect == Spec => []TypeOK
BY TypeInit, TypeStep, PTL DEF Spec

----------------------------------------------------------------------------
(* Railway serves the running session                                      *)

\* What an announcement over a living link leaves as the last word.
LEMMA AnnounceFacts ==
  ASSUME LinkTypeOK, NEW i \in Ids \cup {None}, NEW stale, Announce(i, stale)
  PROVE  /\ link = "up" => crossed' = stale /\ LastWord' = i
         /\ link # "up" => crossed' = crossed /\ up' = up
<1>1. ASSUME link = "up" PROVE crossed' = stale /\ LastWord' = i
  <2>1. up' = Append(up, i) /\ crossed' = stale
    BY <1>1, Zenon DEF Announce
  <2>2. up' # <<>> /\ up'[Len(up')] = i
    BY <2>1, AppendFacts DEF LinkTypeOK
  <2> QED BY <2>1, <2>2, Zenon DEF LastWord
<1>2. ASSUME link # "up" PROVE crossed' = crossed /\ up' = up
  BY <1>2, Zenon DEF Announce
<1> QED BY <1>1, <1>2, Zenon

\* Receiving does not change the last word.
LEMMA ReceiveFacts ==
  ASSUME LinkTypeOK, RailwayReceives
  PROVE  LastWord' = LastWord
<1>1. up \in Seq(Ids \cup {None}) /\ up # <<>> /\ up' = Tail(up) /\ rid' = Head(up)
  BY DEF RailwayReceives, LinkTypeOK
<1>2. CASE Tail(up) = <<>>
  BY <1>1, <1>2, TailFacts DEF LastWord
<1>3. CASE Tail(up) # <<>>
  BY <1>1, <1>3, TailFacts DEF LastWord
<1> QED BY <1>2, <1>3

IInv == TypeOK /\ Told /\ ClearedFirst /\ KeptInMemory

\* The session is given up before the clear is announced, and stays so.
LEMMA ClearedStep ==
  ASSUME IInv, Next
  PROVE  ClearedFirst'
<1> USE DEF IInv, ClearedFirst, hostVars, memoryVars, linkVars, diskVars
<1>1. ASSUME NEW f \in Folders, NEW i \in Ids, HostCreates(f, i) \/ HostResumes(f, i)
      PROVE main' = main /\ name' = name
  BY <1>1, Zenon DEF HostCreates, HostResumes
<1>2. ASSUME HostEnds \/ RestStep PROVE main' = main /\ name' = name
  BY <1>2, Zenon DEF HostEnds, RestStep, ResumeAnswers, ResumeFails
<1>3. ASSUME MainCreates \/ MainAnnounces \/ MainSaves \/ MainClears \/ DaemonRestarts
      PROVE main' # "clear"
  BY <1>3 DEF MainCreates, MainAnnounces, MainSaves, MainClears, DaemonRestarts
<1>4. ASSUME MainEnds PROVE name' = None
  BY <1>4, Zenon DEF MainEnds
<1>5. ASSUME Persist \/ Midnight \/ PhoneStep \/ CallLands PROVE main' = main /\ name' = name
  BY <1>5, Zenon DEF Persist, Midnight, PhoneStep, PhoneCalls, CallLands
<1>6. ASSUME SyncStep \/ LinkStep \/ LinkLost \/ RailwayReceives \/ RailwayRestarts \/ GraceOver
      PROVE main' = main /\ name' = name
  BY <1>6, Zenon DEF SyncStep, SyncReads, SyncSends, LinkStep, LossNoticed, Connect, LinkLost,
                     RailwayReceives, RailwayRestarts, GraceOver
<1> QED BY <1>1, <1>2, <1>3, <1>4, <1>5, <1>6, Zenon DEF Next, HostStep, MainStep

\* Whoever changes the session, the link or the last word leaves an announcement owed
\* or made.
LEMMA ToldStep ==
  ASSUME IInv, Next
  PROVE  Told'
<1> USE DEF hostVars, memoryVars, linkVars, diskVars
<1>0. LinkTypeOK /\ HostTypeOK /\ MemoryTypeOK /\ Told /\ ClearedFirst
  BY DEF IInv, TypeOK
<1>n. None \notin Requests /\ None \notin Ids \cup {"idle", "start"}
  BY SessionAssumption DEF SessionAssumption
<1>1. ASSUME NEW f \in Folders, NEW i \in Ids, HostCreates(f, i) PROVE Told'
  <2>1. slot' = Create(f, i) /\ Create(f, i) \in Requests
    BY <1>1 DEF HostCreates, Requests, Creates
  <2> QED BY <1>n, <2>1, Zenon DEF Told
<1>2. ASSUME NEW f \in Folders, NEW i \in Ids, HostResumes(f, i) PROVE Told'
  BY <1>0, <1>2, Zenon DEF HostResumes, Told, Running, LastWord
<1>3. ASSUME HostEnds PROVE Told'
  <2>1. slot' = End /\ End \in Requests
    BY <1>3 DEF HostEnds, Requests
  <2> QED BY <1>n, <2>1, Zenon DEF Told
<1>4. ASSUME ResumeAnswers PROVE Told'
  <2>1. slot' = resume /\ resume \in Requests
    BY <1>0, <1>4 DEF ResumeAnswers, HostTypeOK, Requests
  <2> QED BY <1>n, <2>1, Zenon DEF Told
<1>5. ASSUME ResumeFails PROVE Told'
  BY <1>0, <1>5, Zenon DEF ResumeFails, Told, Running, LastWord
<1>6. ASSUME MainCreates PROVE Told'
  BY <1>6, Zenon DEF MainCreates, Told
<1>7. ASSUME MainAnnounces PROVE Told'
  <2>1. CASE link = "up"
    <3>1. Announce(id, FALSE) /\ id \in Ids \cup {None} /\ id' = id
      BY <1>0, <1>7, Zenon DEF MainAnnounces, MemoryTypeOK
    <3>2. LastWord' = id
      BY <1>0, <2>1, <3>1, AnnounceFacts
    <3> QED BY <3>1, <3>2, Zenon DEF Told
  <2>2. CASE link # "up"
    BY <1>7, <2>2, Zenon DEF MainAnnounces, Told
  <2> QED BY <2>1, <2>2
<1>8. ASSUME MainSaves PROVE Told'
  <2>1. main # "announce"
    BY <1>8 DEF MainSaves
  <2> QED BY <1>0, <1>8, <2>1, Zenon DEF MainSaves, Told, Running, LastWord
<1>9. ASSUME MainEnds PROVE Told'
  BY <1>9, Zenon DEF MainEnds, Told, Running
<1>10. ASSUME MainClears PROVE Told'
  BY <1>0, <1>10, Zenon DEF MainClears, ClearedFirst, Told, Running
<1>11. ASSUME Persist \/ Midnight \/ PhoneStep \/ CallLands PROVE Told'
  BY <1>0, <1>11, Zenon DEF Persist, Midnight, PhoneStep, PhoneCalls, CallLands,
                            Told, Running, LastWord
<1>12. ASSUME SyncReads PROVE Told'
  <2>1. CASE name = None \/ id = None
    BY <1>12, <2>1, Zenon DEF SyncReads, Told, Running
  <2>2. CASE ~(name = None \/ id = None)
    BY <1>12, <2>2, Zenon DEF SyncReads, Told
  <2> QED BY <2>1, <2>2, Zenon
<1>13. ASSUME SyncSends PROVE Told'
  <2>1. Announce(sync, sync # id) /\ sync \in Ids \cup {None} /\ id' = id /\ link' = link
    BY <1>13, Zenon DEF SyncSends
  <2>2. CASE link = "up" /\ sync = id
    <3>1. LastWord' = id
      BY <1>0, <2>1, <2>2, AnnounceFacts
    <3> QED BY <2>1, <3>1, Zenon DEF Told
  <2>3. CASE link = "up" /\ sync # id
    <3>1. crossed' = (sync # id)
      BY <1>0, <2>1, <2>3, AnnounceFacts
    <3>2. crossed'
      BY <2>3, <3>1
    <3> QED BY <3>2, Zenon DEF Told
  <2>4. CASE link # "up"
    BY <2>1, <2>4, Zenon DEF Told
  <2> QED BY <2>2, <2>3, <2>4, Zenon
<1>14. ASSUME LinkLost \/ LossNoticed \/ DaemonRestarts PROVE Told'
  <2>1. link' # "up"
    BY <1>14 DEF LinkLost, LossNoticed, DaemonRestarts
  <2> QED BY <2>1, Zenon DEF Told
<1>15. ASSUME Connect PROVE Told'
  BY <1>15, Zenon DEF Connect, Told
<1>16. ASSUME RailwayReceives PROVE Told'
  <2>1. LastWord' = LastWord
    BY <1>0, <1>16, ReceiveFacts
  <2> QED BY <1>0, <1>16, <2>1, Zenon DEF RailwayReceives, Told, Running
<1>17. ASSUME RailwayRestarts \/ GraceOver PROVE Told'
  <2>1. link' # "up"
    BY <1>17 DEF RailwayRestarts, GraceOver, linkVars
  <2> QED BY <2>1, Zenon DEF Told
<1> QED
  BY <1>1, <1>2, <1>3, <1>4, <1>5, <1>6, <1>7, <1>8, <1>9, <1>10, <1>11, <1>12, <1>13, <1>14,
     <1>15, <1>16, <1>17, Zenon DEF Next, HostStep, RestStep, MainStep, SyncStep, LinkStep

\* The memory of a running session is never behind its folder.
LEMMA KeptStep ==
  ASSUME IInv, Next
  PROVE  KeptInMemory' /\ \A f \in Folders : Restored(data[f]) \subseteq data'[f]
<1> USE DEF hostVars, memoryVars, linkVars, diskVars
<1>0. DiskTypeOK /\ HostTypeOK /\ MemoryTypeOK /\ KeptInMemory
  BY DEF IInv, TypeOK
<1> DEFINE Goal == KeptInMemory' /\ \A f \in Folders : Restored(data[f]) \subseteq data'[f]
<1>s. ASSUME name' = name, cache' = cache, data' = data PROVE Goal
  BY <1>0, <1>s, RestoredPart DEF KeptInMemory
<1> HIDE DEF Goal
<1>1. ASSUME NEW f \in Folders, NEW i \in Ids, HostCreates(f, i) \/ HostResumes(f, i) PROVE Goal
  BY <1>s, <1>1, Zenon DEF HostCreates, HostResumes
<1>2. ASSUME HostEnds \/ RestStep PROVE Goal
  BY <1>s, <1>2, Zenon DEF HostEnds, RestStep, ResumeAnswers, ResumeFails
<1>3. ASSUME MainCreates PROVE Goal
  <2>1. data' = data
    BY <1>3, Zenon DEF MainCreates
  <2>2. CASE name = None
    <3>1. name' = slot.folder /\ cache' = Restored(data[slot.folder])
      BY <1>3, <2>2, Zenon DEF MainCreates, Load
    <3> QED BY <2>1, <3>1, RestoredPart DEF Goal, KeptInMemory
  <2>3. CASE name # None
    <3>1. name' = name /\ cache' = cache
      BY <1>3, <2>3, Zenon DEF MainCreates
    <3> QED BY <1>s, <2>1, <3>1
  <2> QED BY <2>2, <2>3
<1>4. ASSUME MainAnnounces \/ MainSaves \/ MainClears \/ Midnight PROVE Goal
  BY <1>s, <1>4, Zenon DEF MainAnnounces, MainSaves, MainClears, Midnight
<1>5. ASSUME MainEnds PROVE Goal
  <2>1. CASE name = None
    BY <1>s, <1>5, <2>1, Zenon DEF MainEnds
  <2>2. CASE name # None
    <3>1. name' = None /\ data' = [data EXCEPT ![name] = cache]
      BY <1>5, <2>2, Zenon DEF MainEnds
    <3>2. ASSUME NEW f \in Folders PROVE Restored(data[f]) \subseteq data'[f]
      BY <1>0, <2>2, <3>1, RestoredPart DEF KeptInMemory, DiskTypeOK
    <3> QED BY <3>1, <3>2 DEF Goal, KeptInMemory
  <2> QED BY <2>1, <2>2
<1>6. ASSUME Persist PROVE Goal
  <2>1. CASE name = None
    BY <1>s, <1>6, <2>1, Zenon DEF Persist
  <2>2. CASE name # None
    <3>1. name' = name /\ cache' = cache /\ data' = [data EXCEPT ![name] = cache]
      BY <1>6, <2>2, Zenon DEF Persist
    <3>2. ASSUME NEW f \in Folders PROVE Restored(data[f]) \subseteq data'[f]
      BY <1>0, <2>2, <3>1, RestoredPart DEF KeptInMemory, DiskTypeOK
    <3>3. data'[name] = cache
      BY <1>0, <2>2, <3>1 DEF MemoryTypeOK, DiskTypeOK
    <3> QED BY <3>1, <3>2, <3>3, RestoredPart DEF Goal, KeptInMemory
  <2> QED BY <2>1, <2>2
<1>7. ASSUME PhoneStep \/ SyncStep \/ LinkStep PROVE Goal
  BY <1>s, <1>7, Zenon DEF PhoneStep, PhoneCalls, SyncStep, SyncReads, SyncSends,
                           LinkStep, LossNoticed, Connect
<1>8. ASSUME CallLands PROVE Goal
  <2>1. name' = name /\ data' = data /\ cache \subseteq cache'
    BY <1>8 DEF CallLands
  <2> QED BY <1>0, <2>1, RestoredPart DEF Goal, KeptInMemory
<1>9. ASSUME LinkLost \/ RailwayReceives \/ RailwayRestarts \/ GraceOver PROVE Goal
  BY <1>s, <1>9, Zenon DEF LinkLost, RailwayReceives, RailwayRestarts, GraceOver
<1>10. ASSUME DaemonRestarts PROVE Goal
  <2>1. data' = data /\ (name' # None => cache' = Restored(data[name']))
    BY <1>10, Zenon DEF DaemonRestarts, Load
  <2> QED BY <2>1, RestoredPart DEF Goal, KeptInMemory
<1>11. Goal
  BY <1>1, <1>2, <1>3, <1>4, <1>5, <1>6, <1>7, <1>8, <1>9, <1>10, Zenon
     DEF Next, HostStep, MainStep
<1> QED BY <1>11 DEF Goal

\* The inductive invariant holds initially ...
LEMMA InvInit ==
  ASSUME Init
  PROVE  IInv
<1>1. Told /\ ClearedFirst /\ KeptInMemory
  BY Zenon DEF Init, Told, Running, ClearedFirst, KeptInMemory
<1> QED BY <1>1, TypeInit DEF IInv

\* ... and every step keeps it.
LEMMA InvStep ==
  ASSUME IInv, [Next]_vars
  PROVE  IInv'
<1>1. TypeOK'
  BY TypeStep DEF IInv
<1>2. CASE Next
  BY <1>1, <1>2, ToldStep, ClearedStep, KeptStep, Zenon DEF IInv
<1>3. CASE UNCHANGED vars
  <2>1. Told' /\ ClearedFirst' /\ KeptInMemory'
    BY <1>3, Zenon DEF IInv, Told, Running, LastWord, ClearedFirst, KeptInMemory,
                       vars, hostVars, memoryVars, linkVars, diskVars
  <2> QED BY <1>1, <2>1 DEF IInv
<1> QED BY <1>2, <1>3

\* The inductive invariant: the last word said to Railway is the running session,
\* unless somebody still owes the announcement.
THEOREM LifecycleInvariant == Spec => []IInv
BY InvInit, InvStep, PTL DEF Spec

\* Once things are quiet, Railway serves the session that is running.
THEOREM RunningServed == Spec => []RunningIsServed
<1>1. IInv => RunningIsServed
  <2> SUFFICES ASSUME IInv, Quiet, Running, ~crossed PROVE rid = id
    BY DEF RunningIsServed
  <2>1. LastWord = id \/ sync = id
    BY DEF IInv, Told, Quiet
  <2>2. LastWord = rid
    BY DEF LastWord, Quiet
  <2>3. sync # id
    BY SessionAssumption DEF SessionAssumption, IInv, TypeOK, MemoryTypeOK, Running, Quiet
  <2> QED BY <2>1, <2>2, <2>3
<1> QED BY <1>1, LifecycleInvariant, PTL

\* No backup of a folder forgets a restored activity that an earlier one held.
THEOREM BackupsGrow == Spec => ActivitiesSurvive
<1>1. ASSUME IInv, [Next]_vars
      PROVE  [\A f \in Folders : Restored(data[f]) \subseteq data'[f]]_vars
  BY <1>1, KeptStep, Zenon
<1> QED BY <1>1, LifecycleInvariant, PTL DEF Spec, ActivitiesSurvive
----------------------------------------------------------------------------
(* A restart of the daemon                                                 *)

\* What the promise rests on: one host who uses the landing page and waits for it, new names
\* for new sessions, and no folder of today that a restart without an id would choose.
Landing == PageFlow = TRUE /\ FreshNames = TRUE /\ Today = None

\* An id is generated once and is in one folder.
OneFolder == \A f, g \in Folders : fid[f] # None /\ fid[f] = fid[g] => f = g
Generated == \A f \in Folders : fid[f] \in used \cup {None}

\* A request to start is made when nothing runs, with the id of its folder or with a new one
\* for a folder that has none.
Sound(r) ==
  /\ name = None /\ id = None /\ main = "idle" /\ r.id \in used
  /\ fid[r.folder] # r.id => fid[r.folder] = None /\ \A g \in Folders : fid[g] # r.id
Asked ==
  /\ slot \in Creates => Sound(slot)
  /\ resume \in Creates => Sound(resume) /\ slot = None

\* The session that runs is the one its folder names; what a restart reads is the same
\* between two requests, and is in a folder at every moment.
InItsFolder == (name = None <=> id = None) /\ (name # None => fid[name] = id)
Saved == (main = "idle" => gid = id) /\ (main = "clear" => id = None /\ gid = None)
Found == gid # None => \E f \in Folders : fid[f] = gid

DiskInv == OneFolder /\ Generated /\ Asked /\ InItsFolder /\ Saved /\ Found

diskly == <<slot, resume, used, name, id, fid, gid>>

\* The special values are none of the requests to start.
LEMMA Apart ==
  ASSUME SessionAssumption
  PROVE  /\ None \notin Ids /\ None \notin Folders /\ None \notin Creates
         /\ End \notin Creates /\ None # End
<1>1. ASSUME NEW f \in Folders, NEW i \in Ids, End = Create(f, i) PROVE FALSE
  <2>1. End.action = "end" /\ Create(f, i).action = "create"
    BY DEF End, Create
  <2> QED BY <1>1, <2>1
<1>2. End \notin Creates
  BY <1>1 DEF Creates
<1>3. None \notin Ids /\ None \notin Folders /\ None \notin Creates /\ None # End
  BY DEF SessionAssumption, Requests
<1> QED BY <1>2, <1>3

\* A step that changes nothing of this, and leaves the main loop where it is, or announcing.
LEMMA DiskKept ==
  ASSUME DiskInv, UNCHANGED diskly,
         \/ main' = main
         \/ main = "announce" /\ main' = "save"
         \/ main = "clear" /\ main' = "idle"
  PROVE  DiskInv'
<1> USE DEF DiskInv, diskly
<1>1. OneFolder' /\ Generated' /\ InItsFolder' /\ Found'
  BY DEF OneFolder, Generated, InItsFolder, Found
<1>2. Saved'
  BY DEF Saved
<1>3. Asked'
  BY DEF Asked, Sound
<1> QED BY <1>1, <1>2, <1>3

\* What the host asks for at the landing page is sound.
LEMMA HostStepDisk ==
  ASSUME SessionAssumption, Landing, TypeOK, DiskInv, HostStep \/ RestStep
  PROVE  DiskInv'
<1> USE DEF DiskInv, hostVars, memoryVars, diskVars
<1>n. None \notin Ids /\ End \notin Creates /\ None \notin Creates /\ None # End
  BY Apart
<1>1. ASSUME NEW f \in Folders, NEW i \in Ids, HostCreates(f, i) PROVE DiskInv'
  <2>1. /\ slot' = Create(f, i) /\ used' = used \cup {i} /\ i \notin used
        /\ fid[f] = None /\ Patient /\ id = None
        /\ UNCHANGED <<resume, name, id, main, fid, gid>>
    BY <1>1 DEF HostCreates, MayStart, Landing
  <2>2. Create(f, i) \in Creates /\ Create(f, i).folder = f /\ Create(f, i).id = i
    BY DEF Creates, Create
  <2>3. \A g \in Folders : fid[g] # i
    BY <2>1, <1>n DEF Generated
  <2>4. Asked'
    BY <2>1, <2>2, <2>3, <1>n DEF Asked, Sound, Patient, InItsFolder
  <2>5. Generated'
    BY <2>1 DEF Generated
  <2> QED BY <2>1, <2>4, <2>5 DEF OneFolder, InItsFolder, Saved, Found
<1>2. ASSUME NEW f \in Folders, NEW i \in Ids, HostResumes(f, i) PROVE DiskInv'
  <2>1. /\ resume' = Create(f, i) /\ used' = used \cup {i} /\ Patient /\ id = None
        /\ IF fid[f] = None THEN i \notin used ELSE i = fid[f]
        /\ UNCHANGED <<slot, name, id, main, fid, gid>>
    BY <1>2 DEF HostResumes, MayStart, Landing
  <2>2. Create(f, i) \in Creates /\ Create(f, i).folder = f /\ Create(f, i).id = i
    BY DEF Creates, Create
  <2>3. fid[f] # i => fid[f] = None /\ \A g \in Folders : fid[g] # i
    BY <2>1, <1>n DEF Generated
  <2>4. Asked'
    BY <2>1, <2>2, <2>3, <1>n DEF Asked, Sound, Patient, InItsFolder
  <2>5. Generated'
    BY <2>1 DEF Generated
  <2> QED BY <2>1, <2>4, <2>5 DEF OneFolder, InItsFolder, Saved, Found
<1>3. CASE HostEnds
  <2>1. /\ slot' = End /\ Patient /\ UNCHANGED <<resume, used, name, id, main, fid, gid>>
    BY <1>3 DEF HostEnds, MayEnd, Landing
  <2>2. Asked'
    BY <2>1, <1>n DEF Asked, Patient
  <2> QED BY <2>1, <2>2 DEF OneFolder, Generated, InItsFolder, Saved, Found
<1>4. CASE ResumeAnswers
  <2>1. /\ slot' = resume /\ resume' = None /\ resume # None
        /\ UNCHANGED <<used, name, id, main, fid, gid>>
    BY <1>4 DEF ResumeAnswers
  <2>2. resume \in Creates
    BY <2>1 DEF TypeOK, HostTypeOK
  <2>3. Asked'
    BY <2>1, <2>2, <1>n DEF Asked, Sound
  <2> QED BY <2>1, <2>3 DEF OneFolder, Generated, InItsFolder, Saved, Found
<1>5. CASE ResumeFails
  <2>1. resume' = None /\ UNCHANGED <<slot, used, name, id, main, fid, gid>>
    BY <1>5 DEF ResumeFails
  <2>2. Asked'
    BY <2>1, <1>n DEF Asked, Sound
  <2> QED BY <2>1, <2>2 DEF OneFolder, Generated, InItsFolder, Saved, Found
<1> QED BY <1>1, <1>2, <1>3, <1>4, <1>5 DEF HostStep, RestStep

\* The main loop writes the id where a restart looks for it.
LEMMA MainStepDisk ==
  ASSUME SessionAssumption, Landing, TypeOK, DiskInv, MainStep \/ Persist \/ Midnight
  PROVE  DiskInv'
<1> USE DEF DiskInv, hostVars, memoryVars, diskVars
<1>n. None \notin Ids /\ None \notin Folders /\ End \notin Creates /\ None \notin Creates
  BY Apart
<1>1. CASE MainCreates
  <2> DEFINE f == slot.folder
             i == slot.id
  <2>1. slot \in Creates /\ Sound(slot)
    BY <1>1 DEF MainCreates, TypeOK, HostTypeOK, Requests, Asked
  <2>2. f \in Folders /\ i \in Ids
    BY <2>1, CreateType
  <2>3. /\ name = None /\ id' = i /\ name' = f /\ slot' = None /\ main' = "announce"
        /\ fid' = IF fid[f] = None THEN [fid EXCEPT ![f] = i] ELSE fid
        /\ UNCHANGED <<resume, used, gid>>
    BY <1>1, <2>1 DEF MainCreates, Sound
  <2>4. i \in used /\ (fid[f] # i => fid[f] = None /\ \A g \in Folders : fid[g] # i)
    BY <2>1 DEF Sound
  <2>5. resume \notin Creates
    BY <2>1, <1>n DEF Asked
  <2>6. fid \in [Folders -> Ids \cup {None}]
    BY DEF TypeOK, DiskTypeOK
  <2> HIDE DEF f, i
  <2>7. fid'[f] = i /\ \A g \in Folders : fid'[g] = fid[g] \/ fid[g] = None
    BY <2>2, <2>3, <2>4, <2>6
  <2>8. OneFolder'
    BY <2>2, <2>3, <2>4, <2>6 DEF OneFolder
  <2>9. Generated'
    BY <2>2, <2>3, <2>4, <2>6 DEF Generated
  <2>10. Found'
    BY <2>3, <2>7 DEF Found
  <2>11. InItsFolder'
    BY <2>2, <2>3, <2>7, <1>n DEF InItsFolder
  <2>12. Asked'
    BY <2>3, <2>5, <1>n DEF Asked
  <2>13. Saved'
    BY <2>3 DEF Saved
  <2> QED BY <2>8, <2>9, <2>10, <2>11, <2>12, <2>13
<1>2. CASE MainAnnounces \/ MainClears \/ Midnight
  <2>1. UNCHANGED diskly
    BY <1>2 DEF MainAnnounces, MainClears, Midnight, diskly
  <2>2. \/ main' = main
        \/ main = "announce" /\ main' = "save"
        \/ main = "clear" /\ main' = "idle"
    BY <1>2 DEF MainAnnounces, MainClears, Midnight
  <2> QED BY <2>1, <2>2, DiskKept
<1>3. CASE MainSaves \/ Persist
  <2>1. /\ gid' = id /\ main' = "idle" /\ main \in {"save", "idle"}
        /\ UNCHANGED <<slot, resume, used, name, id, fid>>
    BY <1>3 DEF MainSaves, Persist, Looping
  <2>2. Found'
    BY <2>1, <1>n DEF Found, InItsFolder, TypeOK, MemoryTypeOK
  <2>3. Asked'
    BY <2>1 DEF Asked, Sound
  <2> QED BY <2>1, <2>2, <2>3 DEF OneFolder, Generated, InItsFolder, Saved
<1>4. CASE MainEnds
  <2>1. slot' = None /\ UNCHANGED <<resume, used, fid>> /\ main = "idle"
    BY <1>4 DEF MainEnds, Looping
  <2>2. CASE name = None
    <3>1. UNCHANGED <<name, id, main, gid>>
      BY <1>4, <2>2 DEF MainEnds
    <3>2. Asked'
      BY <2>1, <3>1, <1>n DEF Asked, Sound
    <3> QED BY <2>1, <3>1, <3>2 DEF OneFolder, Generated, InItsFolder, Saved, Found
  <2>3. CASE name # None
    <3>1. name' = None /\ id' = None /\ gid' = None /\ main' = "clear"
      BY <1>4, <2>3 DEF MainEnds
    <3>2. Asked'
      BY <2>1, <2>3, <3>1, <1>n DEF Asked, Sound
    <3> QED BY <2>1, <3>1, <3>2 DEF OneFolder, Generated, InItsFolder, Saved, Found
  <2> QED BY <2>2, <2>3
<1> QED BY <1>1, <1>2, <1>3, <1>4 DEF MainStep

\* A restart reads it back.
LEMMA RestartDisk ==
  ASSUME SessionAssumption, Landing, TypeOK, DiskInv, DaemonRestarts
  PROVE  DiskInv'
<1> USE DEF DiskInv
<1>1. /\ id' = gid /\ slot' = None /\ resume' = None /\ main' = "idle"
      /\ UNCHANGED <<used, fid, gid>>
      /\ IF FolderOf(gid) # {} THEN name' \in FolderOf(gid) ELSE name' = None
  BY DEF DaemonRestarts, Landing, diskVars
<1>2. None \notin Creates /\ None \notin Folders
  BY DEF SessionAssumption, Requests
<1>3. InItsFolder'
  <2>1. CASE gid = None
    BY <2>1, <1>1 DEF InItsFolder, FolderOf
  <2>2. CASE gid # None
    <3>1. FolderOf(gid) # {}
      BY <2>2 DEF Found, FolderOf
    <3> QED BY <2>2, <3>1, <1>1, <1>2 DEF InItsFolder, FolderOf
  <2> QED BY <2>1, <2>2
<1> QED BY <1>1, <1>2, <1>3 DEF OneFolder, Generated, Asked, Saved, Found

\* Whenever the main loop is between two requests, a restart of the daemon finds the session it
\* runs, in its folder and no other: for any folders, ids, requests, losses and restarts.
THEOREM RestartFindsIt == Landing /\ Spec => []RestartKeepsTheSession
<1> SUFFICES ASSUME Landing PROVE Spec => []RestartKeepsTheSession
  OBVIOUS
<1>1. Init => DiskInv
  <2> SUFFICES ASSUME Init PROVE DiskInv
    OBVIOUS
  <2>1. None \notin Creates
    BY SessionAssumption DEF SessionAssumption, Requests
  <2> QED BY <2>1 DEF Init, DiskInv, OneFolder, Generated, Asked, InItsFolder, Saved, Found
<1>2. TypeOK /\ DiskInv /\ [Next]_vars => DiskInv'
  <2> SUFFICES ASSUME TypeOK, DiskInv, [Next]_vars PROVE DiskInv'
    OBVIOUS
  <2>1. ASSUME \/ PhoneStep \/ CallLands \/ SyncStep \/ LinkStep \/ LinkLost
               \/ RailwayReceives \/ RailwayRestarts \/ GraceOver \/ UNCHANGED vars
        PROVE  DiskInv'
    <3>1. UNCHANGED diskly /\ main' = main
      BY <2>1, Zenon DEF PhoneStep, PhoneCalls, CallLands, SyncStep, SyncReads, SyncSends,
         LinkStep, LossNoticed, Connect, LinkLost, RailwayReceives, RailwayRestarts, GraceOver,
         vars, hostVars, memoryVars, diskVars, diskly
    <3> QED BY <3>1, DiskKept
  <2> QED BY <2>1, HostStepDisk, MainStepDisk, RestartDisk, SessionAssumption DEF Next
<1>3. TypeOK /\ DiskInv => RestartKeepsTheSession
  BY DEF DiskInv, OneFolder, InItsFolder, Saved, RestartKeepsTheSession, FolderOf, TypeOK,
     MemoryTypeOK
<1> QED BY <1>1, <1>2, <1>3, TypeCorrect, PTL DEF Spec

=============================================================================
