--------------------------- MODULE RecordsProofs ---------------------------
(***************************************************************************)
(* That the services of Records keep what they record.  Each has an         *)
(* inductive invariant of its own, stated at the end of its module; it is   *)
(* shown to hold at the start and to be preserved by every action, and what *)
(* Records composes then has the conjunction.                               *)
(***************************************************************************)
EXTENDS Records, SequencesExt, Functions, FiniteSetTheorems, SequenceTheorems,
        NaturalsInduction, WellFoundedInduction, TLAPS

----------------------------------------------------------------------------
(* What the add-on knows of the session                                     *)

\* What comes after a message is sent is the message, and hearing one changes nothing of it.
LEMMA WireFacts ==
  /\ \A s \in Seq(Link!Messages), m \in Link!Messages :
       Append(s, m) \in Seq(Link!Messages) /\ Append(s, m) # <<>>
           /\ Append(s, m)[Len(Append(s, m))] = m
  /\ \A s \in Seq(Link!Messages) : s # <<>> =>
       /\ Head(s) \in Link!Messages /\ Tail(s) \in Seq(Link!Messages)
              /\ s[Len(s)] \in Link!Messages
       /\ Len(s) \in DOMAIN s
       /\ Tail(s) = <<>> => s[Len(s)] = Head(s)
       /\ Tail(s) # <<>> => Tail(s)[Len(Tail(s))] = s[Len(s)]
<1>1. \A s \in Seq(Link!Messages), m \in Link!Messages :
        Append(s, m) \in Seq(Link!Messages) /\ Append(s, m) # <<>>
            /\ Append(s, m)[Len(Append(s, m))] = m
  OBVIOUS
<1>2. ASSUME NEW s \in Seq(Link!Messages), s # <<>>
      PROVE  /\ Head(s) \in Link!Messages /\ Tail(s) \in Seq(Link!Messages)
                    /\ s[Len(s)] \in Link!Messages
             /\ Len(s) \in DOMAIN s
             /\ Tail(s) = <<>> => s[Len(s)] = Head(s)
             /\ Tail(s) # <<>> => Tail(s)[Len(Tail(s))] = s[Len(s)]
  <2>1. Head(s) \in Link!Messages /\ Tail(s) \in Seq(Link!Messages) /\ s[Len(s)] \in Link!Messages
        /\ Len(s) \in DOMAIN s /\ Len(s) \in Nat /\ Len(s) > 0
    BY <1>2
  <2>2. Len(Tail(s)) = Len(s) - 1
    BY <1>2
  <2>5. \A i \in 1..(Len(s) - 1) : Tail(s)[i] = s[i + 1]
    BY <1>2
  <2>3. ASSUME Tail(s) = <<>> PROVE s[Len(s)] = Head(s)
    <3>0. \A t : t = <<>> => Len(t) = 0
      OBVIOUS
    <3>1. Len(Tail(s)) = 0
      BY <2>3, <3>0
    <3>3. \A a \in Nat : a - 1 = 0 => a = 1
      OBVIOUS
    <3>2. Len(s) = 1
      BY <2>1, <2>2, <3>1, <3>3
    <3> QED BY <1>2, <3>2
  <2>4. ASSUME Tail(s) # <<>> PROVE Tail(s)[Len(Tail(s))] = s[Len(s)]
    <3>1. Len(Tail(s)) # 0 /\ Len(Tail(s)) \in Nat
      BY <2>1, <2>4
    <3>4. \A a \in Nat : a - 1 # 0 /\ a > 0 => a - 1 \in 1..(a - 1) /\ (a - 1) + 1 = a
      OBVIOUS
    <3>2. Len(s) - 1 \in 1..(Len(s) - 1) /\ (Len(s) - 1) + 1 = Len(s)
      BY <2>1, <2>2, <3>1, <3>4
    <3>3. Tail(s)[Len(s) - 1] = s[(Len(s) - 1) + 1]
      BY <2>5, <3>2
    <3> QED BY <2>2, <3>2, <3>3
  <2> QED BY <2>1, <2>3, <2>4
<1> QED BY <1>1, <1>2

\* Nothing is known and nothing under way at the start.
LEMMA LinkStarts == Link!LinkAssumption /\ Link!Init => Link!LinkInv
<1> SUFFICES ASSUME Link!LinkAssumption, Link!Init PROVE Link!LinkInv
  OBVIOUS
<1> USE DEF Link!Init
<1>1. Link!LinkTypeOK
  <2>1. loopAt \in [step : {"idle", "config", "send", "tell", "save"},
            dir : Folders \cup {Nothing}]
        /\ callback \in [step : {"off", "read", "folder", "send"}, id : SessionIds \cup {Nothing},
                      dir : Folders \cup {Nothing}]
        /\ callback.step \notin {"folder", "send"}
    OBVIOUS
  <2>2. addonWire \in Seq(Link!Messages) /\ overlay \in Link!Messages
    BY DEF Link!Messages
  <2>3. {addonLinked, idRaced, missed, renamed} \subseteq BOOLEAN
    OBVIOUS
  <2> QED BY <2>1, <2>2, <2>3 DEF Link!LinkTypeOK
<1>2. Link!Orderly /\ Link!Heard
  BY DEF Link!Orderly, Link!Heard, Link!Idle, Link!Coming
<1> QED BY <1>1, <1>2 DEF Link!LinkInv

\* What the main loop does.
LEMMA LoopSteps ==
  ASSUME Link!LinkAssumption, Link!LinkInv,
         \/ \E s \in SessionIds : Link!CreateOver(s) \/ \E dir \in Folders : Link!Create(s, dir)
         \/ \E dir \in Folders : Link!Rename(dir)
         \/ Link!SetFolder \/ Link!Resume \/ Link!End \/ Link!SaveEnded
  PROVE  Link!LinkInv'
<1>t. Link!LinkTypeOK /\ Link!Orderly /\ Link!Heard
  BY DEF Link!LinkInv
<1> USE DEF Link!Idle, Link!Does, Link!Races, Link!LinkTypeOK
<1>1. UNCHANGED <<addonLinked, addonWire, callback, overlay, missed>>
  BY DEF Link!CreateOver, Link!Create, Link!Rename, Link!SetFolder, Link!Resume, Link!End,
      Link!SaveEnded
<1>2. Link!Coming' = Link!Coming
  BY <1>1 DEF Link!Coming
<1>3. Link!LinkTypeOK'
  <2>b. {idRaced', renamed'} \subseteq BOOLEAN
    BY <1>t DEF Link!CreateOver, Link!Create, Link!Rename, Link!SetFolder, Link!Resume, Link!End,
        Link!SaveEnded
  <2>1. CASE \E s \in SessionIds : Link!CreateOver(s)
    BY <1>t, <1>1, <2>b, <2>1 DEF Link!CreateOver
  <2>2. CASE \E s \in SessionIds, dir \in Folders : Link!Create(s, dir)
    BY <1>t, <1>1, <2>b, <2>2 DEF Link!Create
  <2>3. CASE \E dir \in Folders : Link!Rename(dir)
    BY <1>t, <1>1, <2>b, <2>3 DEF Link!Rename
  <2>4. CASE Link!SetFolder
    BY <1>t, <1>1, <2>b, <2>4 DEF Link!SetFolder
  <2>5. CASE Link!Resume
    BY <1>t, <1>1, <2>b, <2>5 DEF Link!Resume
  <2>6. CASE Link!End
    BY <1>t, <1>1, <2>b, <2>6 DEF Link!End
  <2>7. CASE Link!SaveEnded
    BY <1>t, <1>1, <2>b, <2>7 DEF Link!SaveEnded
  <2> QED BY <2>1, <2>2, <2>3, <2>4, <2>5, <2>6, <2>7
<1>4. Link!Orderly'
  <2>1. CASE \E s \in SessionIds : Link!CreateOver(s)
    BY <1>t, <1>1, <2>1 DEF Link!CreateOver, Link!Orderly, Link!LinkAssumption
  <2>2. CASE \E s \in SessionIds, dir \in Folders : Link!Create(s, dir)
    BY <1>t, <1>1, <2>2 DEF Link!Create, Link!Orderly, Link!LinkAssumption
  <2>3. CASE \E dir \in Folders : Link!Rename(dir)
    BY <1>t, <1>1, <2>3 DEF Link!Rename, Link!Orderly, Link!LinkAssumption
  <2>4. CASE Link!SetFolder
    BY <1>t, <1>1, <2>4 DEF Link!SetFolder, Link!Orderly, Link!LinkAssumption
  <2>5. CASE Link!Resume
    BY <1>t, <1>1, <2>5 DEF Link!Resume, Link!Orderly, Link!LinkAssumption
  <2>6. CASE Link!End
    BY <1>t, <1>1, <2>6 DEF Link!End, Link!Orderly, Link!LinkAssumption
  <2>7. CASE Link!SaveEnded
    BY <1>t, <1>1, <2>7 DEF Link!SaveEnded, Link!Orderly, Link!LinkAssumption
  <2> QED BY <2>1, <2>2, <2>3, <2>4, <2>5, <2>6, <2>7
<1>5. Link!Heard'
  BY <1>t, <1>1, <1>2 DEF Link!CreateOver, Link!Create, Link!Rename, Link!SetFolder, Link!Resume,
      Link!End, Link!SaveEnded, Link!Orderly,
     Link!Heard, Link!LinkAssumption
<1> QED BY <1>3, <1>4, <1>5 DEF Link!LinkInv

\* What is said.
LEMMA TalkSteps ==
  ASSUME Link!LinkAssumption, Link!LinkInv, Link!SendStarted \/ Link!SendEnded \/ Link!SendActive
  PROVE  Link!LinkInv'
<1>t. Link!LinkTypeOK /\ Link!Orderly /\ Link!Heard
  BY DEF Link!LinkInv
<1> USE DEF Link!Idle, Link!Does, Link!Races, Link!LinkTypeOK
<1>1. ASSUME NEW m \in Link!Messages, Link!Send(m)
      PROVE  /\ addonWire' \in Seq(Link!Messages) /\ (~addonLinked => addonWire' = <<>>)
             /\ (addonLinked => Link!Coming' = m) /\ (~addonLinked /\ UNCHANGED overlay
                    => Link!Coming' = Link!Coming)
  <2>1. CASE addonLinked
    BY <1>1, <1>t, <2>1, WireFacts DEF Link!Send, Link!Coming
  <2>2. CASE ~addonLinked
    BY <1>1, <1>t, <2>2 DEF Link!Send, Link!Coming, Link!Orderly
  <2> QED BY <2>1, <2>2
<1>2. CASE Link!SendStarted
  <2>1. /\ loopAt.step = "send" /\ loopAt' = [loopAt EXCEPT !.step = "idle"]
               /\ Link!Send(Link!Started(activeId, folder))
        /\ idRaced' = (idRaced \/ callback.step # "off")
        /\ UNCHANGED <<activeId, folder, addonLinked, callback, overlay, missed, renamed>>
    BY <1>2 DEF Link!SendStarted
  <2>2. Link!Started(activeId, folder) \in Link!Messages /\ activeId # Nothing
    BY <1>t, <2>1 DEF Link!Orderly, Link!Started, Link!Messages
  <2>3. Link!LinkTypeOK'
    BY <1>t, <1>1, <2>1, <2>2
  <2>4. Link!Orderly'
    BY <1>t, <1>1, <2>1, <2>2 DEF Link!Orderly
  <2>5. Link!Heard'
    BY <1>t, <1>1, <2>1, <2>2 DEF Link!Heard, Link!Started
  <2> QED BY <2>3, <2>4, <2>5 DEF Link!LinkInv
<1>3. CASE Link!SendEnded
  <2>1. /\ loopAt.step = "tell" /\ loopAt' = [loopAt EXCEPT !.step = "save"] /\ Link!Send(Nothing)
        /\ idRaced' = (idRaced \/ callback.step # "off") /\ missed' = (missed \/ ~addonLinked)
        /\ UNCHANGED <<activeId, folder, addonLinked, callback, overlay, renamed>>
    BY <1>3 DEF Link!SendEnded
  <2>2. Nothing \in Link!Messages
    BY DEF Link!Messages
  <2>m. missed' \in BOOLEAN /\ idRaced' \in BOOLEAN
    BY <2>1, <1>t
  <2>3. Link!LinkTypeOK'
    BY <1>t, <1>1, <2>1, <2>2, <2>m
  <2>4. Link!Orderly'
    BY <1>t, <1>1, <2>1, <2>2 DEF Link!Orderly
  <2>5. Link!Heard'
    BY <1>t, <1>1, <2>1, <2>2 DEF Link!Heard
  <2> QED BY <2>3, <2>4, <2>5 DEF Link!LinkInv
<1>4. CASE Link!SendActive
  <2>1. /\ callback.step = "send" /\ Link!Send(Link!Started(callback.id, callback.dir))
        /\ callback' = [step |-> "off", id |-> Nothing, dir |-> Nothing]
        /\ UNCHANGED <<activeId, folder, loopAt, addonLinked, overlay, idRaced, missed, renamed>>
    BY <1>4 DEF Link!SendActive, Link!untouched
  <2>2. ~idRaced => activeId # Nothing /\ callback.id = activeId /\ callback.dir = folder
            /\ Link!Idle
    BY <1>t, <2>1 DEF Link!Orderly
  <2>3. Link!Started(callback.id, callback.dir) \in Link!Messages
    BY <1>t, <2>1 DEF Link!Started, Link!Messages
  <2>4. Link!LinkTypeOK'
    BY <1>t, <1>1, <2>1, <2>3
  <2>5. Link!Orderly'
    BY <1>t, <1>1, <2>1, <2>2, <2>3 DEF Link!Orderly
  <2>6. Link!Heard'
    BY <1>t, <1>1, <2>1, <2>2, <2>3 DEF Link!Heard, Link!Started, Link!Orderly
  <2> QED BY <2>4, <2>5, <2>6 DEF Link!LinkInv
<1> QED BY <1>2, <1>3, <1>4

\* What the link and the add-on do.
LEMMA WireSteps ==
  ASSUME Link!LinkAssumption, Link!LinkInv, Link!Connect \/ Link!ReadActive \/ Link!ReadFolder
         \/ Link!Hear \/ Link!Disconnect
  PROVE  Link!LinkInv'
<1>t. Link!LinkTypeOK /\ Link!Orderly /\ Link!Heard
  BY DEF Link!LinkInv
<1> USE DEF Link!Idle, Link!LinkTypeOK
<1>1. UNCHANGED <<activeId, folder, loopAt, renamed>>
  BY DEF Link!Connect, Link!ReadActive, Link!ReadFolder, Link!Hear, Link!Disconnect, Link!untouched
<1>2. CASE Link!Connect \/ Link!ReadActive \/ Link!ReadFolder
  <2>1. UNCHANGED <<addonWire, overlay, missed>>
    BY <1>2 DEF Link!Connect, Link!ReadActive, Link!ReadFolder, Link!untouched
  <2>2. Link!Coming' = Link!Coming
    BY <2>1 DEF Link!Coming
  <2>3. Link!LinkTypeOK'
    <3>1. addonLinked' \in BOOLEAN /\ idRaced' \in BOOLEAN
      BY <1>t, <1>2 DEF Link!Connect, Link!ReadActive, Link!ReadFolder, Link!untouched
    <3>2. CASE Link!Connect
      BY <1>t, <1>1, <2>1, <3>1, <3>2 DEF Link!Connect
    <3>3. CASE Link!ReadActive
      BY <1>t, <1>1, <2>1, <3>1, <3>3 DEF Link!ReadActive
    <3>4. CASE Link!ReadFolder
      BY <1>t, <1>1, <2>1, <3>1, <3>4 DEF Link!ReadFolder
    <3> QED BY <1>2, <3>2, <3>3, <3>4
  <2>4. Link!Orderly'
    BY <1>t, <1>1, <1>2, <2>1 DEF Link!Connect, Link!ReadActive, Link!ReadFolder, Link!untouched,
        Link!Orderly
  <2>5. Link!Heard'
    BY <1>t, <1>1, <1>2, <2>1, <2>2 DEF Link!Connect, Link!ReadActive, Link!ReadFolder,
        Link!untouched, Link!Orderly, Link!Heard
  <2> QED BY <2>3, <2>4, <2>5 DEF Link!LinkInv
<1>3. CASE Link!Hear
  <2>1. /\ addonWire # <<>> /\ addonWire' = Tail(addonWire) /\ overlay' = Head(addonWire)
        /\ UNCHANGED <<addonLinked, callback, idRaced, missed>>
    BY <1>3 DEF Link!Hear, Link!untouched
  <2>2. Link!LinkTypeOK'
    BY <1>t, <1>1, <2>1, WireFacts
  <2>3. Link!Coming' = Link!Coming
    BY <1>t, <2>1, WireFacts DEF Link!Coming
  <2>4. Link!Orderly' /\ Link!Heard'
    BY <1>t, <1>1, <2>1, <2>3 DEF Link!Orderly, Link!Heard
  <2> QED BY <2>2, <2>4 DEF Link!LinkInv
<1>4. CASE Link!Disconnect
  <2>1. /\ addonLinked /\ callback.step = "off" /\ addonLinked' = FALSE /\ addonWire' = <<>>
        /\ overlay' \in {overlay, Nothing}
        /\ missed' = (missed \/ \E i \in DOMAIN addonWire : addonWire[i] = Nothing)
        /\ UNCHANGED <<callback, idRaced>>
    BY <1>4 DEF Link!Disconnect
  <2>2. missed' \in BOOLEAN
    BY <2>1, <1>t
  <2>3. Link!LinkTypeOK'
    <3>1. overlay' \in Link!Messages /\ addonWire' \in Seq(Link!Messages)
      BY <1>t, <2>1 DEF Link!Messages
    <3>2. {addonLinked', idRaced', missed', renamed'} \subseteq BOOLEAN
      BY <1>t, <1>1, <2>1, <2>2
    <3> QED BY <1>t, <1>1, <2>1, <3>1, <3>2
  <2>4. Link!Orderly'
    BY <1>t, <1>1, <2>1 DEF Link!Orderly
  <2>5. ~missed' /\ Link!Coming = Nothing => Link!Coming' = Nothing
    BY <1>t, <2>1, WireFacts DEF Link!Coming
  <2>6. Link!Heard'
    BY <1>t, <1>1, <2>1, <2>5 DEF Link!Heard
  <2> QED BY <2>3, <2>4, <2>6 DEF Link!LinkInv
<1> QED BY <1>2, <1>3, <1>4

\* Every step of the link keeps its invariant.
LEMMA LinkSteps == Link!LinkAssumption /\ Link!LinkInv /\ [Link!Next]_(Link!vars) => Link!LinkInv'
<1> SUFFICES ASSUME Link!LinkAssumption, Link!LinkInv, [Link!Next]_(Link!vars) PROVE Link!LinkInv'
  OBVIOUS
<1>1. CASE UNCHANGED Link!vars
  BY <1>1 DEF Link!vars, Link!LinkInv, Link!LinkTypeOK, Link!Orderly, Link!Heard, Link!Coming,
      Link!Idle
<1>2. CASE Link!Next
  BY <1>2, LoopSteps, TalkSteps, WireSteps DEF Link!Next
<1> QED BY <1>1, <1>2

\* What the invariant says of the properties.
LEMMA LinkTells == Link!LinkInv => Link!TypeOK /\ Link!OverlayKnows
<1> SUFFICES ASSUME Link!LinkInv PROVE Link!TypeOK /\ Link!OverlayKnows
  OBVIOUS
<1>1. Link!TypeOK
  BY DEF Link!LinkInv, Link!LinkTypeOK, Link!TypeOK, Link!Messages
<1>2. Link!OverlayKnows
  BY DEF Link!LinkInv, Link!LinkTypeOK, Link!Heard, Link!OverlayKnows, Link!Settled, Link!Coming,
      Link!Idle
<1> QED BY <1>1, <1>2

----------------------------------------------------------------------------
(* Where the participants are                                               *)

\* Finite sets, their sizes and their sequences are the same ones in the instance.
LEMMA WhereSets ==
  \A S : /\ Where!IsFiniteSet(S) <=> IsFiniteSet(S)
         /\ Where!SetToSeq(S) = SetToSeq(S)
BY DEF Where!IsFiniteSet, IsFiniteSet, Where!SetToSeq, SetToSeq, Where!IsInjective, IsInjective,
       Where!Cardinality, Cardinality

\* What a restart has to complete is a sequence of the participants who have a location.
LEMMA BacklogIsOfThem ==
  ASSUME Where!IsFiniteSet(Travellers)
  PROVE  LET Q == {<<p, placeOf[p]>> : p \in {q \in Travellers : placeOf[q] # Where!Nowhere}}
         IN  Where!SetToSeq(Q) \in Seq(Q)
<1> DEFINE Q == {<<p, placeOf[p]>> : p \in {q \in Travellers : placeOf[q] # Where!Nowhere}}
           f == [p \in {q \in Travellers : placeOf[q] # Where!Nowhere} |-> <<p, placeOf[p]>>]
<1>1. IsFiniteSet({q \in Travellers : placeOf[q] # Where!Nowhere})
  BY WhereSets, FS_Subset
<1>2. f \in Surjection({q \in Travellers : placeOf[q] # Where!Nowhere}, Q)
  BY DEF Surjection
<1>3. IsFiniteSet(Q)
  <2> HIDE DEF f, Q
  <2> QED BY <1>1, <1>2, FS_Surjection
<1> HIDE DEF Q
<1>4. PICK n \in Nat : ExistsBijection(1..n, Q)
  BY <1>3, FS_NatBijection
<1>5. Cardinality(Q) = n
  BY <1>4, FS_CountingElements
<1>6. PICK g \in [1..n -> Q] : \A a, b \in 1..n : g[a] = g[b] => a = b
  BY <1>4 DEF ExistsBijection, Bijection, Injection, IsInjective
<1>7. g \in [1..Cardinality(Q) -> Q] /\ IsInjective(g)
  BY <1>5, <1>6 DEF IsInjective
<1>8. SetToSeq(Q) \in [1..Cardinality(Q) -> Q]
  BY <1>7 DEF SetToSeq
<1>9. SetToSeq(Q) \in Seq(Q)
  BY <1>5, <1>8
<1> QED BY <1>9, WhereSets DEF Q

\* Nobody is anywhere at the start.
LEMMA WhereStarts == Where!WhereaboutsAssumption /\ Where!Init => Where!WhereInv
<1> SUFFICES ASSUME Where!WhereaboutsAssumption, Where!Init PROVE Where!WhereInv
  OBVIOUS
<1>1. Where!PlacesTypeOK
  <2>1. placeOf \in [Travellers -> [place : Where!Places \cup {Nothing}, city : BOOLEAN]]
    BY DEF Where!Init, Where!Nowhere
  <2>2. \A p \in Travellers : placeOf[p].place = Nothing => ~placeOf[p].city
    BY DEF Where!Init, Where!Nowhere
  <2>3. backlog \in Seq(Travellers \X [place : Where!Places, city : BOOLEAN])
    BY DEF Where!Init
  <2> QED BY <2>1, <2>2, <2>3 DEF Where!Init, Where!PlacesTypeOK
<1>2. Where!AnswersFit
  BY DEF Where!Init, Where!AnswersFit
<1> QED BY <1>1, <1>2 DEF Where!WhereInv

\* What the pages, the browsers and the host ask.
LEMMA CallSteps ==
  ASSUME Where!WhereaboutsAssumption, Where!WhereInv, NEW p \in Travellers,
         \/ \E place \in Where!Places : Where!SetLocation(p, place)
         \/ \E tz \in Zones : Where!ApplyBrowserTz(p, tz)
         \/ Where!Purge(p)
  PROVE  Where!WhereInv'
<1>t. Where!PlacesTypeOK /\ Where!AnswersFit /\ Nothing \notin Where!Places
  BY DEF Where!WhereInv, Where!WhereaboutsAssumption, Where!Places
<1>1. UNCHANGED backlog /\ lookups \subseteq lookups'
          /\ lookupsMixed' = (lookupsMixed \/ Where!Busy(p))
  BY DEF Where!SetLocation, Where!ApplyBrowserTz, Where!Purge
<1>2. ~lookupsMixed' => ~lookupsMixed /\ (\A j \in lookups : j.pid # p)
                 /\ \A i \in 1 .. Len(backlog) : backlog[i][1] # p
  BY <1>1 DEF Where!Busy
<1>3. lookupsMixed' \in BOOLEAN
  BY <1>t, <1>1 DEF Where!PlacesTypeOK
<1>4. CASE \E place \in Where!Places : Where!SetLocation(p, place)
  <2>0. PICK place \in Where!Places : Where!SetLocation(p, place)
    BY <1>4
  <2>1. /\ placeOf' = [placeOf EXCEPT ![p] = [place |-> place, city |-> FALSE]]
        /\ lookups' = lookups \cup {[pid |-> p, place |-> place, by |-> "page"]}
        /\ UNCHANGED <<zone, country>>
    BY <2>0 DEF Where!SetLocation, Where!Put
  <2>2. Where!PlacesTypeOK'
    BY <1>t, <1>1, <1>3, <2>1 DEF Where!PlacesTypeOK
  <2>3. \A q \in Travellers \ {p} : placeOf'[q] = placeOf[q]
    BY <2>1, <1>t DEF Where!PlacesTypeOK
  <2>4. placeOf'[p] = [place |-> place, city |-> FALSE]
    BY <2>1, <1>t DEF Where!PlacesTypeOK
  <2>5. Where!AnswersFit'
    <3> SUFFICES ASSUME ~lookupsMixed' PROVE Where!AnswersFit'
      BY DEF Where!AnswersFit
    <3>1. \A j \in lookups' :
            /\ placeOf'[j.pid].place # Nothing
            /\ j.place = placeOf'[j.pid].place \/ (j.by = "zone" /\ j.place \in Zones)
      BY <1>t, <1>2, <2>1, <2>3, <2>4 DEF Where!AnswersFit, Where!PlacesTypeOK
    <3>2. \A i \in 1 .. Len(backlog) : backlog[i][2].place = placeOf'[backlog[i][1]].place
      <4>1. \A i \in 1 .. Len(backlog) : backlog[i][1] \in Travellers
        BY <1>t DEF Where!PlacesTypeOK
      <4> QED BY <1>t, <1>2, <2>3, <4>1 DEF Where!AnswersFit
    <3>3. [pid |-> p, place |-> place, by |-> "page"] \in lookups'
      BY <2>1
    <3>4. \A q \in Travellers : (\A j \in lookups' : j.pid = q => j.by # "page") =>
            q # p /\ (\A j \in lookups : j.pid = q => j.by # "page")
      BY <2>1, <3>3
    <3> QED BY <1>t, <1>1, <1>2, <2>1, <2>3, <3>1, <3>2, <3>4 DEF Where!AnswersFit, Where!Fits
  <2> QED BY <2>2, <2>5 DEF Where!WhereInv
<1>5. CASE \E tz \in Zones : Where!ApplyBrowserTz(p, tz)
  <2>0. PICK tz \in Zones : Where!ApplyBrowserTz(p, tz)
    BY <1>5
  <2>1. /\ zone' = [zone EXCEPT ![p] = tz]
        /\ UNCHANGED <<placeOf, country, lookups>>
    BY <2>0 DEF Where!ApplyBrowserTz, Where!Put
  <2>2. Where!PlacesTypeOK'
    BY <1>t, <1>1, <1>3, <2>1 DEF Where!PlacesTypeOK
  <2>3. \A q \in Travellers : zone'[q] = IF q = p THEN tz ELSE zone[q]
    BY <2>1, <1>t DEF Where!PlacesTypeOK
  <2>5. Where!AnswersFit'
    BY <1>t, <1>1, <1>2, <2>1, <2>3 DEF Where!AnswersFit, Where!Fits
  <2> QED BY <2>2, <2>5 DEF Where!WhereInv
<1>6. CASE Where!Purge(p)
  <2>1. /\ placeOf' = [placeOf EXCEPT ![p] = Where!Nowhere] /\ zone' = [zone EXCEPT ![p] = Nothing]
        /\ country' = [country EXCEPT ![p] = Nothing] /\ UNCHANGED lookups
    BY <1>6 DEF Where!Purge, Where!Put
  <2>2. Where!PlacesTypeOK'
    BY <1>t, <1>1, <1>3, <2>1 DEF Where!PlacesTypeOK, Where!Nowhere
  <2>3. \A q \in Travellers \ {p} : placeOf'[q] = placeOf[q] /\ zone'[q] = zone[q]
            /\ country'[q] = country[q]
    BY <2>1, <1>t DEF Where!PlacesTypeOK
  <2>4. zone'[p] = Nothing /\ country'[p] = Nothing
    BY <2>1, <1>t DEF Where!PlacesTypeOK
  <2>5. Where!AnswersFit'
    <3> SUFFICES ASSUME ~lookupsMixed' PROVE Where!AnswersFit'
      BY DEF Where!AnswersFit
    <3>1. \A j \in lookups : j.pid \in Travellers \ {p}
      BY <1>t, <1>2 DEF Where!PlacesTypeOK
    <3>2. \A i \in 1 .. Len(backlog) : backlog[i][1] \in Travellers \ {p}
      BY <1>t, <1>2 DEF Where!PlacesTypeOK
    <3> QED BY <1>t, <1>1, <1>2, <2>1, <2>3, <2>4, <3>1, <3>2 DEF Where!AnswersFit, Where!Fits
  <2> QED BY <2>2, <2>5 DEF Where!WhereInv
<1> QED BY <1>4, <1>5, <1>6

\* Look-ups begin, and a restart takes up those it has to complete.
LEMMA LookSteps ==
  ASSUME Where!WhereaboutsAssumption, Where!WhereInv, Where!ResolveAll \/ Where!Restart
         \/ Where!Backfill
  PROVE  Where!WhereInv'
<1>t. Where!PlacesTypeOK /\ Where!AnswersFit /\ Nothing \notin Where!Places
  BY DEF Where!WhereInv, Where!WhereaboutsAssumption, Where!Places
<1>1. UNCHANGED Where!store
  BY DEF Where!ResolveAll, Where!Restart, Where!Backfill
<1>2. CASE Where!ResolveAll
  <2> DEFINE raw == {p \in Travellers : placeOf[p].place \in Coords /\ ~placeOf[p].city}
             bare == {p \in Travellers \ raw : placeOf[p].place # Nothing /\ zone[p] # Nothing
                 /\ country[p] = Nothing}
             new == {[pid |-> p, place |-> placeOf[p].place, by |-> "host"] : p \in raw}
                    \cup {[pid |-> p, place |-> zone[p], by |-> "zone"] : p \in bare}
  <2>1. /\ lookups' = lookups \cup new
               /\ lookupsMixed' = (lookupsMixed \/ \E k \in new : Where!Busy(k.pid))
        /\ UNCHANGED backlog
    BY <1>2 DEF Where!ResolveAll
  <2>2. \A k \in new : /\ k \in [pid : Travellers, place : Where!Places, by : {"host", "zone"}]
                       /\ k.by = "zone" => k.place \in Coords \cup Zones
                       /\ placeOf[k.pid].place # Nothing
                       /\ k.place = placeOf[k.pid].place
                              \/ (k.by = "zone" /\ k.place = zone[k.pid])
    BY <1>t DEF Where!PlacesTypeOK, Where!Places
  <2>m. lookupsMixed' \in BOOLEAN
    BY <2>1, <1>t DEF Where!PlacesTypeOK
  <2> HIDE DEF new
  <2>3. Where!PlacesTypeOK'
    BY <1>t, <1>1, <2>1, <2>2, <2>m DEF Where!PlacesTypeOK, Where!store
  <2>4. ~lookupsMixed' => \A k \in new : \A j \in lookups : j.pid # k.pid
    BY <2>1 DEF Where!Busy
  <2>5. ~lookupsMixed' => \A k \in new : k.place = placeOf[k.pid].place
            \/ (k.by = "zone" /\ k.place \in Zones)
    BY <1>t, <2>1, <2>2, <2>4 DEF Where!AnswersFit, Where!PlacesTypeOK, Where!Fits
  <2>6. \A q \in Travellers : (\A j \in lookups' : j.pid = q => j.by # "page") =>
            (\A j \in lookups : j.pid = q => j.by # "page")
    BY <2>1
  <2>7. Where!AnswersFit'
    BY <1>t, <1>1, <2>1, <2>2, <2>5, <2>6 DEF Where!AnswersFit, Where!Fits, Where!store
  <2> QED BY <2>3, <2>7 DEF Where!WhereInv
<1>3. CASE Where!Restart
  <2> DEFINE Q == {<<p, placeOf[p]>> : p \in {q \in Travellers : placeOf[q] # Where!Nowhere}}
  <2>1. /\ lookups' = {} /\ backlog' = Where!SetToSeq(Q)
               /\ lookupsMixed' = (lookupsMixed \/ lookups # {})
    BY <1>3 DEF Where!Restart
  <2>2. backlog' \in Seq(Q)
    BY <2>1, BacklogIsOfThem DEF Where!WhereaboutsAssumption
  <2>3. \A x \in Q : x \in Travellers \X [place : Where!Places, city : BOOLEAN]
            /\ x[2] = placeOf[x[1]]
    <3>1. ASSUME NEW p \in Travellers, placeOf[p] # Where!Nowhere
              PROVE placeOf[p] \in [place : Where!Places, city : BOOLEAN]
      <4>1. placeOf[p] \in [place : Where!Places \cup {Nothing}, city : BOOLEAN]
                /\ (placeOf[p].place = Nothing => ~placeOf[p].city)
        BY <1>t DEF Where!PlacesTypeOK
      <4>2. placeOf[p] = [place |-> placeOf[p].place, city |-> placeOf[p].city]
        BY <4>1
      <4>3. placeOf[p].place # Nothing
        BY <3>1, <4>1, <4>2 DEF Where!Nowhere
      <4> QED BY <4>1, <4>3
    <3> QED BY <3>1
  <2>m. lookupsMixed' \in BOOLEAN
    BY <2>1, <1>t DEF Where!PlacesTypeOK
  <2> HIDE DEF Q
  <2>4. backlog' \in Seq(Travellers \X [place : Where!Places, city : BOOLEAN])
    BY <2>2, <2>3
  <2>5. \A i \in 1 .. Len(backlog') : backlog'[i][2] = placeOf[backlog'[i][1]]
    BY <2>2, <2>3
  <2>6. Where!PlacesTypeOK'
    BY <1>t, <1>1, <2>1, <2>4, <2>m DEF Where!PlacesTypeOK, Where!store
  <2>7. Where!AnswersFit'
    BY <1>t, <1>1, <2>1, <2>5 DEF Where!AnswersFit, Where!Fits, Where!store
  <2> QED BY <2>6, <2>7 DEF Where!WhereInv
<1>4. CASE Where!Backfill
  <2>1. backlog # <<>> /\ backlog' = Tail(backlog)
    BY <1>4 DEF Where!Backfill
  <2>2. /\ Head(backlog) = backlog[1] /\ Head(backlog) \in Travellers \X [place : Where!Places,
               city : BOOLEAN]
        /\ backlog' \in Seq(Travellers \X [place : Where!Places, city : BOOLEAN])
        /\ 1 \in 1 .. Len(backlog)
    BY <2>1, <1>t DEF Where!PlacesTypeOK
  <2>3. \A i \in 1 .. Len(backlog') : i + 1 \in 1 .. Len(backlog) /\ backlog'[i] = backlog[i + 1]
    BY <2>1, <1>t DEF Where!PlacesTypeOK
  <2> DEFINE k == [pid |-> Head(backlog)[1], place |-> Head(backlog)[2].place, by |-> "start"]
  <2>4. \/ lookups' = lookups /\ lookupsMixed' = lookupsMixed
        \/ lookups' = lookups \cup {k}
               /\ lookupsMixed' = (lookupsMixed \/ \E j \in lookups : j.pid = Head(backlog)[1])
    BY <1>4 DEF Where!Backfill
  <2>5. k \in [pid : Travellers, place : Where!Places, by : {"page", "host", "start", "zone"}]
            /\ k.by = "start"
    BY <2>2
  <2>m. lookupsMixed' \in BOOLEAN
    BY <2>4, <1>t DEF Where!PlacesTypeOK
  <2>6. ~lookupsMixed => placeOf[k.pid].place # Nothing /\ k.place = placeOf[k.pid].place
    BY <1>t, <2>2 DEF Where!AnswersFit, Where!Places
  <2> HIDE DEF k
  <2>7. Where!PlacesTypeOK'
    BY <1>t, <1>1, <2>2, <2>4, <2>5, <2>m DEF Where!PlacesTypeOK, Where!store
  <2>8. Where!AnswersFit'
    <3> SUFFICES ASSUME ~lookupsMixed' PROVE Where!AnswersFit'
      BY DEF Where!AnswersFit
    <3>1. ~lookupsMixed /\ (lookups' = lookups \/ lookups' = lookups \cup {k})
      <4>1. CASE lookups' = lookups /\ lookupsMixed' = lookupsMixed
        BY <4>1
      <4>2. CASE lookups' = lookups \cup {k}
                /\ lookupsMixed' = (lookupsMixed \/ \E j \in lookups : j.pid = Head(backlog)[1])
        BY <4>2
      <4> QED BY <2>4, <4>1, <4>2
    <3>2. \A i \in 1 .. Len(backlog') : backlog'[i][2].place = placeOf[backlog'[i][1]].place
      BY <1>t, <2>3, <3>1 DEF Where!AnswersFit
    <3> QED BY <1>t, <1>1, <2>6, <3>1, <3>2 DEF Where!AnswersFit, Where!Fits, Where!store
  <2> QED BY <2>7, <2>8 DEF Where!WhereInv
<1> QED BY <1>2, <1>3, <1>4

\* A look-up answers, or fails.
LEMMA AnswerSteps ==
  ASSUME Where!WhereaboutsAssumption, Where!WhereInv, Where!Answering
  PROVE  Where!WhereInv'
<1>t. Where!PlacesTypeOK /\ Where!AnswersFit /\ Nothing \notin Where!Places
  BY DEF Where!WhereInv, Where!WhereaboutsAssumption, Where!Places
<1>0. PICK j \in lookups :
        \/ Where!Fails(j)
        \/ \E found \in Where!Found(j.place) : Where!Answer(j, found)
               \/ Where!AnswerBackfill(j, found)
        \/ \E found \in BOOLEAN : Where!AnswerZone(j, found)
  BY DEF Where!Answering
<1>j. /\ j \in [pid : Travellers, place : Where!Places, by : {"page", "host", "start", "zone"}]
      /\ j.by = "zone" => j.place \in Coords \cup Zones
      /\ ~lookupsMixed => placeOf[j.pid].place # Nothing
      /\ ~lookupsMixed => j.place = placeOf[j.pid].place \/ (j.by = "zone" /\ j.place \in Zones)
  BY <1>t DEF Where!PlacesTypeOK, Where!AnswersFit
<1>1. lookups' = lookups \ {j} /\ UNCHANGED backlog
          /\ (lookupsMixed' = lookupsMixed \/ lookupsMixed' = TRUE)
  BY <1>0 DEF Where!Fails, Where!Answer, Where!AnswerBackfill, Where!AnswerZone
<1>m. lookupsMixed' \in BOOLEAN
  BY <1>1, <1>t DEF Where!PlacesTypeOK
<1>2. CASE Where!Fails(j)
  <2>1. UNCHANGED Where!store /\ lookupsMixed'
    BY <1>2 DEF Where!Fails
  <2>2. Where!PlacesTypeOK'
    BY <1>t, <1>1, <1>m, <2>1 DEF Where!PlacesTypeOK, Where!store
  <2> QED BY <2>1, <2>2 DEF Where!WhereInv, Where!AnswersFit
\* An answer changes only what it is of: the location keeps its place, unless it is a page's.
<1>3. SUFFICES ASSUME NEW where \in [place : Where!Places \cup {Nothing}, city : BOOLEAN],
                      where.place = Nothing => ~where.city,
                      NEW hour \in Coords \cup Zones \cup {Nothing},
                      NEW land \in Coords \cup Zones \cup {Nothing},
                      placeOf' = [placeOf EXCEPT ![j.pid] = where],
                      zone' = [zone EXCEPT ![j.pid] = hour],
                      country' = [country EXCEPT ![j.pid] = land],
                      lookupsMixed' = lookupsMixed,
                      ~lookupsMixed => where.place = placeOf[j.pid].place,
                      ~lookupsMixed => /\ land = country[j.pid] /\ j.by # "page"
                                       \/ land = Nothing \/ land = where.place \/ land \in Zones,
                      ~lookupsMixed => /\ hour = zone[j.pid] /\ j.by # "page"
                                       \/ hour = Nothing \/ hour = where.place \/ hour \in Zones
               PROVE  Where!WhereInv'
  <2>s. placeOf[j.pid] \in [place : Where!Places \cup {Nothing}, city : BOOLEAN]
            /\ (placeOf[j.pid].place = Nothing => ~placeOf[j.pid].city)
        /\ zone[j.pid] \in Coords \cup Zones \cup {Nothing}
               /\ country[j.pid] \in Coords \cup Zones \cup {Nothing}
        /\ placeOf = [placeOf EXCEPT ![j.pid] = placeOf[j.pid]]
               /\ zone = [zone EXCEPT ![j.pid] = zone[j.pid]]
        /\ country = [country EXCEPT ![j.pid] = country[j.pid]]
    BY <1>t, <1>j DEF Where!PlacesTypeOK
  <2>1. CASE \E found \in Where!Found(j.place) : Where!Answer(j, found)
    <3>0. PICK found \in Where!Found(j.place) : Where!Answer(j, found)
      BY <2>1
    <3> DEFINE city == j.place \in Coords /\ found.country # Nothing
               where == IF j.by = "page" \/ city THEN [place |-> j.place, city |-> city]
                        ELSE placeOf[j.pid]
    <3>1. /\ placeOf' = [placeOf EXCEPT ![j.pid] = where]
                 /\ zone' = [zone EXCEPT ![j.pid] = found.zone]
          /\ country' = [country EXCEPT ![j.pid] = found.country] /\ lookupsMixed' = lookupsMixed
          /\ j.by \in {"page", "host"}
      BY <3>0 DEF Where!Answer, Where!Put
    <3>2. found.zone \in {j.place, Nothing} \cap (Coords \cup Zones \cup {Nothing})
          /\ found.country \in {j.place, Nothing} \cap (Coords \cup Zones \cup {Nothing})
      BY <3>0, <1>j, <1>t DEF Where!Found, Where!Places
    <3>3. where \in [place : Where!Places \cup {Nothing}, city : BOOLEAN]
              /\ (where.place = Nothing => ~where.city)
      BY <1>j, <1>t, <2>s
    <3>4. ~lookupsMixed => where.place = placeOf[j.pid].place /\ j.place = placeOf[j.pid].place
      BY <1>j, <3>1
    <3> HIDE DEF where, city
    <3> QED BY <1>3, <3>1, <3>2, <3>3, <3>4
  <2>2. CASE \E found \in Where!Found(j.place) : Where!AnswerBackfill(j, found)
    <3>0. PICK found \in Where!Found(j.place) : Where!AnswerBackfill(j, found)
      BY <2>2
    <3> DEFINE where == IF j.place \in Coords /\ found.country # Nothing
                        THEN [place |-> j.place, city |-> TRUE] ELSE placeOf[j.pid]
               hour == IF found.zone # Nothing THEN found.zone ELSE zone[j.pid]
               land == IF found.country # Nothing THEN found.country ELSE country[j.pid]
    <3>1. /\ placeOf' = [placeOf EXCEPT ![j.pid] = where] /\ zone' = [zone EXCEPT ![j.pid] = hour]
          /\ country' = [country EXCEPT ![j.pid] = land] /\ lookupsMixed' = lookupsMixed
          /\ j.by = "start"
      BY <3>0, <2>s DEF Where!AnswerBackfill, Where!Put
    <3>2. found.zone \in {j.place, Nothing} \cap (Coords \cup Zones \cup {Nothing})
          /\ found.country \in {j.place, Nothing} \cap (Coords \cup Zones \cup {Nothing})
      BY <3>0, <1>j, <1>t DEF Where!Found, Where!Places
    <3>3. where \in [place : Where!Places \cup {Nothing}, city : BOOLEAN]
              /\ (where.place = Nothing => ~where.city)
          /\ hour \in Coords \cup Zones \cup {Nothing} /\ land \in Coords \cup Zones \cup {Nothing}
      BY <1>j, <1>t, <2>s, <3>2
    <3>4. ~lookupsMixed => where.place = placeOf[j.pid].place /\ j.place = placeOf[j.pid].place
      BY <1>j, <3>1
    <3>5. (land = country[j.pid] \/ land = j.place) /\ (hour = zone[j.pid] \/ hour = j.place)
      BY <3>2
    <3> HIDE DEF where, hour, land
    <3> QED BY <1>3, <3>1, <3>3, <3>4, <3>5
  <2>3. CASE \E found \in BOOLEAN : Where!AnswerZone(j, found)
    <3>0. PICK found \in BOOLEAN : Where!AnswerZone(j, found)
      BY <2>3
    <3> DEFINE land == IF found THEN j.place ELSE country[j.pid]
    <3>1. /\ placeOf' = placeOf /\ zone' = zone /\ lookupsMixed' = lookupsMixed
          /\ country' = [country EXCEPT ![j.pid] = land] /\ j.by = "zone"
      BY <3>0, <2>s DEF Where!AnswerZone, Where!Put
    <3>2. land \in Coords \cup Zones \cup {Nothing} /\ (land = country[j.pid] \/ land = j.place)
      BY <1>j, <2>s, <3>1
    <3>3. ~lookupsMixed => j.place = placeOf[j.pid].place \/ j.place \in Zones
      BY <1>j
    <3> HIDE DEF land
    <3> QED BY <1>3, <2>s, <3>1, <3>2, <3>3
  <2> QED BY <1>0, <1>2, <2>1, <2>2, <2>3
<1>4. Where!PlacesTypeOK'
  BY <1>t, <1>j, <1>1, <1>m, <1>3 DEF Where!PlacesTypeOK
<1>5. \A q \in Travellers : /\ placeOf'[q] = IF q = j.pid THEN where ELSE placeOf[q]
                            /\ zone'[q] = IF q = j.pid THEN hour ELSE zone[q]
                            /\ country'[q] = IF q = j.pid THEN land ELSE country[q]
  BY <1>t, <1>3 DEF Where!PlacesTypeOK
<1>6. ~lookupsMixed => \A q \in Travellers : placeOf'[q].place = placeOf[q].place
  BY <1>j, <1>3, <1>5
<1>7. Where!AnswersFit'
  <2> SUFFICES ASSUME ~lookupsMixed, ~lookupsMixed' PROVE Where!AnswersFit'
    BY <1>3 DEF Where!AnswersFit
  <2>1. \A k \in lookups' : /\ placeOf'[k.pid].place # Nothing
                            /\ k.place = placeOf'[k.pid].place
                                   \/ (k.by = "zone" /\ k.place \in Zones)
    BY <1>t, <1>1, <1>6 DEF Where!AnswersFit, Where!PlacesTypeOK
  <2>2. \A i \in 1 .. Len(backlog) : backlog[i][2].place = placeOf'[backlog[i][1]].place
    <3>1. \A i \in 1 .. Len(backlog) : backlog[i][1] \in Travellers
      BY <1>t DEF Where!PlacesTypeOK
    <3> QED BY <1>t, <1>6, <3>1 DEF Where!AnswersFit
  <2>3. ASSUME NEW q \in Travellers, \A k \in lookups' : k.pid = q => k.by # "page"
        PROVE  /\ zone'[q] # Nothing => zone'[q] = placeOf'[q].place \/ zone'[q] \in Zones
               /\ country'[q] # Nothing =>
                    placeOf'[q].place # Nothing
                        /\ (country'[q] = placeOf'[q].place \/ country'[q] \in Zones)
    <3>1. CASE q # j.pid
      <4>1. \A k \in lookups : k.pid = q => k.by # "page"
        BY <1>1, <2>3, <3>1
      <4> QED BY <1>t, <1>5, <3>1, <4>1 DEF Where!AnswersFit, Where!Fits
    <3>2. CASE q = j.pid
      <4>1. where.place = placeOf[j.pid].place /\ placeOf[j.pid].place # Nothing
        BY <1>3, <1>j
      <4>2. j.by # "page" => \A k \in lookups : k.pid = q => k.by # "page"
        BY <1>1, <2>3, <3>2
      <4> QED BY <1>t, <1>3, <1>5, <3>2, <4>1, <4>2 DEF Where!AnswersFit, Where!Fits
    <3> QED BY <3>1, <3>2
  <2> QED BY <1>1, <2>1, <2>2, <2>3 DEF Where!AnswersFit, Where!Fits
<1> QED BY <1>4, <1>7 DEF Where!WhereInv

\* Every step keeps the places and the countries together.
LEMMA WhereSteps ==
  Where!WhereaboutsAssumption /\ Where!WhereInv /\ [Where!Next]_(Where!vars) => Where!WhereInv'
<1> SUFFICES ASSUME Where!WhereaboutsAssumption, Where!WhereInv, [Where!Next]_(Where!vars)
             PROVE  Where!WhereInv'
  OBVIOUS
<1>1. CASE UNCHANGED Where!vars
  BY <1>1 DEF Where!vars, Where!store, Where!WhereInv, Where!PlacesTypeOK, Where!AnswersFit,
      Where!Fits
<1>2. CASE Where!Next
  BY <1>2, CallSteps, LookSteps, AnswerSteps DEF Where!Next, Where!Calling
<1> QED BY <1>1, <1>2

\* What the invariant says of the properties.
LEMMA WhereTells == Where!WhereInv => Where!TypeOK /\ Where!CountryFits
<1> SUFFICES ASSUME Where!WhereInv PROVE Where!TypeOK /\ Where!CountryFits
  OBVIOUS
<1>1. Where!TypeOK
  BY DEF Where!WhereInv, Where!PlacesTypeOK, Where!TypeOK
<1>2. Where!CountryFits
  BY DEF Where!WhereInv, Where!AnswersFit, Where!CountryFits, Where!Fits
<1> QED BY <1>1, <1>2

----------------------------------------------------------------------------
(* What the room sees of the session's folder                               *)

\* Among the times of some files there is a greatest.
LEMMA Latest ==
  ASSUME NEW m \in Nat, NEW f \in [NoteFiles -> 0 .. m], NoteFiles # {}
  PROVE  \E x \in NoteFiles : \A y \in NoteFiles : f[x] >= f[y]
<1> DEFINE R == {ss \in Nat \X Nat : ss[1] < ss[2]}
           T == {m - f[x] : x \in NoteFiles}
<1>1. IsWellFoundedOn(R, Nat)
  BY NatLessThanWellFounded DEF OpToRel
<1>2. T \subseteq Nat /\ T # {}
  <2>1. \A a \in 0 .. m : m - a \in Nat
    OBVIOUS
  <2> QED BY <2>1
<1>3. PICK k \in T : \A w \in T : ~(<<w, k>> \in R)
  <2> HIDE DEF R, T
  <2> QED BY <1>1, <1>2, WFMin
<1>4. PICK x \in NoteFiles : k = m - f[x]
  BY <1>3
<1>5. ASSUME NEW y \in NoteFiles PROVE f[x] >= f[y]
  <2>1. ~(<<m - f[y], k>> \in R)
    BY <1>3
  <2>2. m - f[y] \in Nat /\ k \in Nat
    BY <1>2, <1>3
  <2>3. ~(m - f[y] < m - f[x])
    BY <1>4, <2>1, <2>2
  <2>4. \A a, b \in 0 .. m : ~(m - a < m - b) => b >= a
    OBVIOUS
  <2> QED BY <2>3, <2>4
<1> QED BY <1>5

\* The notes of a session are a file that is there, or none is.
LEMMA NotesAreThere ==
  ASSUME Watch!NotesAssumption, Watch!NotesTypeOK, NEW s \in Rooms
  PROVE  /\ Watch!NotesFile(s) \in NoteFiles \cup {Nothing}
         /\ Watch!NotesFile(s) # Nothing => Watch!NotesFile(s) \in NoteFiles
                /\ written[s][Watch!NotesFile(s)] \in 1 .. clock
<1>1. clock \in Nat /\ written[s] \in [NoteFiles -> 0 .. clock] /\ Nothing \notin NoteFiles
  BY DEF Watch!NotesTypeOK, Watch!NotesAssumption
<1>2. CASE \A f \in NoteFiles : written[s][f] = 0
  BY <1>2 DEF Watch!NotesFile
<1>3. CASE \E f \in NoteFiles : written[s][f] # 0
  <2>1. PICK g \in NoteFiles : written[s][g] # 0
    BY <1>3
  <2>2. \E x \in NoteFiles : \A y \in NoteFiles : written[s][x] >= written[s][y]
    BY <1>1, <2>1, Latest
  <2>3. Watch!NotesFile(s)
          = CHOOSE x \in NoteFiles : \A y \in NoteFiles : written[s][x] >= written[s][y]
    BY <1>3 DEF Watch!NotesFile
  <2>4. Watch!NotesFile(s) \in NoteFiles /\ written[s][Watch!NotesFile(s)] >= written[s][g]
    BY <2>1, <2>2, <2>3
  <2>5. written[s][Watch!NotesFile(s)] \in 0 .. clock /\ written[s][g] \in 0 .. clock
    BY <1>1, <2>1, <2>4
  <2>6. \A a, b \in 0 .. clock : a >= b /\ b # 0 => a \in 1 .. clock
    BY <1>1
  <2>7. written[s][Watch!NotesFile(s)] \in 1 .. clock
    BY <2>1, <2>4, <2>5, <2>6
  <2> QED BY <2>4, <2>7
<1> QED BY <1>2, <1>3

\* What the first half of a probe reads.
LEMMA TextsAreRead ==
  ASSUME Watch!NotesAssumption, Watch!NotesTypeOK, NEW s \in Rooms
  PROVE  LET p == Watch!ProbeText(s) IN
         /\ Watch!IsProbe(p) /\ p.folder = s /\ p.file = Watch!NotesFile(s)
                /\ p.text = Watch!TextOf(s, Watch!NotesFile(s))
         /\ p.file # Nothing => p.file \in NoteFiles /\ p.text = noteText[s][p.file]
<1>1. Watch!NotesFile(s) \in NoteFiles \cup {Nothing}
  BY NotesAreThere
<1>2. Watch!TextOf(s, Watch!NotesFile(s)) \in Seq(Watch!Lines)
  BY <1>1 DEF Watch!TextOf, Watch!NotesTypeOK
<1> QED BY <1>1, <1>2 DEF Watch!ProbeText, Watch!IsProbe, Watch!TextOf

\* The daemon starts with a probe of the room it is in.
LEMMA NotesStart == Watch!NotesAssumption /\ Watch!Init => Watch!NotesInv
<1> SUFFICES ASSUME Watch!NotesAssumption, Watch!Init PROVE Watch!NotesInv
  OBVIOUS
<1>0. \A s \in Rooms, f \in NoteFiles : noteText[s][f] \in Seq(Watch!Lines)
          /\ Len(noteText[s][f]) \in Nat
  <2>1. <<>> \in Seq(Watch!Lines) /\ <<"clip">> \in Seq(Watch!Lines)
    BY DEF Watch!Lines
  <2>2. \A s \in Rooms, f \in NoteFiles : noteText[s][f] \in {<<>>, <<"clip">>}
    BY DEF Watch!Init
  <2>3. ASSUME NEW s \in Rooms, NEW f \in NoteFiles
        PROVE  noteText[s][f] \in Seq(Watch!Lines)
    <3>1. noteText[s][f] = <<>> \/ noteText[s][f] = <<"clip">>
      BY <2>2
    <3>2. CASE noteText[s][f] = <<>>
      BY <2>1, <3>2
    <3>3. CASE noteText[s][f] = <<"clip">>
      BY <2>1, <3>3
    <3> QED BY <3>1, <3>2, <3>3
  <2>4. \A u \in Seq(Watch!Lines) : Len(u) \in Nat
    OBVIOUS
  <2> QED BY <2>3, <2>4
<1>1. Watch!NotesTypeOK
  <2>1. MaxWrites \in Nat /\ 1 \in 1 .. MaxWrites /\ 0 \in 0 .. 1 /\ 1 \in 0 .. 1
    BY DEF Watch!NotesAssumption
  <2>2. noteText \in [Rooms -> [NoteFiles -> Seq(Watch!Lines)]]
    BY <1>0 DEF Watch!Init
  <2>3. written \in [Rooms -> [NoteFiles -> 0 .. 1]]
    BY <2>1 DEF Watch!Init
  <2>4. atEntry \in [Rooms -> [NoteFiles -> Nat]]
    BY <1>0 DEF Watch!Init
  <2>5. docx \in [Rooms -> SUBSET {"agenda", "other"}]
    BY DEF Watch!Init
  <2> QED BY <2>1, <2>2, <2>3, <2>4, <2>5 DEF Watch!Init, Watch!NotesTypeOK
<1>2. room \in Rooms /\ half = Nothing /\ toasts = {}
          /\ prev = Watch!ProbeRest(Watch!ProbeText(room))
  BY DEF Watch!Init
<1> DEFINE p == Watch!ProbeText(room)
<1>3. /\ Watch!IsProbe(p) /\ p.folder = room /\ p.file = Watch!NotesFile(room)
      /\ p.text = Watch!TextOf(room, Watch!NotesFile(room))
      /\ p.file # Nothing => p.file \in NoteFiles /\ p.text = noteText[room][p.file]
  BY <1>1, <1>2, TextsAreRead
<1> HIDE DEF p
<1>4. /\ prev.folder = p.folder /\ prev.file = p.file /\ prev.text = p.text
      /\ prev.mtime = (IF p.file = Nothing THEN 0 ELSE written[p.folder][p.file])
      /\ prev.prompts = Len(Watch!ParsePrompts(p.text)) /\ prev.summary = summary[p.folder]
      /\ prev.agenda = Watch!FindAgendaDocx(p.folder) /\ prev.files = opened[p.folder]
  BY <1>2 DEF Watch!ProbeRest, p
<1>5. Watch!ProbesAreOfFolders
  BY <1>2, <1>3, <1>4 DEF Watch!ProbesAreOfFolders, Watch!IsProbe
<1>6. Watch!SinceTheEntry
  <2>1. atEntry = [s \in Rooms |-> [f \in NoteFiles |-> Len(noteText[s][f])]]
    BY DEF Watch!Init
  <2>2. \A s \in Rooms, f \in NoteFiles : atEntry[s][f] = Len(noteText[s][f])
            /\ Len(noteText[s][f]) \in Nat
    BY <1>0, <2>1
  <2>3. prev.file # Nothing => atEntry[room][prev.file] <= Len(prev.text)
    BY <1>2, <1>3, <1>4, <2>2
  <2> QED BY <1>2, <2>2, <2>3 DEF Watch!SinceTheEntry, Watch!ToastsAreNews
<1>7. Watch!PagesAreOfProbes
  <2>1. prev.file # Nothing => prev.mtime \in 1 .. clock
            /\ noteText[prev.folder][prev.file] = prev.text
    BY <1>1, <1>2, <1>3, <1>4, NotesAreThere
  <2>2. roomShown = Watch!PageOf(room) /\ agendaPath = Nothing /\ docx[room] = {}
    BY <1>2 DEF Watch!Init
  <2>3. roomShown = Watch!PageFrom(prev)
    BY <1>3, <1>4, <2>2 DEF Watch!PageOf, Watch!PageFrom
  <2>4. prev.agenda = Nothing
    BY <1>3, <1>4, <2>2 DEF Watch!FindAgendaDocx
  <2> QED BY <1>2, <1>4, <2>1, <2>2, <2>3, <2>4 DEF Watch!PagesAreOfProbes
<1> QED BY <1>1, <1>5, <1>6, <1>7 DEF Watch!NotesInv

\* A text of the notes changes, and what was there when the room was entered with it.
LEMMA NotesWritten ==
  ASSUME Watch!NotesAssumption, Watch!NotesInv, NEW s \in Rooms, NEW f \in NoteFiles,
         NEW lines \in Seq(Watch!Lines),
         NEW when \in {0, clock'}, NEW left \in Nat,
         Watch!Writes, noteText' = [noteText EXCEPT ![s][f] = lines],
             written' = [written EXCEPT ![s][f] = when],
         atEntry' = [atEntry EXCEPT ![s][f] = left], left <= atEntry[s][f], left <= Len(lines),
         noteTorn' = (noteTorn \/ half # Nothing), UNCHANGED <<summary, docx, opened>>
  PROVE  Watch!NotesInv'
<1>t. Watch!NotesTypeOK /\ Watch!ProbesAreOfFolders /\ Watch!SinceTheEntry
          /\ Watch!PagesAreOfProbes
  BY DEF Watch!NotesInv
<1>1. /\ clock < MaxWrites /\ clock' = clock + 1
      /\ UNCHANGED <<room, half, prev, agendaPath, roomShown, toasts>>
  BY DEF Watch!Writes, Watch!probeVars
<1>2. clock \in Nat /\ MaxWrites \in Nat
  BY <1>t DEF Watch!NotesTypeOK, Watch!NotesAssumption
<1>3. clock' \in 1 .. MaxWrites /\ 0 .. clock \subseteq 0 .. clock' /\ when \in 0 .. clock'
      /\ 1 .. clock \subseteq 1 .. clock' /\ when \notin 1 .. clock
  BY <1>1, <1>2
<1>4. noteTorn' \in BOOLEAN /\ (~noteTorn' => ~noteTorn /\ half = Nothing)
  BY <1>t DEF Watch!NotesTypeOK
<1>5. Watch!NotesTypeOK'
  <2>1. noteText' \in [Rooms -> [NoteFiles -> Seq(Watch!Lines)]]
    BY <1>t DEF Watch!NotesTypeOK
  <2>2. written' \in [Rooms -> [NoteFiles -> 0 .. clock']]
    <3>1. \A g \in [NoteFiles -> 0 .. clock] : g \in [NoteFiles -> 0 .. clock']
      BY <1>3
    <3>2. written \in [Rooms -> [NoteFiles -> 0 .. clock']]
      BY <1>t, <3>1 DEF Watch!NotesTypeOK
    <3>3. written' = [written EXCEPT ![s][f] = when] /\ when \in 0 .. clock'
      BY <1>3
    <3> QED BY <3>2, <3>3
  <2>3. atEntry' \in [Rooms -> [NoteFiles -> Nat]]
    BY <1>t DEF Watch!NotesTypeOK
  <2>4. summary' \in [Rooms -> 0 .. clock'] /\ opened' \in [Rooms -> 0 .. clock']
    <3>1. summary' = summary /\ opened' = opened
      OBVIOUS
    <3>2. summary \in [Rooms -> 0 .. clock] /\ opened \in [Rooms -> 0 .. clock]
      BY <1>t DEF Watch!NotesTypeOK
    <3>3. \A g \in [Rooms -> 0 .. clock] : g \in [Rooms -> 0 .. clock']
      BY <1>3
    <3> QED BY <3>1, <3>2, <3>3
  <2> QED BY <1>t, <1>1, <1>3, <1>4, <2>1, <2>2, <2>3, <2>4 DEF Watch!NotesTypeOK
<1>6. Watch!ProbesAreOfFolders'
  BY <1>t, <1>1 DEF Watch!ProbesAreOfFolders, Watch!IsProbe
<1>7. \A r \in Rooms, g \in NoteFiles :
        /\ noteText'[r][g] = IF r = s /\ g = f THEN lines ELSE noteText[r][g]
        /\ written'[r][g] = IF r = s /\ g = f THEN when ELSE written[r][g]
        /\ atEntry'[r][g] = IF r = s /\ g = f THEN left ELSE atEntry[r][g]
        /\ atEntry[r][g] \in Nat
  BY <1>t DEF Watch!NotesTypeOK
<1>8. \A r \in Rooms, g \in NoteFiles : atEntry'[r][g] <= atEntry[r][g] /\ atEntry'[r][g] \in Nat
  BY <1>7
<1>9. Watch!SinceTheEntry'
  <2>0. \A a, b, c \in Nat : a <= b /\ b <= c => a <= c
    OBVIOUS
  <2>l. \A u \in Seq(Watch!Lines) : Len(u) \in Nat
    OBVIOUS
  <2>1. \A r \in Rooms, g \in NoteFiles : atEntry'[r][g] <= Len(noteText'[r][g])
    BY <1>t, <1>7 DEF Watch!SinceTheEntry
  <2>2. half # Nothing /\ half[1].file # Nothing
            => atEntry'[room][half[1].file] <= Len(half[1].text)
    <3>1. half # Nothing /\ half[1].file # Nothing =>
            half[1].file \in NoteFiles /\ half[1].text \in Seq(Watch!Lines) /\ room \in Rooms
      BY <1>t DEF Watch!ProbesAreOfFolders, Watch!IsProbe, Watch!NotesTypeOK
    <3> QED BY <1>t, <1>7, <1>8, <2>0, <2>l, <3>1 DEF Watch!SinceTheEntry
  <2>3. prev.folder = room /\ prev.file # Nothing => atEntry'[room][prev.file] <= Len(prev.text)
    <3>1. prev.file # Nothing =>
            prev.file \in NoteFiles /\ prev.text \in Seq(Watch!Lines) /\ room \in Rooms
      BY <1>t DEF Watch!ProbesAreOfFolders, Watch!IsProbe, Watch!NotesTypeOK
    <3> QED BY <1>t, <1>7, <1>8, <2>0, <2>l, <3>1 DEF Watch!SinceTheEntry
  <2>4. ASSUME NEW t \in toasts PROVE t.from >= atEntry'[t.session][t.file]
    <3>1. t.session \in Rooms /\ t.file \in NoteFiles /\ t.from \in Nat
          /\ t.from >= atEntry[t.session][t.file]
      BY <1>t DEF Watch!SinceTheEntry, Watch!ToastsAreNews
    <3>2. atEntry'[t.session][t.file] <= atEntry[t.session][t.file]
              /\ atEntry'[t.session][t.file] \in Nat
          /\ atEntry[t.session][t.file] \in Nat
      BY <1>7, <1>8, <3>1
    <3>3. \A a, b, c \in Nat : a >= b /\ c <= b => a >= c
      OBVIOUS
    <3> QED BY <3>1, <3>2, <3>3
  <2> QED BY <1>t, <1>1, <2>1, <2>2, <2>3, <2>4 DEF Watch!SinceTheEntry, Watch!ToastsAreNews
<1>10. Watch!PagesAreOfProbes'
  <2> SUFFICES ASSUME ~noteTorn' PROVE Watch!PagesAreOfProbes'
    BY DEF Watch!PagesAreOfProbes
  <2>1. prev.file # Nothing => prev.folder \in Rooms /\ prev.file \in NoteFiles
    BY <1>t DEF Watch!ProbesAreOfFolders, Watch!IsProbe
  <2>2. prev.file # Nothing => prev.mtime \in 1 .. clock
          /\ (written[prev.folder][prev.file] = prev.mtime
                 => noteText[prev.folder][prev.file] = prev.text)
    BY <1>t, <1>4 DEF Watch!PagesAreOfProbes
  <2>3. prev.file # Nothing => prev.mtime \in 1 .. clock'
          /\ (written'[prev.folder][prev.file] = prev.mtime
                 => noteText'[prev.folder][prev.file] = prev.text)
    BY <1>3, <1>7, <2>1, <2>2
  <2> QED BY <1>t, <1>1, <1>4, <2>3 DEF Watch!PagesAreOfProbes, Watch!PageFrom
<1> QED BY <1>5, <1>6, <1>9, <1>10 DEF Watch!NotesInv

\* What the trainer and the others write.
LEMMA WritingSteps ==
  ASSUME Watch!NotesAssumption, Watch!NotesInv, Watch!Writing
  PROVE  Watch!NotesInv'
<1>t. Watch!NotesTypeOK /\ Watch!ProbesAreOfFolders /\ Watch!SinceTheEntry
          /\ Watch!PagesAreOfProbes
  BY DEF Watch!NotesInv
<1>0. PICK s \in Rooms :
        \/ \E f \in NoteFiles : \/ \E l \in Watch!Lines : Watch!AppendNotes(s, f, l)
                                \/ Watch!UndoNotes(s, f) \/ Watch!DeleteNotes(s, f)
        \/ Watch!WriteOthers(s)
  BY DEF Watch!Writing
<1>1. ASSUME NEW f \in NoteFiles, NEW lines \in Seq(Watch!Lines), Watch!WriteNotes(s, f, lines)
      PROVE  Watch!NotesInv'
  <2>1. atEntry[s][f] \in Nat /\ Len(lines) \in Nat
    BY <1>t DEF Watch!NotesTypeOK
  <2> DEFINE left == IF Len(lines) < atEntry[s][f] THEN Len(lines) ELSE atEntry[s][f]
  <2>2. left \in Nat /\ left <= atEntry[s][f] /\ left <= Len(lines)
    BY <2>1
  <2>3. /\ Watch!Writes /\ noteText' = [noteText EXCEPT ![s][f] = lines]
               /\ written' = [written EXCEPT ![s][f] = clock']
        /\ atEntry' = [atEntry EXCEPT ![s][f] = left]
        /\ noteTorn' = (noteTorn \/ half # Nothing) /\ UNCHANGED <<summary, docx, opened>>
    <3>1. atEntry' = [atEntry EXCEPT ![s][f] = IF Len(lines) < @ THEN Len(lines) ELSE @]
      BY <1>1 DEF Watch!WriteNotes
    <3>2. atEntry' = [atEntry EXCEPT ![s][f] = left]
      BY <3>1, <1>t DEF Watch!NotesTypeOK
    <3> QED BY <1>1, <3>2 DEF Watch!WriteNotes
  <2> HIDE DEF left
  <2> QED BY <2>2, <2>3, NotesWritten
<1>2. ASSUME NEW f \in NoteFiles, NEW l \in Watch!Lines, Watch!AppendNotes(s, f, l)
          PROVE Watch!NotesInv'
  <2>1. Append(noteText[s][f], l) \in Seq(Watch!Lines)
    BY <1>t DEF Watch!NotesTypeOK
  <2> QED BY <1>1, <1>2, <2>1 DEF Watch!AppendNotes
<1>3. ASSUME NEW f \in NoteFiles, Watch!UndoNotes(s, f) PROVE Watch!NotesInv'
  <2>1. noteText[s][f] # <<>> /\ noteText[s][f] \in Seq(Watch!Lines)
    BY <1>3, <1>t DEF Watch!UndoNotes, Watch!NotesTypeOK
  <2>2. \A u \in Seq(Watch!Lines) : u # <<>> => Watch!Front(u) \in Seq(Watch!Lines)
    BY DEF Watch!Front
  <2>3. Watch!Front(noteText[s][f]) \in Seq(Watch!Lines)
    BY <2>1, <2>2
  <2> QED BY <1>1, <1>3, <2>3 DEF Watch!UndoNotes
<1>4. ASSUME NEW f \in NoteFiles, Watch!DeleteNotes(s, f) PROVE Watch!NotesInv'
  <2>1. <<>> \in Seq(Watch!Lines) /\ Len(<<>>) = 0 /\ 0 \in Nat /\ 0 <= atEntry[s][f]
    BY <1>t DEF Watch!NotesTypeOK
  <2>2. /\ Watch!Writes /\ noteText' = [noteText EXCEPT ![s][f] = <<>>]
               /\ written' = [written EXCEPT ![s][f] = 0]
        /\ atEntry' = [atEntry EXCEPT ![s][f] = 0]
        /\ noteTorn' = (noteTorn \/ half # Nothing) /\ UNCHANGED <<summary, docx, opened>>
    BY <1>4 DEF Watch!DeleteNotes
  <2> DEFINE none == <<>>
             gone == 0
  <2>3. /\ none \in Seq(Watch!Lines) /\ gone \in {0, clock'} /\ gone \in Nat
        /\ gone <= atEntry[s][f] /\ gone <= Len(none)
    BY <2>1
  <2>4. /\ Watch!Writes /\ noteText' = [noteText EXCEPT ![s][f] = none]
               /\ written' = [written EXCEPT ![s][f] = gone]
        /\ atEntry' = [atEntry EXCEPT ![s][f] = gone]
        /\ noteTorn' = (noteTorn \/ half # Nothing) /\ UNCHANGED <<summary, docx, opened>>
    BY <2>2
  <2> HIDE DEF none, gone
  <2> QED BY <2>3, <2>4, NotesWritten
<1>5. CASE Watch!WriteOthers(s)
  <2>1. /\ clock < MaxWrites /\ clock' = clock + 1 /\ UNCHANGED <<noteText, written, atEntry,
               noteTorn>>
        /\ UNCHANGED <<room, half, prev, agendaPath, roomShown, toasts>>
    BY <1>5 DEF Watch!WriteOthers, Watch!Writes, Watch!probeVars
  <2>2. clock \in Nat /\ MaxWrites \in Nat
    BY <1>t DEF Watch!NotesTypeOK, Watch!NotesAssumption
  <2>3. /\ clock' \in 1 .. MaxWrites /\ clock' \in 0 .. clock' /\ 0 \in 0 .. clock'
        /\ 0 .. clock \subseteq 0 .. clock' /\ 1 .. clock \subseteq 1 .. clock'
        /\ \A a \in 0 .. clock : a + 1 \in 0 .. clock'
    BY <2>1, <2>2
  <2>0. /\ summary \in [Rooms -> 0 .. clock] /\ opened \in [Rooms -> 0 .. clock]
        /\ written \in [Rooms -> [NoteFiles -> 0 .. clock]]
        /\ docx \in [Rooms -> SUBSET {"agenda", "other"}]
    BY <1>t DEF Watch!NotesTypeOK
  <2>w. \A g \in [Rooms -> 0 .. clock] : g \in [Rooms -> 0 .. clock']
    BY <2>3
  <2>4. summary' \in [Rooms -> 0 .. clock']
    <3>1. \/ summary' = summary \/ \E v \in {0, clock'} : summary' = [summary EXCEPT ![s] = v]
      BY <1>5 DEF Watch!WriteOthers
    <3>2. \A v \in {0, clock'} : v \in 0 .. clock'
      BY <2>3
    <3>3. summary \in [Rooms -> 0 .. clock']
      BY <2>0, <2>w
    <3>4. \A v \in 0 .. clock' : [summary EXCEPT ![s] = v] \in [Rooms -> 0 .. clock']
      BY <3>3
    <3> QED BY <3>1, <3>2, <3>3, <3>4
  <2>5. opened' \in [Rooms -> 0 .. clock']
    <3>1. \/ opened' = opened \/ opened' = [opened EXCEPT ![s] = opened[s] + 1]
      BY <1>5, <2>0 DEF Watch!WriteOthers
    <3>2. opened[s] + 1 \in 0 .. clock'
      BY <2>0, <2>3
    <3> QED BY <2>0, <2>w, <3>1, <3>2
  <2>6. docx' \in [Rooms -> SUBSET {"agenda", "other"}]
    <3>1. \/ docx' = docx
          \/ \E n \in {"agenda", "other"} :
               docx' = [docx EXCEPT ![s] = IF n \in docx[s] THEN docx[s] \ {n}
                                           ELSE docx[s] \cup {n}]
      BY <1>5, <2>0 DEF Watch!WriteOthers
    <3> QED BY <2>0, <3>1
  <2>7. written \in [Rooms -> [NoteFiles -> 0 .. clock']]
    <3>1. \A g \in [NoteFiles -> 0 .. clock] : g \in [NoteFiles -> 0 .. clock']
      BY <2>3
    <3> QED BY <2>0, <3>1
  <2>8. Watch!NotesTypeOK'
    BY <1>t, <2>1, <2>3, <2>4, <2>5, <2>6, <2>7 DEF Watch!NotesTypeOK
  <2>9. Watch!ProbesAreOfFolders' /\ Watch!SinceTheEntry'
    BY <1>t, <2>1 DEF Watch!ProbesAreOfFolders, Watch!IsProbe, Watch!SinceTheEntry,
        Watch!ToastsAreNews
  <2>10. Watch!ProbeText(room)' = Watch!ProbeText(room)
    BY <2>1 DEF Watch!ProbeText, Watch!NotesFile, Watch!TextOf
  <2>11. Watch!PagesAreOfProbes'
    BY <1>t, <2>1, <2>3, <2>10 DEF Watch!PagesAreOfProbes, Watch!PageFrom
  <2> QED BY <2>8, <2>9, <2>11 DEF Watch!NotesInv
<1> QED BY <1>0, <1>2, <1>3, <1>4, <1>5

\* A probe ends.
LEMMA EndProbeStep ==
  ASSUME Watch!NotesAssumption, Watch!NotesInv, Watch!EndProbe
  PROVE  Watch!NotesInv'
<1>t. Watch!NotesTypeOK /\ Watch!ProbesAreOfFolders /\ Watch!SinceTheEntry
          /\ Watch!PagesAreOfProbes
  BY DEF Watch!NotesInv
<1> DEFINE h == half[1]
           new == Watch!ProbeRest(h)
           parts == Watch!ChangeParts(prev, new)
<1>1. /\ half # Nothing /\ half' = Nothing /\ prev' = new
      /\ \/ prev = new /\ UNCHANGED <<agendaPath, roomShown, toasts>>
         \/ /\ agendaPath' = new.agenda /\ roomShown' = Watch!Told(roomShown, new, parts)
            /\ toasts' = toasts \cup Watch!Snippet(prev, new, parts)
      /\ UNCHANGED <<noteText, written, summary, docx, opened, clock, room, atEntry, noteTorn>>
  BY DEF Watch!EndProbe, Watch!diskVars
<1>2. Watch!IsProbe(h) /\ h.folder = room /\ room \in Rooms
  BY <1>t, <1>1 DEF Watch!ProbesAreOfFolders, Watch!NotesTypeOK
<1>3. /\ new.folder = room /\ new.file = h.file /\ new.text = h.text
      /\ new.mtime = (IF h.file = Nothing THEN 0 ELSE written[room][h.file])
      /\ new.lines = Len(Watch!TextOf(room, h.file))
      /\ new.prompts = Len(Watch!ParsePrompts(h.text)) /\ new.summary = summary[room]
      /\ new.agenda = Watch!FindAgendaDocx(room) /\ new.files = opened[room]
  BY <1>2 DEF Watch!ProbeRest
<1>p. Watch!IsProbe(new)
  BY <1>2, <1>3 DEF Watch!IsProbe
<1>a. new.agenda \in {"agenda", "other", Nothing}
  BY <1>t, <1>2, <1>3 DEF Watch!FindAgendaDocx, Watch!NotesTypeOK
<1> HIDE DEF new, h
<1>4. Watch!NotesTypeOK'
  BY <1>t, <1>1, <1>a DEF Watch!NotesTypeOK
<1>5. Watch!ProbesAreOfFolders'
  BY <1>1, <1>3, <1>p DEF Watch!ProbesAreOfFolders
<1>6. Watch!SinceTheEntry'
  <2>1. new.file # Nothing => atEntry[room][new.file] <= Len(new.text)
    BY <1>t, <1>1, <1>3 DEF Watch!SinceTheEntry, h
  <2>2. ASSUME NEW t \in Watch!Snippet(prev, new, parts)
        PROVE  /\ t.session \in Rooms /\ t.file \in NoteFiles /\ t.from \in Nat
               /\ t.from >= atEntry[t.session][t.file]
    <3>1. /\ prev.file = new.file /\ prev.folder = new.folder /\ prev.text # <<>>
          /\ t.session = new.folder /\ t.file = new.file /\ t.from = Len(prev.text)
      <4> DEFINE appended == SubSeq(new.text, Len(prev.text) + 1, Len(new.text))
                 toast == [session |-> new.folder, file |-> new.file, from |-> Len(prev.text),
                           lines |-> appended]
                 grew == /\ "notes" \in parts /\ prev.file = new.file
                         /\ prev.folder = new.folder /\ prev.text # <<>>
                         /\ Watch!IsStrictPrefix(prev.text, new.text)
                                /\ appended[1] \in Watch!Marked
      <4>1. t \in IF grew THEN {toast} ELSE {}
        BY <2>2 DEF Watch!Snippet
      <4>2. grew /\ t = toast
        <5> HIDE DEF grew, toast
        <5> QED BY <4>1
      <4> QED BY <4>2
    <3>2. prev.file \in NoteFiles /\ prev.text \in Seq(Watch!Lines) /\ prev.file # Nothing
      BY <1>t, <3>1 DEF Watch!ProbesAreOfFolders, Watch!IsProbe, Watch!NotesAssumption
    <3>3. atEntry[room][prev.file] <= Len(prev.text)
      BY <1>t, <1>3, <3>1, <3>2 DEF Watch!SinceTheEntry
    <3>4. Len(prev.text) \in Nat /\ atEntry[room][prev.file] \in Nat
      BY <1>t, <1>2, <3>2 DEF Watch!NotesTypeOK
    <3> QED BY <1>2, <1>3, <3>1, <3>2, <3>3, <3>4
  <2>3. \A t \in toasts' : /\ t.session \in Rooms /\ t.file \in NoteFiles /\ t.from \in Nat
                           /\ t.from >= atEntry[t.session][t.file]
    BY <1>t, <1>1, <2>2 DEF Watch!SinceTheEntry, Watch!ToastsAreNews
  <2>4. \A s \in Rooms, f \in NoteFiles : atEntry[s][f] <= Len(noteText[s][f])
    BY <1>t DEF Watch!SinceTheEntry
  <2> QED BY <1>1, <1>3, <2>1, <2>3, <2>4 DEF Watch!SinceTheEntry, Watch!ToastsAreNews
<1>7. Watch!PagesAreOfProbes'
  <2> SUFFICES ASSUME ~noteTorn PROVE Watch!PagesAreOfProbes'
    BY <1>1 DEF Watch!PagesAreOfProbes
  <2>1. h = Watch!ProbeText(room)
    BY <1>t, <1>1 DEF Watch!PagesAreOfProbes, h
  <2>2. /\ h.file = Watch!NotesFile(room) /\ h.text = Watch!TextOf(room, Watch!NotesFile(room))
        /\ h.file # Nothing => h.file \in NoteFiles /\ h.text = noteText[room][h.file]
    BY <1>t, <1>2, <2>1, TextsAreRead
  <2>3. new.file # Nothing => new.mtime \in 1 .. clock /\ noteText[room][new.file] = new.text
    BY <1>t, <1>2, <1>3, <2>2, NotesAreThere
  <2>4. ASSUME prev.folder = room, prev.file = new.file, prev.mtime = new.mtime
        PROVE  prev.prompts = new.prompts
    <3>1. CASE prev.file = Nothing
      <4>1. prev.text = <<>> /\ new.text = <<>>
        BY <1>t, <1>p, <2>4, <3>1 DEF Watch!ProbesAreOfFolders, Watch!IsProbe
      <4> QED BY <1>t, <1>3, <4>1 DEF Watch!ProbesAreOfFolders
    <3>2. CASE prev.file # Nothing
      <4>1. new.mtime = written[room][new.file] /\ noteText[room][new.file] = new.text
        BY <1>3, <2>3, <2>4, <3>2
      <4>2. noteText[room][prev.file] = prev.text
        BY <1>t, <2>4, <3>2, <4>1 DEF Watch!PagesAreOfProbes
      <4>3. prev.text = new.text
        BY <2>4, <4>1, <4>2
      <4> QED BY <1>t, <1>3, <4>3 DEF Watch!ProbesAreOfFolders
    <3> QED BY <3>1, <3>2
  <2>5. roomShown' = Watch!PageFrom(new) /\ agendaPath' = new.agenda
    <3>1. CASE prev = new /\ UNCHANGED <<agendaPath, roomShown, toasts>>
      BY <1>t, <1>3, <3>1 DEF Watch!PagesAreOfProbes
    <3>2. CASE agendaPath' = new.agenda /\ roomShown' = Watch!Told(roomShown, new, parts)
      <4>1. CASE prev.folder # room
        <5>1. "session" \in parts
          BY <1>3, <4>1 DEF Watch!ChangeParts
        <5> HIDE DEF parts
        <5> QED BY <3>2, <5>1 DEF Watch!Told, Watch!PageFrom
      <4>2. CASE prev.folder = room
        <5>1. roomShown = Watch!PageFrom(prev)
          BY <1>t, <4>2 DEF Watch!PagesAreOfProbes
        <5>2. /\ "notes" \notin parts => prev.file = new.file /\ prev.mtime = new.mtime
              /\ "summary" \notin parts => prev.summary = new.summary
              /\ "agenda" \notin parts => prev.agenda = new.agenda
              /\ "files" \notin parts => prev.files = new.files
          BY DEF Watch!ChangeParts
        <5>3. "notes" \notin parts => prev.prompts = new.prompts
          BY <2>4, <4>2, <5>2
        <5> HIDE DEF parts
        <5> QED BY <3>2, <5>1, <5>2, <5>3 DEF Watch!Told, Watch!PageFrom
      <4> QED BY <4>1, <4>2
    <3> QED BY <1>1, <3>1, <3>2
  <2>6. Watch!PageFrom(prev)' = Watch!PageFrom(new)
    BY <1>1 DEF Watch!PageFrom
  <2> QED BY <1>1, <1>3, <2>3, <2>5, <2>6 DEF Watch!PagesAreOfProbes
<1> QED BY <1>4, <1>5, <1>6, <1>7 DEF Watch!NotesInv

\* A probe begins; or another room is entered.
LEMMA ProbeSteps ==
  ASSUME Watch!NotesAssumption, Watch!NotesInv, Watch!StartProbe \/ \E s \in Rooms : Watch!Enter(s)
  PROVE  Watch!NotesInv'
<1>t. Watch!NotesTypeOK /\ Watch!ProbesAreOfFolders /\ Watch!SinceTheEntry
          /\ Watch!PagesAreOfProbes
  BY DEF Watch!NotesInv
<1>1. CASE Watch!StartProbe
  <2> DEFINE h == Watch!ProbeText(room)
  <2>1. /\ half' = <<h>> /\ half'[1] = h
        /\ UNCHANGED <<noteText, written, summary, docx, opened, clock, room, prev, agendaPath,
               roomShown,
                       toasts, atEntry, noteTorn>>
    BY <1>1 DEF Watch!StartProbe, Watch!diskVars
  <2>2. /\ Watch!IsProbe(h) /\ h.folder = room /\ room \in Rooms
        /\ h.file # Nothing => h.file \in NoteFiles /\ h.text = noteText[room][h.file]
    BY <1>t, TextsAreRead DEF Watch!NotesTypeOK
  <2>3. Watch!ProbeText(room)' = h
    BY <2>1 DEF Watch!ProbeText, Watch!NotesFile, Watch!TextOf
  <2> HIDE DEF h
  <2>4. Watch!NotesTypeOK' /\ Watch!ProbesAreOfFolders'
    BY <1>t, <2>1, <2>2 DEF Watch!NotesTypeOK, Watch!ProbesAreOfFolders
  <2>5. Watch!SinceTheEntry'
    BY <1>t, <2>1, <2>2 DEF Watch!SinceTheEntry, Watch!ToastsAreNews
  <2>6. Watch!PagesAreOfProbes'
    BY <1>t, <2>1, <2>3 DEF Watch!PagesAreOfProbes, Watch!PageFrom
  <2> QED BY <2>4, <2>5, <2>6 DEF Watch!NotesInv
<1>2. ASSUME NEW s \in Rooms, Watch!Enter(s) PROVE Watch!NotesInv'
  <2>1. /\ half = Nothing /\ prev.folder = room /\ s # room /\ room' = s
        /\ roomShown' = Watch!PageOf(s) /\ toasts' = {}
        /\ atEntry' = [atEntry EXCEPT ![s] = [f \in NoteFiles |-> Len(noteText[s][f])]]
        /\ UNCHANGED <<noteText, written, summary, docx, opened, clock, half, prev, agendaPath,
               noteTorn>>
    BY <1>2 DEF Watch!Enter, Watch!diskVars
  <2>2. \A f \in NoteFiles : Len(noteText[s][f]) \in Nat
    BY <1>t DEF Watch!NotesTypeOK
  <2>3. atEntry' \in [Rooms -> [NoteFiles -> Nat]]
    BY <1>t, <2>1, <2>2 DEF Watch!NotesTypeOK
  <2>4. \A r \in Rooms, f \in NoteFiles :
          atEntry'[r][f] = IF r = s THEN Len(noteText[s][f]) ELSE atEntry[r][f]
    BY <1>t, <2>1 DEF Watch!NotesTypeOK
  <2>5. Watch!NotesTypeOK'
    BY <1>t, <2>1, <2>3 DEF Watch!NotesTypeOK
  <2>6. Watch!ProbesAreOfFolders'
    BY <1>t, <2>1 DEF Watch!ProbesAreOfFolders, Watch!IsProbe
  <2>7. Watch!SinceTheEntry'
    BY <1>t, <2>1, <2>2, <2>4 DEF Watch!SinceTheEntry, Watch!ToastsAreNews
  <2>8. Watch!PagesAreOfProbes'
    BY <1>t, <2>1 DEF Watch!PagesAreOfProbes
  <2> QED BY <2>5, <2>6, <2>7, <2>8 DEF Watch!NotesInv
<1> QED BY <1>1, <1>2

\* Every step keeps pages and toasts as the probes tell.
LEMMA NotesSteps ==
  Watch!NotesAssumption /\ Watch!NotesInv /\ [Watch!Next]_(Watch!vars) => Watch!NotesInv'
<1> SUFFICES ASSUME Watch!NotesAssumption, Watch!NotesInv, [Watch!Next]_(Watch!vars)
             PROVE  Watch!NotesInv'
  OBVIOUS
<1>1. CASE UNCHANGED Watch!vars
  <2>1. UNCHANGED <<noteText, written, summary, docx, opened, clock, room, half, prev,
            agendaPath, roomShown,
                    toasts, atEntry, noteTorn>>
    BY <1>1 DEF Watch!vars, Watch!diskVars, Watch!probeVars
  <2>2. Watch!ProbeText(room)' = Watch!ProbeText(room)
    BY <2>1 DEF Watch!ProbeText, Watch!NotesFile, Watch!TextOf
  <2> QED BY <2>1, <2>2 DEF Watch!NotesInv, Watch!NotesTypeOK, Watch!ProbesAreOfFolders,
          Watch!IsProbe, Watch!SinceTheEntry,
             Watch!ToastsAreNews, Watch!PagesAreOfProbes, Watch!PageFrom
<1>2. CASE Watch!Next
  BY <1>2, WritingSteps, EndProbeStep, ProbeSteps DEF Watch!Next
<1> QED BY <1>1, <1>2

\* What the invariant says of the properties.
LEMMA NotesTell ==
  Watch!NotesAssumption /\ Watch!NotesInv => Watch!TypeOK /\ Watch!PagesShowTheFolder
      /\ Watch!ToastsAreNews
<1> SUFFICES ASSUME Watch!NotesAssumption, Watch!NotesInv
             PROVE  Watch!TypeOK /\ Watch!PagesShowTheFolder /\ Watch!ToastsAreNews
  OBVIOUS
<1>t. Watch!NotesTypeOK /\ Watch!ProbesAreOfFolders /\ Watch!SinceTheEntry
          /\ Watch!PagesAreOfProbes
  BY DEF Watch!NotesInv
<1>1. Watch!TypeOK
  <2>1. clock \in Nat /\ MaxWrites \in Nat /\ clock <= MaxWrites
    BY <1>t DEF Watch!NotesTypeOK, Watch!NotesAssumption
  <2>2. 0 .. clock \subseteq 0 .. MaxWrites
    BY <2>1
  <2> QED BY <1>t, <2>2 DEF Watch!NotesTypeOK, Watch!TypeOK
<1>2. Watch!PagesShowTheFolder
  <2> SUFFICES ASSUME ~noteTorn, prev = Watch!ProbeRest(Watch!ProbeText(room))
               PROVE  roomShown = Watch!PageOf(room) /\ agendaPath = Watch!FindAgendaDocx(room)
    BY DEF Watch!PagesShowTheFolder
  <2> DEFINE p == Watch!ProbeText(room)
  <2>1. /\ p.folder = room /\ p.file = Watch!NotesFile(room)
        /\ p.text = Watch!TextOf(room, Watch!NotesFile(room))
    BY DEF Watch!ProbeText
  <2> HIDE DEF p
  <2>2. /\ prev.folder = room
        /\ prev.mtime = (IF p.file = Nothing THEN 0 ELSE written[room][p.file])
        /\ prev.prompts = Len(Watch!ParsePrompts(p.text)) /\ prev.summary = summary[room]
        /\ prev.agenda = Watch!FindAgendaDocx(room) /\ prev.files = opened[room]
    BY <2>1 DEF Watch!ProbeRest, p
  <2>3. roomShown = Watch!PageFrom(prev) /\ agendaPath = prev.agenda
    BY <1>t, <2>2 DEF Watch!PagesAreOfProbes
  <2> QED BY <2>1, <2>2, <2>3 DEF Watch!PageFrom, Watch!PageOf
<1> QED BY <1>t, <1>1, <1>2 DEF Watch!SinceTheEntry

----------------------------------------------------------------------------
(* The static files of Railway                                              *)

\* All copies are the same at the start.
LEMMA SyncStarts == Sync!SyncAssumption /\ Sync!Init => Sync!SyncInv
<1> SUFFICES ASSUME Sync!SyncAssumption, Sync!Init PROVE Sync!SyncInv
  OBVIOUS
<1>1. here \in Sync!Dirs
  BY DEF Sync!Init, Sync!Dirs, Sync!SyncAssumption
<1>2. Sync!SyncTypeOK
  BY <1>1 DEF Sync!Init, Sync!SyncTypeOK
<1>3. Sync!JobsAreTheDifference /\ Sync!SyncConverges
  BY <1>1 DEF Sync!Init, Sync!JobsAreTheDifference, Sync!SyncConverges, Sync!SyncAssumption,
      Sync!Dirs
<1> QED BY <1>2, <1>3 DEF Sync!SyncInv

\* What Railway may still do is of files it takes.
LEMMA LateIsTyped ==
  ASSUME Sync!SyncTypeOK, NEW n \in Statics, Sync!Unanswered(n), Sync!SyncAssumption
  PROVE  latePosts' \subseteq [of : Sync!Synced, version : 0 .. MaxEditions]
<1> DEFINE v == IF n \in syncJob.up THEN here[n] ELSE 0
           m == [of |-> n, version |-> v]
<1>1. v \in 0 .. MaxEditions
  BY DEF Sync!SyncTypeOK, Sync!Dirs, Sync!SyncAssumption
<1> HIDE DEF v
<1>2. n \in Sync!Synced => m \in [of : Sync!Synced, version : 0 .. MaxEditions]
  BY <1>1
<1>3. latePosts' = latePosts \/ (n \in Sync!Synced /\ latePosts' = latePosts \cup {m})
  BY DEF Sync!Unanswered, v
<1> HIDE DEF m
<1> QED BY <1>2, <1>3 DEF Sync!SyncTypeOK

\* What the sync itself does.
LEMMA SyncActs ==
  ASSUME Sync!SyncAssumption, Sync!SyncInv,
         Sync!Start \/ Sync!Finish \/ \E n \in Statics : Sync!Upload(n) \/ Sync!Delete(n)
             \/ Sync!Fail(n)
  PROVE  Sync!SyncInv'
<1>t. Sync!SyncTypeOK /\ Sync!JobsAreTheDifference /\ Sync!SyncConverges
  BY DEF Sync!SyncInv
<1>s. /\ here \in Sync!Dirs /\ there \in Sync!Dirs /\ \A n \in Statics : here[n] \in 0 .. MaxEditions
      /\ Sync!Synced \subseteq Statics /\ Excluded \subseteq Statics /\ Excluded \cap Sync!Synced = {}
      /\ 0 \in 0 .. MaxEditions
  BY <1>t DEF Sync!SyncTypeOK, Sync!Dirs, Sync!SyncAssumption, Sync!Synced
<1>0. Sync!Synced' = Sync!Synced
  BY DEF Sync!Synced
<1>1. CASE Sync!Start
  <2> DEFINE mine == Sync!Hashes(here)
             new == [up |-> Sync!ToUpload(mine, request), down |-> Sync!ToDelete(mine, request),
                     changed |-> FALSE]
  <2>1. /\ request # Nothing /\ syncJob = Nothing /\ syncJob' = new /\ request' = Nothing
        /\ clean' = (\A n \in Statics : request[n] = Sync!Hashes(there)[n])
        /\ UNCHANGED <<here, there, image, syncLinked, reload, pages, lost, latePosts>>
    BY <1>1 DEF Sync!Start, Sync!side
  <2>2. clean' \in BOOLEAN
    BY <2>1
  <2>3. new \in Sync!Jobs /\ new.up = Sync!ToUpload(mine, request)
            /\ new.down = Sync!ToDelete(mine, request)
        /\ ~new.changed
    BY DEF Sync!Jobs, Sync!ToUpload, Sync!ToDelete
  <2>4. Sync!ToUpload(mine, request) \cap Sync!ToDelete(mine, request) = {}
    BY DEF Sync!ToUpload, Sync!ToDelete
  <2>5. \A n \in Sync!Synced : mine[n] = here[n] /\ Sync!Hashes(there)[n] = there[n]
    BY <1>s DEF Sync!Hashes, Sync!Synced
  <2> HIDE DEF new, mine
  <2>6. Sync!SyncTypeOK'
    BY <1>t, <1>0, <2>1, <2>2, <2>3, <2>4 DEF Sync!SyncTypeOK
  <2>7. syncJob' # Nothing
    BY <2>1, <2>3 DEF Sync!SyncAssumption, Sync!Jobs
  <2>8. ASSUME clean', NEW n \in Sync!Synced
        PROVE  /\ n \in new.up => here[n] # 0
               /\ n \in new.down => here[n] = 0
               /\ n \notin new.up \cup new.down => there[n] = here[n]
    <3>1. request[n] = there[n] /\ mine[n] = here[n]
      BY <1>s, <2>1, <2>5, <2>8
    <3> QED BY <1>s, <2>3, <3>1 DEF Sync!ToUpload, Sync!ToDelete
  <2>9. Sync!JobsAreTheDifference'
    BY <1>t, <2>1, <2>3, <2>8 DEF Sync!JobsAreTheDifference, Sync!SyncConverges, Sync!Synced
  <2>10. Sync!SyncConverges'
    BY <1>t, <2>1, <2>7 DEF Sync!SyncConverges
  <2> QED BY <2>6, <2>9, <2>10 DEF Sync!SyncInv
<1>2. CASE Sync!Finish
  <2>1. /\ syncJob # Nothing /\ syncJob.up = {} /\ syncJob.down = {} /\ syncJob' = Nothing
        /\ reload' = (reload \/ (syncJob.changed /\ syncLinked))
        /\ lost' = (lost \/ (syncJob.changed /\ ~syncLinked))
        /\ UNCHANGED <<here, there, image, syncLinked, request, pages, clean, latePosts>>
    BY <1>2 DEF Sync!Finish, Sync!side
  <2>2. {reload', lost'} \subseteq BOOLEAN /\ syncJob \in Sync!Jobs
    BY <1>t, <2>1 DEF Sync!SyncTypeOK, Sync!Jobs
  <2>3. Sync!SyncTypeOK'
    BY <1>t, <1>0, <2>1, <2>2 DEF Sync!SyncTypeOK
  <2>4. ~reload' /\ ~lost' => ~syncJob.changed /\ ~reload /\ ~lost
    BY <2>1
  <2>5. Sync!SyncConverges'
    BY <1>t, <2>1, <2>4 DEF Sync!SyncConverges, Sync!JobsAreTheDifference, Sync!Synced
  <2> QED BY <2>1, <2>3, <2>5 DEF Sync!SyncInv, Sync!JobsAreTheDifference
<1>3. ASSUME NEW n \in Statics, Sync!Upload(n) PROVE Sync!SyncInv'
  <2> DEFINE done == here[n] # 0 /\ n \in Sync!Synced
             new == [syncJob EXCEPT !.up = @ \ {n}, !.changed = @ \/ done]
  <2>1. /\ syncJob # Nothing /\ n \in syncJob.up /\ syncJob' = new
        /\ there' = IF done THEN [there EXCEPT ![n] = here[n]] ELSE there
        /\ UNCHANGED <<here, image, syncLinked, request, reload, pages, clean, lost, latePosts>>
    BY <1>3 DEF Sync!Upload, Sync!side
  <2>2. syncJob \in Sync!Jobs
    BY <1>t, <2>1 DEF Sync!SyncTypeOK
  <2>3. /\ new \in Sync!Jobs /\ new.up = syncJob.up \ {n} /\ new.down = syncJob.down
        /\ new.changed = (syncJob.changed \/ done)
    BY <2>2 DEF Sync!Jobs
  <2>4. there' \in Sync!Dirs /\ \A m \in Statics : m # n => there'[m] = there[m]
    BY <1>s, <2>1 DEF Sync!Dirs
  <2>5. done => there'[n] = here[n]
    BY <1>s, <2>1 DEF Sync!Dirs
  <2>6. ~done => there' = there
    BY <2>1
  <2>7. n \in Excluded => ~done
    BY <1>s
  <2>8. clean /\ n \in Sync!Synced => done
    BY <1>t, <2>1 DEF Sync!JobsAreTheDifference
  <2> HIDE DEF new, done
  <2>9. Sync!SyncTypeOK'
    BY <1>t, <1>0, <2>1, <2>3, <2>4 DEF Sync!SyncTypeOK
  <2>10. Sync!JobsAreTheDifference'
    <3>1. ASSUME clean, NEW m \in Sync!Synced
          PROVE  /\ m \in new.up => here[m] # 0
                 /\ m \in new.down => here[m] = 0
                 /\ m \notin new.up \cup new.down => there'[m] = here[m]
      <4>1. /\ m \in syncJob.up => here[m] # 0
            /\ m \in syncJob.down => here[m] = 0
            /\ m \notin syncJob.up \cup syncJob.down => there[m] = here[m]
        BY <1>t, <2>1, <3>1 DEF Sync!JobsAreTheDifference
      <4> QED BY <1>s, <2>3, <2>4, <2>5, <2>8, <3>1, <4>1
    <3>2. ~new.changed /\ ~reload /\ ~lost => pages = there'
      BY <1>t, <2>1, <2>3, <2>6 DEF Sync!JobsAreTheDifference
    <3> QED BY <1>0, <2>1, <3>1, <3>2 DEF Sync!JobsAreTheDifference
  <2>11. Sync!SyncConverges'
    <3>1. syncJob' # Nothing
      BY <2>1, <2>3 DEF Sync!SyncAssumption, Sync!Jobs
    <3> QED BY <1>t, <1>s, <2>1, <2>4, <2>6, <2>7, <3>1 DEF Sync!SyncConverges
  <2> QED BY <2>9, <2>10, <2>11 DEF Sync!SyncInv
<1>4. ASSUME NEW n \in Statics, Sync!Delete(n) PROVE Sync!SyncInv'
  <2> DEFINE done == n \in Sync!Synced
             new == [syncJob EXCEPT !.down = @ \ {n}, !.changed = @ \/ done]
  <2>1. /\ syncJob # Nothing /\ n \in syncJob.down /\ syncJob' = new
        /\ there' = IF done THEN [there EXCEPT ![n] = 0] ELSE there
        /\ UNCHANGED <<here, image, syncLinked, request, reload, pages, clean, lost, latePosts>>
    BY <1>4 DEF Sync!Delete, Sync!side
  <2>2. syncJob \in Sync!Jobs
    BY <1>t, <2>1 DEF Sync!SyncTypeOK
  <2>3. /\ new \in Sync!Jobs /\ new.down = syncJob.down \ {n} /\ new.up = syncJob.up
        /\ new.changed = (syncJob.changed \/ done)
    BY <2>2 DEF Sync!Jobs
  <2>4. there' \in Sync!Dirs /\ \A m \in Statics : m # n => there'[m] = there[m]
    BY <1>s, <2>1 DEF Sync!Dirs
  <2>5. done => there'[n] = 0
    BY <1>s, <2>1 DEF Sync!Dirs
  <2>6. ~done => there' = there
    BY <2>1
  <2>7. n \in Excluded => ~done
    BY <1>s
  <2>8. clean /\ n \in Sync!Synced => here[n] = 0
    BY <1>t, <2>1 DEF Sync!JobsAreTheDifference
  <2>d. done <=> n \in Sync!Synced
    OBVIOUS
  <2> HIDE DEF new, done
  <2>9. Sync!SyncTypeOK'
    BY <1>t, <1>0, <2>1, <2>3, <2>4 DEF Sync!SyncTypeOK
  <2>10. Sync!JobsAreTheDifference'
    <3>1. ASSUME clean, NEW m \in Sync!Synced
          PROVE  /\ m \in new.up => here[m] # 0
                 /\ m \in new.down => here[m] = 0
                 /\ m \notin new.up \cup new.down => there'[m] = here[m]
      <4>1. /\ m \in syncJob.up => here[m] # 0
            /\ m \in syncJob.down => here[m] = 0
            /\ m \notin syncJob.up \cup syncJob.down => there[m] = here[m]
        BY <1>t, <2>1, <3>1 DEF Sync!JobsAreTheDifference
      <4> QED BY <1>s, <2>3, <2>4, <2>5, <2>8, <2>d, <3>1, <4>1
    <3>2. ~new.changed /\ ~reload /\ ~lost => pages = there'
      BY <1>t, <2>1, <2>3, <2>6 DEF Sync!JobsAreTheDifference
    <3> QED BY <1>0, <2>1, <3>1, <3>2 DEF Sync!JobsAreTheDifference
  <2>11. Sync!SyncConverges'
    <3>1. syncJob' # Nothing
      BY <2>1, <2>3 DEF Sync!SyncAssumption, Sync!Jobs
    <3> QED BY <1>t, <1>s, <2>1, <2>4, <2>6, <2>7, <3>1 DEF Sync!SyncConverges
  <2> QED BY <2>9, <2>10, <2>11 DEF Sync!SyncInv
<1>5. ASSUME NEW n \in Statics, Sync!Fail(n) PROVE Sync!SyncInv'
  <2> DEFINE new == [syncJob EXCEPT !.up = @ \ {n}, !.down = @ \ {n}]
  <2>1. /\ syncJob # Nothing /\ syncJob' = new /\ clean' = FALSE
        /\ UNCHANGED <<here, there, image, syncLinked, request, reload, pages, lost>>
    BY <1>5 DEF Sync!Fail
  <2>l. latePosts' \subseteq [of : Sync!Synced, version : 0 .. MaxEditions]
    BY <1>t, <1>5, LateIsTyped DEF Sync!Fail
  <2>2. syncJob \in Sync!Jobs
    BY <1>t, <2>1 DEF Sync!SyncTypeOK
  <2>3. /\ new \in Sync!Jobs /\ new.up \subseteq syncJob.up /\ new.down \subseteq syncJob.down
        /\ new.changed = syncJob.changed
    BY <2>2 DEF Sync!Jobs
  <2> HIDE DEF new
  <2>4. Sync!SyncTypeOK'
    BY <1>t, <1>0, <2>1, <2>3, <2>l DEF Sync!SyncTypeOK
  <2>5. syncJob' # Nothing
    BY <2>1, <2>3 DEF Sync!SyncAssumption, Sync!Jobs
  <2> QED BY <1>t, <2>1, <2>3, <2>4, <2>5 DEF Sync!SyncInv, Sync!JobsAreTheDifference,
          Sync!SyncConverges
<1> QED BY <1>1, <1>2, <1>3, <1>4, <1>5

\* What goes on around it.
LEMMA AroundActs ==
  ASSUME Sync!SyncAssumption, Sync!SyncInv,
         \/ Sync!Connect \/ Sync!Disconnect \/ Sync!Crash \/ Sync!Redeploy \/ Sync!HearReload
         \/ \E n \in Statics : Sync!Edit(n) \/ Sync!Remove(n)
         \/ \E m \in latePosts : Sync!Land(m)
  PROVE  Sync!SyncInv'
<1>t. Sync!SyncTypeOK /\ Sync!JobsAreTheDifference /\ Sync!SyncConverges
  BY DEF Sync!SyncInv
<1>s. /\ here \in Sync!Dirs /\ there \in Sync!Dirs /\ 0 \in 0 .. MaxEditions
  BY <1>t DEF Sync!SyncTypeOK, Sync!Dirs, Sync!SyncAssumption
<1>0. Sync!Synced' = Sync!Synced
  BY DEF Sync!Synced
<1>1. CASE Sync!Connect
  <2>1. Sync!Hashes(there) \in Sync!Dirs
    BY <1>s DEF Sync!Hashes, Sync!Dirs
  <2> QED BY <1>t, <1>0, <1>1, <2>1
        DEF Sync!Connect, Sync!side, Sync!SyncInv, Sync!SyncTypeOK, Sync!JobsAreTheDifference,
            Sync!SyncConverges
<1>2. CASE Sync!Disconnect
  <2>1. /\ syncLinked' = FALSE /\ lost' = (lost \/ reload) /\ reload' = FALSE
        /\ UNCHANGED <<here, there, image, request, syncJob, pages, clean, latePosts>>
    BY <1>2 DEF Sync!Disconnect
  <2>2. lost' \in BOOLEAN /\ (~lost' => ~lost /\ ~reload)
    BY <1>t, <2>1 DEF Sync!SyncTypeOK
  <2>3. Sync!SyncTypeOK'
    BY <1>t, <1>0, <2>1, <2>2 DEF Sync!SyncTypeOK
  <2> QED BY <1>t, <1>0, <2>1, <2>2, <2>3 DEF Sync!SyncInv, Sync!JobsAreTheDifference,
          Sync!SyncConverges
<1>3. CASE Sync!Crash
  <2>1. /\ syncJob # Nothing /\ syncJob' = Nothing /\ request' = Nothing /\ syncLinked' = FALSE
        /\ lost' = (lost \/ syncJob.changed) /\ clean' = FALSE
        /\ UNCHANGED <<here, there, image, reload, pages>>
    BY <1>3 DEF Sync!Crash
  <2>l. latePosts' \subseteq [of : Sync!Synced, version : 0 .. MaxEditions]
    <3>1. latePosts' = latePosts \/ \E n \in Sync!Turn : Sync!Unanswered(n)
      BY <1>3 DEF Sync!Crash
    <3>2. Sync!Turn \subseteq Statics
      BY <1>t, <2>1 DEF Sync!Turn, Sync!SyncTypeOK, Sync!Jobs
    <3> QED BY <1>t, <3>1, <3>2, LateIsTyped DEF Sync!SyncTypeOK
  <2>2. lost' \in BOOLEAN /\ (~lost' => ~lost /\ ~syncJob.changed)
    BY <1>t, <2>1 DEF Sync!SyncTypeOK, Sync!Jobs
  <2>3. Sync!SyncTypeOK'
    BY <1>t, <1>0, <2>1, <2>2, <2>l DEF Sync!SyncTypeOK
  <2> QED BY <1>t, <1>0, <2>1, <2>2, <2>3 DEF Sync!SyncInv, Sync!JobsAreTheDifference,
          Sync!SyncConverges
<1>4. CASE Sync!Redeploy
  <2>1. /\ image' \in {image, here} /\ there' = image' /\ pages' = image'
        /\ syncLinked' = FALSE /\ reload' = FALSE /\ lost' = FALSE /\ clean' = FALSE
        /\ latePosts' = {} /\ UNCHANGED <<here, request, syncJob>>
    BY <1>4 DEF Sync!Redeploy
  <2>3. Sync!SyncTypeOK'
    BY <1>t, <1>0, <2>1 DEF Sync!SyncTypeOK
  <2> QED BY <1>t, <1>0, <2>1, <2>3 DEF Sync!SyncInv, Sync!JobsAreTheDifference, Sync!SyncConverges
<1>5. CASE Sync!HearReload
  <2>1. /\ reload' = FALSE /\ pages' = there /\ lost' = FALSE
        /\ UNCHANGED <<here, there, image, syncLinked, request, syncJob, clean, latePosts>>
    BY <1>5 DEF Sync!HearReload, Sync!side
  <2>3. Sync!SyncTypeOK'
    BY <1>t, <1>0, <2>1 DEF Sync!SyncTypeOK
  <2> QED BY <1>t, <1>0, <2>1, <2>3 DEF Sync!SyncInv, Sync!JobsAreTheDifference, Sync!SyncConverges
<1>6. ASSUME NEW n \in Statics, Sync!Edit(n) \/ Sync!Remove(n) PROVE Sync!SyncInv'
  <2>1. PICK v \in 0 .. MaxEditions : here' = [here EXCEPT ![n] = v]
    <3>1. here[n] \in 0 .. MaxEditions /\ MaxEditions \in Nat
      BY <1>s DEF Sync!Dirs, Sync!SyncAssumption
    <3>2. here[n] < MaxEditions => here[n] + 1 \in 0 .. MaxEditions
      BY <3>1
    <3> QED BY <1>6, <1>s, <3>2 DEF Sync!Edit, Sync!Remove
  <2>2. clean' = FALSE /\ UNCHANGED <<there, image, syncLinked, request, syncJob, reload, pages,
            lost, latePosts>>
    BY <1>6 DEF Sync!Edit, Sync!Remove, Sync!side
  <2>3. here' \in Sync!Dirs
    BY <1>s, <2>1 DEF Sync!Dirs
  <2>4. Sync!SyncTypeOK'
    BY <1>t, <1>0, <2>2, <2>3 DEF Sync!SyncTypeOK
  <2> QED BY <1>t, <1>0, <2>2, <2>4 DEF Sync!SyncInv, Sync!JobsAreTheDifference, Sync!SyncConverges
<1>7. ASSUME NEW m \in latePosts, Sync!Land(m) PROVE Sync!SyncInv'
  <2>1. /\ latePosts' = latePosts \ {m} /\ there' = [there EXCEPT ![m.of] = m.version]
        /\ clean' = (clean /\ there' = there) /\ lost' = (lost \/ there' # there)
        /\ UNCHANGED <<here, image, syncLinked, request, syncJob, reload, pages>>
    BY <1>7 DEF Sync!Land
  <2>2. m.of \in Sync!Synced /\ m.version \in 0 .. MaxEditions /\ Sync!Synced \subseteq Statics
    BY <1>t DEF Sync!SyncTypeOK, Sync!Synced
  <2>3. there' \in Sync!Dirs /\ \A n \in Excluded : there'[n] = there[n]
    BY <1>s, <2>1, <2>2 DEF Sync!Dirs, Sync!Synced, Sync!SyncAssumption
  <2>4. /\ clean' => clean /\ there' = there
        /\ ~lost' => ~lost /\ there' = there
        /\ {clean', lost'} \subseteq BOOLEAN
    BY <1>t, <2>1 DEF Sync!SyncTypeOK
  <2>5. Sync!SyncTypeOK'
    BY <1>t, <1>0, <2>1, <2>3, <2>4 DEF Sync!SyncTypeOK
  <2>6. Sync!JobsAreTheDifference'
    BY <1>t, <1>0, <2>1, <2>4 DEF Sync!JobsAreTheDifference
  <2>7. Sync!SyncConverges'
    BY <1>t, <1>0, <2>1, <2>3, <2>4 DEF Sync!SyncConverges
  <2> QED BY <2>5, <2>6, <2>7 DEF Sync!SyncInv
<1> QED BY <1>1, <1>2, <1>3, <1>4, <1>5, <1>6, <1>7

\* Every step keeps what is left to send equal to the difference.
LEMMA SyncSteps == Sync!SyncAssumption /\ Sync!SyncInv /\ [Sync!Next]_(Sync!vars) => Sync!SyncInv'
<1> SUFFICES ASSUME Sync!SyncAssumption, Sync!SyncInv, [Sync!Next]_(Sync!vars) PROVE Sync!SyncInv'
  OBVIOUS
<1>1. CASE UNCHANGED Sync!vars
  BY <1>1 DEF Sync!vars, Sync!SyncInv, Sync!SyncTypeOK, Sync!JobsAreTheDifference,
      Sync!SyncConverges, Sync!Synced
<1>2. CASE Sync!Next
  BY <1>2, SyncActs, AroundActs DEF Sync!Next
<1> QED BY <1>1, <1>2

\* What the invariant says of the properties.
LEMMA SyncTells == Sync!SyncInv => Sync!TypeOK /\ Sync!SyncConverges
BY DEF Sync!SyncInv, Sync!SyncTypeOK, Sync!TypeOK, Sync!Dirs, Sync!Jobs

----------------------------------------------------------------------------
(* The session's file                                                       *)

\* The file has its id at the start.
LEMMA FileStarts == Saves!FileAssumption /\ Saves!Init => Saves!FileInv
<1> SUFFICES ASSUME Saves!FileAssumption, Saves!Init PROVE Saves!FileInv
  OBVIOUS
<1>0. 0 \in Saves!Version
  BY DEF Saves!FileAssumption, Saves!Version
<1>1. stateFile = [id |-> TRUE, activities |-> 0, grants |-> 0, points |-> 0]
          /\ stateFile \in Saves!Contents
  BY <1>0 DEF Saves!Init, Saves!Blank, Saves!Contents
<1>2. Saves!TypeOK
  <2>1. live \in [activities : Saves!Version, grants : Saves!Version, points : Saves!Version]
        /\ ownKept \in [activities : Saves!Version, grants : Saves!Version]
               /\ flushed \in Saves!Version \X Saves!Version
    BY <1>0 DEF Saves!Init
  <2>2. saving \in [Saves!Writers -> [at : {"idle", "read", "open", "written"},
                           text : Saves!Contents \cup {Nothing}]]
    BY DEF Saves!Init, Saves!Idle
  <2> QED BY <1>0, <1>1, <2>1, <2>2 DEF Saves!Init, Saves!TypeOK
<1>3. Saves!SavesHaveTexts /\ Saves!SavesAreMerged
  BY DEF Saves!Init, Saves!SavesHaveTexts, Saves!SavesAreMerged, Saves!Idle
<1>4. Saves!FileIsWhole
  <2>1. stateFile \notin {Broken, Nothing}
    BY <1>1 DEF Saves!FileAssumption
  <2>2. ownKept = [activities |-> 0, grants |-> 0]
    BY DEF Saves!Init
  <2> QED BY <1>1, <2>1, <2>2 DEF Saves!FileIsWhole, Saves!Empty
<1> QED BY <1>2, <1>3, <1>4 DEF Saves!FileInv

\* What a writer makes of the file.
LEMMA MergesAreContents ==
  ASSUME Saves!FileAssumption, Saves!TypeOK, NEW w \in Saves!Writers
  PROVE  LET text == Saves!Merge(w, Saves!Load(stateFile)) IN
         /\ text \in Saves!Contents /\ Saves!Load(stateFile) \in Saves!Contents
                /\ text.id = Saves!Load(stateFile).id
         /\ w = "main" => text.grants = Saves!Load(stateFile).grants
         /\ w = "handler" => text.activities = Saves!Load(stateFile).activities
<1>1. Saves!Load(stateFile) \in Saves!Contents
  BY DEF Saves!Load, Saves!Blank, Saves!Empty, Saves!TypeOK, Saves!FileAssumption,
      Saves!Contents, Saves!Version
<1>2. /\ Saves!Load(stateFile) \in [id : BOOLEAN, activities : Saves!Version,
             grants : Saves!Version, points : Saves!Version]
      /\ live \in [activities : Saves!Version, grants : Saves!Version, points : Saves!Version]
             /\ cachedPoints \in Saves!Version
  BY <1>1 DEF Saves!TypeOK, Saves!Contents
<1> QED BY <1>1, <1>2 DEF Saves!Merge, Saves!Contents, Saves!Writers

\* Every step of the two writers leaves the file whole.
LEMMA FileSteps ==
  Saves!FileAssumption /\ Saves!FileInv /\ [Saves!Next]_(Saves!vars) => Saves!FileInv'
<1> SUFFICES ASSUME Saves!FileAssumption, Saves!FileInv, [Saves!Next]_(Saves!vars)
             PROVE  Saves!FileInv'
  OBVIOUS
<1>t. Saves!TypeOK /\ Saves!SavesHaveTexts /\ Saves!SavesAreMerged /\ Saves!FileIsWhole
  BY DEF Saves!FileInv
<1>1. CASE UNCHANGED Saves!vars
  BY <1>1, <1>t DEF Saves!vars, Saves!FileInv, Saves!TypeOK, Saves!SavesHaveTexts,
      Saves!SavesAreMerged, Saves!FileIsWhole, Saves!Empty
<1>2. CASE Saves!Change
  <2>1. PICK k \in DOMAIN live : live[k] < MaxChange /\ live' = [live EXCEPT ![k] = @ + 1]
    BY <1>2 DEF Saves!Change
  <2>2. UNCHANGED <<cachedPoints, stateFile, stateTmp, saving, flushed, ownKept, savesCrossed>>
    BY <1>2 DEF Saves!Change
  <2>3. live' \in [activities : Saves!Version, grants : Saves!Version, points : Saves!Version]
    <3>0. live \in [activities : Saves!Version, grants : Saves!Version, points : Saves!Version]
      BY <1>t DEF Saves!TypeOK
    <3>1. k \in {"activities", "grants", "points"}
      BY <3>0
    <3>2. live[k] \in Saves!Version
      BY <3>0, <3>1
    <3>3. live[k] + 1 \in Saves!Version
      BY <3>2, <2>1 DEF Saves!Version, Saves!FileAssumption
    <3> QED BY <3>0, <3>1, <3>3, <2>1
  <2>4. Saves!TypeOK'
    BY <1>t, <2>2, <2>3 DEF Saves!TypeOK
  <2> QED BY <1>t, <2>2, <2>4 DEF Saves!FileInv, Saves!SavesHaveTexts, Saves!SavesAreMerged,
          Saves!FileIsWhole, Saves!Empty
<1>3. CASE Saves!Restart
  <2> DEFINE found == Saves!Load(stateFile)
  <2>1. /\ live' = [activities |-> found.activities, grants |-> found.grants,
                    points |-> found.points]
        /\ cachedPoints' = found.points /\ saving' = [w \in Saves!Writers |-> Saves!Idle]
        /\ flushed' = <<found.activities, found.points>>
        /\ ownKept' = [activities |-> found.activities, grants |-> found.grants]
        /\ UNCHANGED <<stateFile, stateTmp, savesCrossed>>
    BY <1>3 DEF Saves!Restart
  <2>2. found \in [id : BOOLEAN, activities : Saves!Version, grants : Saves!Version,
            points : Saves!Version]
    BY <1>t DEF Saves!Load, Saves!Blank, Saves!Empty, Saves!TypeOK, Saves!FileAssumption,
        Saves!Contents, Saves!Version
  <2>3. ~savesCrossed => found = stateFile
    BY <1>t DEF Saves!FileIsWhole, Saves!Load
  <2> HIDE DEF found
  <2>4. saving' \in [Saves!Writers -> [at : {"idle", "read", "open", "written"},
                           text : Saves!Contents \cup {Nothing}]]
    BY <2>1 DEF Saves!Idle
  <2>5. Saves!TypeOK'
    BY <1>t, <2>1, <2>2, <2>4 DEF Saves!TypeOK
  <2>6. Saves!SavesHaveTexts' /\ Saves!SavesAreMerged'
    BY <2>1 DEF Saves!SavesHaveTexts, Saves!SavesAreMerged, Saves!Idle
  <2>7. Saves!FileIsWhole'
    BY <1>t, <2>1, <2>3 DEF Saves!FileIsWhole, Saves!Empty
  <2> QED BY <2>5, <2>6, <2>7 DEF Saves!FileInv
<1>4. ASSUME NEW w \in Saves!Writers, Saves!Begin(w) PROVE Saves!FileInv'
  <2> DEFINE text == Saves!Merge(w, Saves!Load(stateFile))
  <2>1. /\ text \in Saves!Contents /\ text.id = Saves!Load(stateFile).id
        /\ w = "main" => text.grants = Saves!Load(stateFile).grants
        /\ w = "handler" => text.activities = Saves!Load(stateFile).activities
    BY <1>t, MergesAreContents
  <2>2. ~savesCrossed => Saves!Load(stateFile) = stateFile
    BY <1>t DEF Saves!FileIsWhole, Saves!Load
  <2>3. saving[w] = Saves!Idle /\ UNCHANGED <<live, cachedPoints, stateFile, stateTmp>>
    BY <1>4 DEF Saves!Begin
  <2>4. \/ /\ text = Saves!Load(stateFile)
           /\ flushed' = IF w = "main" THEN <<live.activities, live.points>> ELSE flushed
           /\ ownKept' = IF w = "main" THEN [ownKept EXCEPT !.activities = text.activities]
                     ELSE [ownKept EXCEPT !.grants = text.grants]
           /\ UNCHANGED <<saving, savesCrossed>>
        \/ /\ saving' = [saving EXCEPT ![w] = [at |-> "read", text |-> text]]
           /\ savesCrossed' = (savesCrossed
                  \/ \E v \in Saves!Writers \ {w} : saving[v] # Saves!Idle)
           /\ UNCHANGED <<flushed, ownKept>>
    BY <1>4 DEF Saves!Begin
  <2> HIDE DEF text
  <2>5. CASE /\ text = Saves!Load(stateFile)
             /\ flushed' = IF w = "main" THEN <<live.activities, live.points>> ELSE flushed
             /\ ownKept' = IF w = "main" THEN [ownKept EXCEPT !.activities = text.activities]
                     ELSE [ownKept EXCEPT !.grants = text.grants]
             /\ UNCHANGED <<saving, savesCrossed>>
    <3>1. Saves!TypeOK'
      <4>1. flushed' \in Saves!Version \X Saves!Version
        BY <1>t, <2>5 DEF Saves!TypeOK
      <4>2. ownKept' \in [activities : Saves!Version, grants : Saves!Version]
        BY <1>t, <2>1, <2>5 DEF Saves!TypeOK, Saves!Contents
      <4> QED BY <1>t, <2>3, <2>5, <4>1, <4>2 DEF Saves!TypeOK
    <3>2. ~savesCrossed => ownKept' = ownKept
      BY <1>t, <2>2, <2>5 DEF Saves!TypeOK, Saves!FileIsWhole
    <3> QED BY <1>t, <2>3, <2>5, <3>1, <3>2
          DEF Saves!FileInv, Saves!SavesHaveTexts, Saves!SavesAreMerged, Saves!FileIsWhole,
              Saves!Empty
  <2>6. CASE /\ saving' = [saving EXCEPT ![w] = [at |-> "read", text |-> text]]
             /\ savesCrossed' = (savesCrossed
                    \/ \E v \in Saves!Writers \ {w} : saving[v] # Saves!Idle)
             /\ UNCHANGED <<flushed, ownKept>>
    <3>m. savesCrossed' \in BOOLEAN
      BY <1>t, <2>6 DEF Saves!TypeOK
    <3>1. Saves!TypeOK'
      BY <1>t, <2>1, <2>3, <2>6, <3>m DEF Saves!TypeOK
    <3>2. \A v \in Saves!Writers : saving'[v] = IF v = w THEN [at |-> "read",
              text |-> text] ELSE saving[v]
      BY <1>t, <2>6 DEF Saves!TypeOK
    <3>3. Saves!SavesHaveTexts'
      BY <1>t, <2>1, <3>2 DEF Saves!SavesHaveTexts
    <3>4. ASSUME ~savesCrossed'
          PROVE  ~savesCrossed /\ \A v \in Saves!Writers \ {w} : saving[v] = Saves!Idle
      BY <2>6, <3>4
    <3>5. Saves!SavesAreMerged'
      BY <1>t, <2>1, <2>2, <2>3, <2>6, <3>2, <3>4 DEF Saves!SavesAreMerged, Saves!FileIsWhole,
          Saves!Idle
    <3>6. Saves!FileIsWhole'
      BY <1>t, <2>3, <2>6, <3>4 DEF Saves!FileIsWhole, Saves!Empty
    <3> QED BY <3>1, <3>3, <3>5, <3>6 DEF Saves!FileInv
  <2> QED BY <2>4, <2>5, <2>6
<1>5. ASSUME NEW w \in Saves!Writers, Saves!Truncate(w) \/ Saves!WriteText(w) PROVE Saves!FileInv'
  <2>1. UNCHANGED <<live, cachedPoints, stateFile, flushed, ownKept, savesCrossed>>
    BY <1>5 DEF Saves!Truncate, Saves!WriteText
  <2>2. PICK next \in {"open", "written"} :
          /\ saving' = [saving EXCEPT ![w].at = next] /\ saving[w].at # "idle"
          /\ stateTmp' = IF next = "open" THEN Broken ELSE saving[w].text
    BY <1>5 DEF Saves!Truncate, Saves!WriteText
  <2>3. saving[w].text \in Saves!Contents
    BY <1>t, <2>2 DEF Saves!SavesHaveTexts
  <2>4. Saves!TypeOK'
    BY <1>t, <2>1, <2>2, <2>3 DEF Saves!TypeOK
  <2>5. \A v \in Saves!Writers : saving'[v].text = saving[v].text
                           /\ saving'[v].at = (IF v = w THEN next ELSE saving[v].at)
                           /\ (v # w => saving'[v] = saving[v])
    BY <1>t, <2>2 DEF Saves!TypeOK
  <2>6. Saves!SavesHaveTexts'
    BY <1>t, <2>2, <2>3, <2>5 DEF Saves!SavesHaveTexts
  <2>7. Saves!SavesAreMerged'
    BY <1>t, <2>1, <2>2, <2>5 DEF Saves!SavesAreMerged
  <2> QED BY <1>t, <2>1, <2>4, <2>6, <2>7 DEF Saves!FileInv, Saves!FileIsWhole, Saves!Empty
<1>6. ASSUME NEW w \in Saves!Writers, Saves!Install(w) PROVE Saves!FileInv'
  <2>1. /\ saving[w].at = "written" /\ saving' = [saving EXCEPT ![w] = Saves!Idle]
               /\ stateTmp' = Nothing
        /\ UNCHANGED <<live, cachedPoints, savesCrossed>>
    BY <1>6 DEF Saves!Install
  <2>2. \/ UNCHANGED <<stateFile, flushed, ownKept>> /\ stateTmp = Nothing
        \/ /\ stateFile' = stateTmp
           /\ flushed' = IF w = "main"
                        THEN <<saving[w].text.activities, saving[w].text.points>> ELSE flushed
           /\ ownKept' = IF w = "main" THEN [ownKept EXCEPT !.activities = saving[w].text.activities]
                     ELSE [ownKept EXCEPT !.grants = saving[w].text.grants]
    BY <1>6 DEF Saves!Install
  <2>3. saving[w].text \in Saves!Contents
    BY <1>t, <2>1 DEF Saves!SavesHaveTexts
  <2>4. saving' \in [Saves!Writers -> [at : {"idle", "read", "open", "written"},
                           text : Saves!Contents \cup {Nothing}]]
    BY <1>t, <2>1 DEF Saves!TypeOK, Saves!Idle
  <2>5. flushed' \in Saves!Version \X Saves!Version /\ ownKept' \in [activities : Saves!Version,
            grants : Saves!Version]
    BY <1>t, <2>2, <2>3 DEF Saves!TypeOK, Saves!Contents
  <2>6. Saves!TypeOK'
    BY <1>t, <2>1, <2>2, <2>4, <2>5 DEF Saves!TypeOK
  <2>7. \A v \in Saves!Writers : saving'[v] = IF v = w THEN Saves!Idle ELSE saving[v]
    BY <1>t, <2>1 DEF Saves!TypeOK
  <2>8. Saves!SavesHaveTexts'
    BY <1>t, <2>7 DEF Saves!SavesHaveTexts, Saves!Idle
  <2>9. ~savesCrossed => \A v \in Saves!Writers : saving'[v].at = "idle"
    BY <1>t, <2>1, <2>7 DEF Saves!SavesAreMerged, Saves!Idle
  <2>10. Saves!SavesAreMerged'
    BY <2>1, <2>9 DEF Saves!SavesAreMerged
  <2>11. Saves!FileIsWhole'
    <3> SUFFICES ASSUME ~savesCrossed PROVE Saves!FileIsWhole'
      BY <2>1 DEF Saves!FileIsWhole
    <3>1. /\ stateTmp = saving[w].text /\ saving[w].text.id
          /\ w = "main" => saving[w].text.grants = ownKept.grants
          /\ w = "handler" => saving[w].text.activities = ownKept.activities
      BY <1>t, <2>1 DEF Saves!SavesAreMerged
    <3>2. stateTmp \notin {Nothing, Broken}
      BY <2>3, <3>1 DEF Saves!FileAssumption
    <3>3. w = "main" \/ w = "handler"
      BY DEF Saves!Writers
    <3>4. ownKept \in [activities : Saves!Version, grants : Saves!Version]
      BY <1>t DEF Saves!TypeOK
    <3>5. ownKept'.activities = saving[w].text.activities
              /\ ownKept'.grants = saving[w].text.grants
      BY <2>2, <3>1, <3>2, <3>3, <3>4
    <3> QED BY <2>2, <3>1, <3>2, <3>5 DEF Saves!FileIsWhole, Saves!Empty
  <2> QED BY <2>6, <2>8, <2>10, <2>11 DEF Saves!FileInv
<1> QED BY <1>1, <1>2, <1>3, <1>4, <1>5, <1>6 DEF Saves!Next

\* What the invariant says of the properties.
LEMMA FileTells == Saves!FileInv => Saves!TypeOK /\ Saves!FileIsWhole
BY DEF Saves!FileInv

----------------------------------------------------------------------------
(* The uploads                                                              *)

\* Nothing has been uploaded at the start.
LEMMA UploadsStart == Uploads!UploadsAssumption /\ Uploads!Init => Uploads!UploadsInv
<1> SUFFICES ASSUME Uploads!UploadsAssumption, Uploads!Init PROVE Uploads!UploadsInv
  OBVIOUS
<1>1. /\ DOMAIN uploadsFolder = {} /\ DOMAIN uploadList = {}
      /\ uploadsFolder \in [DOMAIN uploadsFolder -> Uploads!Sent \cup {Uploads!Part}]
      /\ uploadList \in [DOMAIN uploadList -> [up : Uploads!Sent, seen : BOOLEAN]]
  BY DEF Uploads!Init
<1>2. 0 \in 0 .. MaxUploads /\ 0 \in 0 .. 0
  BY DEF Uploads!UploadsAssumption
<1>3. Uploads!UploadsTypeOK
  BY <1>1, <1>2 DEF Uploads!Init, Uploads!UploadsTypeOK, Uploads!Messages
<1>4. Uploads!ThreadsKeepApart
  BY DEF Uploads!Init, Uploads!ThreadsKeepApart
<1>5. Uploads!NothingIsLost
  BY DEF Uploads!Init, Uploads!NothingIsLost, Uploads!Safe, Uploads!Sent
<1> QED BY <1>3, <1>4, <1>5 DEF Uploads!UploadsInv

\* An upload is accepted, or turned away.
LEMMA UploadSteps ==
  ASSUME Uploads!UploadsAssumption, Uploads!UploadsInv, Uploads!TurnedAway
         \/ \E n \in UploadNames : Uploads!Upload(n)
  PROVE  Uploads!UploadsInv'
<1>t. Uploads!UploadsTypeOK /\ Uploads!ThreadsKeepApart /\ Uploads!NothingIsLost
  BY DEF Uploads!UploadsInv
<1>1. /\ uploadsSent < MaxUploads /\ uploadsSent' = uploadsSent + 1 /\ nextId' = nextId + 1
      /\ UNCHANGED <<uploadLinked, threads, uploadsFolder, uploadList, uploadsCut, clashed>>
  BY DEF Uploads!TurnedAway, Uploads!Upload, Uploads!daemonVars
<1>2. uploadsSent \in Nat /\ nextId \in Nat /\ nextId <= uploadsSent /\ MaxUploads \in Nat
  BY <1>t DEF Uploads!UploadsTypeOK, Uploads!UploadsAssumption
<1>3. /\ uploadsSent' \in 0 .. MaxUploads /\ nextId' \in 0 .. uploadsSent'
             /\ nextId' \in 1 .. nextId'
      /\ uploadsSent' \in Uploads!Sent' /\ Uploads!Sent' = Uploads!Sent \cup {uploadsSent'}
             /\ 1 .. nextId \subseteq 1 .. nextId'
      /\ nextId' \notin 1 .. nextId /\ \A i \in Nat : i <= nextId => i <= nextId' /\ i # nextId'
  BY <1>1, <1>2 DEF Uploads!Sent
<1>4. /\ entries \subseteq [id : 1 .. nextId', up : Uploads!Sent', name : UploadNames, temp : BOOLEAN]
      /\ uploadWire \subseteq Uploads!Messages' /\ uploadsGone \cup uploadsCut \subseteq Uploads!Sent'
      /\ threads \subseteq [of : [id : Nat, up : Uploads!Sent', name : UploadNames],
             path : Uploads!Paths \cup {Nothing},
                        at : {"pick", "fetch", "ack"}]
      /\ uploadsFolder \in [DOMAIN uploadsFolder -> Uploads!Sent' \cup {Uploads!Part}]
             /\ uploadList \in [DOMAIN uploadList -> [up : Uploads!Sent', seen : BOOLEAN]]
  BY <1>t, <1>3 DEF Uploads!UploadsTypeOK, Uploads!Messages
<1>5. CASE Uploads!TurnedAway
  <2>1. uploadsGone' = uploadsGone \cup {uploadsSent'} /\ UNCHANGED <<entries, uploadWire>>
    BY <1>5 DEF Uploads!TurnedAway
  <2>2. Uploads!UploadsTypeOK'
    BY <1>t, <1>1, <1>3, <1>4, <2>1 DEF Uploads!UploadsTypeOK
  <2>3. Uploads!ThreadsKeepApart'
    BY <1>t, <1>1, <1>3, <2>1 DEF Uploads!ThreadsKeepApart, Uploads!UploadsTypeOK
  <2>4. Uploads!NothingIsLost'
    BY <1>t, <1>1, <1>3, <2>1 DEF Uploads!NothingIsLost, Uploads!Safe
  <2> QED BY <2>2, <2>3, <2>4 DEF Uploads!UploadsInv
<1>6. ASSUME NEW n \in UploadNames, Uploads!Upload(n) PROVE Uploads!UploadsInv'
  <2> DEFINE new == [id |-> nextId', up |-> uploadsSent', name |-> n, temp |-> TRUE]
             msg == [id |-> nextId', up |-> uploadsSent', name |-> n]
  <2>1. /\ entries' = entries \cup {new}
               /\ uploadWire' = IF uploadLinked THEN uploadWire \cup {msg} ELSE uploadWire
        /\ UNCHANGED uploadsGone
    BY <1>6 DEF Uploads!Upload
  <2>2. new \in [id : 1 .. nextId', up : Uploads!Sent', name : UploadNames, temp : BOOLEAN]
            /\ msg \in Uploads!Messages'
        /\ new.id = nextId' /\ new.up = uploadsSent' /\ new.temp
    BY <1>3 DEF Uploads!Messages
  <2> HIDE DEF new, msg
  <2>3. Uploads!UploadsTypeOK'
    BY <1>t, <1>1, <1>3, <1>4, <2>1, <2>2 DEF Uploads!UploadsTypeOK
  <2>4. Uploads!ThreadsKeepApart'
    <3>1. \A e \in entries : e.id # nextId'
      BY <1>t, <1>3 DEF Uploads!UploadsTypeOK
    <3>2. \A t \in threads : t.of.id \in Nat
      BY <1>t DEF Uploads!UploadsTypeOK
    <3> QED BY <1>t, <1>1, <1>3, <2>1, <2>2, <3>1, <3>2 DEF Uploads!ThreadsKeepApart
  <2>5. Uploads!NothingIsLost'
    BY <1>t, <1>1, <1>3, <2>1, <2>2 DEF Uploads!NothingIsLost, Uploads!Safe
  <2> QED BY <2>3, <2>4, <2>5 DEF Uploads!UploadsInv
<1> QED BY <1>5, <1>6

\* What a thread does.
LEMMA ThreadSteps ==
  ASSUME Uploads!UploadsAssumption, Uploads!UploadsInv, NEW t \in threads,
         Uploads!Pick(t) \/ Uploads!Fetch(t) \/ Uploads!FetchShort(t) \/ Uploads!FetchFails(t)
             \/ Uploads!Ack(t) \/ Uploads!AckFails(t)
  PROVE  Uploads!UploadsInv'
<1>t. Uploads!UploadsTypeOK /\ Uploads!ThreadsKeepApart /\ Uploads!NothingIsLost
  BY DEF Uploads!UploadsInv
<1>1. UNCHANGED <<uploadsSent, nextId, uploadWire, uploadLinked, uploadsGone>>
          /\ Uploads!Sent' = Uploads!Sent /\ Uploads!Messages' = Uploads!Messages
  BY DEF Uploads!Pick, Uploads!Fetch, Uploads!FetchShort, Uploads!Save, Uploads!FetchFails,
      Uploads!Ack, Uploads!AckFails, Uploads!railwayVars, Uploads!Sent, Uploads!Messages
<1> DEFINE Threads == [of : [id : Nat, up : Uploads!Sent, name : UploadNames],
        path : Uploads!Paths \cup {Nothing},
                       at : {"pick", "fetch", "ack"}]
<1>0. t \in Threads /\ (t.at # "pick" => t.path \in Uploads!Paths)
  BY <1>t DEF Uploads!UploadsTypeOK
<1>2. CASE Uploads!Pick(t)
  <2>0. PICK n \in 0 .. MaxUploads :
          /\ Uploads!Free(t.of.name, n)
          /\ Uploads!Moves(t, {[t EXCEPT !.path = <<t.of.name, n>>, !.at = "fetch"]})
          /\ clashed' = (clashed \/ \E o \in threads : o.path = <<t.of.name, n>>)
    BY <1>2 DEF Uploads!Pick
  <2> DEFINE path == <<t.of.name, n>>
             new == [t EXCEPT !.path = path, !.at = "fetch"]
  <2>1. /\ threads' = (threads \ {t}) \cup {new} /\ path \notin DOMAIN uploadsFolder
        /\ clashed' = (clashed \/ \E o \in threads : o.path = path)
        /\ UNCHANGED <<entries, uploadsFolder, uploadList, uploadsCut>> /\ path \in Uploads!Paths
    BY <1>0, <1>2, <2>0 DEF Uploads!Moves, Uploads!Free, Uploads!Pick, Uploads!railwayVars,
        Uploads!Paths
  <2>2. new \in Threads /\ new.path = path /\ new.at = "fetch" /\ new.of = t.of
    BY <1>0, <2>1
  <2>c. clashed' \in BOOLEAN
    BY <2>1, <1>t DEF Uploads!UploadsTypeOK
  <2> HIDE DEF new, path
  <2>3. Uploads!UploadsTypeOK'
    BY <1>t, <1>1, <2>1, <2>2, <2>c DEF Uploads!UploadsTypeOK
  <2>4. ~clashed' => ~clashed /\ \A o \in threads : o.path # path
    BY <2>1
  <2>5. Uploads!ThreadsKeepApart'
    BY <1>t, <1>1, <2>1, <2>2, <2>4 DEF Uploads!ThreadsKeepApart
  <2>6. Uploads!NothingIsLost'
    BY <1>t, <1>1, <2>1, <2>4 DEF Uploads!NothingIsLost, Uploads!Safe
  <2> QED BY <2>3, <2>5, <2>6 DEF Uploads!UploadsInv
<1>3. CASE Uploads!Fetch(t) \/ Uploads!FetchShort(t)
  <2>p. PICK e \in Uploads!Held(t.of.id) :
          \/ Uploads!Save(t, e, e.up) /\ UNCHANGED uploadsCut
          \/ Uploads!Save(t, e, Uploads!Part) /\ uploadsCut' = uploadsCut \cup {e.up}
    BY <1>3 DEF Uploads!Fetch, Uploads!FetchShort
  <2>0. PICK what \in {e.up, Uploads!Part} :
          /\ Uploads!Save(t, e, what) /\ t.at = "fetch"
          /\ \/ what = e.up /\ UNCHANGED uploadsCut
             \/ what = Uploads!Part /\ uploadsCut' = uploadsCut \cup {e.up}
    BY <1>3, <2>p DEF Uploads!Fetch, Uploads!FetchShort
  <2>s. /\ uploadsFolder' = Uploads!With(uploadsFolder, t.path, what)
          /\ uploadList' = Uploads!With(uploadList, e.id, [up |-> t.of.up,
                                        seen |-> e.id \in DOMAIN uploadList
                                            /\ uploadList[e.id].seen])
    BY <2>0 DEF Uploads!Save
  <2> DEFINE new == [t EXCEPT !.at = "ack"]
             line == [up |-> t.of.up, seen |-> e.id \in DOMAIN uploadList /\ uploadList[e.id].seen]
  <2>1. /\ t.at = "fetch" /\ threads' = (threads \ {t}) \cup {new}
        /\ UNCHANGED <<entries, clashed>>
    BY <2>0 DEF Uploads!Save, Uploads!Moves, Uploads!railwayVars
  <2>2. e \in entries /\ e.id = t.of.id /\ e.temp /\ e.up \in Uploads!Sent
    BY <1>t, <2>0 DEF Uploads!Held, Uploads!UploadsTypeOK
  <2>3. new \in Threads /\ new.path = t.path /\ new.at = "ack" /\ new.of = t.of
    BY <1>0
  <2>4. line \in [up : Uploads!Sent, seen : BOOLEAN]
    BY <1>0
  <2>5. uploadsFolder' \in [DOMAIN uploadsFolder' -> Uploads!Sent \cup {Uploads!Part}]
            /\ DOMAIN uploadsFolder' = DOMAIN uploadsFolder \cup {t.path}
    BY <1>t, <2>0, <2>s, <2>2 DEF Uploads!With, Uploads!UploadsTypeOK
  <2>6. uploadList' \in [DOMAIN uploadList' -> [up : Uploads!Sent, seen : BOOLEAN]]
    <3>1. uploadList' = Uploads!With(uploadList, e.id, line)
      BY <2>s
    <3> HIDE DEF line
    <3> QED BY <1>t, <2>4, <3>1 DEF Uploads!With, Uploads!UploadsTypeOK
  <2> HIDE DEF new, line
  <2>c. uploadsCut' \subseteq Uploads!Sent /\ uploadsCut \subseteq uploadsCut'
    BY <1>t, <2>0, <2>2 DEF Uploads!UploadsTypeOK
  <2>7. Uploads!UploadsTypeOK'
    BY <1>t, <1>0, <1>1, <2>1, <2>3, <2>5, <2>6, <2>c DEF Uploads!UploadsTypeOK
  <2>8. /\ uploadsFolder'[t.path] = e.up \/ e.up \in uploadsCut'
        /\ \A y \in DOMAIN uploadsFolder : y # t.path => uploadsFolder'[y] = uploadsFolder[y]
    BY <2>0, <2>s DEF Uploads!With
  <2>9. Uploads!ThreadsKeepApart'
    <3> SUFFICES ASSUME ~clashed PROVE Uploads!ThreadsKeepApart'
      BY <2>1 DEF Uploads!ThreadsKeepApart
    <3>1. \A f \in entries : f.id = t.of.id => f = e
      BY <1>t, <2>2 DEF Uploads!ThreadsKeepApart
    <3>2. \A o \in threads \ {t} : o.at # "pick" => o.path # t.path
      BY <1>t, <2>1 DEF Uploads!ThreadsKeepApart
    <3> QED BY <1>t, <1>1, <2>1, <2>3, <2>5, <2>8, <2>c, <3>1, <3>2 DEF Uploads!ThreadsKeepApart
  <2>10. Uploads!NothingIsLost'
    <3>1. ~clashed => Uploads!Range(uploadsFolder) \subseteq Uploads!Range(uploadsFolder')
      BY <1>t, <2>1, <2>5, <2>8 DEF Uploads!ThreadsKeepApart, Uploads!Range
    <3> QED BY <1>t, <1>1, <2>1, <2>c, <3>1 DEF Uploads!NothingIsLost, Uploads!Safe
  <2> QED BY <2>7, <2>9, <2>10 DEF Uploads!UploadsInv
<1>4. CASE Uploads!FetchFails(t)
  <2>1. /\ t.at = "fetch" /\ threads' = threads \ {t}
               /\ uploadsFolder' = Uploads!Without(uploadsFolder, t.path)
        /\ UNCHANGED <<entries, uploadList, uploadsCut, clashed>>
    BY <1>4 DEF Uploads!FetchFails, Uploads!Moves, Uploads!railwayVars
  <2>2. DOMAIN uploadsFolder' \subseteq Uploads!Paths
            /\ uploadsFolder' \in [DOMAIN uploadsFolder' -> Uploads!Sent \cup {Uploads!Part}]
    BY <1>t, <2>1 DEF Uploads!UploadsTypeOK, Uploads!Without
  <2>3. Uploads!UploadsTypeOK'
    BY <1>t, <1>1, <2>1, <2>2 DEF Uploads!UploadsTypeOK
  <2>4. ~clashed => uploadsFolder' = uploadsFolder
    BY <1>t, <2>1 DEF Uploads!ThreadsKeepApart, Uploads!Without, Uploads!UploadsTypeOK
  <2>5. Uploads!ThreadsKeepApart'
    BY <1>t, <1>1, <2>1, <2>4 DEF Uploads!ThreadsKeepApart
  <2>6. Uploads!NothingIsLost'
    BY <1>t, <1>1, <2>1, <2>4 DEF Uploads!NothingIsLost, Uploads!Safe
  <2> QED BY <2>3, <2>5, <2>6 DEF Uploads!UploadsInv
<1>5. CASE Uploads!Ack(t)
  <2> DEFINE Acked(e) == [e EXCEPT !.temp = e.temp /\ e.id # t.of.id]
  <2>1. /\ t.at = "ack" /\ threads' = threads \ {t}
        /\ entries' = {Acked(e) : e \in entries}
        /\ UNCHANGED <<uploadsFolder, uploadList, uploadsCut, clashed>>
    BY <1>5 DEF Uploads!Ack, Uploads!Moves
  <2>2. \A e \in entries :
          /\ Acked(e) \in [id : 1 .. nextId, up : Uploads!Sent, name : UploadNames, temp : BOOLEAN]
          /\ Acked(e).id = e.id /\ Acked(e).up = e.up
          /\ Acked(e).temp <=> e.temp /\ e.id # t.of.id
    BY <1>t DEF Uploads!UploadsTypeOK
  <2> HIDE DEF Acked
  <2>3. Uploads!UploadsTypeOK'
    BY <1>t, <1>1, <2>1, <2>2 DEF Uploads!UploadsTypeOK
  <2>4. Uploads!ThreadsKeepApart'
    BY <1>t, <1>1, <2>1, <2>2 DEF Uploads!ThreadsKeepApart
  <2>5. Uploads!NothingIsLost'
    <3> SUFFICES ASSUME ~clashed, NEW u \in Uploads!Sent \ (uploadsGone \cup uploadsCut),
                        u \notin Uploads!Range(uploadsFolder)
                 PROVE  \E e \in entries' : e.up = u /\ e.temp
      BY <1>1, <2>1 DEF Uploads!NothingIsLost, Uploads!Safe
    <3>1. PICK e \in entries : e.up = u /\ e.temp
      BY <1>t DEF Uploads!NothingIsLost, Uploads!Safe
    <3>2. e.id # t.of.id
      BY <1>t, <2>1, <3>1 DEF Uploads!ThreadsKeepApart, Uploads!Range
    <3> QED BY <2>1, <2>2, <3>1, <3>2
  <2> QED BY <2>3, <2>4, <2>5 DEF Uploads!UploadsInv
<1>6. CASE Uploads!AckFails(t)
  <2>1. /\ threads' = threads \ {t}
        /\ UNCHANGED <<entries, uploadsFolder, uploadList, uploadsCut, clashed>>
    BY <1>6 DEF Uploads!AckFails, Uploads!Moves, Uploads!railwayVars
  <2> QED BY <1>t, <1>1, <2>1 DEF Uploads!UploadsInv, Uploads!UploadsTypeOK,
          Uploads!ThreadsKeepApart, Uploads!NothingIsLost, Uploads!Safe
<1> QED BY <1>2, <1>3, <1>4, <1>5, <1>6

\* What becomes of the connection, and of those at its ends.
LEMMA UploadLinkSteps ==
  ASSUME Uploads!UploadsAssumption, Uploads!UploadsInv,
         \/ \E m \in uploadWire : Uploads!Handle(m)
         \/ \E id \in DOMAIN uploadList : Uploads!Seen(id)
         \/ Uploads!LinkChanges \/ Uploads!RailwayRestarts \/ Uploads!DaemonRestarts
  PROVE  Uploads!UploadsInv'
<1>t. Uploads!UploadsTypeOK /\ Uploads!ThreadsKeepApart /\ Uploads!NothingIsLost
  BY DEF Uploads!UploadsInv
<1>n. nextId \in Nat /\ uploadsSent \in Nat
  BY <1>t DEF Uploads!UploadsTypeOK
<1>1. ASSUME NEW m \in uploadWire, Uploads!Handle(m) PROVE Uploads!UploadsInv'
  <2> DEFINE new == [of |-> m, path |-> Nothing, at |-> "pick"]
  <2>1. /\ uploadWire' = uploadWire \ {m} /\ threads' = threads \cup {new}
        /\ UNCHANGED <<uploadsSent, nextId, entries, uploadLinked, uploadsFolder, uploadList,
               uploadsGone, uploadsCut, clashed>>
        /\ Uploads!Sent' = Uploads!Sent /\ Uploads!Messages' = Uploads!Messages
    BY <1>1 DEF Uploads!Handle, Uploads!railwayVars, Uploads!Sent, Uploads!Messages
  <2>2. m.id \in 1 .. nextId /\ m \in [id : Nat, up : Uploads!Sent, name : UploadNames]
    BY <1>t, <1>n DEF Uploads!UploadsTypeOK, Uploads!Messages
  <2>3. /\ new \in [of : [id : Nat, up : Uploads!Sent, name : UploadNames],
               path : Uploads!Paths \cup {Nothing},
                    at : {"pick", "fetch", "ack"}]
        /\ new.at = "pick" /\ new.of.id <= nextId
    BY <1>n, <2>2
  <2> HIDE DEF new
  <2>4. Uploads!UploadsTypeOK'
    BY <1>t, <2>1, <2>3 DEF Uploads!UploadsTypeOK
  <2> QED BY <1>t, <2>1, <2>3, <2>4 DEF Uploads!UploadsInv, Uploads!ThreadsKeepApart,
          Uploads!NothingIsLost, Uploads!Safe
<1>2. ASSUME NEW id \in DOMAIN uploadList, Uploads!Seen(id) PROVE Uploads!UploadsInv'
  <2>1. /\ uploadList' = [uploadList EXCEPT ![id].seen = TRUE]
        /\ UNCHANGED <<uploadsSent, nextId, entries, uploadWire, uploadLinked, threads,
               uploadsFolder, uploadsGone, uploadsCut, clashed>>
        /\ Uploads!Sent' = Uploads!Sent /\ Uploads!Messages' = Uploads!Messages
    BY <1>2 DEF Uploads!Seen, Uploads!railwayVars, Uploads!Sent, Uploads!Messages
  <2>2. uploadList' \in [DOMAIN uploadList' -> [up : Uploads!Sent, seen : BOOLEAN]]
    BY <1>t, <2>1 DEF Uploads!UploadsTypeOK
  <2>3. Uploads!UploadsTypeOK'
    BY <1>t, <2>1, <2>2 DEF Uploads!UploadsTypeOK
  <2> QED BY <1>t, <2>1, <2>3 DEF Uploads!UploadsInv, Uploads!ThreadsKeepApart,
          Uploads!NothingIsLost, Uploads!Safe
<1>3. CASE Uploads!LinkChanges
  <2>1. /\ uploadLinked' = ~uploadLinked /\ uploadWire' = {}
        /\ UNCHANGED <<uploadsSent, nextId, entries, threads, uploadsFolder, uploadList,
               uploadsGone, uploadsCut, clashed>>
        /\ Uploads!Sent' = Uploads!Sent /\ Uploads!Messages' = Uploads!Messages
    BY <1>3 DEF Uploads!LinkChanges, Uploads!railwayVars, Uploads!daemonVars, Uploads!Sent,
        Uploads!Messages
  <2>2. uploadLinked' \in BOOLEAN
    BY <1>t, <2>1 DEF Uploads!UploadsTypeOK
  <2>3. Uploads!UploadsTypeOK'
    BY <1>t, <2>1, <2>2 DEF Uploads!UploadsTypeOK
  <2> QED BY <1>t, <2>1, <2>3 DEF Uploads!UploadsInv, Uploads!ThreadsKeepApart,
          Uploads!NothingIsLost, Uploads!Safe
<1>4. CASE Uploads!RailwayRestarts
  <2>1. /\ entries' = {} /\ nextId' = 0 /\ uploadWire' = {} /\ uploadLinked' = FALSE
        /\ uploadsGone' = uploadsGone \cup {e.up : e \in {x \in entries : x.temp}}
        /\ clashed' = (clashed \/ threads # {})
        /\ UNCHANGED <<uploadsSent, threads, uploadsFolder, uploadList, uploadsCut>>
               /\ Uploads!Sent' = Uploads!Sent
    BY <1>4 DEF Uploads!RailwayRestarts, Uploads!daemonVars, Uploads!Sent
  <2>2. clashed' \in BOOLEAN /\ (~clashed' => ~clashed /\ threads = {})
    BY <1>t, <2>1 DEF Uploads!UploadsTypeOK
  <2>3. uploadsGone' \subseteq Uploads!Sent
    BY <1>t, <2>1 DEF Uploads!UploadsTypeOK
  <2>n. nextId' \in 0 .. uploadsSent'
    BY <1>n, <2>1
  <2>4. Uploads!UploadsTypeOK'
    BY <1>t, <2>n, <2>1, <2>2, <2>3 DEF Uploads!UploadsTypeOK
  <2>5. Uploads!ThreadsKeepApart'
    BY <2>1, <2>2 DEF Uploads!ThreadsKeepApart
  <2>6. Uploads!NothingIsLost'
    BY <1>t, <2>1, <2>2 DEF Uploads!NothingIsLost, Uploads!Safe
  <2> QED BY <2>4, <2>5, <2>6 DEF Uploads!UploadsInv
<1>5. CASE Uploads!DaemonRestarts
  <2>1. /\ threads' = {} /\ uploadWire' = {} /\ uploadLinked' = FALSE
        /\ UNCHANGED <<uploadsSent, nextId, entries, uploadList, uploadsGone, uploadsCut,
               clashed>>
        /\ Uploads!Sent' = Uploads!Sent /\ Uploads!Messages' = Uploads!Messages
    BY <1>5 DEF Uploads!DaemonRestarts, Uploads!railwayVars, Uploads!Sent, Uploads!Messages
  <2>2. PICK S \in SUBSET {t.path : t \in {x \in threads : x.at = "fetch"}} :
          uploadsFolder' = [p \in DOMAIN uploadsFolder \cup S |->
                              IF p \in S THEN Uploads!Part ELSE uploadsFolder[p]]
    BY <1>5 DEF Uploads!DaemonRestarts
  <2>3. S \subseteq Uploads!Paths /\ (~clashed => S \cap DOMAIN uploadsFolder = {})
    BY <1>t DEF Uploads!UploadsTypeOK, Uploads!ThreadsKeepApart
  <2>4. /\ DOMAIN uploadsFolder' \subseteq Uploads!Paths
        /\ uploadsFolder' \in [DOMAIN uploadsFolder' -> Uploads!Sent \cup {Uploads!Part}]
    BY <1>t, <2>2, <2>3 DEF Uploads!UploadsTypeOK
  <2>5. ~clashed => Uploads!Range(uploadsFolder) \subseteq Uploads!Range(uploadsFolder')
    BY <2>2, <2>3 DEF Uploads!Range
  <2>6. Uploads!UploadsTypeOK'
    BY <1>t, <2>1, <2>4 DEF Uploads!UploadsTypeOK
  <2>7. Uploads!ThreadsKeepApart'
    BY <1>t, <2>1 DEF Uploads!ThreadsKeepApart
  <2>8. Uploads!NothingIsLost'
    BY <1>t, <2>1, <2>5 DEF Uploads!NothingIsLost, Uploads!Safe
  <2> QED BY <2>6, <2>7, <2>8 DEF Uploads!UploadsInv
<1> QED BY <1>1, <1>2, <1>3, <1>4, <1>5

\* Every step keeps what was accepted, or knows it is gone.
LEMMA UploadsStep ==
  Uploads!UploadsAssumption /\ Uploads!UploadsInv /\ [Uploads!Next]_(Uploads!vars)
      => Uploads!UploadsInv'
<1> SUFFICES ASSUME Uploads!UploadsAssumption, Uploads!UploadsInv, [Uploads!Next]_(Uploads!vars)
             PROVE  Uploads!UploadsInv'
  OBVIOUS
<1>1. CASE UNCHANGED Uploads!vars
  BY <1>1 DEF Uploads!vars, Uploads!railwayVars, Uploads!daemonVars, Uploads!UploadsInv,
      Uploads!UploadsTypeOK, Uploads!ThreadsKeepApart,
     Uploads!NothingIsLost, Uploads!Safe, Uploads!Sent, Uploads!Messages
<1>2. CASE Uploads!Next
  BY <1>2, UploadSteps, ThreadSteps, UploadLinkSteps DEF Uploads!Next
<1> QED BY <1>1, <1>2

\* What the invariant says of the properties.
LEMMA UploadsTell == Uploads!UploadsInv => Uploads!TypeOK /\ Uploads!NothingIsLost
<1> SUFFICES ASSUME Uploads!UploadsInv PROVE Uploads!TypeOK /\ Uploads!NothingIsLost
  OBVIOUS
<1>1. Uploads!Range(uploadsFolder) \subseteq Uploads!Sent \cup {Uploads!Part}
  BY DEF Uploads!UploadsInv, Uploads!UploadsTypeOK, Uploads!Range
<1>2. \A id \in DOMAIN uploadList : uploadList[id].up \in Uploads!Sent
          /\ uploadList[id].seen \in BOOLEAN
  BY DEF Uploads!UploadsInv, Uploads!UploadsTypeOK
<1> QED BY <1>1, <1>2 DEF Uploads!UploadsInv, Uploads!UploadsTypeOK, Uploads!TypeOK,
        Uploads!Messages

----------------------------------------------------------------------------
(* The migrated session files                                               *)

\* What is migrated is loaded as it was.
LEMMA MigratedIsTheSame ==
  ASSUME NEW c \in Migration!Contents
  PROVE  Migration!Transform(c) \in Migration!Contents
      /\ Migration!Loaded(Migration!Transform(c)) = Migration!Loaded(c)
<1>1. Migration!Transform(c) \in Migration!Contents
  BY DEF Migration!Transform, Migration!Contents, Migration!First, Migration!Opt
<1>2. Migration!Loaded(Migration!Transform(c)) = Migration!Loaded(c)
  BY DEF Migration!Transform, Migration!Loaded, Migration!Contents, Migration!First
<1> QED BY <1>1, <1>2

\* The file is the one that was found.
LEMMA MigrationStarts == Migration!Init => Migration!MigrationInv
BY DEF Migration!Init, Migration!MigrationInv, Migration!MigrationTypeOK,
    Migration!RunsAreOfTheFile, Migration!LoadsTheSame

\* Every step of the script leaves what would be loaded.
LEMMA MigrationSteps ==
  Migration!MigrationAssumption /\ Migration!MigrationInv /\ [Migration!Next]_(Migration!vars)
      => Migration!MigrationInv'
<1> SUFFICES ASSUME Migration!MigrationAssumption, Migration!MigrationInv,
        [Migration!Next]_(Migration!vars)
             PROVE  Migration!MigrationInv'
  OBVIOUS
<1>t. Migration!MigrationTypeOK /\ Migration!RunsAreOfTheFile /\ Migration!LoadsTheSame
  BY DEF Migration!MigrationInv
<1>s. script # Nothing => script \in Migration!Runs
  BY <1>t DEF Migration!MigrationTypeOK
<1>1. CASE UNCHANGED Migration!vars
  BY <1>1, <1>t DEF Migration!vars, Migration!MigrationInv, Migration!MigrationTypeOK,
      Migration!RunsAreOfTheFile, Migration!LoadsTheSame
<1>2. ASSUME NEW backup \in BOOLEAN, Migration!Begin(backup) PROVE Migration!MigrationInv'
  <2> DEFINE run == [step |-> "backup", text |-> migrated, backup |-> backup]
  <2>1. script' = run /\ Migration!Changes(migrated) /\ UNCHANGED <<migrated, bak, original,
            saveRaced>>
    BY <1>2 DEF Migration!Begin
  <2>2. run \in Migration!Runs /\ run.text = migrated
    BY <1>t DEF Migration!MigrationTypeOK, Migration!Runs
  <2> HIDE DEF run
  <2> QED BY <1>t, <2>1, <2>2 DEF Migration!MigrationInv, Migration!MigrationTypeOK,
          Migration!RunsAreOfTheFile, Migration!LoadsTheSame
<1>3. CASE Migration!SkipBackup
  <2>1. script # Nothing /\ script' = [script EXCEPT !.step = "replace"]
        /\ UNCHANGED <<migrated, bak, original, saveRaced>>
    BY <1>3 DEF Migration!SkipBackup, Migration!At, Migration!Do
  <2>2. script' \in Migration!Runs /\ script'.text = script.text
    BY <1>s, <2>1 DEF Migration!Runs
  <2> QED BY <1>t, <2>1, <2>2 DEF Migration!MigrationInv, Migration!MigrationTypeOK,
          Migration!RunsAreOfTheFile, Migration!LoadsTheSame
<1>4. CASE Migration!OpenBackup
  <2>1. script # Nothing /\ script' = [script EXCEPT !.step = "fill"] /\ bak' = Broken
        /\ UNCHANGED <<migrated, original, saveRaced>>
    BY <1>4 DEF Migration!OpenBackup, Migration!At, Migration!Do
  <2>2. script' \in Migration!Runs /\ script'.text = script.text
    BY <1>s, <2>1 DEF Migration!Runs
  <2> QED BY <1>t, <2>1, <2>2 DEF Migration!MigrationInv, Migration!MigrationTypeOK,
          Migration!RunsAreOfTheFile, Migration!LoadsTheSame
<1>5. CASE Migration!FillBackup
  <2>1. script # Nothing /\ script' = [script EXCEPT !.step = "replace"] /\ bak' = script.text
        /\ UNCHANGED <<migrated, original, saveRaced>>
    BY <1>5 DEF Migration!FillBackup, Migration!At, Migration!Do
  <2>2. script' \in Migration!Runs /\ script'.text = script.text
            /\ script.text \in Migration!Contents
    BY <1>s, <2>1 DEF Migration!Runs
  <2> QED BY <1>t, <2>1, <2>2 DEF Migration!MigrationInv, Migration!MigrationTypeOK,
          Migration!RunsAreOfTheFile, Migration!LoadsTheSame
<1>6. CASE Migration!Replace
  <2>1. script # Nothing /\ script' = Nothing /\ migrated' = Migration!Transform(script.text)
        /\ UNCHANGED <<bak, original, saveRaced>>
    BY <1>6 DEF Migration!Replace, Migration!At
  <2>2. script.text \in Migration!Contents
    BY <1>s, <2>1 DEF Migration!Runs
  <2>3. migrated' \in Migration!Contents
            /\ Migration!Loaded(migrated') = Migration!Loaded(script.text)
    BY <2>1, <2>2, MigratedIsTheSame
  <2>4. Migration!Loaded(migrated)' = Migration!Loaded(migrated')
    BY DEF Migration!Loaded
  <2> QED BY <1>t, <2>1, <2>3, <2>4 DEF Migration!MigrationInv, Migration!MigrationTypeOK,
          Migration!RunsAreOfTheFile, Migration!LoadsTheSame
<1>7. CASE Migration!Stop
  BY <1>t, <1>7 DEF Migration!Stop, Migration!MigrationInv, Migration!MigrationTypeOK,
      Migration!RunsAreOfTheFile, Migration!LoadsTheSame
<1>8. ASSUME NEW v \in Values, Migration!Save(v) PROVE Migration!MigrationInv'
  <2>1. migrated' = [activity |-> Migration!Loaded(migrated).activity, poll |-> Nothing,
            quiz |-> v,
              poll_flat |-> Nothing, quiz_flat |-> Nothing]
        /\ original' = migrated' /\ saveRaced' = (saveRaced \/ script # Nothing)
               /\ UNCHANGED <<bak, script>>
    BY <1>8 DEF Migration!Save
  <2>2. migrated' \in Migration!Contents
    BY <1>t, <2>1 DEF Migration!MigrationTypeOK, Migration!Contents, Migration!Loaded,
        Migration!Opt
  <2>3. saveRaced' \in BOOLEAN
    BY <1>t, <2>1 DEF Migration!MigrationTypeOK
  <2>4. Migration!MigrationTypeOK'
    BY <1>t, <2>1, <2>2, <2>3 DEF Migration!MigrationTypeOK
  <2>5. Migration!RunsAreOfTheFile'
    BY <1>t, <2>1 DEF Migration!RunsAreOfTheFile
  <2>6. Migration!LoadsTheSame'
    BY <1>t, <2>1 DEF Migration!LoadsTheSame
  <2> QED BY <2>4, <2>5, <2>6 DEF Migration!MigrationInv
<1> QED BY <1>1, <1>2, <1>3, <1>4, <1>5, <1>6, <1>7, <1>8 DEF Migration!Next

\* What the invariant says of the properties.
LEMMA MigrationTells == Migration!MigrationInv => Migration!TypeOK /\ Migration!LoadsTheSame
BY DEF Migration!MigrationInv, Migration!MigrationTypeOK, Migration!TypeOK, Migration!Runs

----------------------------------------------------------------------------
(* The marks in the summary                                                 *)

\* The elements of a sequence are in the set it is over.
LEMMA ElementsAre ==
  ASSUME NEW X, NEW s \in Seq(X)
  PROVE  DOMAIN s = 1 .. Len(s) /\ Len(s) \in Nat /\ \A j \in DOMAIN s : s[j] \in X
OBVIOUS

\* A function on an initial segment of the numbers is a sequence.
LEMMA FunctionsAreTexts ==
  ASSUME NEW X, NEW n \in Nat, NEW s \in [1 .. n -> X]
  PROVE  s \in Seq(X) /\ Len(s) = n
OBVIOUS

\* A mark leaves the words as they are; what is marked in the text that the anchor is of is the
\* word that was selected.
LEMMA MarksKeepTheWords ==
  ASSUME NEW text \in Highlight!Texts, NEW a
  PROVE  /\ Highlight!Marked(text, a) \in Highlight!Texts
                /\ Len(Highlight!Marked(text, a)) = Len(text)
         /\ Highlight!WordsOf(Highlight!Marked(text, a)) = Highlight!WordsOf(text)
         /\ Highlight!IsAnchor(a) /\ a.rev = text
                => Highlight!Marked(text, a) = [text EXCEPT ![a.at].mark = TRUE]
<1> DEFINE i == Highlight!FindSpan(text, a)
           m == [text EXCEPT ![i].mark = TRUE]
<1>1. Highlight!Marked(text, a) \in {text, m}
  BY DEF Highlight!Marked
<1>2. m \in Highlight!Texts /\ Len(m) = Len(text) /\ DOMAIN m = DOMAIN text
      /\ \A j \in DOMAIN text : m[j].word = text[j].word
  <2> HIDE DEF i
  <2>1. \A j \in DOMAIN text : text[j] \in [word : Vocabulary, mark : BOOLEAN]
    BY ElementsAre DEF Highlight!Texts
  <2>2. DOMAIN m = DOMAIN text /\ \A j \in DOMAIN text :
          m[j] = IF j = i THEN [text[j] EXCEPT !.mark = TRUE] ELSE text[j]
    OBVIOUS
  <2>3. \A j \in DOMAIN text : m[j] \in [word : Vocabulary, mark : BOOLEAN]
            /\ m[j].word = text[j].word
    BY <2>1, <2>2
  <2>4. DOMAIN text = 1 .. Len(text) /\ Len(text) \in Nat
    BY DEF Highlight!Texts
  <2>5. m \in [1 .. Len(text) -> [word : Vocabulary, mark : BOOLEAN]]
    BY <2>2, <2>3, <2>4
  <2> HIDE DEF m
  <2>6. m \in Highlight!Texts /\ Len(m) = Len(text)
    BY <2>4, <2>5 DEF Highlight!Texts
  <2> QED BY <2>2, <2>3, <2>6
<1>3. Highlight!WordsOf(m) = Highlight!WordsOf(text)
  <2> HIDE DEF m
  <2> QED BY <1>2 DEF Highlight!WordsOf
<1>4. ASSUME Highlight!IsAnchor(a), a.rev = text
          PROVE Highlight!Marked(text, a) = [text EXCEPT ![a.at].mark = TRUE]
  <2>1. a.at \in Highlight!Hits(text, a.word) /\ a.at # 0
    BY <1>4 DEF Highlight!IsAnchor, Highlight!Hits, Highlight!Texts
  <2>2. Highlight!FindSpan(text, a) = a.at
    BY <1>4, <2>1 DEF Highlight!FindSpan
  <2> QED BY <2>1, <2>2 DEF Highlight!Marked
<1> QED BY <1>1, <1>2, <1>3, <1>4

\* Finite sets and their sizes are the same ones in the instance.
LEMMA HighlightSets ==
  \A S : (Highlight!IsFiniteSet(S) <=> IsFiniteSet(S))
    /\ Highlight!Cardinality(S) = Cardinality(S)
BY DEF Highlight!IsFiniteSet, IsFiniteSet, Highlight!Cardinality, Cardinality

\* The page sends the anchor of a word it shows.
LEMMA AnchorsAreOfWords ==
  ASSUME Highlight!HighlightAssumption, NEW text \in Highlight!Texts,
         Len(text) \in 1 .. MaxWords, NEW i \in DOMAIN text
  PROVE  Highlight!IsAnchor(Highlight!AnchorOf(text, i))
<1> DEFINE S == {j \in 1 .. i - 1 : text[j].mark}
<1>1. i \in 1 .. Len(text) /\ Len(text) \in Nat /\ MaxWords \in Nat
  BY DEF Highlight!Texts, Highlight!HighlightAssumption
<1>2. Highlight!IsFiniteSet(1 .. i - 1) /\ Highlight!Cardinality(1 .. i - 1) = i - 1
  <2>1. 1 \in Int /\ i - 1 \in Int /\ (1 > i - 1 => i - 1 = 0) /\ (i - 1) - 1 + 1 = i - 1
    BY <1>1
  <2> QED BY <2>1, HighlightSets, FS_Interval
<1>3. Highlight!IsFiniteSet(S) /\ Highlight!Cardinality(S) <= Highlight!Cardinality(1 .. i - 1)
  BY <1>2, HighlightSets, FS_Subset
<1>4. Highlight!Cardinality(S) \in Nat /\ Highlight!Cardinality(S) <= i - 1
  BY <1>2, <1>3, HighlightSets, FS_CardinalityType
<1> DEFINE n == Highlight!Cardinality(S)
           d == IF text[i].mark THEN 1 ELSE 0
<1>5. Highlight!Offset(text, i) = (i - 1) + 2 * n + d
  BY DEF Highlight!Offset
<1>6. n \in Nat /\ n <= i - 1 /\ d \in {0, 1}
  BY <1>4
<1> HIDE DEF n, d
<1>7. Highlight!Offset(text, i) \in 0 .. 3 * MaxWords
  BY <1>1, <1>5, <1>6
<1> QED BY <1>7 DEF Highlight!IsAnchor, Highlight!AnchorOf

\* An edit of a text is a text.
LEMMA EditsAreTexts ==
  ASSUME NEW text \in Highlight!Texts, NEW new \in Highlight!Edits(text)
  PROVE  new \in Highlight!Texts
<1> DEFINE X == [word : Vocabulary, mark : BOOLEAN]
<1>0. Len(text) \in Nat /\ DOMAIN text = 1 .. Len(text)
  BY DEF Highlight!Texts
<1>1. ASSUME NEW i \in 0 .. Len(text)
      PROVE  SubSeq(text, 1, i) \in Highlight!Texts
          /\ SubSeq(text, i + 1, Len(text)) \in Highlight!Texts
  <2>1. /\ 1 \in 1 .. Len(text) + 1 /\ i \in 1 - 1 .. Len(text)
        /\ i + 1 \in 1 .. Len(text) + 1 /\ Len(text) \in (i + 1) - 1 .. Len(text)
    BY <1>0
  <2>2. text \in Seq(X)
    BY DEF Highlight!Texts
  <2> HIDE DEF X
  <2>3. SubSeq(text, 1, i) \in Seq(X)
    BY <2>1, <2>2, SubSeqProperties
  <2>4. SubSeq(text, i + 1, Len(text)) \in Seq(X)
    BY <2>1, <2>2, SubSeqProperties
  <2> QED BY <2>3, <2>4 DEF Highlight!Texts, X
<1>2. ASSUME NEW s \in Highlight!Texts, NEW t \in Highlight!Texts PROVE s \o t \in Highlight!Texts
  BY DEF Highlight!Texts
<1>3. ASSUME NEW i \in DOMAIN text PROVE Highlight!TakenOut(text, i) \in Highlight!Texts
  <2>1. i - 1 \in 0 .. Len(text) /\ i \in 0 .. Len(text)
    BY <1>0
  <2>2. SubSeq(text, 1, i - 1) \in Highlight!Texts
            /\ SubSeq(text, i + 1, Len(text)) \in Highlight!Texts
    BY <1>1, <2>1
  <2> QED BY <1>2, <2>2 DEF Highlight!TakenOut
<1>4. ASSUME NEW i \in 0 .. Len(text), NEW w \in Vocabulary
          PROVE Highlight!PutIn(text, i, w) \in Highlight!Texts
  <2> DEFINE one == <<[word |-> w, mark |-> FALSE]>>
  <2>1. one \in Highlight!Texts
    BY DEF Highlight!Texts
  <2> HIDE DEF one
  <2>2. SubSeq(text, 1, i) \o one \in Highlight!Texts
    BY <1>1, <1>2, <2>1
  <2>3. (SubSeq(text, 1, i) \o one) \o SubSeq(text, i + 1, Len(text)) \in Highlight!Texts
    BY <1>1, <1>2, <2>2
  <2> QED BY <2>3 DEF one, Highlight!PutIn
<1> QED BY <1>3, <1>4 DEF Highlight!Edits

\* Nothing is marked at the start.
LEMMA HighlightStarts == Highlight!HighlightAssumption /\ Highlight!Init => Highlight!HighlightInv
<1> SUFFICES ASSUME Highlight!HighlightAssumption, Highlight!Init PROVE Highlight!HighlightInv
  OBVIOUS
<1>1. PICK n \in 1 .. MaxWords : \E s \in [1 .. n -> Vocabulary] : summaryFile = Highlight!Unmarked(s)
  BY DEF Highlight!Init
<1>2. summaryFile \in Highlight!Texts /\ Len(summaryFile) = n
  <2>0. n \in Nat
    BY DEF Highlight!HighlightAssumption
  <2>1. summaryFile \in [1 .. n -> [word : Vocabulary, mark : BOOLEAN]]
    BY <1>1 DEF Highlight!Unmarked
  <2> QED BY <2>0, <2>1, FunctionsAreTexts DEF Highlight!Texts
<1>3. Highlight!HighlightTypeOK
  BY <1>2 DEF Highlight!Init, Highlight!HighlightTypeOK
<1> QED BY <1>3 DEF Highlight!Init, Highlight!HighlightInv, Highlight!JobsAreOfTheFile,
        Highlight!WordsSurvive

\* Every step of the page and of the lock keeps the words.
LEMMA HighlightSteps ==
  Highlight!HighlightAssumption /\ Highlight!HighlightInv /\ [Highlight!Next]_(Highlight!vars)
      => Highlight!HighlightInv'
<1> SUFFICES ASSUME Highlight!HighlightAssumption, Highlight!HighlightInv,
        [Highlight!Next]_(Highlight!vars)
             PROVE  Highlight!HighlightInv'
  OBVIOUS
<1>t. Highlight!HighlightTypeOK /\ Highlight!JobsAreOfTheFile /\ Highlight!WordsSurvive
  BY DEF Highlight!HighlightInv
<1>f. summaryFile \in Highlight!Texts /\ Len(summaryFile) \in 1 .. MaxWords
  BY <1>t DEF Highlight!HighlightTypeOK
<1>1. CASE UNCHANGED Highlight!vars
  BY <1>1, <1>t DEF Highlight!vars, Highlight!HighlightInv, Highlight!HighlightTypeOK,
      Highlight!JobsAreOfTheFile, Highlight!WordsSurvive
<1>2. CASE Highlight!Render
  BY <1>2, <1>t DEF Highlight!Render, Highlight!HighlightInv, Highlight!HighlightTypeOK,
      Highlight!JobsAreOfTheFile, Highlight!WordsSurvive
<1>3. ASSUME NEW i \in DOMAIN hostPage, Highlight!Select(i) PROVE Highlight!HighlightInv'
  <2>1. waiting' = waiting \cup {Highlight!AnchorOf(hostPage, i)}
        /\ UNCHANGED <<summaryFile, hostPage, marking, words, editRaced, misplaced>>
    BY <1>3 DEF Highlight!Select
  <2>2. Highlight!IsAnchor(Highlight!AnchorOf(hostPage, i))
    BY <1>t, AnchorsAreOfWords DEF Highlight!HighlightTypeOK
  <2> QED BY <1>t, <2>1, <2>2 DEF Highlight!HighlightInv, Highlight!HighlightTypeOK,
          Highlight!JobsAreOfTheFile, Highlight!WordsSurvive
<1>4. ASSUME NEW a \in waiting, Highlight!Read(a) PROVE Highlight!HighlightInv'
  <2> DEFINE new == [anchor |-> a, text |-> summaryFile, out |-> Highlight!Marked(summaryFile,
          a), step |-> "again"]
  <2>1. /\ waiting' = waiting \ {a} /\ marking' \in {Nothing, new}
        /\ UNCHANGED <<summaryFile, hostPage, words, editRaced, misplaced>>
    BY <1>4 DEF Highlight!Read
  <2>2. Highlight!IsAnchor(a) /\ Highlight!Marked(summaryFile, a) \in Highlight!Texts
    BY <1>t, <1>f, MarksKeepTheWords DEF Highlight!HighlightTypeOK
  <2>3. /\ new \in [anchor : {new.anchor}, text : Highlight!Texts, out : Highlight!Texts,
               step : {"again", "write"}]
        /\ new.anchor = a /\ new.text = summaryFile /\ new.step = "again"
    BY <1>f, <2>2
  <2> HIDE DEF new
  <2>4. Highlight!JobsAreOfTheFile'
    <3>1. CASE marking' = Nothing
      BY <3>1 DEF Highlight!JobsAreOfTheFile
    <3>2. CASE marking' = new
      BY <3>2, <1>f, <2>2, <2>3 DEF Highlight!JobsAreOfTheFile
    <3> QED BY <2>1, <3>1, <3>2
  <2> QED BY <1>t, <2>1, <2>4 DEF Highlight!HighlightInv, Highlight!HighlightTypeOK,
          Highlight!WordsSurvive
<1>5. CASE Highlight!ReadAgain
  <2> DEFINE a == marking.anchor
             new == [marking EXCEPT !.out = Highlight!Marked(summaryFile, a),
                 !.text = summaryFile, !.step = "write"]
  <2>1. /\ marking # Nothing /\ marking' \in {Nothing, new}
        /\ UNCHANGED <<summaryFile, hostPage, waiting, words, editRaced, misplaced>>
    BY <1>5 DEF Highlight!ReadAgain
  <2>2. Highlight!IsAnchor(a) /\ marking \in [anchor : {a}, text : Highlight!Texts,
            out : Highlight!Texts, step : {"again", "write"}]
    BY <1>t, <2>1 DEF Highlight!JobsAreOfTheFile
  <2>3. Highlight!Marked(summaryFile, a) \in Highlight!Texts
    BY <1>f, MarksKeepTheWords
  <2>4. /\ new \in [anchor : {a}, text : Highlight!Texts, out : Highlight!Texts, step : {"again",
               "write"}]
        /\ new.anchor = a /\ new.text = summaryFile /\ new.out = Highlight!Marked(summaryFile, a)
    BY <1>f, <2>2, <2>3
  <2> HIDE DEF new, a
  <2>5. Highlight!JobsAreOfTheFile'
    <3>1. CASE marking' = Nothing
      BY <3>1 DEF Highlight!JobsAreOfTheFile
    <3>2. CASE marking' = new
      BY <3>2, <1>f, <2>1, <2>2, <2>4 DEF Highlight!JobsAreOfTheFile
    <3> QED BY <2>1, <3>1, <3>2
  <2> QED BY <1>t, <2>1, <2>5 DEF Highlight!HighlightInv, Highlight!HighlightTypeOK,
          Highlight!WordsSurvive
<1>6. CASE Highlight!Write
  <2>1. /\ marking # Nothing /\ marking.step = "write" /\ summaryFile' = marking.out
               /\ marking' = Nothing
        /\ misplaced' =
             (misplaced
                \/ (/\ marking.anchor.rev = marking.text
                    /\ marking.out # [marking.text EXCEPT ![marking.anchor.at].mark = TRUE]))
        /\ UNCHANGED <<hostPage, waiting, words, editRaced>>
    BY <1>6 DEF Highlight!Write
  <2> DEFINE a == marking.anchor
             text == marking.text
  <2>2. /\ Highlight!IsAnchor(a) /\ text \in Highlight!Texts /\ Len(text) \in 1 .. MaxWords
        /\ marking.out = Highlight!Marked(text, a) /\ (~editRaced => text = summaryFile)
    BY <1>t, <2>1 DEF Highlight!JobsAreOfTheFile
  <2>3. misplaced' = (misplaced \/ (a.rev = text /\ marking.out # [text EXCEPT ![a.at].mark = TRUE]))
    BY <2>1
  <2> HIDE DEF a, text
  <2>4. /\ Highlight!Marked(text, a) \in Highlight!Texts
               /\ Len(Highlight!Marked(text, a)) = Len(text)
        /\ Highlight!WordsOf(Highlight!Marked(text, a)) = Highlight!WordsOf(text)
        /\ a.rev = text => Highlight!Marked(text, a) = [text EXCEPT ![a.at].mark = TRUE]
    BY <2>2, MarksKeepTheWords
  <2>5. ~misplaced'
    BY <1>t, <2>2, <2>3, <2>4 DEF Highlight!WordsSurvive
  <2>6. Highlight!WordsOf(summaryFile)' = Highlight!WordsOf(Highlight!Marked(text, a))
    BY <2>1, <2>2 DEF Highlight!WordsOf
  <2>7. Highlight!HighlightTypeOK'
    BY <1>t, <2>1, <2>2, <2>4, <2>5 DEF Highlight!HighlightTypeOK
  <2>8. Highlight!WordsSurvive'
    BY <1>t, <2>1, <2>2, <2>4, <2>5, <2>6 DEF Highlight!WordsSurvive
  <2> QED BY <2>1, <2>7, <2>8 DEF Highlight!HighlightInv, Highlight!JobsAreOfTheFile
<1>7. ASSUME NEW text \in Highlight!Edits(summaryFile), Highlight!Edit(text)
          PROVE Highlight!HighlightInv'
  <2>1. /\ Len(text) \in 1 .. MaxWords /\ summaryFile' = text /\ words' = Highlight!WordsOf(text)
        /\ editRaced' = (editRaced \/ (marking # Nothing /\ marking.step = "write"))
        /\ UNCHANGED <<hostPage, waiting, marking, misplaced>>
    BY <1>7 DEF Highlight!Edit
  <2>2. text \in Highlight!Texts
    BY <1>f, EditsAreTexts
  <2>3. editRaced' \in BOOLEAN
    BY <1>t, <2>1 DEF Highlight!HighlightTypeOK
  <2>4. Highlight!HighlightTypeOK'
    BY <1>t, <2>1, <2>2, <2>3 DEF Highlight!HighlightTypeOK
  <2>5. Highlight!JobsAreOfTheFile'
    <3>1. marking # Nothing /\ marking.step = "write" => editRaced'
      BY <2>1
    <3> QED BY <1>t, <2>1, <3>1 DEF Highlight!JobsAreOfTheFile
  <2>6. Highlight!WordsOf(summaryFile)' = Highlight!WordsOf(text)
    BY <2>1 DEF Highlight!WordsOf
  <2>7. Highlight!WordsSurvive'
    BY <1>t, <2>1, <2>6 DEF Highlight!WordsSurvive
  <2> QED BY <2>4, <2>5, <2>7 DEF Highlight!HighlightInv
<1> QED BY <1>1, <1>2, <1>3, <1>4, <1>5, <1>6, <1>7 DEF Highlight!Next

\* What the invariant says of the properties.
LEMMA HighlightTells == Highlight!HighlightInv => Highlight!TypeOK /\ Highlight!WordsSurvive
<1> SUFFICES ASSUME Highlight!HighlightInv PROVE Highlight!TypeOK /\ Highlight!WordsSurvive
  OBVIOUS
<1>1. \A i \in DOMAIN summaryFile : summaryFile[i].word \in Vocabulary
          /\ summaryFile[i].mark \in BOOLEAN
  <2>1. summaryFile \in Seq([word : Vocabulary, mark : BOOLEAN])
    BY DEF Highlight!HighlightInv, Highlight!HighlightTypeOK, Highlight!Texts
  <2>2. \A i \in DOMAIN summaryFile : summaryFile[i] \in [word : Vocabulary, mark : BOOLEAN]
    BY <2>1, ElementsAre
  <2> QED BY <2>2
<1> QED BY <1>1 DEF Highlight!HighlightInv, Highlight!HighlightTypeOK, Highlight!TypeOK,
        Highlight!IsAnchor

----------------------------------------------------------------------------
(* Who is in the room                                                       *)

\* What the roster counts is what the library counts.
LEMMA PeopleSets ==
  \A S : People!IsFiniteSet(S) = IsFiniteSet(S) /\ People!Cardinality(S) = Cardinality(S)
<1> QED BY DEF People!IsFiniteSet, IsFiniteSet, People!Cardinality, Cardinality

\* How often a name is shown is a number, and whoever is no trainer shows one.
LEMMA DisplayType ==
  ASSUME People!IdentityAssumption
  PROVE  /\ People!Display \in [People!Names -> Nat] /\ People!Display # Nothing
         /\ \A n \in People!Names : People!Display[n] > 0
            => \E p \in Participants : names[p] = n
         /\ \A p \in Participants : names[p] \in People!Names /\ p \notin trainers
            => People!Display[names[p]] > 0
<1> DEFINE Showing(n) == {p \in People!Listed : names[p] = n}
<1>1. \A n : Showing(n) \subseteq Participants
  BY DEF People!Listed, People!Registered
<1>2. \A n : People!IsFiniteSet(Showing(n)) /\ People!Cardinality(Showing(n)) \in Nat
  BY <1>1, FS_Subset, FS_CardinalityType, PeopleSets DEF People!IdentityAssumption
<1>3. \A n : People!Cardinality(Showing(n)) > 0 <=> Showing(n) # {}
  BY <1>2, FS_EmptySet, PeopleSets
<1>4. People!Display = [n \in People!Names |-> People!Cardinality(Showing(n))]
  BY DEF People!Display
<1> HIDE DEF Showing
<1>5. People!Display \in [People!Names -> Nat]
  BY <1>2, <1>4
<1>6. People!Display # Nothing
  BY <1>5 DEF People!IdentityAssumption, People!Names
<1>7. ASSUME NEW n \in People!Names, People!Display[n] > 0
      PROVE  \E p \in Participants : names[p] = n
  <2>1. Showing(n) # {}
    BY <1>3, <1>4, <1>7
  <2> QED BY <2>1 DEF Showing, People!Listed, People!Registered
<1>8. ASSUME NEW p \in Participants, names[p] \in People!Names, p \notin trainers
      PROVE  People!Display[names[p]] > 0
  <2>1. p \in Showing(names[p])
    BY <1>8 DEF Showing, People!Listed, People!Registered, People!Names,
        People!IdentityAssumption
  <2> QED BY <1>3, <1>4, <1>8, <2>1
<1> QED BY <1>5, <1>6, <1>7, <1>8

\* A sheet has a row for everybody.
LEMMA SheetType ==
  ASSUME NEW who \in [Participants -> People!Names \cup {Nothing}], NEW tagged
  PROVE  People!Sheet(who,
         tagged) \in [Participants -> (People!Names \cup {Nothing}) \X BOOLEAN]
<1>1. ASSUME NEW p \in Participants
      PROVE  <<who[p], p \in tagged>> \in (People!Names \cup {Nothing}) \X BOOLEAN
  <2>1. (p \in tagged) \in BOOLEAN
    OBVIOUS
  <2> DEFINE t == p \in tagged
  <2>2. t \in BOOLEAN /\ who[p] \in People!Names \cup {Nothing}
    BY <2>1
  <2> HIDE DEF t
  <2>3. <<who[p], t>> \in (People!Names \cup {Nothing}) \X BOOLEAN
    BY <2>2
  <2> QED BY <2>3 DEF t
<1> QED BY <1>1, Zenon DEF People!Sheet

\* One more handler waits to publish.
LEMMA OneMoreWaits ==
  People!IdentityAssumption /\ People!RosterTypeOK /\ People!ThenPublish
  => awaiting' \in 1 .. MaxNameCalls
<1>1. \A a, m \in Nat : a \in 0 .. m /\ a < m => a + 1 \in 1 .. m
  OBVIOUS
<1> QED BY <1>1 DEF People!IdentityAssumption, People!RosterTypeOK, People!ThenPublish

LEMMA IdentityStarts == People!IdentityAssumption /\ People!Init => People!IdentityInv
<1> SUFFICES ASSUME People!IdentityAssumption, People!Init PROVE People!IdentityInv
  OBVIOUS
<1>1. People!RosterTypeOK /\ People!OrderIsOfThem
  <2>1. People!Registered = {}
    BY DEF People!Init, People!Nobody, People!Registered
  <2>2. People!RosterTypeOK
    <3>1. People!Nobody \in [Participants -> People!Names \cup {Nothing}]
      BY DEF People!Nobody
    <3>2. sheet \in [Participants -> (People!Names \cup {Nothing}) \X BOOLEAN]
      BY <3>1, SheetType DEF People!Init
    <3> QED BY <3>1, <3>2 DEF People!Init, People!RosterTypeOK, People!IdentityAssumption
  <2> QED BY <2>1, <2>2 DEF People!Init, People!OrderIsOfThem
<1>2. People!ClaimsAreMade
  BY DEF People!Init, People!ClaimsAreMade, People!Nobody, People!IdentityAssumption
<1>3. People!GateTells /\ People!NothingIsForgotten
  BY DEF People!Init, People!GateTells, People!NothingIsForgotten
<1> QED BY <1>1, <1>2, <1>3 DEF People!IdentityInv, People!TypeOK

\* Whoever registers comes after everybody else, and whoever leaves is in nobody's way.
LEMMA OrderStep ==
  People!IdentityAssumption /\ People!RosterTypeOK /\ People!OrderIsOfThem
  /\ [People!Next]_(People!vars) => People!OrderIsOfThem'
<1> SUFFICES ASSUME People!IdentityAssumption, People!RosterTypeOK, People!OrderIsOfThem,
                    [People!Next]_(People!vars)
             PROVE  People!OrderIsOfThem'
  OBVIOUS
<1>1. ASSUME UNCHANGED order, People!Registered' = People!Registered PROVE People!OrderIsOfThem'
  BY <1>1 DEF People!OrderIsOfThem
<1>2. ASSUME NEW p \in Participants, NEW n \in People!Names, NEW tagged,
             People!NewName(p, n, tagged)
      PROVE  People!OrderIsOfThem'
  <2>1. names' = [names EXCEPT ![p] = n] /\ n # Nothing
    BY <1>2 DEF People!NewName, People!Names, People!IdentityAssumption
  <2>2. People!Registered' = People!Registered \cup {p}
    BY <2>1 DEF People!Registered, People!RosterTypeOK
  <2>3. CASE names[p] # Nothing
    <3>1. People!Registered' = People!Registered
      BY <2>2, <2>3 DEF People!Registered
    <3>2. order' = order
      BY <1>2, <2>3 DEF People!NewName
    <3> QED BY <1>1, <3>1, <3>2
  <2>4. CASE names[p] = Nothing
    <3>1. p \notin People!Registered
      BY <2>4 DEF People!Registered
    <3>2. order' = order \cup {<<q, p>> : q \in People!Registered}
      BY <1>2, <2>4 DEF People!NewName
    <3>3. \A q, r : <<q, r>> \in order' <=> <<q, r>> \in order
          \/ (q \in People!Registered /\ r = p)
      BY <3>2
    <3>4. order' \subseteq People!Registered' \X People!Registered'
      BY <2>2, <3>2 DEF People!OrderIsOfThem
    <3>o. \A q, r : <<q, r>> \in order => q \in People!Registered /\ r \in People!Registered
      BY DEF People!OrderIsOfThem
    <3>5. ASSUME NEW q \in People!Registered', NEW r \in People!Registered'
          PROVE  <<q, r>> \in order' <=> q # r /\ <<r, q>> \notin order'
      <4>1. CASE q \in People!Registered /\ r \in People!Registered
        BY <3>1, <3>3, <4>1 DEF People!OrderIsOfThem
      <4>2. CASE q = p \/ r = p
        BY <2>2, <3>1, <3>3, <3>o, <4>2
      <4> QED BY <2>2, <4>1, <4>2
    <3>6. ASSUME NEW q \in People!Registered', NEW r \in People!Registered',
                 NEW x \in People!Registered',
                 <<q, r>> \in order', <<r, x>> \in order'
          PROVE  <<q, x>> \in order'
      BY <2>2, <3>1, <3>3, <3>o, <3>6 DEF People!OrderIsOfThem
    <3> QED BY <3>4, <3>5, <3>6 DEF People!OrderIsOfThem
  <2> QED BY <2>3, <2>4
<1>3. ASSUME NEW p \in Participants, People!ClaimTrainer(p) \/ People!RegisterAgain(p)
      PROVE  People!OrderIsOfThem'
  <2>1. order' = order
    BY <1>3 DEF People!ClaimTrainer, People!RegisterAgain
  <2>2. CASE UNCHANGED names
    BY <1>1, <2>1, <2>2 DEF People!Registered
  <2>3. CASE names' = [names EXCEPT ![p] = Trainer] /\ names[p] # Nothing
    <3>1. People!Registered' = People!Registered
      BY <2>3 DEF People!Registered, People!RosterTypeOK, People!IdentityAssumption
    <3> QED BY <1>1, <2>1, <3>1
  <2> QED BY <1>3, <2>2, <2>3 DEF People!ClaimTrainer, People!RegisterAgain
<1>4. ASSUME NEW p \in Participants, People!Purge(p) PROVE People!OrderIsOfThem'
  <2>1. People!Registered' = People!Registered \ {p}
    BY <1>4 DEF People!Purge, People!Registered, People!RosterTypeOK
  <2>2. order' = {o \in order : p \notin {o[1], o[2]}}
    BY <1>4 DEF People!Purge
  <2>3. \A q, r : <<q, r>> \in order' <=> <<q, r>> \in order /\ p # q /\ p # r
    BY <2>2
  <2>4. order' \subseteq People!Registered' \X People!Registered'
    BY <2>1, <2>2 DEF People!OrderIsOfThem
  <2>5. \A q, r \in People!Registered' : <<q, r>> \in order' <=> q # r /\ <<r, q>> \notin order'
    BY <2>1, <2>3 DEF People!OrderIsOfThem
  <2>6. ASSUME NEW q \in People!Registered', NEW r \in People!Registered',
               NEW x \in People!Registered',
               <<q, r>> \in order', <<r, x>> \in order'
        PROVE  <<q, x>> \in order'
    BY <2>1, <2>3, <2>6 DEF People!OrderIsOfThem
  <2> QED BY <2>4, <2>5, <2>6 DEF People!OrderIsOfThem
<1>5. ASSUME NEW m \in {"workshop", "talk"}, People!EnterSession(m) PROVE People!OrderIsOfThem'
  <2>1. People!Registered' = {} /\ order' = {}
    BY <1>5 DEF People!EnterSession, People!Nobody, People!Registered
  <2> QED BY <2>1 DEF People!OrderIsOfThem
<1>6. CASE People!Restart
  <2>1. People!Registered' = {p \in Participants : rosterFile.names[p] # Nothing}
    BY <1>6 DEF People!Restart, People!Registered
  <2>2. PICK s \in People!SetToSeqs({p \in Participants : rosterFile.names[p] # Nothing}) :
               order' = People!Before(s)
    BY <1>6 DEF People!Restart
  <2> DEFINE N == People!Cardinality({p \in Participants : rosterFile.names[p] # Nothing})
  <2>3. People!IsFiniteSet(People!Registered') /\ N \in Nat
        /\ N = People!Cardinality(People!Registered')
    <3>1. {p \in Participants : rosterFile.names[p] # Nothing} \subseteq Participants
      OBVIOUS
    <3> QED BY <2>1, <3>1, FS_Subset, FS_CardinalityType, PeopleSets
           DEF People!IdentityAssumption
  <2>4. s \in [1 .. N -> People!Registered'] /\ (\A i, j \in 1 .. N : i # j => s[i] # s[j])
    BY <2>1, <2>2 DEF People!SetToSeqs
  <2> HIDE DEF N
  <2>5. \A q \in People!Registered' : \E i \in 1 .. N : s[i] = q
    <3> DEFINE R == People!Registered'
               D == 1 .. N
    <3>1. People!Cardinality(D) = N
      <4>1. People!Cardinality(D) = IF 1 > N THEN 0 ELSE N - 1 + 1
        <5>1. 1 \in Int /\ N \in Int
          BY <2>3
        <5> QED BY <5>1, FS_Interval, PeopleSets
      <4> QED BY <2>3, <4>1
    <3>2. s \in Injection(D, R)
      BY <2>4 DEF Injection, IsInjective
    <3>3. People!IsFiniteSet(R) /\ People!Cardinality(D) = People!Cardinality(R)
      BY <2>3, <3>1
    <3> HIDE DEF R, D
    <3>4. s \in Surjection(D, R)
      BY <3>2, <3>3, FS_Injection, PeopleSets
    <3>5. \A q \in R : \E i \in D : s[i] = q
      BY <3>4 DEF Surjection
    <3> QED BY <3>5 DEF R, D
  <2>6. DOMAIN s = 1 .. N /\ (\A i \in 1 .. N : s[i] \in People!Registered')
    BY <2>4
  <2>7. \A o : o \in order' <=> \E i, j \in 1 .. N : i < j /\ o = <<s[i], s[j]>>
    <3>1. ASSUME NEW o \in order' PROVE \E i, j \in 1 .. N : i < j /\ o = <<s[i], s[j]>>
      BY <2>2, <2>6, <3>1 DEF People!Before
    <3>2. ASSUME NEW i \in 1 .. N, NEW j \in 1 .. N, i < j PROVE <<s[i], s[j]>> \in order'
      <4> DEFINE d == <<i, j>>
      <4>1. d \in {e \in (DOMAIN s) \X (DOMAIN s) : e[1] < e[2]}
        BY <2>6, <3>2
      <4>2. d[1] = i /\ d[2] = j
        OBVIOUS
      <4> HIDE DEF d
      <4> QED BY <2>2, <4>1, <4>2 DEF People!Before
    <3> QED BY <3>1, <3>2
  <2>8. order' \subseteq People!Registered' \X People!Registered'
    BY <2>6, <2>7
  <2>9. \A i, j \in 1 .. N : <<s[i], s[j]>> \in order' <=> i < j
    BY <2>4, <2>6, <2>7
  <2>10. ASSUME NEW q \in People!Registered', NEW r \in People!Registered'
         PROVE  <<q, r>> \in order' <=> q # r /\ <<r, q>> \notin order'
    <3>1. PICK i \in 1 .. N : q = s[i]
      BY <2>5, <2>6
    <3>2. PICK j \in 1 .. N : r = s[j]
      BY <2>5, <2>6
    <3>3. (i < j <=> i # j /\ ~(j < i)) /\ (i = j <=> q = r)
      BY <2>3, <2>4, <2>6, <3>1, <3>2
    <3> QED BY <2>9, <3>1, <3>2, <3>3
  <2>11. ASSUME NEW q \in People!Registered', NEW r \in People!Registered',
                NEW x \in People!Registered',
                <<q, r>> \in order', <<r, x>> \in order'
         PROVE  <<q, x>> \in order'
    <3>1. PICK i \in 1 .. N : q = s[i]
      BY <2>5, <2>6
    <3>2. PICK j \in 1 .. N : r = s[j]
      BY <2>5, <2>6
    <3>3. PICK k \in 1 .. N : x = s[k]
      BY <2>5, <2>6
    <3>4. i < j /\ j < k
      BY <2>9, <2>11, <3>1, <3>2, <3>3
    <3>5. i < k
      BY <2>3, <3>4
    <3> QED BY <2>9, <3>1, <3>3, <3>5
  <2> QED BY <2>8, <2>10, <2>11 DEF People!OrderIsOfThem
<1>7. People!Names = TypedNames \cup FictionNames \cup {Guest, Trainer}
  BY DEF People!Names
<1>8. ASSUME NEW p \in Participants, NEW n \in TypedNames, People!RegisterTyped(p, n)
      PROVE  People!OrderIsOfThem'
  BY <1>2, <1>7, <1>8 DEF People!RegisterTyped
<1>9. ASSUME NEW p \in Participants, NEW n \in FictionNames \cup {Guest},
             People!RegisterBlank(p, n)
      PROVE  People!OrderIsOfThem'
  BY <1>2, <1>7, <1>9 DEF People!RegisterBlank
<1>10. ASSUME NEW p \in Participants, NEW n \in TypedNames \cup {Trainer}, People!Rename(p, n)
       PROVE  People!OrderIsOfThem'
  BY <1>2, <1>7, <1>10 DEF People!Rename
<1>11. ASSUME NEW p \in Participants, People!RegisterTrainer(p) PROVE People!OrderIsOfThem'
  BY <1>2, <1>7, <1>11 DEF People!RegisterTrainer
<1>12. CASE People!Heartbeat \/ People!Publish \/ People!Flush \/ People!Persist
       \/ UNCHANGED People!vars
  <2>1. UNCHANGED <<names, order>>
    BY <1>12 DEF People!Heartbeat, People!Publish, People!Flush, People!Persist, People!vars,
        People!rosterVars
  <2> QED BY <1>1, <2>1 DEF People!Registered
<1> QED
  BY <1>3, <1>4, <1>5, <1>6, <1>8, <1>9, <1>10, <1>11, <1>12 DEF People!Next, People!Acting,
      People!Keeping

\* A handler that gives a name, and goes on to publish it.
LEMMA NamesAreGiven ==
  ASSUME People!IdentityAssumption, People!IdentityInv, NEW p \in Participants,
         NEW n \in People!Names, NEW tagged \in BOOLEAN,
         People!NewName(p, n, tagged), n = Trainer => p \in claimed, People!OrderIsOfThem'
  PROVE  People!IdentityInv'
<1>1. People!RosterTypeOK'
  <2>1. awaiting' \in 0 .. MaxNameCalls
    BY OneMoreWaits DEF People!IdentityInv, People!TypeOK, People!NewName,
        People!IdentityAssumption
  <2> QED BY <2>1 DEF People!IdentityInv, People!TypeOK, People!RosterTypeOK, People!NewName,
      People!viewVars
<1>2. People!ClaimsAreMade'
  BY DEF People!IdentityInv, People!TypeOK, People!RosterTypeOK, People!ClaimsAreMade,
      People!NewName
<1>3. People!GateTells'
  BY DEF People!IdentityInv, People!GateTells, People!NewName, People!viewVars
<1>4. awaiting' # 0
  BY DEF People!IdentityInv, People!TypeOK, People!RosterTypeOK, People!NewName,
      People!ThenPublish
<1> QED BY <1>1, <1>2, <1>3, <1>4 DEF People!IdentityInv, People!TypeOK,
    People!NothingIsForgotten

\* What is published has passed the gate.
LEMMA PublishTells ==
  People!IdentityAssumption /\ People!IdentityInv /\ People!Publish /\ People!OrderIsOfThem'
  => People!IdentityInv'
<1> SUFFICES ASSUME People!IdentityAssumption, People!IdentityInv, People!Publish,
                    People!OrderIsOfThem'
             PROVE  People!IdentityInv'
  OBVIOUS
<1>t. People!RosterTypeOK
  BY DEF People!IdentityInv, People!TypeOK
<1>1. UNCHANGED <<mode, names, order, anon, trainers, rosterFile, claimed>>
  BY DEF People!Publish, People!rosterVars
<1>2. People!Display' = People!Display
  BY <1>1 DEF People!Display, People!Listed, People!Registered
<1>3. People!ClaimsAreMade'
  BY <1>1 DEF People!IdentityInv, People!ClaimsAreMade
<1>4. gate' = People!Display
  BY DEF People!Publish, People!viewVars
<1>6. People!RosterTypeOK'
  <2>1. awaiting' \in 0 .. MaxNameCalls /\ unsaid' \in BOOLEAN
    <3>1. awaiting \in 0 .. MaxNameCalls /\ awaiting > 0 /\ awaiting' = awaiting - 1
          /\ unsaid' = FALSE
      BY <1>t DEF People!Publish, People!RosterTypeOK
    <3>2. MaxNameCalls \in Nat
      BY DEF People!IdentityAssumption
    <3>3. \A a, m \in Nat : a \in 0 .. m /\ a > 0 => a - 1 \in 0 .. m
      OBVIOUS
    <3>4. awaiting \in Nat
      BY <3>1, <3>2
    <3> QED BY <3>1, <3>2, <3>3, <3>4
  <2>3. namesSeen' \in [People!Names -> Nat]
    BY <1>t, DisplayType DEF People!Publish, People!RosterTypeOK, People!viewVars
  <2>4. sheet' \in [Participants -> (People!Names \cup {Nothing}) \X BOOLEAN]
    BY <1>t, SheetType DEF People!Publish, People!RosterTypeOK, People!viewVars
  <2>2. gate' \in [People!Names -> Nat]
    BY <1>4, DisplayType
  <2> QED BY <1>t, <1>1, <2>1, <2>2, <2>3, <2>4 DEF People!RosterTypeOK
<1>7. People!GateTells'
  <2>1. CASE People!Display = gate
    BY <1>1, <2>1 DEF People!Publish, People!viewVars, People!IdentityInv, People!GateTells
  <2>2. CASE People!Display # gate
    <3>1. mode = "workshop" => namesSeen' = gate'
      BY <1>4, <2>2 DEF People!Publish
    <3>2. ASSUME NEW n \in People!Names, gate'[n] > 0
          PROVE  \E q \in Participants : sheet'[q][1] = n
      <4>1. PICK q \in Participants : names[q] = n
        BY <1>4, <3>2, DisplayType
      <4> QED BY <2>2, <4>1 DEF People!Publish, People!Sheet
    <3> QED BY <1>1, <3>1, <3>2 DEF People!GateTells
  <2> QED BY <2>1, <2>2
<1>8. People!NothingIsForgotten'
  BY <1>2, <1>4 DEF People!NothingIsForgotten
<1> QED BY <1>3, <1>6, <1>7, <1>8 DEF People!IdentityInv, People!TypeOK

\* Every step keeps it.
LEMMA IdentitySteps == People!IdentityAssumption /\ People!IdentityInv
/\ [People!Next]_(People!vars) => People!IdentityInv'
<1> SUFFICES ASSUME People!IdentityAssumption, People!IdentityInv, [People!Next]_(People!vars)
             PROVE  People!IdentityInv'
  OBVIOUS
<1>t. People!RosterTypeOK /\ People!ClaimsAreMade /\ People!GateTells
      /\ People!NothingIsForgotten /\ People!OrderIsOfThem
  BY DEF People!IdentityInv, People!TypeOK
<1>o. People!OrderIsOfThem'
  BY <1>t, OrderStep
<1>1. ASSUME NEW p \in Participants, NEW n \in TypedNames, People!RegisterTyped(p, n)
      PROVE  People!IdentityInv'
  BY <1>1, <1>o, NamesAreGiven DEF People!RegisterTyped, People!Names, People!IdentityAssumption
<1>2. ASSUME NEW p \in Participants, NEW n \in FictionNames \cup {Guest},
             People!RegisterBlank(p, n)
      PROVE  People!IdentityInv'
  BY <1>2, <1>o, NamesAreGiven DEF People!RegisterBlank, People!Names, People!IdentityAssumption
<1>3. ASSUME NEW p \in Participants, NEW n \in TypedNames \cup {Trainer}, People!Rename(p, n)
      PROVE  People!IdentityInv'
  BY <1>t, <1>3, <1>o, NamesAreGiven DEF People!Rename, People!Names, People!ClaimsAreMade
<1>4. ASSUME NEW p \in Participants, People!RegisterTrainer(p) PROVE People!IdentityInv'
  BY <1>t, <1>4, <1>o, NamesAreGiven DEF People!RegisterTrainer, People!Names,
      People!ClaimsAreMade
<1>5. ASSUME NEW p \in Participants, People!RegisterAgain(p) PROVE People!IdentityInv'
  <2>1. People!RosterTypeOK'
    BY <1>t, <1>5 DEF People!RegisterAgain, People!RosterTypeOK, People!viewVars, People!Names
  <2>2. People!ClaimsAreMade'
    BY <1>t, <1>5 DEF People!RegisterAgain, People!RosterTypeOK, People!ClaimsAreMade
  <2>3. People!GateTells' /\ People!NothingIsForgotten'
    BY <1>t, <1>5 DEF People!RegisterAgain, People!GateTells, People!NothingIsForgotten,
        People!viewVars
  <2> QED BY <1>o, <2>1, <2>2, <2>3 DEF People!IdentityInv, People!TypeOK
<1>6. ASSUME NEW p \in Participants, People!ClaimTrainer(p) PROVE People!IdentityInv'
  <2>1. People!RosterTypeOK'
    <3>1. awaiting' \in 0 .. MaxNameCalls
      BY <1>t, <1>6, OneMoreWaits DEF People!ClaimTrainer, People!RosterTypeOK,
          People!IdentityAssumption
    <3> QED BY <1>t, <1>6, <3>1 DEF People!ClaimTrainer, People!RosterTypeOK, People!viewVars,
        People!Names
  <2>2. People!ClaimsAreMade'
    BY <1>t, <1>6 DEF People!ClaimTrainer, People!RosterTypeOK, People!ClaimsAreMade
  <2>3. People!GateTells'
    BY <1>t, <1>6 DEF People!ClaimTrainer, People!GateTells, People!viewVars
  <2>4. People!NothingIsForgotten'
    <3>1. CASE names[p] # Nothing
      <4>1. awaiting' # 0
        BY <1>t, <1>6, <3>1 DEF People!ClaimTrainer, People!ThenPublish, People!RosterTypeOK
      <4> QED BY <4>1 DEF People!NothingIsForgotten
    <3>2. CASE names[p] = Nothing
      <4>1. \A q \in People!Registered : q \in trainers' <=> q \in trainers
        BY <1>6, <3>2 DEF People!ClaimTrainer, People!Registered
      <4>2. UNCHANGED <<names, order, awaiting, unsaid, gate>>
        BY <1>6, <3>2 DEF People!ClaimTrainer, People!viewVars
      <4>3. People!Listed' = People!Listed
        BY <1>t, <1>6, <3>2, <4>2 DEF People!Listed, People!Registered, People!ClaimTrainer,
            People!OrderIsOfThem
      <4>4. People!Display' = People!Display
        BY <4>2, <4>3 DEF People!Display
      <4> QED BY <1>t, <4>2, <4>4 DEF People!NothingIsForgotten
    <3> QED BY <3>1, <3>2
  <2> QED BY <1>o, <2>1, <2>2, <2>3, <2>4 DEF People!IdentityInv, People!TypeOK
<1>7. ASSUME NEW p \in Participants, People!Purge(p) PROVE People!IdentityInv'
  <2>1. People!RosterTypeOK'
    <3>1. awaiting' \in 0 .. MaxNameCalls
      BY <1>t, <1>7, OneMoreWaits DEF People!Purge, People!IdentityAssumption
    <3> QED BY <1>t, <1>7, <3>1 DEF People!Purge, People!RosterTypeOK
  <2>2. People!ClaimsAreMade'
    BY <1>t, <1>7 DEF People!Purge, People!RosterTypeOK, People!ClaimsAreMade,
        People!IdentityAssumption
  <2>3. People!GateTells'
    BY <1>7 DEF People!Purge, People!GateTells
  <2>4. awaiting' # 0
    BY <1>t, <1>7 DEF People!Purge, People!ThenPublish, People!RosterTypeOK
  <2> QED BY <1>o, <2>1, <2>2, <2>3, <2>4 DEF People!IdentityInv, People!TypeOK,
      People!NothingIsForgotten
<1>8. ASSUME NEW m \in {"workshop", "talk"}, People!EnterSession(m) PROVE People!IdentityInv'
  <2>1. People!RosterTypeOK'
    <3>1. People!Nobody \in [Participants -> People!Names \cup {Nothing}]
      BY DEF People!Nobody
    <3>2. sheet' \in [Participants -> (People!Names \cup {Nothing}) \X BOOLEAN]
      BY <1>8, <3>1, SheetType DEF People!EnterSession
    <3> QED BY <1>t, <1>8, <3>1, <3>2 DEF People!EnterSession, People!RosterTypeOK
  <2>2. People!ClaimsAreMade'
    BY <1>8 DEF People!EnterSession, People!ClaimsAreMade, People!Nobody,
        People!IdentityAssumption
  <2>3. People!GateTells' /\ People!NothingIsForgotten'
    BY <1>8 DEF People!EnterSession, People!GateTells, People!NothingIsForgotten
  <2> QED BY <1>o, <2>1, <2>2, <2>3 DEF People!IdentityInv, People!TypeOK
<1>9. CASE People!Heartbeat
  <2>0. awaiting' \in 0 .. MaxNameCalls /\ awaiting' # 0
    BY <1>t, <1>9, OneMoreWaits DEF People!Heartbeat, People!IdentityAssumption
  <2>1. People!RosterTypeOK' /\ People!ClaimsAreMade' /\ People!GateTells' /\ awaiting' # 0
    BY <1>t, <1>9, <2>0 DEF People!Heartbeat, People!RosterTypeOK, People!ClaimsAreMade,
        People!GateTells, People!rosterVars, People!viewVars
  <2> QED BY <1>o, <2>1 DEF People!IdentityInv, People!TypeOK, People!NothingIsForgotten
<1>10. CASE People!Publish
  BY <1>o, <1>10, PublishTells
<1>11. CASE People!Flush \/ People!Persist
  <2>1. UNCHANGED <<mode, names, order, anon, trainers, gate, namesSeen, sheet, awaiting,
        claimed, unsaid>>
    BY <1>11 DEF People!Flush, People!Persist, People!rosterVars, People!viewVars
  <2>2. rosterFile'.names = names /\ rosterFile'.trainers \in {trainers, rosterFile.trainers}
    BY <1>t, <1>11 DEF People!Flush, People!Persist, People!RosterTypeOK
  <2>3. rosterFile' \in [names : [Participants -> People!Names \cup {Nothing}],
        anon : SUBSET Participants, trainers : SUBSET Participants]
    <3>1. CASE People!Flush
      BY <1>t, <3>1 DEF People!Flush, People!RosterTypeOK
    <3>2. CASE People!Persist
      <4>1. anon \in SUBSET Participants /\ trainers \in SUBSET Participants
        BY <1>t DEF People!RosterTypeOK
      <4> QED BY <1>t, <3>2, <4>1 DEF People!Persist, People!RosterTypeOK
    <3> QED BY <1>11, <3>1, <3>2
  <2>4. People!RosterTypeOK' /\ People!ClaimsAreMade'
    BY <1>t, <2>1, <2>2, <2>3 DEF People!RosterTypeOK, People!ClaimsAreMade
  <2>5. People!Display' = People!Display
    BY <2>1 DEF People!Display, People!Listed, People!Registered
  <2>6. People!GateTells' /\ People!NothingIsForgotten'
    BY <1>t, <2>1, <2>5 DEF People!GateTells, People!NothingIsForgotten
  <2> QED BY <1>o, <2>4, <2>6 DEF People!IdentityInv, People!TypeOK
<1>12. CASE People!Restart
  <2>1. People!RosterTypeOK'
    BY <1>t, <1>12 DEF People!Restart, People!RosterTypeOK, People!IdentityAssumption
  <2>2. People!ClaimsAreMade'
    BY <1>t, <1>12 DEF People!Restart, People!ClaimsAreMade
  <2>3. People!GateTells' /\ People!NothingIsForgotten'
    BY <1>12 DEF People!Restart, People!GateTells, People!NothingIsForgotten
  <2> QED BY <1>o, <2>1, <2>2, <2>3 DEF People!IdentityInv, People!TypeOK
<1>13. CASE UNCHANGED People!vars
  <2>1. UNCHANGED <<mode, names, order, anon, trainers, gate, namesSeen, sheet, awaiting,
        rosterFile, claimed, unsaid>>
    BY <1>13 DEF People!vars, People!rosterVars, People!viewVars
  <2>2. People!Display' = People!Display
    BY <2>1 DEF People!Display, People!Listed, People!Registered
  <2>3. People!RosterTypeOK' /\ People!ClaimsAreMade' /\ People!GateTells'
        /\ People!NothingIsForgotten'
    BY <1>t, <2>1, <2>2 DEF People!RosterTypeOK, People!ClaimsAreMade, People!GateTells,
        People!NothingIsForgotten
  <2> QED BY <1>o, <2>3 DEF People!IdentityInv, People!TypeOK
<1> QED
  BY <1>1, <1>2, <1>3, <1>4, <1>5, <1>6, <1>7, <1>8, <1>9, <1>10, <1>11, <1>12, <1>13
     DEF People!Next, People!Acting, People!Keeping

\* What the invariant says of the phones.
LEMMA PhonesFollow ==
  People!IdentityAssumption /\ People!IdentityInv => People!TypeOK /\ People!PhonesKnowTheNames
  /\ People!NobodyElseIsTrainer
<1> SUFFICES ASSUME People!IdentityAssumption, People!IdentityInv
             PROVE  People!TypeOK /\ People!PhonesKnowTheNames /\ People!NobodyElseIsTrainer
  OBVIOUS
<1>0. People!TypeOK
  BY DEF People!IdentityInv
<1>1. People!NobodyElseIsTrainer
  BY DEF People!IdentityInv, People!ClaimsAreMade, People!NobodyElseIsTrainer
<1>2. ASSUME awaiting = 0, ~unsaid
      PROVE  /\ mode = "workshop" => namesSeen = People!Display
             /\ \A p \in People!Registered \ trainers :
                  \E q \in Participants : sheet[q][1] = names[p]
  <2>1. gate = People!Display /\ gate # Nothing
    BY <1>2, DisplayType DEF People!IdentityInv, People!TypeOK, People!NothingIsForgotten
  <2>2. mode = "workshop" => namesSeen = People!Display
    BY <2>1 DEF People!IdentityInv, People!GateTells
  <2>3. ASSUME NEW p \in People!Registered \ trainers
        PROVE  \E q \in Participants : sheet[q][1] = names[p]
    <3>1. p \in Participants /\ names[p] \in People!Names /\ p \notin trainers
      BY DEF People!Registered, People!IdentityInv, People!TypeOK, People!RosterTypeOK
    <3>2. gate[names[p]] > 0
      BY <2>1, <3>1, DisplayType
    <3> QED BY <2>1, <3>1, <3>2 DEF People!IdentityInv, People!GateTells
  <2> QED BY <2>2, <2>3
<1> QED BY <1>0, <1>1, <1>2 DEF People!PhonesKnowTheNames

----------------------------------------------------------------------------
(* The index of the material                                                *)

\* The index starts with what the files hold.
LEMMA IndexStarts == Index!IndexerAssumption /\ Index!Init => Index!IndexerInv
<1> SUFFICES ASSUME Index!IndexerAssumption, Index!Init PROVE Index!IndexerInv
  OBVIOUS
<1>1. /\ content \in [IndexFiles -> {0, 1}] /\ manifest = content /\ manifestFile = content
      /\ chunks = [n \in IndexFiles |-> IF content[n] = 0 THEN {}
                                      ELSE Index!Upserted({}, 1, 1 .. ChunkCounts[1])]
      /\ indexPending = [n \in IndexFiles |-> Nothing]
         /\ indexDue = [n \in IndexFiles |-> Nothing] /\ indexWork = Nothing
      /\ indexUp = TRUE
  BY DEF Index!Init
<1>2. 1 \in Index!Versions /\ Nothing \notin {"delete", "upsert"}
  BY DEF Index!Versions, Index!IndexerAssumption
<1>3. Index!IndexTypeOK
  <2>1. content \in [IndexFiles -> Index!Versions \cup {0}]
    BY <1>1, <1>2
  <2>2. chunks = [n \in IndexFiles |-> chunks[n]]
    BY <1>1
  <2> QED BY <1>1, <2>1, <2>2 DEF Index!IndexTypeOK
<1>4. ASSUME NEW n \in IndexFiles PROVE Index!HeldIsRecorded(n) /\ Index!NotedIsSo(n)
  <2>1. content[n] \in {0, 1} /\ chunks[n] = Index!ChunksOf(content[n])
    BY <1>1 DEF Index!ChunksOf
  <2>2. chunks[n] = {} \/ content[n] # 0
    BY <2>1 DEF Index!ChunksOf
  <2> QED BY <1>1, <2>1, <2>2 DEF Index!HeldIsRecorded, Index!NotedIsSo, Index!At
<1>5. Index!ChunksTypeOK
  <2>1. \A n \in IndexFiles : chunks[n] = {} \/ chunks[n] = Index!Upserted({}, 1, 1 .. ChunkCounts[1])
    BY <1>1
  <2>2. \A c \in Index!Upserted({}, 1, 1 .. ChunkCounts[1]) : c.version = 1
    BY DEF Index!Upserted
  <2> QED BY <1>2, <2>1, <2>2 DEF Index!ChunksTypeOK, Index!Init
<1> QED BY <1>3, <1>4, <1>5 DEF Index!IndexerInv

\* The variables keep their types, and nothing is noted while the daemon is off.
LEMMA IndexTypes == Index!IndexerAssumption /\ Index!IndexTypeOK /\ [Index!Next]_(Index!vars)
=> Index!IndexTypeOK'
<1> SUFFICES ASSUME Index!IndexerAssumption, Index!IndexTypeOK, [Index!Next]_(Index!vars)
             PROVE  Index!IndexTypeOK'
  OBVIOUS
<1> USE DEF Index!IndexTypeOK
<1>0. 0 \in Index!Versions \cup {0} /\ Nothing \in {Nothing, "delete", "upsert"}
  OBVIOUS
<1>w. ASSUME indexWork # Nothing
      PROVE  /\ indexWork \in Index!Jobs /\ indexWork.of \in IndexFiles
             /\ indexWork.hash \in Index!Versions \cup {0} /\ indexUp
             /\ \A s \in {"drop", "forget", "hash", "dead", "deindex", "index", "record"} :
                  /\ [indexWork EXCEPT !.step = s] \in Index!Jobs
                  /\ \A h \in Index!Versions \cup {0} :
                       [indexWork EXCEPT !.step = s, !.hash = h] \in Index!Jobs
  BY <1>w DEF Index!Jobs
<1>1. ASSUME NEW S \in SUBSET IndexFiles, Index!Round(S) PROVE Index!IndexTypeOK'
  BY <1>1 DEF Index!Round
<1>2. ASSUME NEW n \in IndexFiles, Index!Take(n) PROVE Index!IndexTypeOK'
  <2>1. /\ indexDue' = [indexDue EXCEPT ![n] = Nothing] /\ indexUp
        /\ UNCHANGED <<content, chunks, manifest, manifestFile, indexPending, indexUp>>
    BY <1>2 DEF Index!Take
  <2>2. indexWork' \in Index!Jobs \cup {Nothing}
    BY <1>2 DEF Index!Take, Index!Jobs
  <2> QED BY <2>1, <2>2
<1>3. ASSUME NEW n \in IndexFiles, NEW v \in Index!Versions \cup {0}, Index!Change(n, v)
      PROVE  Index!IndexTypeOK'
  <2>1. /\ content' = [content EXCEPT ![n] = v]
        /\ UNCHANGED <<chunks, manifest, manifestFile, indexDue, indexWork, indexUp>>
        /\ \/ indexUp
              /\ \E a \in {"delete", "upsert"} : indexPending' = [indexPending EXCEPT ![n] = a]
           \/ ~indexUp /\ indexPending' = indexPending
    BY <1>3 DEF Index!Change, Index!Noted
  <2> QED BY <2>1
<1>4. CASE Index!Drop \/ Index!Deindex
  <2>1. /\ indexWork # Nothing /\ chunks' \in {chunks, [chunks EXCEPT ![indexWork.of] = {}]}
        /\ indexWork' \in {[indexWork EXCEPT !.step = "forget"],
           [indexWork EXCEPT !.step = "index"]}
        /\ UNCHANGED <<content, manifest, manifestFile, indexPending, indexDue, indexUp>>
    BY <1>4 DEF Index!Drop, Index!Deindex, Index!Emptied, Index!Doing, Index!Go, Index!sides
  <2>2. chunks' = [n \in IndexFiles |-> chunks'[n]]
    BY <2>1
  <2> QED BY <1>w, <2>1, <2>2
<1>5. CASE Index!Forget \/ Index!Record
  <2>1. /\ indexWork # Nothing /\ manifestFile' = manifest' /\ indexWork' = Nothing
        /\ manifest' \in {[manifest EXCEPT ![indexWork.of] = 0],
                          [manifest EXCEPT ![indexWork.of] = indexWork.hash]}
        /\ UNCHANGED <<content, chunks, indexPending, indexDue, indexUp>>
    BY <1>5 DEF Index!Forget, Index!Record, Index!Doing, Index!sides
  <2>2. manifest' \in [IndexFiles -> Index!Versions \cup {0}]
    BY <1>0, <1>w, <2>1
  <2> QED BY <2>1, <2>2
<1>6. CASE Index!Hash
  <2>1. /\ indexWork # Nothing
           /\ UNCHANGED <<content, chunks, manifest, manifestFile, indexPending, indexDue,
              indexUp>>
    BY <1>6 DEF Index!Hash, Index!Doing, Index!sides
  <2>2. indexWork' \in Index!Jobs \cup {Nothing}
    <3>1. content[indexWork.of] \in Index!Versions \cup {0}
      BY <1>w, <2>1
    <3> QED BY <1>6, <1>w, <2>1, <3>1 DEF Index!Hash
  <2> QED BY <1>w, <2>1, <2>2
<1>7. CASE Index!Index
  <2>1. /\ indexWork # Nothing
           /\ UNCHANGED <<content, manifest, manifestFile, indexPending, indexDue, indexUp>>
        /\ \/ /\ \E K : chunks' = [chunks EXCEPT ![indexWork.of] = K]
              /\ indexWork' = [indexWork EXCEPT !.step = "record"]
           \/ chunks' = chunks /\ indexWork' \in {Nothing, [indexWork EXCEPT !.step = "dead"]}
    BY <1>7 DEF Index!Index, Index!Doing, Index!Go, Index!sides
  <2>2. chunks' = [n \in IndexFiles |-> chunks'[n]]
    BY <2>1
  <2> QED BY <1>w, <2>1, <2>2
<1>8. CASE Index!Stop
  BY <1>8 DEF Index!Stop
<1>9. CASE Index!StartIndexer
  BY <1>9 DEF Index!StartIndexer
<1>10. CASE UNCHANGED Index!vars
  BY <1>10 DEF Index!vars
<1> QED BY <1>1, <1>2, <1>3, <1>4, <1>5, <1>6, <1>7, <1>8, <1>9, <1>10 DEF Index!Next

\* What is in the collection is of versions that a file has had.
LEMMA ChunksStep ==
  Index!IndexerAssumption /\ Index!IndexTypeOK /\ Index!ChunksTypeOK
  /\ [Index!Next]_(Index!vars) => Index!ChunksTypeOK'
<1> SUFFICES ASSUME Index!IndexerAssumption, Index!IndexTypeOK, Index!ChunksTypeOK,
                    [Index!Next]_(Index!vars)
             PROVE  Index!ChunksTypeOK'
  OBVIOUS
<1> USE DEF Index!ChunksTypeOK
<1>w. indexWork # Nothing => indexWork.of \in IndexFiles
  BY DEF Index!IndexTypeOK, Index!Jobs
<1>1. ASSUME NEW S \in SUBSET IndexFiles, Index!Round(S) PROVE Index!ChunksTypeOK'
  BY <1>1 DEF Index!Round
<1>2. ASSUME NEW n \in IndexFiles, Index!Take(n) PROVE Index!ChunksTypeOK'
  BY <1>2 DEF Index!Take
<1>3. ASSUME NEW n \in IndexFiles, NEW v \in Index!Versions \cup {0}, Index!Change(n, v)
      PROVE  Index!ChunksTypeOK'
  BY <1>3 DEF Index!Change, Index!Noted
<1>4. CASE Index!Drop \/ Index!Deindex
  <2>1. /\ chunks' \in {chunks, [chunks EXCEPT ![indexWork.of] = {}]}
        /\ indexWork.of \in IndexFiles /\ botched' \subseteq botched \cup {indexWork.of}
        /\ UNCHANGED <<unseen, indexCut, unparsed, indexMixed>>
    BY <1>4, <1>w DEF Index!Drop, Index!Deindex, Index!Emptied, Index!Doing, Index!sides
  <2>2. \A n \in IndexFiles : chunks'[n] = {} \/ chunks'[n] = chunks[n]
    BY <2>1 DEF Index!IndexTypeOK
  <2> QED BY <2>1, <2>2
<1>5. CASE Index!Forget \/ Index!Record \/ Index!Hash
  BY <1>5 DEF Index!Forget, Index!Record, Index!Hash, Index!sides
<1>6. CASE Index!Index
  <2>1. /\ indexWork.of \in IndexFiles /\ UNCHANGED <<unseen, indexCut>>
        /\ unparsed' \subseteq unparsed \cup {indexWork.of}
           /\ indexMixed' \subseteq indexMixed \cup {indexWork.of}
           /\ botched' \subseteq botched \cup {indexWork.of}
        /\ \/ chunks' = chunks
           \/ /\ content[indexWork.of] # 0
              /\ \E K : chunks' = [chunks EXCEPT ![indexWork.of] =
                          Index!Upserted(chunks[indexWork.of], content[indexWork.of], K)]
    <3>1. 1 .. 0 = {}
      OBVIOUS
    <3> QED BY <1>6, <1>w, <3>1 DEF Index!Index, Index!Doing, Index!sides
  <2>2. ASSUME content[indexWork.of] # 0, NEW K
        PROVE  \A c \in Index!Upserted(chunks[indexWork.of], content[indexWork.of], K) :
                 c.version \in Index!Versions
    <3>1. content[indexWork.of] \in Index!Versions
          /\ \A c \in chunks[indexWork.of] : c.version \in Index!Versions
      BY <2>1, <2>2 DEF Index!IndexTypeOK
    <3> QED BY <3>1 DEF Index!Upserted
  <2>3. \A n \in IndexFiles : \A c \in chunks'[n] : c.version \in Index!Versions
    BY <2>1, <2>2 DEF Index!IndexTypeOK
  <2> QED BY <2>1, <2>3
<1>8. CASE Index!Stop
  BY <1>8 DEF Index!Stop
<1>9. CASE Index!StartIndexer
  BY <1>9 DEF Index!StartIndexer
<1>10. CASE UNCHANGED Index!vars
  BY <1>10 DEF Index!vars
<1> QED BY <1>1, <1>2, <1>3, <1>4, <1>5, <1>6, <1>8, <1>9, <1>10 DEF Index!Next

\* Every step of the watcher, the worker and the daemon keeps the index and the manifest in step.
LEMMA IndexStep == Index!IndexerAssumption /\ Index!IndexerInv /\ [Index!Next]_(Index!vars)
=> Index!IndexerInv'
<1> SUFFICES ASSUME Index!IndexerAssumption, Index!IndexerInv, [Index!Next]_(Index!vars)
             PROVE  Index!IndexerInv'
  OBVIOUS
<1>t. Index!IndexTypeOK /\ Index!IndexTypeOK' /\ Index!ChunksTypeOK'
  BY IndexTypes, ChunksStep DEF Index!IndexerInv
<1> SUFFICES ASSUME NEW n \in IndexFiles, n \notin unseen' \cup indexCut'
             PROVE  Index!HeldIsRecorded(n)' /\ Index!NotedIsSo(n)'
  BY <1>t DEF Index!IndexerInv
<1> DEFINE Here == indexWork # Nothing /\ indexWork.of = n
           HereNext == indexWork' # Nothing /\ indexWork'.of = n
<1>0. n \notin unseen \cup indexCut
  BY DEF Index!Next, Index!Round, Index!Take, Index!Change, Index!Noted, Index!Drop,
      Index!Forget, Index!Hash, Index!Deindex, Index!Index, Index!Record, Index!Stop,
     Index!StartIndexer, Index!sides, Index!vars
<1>i. Index!HeldIsRecorded(n) /\ Index!NotedIsSo(n)
  BY <1>0 DEF Index!IndexerInv
<1>v. /\ content[n] \in Index!Versions \cup {0} /\ manifest[n] \in Index!Versions \cup {0}
      /\ indexPending[n] \in {Nothing, "delete", "upsert"}
         /\ indexDue[n] \in {Nothing, "delete", "upsert"}
      /\ Nothing \notin {"delete", "upsert"} /\ Nothing \notin Index!Jobs
         /\ indexWork \in Index!Jobs \cup {Nothing}
      /\ manifestFile = manifest
  BY <1>t DEF Index!IndexTypeOK, Index!IndexerAssumption
\* What leaves the file alone leaves it as it was.
<1>f. ASSUME content'[n] = content[n], manifest'[n] = manifest[n], chunks'[n] = chunks[n],
             indexPending'[n] = indexPending[n], indexDue'[n] = indexDue[n],
             n \in unparsed' <=> n \in unparsed,
             n \in indexMixed' <=> n \in indexMixed, n \in botched' <=> n \in botched,
             indexWork' = indexWork \/ (~Here /\ ~HereNext)
      PROVE  Index!HeldIsRecorded(n)' /\ Index!NotedIsSo(n)'
  <2>1. CASE indexWork' = indexWork
    BY <1>f, <1>i, <2>1 DEF Index!HeldIsRecorded, Index!NotedIsSo, Index!At, Index!Busy
  <2>2. CASE ~Here /\ ~HereNext
    BY <1>f, <1>i, <2>2 DEF Index!HeldIsRecorded, Index!NotedIsSo, Index!At, Index!Busy
  <2> QED BY <1>f, <2>1, <2>2
<1>h. ASSUME Here
      PROVE  indexWork \in Index!Jobs /\ indexWork.hash \in Index!Versions \cup {0}
  BY <1>v, <1>h DEF Index!Jobs
<1>1. ASSUME NEW S \in SUBSET IndexFiles, Index!Round(S)
      PROVE  Index!HeldIsRecorded(n)' /\ Index!NotedIsSo(n)'
  <2>1. /\ indexWork = Nothing /\ indexWork' = Nothing /\ indexDue[n] = Nothing
        /\ indexDue'[n] = IF n \in S THEN indexPending[n] ELSE Nothing
        /\ indexPending'[n] = IF n \in S THEN Nothing ELSE indexPending[n]
        /\ n \in S => indexPending[n] # Nothing
        /\ UNCHANGED <<content, chunks, manifest, unparsed, indexMixed, botched>>
    BY <1>1 DEF Index!Round
  <2>2. Index!HeldIsRecorded(n)'
    BY <1>i, <2>1 DEF Index!HeldIsRecorded, Index!At
  <2>3. Index!NotedIsSo(n)'
    BY <1>i, <1>v, <2>1 DEF Index!NotedIsSo, Index!At, Index!Busy
  <2> QED BY <2>2, <2>3
<1>2. ASSUME NEW m \in IndexFiles, Index!Take(m)
      PROVE  Index!HeldIsRecorded(n)' /\ Index!NotedIsSo(n)'
  <2>1. /\ indexWork = Nothing /\ indexDue[m] # Nothing
           /\ indexDue' = [indexDue EXCEPT ![m] = Nothing]
        /\ indexWork' = IF indexDue[m] = "delete" THEN [of |-> m, step |-> "drop", hash |-> 0]
                   ELSE IF content[m] = 0 THEN Nothing
                   ELSE [of |-> m, step |-> "hash", hash |-> 0]
        /\ UNCHANGED <<content, chunks, manifest, indexPending, unparsed, indexMixed, botched>>
    BY <1>2 DEF Index!Take
  <2>2. CASE n # m
    <3>1. indexDue'[n] = indexDue[n] /\ ~Here /\ ~HereNext
      BY <1>t, <2>1, <2>2 DEF Index!IndexTypeOK
    <3> QED BY <1>f, <2>1, <3>1
  <2>3. CASE n = m
    <3>1. indexDue'[n] = Nothing /\ ~Here
      BY <1>t, <2>1, <2>3 DEF Index!IndexTypeOK
    <3>2. CASE indexDue[m] = "delete"
      <4>1. indexWork' = [of |-> n, step |-> "drop", hash |-> 0] /\ indexWork' # Nothing
        BY <1>t, <1>v, <2>1, <2>3, <3>2 DEF Index!Jobs
      <4>2. indexWork'.of = n /\ indexWork'.step = "drop"
        BY <4>1
      <4> QED BY <1>i, <1>v, <2>1, <2>3, <3>1, <3>2, <4>1, <4>2
              DEF Index!HeldIsRecorded, Index!NotedIsSo, Index!At, Index!Busy
    <3>3. CASE indexDue[m] # "delete" /\ content[m] = 0
      BY <1>i, <1>v, <2>1, <2>3, <3>1, <3>3 DEF Index!HeldIsRecorded, Index!NotedIsSo, Index!At,
          Index!Busy
    <3>4. CASE indexDue[m] # "delete" /\ content[m] # 0
      <4>1. indexWork' = [of |-> n, step |-> "hash", hash |-> 0] /\ indexWork' # Nothing
        BY <1>t, <1>v, <2>1, <2>3, <3>4 DEF Index!Jobs
      <4>2. indexWork'.of = n /\ indexWork'.step = "hash"
        BY <4>1
      <4> QED BY <1>i, <1>v, <2>1, <2>3, <3>1, <3>4, <4>1, <4>2
              DEF Index!HeldIsRecorded, Index!NotedIsSo, Index!At, Index!Busy
    <3> QED BY <3>2, <3>3, <3>4
  <2> QED BY <2>2, <2>3
<1>3. ASSUME NEW m \in IndexFiles, NEW v \in Index!Versions \cup {0}, Index!Change(m, v)
      PROVE  Index!HeldIsRecorded(n)' /\ Index!NotedIsSo(n)'
  <2>1. /\ content' = [content EXCEPT ![m] = v]
        /\ UNCHANGED <<chunks, manifest, indexDue, indexWork, indexUp, unparsed, indexMixed,
               botched>>
        /\ \/ indexUp
              /\ indexPending' = [indexPending EXCEPT ![m] = IF v = 0 THEN "delete" ELSE "upsert"]
           \/ ~indexUp /\ indexPending' = indexPending /\ unseen' = unseen \cup {m}
    BY <1>3 DEF Index!Change, Index!Noted
  <2>2. CASE n # m
    <3>1. content'[n] = content[n] /\ indexPending'[n] = indexPending[n]
      BY <1>t, <2>1, <2>2 DEF Index!IndexTypeOK
    <3> QED BY <1>f, <2>1, <3>1
  <2>3. CASE n = m
    <3>1. /\ content'[n] = v /\ indexPending'[n] = (IF v = 0 THEN "delete" ELSE "upsert")
      BY <1>t, <2>1, <2>3 DEF Index!IndexTypeOK
    <3>2. indexPending'[n] # Nothing /\ (indexPending'[n] = "delete" <=> content'[n] = 0)
      BY <1>v, <3>1
    <3>3. Index!HeldIsRecorded(n)'
      BY <1>i, <2>1 DEF Index!HeldIsRecorded, Index!At
    <3> QED BY <3>2, <3>3 DEF Index!NotedIsSo
  <2> QED BY <2>2, <2>3
<1>4. CASE Index!Drop
  <2>1. /\ indexWork # Nothing /\ indexWork.step = "drop"
           /\ indexWork' = [indexWork EXCEPT !.step = "forget"]
        /\ \/ /\ chunks' = [chunks EXCEPT ![indexWork.of] = {}]
              /\ botched' = botched \ {indexWork.of}
           \/ chunks' = chunks /\ botched' = botched \cup {indexWork.of}
        /\ UNCHANGED <<content, manifest, indexPending, indexDue, unparsed, indexMixed>>
    BY <1>4 DEF Index!Drop, Index!Emptied, Index!Doing, Index!Go, Index!sides
  <2>2. indexWork'.of = indexWork.of /\ indexWork'.step = "forget" /\ indexWork' # Nothing
    BY <1>v, <2>1 DEF Index!Jobs
  <2>3. CASE indexWork.of # n
    BY <1>f, <1>t, <2>1, <2>2, <2>3 DEF Index!IndexTypeOK
  <2>4. CASE indexWork.of = n
    <3>1. n \in botched' \/ chunks'[n] = {}
      BY <1>t, <2>1, <2>4 DEF Index!IndexTypeOK
    <3> QED BY <1>i, <2>1, <2>2, <2>4, <3>1 DEF Index!HeldIsRecorded, Index!NotedIsSo, Index!At,
        Index!Busy
  <2> QED BY <2>3, <2>4
<1>5. CASE Index!Deindex
  <2>1. /\ indexWork # Nothing /\ indexWork.step = "deindex"
           /\ indexWork' = [indexWork EXCEPT !.step = "index"]
        /\ \/ /\ chunks' = [chunks EXCEPT ![indexWork.of] = {}]
              /\ botched' = botched \ {indexWork.of}
           \/ chunks' = chunks /\ botched' = botched \cup {indexWork.of}
        /\ UNCHANGED <<content, manifest, indexPending, indexDue, unparsed, indexMixed>>
    BY <1>5 DEF Index!Deindex, Index!Emptied, Index!Doing, Index!Go, Index!sides
  <2>2. indexWork'.of = indexWork.of /\ indexWork'.step = "index"
        /\ indexWork'.hash = indexWork.hash /\ indexWork' # Nothing
    BY <1>v, <2>1 DEF Index!Jobs
  <2>3. CASE indexWork.of # n
    BY <1>f, <1>t, <2>1, <2>2, <2>3 DEF Index!IndexTypeOK
  <2>4. CASE indexWork.of = n
    <3>1. n \in botched' \/ chunks'[n] = {}
      BY <1>t, <2>1, <2>4 DEF Index!IndexTypeOK
    <3> QED BY <1>i, <2>1, <2>2, <2>4, <3>1 DEF Index!HeldIsRecorded, Index!NotedIsSo, Index!At,
        Index!Busy
  <2> QED BY <2>3, <2>4
<1>6. CASE Index!Forget
  <2>1. /\ indexWork # Nothing /\ indexWork.step = "forget" /\ indexWork' = Nothing
        /\ manifest' = [manifest EXCEPT ![indexWork.of] = 0]
        /\ UNCHANGED <<content, chunks, indexPending, indexDue, unparsed, indexMixed, botched>>
    BY <1>6 DEF Index!Forget, Index!Doing, Index!sides
  <2>2. CASE indexWork.of # n
    BY <1>f, <1>t, <2>1, <2>2 DEF Index!IndexTypeOK
  <2>3. CASE indexWork.of = n
    <3>1. manifest'[n] = 0
      BY <1>t, <2>1, <2>3 DEF Index!IndexTypeOK
    <3>2. Index!HeldIsRecorded(n)'
      BY <1>i, <2>1, <2>3, <3>1 DEF Index!HeldIsRecorded, Index!At
    <3>3. Index!NotedIsSo(n)'
      BY <1>i, <2>1, <2>3, <3>1 DEF Index!NotedIsSo, Index!At, Index!Busy
    <3> QED BY <3>2, <3>3
  <2> QED BY <2>2, <2>3
<1>7. CASE Index!Record
  <2>1. /\ indexWork # Nothing /\ indexWork.step = "record" /\ indexWork' = Nothing
        /\ manifest' = [manifest EXCEPT ![indexWork.of] = indexWork.hash]
        /\ UNCHANGED <<content, chunks, indexPending, indexDue, unparsed, indexMixed, botched>>
    BY <1>7 DEF Index!Record, Index!Doing, Index!sides
  <2>2. CASE indexWork.of # n
    BY <1>f, <1>t, <2>1, <2>2 DEF Index!IndexTypeOK
  <2>3. CASE indexWork.of = n
    <3>1. manifest'[n] = indexWork.hash
      BY <1>t, <2>1, <2>3 DEF Index!IndexTypeOK
    <3>2. Index!HeldIsRecorded(n)'
      BY <1>i, <2>1, <2>3, <3>1 DEF Index!HeldIsRecorded, Index!At
    <3>3. Index!NotedIsSo(n)'
      BY <1>i, <2>1, <2>3, <3>1 DEF Index!NotedIsSo, Index!At, Index!Busy
    <3> QED BY <3>2, <3>3
  <2> QED BY <2>2, <2>3
<1>8. CASE Index!Hash
  <2> DEFINE h == content[indexWork.of]
  <2>1. /\ indexWork # Nothing /\ indexWork.step = "hash"
        /\ indexWork' = IF h = 0 THEN [indexWork EXCEPT !.step = "dead"]
                   ELSE IF manifest[indexWork.of] = h THEN Nothing
                   ELSE [indexWork EXCEPT !.step = IF manifest[indexWork.of] = 0 THEN "index"
                                              ELSE "deindex", !.hash = h]
        /\ UNCHANGED <<content, chunks, manifest, indexPending, indexDue, unparsed, indexMixed,
               botched>>
    BY <1>8 DEF Index!Hash, Index!Doing, Index!sides
  <2>2. indexWork' # Nothing => indexWork'.of = indexWork.of
    BY <1>v, <2>1 DEF Index!Jobs
  <2>3. CASE indexWork.of # n
    BY <1>f, <2>1, <2>2, <2>3
  <2>4. CASE indexWork.of = n
    <3>1. CASE content[n] = 0
      <4>1. indexWork'.of = n /\ indexWork'.step = "dead" /\ indexWork' # Nothing
        BY <1>v, <2>1, <2>4, <3>1 DEF Index!Jobs
      <4> QED BY <1>i, <2>1, <2>4, <3>1, <4>1 DEF Index!HeldIsRecorded, Index!NotedIsSo,
          Index!At, Index!Busy
    <3>2. CASE content[n] # 0 /\ manifest[n] = content[n]
      <4>1. indexWork' = Nothing
        BY <2>1, <2>4, <3>2
      <4> QED BY <1>i, <2>1, <2>4, <3>2, <4>1 DEF Index!HeldIsRecorded, Index!NotedIsSo,
          Index!At, Index!Busy
    <3>3. CASE content[n] # 0 /\ manifest[n] # content[n] /\ manifest[n] = 0
      <4>1. indexWork'.of = n /\ indexWork'.step = "index" /\ indexWork'.hash = content[n]
            /\ indexWork' # Nothing
        BY <1>v, <2>1, <2>4, <3>3 DEF Index!Jobs
      <4> QED BY <1>i, <2>1, <2>4, <3>3, <4>1 DEF Index!HeldIsRecorded, Index!NotedIsSo,
          Index!At, Index!Busy
    <3>4. CASE content[n] # 0 /\ manifest[n] # content[n] /\ manifest[n] # 0
      <4>1. indexWork'.of = n /\ indexWork'.step = "deindex" /\ indexWork'.hash = content[n]
            /\ indexWork' # Nothing
        BY <1>v, <2>1, <2>4, <3>4 DEF Index!Jobs
      <4> QED BY <1>i, <2>1, <2>4, <3>4, <4>1 DEF Index!HeldIsRecorded, Index!NotedIsSo,
          Index!At, Index!Busy
    <3> QED BY <3>1, <3>2, <3>3, <3>4
  <2> QED BY <2>3, <2>4
<1>9. CASE Index!Index
  <2> DEFINE v == content[indexWork.of]
             All == 1 .. ChunkCounts[v]
  <2>1. /\ indexWork # Nothing /\ indexWork.step = "index"
        /\ UNCHANGED <<content, manifest, indexPending, indexDue>>
        /\ \/ \E K \in SUBSET (1 .. IF v = 0 THEN 0 ELSE ChunkCounts[v]) :
                /\ K # {} /\ indexWork' = [indexWork EXCEPT !.step = "record"]
                /\ chunks' = [chunks EXCEPT ![indexWork.of] =
                                Index!Upserted(chunks[indexWork.of], v, K)]
                /\ unparsed' = unparsed \ {indexWork.of}
                /\ indexMixed' = IF v = indexWork.hash THEN indexMixed \ {indexWork.of}
                                 ELSE indexMixed \cup {indexWork.of}
                /\ botched' = IF K = All THEN botched ELSE botched \cup {indexWork.of}
           \/ indexWork' = Nothing /\ unparsed' = unparsed \cup {indexWork.of}
              /\ UNCHANGED <<chunks, indexMixed, botched>>
           \/ indexWork' = [indexWork EXCEPT !.step = "dead"]
              /\ UNCHANGED <<chunks, unparsed, indexMixed, botched>>
    BY <1>9 DEF Index!Index, Index!Doing, Index!Go, Index!sides
  <2>2. /\ indexWork' # Nothing => indexWork'.of = indexWork.of
        /\ \A s : [indexWork EXCEPT !.step = s].step = s /\ [indexWork EXCEPT !.step = s] # Nothing
                    => [indexWork EXCEPT !.step = s].hash = indexWork.hash
    BY <1>v, <2>1 DEF Index!Jobs
  <2>3. CASE indexWork.of # n
    <3>1. chunks'[n] = chunks[n] /\ ~Here /\ ~HereNext
      BY <1>t, <2>1, <2>2, <2>3 DEF Index!IndexTypeOK
    <3>2. (n \in unparsed' <=> n \in unparsed) /\ (n \in indexMixed' <=> n \in indexMixed)
      BY <2>1, <2>3
    <3>3. n \in botched' <=> n \in botched
      BY <2>1, <2>3
    <3> QED BY <1>f, <2>1, <3>1, <3>2, <3>3
  <2>4. CASE indexWork.of = n
    <3>1. CASE indexWork' = Nothing
      <4>1. n \in unparsed' /\ chunks'[n] = chunks[n] /\ botched' = botched
        BY <1>v, <2>1, <2>4, <3>1 DEF Index!Jobs
      <4> QED BY <1>i, <2>1, <2>4, <3>1, <4>1 DEF Index!HeldIsRecorded, Index!NotedIsSo,
          Index!At, Index!Busy
    <3>2. CASE /\ indexWork' = [indexWork EXCEPT !.step = "dead"]
               /\ UNCHANGED <<chunks, unparsed, indexMixed, botched>>
      <4>1. indexWork' # Nothing /\ indexWork'.of = n /\ indexWork'.step = "dead"
        BY <1>v, <2>1, <2>4, <3>2 DEF Index!Jobs
      <4>2. Index!HeldIsRecorded(n)'
        BY <1>i, <2>1, <2>4, <3>2, <4>1 DEF Index!HeldIsRecorded, Index!At
      <4>3. Index!NotedIsSo(n)'
        BY <1>i, <2>1, <2>4, <3>2, <4>1 DEF Index!NotedIsSo, Index!At, Index!Busy
      <4> QED BY <4>2, <4>3
    <3>3. ASSUME NEW K \in SUBSET (1 .. IF v = 0 THEN 0 ELSE ChunkCounts[v]), K # {},
                 indexWork' = [indexWork EXCEPT !.step = "record"],
                 chunks' = [chunks EXCEPT ![indexWork.of] =
                              Index!Upserted(chunks[indexWork.of], v, K)],
                 indexMixed' = IF v = indexWork.hash THEN indexMixed \ {indexWork.of}
                               ELSE indexMixed \cup {indexWork.of},
                 botched' = IF K = All THEN botched ELSE botched \cup {indexWork.of}
          PROVE  Index!HeldIsRecorded(n)' /\ Index!NotedIsSo(n)'
      <4>0. v # 0
        <5>1. 1 .. 0 = {}
          OBVIOUS
        <5> QED BY <3>3, <5>1
      <4>1. /\ indexWork'.of = n /\ indexWork'.step = "record" /\ indexWork' # Nothing
               /\ indexWork'.hash = indexWork.hash
            /\ chunks'[n] = Index!Upserted(chunks[n], v, K)
            /\ n \notin indexMixed' => v = indexWork.hash
            /\ n \notin botched' => n \notin botched /\ K = All
        BY <1>t, <1>v, <2>1, <2>4, <3>3 DEF Index!Jobs, Index!IndexTypeOK
      <4>2. /\ n \notin botched => chunks[n] = {}
            /\ indexWork.hash # 0
        BY <1>i, <2>1, <2>4 DEF Index!HeldIsRecorded, Index!At
      <4>3. n \notin indexMixed' /\ n \notin botched' => chunks'[n] = Index!ChunksOf(indexWork.hash)
        BY <4>0, <4>1, <4>2 DEF Index!ChunksOf
      <4>4. Index!HeldIsRecorded(n)'
        BY <2>1, <2>4, <4>1, <4>2, <4>3 DEF Index!HeldIsRecorded, Index!At
      <4>5. Index!NotedIsSo(n)'
        BY <1>i, <2>1, <2>4, <4>1 DEF Index!NotedIsSo, Index!At, Index!Busy
      <4> QED BY <4>4, <4>5
    <3> HIDE DEF All, v
    <3> QED BY <2>1, <3>1, <3>2, <3>3
  <2> QED BY <2>3, <2>4
<1>10. CASE Index!Stop
  <2>1. /\ indexCut' = indexCut \cup {m \in IndexFiles : Index!Busy(m)} /\ indexWork' = Nothing
        /\ indexPending' = [m \in IndexFiles |-> Nothing] /\ indexDue' = indexPending'
        /\ UNCHANGED <<content, chunks, manifest, unparsed, indexMixed, botched>>
    BY <1>10 DEF Index!Stop
  <2>2. ~Index!Busy(n) /\ indexPending'[n] = Nothing /\ indexDue'[n] = Nothing
    BY <2>1
  <2> QED BY <1>f, <2>1, <2>2 DEF Index!Busy
<1>11. CASE Index!StartIndexer
  <2>1. manifest' = manifestFile
        /\ UNCHANGED <<content, chunks, indexPending, indexDue, indexWork, unparsed,
           indexMixed, botched>>
    BY <1>11 DEF Index!StartIndexer
  <2>2. manifest' = manifest
    BY <1>v, <2>1
  <2> QED BY <1>f, <2>1, <2>2
<1>12. CASE UNCHANGED Index!vars
  <2>1. UNCHANGED <<content, chunks, manifest, indexPending, indexDue, indexWork, unparsed,
        indexMixed, botched>>
    BY <1>12 DEF Index!vars
  <2> QED BY <1>f, <2>1
<1> QED BY <1>1, <1>2, <1>3, <1>4, <1>5, <1>6, <1>7, <1>8, <1>9, <1>10, <1>11,
    <1>12 DEF Index!Next

\* What neither the watcher nor the worker has in hand is current.
LEMMA IndexFollows == Index!IndexerAssumption /\ Index!IndexerInv => Index!IndexIsCurrent
<1> SUFFICES ASSUME Index!IndexerAssumption, Index!IndexerInv,
                    NEW n \in IndexFiles,
                    n \notin unseen \cup indexCut \cup unparsed \cup indexMixed \cup botched,
                    ~Index!Busy(n)
             PROVE  Index!Current(n)
  BY DEF Index!IndexIsCurrent
<1>1. Index!HeldIsRecorded(n) /\ Index!NotedIsSo(n)
  BY DEF Index!IndexerInv
<1>2. manifest[n] = content[n]
  BY <1>1 DEF Index!NotedIsSo, Index!Busy
<1>3. ~Index!At(n, {"record"}) /\ ~Index!At(n, {"forget", "index", "record", "dead"})
  BY DEF Index!At, Index!Busy
<1>4. manifest[n] = 0 => chunks[n] = {}
  BY <1>1, <1>3 DEF Index!HeldIsRecorded
<1>5. manifest[n] # 0 => chunks[n] = Index!ChunksOf(manifest[n])
  BY <1>1, <1>3 DEF Index!HeldIsRecorded
<1> QED BY <1>2, <1>4, <1>5 DEF Index!Current, Index!ChunksOf

\* The variables have the types the code gives them.
LEMMA IndexTells == Index!IndexerAssumption /\ Index!IndexerInv => Index!TypeOK
/\ Index!IndexIsCurrent
BY IndexFollows DEF Index!IndexerInv, Index!IndexTypeOK, Index!ChunksTypeOK, Index!TypeOK

----------------------------------------------------------------------------
(* What the audience follows                                                *)

\* Cardinalities and the elements of a sequence are the library's, and these are finite.
LEMMA FollowSets ==
  /\ \A S : Follow!Cardinality(S) = Cardinality(S)
  /\ \A s : Follow!ToSet(s) = {s[i] : i \in DOMAIN s}
  /\ \A S : \A s \in Seq(S) : IsFiniteSet(Follow!ToSet(s)) /\ Follow!ToSet(s) \subseteq S
<1>1. \A S : Follow!Cardinality(S) = Cardinality(S)
  BY DEF Follow!Cardinality, Cardinality
<1>2. \A s : Follow!ToSet(s) = {s[i] : i \in DOMAIN s}
  BY DEF Follow!ToSet
<1>3. ASSUME NEW S, NEW s \in Seq(S)
      PROVE  IsFiniteSet(Follow!ToSet(s)) /\ Follow!ToSet(s) \subseteq S
  <2>1. DOMAIN s = 1 .. Len(s) /\ Len(s) \in Nat
    OBVIOUS
  <2>2. IsFiniteSet(DOMAIN s)
    BY <2>1, FS_Interval
  <2>3. s \in Surjection(DOMAIN s, {s[i] : i \in DOMAIN s})
    BY <2>1 DEF Surjection
  <2>4. IsFiniteSet({s[i] : i \in DOMAIN s})
    BY <2>2, <2>3, FS_Surjection
  <2>5. \A i \in DOMAIN s : s[i] \in S
    BY <2>1
  <2> QED BY <1>2, <2>4, <2>5
<1> QED BY <1>1, <1>2, <1>3

\* Among some places of a sequence there is a last one.
LEMMA LastPlace ==
  ASSUME NEW n \in Nat, NEW P \in SUBSET (1 .. n), P # {}
  PROVE  Follow!Max(P) \in P
<1> DEFINE R == {ss \in Nat \X Nat : ss[1] < ss[2]}
           T == {n - i : i \in P}
<1>1. IsWellFoundedOn(R, Nat)
  BY NatLessThanWellFounded DEF OpToRel
<1>2. T \subseteq Nat /\ T # {}
  <2>1. \A i \in 1 .. n : n - i \in Nat
    OBVIOUS
  <2> QED BY <2>1
<1>3. PICK k \in T : \A w \in T : ~(<<w, k>> \in R)
  <2> HIDE DEF R, T
  <2> QED BY <1>1, <1>2, WFMin
<1>4. PICK i \in P : k = n - i
  BY <1>3
<1>5. ASSUME NEW j \in P PROVE i >= j
  <2>1. ~(<<n - j, k>> \in R)
    BY <1>3
  <2>2. n - j \in Nat /\ k \in Nat
    BY <1>2, <1>3
  <2>3. ~(n - j < n - i)
    BY <1>4, <2>1, <2>2
  <2>4. i \in 1 .. n /\ j \in 1 .. n
    OBVIOUS
  <2> QED BY <2>3, <2>4
<1> QED BY <1>5 DEF Follow!Max

\* The seconds of a slide in one sequence of moments after another add up.
LEMMA SecondsAdd ==
  ASSUME NEW S, NEW a \in Seq(S), NEW b \in Seq(S), NEW s
  PROVE  /\ Follow!Seconds(a, s) \in Nat /\ Follow!Seconds(b, s) \in Nat
         /\ Follow!Seconds(a \o b, s) = Follow!Seconds(a, s) + Follow!Seconds(b, s)
<1> DEFINE A == {i \in DOMAIN a : a[i] = s}
           B == {i \in DOMAIN b : b[i] = s}
           C == {Len(a) + i : i \in B}
<1>1. /\ DOMAIN a = 1 .. Len(a) /\ Len(a) \in Nat /\ DOMAIN b = 1 .. Len(b) /\ Len(b) \in Nat
      /\ a \o b \in Seq(S) /\ Len(a \o b) = Len(a) + Len(b)
      /\ DOMAIN (a \o b) = 1 .. Len(a) + Len(b)
  OBVIOUS
<1>2. IsFiniteSet(A) /\ IsFiniteSet(B) /\ Cardinality(A) \in Nat /\ Cardinality(B) \in Nat
  <2>1. IsFiniteSet(DOMAIN a) /\ IsFiniteSet(DOMAIN b)
    BY <1>1, FS_Interval
  <2> QED BY <2>1, FS_Subset, FS_CardinalityType
<1>3. IsFiniteSet(C) /\ Cardinality(C) = Cardinality(B)
  <2>1. \A i \in B : i \in Nat
    BY <1>1
  <2> DEFINE f == [i \in B |-> Len(a) + i]
  <2>2. f \in Bijection(B, C)
    <3>1. f \in [B -> C]
      OBVIOUS
    <3>2. \A i, j \in B : f[i] = f[j] => i = j
      BY <1>1, <2>1
    <3>3. \A c \in C : \E i \in B : f[i] = c
      OBVIOUS
    <3> HIDE DEF f, B, C
    <3> QED BY <3>1, <3>2, <3>3 DEF Bijection, Injection, Surjection, IsInjective
  <2>3. ExistsBijection(B, C)
    BY <2>2 DEF ExistsBijection
  <2> QED BY <1>2, <2>3, FS_Bijection
<1>4. A \cap C = {}
  BY <1>1
<1>5. {i \in DOMAIN (a \o b) : (a \o b)[i] = s} = A \cup C
  <2>1. \A i \in 1 .. Len(a) : (a \o b)[i] = a[i]
    BY <1>1
  <2>2. \A i \in 1 .. Len(b) : (a \o b)[Len(a) + i] = b[i]
    BY <1>1
  <2>3. ASSUME NEW i \in DOMAIN (a \o b), (a \o b)[i] = s PROVE i \in A \cup C
    <3>1. CASE i \in 1 .. Len(a)
      BY <1>1, <2>1, <2>3, <3>1
    <3>2. CASE i \notin 1 .. Len(a)
      <4>1. i - Len(a) \in 1 .. Len(b) /\ i = Len(a) + (i - Len(a))
        BY <1>1, <3>2
      <4>2. b[i - Len(a)] = s
        BY <2>2, <2>3, <4>1
      <4> QED BY <1>1, <4>1, <4>2
    <3> QED BY <3>1, <3>2
  <2>4. ASSUME NEW i \in A PROVE i \in DOMAIN (a \o b) /\ (a \o b)[i] = s
    BY <1>1, <2>1
  <2>5. ASSUME NEW i \in B PROVE Len(a) + i \in DOMAIN (a \o b) /\ (a \o b)[Len(a) + i] = s
    BY <1>1, <2>2
  <2> QED BY <2>3, <2>4, <2>5
<1>6. Cardinality(A \cup C) = Cardinality(A) + Cardinality(C)
  <2>1. Cardinality(A \cap C) = 0
    BY <1>4, FS_EmptySet
  <2>2. Cardinality(A \cup C) = Cardinality(A) + Cardinality(C) - Cardinality(A \cap C)
    <3> HIDE DEF A, C
    <3> QED BY <1>2, <1>3, FS_Union
  <2> QED BY <1>2, <1>3, <2>1, <2>2
<1>7. Follow!Seconds(a, s) = Cardinality(A) /\ Follow!Seconds(b, s) = Cardinality(B)
      /\ Follow!Seconds(a \o b, s) = Cardinality({i \in DOMAIN (a \o b) : (a \o b)[i] = s})
  BY FollowSets DEF Follow!Seconds
<1> QED BY <1>2, <1>3, <1>5, <1>6, <1>7

LEMMA FollowStarts == Follow!FollowAssumption /\ Follow!Init => Follow!FollowInv
<1> SUFFICES ASSUME Follow!FollowAssumption, Follow!Init PROVE Follow!FollowInv
  OBVIOUS
<1>1. Follow!Shown = {} /\ slidesViewed = [s \in Follow!Shown |-> slidesViewed[s]]
  BY DEF Follow!Init, Follow!Shown
<1>2. Follow!ToSet(slideTimeline) = {}
  BY FollowSets DEF Follow!Init
<1>3. Follow!TypeOK
  <2>1. /\ slideEvents \in Seq([slide : Follow!Slides, front : BOOLEAN])
        /\ airtimes \in Seq(Follow!Slides) /\ slideTimeline \in Seq(Follow!Slides)
    BY DEF Follow!Init
  <2>2. /\ {inTalk, slidesCleared, followLinked} \subseteq BOOLEAN
        /\ slideNow = Nothing /\ toldCount \in Nat /\ talkDeck = Nothing /\ deckDownloads = {}
        /\ inFront = "slides" /\ {talkNotes, scrolledTo, openNote} \subseteq {Nothing}
        /\ follower = Nothing
    BY DEF Follow!Init
  <2> QED BY <1>1, <2>1, <2>2 DEF Follow!TypeOK
<1> QED BY <1>1, <1>2, <1>3
        DEF Follow!Init, Follow!FollowInv, Follow!TotalsMatchTimeline, Follow!FollowersFollow

\* What a pass makes of the slide events: a slide that is told is the current one.
LEMMA PassShows ==
  ASSUME Follow!FollowAssumption, Follow!TypeOK
  PROVE  /\ Follow!Latest \in Follow!Slides \cup {Nothing}
         /\ Follow!Turned => Follow!Latest # Nothing
         /\ ~Follow!Turned => Follow!Latest = slideNow
<1>1. /\ slideEvents \in Seq([slide : Follow!Slides, front : BOOLEAN])
      /\ slideNow \in Follow!Slides \cup {Nothing} /\ Nothing \notin Follow!Slides
  BY DEF Follow!TypeOK, Follow!FollowAssumption
<1>2. Follow!Followed \in SUBSET (1 .. Len(slideEvents)) /\ Len(slideEvents) \in Nat
      /\ \A i \in Follow!Followed : slideEvents[i].slide \in Follow!Slides
  <2>1. DOMAIN slideEvents = 1 .. Len(slideEvents) /\ Len(slideEvents) \in Nat
    BY <1>1
  <2>2. \A S : \A t \in Seq(S) : \A i \in DOMAIN t : t[i] \in S
    OBVIOUS
  <2>3. \A i \in DOMAIN slideEvents : slideEvents[i] \in [slide : Follow!Slides, front : BOOLEAN]
    BY <1>1, <2>2, Zenon
  <2> QED BY <2>1, <2>3 DEF Follow!Followed
<1>3. CASE Follow!Followed = {}
  BY <1>1, <1>3 DEF Follow!Latest, Follow!Turned
<1>4. CASE Follow!Followed # {}
  <2>1. Follow!Max(Follow!Followed) \in Follow!Followed
    BY <1>2, <1>4, LastPlace
  <2>2. Follow!Latest = slideEvents[Follow!Max(Follow!Followed)].slide
    BY <1>4 DEF Follow!Latest
  <2> QED BY <1>1, <1>2, <2>1, <2>2 DEF Follow!Turned
<1> QED BY <1>3, <1>4

\* What a pass makes of the viewing times.
LEMMA PassCounts ==
  ASSUME Follow!FollowAssumption, Follow!TypeOK, Follow!TotalsMatchTimeline
  PROVE  /\ DOMAIN Follow!Merged = Follow!ToSet(slideTimeline \o airtimes)
         /\ Follow!Merged = [s \in DOMAIN Follow!Merged |-> Follow!Merged[s]]
         /\ \A s \in DOMAIN Follow!Merged :
              /\ Follow!Merged[s] = Follow!Seconds(slideTimeline \o airtimes, s)
              /\ Follow!Merged[s] \in Nat
         /\ DOMAIN Follow!Merged \subseteq Follow!Slides
         /\ Follow!Cardinality(DOMAIN Follow!Merged) \in Nat
<1>1. slideTimeline \in Seq(Follow!Slides) /\ airtimes \in Seq(Follow!Slides)
      /\ slideTimeline \o airtimes \in Seq(Follow!Slides)
  BY DEF Follow!TypeOK
<1>2. DOMAIN Follow!Merged = Follow!Shown \cup Follow!ToSet(airtimes)
  BY DEF Follow!Merged
<1>3. Follow!ToSet(slideTimeline \o airtimes)
        = Follow!ToSet(slideTimeline) \cup Follow!ToSet(airtimes)
  <2> DEFINE a == slideTimeline
             b == airtimes
  <2>1. /\ DOMAIN a = 1 .. Len(a) /\ Len(a) \in Nat /\ DOMAIN b = 1 .. Len(b) /\ Len(b) \in Nat
        /\ DOMAIN (a \o b) = 1 .. Len(a) + Len(b)
    BY <1>1
  <2>2. \A i \in 1 .. Len(a) : i \in DOMAIN (a \o b) /\ (a \o b)[i] = a[i]
    BY <1>1, <2>1
  <2>3. \A i \in 1 .. Len(b) : Len(a) + i \in DOMAIN (a \o b) /\ (a \o b)[Len(a) + i] = b[i]
    BY <1>1, <2>1
  <2>4. ASSUME NEW i \in DOMAIN (a \o b)
        PROVE  i \in 1 .. Len(a) \/ \E j \in 1 .. Len(b) : i = Len(a) + j
    <3>1. CASE i \notin 1 .. Len(a)
      <4>1. i - Len(a) \in 1 .. Len(b) /\ i = Len(a) + (i - Len(a))
        BY <2>1, <3>1
      <4> QED BY <4>1
    <3> QED BY <3>1
  <2>5. {(a \o b)[i] : i \in DOMAIN (a \o b)} = {a[i] : i \in DOMAIN a} \cup {b[i] : i \in DOMAIN b}
    <3> HIDE DEF a, b
    <3> QED BY <2>1, <2>2, <2>3, <2>4
  <2> QED BY <2>5, FollowSets
<1>4. DOMAIN Follow!Merged = Follow!ToSet(slideTimeline \o airtimes)
  BY <1>2, <1>3 DEF Follow!TotalsMatchTimeline
<1>5. DOMAIN Follow!Merged \subseteq Follow!Slides
      /\ Follow!Cardinality(DOMAIN Follow!Merged) \in Nat
  <2>1. IsFiniteSet(DOMAIN Follow!Merged) /\ DOMAIN Follow!Merged \subseteq Follow!Slides
    <3>1. IsFiniteSet(Follow!ToSet(slideTimeline \o airtimes))
          /\ Follow!ToSet(slideTimeline \o airtimes) \subseteq Follow!Slides
      BY <1>1, FollowSets, Zenon
    <3> QED BY <1>4, <3>1
  <2>2. Cardinality(DOMAIN Follow!Merged) \in Nat
    BY <2>1, FS_CardinalityType
  <2> QED BY <2>1, <2>2, FollowSets
<1>6. ASSUME NEW s \in DOMAIN Follow!Merged
      PROVE  /\ Follow!Merged[s] = Follow!Seconds(slideTimeline \o airtimes, s)
             /\ Follow!Merged[s] \in Nat
  <2>1. /\ Follow!Seconds(slideTimeline, s) \in Nat /\ Follow!Seconds(airtimes, s) \in Nat
        /\ Follow!Seconds(slideTimeline \o airtimes, s)
             = Follow!Seconds(slideTimeline, s) + Follow!Seconds(airtimes, s)
    BY <1>1, SecondsAdd
  <2>2. Follow!Merged[s] = (IF s \in Follow!Shown THEN slidesViewed[s] ELSE 0)
                             + Follow!Seconds(airtimes, s)
    BY <1>2 DEF Follow!Merged
  <2>3. (IF s \in Follow!Shown THEN slidesViewed[s] ELSE 0) = Follow!Seconds(slideTimeline, s)
    <3>1. CASE s \in Follow!Shown
      BY <3>1 DEF Follow!TotalsMatchTimeline
    <3>2. CASE s \notin Follow!Shown
      <4>1. {i \in DOMAIN slideTimeline : slideTimeline[i] = s} = {}
        BY <3>2, FollowSets DEF Follow!TotalsMatchTimeline
      <4>2. Follow!Seconds(slideTimeline, s) = 0
        BY <4>1, FollowSets, FS_EmptySet DEF Follow!Seconds
      <4> QED BY <3>2, <4>2
    <3> QED BY <3>1, <3>2
  <2> QED BY <2>1, <2>2, <2>3
<1>7. Follow!Merged = [s \in DOMAIN Follow!Merged |-> Follow!Merged[s]]
  BY DEF Follow!Merged
<1> QED BY <1>4, <1>5, <1>6, <1>7

\* The variables keep their types.
LEMMA FollowTypes ==
  Follow!FollowAssumption /\ Follow!FollowInv /\ [Follow!Next]_(Follow!vars)
  => Follow!TypeOK' /\ slidesViewed' = [s \in Follow!Shown' |-> slidesViewed'[s]]
<1> SUFFICES ASSUME Follow!FollowAssumption, Follow!FollowInv, [Follow!Next]_(Follow!vars)
             PROVE  Follow!TypeOK' /\ slidesViewed' = [s \in Follow!Shown' |-> slidesViewed'[s]]
  OBVIOUS
<1> DEFINE Events == [slide : Follow!Slides, front : BOOLEAN]
           Queues == slideEvents \in Seq(Events) /\ airtimes \in Seq(Follow!Slides)
           Flags == inTalk \in BOOLEAN /\ slidesCleared \in BOOLEAN /\ followLinked \in BOOLEAN
           Slide == slideNow \in Follow!Slides \cup {Nothing} /\ toldCount \in Nat
           Totals == /\ Follow!Shown \subseteq Follow!Slides
                     /\ \A s \in Follow!Shown : slidesViewed[s] \in Nat
                     /\ slideTimeline \in Seq(Follow!Slides)
                     /\ slidesViewed = [s \in Follow!Shown |-> slidesViewed[s]]
           Deck == talkDeck \in Drafts \cup {Nothing} /\ deckDownloads \subseteq Drafts
           Places == /\ inFront \in {"slides", "notes"} /\ talkNotes \in Passages \cup {Nothing}
                     /\ scrolledTo \in Passages \cup {Nothing}
                     /\ openNote \in Passages \cup {Nothing}
           Phone == follower \in Follow!Phones \cup {Nothing}
<1>1. Queues /\ Flags /\ Slide /\ Totals /\ Deck /\ Places /\ Phone
  BY DEF Follow!FollowInv, Follow!TypeOK
<1>2. SUFFICES Queues' /\ Flags' /\ Slide' /\ Totals' /\ Deck' /\ Places' /\ Phone'
  BY DEF Follow!TypeOK
<1>d. \A d \in Drafts : <<d, 1>> \in Follow!Slides
  BY DEF Follow!FollowAssumption, Follow!Slides
<1>q. UNCHANGED Follow!queueVars => Queues'
  BY <1>1 DEF Follow!queueVars
<1>s. UNCHANGED Follow!slideVars => Totals' /\ Slide'
  BY <1>1 DEF Follow!slideVars, Follow!Shown
<1>k. UNCHANGED Follow!deckVars => Deck'
  BY <1>1 DEF Follow!deckVars
<1>n. UNCHANGED Follow!noteVars => Places'
  BY <1>1 DEF Follow!noteVars
<1>a. UNCHANGED Follow!audienceVars => Phone'
  BY <1>1 DEF Follow!audienceVars
<1>e. /\ slidesViewed' = <<>> /\ slideTimeline' = <<>> => Totals'
      /\ slideEvents' = <<>> /\ airtimes' = <<>> => Queues'
  <2>1. ASSUME slidesViewed' = <<>>, slideTimeline' = <<>> PROVE Totals'
    <3>1. Follow!Shown' = {} /\ slideTimeline' \in Seq(Follow!Slides)
      BY <2>1 DEF Follow!Shown
    <3>2. slidesViewed' = [s \in Follow!Shown' |-> slidesViewed'[s]]
      BY <2>1 DEF Follow!Shown
    <3> QED BY <3>1, <3>2
  <2>2. ASSUME slideEvents' = <<>>, airtimes' = <<>> PROVE Queues'
    BY <2>2
  <2> QED BY <2>1, <2>2
<1>f. UNCHANGED <<inTalk, followLinked>> /\ UNCHANGED Follow!slideVars => Flags'
  BY <1>1 DEF Follow!slideVars
<1>p. ASSUME NEW ph \in Follow!Phones
      PROVE  /\ \A v \in Follow!Slides \cup {Nothing} : [ph EXCEPT !.slide = v] \in Follow!Phones
             /\ [ph EXCEPT !.slide = Nothing, !.count = 0] \in Follow!Phones
             /\ \A v \in Passages \cup {Nothing} : [ph EXCEPT !.summary = v] \in Follow!Phones
             /\ \A v \in Passages \cup {Nothing} : [ph EXCEPT !.wiki = v] \in Follow!Phones
             /\ \A v \in Passages \cup {Nothing}, w \in {"slides", "notes"} :
                  [ph EXCEPT !.notes = v, !.view = w] \in Follow!Phones
             /\ \A v \in Follow!Slides \cup {Nothing}, w \in {"slides", "notes"}, c \in Nat :
                  [ph EXCEPT !.slide = v, !.view = w, !.count = c] \in Follow!Phones
             /\ ph.slide \in Follow!Slides \cup {Nothing} /\ ph.view \in {"slides", "notes"}
             /\ ph.count \in Nat /\ ph.notes \in Passages \cup {Nothing}
  BY DEF Follow!Phones
<1>3. ASSUME NEW s \in Follow!Slides, NEW front \in BOOLEAN, Follow!PowerPoint(s, front)
      PROVE  Queues' /\ Flags' /\ Slide' /\ Totals' /\ Deck' /\ Places' /\ Phone'
  <2>1. [slide |-> s, front |-> front] \in Events
    OBVIOUS
  <2>2. slideEvents' \in Seq(Events) /\ airtimes' \in Seq(Follow!Slides)
    <3> HIDE DEF Events
    <3> QED BY <1>1, <1>3, <2>1 DEF Follow!PowerPoint
  <2> QED BY <1>3, <1>s, <1>k, <1>n, <1>a, <1>f, <2>2 DEF Follow!PowerPoint
<1>4. ASSUME NEW s \in Follow!Slides, Follow!Airtime(s)
      PROVE  Queues' /\ Flags' /\ Slide' /\ Totals' /\ Deck' /\ Places' /\ Phone'
  <2>1. slideEvents' \in Seq(Events) /\ airtimes' \in Seq(Follow!Slides)
    BY <1>1, <1>4 DEF Follow!Airtime
  <2> QED BY <1>4, <1>s, <1>k, <1>n, <1>a, <1>f, <2>1 DEF Follow!Airtime
<1>5. ASSUME Follow!Pass
      PROVE  Queues' /\ Flags' /\ Slide' /\ Totals' /\ Deck' /\ Places' /\ Phone'
  <2>1. Follow!Latest \in Follow!Slides \cup {Nothing} /\ Follow!InFront \in {"slides", "notes"}
    BY <1>1, PassShows DEF Follow!InFront, Follow!FollowInv
  <2>2. Totals' /\ toldCount' \in Nat
    <3>1. slidesViewed' = Follow!Merged /\ slideTimeline' = slideTimeline \o airtimes
          /\ toldCount' = Follow!Cardinality(DOMAIN Follow!Merged)
      BY <1>5 DEF Follow!Pass
    <3>2. slideTimeline' \in Seq(Follow!Slides)
      BY <1>1, <3>1
    <3>3. Follow!Shown' = DOMAIN Follow!Merged
      BY <3>1 DEF Follow!Shown
    <3> QED BY <3>1, <3>2, <3>3, PassCounts DEF Follow!FollowInv
  <2>3. Phone'
    <3>1. CASE follower = Nothing
      BY <1>5, <3>1 DEF Follow!Pass
    <3>2. CASE follower # Nothing
      <4>1. follower \in Follow!Phones
        BY <1>1, <3>2
      <4>2. PICK v \in Follow!Slides \cup {Nothing}, w \in {"slides", "notes"}, c \in Nat :
              follower' = [follower EXCEPT !.slide = v, !.view = w, !.count = c]
        <5> DEFINE v == IF Follow!Turned THEN Follow!Latest ELSE follower.slide
                   w == IF "view" \in Follow!PassTells(toldCount') THEN Follow!InFront
                        ELSE follower.view
                   c == IF "count" \in Follow!PassTells(toldCount') THEN toldCount'
                        ELSE follower.count
        <5>1. v \in Follow!Slides \cup {Nothing} /\ w \in {"slides", "notes"} /\ c \in Nat
          BY <1>p, <2>1, <2>2, <4>1
        <5>2. follower' = [follower EXCEPT !.slide = v, !.view = w, !.count = c]
          BY <1>5, <3>2 DEF Follow!Pass
        <5> HIDE DEF v, w, c
        <5> QED BY <5>1, <5>2
      <4> QED BY <1>p, <4>1, <4>2
    <3> QED BY <3>1, <3>2
  <2>4. Slide' /\ Flags' /\ Deck' /\ Places'
    BY <1>1, <1>5, <1>k, <2>1, <2>2 DEF Follow!Pass
  <2> QED BY <1>5, <1>e, <2>2, <2>3, <2>4 DEF Follow!Pass
<1>6. ASSUME Follow!ClearShown
      PROVE  Queues' /\ Flags' /\ Slide' /\ Totals' /\ Deck' /\ Places' /\ Phone'
  <2>1. Phone'
    BY <1>1, <1>6, <1>p DEF Follow!ClearShown
  <2>2. Flags' /\ Slide'
    BY <1>1, <1>6 DEF Follow!ClearShown
  <2> QED BY <1>6, <1>q, <1>e, <1>k, <1>n, <2>1, <2>2 DEF Follow!ClearShown
<1>7. ASSUME NEW d \in Drafts, Follow!Drop(d)
      PROVE  Queues' /\ Flags' /\ Slide' /\ Totals' /\ Deck' /\ Places' /\ Phone'
  <2>1. Flags' /\ Deck' /\ Phone'
    BY <1>1, <1>7, <1>f DEF Follow!Drop
  <2> QED BY <1>7, <1>q, <1>s, <1>n, <2>1 DEF Follow!Drop
<1>8. ASSUME NEW d \in deckDownloads, Follow!Activate(d)
      PROVE  Queues' /\ Flags' /\ Slide' /\ Totals' /\ Deck' /\ Places' /\ Phone'
  <2>1. Flags' /\ Deck'
    BY <1>1, <1>8, <1>f DEF Follow!Activate
  <2>2. Phone'
    <3>1. <<d, 1>> \in Follow!Slides
      BY <1>1, <1>d
    <3> QED BY <1>1, <1>8, <1>p, <3>1 DEF Follow!Activate
  <2> QED BY <1>8, <1>q, <1>s, <1>n, <2>1, <2>2 DEF Follow!Activate
<1>9. ASSUME NEW d \in deckDownloads, Follow!DropFails(d)
      PROVE  Queues' /\ Flags' /\ Slide' /\ Totals' /\ Deck' /\ Places' /\ Phone'
  <2>1. Flags' /\ Deck'
    BY <1>1, <1>9, <1>f DEF Follow!DropFails
  <2> QED BY <1>9, <1>q, <1>s, <1>n, <1>a, <2>1 DEF Follow!DropFails
<1>10. ASSUME NEW n \in Passages \cup {Nothing}, Follow!Scroll(n) \/ Follow!OpenNote(n)
       PROVE  Queues' /\ Flags' /\ Slide' /\ Totals' /\ Deck' /\ Places' /\ Phone'
  <2>1. Flags' /\ Places'
    BY <1>1, <1>10, <1>f DEF Follow!Scroll, Follow!OpenNote
  <2>2. Phone'
    <3>1. \/ follower' = follower
          \/ follower # Nothing /\ follower' = [follower EXCEPT !.summary = n]
          \/ follower # Nothing /\ follower' = [follower EXCEPT !.wiki = n]
      BY <1>10 DEF Follow!Scroll, Follow!OpenNote, Follow!Broadcast
    <3>2. CASE follower # Nothing
      <4>1. follower \in Follow!Phones
        BY <1>1, <3>2
      <4>2. /\ [follower EXCEPT !.summary = n] \in Follow!Phones
            /\ [follower EXCEPT !.wiki = n] \in Follow!Phones
        BY <1>p, <1>10, <4>1
      <4> QED BY <3>1, <4>1, <4>2
    <3> QED BY <1>1, <3>1, <3>2
  <2> QED BY <1>10, <1>q, <1>s, <1>k, <2>1, <2>2 DEF Follow!Scroll, Follow!OpenNote
<1>11. ASSUME NEW t \in Passages \cup {Nothing}, NEW focused \in BOOLEAN,
              Follow!Report(t, focused)
       PROVE  Queues' /\ Flags' /\ Slide' /\ Totals' /\ Deck' /\ Places' /\ Phone'
  <2>1. Flags' /\ Places'
    BY <1>1, <1>11, <1>f DEF Follow!Report
  <2>2. Phone'
    <3>1. CASE follower' = follower
      BY <1>1, <3>1
    <3>2. CASE follower' # follower
      <4>1. follower \in Follow!Phones
        BY <1>1, <1>11, <3>2 DEF Follow!Report
      <4>2. PICK v \in {talkNotes', follower.notes}, w \in {inFront', follower.view} :
              follower' = [follower EXCEPT !.notes = v, !.view = w]
        BY <1>11, <3>2 DEF Follow!Report
      <4>3. v \in Passages \cup {Nothing} /\ w \in {"slides", "notes"}
        BY <1>p, <2>1, <4>1
      <4> QED BY <1>p, <4>1, <4>2, <4>3
    <3> QED BY <3>1, <3>2
  <2> QED BY <1>11, <1>q, <1>s, <1>k, <2>1, <2>2 DEF Follow!Report
<1>12. ASSUME NEW kind \in BOOLEAN, Follow!NewSession(kind)
       PROVE  Queues' /\ Flags' /\ Slide' /\ Totals' /\ Deck' /\ Places' /\ Phone'
  <2>1. Flags' /\ Slide' /\ Deck' /\ Places' /\ Phone'
    BY <1>1, <1>12 DEF Follow!NewSession
  <2> QED BY <1>12, <1>q, <1>e, <2>1 DEF Follow!NewSession
<1>13. ASSUME Follow!Restart
       PROVE  Queues' /\ Flags' /\ Slide' /\ Totals' /\ Deck' /\ Places' /\ Phone'
  <2>1. Follow!Cardinality(Follow!Shown) \in Nat
    BY <1>1, FollowSets, FS_CardinalityType DEF Follow!FollowInv, Follow!TotalsMatchTimeline
  <2>2. Flags' /\ Slide' /\ Deck' /\ Places' /\ Phone'
    BY <1>1, <1>13, <2>1 DEF Follow!Restart
  <2>3. Totals'
    BY <1>1, <1>13 DEF Follow!Restart, Follow!Shown
  <2> QED BY <1>13, <1>e, <2>2, <2>3 DEF Follow!Restart
<1>14. ASSUME Follow!Join
       PROVE  Queues' /\ Flags' /\ Slide' /\ Totals' /\ Deck' /\ Places' /\ Phone'
  <2>1. Follow!Cardinality(Follow!Shown) \in Nat
    BY <1>1, FollowSets, FS_CardinalityType DEF Follow!FollowInv, Follow!TotalsMatchTimeline
  <2>2. Follow!Landing \in Follow!Slides \cup {Nothing}
    BY <1>1, <1>d DEF Follow!Landing
  <2>3. follower' \in Follow!Phones
    BY <1>1, <1>14, <2>1, <2>2 DEF Follow!Join, Follow!Phones
  <2> QED BY <1>14, <1>q, <1>s, <1>k, <1>n, <1>f, <2>3 DEF Follow!Join
<1>15. ASSUME Follow!LinkChanges \/ UNCHANGED Follow!vars
       PROVE  Queues' /\ Flags' /\ Slide' /\ Totals' /\ Deck' /\ Places' /\ Phone'
  <2>1. /\ UNCHANGED <<Follow!queueVars, Follow!slideVars, Follow!deckVars, Follow!noteVars,
                       Follow!audienceVars>>
        /\ followLinked' \in BOOLEAN /\ inTalk' = inTalk
    BY <1>1, <1>15 DEF Follow!LinkChanges, Follow!vars
  <2>2. Flags'
    BY <1>1, <2>1 DEF Follow!slideVars
  <2> QED BY <1>q, <1>s, <1>k, <1>n, <1>a, <2>1, <2>2
<1> HIDE DEF Queues, Flags, Slide, Totals, Deck, Places, Phone
<1> QED BY <1>3, <1>4, <1>5, <1>6, <1>7, <1>8, <1>9, <1>10, <1>11, <1>12, <1>13, <1>14, <1>15
        DEF Follow!Next, Follow!Around, Follow!Presenting, Follow!Writing,
            Follow!Reading

\* The totals stay those of the moments: a pass adds the same to both, and whoever empties one
\* empties the other.
LEMMA FollowTotals ==
  Follow!FollowAssumption /\ Follow!FollowInv /\ [Follow!Next]_(Follow!vars)
  => Follow!TotalsMatchTimeline'
<1> SUFFICES ASSUME Follow!FollowAssumption, Follow!FollowInv, [Follow!Next]_(Follow!vars)
             PROVE  Follow!TotalsMatchTimeline'
  OBVIOUS
<1>1. Follow!TypeOK /\ Follow!TotalsMatchTimeline
  BY DEF Follow!FollowInv
<1>2. ASSUME UNCHANGED <<slidesViewed, slideTimeline>> PROVE Follow!TotalsMatchTimeline'
  BY <1>1, <1>2 DEF Follow!TotalsMatchTimeline, Follow!Shown, Follow!Seconds, Follow!ToSet
<1>3. ASSUME slidesViewed' = <<>>, slideTimeline' = <<>> PROVE Follow!TotalsMatchTimeline'
  <2>1. Follow!ToSet(<<>>) = {} /\ DOMAIN <<>> = {}
    BY FollowSets
  <2> QED BY <1>3, <2>1 DEF Follow!TotalsMatchTimeline, Follow!Shown
<1>4. CASE Follow!Pass
  <2>1. slidesViewed' = Follow!Merged /\ slideTimeline' = slideTimeline \o airtimes
    BY <1>4 DEF Follow!Pass
  <2>2. \A s : Follow!Seconds(slideTimeline, s)' = Follow!Seconds(slideTimeline', s)
    BY DEF Follow!Seconds
  <2> QED BY <1>1, <2>1, <2>2, PassCounts DEF Follow!TotalsMatchTimeline, Follow!Shown
<1>5. CASE Follow!ClearShown \/ \E kind \in BOOLEAN : Follow!NewSession(kind)
  BY <1>3, <1>5 DEF Follow!ClearShown, Follow!NewSession
<1>6. CASE \/ \E s \in Follow!Slides, front \in BOOLEAN : Follow!PowerPoint(s, front)
           \/ Follow!Join \/ Follow!LinkChanges \/ Follow!Restart
           \/ \E s \in Follow!Slides : s[1] \in Catalogued /\ Follow!Airtime(s)
  BY <1>2, <1>6 DEF Follow!PowerPoint, Follow!Join, Follow!LinkChanges, Follow!Restart,
      Follow!Airtime, Follow!slideVars
<1>7. CASE \/ \E d \in Drafts : Follow!Drop(d)
           \/ \E d \in deckDownloads : Follow!Activate(d) \/ Follow!DropFails(d)
  BY <1>2, <1>7 DEF Follow!Drop, Follow!Activate, Follow!DropFails, Follow!slideVars
<1>8. CASE Follow!Writing \/ Follow!Reading \/ UNCHANGED Follow!vars
  BY <1>2, <1>8 DEF Follow!Writing, Follow!Reading, Follow!Scroll,
      Follow!OpenNote, Follow!Report, Follow!vars, Follow!slideVars
<1> QED BY <1>4, <1>5, <1>6, <1>7, <1>8 DEF Follow!Next, Follow!Around, Follow!Presenting

\* Who missed nothing goes on showing what a phone that joins would be given.
LEMMA FollowShows ==
  Follow!FollowAssumption /\ Follow!FollowInv /\ [Follow!Next]_(Follow!vars)
  => Follow!FollowersFollow'
<1> SUFFICES ASSUME Follow!FollowAssumption, Follow!FollowInv, [Follow!Next]_(Follow!vars),
                    follower' # Nothing
             PROVE  Follow!FollowersFollow'
  BY DEF Follow!FollowersFollow
<1> DEFINE SlideFits == "slide" \in unheard \/ follower.slide = Follow!Landing
           TalkFits == inTalk => /\ "view" \in unheard \/ follower.view = inFront
                                 /\ "notes" \in unheard \/ follower.notes = talkNotes
           PlacesFit == /\ "summary" \in unheard \/ follower.summary = scrolledTo
                        /\ "wiki" \in unheard \/ follower.wiki = openNote
<1>1. /\ Follow!TypeOK /\ (follower # Nothing => SlideFits /\ TalkFits /\ PlacesFit)
      /\ follower \in Follow!Phones \cup {Nothing}
  BY DEF Follow!FollowInv, Follow!FollowersFollow, Follow!TypeOK
<1>2. SUFFICES SlideFits' /\ TalkFits' /\ PlacesFit'
  BY DEF Follow!FollowersFollow
<1>a. UNCHANGED Follow!audienceVars => follower # Nothing /\ UNCHANGED <<follower, unheard>>
  BY DEF Follow!audienceVars
<1>l. UNCHANGED Follow!slideVars /\ UNCHANGED Follow!deckVars => Follow!Landing' = Follow!Landing
  BY DEF Follow!slideVars, Follow!deckVars, Follow!Landing
<1>n. UNCHANGED Follow!noteVars => UNCHANGED <<inFront, talkNotes, scrolledTo, openNote>>
  BY DEF Follow!noteVars
<1>3. CASE \/ \E s \in Follow!Slides, front \in BOOLEAN : Follow!PowerPoint(s, front)
           \/ \E s \in Follow!Slides : s[1] \in Catalogued /\ Follow!Airtime(s)
           \/ Follow!LinkChanges \/ UNCHANGED Follow!vars
  <2>1. UNCHANGED <<inTalk, Follow!slideVars, Follow!deckVars, Follow!noteVars,
                    Follow!audienceVars>>
    BY <1>3 DEF Follow!PowerPoint, Follow!Airtime, Follow!LinkChanges, Follow!vars
  <2> QED BY <1>1, <1>a, <1>l, <1>n, <2>1
<1>4. CASE Follow!Pass
  <2>1. follower # Nothing /\ follower \in Follow!Phones
    BY <1>1, <1>4 DEF Follow!Pass
  <2>2. /\ follower'.slide = IF Follow!Turned THEN Follow!Latest ELSE follower.slide
        /\ follower'.view = IF "view" \in Follow!PassTells(toldCount') THEN Follow!InFront
                            ELSE follower.view
        /\ follower'.notes = follower.notes /\ follower'.summary = follower.summary
        /\ follower'.wiki = follower.wiki
    BY <1>4, <2>1 DEF Follow!Pass, Follow!Phones
  <2>3. /\ unheard' = unheard \ Follow!PassTells(toldCount') /\ inTalk' = inTalk
        /\ slideNow' = Follow!Latest /\ inFront' = Follow!InFront
        /\ slidesCleared' = (slidesCleared /\ ~Follow!Turned)
        /\ UNCHANGED <<talkDeck, talkNotes, scrolledTo, openNote>>
    BY <1>4 DEF Follow!Pass, Follow!deckVars
  <2>4. /\ "slide" \in Follow!PassTells(toldCount') <=> Follow!Turned
        /\ "view" \in Follow!PassTells(toldCount') <=> inTalk /\ Follow!InFront # inFront
        /\ "notes" \notin Follow!PassTells(toldCount')
        /\ "summary" \notin Follow!PassTells(toldCount')
        /\ "wiki" \notin Follow!PassTells(toldCount')
    BY DEF Follow!PassTells
  <2>5. SlideFits'
    <3>1. CASE Follow!Turned
      BY <1>1, <2>2, <2>3, <3>1, PassShows DEF Follow!Landing
    <3>2. CASE ~Follow!Turned
      <4>1. Follow!Landing' = Follow!Landing
        BY <1>1, <2>3, <3>2, PassShows DEF Follow!Landing, Follow!TypeOK
      <4> QED BY <1>1, <2>1, <2>2, <2>3, <2>4, <3>2, <4>1
    <3> QED BY <3>1, <3>2
  <2>6. TalkFits' /\ PlacesFit'
    BY <1>1, <2>1, <2>2, <2>3, <2>4
  <2> QED BY <2>5, <2>6
<1>5. CASE Follow!ClearShown
  <2>1. follower # Nothing /\ follower \in Follow!Phones
    BY <1>1, <1>5 DEF Follow!ClearShown
  <2>2. Follow!Landing' = Nothing
    BY <1>5 DEF Follow!ClearShown, Follow!Landing
  <2>3. /\ UNCHANGED <<inTalk, inFront, talkNotes, scrolledTo, openNote>>
        /\ follower'.view = follower.view /\ follower'.notes = follower.notes
        /\ follower'.summary = follower.summary /\ follower'.wiki = follower.wiki
        /\ "slide" \in unheard' \/ follower'.slide = Nothing
        /\ \A f \in {"view", "notes", "summary", "wiki"} : f \in unheard => f \in unheard'
    BY <1>5, <2>1 DEF Follow!ClearShown, Follow!noteVars, Follow!Phones
  <2> QED BY <1>1, <2>1, <2>2, <2>3
<1>6. ASSUME NEW d \in Drafts, Follow!Drop(d) PROVE SlideFits' /\ TalkFits' /\ PlacesFit'
  BY <1>1, <1>6, <1>n DEF Follow!Drop
<1>7. ASSUME NEW d \in deckDownloads, Follow!Activate(d)
      PROVE  SlideFits' /\ TalkFits' /\ PlacesFit'
  <2>1. follower # Nothing /\ follower \in Follow!Phones
    BY <1>1, <1>7 DEF Follow!Activate
  <2>2. d # Nothing /\ <<d, 1>> # Nothing
    BY <1>1 DEF Follow!TypeOK, Follow!FollowAssumption, Follow!Slides
  <2>3. "slide" \in unheard' \/ follower'.slide = Follow!Landing'
    BY <1>7, <2>1, <2>2 DEF Follow!Activate, Follow!Landing, Follow!slideVars, Follow!Phones
  <2>4. /\ UNCHANGED <<inTalk, inFront, talkNotes, scrolledTo, openNote>>
        /\ follower'.view = follower.view /\ follower'.notes = follower.notes
        /\ follower'.summary = follower.summary /\ follower'.wiki = follower.wiki
        /\ \A f \in {"view", "notes", "summary", "wiki"} : f \in unheard => f \in unheard'
    BY <1>7, <2>1 DEF Follow!Activate, Follow!noteVars, Follow!Phones
  <2> QED BY <1>1, <2>1, <2>3, <2>4
<1>8. ASSUME NEW d \in deckDownloads, Follow!DropFails(d)
      PROVE  SlideFits' /\ TalkFits' /\ PlacesFit'
  <2>1. UNCHANGED <<inTalk, talkDeck, Follow!slideVars, Follow!noteVars, Follow!audienceVars>>
    BY <1>8 DEF Follow!DropFails
  <2>2. Follow!Landing' = Follow!Landing
    BY <2>1 DEF Follow!slideVars, Follow!Landing
  <2> QED BY <1>1, <1>a, <1>n, <2>1, <2>2
<1>9. ASSUME NEW n, Follow!Scroll(n) \/ Follow!OpenNote(n)
      PROVE  SlideFits' /\ TalkFits' /\ PlacesFit'
  <2>1. follower # Nothing /\ follower \in Follow!Phones
    BY <1>1, <1>9 DEF Follow!Scroll, Follow!OpenNote, Follow!Broadcast
  <2>2. Follow!Landing' = Follow!Landing /\ UNCHANGED <<inTalk, inFront, talkNotes>>
    BY <1>9, <1>l DEF Follow!Scroll, Follow!OpenNote
  <2>3. ASSUME Follow!Scroll(n) PROVE SlideFits' /\ TalkFits' /\ PlacesFit'
    BY <1>1, <2>1, <2>2, <2>3 DEF Follow!Scroll, Follow!Broadcast, Follow!Phones
  <2>4. ASSUME Follow!OpenNote(n) PROVE SlideFits' /\ TalkFits' /\ PlacesFit'
    BY <1>1, <2>1, <2>2, <2>4 DEF Follow!OpenNote, Follow!Broadcast, Follow!Phones
  <2> QED BY <1>9, <2>3, <2>4
<1>10. ASSUME NEW t, NEW focused, Follow!Report(t, focused)
       PROVE  SlideFits' /\ TalkFits' /\ PlacesFit'
  <2>1. follower # Nothing /\ follower \in Follow!Phones
    BY <1>1, <1>10 DEF Follow!Report
  <2>2. /\ Follow!Landing' = Follow!Landing /\ UNCHANGED <<inTalk, scrolledTo, openNote>>
        /\ follower'.slide = follower.slide /\ follower'.summary = follower.summary
        /\ follower'.wiki = follower.wiki
        /\ \A f \in {"slide", "summary", "wiki"} : f \in unheard => f \in unheard'
    BY <1>10, <1>l, <2>1 DEF Follow!Report, Follow!Phones
  <2>3. TalkFits'
    <3>1. CASE ~inTalk
      BY <2>2, <3>1
    <3>2. CASE inTalk /\ followLinked
      <4>1. /\ follower'.notes = IF talkNotes' # talkNotes THEN talkNotes' ELSE follower.notes
            /\ follower'.view = IF inFront' # inFront THEN inFront' ELSE follower.view
        BY <1>10, <2>1, <3>2 DEF Follow!Report, Follow!Phones
      <4>2. /\ "notes" \in unheard' <=> "notes" \in unheard /\ talkNotes' = talkNotes
            /\ "view" \in unheard' <=> "view" \in unheard /\ inFront' = inFront
        BY <1>10, <2>1, <3>2 DEF Follow!Report
      <4> QED BY <1>1, <2>1, <3>2, <4>1, <4>2
    <3>3. CASE inTalk /\ ~followLinked
      <4>1. /\ follower' = follower
            /\ "notes" \in unheard' <=> "notes" \in unheard \/ talkNotes' # talkNotes
            /\ "view" \in unheard' <=> "view" \in unheard \/ inFront' # inFront
        BY <1>10, <3>3 DEF Follow!Report
      <4> QED BY <1>1, <2>1, <3>3, <4>1
    <3> QED BY <3>1, <3>2, <3>3
  <2> QED BY <1>1, <2>1, <2>2, <2>3
<1>11. CASE \E kind \in BOOLEAN : Follow!NewSession(kind)
  BY <1>11 DEF Follow!NewSession
<1>12. CASE Follow!Restart
  BY <1>12 DEF Follow!Restart
<1>13. CASE Follow!Join
  <2>1. Follow!Landing' = Follow!Landing
    BY <1>13, <1>l DEF Follow!Join
  <2> QED BY <1>13, <1>n, <2>1 DEF Follow!Join
<1> HIDE DEF SlideFits, TalkFits, PlacesFit
<1> QED BY <1>3, <1>4, <1>5, <1>6, <1>7, <1>8, <1>9, <1>10, <1>11, <1>12, <1>13
        DEF Follow!Next, Follow!Around, Follow!Presenting, Follow!Writing,
            Follow!Reading

LEMMA FollowSteps ==
  Follow!FollowAssumption /\ Follow!FollowInv /\ [Follow!Next]_(Follow!vars)
  => Follow!FollowInv'
BY FollowTypes, FollowTotals, FollowShows DEF Follow!FollowInv

----------------------------------------------------------------------------
(* All of them                                                              *)

\* The link to the add-on moves as it does alone, or rests.
LEMMA LinkPart == [RecordsNext]_recordVars => [Link!Next]_(Link!vars)
<1>1. UNCHANGED linkVars => UNCHANGED Link!vars
  BY DEF linkVars, Link!vars
<1>2. RecordsNext => Link!Next \/ UNCHANGED linkVars
  BY DEF RecordsNext
<1>3. UNCHANGED recordVars => UNCHANGED linkVars
  BY DEF recordVars
<1> QED BY <1>1, <1>2, <1>3

\* The map moves as it does alone, or rests.
LEMMA WherePart == [RecordsNext]_recordVars => [Where!Next]_(Where!vars)
<1>1. UNCHANGED whereVars => UNCHANGED Where!vars
  BY DEF whereVars, Where!vars, Where!store
<1>2. RecordsNext => Where!Next \/ UNCHANGED whereVars
  BY DEF RecordsNext
<1>3. UNCHANGED recordVars => UNCHANGED whereVars
  BY DEF recordVars
<1> QED BY <1>1, <1>2, <1>3

\* The watch of the folder moves as it does alone, or rests.
LEMMA WatchPart == [RecordsNext]_recordVars => [Watch!Next]_(Watch!vars)
<1>1. UNCHANGED notesVars => UNCHANGED Watch!vars
  BY DEF notesVars, Watch!vars, Watch!diskVars, Watch!probeVars
<1>2. RecordsNext => Watch!Next \/ UNCHANGED notesVars
  BY DEF RecordsNext
<1>3. UNCHANGED recordVars => UNCHANGED notesVars
  BY DEF recordVars
<1> QED BY <1>1, <1>2, <1>3

\* The sync of the static files moves as it does alone, or rests.
LEMMA SyncPart == [RecordsNext]_recordVars => [Sync!Next]_(Sync!vars)
<1>1. UNCHANGED syncVars => UNCHANGED Sync!vars
  BY DEF syncVars, Sync!vars
<1>2. RecordsNext => Sync!Next \/ UNCHANGED syncVars
  BY DEF RecordsNext
<1>3. UNCHANGED recordVars => UNCHANGED syncVars
  BY DEF recordVars
<1> QED BY <1>1, <1>2, <1>3

\* The session's file moves as it does alone, or rests.
LEMMA SavesPart == [RecordsNext]_recordVars => [Saves!Next]_(Saves!vars)
<1>1. UNCHANGED savesVars => UNCHANGED Saves!vars
  BY DEF savesVars, Saves!vars
<1>2. RecordsNext => Saves!Next \/ UNCHANGED savesVars
  BY DEF RecordsNext
<1>3. UNCHANGED recordVars => UNCHANGED savesVars
  BY DEF recordVars
<1> QED BY <1>1, <1>2, <1>3

\* The uploads move as they do alone, or rest.
LEMMA UploadsPart == [RecordsNext]_recordVars => [Uploads!Next]_(Uploads!vars)
<1>1. UNCHANGED uploadVars => UNCHANGED Uploads!vars
  BY DEF uploadVars, Uploads!vars, Uploads!railwayVars, Uploads!daemonVars
<1>2. RecordsNext => Uploads!Next \/ UNCHANGED uploadVars
  BY DEF RecordsNext
<1>3. UNCHANGED recordVars => UNCHANGED uploadVars
  BY DEF recordVars
<1> QED BY <1>1, <1>2, <1>3

\* The migration moves as it does alone, or rests.
LEMMA MigrationPart == [RecordsNext]_recordVars => [Migration!Next]_(Migration!vars)
<1>1. UNCHANGED migrationVars => UNCHANGED Migration!vars
  BY DEF migrationVars, Migration!vars
<1>2. RecordsNext => Migration!Next \/ UNCHANGED migrationVars
  BY DEF RecordsNext
<1>3. UNCHANGED recordVars => UNCHANGED migrationVars
  BY DEF recordVars
<1> QED BY <1>1, <1>2, <1>3

\* The marks of the summary move as they do alone, or rest.
LEMMA HighlightPart == [RecordsNext]_recordVars => [Highlight!Next]_(Highlight!vars)
<1>1. UNCHANGED highlightVars => UNCHANGED Highlight!vars
  BY DEF highlightVars, Highlight!vars
<1>2. RecordsNext => Highlight!Next \/ UNCHANGED highlightVars
  BY DEF RecordsNext
<1>3. UNCHANGED recordVars => UNCHANGED highlightVars
  BY DEF recordVars
<1> QED BY <1>1, <1>2, <1>3

\* What people do with their names are steps of the roster.
LEMMA PeoplePart == [RecordsNext]_recordVars => [People!Next]_(People!vars)
<1>1. UNCHANGED nameVars => UNCHANGED People!vars
  BY DEF nameVars, People!vars, People!rosterVars, People!viewVars
<1>2. RecordsNext => People!Next \/ UNCHANGED nameVars
  BY DEF RecordsNext, People!Next
<1>3. UNCHANGED recordVars => UNCHANGED nameVars
  BY DEF recordVars
<1> QED BY <1>1, <1>2, <1>3

\* The indexer moves as it does alone, or rests.
LEMMA IndexPart == [RecordsNext]_recordVars => [Index!Next]_(Index!vars)
<1>1. UNCHANGED indexVars => UNCHANGED Index!vars
  BY DEF indexVars, Index!vars
<1>2. RecordsNext => Index!Next \/ UNCHANGED indexVars
  BY DEF RecordsNext
<1>3. UNCHANGED recordVars => UNCHANGED indexVars
  BY DEF recordVars
<1> QED BY <1>1, <1>2, <1>3

\* What the audience follows moves as it does alone, or rests.
LEMMA FollowPart == [RecordsNext]_recordVars => [Follow!Next]_(Follow!vars)
<1>1. UNCHANGED followVars => UNCHANGED Follow!vars
  BY DEF followVars, Follow!vars, Follow!queueVars, Follow!slideVars, Follow!deckVars,
         Follow!noteVars, Follow!audienceVars
<1>2. RecordsNext => Follow!Next \/ UNCHANGED followVars
  BY DEF RecordsNext, Follow!Next
<1>3. UNCHANGED recordVars => UNCHANGED followVars
  BY DEF recordVars
<1> QED BY <1>1, <1>2, <1>3

\* All of them start in their invariants.
LEMMA RecordsStart == RecordsInit => RecordsInv
<1> SUFFICES ASSUME RecordsInit PROVE RecordsInv
  OBVIOUS
<1>1. Link!LinkInv
  BY LinkStarts, RecordsAssumption DEF RecordsInit
<1>2. Where!WhereInv
  BY WhereStarts, RecordsAssumption DEF RecordsInit
<1>3. Watch!NotesInv
  BY NotesStart, RecordsAssumption DEF RecordsInit
<1>4. Sync!SyncInv
  BY SyncStarts, RecordsAssumption DEF RecordsInit
<1>5. Saves!FileInv
  BY FileStarts, RecordsAssumption DEF RecordsInit
<1>6. Uploads!UploadsInv
  BY UploadsStart, RecordsAssumption DEF RecordsInit
<1>7. Migration!MigrationInv
  BY MigrationStarts, RecordsAssumption DEF RecordsInit
<1>8. Highlight!HighlightInv
  BY HighlightStarts, RecordsAssumption DEF RecordsInit
<1>9. People!IdentityInv
  BY IdentityStarts, RecordsAssumption DEF RecordsInit
<1>10. Index!IndexerInv
  BY IndexStarts, RecordsAssumption DEF RecordsInit
<1>11. Follow!FollowInv
  BY FollowStarts, RecordsAssumption DEF RecordsInit
<1> QED BY <1>1, <1>2, <1>3, <1>4, <1>5, <1>6, <1>7, <1>8, <1>9, <1>10, <1>11 DEF RecordsInv

\* Every step of one of them preserves the invariants of all.
LEMMA RecordsStep == RecordsInv /\ [RecordsNext]_recordVars => RecordsInv'
<1> SUFFICES ASSUME RecordsInv, [RecordsNext]_recordVars PROVE RecordsInv'
  OBVIOUS
<1>1. Link!LinkInv'
  BY LinkPart, LinkSteps, RecordsAssumption DEF RecordsInv
<1>2. Where!WhereInv'
  BY WherePart, WhereSteps, RecordsAssumption DEF RecordsInv
<1>3. Watch!NotesInv'
  BY WatchPart, NotesSteps, RecordsAssumption DEF RecordsInv
<1>4. Sync!SyncInv'
  BY SyncPart, SyncSteps, RecordsAssumption DEF RecordsInv
<1>5. Saves!FileInv'
  BY SavesPart, FileSteps, RecordsAssumption DEF RecordsInv
<1>6. Uploads!UploadsInv'
  BY UploadsPart, UploadsStep, RecordsAssumption DEF RecordsInv
<1>7. Migration!MigrationInv'
  BY MigrationPart, MigrationSteps, RecordsAssumption DEF RecordsInv
<1>8. Highlight!HighlightInv'
  BY HighlightPart, HighlightSteps, RecordsAssumption DEF RecordsInv
<1>9. People!IdentityInv'
  BY PeoplePart, IdentitySteps, RecordsAssumption DEF RecordsInv
<1>10. Index!IndexerInv'
  BY IndexPart, IndexStep, RecordsAssumption DEF RecordsInv
<1>11. Follow!FollowInv'
  BY FollowPart, FollowSteps, RecordsAssumption DEF RecordsInv
<1> QED BY <1>1, <1>2, <1>3, <1>4, <1>5, <1>6, <1>7, <1>8, <1>9, <1>10, <1>11 DEF RecordsInv

\* The services that keep a record keep their invariants: for any sessions, folders, people,
\* names, places, files, words and values, and any numbers of them.  Each says what holds until
\* the meeting or the failure that breaks it, and what holds after it.
THEOREM RecordsInvariant == RecordsSpec => []RecordsInv
<1>1. RecordsInit => RecordsInv
  BY RecordsStart
<1>2. RecordsInv /\ [RecordsNext]_recordVars => RecordsInv'
  BY RecordsStep
<1> QED BY <1>1, <1>2, PTL DEF RecordsSpec

\* The variables of all of them have the types the code gives them.
THEOREM RecordsTyped == RecordsSpec => []RecordsTypeOK
<1>1. RecordsInv => RecordsTypeOK
  BY LinkTells, WhereTells, NotesTell, SyncTells, FileTells, UploadsTell, MigrationTells,
     HighlightTells, PhonesFollow, IndexTells, RecordsAssumption
     DEF RecordsInv, RecordsTypeOK, Follow!FollowInv
<1> QED BY <1>1, RecordsInvariant, PTL

\* Without a condition: toasts are news; only who claimed the trainer's name has it; no sync
\* touches what is excluded; totals are those of the moments; once the last change of a name is
\* published the phones have the names.  And these, each as long as what it names did not
\* happen: once all is heard the add-on knows the session there is (a callback met a change, an
\* end was missed, the folder was renamed); the country shown is that of the place (look-ups
\* overlapped); pages show the folder once a probe has seen it as it is (it was written during
\* the probe); a finished sync leaves Railway with the working copy (a request failed, or
\* either side changed meanwhile), and pages show what is served (a reload was not sent or
\* missed, or Railway carried out a request that was given up); the index has the chunks of a
\* file (it changed while the daemon stopped or while it was read, nothing of it could be
\* indexed, or the collection or the embedding failed it); and a phone shows what one that
\* joins is given (it missed a broadcast).
THEOREM ViewsAlwaysAgree == RecordsSpec => []ViewsAgree
<1>1. RecordsInv => ViewsAgree
  BY LinkTells, WhereTells, NotesTell, SyncTells, PhonesFollow, IndexTells, RecordsAssumption
     DEF RecordsInv, ViewsAgree, Follow!FollowInv
<1> QED BY <1>1, RecordsInvariant, PTL

\* As long as saves do not overlap: the session's file is whole at every moment and has what
\* each writer saved of its own.  An upload that was taken is in the folder, whole, or Railway
\* has it, unless it went with a redeploy; but for one that was cut off without an exception, and
\* as long as no two threads take one path and no redeploy numbers anew under a thread.  A
\* migrated file loads as before, wherever the script stopped, as long as no save came during a
\* run.  No mark changes a word of the summary, as long as no edit comes after the second reading.
THEOREM FilesAreAlwaysWhole == RecordsSpec => []FilesAreWhole
<1>1. RecordsInv => FilesAreWhole
  BY FileTells, UploadsTell, MigrationTells, HighlightTells, RecordsAssumption
     DEF RecordsInv, FilesAreWhole
<1> QED BY <1>1, RecordsInvariant, PTL

\* The roster alone, with what the composition explores for one participant only: names flushed
\* to the session's file, the roster persisted there and loaded again at a restart.  The phones
\* have the names once every handler has published, and nobody carries the trainer's name who
\* has not claimed it.
THEOREM RosterAlone ==
  People!Spec => [](People!TypeOK /\ People!PhonesKnowTheNames /\ People!NobodyElseIsTrainer)
<1> DEFINE Inv == People!IdentityInv
<1>1. People!Init => Inv
  BY IdentityStarts, RecordsAssumption
<1>2. Inv /\ [People!Next]_(People!vars) => Inv'
  BY IdentitySteps, RecordsAssumption
<1>3. Inv => People!TypeOK /\ People!PhonesKnowTheNames /\ People!NobodyElseIsTrainer
  BY PhonesFollow, RecordsAssumption
<1> HIDE DEF Inv
<1> QED BY <1>1, <1>2, <1>3, PTL DEF People!Spec

\* What the audience follows alone, with everything at once, where the composition explores
\* presenting and reading apart: a phone that missed no broadcast shows what one that joins now
\* is given, and the seconds of a slide are those of its moments.
THEOREM FollowAlone ==
  Follow!Spec => [](Follow!TypeOK /\ Follow!FollowersFollow /\ Follow!TotalsMatchTimeline)
<1> DEFINE Inv == Follow!FollowInv
<1>1. Follow!Init => Inv
  BY FollowStarts, RecordsAssumption
<1>2. Inv /\ [Follow!Next]_(Follow!vars) => Inv'
  BY FollowSteps, RecordsAssumption
<1>3. Inv => Follow!TypeOK /\ Follow!FollowersFollow /\ Follow!TotalsMatchTimeline
  BY DEF Follow!FollowInv
<1> HIDE DEF Inv
<1> QED BY <1>1, <1>2, <1>3, PTL DEF Follow!Spec
=============================================================================
