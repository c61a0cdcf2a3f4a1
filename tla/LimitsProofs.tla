---------------------------- MODULE LimitsProofs ----------------------------
(***************************************************************************)
(* That the services with limits keep within them.  Each has an inductive   *)
(* invariant of its own, stated at the end of its module; it is shown to    *)
(* hold at the start and to be preserved by every action, and what Limits   *)
(* composes then has the conjunction.                                       *)
(***************************************************************************)
EXTENDS Limits, Sequences, TLAPS, FiniteSetTheorems, WellFoundedInduction

----------------------------------------------------------------------------
(* The throttle of the pushes                                               *)

\* Nothing is booked, to begin or asked for at the start.
LEMMA ThrottleStarts == Throttle!ThrottleAssumption /\ Throttle!Init => Throttle!ThrottleInv
<1> SUFFICES ASSUME Throttle!ThrottleAssumption, Throttle!Init PROVE Throttle!ThrottleInv
  OBVIOUS
<1> USE DEF Throttle!ThrottleAssumption, Throttle!Init
<1>1. up \in BOOLEAN /\ dirty \in BOOLEAN /\ Throttle!ChangeIsOnItsWay
  BY Zenon DEF Throttle!ChangeIsOnItsWay
<1>2. Throttle!ClockTypeOK /\ Throttle!Paced /\ Throttle!Decided /\ Throttle!AtMostOnePush
  BY DEF Throttle!ClockTypeOK, Throttle!Paced, Throttle!Decided, Throttle!AtMostOnePush
<1> QED BY <1>1, <1>2 DEF Throttle!ThrottleInv

\* Every step of a throttle keeps its pace.
LEMMA ThrottleSteps ==
  Throttle!ThrottleAssumption /\ Throttle!ThrottleInv /\ [Throttle!Next]_(Throttle!vars)
    => Throttle!ThrottleInv'
<1> SUFFICES ASSUME Throttle!ThrottleAssumption, Throttle!ThrottleInv,
                    [Throttle!Next]_(Throttle!vars)
             PROVE  Throttle!ThrottleInv'
  OBVIOUS
<1>0. up \in BOOLEAN /\ dirty \in BOOLEAN /\ Throttle!ChangeIsOnItsWay
  BY DEF Throttle!ThrottleInv
<1>1. up' \in BOOLEAN /\ dirty' \in BOOLEAN
  BY <1>0, Zenon DEF Throttle!Next, Throttle!vars, Throttle!HandlerRequests,
      Throttle!ThreadRequests, Throttle!Arrive, Throttle!Schedule, Throttle!OnTimer,
      Throttle!Run, Throttle!Tick, Throttle!LoopStarts, Throttle!Claim, Throttle!Pushed
<1> USE DEF Throttle!ThrottleAssumption, Throttle!ClockTypeOK, Throttle!Paced, Throttle!Decided,
    Throttle!AtMostOnePush
<1>i. Throttle!ClockTypeOK /\ Throttle!Paced /\ Throttle!Decided /\ Throttle!AtMostOnePush
  BY DEF Throttle!ThrottleInv
<1>2. CASE Throttle!HandlerRequests
  <2>1. /\ UNCHANGED <<kind, posted, spawned>>
        /\ \/ timer >= 0 /\ UNCHANGED <<since, timer, quiet>>
           \/ timer < 0 /\ since = Interval /\ since' = 0 /\ quiet' = 0 /\ timer' = timer
           \/ timer < 0 /\ since < Interval /\ timer' = Interval - since
                /\ UNCHANGED <<since, quiet>>
    BY <1>2 DEF Throttle!HandlerRequests, Throttle!Claim, Throttle!Pushed
  <2>2. Throttle!ClockTypeOK' /\ Throttle!Paced' /\ Throttle!Decided' /\ Throttle!AtMostOnePush'
    BY <1>i, <2>1
  <2>3. Throttle!ChangeIsOnItsWay'
    BY <1>i, <1>2, <2>1 DEF Throttle!HandlerRequests, Throttle!Claim, Throttle!Pushed,
        Throttle!ChangeIsOnItsWay
  <2> QED BY <1>1, <2>2, <2>3 DEF Throttle!ThrottleInv
<1>3. CASE Throttle!ThreadRequests
  <2>u. UNCHANGED <<kind, up, since, timer, spawned, quiet>>
    BY <1>3, Zenon DEF Throttle!ThreadRequests
  <2>0. UNCHANGED <<kind, since, timer, spawned, quiet>>
    BY <2>u
  <2>a. posted' = posted \/ (posted < MaxPending /\ posted' = posted + 1)
    BY <1>3, Zenon DEF Throttle!ThreadRequests
  <2>1. posted' \in 0 .. MaxPending
    BY <1>i, <2>a
  <2>2. Throttle!ClockTypeOK' /\ Throttle!Paced' /\ Throttle!Decided' /\ Throttle!AtMostOnePush'
    BY <1>i, <2>0, <2>1
  <2>3. posted' = posted + 1 \/ ~dirty'
    BY <1>3, Zenon DEF Throttle!ThreadRequests
  <2>4. Throttle!ChangeIsOnItsWay'
    BY <1>i, <2>3 DEF Throttle!ChangeIsOnItsWay
  <2> QED BY <1>1, <2>2, <2>4 DEF Throttle!ThrottleInv
<1>4. CASE Throttle!Arrive
  <2>1. Throttle!ClockTypeOK' /\ Throttle!Paced' /\ Throttle!Decided' /\ Throttle!AtMostOnePush'
    BY <1>i, <1>4 DEF Throttle!Arrive, Throttle!Claim
  <2>2. Throttle!ChangeIsOnItsWay'
    BY <1>i, <1>4 DEF Throttle!Arrive, Throttle!Claim, Throttle!ChangeIsOnItsWay
  <2> QED BY <1>1, <2>1, <2>2 DEF Throttle!ThrottleInv
<1>5. CASE Throttle!Schedule
  <2>1. Throttle!ClockTypeOK' /\ Throttle!Paced' /\ Throttle!Decided' /\ Throttle!AtMostOnePush'
    BY <1>i, <1>5 DEF Throttle!Schedule
  <2>2. Throttle!ChangeIsOnItsWay'
    BY <1>i, <1>5 DEF Throttle!Schedule, Throttle!ChangeIsOnItsWay
  <2> QED BY <1>1, <2>1, <2>2 DEF Throttle!ThrottleInv
<1>6. CASE Throttle!OnTimer
  <2>1. Throttle!ClockTypeOK' /\ Throttle!Paced' /\ Throttle!Decided' /\ Throttle!AtMostOnePush'
    BY <1>i, <1>6 DEF Throttle!OnTimer
  <2>2. Throttle!ChangeIsOnItsWay'
    BY <1>i, <1>6 DEF Throttle!OnTimer, Throttle!ChangeIsOnItsWay
  <2> QED BY <1>1, <2>1, <2>2 DEF Throttle!ThrottleInv
<1>7. CASE Throttle!Run
  <2>1. Throttle!ClockTypeOK' /\ Throttle!Paced' /\ Throttle!Decided' /\ Throttle!AtMostOnePush'
    BY <1>i, <1>7 DEF Throttle!Run, Throttle!Pushed
  <2>2. Throttle!ChangeIsOnItsWay'
    BY <1>7, Zenon DEF Throttle!Run, Throttle!Pushed, Throttle!ChangeIsOnItsWay
  <2> QED BY <1>1, <2>1, <2>2 DEF Throttle!ThrottleInv
<1>8. CASE Throttle!Tick
  <2>1. Throttle!ClockTypeOK' /\ Throttle!Paced' /\ Throttle!Decided' /\ Throttle!AtMostOnePush'
    BY <1>i, <1>8 DEF Throttle!Tick
  <2>2. Throttle!ChangeIsOnItsWay'
    BY <1>0, <1>i, <1>8 DEF Throttle!Tick, Throttle!ChangeIsOnItsWay
  <2> QED BY <1>1, <2>1, <2>2 DEF Throttle!ThrottleInv
<1>9. CASE Throttle!LoopStarts \/ UNCHANGED Throttle!vars
  <2>1. UNCHANGED <<kind, since, timer, posted, spawned, dirty, quiet>>
    BY <1>9 DEF Throttle!LoopStarts, Throttle!vars
  <2>2. Throttle!ClockTypeOK' /\ Throttle!Paced' /\ Throttle!Decided'
          /\ Throttle!AtMostOnePush' /\ Throttle!ChangeIsOnItsWay'
    BY <1>0, <1>i, <2>1 DEF Throttle!ChangeIsOnItsWay
  <2> QED BY <1>1, <2>2 DEF Throttle!ThrottleInv
<1> QED BY <1>2, <1>3, <1>4, <1>5, <1>6, <1>7, <1>8, <1>9 DEF Throttle!Next

----------------------------------------------------------------------------
(* The lever                                                                *)

\* The longest cooldown is one, and no other is longer.
LEMMA LongestIsOne ==
  ASSUME Lever!LeverAssumption
  PROVE  Lever!Longest \in Nat /\ Lever!Longest \in Cooldowns /\ \A c \in Cooldowns : c \in Nat
           /\ c <= Lever!Longest
  BY DEF Lever!LeverAssumption, Lever!Longest

\* No press was heard at the start.
LEMMA LeverStarts == Lever!LeverAssumption /\ Lever!Init => Lever!LeverInv
<1> SUFFICES ASSUME Lever!LeverAssumption, Lever!Init PROVE Lever!LeverInv
  OBVIOUS
<1>1. Lever!Longest \in Nat /\ Lever!Longest \in Cooldowns
  BY LongestIsOne
<1>2. /\ cooldown \in Cooldowns /\ fired \in 0 .. Lever!Longest \cup {None}
      /\ heard \in 0 .. Lever!Never
      /\ presses \subseteq [who : Pids \cup {Host}, tile : Tiles, read : BOOLEAN]
      /\ tile \in Tiles
  BY <1>1 DEF Lever!Init, Lever!Never
<1>3. Lever!ClockIsTheRooms /\ Lever!RoomIsSpared /\ overlapped \in BOOLEAN
  BY DEF Lever!Init, Lever!ClockIsTheRooms, Lever!RoomIsSpared
<1> QED BY <1>2, <1>3 DEF Lever!LeverInv

\* Every step of the lever spares the room.
LEMMA LeverSteps ==
  Lever!LeverAssumption /\ Lever!LeverInv /\ [Lever!Next]_(Lever!vars) => Lever!LeverInv'
<1> SUFFICES ASSUME Lever!LeverAssumption, Lever!LeverInv, [Lever!Next]_(Lever!vars)
             PROVE  Lever!LeverInv'
  OBVIOUS
<1> DEFINE Press == [who : Pids \cup {Host}, tile : Tiles, read : BOOLEAN]
<1>i. /\ cooldown \in Cooldowns /\ fired \in 0 .. Lever!Longest \cup {None}
      /\ heard \in 0 .. Lever!Never
      /\ presses \subseteq Press /\ tile \in Tiles /\ overlapped \in BOOLEAN
      /\ Lever!ClockIsTheRooms /\ Lever!RoomIsSpared
  BY DEF Lever!LeverInv
<1>c. /\ Lever!Longest \in Nat /\ Lever!Longest \in Cooldowns /\ Lever!Never = Lever!Longest
      /\ \A c \in Cooldowns : c \in Nat /\ c <= Lever!Longest
      /\ Host \notin Pids /\ None \notin Nat
  BY LongestIsOne DEF Lever!Never, Lever!LeverAssumption
<1>x. overlapped' \in BOOLEAN
  BY <1>i, Zenon DEF Lever!Next, Lever!Pressing, Lever!Switching, Lever!Fire, Lever!Test,
      Lever!CatalogKnows, Lever!CatalogDoesNot, Lever!Sounds, Lever!Fails, Lever!Toggle,
      Lever!Grant, Lever!Revoke, Lever!SetTile, Lever!SetCooldown, Lever!Restart,
      Lever!NewSession, Lever!Tick, Lever!vars
<1>1. ASSUME NEW p \in Pids, Lever!Fire(p) PROVE Lever!LeverInv'
  <2>1. /\ \A q \in presses : q.who # p
        /\ presses' = presses \cup {[who |-> p, tile |-> tile, read |-> FALSE]}
        /\ UNCHANGED <<enabled, granted, tile, cooldown, fired, heard>>
    BY <1>1 DEF Lever!Fire, Lever!switchVars, Lever!outcomeVars
  <2>2. ~overlapped' => ~overlapped /\ ~\E q \in presses : q.who # Host
    BY <1>1, Zenon DEF Lever!Fire
  <2>n. [who |-> p, tile |-> tile, read |-> FALSE] \in Press
    BY <1>i
  <2>3. presses' \subseteq Press
    BY <1>i, <2>1, <2>n
  <2>4. fired = None \/ fired >= cooldown
    BY <1>1, <1>c, <1>i DEF Lever!Fire, Lever!Cooling
  <2>5. ~overlapped => heard >= cooldown
    BY <1>i, <1>c, <2>4 DEF Lever!ClockIsTheRooms
  <2>6. Lever!ClockIsTheRooms'
    BY <1>i, <2>1, <2>2 DEF Lever!ClockIsTheRooms
  <2>7. Lever!RoomIsSpared'
    BY <2>1, <2>2, <2>5 DEF Lever!RoomIsSpared
  <2> QED BY <1>i, <1>x, <2>1, <2>3, <2>6, <2>7 DEF Lever!LeverInv
<1>2. CASE Lever!Test
  <2>1. /\ presses' = presses \cup {[who |-> Host, tile |-> tile, read |-> FALSE]}
        /\ UNCHANGED <<tile, cooldown, fired, heard, overlapped>>
    BY <1>2 DEF Lever!Test, Lever!switchVars, Lever!outcomeVars
  <2>2. /\ [who |-> Host, tile |-> tile, read |-> FALSE] \in Press
        /\ [who |-> Host, tile |-> tile, read |-> FALSE].who = Host
    BY <1>i
  <2>3. presses' \subseteq Press /\ \A q \in presses' : q.who # Host => q \in presses
    BY <1>i, <2>1, <2>2
  <2>4. Lever!ClockIsTheRooms' /\ Lever!RoomIsSpared'
    BY <1>i, <2>1, <2>3 DEF Lever!ClockIsTheRooms, Lever!RoomIsSpared, Lever!Never,
        Lever!Longest
  <2> QED BY <1>i, <2>1, <2>3, <2>4 DEF Lever!LeverInv, Lever!Never, Lever!Longest
<1>3. ASSUME NEW q \in presses, Lever!CatalogKnows(q) PROVE Lever!LeverInv'
  <2>1. /\ presses' = (presses \ {q}) \cup {[q EXCEPT !.read = TRUE]}
        /\ UNCHANGED <<tile, cooldown, fired, heard, overlapped>>
    BY <1>3 DEF Lever!CatalogKnows, Lever!switchVars, Lever!outcomeVars
  <2>2. [q EXCEPT !.read = TRUE] \in Press /\ [q EXCEPT !.read = TRUE].who = q.who
    BY <1>i
  <2> QED BY <1>i, <2>1, <2>2 DEF Lever!LeverInv, Lever!ClockIsTheRooms, Lever!RoomIsSpared,
      Lever!Never, Lever!Longest
<1>4. ASSUME NEW q \in presses, Lever!CatalogDoesNot(q) \/ Lever!Fails(q) PROVE Lever!LeverInv'
  <2>1. presses' = presses \ {q} /\ UNCHANGED <<tile, cooldown, fired, heard, overlapped>>
    BY <1>4 DEF Lever!CatalogDoesNot, Lever!Fails, Lever!switchVars, Lever!outcomeVars
  <2> QED BY <1>i, <2>1 DEF Lever!LeverInv, Lever!ClockIsTheRooms, Lever!RoomIsSpared,
      Lever!Never, Lever!Longest
<1>5. ASSUME NEW q \in presses, Lever!Sounds(q) PROVE Lever!LeverInv'
  <2>1. presses' = presses \ {q} /\ UNCHANGED <<tile, cooldown, overlapped>>
    BY <1>5 DEF Lever!Sounds, Lever!switchVars
  <2>2. CASE q.who = Host
    <3>1. UNCHANGED <<fired, heard>>
      BY <1>5, <2>2 DEF Lever!Sounds
    <3> QED BY <1>i, <2>1, <3>1 DEF Lever!LeverInv, Lever!ClockIsTheRooms, Lever!RoomIsSpared,
        Lever!Never, Lever!Longest
  <2>3. CASE q.who # Host
    <3>1. fired' = 0 /\ heard' = 0
      BY <1>5, <2>3 DEF Lever!Sounds
    <3>2. ~overlapped => \A r \in presses' : r.who = Host
      BY <1>i, <2>1, <2>3 DEF Lever!ClockIsTheRooms
    <3>3. ~overlapped => \A r \in presses' : r.who = Host
      BY <1>i, <2>1, <2>3, <3>2 DEF Lever!ClockIsTheRooms
    <3>4. Lever!ClockIsTheRooms' /\ Lever!RoomIsSpared'
      BY <1>c, <2>1, <3>1, <3>3 DEF Lever!ClockIsTheRooms, Lever!RoomIsSpared
    <3> QED BY <1>i, <1>c, <2>1, <3>1, <3>4 DEF Lever!LeverInv
  <2> QED BY <2>2, <2>3
<1>6. CASE Lever!Tick
  <2>1. UNCHANGED <<tile, cooldown, presses, overlapped>>
    BY <1>6 DEF Lever!Tick, Lever!switchVars
  <2>2. /\ fired' = (IF fired = None THEN None ELSE Lever!Older(fired, Lever!Longest))
        /\ heard' = Lever!Older(heard, Lever!Never)
    BY <1>6 DEF Lever!Tick
  <2>3. heard' \in 0 .. Lever!Never /\ heard' >= heard
          /\ fired' \in 0 .. Lever!Longest \cup {None}
    BY <1>i, <1>c, <2>2 DEF Lever!Older
  <2>4. Lever!ClockIsTheRooms'
    BY <1>i, <1>c, <2>1, <2>2 DEF Lever!ClockIsTheRooms, Lever!Older
  <2>5. Lever!RoomIsSpared'
    BY <1>i, <1>c, <2>1, <2>3 DEF Lever!RoomIsSpared
  <2> QED BY <1>i, <1>c, <2>1, <2>3, <2>4, <2>5 DEF Lever!LeverInv
<1>7. ASSUME Lever!Restart \/ Lever!NewSession \/ \E c \in Cooldowns : Lever!SetCooldown(c)
      PROVE  Lever!LeverInv'
  <2>1. overlapped' = TRUE
    BY <1>7 DEF Lever!Restart, Lever!NewSession, Lever!SetCooldown
  <2>2. tile' \in Tiles /\ cooldown' \in Cooldowns /\ fired' \in 0 .. Lever!Longest \cup {None}
        /\ heard' = heard /\ presses' \subseteq Press
    BY <1>7, <1>i, <1>c DEF Lever!Restart, Lever!NewSession, Lever!SetCooldown,
        Lever!switchVars, Lever!outcomeVars
  <2> QED BY <1>i, <1>c, <2>1, <2>2 DEF Lever!LeverInv, Lever!ClockIsTheRooms,
      Lever!RoomIsSpared
<1>8. CASE Lever!Toggle \/ (\E p \in Pids : Lever!Grant({p}) \/ Lever!Revoke({p}))
             \/ Lever!Grant(Pids) \/ Lever!Revoke(Pids)
           \/ (\E t \in Tiles : Lever!SetTile(t)) \/ UNCHANGED Lever!vars
  <2>1. tile' \in Tiles /\ UNCHANGED <<cooldown, fired, heard, presses, overlapped>>
    BY <1>8, <1>i DEF Lever!Toggle, Lever!Grant, Lever!Revoke, Lever!SetTile, Lever!vars,
        Lever!switchVars, Lever!outcomeVars
  <2> QED BY <1>i, <2>1 DEF Lever!LeverInv, Lever!ClockIsTheRooms, Lever!RoomIsSpared,
      Lever!Never, Lever!Longest
<1> QED BY <1>1, <1>2, <1>3, <1>4, <1>5, <1>6, <1>7, <1>8 DEF Lever!Next, Lever!Pressing,
    Lever!Switching

----------------------------------------------------------------------------
(* Attention and emoji                                                      *)

\* Finite sets and their sizes are the same ones in the instance.
LEMMA ReactionsSets ==
  \A S : (Reactions!IsFiniteSet(S) <=> IsFiniteSet(S))
    /\ Reactions!Cardinality(S) = Cardinality(S)
BY DEF Reactions!IsFiniteSet, IsFiniteSet, Reactions!Cardinality, Cardinality

\* What is known of a sequence of ages without its being one.
LEMMA SeqTypes ==
  ASSUME NEW S, NEW s \in Seq(S) PROVE Len(s) \in Nat /\ \A i \in 1 .. Len(s) : s[i] \in S
  OBVIOUS

LEMMA AgesAre ==
  ASSUME NEW s, Reactions!Ages(s)
  PROVE  /\ s \in Seq(0 .. Window) /\ Len(s) \in Nat
         /\ \A i \in 1 .. Len(s) : s[i] \in 0 .. Window
         /\ \A i, k \in 1 .. Len(s) : i <= k => s[i] >= s[k]
<1>1. s \in Seq(0 .. Window) /\ \A i, k \in 1 .. Len(s) : i <= k => s[i] >= s[k]
  BY DEF Reactions!Ages
<1>2. Len(s) \in Nat /\ \A i \in 1 .. Len(s) : s[i] \in 0 .. Window
  BY <1>1, SeqTypes
<1> QED BY <1>1, <1>2

\* What is in the window is the newest part, all of it and no more.
LEMMA WindowIsSuffix ==
  ASSUME Reactions!ReactionsAssumption, NEW h, Reactions!Ages(h)
  PROVE  /\ Reactions!Expired(h) \in 0 .. Len(h)
         /\ Reactions!InWindow(h) \in Seq(0 .. Window)
         /\ Len(Reactions!InWindow(h)) = Len(h) - Reactions!Expired(h)
         /\ \A i \in 1 .. Len(h) - Reactions!Expired(h) :
              Reactions!InWindow(h)[i] = h[Reactions!Expired(h) + i]
         /\ \A i \in 1 .. Len(h) : h[i] < Window => i > Reactions!Expired(h)
<1> DEFINE E == {i \in 1 .. Len(h) : h[i] >= Window}  e == Reactions!Expired(h)
<1>1. Len(h) \in Nat /\ h \in Seq(0 .. Window) /\ Window \in Nat
  BY DEF Reactions!Ages, Reactions!ReactionsAssumption
<1>2. \A n \in Nat : Reactions!IsFiniteSet(1 .. n) /\ Reactions!Cardinality(1 .. n) = n
  BY FS_Interval, ReactionsSets
<1>3. e \in Nat /\ e <= Len(h)
  <2>1. E \subseteq 1 .. Len(h)
    OBVIOUS
  <2> QED BY <1>1, <1>2, <2>1, FS_Subset, FS_CardinalityType, ReactionsSets
      DEF Reactions!Expired
<1>4. ASSUME NEW i \in 1 .. Len(h), h[i] < Window PROVE i > e
  <2>1. i - 1 \in Nat /\ E \subseteq 1 .. (i - 1)
    BY <1>1, <1>4 DEF Reactions!Ages
  <2>2. Reactions!Cardinality(E) <= i - 1
    BY <1>2, <2>1, FS_Subset, ReactionsSets
  <2> QED BY <1>3, <2>2 DEF Reactions!Expired
<1> HIDE DEF E, e
<1>5. Reactions!InWindow(h) = SubSeq(h, e + 1, Len(h))
  BY DEF Reactions!InWindow, e
<1>6. Reactions!InWindow(h) \in Seq(0 .. Window) /\ Len(Reactions!InWindow(h)) = Len(h) - e
  BY <1>1, <1>3, <1>5
<1>7. \A i \in 1 .. Len(h) - e : Reactions!InWindow(h)[i] = h[e + i]
  BY <1>1, <1>3, <1>5
<1> QED BY <1>3, <1>4, <1>6, <1>7 DEF e

\* The clean-up and the cut drop nothing that is in the window.
LEMMA PrunedCovers ==
  ASSUME Reactions!ReactionsAssumption, NEW h, NEW t, Reactions!Ages(h), Reactions!Ages(t),
         Len(h) <= Quota, Reactions!Covers(h, t)
  PROVE  /\ Reactions!Ages(Reactions!Pruned(h)) /\ Len(Reactions!Pruned(h)) <= Quota
         /\ Reactions!Covers(Reactions!Pruned(h), t)
         /\ Reactions!Ages(Reactions!InWindow(Reactions!Pruned(h)))
         /\ Len(Reactions!InWindow(Reactions!Pruned(h))) <= Quota
         /\ Reactions!Covers(Reactions!InWindow(Reactions!Pruned(h)), t)
<1>c. Quota \in Nat \ {0} /\ Window \in Nat \ {0}
  BY DEF Reactions!ReactionsAssumption
<1>1. /\ h \in Seq(0 .. Window) /\ Len(h) \in Nat /\ t \in Seq(0 .. Window) /\ Len(t) \in Nat
      /\ \A i, k \in 1 .. Len(h) : i <= k => h[i] >= h[k]
      /\ \A i \in 1 .. Len(h) : h[i] \in 0 .. Window
  BY AgesAre
<1>2. Reactions!Ages(Reactions!Pruned(h)) /\ Len(Reactions!Pruned(h)) <= Quota
  <2>a. Len(<<>>) = 0 /\ <<>> \in Seq(0 .. Window)
    OBVIOUS
  <2>1. Reactions!Ages(<<>>) /\ Len(<<>>) = 0
    BY <2>a DEF Reactions!Ages
  <2> QED BY <1>c, <2>1 DEF Reactions!Pruned
<1>3. Reactions!Covers(Reactions!Pruned(h), t)
  <2>1. CASE h # <<>> /\ h[Len(h)] < Window
    BY <1>1, <1>c, <2>1 DEF Reactions!Pruned
  <2>2. CASE ~(h # <<>> /\ h[Len(h)] < Window)
    <3>1. \A i \in 1 .. Len(h) : h[i] >= Window
      BY <1>1, <1>c, <2>2
    <3>2. ASSUME NEW n \in 0 .. Quota, n < Len(t), t[Len(t) - n] < Window PROVE FALSE
      <4>1. n < Len(h) /\ h[Len(h) - n] < Window
        BY <3>2 DEF Reactions!Covers
      <4>2. Len(h) - n \in 1 .. Len(h)
        BY <1>1, <1>c, <4>1
      <4>3. h[Len(h) - n] \in 0 .. Window /\ h[Len(h) - n] >= Window
        BY <1>1, <3>1, <4>2
      <4> QED BY <1>c, <4>1, <4>3
    <3> QED BY <3>2 DEF Reactions!Covers
  <2> QED BY <2>1, <2>2
<1> DEFINE g == Reactions!Pruned(h)  e == Reactions!Expired(g)
<1>4. /\ e \in 0 .. Len(g) /\ Reactions!InWindow(g) \in Seq(0 .. Window)
      /\ Len(Reactions!InWindow(g)) = Len(g) - e
      /\ \A i \in 1 .. Len(g) - e : Reactions!InWindow(g)[i] = g[e + i]
      /\ \A i \in 1 .. Len(g) : g[i] < Window => i > e
  BY <1>2, WindowIsSuffix
<1>5. /\ Len(g) \in Nat /\ Len(g) <= Quota /\ \A i, k \in 1 .. Len(g) : i <= k => g[i] >= g[k]
  BY <1>2, AgesAre
<1>6. Reactions!Covers(g, t)
  BY <1>3
<1> HIDE DEF g, e
<1>7. Reactions!Ages(Reactions!InWindow(g)) /\ Len(Reactions!InWindow(g)) <= Quota
  <2>1. Len(Reactions!InWindow(g)) \in Nat /\ Len(Reactions!InWindow(g)) <= Quota /\ e \in Nat
    BY <1>c, <1>4, <1>5
  <2>2. \A i, k \in 1 .. Len(Reactions!InWindow(g)) : i <= k
          => Reactions!InWindow(g)[i] >= Reactions!InWindow(g)[k]
    <3> TAKE i, k \in 1 .. Len(Reactions!InWindow(g))
    <3>1. e + i \in 1 .. Len(g) /\ e + k \in 1 .. Len(g) /\ (i <= k => e + i <= e + k)
      BY <1>4, <1>5, <2>1
    <3>2. Reactions!InWindow(g)[i] = g[e + i] /\ Reactions!InWindow(g)[k] = g[e + k]
      BY <1>4
    <3> QED BY <1>5, <3>1, <3>2
  <2> QED BY <1>4, <2>1, <2>2 DEF Reactions!Ages
<1>8. ASSUME NEW n \in 0 .. Quota, n < Len(t), t[Len(t) - n] < Window
      PROVE  n < Len(Reactions!InWindow(g))
               /\ Reactions!InWindow(g)[Len(Reactions!InWindow(g)) - n] = t[Len(t) - n]
  <2>1. n < Len(g) /\ g[Len(g) - n] = t[Len(t) - n]
    BY <1>6, <1>8 DEF Reactions!Covers
  <2>a. Len(g) - n \in 1 .. Len(g)
    BY <1>c, <1>5, <2>1
  <2>2. Len(g) - n \in 1 .. Len(g) /\ Len(g) - n > e
    BY <1>4, <1>8, <2>1, <2>a
  <2>b. Len(g) - e - n \in 1 .. Len(g) - e /\ e + (Len(g) - e - n) = Len(g) - n
    BY <1>4, <1>5, <2>1, <2>2
  <2>3. Len(g) - e - n \in 1 .. Len(g) - e
          /\ Reactions!InWindow(g)[Len(g) - e - n] = g[Len(g) - n]
    BY <1>4, <2>b
  <2> QED BY <1>4, <2>1, <2>3
<1>9. Reactions!Covers(Reactions!InWindow(g), t)
  BY <1>8 DEF Reactions!Covers
<1> QED BY <1>2, <1>3, <1>7, <1>9 DEF g

\* One more hit, on both sides.
LEMMA HitCovers ==
  ASSUME Reactions!ReactionsAssumption, NEW g, NEW t, Reactions!Ages(g), Reactions!Ages(t),
         Len(g) < Quota,
         Len(t) <= Quota + 1, Reactions!Covers(g, t)
  PROVE  /\ Reactions!Ages(g \o <<0>>) /\ Len(g \o <<0>>) <= Quota
         /\ Reactions!Ages(Append(Reactions!Recent(t), 0))
         /\ Len(Append(Reactions!Recent(t), 0)) <= Quota + 1
         /\ Reactions!Covers(g \o <<0>>, Append(Reactions!Recent(t), 0))
         /\ Len(Append(Reactions!Recent(t), 0)) > Quota
              => Append(Reactions!Recent(t), 0)[1] >= Window
<1>c. Quota \in Nat \ {0} /\ Window \in Nat \ {0} /\ 0 \in 0 .. Window
  BY DEF Reactions!ReactionsAssumption
<1>1. /\ g \in Seq(0 .. Window) /\ Len(g) \in Nat /\ \A i \in 1 .. Len(g) : g[i] \in 0 .. Window
      /\ \A i, k \in 1 .. Len(g) : i <= k => g[i] >= g[k]
      /\ t \in Seq(0 .. Window) /\ Len(t) \in Nat /\ \A i \in 1 .. Len(t) : t[i] \in 0 .. Window
      /\ \A i, k \in 1 .. Len(t) : i <= k => t[i] >= t[k]
  BY AgesAre
<1> DEFINE r == Reactions!Recent(t)
<1>2. /\ r \in Seq(0 .. Window) /\ Len(r) \in Nat /\ Len(r) <= Quota /\ Len(r) <= Len(t)
      /\ \A i \in 1 .. Len(r) : r[i] = t[Len(t) - Len(r) + i]
  <2>1. CASE Len(t) > Quota
    <3>1. t # <<>> /\ r = Tail(t)
      BY <1>c, <2>1 DEF Reactions!Recent
    <3>2. Tail(t) \in Seq(0 .. Window) /\ Len(Tail(t)) = Len(t) - 1
          /\ \A i \in 1 .. Len(t) - 1 : Tail(t)[i] = t[i + 1]
      BY <1>1, <3>1
    <3> QED BY <1>1, <1>c, <2>1, <3>1, <3>2
  <2>2. CASE ~(Len(t) > Quota)
    BY <1>1, <1>c, <2>2 DEF Reactions!Recent
  <2> QED BY <2>1, <2>2
<1> HIDE DEF r
<1> DEFINE u == Append(r, 0)  f == g \o <<0>>
<1>3. /\ u \in Seq(0 .. Window) /\ Len(u) = Len(r) + 1 /\ u[Len(r) + 1] = 0
      /\ \A i \in 1 .. Len(r) : u[i] = r[i]
  BY <1>2, <1>c
<1>4. /\ f \in Seq(0 .. Window) /\ Len(f) = Len(g) + 1 /\ f[Len(g) + 1] = 0
      /\ \A i \in 1 .. Len(g) : f[i] = g[i]
  BY <1>1, <1>c
<1> HIDE DEF u, f
<1>5. Reactions!Ages(f) /\ Len(f) <= Quota
  <2>1. \A i, k \in 1 .. Len(f) : i <= k => f[i] >= f[k]
    <3> TAKE i, k \in 1 .. Len(f)
    <3>1. f[i] \in 0 .. Window
      BY <1>1, <1>4, <1>c
    <3>2. CASE k = Len(g) + 1
      BY <1>4, <3>1, <3>2, <1>c
    <3>3. CASE k # Len(g) + 1
      <4>1. i <= k => i \in 1 .. Len(g) /\ k \in 1 .. Len(g)
        BY <1>1, <1>4, <3>3
      <4> QED BY <1>1, <1>4, <4>1
    <3> QED BY <3>2, <3>3
  <2> QED BY <1>1, <1>4, <1>c, <2>1 DEF Reactions!Ages
<1>6. \A i \in 1 .. Len(r) : r[i] \in 0 .. Window
  BY <1>2, SeqTypes
<1>7. Reactions!Ages(u) /\ Len(u) <= Quota + 1
  <2>1. \A i, k \in 1 .. Len(r) : i <= k => r[i] >= r[k]
    BY <1>1, <1>2
  <2>2. \A i, k \in 1 .. Len(u) : i <= k => u[i] >= u[k]
    <3> TAKE i, k \in 1 .. Len(u)
    <3>1. u[i] \in 0 .. Window
      BY <1>2, <1>3, <1>6, <1>c
    <3>2. CASE k = Len(r) + 1
      BY <1>3, <3>1, <3>2, <1>c
    <3>3. CASE k # Len(r) + 1
      <4>1. i <= k => i \in 1 .. Len(r) /\ k \in 1 .. Len(r)
        BY <1>2, <1>3, <3>3
      <4> QED BY <1>3, <2>1, <4>1
    <3> QED BY <3>2, <3>3
  <2> QED BY <1>2, <1>3, <1>c, <2>2 DEF Reactions!Ages
<1>8. ASSUME NEW n \in 0 .. Quota, n < Len(u), u[Len(u) - n] < Window
      PROVE  n < Len(f) /\ f[Len(f) - n] = u[Len(u) - n]
  <2>1. CASE n = 0
    BY <1>1, <1>2, <1>3, <1>4, <2>1
  <2>2. CASE n # 0
    <3> DEFINE m == n - 1
    <3>a. m \in 0 .. Quota /\ m < Len(r)
      BY <1>2, <1>3, <1>8, <1>c, <2>2
    <3>b. Len(r) - m \in 1 .. Len(r) /\ Len(u) - n = Len(r) - m
      BY <1>2, <1>3, <3>a
    <3>1. m \in 0 .. Quota /\ m < Len(r) /\ u[Len(u) - n] = r[Len(r) - m]
            /\ Len(r) - m \in 1 .. Len(r)
      BY <1>3, <3>a, <3>b
    <3>2. r[Len(r) - m] = t[Len(t) - m] /\ m < Len(t)
      BY <1>1, <1>2, <3>1
    <3>3. m < Len(g) /\ g[Len(g) - m] = t[Len(t) - m]
      BY <1>8, <3>1, <3>2 DEF Reactions!Covers
    <3>4. Len(g) - m \in 1 .. Len(g) /\ Len(f) - n = Len(g) - m
      BY <1>1, <1>4, <3>1, <3>3
    <3>5. f[Len(f) - n] = g[Len(g) - m]
      BY <1>4, <3>4
    <3>6. n < Len(f)
      BY <1>1, <1>4, <3>3
    <3>7. u[Len(u) - n] = t[Len(t) - m]
      BY <3>1, <3>2
    <3> HIDE DEF m
    <3> QED BY <3>3, <3>5, <3>6, <3>7, Zenon
  <2> QED BY <2>1, <2>2
<1>9. ASSUME Len(u) > Quota PROVE u[1] >= Window
  <2>a. Len(r) = Quota /\ 1 \in 1 .. Len(r) /\ Len(t) >= Quota
    BY <1>1, <1>2, <1>3, <1>9, <1>c
  <2>b. u[1] = r[1] /\ r[1] = t[Len(t) - Len(r) + 1]
    BY <1>2, <1>3, <2>a
  <2>1. Len(r) = Quota /\ u[1] = t[Len(t) - (Quota - 1)] /\ Quota - 1 < Len(t)
    BY <1>1, <1>c, <2>a, <2>b
  <2>2. t[Len(t) - (Quota - 1)] \in 0 .. Window
    BY <1>1, <1>c, <2>1
  <2>3. ~(t[Len(t) - (Quota - 1)] < Window)
    BY <1>1, <1>c, <2>1 DEF Reactions!Covers
  <2> QED BY <1>c, <2>1, <2>2, <2>3
<1>10. Reactions!Covers(f, u)
  BY <1>8 DEF Reactions!Covers
<1> QED BY <1>5, <1>7, <1>9, <1>10 DEF f, u, r

\* Time makes all older alike.
LEMMA OlderCovers ==
  ASSUME Reactions!ReactionsAssumption, NEW h, NEW t, Reactions!Ages(h), Reactions!Ages(t),
         Reactions!Covers(h, t)
  PROVE  /\ Reactions!Ages(Reactions!Older(h)) /\ Len(Reactions!Older(h)) = Len(h)
         /\ Reactions!Ages(Reactions!Older(t)) /\ Len(Reactions!Older(t)) = Len(t)
         /\ Reactions!Covers(Reactions!Older(h), Reactions!Older(t))
         /\ Len(t) > 0 /\ t[1] >= Window => Reactions!Older(t)[1] >= Window
<1>c. Quota \in Nat \ {0} /\ Window \in Nat \ {0}
  BY DEF Reactions!ReactionsAssumption
<1>1. ASSUME NEW s, Reactions!Ages(s)
      PROVE  /\ Len(s) \in Nat /\ \A i \in 1 .. Len(s) : s[i] \in 0 .. Window
             /\ Reactions!Older(s) \in Seq(0 .. Window) /\ Len(Reactions!Older(s)) = Len(s)
             /\ \A i \in 1 .. Len(s) :
                  Reactions!Older(s)[i] = IF s[i] < Window THEN s[i] + 1 ELSE Window
             /\ Reactions!Ages(Reactions!Older(s))
  <2>1. Len(s) \in Nat /\ \A i \in 1 .. Len(s) : s[i] \in 0 .. Window
    BY <1>1, AgesAre
  <2>2. /\ Reactions!Older(s) \in Seq(0 .. Window) /\ Len(Reactions!Older(s)) = Len(s)
        /\ \A i \in 1 .. Len(s) :
             Reactions!Older(s)[i] = IF s[i] < Window THEN s[i] + 1 ELSE Window
    BY <1>c, <2>1 DEF Reactions!Older
  <2>3. Reactions!Ages(Reactions!Older(s))
    <3>1. \A i, k \in 1 .. Len(s) : i <= k => s[i] >= s[k]
      BY <1>1, AgesAre
    <3> DEFINE o == Reactions!Older(s)
    <3> HIDE DEF o
    <3>2. \A i, k \in 1 .. Len(s) : i <= k => o[i] >= o[k]
      BY <1>c, <2>1, <2>2, <3>1 DEF o
    <3> QED BY <2>2, <3>2 DEF Reactions!Ages, o
  <2> QED BY <2>1, <2>2, <2>3
<1>2. ASSUME NEW n \in 0 .. Quota, n < Len(Reactions!Older(t)),
             Reactions!Older(t)[Len(Reactions!Older(t)) - n] < Window
      PROVE  n < Len(Reactions!Older(h))
               /\ Reactions!Older(h)[Len(Reactions!Older(h)) - n]
                    = Reactions!Older(t)[Len(Reactions!Older(t)) - n]
  <2>1. n < Len(t) /\ Len(t) - n \in 1 .. Len(t) /\ t[Len(t) - n] < Window
    BY <1>1, <1>2, <1>c
  <2>2. n < Len(h) /\ h[Len(h) - n] = t[Len(t) - n]
    BY <2>1 DEF Reactions!Covers
  <2>3. Len(h) - n \in 1 .. Len(h)
    BY <1>1, <2>2
  <2> QED BY <1>1, <2>1, <2>2, <2>3
<1>3. Reactions!Covers(Reactions!Older(h), Reactions!Older(t))
  BY <1>2 DEF Reactions!Covers
<1>4. Len(t) > 0 /\ t[1] >= Window => Reactions!Older(t)[1] >= Window
  BY <1>1, <1>c
<1> QED BY <1>1, <1>3, <1>4

\* Nobody has reacted at the start.
LEMMA ReactionsStart ==
  Reactions!ReactionsAssumption /\ Reactions!Init => Reactions!ReactionsInv
<1> SUFFICES ASSUME Reactions!ReactionsAssumption, Reactions!Init PROVE Reactions!ReactionsInv
  OBVIOUS
<1>1. Len(<<>>) = 0 /\ <<>> \in Seq(0 .. Window)
  OBVIOUS
<1>2. Reactions!Ages(<<>>) /\ Reactions!Covers(<<>>, <<>>)
  BY <1>1 DEF Reactions!Ages, Reactions!Covers
<1>3. Reactions!Silent \in [Reactions!Controls -> [Ringers -> Seq(0 .. Window)]]
      /\ \A c \in Reactions!Controls, p \in Ringers : Reactions!Silent[c][p] = <<>>
  BY <1>1 DEF Reactions!Silent
<1>4. Reactions!WindowsInv
  BY <1>1, <1>2, <1>3 DEF Reactions!WindowsInv, Reactions!Init, Reactions!ReactionsAssumption
<1>5. {Burst, Rate, Look} \subseteq Nat \ {0} /\ \A d \in 1 .. Look : Rate * (d - 1) >= 0
  BY DEF Reactions!ReactionsAssumption
<1>6. Reactions!BucketInv
  BY <1>5 DEF Reactions!BucketInv, Reactions!Init
<1> QED BY <1>4, <1>6 DEF Reactions!ReactionsInv

\* Who reacts or rings is let through with room only; the others' windows stay covered.
LEMMA WindowsKept ==
  ASSUME Reactions!ReactionsAssumption, Reactions!WindowsInv, NEW c \in Reactions!Controls,
         NEW p \in Ringers, Reactions!Hit(c, p)
  PROVE  Reactions!WindowsInv'
<1> DEFINE Lists == [Reactions!Controls -> [Ringers -> Seq(0 .. Window)]]
           Fine(h, t) == /\ Reactions!Ages(h) /\ Len(h) <= Quota /\ Reactions!Ages(t)
             /\ Len(t) <= Quota + 1
                         /\ Reactions!Covers(h, t) /\ (Len(t) > Quota => t[1] >= Window)
<1>i. hits \in Lists /\ took \in Lists
        /\ \A d \in Reactions!Controls, q \in Ringers : Fine(hits[d][q], took[d][q])
  BY DEF Reactions!WindowsInv
<1>c. Quota \in Nat \ {0} /\ Window \in Nat \ {0} /\ 0 \in 0 .. Window
  BY DEF Reactions!ReactionsAssumption
<1> DEFINE h == hits[c][p]  t == took[c][p]  g == Reactions!InWindow(Reactions!Pruned(h))
<1>1. Fine(h, t)
  BY <1>i
<1>2. Reactions!Ages(g) /\ Len(g) <= Quota /\ Reactions!Covers(g, t)
  BY <1>1, PrunedCovers
<1>3. \A q \in Ringers : Fine(Reactions!Pruned(hits[c][q]), took[c][q])
  BY <1>i, PrunedCovers
<1> DEFINE hit == IF Reactions!Room(c, p) THEN <<0>> ELSE <<>>
           u == IF Reactions!Room(c, p) THEN Append(Reactions!Recent(t), 0) ELSE t
<1>4. Fine(g \o hit, u)
  <2>1. CASE Reactions!Room(c, p)
    <3>1. Len(g) < Quota
      BY <2>1 DEF Reactions!Room
    <3> QED BY <1>1, <1>2, <2>1, <3>1, HitCovers
  <2>2. CASE ~Reactions!Room(c, p)
    <3>1. g \o <<>> = g
      BY <1>2, AgesAre
    <3> QED BY <1>1, <1>2, <2>2, <3>1
  <2> QED BY <2>1, <2>2
<1>5. hits' = Reactions!Noted(c, p, hit)
        /\ took' = IF Reactions!Room(c, p) THEN [took EXCEPT ![c][p] = u] ELSE took
  BY DEF Reactions!Hit
<1>6. /\ hits' \in Lists /\ hits'[c][p] = g \o hit
      /\ \A q \in Ringers : q # p => hits'[c][q] = Reactions!Pruned(hits[c][q])
      /\ \A d \in Reactions!Controls : d # c => hits'[d] = hits[d]
  <2> DEFINE row == [q \in Ringers |-> IF q # p THEN Reactions!Pruned(hits[c][q]) ELSE g \o hit]
  <2>1. hits' = [hits EXCEPT ![c] = row]
    BY <1>i, <1>5 DEF Reactions!Noted
  <2>2. row \in [Ringers -> Seq(0 .. Window)]
    BY <1>3, <1>4, AgesAre
  <2> HIDE DEF row
  <2>3. hits' \in Lists /\ hits'[c] = row /\ \A d \in Reactions!Controls : d # c
          => hits'[d] = hits[d]
    BY <1>i, <2>1, <2>2
  <2> QED BY <2>3 DEF row
<1>7. /\ took' \in Lists /\ took'[c][p] = u
      /\ \A d \in Reactions!Controls, q \in Ringers : d # c \/ q # p => took'[d][q] = took[d][q]
  <2>1. u \in Seq(0 .. Window)
    BY <1>4, AgesAre
  <2> HIDE DEF u
  <2>2. CASE Reactions!Room(c, p)
    <3>1. took' = [took EXCEPT ![c][p] = u]
      BY <1>5, <2>2
    <3> QED BY <1>i, <2>1, <3>1
  <2>3. CASE ~Reactions!Room(c, p)
    <3>1. took' = took /\ u = t
      BY <1>5, <2>3 DEF u
    <3> QED BY <1>i, <3>1
  <2> QED BY <2>2, <2>3
<1> HIDE DEF g, hit, u, h, t
<1>8. \A d \in Reactions!Controls, q \in Ringers : Fine(hits'[d][q], took'[d][q])
  <2> TAKE d \in Reactions!Controls, q \in Ringers
  <2>1. CASE d = c /\ q = p
    BY <1>4, <1>6, <1>7, <2>1
  <2>2. CASE d = c /\ q # p
    BY <1>3, <1>6, <1>7, <2>2
  <2>3. CASE d # c
    BY <1>i, <1>6, <1>7, <2>3
  <2> QED BY <2>1, <2>2, <2>3
<1> QED BY <1>6, <1>7, <1>8 DEF Reactions!WindowsInv

\* What the bucket gives it had.
LEMMA TokenKept ==
  Reactions!ReactionsAssumption /\ Reactions!BucketInv /\ Reactions!TakeToken
    => Reactions!BucketInv'
<1> SUFFICES ASSUME Reactions!ReactionsAssumption, Reactions!BucketInv, Reactions!TakeToken
             PROVE  Reactions!BucketInv'
  OBVIOUS
<1> DEFINE room(d) == Burst + Rate * (d - 1)
<1>1. /\ Burst \in Nat /\ Look \in Nat /\ tokens \in 0 .. Burst /\ passed \in [1 .. Look -> Nat]
      /\ \A d \in 1 .. Look : tokens + passed[d] <= room(d)
  BY DEF Reactions!BucketInv, Reactions!ReactionsAssumption
<1>2. \A d \in 1 .. Look : room(d) \in Int
  BY DEF Reactions!ReactionsAssumption
<1> HIDE DEF room
<1>3. /\ tokens' \in 0 .. Burst /\ passed' \in [1 .. Look -> Nat]
      /\ \A d \in 1 .. Look : tokens' + passed'[d] <= room(d)
  <2>1. CASE tokens > 0
    BY <1>1, <1>2, <2>1 DEF Reactions!TakeToken
  <2>2. CASE ~(tokens > 0)
    BY <1>1, <2>2 DEF Reactions!TakeToken
  <2> QED BY <2>1, <2>2
<1> QED BY <1>3 DEF Reactions!BucketInv, room

\* What flows into a bucket makes no more room than it takes.
LEMMA FlowFits ==
  \A a, b, c, d, e \in Int : a <= b + e /\ b + c <= d => a + c <= d + e
OBVIOUS

\* ... and what flows in with time is no more than the rate.
LEMMA BucketFlows ==
  Reactions!ReactionsAssumption /\ Reactions!BucketInv /\ Reactions!Tick => Reactions!BucketInv'
<1> SUFFICES ASSUME Reactions!ReactionsAssumption, Reactions!BucketInv, Reactions!Tick
             PROVE  Reactions!BucketInv'
  OBVIOUS
<1> DEFINE room(d) == Burst + Rate * (d - 1)
<1>1. /\ Burst \in Nat /\ Rate \in Nat /\ Look \in Nat \ {0} /\ tokens \in 0 .. Burst
      /\ passed \in [1 .. Look -> Nat] /\ \A d \in 1 .. Look : tokens + passed[d] <= room(d)
  BY DEF Reactions!BucketInv, Reactions!ReactionsAssumption
<1>2. room(1) = Burst /\ \A d \in 1 .. Look : room(d) \in Int
  BY <1>1
<1>3. \A d \in 1 .. Look : d # 1 => d - 1 \in 1 .. Look /\ room(d) = room(d - 1) + Rate
  BY <1>1
<1> HIDE DEF room
<1>4. tokens' = Reactions!Refilled(tokens)
        /\ passed' = [d \in 1 .. Look |-> IF d = 1 THEN 0 ELSE passed[d - 1]]
  BY DEF Reactions!Tick
<1>5. tokens' \in 0 .. Burst /\ tokens' <= tokens + Rate
  BY <1>1, <1>4 DEF Reactions!Refilled
<1>6. passed' \in [1 .. Look -> Nat]
  BY <1>1, <1>4
<1>7. ASSUME NEW d \in 1 .. Look PROVE tokens' + passed'[d] <= room(d)
  <2>1. CASE d = 1
    BY <1>2, <1>4, <1>5, <1>1, <2>1
  <2>2. CASE d # 1
    <3>1. passed'[d] = passed[d - 1] /\ passed[d - 1] \in Nat
      BY <1>1, <1>3, <1>4, <2>2
    <3>2. tokens + passed[d - 1] <= room(d - 1) /\ room(d - 1) \in Int
            /\ room(d) = room(d - 1) + Rate
      BY <1>1, <1>2, <1>3, <2>2
    <3> DEFINE gave == passed[d - 1]
               left == room(d - 1)
    <3>3. /\ tokens \in Int /\ tokens' \in Int /\ gave \in Int /\ left \in Int /\ Rate \in Int
          /\ tokens' <= tokens + Rate /\ tokens + gave <= left
      BY <1>1, <1>5, <3>1, <3>2
    <3>4. passed'[d] = gave /\ room(d) = left + Rate
      BY <3>1, <3>2
    <3> HIDE DEF gave, left
    <3>5. tokens' + gave <= left + Rate
      BY <3>3, FlowFits
    <3> QED BY <3>4, <3>5, Zenon
  <2> QED BY <2>1, <2>2
<1> QED BY <1>5, <1>6, <1>7 DEF Reactions!BucketInv, room

\* Every step keeps both limits.
LEMMA ReactionsStep ==
  Reactions!ReactionsAssumption /\ Reactions!ReactionsInv /\ [Reactions!Next]_(Reactions!vars)
    => Reactions!ReactionsInv'
<1> SUFFICES ASSUME Reactions!ReactionsAssumption, Reactions!ReactionsInv,
                    [Reactions!Next]_(Reactions!vars)
             PROVE  Reactions!ReactionsInv'
  OBVIOUS
<1>i. Reactions!WindowsInv /\ Reactions!BucketInv
  BY DEF Reactions!ReactionsInv
<1>w. ASSUME UNCHANGED hits, UNCHANGED took PROVE Reactions!WindowsInv'
  BY <1>w, <1>i DEF Reactions!WindowsInv
<1>b. ASSUME UNCHANGED tokens, UNCHANGED passed PROVE Reactions!BucketInv'
  BY <1>b, <1>i DEF Reactions!BucketInv
<1>1. ASSUME NEW p \in Ringers, Reactions!React(p) PROVE Reactions!ReactionsInv'
  <2>1. "emoji" \in Reactions!Controls /\ Reactions!Hit("emoji", p)
          /\ (Reactions!TakeToken \/ UNCHANGED <<tokens, passed>>)
    BY <1>1 DEF Reactions!React, Reactions!Controls
  <2>2. Reactions!WindowsInv'
    BY <1>i, <2>1, WindowsKept
  <2>3. Reactions!BucketInv'
    BY <1>i, <1>b, <2>1, TokenKept
  <2> QED BY <2>2, <2>3 DEF Reactions!ReactionsInv
<1>2. ASSUME NEW p \in Ringers, Reactions!Ring(p) PROVE Reactions!ReactionsInv'
  <2>1. "bell" \in Reactions!Controls /\ Reactions!Hit("bell", p)
          /\ UNCHANGED <<tokens, passed>>
    BY <1>2 DEF Reactions!Ring, Reactions!Controls
  <2>2. Reactions!WindowsInv'
    BY <1>i, <2>1, WindowsKept
  <2> QED BY <1>b, <2>1, <2>2 DEF Reactions!ReactionsInv
<1>3. CASE Reactions!HostReacts
  BY <1>3, <1>i, <1>w, TokenKept DEF Reactions!HostReacts, Reactions!ReactionsInv
<1>4. CASE Reactions!NewSession
  <2>1. Len(<<>>) = 0 /\ <<>> \in Seq(0 .. Window)
    OBVIOUS
  <2>2. Reactions!Ages(<<>>) /\ Reactions!Covers(<<>>, <<>>)
    BY <2>1 DEF Reactions!Ages, Reactions!Covers
  <2>3. Reactions!Silent \in [Reactions!Controls -> [Ringers -> Seq(0 .. Window)]]
        /\ \A c \in Reactions!Controls, p \in Ringers : Reactions!Silent[c][p] = <<>>
    BY <2>1 DEF Reactions!Silent
  <2>4. hits' = Reactions!Silent /\ took' = Reactions!Silent /\ UNCHANGED <<tokens, passed>>
    BY <1>4 DEF Reactions!NewSession
  <2>5. Reactions!WindowsInv'
    BY <2>1, <2>2, <2>3, <2>4 DEF Reactions!WindowsInv, Reactions!ReactionsAssumption
  <2> QED BY <1>b, <2>4, <2>5 DEF Reactions!ReactionsInv
<1>5. CASE Reactions!Tick
  <2>1. /\ hits' = [c \in Reactions!Controls |-> [p \in Ringers |-> Reactions!Older(hits[c][p])]]
        /\ took' = [c \in Reactions!Controls |-> [p \in Ringers |-> Reactions!Older(took[c][p])]]
    BY <1>5 DEF Reactions!Tick
  <2>2. ASSUME NEW c \in Reactions!Controls, NEW p \in Ringers
        PROVE  /\ Reactions!Ages(hits'[c][p]) /\ Len(hits'[c][p]) <= Quota
               /\ Reactions!Ages(took'[c][p]) /\ Len(took'[c][p]) <= Quota + 1
               /\ Reactions!Covers(hits'[c][p], took'[c][p])
               /\ Len(took'[c][p]) > Quota => took'[c][p][1] >= Window
    <3> DEFINE h == hits[c][p]  t == took[c][p]
    <3>1. /\ Reactions!Ages(h) /\ Len(h) <= Quota /\ Reactions!Ages(t) /\ Len(t) <= Quota + 1
          /\ Reactions!Covers(h, t)
          /\ Len(t) > Quota => t[1] >= Window
      BY <1>i DEF Reactions!WindowsInv
    <3>2. hits'[c][p] = Reactions!Older(h) /\ took'[c][p] = Reactions!Older(t)
      BY <2>1
    <3>3. Quota \in Nat /\ Len(t) \in Nat
      BY <3>1, AgesAre DEF Reactions!ReactionsAssumption
    <3> HIDE DEF h, t
    <3>4. /\ Reactions!Ages(Reactions!Older(h)) /\ Len(Reactions!Older(h)) = Len(h)
          /\ Reactions!Ages(Reactions!Older(t)) /\ Len(Reactions!Older(t)) = Len(t)
          /\ Reactions!Covers(Reactions!Older(h), Reactions!Older(t))
          /\ Len(t) > 0 /\ t[1] >= Window => Reactions!Older(t)[1] >= Window
      BY <3>1, OlderCovers
    <3> QED BY <3>1, <3>2, <3>3, <3>4
  <2>3. hits' \in [Reactions!Controls -> [Ringers -> Seq(0 .. Window)]]
        /\ took' \in [Reactions!Controls -> [Ringers -> Seq(0 .. Window)]]
    <3>1. \A c \in Reactions!Controls, p \in Ringers :
            Reactions!Older(hits[c][p]) \in Seq(0 .. Window)
              /\ Reactions!Older(took[c][p]) \in Seq(0 .. Window)
      BY <2>1, <2>2, AgesAre
    <3> QED BY <2>1, <3>1
  <2>4. Reactions!WindowsInv'
    BY <2>2, <2>3 DEF Reactions!WindowsInv
  <2>5. Reactions!BucketInv'
    BY <1>5, <1>i, BucketFlows
  <2> QED BY <2>4, <2>5 DEF Reactions!ReactionsInv
<1>6. CASE (\E c \in Reactions!Controls : Reactions!Toggle(c)) \/ UNCHANGED Reactions!vars
  <2>1. UNCHANGED <<hits, tokens, took, passed>>
    BY <1>6 DEF Reactions!Toggle, Reactions!vars
  <2> QED BY <1>w, <1>b, <2>1 DEF Reactions!ReactionsInv
<1> QED BY <1>1, <1>2, <1>3, <1>4, <1>5, <1>6 DEF Reactions!Next

\* The limits follow.
LEMMA LimitsFollow ==
  Reactions!ReactionsAssumption /\ Reactions!ReactionsInv => Reactions!LimitsHold
<1> SUFFICES ASSUME Reactions!ReactionsAssumption, Reactions!ReactionsInv
             PROVE  Reactions!LimitsHold
  OBVIOUS
<1>1. \A c \in Reactions!Controls, p \in Ringers : Len(took[c][p]) > Quota
        => took[c][p][1] >= Window
  BY DEF Reactions!ReactionsInv, Reactions!WindowsInv
<1>2. ASSUME NEW d \in 1 .. Look PROVE passed[d] <= Burst + Rate * (d - 1)
  <2>1. tokens + passed[d] <= Burst + Rate * (d - 1) /\ tokens \in Nat /\ passed[d] \in Nat
    BY DEF Reactions!ReactionsInv, Reactions!BucketInv, Reactions!ReactionsAssumption
  <2>2. Burst + Rate * (d - 1) \in Int
    BY DEF Reactions!ReactionsAssumption
  <2> QED BY <2>1, <2>2
<1> QED BY <1>1, <1>2 DEF Reactions!LimitsHold

----------------------------------------------------------------------------
(* The slides cache                                                         *)

\* Finite sets and their sizes are the same ones in the instance.
LEMMA CacheSets ==
  \A S : (Cache!IsFiniteSet(S) <=> IsFiniteSet(S)) /\ Cache!Cardinality(S) = Cardinality(S)
BY DEF Cache!IsFiniteSet, IsFiniteSet, Cache!Cardinality, Cardinality

\* Who is under way is one of the slot, and the same whoever the threads are.
LEMMA SlotCounts == Cache!CacheAssumption /\ Cache!CacheInv => Cache!OneDownload
<1> SUFFICES ASSUME Cache!CacheAssumption, Cache!CacheInv PROVE Cache!OneDownload
  OBVIOUS
<1>1. active => Cache!Downloads \cup Cache!Polling # {}
  BY DEF Cache!CacheInv
<1>2. ASSUME ~forced
      PROVE  Cache!Cardinality(Cache!Downloads) + Cache!Cardinality(Cache!Polling)
                 = IF active THEN 1 ELSE 0
  <2>1. Cache!SlotIsForOne
    BY <1>2 DEF Cache!CacheInv
  <2>2. Cache!Downloads \cap Cache!Polling = {}
    BY DEF Cache!CacheAssumption, Cache!Downloads, Cache!Polling
  <2>3. Cache!Cardinality({}) = 0
    BY FS_EmptySet, CacheSets
  <2>4. CASE Cache!Downloads \cup Cache!Polling = {}
    <3>1. Cache!Downloads = {} /\ Cache!Polling = {} /\ ~active
      BY <2>1, <2>4 DEF Cache!SlotIsForOne
    <3> QED BY <2>3, <3>1
  <2>5. CASE Cache!Downloads \cup Cache!Polling # {}
    <3>1. PICK x : x \in Cache!Downloads \cup Cache!Polling
      BY <2>5
    <3>2. active /\ (\/ Cache!Downloads = {x} /\ Cache!Polling = {}
                     \/ Cache!Downloads = {} /\ Cache!Polling = {x})
      BY <2>1, <2>2, <3>1 DEF Cache!SlotIsForOne
    <3>3. Cache!Cardinality({x}) = 1
      BY FS_Singleton, CacheSets
    <3> QED BY <2>3, <3>2, <3>3
  <2> QED BY <2>4, <2>5
<1> QED BY <1>1, <1>2 DEF Cache!OneDownload

\* Nobody is under way at the start.
LEMMA CacheStarts == Cache!CacheAssumption /\ Cache!Init => Cache!CacheInv /\ Cache!CopyInv
<1> SUFFICES ASSUME Cache!CacheAssumption, Cache!Init PROVE Cache!CacheInv /\ Cache!CopyInv
  OBVIOUS
<1>1. Cache!CacheTypeOK
  BY DEF Cache!CacheAssumption, Cache!Init, Cache!CacheTypeOK, Cache!Calls, Cache!Version,
      Cache!Idle
<1>2. Cache!Downloads = {} /\ Cache!Polling = {}
  BY DEF Cache!Init, Cache!Downloads, Cache!Polling, Cache!Idle
<1>3. /\ \A r \in Cache!Askers : ask[r] = None
      /\ Pids \cup Pollers \subseteq Cache!Askers /\ None \notin Cache!Version
  BY DEF Cache!Init, Cache!Askers, Cache!CacheAssumption, Cache!Version
<1>4. Cache!CallsAreUnderWay /\ Cache!SlotIsForOne
  <2>1. \A q \in Pollers : ~poller[q].marked
    BY DEF Cache!Init, Cache!Idle
  <2> QED BY <1>2, <1>3, <2>1 DEF Cache!Init, Cache!CallsAreUnderWay, Cache!SlotIsForOne
<1>5. status = "not_cached" /\ probe = None
  BY DEF Cache!Init
<1>6. Cache!CopyInv
  BY <1>3, <1>5 DEF Cache!CopyInv, Cache!CachedIsThere, Cache!CopyIsBehindIt
<1>7. ~active /\ owed = {}
  BY DEF Cache!Init
<1> QED BY <1>1, <1>2, <1>4, <1>6, <1>7 DEF Cache!CacheInv

\* Every step keeps the types.
LEMMA CacheTypes ==
  Cache!CacheAssumption /\ Cache!CacheTypeOK /\ [Cache!Next]_(Cache!vars) => Cache!CacheTypeOK'
<1> SUFFICES ASSUME Cache!CacheAssumption, Cache!CacheTypeOK, [Cache!Next]_(Cache!vars)
             PROVE  Cache!CacheTypeOK'
  OBVIOUS
<1> DEFINE Stages == {"none", "refused", "waits", "asks", "marked"}
           Trackers == [before : Cache!Version \cup {None}, left : 0 .. Attempts, marked : BOOLEAN]
<1>t. /\ source \in Cache!Version /\ drive \in Cache!Version /\ sha \in Cache!Version \cup {None}
      /\ ask \in [Cache!Askers -> Cache!Calls] /\ checks \in [Pids -> Stages]
      /\ poller \in [Pollers -> Trackers]
  BY DEF Cache!CacheTypeOK
<1>c. /\ Attempts \in Nat \ {0} /\ MaxVersion \in Nat \ {0}
      /\ Pids \cup Pollers \cup Outsiders = Cache!Askers
      /\ Cache!Calls = {None, Cache!Out, Cache!In, Torn} \cup Cache!Version
      /\ Cache!Version = 0 .. MaxVersion
  BY DEF Cache!CacheAssumption, Cache!Askers, Cache!Calls, Cache!Version
<1>i. Cache!Idle \in Trackers /\ [before |-> sha, left |-> Attempts, marked |-> FALSE] \in Trackers
  BY <1>c, <1>t DEF Cache!Idle
<1>w. Cache!Woken(checks) \in [Pids -> Stages]
  BY <1>t DEF Cache!Woken
<1>q. ASSUME source' \in Cache!Version, drive' \in Cache!Version,
             sha' \in Cache!Version \cup {None},
             ask' \in [Cache!Askers -> Cache!Calls], checks' \in [Pids -> Stages],
             poller' \in [Pollers -> Trackers]
      PROVE  Cache!CacheTypeOK'
  BY <1>q DEF Cache!CacheTypeOK, Cache!Version, Cache!Calls
<1>a. ASSUME NEW r, NEW c \in Cache!Calls, ask' = [ask EXCEPT ![r] = c]
      PROVE  ask' \in [Cache!Askers -> Cache!Calls]
  BY <1>t, <1>a
<1>o. {None, Cache!Out, Cache!In, Torn} \subseteq Cache!Calls
  BY <1>c
<1> HIDE DEF Stages, Trackers
<1>1. ASSUME NEW r \in Cache!Askers, Cache!Reach(r) \/ Cache!GivesUp(r) PROVE Cache!CacheTypeOK'
  <2>1. UNCHANGED <<source, drive, sha, checks, poller>>
    BY <1>1 DEF Cache!Reach, Cache!GivesUp, Cache!noteVars, Cache!workVars
  <2>2. \E c \in Cache!Calls : ask' = [ask EXCEPT ![r] = c]
    BY <1>1, <1>o DEF Cache!Reach, Cache!GivesUp
  <2> QED BY <1>t, <1>q, <1>a, <2>1, <2>2
<1>2. CASE Cache!Fetched \/ Cache!FetchFails \/ Cache!RailwayRestarts
  <2>1. UNCHANGED <<source, drive, sha, checks, poller>>
    BY <1>2 DEF Cache!Fetched, Cache!FetchFails, Cache!RailwayRestarts, Cache!noteVars,
        Cache!workVars
  <2>2. \E calls : \E c \in Cache!Calls : Cache!Answered(calls, c)
    BY <1>2, <1>o, <1>t, <1>c DEF Cache!Fetched, Cache!FetchFails, Cache!RailwayRestarts
  <2>3. ask' \in [Cache!Askers -> Cache!Calls]
    BY <2>2, <1>o, <1>t DEF Cache!Answered
  <2> QED BY <1>t, <1>q, <2>1, <2>3
<1>3. ASSUME NEW p \in Pids,
             Cache!Check(p) \/ Cache!CheckForced(p) \/ Cache!CheckRefused(p) \/ Cache!Await(p)
      PROVE  Cache!CacheTypeOK'
  <2>1. UNCHANGED <<source, drive, sha, poller>>
    BY <1>3 DEF Cache!Check, Cache!CheckForced, Cache!CheckRefused, Cache!Await,
        Cache!Downloading, Cache!noteVars
  <2>2. ask' = ask \/ ask' = [ask EXCEPT ![p] = Cache!Out]
    BY <1>3 DEF Cache!Check, Cache!CheckForced, Cache!CheckRefused, Cache!Await,
        Cache!Downloading, Cache!Asks
  <2>3. \E s \in {"asks", "refused", "waits"} : checks' = [checks EXCEPT ![p] = s]
    BY <1>3 DEF Cache!Check, Cache!CheckForced, Cache!CheckRefused, Cache!Await,
        Cache!Downloading
  <2>4. checks' \in [Pids -> Stages]
    BY <1>t, <2>3 DEF Stages
  <2> QED BY <1>t, <1>q, <1>a, <1>o, <2>1, <2>2, <2>4
<1>4. ASSUME NEW p \in Pids, Cache!CheckUnlinked(p) \/ Cache!CheckMarks(p) \/ Cache!CheckEnds(p)
      PROVE  Cache!CacheTypeOK'
  <2>1. UNCHANGED <<source, drive, poller>>
    BY <1>4 DEF Cache!CheckUnlinked, Cache!CheckMarks, Cache!CheckEnds
  <2>2. ask' = ask \/ ask' = [ask EXCEPT ![p] = None]
    BY <1>4 DEF Cache!CheckUnlinked, Cache!CheckMarks, Cache!CheckEnds
  <2>3. checks' \in [Pids -> Stages]
    BY <1>4, <1>t, <1>w DEF Cache!CheckUnlinked, Cache!CheckMarks, Cache!CheckEnds, Stages
  <2>4. sha' \in Cache!Version \cup {None}
    BY <1>4, <1>t DEF Cache!CheckUnlinked, Cache!CheckMarks, Cache!CheckEnds, Cache!Result,
        Cache!noteVars
  <2> QED BY <1>t, <1>q, <1>a, <1>o, <2>1, <2>2, <2>3, <2>4
<1>5. ASSUME Cache!Scan \/ (\E thread \in Pollers \cup {"loop"} : Cache!Trigger(thread))
      PROVE  Cache!CacheTypeOK'
  <2>1. UNCHANGED <<source, drive, sha, ask, checks>>
    BY <1>5 DEF Cache!Scan, Cache!Trigger, Cache!StartPoller
  <2>2. \/ poller' = poller
        \/ \E q \in Pollers : poller' =
             [poller EXCEPT ![q] = [before |-> sha, left |-> Attempts, marked |-> FALSE]]
    BY <1>5 DEF Cache!Scan, Cache!Trigger, Cache!StartPoller, Cache!Polling
  <2>3. poller' \in [Pollers -> Trackers]
    BY <1>t, <1>i, <2>2
  <2> QED BY <1>t, <1>q, <2>1, <2>3
<1>6. ASSUME NEW q \in Pollers, Cache!PollerAsks(q) PROVE Cache!CacheTypeOK'
  <2>1. UNCHANGED <<source, drive, sha, checks, poller>> /\ ask' = [ask EXCEPT ![q] = Cache!Out]
    BY <1>6 DEF Cache!PollerAsks, Cache!Asks, Cache!noteVars, Cache!workVars
  <2> QED BY <1>t, <1>q, <1>a, <1>o, <2>1
<1>7. ASSUME NEW q \in Pollers, Cache!PollerMarks(q) \/ Cache!PollerEnds(q) \/ Cache!PollerRetries(q)
      PROVE  Cache!CacheTypeOK'
  <2>1. UNCHANGED <<source, drive>> /\ ask' = [ask EXCEPT ![q] = None]
    BY <1>7 DEF Cache!PollerMarks, Cache!PollerEnds, Cache!PollerRetries
  <2>2. sha' \in Cache!Version \cup {None}
    BY <1>7, <1>t DEF Cache!PollerMarks, Cache!PollerEnds, Cache!PollerRetries, Cache!Result,
        Cache!noteVars
  <2>3. checks' \in [Pids -> Stages]
    BY <1>7, <1>t, <1>w DEF Cache!PollerMarks, Cache!PollerEnds, Cache!PollerRetries
  <2>4. poller' \in [Pollers -> Trackers]
    <3>1. CASE Cache!PollerMarks(q)
      BY <1>t, <3>1 DEF Cache!PollerMarks, Trackers
    <3>2. CASE Cache!PollerEnds(q)
      BY <1>t, <1>i, <3>2 DEF Cache!PollerEnds
    <3>3. CASE Cache!PollerRetries(q)
      <4>1. poller[q] \in Trackers /\ poller[q].left > 1
        BY <1>t, <3>3 DEF Cache!PollerRetries
      <4>2. poller[q].left - 1 \in 0 .. Attempts
        BY <1>c, <4>1 DEF Trackers
      <4>3. poller' = [poller EXCEPT ![q].left = poller[q].left - 1]
        BY <3>3 DEF Cache!PollerRetries
      <4> QED BY <1>t, <4>1, <4>2, <4>3 DEF Trackers
    <3> QED BY <1>7, <3>1, <3>2, <3>3
  <2> QED BY <1>t, <1>q, <1>a, <1>o, <2>1, <2>2, <2>3, <2>4
<1>8. ASSUME NEW r \in Outsiders, Cache!Refresh(r) \/ Cache!Prefetch(r) PROVE Cache!CacheTypeOK'
  <2>1. UNCHANGED <<source, drive, sha, checks, poller>> /\ ask' = [ask EXCEPT ![r] = Cache!Out]
    BY <1>8 DEF Cache!Prefetch, Cache!Refresh, Cache!Asks, Cache!noteVars, Cache!workVars
  <2> QED BY <1>t, <1>q, <1>a, <1>o, <2>1
<1>9. CASE Cache!DaemonRestarts
  <2>1. /\ UNCHANGED <<source, drive>> /\ sha' = None
        /\ checks' = [p \in Pids |-> "none"] /\ poller' = [q \in Pollers |-> Cache!Idle]
        /\ ask' = [r \in Cache!Askers |-> IF r \in Outsiders THEN ask[r] ELSE None]
    BY <1>9 DEF Cache!DaemonRestarts
  <2>2. checks' \in [Pids -> Stages] /\ ask' \in [Cache!Askers -> Cache!Calls]
    BY <1>t, <1>o, <2>1 DEF Stages
  <2> QED BY <1>t, <1>i, <1>q, <2>1, <2>2
<1>10. CASE Cache!Save \/ Cache!DriveSyncs
  <2>1. UNCHANGED <<sha, checks, poller, ask>>
    BY <1>10 DEF Cache!Save, Cache!DriveSyncs, Cache!noteVars, Cache!workVars
  <2>2. source' \in Cache!Version /\ drive' \in Cache!Version
    BY <1>10, <1>t, <1>c DEF Cache!Save, Cache!DriveSyncs
  <2> QED BY <1>t, <1>q, <2>1, <2>2
<1>11. CASE Cache!ScanQueues \/ Cache!Probe \/ Cache!ProbeEnds \/ UNCHANGED Cache!vars
  <2>1. UNCHANGED <<source, drive, sha, ask, checks, poller>>
    BY <1>11 DEF Cache!ScanQueues, Cache!Probe, Cache!ProbeEnds, Cache!noteVars,
        Cache!workVars, Cache!vars
  <2> QED BY <1>t, <1>q, <2>1
<1> QED BY <1>1, <1>2, <1>3, <1>4, <1>5, <1>6, <1>7, <1>8, <1>9, <1>10, <1>11
    DEF Cache!Next, Cache!Railway, Cache!Checking, Cache!Following, Cache!Others

\* Every step leaves a slot that is taken to who downloads, and to one of them.
LEMMA CacheSteps ==
  Cache!CacheAssumption /\ Cache!CacheInv /\ [Cache!Next]_(Cache!vars) => Cache!CacheInv'
<1> SUFFICES ASSUME Cache!CacheAssumption, Cache!CacheInv, [Cache!Next]_(Cache!vars)
             PROVE  Cache!CacheInv'
  OBVIOUS
<1> DEFINE Under == Cache!Downloads \cup Cache!Polling
           Slot == /\ active => Under # {}
                   /\ ~forced => Cache!SlotIsForOne
                   /\ ~deckLinked => Under = {} /\ owed = {}
<1>t. Cache!CacheTypeOK /\ Cache!CacheTypeOK'
  BY CacheTypes DEF Cache!CacheInv
<1>v. /\ ask \in [Cache!Askers -> Cache!Calls] /\ Attempts \in Nat \ {0}
      /\ checks \in [Pids -> {"none", "refused", "waits", "asks", "marked"}]
      /\ poller \in [Pollers ->
           [before : Cache!Version \cup {None}, left : 0 .. Attempts, marked : BOOLEAN]]
  BY <1>t DEF Cache!CacheTypeOK, Cache!CacheAssumption
<1>c. /\ Pids \cup Pollers \cup Outsiders = Cache!Askers /\ Pids \cap Pollers = {}
      /\ Outsiders \cap (Pids \cup Pollers) = {}
      /\ None \notin {Cache!Out, Cache!In} /\ None \notin Cache!Version /\ None # Torn
  BY DEF Cache!CacheAssumption, Cache!Askers, Cache!Out, Cache!In, Cache!Version
<1>i. Cache!CallsAreUnderWay /\ Slot
  BY DEF Cache!CacheInv
<1>q. ASSUME Cache!CallsAreUnderWay', Slot' PROVE Cache!CacheInv'
  BY <1>t, <1>q DEF Cache!CacheInv
\* Who leaves the downloads as they are leaves the calls to them and the slot for one.
<1>u. ASSUME Cache!Downloads' = Cache!Downloads, Cache!Polling' = Cache!Polling, active' = active,
             forced' = forced, deckLinked' = deckLinked, owed' = owed
      PROVE  Slot'
  BY <1>i, <1>u DEF Cache!SlotIsForOne
<1>d. ASSUME UNCHANGED checks PROVE Cache!Downloads' = Cache!Downloads
  BY <1>d DEF Cache!Downloads
<1>p. ASSUME UNCHANGED poller PROVE Cache!Polling' = Cache!Polling
  BY <1>p DEF Cache!Polling
<1>k. ASSUME UNCHANGED <<checks, poller>>,
             \A r \in Pids \cup Pollers : ask[r] = None => ask'[r] = None
      PROVE  Cache!CallsAreUnderWay'
  BY <1>i, <1>k DEF Cache!CallsAreUnderWay, Cache!Polling
\* A claim and the download it is for.
<1>b. ASSUME Cache!Claim, UNCHANGED <<deckLinked, owed>>,
             NEW x, Cache!Downloads' \cup Cache!Polling'
                      = (Cache!Downloads \cup Cache!Polling) \cup {x},
             deckLinked \/ owed # {}
      PROVE  Slot'
  BY <1>i, <1>b DEF Cache!Claim, Cache!SlotIsForOne
\* The end of a download.
<1>e. ASSUME NEW x \in Under, NEW thread, Cache!Finish(thread), UNCHANGED deckLinked,
             Cache!Downloads' \cup Cache!Polling' = (Cache!Downloads \cup Cache!Polling) \ {x}
      PROVE  Slot'
  <2>1. /\ active' = FALSE /\ deckLinked'
        /\ ~forced' => ~forced \/ Cache!Downloads' \cup Cache!Polling' = {}
    BY <1>e, <1>i DEF Cache!Finish
  <2>2. ~forced' => Cache!Downloads' \cup Cache!Polling' = {}
    BY <1>e, <1>i, <2>1 DEF Cache!SlotIsForOne
  <2> QED BY <2>1, <2>2 DEF Cache!SlotIsForOne
<1> HIDE DEF Slot
<1>1. ASSUME NEW r \in Cache!Askers, Cache!Reach(r) \/ Cache!GivesUp(r) PROVE Cache!CacheInv'
  <2>1. UNCHANGED <<active, forced, deckLinked, owed, checks, poller>>
    BY <1>1 DEF Cache!Reach, Cache!GivesUp, Cache!slotVars, Cache!workVars, Cache!history
  <2>2. ask[r] # None /\ \E c \in Cache!Calls : ask' = [ask EXCEPT ![r] = c]
    BY <1>1, <1>c DEF Cache!Reach, Cache!GivesUp, Cache!Calls
  <2>3. \A s \in Pids \cup Pollers : ask[s] = None => ask'[s] = None
    BY <1>c, <1>v, <2>2
  <2> QED BY <1>u, <1>d, <1>p, <1>k, <1>q, <2>1, <2>3
<1>2. CASE Cache!Fetched \/ Cache!FetchFails \/ Cache!RailwayRestarts
  <2>1. UNCHANGED <<active, forced, deckLinked, owed, checks, poller>>
    BY <1>2 DEF Cache!Fetched, Cache!FetchFails, Cache!RailwayRestarts, Cache!slotVars,
        Cache!workVars, Cache!history
  <2>2. \E c : Cache!Answered({Cache!In}, c) \/ Cache!Answered({Cache!Out, Cache!In}, c)
    BY <1>2 DEF Cache!Fetched, Cache!FetchFails, Cache!RailwayRestarts
  <2>3. \A s \in Pids \cup Pollers : ask[s] = None => ask'[s] = None
    BY <1>c, <1>v, <2>2 DEF Cache!Answered
  <2> QED BY <1>u, <1>d, <1>p, <1>k, <1>q, <2>1, <2>3
<1>3. ASSUME NEW p \in Pids, Cache!Check(p) PROVE Cache!CacheInv'
  <2>1. /\ Cache!Claim /\ checks[p] = "none" /\ deckLinked /\ UNCHANGED <<deckLinked, owed, poller>>
        /\ checks' = [checks EXCEPT ![p] = "asks"] /\ ask' = [ask EXCEPT ![p] = Cache!Out]
    BY <1>3 DEF Cache!Check, Cache!Downloading, Cache!Asks
  <2>2. Cache!Downloads' = Cache!Downloads \cup {p} /\ Cache!Polling' = Cache!Polling
    BY <1>v, <1>p, <2>1 DEF Cache!Downloads
  <2>3. Slot'
    BY <1>b, <2>1, <2>2
  <2>4. Cache!CallsAreUnderWay'
    BY <1>c, <1>v, <1>i, <2>1 DEF Cache!CallsAreUnderWay, Cache!Polling
  <2> QED BY <1>q, <2>3, <2>4
<1>4. ASSUME NEW p \in Pids, Cache!CheckForced(p) PROVE Cache!CacheInv'
  <2>1. /\ forced' = TRUE /\ deckLinked /\ UNCHANGED <<deckLinked, owed, poller, active>>
        /\ checks' = [checks EXCEPT ![p] = "asks"] /\ ask' = [ask EXCEPT ![p] = Cache!Out]
    BY <1>4 DEF Cache!CheckForced, Cache!Downloading, Cache!Asks
  <2>2. p \in Cache!Downloads'
    BY <1>v, <2>1 DEF Cache!Downloads
  <2>3. Slot'
    BY <2>1, <2>2 DEF Slot
  <2>4. Cache!CallsAreUnderWay'
    BY <1>c, <1>v, <1>i, <2>1 DEF Cache!CallsAreUnderWay, Cache!Polling
  <2> QED BY <1>q, <2>3, <2>4
<1>5. ASSUME NEW p \in Pids, Cache!CheckRefused(p) \/ Cache!Await(p) PROVE Cache!CacheInv'
  <2>1. UNCHANGED <<active, forced, deckLinked, owed, poller, ask>>
    BY <1>5 DEF Cache!CheckRefused, Cache!Await, Cache!slotVars, Cache!history
  <2>2. checks[p] \notin {"asks", "marked"}
        /\ \E s \in {"refused", "waits"} : checks' = [checks EXCEPT ![p] = s]
    BY <1>5 DEF Cache!CheckRefused, Cache!Await
  <2>3. Cache!Downloads' = Cache!Downloads
    BY <1>v, <2>2 DEF Cache!Downloads
  <2>4. Cache!CallsAreUnderWay'
    BY <1>v, <1>i, <2>1, <2>2 DEF Cache!CallsAreUnderWay, Cache!Polling
  <2> QED BY <1>u, <1>p, <1>q, <2>1, <2>3, <2>4
<1>6. ASSUME NEW p \in Pids, Cache!CheckUnlinked(p) PROVE Cache!CacheInv'
  <2>1. /\ ~deckLinked /\ active' = FALSE /\ checks' = Cache!Woken(checks)
        /\ UNCHANGED <<deckLinked, owed, poller, ask, forced>>
    BY <1>6 DEF Cache!CheckUnlinked, Cache!history
  <2>2. Cache!Downloads' = Cache!Downloads /\ Cache!Polling' = Cache!Polling
    BY <1>v, <1>p, <2>1 DEF Cache!Downloads, Cache!Woken
  <2>3. Cache!Downloads = {} /\ Cache!Polling = {} /\ owed = {}
    BY <1>i, <2>1 DEF Slot
  <2>4. Slot'
    BY <2>1, <2>2, <2>3 DEF Slot, Cache!SlotIsForOne
  <2>5. Cache!CallsAreUnderWay'
    BY <1>v, <1>i, <2>1 DEF Cache!CallsAreUnderWay, Cache!Polling, Cache!Woken
  <2> QED BY <1>q, <2>4, <2>5
<1>7. ASSUME NEW p \in Pids, Cache!CheckMarks(p) PROVE Cache!CacheInv'
  <2>1. /\ checks[p] = "asks" /\ UNCHANGED <<active, forced, deckLinked, owed, poller>>
        /\ checks' = [checks EXCEPT ![p] = "marked"] /\ ask' = [ask EXCEPT ![p] = None]
    BY <1>7 DEF Cache!CheckMarks, Cache!slotVars, Cache!history
  <2>2. Cache!Downloads' = Cache!Downloads
    BY <1>v, <2>1 DEF Cache!Downloads
  <2>3. Cache!CallsAreUnderWay'
    BY <1>c, <1>v, <1>i, <2>1 DEF Cache!CallsAreUnderWay, Cache!Polling
  <2> QED BY <1>u, <1>p, <1>q, <2>1, <2>2, <2>3
<1>8. ASSUME NEW p \in Pids, Cache!CheckEnds(p) PROVE Cache!CacheInv'
  <2>1. /\ checks[p] = "marked" /\ checks' = [Cache!Woken(checks) EXCEPT ![p] = "none"]
        /\ Cache!Finish("loop") /\ UNCHANGED <<deckLinked, poller, ask>>
    BY <1>8 DEF Cache!CheckEnds
  <2>2. /\ p \in Cache!Downloads /\ Cache!Downloads' = Cache!Downloads \ {p}
        /\ Cache!Polling' = Cache!Polling
    BY <1>v, <1>p, <2>1 DEF Cache!Downloads, Cache!Woken
  <2>3. Cache!Downloads' \cup Cache!Polling' = (Cache!Downloads \cup Cache!Polling) \ {p}
    BY <1>c, <2>2 DEF Cache!Polling
  <2>4. Slot'
    BY <1>e, <2>1, <2>2, <2>3
  <2>5. Cache!CallsAreUnderWay'
    BY <1>v, <1>i, <2>1 DEF Cache!CallsAreUnderWay, Cache!Polling, Cache!Woken
  <2> QED BY <1>q, <2>4, <2>5
<1>9. ASSUME Cache!Scan \/ (\E thread \in Pollers \cup {"loop"} : Cache!Trigger(thread))
      PROVE  Cache!CacheInv'
  <2>1. UNCHANGED <<ask, checks, deckLinked>>
    BY <1>9 DEF Cache!Scan, Cache!Trigger, Cache!StartPoller
  <2>2. \/ UNCHANGED <<active, poller, forced>> /\ owed' \subseteq owed
        \/ Cache!Claim /\ Cache!StartPoller /\ owed' \subseteq owed /\ (deckLinked \/ owed # {})
    BY <1>9 DEF Cache!Scan, Cache!Trigger, Cache!history
  <2>3. CASE UNCHANGED <<active, poller, forced>> /\ owed' \subseteq owed
    <3>1. Cache!CallsAreUnderWay'
      BY <1>k, <2>1, <2>3
    <3>2. Slot'
      BY <1>i, <1>d, <1>p, <2>1, <2>3 DEF Slot, Cache!SlotIsForOne
    <3> QED BY <1>q, <3>1, <3>2
  <2>4. CASE Cache!Claim /\ Cache!StartPoller /\ owed' \subseteq owed /\ (deckLinked \/ owed # {})
    <3>1. PICK q \in Pollers \ Cache!Polling :
            poller' = [poller EXCEPT ![q] =
                         [before |-> sha, left |-> Attempts, marked |-> FALSE]]
      BY <2>4 DEF Cache!StartPoller
    <3>2. Cache!Polling' = Cache!Polling \cup {q} /\ Cache!Downloads' = Cache!Downloads
      BY <1>v, <1>d, <2>1, <3>1 DEF Cache!Polling
    <3>3. deckLinked
      BY <1>i, <2>4 DEF Slot
    <3>4. Slot'
      BY <1>i, <2>1, <2>4, <3>2, <3>3 DEF Slot, Cache!SlotIsForOne, Cache!Claim
    <3>5. Cache!CallsAreUnderWay'
      BY <1>v, <1>i, <2>1, <3>1, <3>2 DEF Cache!CallsAreUnderWay, Cache!Polling
    <3> QED BY <1>q, <3>4, <3>5
  <2> QED BY <2>2, <2>3, <2>4
<1>10. ASSUME NEW q \in Pollers, Cache!PollerAsks(q) PROVE Cache!CacheInv'
  <2>1. /\ q \in Cache!Polling /\ ~poller[q].marked /\ ask' = [ask EXCEPT ![q] = Cache!Out]
        /\ UNCHANGED <<active, forced, deckLinked, owed, checks, poller>>
    BY <1>10 DEF Cache!PollerAsks, Cache!Asks, Cache!slotVars, Cache!workVars, Cache!history
  <2>2. Cache!CallsAreUnderWay'
    BY <1>c, <1>v, <1>i, <2>1 DEF Cache!CallsAreUnderWay, Cache!Polling
  <2> QED BY <1>u, <1>d, <1>p, <1>q, <2>1, <2>2
<1>11. ASSUME NEW q \in Pollers, Cache!PollerMarks(q) \/ Cache!PollerRetries(q) PROVE Cache!CacheInv'
  <2>1. /\ ask[q] # None /\ ask' = [ask EXCEPT ![q] = None]
        /\ UNCHANGED <<active, forced, deckLinked, owed, checks>>
    BY <1>11, <1>c DEF Cache!PollerMarks, Cache!PollerRetries, Cache!InVain, Cache!Result,
        Cache!slotVars, Cache!history
  <2>2. q \in Cache!Polling
    BY <1>i, <2>1 DEF Cache!CallsAreUnderWay
  <2>3. Cache!Polling' = Cache!Polling /\ \A s \in Pollers : s # q => poller'[s] = poller[s]
    <3>1. CASE Cache!PollerMarks(q)
      BY <1>v, <2>2, <3>1 DEF Cache!PollerMarks, Cache!Polling
    <3>2. CASE Cache!PollerRetries(q)
      <4>1. poller' = [poller EXCEPT ![q].left = poller[q].left - 1] /\ poller[q].left > 1
        BY <3>2 DEF Cache!PollerRetries
      <4>2. poller[q].left - 1 > 0
        BY <1>v, <4>1
      <4> QED BY <1>v, <2>2, <4>1, <4>2 DEF Cache!Polling
    <3> QED BY <1>11, <3>1, <3>2
  <2>4. Cache!CallsAreUnderWay'
    BY <1>c, <1>v, <1>i, <2>1, <2>3 DEF Cache!CallsAreUnderWay
  <2> QED BY <1>u, <1>d, <1>q, <2>1, <2>3, <2>4
<1>12. ASSUME NEW q \in Pollers, Cache!PollerEnds(q) PROVE Cache!CacheInv'
  <2>1. /\ ask' = [ask EXCEPT ![q] = None] /\ poller' = [poller EXCEPT ![q] = Cache!Idle]
        /\ checks' = Cache!Woken(checks) /\ Cache!Finish(q) /\ UNCHANGED deckLinked
    BY <1>12 DEF Cache!PollerEnds
  <2>2. poller[q].marked \/ ask[q] # None
    BY <1>12, <1>c DEF Cache!PollerEnds, Cache!InVain, Cache!Result
  <2>3. q \in Cache!Polling
    BY <1>i, <2>2 DEF Cache!CallsAreUnderWay
  <2>4. Cache!Polling' = Cache!Polling \ {q} /\ Cache!Downloads' = Cache!Downloads
    BY <1>v, <2>1 DEF Cache!Polling, Cache!Downloads, Cache!Idle, Cache!Woken
  <2>5. Cache!Downloads' \cup Cache!Polling' = (Cache!Downloads \cup Cache!Polling) \ {q}
    BY <1>c, <2>4 DEF Cache!Downloads
  <2>6. Slot'
    BY <1>e, <2>1, <2>3, <2>5
  <2>7. Cache!CallsAreUnderWay'
    <3>1. ~poller'[q].marked /\ ask'[q] = None
      BY <1>c, <1>v, <2>1 DEF Cache!Idle
    <3>2. \A s \in Pollers : s # q => poller'[s] = poller[s] /\ ask'[s] = ask[s]
      BY <1>c, <1>v, <2>1
    <3>3. \A p \in Pids : ask'[p] = ask[p] /\ (checks[p] = "asks" => checks'[p] = "asks")
      BY <1>c, <1>v, <2>1 DEF Cache!Woken
    <3> QED BY <1>i, <2>4, <3>1, <3>2, <3>3 DEF Cache!CallsAreUnderWay
  <2> QED BY <1>q, <2>6, <2>7
<1>13. ASSUME NEW r \in Outsiders, Cache!Refresh(r) \/ Cache!Prefetch(r) PROVE Cache!CacheInv'
  <2>1. /\ UNCHANGED <<active, forced, deckLinked, owed, checks, poller>>
        /\ ask' = [ask EXCEPT ![r] = Cache!Out]
    BY <1>13 DEF Cache!Prefetch, Cache!Refresh, Cache!Asks, Cache!slotVars, Cache!workVars
  <2>2. \A s \in Pids \cup Pollers : ask'[s] = ask[s]
    BY <1>c, <1>v, <2>1
  <2> QED BY <1>u, <1>d, <1>p, <1>k, <1>q, <2>1, <2>2
<1>14. CASE Cache!DaemonRestarts
  <2>1. /\ active' = FALSE /\ owed' = {} /\ forced' = FALSE
        /\ checks' = [p \in Pids |-> "none"] /\ poller' = [q \in Pollers |-> Cache!Idle]
        /\ ask' = [r \in Cache!Askers |-> IF r \in Outsiders THEN ask[r] ELSE None]
    BY <1>14 DEF Cache!DaemonRestarts
  <2>2. Cache!Downloads' = {} /\ Cache!Polling' = {}
    BY <2>1 DEF Cache!Downloads, Cache!Polling, Cache!Idle
  <2>3. Cache!CallsAreUnderWay'
    <3>1. \A q \in Pollers : ~poller'[q].marked
      BY <2>1 DEF Cache!Idle
    <3> QED BY <1>c, <2>1, <3>1 DEF Cache!CallsAreUnderWay
  <2> QED BY <1>q, <2>1, <2>2, <2>3 DEF Slot, Cache!SlotIsForOne
<1>15. CASE \/ Cache!ScanQueues \/ Cache!Probe \/ Cache!ProbeEnds \/ Cache!Save
            \/ Cache!DriveSyncs \/ UNCHANGED Cache!vars
  <2>1. UNCHANGED <<active, forced, deckLinked, owed, checks, poller, ask>>
    BY <1>15 DEF Cache!ScanQueues, Cache!Probe, Cache!ProbeEnds, Cache!Save, Cache!DriveSyncs,
        Cache!noteVars, Cache!slotVars, Cache!workVars,
        Cache!history, Cache!vars
  <2> QED BY <1>u, <1>d, <1>p, <1>k, <1>q, <2>1
<1> QED BY <1>1, <1>2, <1>3, <1>4, <1>5, <1>6, <1>7, <1>8, <1>9, <1>10, <1>11, <1>12, <1>13,
           <1>14, <1>15
    DEF Cache!Next, Cache!Railway, Cache!Checking, Cache!Following, Cache!Others

\* What is called cached stays there, whoever of the slot downloads it anew.
LEMMA CopySteps ==
  Cache!CacheAssumption /\ Cache!CacheInv /\ Cache!CopyInv /\ [Cache!Next]_(Cache!vars)
    => Cache!CopyInv'
<1> SUFFICES ASSUME Cache!CacheAssumption, Cache!CacheInv, Cache!CopyInv,
                    [Cache!Next]_(Cache!vars), ~beside'
             PROVE  Cache!CachedIsThere' /\ Cache!CopyIsBehindIt'
  BY DEF Cache!CopyInv, Cache!CachedIsThere
<1> DEFINE Marked == /\ \A p \in Cache!Downloads : checks[p] = "marked"
                     /\ \A q \in Cache!Polling : poller[q].marked
           Answers == \A r \in Pids \cup Pollers : ask[r] \in Cache!Version => file # None
           Goal == Cache!CachedIsThere' /\ Cache!CopyIsBehindIt'
<1>v. /\ ask \in [Cache!Askers -> Cache!Calls] /\ drive \in Cache!Version
      /\ checks \in [Pids -> {"none", "refused", "waits", "asks", "marked"}]
      /\ poller \in [Pollers ->
           [before : Cache!Version \cup {None}, left : 0 .. Attempts, marked : BOOLEAN]]
  BY DEF Cache!CacheInv, Cache!CacheTypeOK
<1>c. /\ Pids \cup Pollers \cup Outsiders = Cache!Askers /\ Pids \cap Pollers = {}
      /\ Outsiders \cap (Pids \cup Pollers) = {}
      /\ {None, Cache!Out, Cache!In, Torn} \cap Cache!Version = {}
      /\ None \notin {Cache!Out, Cache!In, Torn}
  BY DEF Cache!CacheAssumption, Cache!Askers, Cache!Out, Cache!In, Cache!Version
<1>i. Cache!CallsAreUnderWay /\ (~forced => Cache!SlotIsForOne)
  BY DEF Cache!CacheInv
<1>b. ASSUME ~beside
      PROVE  /\ status = "cached" => file # None
             /\ ~forced /\ status = "cached" => Marked
             /\ probe # None /\ probe = "cached" => file # None
             /\ Answers
  BY <1>b DEF Cache!CopyInv, Cache!CachedIsThere, Cache!CopyIsBehindIt
\* While nobody has the slot, nobody waits for Railway.
<1>n. ASSUME ~active, ~forced
      PROVE  /\ Cache!Downloads = {} /\ Cache!Polling = {}
             /\ \A r \in Pids \cup Pollers : ask[r] = None
  <2>1. Cache!Downloads = {} /\ Cache!Polling = {}
    BY <1>i, <1>n DEF Cache!SlotIsForOne
  <2> QED BY <1>i, <2>1 DEF Cache!CallsAreUnderWay, Cache!Downloads
\* One who waits for Railway, in a slot for one, finds a deck that is not cached.
<1>o. ASSUME ~beside, ~forced, NEW r \in Pids \cup Pollers, ask[r] # None
      PROVE  status # "cached" /\ \A s \in Pids \cup Pollers : ask[s] # None => s = r
  <2>1. \A s \in Pids \cup Pollers : ask[s] # None => s \in Cache!Downloads \cup Cache!Polling
    BY <1>i DEF Cache!CallsAreUnderWay, Cache!Downloads
  <2>2. ~Marked
    BY <1>i, <1>o, <1>c DEF Cache!CallsAreUnderWay, Cache!Downloads
  <2> QED BY <1>i, <1>o, <1>b, <2>1, <2>2 DEF Cache!SlotIsForOne
<1>g. ASSUME status' = "cached" => file' # None, ~forced' /\ status' = "cached" => Marked',
             probe' # None /\ probe' = "cached" => file' # None, Answers'
      PROVE  Goal
  BY <1>g DEF Cache!CachedIsThere, Cache!CopyIsBehindIt
\* Who leaves the status and the copy, and brings no answer nor takes any mark away.
<1>k. ASSUME UNCHANGED <<status, file, probe>>, ~beside, forced' <=> forced,
             \A r \in Pids \cup Pollers : ask'[r] \in Cache!Version => ask[r] \in Cache!Version,
             Marked => Marked'
      PROVE  Goal
  BY <1>b, <1>k, <1>g
\* A claim begins a download of a deck that is not cached.
<1>l. ASSUME Cache!Claim, status' = "downloading", UNCHANGED <<file, probe>>,
             \A r \in Pids \cup Pollers : ask'[r] \in Cache!Version => ask[r] \in Cache!Version
      PROVE  Goal
  <2>1. ~beside \/ (~active /\ ~forced /\ probe = None)
    BY <1>l DEF Cache!Claim
  <2>2. CASE ~beside
    BY <1>b, <1>l, <1>g, <2>2
  <2>3. CASE ~active /\ ~forced /\ probe = None
    BY <1>n, <1>c, <1>l, <1>g, <2>3
  <2> QED BY <2>1, <2>2, <2>3
<1> HIDE DEF Marked, Answers, Goal
<1>1. ASSUME NEW r \in Cache!Askers, Cache!Reach(r) PROVE Goal
  <2>1. /\ ask[r] = Cache!Out /\ ask' = [ask EXCEPT ![r] = Cache!In]
        /\ UNCHANGED <<status, probe, checks, poller>> /\ (forced' <=> forced) /\ ~beside
        /\ \/ file' = file
           \/ r \notin Outsiders /\ ~forced /\ probe = None
    BY <1>1 DEF Cache!Reach, Cache!noteVars, Cache!workVars
  <2>2. \A s \in Pids \cup Pollers : ask'[s] \in Cache!Version => ask[s] \in Cache!Version
    BY <1>c, <1>v, <2>1
  <2>3. Marked => Marked'
    BY <2>1 DEF Marked, Cache!Downloads, Cache!Polling
  <2>4. CASE file' = file
    BY <1>b, <1>g, <2>1, <2>2, <2>3, <2>4 DEF Answers
  <2>5. CASE r \notin Outsiders /\ ~forced /\ probe = None
    <3>1. status # "cached" /\ \A s \in Pids \cup Pollers : ask[s] # None => s = r
      BY <1>o, <1>c, <2>1, <2>5
    <3>2. \A s \in Pids \cup Pollers : ask'[s] \notin Cache!Version
      BY <1>c, <1>v, <2>1, <3>1
    <3> QED BY <1>g, <2>1, <2>5, <3>1, <3>2 DEF Answers
  <2> QED BY <2>1, <2>4, <2>5
<1>2. ASSUME Cache!Fetched PROVE Goal
  <2>1. /\ UNCHANGED <<status, probe, checks, poller>> /\ file' = drive
        /\ ~beside /\ (forced' <=> forced)
    BY <1>2 DEF Cache!Fetched, Cache!noteVars, Cache!workVars, Cache!history
  <2>2. file' # None
    BY <1>c, <1>v, <2>1
  <2>3. Marked => Marked'
    BY <2>1 DEF Marked, Cache!Downloads, Cache!Polling
  <2> QED BY <1>b, <1>g, <2>1, <2>2, <2>3 DEF Answers
<1>3. ASSUME Cache!FetchFails \/ \E r \in Cache!Askers : Cache!GivesUp(r) PROVE Goal
  <2>1. UNCHANGED <<status, file, probe, checks, poller>> /\ ~beside /\ (forced' <=> forced)
    BY <1>3 DEF Cache!FetchFails, Cache!GivesUp, Cache!noteVars, Cache!workVars, Cache!history,
        Cache!railwayVars
  <2>2. \A s \in Pids \cup Pollers : ask'[s] \in Cache!Version => ask[s] \in Cache!Version
    BY <1>3, <1>c, <1>v DEF Cache!FetchFails, Cache!GivesUp, Cache!Answered
  <2>3. Marked => Marked'
    BY <2>1 DEF Marked, Cache!Downloads, Cache!Polling
  <2> QED BY <1>k, <2>1, <2>2, <2>3
<1>4. ASSUME Cache!RailwayRestarts PROVE Goal
  BY <1>4 DEF Cache!RailwayRestarts
<1>5. ASSUME NEW p \in Pids, Cache!Check(p) PROVE Goal
  <2>1. /\ Cache!Claim /\ status' = "downloading" /\ UNCHANGED <<file, probe>>
        /\ ask' = [ask EXCEPT ![p] = Cache!Out]
    BY <1>5 DEF Cache!Check, Cache!Downloading, Cache!Asks, Cache!railwayVars
  <2>2. \A s \in Pids \cup Pollers : ask'[s] \in Cache!Version => ask[s] \in Cache!Version
    BY <1>c, <1>v, <2>1
  <2> QED BY <1>l, <2>1, <2>2
<1>6. ASSUME NEW p \in Pids, Cache!CheckForced(p) PROVE Goal
  <2>1. /\ status' = "downloading" /\ UNCHANGED <<file, probe>> /\ ~beside
        /\ ask' = [ask EXCEPT ![p] = Cache!Out]
    BY <1>6 DEF Cache!CheckForced, Cache!Downloading, Cache!Asks, Cache!railwayVars
  <2>2. \A s \in Pids \cup Pollers : ask'[s] \in Cache!Version => ask[s] \in Cache!Version
    BY <1>c, <1>v, <2>1
  <2> QED BY <1>b, <1>g, <2>1, <2>2 DEF Answers
<1>7. ASSUME NEW p \in Pids, Cache!CheckRefused(p) \/ Cache!Await(p) \/ Cache!CheckUnlinked(p)
      PROVE  Goal
  <2>1. UNCHANGED <<status, file, probe, ask, poller>> /\ ~beside /\ (forced' <=> forced)
    BY <1>7 DEF Cache!CheckRefused, Cache!Await, Cache!CheckUnlinked, Cache!noteVars,
        Cache!history, Cache!railwayVars
  <2>2. \A s \in Pids : /\ s \in Cache!Downloads' <=> s \in Cache!Downloads
                        /\ s \in Cache!Downloads => checks'[s] = checks[s]
    BY <1>7, <1>v DEF Cache!CheckRefused, Cache!Await, Cache!CheckUnlinked, Cache!Downloads,
        Cache!Woken
  <2>3. Marked => Marked'
    BY <2>1, <2>2 DEF Marked, Cache!Polling, Cache!Downloads
  <2> QED BY <1>k, <2>1, <2>3
<1>8. ASSUME NEW p \in Pids, Cache!CheckMarks(p) PROVE Goal
  <2>1. /\ checks[p] = "asks" /\ ask[p] \in Cache!Version \cup {Torn}
        /\ ask' = [ask EXCEPT ![p] = None] /\ checks' = [checks EXCEPT ![p] = "marked"]
        /\ UNCHANGED <<file, probe, poller>> /\ ~beside /\ (forced' <=> forced)
        /\ status' = "cached" => ask[p] # Torn
    BY <1>8 DEF Cache!CheckMarks, Cache!Result, Cache!history, Cache!railwayVars
  <2>2. status' = "cached" => file # None
    BY <1>b, <2>1 DEF Answers
  <2>3. Answers'
    BY <1>b, <1>c, <1>v, <2>1 DEF Answers
  <2>4. ASSUME ~forced PROVE Marked'
    <3>1. /\ p \in Cache!Downloads /\ Cache!Downloads' = Cache!Downloads
          /\ Cache!Polling' = Cache!Polling
      BY <1>v, <2>1 DEF Cache!Downloads, Cache!Polling
    <3>2. Cache!Downloads = {p} /\ Cache!Polling = {}
      BY <1>i, <1>c, <2>4, <3>1 DEF Cache!SlotIsForOne, Cache!Polling
    <3> QED BY <1>v, <2>1, <3>1, <3>2 DEF Marked
  <2> QED BY <1>b, <1>g, <2>1, <2>2, <2>3, <2>4
<1>9. ASSUME NEW p \in Pids, Cache!CheckEnds(p) PROVE Goal
  <2>1. /\ checks[p] = "marked" /\ checks' = [Cache!Woken(checks) EXCEPT ![p] = "none"]
        /\ UNCHANGED <<status, file, probe, ask, poller>> /\ ~beside
        /\ forced' = (forced /\ (Cache!Downloads \cup Cache!Polling)' # {})
    BY <1>9 DEF Cache!CheckEnds, Cache!Finish, Cache!noteVars, Cache!railwayVars
  <2>2. \A s \in Pids : s \in Cache!Downloads' => s \in Cache!Downloads /\ checks'[s] = checks[s]
    BY <1>v, <2>1 DEF Cache!Downloads, Cache!Woken
  <2>3. Marked => Marked'
    BY <2>1, <2>2 DEF Marked, Cache!Polling, Cache!Downloads
  <2>4. forced /\ ~forced' => Marked'
    BY <2>1 DEF Marked
  <2> QED BY <1>b, <1>g, <2>1, <2>3, <2>4 DEF Answers
<1>10. ASSUME Cache!Scan \/ (\E thread \in Pollers \cup {"loop"} : Cache!Trigger(thread)) PROVE Goal
  <2>1. \/ UNCHANGED <<status, file, probe, ask, checks, poller>> /\ ~beside /\ (forced' <=> forced)
        \/ Cache!Claim /\ status' = "downloading" /\ UNCHANGED <<file, probe, ask>>
    BY <1>10 DEF Cache!Scan, Cache!Trigger, Cache!StartPoller, Cache!railwayVars, Cache!history
  <2>2. CASE /\ UNCHANGED <<status, file, probe, ask, checks, poller>>
             /\ ~beside /\ (forced' <=> forced)
    <3>1. Marked => Marked'
      BY <2>2 DEF Marked, Cache!Downloads, Cache!Polling
    <3> QED BY <1>k, <2>2, <3>1
  <2> QED BY <1>l, <2>1, <2>2
<1>11. ASSUME NEW q \in Pollers, Cache!PollerAsks(q) PROVE Goal
  <2>1. /\ ask' = [ask EXCEPT ![q] = Cache!Out]
        /\ UNCHANGED <<status, file, probe, checks, poller>> /\ ~beside /\ (forced' <=> forced)
    BY <1>11 DEF Cache!PollerAsks, Cache!Asks, Cache!railwayVars, Cache!noteVars,
        Cache!workVars, Cache!history
  <2>2. \A s \in Pids \cup Pollers : ask'[s] \in Cache!Version => ask[s] \in Cache!Version
    BY <1>c, <1>v, <2>1
  <2>3. Marked => Marked'
    BY <2>1 DEF Marked, Cache!Downloads, Cache!Polling
  <2> QED BY <1>k, <2>1, <2>2, <2>3
<1>12. ASSUME NEW q \in Pollers, Cache!PollerMarks(q) PROVE Goal
  <2>1. /\ ask[q] \in Cache!Version /\ ask' = [ask EXCEPT ![q] = None]
        /\ poller' = [poller EXCEPT ![q].marked = TRUE]
        /\ UNCHANGED <<file, probe, checks>> /\ ~beside /\ (forced' <=> forced)
    BY <1>12 DEF Cache!PollerMarks, Cache!Result, Cache!history, Cache!railwayVars
  <2>2. file # None
    BY <1>b, <2>1 DEF Answers
  <2>3. Answers'
    BY <1>b, <1>c, <1>v, <2>1 DEF Answers
  <2>4. ASSUME ~forced PROVE Marked'
    <3>1. q \in Cache!Polling
      BY <1>i, <1>c, <2>1 DEF Cache!CallsAreUnderWay
    <3>2. Cache!Downloads' = Cache!Downloads /\ Cache!Polling' = Cache!Polling
      BY <1>v, <2>1 DEF Cache!Downloads, Cache!Polling
    <3>3. Cache!Downloads = {} /\ Cache!Polling = {q}
      BY <1>i, <1>c, <2>4, <3>1 DEF Cache!SlotIsForOne, Cache!Downloads
    <3> QED BY <1>v, <2>1, <3>2, <3>3 DEF Marked
  <2> QED BY <1>b, <1>g, <2>1, <2>2, <2>3, <2>4
<1>13. ASSUME NEW q \in Pollers, Cache!PollerEnds(q) PROVE Goal
  <2>1. /\ ask' = [ask EXCEPT ![q] = None] /\ poller' = [poller EXCEPT ![q] = Cache!Idle]
        /\ checks' = Cache!Woken(checks) /\ UNCHANGED <<status, file, probe>> /\ ~beside
        /\ forced' = (forced /\ (Cache!Downloads \cup Cache!Polling)' # {})
    BY <1>13 DEF Cache!PollerEnds, Cache!Finish, Cache!noteVars, Cache!railwayVars
  <2>2. \A s \in Pids : s \in Cache!Downloads' => s \in Cache!Downloads /\ checks'[s] = checks[s]
    BY <1>v, <2>1 DEF Cache!Downloads, Cache!Woken
  <2>3. \A s \in Pollers : s \in Cache!Polling' => s \in Cache!Polling /\ poller'[s] = poller[s]
    BY <1>v, <2>1 DEF Cache!Polling, Cache!Idle
  <2>4. Marked => Marked'
    BY <2>2, <2>3 DEF Marked, Cache!Polling, Cache!Downloads
  <2>5. forced /\ ~forced' => Marked'
    BY <2>1 DEF Marked
  <2>6. Answers'
    BY <1>b, <1>c, <1>v, <2>1 DEF Answers
  <2> QED BY <1>b, <1>g, <2>1, <2>4, <2>5, <2>6
<1>14. ASSUME NEW q \in Pollers, Cache!PollerRetries(q) PROVE Goal
  <2>1. /\ ask' = [ask EXCEPT ![q] = None] /\ poller' = [poller EXCEPT ![q].left = @ - 1]
        /\ UNCHANGED <<status, file, probe, checks>> /\ ~beside /\ (forced' <=> forced)
        /\ ask[q] # None
    BY <1>14, <1>c DEF Cache!PollerRetries, Cache!InVain, Cache!Result, Cache!railwayVars,
        Cache!noteVars, Cache!history
  <2>2. q \in Cache!Polling
    BY <1>i, <2>1 DEF Cache!CallsAreUnderWay
  <2>3. Cache!Downloads' = Cache!Downloads /\ Cache!Polling' \subseteq Cache!Polling
    BY <1>v, <2>1, <2>2 DEF Cache!Downloads, Cache!Polling
  <2>4. \A s \in Pollers : poller'[s].marked = poller[s].marked
    BY <1>v, <2>1
  <2>5. Marked => Marked'
    BY <2>1, <2>3, <2>4 DEF Marked, Cache!Polling
  <2>6. \A s \in Pids \cup Pollers : ask'[s] \in Cache!Version => ask[s] \in Cache!Version
    BY <1>c, <1>v, <2>1
  <2> QED BY <1>k, <2>1, <2>5, <2>6
<1>15. ASSUME NEW r \in Outsiders, Cache!Refresh(r) \/ Cache!Prefetch(r) PROVE Goal
  <2>1. /\ UNCHANGED <<status, file, probe, checks, poller>> /\ ~beside /\ (forced' <=> forced)
        /\ ask' = [ask EXCEPT ![r] = Cache!Out]
    BY <1>15 DEF Cache!Prefetch, Cache!Refresh, Cache!Asks, Cache!noteVars, Cache!railwayVars,
        Cache!workVars
  <2>2. \A s \in Pids \cup Pollers : ask'[s] \in Cache!Version => ask[s] \in Cache!Version
    BY <1>c, <1>v, <2>1
  <2>3. Marked => Marked'
    BY <2>1 DEF Marked, Cache!Downloads, Cache!Polling
  <2> QED BY <1>k, <2>1, <2>2, <2>3
<1>16. ASSUME Cache!ScanQueues \/ Cache!Save \/ Cache!DriveSyncs \/ UNCHANGED Cache!vars PROVE Goal
  <2>1. UNCHANGED <<status, file, probe, ask, checks, poller>> /\ ~beside /\ (forced' <=> forced)
    BY <1>16 DEF Cache!ScanQueues, Cache!Save, Cache!DriveSyncs, Cache!noteVars,
        Cache!railwayVars, Cache!workVars, Cache!history, Cache!vars
  <2>2. Marked => Marked'
    BY <2>1 DEF Marked, Cache!Downloads, Cache!Polling
  <2> QED BY <1>k, <2>1, <2>2
<1>17. ASSUME Cache!Probe PROVE Goal
  <2>1. /\ probe' = (IF file = None THEN "not_cached" ELSE "cached")
        /\ UNCHANGED <<status, file, ask, checks, poller>> /\ ~beside /\ (forced' <=> forced)
    BY <1>17 DEF Cache!Probe, Cache!noteVars, Cache!railwayVars, Cache!history
  <2>2. Marked => Marked'
    BY <2>1 DEF Marked, Cache!Downloads, Cache!Polling
  <2> QED BY <1>b, <1>g, <2>1, <2>2 DEF Answers
<1>18. ASSUME Cache!ProbeEnds PROVE Goal
  <2>1. /\ probe # None /\ probe' = None /\ status' = probe
        /\ UNCHANGED <<file, ask, checks, poller>> /\ (forced' <=> forced)
    BY <1>18 DEF Cache!ProbeEnds, Cache!railwayVars
  <2>2. Marked => Marked'
    BY <2>1 DEF Marked, Cache!Downloads, Cache!Polling
  <2>3. CASE ~beside /\ (active \/ forced)
    <3>1. active => probe # "cached"
      BY <1>18 DEF Cache!ProbeEnds
    <3>2. ~forced' /\ status' = "cached" => Marked'
      BY <2>1, <2>3, <3>1
    <3> QED BY <1>b, <1>g, <2>1, <2>3, <3>2 DEF Answers
  <2>4. CASE ~active /\ ~forced
    <3>1. Marked
      BY <1>n, <2>4 DEF Marked
    <3>2. Answers
      BY <1>n, <1>c, <2>4 DEF Answers
    <3>3. beside => ~(probe = "cached" /\ file = None)
      BY <1>18, <2>4 DEF Cache!ProbeEnds
    <3>4. status' = "cached" => file # None
      BY <1>b, <2>1, <3>3
    <3> QED BY <1>g, <2>1, <2>2, <3>1, <3>2, <3>4 DEF Answers
  <2>5. ~beside \/ (~active /\ ~forced)
    BY <1>18 DEF Cache!ProbeEnds
  <2> QED BY <2>3, <2>4, <2>5
<1>19. ASSUME Cache!DaemonRestarts PROVE Goal
  <2>1. /\ status' = "not_cached" /\ probe' = None
        /\ ask' = [r \in Cache!Askers |-> IF r \in Outsiders THEN ask[r] ELSE None]
    BY <1>19 DEF Cache!DaemonRestarts
  <2>2. Answers'
    BY <1>c, <2>1 DEF Answers
  <2> QED BY <1>g, <2>1, <2>2
<1>20. Goal
  BY <1>1, <1>2, <1>3, <1>4, <1>5, <1>6, <1>7, <1>8, <1>9, <1>10, <1>11, <1>12, <1>13, <1>14,
     <1>15, <1>16, <1>17, <1>18, <1>19
  DEF Cache!Next, Cache!Railway, Cache!Checking, Cache!Following, Cache!Others
<1> QED BY <1>20 DEF Goal

----------------------------------------------------------------------------
(* The export probe                                                         *)

\* Before the first change nothing probes.
LEMMA ProbeStarts == Probe!Init => Probe!ProbeInv
<1> SUFFICES ASSUME Probe!Init PROVE Probe!ProbeInv
  OBVIOUS
<1>1. workers \in Seq(Probe!Standing) /\ Len(workers) = 0 /\ current = 0
  BY DEF Probe!Init
<1>2. healthy \in BOOLEAN /\ alarming \in BOOLEAN /\ shown \in BOOLEAN /\ Probe!AlarmIsWatched
  BY Zenon DEF Probe!Init, Probe!AlarmIsWatched
<1>3. Probe!OneIsAboutTo
  BY <1>1 DEF Probe!OneIsAboutTo, Probe!Probes
<1> QED BY <1>1, <1>2, <1>3 DEF Probe!ProbeInv

\* What a step of one thread leaves of the others.
LEMMA ProbeMoves ==
  ASSUME workers \in Seq(Probe!Standing), NEW w \in Probe!Probes, NEW to \in Probe!Standing,
         Probe!Moves(w, to)
  PROVE  /\ workers' \in Seq(Probe!Standing) /\ Len(workers') = Len(workers)
         /\ workers'[w] = to /\ \A v \in Probe!Probes : v # w => workers'[v] = workers[v]
  BY DEF Probe!Moves, Probe!Probes

\* Every step of a probe leaves somebody who watches the alarm.
LEMMA ProbeSteps == Probe!ProbeInv /\ [Probe!Next]_(Probe!vars) => Probe!ProbeInv'
<1> SUFFICES ASSUME Probe!ProbeInv, [Probe!Next]_(Probe!vars) PROVE Probe!ProbeInv'
  OBVIOUS
<1>i. /\ workers \in Seq(Probe!Standing) /\ current \in 0 .. Len(workers)
      /\ Probe!OneIsAboutTo
  BY DEF Probe!ProbeInv
<1>b. healthy \in BOOLEAN /\ alarming \in BOOLEAN /\ shown \in BOOLEAN /\ Probe!AlarmIsWatched
  BY DEF Probe!ProbeInv
<1>t. healthy' \in BOOLEAN /\ alarming' \in BOOLEAN /\ shown' \in BOOLEAN
  BY <1>b, Zenon DEF Probe!Next, Probe!vars, Probe!Schedule, Probe!DriveChanges,
      Probe!Cancelled, Probe!GraceEnds, Probe!TimeIsOver, Probe!Raise, Probe!Clear
<1>1. CASE Probe!Schedule
  <2>1. /\ workers' \in Seq(Probe!Standing) /\ Len(workers') = Len(workers) + 1
        /\ current' = Len(workers) + 1 /\ workers'[current'] = "grace"
        /\ \A v \in Probe!Probes : workers'[v] = workers[v]
    BY <1>i, <1>1 DEF Probe!Schedule, Probe!Standing, Probe!Probes
  <2>2. Probe!OneIsAboutTo'
    BY <1>i, <2>1 DEF Probe!OneIsAboutTo, Probe!Probes, Probe!Stands
  <2>3. UNCHANGED alarming /\ UNCHANGED shown
    BY <1>1 DEF Probe!Schedule
  <2>4. current' # 0 /\ workers'[current'] # "ended"
    BY <1>i, <2>1
  <2>5. Probe!AlarmIsWatched'
    BY <1>b, <2>3, <2>4, Zenon DEF Probe!AlarmIsWatched, Probe!Stands
  <2> QED BY <1>i, <1>t, <2>1, <2>2, <2>5 DEF Probe!ProbeInv
<1>2. ASSUME NEW w \in Probe!Probes,
             Probe!Cancelled(w) \/ Probe!GraceEnds(w) \/ Probe!TimeIsOver(w)
      PROVE  Probe!ProbeInv'
  <2>1. PICK to \in Probe!Standing :
          /\ Probe!Moves(w, to) /\ workers[w] # "failed"
          /\ w = current => to # "ended"
          /\ to = "failed" => w = current /\ workers[w] = "trying"
    BY <1>2 DEF Probe!Cancelled, Probe!GraceEnds, Probe!TimeIsOver, Probe!Stands, Probe!Standing
  <2>2. UNCHANGED current /\ UNCHANGED alarming /\ UNCHANGED shown
    BY <1>2 DEF Probe!Cancelled, Probe!GraceEnds, Probe!TimeIsOver
  <2>3. /\ workers' \in Seq(Probe!Standing) /\ Len(workers') = Len(workers)
        /\ workers'[w] = to /\ \A v \in Probe!Probes : v # w => workers'[v] = workers[v]
    BY <1>i, <2>1, ProbeMoves
  <2>4. Probe!OneIsAboutTo'
    <3>1. CASE Probe!GraceEnds(w)
      BY <1>i, <2>1, <2>2, <2>3, <3>1 DEF Probe!OneIsAboutTo, Probe!Probes, Probe!Stands,
          Probe!GraceEnds, Probe!Moves
    <3>2. CASE ~Probe!GraceEnds(w)
      <4>1. w = current => workers[w] # "grace"
        BY <1>2, <3>2 DEF Probe!Cancelled, Probe!TimeIsOver, Probe!Stands
      <4> QED BY <1>i, <2>1, <2>2, <2>3, <4>1 DEF Probe!OneIsAboutTo, Probe!Probes, Probe!Stands
    <3> QED BY <3>1, <3>2
  <2>5. current # 0 /\ workers[current] # "ended" => workers'[current] # "ended"
    BY <1>i, <2>1, <2>3 DEF Probe!Probes
  <2>6. Probe!AlarmIsWatched'
    BY <1>b, <2>2, <2>5, Zenon DEF Probe!AlarmIsWatched, Probe!Stands
  <2> QED BY <1>i, <1>t, <2>2, <2>3, <2>4, <2>6 DEF Probe!ProbeInv
<1>3. ASSUME NEW w \in Probe!Probes, Probe!Raise(w) PROVE Probe!ProbeInv'
  <2>1. Probe!Moves(w, "watching") /\ workers[w] = "failed" /\ UNCHANGED current
    BY <1>3 DEF Probe!Raise, Probe!Stands
  <2>2. /\ workers' \in Seq(Probe!Standing) /\ Len(workers') = Len(workers)
        /\ workers'[w] = "watching" /\ \A v \in Probe!Probes : v # w => workers'[v] = workers[v]
    BY <1>i, <2>1, ProbeMoves DEF Probe!Standing
  <2>3. Probe!OneIsAboutTo'
    BY <1>i, <2>1, <2>2 DEF Probe!OneIsAboutTo, Probe!Probes, Probe!Stands
  <2>4. current # 0 /\ workers'[current] # "ended"
    BY <1>i, <2>1, <2>2 DEF Probe!OneIsAboutTo, Probe!Probes, Probe!Stands
  <2>5. Probe!AlarmIsWatched'
    BY <1>3, <2>1, <2>4, Zenon DEF Probe!AlarmIsWatched, Probe!Stands, Probe!Raise
  <2> QED BY <1>i, <1>t, <2>1, <2>2, <2>3, <2>5 DEF Probe!ProbeInv
<1>4. ASSUME NEW w \in Probe!Probes, Probe!Clear(w) PROVE Probe!ProbeInv'
  <2>1. Probe!Moves(w, "ended") /\ w = current /\ workers[w] \in {"trying", "watching"}
          /\ current' = 0
    BY <1>4 DEF Probe!Clear
  <2>2. /\ workers' \in Seq(Probe!Standing) /\ Len(workers') = Len(workers)
        /\ workers'[w] = "ended" /\ \A v \in Probe!Probes : v # w => workers'[v] = workers[v]
    BY <1>i, <2>1, ProbeMoves DEF Probe!Standing
  <2>3. Probe!OneIsAboutTo'
    BY <1>i, <2>1, <2>2 DEF Probe!OneIsAboutTo, Probe!Probes, Probe!Stands
  <2>4. shown' = (shown /\ ~alarming)
    BY <1>4 DEF Probe!Clear
  <2>5. Probe!AlarmIsWatched'
    BY <1>b, <2>4, Zenon DEF Probe!AlarmIsWatched
  <2> QED BY <1>i, <1>t, <2>1, <2>2, <2>3, <2>5 DEF Probe!ProbeInv
<1>5. CASE Probe!DriveChanges \/ UNCHANGED Probe!vars
  <2>1. UNCHANGED <<workers, current, alarming, shown>>
    BY <1>5 DEF Probe!DriveChanges, Probe!vars
  <2> QED BY <1>i, <1>b, <1>t, <2>1 DEF Probe!ProbeInv, Probe!OneIsAboutTo,
      Probe!AlarmIsWatched, Probe!Probes, Probe!Stands
<1> QED BY <1>1, <1>2, <1>3, <1>4, <1>5 DEF Probe!Next

----------------------------------------------------------------------------
(* Handouts: bug reports, the pastes and the form                          *)

\* Nobody has mailed at the start.
LEMMA MailsStart == Handouts!HandoutsAssumption /\ Handouts!Init => Handouts!MailsInv
  BY DEF Handouts!HandoutsAssumption, Handouts!Init, Handouts!MailsInv, Handouts!MailsKeepApart

\* No step mails twice within the gap: the clock starts with every mail that was accepted.
LEMMA MailsStep ==
  Handouts!HandoutsAssumption /\ Handouts!MailsInv /\ [Handouts!Next]_(Handouts!vars)
    => Handouts!MailsInv'
<1> SUFFICES ASSUME Handouts!HandoutsAssumption, Handouts!MailsInv,
                    [Handouts!Next]_(Handouts!vars)
             PROVE  Handouts!MailsInv'
  OBVIOUS
<1> USE DEF Handouts!HandoutsAssumption, Handouts!MailsInv, Handouts!MailsKeepApart
<1>1. CASE Handouts!Report
  BY <1>1 DEF Handouts!Report
<1>2. CASE Handouts!Tick
  BY <1>2 DEF Handouts!Tick
<1>3. ASSUME NEW s \in Sessions, Handouts!Enter(s) PROVE Handouts!MailsInv'
  BY <1>3 DEF Handouts!Enter
<1>4. CASE Handouts!Restart
  BY <1>4 DEF Handouts!Restart
<1>5. CASE Handouts!Form \/ Handouts!Paste \/ (\E id \in texts : Handouts!Dismiss(id))
             \/ UNCHANGED Handouts!vars
  <2>1. UNCHANGED Handouts!mailVars
    BY <1>5 DEF Handouts!Form, Handouts!Paste, Handouts!Dismiss, Handouts!Publish,
        Handouts!Retract, Handouts!Disk, Handouts!DiskFails, Handouts!Answer, Handouts!vars
  <2> QED BY <2>1 DEF Handouts!mailVars
<1> QED BY <1>1, <1>2, <1>3, <1>4, <1>5 DEF Handouts!Next, Handouts!Posting

\* Finite sets and their sizes are the same ones in the instance.
LEMMA HandoutsSets ==
  \A S : (Handouts!IsFiniteSet(S) <=> IsFiniteSet(S))
        /\ Handouts!Cardinality(S) = Cardinality(S)
BY DEF Handouts!IsFiniteSet, IsFiniteSet, Handouts!Cardinality, Cardinality

\* The form starts withdrawn, and a handout nobody has made is not there.
LEMMA FormStarts ==
  Handouts!HandoutsAssumption /\ Handouts!Init => Handouts!PastesTypeOK /\ Handouts!FormTypeOK
  /\ Handouts!OneWaitsForTheDisk /\ Handouts!FormSurvives
<1> SUFFICES ASSUME Handouts!HandoutsAssumption, Handouts!Init
             PROVE  Handouts!PastesTypeOK /\ Handouts!FormTypeOK /\ Handouts!OneWaitsForTheDisk
                    /\ Handouts!FormSurvives
  OBVIOUS
<1>1. Handouts!PastesTypeOK
  BY FS_EmptySet, HandoutsSets DEF Handouts!PastesTypeOK, Handouts!Init, Handouts!HandoutsAssumption
<1> QED BY <1>1 DEF Handouts!Init, Handouts!FormTypeOK, Handouts!OneWaitsForTheDisk,
    Handouts!FormSurvives

\* There are never more than so many pastes, and their numbers are those given so far.
LEMMA PastesStep ==
  Handouts!HandoutsAssumption /\ Handouts!PastesTypeOK /\ [Handouts!Next]_(Handouts!vars)
  => Handouts!PastesTypeOK'
<1> SUFFICES ASSUME Handouts!HandoutsAssumption, Handouts!PastesTypeOK,
                    [Handouts!Next]_(Handouts!vars)
             PROVE  Handouts!PastesTypeOK'
  OBVIOUS
<1>0. MaxPastes \in Nat \ {0} /\ made \in Nat /\ texts \subseteq 1 .. made
      /\ Handouts!IsFiniteSet(texts)
      /\ Handouts!Cardinality(texts) \in Nat /\ Handouts!Cardinality(texts) <= MaxPastes
  <2>1. MaxPastes \in Nat \ {0} /\ made \in Nat /\ texts \subseteq 1 .. made
        /\ Handouts!Cardinality(texts) <= MaxPastes
    BY DEF Handouts!HandoutsAssumption, Handouts!PastesTypeOK
  <2>2. Handouts!IsFiniteSet(1 .. made)
    BY <2>1, FS_Interval, HandoutsSets
  <2> QED BY <2>1, <2>2, FS_Subset, FS_CardinalityType, HandoutsSets
<1>1. ASSUME Handouts!Paste PROVE Handouts!PastesTypeOK'
  <2> DEFINE new == made + 1
  <2>1. made' = new /\ texts' = texts \cup {new} /\ Handouts!Cardinality(texts) < MaxPastes
    BY <1>1 DEF Handouts!Paste
  <2>2. new \notin texts /\ new \in Nat /\ texts \cup {new} \subseteq 1 .. new
    BY <1>0
  <2>3. Handouts!Cardinality(texts \cup {new}) = Handouts!Cardinality(texts) + 1
    BY <1>0, <2>2, FS_AddElement, HandoutsSets
  <2>4. \A a, b \in Nat : a < b => a + 1 <= b
    OBVIOUS
  <2>5. Handouts!Cardinality(texts \cup {new}) <= MaxPastes
    BY <1>0, <2>1, <2>3, <2>4
  <2> QED BY <2>1, <2>2, <2>5 DEF Handouts!PastesTypeOK
<1>2. ASSUME NEW id \in texts, Handouts!Dismiss(id) PROVE Handouts!PastesTypeOK'
  <2> DEFINE less == texts \ {id}
  <2>1. made' = made /\ texts' = less
    BY <1>2 DEF Handouts!Dismiss
  <2>2. Handouts!Cardinality(less) \in Nat
        /\ Handouts!Cardinality(less) <= Handouts!Cardinality(texts)
    BY <1>0, FS_Subset, FS_CardinalityType, HandoutsSets
  <2>3. \A a, b, c \in Nat : a <= b /\ b <= c => a <= c
    OBVIOUS
  <2> HIDE DEF less
  <2>4. Handouts!Cardinality(less) <= MaxPastes
    BY <1>0, <2>2, <2>3
  <2>5. less \subseteq 1 .. made
    BY <1>0 DEF less
  <2> QED BY <1>0, <2>1, <2>4, <2>5 DEF Handouts!PastesTypeOK
<1>3. ASSUME NEW s \in Sessions, Handouts!Enter(s) PROVE Handouts!PastesTypeOK'
  <2>1. texts' = {} /\ made' = made
    BY <1>3 DEF Handouts!Enter
  <2> QED BY <1>0, <2>1, FS_EmptySet, HandoutsSets DEF Handouts!PastesTypeOK
<1>4. ASSUME Handouts!Report \/ Handouts!Tick \/ Handouts!Form \/ Handouts!Restart
             \/ UNCHANGED Handouts!vars
      PROVE  Handouts!PastesTypeOK'
  <2>1. UNCHANGED Handouts!pasteVars
    BY <1>4 DEF Handouts!Report, Handouts!Tick, Handouts!Form, Handouts!Publish,
        Handouts!Retract, Handouts!Disk, Handouts!DiskFails, Handouts!Answer, Handouts!Restart,
        Handouts!vars
  <2> QED BY <1>0, <2>1 DEF Handouts!PastesTypeOK, Handouts!pasteVars
<1> QED BY <1>1, <1>2, <1>3, <1>4 DEF Handouts!Next, Handouts!Posting

\* The form's link stays what the folder keeps, as long as nothing crosses.
LEMMA FormStep ==
  Handouts!FormTypeOK /\ Handouts!OneWaitsForTheDisk /\ Handouts!FormSurvives
  /\ [Handouts!Next]_(Handouts!vars)
    => Handouts!FormTypeOK' /\ Handouts!OneWaitsForTheDisk' /\ Handouts!FormSurvives'
<1> SUFFICES ASSUME Handouts!FormTypeOK, Handouts!OneWaitsForTheDisk, Handouts!FormSurvives,
                    [Handouts!Next]_(Handouts!vars)
             PROVE  Handouts!FormTypeOK' /\ Handouts!OneWaitsForTheDisk'
                    /\ Handouts!FormSurvives'
  OBVIOUS
<1> USE DEF Handouts!FormTypeOK, Handouts!OneWaitsForTheDisk, Handouts!FormSurvives
<1>1. ASSUME NEW l \in FormLinks, Handouts!Publish(l)
      PROVE  Handouts!FormTypeOK' /\ Handouts!OneWaitsForTheDisk' /\ Handouts!FormSurvives'
  <2> DEFINE new == [kind |-> "publish", link |-> l, folder |-> session, saved |-> FALSE]
  <2>1. /\ jobs' = jobs \cup {new} /\ mixed' = (mixed \/ jobs # {})
        /\ UNCHANGED <<session, url, page, marker>>
    BY <1>1 DEF Handouts!Publish, Handouts!Begins
  <2>2. /\ new \in [kind : {"publish", "retract"}, link : FormLinks \cup {None},
                   folder : Sessions, saved : BOOLEAN]
        /\ new.kind = "publish" /\ new.folder = session /\ ~new.saved
    OBVIOUS
  <2> HIDE DEF new
  <2>3. mixed' \in BOOLEAN /\ (~mixed' => ~mixed /\ jobs = {})
    BY <2>1
  <2> QED BY <2>1, <2>2, <2>3
<1>2. ASSUME Handouts!Retract
      PROVE  Handouts!FormTypeOK' /\ Handouts!OneWaitsForTheDisk' /\ Handouts!FormSurvives'
  <2> DEFINE new == [kind |-> "retract", link |-> None, folder |-> session, saved |-> FALSE]
  <2>1. /\ jobs' = jobs \cup {new} /\ mixed' = (mixed \/ jobs # {})
        /\ url' = None /\ page' = None /\ UNCHANGED <<session, marker>>
    BY <1>2 DEF Handouts!Retract, Handouts!Begins
  <2>2. /\ new \in [kind : {"publish", "retract"}, link : FormLinks \cup {None},
                   folder : Sessions, saved : BOOLEAN]
        /\ new.link = None /\ new.folder = session /\ ~new.saved
    OBVIOUS
  <2> HIDE DEF new
  <2>3. mixed' \in BOOLEAN /\ (~mixed' => ~mixed /\ jobs = {})
    BY <2>1
  <2> QED BY <2>1, <2>2, <2>3
<1>3. ASSUME NEW j \in jobs, Handouts!Disk(j)
      PROVE  Handouts!FormTypeOK' /\ Handouts!OneWaitsForTheDisk' /\ Handouts!FormSurvives'
  BY <1>3 DEF Handouts!Disk, Handouts!pasteVars, Handouts!mailVars
<1>4. ASSUME NEW j \in jobs, Handouts!DiskFails(j)
      PROVE  Handouts!FormTypeOK' /\ Handouts!OneWaitsForTheDisk' /\ Handouts!FormSurvives'
  BY <1>4 DEF Handouts!DiskFails, Handouts!pasteVars, Handouts!mailVars
<1>5. ASSUME NEW j \in jobs, Handouts!Answer(j)
      PROVE  Handouts!FormTypeOK' /\ Handouts!OneWaitsForTheDisk' /\ Handouts!FormSurvives'
  <2>1. /\ j.saved /\ jobs' = jobs \ {j} /\ UNCHANGED <<session, marker, mixed>>
        /\ j.kind = "publish" => url' = j.link /\ page' = j.link
        /\ j.kind # "publish" => url' = url /\ page' = page
    BY <1>5 DEF Handouts!Answer
  <2>2. Handouts!FormTypeOK'
    BY <2>1
  <2>3. ~mixed => jobs' = {} /\ marker[session] = j.link
                    /\ (j.kind = "retract" => url = None /\ page = None /\ j.link = None)
    BY <2>1
  <2>4. j.kind \in {"publish", "retract"}
    OBVIOUS
  <2> QED BY <2>1, <2>2, <2>3, <2>4
<1>6. ASSUME NEW s \in Sessions, Handouts!Enter(s)
      PROVE  Handouts!FormTypeOK' /\ Handouts!OneWaitsForTheDisk' /\ Handouts!FormSurvives'
  BY <1>6 DEF Handouts!Enter
<1>7. ASSUME Handouts!Restart
      PROVE  Handouts!FormTypeOK' /\ Handouts!OneWaitsForTheDisk' /\ Handouts!FormSurvives'
  BY <1>7 DEF Handouts!Restart, Handouts!pasteVars
<1>8. ASSUME Handouts!Posting \/ UNCHANGED Handouts!vars
      PROVE  Handouts!FormTypeOK' /\ Handouts!OneWaitsForTheDisk' /\ Handouts!FormSurvives'
  <2>1. UNCHANGED <<session, Handouts!formVars>>
    BY <1>8 DEF Handouts!Posting, Handouts!Paste, Handouts!Dismiss, Handouts!Report,
        Handouts!Tick, Handouts!vars
  <2> QED BY <2>1 DEF Handouts!formVars
<1> QED BY <1>1, <1>2, <1>3, <1>4, <1>5, <1>6, <1>7, <1>8 DEF Handouts!Next, Handouts!Form

----------------------------------------------------------------------------
(* The relays: sealed files, the bridge and the clipboard                   *)

\* Finite sets and their sizes are the same ones in the instance.
LEMMA RelaysSets ==
  \A S : (Relays!IsFiniteSet(S) <=> IsFiniteSet(S)) /\ Relays!Cardinality(S) = Cardinality(S)
BY DEF Relays!IsFiniteSet, IsFiniteSet, Relays!Cardinality, Cardinality

\* What is held grows by one file at most with a file that is stored, and else does not.
LEMMA TotalGrows ==
  ASSUME NEW f, NEW g, NEW i, Relays!RelaysAssumption, Relays!IsFiniteSet(DOMAIN f),
         DOMAIN g \subseteq DOMAIN f \cup {i},
         \A o \in DOMAIN g : o # i => g[o] = f[o]
  PROVE  /\ Relays!Total(f) \in Nat /\ Relays!Total(g) \in Nat /\ Relays!IsFiniteSet(DOMAIN g)
         /\ Relays!Total(g) <= Relays!Total(f) + Size
         /\ i \notin DOMAIN g \/ g[i] = 0 => Relays!Total(g) <= Relays!Total(f)
<1> DEFINE F == {o \in DOMAIN f : f[o] # 0}
           G == {o \in DOMAIN g : g[o] # 0}
<1>1. Size \in Nat
  BY DEF Relays!RelaysAssumption
<1>2. Relays!IsFiniteSet(DOMAIN f \cup {i}) /\ Relays!IsFiniteSet(DOMAIN g)
  BY FS_AddElement, FS_Subset, RelaysSets
<1>3. Relays!IsFiniteSet(F) /\ Relays!IsFiniteSet(G) /\ G \subseteq F \cup {i}
  BY <1>2, FS_Subset, RelaysSets
<1>4. i \notin DOMAIN g \/ g[i] = 0 => G \subseteq F
  BY <1>3
<1> DEFINE m == Relays!Cardinality(F)  n == Relays!Cardinality(G)
<1>5. m \in Nat /\ n \in Nat
  BY <1>3, FS_CardinalityType, RelaysSets
<1>6. n <= m + 1
  <2>1. Relays!IsFiniteSet(F \cup {i}) /\ Relays!Cardinality(F \cup {i}) \in {m, m + 1}
    BY <1>3, <1>5, FS_AddElement, RelaysSets
  <2>2. n <= Relays!Cardinality(F \cup {i})
    BY <1>3, <2>1, FS_Subset, RelaysSets
  <2> QED BY <1>5, <2>1, <2>2
<1>7. G \subseteq F => n <= m
  BY <1>3, FS_Subset, RelaysSets
<1>8. Relays!Total(f) = Size * m /\ Relays!Total(g) = Size * n
  BY DEF Relays!Total
<1> HIDE DEF F, G, m, n
<1>9. \A a, b \in Nat : (a <= b => Size * a <= Size * b) /\ Size * (a + 1) = Size * a + Size
  BY <1>1
<1>10. Size * m \in Nat /\ Size * n \in Nat
  BY <1>1, <1>5
<1>11. Size * n <= Size * (m + 1) /\ Size * (m + 1) = Size * m + Size
  BY <1>5, <1>6, <1>9
<1>12. i \notin DOMAIN g \/ g[i] = 0 => Size * n <= Size * m
  BY <1>4, <1>5, <1>7, <1>9
<1> QED BY <1>2, <1>8, <1>10, <1>11, <1>12

\* Nothing is held at the start.
LEMMA ParcelsStart == Relays!RelaysAssumption /\ Relays!Init => Relays!ParcelsInv
<1> SUFFICES ASSUME Relays!RelaysAssumption, Relays!Init PROVE Relays!ParcelsInv
  OBVIOUS
<1>1. DOMAIN files = {} /\ streams = [i \in FileIds |-> 0] /\ crossed = FALSE
  BY DEF Relays!Init
<1>2. Relays!IsFiniteSet(DOMAIN files) /\ {i \in DOMAIN files : files[i] # 0} = {}
  BY <1>1, FS_EmptySet, RelaysSets
<1>3. Relays!Total(files) = 0
  BY <1>2, FS_EmptySet, RelaysSets DEF Relays!Total, Relays!RelaysAssumption
<1>4. streams \in [FileIds -> 0 .. Size] /\ \A i \in FileIds : ~(streams[i] > 0)
  BY <1>1 DEF Relays!RelaysAssumption
<1>5. Relays!RoomForOne /\ Relays!OneFits
  BY <1>3, <1>4 DEF Relays!RoomForOne, Relays!OneFits, Relays!RelaysAssumption
<1> QED BY <1>1, <1>2, <1>4, <1>5 DEF Relays!ParcelsInv

\* Every step keeps room for the upload under way.
LEMMA ParcelsStep ==
  Relays!RelaysAssumption /\ Relays!ParcelsInv /\ [Relays!Next]_(Relays!vars)
    => Relays!ParcelsInv'
<1> SUFFICES ASSUME Relays!RelaysAssumption, Relays!ParcelsInv, [Relays!Next]_(Relays!vars)
             PROVE  Relays!ParcelsInv'
  OBVIOUS
<1>i. /\ Relays!IsFiniteSet(DOMAIN files) /\ streams \in [FileIds -> 0 .. Size]
      /\ crossed \in BOOLEAN
      /\ Relays!RoomForOne /\ Relays!OneFits
  BY DEF Relays!ParcelsInv
<1>c. Size \in Nat \ {0} /\ MaxTotal \in Nat \ {0}
  BY DEF Relays!RelaysAssumption
<1>n. Relays!Total(files) \in Nat
  BY <1>i, TotalGrows
<1>0. ASSUME UNCHANGED <<files, streams, crossed>> PROVE Relays!ParcelsInv'
  BY <1>0, <1>i DEF Relays!ParcelsInv, Relays!RoomForOne, Relays!OneFits, Relays!Total
<1>1. ASSUME NEW i \in FileIds, Relays!Chunk(i) PROVE Relays!ParcelsInv'
  <2>1. /\ streams[i] < Size /\ streams[i] + 1 <= MaxTotal - Relays!Total(files)
        /\ streams' = [streams EXCEPT ![i] = @ + 1] /\ UNCHANGED files
    BY <1>1 DEF Relays!Chunk
  <2>2. crossed' = (crossed \/ \E o \in FileIds \ {i} : streams[o] > 0)
    BY <1>1 DEF Relays!Chunk
  <2>3. crossed' \in BOOLEAN
    BY <1>i, <2>2
  <2>a. ~crossed' => ~crossed /\ ~(\E o \in FileIds \ {i} : streams[o] > 0)
    BY <2>2, Zenon
  <2>4. ~crossed' => ~crossed /\ \A o \in FileIds : o # i => streams[o] = 0
    BY <1>i, <1>c, <2>a
  <2>5. streams' \in [FileIds -> 0 .. Size] /\ streams'[i] = streams[i] + 1
        /\ \A o \in FileIds : o # i => streams'[o] = streams[o]
    BY <1>i, <1>c, <2>1
  <2>6. Relays!Total(files)' = Relays!Total(files)
    BY <2>1 DEF Relays!Total
  <2>7. Relays!RoomForOne'
    BY <1>i, <1>c, <1>n, <2>1, <2>4, <2>5, <2>6 DEF Relays!RoomForOne
  <2>8. Relays!OneFits'
    BY <1>i, <2>4, <2>6 DEF Relays!OneFits
  <2> QED BY <1>i, <2>1, <2>3, <2>5, <2>7, <2>8 DEF Relays!ParcelsInv
<1>2. ASSUME NEW i \in FileIds, Relays!Refused(i) PROVE Relays!ParcelsInv'
  <2>1. streams' = [streams EXCEPT ![i] = 0] /\ UNCHANGED <<files, crossed>>
    BY <1>2 DEF Relays!Refused
  <2>2. streams' \in [FileIds -> 0 .. Size]
          /\ \A o \in FileIds : streams'[o] \in {0, streams[o]}
    BY <1>i, <1>c, <2>1
  <2>3. Relays!Total(files)' = Relays!Total(files)
    BY <2>1 DEF Relays!Total
  <2> QED BY <1>i, <1>c, <2>1, <2>2, <2>3 DEF Relays!ParcelsInv, Relays!RoomForOne,
      Relays!OneFits
<1>3. ASSUME NEW i \in FileIds, Relays!Stored(i) PROVE Relays!ParcelsInv'
  <2>1. /\ streams[i] = Size /\ streams' = [streams EXCEPT ![i] = 0] /\ UNCHANGED crossed
        /\ files' = [f \in DOMAIN files \cup {i} |-> IF f = i THEN Size ELSE files[f]]
    BY <1>3 DEF Relays!Stored
  <2>2. /\ Relays!Total(files') <= Relays!Total(files) + Size
        /\ Relays!IsFiniteSet(DOMAIN files')
        /\ Relays!Total(files') \in Nat
    BY <1>i, <2>1, TotalGrows
  <2>3. streams' \in [FileIds -> 0 .. Size] /\ streams'[i] = 0
        /\ \A o \in FileIds : o # i => streams'[o] = streams[o]
    BY <1>i, <1>c, <2>1
  <2>4. ~crossed => Relays!Total(files') <= MaxTotal /\ \A o \in FileIds : streams'[o] = 0
    BY <1>i, <1>c, <1>n, <2>1, <2>2, <2>3 DEF Relays!RoomForOne
  <2>5. Relays!RoomForOne'
    BY <2>1, <2>4 DEF Relays!RoomForOne
  <2>6. Relays!OneFits'
    BY <2>1, <2>4 DEF Relays!OneFits, Relays!Total
  <2> QED BY <1>i, <2>1, <2>2, <2>3, <2>5, <2>6 DEF Relays!ParcelsInv
<1>4. ASSUME NEW i \in FileIds, Relays!Take(i) \/ Relays!Forget(i) PROVE Relays!ParcelsInv'
  <2>1. /\ UNCHANGED <<streams, crossed>>
        /\ DOMAIN files' \subseteq DOMAIN files \cup {i}
        /\ \A o \in DOMAIN files' : o # i => files'[o] = files[o]
        /\ i \notin DOMAIN files' \/ files'[i] = 0
    BY <1>4 DEF Relays!Take, Relays!Forget
  <2>2. /\ Relays!Total(files') <= Relays!Total(files) /\ Relays!IsFiniteSet(DOMAIN files')
        /\ Relays!Total(files') \in Nat
    BY <1>i, <2>1, TotalGrows
  <2>t. Relays!Total(files)' = Relays!Total(files')
    BY DEF Relays!Total
  <2>3. Relays!RoomForOne' /\ Relays!OneFits'
    BY <1>i, <1>c, <1>n, <2>1, <2>2, <2>t DEF Relays!RoomForOne, Relays!OneFits
  <2> QED BY <1>i, <2>1, <2>2, <2>3 DEF Relays!ParcelsInv
<1>5. CASE Relays!RailwayRestarts
  <2>1. files' = <<>> /\ streams' = [i \in FileIds |-> 0] /\ UNCHANGED crossed
    BY <1>5 DEF Relays!RailwayRestarts
  <2>2. Relays!IsFiniteSet(DOMAIN files') /\ {i \in DOMAIN files' : files'[i] # 0} = {}
    BY <2>1, FS_EmptySet, RelaysSets
  <2>3. Relays!Total(files)' = 0
    BY <1>c, <2>2, FS_EmptySet, RelaysSets DEF Relays!Total
  <2> QED BY <1>i, <1>c, <2>1, <2>2, <2>3 DEF Relays!ParcelsInv, Relays!RoomForOne,
      Relays!OneFits
<1>6. CASE Relays!Bridge
  BY <1>0, <1>6 DEF Relays!Bridge, Relays!MacConnects, Relays!MacEnds, Relays!MacTakesOver,
      Relays!TabletConnects, Relays!TabletEnds, Relays!Ask, Relays!Answer, Relays!fileVars
<1>7. CASE Relays!Clipboard \/ UNCHANGED Relays!vars
  BY <1>0, <1>7 DEF Relays!Clipboard, Relays!CountClip, Relays!StoreClip, Relays!ReadClip,
      Relays!ExpireClip, Relays!fileVars, Relays!vars
<1> QED BY <1>1, <1>2, <1>3, <1>4, <1>5, <1>6, <1>7 DEF Relays!Next, Relays!Parcels

\* Nothing is parked at first.
LEMMA BridgeStarts == Relays!RelaysAssumption /\ Relays!Init => Relays!BridgeInv
/\ Relays!ClipsTypeOK
<1> SUFFICES ASSUME Relays!RelaysAssumption, Relays!Init
             PROVE  Relays!BridgeInv /\ Relays!ClipsTypeOK
  OBVIOUS
<1> USE DEF Relays!Init
<1>1. Relays!BridgeTypeOK
  BY DEF Relays!BridgeTypeOK, Relays!RelaysAssumption
<1>2. parked \subseteq Relays!AskedSoFar /\ answered \subseteq Relays!AskedSoFar
      /\ inbound \subseteq [at : Macs, id : Relays!AskedSoFar] /\ Relays!RequestsComeHome
  BY DEF Relays!RequestsComeHome
<1>3. Relays!ClipsTypeOK
  <2>1. /\ box = [seq |-> 0, clip |-> 0] /\ clips = 0 /\ writing = FALSE /\ after = -1
        /\ got = 0 /\ 0 \in 0 .. 0
    OBVIOUS
  <2>2. [seq |-> 0, clip |-> 0] \in [seq : Nat, clip : 0 .. 0]
    OBVIOUS
  <2> QED BY <2>1, <2>2 DEF Relays!ClipsTypeOK
<1> QED BY <1>1, <1>2, <1>3 DEF Relays!BridgeInv

\* A request stays parked with its tablet, unanswered, until it is answered or dropped.
LEMMA BridgeStep == Relays!RelaysAssumption /\ Relays!BridgeInv /\ [Relays!Next]_(Relays!vars)
=> Relays!BridgeInv'
<1> SUFFICES ASSUME Relays!RelaysAssumption, Relays!BridgeInv, [Relays!Next]_(Relays!vars)
             PROVE  Relays!BridgeInv'
  OBVIOUS
<1>0. /\ MaxRequests \in Nat \ {0} /\ None \notin Macs \cup Tablets /\ Macs \cap Tablets = {}
      /\ Relays!BridgeTypeOK /\ parked \subseteq Relays!AskedSoFar
         /\ answered \subseteq Relays!AskedSoFar
      /\ inbound \subseteq [at : Macs, id : Relays!AskedSoFar]
      /\ parked \cap answered = {} /\ \A id \in parked : id[1] \in alive
  BY DEF Relays!RelaysAssumption, Relays!BridgeInv, Relays!RequestsComeHome
<1>t. \A r \in Relays!AskedSoFar : r \in Relays!Requests /\ r[1] \in Tablets
      /\ r[2] \in 1 .. MaxRequests
  BY DEF Relays!AskedSoFar, Relays!Requests
<1>1. ASSUME NEW m \in Macs, Relays!MacConnects(m) PROVE Relays!BridgeInv'
  <2>1. /\ alive' = alive \cup {m} /\ UNCHANGED <<asked, parked, inbound, answered>>
        /\ \/ mac' = m /\ joining' = joining
           \/ mac \notin {None, m} /\ mac' = mac
              /\ joining' = joining \cup {[new |-> m, old |-> mac]}
    BY <1>1 DEF Relays!MacConnects
  <2>2. Relays!BridgeTypeOK'
    BY <1>0, <2>1 DEF Relays!BridgeTypeOK
  <2>3. Relays!AskedSoFar' = Relays!AskedSoFar
    BY <2>1 DEF Relays!AskedSoFar
  <2> QED BY <1>0, <2>1, <2>2, <2>3 DEF Relays!BridgeInv, Relays!RequestsComeHome
<1>2. ASSUME NEW m \in Macs, Relays!MacEnds(m) PROVE Relays!BridgeInv'
  <2>1. /\ alive' = alive \ {m} /\ inbound' \subseteq inbound
        /\ mac' \in {mac, None} /\ UNCHANGED <<joining, asked, parked, answered>>
    BY <1>2 DEF Relays!MacEnds
  <2>2. Relays!BridgeTypeOK'
    BY <1>0, <2>1 DEF Relays!BridgeTypeOK
  <2>3. Relays!AskedSoFar' = Relays!AskedSoFar
    BY <2>1 DEF Relays!AskedSoFar
  <2>4. \A id \in parked : id[1] # m
    BY <1>0, <1>t
  <2> QED BY <1>0, <2>1, <2>2, <2>3, <2>4 DEF Relays!BridgeInv, Relays!RequestsComeHome
<1>3. ASSUME NEW j \in joining, Relays!MacTakesOver(j) PROVE Relays!BridgeInv'
  <2>1. /\ alive' = alive \ {j.old} /\ joining' = joining \ {j} /\ mac' = j.new
        /\ UNCHANGED <<asked, parked, answered, inbound>>
    BY <1>3 DEF Relays!MacTakesOver
  <2>2. j.new \in Macs /\ j.old \in Macs
    BY <1>0 DEF Relays!BridgeTypeOK
  <2>3. Relays!BridgeTypeOK'
    BY <1>0, <2>1, <2>2 DEF Relays!BridgeTypeOK
  <2>4. Relays!AskedSoFar' = Relays!AskedSoFar
    BY <2>1 DEF Relays!AskedSoFar
  <2>5. \A id \in parked : id[1] # j.old
    BY <1>0, <1>t, <2>2
  <2> QED BY <1>0, <2>1, <2>3, <2>4, <2>5 DEF Relays!BridgeInv, Relays!RequestsComeHome
<1>4. ASSUME NEW t \in Tablets, Relays!TabletConnects(t) PROVE Relays!BridgeInv'
  <2>1. alive' = alive \cup {t} /\ UNCHANGED <<mac, joining, asked, parked, answered, inbound>>
    BY <1>4 DEF Relays!TabletConnects, Relays!bridgeVars
  <2>2. Relays!BridgeTypeOK' /\ Relays!AskedSoFar' = Relays!AskedSoFar
    BY <1>0, <2>1 DEF Relays!BridgeTypeOK, Relays!AskedSoFar
  <2> QED BY <1>0, <2>1, <2>2 DEF Relays!BridgeInv, Relays!RequestsComeHome
<1>5. ASSUME NEW t \in Tablets, Relays!TabletEnds(t) PROVE Relays!BridgeInv'
  <2>1. /\ alive' = alive \ {t} /\ parked' = {id \in parked : id[1] # t}
        /\ UNCHANGED <<mac, joining, asked, answered, inbound>>
    BY <1>5 DEF Relays!TabletEnds
  <2>2. Relays!BridgeTypeOK' /\ Relays!AskedSoFar' = Relays!AskedSoFar
    BY <1>0, <2>1 DEF Relays!BridgeTypeOK, Relays!AskedSoFar
  <2> QED BY <1>0, <2>1, <2>2 DEF Relays!BridgeInv, Relays!RequestsComeHome
<1>6. ASSUME NEW t \in Tablets, NEW stale \in SUBSET parked, Relays!Ask(t, stale)
      PROVE  Relays!BridgeInv'
  <2> DEFINE n == asked[t] + 1
             id == <<t, n>>
  <2>1. /\ t \in alive /\ asked[t] < MaxRequests /\ asked' = [asked EXCEPT ![t] = n]
        /\ UNCHANGED <<alive, mac, joining>>
    BY <1>6 DEF Relays!Ask
  <2>2. asked \in [Tablets -> 0 .. MaxRequests]
    BY <1>0 DEF Relays!BridgeTypeOK
  <2>3. asked'[t] = n
    BY <2>1, <2>2
  <2>4. \/ /\ mac # None /\ parked' = (parked \ stale) \cup {id} /\ answered' = answered
           /\ inbound' = inbound \cup {[at |-> mac, id |-> id]}
        \/ parked' = parked \ stale /\ answered' = answered \cup {id} /\ inbound' = inbound
    BY <1>6, <2>3 DEF Relays!Ask
  <2>5. n \in 1 .. MaxRequests /\ n > asked[t] /\ asked[t] \in 0 .. MaxRequests
    <3>1. \A a, b \in Nat : a < b => a + 1 \in 1 .. b /\ a + 1 > a /\ a \in 0 .. b
      OBVIOUS
    <3> QED BY <1>0, <2>1, <2>2, <3>1
  <2> HIDE DEF n
  <2>6. asked' \in [Tablets -> 0 .. MaxRequests]
    BY <2>1, <2>2, <2>5
  <2>7. Relays!BridgeTypeOK'
    BY <1>0, <2>1, <2>6 DEF Relays!BridgeTypeOK
  <2>8. id \notin Relays!AskedSoFar /\ id[1] = t /\ id \in Relays!Requests
    BY <2>5 DEF Relays!AskedSoFar, Relays!Requests
  <2>9. Relays!AskedSoFar \subseteq Relays!AskedSoFar' /\ id \in Relays!AskedSoFar'
    <3>1. \A u \in Tablets : asked[u] <= asked'[u] /\ asked'[u] \in Nat
      BY <2>1, <2>2, <2>5
    <3>2. ASSUME NEW r \in Relays!AskedSoFar PROVE r \in Relays!AskedSoFar'
      <4>1. r \in Relays!Requests /\ r[1] \in Tablets /\ r[2] \in Nat /\ r[2] <= asked[r[1]]
        BY <1>t DEF Relays!AskedSoFar
      <4>2. asked[r[1]] \in Nat /\ asked'[r[1]] \in Nat /\ asked[r[1]] <= asked'[r[1]]
        BY <2>2, <3>1, <4>1
      <4>3. \A a, b, c \in Nat : a <= b /\ b <= c => a <= c
        OBVIOUS
      <4>4. r[2] <= asked'[r[1]]
        BY <4>1, <4>2, <4>3
      <4> QED BY <4>1, <4>4 DEF Relays!AskedSoFar
    <3>3. id[2] = n /\ n <= asked'[t]
      BY <2>3, <2>5
    <3>4. id \in Relays!AskedSoFar'
      BY <2>8, <3>3 DEF Relays!AskedSoFar
    <3> QED BY <3>2, <3>4
  <2> HIDE DEF id
  <2>10. mac # None => [at |-> mac, id |-> id] \in [at : Macs, id : Relays!AskedSoFar']
    BY <1>0, <2>9 DEF Relays!BridgeTypeOK
  <2>11. inbound \subseteq [at : Macs, id : Relays!AskedSoFar']
    BY <1>0, <2>9
  <2>12. /\ parked' \subseteq Relays!AskedSoFar' /\ answered' \subseteq Relays!AskedSoFar'
         /\ inbound' \subseteq [at : Macs, id : Relays!AskedSoFar']
    BY <1>0, <2>4, <2>9, <2>10, <2>11
  <2>13. parked' \cap answered' = {} /\ \A q \in parked' : q[1] \in alive'
    BY <1>0, <2>1, <2>4, <2>8
  <2> QED BY <2>7, <2>12, <2>13 DEF Relays!BridgeInv, Relays!RequestsComeHome
<1>7. ASSUME NEW i \in inbound, Relays!Answer(i) PROVE Relays!BridgeInv'
  <2>1. /\ inbound' = inbound \ {i} /\ parked' = parked \ {i.id}
        /\ answered' \in {answered, answered \cup {i.id}}
        /\ UNCHANGED <<alive, mac, joining, asked>>
    BY <1>7 DEF Relays!Answer
  <2>2. Relays!BridgeTypeOK' /\ Relays!AskedSoFar' = Relays!AskedSoFar
        /\ i.id \in Relays!AskedSoFar
    BY <1>0, <2>1 DEF Relays!BridgeTypeOK, Relays!AskedSoFar
  <2> QED BY <1>0, <2>1, <2>2 DEF Relays!BridgeInv, Relays!RequestsComeHome
<1>8. ASSUME Relays!RailwayRestarts PROVE Relays!BridgeInv'
  <2>1. /\ mac' = None /\ joining' = {} /\ alive' = {} /\ parked' = {} /\ inbound' = {}
        /\ UNCHANGED <<asked, answered>>
    BY <1>8 DEF Relays!RailwayRestarts
  <2>2. Relays!BridgeTypeOK' /\ Relays!AskedSoFar' = Relays!AskedSoFar
    BY <1>0, <2>1 DEF Relays!BridgeTypeOK, Relays!AskedSoFar
  <2> QED BY <1>0, <2>1, <2>2 DEF Relays!BridgeInv, Relays!RequestsComeHome
<1>9. ASSUME Relays!Clipboard \/ Relays!Parcels \/ UNCHANGED Relays!vars PROVE Relays!BridgeInv'
  <2>1. UNCHANGED <<alive, Relays!bridgeVars>>
    BY <1>9 DEF Relays!Clipboard, Relays!CountClip, Relays!StoreClip, Relays!ReadClip,
        Relays!ExpireClip, Relays!Parcels, Relays!Chunk,
       Relays!Refused, Relays!Stored, Relays!Take, Relays!Forget, Relays!vars
  <2>2. Relays!BridgeTypeOK' /\ Relays!AskedSoFar' = Relays!AskedSoFar
    BY <1>0, <2>1 DEF Relays!BridgeTypeOK, Relays!AskedSoFar, Relays!bridgeVars
  <2> QED BY <1>0, <2>1, <2>2 DEF Relays!BridgeInv, Relays!RequestsComeHome, Relays!bridgeVars
<1> QED BY <1>1, <1>2, <1>3, <1>4, <1>5, <1>6, <1>7, <1>8, <1>9 DEF Relays!Next, Relays!Bridge

\* Clips are numbered.
LEMMA ClipsStep == Relays!ClipsTypeOK /\ [Relays!Next]_(Relays!vars) => Relays!ClipsTypeOK'
<1> SUFFICES ASSUME Relays!ClipsTypeOK, [Relays!Next]_(Relays!vars) PROVE Relays!ClipsTypeOK'
  OBVIOUS
<1> USE DEF Relays!ClipsTypeOK
<1>0. box \in [seq : Nat, clip : 0 .. clips] /\ box.seq \in Nat /\ box.clip \in 0 .. clips
      /\ clips \in Nat
  OBVIOUS
<1>1. CASE Relays!CountClip
  <2>1. /\ clips' = clips + 1 /\ box' = [box EXCEPT !.seq = box.seq + 1] /\ writing' = TRUE
        /\ UNCHANGED <<after, got>>
    BY <1>1 DEF Relays!CountClip
  <2>2. 0 .. clips \subseteq 0 .. clips' /\ clips' \in Nat
    BY <1>0, <2>1
  <2>3. box' \in [seq : Nat, clip : 0 .. clips']
    BY <1>0, <2>1, <2>2
  <2> QED BY <2>1, <2>2, <2>3
<1>2. CASE Relays!StoreClip
  <2>1. /\ box' = [box EXCEPT !.clip = clips] /\ writing' = FALSE
        /\ UNCHANGED <<clips, after, got>>
    BY <1>2 DEF Relays!StoreClip
  <2>2. clips \in 0 .. clips
    BY <1>0
  <2>3. box' \in [seq : Nat, clip : 0 .. clips]
    BY <1>0, <2>1, <2>2
  <2> QED BY <2>1, <2>3
<1>3. CASE Relays!ReadClip
  BY <1>0, <1>3 DEF Relays!ReadClip
<1>4. CASE Relays!ExpireClip
  BY <1>0, <1>4 DEF Relays!ExpireClip
<1>5. CASE Relays!RailwayRestarts
  <2>1. /\ box' = [seq |-> 0, clip |-> 0] /\ writing' = FALSE
        /\ UNCHANGED <<clips, after, got>>
    BY <1>5 DEF Relays!RailwayRestarts
  <2>2. 0 \in 0 .. clips
    BY <1>0
  <2>3. box' \in [seq : Nat, clip : 0 .. clips]
    BY <2>1, <2>2
  <2> QED BY <2>1, <2>3
<1>6. CASE Relays!Bridge \/ Relays!Parcels \/ UNCHANGED Relays!vars
  <2>1. UNCHANGED Relays!clipVars
    BY <1>6 DEF Relays!Bridge, Relays!MacConnects, Relays!MacEnds, Relays!MacTakesOver,
        Relays!TabletConnects, Relays!TabletEnds, Relays!Ask,
       Relays!Answer, Relays!Parcels, Relays!Chunk, Relays!Refused, Relays!Stored, Relays!Take,
       Relays!Forget, Relays!vars
  <2> QED BY <2>1 DEF Relays!clipVars
<1> QED BY <1>1, <1>2, <1>3, <1>4, <1>5, <1>6 DEF Relays!Next, Relays!Clipboard

----------------------------------------------------------------------------
(* The opened files                                                         *)

\* Finite sets and their sizes are the same ones in the instance.
LEMMA OpenedSets ==
  \A S : (Opened!IsFiniteSet(S) <=> IsFiniteSet(S)) /\ Opened!Cardinality(S) = Cardinality(S)
BY DEF Opened!IsFiniteSet, IsFiniteSet, Opened!Cardinality, Cardinality

\* A reference that is found was there once.
LEMMA CheckIsTrue ==
  ASSUME pushed \subseteq ever, NEW tree, Opened!Remembered(tree), NEW r \in Repos,
         NEW b \in Branches,
         NEW p, NEW net, Opened!CheckRef(tree, r, b, p, net) = "present"
  PROVE  <<r, b, p>> \in ever
<1>1. CASE tree[r][b] # None
  <2>1. p \in tree[r][b][1]
    BY <1>1 DEF Opened!CheckRef
  <2> QED BY <1>1, <2>1 DEF Opened!Remembered
<1>2. CASE tree[r][b] = None
  <2>1. p \in Opened!Listing(r, b)
    BY <1>2 DEF Opened!CheckRef
  <2> QED BY <2>1 DEF Opened!Listing
<1> QED BY <1>1, <1>2

\* What was fetched is remembered as it is.
LEMMA FetchedIsTrue ==
  ASSUME pushed \subseteq ever, NEW tree, Opened!Remembered(tree), NEW r \in Repos,
         NEW queried, NEW net
  PROVE  Opened!Remembered(Opened!Fetched(tree, r, queried, net))
<1> DEFINE Known == {None} \cup {<<s>> : s \in SUBSET RepoPaths}
           row == [b \in Branches |->
             IF tree[r][b] = None /\ b \in queried
               /\ net[b] = "tree" THEN <<Opened!Listing(r, b)>>
             ELSE tree[r][b]]
           new == Opened!Fetched(tree, r, queried, net)
<1>1. tree \in [Repos -> [Branches -> Known]]
  BY DEF Opened!Remembered
<1>2. \A b \in Branches : Opened!Listing(r, b) \in SUBSET RepoPaths
        /\ \A p \in Opened!Listing(r, b) : <<r, b, p>> \in ever
  BY DEF Opened!Listing
<1>3. row \in [Branches -> Known]
  BY <1>1, <1>2
<1>4. new = [tree EXCEPT ![r] = row]
  BY DEF Opened!Fetched
<1>5. \A b \in Branches : row[b] = <<Opened!Listing(r, b)>> \/ row[b] = tree[r][b]
  OBVIOUS
<1> HIDE DEF row
<1>6. /\ new \in [Repos -> [Branches -> Known]]
      /\ new[r] = row /\ \A q \in Repos : q # r => new[q] = tree[q]
  BY <1>1, <1>3, <1>4
<1>7. ASSUME NEW q \in Repos, NEW b \in Branches, new[q][b] # None, NEW p \in new[q][b][1]
      PROVE  <<q, b, p>> \in ever
  <2>1. CASE q = r /\ row[b] = <<Opened!Listing(r, b)>>
    BY <1>2, <1>6, <1>7, <2>1
  <2>2. CASE new[q][b] = tree[q][b]
    BY <1>7, <2>2 DEF Opened!Remembered
  <2> QED BY <1>5, <1>6, <2>1, <2>2
<1> QED BY <1>6, <1>7 DEF Opened!Remembered

\* A link that is given leads to a file that was there once, whatever GitHub answers.
LEMMA ResolvedIsTrue ==
  ASSUME Opened!OpenedAssumption, pushed \subseteq ever, NEW tree, Opened!Remembered(tree),
         NEW r \in Repos,
         NEW b \in Branches, NEW dominant \in Branches \cup {None}, NEW p, NEW net
  PROVE  LET found == Opened!ResolveEntry(tree, r, b, dominant, p, net) IN
           /\ found.link \in Branches \cup {None}
           /\ found.link # None => <<r, found.link, p>> \in ever
           /\ found.reason \in {"none", "not-pushed", "no-branch", "unknown"}
           /\ Opened!Remembered(found.tree)
           /\ tree = Opened!NoTrees /\ (\A c \in Branches : net[c] # "none") =>
                /\ found.reason # "unknown"
                /\ found.link # None => <<r, found.link, p>> \in pushed
<1> DEFINE front == IF dominant \in {None, b} THEN <<>> ELSE <<dominant>>
           back == IF b = Default THEN <<>> ELSE <<Default>>
           refs == front \o <<b>> \o back
           Check(i) == Opened!CheckRef(tree, r, refs[i], p, net)
           present == {i \in 1 .. Len(refs) : Check(i) = "present"}
           queried == IF present = {} THEN Opened!ToSet(refs) ELSE Opened!ToSet(SubSeq(refs, 1,
                        Opened!Min(present)))
           fetched == Opened!Fetched(tree, r, queried, net)
           found == Opened!ResolveEntry(tree, r, b, dominant, p, net)
<1>1. Len(refs) \in 1 .. 3 /\ \A i \in 1 .. Len(refs) : refs[i] \in Branches
  <2>1. front \in Seq(Branches) /\ Len(front) \in 0 .. 1
    OBVIOUS
  <2>2. back \in Seq(Branches) /\ Len(back) \in 0 .. 1
    BY DEF Opened!OpenedAssumption
  <2> HIDE DEF front, back
  <2>3. <<b>> \in Seq(Branches) /\ Len(<<b>>) = 1
    OBVIOUS
  <2>4. front \o <<b>> \in Seq(Branches) /\ Len(front \o <<b>>) = Len(front) + 1
    BY <2>1, <2>3
  <2>5. refs \in Seq(Branches) /\ Len(refs) = Len(front) + 1 + Len(back)
    BY <2>2, <2>4
  <2> HIDE DEF refs
  <2>6. \A i \in 1 .. Len(refs) : refs[i] \in Branches
    BY <2>5
  <2>7. Len(refs) \in 1 .. 3
    <3> DEFINE m == Len(front)
               n == Len(back)
    <3>1. m \in 0 .. 1 /\ n \in 0 .. 1 /\ Len(refs) = m + 1 + n
      BY <2>1, <2>2, <2>5
    <3> HIDE DEF m, n
    <3> QED BY <3>1
  <2> QED BY <2>6, <2>7
<1>2. found = [ link |-> IF present = {} THEN None ELSE refs[Opened!Min(present)],
                reason |-> IF present # {} THEN "none"
                           ELSE IF \E i \in 1 .. Len(refs) : Check(i) = "unknown" THEN "unknown"
                           ELSE IF fetched[r][b] \in {None, <<{}>>} THEN "no-branch"
                           ELSE "not-pushed",
                tree |-> fetched ]
  BY DEF Opened!ResolveEntry
<1> HIDE DEF refs, queried, found
<1>3. Opened!Remembered(fetched)
  BY FetchedIsTrue
<1>4. ASSUME present # {} PROVE Opened!Min(present) \in present
  <2>1. present \subseteq 1 .. 3
    BY <1>1
  <2> HIDE DEF present
  <2>2. \E m \in present : \A i \in present : m <= i
    <3>1. CASE 1 \in present
      BY <2>1, <3>1
    <3>2. CASE 1 \notin present /\ 2 \in present
      BY <2>1, <3>2
    <3>3. CASE 1 \notin present /\ 2 \notin present
      <4>1. \A i \in present : i = 3
        BY <2>1, <3>3
      <4>2. PICK i \in present : TRUE
        BY <1>4
      <4> QED BY <4>1, <4>2
    <3> QED BY <3>1, <3>2, <3>3
  <2> QED BY <2>2 DEF Opened!Min
<1>5. ASSUME present # {}
      PROVE  refs[Opened!Min(present)] \in Branches
               /\ <<r, refs[Opened!Min(present)], p>> \in ever
  <2>1. Opened!Min(present) \in 1 .. Len(refs) /\ Check(Opened!Min(present)) = "present"
    BY <1>4, <1>5
  <2>2. refs[Opened!Min(present)] \in Branches
    BY <1>1, <2>1
  <2> QED BY <2>1, <2>2, CheckIsTrue
<1>9. ASSUME tree = Opened!NoTrees, \A c \in Branches : net[c] # "none"
      PROVE  \A i \in 1 .. Len(refs) :
               Check(i) = IF p \in Opened!Listing(r, refs[i]) THEN "present" ELSE "absent"
  <2> SUFFICES ASSUME NEW i \in 1 .. Len(refs)
               PROVE  Check(i) = IF p \in Opened!Listing(r, refs[i]) THEN "present" ELSE "absent"
    OBVIOUS
  <2>1. refs[i] \in Branches
    BY <1>1
  <2>2. tree[r][refs[i]] = None /\ net[refs[i]] # "none"
    BY <1>9, <2>1 DEF Opened!NoTrees
  <2> QED BY <2>2 DEF Opened!CheckRef
<1>10. ASSUME tree = Opened!NoTrees, \A c \in Branches : net[c] # "none", present # {}
       PROVE  <<r, refs[Opened!Min(present)], p>> \in pushed
  <2>1. Opened!Min(present) \in 1 .. Len(refs) /\ Check(Opened!Min(present)) = "present"
    BY <1>4, <1>10
  <2>2. p \in Opened!Listing(r, refs[Opened!Min(present)])
    BY <1>9, <1>10, <2>1
  <2> QED BY <2>2 DEF Opened!Listing
<1>11. ASSUME tree = Opened!NoTrees, \A c \in Branches : net[c] # "none"
       PROVE  \A i \in 1 .. Len(refs) : Check(i) # "unknown"
  BY <1>9, <1>11
<1> HIDE DEF present, fetched, Check
<1>6. found.link = (IF present = {} THEN None ELSE refs[Opened!Min(present)])
        /\ found.tree = fetched
  BY <1>2
<1>7. found.reason \in {"none", "not-pushed", "no-branch", "unknown"}
  BY <1>2
<1>12. tree = Opened!NoTrees /\ (\A c \in Branches : net[c] # "none") => found.reason # "unknown"
  BY <1>2, <1>11
<1> HIDE DEF found
<1>8. found.link \in Branches \cup {None}
        /\ (found.link # None => <<r, found.link, p>> \in ever)
  BY <1>5, <1>6
<1>13. tree = Opened!NoTrees /\ (\A c \in Branches : net[c] # "none")
         => (found.link # None => <<r, found.link, p>> \in pushed)
  BY <1>6, <1>10
<1> QED BY <1>3, <1>6, <1>7, <1>8, <1>12, <1>13 DEF found

\* A non-empty set of naturals below a bound has a greatest element.
LEMMA GreatestBelow ==
  ASSUME NEW B \in Nat, NEW T \in SUBSET (0 .. B), T # {}
  PROVE  \E m \in T : \A t \in T : t <= m
<1> DEFINE U == {B - t : t \in T}
           R == {ss \in Nat \X Nat : ss[1] < ss[2]}
<1>1. IsWellFoundedOn(R, Nat)
  BY NatLessThanWellFounded DEF OpToRel
<1>2. U \subseteq Nat /\ U # {}
  <2>1. ASSUME NEW t \in T PROVE B - t \in Nat
    OBVIOUS
  <2> QED BY <2>1
<1>3. PICK u \in U : \A w \in U : ~(<<w, u>> \in R)
  <2> HIDE DEF R, U
  <2> QED BY <1>1, <1>2, WFMin
<1>4. PICK m \in T : u = B - m
  BY <1>3
<1>5. ASSUME NEW t \in T PROVE t <= m
  <2>1. B - t \in U /\ B - t \in Nat /\ B - m \in Nat /\ t \in Int /\ m \in Int
    BY <1>2
  <2>2. ~(B - t < B - m)
    BY <1>3, <1>4, <2>1
  <2> QED BY <2>1, <2>2
<1> QED BY <1>5

\* The branch that is displayed is one, or none.
LEMMA DisplayIsBranch ==
  ASSUME Opened!OpenedAssumption,
         NEW repo \in [branch : Branches \cup {None}, entries : SUBSET Opened!Entry],
         Opened!IsFiniteSet(repo.entries)
  PROVE  /\ Opened!DisplayBranch(repo) \in Branches \cup {None}
         /\ repo.entries # {} => Opened!DisplayBranch(repo) \in Branches
<1> DEFINE S == repo.entries
           Of(b) == {e \in S : e.branch = b}
           Count(b) == Opened!Cardinality(Of(b))
           tied == {b \in Branches : \A c \in Branches : Count(b) >= Count(c)}
<1>1. S \subseteq Opened!Entry /\ repo.branch \in Branches \cup {None}
  OBVIOUS
<1>2. \A b \in Branches : Opened!IsFiniteSet(Of(b)) /\ Count(b) \in Nat
        /\ Count(b) <= Opened!Cardinality(S)
  BY FS_Subset, FS_CardinalityType, OpenedSets
<1>3. CASE S = {} \/ repo.branch \in tied
  BY <1>1, <1>3 DEF Opened!DisplayBranch
<1>4. CASE ~(S = {} \/ repo.branch \in tied)
  <2>1. PICK o \in S : o.branch \in Branches
    BY <1>1, <1>4 DEF Opened!Entry
  <2>2. PICK b \in Branches : \A c \in Branches : Count(b) >= Count(c)
    <3> DEFINE T == {Count(c) : c \in Branches}
    <3>1. Opened!Cardinality(S) \in Nat
      BY FS_CardinalityType, OpenedSets
    <3>2. T \in SUBSET (0 .. Opened!Cardinality(S)) /\ T # {}
      <4> HIDE DEF Count
      <4>1. \A c \in Branches : Count(c) \in 0 .. Opened!Cardinality(S)
        <5> DEFINE N == Opened!Cardinality(S)
        <5>1. N \in Nat /\ \A c \in Branches : Count(c) \in Nat /\ Count(c) <= N
          BY <1>2, <3>1
        <5> HIDE DEF N
        <5>2. \A c \in Branches : Count(c) \in 0 .. N
          BY <5>1
        <5> QED BY <5>2 DEF N
      <4> QED BY <2>1, <4>1
    <3>3. PICK m \in T : \A t \in T : t <= m
      <4> HIDE DEF T
      <4> QED BY <3>1, <3>2, GreatestBelow
    <3> HIDE DEF Count
    <3> QED BY <1>2, <3>3
  <2>3. Of(b) # {}
    <3>1. Of(o.branch) # {}
      BY <2>1
    <3>2. Count(o.branch) # 0
      <4> HIDE DEF Of
      <4> QED BY <1>2, <2>1, <3>1, FS_EmptySet, OpenedSets
    <3>3. Count(b) # 0
      <4> HIDE DEF Count, Of
      <4> QED BY <1>2, <2>1, <2>2, <3>2
    <3> QED BY <3>3, FS_EmptySet, OpenedSets
  <2>4. b \in tied
    BY <2>2
  <2> DEFINE A == {e.at : e \in {e \in S : e.branch \in tied}}
  <2>5. A \in SUBSET (0 .. MaxOpens) /\ A # {} /\ MaxOpens \in Nat
    <3> HIDE DEF tied
    <3>1. \A e \in S : e.at \in 0 .. MaxOpens
      BY <1>1 DEF Opened!Entry
    <3>2. \E e \in S : e.branch \in tied
      BY <2>3, <2>4
    <3> QED BY <3>1, <3>2 DEF Opened!OpenedAssumption
  <2>6. PICK m \in A : \A t \in A : t <= m
    <3> HIDE DEF A
    <3> QED BY <2>5, GreatestBelow
  <2> DEFINE Last(e) == e.branch \in tied /\ \A f \in S : f.branch \in tied => e.at >= f.at
  <2>7. \E e \in S : Last(e)
    <3> HIDE DEF tied
    <3>1. \A e \in S : e.at \in Int
      BY <1>1 DEF Opened!Entry
    <3>2. PICK e \in S : e.branch \in tied /\ e.at = m
      BY <2>6
    <3>3. \A f \in S : f.branch \in tied => f.at <= m
      BY <2>6
    <3> QED BY <3>1, <3>2, <3>3
  <2>8. Opened!DisplayBranch(repo) = (CHOOSE e \in S : Last(e)).branch
    BY <1>4 DEF Opened!DisplayBranch
  <2>9. (CHOOSE e \in S : Last(e)) \in S
    <3> HIDE DEF Last
    <3> QED BY <2>7
  <2> QED BY <1>1, <2>8, <2>9 DEF Opened!Entry
<1> QED BY <1>3, <1>4

LEMMA OpenedStarts == Opened!OpenedAssumption /\ Opened!Init => Opened!OpenedInv
<1> SUFFICES ASSUME Opened!OpenedAssumption, Opened!Init PROVE Opened!OpenedInv
  OBVIOUS
<1>1. pushed \subseteq ever /\ mine = None /\ cli = None
  BY DEF Opened!Init
<1>2. Opened!Waiting
  <2>1. todo \in Seq(Opened!Openings) /\ Len(todo) = 0 /\ opens = 0
    BY DEF Opened!Init
  <2>2. legacy \subseteq Opened!Openings /\ \A o, q \in legacy : o = q
    BY DEF Opened!Init, Opened!Openings, Opened!OpenedAssumption
  <2> QED BY <1>1, <2>1, <2>2 DEF Opened!Waiting, Opened!OpenedAssumption
<1>3. /\ visible \in [Repos -> {"unasked", "public", "hidden"}]
      /\ \A r \in Repos : visible[r] = "public" => r \in Public
  BY DEF Opened!Init
<1>4. Opened!Remembered(trees)
  BY DEF Opened!Init, Opened!Remembered, Opened!NoTrees
<1>5. Opened!Honest(doc)
  <2>1. Opened!IsFiniteSet({})
    BY FS_EmptySet, OpenedSets
  <2>2. Opened!NoEntries \in [branch : Branches \cup {None}, entries : SUBSET Opened!Entry]
    BY DEF Opened!NoEntries
  <2>3. \A r \in Repos : doc[r] = Opened!NoEntries
    BY DEF Opened!Init, Opened!EmptyDoc
  <2>4. doc \in Opened!Docs
    BY <2>2 DEF Opened!Init, Opened!EmptyDoc, Opened!Docs
  <2>5. Opened!NoEntries.entries = {}
    BY DEF Opened!NoEntries
  <2> QED BY <2>1, <2>3, <2>4, <2>5 DEF Opened!Honest
<1> QED BY <1>1, <1>2, <1>3, <1>4, <1>5 DEF Opened!OpenedInv

\* No tree is remembered at first.
LEMMA NoTreesRemembered == Opened!Remembered(Opened!NoTrees)
BY DEF Opened!Remembered, Opened!NoTrees

\* What is to be migrated are openings.
LEMMA MigratedAreOpenings ==
  ASSUME Opened!Waiting PROVE Opened!ToMigrate \in Seq(Opened!Openings)
<1> DEFINE S == legacy
           F == [1 .. Opened!Cardinality(S) -> S]
<1>1. S \subseteq Opened!Openings /\ \A o, q \in S : o = q
  BY DEF Opened!Waiting
<1>2. ASSUME NEW f, f \in F, Opened!Cardinality(S) \in Nat PROVE f \in Seq(Opened!Openings)
  <2> DEFINE n == Opened!Cardinality(S)
  <2>1. n \in Nat /\ f \in [1 .. n -> Opened!Openings]
    BY <1>1, <1>2
  <2> HIDE DEF n
  <2> QED BY <2>1
<1>3. CASE S = {}
  <2>1. Opened!Cardinality(S) = 0
    BY <1>3, FS_EmptySet, OpenedSets
  <2> DEFINE none == [i \in 1 .. Opened!Cardinality(S) |-> 0]
  <2>2. none \in F /\ Opened!IsInjective(none)
    BY <2>1 DEF Opened!IsInjective
  <2>3. Opened!SetToSeq(S) \in F
    BY <2>2 DEF Opened!SetToSeq
  <2> QED BY <1>2, <2>1, <2>3 DEF Opened!ToMigrate
<1>4. CASE S # {}
  <2>1. PICK o \in S : TRUE
    BY <1>4
  <2>2. S = {o}
    BY <1>1, <2>1
  <2>3. Opened!Cardinality(S) = 1
    BY <2>2, FS_Singleton, OpenedSets
  <2> DEFINE single == [i \in 1 .. Opened!Cardinality(S) |-> o]
  <2>4. single \in F /\ Opened!IsInjective(single)
    BY <2>1, <2>3 DEF Opened!IsInjective
  <2>5. Opened!SetToSeq(S) \in F
    BY <2>4 DEF Opened!SetToSeq
  <2> QED BY <1>2, <2>3, <2>5 DEF Opened!ToMigrate
<1> QED BY <1>3, <1>4

\* The first of the openings that are worked on is one, and there is room for it.
LEMMA HeadIsOpening ==
  ASSUME Opened!Waiting, todo # <<>>
  PROVE  /\ Head(todo) \in Opened!Openings /\ Tail(todo) \in Seq(Opened!Openings)
         /\ opens + 1 + Len(Tail(todo)) <= MaxOpens /\ Len(Tail(todo)) \in Nat
<1>1. todo \in Seq(Opened!Openings) /\ opens \in Nat /\ opens + Len(todo) <= MaxOpens
  BY DEF Opened!Waiting
<1>2. Head(todo) \in Opened!Openings /\ Tail(todo) \in Seq(Opened!Openings)
  BY <1>1
<1>3. Len(todo) \in Nat /\ Len(Tail(todo)) \in Nat /\ Len(todo) = Len(Tail(todo)) + 1
  BY <1>1
<1> DEFINE m == Len(todo)
           n == Len(Tail(todo))
<1>4. opens + 1 + n <= MaxOpens
  <2>1. m \in Nat /\ n \in Nat /\ m = n + 1 /\ opens + m <= MaxOpens /\ opens \in Nat
    BY <1>1, <1>3
  <2> HIDE DEF m, n
  <2> QED BY <2>1
<1> QED BY <1>2, <1>3, <1>4

\* A document with one more honest entry is honest.
LEMMA OneMoreEntry ==
  ASSUME NEW d, Opened!Honest(d), NEW r \in Public, Public \subseteq Repos, NEW b \in Branches,
         NEW gone, NEW entry \in Opened!Entry,
         entry.link # None => <<r, entry.link, entry.path>> \in ever
  PROVE  Opened!Honest([d EXCEPT ![r]
           = [branch |-> b, entries |-> (d[r].entries \ gone) \cup {entry}]])
<1> DEFINE set == (d[r].entries \ gone) \cup {entry}
           repo == [branch |-> b, entries |-> set]
           new == [d EXCEPT ![r] = repo]
<1>1. d \in [Repos -> [branch : Branches \cup {None}, entries : SUBSET Opened!Entry]]
        /\ r \in Repos
  BY DEF Opened!Honest, Opened!Docs
<1>2. d[r].entries \subseteq Opened!Entry
  BY <1>1
<1>3. Opened!IsFiniteSet(set)
  <2>1. Opened!IsFiniteSet(d[r].entries \ gone)
    <3>1. Opened!IsFiniteSet(d[r].entries)
      BY <1>1 DEF Opened!Honest
    <3> QED BY <3>1, FS_Subset, OpenedSets
  <2> QED BY <2>1, FS_AddElement, OpenedSets
<1>4. \A e \in set : e.link # None => <<r, e.link, e.path>> \in ever
  BY <1>1 DEF Opened!Honest
<1>5. set \subseteq Opened!Entry
  BY <1>2
<1> HIDE DEF set
<1>6. repo \in [branch : Branches \cup {None}, entries : SUBSET Opened!Entry]
        /\ repo.entries = set
  BY <1>5
<1> HIDE DEF repo
<1>7. /\ new \in [Repos -> [branch : Branches \cup {None}, entries : SUBSET Opened!Entry]]
      /\ new[r] = repo /\ \A q \in Repos : q # r => new[q] = d[q]
  BY <1>1, <1>6
<1> HIDE DEF new
<1>8. new \in Opened!Docs
  BY <1>7 DEF Opened!Docs
<1>9. ASSUME NEW q \in Repos
      PROVE  /\ Opened!IsFiniteSet(new[q].entries)
             /\ \A e \in new[q].entries :
                  q \in Public /\ (e.link # None => <<q, e.link, e.path>> \in ever)
  <2>1. CASE q = r
    BY <1>3, <1>4, <1>6, <1>7, <2>1
  <2>2. CASE q # r
    BY <1>7, <2>2 DEF Opened!Honest
  <2> QED BY <2>1, <2>2
<1>10. Opened!Honest(new)
  BY <1>8, <1>9 DEF Opened!Honest
<1> QED BY <1>10 DEF new, repo, set

\* A document that was linked anew is honest, whichever repositories answered.
LEMMA RelinkedIsHonest ==
  ASSUME Opened!OpenedAssumption, pushed \subseteq ever, NEW d, Opened!Honest(d),
         NEW those \in SUBSET Public, NEW net
  PROVE  Opened!Honest([r \in Repos |-> IF r \in those THEN Opened!Relinked(d[r], r,
           net) ELSE d[r]])
<1> DEFINE Repo == [branch : Branches \cup {None}, entries : SUBSET Opened!Entry]
           now == [r \in Repos |-> IF r \in those THEN Opened!Relinked(d[r], r, net) ELSE d[r]]
<1>1. d \in [Repos -> Repo]
  BY DEF Opened!Honest, Opened!Docs
<1>2. ASSUME NEW r \in those
      PROVE  /\ Opened!Relinked(d[r], r, net) \in Repo
             /\ Opened!IsFiniteSet(Opened!Relinked(d[r], r, net).entries)
             /\ \A e \in Opened!Relinked(d[r], r, net).entries :
                  e.link # None => <<r, e.link, e.path>> \in ever
  <2> DEFINE repo == d[r]
             S == repo.entries
             dominant == Opened!DisplayBranch(repo)
             Found(e) == Opened!ResolveEntry(Opened!NoTrees, r, e.branch, dominant, e.path, net)
             Again(e) == IF Found(e).reason = "unknown" THEN e
               ELSE [e EXCEPT !.link = Found(e).link, !.reason = Found(e).reason,
                       !.branch = IF Found(e).link = dominant THEN dominant ELSE @]
             New == {Again(e) : e \in S}
  <2>1. r \in Repos /\ repo \in Repo /\ Opened!IsFiniteSet(S)
    BY <1>1 DEF Opened!Honest, Opened!OpenedAssumption
  <2>2. S \subseteq Opened!Entry /\ \A e \in S : e.link # None => <<r, e.link, e.path>> \in ever
    BY <2>1 DEF Opened!Honest
  <2>3. dominant \in Branches \cup {None} /\ (S # {} => dominant \in Branches)
    BY <2>1, DisplayIsBranch
  <2>4. Opened!Relinked(repo, r, net) = [repo EXCEPT !.entries = New]
    BY DEF Opened!Relinked
  <2> HIDE DEF dominant, repo
  <2>5. ASSUME NEW e \in S
        PROVE  Again(e) \in Opened!Entry
                 /\ (Again(e).link # None => <<r, Again(e).link, Again(e).path>> \in ever)
    <3> DEFINE found == Found(e)
    <3>1. e \in Opened!Entry /\ e.branch \in Branches
      BY <2>2 DEF Opened!Entry
    <3>2. /\ found.link \in Branches \cup {None}
          /\ found.link # None => <<r, found.link, e.path>> \in ever
          /\ found.reason \in {"none", "not-pushed", "no-branch", "unknown"}
      BY <2>1, <2>3, <3>1, ResolvedIsTrue, NoTreesRemembered
    <3> HIDE DEF Found
    <3>3. CASE found.reason = "unknown"
      BY <2>2, <3>1, <3>3
    <3>4. CASE found.reason # "unknown"
      <4> DEFINE branch == IF found.link = dominant THEN dominant ELSE e.branch
      <4>1. Again(e) = [e EXCEPT !.link = found.link, !.reason = found.reason,
              !.branch = branch]
        BY <3>4
      <4>2. branch \in Branches
        BY <2>3, <3>1
      <4> HIDE DEF branch, Again, found
      <4>3. Again(e) \in Opened!Entry /\ Again(e).link = found.link /\ Again(e).path = e.path
        BY <3>1, <3>2, <4>1, <4>2 DEF Opened!Entry
      <4> QED BY <3>2, <4>3
    <3> QED BY <3>3, <3>4
  <2> HIDE DEF Again
  <2>6. New \subseteq Opened!Entry /\ \A e \in New : e.link # None
          => <<r, e.link, e.path>> \in ever
    BY <2>5
  <2>7. Opened!IsFiniteSet(New)
    <3> DEFINE f == [e \in S |-> Again(e)]
    <3>1. f \in Surjection(S, New)
      BY DEF Surjection
    <3> HIDE DEF f, New
    <3> QED BY <2>1, <3>1, FS_Surjection, OpenedSets
  <2> HIDE DEF New
  <2>8. Opened!Relinked(repo, r, net) \in Repo /\ Opened!Relinked(repo, r, net).entries = New
    BY <2>1, <2>4, <2>6
  <2> QED BY <2>6, <2>7, <2>8 DEF repo
<1>3. now \in [Repos -> Repo]
  BY <1>1, <1>2
<1>4. ASSUME NEW r \in Repos
      PROVE  /\ Opened!IsFiniteSet(now[r].entries)
             /\ \A e \in now[r].entries :
                  r \in Public /\ (e.link # None => <<r, e.link, e.path>> \in ever)
  <2>1. CASE r \in those
    <3>1. now[r] = Opened!Relinked(d[r], r, net) /\ r \in Public
      BY <2>1
    <3> QED BY <1>2, <2>1, <3>1
  <2>2. CASE r \notin those
    BY <2>2 DEF Opened!Honest
  <2> QED BY <2>1, <2>2
<1> HIDE DEF now
<1>5. Opened!Honest(now)
  BY <1>3, <1>4 DEF Opened!Honest, Opened!Docs
<1> QED BY <1>5 DEF now

\* Every step of GitHub, of the recorder and of the relink command preserves the invariant.
LEMMA OpenedSteps ==
  Opened!OpenedAssumption /\ Opened!OpenedInv /\ [Opened!Next]_(Opened!vars)
    => Opened!OpenedInv'
<1> DEFINE Seen == [Repos -> {"unasked", "public", "hidden"}]
           Shown(s) == \A r \in Repos : s[r] = "public" => r \in Public
<1> SUFFICES ASSUME Opened!OpenedAssumption, Opened!OpenedInv, [Opened!Next]_(Opened!vars)
             PROVE  Opened!OpenedInv'
  OBVIOUS
<1>0. /\ pushed \subseteq ever /\ Opened!Waiting
      /\ visible \in Seen /\ Shown(visible)
      /\ Opened!Remembered(trees) /\ Opened!Honest(doc)
      /\ (mine # None => Opened!Honest(mine.doc))
      /\ (cli # None => Opened!Honest(cli[1]))
  BY DEF Opened!OpenedInv
<1>a. ASSUME todo' \in Seq(Opened!Openings), opens' \in Nat, opens' + Len(todo') <= MaxOpens,
             legacy' \subseteq legacy, mine' # None => todo' # <<>> /\ Head(todo')[1] \in Public
      PROVE  Opened!Waiting'
  BY <1>0, <1>a DEF Opened!Waiting
<1>b. CASE UNCHANGED Opened!vars
  <2>1. UNCHANGED <<pushed, ever, doc, legacy, Opened!recorderVars, cli>>
    BY <1>b DEF Opened!vars
  <2> QED BY <1>0, <2>1 DEF Opened!OpenedInv, Opened!Waiting, Opened!Remembered, Opened!Honest,
      Opened!recorderVars
<1>1. ASSUME ever \subseteq ever', UNCHANGED <<doc, legacy, Opened!recorderVars, cli>>,
             pushed' \subseteq ever'
      PROVE  Opened!OpenedInv'
  <2>1. UNCHANGED <<visible, trees, todo, opens, mine>>
    BY <1>1 DEF Opened!recorderVars
  <2>2. Opened!Waiting'
    BY <1>0, <1>1, <2>1 DEF Opened!Waiting
  <2>3. Opened!Remembered(trees)'
    BY <1>0, <1>1, <2>1 DEF Opened!Remembered
  <2>4. Opened!Honest(doc)'
    BY <1>0, <1>1 DEF Opened!Honest
  <2>5. (mine # None => Opened!Honest(mine.doc))'
    BY <1>0, <1>1, <2>1 DEF Opened!Honest
  <2>6. (cli # None => Opened!Honest(cli[1]))'
    BY <1>0, <1>1 DEF Opened!Honest
  <2> QED BY <1>0, <1>1, <2>1, <2>2, <2>3, <2>4, <2>5, <2>6 DEF Opened!OpenedInv
<1>2. ASSUME UNCHANGED <<pushed, ever>>, Opened!Waiting', visible' \in Seen, Shown(visible'),
             Opened!Remembered(trees'), Opened!Honest(doc'), mine' # None
               => Opened!Honest(mine'.doc),
             cli' # None => Opened!Honest(cli'[1])
      PROVE  Opened!OpenedInv'
  <2>1. Opened!Remembered(trees)' /\ Opened!Honest(doc)'
          /\ (mine # None => Opened!Honest(mine.doc))'
        /\ (cli # None => Opened!Honest(cli[1]))'
    BY <1>2 DEF Opened!Remembered, Opened!Honest
  <2> QED BY <1>0, <1>2, <2>1 DEF Opened!OpenedInv
<1>3. ASSUME NEW r, NEW b, Opened!DeleteBranch(r, b) PROVE Opened!OpenedInv'
  BY <1>0, <1>1, <1>3 DEF Opened!DeleteBranch
<1>4. ASSUME NEW r, NEW b, NEW p, Opened!Push(r, b, p) PROVE Opened!OpenedInv'
  BY <1>0, <1>1, <1>4 DEF Opened!Push
<1>5. ASSUME NEW o \in Opened!Openings, Opened!Opened(o) PROVE Opened!OpenedInv'
  <2>1. Opened!ToMigrate \in Seq(Opened!Openings) /\ opens \in Nat
    BY <1>0, MigratedAreOpenings DEF Opened!Waiting
  <2>2. todo' \in Seq(Opened!Openings)
    BY <1>5, <2>1 DEF Opened!Opened
  <2>3. UNCHANGED <<pushed, ever, doc, legacy, visible, trees, opens, mine, cli>>
        /\ opens + Len(todo') <= MaxOpens /\ todo = <<>>
    BY <1>5 DEF Opened!Opened
  <2>4. mine = None
    BY <1>0, <2>3 DEF Opened!Waiting
  <2>5. Opened!Waiting'
    BY <1>a, <2>1, <2>2, <2>3, <2>4
  <2> QED BY <1>0, <1>2, <2>3, <2>5
<1>6. ASSUME Opened!Done, todo # <<>>, opens' = opens \/ opens' = opens + 1
      PROVE  Opened!Waiting' /\ mine' = None
  <2>1. Tail(todo) \in Seq(Opened!Openings) /\ opens + 1 + Len(Tail(todo)) <= MaxOpens
        /\ Len(Tail(todo)) \in Nat
    BY <1>0, <1>6, HeadIsOpening
  <2>2. todo' = Tail(todo) /\ mine' = None /\ legacy' \subseteq legacy
    BY <1>6 DEF Opened!Done
  <2>3. opens \in Nat /\ MaxOpens \in Nat
    BY <1>0 DEF Opened!Waiting, Opened!OpenedAssumption
  <2> DEFINE n == Len(Tail(todo))
  <2>4. opens' \in Nat /\ opens' + n <= MaxOpens
    <3>1. n \in Nat /\ opens + 1 + n <= MaxOpens
      BY <2>1
    <3> HIDE DEF n
    <3> QED BY <1>6, <2>3, <3>1
  <2> QED BY <1>a, <2>1, <2>2, <2>4
<1>7. CASE Opened!Drop
  <2>1. UNCHANGED <<pushed, ever, doc, trees, opens, cli>> /\ todo # <<>> /\ Opened!Done
    BY <1>7 DEF Opened!Drop
  <2>2. visible' \in Seen /\ Shown(visible')
    BY <1>0, <1>7 DEF Opened!Drop
  <2>3. Opened!Waiting' /\ mine' = None
    BY <1>6, <2>1
  <2> QED BY <1>0, <1>2, <2>1, <2>2, <2>3
<1>8. CASE Opened!Load
  <2> DEFINE r == Head(todo)[1]
  <2>1. UNCHANGED <<pushed, ever, doc, trees, opens, cli>> /\ todo # <<>>
    BY <1>8 DEF Opened!Load
  <2>2. r \in Repos
    BY <1>0, <2>1, HeadIsOpening DEF Opened!Openings
  <2>3. ASSUME NEW l, mine' = [limited |-> l, doc |-> doc], UNCHANGED <<todo, legacy>>,
               r \in Public, visible' \in Seen, Shown(visible')
        PROVE  Opened!OpenedInv'
    <3>1. Opened!Waiting'
      BY <1>0, <2>1, <2>3 DEF Opened!Waiting
    <3>2. mine'.doc = doc
      BY <2>3
    <3> QED BY <1>0, <1>2, <2>1, <2>3, <3>1, <3>2
  <2>4. CASE /\ visible[r] = "public" \/ (visible[r] = "unasked" /\ r \in Public)
             /\ visible' = [visible EXCEPT ![r] = "public"]
             /\ mine' = [limited |-> FALSE, doc |-> doc]
             /\ UNCHANGED <<todo, legacy>>
    <3>1. r \in Public
      BY <1>0, <2>2, <2>4
    <3>2. visible' \in Seen /\ Shown(visible')
      BY <1>0, <2>2, <2>4, <3>1
    <3> QED BY <2>3, <2>4, <3>1, <3>2
  <2>5. CASE /\ doc[r].entries # {} /\ UNCHANGED <<visible, todo, legacy>>
             /\ mine' = [limited |-> TRUE, doc |-> doc]
    <3>1. r \in Public
      BY <1>0, <2>2, <2>5 DEF Opened!Honest
    <3> QED BY <1>0, <2>3, <2>5, <3>1
  <2>6. CASE Opened!Done /\ UNCHANGED visible
    <3>1. Opened!Waiting' /\ mine' = None
      BY <1>6, <2>1, <2>6
    <3> QED BY <1>0, <1>2, <2>1, <2>6, <3>1
  <2> QED BY <1>8, <2>4, <2>5, <2>6 DEF Opened!Load
<1>9. ASSUME NEW net, Opened!Save(net) PROVE Opened!OpenedInv'
  <2> DEFINE r == Head(todo)[1]
             b == Head(todo)[2]
             p == Head(todo)[3]
             old == {e \in mine.doc[r].entries : e.path = p}
             found == Opened!ResolveEntry(trees, r, b, None, p, net)
             keeps == old # {} /\ (mine.limited \/ found.reason = "unknown")
             answer == IF keeps THEN CHOOSE e \in old : TRUE
                       ELSE IF mine.limited THEN [link |-> None, reason |-> "rate-limited"]
                       ELSE found
             entry == [path |-> p, branch |-> b, at |-> opens', link |-> answer.link,
                       reason |-> answer.reason]
  <2>1. UNCHANGED <<pushed, ever, visible, cli>> /\ mine # None /\ Opened!Done
          /\ opens' = opens + 1
    BY <1>9 DEF Opened!Save
  <2>2. todo # <<>> /\ r \in Public
    BY <1>0, <2>1 DEF Opened!Waiting
  <2>3. r \in Repos /\ b \in Branches /\ p \in RepoPaths
    BY <1>0, <2>2, HeadIsOpening DEF Opened!Openings
  <2>4. opens' \in 0 .. MaxOpens
    <3>1. opens + 1 + Len(Tail(todo)) <= MaxOpens /\ Len(Tail(todo)) \in Nat
      BY <1>0, <2>2, HeadIsOpening
    <3>2. opens \in Nat /\ MaxOpens \in Nat
      BY <1>0 DEF Opened!Waiting, Opened!OpenedAssumption
    <3> DEFINE n == Len(Tail(todo))
    <3>3. n \in Nat /\ opens + 1 + n <= MaxOpens
      BY <3>1
    <3> HIDE DEF n
    <3> QED BY <2>1, <3>2, <3>3
  <2>5. Opened!Waiting' /\ mine' = None
    BY <1>6, <2>1, <2>2
  <2>6. /\ found.link \in Branches \cup {None}
        /\ found.link # None => <<r, found.link, p>> \in ever
        /\ found.reason \in {"none", "not-pushed", "no-branch", "unknown"}
        /\ Opened!Remembered(found.tree)
    BY <1>0, <2>3, ResolvedIsTrue
  <2>7. doc' = [mine.doc EXCEPT ![r] =
          [branch |-> b, entries |-> (mine.doc[r].entries \ old) \cup {entry}]]
        /\ trees' = (IF mine.limited THEN trees ELSE found.tree)
    BY <1>9 DEF Opened!Save
  <2> HIDE DEF found
  <2>8. Opened!Remembered(trees')
    BY <1>0, <2>6, <2>7
  <2>9. /\ answer.link \in Branches \cup {None}
        /\ answer.link # None => <<r, answer.link, p>> \in ever
        /\ answer.reason \in {"none", "not-pushed", "no-branch", "rate-limited", "unknown"}
    <3>1. CASE keeps
      <4>1. answer \in old
        BY <3>1
      <4>2. answer \in Opened!Entry /\ answer.path = p
              /\ (answer.link # None => <<r, answer.link, answer.path>> \in ever)
        <5>1. Opened!Honest(mine.doc)
          BY <1>0, <2>1
        <5>2. answer \in mine.doc[r].entries /\ answer.path = p
          BY <4>1
        <5> HIDE DEF answer
        <5> QED BY <2>3, <5>1, <5>2 DEF Opened!Honest, Opened!Docs
      <4> HIDE DEF answer
      <4> QED BY <4>2 DEF Opened!Entry
    <3>2. CASE ~keeps /\ mine.limited
      BY <3>2
    <3>3. CASE ~keeps /\ ~mine.limited
      BY <2>6, <3>3
    <3> QED BY <3>1, <3>2, <3>3
  <2> HIDE DEF answer
  <2>10. entry \in Opened!Entry /\ entry.link = answer.link /\ entry.path = p
    BY <2>3, <2>4, <2>9 DEF Opened!Entry
  <2> HIDE DEF old, entry, r, b, p
  <2>11. Opened!Honest(doc')
    BY <1>0, <2>1, <2>2, <2>3, <2>7, <2>9, <2>10, OneMoreEntry DEF Opened!OpenedAssumption
  <2> QED BY <1>0, <1>2, <2>1, <2>5, <2>8, <2>11
<1>10. CASE Opened!Restart
  <2>1. UNCHANGED <<pushed, ever, doc, legacy, opens, cli>> /\ todo' = <<>> /\ mine' = None
        /\ trees' = Opened!NoTrees /\ visible' = [r \in Repos |-> "unasked"]
    BY <1>10 DEF Opened!Restart
  <2>2. opens \in Nat /\ opens <= MaxOpens
    <3>1. opens \in Nat /\ Len(todo) \in Nat /\ opens + Len(todo) <= MaxOpens
            /\ MaxOpens \in Nat
      BY <1>0 DEF Opened!Waiting, Opened!OpenedAssumption
    <3> DEFINE n == Len(todo)
    <3> HIDE DEF n
    <3> QED BY <3>1 DEF n
  <2>3. <<>> \in Seq(Opened!Openings) /\ Len(<<>>) = 0
    OBVIOUS
  <2>4. Opened!Waiting'
    BY <1>0, <2>1, <2>2, <2>3 DEF Opened!Waiting
  <2>5. visible' \in Seen /\ Shown(visible')
    BY <2>1
  <2> QED BY <1>0, <1>2, <2>1, <2>4, <2>5, NoTreesRemembered
<1>11. CASE Opened!Relink
  <2>1. UNCHANGED <<pushed, ever, doc, legacy, Opened!recorderVars>> /\ cli' = <<doc>>
    BY <1>11 DEF Opened!Relink
  <2>2. UNCHANGED <<visible, trees, todo, opens, mine>>
    BY <2>1 DEF Opened!recorderVars
  <2>3. Opened!Waiting'
    BY <1>0, <2>1, <2>2 DEF Opened!Waiting
  <2>4. cli'[1] = doc
    BY <2>1
  <2> QED BY <1>0, <1>2, <2>1, <2>2, <2>3, <2>4
<1>12. ASSUME NEW those \in SUBSET Public, NEW net, Opened!RelinkSave(those, net)
       PROVE  Opened!OpenedInv'
  <2> DEFINE now == [r \in Repos |-> IF r \in those THEN Opened!Relinked(cli[1][r], r,
        net) ELSE cli[1][r]]
  <2>1. UNCHANGED <<pushed, ever, legacy, Opened!recorderVars>> /\ cli' = None /\ cli # None
        /\ doc' \in {doc, now}
    BY <1>12 DEF Opened!RelinkSave
  <2>2. UNCHANGED <<visible, trees, todo, opens, mine>>
    BY <2>1 DEF Opened!recorderVars
  <2>3. Opened!Waiting'
    BY <1>0, <2>1, <2>2 DEF Opened!Waiting
  <2>4. Opened!Honest(now)
    BY <1>0, <2>1, RelinkedIsHonest
  <2> HIDE DEF now
  <2>5. Opened!Honest(doc')
    BY <1>0, <2>1, <2>4
  <2> QED BY <1>0, <1>2, <2>1, <2>2, <2>3, <2>5
<1>13. CASE Opened!GitHub
  BY <1>3, <1>4, <1>13 DEF Opened!GitHub
<1>14. CASE Opened!Recorder
  BY <1>5, <1>7, <1>8, <1>9, <1>10, <1>14 DEF Opened!Recorder
<1>15. CASE Opened!Relinker
  BY <1>11, <1>12, <1>15 DEF Opened!Relinker
<1> QED BY <1>b, <1>13, <1>14, <1>15 DEF Opened!Next

\* The entries of a repository are carried over: the same paths, each once, and links that are
\* there if the network was.
Carried(r, old, new, net) ==
  /\ \A e \in new : \E f \in old : e.path = f.path
  /\ \A f \in old : \E e \in new : e.path = f.path
  /\ (\A e, f \in old : e.path = f.path => e = f)
       => \A e, f \in new : e.path = f.path => e = f
  /\ (\A c \in Branches : net[c] # "none")
       => \A e \in new : e.link # None => <<r, e.link, e.path>> \in pushed

\* A pass changes no path, and to one that GitHub answers every link leads to what is there.
LEMMA RelinkedKeeps ==
  ASSUME Opened!OpenedAssumption, pushed \subseteq ever, NEW d, Opened!Honest(d),
         NEW r \in Public, NEW net
  PROVE  Carried(r, d[r].entries, Opened!Relinked(d[r], r, net).entries, net)
<1> DEFINE repo == d[r]
           S == repo.entries
           dominant == Opened!DisplayBranch(repo)
           Found(e) == Opened!ResolveEntry(Opened!NoTrees, r, e.branch, dominant, e.path, net)
           Again(e) == IF Found(e).reason = "unknown" THEN e
             ELSE [e EXCEPT !.link = Found(e).link, !.reason = Found(e).reason,
                     !.branch = IF Found(e).link = dominant THEN dominant ELSE @]
           New == {Again(e) : e \in S}
<1>1. /\ r \in Repos
      /\ repo \in [branch : Branches \cup {None}, entries : SUBSET Opened!Entry]
      /\ Opened!IsFiniteSet(S)
  BY DEF Opened!Honest, Opened!Docs, Opened!OpenedAssumption
<1>2. S \subseteq Opened!Entry
  BY <1>1
<1>3. dominant \in Branches \cup {None} /\ (S # {} => dominant \in Branches)
  BY <1>1, DisplayIsBranch
<1>4. Opened!Relinked(repo, r, net) = [repo EXCEPT !.entries = New]
  BY DEF Opened!Relinked
<1> HIDE DEF dominant, repo
<1>5. ASSUME NEW e \in S
      PROVE  /\ Again(e).path = e.path
             /\ (\A c \in Branches : net[c] # "none") =>
                  (Again(e).link # None => <<r, Again(e).link, Again(e).path>> \in pushed)
  <2> DEFINE found == Found(e)
  <2>1. e \in Opened!Entry /\ e.branch \in Branches
    BY <1>2 DEF Opened!Entry
  <2>2. (\A c \in Branches : net[c] # "none") =>
          /\ found.reason # "unknown"
          /\ found.link # None => <<r, found.link, e.path>> \in pushed
    BY <1>1, <1>3, <2>1, ResolvedIsTrue, NoTreesRemembered
  <2> HIDE DEF Found
  <2>3. CASE found.reason = "unknown"
    BY <2>2, <2>3
  <2>4. CASE found.reason # "unknown"
    <3> DEFINE branch == IF found.link = dominant THEN dominant ELSE e.branch
    <3>1. Again(e) = [e EXCEPT !.link = found.link, !.reason = found.reason,
            !.branch = branch]
      BY <2>4
    <3> HIDE DEF branch, Again, found
    <3>2. Again(e).link = found.link /\ Again(e).path = e.path
      BY <2>1, <3>1 DEF Opened!Entry
    <3> QED BY <2>2, <3>2
  <2> QED BY <2>3, <2>4
<1> HIDE DEF Again
<1>6. Opened!Relinked(repo, r, net).entries = New
  BY <1>1, <1>4
<1>7. /\ \A e \in New : \E f \in S : e.path = f.path
      /\ \A f \in S : \E e \in New : e.path = f.path
  BY <1>5
<1>8. ASSUME \A e, f \in S : e.path = f.path => e = f,
             NEW e \in New, NEW f \in New, e.path = f.path
      PROVE  e = f
  <2>1. PICK a \in S, b \in S : e = Again(a) /\ f = Again(b)
    OBVIOUS
  <2>2. a.path = b.path
    BY <1>5, <1>8, <2>1
  <2> QED BY <1>8, <2>1, <2>2
<1>9. (\A c \in Branches : net[c] # "none")
        => \A e \in New : e.link # None => <<r, e.link, e.path>> \in pushed
  BY <1>5
<1> HIDE DEF New
<1> QED BY <1>6, <1>7, <1>8, <1>9 DEF repo, Carried

\* At first nothing is kept and nothing has rotted.
LEMMA KeptStarts == Opened!OpenedAssumption /\ Opened!Init => Opened!KeptInv
<1> SUFFICES ASSUME Opened!Init PROVE Opened!KeptInv
  OBVIOUS
<1>1. \A r \in Repos : doc[r].entries = {}
  BY DEF Opened!Init, Opened!EmptyDoc, Opened!NoEntries
<1> QED BY <1>1 DEF Opened!Init, Opened!KeptInv, Opened!OncePerFile, Opened!RelinkHeals

\* Whoever rewrites the document keeps one entry of every opening that was written.
LEMMA KeptSteps ==
  Opened!OpenedAssumption /\ Opened!OpenedInv /\ Opened!KeptInv
    /\ [Opened!Next]_(Opened!vars) => Opened!KeptInv'
<1> SUFFICES ASSUME Opened!OpenedAssumption, Opened!OpenedInv, Opened!KeptInv,
                    [Opened!Next]_(Opened!vars)
             PROVE  Opened!KeptInv'
  OBVIOUS
<1>0. /\ Opened!OncePerFile(doc) /\ (mine # None => Opened!OncePerFile(mine.doc))
      /\ (cli # None => Opened!OncePerFile(cli[1]))
      /\ kept \subseteq Repos \X RepoPaths /\ twoWriters \in BOOLEAN /\ rotten = {}
      /\ (~twoWriters => \A x \in kept : \E e \in doc[x[1]].entries : e.path = x[2])
  BY DEF Opened!KeptInv, Opened!RelinkHeals
<1>1. ASSUME UNCHANGED <<doc, kept, twoWriters, rotten>>,
             mine' # None => mine' = mine \/ mine'.doc = doc,
             cli' # None => cli' = cli \/ cli'[1] = doc
      PROVE  Opened!KeptInv'
  <2>1. mine' # None => Opened!OncePerFile(mine'.doc)
    BY <1>0, <1>1
  <2>2. cli' # None => Opened!OncePerFile(cli'[1])
    BY <1>0, <1>1
  <2> QED BY <1>0, <1>1, <2>1, <2>2 DEF Opened!KeptInv, Opened!OncePerFile, Opened!RelinkHeals
<1>2. CASE UNCHANGED Opened!vars
  BY <1>1, <1>2 DEF Opened!vars, Opened!recorderVars
<1>3. ASSUME NEW r, NEW b, Opened!DeleteBranch(r, b) PROVE Opened!KeptInv'
  BY <1>1, <1>3 DEF Opened!DeleteBranch, Opened!recorderVars
<1>4. ASSUME NEW r, NEW b, NEW p, Opened!Push(r, b, p) PROVE Opened!KeptInv'
  BY <1>1, <1>4 DEF Opened!Push, Opened!recorderVars
<1>5. ASSUME NEW o \in Opened!Openings, Opened!Opened(o) PROVE Opened!KeptInv'
  BY <1>1, <1>5 DEF Opened!Opened
<1>6. CASE Opened!Drop
  BY <1>1, <1>6 DEF Opened!Drop, Opened!Done
<1>7. CASE Opened!Load
  <2>1. UNCHANGED <<doc, kept, twoWriters, rotten, cli>>
    BY <1>7 DEF Opened!Load
  <2>2. mine' # None => mine'.doc = doc
    BY <1>7 DEF Opened!Load, Opened!Done
  <2> QED BY <1>1, <2>1, <2>2
<1>8. ASSUME NEW net, Opened!Save(net) PROVE Opened!KeptInv'
  <2> DEFINE r == Head(todo)[1]
             b == Head(todo)[2]
             p == Head(todo)[3]
             old == {e \in mine.doc[r].entries : e.path = p}
  <2>1. mine # None /\ todo # <<>>
    BY <1>8 DEF Opened!Save, Opened!OpenedInv, Opened!Waiting
  <2>2. r \in Repos /\ p \in RepoPaths
    BY <2>1, HeadIsOpening DEF Opened!Openings, Opened!OpenedInv
  <2>3. /\ mine' = None /\ kept' = kept \cup {<<r, p>>} /\ UNCHANGED <<cli, rotten>>
        /\ twoWriters' = (twoWriters \/ doc # mine.doc)
    BY <1>8 DEF Opened!Save, Opened!Done
  <2>4. PICK entry : /\ entry.path = p
                     /\ doc' = [mine.doc EXCEPT ![r] = [branch |-> b,
                          entries |-> (mine.doc[r].entries \ old) \cup {entry}]]
    <3> DEFINE found == Opened!ResolveEntry(trees, r, b, None, p, net)
               keeps == old # {} /\ (mine.limited \/ found.reason = "unknown")
               answer == IF keeps THEN CHOOSE e \in old : TRUE
                         ELSE IF mine.limited THEN [link |-> None, reason |-> "rate-limited"]
                         ELSE found
               entry == [path |-> p, branch |-> b, at |-> opens', link |-> answer.link,
                         reason |-> answer.reason]
    <3>1. doc' = [mine.doc EXCEPT ![r] =
            [branch |-> b, entries |-> (mine.doc[r].entries \ old) \cup {entry}]]
      BY <1>8 DEF Opened!Save
    <3> HIDE DEF answer
    <3>2. entry.path = p
      OBVIOUS
    <3> HIDE DEF entry, old, r, b, p
    <3> QED BY <3>1, <3>2
  <2> DEFINE set == (mine.doc[r].entries \ old) \cup {entry}
  <2>5. mine.doc \in Opened!Docs /\ Opened!OncePerFile(mine.doc)
    BY <1>0, <2>1 DEF Opened!OpenedInv, Opened!Honest
  <2>6. doc'[r].entries = set /\ \A q \in Repos : q # r => doc'[q] = mine.doc[q]
    BY <2>2, <2>4, <2>5 DEF Opened!Docs
  <2>7. \A e, f \in set : e.path = f.path => e = f
    BY <2>2, <2>4, <2>5 DEF Opened!OncePerFile
  <2>8. \A e \in mine.doc[r].entries : e.path # p => e \in set
    OBVIOUS
  <2>9. entry \in set /\ entry.path = p
    BY <2>4
  <2> HIDE DEF set
  <2>10. Opened!OncePerFile(doc')
    BY <2>5, <2>6, <2>7 DEF Opened!OncePerFile
  <2>11. ASSUME ~twoWriters', NEW x \in kept' PROVE \E e \in doc'[x[1]].entries : e.path = x[2]
    <3>1. doc = mine.doc /\ ~twoWriters
      BY <1>0, <2>3, <2>11
    <3>2. CASE x = <<r, p>>
      BY <2>6, <2>9, <3>2
    <3>3. CASE x \in kept /\ x # <<r, p>>
      <4>1. x[1] \in Repos /\ x = <<x[1], x[2]>>
        BY <1>0, <3>3
      <4>2. PICK e \in mine.doc[x[1]].entries : e.path = x[2]
        BY <1>0, <3>1, <3>3
      <4>3. CASE x[1] = r
        BY <2>6, <2>8, <3>3, <4>1, <4>2, <4>3
      <4>4. CASE x[1] # r
        BY <2>6, <4>1, <4>2, <4>4
      <4> QED BY <4>3, <4>4
    <3> QED BY <2>3, <2>11, <3>2, <3>3
  <2>12. kept' \subseteq Repos \X RepoPaths /\ twoWriters' \in BOOLEAN
    BY <1>0, <2>2, <2>3
  <2>13. Opened!OncePerFile(doc)' /\ (cli # None => Opened!OncePerFile(cli[1]))'
    BY <1>0, <2>3, <2>10 DEF Opened!OncePerFile
  <2> QED BY <1>0, <2>3, <2>11, <2>12, <2>13 DEF Opened!KeptInv, Opened!RelinkHeals
<1>9. CASE Opened!Restart
  BY <1>1, <1>9 DEF Opened!Restart
<1>10. CASE Opened!Relink
  <2>1. cli' = <<doc>> /\ UNCHANGED <<doc, kept, twoWriters, rotten, mine>>
    BY <1>10 DEF Opened!Relink, Opened!recorderVars
  <2>2. cli'[1] = doc
    BY <2>1
  <2> QED BY <1>1, <2>1, <2>2
<1>11. ASSUME NEW those \in SUBSET Public, NEW net, Opened!RelinkSave(those, net)
       PROVE  Opened!KeptInv'
  <2> DEFINE d == cli[1]
             now == [r \in Repos |-> IF r \in those THEN Opened!Relinked(d[r], r, net) ELSE d[r]]
  <2>1. /\ cli # None /\ cli' = None /\ UNCHANGED <<mine, kept>>
        /\ \/ now = d /\ doc' = doc /\ twoWriters' = twoWriters
           \/ doc' = now /\ twoWriters' = (twoWriters \/ doc # d)
        /\ \/ rotten' = rotten
           \/ /\ doc = d /\ \A c \in Branches : net[c] # "none"
              /\ rotten' = {e \in UNION {Opened!Links(r) : r \in those} : e \notin pushed}
    BY <1>11 DEF Opened!RelinkSave, Opened!recorderVars
  <2>2. Opened!Honest(d) /\ Opened!OncePerFile(d) /\ pushed \subseteq ever
    BY <1>0, <2>1 DEF Opened!OpenedInv
  <2>3. those \subseteq Public /\ those \subseteq Repos
    BY DEF Opened!OpenedAssumption
  <2>4. \A r \in Repos : now[r] = IF r \in those THEN Opened!Relinked(d[r], r, net) ELSE d[r]
    OBVIOUS
  <2> HIDE DEF d, now
  <2>5. ASSUME NEW r \in those
        PROVE  /\ \A f \in d[r].entries : \E e \in now[r].entries : e.path = f.path
               /\ \A e, f \in now[r].entries : e.path = f.path => e = f
               /\ (\A c \in Branches : net[c] # "none")
                    => \A e \in now[r].entries : e.link # None => <<r, e.link, e.path>> \in pushed
    <3>1. r \in Public /\ r \in Repos /\ now[r] = Opened!Relinked(d[r], r, net)
      BY <2>3, <2>4
    <3>2. \A e, f \in d[r].entries : e.path = f.path => e = f
      BY <2>2, <3>1 DEF Opened!OncePerFile
    <3> DEFINE again == Opened!Relinked(d[r], r, net).entries
    <3>3. /\ \A f \in d[r].entries : \E e \in again : e.path = f.path
          /\ \A e, f \in again : e.path = f.path => e = f
          /\ (\A c \in Branches : net[c] # "none")
               => \A e \in again : e.link # None => <<r, e.link, e.path>> \in pushed
      <4>1. Carried(r, d[r].entries, again, net)
        BY <2>2, <3>1, RelinkedKeeps
      <4> HIDE DEF again
      <4> QED BY <3>2, <4>1 DEF Carried
    <3>4. now[r].entries = again
      BY <3>1
    <3> HIDE DEF again
    <3> QED BY <3>3, <3>4
  <2>6. \A r \in Repos : r \notin those => now[r] = d[r]
    BY <2>4
  <2>7. Opened!OncePerFile(now)
    BY <2>2, <2>5, <2>6 DEF Opened!OncePerFile
  <2>8. Opened!OncePerFile(doc')
    BY <1>0, <2>1, <2>7
  <2>9. ASSUME ~twoWriters', NEW x \in kept' PROVE \E e \in doc'[x[1]].entries : e.path = x[2]
    <3>1. x[1] \in Repos /\ x \in kept /\ ~twoWriters
      BY <1>0, <2>1, <2>9
    <3>2. PICK f \in doc[x[1]].entries : f.path = x[2]
      BY <1>0, <3>1
    <3>3. CASE doc' = doc
      BY <3>2, <3>3
    <3>4. CASE doc' = now /\ doc = d
      <4>1. CASE x[1] \in those
        BY <2>5, <3>2, <3>4, <4>1
      <4>2. CASE x[1] \notin those
        BY <2>6, <3>1, <3>2, <3>4, <4>2
      <4> QED BY <4>1, <4>2
    <3> QED BY <2>1, <2>9, <3>3, <3>4
  <2>10. rotten' = {}
    <3>1. CASE rotten' = rotten
      BY <1>0, <3>1
    <3>2. CASE /\ doc = d /\ \A c \in Branches : net[c] # "none"
               /\ rotten' = {e \in UNION {Opened!Links(r) : r \in those} : e \notin pushed}
      <4>1. doc' = now
        BY <2>1, <3>2
      <4>2. ASSUME NEW r \in those PROVE Opened!Links(r) \subseteq pushed
        <5>1. \A e \in doc'[r].entries : e.link # None => <<r, e.link, e.path>> \in pushed
          BY <2>5, <3>2, <4>1
        <5> QED BY <5>1 DEF Opened!Links
      <4> QED BY <3>2, <4>2
    <3> QED BY <2>1, <3>1, <3>2
  <2>11. Opened!OncePerFile(doc)' /\ (mine # None => Opened!OncePerFile(mine.doc))'
    BY <1>0, <2>1, <2>8 DEF Opened!OncePerFile
  <2> QED BY <1>0, <2>1, <2>9, <2>10, <2>11 DEF Opened!KeptInv, Opened!RelinkHeals
<1>12. CASE Opened!GitHub
  BY <1>3, <1>4, <1>12 DEF Opened!GitHub
<1>13. CASE Opened!Recorder
  BY <1>5, <1>6, <1>7, <1>8, <1>9, <1>13 DEF Opened!Recorder
<1>14. CASE Opened!Relinker
  BY <1>10, <1>11, <1>14 DEF Opened!Relinker
<1> QED BY <1>2, <1>12, <1>13, <1>14 DEF Opened!Next

\* What the invariants say of the openings.
LEMMA OpenedIsKept == Opened!KeptInv => Opened!OpenedStays /\ Opened!RelinkHeals
<1> SUFFICES ASSUME Opened!KeptInv PROVE Opened!OpenedStays /\ Opened!RelinkHeals
  OBVIOUS
<1>1. ASSUME ~twoWriters, NEW x \in kept
      PROVE  Opened!Cardinality({e \in doc[x[1]].entries : e.path = x[2]}) = 1
  <2>1. x[1] \in Repos
    BY DEF Opened!KeptInv
  <2>2. PICK e \in doc[x[1]].entries : e.path = x[2]
    BY <1>1 DEF Opened!KeptInv
  <2>3. {f \in doc[x[1]].entries : f.path = x[2]} = {e}
    BY <2>1, <2>2 DEF Opened!KeptInv, Opened!OncePerFile
  <2> QED BY <2>3, FS_Singleton, OpenedSets
<1> QED BY <1>1 DEF Opened!OpenedStays, Opened!KeptInv

\* What the invariant says of the document.
LEMMA OpenedIsPublic == Opened!OpenedInv => Opened!NothingPrivate
BY DEF Opened!OpenedInv, Opened!Honest, Opened!NothingPrivate

----------------------------------------------------------------------------
(* The lock of the daemon                                                   *)

\* Finite sets and their sizes are the same ones in the instance.
LEMMA LockSets ==
  \A S : (Lock!IsFiniteSet(S) <=> IsFiniteSet(S)) /\ Lock!Cardinality(S) = Cardinality(S)
BY DEF Lock!IsFiniteSet, IsFiniteSet, Lock!Cardinality, Cardinality

\* Of what all are the same there is one at most.
LEMMA LockIsForOne == Lock!LockAssumption /\ Lock!LockInv => Lock!OneDaemon
<1> SUFFICES ASSUME Lock!LockAssumption, ~raced, Lock!Alone PROVE Lock!OneDaemon
  BY DEF Lock!OneDaemon, Lock!LockInv
<1> DEFINE R == {p \in Processes : Lock!Runs(p)}
<1>1. \A p, q \in R : p = q
  BY DEF Lock!Alone
<1>2. Lock!Cardinality(R) <= 1
  <2>1. CASE R = {}
    BY <2>1, FS_EmptySet, LockSets
  <2>2. CASE R # {}
    <3>1. PICK p \in R : R = {p}
      BY <1>1, <2>2
    <3>2. Lock!Cardinality({p}) = 1
      BY FS_Singleton, LockSets
    <3> QED BY <3>1, <3>2
  <2> QED BY <2>1, <2>2
<1>3. signalled = {}
  BY DEF Lock!Alone
<1>4. ASSUME NEW p \in Processes, pc[p] = "run"
      PROVE  lock # None /\ (lock # Torn => lock.pid = p)
  <2>1. lock = [pid |-> p, fresh |-> TRUE]
    BY <1>4 DEF Lock!Alone
  <2>2. [pid |-> p, fresh |-> TRUE] \in [pid : Processes, fresh : BOOLEAN]
    OBVIOUS
  <2> QED BY <2>1, <2>2 DEF Lock!LockAssumption
<1> QED BY <1>2, <1>3, <1>4 DEF Lock!OneDaemon

\* Nobody has started.
LEMMA LockStarts == Lock!LockAssumption /\ Lock!Init => Lock!LockInv
<1> SUFFICES ASSUME Lock!LockAssumption, Lock!Init PROVE Lock!LockInv
  OBVIOUS
<1>1. Lock!LockTypeOK /\ raced \in BOOLEAN
  BY DEF Lock!Init, Lock!LockTypeOK
<1>2. Lock!Alone
  BY DEF Lock!Init, Lock!Alone, Lock!Runs, Lock!Starting
<1> QED BY <1>1, <1>2 DEF Lock!LockInv

\* Every step of a process leaves one daemon, as long as nothing overlaps.
LEMMA LockSteps ==
  Lock!LockAssumption /\ Lock!LockInv /\ [Lock!Next]_(Lock!vars) => Lock!LockInv'
<1> SUFFICES ASSUME Lock!LockAssumption, Lock!LockInv, [Lock!Next]_(Lock!vars)
             PROVE  Lock!LockInv'
  OBVIOUS
<1> DEFINE Held == [pid : Processes, fresh : BOOLEAN]
<1>i. Lock!LockTypeOK /\ raced \in BOOLEAN /\ (~raced => Lock!Alone)
  BY DEF Lock!LockInv
<1>t. /\ pc \in [Processes -> Lock!Starting \cup {"off", "run", "beat"}]
      /\ lock \in {None, Torn} \cup Held /\ seen \in [Processes -> {None} \cup Held]
  BY <1>i DEF Lock!LockTypeOK
<1>a. None \notin Held /\ Torn \notin Held
  BY DEF Lock!LockAssumption
<1>r. \A p \in Processes : [pid |-> p, fresh |-> TRUE] \in Held
  OBVIOUS
<1>1. ASSUME NEW p \in Processes, Lock!ReadLock(p) PROVE Lock!LockInv'
  <2>1. /\ pc[p] = "off" /\ pc' = [pc EXCEPT ![p] = "read"]
        /\ seen' = [seen EXCEPT ![p] = IF lock \in {None, Torn} THEN None ELSE lock]
        /\ UNCHANGED <<lock, stalled, signalled>>
    BY <1>1 DEF Lock!ReadLock, Lock!Go
  <2>2. Lock!LockTypeOK'
    BY <1>t, <2>1 DEF Lock!LockTypeOK, Lock!Starting
  <2>3. raced' \in BOOLEAN
    BY <1>1 DEF Lock!ReadLock
  <2>4. ~raced' => ~raced /\ lock # Torn /\ \A q \in Processes : pc[q] \notin Lock!Starting
    BY <1>1, Zenon DEF Lock!ReadLock
  <2>5. ASSUME ~raced' PROVE Lock!Alone'
    <3>1. Lock!Alone /\ lock # Torn /\ \A q \in Processes : pc[q] \notin Lock!Starting
      BY <1>i, <2>4, <2>5
    <3>2. \A q \in Processes : Lock!Runs(q) => lock = [pid |-> q, fresh |-> TRUE]
      BY <3>1 DEF Lock!Alone, Lock!Runs
    <3>3. ASSUME NEW q \in Processes, Lock!Runs(q) PROVE seen'[p] = [pid |-> q, fresh |-> TRUE]
      <4>1. lock = [pid |-> q, fresh |-> TRUE] /\ lock \notin {None, Torn}
        BY <1>a, <1>r, <3>2, <3>3
      <4> QED BY <1>t, <2>1, <4>1
    <3>4. \A q \in Processes : q # p => pc'[q] = pc[q] /\ seen'[q] = seen[q]
      BY <1>t, <2>1
    <3>5. pc'[p] = "read"
      BY <1>t, <2>1
    <3> QED BY <2>1, <3>1, <3>3, <3>4, <3>5 DEF Lock!Alone, Lock!Runs, Lock!Starting
  <2> QED BY <2>2, <2>3, <2>5 DEF Lock!LockInv
<1>2. ASSUME NEW p \in Processes, Lock!Judge(p) PROVE Lock!LockInv'
  <2>1. /\ pc[p] = "read" /\ UNCHANGED <<seen, lock, stalled, signalled, raced>>
        /\ pc' = [pc EXCEPT ![p] =
             IF seen[p] = None \/ seen[p].pid = p THEN "write"
             ELSE IF ~Lock!Alive(seen[p].pid) THEN "unlink"
             ELSE IF seen[p].fresh THEN "off" ELSE "kill"]
    BY <1>2 DEF Lock!Judge, Lock!Go
  <2>2. Lock!LockTypeOK'
    BY <1>t, <2>1 DEF Lock!LockTypeOK, Lock!Starting
  <2>3. ASSUME ~raced PROVE Lock!Alone'
    <3>1. Lock!Alone
      BY <1>i, <2>3
    <3>2. \A q \in Processes : q # p => pc'[q] = pc[q] /\ pc[q] \notin Lock!Starting
      BY <1>t, <2>1, <3>1 DEF Lock!Alone, Lock!Starting
    <3>3. ASSUME NEW q \in Processes, Lock!Runs(q) PROVE q # p /\ pc'[p] = "off"
      <4>1. q # p /\ pc[q] # "off"
        BY <2>1, <3>3 DEF Lock!Runs
      <4>2. seen[p] = [pid |-> q, fresh |-> TRUE]
        BY <2>1, <3>1, <3>3 DEF Lock!Alone, Lock!Starting
      <4>h. seen[p] \in Held
        BY <1>r, <4>2
      <4>n. seen[p] # None
        BY <1>a, <4>h
      <4>p. seen[p].pid = q
        BY <4>2
      <4>f. seen[p].fresh
        BY <4>2
      <4>3. pc'[p] = IF seen[p] = None \/ seen[p].pid = p THEN "write"
                     ELSE IF ~Lock!Alive(seen[p].pid) THEN "unlink"
                     ELSE IF seen[p].fresh THEN "off" ELSE "kill"
        BY <1>t, <2>1
      <4> QED BY <4>1, <4>3, <4>n, <4>p, <4>f, Zenon DEF Lock!Alive
    <3>4. seen[p] # None /\ seen[p].pid # p /\ Lock!Alive(seen[p].pid) => Lock!Runs(seen[p].pid)
      <4>1. seen[p] # None => seen[p].pid \in Processes
        BY <1>t
      <4> QED BY <1>t, <3>2, <4>1 DEF Lock!Runs, Lock!Alive, Lock!Starting
    <3>5. pc'[p] # "kill"
      BY <1>t, <2>1, <3>3, <3>4 DEF Lock!Alive
    <3>6. pc'[p] \notin {"run", "beat", "read"}
      BY <1>t, <2>1
    <3> QED BY <2>1, <3>1, <3>2, <3>3, <3>5, <3>6 DEF Lock!Alone, Lock!Runs, Lock!Starting
  <2> QED BY <1>i, <2>1, <2>2, <2>3 DEF Lock!LockInv
<1>3. ASSUME NEW p \in Processes, Lock!Kill(p) PROVE Lock!LockInv'
  <2>1. pc[p] = "kill" /\ pc' = [pc EXCEPT ![p] = "unlink"] /\ UNCHANGED <<seen, lock, raced>>
    BY <1>3 DEF Lock!Kill, Lock!Steps, Lock!Go
  <2>2. Lock!LockTypeOK'
    BY <1>t, <2>1 DEF Lock!LockTypeOK, Lock!Starting
  <2>3. raced
    BY <1>i, <2>1 DEF Lock!Alone
  <2> QED BY <1>i, <2>1, <2>2, <2>3 DEF Lock!LockInv
<1>4. ASSUME NEW p \in Processes, Lock!Unlink(p) \/ Lock!Empty(p) PROVE Lock!LockInv'
  <2>1. /\ pc[p] \in {"unlink", "write"} /\ UNCHANGED <<seen, stalled, signalled, raced>>
        /\ lock' \in {None, Torn}
        /\ \E to \in {"write", "fill"} : pc' = [pc EXCEPT ![p] = to]
    BY <1>4 DEF Lock!Unlink, Lock!Empty, Lock!Steps, Lock!Go
  <2>2. /\ pc'[p] \in {"write", "fill"}
        /\ pc' \in [Processes -> Lock!Starting \cup {"off", "run", "beat"}]
        /\ \A q \in Processes : q # p => pc'[q] = pc[q]
    BY <1>t, <2>1 DEF Lock!Starting
  <2>3. Lock!LockTypeOK'
    BY <1>t, <2>1, <2>2 DEF Lock!LockTypeOK
  <2>4. ASSUME ~raced PROVE Lock!Alone'
    <3>1. Lock!Alone
      BY <1>i, <2>4
    <3>2. \A q \in Processes : ~Lock!Runs(q) /\ (q # p => pc[q] \notin Lock!Starting)
      BY <2>1, <3>1 DEF Lock!Alone, Lock!Starting
    <3> QED BY <2>1, <2>2, <3>1, <3>2 DEF Lock!Alone, Lock!Runs, Lock!Starting
  <2> QED BY <1>i, <2>1, <2>3, <2>4 DEF Lock!LockInv
<1>5. ASSUME NEW p \in Processes, Lock!Fill(p) PROVE Lock!LockInv'
  <2>1. /\ pc[p] = "fill" /\ pc' = [pc EXCEPT ![p] = "run"]
        /\ UNCHANGED <<seen, stalled, signalled, raced>> /\ lock' = [pid |-> p, fresh |-> TRUE]
    BY <1>5 DEF Lock!Fill, Lock!Steps, Lock!Go
  <2>2. Lock!LockTypeOK'
    BY <1>t, <1>r, <2>1 DEF Lock!LockTypeOK
  <2>4. ASSUME ~raced PROVE Lock!Alone'
    <3>1. Lock!Alone
      BY <1>i, <2>4
    <3>2. \A q \in Processes : ~Lock!Runs(q)
            /\ (q # p => pc[q] \notin Lock!Starting /\ pc'[q] = pc[q])
      BY <1>t, <2>1, <3>1 DEF Lock!Alone, Lock!Starting
    <3>3. pc'[p] = "run"
      BY <1>t, <2>1
    <3> QED BY <2>1, <3>1, <3>2, <3>3 DEF Lock!Alone, Lock!Runs, Lock!Starting
  <2> QED BY <1>i, <2>1, <2>2, <2>4 DEF Lock!LockInv
<1>6. ASSUME NEW p \in Processes, Lock!Beat(p) PROVE Lock!LockInv'
  <2>1. /\ pc[p] = "run" /\ pc' = [pc EXCEPT ![p] = "beat"]
        /\ UNCHANGED <<seen, stalled, signalled, raced>> /\ lock' = Torn
    BY <1>6 DEF Lock!Beat, Lock!Steps, Lock!Go
  <2>2. Lock!LockTypeOK'
    BY <1>t, <2>1 DEF Lock!LockTypeOK
  <2>3. /\ pc'[p] = "beat" /\ \A q \in Processes : q # p => pc'[q] = pc[q]
    BY <1>t, <2>1
  <2>4. ASSUME ~raced PROVE Lock!Alone'
    BY <1>i, <2>1, <2>3, <2>4 DEF Lock!Alone, Lock!Runs, Lock!Starting
  <2> QED BY <1>i, <2>1, <2>2, <2>4 DEF Lock!LockInv
<1>7. ASSUME NEW p \in Processes, Lock!Beaten(p) PROVE Lock!LockInv'
  <2>1. /\ pc[p] = "beat" /\ pc' = [pc EXCEPT ![p] = "run"]
        /\ UNCHANGED <<seen, stalled, signalled, raced>> /\ lock' = [pid |-> p, fresh |-> TRUE]
    BY <1>7 DEF Lock!Beaten, Lock!Steps, Lock!Go
  <2>2. Lock!LockTypeOK'
    BY <1>t, <1>r, <2>1 DEF Lock!LockTypeOK
  <2>3. /\ pc'[p] = "run" /\ \A q \in Processes : q # p => pc'[q] = pc[q]
    BY <1>t, <2>1
  <2>4. ASSUME ~raced PROVE Lock!Alone'
    <3>1. Lock!Alone /\ Lock!Runs(p)
      BY <1>i, <2>1, <2>4 DEF Lock!Runs
    <3>2. \A q \in Processes : q # p => ~Lock!Runs(q) /\ pc[q] # "kill"
      BY <3>1 DEF Lock!Alone
    <3>3. \A q \in Processes : pc[q] \in Lock!Starting =>
            pc[q] = "read" /\ seen[q] = [pid |-> p, fresh |-> TRUE]
      BY <3>1 DEF Lock!Alone
    <3>4. \A q, r \in Processes : pc[q] \in Lock!Starting /\ pc[r] \in Lock!Starting => q = r
      BY <3>1 DEF Lock!Alone
    <3>5. \A q \in Processes : q # p => ~Lock!Runs(q)' /\ pc'[q] = pc[q] /\ seen'[q] = seen[q]
      BY <2>1, <2>3, <3>2 DEF Lock!Runs
    <3>6. pc'[p] \notin Lock!Starting /\ pc'[p] = "run" /\ lock' = [pid |-> p, fresh |-> TRUE]
      BY <2>1, <2>3 DEF Lock!Starting
    <3>7. stalled' = {} /\ signalled' = {}
      BY <2>1, <3>1 DEF Lock!Alone
    <3>8. \A q \in Processes : Lock!Runs(q)' <=> q = p
      BY <3>5, <3>6 DEF Lock!Runs
    <3>9. \A q \in Processes :
            /\ pc'[q] = "run" => q = p
            /\ pc'[q] # "beat" /\ pc'[q] # "kill"
      BY <3>2, <3>5, <3>6 DEF Lock!Runs
    <3>10. \A q \in Processes : pc'[q] \in Lock!Starting =>
             /\ pc[q] \in Lock!Starting /\ pc'[q] = "read"
             /\ seen'[q] = [pid |-> p, fresh |-> TRUE]
      BY <3>3, <3>5, <3>6
    <3>11. \A q, r \in Processes : pc'[q] \in Lock!Starting /\ pc'[r] \in Lock!Starting => r = q
      BY <3>4, <3>10
    <3> QED BY <3>6, <3>7, <3>8, <3>9, <3>10, <3>11 DEF Lock!Alone
  <2> QED BY <1>i, <2>1, <2>2, <2>4 DEF Lock!LockInv
<1>8. ASSUME NEW p \in Processes, Lock!Stall(p) PROVE Lock!LockInv'
  BY <1>8, <1>i DEF Lock!Stall, Lock!LockInv, Lock!LockTypeOK
<1>9. ASSUME NEW p \in Processes, Lock!Resume(p) PROVE Lock!LockInv'
  <2>1. p \in stalled /\ UNCHANGED <<pc, seen, lock, raced>>
    BY <1>9 DEF Lock!Resume
  <2>2. raced
    BY <1>i, <2>1 DEF Lock!Alone
  <2> QED BY <1>i, <2>1, <2>2 DEF Lock!LockInv, Lock!LockTypeOK
<1>10. ASSUME NEW p \in Processes, Lock!Exit(p) PROVE Lock!LockInv'
  <2>1. /\ Lock!Runs(p) /\ pc' = [pc EXCEPT ![p] = "off"] /\ lock' = None
        /\ signalled' = signalled \ {p} /\ UNCHANGED <<seen, stalled, raced>>
    BY <1>10 DEF Lock!Exit, Lock!Go
  <2>2. Lock!LockTypeOK'
    BY <1>t, <2>1 DEF Lock!LockTypeOK
  <2>3. /\ pc'[p] = "off" /\ \A q \in Processes : q # p => pc'[q] = pc[q]
    BY <1>t, <2>1
  <2>4. ASSUME ~raced PROVE Lock!Alone'
    <3>1. Lock!Alone /\ \A q \in Processes : Lock!Runs(q) => q = p
      BY <1>i, <2>1, <2>4 DEF Lock!Alone
    <3> QED BY <2>1, <2>3, <3>1 DEF Lock!Alone, Lock!Runs, Lock!Starting
  <2> QED BY <1>i, <2>1, <2>2, <2>4 DEF Lock!LockInv
<1>11. ASSUME NEW p \in Processes, Lock!Crash(p) PROVE Lock!LockInv'
  <2>1. /\ pc' = [pc EXCEPT ![p] = "off"] /\ UNCHANGED <<seen, lock, raced>>
        /\ signalled' = signalled \ {p} /\ stalled' = stalled \ {p}
    BY <1>11 DEF Lock!Crash, Lock!Go
  <2>2. Lock!LockTypeOK'
    BY <1>t, <2>1 DEF Lock!LockTypeOK
  <2>3. /\ pc'[p] = "off" /\ \A q \in Processes : q # p => pc'[q] = pc[q]
    BY <1>t, <2>1
  <2>4. ASSUME ~raced PROVE Lock!Alone'
    BY <1>i, <2>1, <2>3, <2>4 DEF Lock!Alone, Lock!Runs, Lock!Starting
  <2> QED BY <1>i, <2>1, <2>2, <2>4 DEF Lock!LockInv
<1>12. CASE Lock!Age
  <2>1. /\ lock \notin {None, Torn} /\ lock' = [lock EXCEPT !.fresh = FALSE]
        /\ (~Lock!Runs(lock.pid) \/ lock.pid \in stalled)
        /\ UNCHANGED <<pc, seen, stalled, signalled, raced>>
    BY <1>12 DEF Lock!Age
  <2>2. Lock!LockTypeOK'
    BY <1>t, <2>1 DEF Lock!LockTypeOK
  <2>3. ASSUME ~raced PROVE Lock!Alone'
    <3>1. Lock!Alone
      BY <1>i, <2>3
    <3>2. \A q \in Processes : ~Lock!Runs(q)
      BY <2>1, <3>1 DEF Lock!Alone, Lock!Runs
    <3> QED BY <2>1, <3>1, <3>2 DEF Lock!Alone, Lock!Runs
  <2> QED BY <1>i, <2>1, <2>2, <2>3 DEF Lock!LockInv
<1>13. CASE UNCHANGED Lock!vars
  BY <1>13, <1>i DEF Lock!vars, Lock!LockInv, Lock!LockTypeOK, Lock!Alone, Lock!Runs
<1> QED BY <1>1, <1>2, <1>3, <1>4, <1>5, <1>6, <1>7, <1>8, <1>9, <1>10, <1>11, <1>12, <1>13
    DEF Lock!Next

----------------------------------------------------------------------------
(* The slides as they are published                                         *)

\* At first all is published.
LEMMA PublishStarts == Publish!PublishAssumption /\ Publish!Init => Publish!PublishInv
<1> SUFFICES ASSUME Publish!PublishAssumption, Publish!Init PROVE Publish!PublishInv
  OBVIOUS
<1>1. 0 \in Publish!Version
  BY DEF Publish!Version, Publish!PublishAssumption
<1>2. /\ deckSource = [d \in Decks |-> 0] /\ deckDrive = deckSource /\ exportMarker = deckSource
      /\ publishedDecks = deckSource /\ listedDecks = deckSource
      /\ exports = [d \in Decks |-> [exported |-> 0, drive |-> 0, retry |-> FALSE,
                                   behind |-> FALSE]]
      /\ exportsFile.files = exports /\ exportsFile.listed = listedDecks
         /\ exportJob = Publish!NoJob /\ cooling = FALSE
      /\ lucky = TRUE
  BY DEF Publish!Init
<1>3. Publish!RecordTypeOK
  <2>1. [exported |-> 0, drive |-> 0, retry |-> FALSE, behind |-> FALSE] \in Publish!Entries
    BY <1>1 DEF Publish!Entries
  <2>2. exports \in [Decks -> Publish!Entries]
    BY <1>2, <2>1
  <2>3. deckSource \in [Decks -> Publish!Version]
    BY <1>1, <1>2
  <2> QED BY <1>2, <2>2, <2>3 DEF Publish!RecordTypeOK
<1>4. Publish!JobTypeOK /\ exportJob.deck = None /\ exportJob.at = "idle"
  BY <1>2 DEF Publish!JobTypeOK, Publish!Idle, Publish!NoJob
<1>5. \A d \in Decks : Publish!InStep(d)
  BY <1>2, <1>4 DEF Publish!InStep, Publish!PublishAssumption
<1> QED BY <1>2, <1>3, <1>4, <1>5 DEF Publish!PublishInv, Publish!LossesAreKnown

\* The variables keep their types.
LEMMA RecordStep ==
  Publish!PublishAssumption /\ Publish!RecordTypeOK /\ Publish!JobTypeOK
  /\ [Publish!Next]_(Publish!vars) => Publish!RecordTypeOK' /\ Publish!JobTypeOK'
<1> SUFFICES ASSUME Publish!PublishAssumption, Publish!RecordTypeOK, Publish!JobTypeOK,
                    [Publish!Next]_(Publish!vars)
             PROVE  Publish!RecordTypeOK' /\ Publish!JobTypeOK'
  OBVIOUS
<1>0. /\ deckSource \in [Decks -> Publish!Version] /\ deckDrive \in [Decks -> Publish!Version]
      /\ exports \in [Decks -> Publish!Entries] /\ exportMarker \in [Decks -> Publish!Version]
      /\ exportsFile.files \in [Decks -> Publish!Entries]
         /\ exportsFile.listed \in [Decks -> Publish!Version]
      /\ listedDecks \in [Decks -> Publish!Version]
         /\ publishedDecks \in [Decks -> Publish!Version]
      /\ cooling \in BOOLEAN /\ lucky \in BOOLEAN
  BY DEF Publish!RecordTypeOK
<1>j. \/ exportJob = Publish!NoJob
      \/ /\ exportJob \in [deck : Decks, at : {"pulling", "pulled", "uploaded", "recorded"},
                     pdf : Publish!Version \cup {None}]
         /\ exportJob.at # "pulling" => exportJob.pdf \in Publish!Version
  BY DEF Publish!JobTypeOK, Publish!Idle
<1>n. Publish!NoJob.at = "idle" /\ Publish!NoJob.deck = None
  BY DEF Publish!NoJob
<1>e. ASSUME NEW d \in Decks, NEW x \in Publish!Version, NEW b \in BOOLEAN
      PROVE  /\ [exports[d] EXCEPT !.drive = x, !.behind = b] \in Publish!Entries
             /\ [exports[d] EXCEPT !.exported = x, !.retry = FALSE,
                !.behind = b] \in Publish!Entries
             /\ [exports[d] EXCEPT !.exported = x, !.retry = FALSE] \in Publish!Entries
             /\ [exports[d] EXCEPT !.retry = b] \in Publish!Entries
  <2>1. exports[d] \in Publish!Entries
    BY <1>0
  <2> QED BY <2>1 DEF Publish!Entries
<1>1. ASSUME NEW d \in Decks, Publish!Take(d) PROVE Publish!RecordTypeOK' /\ Publish!JobTypeOK'
  <2>1. /\ exportJob' = [deck |-> d, at |-> "pulling", pdf |-> None]
        /\ UNCHANGED <<deckSource, deckDrive, exports, exportsFile, exportMarker,
           publishedDecks, cooling, listedDecks, lucky>>
    BY <1>1 DEF Publish!Take, Publish!world, Publish!record
  <2> QED BY <1>0, <2>1 DEF Publish!RecordTypeOK, Publish!JobTypeOK
<1>2. CASE Publish!Pull
  <2> DEFINE d == exportJob.deck
             new == [exports[d] EXCEPT !.drive = deckDrive[d], !.behind = FALSE]
  <2>1. d \in Decks
    BY <1>2, <1>j, <1>n DEF Publish!Pull
  <2>2. /\ exportJob' = [exportJob EXCEPT !.at = "pulled", !.pdf = deckDrive[d]]
        /\ exports' = [exports EXCEPT ![d] = new]
        /\ UNCHANGED <<deckSource, deckDrive, exportsFile, exportMarker, publishedDecks,
           cooling, listedDecks, lucky>>
    BY <1>2 DEF Publish!Pull, Publish!Set, Publish!world
  <2>3. new \in Publish!Entries /\ deckDrive[d] \in Publish!Version
    BY <1>0, <1>e, <2>1
  <2>4. exportJob' \in [deck : Decks, at : {"pulling", "pulled", "uploaded", "recorded"},
                  pdf : Publish!Version \cup {None}] /\ exportJob'.pdf \in Publish!Version
    BY <1>2, <1>j, <1>n, <2>2, <2>3 DEF Publish!Pull
  <2> HIDE DEF new
  <2>5. exports' \in [Decks -> Publish!Entries]
    BY <1>0, <2>1, <2>2, <2>3
  <2> QED BY <1>0, <2>2, <2>4, <2>5 DEF Publish!RecordTypeOK, Publish!JobTypeOK
<1>3. CASE Publish!GiveUp
  <2> DEFINE d == exportJob.deck
             new == [exports[d] EXCEPT !.exported = deckSource[d], !.retry = FALSE,
             !.behind = TRUE]
  <2>1. d \in Decks
    BY <1>3, <1>j, <1>n DEF Publish!GiveUp
  <2>2. /\ exportJob' = Publish!NoJob /\ exports' = [exports EXCEPT ![d] = new]
        /\ exportsFile'.files = exports' /\ exportsFile'.listed = listedDecks'
        /\ UNCHANGED <<deckSource, deckDrive, exportMarker, publishedDecks, cooling,
           listedDecks, lucky>>
    BY <1>3 DEF Publish!GiveUp, Publish!Set, Publish!SaveState, Publish!world
  <2>3. new \in Publish!Entries
    BY <1>0, <1>e, <2>1
  <2> HIDE DEF new
  <2>4. exports' \in [Decks -> Publish!Entries]
    BY <1>0, <2>1, <2>2, <2>3
  <2> QED BY <1>0, <2>2, <2>4 DEF Publish!RecordTypeOK, Publish!JobTypeOK, Publish!Idle
<1>4. CASE Publish!Upload
  <2> DEFINE d == exportJob.deck
  <2>1. d \in Decks /\ exportJob.pdf \in Publish!Version
    BY <1>4, <1>j, <1>n DEF Publish!Upload
  <2>2. /\ exportJob' = [exportJob EXCEPT !.at = "uploaded"]
        /\ publishedDecks' = [publishedDecks EXCEPT ![d] = exportJob.pdf]
        /\ UNCHANGED <<deckSource, deckDrive, exports, exportsFile, exportMarker, cooling,
           listedDecks, lucky>>
    BY <1>4 DEF Publish!Upload, Publish!world, Publish!record
  <2>3. exportJob' \in [deck : Decks, at : {"pulling", "pulled", "uploaded", "recorded"},
                  pdf : Publish!Version \cup {None}] /\ exportJob'.pdf \in Publish!Version
    BY <1>4, <1>j, <1>n, <2>1, <2>2 DEF Publish!Upload
  <2>4. publishedDecks' \in [Decks -> Publish!Version]
    BY <1>0, <2>1, <2>2
  <2> QED BY <1>0, <2>2, <2>3, <2>4 DEF Publish!RecordTypeOK, Publish!JobTypeOK
<1>5. CASE Publish!Fail
  <2> DEFINE d == exportJob.deck
             new == [exports[d] EXCEPT !.retry = TRUE]
  <2>1. d \in Decks
    BY <1>5, <1>j, <1>n DEF Publish!Fail
  <2>2. /\ exportJob' = Publish!NoJob /\ exports' = [exports EXCEPT ![d] = new]
           /\ lucky' = FALSE
        /\ exportsFile'.files = exports' /\ exportsFile'.listed = listedDecks'
        /\ UNCHANGED <<deckSource, deckDrive, exportMarker, publishedDecks, cooling,
           listedDecks>>
    BY <1>5 DEF Publish!Fail, Publish!Set, Publish!SaveState, Publish!world
  <2>3. new \in Publish!Entries
    BY <1>0, <1>e, <2>1
  <2> HIDE DEF new
  <2>4. exports' \in [Decks -> Publish!Entries]
    BY <1>0, <2>1, <2>2, <2>3
  <2> QED BY <1>0, <2>2, <2>4 DEF Publish!RecordTypeOK, Publish!JobTypeOK, Publish!Idle
<1>6. CASE Publish!Record
  <2> DEFINE d == exportJob.deck
             new == [exports[d] EXCEPT !.exported = deckSource[d], !.retry = FALSE]
  <2>1. d \in Decks
    BY <1>6, <1>j, <1>n DEF Publish!Record
  <2>2. /\ exportJob' = [exportJob EXCEPT !.at = "recorded", !.pdf = deckSource[d]]
        /\ exports' = [exports EXCEPT ![d] = new]
        /\ exportsFile'.files = exports' /\ exportsFile'.listed = listedDecks'
        /\ UNCHANGED <<deckSource, deckDrive, exportMarker, publishedDecks, cooling,
           listedDecks, lucky>>
    BY <1>6 DEF Publish!Record, Publish!Set, Publish!SaveState, Publish!world
  <2>3. new \in Publish!Entries /\ deckSource[d] \in Publish!Version
    BY <1>0, <1>e, <2>1
  <2>4. exportJob' \in [deck : Decks, at : {"pulling", "pulled", "uploaded", "recorded"},
                  pdf : Publish!Version \cup {None}] /\ exportJob'.pdf \in Publish!Version
    BY <1>6, <1>j, <1>n, <2>2, <2>3 DEF Publish!Record
  <2> HIDE DEF new
  <2>5. exports' \in [Decks -> Publish!Entries]
    BY <1>0, <2>1, <2>2, <2>3
  <2> QED BY <1>0, <2>2, <2>4, <2>5 DEF Publish!RecordTypeOK, Publish!JobTypeOK
<1>7. CASE Publish!Mark
  <2>1. exportJob.deck \in Decks /\ exportJob.pdf \in Publish!Version
    BY <1>7, <1>j, <1>n DEF Publish!Mark
  <2>2. /\ exportJob' = Publish!NoJob
           /\ exportMarker' = [exportMarker EXCEPT ![exportJob.deck] = exportJob.pdf]
              /\ cooling' = TRUE
        /\ UNCHANGED <<deckSource, deckDrive, exports, exportsFile, publishedDecks, listedDecks,
           lucky>>
    BY <1>7 DEF Publish!Mark, Publish!world
  <2>3. exportMarker' \in [Decks -> Publish!Version]
    BY <1>0, <2>1, <2>2
  <2> QED BY <1>0, <2>2, <2>3 DEF Publish!RecordTypeOK, Publish!JobTypeOK, Publish!Idle
<1>8. CASE Publish!PushList
  <2>1. /\ listedDecks' = publishedDecks /\ exports' = exports /\ exportsFile'.files = exports'
        /\ exportsFile'.listed = listedDecks'
        /\ UNCHANGED <<deckSource, deckDrive, exportMarker, publishedDecks, cooling, exportJob,
           lucky>>
    BY <1>8 DEF Publish!PushList, Publish!SaveState, Publish!world
  <2> QED BY <1>0, <1>j, <2>1 DEF Publish!RecordTypeOK, Publish!JobTypeOK, Publish!Idle,
      Publish!NoJob
<1>9. ASSUME NEW d \in Decks, Publish!RetryDue(d)
      PROVE  Publish!RecordTypeOK' /\ Publish!JobTypeOK'
  <2> DEFINE new == [exports[d] EXCEPT !.retry = FALSE]
  <2>1. /\ exports' = [exports EXCEPT ![d] = new]
        /\ UNCHANGED <<deckSource, deckDrive, exportsFile, exportMarker, publishedDecks,
           cooling, exportJob, listedDecks, lucky>>
    BY <1>9 DEF Publish!RetryDue, Publish!Set, Publish!world
  <2>2. new \in Publish!Entries
    BY <1>e, <1>0
  <2> HIDE DEF new
  <2>3. exports' \in [Decks -> Publish!Entries]
    BY <1>0, <2>1, <2>2
  <2> QED BY <1>0, <1>j, <2>1, <2>3 DEF Publish!RecordTypeOK, Publish!JobTypeOK, Publish!Idle,
      Publish!NoJob
<1>10. CASE Publish!Restart
  <2>1. /\ exports' = exportsFile.files /\ listedDecks' = exportsFile.listed
           /\ cooling' = FALSE /\ exportJob' = Publish!NoJob
        /\ lucky' \in BOOLEAN
           /\ UNCHANGED <<deckSource, deckDrive, exportsFile, exportMarker, publishedDecks>>
    BY <1>10 DEF Publish!Restart, Publish!world
  <2> QED BY <1>0, <2>1 DEF Publish!RecordTypeOK, Publish!JobTypeOK, Publish!Idle
<1>11. ASSUME NEW d \in Decks, Publish!SaveDeck(d)
       PROVE  Publish!RecordTypeOK' /\ Publish!JobTypeOK'
  <2> DEFINE n == deckSource[d] + 1
  <2>1. /\ deckSource[d] < MaxSaves /\ deckSource' = [deckSource EXCEPT ![d] = n]
           /\ lucky' \in BOOLEAN
        /\ UNCHANGED <<deckDrive, exports, exportsFile, exportMarker, publishedDecks, cooling,
           exportJob, listedDecks>>
    BY <1>11 DEF Publish!SaveDeck, Publish!record
  <2>2. n \in Publish!Version
    BY <1>0, <2>1 DEF Publish!Version, Publish!PublishAssumption
  <2> HIDE DEF n
  <2>3. deckSource' \in [Decks -> Publish!Version]
    BY <1>0, <2>1, <2>2
  <2> QED BY <1>0, <1>j, <2>1, <2>3 DEF Publish!RecordTypeOK, Publish!JobTypeOK, Publish!Idle,
      Publish!NoJob
<1>12. ASSUME NEW d \in Decks, Publish!DriveSyncs(d)
       PROVE  Publish!RecordTypeOK' /\ Publish!JobTypeOK'
  <2>1. /\ deckDrive' = [deckDrive EXCEPT ![d] = deckSource[d]]
        /\ UNCHANGED <<deckSource, exports, exportsFile, exportMarker, publishedDecks, cooling,
           exportJob, listedDecks, lucky>>
    BY <1>12 DEF Publish!DriveSyncs, Publish!record
  <2>2. deckDrive' \in [Decks -> Publish!Version]
    BY <1>0, <2>1
  <2> QED BY <1>0, <1>j, <2>1, <2>2 DEF Publish!RecordTypeOK, Publish!JobTypeOK, Publish!Idle,
      Publish!NoJob
<1>13. CASE Publish!Cooled \/ UNCHANGED Publish!vars
  <2>1. cooling' \in BOOLEAN
        /\ UNCHANGED <<deckSource, deckDrive, exports, exportsFile, exportMarker,
           publishedDecks, exportJob,
                                           listedDecks, lucky>>
    BY <1>0, <1>13 DEF Publish!Cooled, Publish!vars, Publish!world, Publish!record
  <2> QED BY <1>0, <1>j, <2>1 DEF Publish!RecordTypeOK, Publish!JobTypeOK, Publish!Idle,
      Publish!NoJob
<1> QED BY <1>1, <1>2, <1>3, <1>4, <1>5, <1>6, <1>7, <1>8, <1>9, <1>10, <1>11, <1>12, <1>13
    DEF Publish!Next

\* A loss is known: what is pulled is what PowerPoint has, unless something crosses the job.
LEMMA PublishStep == Publish!PublishAssumption /\ Publish!PublishInv
/\ [Publish!Next]_(Publish!vars) => Publish!PublishInv'
<1> SUFFICES ASSUME Publish!PublishAssumption, Publish!PublishInv, [Publish!Next]_(Publish!vars)
             PROVE  Publish!PublishInv'
  OBVIOUS
<1> DEFINE Known(d) == \/ deckSource[d] > exports[d].exported /\ deckSource[d] > exportMarker[d]
                       \/ publishedDecks[d] = deckSource[d] \/ exports[d].behind
                          \/ exportJob.deck = d
           Kept(d) == Publish!InStep(d) /\ Known(d)
           KeptNext(d) == Publish!InStep(d)' /\ Known(d)'
<1>t. Publish!RecordTypeOK' /\ Publish!JobTypeOK'
  BY RecordStep DEF Publish!PublishInv
<1> SUFFICES ASSUME lucky'
             PROVE  /\ \A d \in Decks : KeptNext(d)
                    /\ exportJob'.at \notin {"pulled", "uploaded"}
                       => exportsFile'.files = exports'
  BY <1>t DEF Publish!PublishInv, Publish!LossesAreKnown, Publish!Changed
<1>l. lucky
  BY DEF Publish!Next, Publish!Take, Publish!RetryDue, Publish!SaveDeck, Publish!DriveSyncs,
      Publish!Pull, Publish!GiveUp, Publish!Upload, Publish!Fail, Publish!Record, Publish!Mark,
     Publish!PushList, Publish!Cooled, Publish!Restart, Publish!vars
<1>s. exportJob.at \notin {"pulled", "uploaded"} => exportsFile.files = exports
  BY <1>l DEF Publish!PublishInv
<1>0. \A d \in Decks : Kept(d)
  BY <1>l DEF Publish!PublishInv, Publish!LossesAreKnown, Publish!Changed
<1>v. /\ \A d \in Decks : /\ deckSource[d] \in Nat /\ deckDrive[d] \in Nat
         /\ exportMarker[d] \in Nat
                          /\ publishedDecks[d] \in Nat /\ exports[d].exported \in Nat
                          /\ exports[d] \in Publish!Entries
      /\ deckSource \in [Decks -> Publish!Version] /\ deckDrive \in [Decks -> Publish!Version]
      /\ exports \in [Decks -> Publish!Entries] /\ exportMarker \in [Decks -> Publish!Version]
      /\ publishedDecks \in [Decks -> Publish!Version]
  BY DEF Publish!PublishInv, Publish!RecordTypeOK, Publish!Entries, Publish!Version,
      Publish!PublishAssumption
<1>j. \/ exportJob = Publish!NoJob
      \/ /\ exportJob \in [deck : Decks, at : {"pulling", "pulled", "uploaded", "recorded"},
                     pdf : Publish!Version \cup {None}]
         /\ exportJob.at # "pulling" => exportJob.pdf \in Publish!Version
  BY DEF Publish!PublishInv, Publish!JobTypeOK, Publish!Idle
<1>n. Publish!NoJob.at = "idle" /\ Publish!NoJob.deck = None /\ None \notin Decks
  BY DEF Publish!NoJob, Publish!PublishAssumption
<1>d. exportJob.at # "idle" => exportJob.deck \in Decks
  BY <1>j, <1>n
\* A deck that a step leaves alone is as it was.
<1>k. ASSUME NEW e \in Decks, exportJob.deck # e, exportJob'.deck # e,
             deckSource'[e] = deckSource[e], deckDrive'[e] = deckDrive[e],
             exports'[e] = exports[e],
             exportMarker'[e] = exportMarker[e], publishedDecks'[e] = publishedDecks[e]
      PROVE  KeptNext(e)
  BY <1>0, <1>k DEF Publish!InStep
<1>1. ASSUME NEW d \in Decks, Publish!Take(d) PROVE
             /\ \A e \in Decks : KeptNext(e)
             /\ exportJob'.at \notin {"pulled", "uploaded"} => exportsFile'.files = exports'
  <2>1. /\ exportJob = Publish!NoJob /\ exportJob'.deck = d /\ exportJob'.at = "pulling"
        /\ UNCHANGED <<deckSource, deckDrive, exports, exportsFile, exportMarker,
           publishedDecks>>
    BY <1>1 DEF Publish!Take, Publish!Idle, Publish!world, Publish!record
  <2>2. KeptNext(d)
    BY <1>0, <1>n, <2>1 DEF Publish!InStep
  <2>3. \A e \in Decks : e # d => KeptNext(e)
    BY <1>k, <1>n, <2>1
  <2> QED BY <1>s, <1>n, <2>1, <2>2, <2>3
<1>2. CASE Publish!Pull
  <2>1. PICK d \in Decks : exportJob.deck = d /\ exportJob.at = "pulling"
    BY <1>2, <1>d DEF Publish!Pull
  <2>2. /\ exports[d].drive # deckDrive[d]
        /\ exportJob'.deck = d /\ exportJob'.at = "pulled" /\ exportJob'.pdf = deckDrive[d]
        /\ exports' = [exports EXCEPT ![d] = [exports[d] EXCEPT !.drive = deckDrive[d],
           !.behind = FALSE]]
        /\ UNCHANGED <<deckSource, deckDrive, exportMarker, publishedDecks>>
    BY <1>2, <1>j, <1>n, <2>1 DEF Publish!Pull, Publish!Set, Publish!world
  <2>3. deckDrive[d] = deckSource[d] /\ exports[d] \in Publish!Entries
    BY <1>0, <1>v, <2>1, <2>2 DEF Publish!InStep
  <2>4. /\ exports'[d].drive = deckSource[d] /\ exports'[d].exported = exports[d].exported
        /\ exports'[d].retry = exports[d].retry
    BY <1>v, <2>1, <2>2, <2>3 DEF Publish!Entries
  <2>5. KeptNext(d)
    BY <1>0, <2>1, <2>2, <2>3, <2>4 DEF Publish!InStep
  <2>6. \A e \in Decks : e # d => exports'[e] = exports[e]
    BY <1>v, <2>1, <2>2
  <2>7. \A e \in Decks : e # d => KeptNext(e)
    BY <1>k, <2>1, <2>2, <2>6
  <2> QED BY <2>2, <2>5, <2>7
<1>3. CASE Publish!GiveUp
  <2>1. PICK d \in Decks : exportJob.deck = d /\ exportJob.at = "pulling"
    BY <1>3, <1>d DEF Publish!GiveUp
  <2>2. /\ exportJob' = Publish!NoJob /\ exportsFile'.files = exports'
        /\ exports' = [exports EXCEPT ![d] = [exports[d] EXCEPT !.exported = deckSource[d],
                                          !.retry = FALSE, !.behind = TRUE]]
        /\ UNCHANGED <<deckSource, deckDrive, exportMarker, publishedDecks>>
    BY <1>3, <2>1 DEF Publish!GiveUp, Publish!Set, Publish!SaveState, Publish!world
  <2>3. exports[d] \in Publish!Entries
    BY <1>v, <2>1
  <2>4. /\ exports'[d].drive = exports[d].drive /\ exports'[d].exported = deckSource[d]
        /\ exports'[d].retry = FALSE /\ exports'[d].behind = TRUE
    BY <1>v, <2>1, <2>2, <2>3 DEF Publish!Entries
  <2>5. KeptNext(d)
    BY <1>0, <1>n, <1>v, <2>1, <2>2, <2>4 DEF Publish!InStep
  <2>6. \A e \in Decks : e # d => exports'[e] = exports[e]
    BY <1>v, <2>1, <2>2
  <2>7. \A e \in Decks : e # d => KeptNext(e)
    BY <1>k, <2>1, <1>n, <2>2, <2>6
  <2> QED BY <2>2, <2>5, <2>7
<1>4. CASE Publish!Upload
  <2>1. PICK d \in Decks : exportJob.deck = d /\ exportJob.at = "pulled"
    BY <1>4, <1>d DEF Publish!Upload
  <2>2. /\ exportJob'.deck = d /\ exportJob'.at = "uploaded" /\ exportJob'.pdf = exportJob.pdf
        /\ publishedDecks' = [publishedDecks EXCEPT ![d] = exportJob.pdf]
        /\ UNCHANGED <<deckSource, deckDrive, exports, exportsFile, exportMarker>>
    BY <1>4, <1>j, <1>n, <2>1 DEF Publish!Upload, Publish!world, Publish!record
  <2>3. publishedDecks'[d] = deckSource[d]
    BY <1>0, <1>v, <2>1, <2>2 DEF Publish!InStep
  <2>4. KeptNext(d)
    BY <1>0, <2>1, <2>2, <2>3 DEF Publish!InStep
  <2>5. \A e \in Decks : e # d => publishedDecks'[e] = publishedDecks[e]
    BY <1>v, <2>1, <2>2
  <2>6. \A e \in Decks : e # d => KeptNext(e)
    BY <1>k, <2>1, <2>2, <2>5
  <2> QED BY <2>2, <2>4, <2>6
<1>5. CASE Publish!Fail
  BY <1>5 DEF Publish!Fail
<1>6. CASE Publish!Record
  <2>1. PICK d \in Decks : exportJob.deck = d /\ exportJob.at = "uploaded"
    BY <1>6, <1>d DEF Publish!Record
  <2>2. /\ exportJob'.deck = d /\ exportJob'.at = "recorded" /\ exportJob'.pdf = deckSource[d]
        /\ exportsFile'.files = exports'
        /\ exports' = [exports EXCEPT ![d] = [exports[d] EXCEPT !.exported = deckSource[d],
                                          !.retry = FALSE]]
        /\ UNCHANGED <<deckSource, deckDrive, exportMarker, publishedDecks>>
    BY <1>6, <1>j, <1>n, <2>1 DEF Publish!Record, Publish!Set, Publish!SaveState, Publish!world
  <2>3. exports[d] \in Publish!Entries
    BY <1>v, <2>1
  <2>4. /\ exports'[d].drive = exports[d].drive /\ exports'[d].exported = deckSource[d]
        /\ exports'[d].retry = FALSE
    BY <1>v, <2>1, <2>2, <2>3 DEF Publish!Entries
  <2>5. KeptNext(d)
    BY <1>0, <1>v, <2>1, <2>2, <2>4 DEF Publish!InStep
  <2>6. \A e \in Decks : e # d => exports'[e] = exports[e]
    BY <1>v, <2>1, <2>2
  <2>7. \A e \in Decks : e # d => KeptNext(e)
    BY <1>k, <2>1, <2>2, <2>6
  <2> QED BY <2>2, <2>5, <2>7
<1>7. CASE Publish!Mark
  <2>1. PICK d \in Decks : exportJob.deck = d /\ exportJob.at = "recorded"
    BY <1>7, <1>d DEF Publish!Mark
  <2>2. /\ exportJob' = Publish!NoJob
           /\ exportMarker' = [exportMarker EXCEPT ![d] = exportJob.pdf]
        /\ UNCHANGED <<deckSource, deckDrive, exports, exportsFile, publishedDecks>>
    BY <1>7, <2>1 DEF Publish!Mark, Publish!world
  <2>3. exportMarker'[d] = deckSource[d] /\ publishedDecks[d] = deckSource[d]
    BY <1>0, <1>v, <2>1, <2>2 DEF Publish!InStep
  <2>4. KeptNext(d)
    BY <1>0, <1>n, <1>v, <2>1, <2>2, <2>3 DEF Publish!InStep
  <2>5. \A e \in Decks : e # d => exportMarker'[e] = exportMarker[e]
    BY <1>v, <2>1, <2>2
  <2>6. \A e \in Decks : e # d => KeptNext(e)
    BY <1>k, <2>1, <1>n, <2>2, <2>5
  <2> QED BY <1>s, <2>1, <2>2, <2>4, <2>6
<1>8. ASSUME NEW d \in Decks, Publish!SaveDeck(d) PROVE
             /\ \A e \in Decks : KeptNext(e)
             /\ exportJob'.at \notin {"pulled", "uploaded"} => exportsFile'.files = exports'
  <2>1. /\ deckSource' = [deckSource EXCEPT ![d] = deckSource[d] + 1]
        /\ publishedDecks[d] = deckSource[d] /\ exportJob.deck # d
        /\ UNCHANGED <<deckDrive, exports, exportsFile, exportMarker, publishedDecks,
           exportJob>>
    BY <1>8 DEF Publish!SaveDeck, Publish!record
  <2>2. deckSource'[d] = deckSource[d] + 1
    BY <1>v, <2>1
  <2>3. /\ deckDrive[d] = exports[d].drive /\ exports[d].drive = publishedDecks[d]
    BY <1>0, <2>1 DEF Publish!InStep
  <2>4. deckSource[d] \in Nat /\ exports[d].exported \in Nat /\ exportMarker[d] \in Nat
        /\ exports[d].exported <= deckSource[d] /\ exportMarker[d] <= deckSource[d]
           /\ ~exports[d].retry
    BY <1>0, <1>v DEF Publish!InStep
  <2>5. \A a, b \in Nat : a <= b => a <= b + 1 /\ b + 1 > a
    OBVIOUS
  <2>6. /\ exports[d].exported <= deckSource'[d] /\ exportMarker[d] <= deckSource'[d]
        /\ deckSource'[d] > exports[d].exported /\ deckSource'[d] > exportMarker[d]
    BY <2>2, <2>4, <2>5
  <2>7. KeptNext(d)
    BY <2>1, <2>3, <2>4, <2>6 DEF Publish!InStep
  <2>8. \A e \in Decks : e # d => deckSource'[e] = deckSource[e]
    BY <1>v, <2>1
  <2>9. \A e \in Decks : e # d => KeptNext(e)
    BY <1>0, <2>1, <2>8 DEF Publish!InStep
  <2> QED BY <1>s, <2>1, <2>7, <2>9
<1>9. ASSUME NEW d \in Decks, Publish!DriveSyncs(d) PROVE
             /\ \A e \in Decks : KeptNext(e)
             /\ exportJob'.at \notin {"pulled", "uploaded"} => exportsFile'.files = exports'
  <2>1. /\ deckDrive' = [deckDrive EXCEPT ![d] = deckSource[d]]
        /\ UNCHANGED <<deckSource, exports, exportsFile, exportMarker, publishedDecks,
           exportJob>>
    BY <1>9 DEF Publish!DriveSyncs, Publish!record
  <2>2. \A e \in Decks : deckDrive'[e] = deckDrive[e] \/ deckDrive'[e] = deckSource[e]
    BY <1>v, <2>1
  <2>3. \A e \in Decks : KeptNext(e)
    BY <1>0, <2>1, <2>2 DEF Publish!InStep
  <2> QED BY <1>s, <2>1, <2>3
<1>10. CASE Publish!Restart
  <2>1. Publish!Idle /\ exports' = exportsFile.files /\ exportJob' = Publish!NoJob
        /\ UNCHANGED <<deckSource, deckDrive, exportsFile, exportMarker, publishedDecks>>
    BY <1>10 DEF Publish!Restart, Publish!world
  <2>2. exports' = exports /\ exportJob' = exportJob
    BY <1>s, <1>n, <2>1 DEF Publish!Idle
  <2>3. \A e \in Decks : KeptNext(e)
    BY <1>0, <2>1, <2>2 DEF Publish!InStep
  <2> QED BY <2>1, <2>3
<1>11. ASSUME NEW d \in Decks, Publish!RetryDue(d) PROVE FALSE
  BY <1>0, <1>11 DEF Publish!RetryDue, Publish!InStep
<1>12. CASE Publish!PushList \/ Publish!Cooled \/ UNCHANGED Publish!vars
  <2>1. /\ UNCHANGED <<deckSource, deckDrive, exports, exportMarker, publishedDecks, exportJob>>
        /\ exportsFile' = exportsFile \/ exportsFile'.files = exports'
    <3>1. CASE Publish!PushList
      BY <3>1 DEF Publish!PushList, Publish!SaveState, Publish!world
    <3>2. CASE Publish!Cooled \/ UNCHANGED Publish!vars
      BY <3>2 DEF Publish!Cooled, Publish!vars, Publish!world, Publish!record
    <3> QED BY <1>12, <3>1, <3>2
  <2>2. \A e \in Decks : KeptNext(e)
    BY <1>0, <2>1 DEF Publish!InStep
  <2> QED BY <1>s, <2>1, <2>2
<1> QED BY <1>1, <1>2, <1>3, <1>4, <1>5, <1>6, <1>7, <1>8, <1>9, <1>10, <1>11,
    <1>12 DEF Publish!Next

----------------------------------------------------------------------------
(* The site of the notes                                                    *)

\* Nothing is published at first, or the first revision of a session is, and served.
LEMMA WikiStarts == Wiki!WikiAssumption /\ (Wiki!Init \/ Wiki!InitServed) => Wiki!WikiInv
<1> SUFFICES ASSUME Wiki!WikiAssumption, Wiki!Init \/ Wiki!InitServed PROVE Wiki!WikiInv
  OBVIOUS
<1>1. PICK s \in Vaults, rev \in {0, 1} : \E key, produced :
        /\ Wiki!From(s, rev, key, produced)
        /\ \/ rev = 0 /\ key = None /\ produced = None
           \/ rev = 1 /\ key = <<s, 1>> /\ produced = [rev |-> 1, root |-> "Home"]
  BY DEF Wiki!Init, Wiki!InitServed
<1>p. PICK key, produced :
        /\ Wiki!From(s, rev, key, produced)
        /\ \/ rev = 0 /\ key = None /\ produced = None
           \/ rev = 1 /\ key = <<s, 1>> /\ produced = [rev |-> 1, root |-> "Home"]
  BY <1>1
<1>2. rev \in 0 .. MaxRevisions /\ rev \in 0 .. rev /\ 0 \in 0 .. rev
  BY DEF Wiki!WikiAssumption
<1>3. /\ key \in Wiki!Keys \cup {None} /\ produced \in Wiki!Sites \cup {None}
         /\ (key = None <=> produced = None)
      /\ key # None => produced.rev >= key[2]
  BY <1>p, <1>2 DEF Wiki!WikiAssumption, Wiki!Keys, Wiki!Sites
<1>4. Wiki!WikiTypeOK
  <2>1. vault \in [Vaults -> [rev : 0 .. vaultEdits, entry : Wiki!Entries, fresh : BOOLEAN]]
    BY <1>p, <1>2 DEF Wiki!From, Wiki!Entries
  <2>2. site \in [of : Vaults, site : Wiki!Sites] \cup {None}
    BY <1>p, <1>3 DEF Wiki!From
  <2> QED BY <1>p, <1>2, <1>3, <2>1, <2>2 DEF Wiki!From, Wiki!WikiTypeOK
<1>5. Wiki!JobFits
  BY <1>p DEF Wiki!From, Wiki!JobFits
<1>6. Wiki!ServedFits
  BY <1>p, <1>3 DEF Wiki!From, Wiki!ServedFits
<1>7. Wiki!StarsTypeOK
  <2>1. Wiki!NoFiles \in [takeaways : SUBSET WikiNotes, stars : SUBSET (Readers \X WikiNotes)]
    BY DEF Wiki!NoFiles
  <2> HIDE DEF Wiki!NoFiles
  <2>2. savedStars \in [Vaults -> [takeaways : SUBSET WikiNotes,
        stars : SUBSET (Readers \X WikiNotes)]]
    BY <1>p, <2>1 DEF Wiki!From
  <2> QED BY <1>p, <2>2 DEF Wiki!From, Wiki!StarsTypeOK
<1>8. Wiki!StarsAreKept
  <2>1. /\ wikiRoom = s /\ savedStars = [t \in Vaults |-> Wiki!NoFiles] /\ takeaways = {}
           /\ stars = {}
        /\ starsShown = {}
    BY <1>p DEF Wiki!From
  <2>2. savedStars[wikiRoom] = Wiki!NoFiles
    BY <2>1
  <2> QED BY <2>1, <2>2 DEF Wiki!StarsAreKept, Wiki!NoFiles
<1> QED BY <1>4, <1>5, <1>6, <1>7, <1>8 DEF Wiki!WikiInv

\* The variables of the publisher and of Railway keep their types.
LEMMA WikiTypes == Wiki!WikiAssumption /\ Wiki!WikiInv /\ [Wiki!Next]_(Wiki!vars)
=> Wiki!WikiTypeOK'
<1> SUFFICES ASSUME Wiki!WikiAssumption, Wiki!WikiInv, [Wiki!Next]_(Wiki!vars)
             PROVE  Wiki!WikiTypeOK'
  OBVIOUS
<1>0. Wiki!WikiTypeOK /\ Wiki!JobFits
  BY DEF Wiki!WikiInv
<1>a. /\ MaxRevisions \in Nat \ {0} /\ None \notin Vaults /\ None \notin Wiki!Keys
         /\ None \notin Wiki!Sites
      /\ None \notin Wiki!Jobs
  BY DEF Wiki!WikiAssumption
<1>j. ASSUME wikiJob # None
      PROVE  /\ wikiJob \in Wiki!Jobs /\ wikiJob.kind \in {"build", "resend"}
             /\ wikiJob.of \in Wiki!Keys
             /\ wikiJob.at \in {"start", "built", "sent"}
                /\ wikiJob.site \in Wiki!Sites \cup {None}
             /\ wikiJob.of[1] \in Vaults /\ wikiJob.of[2] \in 0 .. MaxRevisions
  BY <1>0, <1>j DEF Wiki!WikiTypeOK, Wiki!Jobs, Wiki!Keys
<1>k. ASSUME NEW s \in Vaults, NEW m \in Wiki!Sites \cup {None}, NEW k \in {"build", "resend"}
      PROVE  Wiki!Key(s) \in Wiki!Keys
             /\ [kind |-> k, of |-> Wiki!Key(s), at |-> "start", site |-> m] \in Wiki!Jobs
  <2>1. vault[s].rev \in 0 .. MaxRevisions
    BY <1>0, <1>a DEF Wiki!WikiTypeOK
  <2>2. Wiki!Key(s) \in Wiki!Keys
    BY <2>1 DEF Wiki!Key, Wiki!Keys
  <2> QED BY <2>2 DEF Wiki!Jobs
<1>1. ASSUME NEW s \in Vaults, NEW e \in Wiki!Entries, Wiki!Edit(s, e) PROVE Wiki!WikiTypeOK'
  <2> DEFINE new == [rev |-> vaultEdits', entry |-> e, fresh |-> TRUE]
             V(n) == [rev : 0 .. n, entry : Wiki!Entries, fresh : BOOLEAN]
  <2>1. /\ vaultEdits < MaxRevisions /\ vaultEdits' = vaultEdits + 1
           /\ vault' = [vault EXCEPT ![s] = new]
        /\ UNCHANGED <<wikiRoom, known, publishedKey, payload, resend, wikiJob, site,
           wikiLinked, wikiRaced>>
    BY <1>1 DEF Wiki!Edit, Wiki!publisherVars, Wiki!railwayVars
  <2>2. vaultEdits' \in 0 .. MaxRevisions /\ vaultEdits' \in 0 .. vaultEdits'
        /\ 0 .. vaultEdits \subseteq 0 .. vaultEdits'
    BY <1>0, <1>a, <2>1 DEF Wiki!WikiTypeOK
  <2>3. new \in V(vaultEdits') /\ V(vaultEdits) \subseteq V(vaultEdits')
    BY <2>2
  <2>4. vault \in [Vaults -> V(vaultEdits)]
    BY <1>0 DEF Wiki!WikiTypeOK
  <2> HIDE DEF new, V
  <2>5. vault' \in [Vaults -> V(vaultEdits')]
    BY <2>1, <2>3, <2>4
  <2> QED BY <1>0, <2>1, <2>2, <2>5 DEF Wiki!WikiTypeOK, V
<1>2. ASSUME NEW s \in Vaults, Wiki!Settle(s) PROVE Wiki!WikiTypeOK'
  <2>1. /\ vault' = [vault EXCEPT ![s] = [vault[s] EXCEPT !.fresh = FALSE]]
        /\ UNCHANGED <<wikiRoom, vaultEdits, known, publishedKey, payload, resend, wikiJob,
           site, wikiLinked,
                       wikiRaced>>
    BY <1>2 DEF Wiki!Settle, Wiki!publisherVars, Wiki!railwayVars
  <2>2. vault' \in [Vaults -> [rev : 0 .. vaultEdits, entry : Wiki!Entries, fresh : BOOLEAN]]
    BY <1>0, <2>1 DEF Wiki!WikiTypeOK
  <2> QED BY <1>0, <2>1, <2>2 DEF Wiki!WikiTypeOK
<1>3. CASE Wiki!Tick
  <2>1. /\ UNCHANGED <<wikiRoom, vault, vaultEdits, site, wikiLinked, wikiRaced>>
           /\ known' = wikiRoom
    BY <1>3 DEF Wiki!Tick, Wiki!vaultVars, Wiki!railwayVars
  <2>2. CASE known # wikiRoom
    <3>1. /\ publishedKey' = None /\ payload' = None /\ resend' = FALSE
          /\ \/ wikiJob' = wikiJob
             \/ wikiRoom # None /\ Wiki!Start("build", wikiRoom, None)
      BY <1>3, <2>2 DEF Wiki!Tick, Wiki!Forgotten
    <3>2. wikiJob' \in Wiki!Jobs \cup {None}
      <4>1. payload \in Wiki!Sites \cup {None} /\ None \in Wiki!Sites \cup {None}
            /\ wikiJob \in Wiki!Jobs \cup {None} /\ (wikiRoom # None => wikiRoom \in Vaults)
        BY <1>0 DEF Wiki!WikiTypeOK
      <4>2. \A k \in {"build", "resend"}, m \in Wiki!Sites \cup {None} :
              wikiRoom # None /\ Wiki!Start(k, wikiRoom, m) => wikiJob' \in Wiki!Jobs
        BY <1>k, <4>1 DEF Wiki!Start
      <4> QED BY <3>1, <4>1, <4>2
    <3> QED BY <1>0, <2>1, <3>1, <3>2 DEF Wiki!WikiTypeOK
  <2>3. CASE known = wikiRoom
    <3>1. /\ wikiRoom # None /\ UNCHANGED <<publishedKey, payload>>
          /\ \/ resend' = FALSE /\ Wiki!Start("resend", wikiRoom, payload)
             \/ resend' = resend /\ Wiki!Start("build", wikiRoom, None)
      BY <1>3, <2>3 DEF Wiki!Tick
    <3>2. wikiJob' \in Wiki!Jobs \cup {None}
      <4>1. payload \in Wiki!Sites \cup {None} /\ None \in Wiki!Sites \cup {None}
            /\ wikiJob \in Wiki!Jobs \cup {None} /\ (wikiRoom # None => wikiRoom \in Vaults)
        BY <1>0 DEF Wiki!WikiTypeOK
      <4>2. \A k \in {"build", "resend"}, m \in Wiki!Sites \cup {None} :
              wikiRoom # None /\ Wiki!Start(k, wikiRoom, m) => wikiJob' \in Wiki!Jobs
        BY <1>k, <4>1 DEF Wiki!Start
      <4> QED BY <3>1, <4>1, <4>2
    <3> QED BY <1>0, <2>1, <3>1, <3>2 DEF Wiki!WikiTypeOK
  <2> QED BY <2>2, <2>3
<1>4. CASE Wiki!Build
  <2> DEFINE m == Wiki!Site(vault[wikiJob.of[1]])
  <2>1. /\ wikiJob # None /\ wikiJob' = [wikiJob EXCEPT !.at = "built", !.site = m]
        /\ UNCHANGED <<wikiRoom, vault, vaultEdits, known, publishedKey, payload, resend, site,
           wikiLinked,
                       wikiRaced>>
    BY <1>4 DEF Wiki!Build, Wiki!vaultVars, Wiki!railwayVars
  <2>2. m \in Wiki!Sites
    <3>1. /\ vault[wikiJob.of[1]].rev \in 0 .. MaxRevisions
      BY <1>0, <1>a, <1>j, <2>1 DEF Wiki!WikiTypeOK
    <3> QED BY <3>1 DEF Wiki!Site, Wiki!Sites
  <2> HIDE DEF m
  <2>3. wikiJob' \in Wiki!Jobs
    BY <1>j, <2>1, <2>2 DEF Wiki!Jobs
  <2> QED BY <1>0, <2>1, <2>3 DEF Wiki!WikiTypeOK
<1>5. CASE Wiki!Upload
  <2>1. /\ wikiJob # None /\ wikiJob' = [wikiJob EXCEPT !.at = "sent"]
        /\ site' = [of |-> wikiJob.of[1], site |-> wikiJob.site]
        /\ UNCHANGED <<wikiRoom, vault, vaultEdits, known, publishedKey, payload, resend,
           wikiLinked, wikiRaced>>
    BY <1>5 DEF Wiki!Upload, Wiki!Uploading, Wiki!vaultVars
  <2>2. wikiJob.site # None
    BY <1>0, <1>5, <1>j DEF Wiki!Upload, Wiki!Uploading, Wiki!JobFits
  <2>3. wikiJob' \in Wiki!Jobs /\ site' \in [of : Vaults, site : Wiki!Sites]
    BY <1>j, <2>1, <2>2 DEF Wiki!Jobs
  <2> QED BY <1>0, <2>1, <2>3 DEF Wiki!WikiTypeOK
<1>6. CASE Wiki!JobFails
  <2>1. /\ wikiJob' = None /\ resend' \in {TRUE, resend}
        /\ UNCHANGED <<wikiRoom, vault, vaultEdits, known, publishedKey, payload, site,
           wikiLinked, wikiRaced>>
    BY <1>6 DEF Wiki!JobFails, Wiki!vaultVars, Wiki!railwayVars
  <2> QED BY <1>0, <2>1 DEF Wiki!WikiTypeOK
<1>7. CASE Wiki!JobEnds
  <2>1. /\ wikiJob # None /\ wikiJob.at = "sent" /\ wikiJob' = None
        /\ \/ publishedKey' = wikiJob.of /\ payload' = wikiJob.site
           \/ UNCHANGED <<publishedKey, payload>>
        /\ UNCHANGED <<wikiRoom, vault, vaultEdits, known, resend, site, wikiLinked, wikiRaced>>
    BY <1>7 DEF Wiki!JobEnds, Wiki!vaultVars, Wiki!railwayVars
  <2>2. wikiJob.of \in Wiki!Keys /\ wikiJob.site \in Wiki!Sites
    BY <1>0, <1>j, <2>1 DEF Wiki!JobFits
  <2>3. /\ publishedKey' \in Wiki!Keys \cup {None} /\ payload' \in Wiki!Sites \cup {None}
        /\ publishedKey' = None <=> payload' = None
    BY <1>0, <1>a, <2>1, <2>2 DEF Wiki!WikiTypeOK
  <2> QED BY <1>0, <2>1, <2>3 DEF Wiki!WikiTypeOK
<1>8. CASE Wiki!RailwayRestarts \/ Wiki!Reconnect
  <2>1. /\ site' \in {None, site} /\ wikiLinked' \in BOOLEAN /\ wikiRaced' \in BOOLEAN
        /\ resend' \in BOOLEAN
        /\ UNCHANGED <<wikiRoom, vault, vaultEdits, known, publishedKey, payload, wikiJob>>
    BY <1>0, <1>8 DEF Wiki!RailwayRestarts, Wiki!Reconnect, Wiki!vaultVars, Wiki!publisherVars,
        Wiki!WikiTypeOK
  <2> QED BY <1>0, <2>1 DEF Wiki!WikiTypeOK
<1>9. CASE Wiki!Retry \/ Wiki!Starring \/ UNCHANGED Wiki!vars
  <2>1. UNCHANGED <<Wiki!vaultVars, known, publishedKey, payload, resend, wikiJob,
        Wiki!railwayVars>>
    BY <1>9 DEF Wiki!Retry, Wiki!Starring, Wiki!Takeaway, Wiki!Star, Wiki!Ask, Wiki!Save,
        Wiki!SaveFails, Wiki!Purge, Wiki!vars,
       Wiki!publisherVars
  <2> QED BY <1>0, <2>1 DEF Wiki!WikiTypeOK, Wiki!vaultVars, Wiki!railwayVars
<1>10. ASSUME NEW s \in Vaults \cup {None}, Wiki!Enter(s) PROVE Wiki!WikiTypeOK'
  <2>1. /\ wikiRoom' = s
        /\ UNCHANGED <<vault, vaultEdits, known, publishedKey, payload, resend, wikiJob, site,
           wikiLinked,
                       wikiRaced>>
    BY <1>10 DEF Wiki!Enter, Wiki!publisherVars, Wiki!railwayVars
  <2> QED BY <1>0, <2>1 DEF Wiki!WikiTypeOK
<1>11. CASE Wiki!DaemonRestarts
  <2>1. /\ known' = None /\ publishedKey' = None /\ payload' = None /\ resend' = FALSE
        /\ wikiJob' = None /\ wikiLinked' = TRUE
        /\ UNCHANGED <<wikiRoom, vault, vaultEdits, site, wikiRaced>>
    BY <1>11 DEF Wiki!DaemonRestarts, Wiki!Forgotten, Wiki!vaultVars
  <2> QED BY <1>0, <2>1 DEF Wiki!WikiTypeOK
<1> QED BY <1>1, <1>2, <1>3, <1>4, <1>5, <1>6, <1>7, <1>8, <1>9, <1>10, <1>11
    DEF Wiki!Next, Wiki!Publishing, Wiki!Sitting

\* What is published is there or owed, and as new as the vault it was made for.
LEMMA WikiServes == Wiki!WikiAssumption /\ Wiki!WikiInv /\ [Wiki!Next]_(Wiki!vars)
=> Wiki!JobFits' /\ Wiki!ServedFits'
<1> SUFFICES ASSUME Wiki!WikiAssumption, Wiki!WikiInv, [Wiki!Next]_(Wiki!vars)
             PROVE  Wiki!JobFits' /\ Wiki!ServedFits'
  OBVIOUS
<1>0. Wiki!WikiTypeOK /\ Wiki!JobFits /\ Wiki!ServedFits
  BY DEF Wiki!WikiInv
<1>a. /\ MaxRevisions \in Nat \ {0} /\ None \notin Vaults /\ None \notin Wiki!Keys
         /\ None \notin Wiki!Sites
      /\ None \notin Wiki!Jobs
  BY DEF Wiki!WikiAssumption
<1>j. ASSUME wikiJob # None
      PROVE  /\ wikiJob \in Wiki!Jobs /\ wikiJob.kind \in {"build", "resend"}
             /\ wikiJob.of \in Wiki!Keys
             /\ wikiJob.at \in {"start", "built", "sent"}
                /\ wikiJob.site \in Wiki!Sites \cup {None}
             /\ wikiJob.of[1] \in Vaults /\ wikiJob.of[2] \in 0 .. MaxRevisions
  BY <1>0, <1>j DEF Wiki!WikiTypeOK, Wiki!Jobs, Wiki!Keys
<1>v. vaultEdits \in Nat /\ \A s \in Vaults : vault[s].rev \in 0 .. vaultEdits
      /\ vault[s].rev \in Nat
  BY <1>0, <1>a DEF Wiki!WikiTypeOK
\* A job that starts.
<1>s. ASSUME NEW k \in {"build", "resend"}, NEW s \in Vaults, NEW m, Wiki!Start(k, s, m)
      PROVE  wikiJob'.kind = k /\ wikiJob'.of = Wiki!Key(s) /\ wikiJob'.at = "start"
             /\ wikiJob'.site = m
             /\ wikiJob'.of[1] = s /\ wikiJob'.of[2] = vault[s].rev
                /\ vault[s].rev >= wikiJob'.of[2]
  BY <1>s, <1>v DEF Wiki!Start, Wiki!Key
<1>1. ASSUME NEW s \in Vaults, NEW e \in Wiki!Entries, Wiki!Edit(s, e)
      PROVE  Wiki!JobFits' /\ Wiki!ServedFits'
  <2>1. /\ vaultEdits' = vaultEdits + 1
        /\ vault' = [vault EXCEPT ![s] = [rev |-> vaultEdits', entry |-> e, fresh |-> TRUE]]
        /\ UNCHANGED <<known, publishedKey, payload, resend, wikiJob, site, wikiLinked,
           wikiRaced>>
    BY <1>1 DEF Wiki!Edit, Wiki!publisherVars, Wiki!railwayVars
  <2>2. \A t \in Vaults : vault'[t].rev >= vault[t].rev /\ vault'[t].rev \in Nat
    <3>1. vault'[s].rev = vaultEdits + 1 /\ \A t \in Vaults : t # s => vault'[t] = vault[t]
      BY <1>0, <2>1 DEF Wiki!WikiTypeOK
    <3> QED BY <1>v, <3>1
  <2>3. wikiJob # None => /\ wikiJob.of[1] \in Vaults /\ wikiJob.of[2] \in Nat
    BY <1>j, <1>a
  <2>4. \A a, b, c \in Nat : a >= b /\ b >= c => a >= c
    OBVIOUS
  <2>5. Wiki!JobFits'
    BY <1>0, <1>v, <2>1, <2>2, <2>3, <2>4 DEF Wiki!JobFits
  <2>6. Wiki!ServedFits'
    BY <1>0, <2>1 DEF Wiki!ServedFits, Wiki!Idle
  <2> QED BY <2>5, <2>6
<1>2. ASSUME NEW s \in Vaults, Wiki!Settle(s) PROVE Wiki!JobFits' /\ Wiki!ServedFits'
  <2>1. /\ vault' = [vault EXCEPT ![s] = [vault[s] EXCEPT !.fresh = FALSE]]
        /\ UNCHANGED <<known, publishedKey, payload, resend, wikiJob, site, wikiLinked,
           wikiRaced>>
    BY <1>2 DEF Wiki!Settle, Wiki!publisherVars, Wiki!railwayVars
  <2>2. \A t \in Vaults : vault'[t].rev = vault[t].rev
    BY <1>0, <2>1 DEF Wiki!WikiTypeOK
  <2>3. Wiki!JobFits'
    BY <1>0, <1>j, <2>1, <2>2 DEF Wiki!JobFits
  <2>4. Wiki!ServedFits'
    BY <1>0, <2>1 DEF Wiki!ServedFits, Wiki!Idle
  <2> QED BY <2>3, <2>4
<1>3. CASE Wiki!Tick
  <2>1. /\ UNCHANGED <<wikiRoom, vault, site, wikiLinked, wikiRaced>> /\ known' = wikiRoom
    BY <1>3 DEF Wiki!Tick, Wiki!vaultVars, Wiki!railwayVars
  <2>2. CASE known # wikiRoom
    <3>1. /\ payload' = None
          /\ \/ wikiJob' = wikiJob
             \/ wikiRoom # None /\ Wiki!Start("build", wikiRoom, None)
      BY <1>3, <2>2 DEF Wiki!Tick, Wiki!Forgotten
    <3>2. Wiki!JobFits'
      <4>1. CASE wikiJob' = wikiJob
        BY <1>0, <2>1, <4>1 DEF Wiki!JobFits
      <4>2. CASE wikiRoom \in Vaults /\ Wiki!Start("build", wikiRoom, None)
        BY <1>s, <2>1, <4>2 DEF Wiki!JobFits
      <4> QED BY <1>0, <3>1, <4>1, <4>2 DEF Wiki!WikiTypeOK
    <3> QED BY <3>1, <3>2 DEF Wiki!ServedFits
  <2>3. CASE known = wikiRoom
    <3>1. /\ Wiki!Idle /\ wikiRoom # None /\ UNCHANGED <<publishedKey, payload>>
          /\ \/ /\ Wiki!Key(wikiRoom) = publishedKey /\ resend /\ resend' = FALSE
                /\ Wiki!Start("resend", wikiRoom, payload)
             \/ resend' = resend /\ Wiki!Start("build", wikiRoom, None)
      BY <1>3, <2>3 DEF Wiki!Tick
    <3>2. wikiRoom \in Vaults
      BY <1>0, <3>1 DEF Wiki!WikiTypeOK
    <3>3. CASE Wiki!Key(wikiRoom) = publishedKey /\ Wiki!Start("resend", wikiRoom, payload)
      <4>1. publishedKey \in Wiki!Keys
        <5>1. vault[wikiRoom].rev \in 0 .. MaxRevisions
          BY <1>0, <1>a, <3>2 DEF Wiki!WikiTypeOK
        <5> QED BY <3>2, <3>3, <5>1 DEF Wiki!Key, Wiki!Keys
      <4>2. payload # None
        BY <1>0, <1>a, <4>1 DEF Wiki!WikiTypeOK
      <4>3. /\ wikiJob'.kind = "resend" /\ wikiJob'.at = "start" /\ wikiJob'.site = payload
            /\ wikiJob'.of[1] = wikiRoom
        BY <1>s, <3>2, <3>3
      <4>4. wikiJob' # None
        BY <3>1, <3>3, <4>1, <4>2, <1>0, <1>a DEF Wiki!Start, Wiki!Jobs, Wiki!WikiTypeOK
      <4>5. Wiki!JobFits'
        BY <4>2, <4>3 DEF Wiki!JobFits
      <4>6. Wiki!ServedFits'
        BY <1>0, <2>1, <2>3, <3>1, <4>3, <4>4 DEF Wiki!ServedFits, Wiki!Idle
      <4> QED BY <4>5, <4>6
    <3>4. CASE resend' = resend /\ Wiki!Start("build", wikiRoom, None)
      <4>1. /\ wikiJob'.kind = "build" /\ wikiJob'.at = "start" /\ wikiJob'.site = None
            /\ wikiJob'.of[1] = wikiRoom /\ vault[wikiRoom].rev >= wikiJob'.of[2]
        BY <1>s, <3>2, <3>4
      <4>2. Wiki!JobFits'
        BY <2>1, <4>1 DEF Wiki!JobFits
      <4>3. Wiki!ServedFits'
        BY <1>0, <2>1, <2>3, <3>1, <3>4, <4>1 DEF Wiki!ServedFits, Wiki!Idle
      <4> QED BY <4>2, <4>3
    <3> QED BY <3>1, <3>3, <3>4
  <2> QED BY <2>2, <2>3
<1>4. CASE Wiki!Build
  <2> DEFINE m == Wiki!Site(vault[wikiJob.of[1]])
  <2>1. /\ wikiJob # None /\ wikiJob.kind = "build" /\ wikiJob.at = "start"
        /\ wikiJob' = [wikiJob EXCEPT !.at = "built", !.site = m]
        /\ UNCHANGED <<vault, known, publishedKey, payload, resend, site, wikiLinked,
           wikiRaced>>
    BY <1>4 DEF Wiki!Build, Wiki!vaultVars, Wiki!railwayVars
  <2>2. m \in Wiki!Sites /\ m.rev = vault[wikiJob.of[1]].rev
    <3>1. /\ vault[wikiJob.of[1]].rev \in 0 .. MaxRevisions
      BY <1>0, <1>a, <1>j, <2>1 DEF Wiki!WikiTypeOK
    <3> QED BY <3>1 DEF Wiki!Site, Wiki!Sites
  <2>3. m.rev >= wikiJob.of[2]
    BY <1>0, <2>1, <2>2 DEF Wiki!JobFits
  <2> HIDE DEF m
  <2>4. wikiJob'.kind = "build" /\ wikiJob'.of = wikiJob.of /\ wikiJob'.at = "built"
        /\ wikiJob'.site = m
    BY <1>j, <2>1 DEF Wiki!Jobs
  <2>5. Wiki!JobFits'
    BY <1>a, <2>2, <2>3, <2>4 DEF Wiki!JobFits
  <2>6. Wiki!ServedFits'
    BY <1>0, <2>1, <2>4 DEF Wiki!ServedFits, Wiki!Idle
  <2> QED BY <2>5, <2>6
<1>5. CASE Wiki!Upload
  <2>1. /\ wikiJob # None /\ wikiJob' = [wikiJob EXCEPT !.at = "sent"] /\ Wiki!Uploading
        /\ site' = [of |-> wikiJob.of[1], site |-> wikiJob.site]
        /\ UNCHANGED <<vault, known, publishedKey, payload, resend, wikiLinked, wikiRaced>>
    BY <1>5 DEF Wiki!Upload, Wiki!Uploading, Wiki!vaultVars
  <2>2. /\ wikiJob'.kind = wikiJob.kind /\ wikiJob'.of = wikiJob.of /\ wikiJob'.at = "sent"
           /\ wikiJob'.site = wikiJob.site
    BY <1>j, <2>1 DEF Wiki!Jobs
  <2>3. wikiJob.site # None /\ (wikiJob.kind = "build" => wikiJob.at = "built")
    BY <1>0, <1>j, <2>1 DEF Wiki!Uploading, Wiki!JobFits
  <2>4. Wiki!JobFits'
    BY <1>0, <2>1, <2>2, <2>3 DEF Wiki!JobFits
  <2>5. wikiJob' # None
    <3>1. wikiJob' \in Wiki!Jobs
      BY <1>j, <2>1 DEF Wiki!Jobs
    <3> QED BY <1>a, <3>1
  <2>6. Wiki!ServedFits'
    BY <1>0, <2>1, <2>2, <2>5 DEF Wiki!ServedFits, Wiki!Idle
  <2> QED BY <2>4, <2>6
<1>6. CASE Wiki!JobFails
  <2>1. /\ wikiJob # None /\ wikiJob.at # "sent" /\ wikiJob' = None
        /\ wikiJob.kind = "build" => resend' = resend
        /\ wikiJob.kind # "build" => resend' = TRUE
        /\ UNCHANGED <<known, publishedKey, payload, site, wikiLinked, wikiRaced>>
    BY <1>6 DEF Wiki!JobFails, Wiki!vaultVars, Wiki!railwayVars
  <2>2. Wiki!JobFits'
    BY <2>1 DEF Wiki!JobFits
  <2>3. Wiki!ServedFits'
    BY <1>0, <2>1 DEF Wiki!ServedFits, Wiki!Idle
  <2> QED BY <2>2, <2>3
<1>7. CASE Wiki!JobEnds
  <2>1. /\ wikiJob # None /\ wikiJob.at = "sent" /\ wikiJob' = None
        /\ IF wikiJob.kind = "build" /\ known = wikiJob.of[1]
           THEN publishedKey' = wikiJob.of /\ payload' = wikiJob.site
           ELSE UNCHANGED <<publishedKey, payload>>
        /\ UNCHANGED <<known, resend, site, wikiLinked, wikiRaced>>
    BY <1>7 DEF Wiki!JobEnds, Wiki!vaultVars, Wiki!railwayVars
  <2>2. Wiki!JobFits'
    BY <2>1 DEF Wiki!JobFits
  <2>3. ~wikiRaced => site = [of |-> wikiJob.of[1], site |-> wikiJob.site]
    BY <1>0, <2>1 DEF Wiki!JobFits
  <2>4. CASE wikiJob.kind = "build" /\ known = wikiJob.of[1]
    <3>1. wikiJob.site.rev >= wikiJob.of[2]
      BY <1>0, <2>1, <2>4 DEF Wiki!JobFits
    <3> QED BY <2>1, <2>2, <2>3, <2>4, <3>1 DEF Wiki!ServedFits, Wiki!Idle
  <2>5. CASE ~(wikiJob.kind = "build" /\ known = wikiJob.of[1])
    <3>1. UNCHANGED <<publishedKey, payload>>
      BY <2>1, <2>5
    <3>2. payload # None => known = wikiJob.of[1] /\ wikiJob.kind = "resend"
          /\ wikiJob.site = payload
      BY <1>0, <1>j, <2>1, <2>5 DEF Wiki!ServedFits
    <3> QED BY <1>0, <2>1, <2>2, <2>3, <3>1, <3>2 DEF Wiki!ServedFits, Wiki!Idle
  <2> QED BY <2>4, <2>5
<1>8. CASE Wiki!RailwayRestarts
  <2>1. /\ site' = None /\ wikiLinked' = FALSE
        /\ wikiRaced' = (wikiRaced \/ (wikiJob # None /\ wikiJob.at = "sent"))
        /\ UNCHANGED <<vault, known, publishedKey, payload, resend, wikiJob>>
    BY <1>8 DEF Wiki!RailwayRestarts, Wiki!vaultVars, Wiki!publisherVars
  <2> QED BY <1>0, <2>1 DEF Wiki!JobFits, Wiki!ServedFits, Wiki!Idle
<1>9. CASE Wiki!Reconnect
  <2>1. /\ resend' = (payload # None)
        /\ UNCHANGED <<vault, known, publishedKey, payload, wikiJob, site, wikiRaced>>
    BY <1>9 DEF Wiki!Reconnect, Wiki!vaultVars
  <2> QED BY <1>0, <2>1 DEF Wiki!JobFits, Wiki!ServedFits, Wiki!Idle
<1>10. CASE Wiki!Retry \/ Wiki!Starring \/ UNCHANGED Wiki!vars
       \/ (\E s \in Vaults \cup {None} : Wiki!Enter(s))
  <2>1. UNCHANGED <<vault, known, publishedKey, payload, resend, wikiJob, site, wikiLinked,
        wikiRaced>>
    BY <1>10 DEF Wiki!Retry, Wiki!Starring, Wiki!Takeaway, Wiki!Star, Wiki!Ask, Wiki!Save,
        Wiki!SaveFails, Wiki!Purge, Wiki!Enter, Wiki!vars,
       Wiki!publisherVars, Wiki!vaultVars, Wiki!railwayVars
  <2> QED BY <1>0, <2>1 DEF Wiki!JobFits, Wiki!ServedFits, Wiki!Idle
<1>11. CASE Wiki!DaemonRestarts
  <2>1. payload' = None /\ wikiJob' = None
    BY <1>11 DEF Wiki!DaemonRestarts, Wiki!Forgotten
  <2> QED BY <2>1 DEF Wiki!JobFits, Wiki!ServedFits
<1> QED BY <1>1, <1>2, <1>3, <1>4, <1>5, <1>6, <1>7, <1>8, <1>9, <1>10, <1>11
    DEF Wiki!Next, Wiki!Publishing, Wiki!Sitting

\* What is starred is kept, and the cache is the active session's.
LEMMA StarsStep ==
  Wiki!WikiAssumption /\ Wiki!WikiInv /\ [Wiki!Next]_(Wiki!vars) => Wiki!StarsTypeOK'
  /\ Wiki!StarsAreKept'
<1> SUFFICES ASSUME Wiki!WikiAssumption, Wiki!WikiInv, [Wiki!Next]_(Wiki!vars)
             PROVE  Wiki!StarsTypeOK' /\ Wiki!StarsAreKept'
  OBVIOUS
<1> DEFINE Files == [takeaways : SUBSET WikiNotes, stars : SUBSET (Readers \X WikiNotes)]
           Requests == [who : Readers \cup {None}, note : WikiNotes, on : BOOLEAN, in : Vaults]
<1>0. /\ starring \in Requests \cup {None}
      /\ takeaways \subseteq WikiNotes /\ stars \subseteq Readers \X WikiNotes
      /\ savedStars \in [Vaults -> Files] /\ unsaved \in BOOLEAN
      /\ wikiRoom \in Vaults \cup {None} /\ None \notin Vaults
      /\ wikiRoom # None => /\ takeaways = savedStars[wikiRoom].takeaways
                            /\ starsShown = takeaways
                            /\ ~unsaved => stars = savedStars[wikiRoom].stars
  BY DEF Wiki!WikiInv, Wiki!WikiTypeOK, Wiki!StarsTypeOK, Wiki!StarsAreKept, Wiki!WikiAssumption
<1>q. ASSUME /\ starring' \in Requests \cup {None}
             /\ takeaways' \subseteq WikiNotes /\ stars' \subseteq Readers \X WikiNotes
             /\ savedStars' \in [Vaults -> Files] /\ unsaved' \in BOOLEAN
             /\ wikiRoom' # None =>
                  /\ takeaways' = savedStars'[wikiRoom'].takeaways /\ starsShown' = takeaways'
                  /\ ~unsaved' => stars' = savedStars'[wikiRoom'].stars
      PROVE  Wiki!StarsTypeOK' /\ Wiki!StarsAreKept'
  BY <1>q DEF Wiki!StarsTypeOK, Wiki!StarsAreKept
<1>w. ASSUME starring # None
      PROVE  /\ Wiki!With(takeaways, starring.note, starring.on) \subseteq WikiNotes
             /\ starring.who # None =>
                  Wiki!With(stars, <<starring.who, starring.note>>,
                  starring.on) \subseteq Readers \X WikiNotes
  BY <1>0, <1>w DEF Wiki!With
<1>u. ASSUME wikiRoom \in Vaults, NEW T \in SUBSET WikiNotes
      PROVE  /\ [savedStars EXCEPT ![wikiRoom].takeaways = T] \in [Vaults -> Files]
             /\ [savedStars EXCEPT ![wikiRoom].takeaways = T][wikiRoom].takeaways = T
             /\ [savedStars EXCEPT ![wikiRoom].takeaways = T][wikiRoom].stars
                  = savedStars[wikiRoom].stars
  BY <1>0, <1>u
<1>x. ASSUME wikiRoom \in Vaults, NEW T \in SUBSET (Readers \X WikiNotes)
      PROVE  /\ [savedStars EXCEPT ![wikiRoom].stars = T] \in [Vaults -> Files]
             /\ [savedStars EXCEPT ![wikiRoom].stars = T][wikiRoom].stars = T
             /\ [savedStars EXCEPT ![wikiRoom].stars = T][wikiRoom].takeaways
                  = savedStars[wikiRoom].takeaways
  BY <1>0, <1>x
<1>1. ASSUME NEW p \in Readers \cup {None}, NEW n \in WikiNotes, NEW on \in BOOLEAN,
             Wiki!Ask([who |-> p, note |-> n, on |-> on, in |-> wikiRoom])
      PROVE  Wiki!StarsTypeOK' /\ Wiki!StarsAreKept'
  <2>1. /\ wikiRoom # None /\ starring' = [who |-> p, note |-> n, on |-> on, in |-> wikiRoom]
        /\ UNCHANGED <<wikiRoom, takeaways, stars, savedStars, unsaved, starsShown>>
    BY <1>1 DEF Wiki!Ask, Wiki!vaultVars
  <2>2. starring' \in Requests
    BY <1>0, <2>1
  <2> QED BY <1>0, <1>q, <2>1, <2>2
<1>2. CASE Wiki!Save
  <2>1. /\ starring # None /\ starring' = None /\ wikiRoom \in Vaults
        /\ UNCHANGED <<wikiRoom, unsaved>>
    BY <1>0, <1>2 DEF Wiki!Save, Wiki!vaultVars
  <2>2. CASE starring.who = None
    <3>1. /\ takeaways' = Wiki!With(takeaways, starring.note, starring.on) /\ stars' = stars
          /\ savedStars' = [savedStars EXCEPT ![wikiRoom].takeaways = takeaways']
             /\ starsShown' = takeaways'
      BY <1>2, <2>2 DEF Wiki!Save
    <3>2. takeaways' \in SUBSET WikiNotes
      BY <1>w, <2>1, <3>1
    <3>3. /\ savedStars' \in [Vaults -> Files] /\ savedStars'[wikiRoom].takeaways = takeaways'
          /\ savedStars'[wikiRoom].stars = savedStars[wikiRoom].stars
      BY <1>u, <2>1, <3>1, <3>2
    <3> QED BY <1>0, <1>q, <2>1, <3>1, <3>2, <3>3
  <2>3. CASE starring.who # None
    <3>1. /\ stars' = Wiki!With(stars, <<starring.who, starring.note>>, starring.on)
          /\ savedStars' = IF stars' = stars THEN savedStars
                          ELSE [savedStars EXCEPT ![wikiRoom].stars = stars']
          /\ UNCHANGED <<takeaways, starsShown>>
      BY <1>2, <2>3 DEF Wiki!Save
    <3>2. stars' \in SUBSET (Readers \X WikiNotes)
      BY <1>w, <2>1, <2>3, <3>1
    <3>3. /\ savedStars' \in [Vaults -> Files]
          /\ savedStars'[wikiRoom].takeaways = savedStars[wikiRoom].takeaways
          /\ savedStars'[wikiRoom].stars = stars'
             \/ (stars' = stars /\ savedStars' = savedStars)
      BY <1>0, <1>x, <2>1, <3>1, <3>2
    <3> QED BY <1>0, <1>q, <2>1, <3>1, <3>2, <3>3
  <2> QED BY <2>2, <2>3
<1>3. CASE Wiki!SaveFails
  <2>1. /\ starring # None /\ starring' = None /\ wikiRoom \in Vaults
        /\ UNCHANGED <<wikiRoom, takeaways, savedStars, starsShown>>
    BY <1>0, <1>3 DEF Wiki!SaveFails, Wiki!vaultVars
  <2>2. CASE starring.who = None
    <3>1. UNCHANGED <<stars, unsaved>>
      BY <1>3, <2>2 DEF Wiki!SaveFails
    <3> QED BY <1>0, <1>q, <2>1, <3>1
  <2>3. CASE starring.who # None
    <3>1. /\ stars' = Wiki!With(stars, <<starring.who, starring.note>>, starring.on)
          /\ unsaved' = (unsaved \/ stars' # stars)
      BY <1>3, <2>3 DEF Wiki!SaveFails
    <3>2. stars' \in SUBSET (Readers \X WikiNotes) /\ unsaved' \in BOOLEAN
      BY <1>0, <1>w, <2>1, <2>3, <3>1
    <3> QED BY <1>0, <1>q, <2>1, <3>1, <3>2
  <2> QED BY <2>2, <2>3
<1>4. ASSUME NEW p \in Readers, Wiki!Purge(p) PROVE Wiki!StarsTypeOK' /\ Wiki!StarsAreKept'
  <2>1. /\ wikiRoom \in Vaults /\ stars' = {x \in stars : x[1] # p}
        /\ savedStars' = IF stars' = stars THEN savedStars
                          ELSE [savedStars EXCEPT ![wikiRoom].stars = stars']
        /\ UNCHANGED <<wikiRoom, starring, takeaways, unsaved, starsShown>>
    BY <1>0, <1>4 DEF Wiki!Purge, Wiki!vaultVars
  <2>2. stars' \in SUBSET (Readers \X WikiNotes)
    BY <1>0, <2>1
  <2>3. /\ savedStars' \in [Vaults -> Files]
        /\ savedStars'[wikiRoom].takeaways = savedStars[wikiRoom].takeaways
        /\ savedStars'[wikiRoom].stars = stars' \/ (stars' = stars /\ savedStars' = savedStars)
    BY <1>0, <1>x, <2>1, <2>2
  <2> QED BY <1>0, <1>q, <2>1, <2>2, <2>3
<1>5. ASSUME NEW s \in Vaults \cup {None}, Wiki!Cached(s), wikiRoom' = s,
             savedStars' = savedStars,
             starring' \in Requests \cup {None}, unsaved' \in BOOLEAN
      PROVE  Wiki!StarsTypeOK' /\ Wiki!StarsAreKept'
  <2>1. /\ takeaways' = (IF s = None THEN {} ELSE savedStars[s].takeaways)
        /\ stars' = (IF s = None THEN {} ELSE savedStars[s].stars) /\ starsShown' = takeaways'
    BY <1>5 DEF Wiki!Cached
  <2>2. takeaways' \subseteq WikiNotes /\ stars' \subseteq Readers \X WikiNotes
    BY <1>0, <2>1
  <2> QED BY <1>0, <1>q, <1>5, <2>1, <2>2
<1>6. ASSUME NEW s \in Vaults \cup {None}, Wiki!Enter(s)
      PROVE  Wiki!StarsTypeOK' /\ Wiki!StarsAreKept'
  <2>1. wikiRoom' = s /\ Wiki!Cached(s) /\ UNCHANGED <<savedStars, starring, unsaved>>
    BY <1>6 DEF Wiki!Enter
  <2> QED BY <1>0, <1>5, <2>1
<1>7. CASE Wiki!DaemonRestarts
  <2>1. /\ Wiki!Cached(wikiRoom) /\ wikiRoom' = wikiRoom /\ savedStars' = savedStars
           /\ starring' = None
        /\ unsaved' = FALSE
    BY <1>7 DEF Wiki!DaemonRestarts, Wiki!vaultVars
  <2> QED BY <1>0, <1>5, <2>1
<1>8. CASE Wiki!Publishing \/ UNCHANGED Wiki!vars
  <2>1. UNCHANGED <<wikiRoom, starring, takeaways, stars, savedStars, unsaved, starsShown>>
    BY <1>8 DEF Wiki!Publishing, Wiki!Edit, Wiki!Settle, Wiki!Tick, Wiki!Retry, Wiki!Build,
        Wiki!Upload, Wiki!JobFails, Wiki!JobEnds,
       Wiki!RailwayRestarts, Wiki!Reconnect, Wiki!vaultVars, Wiki!starVars, Wiki!vars
  <2> QED BY <1>0, <1>q, <2>1
<1> QED BY <1>1, <1>2, <1>3, <1>4, <1>6, <1>7, <1>8
    DEF Wiki!Next, Wiki!Starring, Wiki!Sitting, Wiki!Star, Wiki!Takeaway

LEMMA WikiStep == Wiki!WikiAssumption /\ Wiki!WikiInv /\ [Wiki!Next]_(Wiki!vars)
=> Wiki!WikiInv'
BY WikiTypes, WikiServes, StarsStep DEF Wiki!WikiInv

\* What the invariant says of the site and the stars.
LEMMA WikiFollows ==
  Wiki!WikiAssumption /\ Wiki!WikiInv => Wiki!ServedOrOwed /\ Wiki!RootIsServed
  /\ Wiki!StarsAreKept
<1> SUFFICES ASSUME Wiki!WikiAssumption, Wiki!WikiInv
             PROVE  Wiki!ServedOrOwed /\ Wiki!RootIsServed /\ Wiki!StarsAreKept
  OBVIOUS
<1>1. Wiki!ServedOrOwed
  BY DEF Wiki!WikiInv, Wiki!ServedFits, Wiki!ServedOrOwed
<1>2. Wiki!RootIsServed
  BY DEF Wiki!WikiInv, Wiki!WikiTypeOK, Wiki!Sites, Wiki!RootIsServed, Wiki!WikiAssumption
<1> QED BY <1>1, <1>2 DEF Wiki!WikiInv

----------------------------------------------------------------------------
(* The archive of the session                                               *)

\* What the archives count is what the library counts.
LEMMA ArchiveSets == \A S : Archive!Cardinality(S) = Cardinality(S)
<1> QED BY DEF Archive!Cardinality, Cardinality

\* Nothing was asked for, and there is no archive.
LEMMA MaterialsStart == Archive!MaterialsAssumption /\ Archive!Init => Archive!MaterialsInv
<1> SUFFICES ASSUME Archive!MaterialsAssumption, Archive!Init PROVE Archive!MaterialsInv
  OBVIOUS
<1>1. Archive!Live = {}
  BY DEF Archive!Init, Archive!Live
<1>2. Archive!PostsTypeOK
  <2>1. zipPart = [s \in Sessions |-> {}] /\ zip = [s \in Sessions |-> None]
    BY DEF Archive!Init
  <2>2. zipPart = [s \in Sessions |-> zipPart[s]] /\ zip = [s \in Sessions |-> zip[s]]
    BY <2>1
  <2>3. zipHistory \in [late : BOOLEAN, crossed : BOOLEAN] /\ inbox \in Seq(Sessions)
    BY DEF Archive!Init
  <2> QED BY <1>1, <2>2, <2>3 DEF Archive!Init, Archive!PostsTypeOK
<1>3. Archive!OneAtATime
  BY <1>1 DEF Archive!Init, Archive!OneAtATime
<1>4. Archive!ArchivesAreWhole /\ Archive!ArchivesAreOurs
  BY DEF Archive!Init, Archive!ArchivesAreWhole, Archive!ArchivesAreOurs
<1> QED BY <1>1, <1>2, <1>3, <1>4 DEF Archive!MaterialsInv

\* What ends an upload: its archive is served, or it is refused.
LEMMA UploadEnds ==
  ASSUME Archive!MaterialsAssumption, Archive!MaterialsInv, NEW u \in zipWriting,
         Archive!Install(u) \/ Archive!Refuse(u)
  PROVE  Archive!MaterialsInv'
<1>t. Archive!PostsTypeOK /\ Archive!ArchivesAreWhole /\ Archive!ArchivesAreOurs
  BY DEF Archive!MaterialsInv
<1>1. /\ zipWriting' = zipWriting \ {u} /\ posting' = (IF posting = u THEN None ELSE posting)
      /\ UNCHANGED <<archiveRoom, zippedFolder, inbox, zipHistory>>
  BY DEF Archive!Install, Archive!Refuse, Archive!Answered, Archive!linkVars
<1>2. Archive!Live' \subseteq Archive!Live \ {u} /\ u \in Archive!Live /\ u.for \in Sessions
  BY <1>t, <1>1 DEF Archive!Live, Archive!PostsTypeOK
<1>3. \/ UNCHANGED <<zipPart, zip, slot>>
      \/ /\ zipPart' = [zipPart EXCEPT ![u.for] = {}] /\ UNCHANGED <<zip, slot>>
      \/ /\ zipPart[u.for] # {} /\ zipPart' = [zipPart EXCEPT ![u.for] = {}] /\ slot' = FALSE
         /\ \E new : /\ zip' = [zip EXCEPT ![u.for] = new]
                     /\ new.of = u.of /\ new.by = zipPart[u.for]
  BY DEF Archive!Install, Archive!Refuse
<1>z. ASSUME NEW s \in Sessions, zip'[s] # zip[s]
      PROVE  zipPart[u.for] # {} /\ s = u.for /\ zip'[s].of = u.of
             /\ zip'[s].by = zipPart[u.for]
  <2>1. PICK new : /\ zip' = [zip EXCEPT ![u.for] = new] /\ zipPart[u.for] # {}
                   /\ new.of = u.of /\ new.by = zipPart[u.for]
    BY <1>3, <1>z
  <2>2. zip = [t \in Sessions |-> zip[t]]
    BY <1>t DEF Archive!PostsTypeOK
  <2>3. zip'[s] = IF s = u.for THEN new ELSE zip[s]
    BY <2>1, <2>2
  <2> QED BY <1>z, <2>1, <2>3
<1>4. Archive!PostsTypeOK'
  BY <1>t, <1>1, <1>2, <1>3 DEF Archive!PostsTypeOK
<1>5. ASSUME ~zipHistory'.late PROVE Archive!OneAtATime' /\ Archive!ArchivesAreWhole'
  <2>1. Archive!OneAtATime
    BY <1>1, <1>5 DEF Archive!MaterialsInv
  <2>2. \A v \in Archive!Live : v = u
    BY <1>2, <2>1 DEF Archive!OneAtATime
  <2>3. Archive!Live' = {}
    BY <1>2, <2>2
  <2>4. inbox' = <<>>
    BY <1>1, <1>2, <2>1 DEF Archive!OneAtATime
  <2>5. \A s \in Sessions : \A v \in zipPart'[s] : v \in zipWriting' /\ v.for = s
    <3>1. \A s \in Sessions : \A v \in zipPart[s] : v = u /\ v.for = s
      BY <2>1, <2>2 DEF Archive!OneAtATime, Archive!Live
    <3>2. zipPart[u.for] # {} \/ \A s \in Sessions : zipPart[s] = {}
      BY <3>1
    <3>3. CASE UNCHANGED zipPart
      <4>1. zipPart[u.for] = {} \/ \A s \in Sessions : zipPart[s] = {}
        BY <3>3, <1>t, <1>2 DEF Archive!Install, Archive!Refuse, Archive!PostsTypeOK
      <4>2. \A s \in Sessions : zipPart[s] = {}
        BY <3>2, <4>1
      <4> QED BY <3>3, <4>2
    <3>4. CASE zipPart' = [zipPart EXCEPT ![u.for] = {}]
      <4>1. \A s \in Sessions : zipPart'[s] = {}
        BY <1>t, <1>2, <3>1, <3>4 DEF Archive!PostsTypeOK
      <4> QED BY <4>1
    <3> QED BY <1>3, <3>3, <3>4
  <2>6. Archive!OneAtATime'
    BY <2>3, <2>4, <2>5 DEF Archive!OneAtATime
  <2>7. ASSUME NEW s \in Sessions, zip'[s] # None PROVE Archive!Cardinality(zip'[s].by) = 1
    <3>1. CASE zip'[s] = zip[s]
      BY <1>t, <1>1, <1>5, <2>7, <3>1 DEF Archive!ArchivesAreWhole
    <3>2. CASE zip'[s] # zip[s]
      <4>1. zipPart[u.for] # {} /\ s = u.for /\ zip'[s].by = zipPart[u.for]
        BY <1>z, <3>2
      <4>2. zipPart[u.for] = {u}
        BY <1>2, <2>1, <2>2, <4>1 DEF Archive!OneAtATime, Archive!Live
      <4> QED BY <4>1, <4>2, FS_Singleton, ArchiveSets
    <3> QED BY <3>1, <3>2
  <2> QED BY <2>6, <2>7 DEF Archive!ArchivesAreWhole
<1>6. Archive!ArchivesAreWhole'
  BY <1>5 DEF Archive!ArchivesAreWhole
<1>7. ASSUME ~zipHistory'.crossed
      PROVE  /\ \A v \in Archive!Live' : v.of = v.for
             /\ \A s \in Sessions : zip'[s] # None => zip'[s].of = s
  <2>1. \A v \in Archive!Live : v.of = v.for
    BY <1>1, <1>7 DEF Archive!MaterialsInv
  <2>2. ASSUME NEW s \in Sessions, zip'[s] # None PROVE zip'[s].of = s
    <3>1. CASE zip'[s] = zip[s]
      BY <1>t, <1>1, <1>7, <2>2, <3>1 DEF Archive!ArchivesAreOurs
    <3>2. CASE zip'[s] # zip[s]
      <4>1. s = u.for /\ zip'[s].of = u.of
        BY <1>z, <3>2
      <4> QED BY <1>2, <2>1, <4>1
    <3> QED BY <3>1, <3>2
  <2> QED BY <1>2, <2>1, <2>2
<1> QED BY <1>4, <1>5, <1>6, <1>7 DEF Archive!MaterialsInv, Archive!ArchivesAreOurs

\* Every step keeps it.
LEMMA MaterialsStep == Archive!MaterialsAssumption /\ Archive!MaterialsInv
/\ [Archive!Next]_(Archive!vars) => Archive!MaterialsInv'
<1> SUFFICES ASSUME Archive!MaterialsAssumption, Archive!MaterialsInv,
                    [Archive!Next]_(Archive!vars)
             PROVE  Archive!MaterialsInv'
  OBVIOUS
<1>t. Archive!PostsTypeOK /\ Archive!ArchivesAreWhole /\ Archive!ArchivesAreOurs
  BY DEF Archive!MaterialsInv
<1>k. ASSUME UNCHANGED <<zipPart, zip, zipWriting, posting, zipHistory>>, slot' \in BOOLEAN,
             archiveRoom' \in Sessions, zippedFolder' \in Sessions, inbox' \in Seq(Sessions),
             ~zipHistory.late => Archive!OneAtATime'
      PROVE  Archive!MaterialsInv'
  <2>1. Archive!Live' = Archive!Live
    BY <1>k DEF Archive!Live
  <2>2. Archive!PostsTypeOK'
    BY <1>t, <1>k, <2>1 DEF Archive!PostsTypeOK
  <2>3. Archive!ArchivesAreWhole' /\ Archive!ArchivesAreOurs'
    BY <1>t, <1>k DEF Archive!ArchivesAreWhole, Archive!ArchivesAreOurs
  <2> QED BY <1>k, <2>1, <2>2, <2>3 DEF Archive!MaterialsInv
<1>1. ASSUME NEW c \in Callers, Archive!Get(c) PROVE Archive!MaterialsInv'
  <2>1. /\ UNCHANGED <<zipPart, zip, zipWriting, posting, zipHistory, archiveRoom,
           zippedFolder>>
        /\ \/ UNCHANGED <<slot, inbox>>
           \/ ~slot /\ slot' = TRUE /\ inbox' = Append(inbox, archiveRoom)
    BY <1>1 DEF Archive!Get, Archive!daemonVars
  <2>2. inbox' \in Seq(Sessions) /\ slot' \in BOOLEAN
    <3>1. inbox \in Seq(Sessions) /\ archiveRoom \in Sessions /\ slot \in BOOLEAN
      BY <1>t DEF Archive!PostsTypeOK
    <3>2. Append(inbox, archiveRoom) \in Seq(Sessions)
      BY <3>1
    <3> QED BY <2>1, <3>1, <3>2
  <2>3. ASSUME ~zipHistory.late PROVE Archive!OneAtATime'
    <3>1. Archive!OneAtATime
      BY <2>3 DEF Archive!MaterialsInv
    <3>2. Archive!Live' = Archive!Live
      BY <2>1 DEF Archive!Live
    <3>3. CASE UNCHANGED <<slot, inbox>>
      BY <2>1, <3>1, <3>2, <3>3 DEF Archive!OneAtATime
    <3>4. CASE ~slot /\ slot' = TRUE /\ inbox' = Append(inbox, archiveRoom)
      <4>1. inbox' = Append(<<>>, archiveRoom) /\ Archive!Live = {}
        BY <3>1, <3>4 DEF Archive!OneAtATime
      <4>2. Len(inbox') = 1
        BY <4>1
      <4> QED BY <2>1, <3>1, <3>2, <3>4, <4>1, <4>2 DEF Archive!OneAtATime
    <3> QED BY <2>1, <3>3, <3>4
  <2> QED BY <1>k, <1>t, <2>1, <2>2, <2>3 DEF Archive!PostsTypeOK
<1>s. ASSUME UNCHANGED <<zipPart, zip, zipWriting, posting, zipHistory, slot, inbox>>,
             archiveRoom' \in Sessions, zippedFolder' \in Sessions
      PROVE  Archive!MaterialsInv'
  <2>1. ~zipHistory.late => Archive!OneAtATime'
    BY <1>s DEF Archive!MaterialsInv, Archive!OneAtATime, Archive!Live
  <2> QED BY <1>k, <1>s, <1>t, <2>1 DEF Archive!PostsTypeOK
<1>2. ASSUME \/ \E c \in Callers : Archive!GiveUp(c)
             \/ Archive!Expire \/ (\E d \in ArchiveDecks : Archive!Warm(d)) \/ Archive!Relink
                \/ UNCHANGED Archive!vars
      PROVE  Archive!MaterialsInv'
  <2>1. UNCHANGED <<zipPart, zip, zipWriting, posting, zipHistory, slot, inbox, archiveRoom,
        zippedFolder>>
    BY <1>2 DEF Archive!GiveUp, Archive!Expire, Archive!Warm, Archive!Relink, Archive!vars,
        Archive!railwayVars, Archive!daemonVars, Archive!linkVars
  <2> QED BY <1>s, <1>t, <2>1 DEF Archive!PostsTypeOK
<1>3. ASSUME (\E s \in Sessions : Archive!Switch(s)) \/ Archive!Told PROVE Archive!MaterialsInv'
  <2>1. /\ UNCHANGED <<zipPart, zip, zipWriting, posting, zipHistory, slot, inbox>>
        /\ archiveRoom' \in Sessions /\ zippedFolder' \in Sessions
    BY <1>t, <1>3 DEF Archive!Switch, Archive!Told, Archive!railwayVars, Archive!daemonVars,
        Archive!linkVars, Archive!PostsTypeOK
  <2> QED BY <1>s, <2>1
<1>4. CASE Archive!Drop
  <2>1. /\ UNCHANGED <<zipPart, zip, zipWriting, posting, zipHistory, slot, archiveRoom,
           zippedFolder>>
        /\ inbox' = <<>>
    BY <1>4 DEF Archive!Drop, Archive!railwayVars, Archive!daemonVars
  <2>2. ~zipHistory.late => Archive!OneAtATime'
    BY <2>1 DEF Archive!MaterialsInv, Archive!OneAtATime, Archive!Live
  <2> QED BY <1>k, <1>t, <2>1, <2>2 DEF Archive!PostsTypeOK
<1>5. CASE Archive!Take
  <2>1. /\ UNCHANGED <<zipPart, zip, zipWriting, slot, archiveRoom, zippedFolder>>
        /\ inbox # <<>> /\ posting = None /\ inbox' = Tail(inbox)
        /\ zipHistory' = [zipHistory EXCEPT !.crossed = @ \/ zippedFolder # Head(inbox)]
    BY <1>5 DEF Archive!Take, Archive!railwayVars
  <2>2. posting'.for = Head(inbox) /\ posting'.of = zippedFolder
    BY <1>5 DEF Archive!Take
  <2>3. Head(inbox) \in Sessions /\ inbox' \in Seq(Sessions)
    BY <1>t, <2>1 DEF Archive!PostsTypeOK
  <2>4. Archive!Live' \subseteq Archive!Live \cup {posting'}
    BY <2>1 DEF Archive!Live
  <2>5. zipHistory'.late = zipHistory.late
        /\ zipHistory' \in [late : BOOLEAN, crossed : BOOLEAN]
    BY <1>t, <2>1 DEF Archive!PostsTypeOK
  <2>6. Archive!PostsTypeOK'
    BY <1>t, <2>1, <2>2, <2>3, <2>4, <2>5 DEF Archive!PostsTypeOK
  <2>7. ASSUME ~zipHistory'.late PROVE Archive!OneAtATime'
    <3>1. Archive!OneAtATime
      BY <2>5, <2>7 DEF Archive!MaterialsInv
    <3>2. slot /\ Archive!Live = {} /\ Len(inbox) = 1
      BY <2>1, <3>1 DEF Archive!OneAtATime
    <3>3. inbox' = <<>>
      BY <1>t, <2>1, <3>2 DEF Archive!PostsTypeOK
    <3> QED BY <2>1, <2>4, <3>1, <3>2, <3>3 DEF Archive!OneAtATime
  <2>8. ASSUME ~zipHistory'.crossed
        PROVE  ~zipHistory.crossed /\ \A u \in Archive!Live' : u.of = u.for
    <3>1. ~zipHistory.crossed /\ zippedFolder = Head(inbox)
      BY <1>t, <2>1, <2>8 DEF Archive!PostsTypeOK
    <3> QED BY <2>2, <2>4, <3>1 DEF Archive!MaterialsInv
  <2>9. Archive!ArchivesAreWhole' /\ Archive!ArchivesAreOurs'
    BY <1>t, <2>1, <2>5, <2>8 DEF Archive!ArchivesAreWhole, Archive!ArchivesAreOurs
  <2> QED BY <2>6, <2>7, <2>8, <2>9 DEF Archive!MaterialsInv
<1>6. CASE Archive!TakeFails
  <2>1. /\ UNCHANGED <<zipPart, zip, zipWriting, posting, zipHistory, archiveRoom,
           zippedFolder>>
        /\ inbox # <<>> /\ inbox' = Tail(inbox) /\ slot' = FALSE
    BY <1>6 DEF Archive!TakeFails, Archive!daemonVars
  <2>2. inbox' \in Seq(Sessions)
    BY <1>t, <2>1 DEF Archive!PostsTypeOK
  <2>3. ASSUME ~zipHistory.late PROVE Archive!OneAtATime'
    <3>1. Archive!OneAtATime
      BY <2>3 DEF Archive!MaterialsInv
    <3>2. Archive!Live' = {} /\ Len(inbox) = 1
      BY <2>1, <3>1 DEF Archive!OneAtATime, Archive!Live
    <3>3. inbox' = <<>>
      BY <1>t, <2>1, <3>2 DEF Archive!PostsTypeOK
    <3> QED BY <2>1, <3>1, <3>2, <3>3 DEF Archive!OneAtATime
  <2> QED BY <1>k, <1>t, <2>1, <2>2, <2>3 DEF Archive!PostsTypeOK
<1>7. CASE Archive!PostFails \/ Archive!PostTimesOut
  <2>1. /\ UNCHANGED <<zipPart, zip, zipWriting, zipHistory, slot, inbox, archiveRoom,
           zippedFolder>>
        /\ posting' = None
    BY <1>7 DEF Archive!PostFails, Archive!PostTimesOut, Archive!railwayVars, Archive!linkVars
  <2>2. Archive!Live' \subseteq Archive!Live
    BY <2>1 DEF Archive!Live
  <2>3. Archive!PostsTypeOK'
    BY <1>t, <2>1, <2>2 DEF Archive!PostsTypeOK
  <2>4. Archive!ArchivesAreWhole' /\ Archive!ArchivesAreOurs'
    BY <1>t, <2>1 DEF Archive!ArchivesAreWhole, Archive!ArchivesAreOurs
  <2>5. ~zipHistory'.late => Archive!OneAtATime'
    BY <2>1, <2>2 DEF Archive!MaterialsInv, Archive!OneAtATime
  <2> QED BY <2>1, <2>2, <2>3, <2>4, <2>5 DEF Archive!MaterialsInv
<1>8. CASE Archive!Open
  <2>1. /\ UNCHANGED <<zip, posting, zipHistory, slot, inbox, archiveRoom, zippedFolder>>
        /\ posting # None /\ zipWriting' = zipWriting \cup {posting}
        /\ zipPart' = [zipPart EXCEPT ![posting.for] = @ \cup {posting}]
    BY <1>8 DEF Archive!Open, Archive!daemonVars, Archive!linkVars
  <2>2. Archive!Live' = Archive!Live /\ posting \in Archive!Live
    BY <2>1 DEF Archive!Live
  <2>3. Archive!PostsTypeOK'
    BY <1>t, <2>1, <2>2 DEF Archive!PostsTypeOK
  <2>4. Archive!ArchivesAreWhole' /\ Archive!ArchivesAreOurs'
    BY <1>t, <2>1 DEF Archive!ArchivesAreWhole, Archive!ArchivesAreOurs
  <2>5. ASSUME ~zipHistory'.late PROVE Archive!OneAtATime'
    <3>1. Archive!OneAtATime
      BY <2>1, <2>5 DEF Archive!MaterialsInv
    <3>2. ASSUME NEW s \in Sessions, NEW v \in zipPart'[s] PROVE v \in zipWriting' /\ v.for = s
      <4>1. v \in zipPart[s] \/ (v = posting /\ s = posting.for)
        BY <1>t, <2>1, <3>2 DEF Archive!PostsTypeOK
      <4> QED BY <2>1, <3>1, <4>1 DEF Archive!OneAtATime
    <3> QED BY <2>1, <2>2, <3>1, <3>2 DEF Archive!OneAtATime
  <2> QED BY <2>1, <2>2, <2>3, <2>4, <2>5 DEF Archive!MaterialsInv
<1>9. CASE Archive!Redeploy
  <2>1. /\ UNCHANGED <<archiveRoom, zippedFolder>> /\ inbox' = <<>> /\ slot' = FALSE
           /\ zipWriting' = {}
        /\ zipPart' = [s \in Sessions |-> {}] /\ zip' = [s \in Sessions |-> None]
        /\ zipHistory' = [zipHistory EXCEPT !.late = @ \/ posting \notin zipWriting \cup {None}]
        /\ posting' = (IF posting \in zipWriting THEN None ELSE posting)
    BY <1>9 DEF Archive!Redeploy
  <2>2. Archive!Live' \subseteq Archive!Live
    BY <2>1 DEF Archive!Live
  <2>3. /\ zipHistory' \in [late : BOOLEAN, crossed : BOOLEAN]
        /\ zipHistory'.crossed = zipHistory.crossed
        /\ ~zipHistory'.late => posting \in zipWriting \cup {None}
    <3> DEFINE far == posting \notin zipWriting \cup {None}
    <3>1. far \in BOOLEAN
      OBVIOUS
    <3>2. zipHistory' = [zipHistory EXCEPT !.late = @ \/ far]
      BY <2>1
    <3>3. ~far => posting \in zipWriting \cup {None}
      OBVIOUS
    <3> HIDE DEF far
    <3> QED BY <1>t, <3>1, <3>2, <3>3 DEF Archive!PostsTypeOK
  <2>4. Archive!PostsTypeOK'
    <3>1. zipPart' = [s \in Sessions |-> zipPart'[s]] /\ zip' = [s \in Sessions |-> zip'[s]]
      <4>1. \A s \in Sessions : zipPart'[s] = {} /\ zip'[s] = None
        BY <2>1
      <4> QED BY <2>1, <4>1
    <3>2. <<>> \in Seq(Sessions)
      OBVIOUS
    <3> QED BY <1>t, <2>1, <2>2, <2>3, <3>1, <3>2 DEF Archive!PostsTypeOK
  <2>5. Archive!ArchivesAreWhole' /\ Archive!ArchivesAreOurs'
    BY <2>1 DEF Archive!ArchivesAreWhole, Archive!ArchivesAreOurs
  <2>6. ~zipHistory'.late => Archive!OneAtATime'
    BY <2>1, <2>3 DEF Archive!OneAtATime, Archive!Live
  <2>7. ~zipHistory'.crossed => \A u \in Archive!Live' : u.of = u.for
    BY <2>2, <2>3 DEF Archive!MaterialsInv
  <2> QED BY <2>4, <2>5, <2>6, <2>7 DEF Archive!MaterialsInv
<1>10. ASSUME NEW u \in zipWriting, Archive!Install(u) \/ Archive!Refuse(u)
       PROVE  Archive!MaterialsInv'
  BY <1>10, UploadEnds
<1> QED
  BY <1>1, <1>2, <1>3, <1>4, <1>5, <1>6, <1>7, <1>8, <1>9, <1>10 DEF Archive!Next,
      Archive!Railway, Archive!Daemon

----------------------------------------------------------------------------
(* All of them                                                              *)

\* The throttle of the pushes moves as it does alone, or rests.
LEMMA ThrottlePart == [LimitsNext]_limitVars => [Throttle!Next]_(Throttle!vars)
<1>1. UNCHANGED throttleVars => UNCHANGED Throttle!vars
  BY DEF throttleVars, Throttle!vars
<1>2. LimitsNext => Throttle!Next \/ UNCHANGED throttleVars
  BY DEF LimitsNext
<1>3. UNCHANGED limitVars => UNCHANGED throttleVars
  BY DEF limitVars
<1> QED BY <1>1, <1>2, <1>3

\* The lever moves as it does alone, or rests.
LEMMA LeverPart == [LimitsNext]_limitVars => [Lever!Next]_(Lever!vars)
<1>1. UNCHANGED leverVars => UNCHANGED Lever!vars
  BY DEF leverVars, Lever!vars, Lever!switchVars, Lever!outcomeVars
<1>2. LimitsNext => Lever!Next \/ UNCHANGED leverVars
  BY DEF LimitsNext
<1>3. UNCHANGED limitVars => UNCHANGED leverVars
  BY DEF limitVars
<1> QED BY <1>1, <1>2, <1>3

\* The reactions moves as it does alone, or rests.
LEMMA ReactionsPart == [LimitsNext]_limitVars => [Reactions!Next]_(Reactions!vars)
<1>1. UNCHANGED reactionVars => UNCHANGED Reactions!vars
  BY DEF reactionVars, Reactions!vars
<1>2. LimitsNext => Reactions!Next \/ UNCHANGED reactionVars
  BY DEF LimitsNext
<1>3. UNCHANGED limitVars => UNCHANGED reactionVars
  BY DEF limitVars
<1> QED BY <1>1, <1>2, <1>3

\* The slides cache moves as it does alone, or rests.
LEMMA CachePart == [LimitsNext]_limitVars => [Cache!Next]_(Cache!vars)
<1>1. UNCHANGED cacheVars => UNCHANGED Cache!vars
  BY DEF cacheVars, Cache!vars, Cache!railwayVars, Cache!noteVars, Cache!slotVars,
      Cache!workVars, Cache!history
<1>2. LimitsNext => Cache!Next \/ UNCHANGED cacheVars
  BY DEF LimitsNext
<1>3. UNCHANGED limitVars => UNCHANGED cacheVars
  BY DEF limitVars
<1> QED BY <1>1, <1>2, <1>3

\* The export probe moves as it does alone, or rests.
LEMMA ProbePart == [LimitsNext]_limitVars => [Probe!Next]_(Probe!vars)
<1>1. UNCHANGED probeVars => UNCHANGED Probe!vars
  BY DEF probeVars, Probe!vars
<1>2. LimitsNext => Probe!Next \/ UNCHANGED probeVars
  BY DEF LimitsNext
<1>3. UNCHANGED limitVars => UNCHANGED probeVars
  BY DEF limitVars
<1> QED BY <1>1, <1>2, <1>3

\* The mails of a participant moves as it does alone, or rests.
LEMMA HandoutsPart == [LimitsNext]_limitVars => [Handouts!Next]_(Handouts!vars)
<1>1. UNCHANGED handoutVars => UNCHANGED Handouts!vars
  BY DEF handoutVars, Handouts!vars, Handouts!pasteVars, Handouts!mailVars, Handouts!formVars
<1>2. LimitsNext => Handouts!Next \/ UNCHANGED handoutVars
  BY DEF LimitsNext
<1>3. UNCHANGED limitVars => UNCHANGED handoutVars
  BY DEF limitVars
<1> QED BY <1>1, <1>2, <1>3

\* The sealed files moves as it does alone, or rests.
LEMMA RelaysPart == [LimitsNext]_limitVars => [Relays!Next]_(Relays!vars)
<1>1. UNCHANGED relayVars => UNCHANGED Relays!vars
  BY DEF relayVars, Relays!vars, Relays!bridgeVars, Relays!clipVars, Relays!fileVars
<1>2. LimitsNext => Relays!Next \/ UNCHANGED relayVars
  BY DEF LimitsNext, Relays!Next
<1>3. UNCHANGED limitVars => UNCHANGED relayVars
  BY DEF limitVars
<1> QED BY <1>1, <1>2, <1>3

\* The document of the opened files moves as it does alone, or rests.
LEMMA OpenedPart == [LimitsNext]_limitVars => [Opened!Next]_(Opened!vars)
<1>1. UNCHANGED openedVars => UNCHANGED Opened!vars
  BY DEF openedVars, Opened!vars, Opened!recorderVars
<1>2. LimitsNext => Opened!Next \/ UNCHANGED openedVars
  BY DEF LimitsNext
<1>3. UNCHANGED limitVars => UNCHANGED openedVars
  BY DEF limitVars
<1> QED BY <1>1, <1>2, <1>3

\* The lock of the daemon moves as it does alone, or rests.
LEMMA LockPart == [LimitsNext]_limitVars => [Lock!Next]_(Lock!vars)
<1>1. UNCHANGED lockVars => UNCHANGED Lock!vars
  BY DEF lockVars, Lock!vars
<1>2. LimitsNext => Lock!Next \/ UNCHANGED lockVars
  BY DEF LimitsNext
<1>3. UNCHANGED limitVars => UNCHANGED lockVars
  BY DEF limitVars
<1> QED BY <1>1, <1>2, <1>3

\* The publishing of the slides moves as it does alone, or rests.
LEMMA PublishPart == [LimitsNext]_limitVars => [Publish!Next]_(Publish!vars)
<1>1. UNCHANGED publishVars => UNCHANGED Publish!vars
  BY DEF publishVars, Publish!vars, Publish!world, Publish!record
<1>2. LimitsNext => Publish!Next \/ UNCHANGED publishVars
  BY DEF LimitsNext
<1>3. UNCHANGED limitVars => UNCHANGED publishVars
  BY DEF limitVars
<1> QED BY <1>1, <1>2, <1>3

\* The site of the notes moves as it does alone, or rests.
LEMMA WikiPart == [LimitsNext]_limitVars => [Wiki!Next]_(Wiki!vars)
<1>1. UNCHANGED wikiVars => UNCHANGED Wiki!vars
  BY DEF wikiVars, Wiki!vars, Wiki!vaultVars, Wiki!publisherVars, Wiki!railwayVars, Wiki!starVars
<1>2. LimitsNext => Wiki!Next \/ UNCHANGED wikiVars
  BY DEF LimitsNext, Wiki!Next
<1>3. UNCHANGED limitVars => UNCHANGED wikiVars
  BY DEF limitVars
<1> QED BY <1>1, <1>2, <1>3

\* The archive moves as it does alone, or rests.
LEMMA ArchivePart == [LimitsNext]_limitVars => [Archive!Next]_(Archive!vars)
<1>1. UNCHANGED archiveVars => UNCHANGED Archive!vars
  BY DEF archiveVars, Archive!vars, Archive!railwayVars, Archive!daemonVars, Archive!linkVars
<1>2. LimitsNext => Archive!Next \/ UNCHANGED archiveVars
  BY DEF LimitsNext
<1>3. UNCHANGED limitVars => UNCHANGED archiveVars
  BY DEF limitVars
<1> QED BY <1>1, <1>2, <1>3

\* All of them start in their invariants.
LEMMA LimitsStart == LimitsInit => LimitsInv
<1> SUFFICES ASSUME LimitsInit PROVE LimitsInv
  OBVIOUS
<1>1. Throttle!ThrottleInv
  BY ThrottleStarts, LimitsAssumption DEF LimitsInit
<1>2. Lever!LeverInv
  BY LeverStarts, LimitsAssumption DEF LimitsInit
<1>3. Reactions!ReactionsInv
  BY ReactionsStart, LimitsAssumption DEF LimitsInit
<1>4. Cache!CacheInv /\ Cache!CopyInv
  BY CacheStarts, LimitsAssumption DEF LimitsInit
<1>5. Probe!ProbeInv
  BY ProbeStarts, LimitsAssumption DEF LimitsInit
<1>6. Handouts!HandoutsInv
  BY MailsStart, FormStarts, LimitsAssumption DEF LimitsInit, Handouts!HandoutsInv
<1>7. Relays!RelaysInv
  BY ParcelsStart, BridgeStarts, LimitsAssumption DEF LimitsInit, Relays!RelaysInv
<1>8. Opened!OpenedInv /\ Opened!KeptInv
  BY OpenedStarts, KeptStarts, LimitsAssumption DEF LimitsInit
<1>9. Lock!LockInv
  BY LockStarts, LimitsAssumption DEF LimitsInit
<1>10. Publish!PublishInv
  BY PublishStarts, LimitsAssumption DEF LimitsInit
<1>11. Wiki!WikiInv
  BY WikiStarts, LimitsAssumption DEF LimitsInit
<1>12. Archive!MaterialsInv
  BY MaterialsStart, LimitsAssumption DEF LimitsInit
<1> QED BY <1>1, <1>2, <1>3, <1>4, <1>5, <1>6, <1>7, <1>8, <1>9, <1>10, <1>11, <1>12
        DEF LimitsInv

\* Every step of one of them preserves the invariants of all.
LEMMA LimitsStep == LimitsInv /\ [LimitsNext]_limitVars => LimitsInv'
<1> SUFFICES ASSUME LimitsInv, [LimitsNext]_limitVars PROVE LimitsInv'
  OBVIOUS
<1>1. Throttle!ThrottleInv'
  BY ThrottlePart, ThrottleSteps, LimitsAssumption DEF LimitsInv
<1>2. Lever!LeverInv'
  BY LeverPart, LeverSteps, LimitsAssumption DEF LimitsInv
<1>3. Reactions!ReactionsInv'
  BY ReactionsPart, ReactionsStep, LimitsAssumption DEF LimitsInv
<1>4. Cache!CacheInv' /\ Cache!CopyInv'
  BY CachePart, CacheSteps, CopySteps, LimitsAssumption DEF LimitsInv
<1>5. Probe!ProbeInv'
  BY ProbePart, ProbeSteps, LimitsAssumption DEF LimitsInv
<1>6. Handouts!HandoutsInv'
  BY HandoutsPart, MailsStep, PastesStep, FormStep, LimitsAssumption
     DEF LimitsInv, Handouts!HandoutsInv
<1>7. Relays!RelaysInv'
  BY RelaysPart, ParcelsStep, BridgeStep, ClipsStep, LimitsAssumption
     DEF LimitsInv, Relays!RelaysInv
<1>8. Opened!OpenedInv' /\ Opened!KeptInv'
  BY OpenedPart, OpenedSteps, KeptSteps, LimitsAssumption DEF LimitsInv
<1>9. Lock!LockInv'
  BY LockPart, LockSteps, LimitsAssumption DEF LimitsInv
<1>10. Publish!PublishInv'
  BY PublishPart, PublishStep, LimitsAssumption DEF LimitsInv
<1>11. Wiki!WikiInv'
  BY WikiPart, WikiStep, LimitsAssumption DEF LimitsInv
<1>12. Archive!MaterialsInv'
  BY ArchivePart, MaterialsStep, LimitsAssumption DEF LimitsInv
<1> QED BY <1>1, <1>2, <1>3, <1>4, <1>5, <1>6, <1>7, <1>8, <1>9, <1>10, <1>11, <1>12
        DEF LimitsInv

\* What the invariants say of the limits.
LEMMA InvariantsLimit == LimitsInv => LimitsHold
<1> SUFFICES ASSUME LimitsInv PROVE LimitsHold
  OBVIOUS
<1>1. Throttle!AtMostOnePush /\ Throttle!ChangeIsOnItsWay
  BY DEF LimitsInv, Throttle!ThrottleInv
<1>2. Lever!RoomIsSpared
  BY DEF LimitsInv, Lever!LeverInv
<1>3. Reactions!LimitsHold
  BY LimitsFollow, LimitsAssumption DEF LimitsInv
<1>4. Cache!OneDownload
  BY SlotCounts, LimitsAssumption DEF LimitsInv
<1>5. Probe!AlarmIsWatched
  BY DEF LimitsInv, Probe!ProbeInv
<1>6. Handouts!MailsKeepApart
  BY DEF LimitsInv, Handouts!HandoutsInv, Handouts!MailsInv
<1>7. Relays!OneFits
  BY DEF LimitsInv, Relays!RelaysInv, Relays!ParcelsInv
<1>8. Opened!NothingPrivate
  BY OpenedIsPublic DEF LimitsInv
<1>9. Lock!OneDaemon
  BY LockIsForOne, LimitsAssumption DEF LimitsInv
<1> QED BY <1>1, <1>2, <1>3, <1>4, <1>5, <1>6, <1>7, <1>8, <1>9 DEF LimitsHold

\* The services with limits and those that serve keep their invariants: for any numbers of
\* participants, sessions, files, decks, notes, repositories and processes, and for limits of
\* any size.  Each says what holds until the meeting that breaks it, and what holds after it.
THEOREM LimitsInvariant == LimitsSpec => []LimitsInv
<1>1. LimitsInit => LimitsInv
  BY LimitsStart
<1>2. LimitsInv /\ [LimitsNext]_limitVars => LimitsInv'
  BY LimitsStep
<1> QED BY <1>1, <1>2, PTL DEF LimitsSpec

\* Without a condition: one push per interval of LoopThrottle and no last change forgotten by
\* either throttle, no more reactions than window and bucket allow, no alarm that nobody watches,
\* the gap between mails, no private repository in the document, a slot that is taken only while
\* somebody downloads.  As long as presses do not overlap: one sound per cooldown of the room.  As
\* long as uploads come one at a time: no more parcels than there is room for.  Until a check
\* with force=true, and again once the downloads beside it are over: one download per deck, of
\* checks, pollers and what was queued.  As long as no two starts overlap and no loop hangs: one
\* daemon, which holds the lock.
THEOREM LimitsAlwaysHold == LimitsSpec => []LimitsHold
<1>1. LimitsInv => LimitsHold
  BY InvariantsLimit
<1> QED BY <1>1, LimitsInvariant, PTL

\* What the invariants say of what is served.
LEMMA InvariantsServe == LimitsInv => ServedIsThere
<1> SUFFICES ASSUME LimitsInv PROVE ServedIsThere
  OBVIOUS
<1>1. Cache!CachedIsThere
  BY DEF LimitsInv, Cache!CopyInv
<1>2. Handouts!FormSurvives
  BY DEF LimitsInv, Handouts!HandoutsInv
<1>3. Relays!RequestsComeHome
  BY DEF LimitsInv, Relays!RelaysInv, Relays!BridgeInv
<1>4. Opened!OpenedStays /\ Opened!RelinkHeals
  BY OpenedIsKept DEF LimitsInv
<1>5. Publish!LossesAreKnown
  BY DEF LimitsInv, Publish!PublishInv
<1>6. Wiki!ServedOrOwed /\ Wiki!RootIsServed /\ Wiki!StarsAreKept
  BY WikiFollows, LimitsAssumption DEF LimitsInv
<1>7. Archive!ArchivesAreWhole /\ Archive!ArchivesAreOurs
  BY DEF LimitsInv, Archive!MaterialsInv
<1> QED BY <1>1, <1>2, <1>3, <1>4, <1>5, <1>6, <1>7 DEF ServedIsThere

\* Without a condition: a parked request is of a tablet that waits for it; after a pass to
\* which GitHub answered no link is rotten; the site's root is a page; the trainer's stars are
\* those of the file, and the readers' unless the last save of them failed.  And these, each as
\* long as what it names did not happen: a deck called cached has a copy (who has not the slot
\* deleted it, or a probe ran beside who has it); the form on the pages is the folder's once
\* nothing is under way (a job met another one or a change of session); what was opened stays
\* in the document (recorder and relink command overlap); a deck that is not published as it
\* is, is marked (a step of a job failed, the daemon ended in one, or a deck was saved again
\* before it was published); the site is served or owed (Railway came back during an upload);
\* an archive is whole (an upload outlived a redeployment) and the session's (its request was
\* answered from another one).
THEOREM ServedIsAlwaysThere == LimitsSpec => []ServedIsThere
<1>1. LimitsInv => ServedIsThere
  BY InvariantsServe
<1> QED BY <1>1, LimitsInvariant, PTL

----------------------------------------------------------------------------
(* Two that the composition explores in parts, with all their parts at once *)

\* The relays alone, in any interleaving of requests, clips and parcels: an answer goes to the
\* tablet whose request it is, and the parcels fit while their uploads come one at a time.
THEOREM RelaysAlone == Relays!Spec => [](Relays!RequestsComeHome /\ Relays!OneFits)
<1> DEFINE Inv == Relays!RelaysInv
<1>1. Relays!Init => Inv
  BY ParcelsStart, BridgeStarts, LimitsAssumption DEF Relays!RelaysInv
<1>2. Inv /\ [Relays!Next]_(Relays!vars) => Inv'
  BY ParcelsStep, BridgeStep, ClipsStep, LimitsAssumption DEF Relays!RelaysInv
<1>3. Inv => Relays!RequestsComeHome /\ Relays!OneFits
  BY DEF Relays!RelaysInv, Relays!BridgeInv, Relays!ParcelsInv
<1> HIDE DEF Inv
<1> QED BY <1>1, <1>2, <1>3, PTL DEF Relays!Spec

\* The notes alone, with sites built and sent while the trainer's and the readers' stars are
\* set, saved and purged: what is served is so, or owed, unless Railway came back during an
\* upload, and no star is lost but by a save that failed.
THEOREM WikiAlone ==
  Wiki!Spec => [](Wiki!ServedOrOwed /\ Wiki!RootIsServed /\ Wiki!StarsAreKept)
<1> DEFINE Inv == Wiki!WikiInv
<1>1. Wiki!Init => Inv
  BY WikiStarts, LimitsAssumption
<1>2. Inv /\ [Wiki!Next]_(Wiki!vars) => Inv'
  BY WikiStep, LimitsAssumption
<1>3. Inv => Wiki!ServedOrOwed /\ Wiki!RootIsServed /\ Wiki!StarsAreKept
  BY WikiFollows, LimitsAssumption
<1> HIDE DEF Inv
<1> QED BY <1>1, <1>2, <1>3, PTL DEF Wiki!Spec
=============================================================================
