-------------------------- MODULE ActivitiesProofs --------------------------
(***************************************************************************)
(* Theorems about the activities, for every finite set of participants and *)
(* all bounds: first each component's invariant, with its operators, its    *)
(* start and its steps, then the activities together.  A component is       *)
(* reached through the instance MCActivities makes of it; those lemmas of   *)
(* the form "assumption and invariant and step imply invariant" say that    *)
(* of its own Next, and XApart that it loses nothing while others move.     *)
(***************************************************************************)
EXTENDS MCActivities, TLAPS, FiniteSetTheorems, FunctionTheorems, WellFoundedInduction

----------------------------------------------------------------------------
(* The poll                                                                 *)

\* Finite sets are what they are in the poll's module.
LEMMA PollSets ==
  \A S : (Poll!IsFiniteSet(S) <=> IsFiniteSet(S)) /\ Poll!Cardinality(S) = Cardinality(S)
  BY DEF Poll!IsFiniteSet, IsFiniteSet, Poll!Cardinality, Cardinality

----------------------------------------------------------------------------
(* Tallies                                                                  *)

\* A ballot is a sequence of options.
LEMMA PollBallotType ==
  ASSUME Poll!PollAssumption
  PROVE  \A b \in Poll!Ballots : b \in Seq(Poll!Options) /\ Len(b) \in 0 .. MaxNamed
<1> SUFFICES ASSUME NEW b \in Poll!Ballots
             PROVE  b \in Seq(Poll!Options) /\ Len(b) \in 0 .. MaxNamed
  OBVIOUS
<1>1. PICK k \in 0 .. MaxNamed : b \in [1 .. k -> Poll!Options]
  BY DEF Poll!Ballots
<1>2. k \in Nat
  BY DEF Poll!PollAssumption
<1> QED BY <1>1, <1>2

\* Nobody's ballot is one.
LEMMA PollNoBallot ==
  Poll!PollAssumption => <<>> \in Poll!Ballots /\ Poll!NoVotes \in [Few -> Poll!Ballots]
<1> SUFFICES ASSUME Poll!PollAssumption
             PROVE  <<>> \in Poll!Ballots /\ Poll!NoVotes \in [Few -> Poll!Ballots]
  OBVIOUS
<1>1. <<>> \in [1 .. 0 -> Poll!Options]
  OBVIOUS
<1>2. 0 \in 0 .. MaxNamed
  BY DEF Poll!PollAssumption
<1>3. <<>> \in Poll!Ballots
  BY <1>1, <1>2 DEF Poll!Ballots
<1> QED BY <1>3 DEF Poll!NoVotes

\* No option is counted more often than there are participants, each with a full ballot.
LEMMA PollTallyType ==
  ASSUME Poll!PollAssumption, NEW v, NEW d \in Poll!Drafts
  PROVE  Poll!Tally(v, d) \in [1 .. d.n -> 0 .. Poll!Cardinality(Few) * MaxNamed]
<1> DEFINE Places == Few \X (1 .. MaxNamed)
<1>1. IsFiniteSet(Places) /\ Cardinality(Places) = Cardinality(Few) * MaxNamed
  <2>1. MaxNamed \in Nat /\ IsFiniteSet(Few)
    BY PollSets DEF Poll!PollAssumption
  <2>2. IsFiniteSet(1 .. MaxNamed) /\ Cardinality(1 .. MaxNamed) = MaxNamed
    BY <2>1, FS_Interval
  <2> QED BY <2>1, <2>2, FS_Product
<1>2. ASSUME NEW i \in 1 .. d.n
      PROVE  Poll!Cardinality({x \in Places : x[2] \in 1 .. Len(v[x[1]]) /\ v[x[1]][x[2]] = i})
               \in 0 .. Poll!Cardinality(Few) * MaxNamed
  <2> DEFINE S == {x \in Places : x[2] \in 1 .. Len(v[x[1]]) /\ v[x[1]][x[2]] = i}
  <2>1. S \subseteq Places OBVIOUS
  <2>2. IsFiniteSet(S) /\ Cardinality(S) <= Cardinality(Places)
    BY <2>1, <1>1, FS_Subset
  <2>3. Cardinality(S) \in Nat /\ Cardinality(Places) \in Nat
    BY <2>2, <1>1, FS_CardinalityType
  <2>4. Cardinality(S) \in 0 .. Cardinality(Places)
    BY <2>2, <2>3
  <2>5. Poll!Cardinality(S) \in 0 .. Poll!Cardinality(Few) * MaxNamed
    BY <2>4, <1>1, PollSets
  <2> QED BY <2>5
<1> QED BY <1>2 DEF Poll!Tally

\* What a flip to single mode leaves are ballots, and none with two options.
LEMMA PollFlipType ==
  ASSUME Poll!PollAssumption, votes \in [Few -> Poll!Ballots], NEW d \in Poll!Drafts
  PROVE  /\ Poll!AfterFlip(d) \in [Few -> Poll!Ballots]
         /\ \A p \in Few : Poll!AfterFlip(d)[p] = votes[p] \/ Poll!AfterFlip(d)[p] = <<>>
  BY PollNoBallot DEF Poll!AfterFlip

\* The counts that are pushed are those that were known, or the tally.
LEMMA PollPushType ==
  ASSUME Poll!PollAssumption, NEW known, Poll!Push(known), poll' \in Poll!Drafts,
         known = Poll!Dirty \/ known \in [1 .. poll'.n -> 0 .. Poll!Cardinality(Few) * MaxNamed]
  PROVE  /\ lagging' = FALSE
         /\ cache' \in [1 .. poll'.n -> 0 .. Poll!Cardinality(Few) * MaxNamed]
<1>1. Poll!Tally(votes', poll') \in [1 .. poll'.n -> 0 .. Poll!Cardinality(Few) * MaxNamed]
  BY PollTallyType
<1> QED BY <1>1 DEF Poll!Push, Poll!VoteCounts

----------------------------------------------------------------------------
(* Types                                                                    *)

\* Every step of the poll keeps the types, also of the activity.
LEMMA PollTypes ==
  Poll!PollAssumption /\ Poll!PollTypeOK /\ Poll!FlagsTypeOK /\ Poll!ActivityTypeOK
      /\ [Poll!Next]_(Poll!vars)
    => Poll!PollTypeOK' /\ Poll!FlagsTypeOK' /\ Poll!ActivityTypeOK'
<1> SUFFICES ASSUME Poll!PollAssumption, Poll!PollTypeOK, Poll!FlagsTypeOK, Poll!ActivityTypeOK,
                    [Poll!Next]_(Poll!vars)
             PROVE  Poll!PollTypeOK' /\ Poll!FlagsTypeOK' /\ Poll!ActivityTypeOK'
  OBVIOUS
<1>0. Poll!NoDraft \in Poll!Drafts /\ Poll!NoVotes \in [Few -> Poll!Ballots]
  BY PollNoBallot DEF Poll!NoDraft, Poll!Drafts, Poll!PollAssumption
<1>z. 0 \in 0 .. MaxStarts
  BY DEF Poll!PollAssumption
<1>a. ASSUME UNCHANGED Poll!activityVars PROVE Poll!ActivityTypeOK'
  BY <1>a DEF Poll!activityVars, Poll!ActivityTypeOK
<1>c. ASSUME NEW push \in BOOLEAN, Poll!Recount(push), poll' \in Poll!Drafts
      PROVE  /\ lagging' \in BOOLEAN
             /\ cache' = Poll!Dirty
                  \/ cache' \in [1 .. poll'.n -> 0 .. Poll!Cardinality(Few) * MaxNamed]
  <2>1. CASE push
    <3>1. Poll!Push(Poll!Dirty) BY <1>c, <2>1 DEF Poll!Recount
    <3> QED BY <3>1, <1>c, PollPushType
  <2>2. CASE ~push
    BY <1>c, <2>2 DEF Poll!Recount, Poll!FlagsTypeOK
  <2> QED BY <2>1, <2>2
<1>r. ASSUME Poll!ResetPoll PROVE Poll!PollTypeOK' /\ Poll!FlagsTypeOK'
  <2>1. Poll!PollTypeOK' BY <1>r, <1>0 DEF Poll!ResetPoll, Poll!PollTypeOK
  <2>2. Poll!FlagsTypeOK' BY <1>r DEF Poll!ResetPoll, Poll!FlagsTypeOK
  <2> QED BY <2>1, <2>2
<1>1. ASSUME NEW d \in Poll!Drafts, Poll!UpdatePoll(d)
      PROVE  Poll!PollTypeOK' /\ Poll!FlagsTypeOK' /\ Poll!ActivityTypeOK'
  <2>1. votes' \in [Few -> Poll!Ballots] /\ poll' \in Poll!Drafts
    BY <1>1, PollFlipType DEF Poll!UpdatePoll, Poll!PollTypeOK
  <2>2. Poll!Recount(started) /\ UNCHANGED <<started, ended, opening>>
        /\ UNCHANGED Poll!activityVars
    BY <1>1 DEF Poll!UpdatePoll
  <2>3. /\ lagging' \in BOOLEAN
        /\ cache' = Poll!Dirty
             \/ cache' \in [1 .. poll'.n -> 0 .. Poll!Cardinality(Few) * MaxNamed]
    BY <2>1, <2>2, <1>c DEF Poll!FlagsTypeOK
  <2>4. Poll!PollTypeOK' BY <2>1, <2>3 DEF Poll!PollTypeOK
  <2>5. Poll!FlagsTypeOK' BY <2>2, <2>3 DEF Poll!FlagsTypeOK
  <2> QED BY <2>2, <2>4, <2>5, <1>a
<1>2. CASE Poll!StartPoll
  <2>1. Poll!PollTypeOK' BY <1>2, <1>0 DEF Poll!StartPoll, Poll!PollTypeOK
  <2>4. opening' \in 0 .. MaxStarts
    <3>1. opening' = opening + 1 /\ opening < MaxStarts BY <1>2 DEF Poll!StartPoll
    <3>2. opening \in 0 .. MaxStarts /\ MaxStarts \in Nat
      BY DEF Poll!FlagsTypeOK, Poll!PollAssumption
    <3> QED BY <3>1, <3>2
  <2>2. Poll!FlagsTypeOK' BY <1>2, <2>4 DEF Poll!StartPoll, Poll!FlagsTypeOK
  <2>3. Poll!ActivityTypeOK'
    BY <1>2 DEF Poll!StartPoll, Poll!Route, Poll!ActivityTypeOK, Poll!Activities
  <2> QED BY <2>1, <2>2, <2>3
<1>12. CASE Poll!Opened
  <2>1. /\ UNCHANGED <<poll, started, ended, votes>> /\ UNCHANGED Poll!activityVars
        /\ opening' \in 0 .. MaxStarts
    BY <1>12 DEF Poll!Opened, Poll!FlagsTypeOK, Poll!PollAssumption
  <2>2. /\ lagging' \in BOOLEAN
        /\ cache' = Poll!Dirty
             \/ cache' \in [1 .. poll'.n -> 0 .. Poll!Cardinality(Few) * MaxNamed]
    <3>1. CASE poll = Poll!NoDraft
      BY <3>1, <2>1, <1>12 DEF Poll!Opened, Poll!PollTypeOK, Poll!FlagsTypeOK
    <3>2. CASE poll # Poll!NoDraft
      <4>1. Poll!Push(cache) BY <3>2, <1>12 DEF Poll!Opened
      <4>2. poll' = poll /\ poll' \in Poll!Drafts BY <2>1 DEF Poll!PollTypeOK
      <4>3. cache = Poll!Dirty
              \/ cache \in [1 .. poll'.n -> 0 .. Poll!Cardinality(Few) * MaxNamed]
        BY <4>2 DEF Poll!PollTypeOK
      <4> QED BY <4>1, <4>2, <4>3, PollPushType
    <3> QED BY <3>1, <3>2
  <2>3. Poll!PollTypeOK' BY <2>1, <2>2 DEF Poll!PollTypeOK
  <2>4. Poll!FlagsTypeOK' BY <2>1, <2>2 DEF Poll!FlagsTypeOK
  <2> QED BY <2>1, <2>3, <2>4, <1>a
<1>3. CASE Poll!StopPoll
  <2>1. /\ UNCHANGED <<poll, votes, opening>> /\ UNCHANGED Poll!activityVars
        /\ started' = FALSE /\ ended' = TRUE /\ Poll!Recount(poll # Poll!NoDraft)
    BY <1>3 DEF Poll!StopPoll
  <2>2. poll' \in Poll!Drafts BY <2>1 DEF Poll!PollTypeOK
  <2>3. /\ lagging' \in BOOLEAN
        /\ cache' = Poll!Dirty
             \/ cache' \in [1 .. poll'.n -> 0 .. Poll!Cardinality(Few) * MaxNamed]
    BY <2>1, <2>2, <1>c
  <2>4. Poll!PollTypeOK' BY <2>1, <2>2, <2>3 DEF Poll!PollTypeOK
  <2>5. Poll!FlagsTypeOK' BY <2>1, <2>3 DEF Poll!FlagsTypeOK
  <2> QED BY <2>1, <2>4, <2>5, <1>a
<1>4. CASE Poll!ClearPoll
  <2>1. Poll!ActivityTypeOK' BY <1>4 DEF Poll!ClearPoll, Poll!ActivityTypeOK, Poll!Activities
  <2> QED BY <2>1, <1>4, <1>r DEF Poll!ClearPoll
<1>5. ASSUME NEW p \in Few, NEW b \in Poll!Ballots, Poll!CastVote(p, b)
      PROVE  Poll!PollTypeOK' /\ Poll!FlagsTypeOK' /\ Poll!ActivityTypeOK'
  <2>0. votes' \in [Few -> Poll!Ballots] /\ poll' = poll /\ poll' \in Poll!Drafts
    BY <1>5 DEF Poll!CastVote, Poll!PollTypeOK
  <2>3. /\ lagging' = FALSE
        /\ cache' \in [1 .. poll'.n -> 0 .. Poll!Cardinality(Few) * MaxNamed]
    BY <1>5, <2>0, PollPushType DEF Poll!CastVote
  <2>1. Poll!PollTypeOK' BY <2>0, <2>3 DEF Poll!PollTypeOK
  <2>2. Poll!FlagsTypeOK' BY <1>5, <2>3 DEF Poll!CastVote, Poll!FlagsTypeOK
  <2> QED BY <2>1, <2>2, <1>5, <1>a DEF Poll!CastVote
<1>6. CASE Poll!FetchState
  <2>1. Poll!PollTypeOK' BY <1>6, PollTallyType DEF Poll!FetchState, Poll!PollTypeOK
  <2>2. Poll!FlagsTypeOK' BY <1>6 DEF Poll!FetchState, Poll!FlagsTypeOK
  <2> QED BY <2>1, <2>2, <1>6, <1>a DEF Poll!FetchState
<1>7. ASSUME NEW p \in Few, Poll!Purge(p)
      PROVE  Poll!PollTypeOK' /\ Poll!FlagsTypeOK' /\ Poll!ActivityTypeOK'
  <2>1. Poll!PollTypeOK' BY <1>7, PollNoBallot DEF Poll!Purge, Poll!PollTypeOK
  <2>2. Poll!FlagsTypeOK' BY <1>7 DEF Poll!Purge, Poll!FlagsTypeOK
  <2> QED BY <2>1, <2>2, <1>7, <1>a DEF Poll!Purge
<1>8. CASE Poll!EnterSession
  <2>1. Poll!ActivityTypeOK' BY <1>8 DEF Poll!EnterSession, Poll!ActivityTypeOK, Poll!Activities
  <2> QED BY <2>1, <1>8, <1>r DEF Poll!EnterSession
<1>9. CASE Poll!Restart
  <2>1. Poll!PollTypeOK' BY <1>9, <1>0 DEF Poll!Restart, Poll!PollTypeOK
  <2>4. opening' \in 0 .. MaxStarts BY <1>9, <1>z DEF Poll!Restart
  <2>2. Poll!FlagsTypeOK' BY <1>9, <2>4 DEF Poll!Restart, Poll!FlagsTypeOK
  <2>3. Poll!ActivityTypeOK' BY <1>9
        DEF Poll!Restart, Poll!ActivityRestored, Poll!ActivityTypeOK, Poll!Activities
  <2> QED BY <2>1, <2>2, <2>3
<1>10. ASSUME NEW a \in {"none", "poll", "debate"}, Poll!SetActivity(a), UNCHANGED Poll!pollVars
       PROVE  Poll!PollTypeOK' /\ Poll!FlagsTypeOK' /\ Poll!ActivityTypeOK'
  <2>1. Poll!PollTypeOK' BY <1>10 DEF Poll!pollVars, Poll!PollTypeOK
  <2>2. Poll!FlagsTypeOK' BY <1>10 DEF Poll!pollVars, Poll!FlagsTypeOK
  <2>3. Poll!ActivityTypeOK' BY <1>10 DEF Poll!SetActivity, Poll!Route, Poll!ActivityTypeOK
  <2> QED BY <2>1, <2>2, <2>3
<1>11. CASE UNCHANGED Poll!vars
  <2>1. Poll!PollTypeOK' BY <1>11 DEF Poll!vars, Poll!pollVars, Poll!PollTypeOK
  <2>2. Poll!FlagsTypeOK' BY <1>11 DEF Poll!vars, Poll!pollVars, Poll!FlagsTypeOK
  <2> QED BY <2>1, <2>2, <1>11, <1>a DEF Poll!vars
<1> QED
  BY <1>1, <1>2, <1>3, <1>4, <1>5, <1>6, <1>7, <1>8, <1>9, <1>10, <1>11, <1>12 DEF Poll!Next

----------------------------------------------------------------------------
(* Ballots                                                                  *)

\* Whatever the host edits, stops, clears or restarts: every ballot kept is one the poll
\* on show could have taken.
LEMMA PollBallots ==
  Poll!PollAssumption /\ Poll!PollTypeOK /\ Poll!BallotsFit /\ [Poll!Next]_(Poll!vars)
    => Poll!BallotsFit'
<1> SUFFICES ASSUME Poll!PollAssumption, Poll!PollTypeOK, Poll!BallotsFit,
                    [Poll!Next]_(Poll!vars)
             PROVE  Poll!BallotsFit'
  OBVIOUS
<1>b. \A p \in Few : votes[p] \in Seq(Poll!Options) /\ Len(votes[p]) \in Nat
  BY PollBallotType DEF Poll!PollTypeOK
<1>n. ASSUME votes' = Poll!NoVotes PROVE Poll!BallotsFit'
  BY <1>n DEF Poll!BallotsFit, Poll!NoVotes
<1>u. ASSUME UNCHANGED <<poll, started, ended, votes>> PROVE Poll!BallotsFit'
  BY <1>u DEF Poll!BallotsFit
<1>1. ASSUME NEW d \in Poll!Drafts, Poll!UpdatePoll(d) PROVE Poll!BallotsFit'
  <2>1. \A p \in Few : votes'[p] = votes[p] \/ votes'[p] = <<>>
    BY <1>1, PollFlipType DEF Poll!UpdatePoll, Poll!PollTypeOK
  <2>2. started' = started /\ ended' = ended
    BY <1>1 DEF Poll!UpdatePoll
  <2>3. (\E p \in Few : votes'[p] # <<>>) => started' \/ ended'
    BY <2>1, <2>2 DEF Poll!BallotsFit
  <2>4. ASSUME NEW p \in Few, NEW k \in 1 .. Len(votes'[p])
        PROVE  votes'[p][k] \in 1 .. poll'.n
    <3>1. CASE votes'[p] = <<>>
      BY <3>1
    <3>2. CASE votes'[p] # <<>>
      <4>1. started
        BY <3>2, <2>1, <1>1 DEF Poll!BallotsFit, Poll!UpdatePoll
      <4>2. d.n >= poll.n /\ poll' = d /\ d.n \in Int /\ poll.n \in Int
        BY <4>1, <1>1 DEF Poll!UpdatePoll, Poll!PollTypeOK, Poll!Drafts
      <4>3. votes'[p] = votes[p] /\ votes[p][k] \in 1 .. poll.n
        BY <3>2, <2>1 DEF Poll!BallotsFit
      <4> QED BY <4>2, <4>3
    <3> QED BY <3>1, <3>2
  <2>5. ASSUME ~poll'.multi, NEW p \in Few PROVE Len(votes'[p]) <= 1
    <3>1. CASE votes'[p] = <<>>
      BY <3>1
    <3>2. CASE votes'[p] # <<>> /\ ~poll.multi
      BY <3>2, <2>1 DEF Poll!BallotsFit
    <3>3. CASE votes'[p] # <<>> /\ poll.multi
      <4>1. started /\ ~d.multi
        BY <3>3, <2>1, <2>5, <1>1 DEF Poll!BallotsFit, Poll!UpdatePoll
      <4>2. votes' = [q \in Few |-> IF Len(votes[q]) = 1 THEN votes[q] ELSE <<>>]
        BY <4>1, <3>3, <1>1 DEF Poll!UpdatePoll, Poll!AfterFlip
      <4>3. Len(votes[p]) = 1 /\ votes'[p] = votes[p]
        BY <4>2, <3>3
      <4>4. Len(votes'[p]) = 1
        BY <4>3
      <4> QED BY <4>4
    <3> QED BY <3>1, <3>2, <3>3
  <2> QED BY <2>3, <2>4, <2>5 DEF Poll!BallotsFit
<1>2. CASE Poll!StartPoll \/ Poll!ClearPoll \/ Poll!EnterSession \/ Poll!Restart
  BY <1>n, <1>2 DEF Poll!StartPoll, Poll!ClearPoll, Poll!EnterSession, Poll!ResetPoll, Poll!Restart
<1>3. CASE Poll!StopPoll
  BY <1>3 DEF Poll!StopPoll, Poll!BallotsFit
<1>4. ASSUME NEW p \in Few, NEW b \in Poll!Ballots, Poll!CastVote(p, b)
      PROVE Poll!BallotsFit'
  <2>1. /\ \A q \in Few : votes'[q] = IF q = p THEN b ELSE votes[q]
        /\ UNCHANGED <<poll, started, ended>> /\ Poll!Accepted(b)
    BY <1>4 DEF Poll!CastVote, Poll!PollTypeOK
  <2> QED BY <2>1 DEF Poll!Accepted, Poll!BallotsFit
<1>5. ASSUME NEW p \in Few, Poll!Purge(p) PROVE Poll!BallotsFit'
  <2>1. /\ \A q \in Few : votes'[q] = IF q = p THEN <<>> ELSE votes[q]
        /\ UNCHANGED <<poll, started, ended>>
    BY <1>5 DEF Poll!Purge, Poll!PollTypeOK
  <2> QED BY <2>1 DEF Poll!BallotsFit
<1>6. CASE Poll!Opened \/ Poll!FetchState
           \/ (\E a \in {"none", "poll", "debate"} :
                 Poll!SetActivity(a) /\ UNCHANGED Poll!pollVars)
           \/ UNCHANGED Poll!vars
  BY <1>6, <1>u DEF Poll!Opened, Poll!FetchState, Poll!vars, Poll!pollVars
<1> QED BY <1>1, <1>2, <1>3, <1>4, <1>5, <1>6 DEF Poll!Next

----------------------------------------------------------------------------
(* What the phones see                                                      *)

\* The cached counts are those of the ballots, and while a poll runs the phones see its
\* tally if it is public, no counts if it is not.
LEMMA PollShows ==
  Poll!PollAssumption /\ Poll!PollTypeOK /\ Poll!FlagsTypeOK /\ Poll!ShownInv
      /\ [Poll!Next]_(Poll!vars)
    => Poll!ShownInv'
<1> SUFFICES ASSUME Poll!PollAssumption, Poll!PollTypeOK, Poll!FlagsTypeOK, Poll!ShownInv,
                    [Poll!Next]_(Poll!vars)
             PROVE  Poll!ShownInv'
  OBVIOUS
<1>u. ASSUME UNCHANGED <<poll, started, ended, votes, cache, shown, lagging, opening>>
      PROVE  Poll!ShownInv'
  BY <1>u DEF Poll!ShownInv, Poll!RunsOrEnded, Poll!CacheIsTally, Poll!PhonesSeeTheTally
<1>d. ASSUME cache' = Poll!Dirty PROVE Poll!CacheIsTally'
  BY <1>d DEF Poll!CacheIsTally
<1>p. ASSUME NEW known, Poll!Push(known), started' => ~ended',
             known = Poll!Dirty \/ known = Poll!Tally(votes', poll')
      PROVE  Poll!CacheIsTally' /\ Poll!PhonesSeeTheTally'
  BY <1>p DEF Poll!Push, Poll!VoteCounts, Poll!CacheIsTally, Poll!PhonesSeeTheTally
<1>s. ASSUME ~started', Poll!CacheIsTally' PROVE Poll!ShownInv'
  BY <1>s DEF Poll!ShownInv, Poll!RunsOrEnded, Poll!PhonesSeeTheTally
<1>1. ASSUME NEW d \in Poll!Drafts, Poll!UpdatePoll(d) PROVE Poll!ShownInv'
  <2>1. CASE started
    <3>1. Poll!Push(Poll!Dirty) /\ started' = started /\ ended' = ended /\ ~ended
      BY <1>1, <2>1 DEF Poll!UpdatePoll, Poll!Recount
    <3>2. poll'.n > 0
      <4>1. poll.n > 0 /\ poll.n \in Int
        BY <2>1 DEF Poll!ShownInv, Poll!RunsOrEnded, Poll!PollTypeOK, Poll!Drafts
      <4>2. poll' = d /\ d.n >= poll.n /\ d.n \in Int
        BY <1>1, <2>1 DEF Poll!UpdatePoll, Poll!Drafts
      <4> QED BY <4>1, <4>2
    <3> QED BY <3>1, <3>2, <1>p DEF Poll!ShownInv, Poll!RunsOrEnded
  <2>2. CASE ~started
    BY <1>1, <2>2, <1>d, <1>s DEF Poll!UpdatePoll, Poll!Recount
  <2> QED BY <2>1, <2>2
<1>2. CASE Poll!StartPoll
  <2>1. ended' = FALSE /\ cache' = Poll!Dirty /\ poll' = poll /\ poll.n >= 2 /\ opening' # 0
    BY <1>2 DEF Poll!StartPoll, Poll!FlagsTypeOK, Poll!PollAssumption
  <2>2. poll'.n > 0
    BY <2>1 DEF Poll!PollTypeOK, Poll!Drafts
  <2> QED BY <2>1, <2>2, <1>d DEF Poll!ShownInv, Poll!RunsOrEnded, Poll!PhonesSeeTheTally
<1>8. CASE Poll!Opened
  <2>1. UNCHANGED <<poll, started, ended, votes>>
    BY <1>8 DEF Poll!Opened
  <2>2. CASE poll = Poll!NoDraft
    <3>1. cache' = cache /\ ~started
      BY <1>8, <2>2 DEF Poll!Opened, Poll!ShownInv, Poll!RunsOrEnded, Poll!NoDraft
    <3>2. Poll!CacheIsTally'
      BY <2>1, <3>1 DEF Poll!ShownInv, Poll!CacheIsTally
    <3> QED BY <2>1, <3>1, <3>2, <1>s
  <2>3. CASE poll # Poll!NoDraft
    <3>1. Poll!Push(cache)
      BY <1>8, <2>3 DEF Poll!Opened
    <3>2. cache = Poll!Dirty \/ cache = Poll!Tally(votes', poll')
      BY <2>1 DEF Poll!ShownInv, Poll!CacheIsTally
    <3>3. Poll!CacheIsTally' /\ Poll!PhonesSeeTheTally'
      BY <3>1, <3>2, <2>1, <1>p DEF Poll!ShownInv, Poll!RunsOrEnded
    <3> QED BY <2>1, <3>3 DEF Poll!ShownInv, Poll!RunsOrEnded
  <2> QED BY <2>2, <2>3
<1>9. CASE Poll!StopPoll
  <2>1. ~started' /\ Poll!Recount(poll # Poll!NoDraft)
    BY <1>9 DEF Poll!StopPoll
  <2>2. CASE cache' = Poll!Dirty
    BY <2>1, <2>2, <1>d, <1>s
  <2>3. CASE Poll!Push(Poll!Dirty)
    <3>1. Poll!CacheIsTally'
      BY <2>1, <2>3, <1>p
    <3> QED BY <2>1, <3>1, <1>s
  <2> QED BY <2>1, <2>2, <2>3 DEF Poll!Recount
<1>3. CASE Poll!ClearPoll \/ Poll!EnterSession \/ Poll!Restart
  BY <1>3, <1>d, <1>s DEF Poll!ClearPoll, Poll!EnterSession, Poll!ResetPoll, Poll!Restart
<1>4. ASSUME NEW p \in Few, NEW b \in Poll!Ballots, Poll!CastVote(p, b) PROVE Poll!ShownInv'
  <2>1. Poll!Push(Poll!Dirty) /\ UNCHANGED <<poll, started, ended>>
    BY <1>4 DEF Poll!CastVote
  <2> QED BY <2>1, <1>p DEF Poll!ShownInv, Poll!RunsOrEnded
<1>5. CASE Poll!FetchState
  BY <1>5
     DEF Poll!FetchState, Poll!ShownInv, Poll!RunsOrEnded, Poll!CacheIsTally, Poll!PhonesSeeTheTally
<1>6. ASSUME NEW p \in Few, Poll!Purge(p) PROVE Poll!ShownInv'
  <2>0. cache' = Poll!Dirty /\ UNCHANGED <<poll, started, ended, shown, opening>>
    BY <1>6 DEF Poll!Purge
  <2>1. CASE votes[p] # <<>>
    <3>1. lagging'
      BY <1>6, <2>1 DEF Poll!Purge
    <3> QED BY <2>0, <3>1, <1>d DEF Poll!ShownInv, Poll!RunsOrEnded, Poll!PhonesSeeTheTally
  <2>2. CASE votes[p] = <<>>
    <3>1. votes' = votes
      BY <1>6, <2>2 DEF Poll!Purge, Poll!PollTypeOK
    <3>2. lagging => lagging'
      BY <1>6, ZenonT(20) DEF Poll!Purge
    <3> QED BY <2>0, <3>1, <3>2, <1>d
               DEF Poll!ShownInv, Poll!RunsOrEnded, Poll!PhonesSeeTheTally
  <2> QED BY <2>1, <2>2
<1>7. CASE (\E a \in {"none", "poll", "debate"} : Poll!SetActivity(a) /\ UNCHANGED Poll!pollVars)
           \/ UNCHANGED Poll!vars
  BY <1>7, <1>u DEF Poll!vars, Poll!pollVars
<1> QED BY <1>1, <1>2, <1>3, <1>4, <1>5, <1>6, <1>7, <1>8, <1>9 DEF Poll!Next

\* What ResultsStand says of a step.
Stands ==
  ended /\ ended' /\ ~started' => /\ poll' = poll
    /\ \A p \in Few : votes'[p] = votes[p] \/ Poll!Purge(p)

\* The results of a stopped poll stand until it is started, cleared or left, but for the
\* ballots of the purged.
LEMMA PollStands == Poll!PollTypeOK /\ [Poll!Next]_(Poll!vars) => Stands
<1> SUFFICES ASSUME Poll!PollTypeOK, [Poll!Next]_(Poll!vars) PROVE Stands
  OBVIOUS
<1>u. ASSUME UNCHANGED <<poll, votes>> PROVE Stands
  BY <1>u DEF Stands
<1>1. ASSUME NEW d \in Poll!Drafts, Poll!UpdatePoll(d) PROVE Stands
  BY <1>1 DEF Stands, Poll!UpdatePoll
<1>2. CASE Poll!StartPoll \/ Poll!ClearPoll \/ Poll!EnterSession \/ Poll!Restart
  BY <1>2
     DEF Stands, Poll!StartPoll, Poll!ClearPoll, Poll!EnterSession, Poll!ResetPoll, Poll!Restart
<1>3. ASSUME NEW p \in Few, NEW b \in Poll!Ballots, Poll!CastVote(p, b) PROVE Stands
  BY <1>3 DEF Stands, Poll!CastVote, Poll!Accepted
<1>4. ASSUME NEW p \in Few, Poll!Purge(p) PROVE Stands
  <2>1. poll' = poll /\ \A q \in Few : q # p => votes'[q] = votes[q]
    BY <1>4 DEF Poll!Purge, Poll!PollTypeOK
  <2> QED BY <1>4, <2>1 DEF Stands
<1>5. CASE Poll!StopPoll \/ Poll!Opened \/ Poll!FetchState
           \/ (\E a \in {"none", "poll", "debate"} : Poll!SetActivity(a) /\ UNCHANGED Poll!pollVars)
           \/ UNCHANGED Poll!vars
  BY <1>5, <1>u DEF Poll!StopPoll, Poll!Opened, Poll!FetchState, Poll!vars, Poll!pollVars
<1> QED BY <1>1, <1>2, <1>3, <1>4, <1>5 DEF Poll!Next

\* The poll starts well, keeps its invariant whatever its handlers do, and has it while
\* another component moves.
LEMMA PollStarts == Poll!PollAssumption /\ Poll!Init => Poll!PollInv
<1> SUFFICES ASSUME Poll!PollAssumption, Poll!Init PROVE Poll!PollInv
  OBVIOUS
<1>1. Poll!NoDraft \in Poll!Drafts /\ Poll!NoVotes \in [Few -> Poll!Ballots]
  BY PollNoBallot DEF Poll!NoDraft, Poll!Drafts, Poll!PollAssumption
<1>2. Poll!PollTypeOK BY <1>1 DEF Poll!Init, Poll!PollTypeOK
<1>6. 0 \in 0 .. MaxStarts BY DEF Poll!PollAssumption
<1>3. Poll!FlagsTypeOK BY <1>6 DEF Poll!Init, Poll!FlagsTypeOK
<1>4. Poll!BallotsFit BY DEF Poll!Init, Poll!BallotsFit, Poll!NoVotes
<1>5. Poll!ShownInv
  BY DEF Poll!Init, Poll!ShownInv, Poll!RunsOrEnded, Poll!CacheIsTally, Poll!PhonesSeeTheTally
<1> QED BY <1>2, <1>3, <1>4, <1>5 DEF Poll!PollInv

LEMMA PollSteps ==
  Poll!PollAssumption /\ Poll!PollInv /\ Poll!ActivityTypeOK /\ [Poll!Next]_(Poll!vars)
    => Poll!PollInv' /\ Poll!ActivityTypeOK'
  BY PollTypes, PollBallots, PollShows DEF Poll!PollInv

LEMMA PollApart == Poll!PollInv /\ UNCHANGED pollVars => Poll!PollInv'
  BY DEF Poll!PollInv, pollVars, Poll!PollTypeOK, Poll!FlagsTypeOK, Poll!BallotsFit,
         Poll!ShownInv, Poll!RunsOrEnded, Poll!CacheIsTally, Poll!PhonesSeeTheTally

----------------------------------------------------------------------------
(* Code review                                                              *)

\* Opening a review of n lines sets everything of it.
LEMMA ReviewOpenType ==
  ASSUME Review!ReviewAssumption, NEW n \in 1 .. MaxLines, Review!Open(n)
  PROVE  Review!ReviewTypeOK' /\ Review!ActivityTypeOK'
<1>1. Review!ReviewTypeOK'
  BY DEF Review!ReviewAssumption, Review!Open, Review!ReviewTypeOK, Review!Nothing, Review!Unpaid
<1>2. Review!ActivityTypeOK'
  BY DEF Review!Open, Review!Route, Review!ActivityTypeOK, Review!Activities
<1> QED BY <1>1, <1>2

\* Every step of the review keeps the types, also of the activity.
LEMMA ReviewTypes ==
  Review!ReviewAssumption /\ Review!ReviewTypeOK /\ Review!RequestsTypeOK
      /\ Review!ActivityTypeOK /\ [Review!Next]_(Review!vars)
    => Review!ReviewTypeOK' /\ Review!RequestsTypeOK' /\ Review!ActivityTypeOK'
<1> SUFFICES ASSUME Review!ReviewAssumption, Review!ReviewTypeOK, Review!RequestsTypeOK,
                    Review!ActivityTypeOK, [Review!Next]_(Review!vars)
             PROVE  Review!ReviewTypeOK' /\ Review!RequestsTypeOK' /\ Review!ActivityTypeOK'
  OBVIOUS
<1>a. ASSUME UNCHANGED Review!activityVars PROVE Review!ActivityTypeOK'
  BY <1>a DEF Review!activityVars, Review!ActivityTypeOK
<1>r. ASSUME UNCHANGED <<pastes, reviews>> PROVE Review!RequestsTypeOK'
  BY <1>r DEF Review!RequestsTypeOK
<1>1. ASSUME NEW n \in 1 .. MaxLines, Review!Create(n)
      PROVE  Review!ReviewTypeOK' /\ Review!RequestsTypeOK' /\ Review!ActivityTypeOK'
  <2>1. Review!Open(n) BY <1>1 DEF Review!Create
  <2>2. Review!RequestsTypeOK' BY <1>1
                                  DEF Review!Create, Review!RequestsTypeOK, Review!ReviewAssumption
  <2> QED BY <2>1, <2>2, ReviewOpenType
<1>2. CASE Review!CreateSmart
  <2>1. Review!ReviewTypeOK' BY <1>2 DEF Review!CreateSmart, Review!ReviewTypeOK
  <2>2. Review!RequestsTypeOK' BY <1>2
        DEF Review!CreateSmart, Review!RequestsTypeOK, Review!ReviewAssumption
  <2> QED BY <2>1, <2>2, <1>2, <1>a DEF Review!CreateSmart
<1>3. ASSUME NEW k \in pastes, NEW n \in 1 .. MaxLines + 1, Review!SmartAnswers(k, n)
      PROVE  Review!ReviewTypeOK' /\ Review!RequestsTypeOK' /\ Review!ActivityTypeOK'
  <2>1. Review!RequestsTypeOK' BY <1>3 DEF Review!SmartAnswers, Review!RequestsTypeOK
  <2>2. CASE n <= MaxLines
    <3>1. n \in 1 .. MaxLines BY <2>2 DEF Review!ReviewAssumption
    <3>2. Review!Open(n) BY <1>3, <2>2 DEF Review!SmartAnswers
    <3> QED BY <3>1, <3>2, <2>1, ReviewOpenType
  <2>3. CASE ~(n <= MaxLines)
    <3>1. UNCHANGED <<size, step, selected, confirmed, paid, Review!activityVars>>
      BY <1>3, <2>3 DEF Review!SmartAnswers
    <3>2. Review!ReviewTypeOK' BY <3>1 DEF Review!ReviewTypeOK
    <3> QED BY <3>1, <3>2, <2>1, <1>a
  <2> QED BY <2>2, <2>3
<1>4. CASE Review!CloseSelection
  <2>1. Review!ReviewTypeOK' BY <1>4 DEF Review!CloseSelection, Review!ReviewTypeOK
  <2> QED BY <2>1, <1>4, <1>a, <1>r DEF Review!CloseSelection
<1>5. CASE Review!ClearReview
  <2>1. Review!ReviewTypeOK'
    BY <1>5
       DEF Review!ClearReview, Review!ReviewTypeOK, Review!Nothing, Review!Unpaid,
           Review!ReviewAssumption
  <2>2. Review!ActivityTypeOK' BY <1>5
        DEF Review!ClearReview, Review!Route, Review!ActivityTypeOK, Review!Activities
  <2> QED BY <2>1, <2>2, <1>5, <1>r DEF Review!ClearReview
<1>6. CASE Review!Restart
  <2>1. Review!ReviewTypeOK' BY <1>6 DEF Review!Restart, Review!ReviewTypeOK
  <2>2. Review!RequestsTypeOK' BY <1>6 DEF Review!Restart, Review!RequestsTypeOK
  <2>3. Review!ActivityTypeOK' BY <1>6
        DEF Review!Restart, Review!ActivityRestored, Review!ActivityTypeOK, Review!Activities
  <2> QED BY <2>1, <2>2, <2>3
<1>7. ASSUME NEW p \in Few, NEW L \in SUBSET Review!Lines, Review!Select(p, L)
      PROVE  Review!ReviewTypeOK' /\ Review!RequestsTypeOK' /\ Review!ActivityTypeOK'
  <2>1. Review!ReviewTypeOK' BY <1>7 DEF Review!Select, Review!ReviewTypeOK
  <2> QED BY <2>1, <1>7, <1>a, <1>r DEF Review!Select
<1>8. ASSUME NEW l \in Review!Lines, Review!ConfirmLine(l)
      PROVE  Review!ReviewTypeOK' /\ Review!RequestsTypeOK' /\ Review!ActivityTypeOK'
  <2>1. Review!ReviewTypeOK' BY <1>8 DEF Review!ConfirmLine, Review!ReviewTypeOK
  <2> QED BY <2>1, <1>8, <1>a, <1>r DEF Review!ConfirmLine
<1>9. ASSUME NEW p \in Few, Review!Purge(p)
      PROVE  Review!ReviewTypeOK' /\ Review!RequestsTypeOK' /\ Review!ActivityTypeOK'
  <2>1. Review!ReviewTypeOK' BY <1>9 DEF Review!Purge, Review!ReviewTypeOK
  <2> QED BY <2>1, <1>9, <1>a, <1>r DEF Review!Purge
<1>10. ASSUME NEW a \in {"none", "codereview"}, Review!SetActivity(a), UNCHANGED Review!reviewVars
       PROVE  Review!ReviewTypeOK' /\ Review!RequestsTypeOK' /\ Review!ActivityTypeOK'
  <2>1. Review!ReviewTypeOK' BY <1>10 DEF Review!reviewVars, Review!ReviewTypeOK
  <2>2. Review!ActivityTypeOK' BY <1>10 DEF Review!SetActivity, Review!Route, Review!ActivityTypeOK
  <2> QED BY <2>1, <2>2, <1>10, <1>r DEF Review!reviewVars
<1>11. CASE UNCHANGED Review!vars
  <2>1. Review!ReviewTypeOK' BY <1>11 DEF Review!vars, Review!reviewVars, Review!ReviewTypeOK
  <2> QED BY <2>1, <1>11, <1>a, <1>r DEF Review!vars, Review!reviewVars
<1> QED
  BY <1>1, <1>2, <1>3, <1>4, <1>5, <1>6, <1>7, <1>8, <1>9, <1>10, <1>11 DEF Review!Next

\* Whatever is created, answered late, confirmed, purged or restored: a line is paid at
\* most once to a participant, only when confirmed, and all lines are lines of the snippet.
LEMMA ReviewPays ==
  Review!ReviewTypeOK /\ Review!ReviewPaysOnce /\ [Review!Next]_(Review!vars)
    => Review!ReviewPaysOnce'
<1> SUFFICES ASSUME Review!ReviewTypeOK, Review!ReviewPaysOnce, [Review!Next]_(Review!vars)
             PROVE  Review!ReviewPaysOnce'
  OBVIOUS
<1>0. ASSUME UNCHANGED <<size, selected, confirmed, paid>> PROVE Review!ReviewPaysOnce'
  BY <1>0 DEF Review!ReviewPaysOnce
<1>1. ASSUME NEW n, Review!Open(n) PROVE Review!ReviewPaysOnce'
  BY <1>1 DEF Review!Open, Review!ReviewPaysOnce, Review!Nothing, Review!Unpaid
<1>2. ASSUME NEW n \in 1 .. MaxLines, Review!Create(n) PROVE Review!ReviewPaysOnce'
  BY <1>1, <1>2 DEF Review!Create
<1>3. ASSUME NEW k \in pastes, NEW n \in 1 .. MaxLines + 1, Review!SmartAnswers(k, n)
      PROVE  Review!ReviewPaysOnce'
  BY <1>0, <1>1, <1>3 DEF Review!SmartAnswers
<1>4. CASE Review!CreateSmart \/ Review!CloseSelection \/ Review!Restart
  BY <1>0, <1>4 DEF Review!CreateSmart, Review!CloseSelection, Review!Restart
<1>5. CASE Review!ClearReview
  BY <1>5 DEF Review!ClearReview, Review!ReviewPaysOnce, Review!Nothing, Review!Unpaid
<1>6. ASSUME NEW p \in Few, NEW L \in SUBSET Review!Lines, Review!Select(p, L)
      PROVE Review!ReviewPaysOnce'
  BY <1>6 DEF Review!Select, Review!ReviewPaysOnce, Review!ReviewTypeOK
<1>7. ASSUME NEW l \in Review!Lines, Review!ConfirmLine(l) PROVE Review!ReviewPaysOnce'
  <2>1. ASSUME NEW p \in Few PROVE paid[p][l] = 0
    <3>1. paid[p][l] \in Nat BY DEF Review!ReviewTypeOK
    <3>2. paid[p][l] <= 1 /\ paid[p][l] # 1 BY <1>7 DEF Review!ConfirmLine, Review!ReviewPaysOnce
    <3> QED BY <3>1, <3>2
  <2>2. ASSUME NEW p \in Few, NEW m \in Review!Lines
        PROVE  paid'[p][m] <= 1 /\ (paid'[p][m] = 1 => m \in confirmed')
    BY <1>7, <2>1 DEF Review!ConfirmLine, Review!ReviewPaysOnce, Review!ReviewTypeOK
  <2>3. \A p \in Few : \A m \in selected'[p] \cup confirmed' : m < size'
    BY <1>7 DEF Review!ConfirmLine, Review!ReviewPaysOnce
  <2> QED BY <2>2, <2>3 DEF Review!ReviewPaysOnce
<1>8. ASSUME NEW p \in Few, Review!Purge(p) PROVE Review!ReviewPaysOnce'
  BY <1>8 DEF Review!Purge, Review!ReviewPaysOnce, Review!ReviewTypeOK
<1>9. CASE (\E a \in {"none", "codereview"} : Review!SetActivity(a) /\ UNCHANGED Review!reviewVars)
           \/ UNCHANGED Review!vars
  BY <1>0, <1>9 DEF Review!vars, Review!reviewVars
<1> QED BY <1>2, <1>3, <1>4, <1>5, <1>6, <1>7, <1>8, <1>9 DEF Review!Next

\* The review starts well, keeps its invariant whatever its handlers do, and has it while
\* another component moves.
LEMMA ReviewStarts == Review!ReviewAssumption /\ Review!Init => Review!ReviewInv
<1> SUFFICES ASSUME Review!ReviewAssumption, Review!Init PROVE Review!ReviewInv
  OBVIOUS
<1>1. Review!ReviewTypeOK
  BY DEF Review!ReviewAssumption, Review!Init, Review!ReviewTypeOK, Review!Nothing, Review!Unpaid
<1>2. Review!RequestsTypeOK
  BY DEF Review!ReviewAssumption, Review!Init, Review!RequestsTypeOK
<1>3. Review!ReviewPaysOnce
  BY DEF Review!Init, Review!ReviewPaysOnce, Review!Nothing, Review!Unpaid
<1> QED BY <1>1, <1>2, <1>3 DEF Review!ReviewInv

LEMMA ReviewSteps ==
  Review!ReviewAssumption /\ Review!ReviewInv /\ Review!ActivityTypeOK
      /\ [Review!Next]_(Review!vars)
    => Review!ReviewInv' /\ Review!ActivityTypeOK'
  BY ReviewTypes, ReviewPays DEF Review!ReviewInv

LEMMA ReviewApart == Review!ReviewInv /\ UNCHANGED reviewVars => Review!ReviewInv'
  BY DEF Review!ReviewInv, reviewVars, Review!ReviewTypeOK, Review!RequestsTypeOK,
         Review!ReviewPaysOnce

----------------------------------------------------------------------------
(* Survey: numbers of items                                                 *)

\* Finite sets are what they are in the survey's module.
LEMMA SurveySets ==
  \A S : (Survey!IsFiniteSet(S) <=> IsFiniteSet(S)) /\ Survey!Cardinality(S) = Cardinality(S)
  BY DEF Survey!IsFiniteSet, IsFiniteSet, Survey!Cardinality, Cardinality

\* The bound on an answer is a natural.
LEMMA SurveyTopType == Survey!AiShareAssumption => Survey!Top \in Nat
  BY SurveySets, FS_CardinalityType DEF Survey!AiShareAssumption, Survey!Top

\* A non-empty set of naturals below a bound has a greatest element.
LEMMA SurveyGreatestBelow ==
  ASSUME NEW B \in Nat, NEW T \in SUBSET (0 .. B), T # {}
  PROVE  \E m \in T : \A t \in T : t <= m
<1> DEFINE U == {B - t : t \in T}
           R == {ss \in Nat \X Nat : ss[1] < ss[2]}
<1>1. IsWellFoundedOn(R, Nat)
  BY NatLessThanWellFounded DEF OpToRel
<1>2. U \subseteq Nat /\ U # {}
  <2>1. ASSUME NEW t \in T PROVE B - t \in Nat
    OBVIOUS
  <2> QED BY <2>1
<1>3. PICK u \in U : \A w \in U : ~(<<w, u>> \in R)
  <2> HIDE DEF R, U
  <2> QED BY <1>1, <1>2, WFMin
<1>4. PICK m \in T : u = B - m
  BY <1>3
<1>5. ASSUME NEW t \in T PROVE t <= m
  <2>1. B - t \in U /\ B - t \in Nat /\ B - m \in Nat /\ t \in Int /\ m \in Int
    BY <1>2
  <2>2. ~(B - t < B - m)
    BY <2>1, <1>3, <1>4
  <2> QED BY <2>1, <2>2
<1> QED BY <1>5

\* The next number is a natural that no item has.
LEMMA SurveyNextIdIsNew ==
  ASSUME Survey!AiShareAssumption, Survey!RankingTypeOK
  PROVE  Survey!NextId \in Nat /\ Survey!NextId \notin Survey!ItemIds
<1>1. CASE items = {}
  BY <1>1 DEF Survey!NextId, Survey!ItemIds
<1>2. CASE items # {}
  <2>1. Survey!ItemIds \subseteq 0 .. Survey!Top /\ Survey!ItemIds # {} /\ Survey!Top \in Nat
    BY <1>2, SurveyTopType DEF Survey!RankingTypeOK, Survey!ItemIds
  <2>2. \E m \in Survey!ItemIds : \A i \in Survey!ItemIds : i <= m
    BY <2>1, SurveyGreatestBelow
  <2> DEFINE m == CHOOSE m \in Survey!ItemIds : \A i \in Survey!ItemIds : i <= m
  <2>3. m \in Survey!ItemIds /\ \A i \in Survey!ItemIds : i <= m
    BY <2>2
  <2>4. Survey!NextId = 1 + m
    BY <1>2 DEF Survey!NextId
  <2> HIDE DEF m
  <2>5. m \in Nat /\ \A i \in Survey!ItemIds : i \in Nat
    BY <2>1, <2>3
  <2>6. 1 + m \notin Survey!ItemIds
    BY <2>3, <2>5
  <2> QED BY <2>4, <2>5, <2>6
<1> QED BY <1>1, <1>2

\* A ranking starts with one item per preset, each with a number of its own.
LEMMA SurveySeedsType ==
  ASSUME Survey!AiShareAssumption
  PROVE  /\ Survey!Seeds \subseteq [id : 0 .. Survey!Top, text : Texts, by : Few \cup {Someone}]
         /\ \A it, jt \in Survey!Seeds : it.id = jt.id \/ it.text = jt.text => it = jt
<1> DEFINE n == Survey!Cardinality(Presets)
           Fits(f) == \A s, t \in Presets : s # t => f[s] # f[t]
           number == CHOOSE f \in [Presets -> 0 .. n - 1] : Fits(f)
<1>1. n \in Nat /\ ExistsBijection(Presets, 1 .. n)
  BY SurveySets, FS_CardinalityType, Fun_ExistsBijSymmetric DEF Survey!AiShareAssumption
<1>2. PICK g : g \in Bijection(Presets, 1 .. n)
  BY <1>1, Fun_ExistsBij
<1>3. g \in [Presets -> 1 .. n] /\ \A s, t \in Presets : s # t => g[s] # g[t]
  BY <1>2 DEF Bijection, Injection, IsInjective
<1>4. \E f \in [Presets -> 0 .. n - 1] : Fits(f)
  <2> DEFINE f == [t \in Presets |-> g[t] - 1]
  <2>1. f \in [Presets -> 0 .. n - 1]
    BY <1>1, <1>3
  <2>2. ASSUME NEW s \in Presets, NEW t \in Presets, s # t PROVE f[s] # f[t]
    <3>1. g[s] # g[t] /\ g[s] \in Int /\ g[t] \in Int
      BY <1>3, <2>2
    <3> QED BY <3>1
  <2> QED BY <2>1, <2>2
<1>5. number \in [Presets -> 0 .. n - 1] /\ Fits(number)
  BY <1>4
<1>6. Survey!Seeds = {[id |-> number[t], text |-> t, by |-> Someone] : t \in Presets}
  BY DEF Survey!Seeds
<1>7. 0 .. n - 1 \subseteq 0 .. Survey!Top /\ Presets \subseteq Texts
  BY <1>1, SurveyTopType DEF Survey!AiShareAssumption, Survey!Top
<1> HIDE DEF number
<1>8. Survey!Seeds \subseteq [id : 0 .. Survey!Top, text : Texts, by : Few \cup {Someone}]
  BY <1>5, <1>6, <1>7
<1>9. ASSUME NEW it \in Survey!Seeds, NEW jt \in Survey!Seeds, it.id = jt.id \/ it.text = jt.text
      PROVE  it = jt
  <2>1. PICK s \in Presets : it = [id |-> number[s], text |-> s, by |-> Someone]
    BY <1>6
  <2>2. PICK t \in Presets : jt = [id |-> number[t], text |-> t, by |-> Someone]
    BY <1>6
  <2>3. s = t
    BY <1>5, <1>9, <2>1, <2>2
  <2> QED BY <2>1, <2>2, <2>3
<1> QED BY <1>8, <1>9

\* An option inserted before "Other": the answers of before name it, and the others, right.
LEMMA SurveyInsertBitType ==
  ASSUME Survey!AiShareAssumption, NEW S \in SUBSET Survey!Old
  PROVE  /\ Survey!InsertBit(S, Width - 1) \in SUBSET Survey!Options
         /\ Survey!OtherOption \in Survey!InsertBit(S, Width - 1) <=> Width - 1 \in S
<1>1. Width \in Nat \ {0} /\ \A i \in S : i \in Int /\ 1 <= i /\ i <= Width - 1
  BY DEF Survey!AiShareAssumption, Survey!Old
<1>2. ASSUME NEW j \in Survey!InsertBit(S, Width - 1) PROVE j \in Survey!Options
  <2>1. (j \in S /\ j < Width - 1) \/ \E i \in S : j = i + 1
    BY DEF Survey!InsertBit
  <2> QED BY <1>1, <2>1 DEF Survey!Options
<1>3. Width - 1 \in S => Width \in Survey!InsertBit(S, Width - 1)
  BY <1>1 DEF Survey!InsertBit
<1>4. Width \in Survey!InsertBit(S, Width - 1) => Width - 1 \in S
  <2> SUFFICES ASSUME Width \in Survey!InsertBit(S, Width - 1) PROVE Width - 1 \in S
    OBVIOUS
  <2>1. (Width \in S /\ Width < Width - 1) \/ \E i \in S : i >= Width - 1 /\ Width = i + 1
    BY DEF Survey!InsertBit
  <2> QED BY <1>1, <2>1
<1> QED BY <1>2, <1>3, <1>4 DEF Survey!OtherOption

----------------------------------------------------------------------------
(* Survey: the invariant                                                    *)

\* What is emptied, or seeded, agrees.
LEMMA SurveyEmptiedAgrees ==
  ASSUME Survey!AiShareAssumption, Survey!Emptied, open' \in BOOLEAN, sent' = sent,
         Survey!RankingTypeOK,
         items' = Survey!Seeds \/ items' = {}
  PROVE  Survey!AnswersTypeOK' /\ Survey!RankingTypeOK' /\ Survey!AnswersAgree'
<1>1. Survey!AnswersTypeOK'
  BY DEF Survey!Emptied, Survey!AnswersTypeOK, Survey!None
<1>2. Survey!RankingTypeOK'
  BY SurveySeedsType DEF Survey!Emptied, Survey!RankingTypeOK
<1>3. Survey!Unique'
  BY SurveySeedsType DEF Survey!Unique
<1>4. Survey!Hearts' /\ Survey!Typed' /\ Survey!Votes'
  BY DEF Survey!Emptied, Survey!None, Survey!Hearts, Survey!Typed, Survey!Votes
<1> QED BY <1>1, <1>2, <1>3, <1>4
           DEF Survey!AnswersAgree, Survey!Hearts, Survey!Typed, Survey!Unique, Survey!Votes

\* A first start, and a restore of an older file.
LEMMA SurveyStarts == Survey!AiShareAssumption /\ Survey!Init => Survey!SurveyInv
<1> SUFFICES ASSUME Survey!AiShareAssumption, Survey!Init PROVE Survey!SurveyInv
  OBVIOUS
<1>1. PICK before, liked :
        /\ before \in [Few -> SUBSET Survey!Old] /\ liked \in [Few -> SUBSET Survey!Old]
        /\ ticked = [p \in Few |-> Survey!InsertBit(before[p], Width - 1)]
        /\ hearts = [p \in Few |-> Survey!InsertBit(liked[p], Width - 1) \cap ticked[p]]
        /\ typed \in [Few -> SUBSET Values]
        /\ \A p \in Few : Width - 1 \notin before[p] => typed[p] = {}
  BY DEF Survey!Init, Survey!None
<1>2. \A p \in Few :
        /\ ticked[p] \in SUBSET Survey!Options
        /\ Survey!OtherOption \in ticked[p] <=> Width - 1 \in before[p]
  BY <1>1, SurveyInsertBitType
<1>3. Survey!AnswersTypeOK
  BY <1>1, <1>2 DEF Survey!Init, Survey!AnswersTypeOK
<1>4. Survey!RankingTypeOK /\ Survey!Unique /\ Survey!Votes
  BY SurveySeedsType DEF Survey!Init, Survey!RankingTypeOK, Survey!Unique, Survey!Votes
<1>5. Survey!Hearts /\ Survey!Typed
  BY <1>1, <1>2 DEF Survey!Hearts, Survey!Typed
<1> QED BY <1>3, <1>4, <1>5
  DEF Survey!SurveyInv, Survey!AnswersAgree, Survey!Hearts, Survey!Typed, Survey!Unique,
      Survey!Votes

\* Every step keeps it: answers, moderation, taps that come late.
LEMMA SurveySteps ==
  Survey!AiShareAssumption /\ Survey!SurveyInv /\ Survey!ActivityTypeOK
      /\ [Survey!Next]_(Survey!vars)
    => Survey!SurveyInv' /\ Survey!ActivityTypeOK'
<1> SUFFICES ASSUME Survey!AiShareAssumption, Survey!AnswersTypeOK, Survey!RankingTypeOK,
                    Survey!ActivityTypeOK, Survey!Hearts, Survey!Typed, Survey!Unique,
                    Survey!Votes, [Survey!Next]_(Survey!vars)
             PROVE  Survey!SurveyInv' /\ Survey!ActivityTypeOK'
  BY
     DEF Survey!SurveyInv, Survey!AnswersAgree, Survey!Hearts, Survey!Typed, Survey!Unique,
         Survey!Votes
<1>a. ASSUME UNCHANGED Survey!activityVars PROVE Survey!ActivityTypeOK'
  BY <1>a DEF Survey!activityVars, Survey!ActivityTypeOK
<1>v. ASSUME UNCHANGED <<open, ticked, hearts, typed>>
      PROVE  Survey!AnswersTypeOK' /\ Survey!Hearts' /\ Survey!Typed'
  BY <1>v DEF Survey!AnswersTypeOK, Survey!Hearts, Survey!Typed
<1>i. ASSUME UNCHANGED <<items, fires, sent>>
      PROVE Survey!RankingTypeOK' /\ Survey!Unique' /\ Survey!Votes'
  BY <1>i DEF Survey!RankingTypeOK, Survey!Unique, Survey!Votes, Survey!ItemIds
<1>q. ASSUME Survey!AnswersTypeOK', Survey!RankingTypeOK', Survey!ActivityTypeOK', Survey!Hearts',
       Survey!Typed', Survey!Unique', Survey!Votes'
      PROVE  Survey!SurveyInv' /\ Survey!ActivityTypeOK'
  BY <1>q
     DEF Survey!SurveyInv, Survey!AnswersAgree, Survey!Hearts, Survey!Typed, Survey!Unique,
         Survey!Votes
<1>1. CASE Survey!StartSurvey
  <2>1. Survey!ActivityTypeOK' BY <1>1
        DEF Survey!StartSurvey, Survey!Route, Survey!ActivityTypeOK, Survey!Activities
  <2>2. open' \in BOOLEAN BY <1>1 DEF Survey!StartSurvey
  <2> QED BY <1>1, <2>1, <2>2, SurveyEmptiedAgrees DEF Survey!StartSurvey, Survey!SurveyInv
<1>2. CASE Survey!ClearSurvey
  <2>1. Survey!ActivityTypeOK'
    BY <1>2, <1>a DEF Survey!ClearSurvey, Survey!Route, Survey!ActivityTypeOK, Survey!Activities
  <2>2. open' \in BOOLEAN BY <1>2 DEF Survey!ClearSurvey
  <2> QED BY <1>2, <2>1, <2>2, SurveyEmptiedAgrees DEF Survey!ClearSurvey, Survey!SurveyInv
<1>3. CASE Survey!Restart
  <2>1. Survey!ActivityTypeOK' BY <1>3
        DEF Survey!Restart, Survey!ActivityRestored, Survey!ActivityTypeOK, Survey!Activities
  <2>2. Survey!RankingTypeOK' /\ Survey!Unique' /\ Survey!Votes'
    BY <1>3 DEF Survey!Restart, Survey!RankingTypeOK, Survey!Unique, Survey!Votes, Survey!ItemIds
  <2> QED BY <1>3, <1>v, <1>q, <2>1, <2>2 DEF Survey!Restart
<1>4. ASSUME NEW p \in Few, NEW O \in SUBSET Survey!Options, NEW H \in SUBSET Survey!Options,
             NEW V \in (SUBSET Values) \cup {Survey!Keep}, Survey!SetValue(p, O, V, H)
      PROVE  Survey!SurveyInv' /\ Survey!ActivityTypeOK'
  <2> DEFINE all == IF V # Survey!Keep /\ V # {} THEN O \cup {Survey!OtherOption} ELSE O
             under == IF Survey!OtherOption \notin all THEN {}
                      ELSE IF V # Survey!Keep THEN V ELSE typed[p]
  <2>1. /\ ticked' = [ticked EXCEPT ![p] = all]
        /\ hearts' = [hearts EXCEPT ![p] = H \cap all]
        /\ typed' = [typed EXCEPT ![p] = under]
        /\ UNCHANGED <<open, items, fires, sent, Survey!activityVars>>
    BY <1>4 DEF Survey!SetValue, Survey!Put
  <2>2. all \in SUBSET Survey!Options /\ under \in SUBSET Values
    BY DEF Survey!Options, Survey!OtherOption, Survey!AiShareAssumption, Survey!AnswersTypeOK
  <2>3. under # {} => Survey!OtherOption \in all
    OBVIOUS
  <2> HIDE DEF all, under
  <2>4. Survey!AnswersTypeOK'
    BY <2>1, <2>2 DEF Survey!AnswersTypeOK
  <2>5. Survey!Hearts' BY <2>1 DEF Survey!Hearts, Survey!AnswersTypeOK
  <2>6. Survey!Typed' BY <2>1, <2>3 DEF Survey!Typed, Survey!AnswersTypeOK
  <2> QED BY <1>i, <1>a, <1>q, <2>1, <2>4, <2>5, <2>6
<1>5. ASSUME NEW i \in Survey!ItemIds, Survey!DeleteItem(i)
      PROVE Survey!SurveyInv' /\ Survey!ActivityTypeOK'
  <2>1. Survey!ItemOf(i) \in items /\ Survey!ItemOf(i).id = i
    BY DEF Survey!ItemOf, Survey!ItemIds
  <2>2. items' = items \ {Survey!ItemOf(i)} /\ fires' = {f \in fires : f[2] # i} /\ sent' = sent
    BY <1>5 DEF Survey!DeleteItem
  <2>3. Survey!RankingTypeOK' /\ Survey!Unique' BY <2>2 DEF Survey!RankingTypeOK, Survey!Unique
  <2>4. Survey!Votes' BY <2>1, <2>2 DEF Survey!Votes, Survey!ItemIds
  <2> QED BY <1>5, <1>v, <1>a, <1>q, <2>3, <2>4 DEF Survey!DeleteItem
<1>6. ASSUME NEW p \in Few, NEW t \in Texts, Survey!AddItem(p, t)
      PROVE Survey!SurveyInv' /\ Survey!ActivityTypeOK'
  <2>0. Survey!NextId \in Nat /\ Survey!NextId \notin Survey!ItemIds
    BY SurveyNextIdIsNew
  <2>1. ASSUME NEW it \in items, fires' = fires \cup {<<p, it.id>>}, items' = items
        PROVE  Survey!RankingTypeOK' /\ Survey!Unique' /\ Survey!Votes'
    <3>1. it.id \in Nat BY SurveyTopType DEF Survey!RankingTypeOK
    <3>2. sent' = sent BY <1>6 DEF Survey!AddItem
    <3>3. Survey!RankingTypeOK' BY <2>1, <3>1, <3>2 DEF Survey!RankingTypeOK
    <3>4. Survey!Unique' /\ Survey!Votes' BY <2>1 DEF Survey!Unique, Survey!Votes, Survey!ItemIds
    <3> QED BY <3>3, <3>4
  <2>2. ASSUME \A it \in items : it.text # t, Survey!NextId <= MaxId,
               items' = items \cup {[id |-> Survey!NextId, text |-> t, by |-> p]},
               fires' = fires \cup {<<p, Survey!NextId>>}
        PROVE  Survey!RankingTypeOK' /\ Survey!Unique' /\ Survey!Votes'
    <3>1. Survey!NextId \in 0 .. Survey!Top
      BY <2>0, <2>2, SurveyTopType, SurveySets, FS_CardinalityType
         DEF Survey!Top, Survey!AiShareAssumption
    <3>2. sent' = sent BY <1>6 DEF Survey!AddItem
    <3>3. Survey!RankingTypeOK' BY <2>0, <2>2, <3>1, <3>2 DEF Survey!RankingTypeOK
    <3>4. \A it \in items : it.id # Survey!NextId BY <2>0 DEF Survey!ItemIds
    <3>5. Survey!Unique' BY <2>2, <3>4 DEF Survey!Unique
    <3> DEFINE new == [id |-> Survey!NextId, text |-> t, by |-> p]
    <3>6. new \in items' /\ new.id = Survey!NextId /\ items \subseteq items' BY <2>2
    <3> HIDE DEF new
    <3>7. ASSUME NEW f \in fires' PROVE f[2] \in Survey!ItemIds'
      <4>1. CASE f \in fires BY <4>1, <3>6 DEF Survey!Votes, Survey!ItemIds
      <4>2. CASE f = <<p, Survey!NextId>> BY <4>2, <3>6 DEF Survey!ItemIds
      <4> QED BY <2>2, <4>1, <4>2
    <3>8. Survey!Votes' BY <3>7 DEF Survey!Votes
    <3> QED BY <3>3, <3>5, <3>8
  <2>3. Survey!RankingTypeOK' /\ Survey!Unique' /\ Survey!Votes'
    BY <1>6, <2>1, <2>2 DEF Survey!AddItem
  <2> QED BY <1>6, <1>v, <1>a, <1>q, <2>3 DEF Survey!AddItem
<1>7. ASSUME NEW p \in Few, NEW it \in items, Survey!Tap(p, it)
      PROVE Survey!SurveyInv' /\ Survey!ActivityTypeOK'
  <2>1. it.id \in Nat /\ it.text \in Texts BY SurveyTopType DEF Survey!RankingTypeOK
  <2>2. Survey!RankingTypeOK' BY <1>7, <2>1 DEF Survey!Tap, Survey!RankingTypeOK
  <2>3. Survey!Unique' /\ Survey!Votes' BY <1>7
        DEF Survey!Tap, Survey!Unique, Survey!Votes, Survey!ItemIds
  <2> QED BY <1>7, <1>v, <1>a, <1>q, <2>2, <2>3 DEF Survey!Tap
<1>8. ASSUME NEW s \in sent, NEW on \in BOOLEAN, Survey!Vote(s, on)
      PROVE Survey!SurveyInv' /\ Survey!ActivityTypeOK'
  <2>1. s.pid \in Few /\ s.id \in Nat BY DEF Survey!RankingTypeOK
  <2>2. fires' \subseteq fires \cup {<<s.pid, s.id>>} /\ items' = items /\ sent' \subseteq sent
    BY <1>8 DEF Survey!Vote
  <2>3. s.id \notin Survey!ItemIds => fires' \subseteq fires
    BY <1>8 DEF Survey!Vote
  <2>4. Survey!RankingTypeOK' BY <2>1, <2>2 DEF Survey!RankingTypeOK
  <2>5. Survey!Unique' BY <2>2 DEF Survey!Unique
  <2>6. Survey!Votes'
    <3>1. CASE s.id \in Survey!ItemIds
      <4>1. ASSUME NEW f \in fires' PROVE f[2] \in Survey!ItemIds
        <5>1. CASE f \in fires BY <5>1 DEF Survey!Votes
        <5>2. CASE f = <<s.pid, s.id>> BY <5>2, <3>1
        <5> QED BY <2>2, <5>1, <5>2
      <4> QED BY <2>2, <4>1 DEF Survey!Votes, Survey!ItemIds
    <3>2. CASE s.id \notin Survey!ItemIds
      BY <2>2, <2>3, <3>2 DEF Survey!Votes, Survey!ItemIds
    <3> QED BY <3>1, <3>2
  <2> QED BY <1>8, <1>v, <1>a, <1>q, <2>4, <2>5, <2>6 DEF Survey!Vote
<1>9. CASE UNCHANGED Survey!vars
  BY <1>9, <1>v, <1>i, <1>a, <1>q DEF Survey!vars, Survey!surveyVars
<1> QED
  BY <1>1, <1>2, <1>3, <1>4, <1>5, <1>6, <1>7, <1>8, <1>9
     DEF Survey!Next, Survey!Rounds, Survey!Answering, Survey!Ranking


\* The survey keeps its invariant while another component moves.
LEMMA SurveyApart == Survey!SurveyInv /\ UNCHANGED surveyVars => Survey!SurveyInv'
<1> SUFFICES ASSUME Survey!SurveyInv, UNCHANGED surveyVars PROVE Survey!SurveyInv'
  OBVIOUS
<1>1. Survey!AnswersTypeOK' BY DEF Survey!SurveyInv, surveyVars, Survey!AnswersTypeOK
<1>2. Survey!RankingTypeOK' BY DEF Survey!SurveyInv, surveyVars, Survey!RankingTypeOK
<1>3. Survey!AnswersAgree'
  BY DEF Survey!SurveyInv, surveyVars, Survey!AnswersAgree, Survey!Hearts, Survey!Typed,
         Survey!Unique, Survey!Votes, Survey!ItemIds
<1> QED BY <1>1, <1>2, <1>3 DEF Survey!SurveyInv

----------------------------------------------------------------------------
(* Word cloud                                                               *)

\* Finite sets are what they are in the word cloud's module.
LEMMA CloudSets ==
  \A S : (Cloud!IsFiniteSet(S) <=> IsFiniteSet(S)) /\ Cloud!Cardinality(S) = Cardinality(S)
  BY DEF Cloud!IsFiniteSet, IsFiniteSet, Cloud!Cardinality, Cardinality

\* A word put before a sequence of words: what it holds then, and how many.
LEMMA WordInFront ==
  ASSUME NEW w \in Words, NEW s \in Seq(Words)
  PROVE  /\ <<w>> \o s \in Seq(Words) /\ Len(<<w>> \o s) = Len(s) + 1
         /\ {(<<w>> \o s)[i] : i \in 1 .. Len(<<w>> \o s)} = {s[i] : i \in 1 .. Len(s)} \cup {w}
<1> DEFINE t == <<w>> \o s
<1>1. t \in Seq(Words) /\ Len(t) = Len(s) + 1 /\ Len(s) \in Nat
  OBVIOUS
<1>2. t[1] = w /\ \A i \in 1 .. Len(s) : t[i + 1] = s[i]
  OBVIOUS
<1>3. \A i \in 1 .. Len(t) : i = 1 \/ i - 1 \in 1 .. Len(s)
  BY <1>1
<1>4. 1 \in 1 .. Len(t) /\ \A i \in 1 .. Len(s) : i + 1 \in 1 .. Len(t)
  BY <1>1
<1>5. \A i \in 1 .. Len(t) : i \in Int /\ (i - 1) + 1 = i
  OBVIOUS
<1> HIDE DEF t
<1>6. ASSUME NEW i \in 1 .. Len(t) PROVE t[i] \in {s[j] : j \in 1 .. Len(s)} \cup {w}
  <2>1. CASE i = 1 BY <2>1, <1>2
  <2>2. CASE i - 1 \in 1 .. Len(s)
    <3>1. t[i] = s[i - 1] BY <2>2, <1>2, <1>5
    <3> QED BY <2>2, <3>1
  <2> QED BY <1>3, <2>1, <2>2
<1>7. ASSUME NEW i \in 1 .. Len(s) PROVE s[i] \in {t[j] : j \in 1 .. Len(t)}
  BY <1>2, <1>4
<1>8. {t[i] : i \in 1 .. Len(t)} = {s[i] : i \in 1 .. Len(s)} \cup {w}
  <2>1. w \in {t[i] : i \in 1 .. Len(t)}
    BY <1>2, <1>4
  <2>2. {t[i] : i \in 1 .. Len(t)} \subseteq {s[i] : i \in 1 .. Len(s)} \cup {w}
    BY <1>6
  <2>3. {s[i] : i \in 1 .. Len(s)} \subseteq {t[i] : i \in 1 .. Len(t)}
    BY <1>7
  <2> QED BY <2>1, <2>2, <2>3
<1> QED BY <1>1, <1>8 DEF t

\* The cloud starts empty.
LEMMA CloudStarts == Cloud!CloudAssumption /\ Cloud!Init => Cloud!CloudInv
<1> SUFFICES ASSUME Cloud!CloudAssumption, Cloud!Init PROVE Cloud!CloudInv
  OBVIOUS
<1>1. Cloud!Known = {}
  BY DEF Cloud!Init, Cloud!Known
<1>2. Cloud!IsFiniteSet({}) /\ Cloud!Cardinality({}) = 0
  BY CloudSets, FS_EmptySet
<1>3. Len(<<>>) = 0 /\ <<>> \in Seq(Words)
  OBVIOUS
<1>4. Cloud!WordsTypeOK
  BY <1>3 DEF Cloud!Init, Cloud!WordsTypeOK, Cloud!CloudAssumption
<1>5. Cloud!CloudAgrees
  BY <1>1, <1>2, <1>3 DEF Cloud!Init, Cloud!CloudAgrees
<1> QED BY <1>1, <1>2, <1>4, <1>5 DEF Cloud!CloudInv

\* A word more: a new one is listed first, a known one stays where it is, and the order
\* lists what has a count, each once.
LEMMA CloudGrows ==
  ASSUME Cloud!CloudAssumption, Cloud!CloudInv, NEW w \in Words, Cloud!AddWord(w)
  PROVE  Cloud!CloudInv'
<1>1. count' = [count EXCEPT ![w] = @ + 1] /\ count[w] < MaxCount
  BY DEF Cloud!AddWord
<1>2. count \in [Words -> 0 .. MaxCount] /\ order \in Seq(Words) /\ MaxCount \in Nat
  BY DEF Cloud!CloudInv, Cloud!WordsTypeOK, Cloud!CloudAssumption
<1>3. count' \in [Words -> 0 .. MaxCount]
  BY <1>1, <1>2
<1>4. Cloud!Known' = Cloud!Known \cup {w}
  BY <1>1, <1>2 DEF Cloud!Known
<1>5. CASE w \in Cloud!Known
  <2>1. order' = order
    BY <1>5 DEF Cloud!AddWord
  <2>2. Cloud!Known' = Cloud!Known
    BY <1>4, <1>5
  <2> QED BY <1>2, <1>3, <2>1, <2>2 DEF Cloud!CloudInv, Cloud!WordsTypeOK, Cloud!CloudAgrees
<1>6. CASE w \notin Cloud!Known
  <2>1. order' = <<w>> \o order
    BY <1>6 DEF Cloud!AddWord
  <2>2. IsFiniteSet(Cloud!Known) /\ Len(order) = Cardinality(Cloud!Known)
        /\ {order[i] : i \in 1 .. Len(order)} = Cloud!Known
    BY CloudSets DEF Cloud!CloudInv, Cloud!CloudAgrees
  <2>3. IsFiniteSet(Cloud!Known') /\ Cardinality(Cloud!Known') = Cardinality(Cloud!Known) + 1
    BY <1>4, <1>6, <2>2, FS_AddElement
  <2> DEFINE longer == <<w>> \o order
  <2>3a. /\ longer \in Seq(Words) /\ Len(longer) = Len(order) + 1
         /\ {longer[i] : i \in 1 .. Len(longer)} = {order[i] : i \in 1 .. Len(order)} \cup {w}
    BY <1>2, WordInFront, Zenon
  <2>3b. order' = longer
    BY <2>1
  <2> HIDE DEF longer
  <2>4. /\ order' \in Seq(Words) /\ Len(order') = Len(order) + 1
        /\ {order'[i] : i \in 1 .. Len(order')} = Cloud!Known'
    BY <1>4, <2>2, <2>3a, <2>3b
  <2>5. Cloud!IsFiniteSet(Cloud!Known') /\ Len(order') = Cloud!Cardinality(Cloud!Known')
    BY <2>2, <2>3, <2>4, CloudSets
  <2> QED BY <1>3, <2>4, <2>5 DEF Cloud!CloudInv, Cloud!WordsTypeOK, Cloud!CloudAgrees
<1> QED BY <1>5, <1>6

\* Every step keeps order and counts in agreement.
LEMMA CloudSteps ==
  Cloud!CloudAssumption /\ Cloud!CloudInv /\ Cloud!ActivityTypeOK /\ [Cloud!Next]_(Cloud!vars)
    => Cloud!CloudInv' /\ Cloud!ActivityTypeOK'
<1> SUFFICES ASSUME Cloud!CloudAssumption, Cloud!CloudInv, Cloud!ActivityTypeOK,
                    [Cloud!Next]_(Cloud!vars)
             PROVE  Cloud!CloudInv' /\ Cloud!ActivityTypeOK'
  OBVIOUS
<1>a. ASSUME UNCHANGED Cloud!activityVars PROVE Cloud!ActivityTypeOK'
  BY <1>a DEF Cloud!activityVars, Cloud!ActivityTypeOK
<1>k. ASSUME UNCHANGED Cloud!cloudVars PROVE Cloud!CloudInv'
  BY <1>k DEF Cloud!cloudVars, Cloud!CloudInv, Cloud!WordsTypeOK, Cloud!Known, Cloud!CloudAgrees
<1>1. ASSUME NEW w \in Words, Cloud!SubmitWord(w) \/ Cloud!HostWord(w)
      PROVE  Cloud!CloudInv' /\ Cloud!ActivityTypeOK'
  <2>1. Cloud!AddWord(w) /\ UNCHANGED Cloud!activityVars
    BY <1>1 DEF Cloud!SubmitWord, Cloud!HostWord
  <2> QED BY <1>a, <2>1, CloudGrows
<1>2. CASE Cloud!ClearCloud
  <2>1. count' = [w \in Words |-> 0] /\ order' = <<>> /\ UNCHANGED Cloud!activityVars
    BY <1>2 DEF Cloud!ClearCloud
  <2>2. Cloud!Known' = {}
    BY <2>1 DEF Cloud!Known
  <2>3. Cloud!IsFiniteSet({}) /\ Cloud!Cardinality({}) = 0
    BY CloudSets, FS_EmptySet
  <2>4. Len(<<>>) = 0 /\ <<>> \in Seq(Words)
    OBVIOUS
  <2>5. Cloud!WordsTypeOK'
    BY <2>1, <2>4 DEF Cloud!WordsTypeOK, Cloud!CloudAssumption
  <2>6. Cloud!CloudAgrees'
    BY <2>1, <2>2, <2>3, <2>4 DEF Cloud!CloudAgrees
  <2> QED BY <1>a, <2>1, <2>2, <2>3, <2>5, <2>6 DEF Cloud!CloudInv
<1>3. ASSUME NEW a \in {"none", "wordcloud"}, Cloud!SetActivity(a), UNCHANGED Cloud!cloudVars
      PROVE  Cloud!CloudInv' /\ Cloud!ActivityTypeOK'
  <2>1. Cloud!ActivityTypeOK'
    BY <1>3 DEF Cloud!SetActivity, Cloud!Route, Cloud!ActivityTypeOK
  <2> QED BY <1>3, <1>k, <2>1
<1>4. CASE UNCHANGED Cloud!vars
  BY <1>4, <1>a, <1>k DEF Cloud!vars
<1> QED BY <1>1, <1>2, <1>3, <1>4 DEF Cloud!Next

\* The cloud keeps its invariant while another component moves.
LEMMA CloudApart == Cloud!CloudInv /\ UNCHANGED cloudVars => Cloud!CloudInv'
  BY DEF cloudVars, Cloud!CloudInv, Cloud!WordsTypeOK, Cloud!Known, Cloud!CloudAgrees

----------------------------------------------------------------------------
(* Quiz queue                                                               *)

\* What Queues says of a sequence: its length and its elements.
LEMMA QueueIsSequence ==
  Queue!QueueAssumption =>
    \A q : q \in Queue!Queues <=> q \in Seq(Prepared) /\ Len(q) <= MaxQueue
<1> SUFFICES ASSUME Queue!QueueAssumption, NEW q
             PROVE  q \in Queue!Queues <=> q \in Seq(Prepared) /\ Len(q) <= MaxQueue
  OBVIOUS
<1>1. ASSUME q \in Queue!Queues PROVE q \in Seq(Prepared) /\ Len(q) <= MaxQueue
  <2>1. PICK n \in 0 .. MaxQueue : q \in [1 .. n -> Prepared]
    BY <1>1 DEF Queue!Queues
  <2>2. n \in Nat /\ n <= MaxQueue
    BY DEF Queue!QueueAssumption
  <2>3. q \in Seq(Prepared) /\ Len(q) = n
    BY <2>1, <2>2
  <2> QED BY <2>2, <2>3
<1>2. ASSUME q \in Seq(Prepared), Len(q) <= MaxQueue PROVE q \in Queue!Queues
  <2>1. Len(q) \in 0 .. MaxQueue /\ q \in [1 .. Len(q) -> Prepared]
    BY <1>2 DEF Queue!QueueAssumption
  <2> QED BY <2>1 DEF Queue!Queues
<1> QED BY <1>1, <1>2

\* A queue without one of its questions is a queue.
LEMMA QueueShrinks ==
  ASSUME Queue!QueueAssumption, NEW q \in Queue!Queues, NEW i \in 1 .. Len(q)
  PROVE  Queue!RemoveAt(q, i) \in Queue!Queues
<1>1. q \in Seq(Prepared) /\ Len(q) <= MaxQueue /\ Len(q) \in Nat /\ i \in 1 .. Len(q)
  BY QueueIsSequence
<1> DEFINE before == SubSeq(q, 1, i - 1)
           after == SubSeq(q, i + 1, Len(q))
<1>2. before \in Seq(Prepared) /\ Len(before) = i - 1
  BY <1>1
<1>3. after \in Seq(Prepared) /\ Len(after) = Len(q) - i
  BY <1>1
<1>4. Queue!RemoveAt(q, i) = before \o after
  BY DEF Queue!RemoveAt
<1> HIDE DEF before, after
<1>5. before \o after \in Seq(Prepared) /\ Len(before \o after) = (i - 1) + (Len(q) - i)
  <2>1. \A s, t \in Seq(Prepared) : s \o t \in Seq(Prepared) /\ Len(s \o t) = Len(s) + Len(t)
    OBVIOUS
  <2>2. before \o after \in Seq(Prepared) /\ Len(before \o after) = Len(before) + Len(after)
    BY <1>2, <1>3, <2>1
  <2> QED BY <1>2, <1>3, <2>2
<1>6. Len(before \o after) <= MaxQueue
  <2> DEFINE n == Len(q)
             rest == Len(before \o after)
  <2>1. n \in Int /\ i \in Int /\ n <= MaxQueue
       /\ rest \in Int /\ rest = (i - 1) + (n - i)
    BY <1>1, <1>5
  <2>2. MaxQueue \in Int
    BY DEF Queue!QueueAssumption
  <2>3. \A a, b, c, m \in Int : a <= m /\ c = (b - 1) + (a - b) => c <= m
    OBVIOUS
  <2> HIDE DEF n, rest
  <2>4. rest <= MaxQueue
    BY <2>1, <2>2, <2>3
  <2> QED BY <2>4 DEF rest
<1> QED BY <1>4, <1>5, <1>6, QueueIsSequence

\* The queue starts empty.
LEMMA QueueStarts == Queue!QueueAssumption /\ Queue!Init => Queue!TypeOK
<1> SUFFICES ASSUME Queue!QueueAssumption, Queue!Init PROVE Queue!TypeOK
  OBVIOUS
<1>1. <<>> \in Seq(Prepared) /\ Len(<<>>) = 0 /\ 0 <= MaxQueue
  BY DEF Queue!QueueAssumption
<1>2. <<>> \in Queue!Queues
  BY <1>1, QueueIsSequence
<1> QED BY <1>2 DEF Queue!Init, Queue!TypeOK

\* Queue, panels and requests keep their types; a request names a place and a question the
\* panel showed.
LEMMA QueueSteps ==
  Queue!QueueAssumption /\ Queue!TypeOK /\ [Queue!Next]_(Queue!vars) => Queue!TypeOK'
<1> SUFFICES ASSUME Queue!QueueAssumption, Queue!TypeOK, [Queue!Next]_(Queue!vars)
             PROVE  Queue!TypeOK'
  OBVIOUS
<1>1. ASSUME NEW q \in Queue!Queues, Queue!Submit(q) PROVE Queue!TypeOK'
  BY <1>1 DEF Queue!Submit, Queue!TypeOK
<1>2. ASSUME NEW h \in Panels, Queue!Fetch(h) PROVE Queue!TypeOK'
  BY <1>2 DEF Queue!Fetch, Queue!TypeOK
<1>3. ASSUME NEW h \in Panels, NEW i \in 1 .. Len(panel[h]), Queue!AskRemoval(h, i)
      PROVE  Queue!TypeOK'
  <2>1. panel[h] \in Queue!Queues
    BY DEF Queue!TypeOK
  <2>2. panel[h] \in Seq(Prepared) /\ Len(panel[h]) <= MaxQueue
    BY <2>1, QueueIsSequence
  <2>3. i \in 1 .. MaxQueue /\ panel[h][i] \in Prepared
    BY <2>2 DEF Queue!QueueAssumption
  <2> QED BY <1>3, <2>3 DEF Queue!AskRemoval, Queue!TypeOK
<1>4. ASSUME NEW r \in removing, Queue!Removed(r) PROVE Queue!TypeOK'
  <2>1. r.at \in 1 .. MaxQueue /\ queue \in Queue!Queues
    BY DEF Queue!TypeOK
  <2>2. queue \in Seq(Prepared)
    BY <2>1, QueueIsSequence
  <2>3. ASSUME r.at <= Len(queue) PROVE Queue!RemoveAt(queue, r.at) \in Queue!Queues
    <3>1. r.at \in 1 .. Len(queue)
      BY <2>1, <2>2, <2>3 DEF Queue!QueueAssumption
    <3> QED BY <2>1, <3>1, QueueShrinks
  <2>4. queue' \in Queue!Queues
    BY <1>4, <2>1, <2>3 DEF Queue!Removed
  <2> QED BY <1>4, <2>4 DEF Queue!Removed, Queue!TypeOK
<1>5. CASE UNCHANGED Queue!vars
  BY <1>5 DEF Queue!vars, Queue!TypeOK
<1> QED BY <1>1, <1>2, <1>3, <1>4, <1>5 DEF Queue!Next

\* They keep them while another component moves.
LEMMA QueueApart == Queue!TypeOK /\ UNCHANGED queueVars => Queue!TypeOK'
  BY DEF queueVars, Queue!TypeOK

----------------------------------------------------------------------------
(* Questions and answers                                                    *)

\* Finite sets are what they are in the board's module.
LEMMA BoardSets ==
  \A S : (Board!IsFiniteSet(S) <=> IsFiniteSet(S)) /\ Board!Cardinality(S) = Cardinality(S)
  BY DEF Board!IsFiniteSet, IsFiniteSet, Board!Cardinality, Cardinality

\* In a finite set with a strict total order, one more than how many come before is a place
\* of one's own, each place is somebody's, and places follow the order.
LEMMA Places ==
  \A Q, R :
    LET place == [q \in Q |-> 1 + Cardinality({r \in Q : <<r, q>> \in R})]
    IN /\ IsFiniteSet(Q)
       /\ \A q \in Q : <<q, q>> \notin R
       /\ \A q, r, s \in Q : <<q, r>> \in R /\ <<r, s>> \in R => <<q, s>> \in R
       /\ \A q, r \in Q : q = r \/ <<q, r>> \in R \/ <<r, q>> \in R
       => /\ Cardinality(Q) \in Nat
          /\ place \in [Q -> 1 .. Cardinality(Q)]
          /\ \A q, r \in Q : <<q, r>> \in R <=> place[q] < place[r]
          /\ \A k \in 1 .. Cardinality(Q) : \E q \in Q : place[q] = k
<1> TAKE Q, R
<1> DEFINE place == [q \in Q |-> 1 + Cardinality({r \in Q : <<r, q>> \in R})]
<1> SUFFICES ASSUME IsFiniteSet(Q),
                    \A q \in Q : <<q, q>> \notin R,
                    \A q, r, s \in Q : <<q, r>> \in R /\ <<r, s>> \in R => <<q, s>> \in R,
                    \A q, r \in Q : q = r \/ <<q, r>> \in R \/ <<r, q>> \in R
             PROVE  /\ Cardinality(Q) \in Nat
                    /\ place \in [Q -> 1 .. Cardinality(Q)]
                    /\ \A q, r \in Q : <<q, r>> \in R <=> place[q] < place[r]
                    /\ \A k \in 1 .. Cardinality(Q) : \E q \in Q : place[q] = k
  BY Zenon
<1> DEFINE B(q) == {r \in Q : <<r, q>> \in R}
           n == Cardinality(Q)
<1>1. n \in Nat
  BY FS_CardinalityType
<1>2. ASSUME NEW q \in Q
      PROVE  IsFiniteSet(B(q)) /\ Cardinality(B(q)) \in Nat /\ Cardinality(B(q)) <= n - 1
  <2>1. IsFiniteSet(Q \ {q}) /\ Cardinality(Q \ {q}) = n - 1
    BY FS_RemoveElement
  <2>2. B(q) \in SUBSET (Q \ {q})
    OBVIOUS
  <2> HIDE DEF B
  <2>3. IsFiniteSet(B(q)) /\ Cardinality(B(q)) <= Cardinality(Q \ {q})
    BY <2>1, <2>2, FS_Subset
  <2> QED BY <2>1, <2>3, FS_CardinalityType
<1>3. \A q \in Q : place[q] = 1 + Cardinality(B(q))
  OBVIOUS
<1>4. ASSUME NEW q \in Q, NEW r \in Q, <<q, r>> \in R PROVE place[q] < place[r]
  <2>1. B(q) \cup {q} \in SUBSET B(r) /\ q \notin B(q)
    BY <1>4
  <2>2. IsFiniteSet(B(q)) /\ IsFiniteSet(B(r))
    BY <1>2
  <2>3. Cardinality(B(q) \cup {q}) = Cardinality(B(q)) + 1
    BY <2>1, <2>2, FS_AddElement
  <2>4. Cardinality(B(q) \cup {q}) <= Cardinality(B(r))
    BY <2>1, <2>2, FS_Subset
  <2>5. Cardinality(B(q)) \in Nat /\ Cardinality(B(r)) \in Nat
    BY <1>2
  <2> HIDE DEF B
  <2> QED BY <1>3, <2>3, <2>4, <2>5
<1> HIDE DEF B, place
<1>5. place \in [Q -> 1 .. n]
  <2>1. place = [q \in Q |-> 1 + Cardinality(B(q))]
    BY DEF B, place
  <2>2. ASSUME NEW q \in Q PROVE 1 + Cardinality(B(q)) \in 1 .. n
    BY <1>1, <1>2
  <2> QED BY <2>1, <2>2
<1>6. \A q \in Q : place[q] \in Int
  BY <1>1, <1>5
<1>7. \A q, r \in Q : <<q, r>> \in R <=> place[q] < place[r]
  <2> SUFFICES ASSUME NEW q \in Q, NEW r \in Q, place[q] < place[r] PROVE <<q, r>> \in R
    BY <1>4
  <2>1. ~(place[r] < place[q]) /\ q # r
    BY <1>6
  <2> QED BY <1>4, <2>1
<1>8. place \in Injection(Q, 1 .. n)
  <2>1. ASSUME NEW q \in Q, NEW r \in Q, place[q] = place[r] PROVE q = r
    <3>1. ~(place[q] < place[r]) /\ ~(place[r] < place[q])
      BY <1>6, <2>1
    <3> QED BY <1>4, <3>1
  <2> QED BY <1>5, <2>1 DEF Injection, IsInjective
<1>9. place \in Surjection(Q, 1 .. n)
  <2>1. IsFiniteSet(1 .. n) /\ Cardinality(1 .. n) = n
    BY <1>1, FS_Interval
  <2> QED BY <1>8, <2>1, FS_Injection
<1>10. \A k \in 1 .. n : \E q \in Q : place[q] = k
  BY <1>9 DEF Surjection
<1> QED BY <1>1, <1>5, <1>7, <1>10

\* The order of the questions is a strict total order: most upvotes first, then the oldest.
LEMMA BoardOrder ==
  ASSUME Board!BoardAssumption, NEW Q \in SUBSET Board!Question,
         \A q, r \in Q : q.id = r.id => q = r
  PROVE  /\ \A q \in Q : ~Board!Before(q, q)
         /\ \A q, r, s \in Q : Board!Before(q, r) /\ Board!Before(r, s) => Board!Before(q, s)
         /\ \A q, r \in Q : q = r \/ Board!Before(q, r) \/ Board!Before(r, q)
         /\ \A q, r \in Q : Board!Before(q, r) => Board!Cardinality(q.up) >= Board!Cardinality(r.up)
         /\ \A q \in Q : Board!Cardinality(q.up) \in Nat
<1>1. ASSUME NEW q \in Q PROVE Board!Cardinality(q.up) \in Nat /\ q.id \in Int
  <2>1. q.up \in SUBSET Few /\ q.id \in Int
    BY DEF Board!Question, Board!Ids, Board!BoardAssumption
  <2>2. IsFiniteSet(Few)
    BY BoardSets DEF Board!BoardAssumption
  <2>3. IsFiniteSet(q.up)
    BY <2>1, <2>2, FS_Subset
  <2> QED BY <2>1, <2>3, FS_CardinalityType, BoardSets
<1> DEFINE ups(q) == Board!Cardinality(q.up)
<1>2. \A q, r : Board!Before(q, r) <=>
                  ups(q) > ups(r) \/ (ups(q) = ups(r) /\ q.id < r.id)
  BY DEF Board!Before
<1>3. \A q \in Q : ups(q) \in Nat /\ q.id \in Int
  BY <1>1
<1> HIDE DEF ups
<1>4. \A q \in Q : ~Board!Before(q, q)
  BY <1>2, <1>3
<1>5. \A q, r, s \in Q : Board!Before(q, r) /\ Board!Before(r, s) => Board!Before(q, s)
  BY <1>2, <1>3
<1>6. \A q, r \in Q : q = r \/ Board!Before(q, r) \/ Board!Before(r, q)
  <2> SUFFICES ASSUME NEW q \in Q, NEW r \in Q, q.id # r.id
               PROVE  Board!Before(q, r) \/ Board!Before(r, q)
    OBVIOUS
  <2> QED BY <1>2, <1>3
<1>7. \A q, r \in Q : Board!Before(q, r) => ups(q) >= ups(r)
  BY <1>2, <1>3
<1> QED BY <1>3, <1>4, <1>5, <1>6, <1>7 DEF ups

\* The public list of a set of questions names each of them once, with its votes, and none
\* above one with more.
LEMMA PublicIsFair ==
  ASSUME Board!BoardAssumption, NEW Q \in SUBSET Board!Question, IsFiniteSet(Q),
         \A q, r \in Q : q.id = r.id => q = r, NEW b, b = Board!Public(Q)
  PROVE  /\ b \in Seq(Board!Ids \X Nat)
         /\ \A i, j \in 1 .. Len(b) : i < j => b[i][1] # b[j][1] /\ b[i][2] >= b[j][2]
         /\ \A q \in Q : \E i \in 1 .. Len(b) :
              b[i][1] = q.id /\ b[i][2] >= Board!Cardinality(q.up)
<1> DEFINE R == {qr \in Q \X Q : Board!Before(qr[1], qr[2])}
           place(q) == 1 + Board!Cardinality({r \in Q : Board!Before(r, q)})
           at(k) == CHOOSE q \in Q : place(q) = k
           f == [q \in Q |-> 1 + Cardinality({r \in Q : <<r, q>> \in R})]
           n == Cardinality(Q)
<1>1. b = [k \in 1 .. Board!Cardinality(Q) |-> <<at(k).id, Board!Cardinality(at(k).up)>>]
  BY DEF Board!Public
<1>2. \A q, r \in Q : <<q, r>> \in R <=> Board!Before(q, r)
  OBVIOUS
<1>3. \A q \in Q : place(q) = f[q]
  <2> SUFFICES ASSUME NEW q \in Q PROVE place(q) = f[q]
    OBVIOUS
  <2>1. {r \in Q : Board!Before(r, q)} = {r \in Q : <<r, q>> \in R}
    BY <1>2
  <2>2. place(q) = 1 + Cardinality({r \in Q : <<r, q>> \in R})
    BY <2>1, BoardSets
  <2> HIDE DEF R, place
  <2> QED BY <2>2
<1> HIDE DEF R
<1>4. /\ n \in Nat
      /\ f \in [Q -> 1 .. n]
      /\ \A q, r \in Q : <<q, r>> \in R <=> f[q] < f[r]
      /\ \A k \in 1 .. n : \E q \in Q : f[q] = k
  <2>1. /\ \A q \in Q : <<q, q>> \notin R
        /\ \A q, r, s \in Q : <<q, r>> \in R /\ <<r, s>> \in R => <<q, s>> \in R
        /\ \A q, r \in Q : q = r \/ <<q, r>> \in R \/ <<r, q>> \in R
    BY <1>2, BoardOrder
  <2> QED BY <2>1, Places, ZenonT(40)
<1> HIDE DEF f, place
<1>5. ASSUME NEW k \in 1 .. n PROVE at(k) \in Q /\ f[at(k)] = k
  <2>1. \E q \in Q : place(q) = k
    BY <1>3, <1>4
  <2> QED BY <1>3, <2>1
<1>6. ASSUME NEW q \in Q PROVE f[q] \in 1 .. n /\ at(f[q]) = q
  <2>1. f[q] \in 1 .. n
    BY <1>4
  <2>2. at(f[q]) \in Q /\ f[at(f[q])] = f[q]
    BY <1>5, <2>1
  <2>3. ~(f[at(f[q])] < f[q]) /\ ~(f[q] < f[at(f[q])])
    BY <1>4, <2>1, <2>2
  <2>4. ~Board!Before(at(f[q]), q) /\ ~Board!Before(q, at(f[q]))
    BY <1>2, <1>4, <2>2, <2>3
  <2> HIDE DEF at
  <2> QED BY <2>1, <2>2, <2>4, BoardOrder
<1> HIDE DEF at
<1> DEFINE ups(q) == Board!Cardinality(q.up)
<1>7. b = [k \in 1 .. n |-> <<at(k).id, ups(at(k))>>]
  BY <1>1, BoardSets DEF n
<1>8. \A q \in Q : ups(q) \in Nat /\ q.id \in Board!Ids
  BY BoardOrder DEF Board!Question
<1>9. \A q, r \in Q : Board!Before(q, r) => ups(q) >= ups(r)
  BY BoardOrder
<1> HIDE DEF n, ups
<1>10. b \in Seq(Board!Ids \X Nat) /\ Len(b) = n
  <2>1. ASSUME NEW k \in 1 .. n PROVE <<at(k).id, ups(at(k))>> \in Board!Ids \X Nat
    BY <1>5, <1>8
  <2> QED BY <1>4, <1>7, <2>1
<1>11. \A i \in 1 .. n : b[i][1] = at(i).id /\ b[i][2] = ups(at(i))
  BY <1>7
<1>12. ASSUME NEW i \in 1 .. n, NEW j \in 1 .. n, i < j
       PROVE  b[i][1] # b[j][1] /\ b[i][2] >= b[j][2]
  <2>1. at(i) \in Q /\ at(j) \in Q /\ f[at(i)] = i /\ f[at(j)] = j /\ i \in Int /\ j \in Int
    BY <1>5
  <2>2. Board!Before(at(i), at(j)) /\ at(i) # at(j)
    <3>1. f[at(i)] < f[at(j)]
      BY <1>12, <2>1
    <3>2. <<at(i), at(j)>> \in R
      BY <1>4, <2>1, <3>1
    <3> QED BY <1>2, <1>12, <2>1, <3>2
  <2>3. at(i).id # at(j).id
    BY <2>1, <2>2
  <2>4. ups(at(i)) >= ups(at(j))
    BY <1>9, <2>1, <2>2
  <2> QED BY <1>11, <2>3, <2>4
<1>13. ASSUME NEW q \in Q PROVE b[f[q]][1] = q.id /\ b[f[q]][2] >= ups(q) /\ f[q] \in 1 .. n
  <2>1. f[q] \in 1 .. n /\ at(f[q]) = q
    BY <1>6
  <2>2. b[f[q]][1] = q.id /\ b[f[q]][2] = ups(q)
    BY <1>11, <2>1
  <2>3. ups(q) \in Nat
    BY <1>8
  <2> QED BY <2>1, <2>2, <2>3
<1> QED BY <1>10, <1>12, <1>13 DEF ups

\* An empty board is a board.
LEMMA BoardStarts == Board!BoardAssumption /\ Board!Init => Board!BoardInv
<1> SUFFICES ASSUME Board!BoardAssumption, Board!Init PROVE Board!BoardInv
  OBVIOUS
<1>1. Len(<<>>) = 0 /\ <<>> \in Seq(Board!Ids \X Nat)
  OBVIOUS
<1>2. Board!TypeOK
  BY <1>1 DEF Board!Init, Board!TypeOK, Board!BoardAssumption
<1>3. Board!IsFiniteSet(questions)
  BY FS_EmptySet, BoardSets DEF Board!Init
<1>4. Board!Numbered /\ Board!BoardIsFair
  BY <1>1 DEF Board!Init, Board!Numbered, Board!BoardIsFair
<1> QED BY <1>2, <1>3, <1>4 DEF Board!BoardInv

\* Questions keep ids of their own, and of the types the code gives them.
LEMMA BoardQuestions ==
  Board!BoardAssumption /\ Board!BoardInv /\ Board!Next
    => /\ questions' \in SUBSET Board!Question /\ IsFiniteSet(questions')
       /\ asked' \in 0 .. MaxQuestions /\ Board!Numbered'
<1> SUFFICES ASSUME Board!BoardAssumption, Board!BoardInv, Board!Next
             PROVE  /\ questions' \in SUBSET Board!Question /\ IsFiniteSet(questions')
                    /\ asked' \in 0 .. MaxQuestions /\ Board!Numbered'
  OBVIOUS
<1>0. /\ questions \in SUBSET Board!Question /\ asked \in 0 .. MaxQuestions
      /\ IsFiniteSet(questions) /\ Board!Numbered
  BY BoardSets DEF Board!BoardInv, Board!TypeOK, Board!Question
<1>i. \A q \in Board!Question : q.id \in Int
  BY DEF Board!Question, Board!Ids, Board!BoardAssumption
<1>r. ASSUME NEW q \in questions, NEW r \in Board!Question, r.id = q.id, asked' = asked,
             questions' = (questions \ {q}) \cup {r}
      PROVE  /\ questions' \in SUBSET Board!Question /\ IsFiniteSet(questions')
             /\ asked' \in 0 .. MaxQuestions /\ Board!Numbered'
  <2>1. IsFiniteSet(questions')
    BY <1>0, <1>r, FS_RemoveElement, FS_AddElement
  <2>2. Board!Numbered'
    BY <1>0, <1>r DEF Board!Numbered
  <2> QED BY <1>0, <1>r, <2>1, <2>2
<1>d. ASSUME questions' \in SUBSET questions, asked' = asked
      PROVE  /\ questions' \in SUBSET Board!Question /\ IsFiniteSet(questions')
             /\ asked' \in 0 .. MaxQuestions /\ Board!Numbered'
  <2>1. IsFiniteSet(questions')
    BY <1>0, <1>d, FS_Subset
  <2>2. Board!Numbered'
    BY <1>0, <1>d DEF Board!Numbered
  <2> QED BY <1>0, <1>d, <2>1, <2>2
<1>1. CASE Board!ClearBoard
  BY <1>1, <1>d DEF Board!ClearBoard
<1>2. ASSUME NEW a \in Few \cup {Someone}, Board!Submit(a)
      PROVE  /\ questions' \in SUBSET Board!Question /\ IsFiniteSet(questions')
             /\ asked' \in 0 .. MaxQuestions /\ Board!Numbered'
  <2> DEFINE r == [id |-> asked + 1, author |-> a, up |-> {}, answered |-> FALSE]
  <2>1. /\ asked < MaxQuestions /\ asked' = asked + 1 /\ MaxQuestions \in Nat
        /\ questions' = questions \cup {r}
    BY <1>2 DEF Board!Submit, Board!BoardAssumption
  <2>2. r \in Board!Question /\ r.id = asked + 1
    BY <1>0, <2>1 DEF Board!Question, Board!Ids
  <2> HIDE DEF r
  <2>3. IsFiniteSet(questions')
    BY <1>0, <2>1, FS_AddElement
  <2>4. ASSUME NEW q \in questions' PROVE q.id <= asked'
    <3>1. CASE q = r
      BY <1>0, <2>1, <2>2, <3>1
    <3>2. CASE q \in questions
      <4>1. q.id <= asked /\ q.id \in Int
        BY <1>0, <1>i, <3>2 DEF Board!Numbered
      <4> QED BY <1>0, <2>1, <4>1
    <3> QED BY <2>1, <3>1, <3>2
  <2>5. ASSUME NEW q \in questions PROVE q.id # r.id
    <3>1. q.id <= asked /\ q.id \in Int
      BY <1>0, <1>i DEF Board!Numbered
    <3> QED BY <1>0, <2>2, <3>1
  <2>6. \A q, s \in questions' : q.id = s.id => q = s
    BY <1>0, <2>1, <2>5 DEF Board!Numbered
  <2>7. Board!Numbered'
    BY <2>4, <2>6 DEF Board!Numbered
  <2>8. asked' \in 0 .. MaxQuestions
    BY <1>0, <2>1
  <2> QED BY <1>0, <2>1, <2>2, <2>3, <2>7, <2>8
<1>3. ASSUME NEW p \in Few, Board!Purge(p)
      PROVE  /\ questions' \in SUBSET Board!Question /\ IsFiniteSet(questions')
             /\ asked' \in 0 .. MaxQuestions /\ Board!Numbered'
  <2> DEFINE Q == {r \in questions : r.author # p}
             g(q) == [q EXCEPT !.up = @ \ {p}]
             h == [q \in Q |-> g(q)]
  <2>1. questions' = {g(q) : q \in Q} /\ asked' = asked
    BY <1>3 DEF Board!Purge
  <2>2. \A q \in Q : q \in questions /\ g(q) \in Board!Question /\ g(q).id = q.id
    BY <1>0 DEF Board!Question
  <2>3. IsFiniteSet(Q)
    BY <1>0, FS_Subset
  <2> HIDE DEF Q, g
  <2>4. IsFiniteSet(questions')
    <3>1. IsFiniteSet({g(q) : q \in Q})
      <4>1. h \in Surjection(Q, {g(q) : q \in Q})
        BY DEF Surjection
      <4> HIDE DEF h
      <4> QED BY <2>3, <4>1, FS_Surjection
    <3> QED BY <2>1, <3>1
  <2>5. Board!Numbered'
    BY <1>0, <2>1, <2>2 DEF Board!Numbered
  <2> QED BY <1>0, <2>1, <2>2, <2>4, <2>5
<1>4. ASSUME NEW q \in questions, Board!DeleteQuestion(q)
      PROVE  /\ questions' \in SUBSET Board!Question /\ IsFiniteSet(questions')
             /\ asked' \in 0 .. MaxQuestions /\ Board!Numbered'
  BY <1>4, <1>d DEF Board!DeleteQuestion
<1>5. ASSUME NEW q \in questions, NEW b \in BOOLEAN, Board!ToggleAnswered(q, b)
      PROVE  /\ questions' \in SUBSET Board!Question /\ IsFiniteSet(questions')
             /\ asked' \in 0 .. MaxQuestions /\ Board!Numbered'
  <2>1. [q EXCEPT !.answered = b] \in Board!Question /\ [q EXCEPT !.answered = b].id = q.id
    BY <1>0 DEF Board!Question
  <2> QED BY <1>5, <2>1, <1>r DEF Board!ToggleAnswered
<1>6. ASSUME NEW q \in questions, NEW p \in Few, Board!Upvote(q, p)
      PROVE  /\ questions' \in SUBSET Board!Question /\ IsFiniteSet(questions')
             /\ asked' \in 0 .. MaxQuestions /\ Board!Numbered'
  <2>1. [q EXCEPT !.up = @ \cup {p}] \in Board!Question /\ [q EXCEPT !.up = @ \cup {p}].id = q.id
    BY <1>0 DEF Board!Question
  <2> QED BY <1>6, <2>1, <1>r DEF Board!Upvote
<1> QED BY <1>1, <1>2, <1>3, <1>4, <1>5, <1>6 DEF Board!Next

\* Every step keeps the list on the phones complete and in order.
LEMMA BoardSteps ==
  Board!BoardAssumption /\ Board!BoardInv /\ [Board!Next]_(Board!vars) => Board!BoardInv'
<1> SUFFICES ASSUME Board!BoardAssumption, Board!BoardInv, [Board!Next]_(Board!vars)
             PROVE  Board!BoardInv'
  OBVIOUS
<1>u. CASE UNCHANGED Board!vars
  BY <1>u DEF Board!vars, Board!BoardInv, Board!TypeOK, Board!Numbered, Board!BoardIsFair
<1> SUFFICES ASSUME Board!Next PROVE Board!BoardInv'
  BY <1>u
<1>q. /\ questions' \in SUBSET Board!Question /\ IsFiniteSet(questions')
      /\ asked' \in 0 .. MaxQuestions /\ Board!Numbered'
  BY BoardQuestions
<1>s. ASSUME Board!Show PROVE Board!BoardInv'
  <2>1. \A q, r \in questions' : q.id = r.id => q = r
    BY <1>q DEF Board!Numbered
  <2>2. /\ board' \in Seq(Board!Ids \X Nat)
        /\ \A i, j \in 1 .. Len(board') :
             i < j => board'[i][1] # board'[j][1] /\ board'[i][2] >= board'[j][2]
        /\ \A q \in questions' : \E i \in 1 .. Len(board') :
             board'[i][1] = q.id /\ board'[i][2] >= Board!Cardinality(q.up)
    <3>1. board' = Board!Public(questions')
      BY <1>s DEF Board!Show
    <3> DEFINE Q == questions'
               b == board'
    <3>2. /\ Board!BoardAssumption /\ Q \in SUBSET Board!Question /\ IsFiniteSet(Q)
          /\ \A q, r \in Q : q.id = r.id => q = r
          /\ b = Board!Public(Q)
      BY <1>q, <2>1, <3>1
    <3> HIDE DEF Q, b
    <3>3. /\ b \in Seq(Board!Ids \X Nat)
          /\ \A i, j \in 1 .. Len(b) : i < j => b[i][1] # b[j][1] /\ b[i][2] >= b[j][2]
          /\ \A q \in Q : \E i \in 1 .. Len(b) :
               b[i][1] = q.id /\ b[i][2] >= Board!Cardinality(q.up)
      BY <3>2, PublicIsFair
    <3> QED BY <3>3 DEF Q, b
  <2>3. Board!TypeOK'
    BY <1>q, <2>2 DEF Board!TypeOK, Board!Question
  <2>4. Board!BoardIsFair'
    BY <2>2 DEF Board!BoardIsFair
  <2> QED BY <1>q, <2>3, <2>4, BoardSets DEF Board!BoardInv
<1>1. CASE Board!ClearBoard
  BY <1>1, <1>s DEF Board!ClearBoard
<1>2. ASSUME NEW a \in Few \cup {Someone}, Board!Submit(a) PROVE Board!BoardInv'
  BY <1>2, <1>s DEF Board!Submit
<1>3. ASSUME NEW p \in Few, Board!Purge(p) PROVE Board!BoardInv'
  <2>1. ASSUME NEW q \in questions'
        PROVE  \E i \in 1 .. Len(board) :
                 board[i][1] = q.id /\ board[i][2] >= Board!Cardinality(q.up)
    <3>1. PICK r \in questions : q = [r EXCEPT !.up = @ \ {p}]
      BY <1>3 DEF Board!Purge
    <3>2. r \in Board!Question
      BY DEF Board!BoardInv, Board!TypeOK, Board!Question
    <3>3. q.id = r.id /\ q.up \subseteq r.up /\ r.up \in SUBSET Few
      BY <3>1, <3>2 DEF Board!Question
    <3>4. IsFiniteSet(r.up)
      BY <3>3, BoardSets, FS_Subset DEF Board!BoardAssumption
    <3>5. Cardinality(q.up) <= Cardinality(r.up) /\ Cardinality(q.up) \in Nat
              /\ Cardinality(r.up) \in Nat
      BY <3>3, <3>4, FS_Subset, FS_CardinalityType
    <3>6. PICK i \in 1 .. Len(board) :
            board[i][1] = r.id /\ board[i][2] >= Board!Cardinality(r.up)
      BY DEF Board!BoardInv, Board!BoardIsFair
    <3>7. board[i][2] \in Nat
      BY <3>6 DEF Board!BoardInv, Board!TypeOK
    <3>8. board[i][2] >= Board!Cardinality(q.up)
      BY <3>5, <3>6, <3>7, BoardSets
    <3> QED BY <3>3, <3>6, <3>8
  <2>2. board' = board
    BY <1>3 DEF Board!Purge
  <2>3. Board!TypeOK'
    BY <1>q, <2>2 DEF Board!TypeOK, Board!Question, Board!BoardInv
  <2>4. Board!BoardIsFair'
    BY <2>1, <2>2 DEF Board!BoardIsFair, Board!BoardInv
  <2> QED BY <1>q, <2>3, <2>4, BoardSets DEF Board!BoardInv
<1>4. ASSUME NEW q \in questions, Board!DeleteQuestion(q) PROVE Board!BoardInv'
  BY <1>4, <1>s DEF Board!DeleteQuestion
<1>5. ASSUME NEW q \in questions, NEW b \in BOOLEAN, Board!ToggleAnswered(q, b)
      PROVE  Board!BoardInv'
  BY <1>5, <1>s DEF Board!ToggleAnswered
<1>6. ASSUME NEW q \in questions, NEW p \in Few, Board!Upvote(q, p) PROVE Board!BoardInv'
  BY <1>6, <1>s DEF Board!Upvote
<1> QED BY <1>1, <1>2, <1>3, <1>4, <1>5, <1>6 DEF Board!Next

\* No step but the voter's purge takes a vote off a question that stays.
LEMMA BoardVotes ==
  Board!BoardInv /\ [Board!Next]_(Board!vars)
    => \A q \in questions, p \in Few :
         p \in q.up => \A r \in questions' : r.id = q.id => p \in r.up \/ Board!Purge(p)
<1> SUFFICES ASSUME Board!BoardInv, [Board!Next]_(Board!vars),
                    NEW q \in questions, NEW p \in Few, p \in q.up,
                    NEW r \in questions', r.id = q.id, ~Board!Purge(p)
             PROVE  p \in r.up
  OBVIOUS
<1>0. questions \in SUBSET Board!Question /\ \A s \in questions : s.id = q.id => s = q
  BY DEF Board!BoardInv, Board!TypeOK, Board!Question, Board!Numbered
<1>k. ASSUME r \in questions PROVE p \in r.up
  BY <1>0, <1>k
<1>r. ASSUME NEW s \in questions, r.id = s.id, s.up \subseteq r.up PROVE p \in r.up
  BY <1>0, <1>r
<1>1. CASE Board!ClearBoard
  BY <1>1 DEF Board!ClearBoard
<1>2. ASSUME NEW a \in Few \cup {Someone}, Board!Submit(a) PROVE p \in r.up
  <2>1. q.id <= asked /\ asked \in Int /\ q.id \in Int
    BY <1>0 DEF Board!BoardInv, Board!TypeOK, Board!Numbered, Board!Question, Board!Ids
  <2>2. r \in questions \/ r.id = asked + 1
    BY <1>2 DEF Board!Submit
  <2> QED BY <1>k, <2>1, <2>2
<1>3. ASSUME NEW o \in Few, Board!Purge(o) PROVE p \in r.up
  <2>1. PICK s \in questions : r = [s EXCEPT !.up = @ \ {o}]
    BY <1>3 DEF Board!Purge
  <2>2. r.id = s.id /\ r.up = s.up \ {o}
    BY <1>0, <2>1 DEF Board!Question
  <2> QED BY <1>0, <1>3, <2>2
<1>4. ASSUME NEW s \in questions, Board!DeleteQuestion(s) PROVE p \in r.up
  BY <1>4, <1>k DEF Board!DeleteQuestion
<1>5. ASSUME NEW s \in questions, NEW b \in BOOLEAN, Board!ToggleAnswered(s, b)
      PROVE  p \in r.up
  <2>1. r \in questions \/ r = [s EXCEPT !.answered = b]
    BY <1>5 DEF Board!ToggleAnswered
  <2>2. [s EXCEPT !.answered = b].id = s.id /\ [s EXCEPT !.answered = b].up = s.up
    BY <1>0 DEF Board!Question
  <2> QED BY <1>k, <1>r, <2>1, <2>2
<1>6. ASSUME NEW s \in questions, NEW o \in Few, Board!Upvote(s, o) PROVE p \in r.up
  <2>1. r \in questions \/ r = [s EXCEPT !.up = @ \cup {o}]
    BY <1>6 DEF Board!Upvote
  <2>2. [s EXCEPT !.up = @ \cup {o}].id = s.id /\ [s EXCEPT !.up = @ \cup {o}].up = s.up \cup {o}
    BY <1>0 DEF Board!Question
  <2> QED BY <1>k, <1>r, <2>1, <2>2
<1>7. CASE UNCHANGED Board!vars
  BY <1>7, <1>k DEF Board!vars
<1> QED BY <1>1, <1>2, <1>3, <1>4, <1>5, <1>6, <1>7 DEF Board!Next

\* What happens elsewhere leaves the board as it is.
LEMMA BoardApart == Board!BoardInv /\ UNCHANGED Board!vars => Board!BoardInv'
  BY DEF Board!vars, Board!BoardInv, Board!TypeOK, Board!Numbered, Board!BoardIsFair
----------------------------------------------------------------------------
(* The activities together                                                  *)

\* Every component means the same activity.
LEMMA SameActivity ==
  /\ Poll!ActivityTypeOK <=> Debate!ActivityTypeOK
  /\ Poll!ActivityTypeOK <=> Teams!ActivityTypeOK
  /\ Poll!ActivityTypeOK <=> Survey!ActivityTypeOK
  /\ Poll!ActivityTypeOK <=> Cloud!ActivityTypeOK
  /\ Poll!ActivityTypeOK <=> Review!ActivityTypeOK
  BY DEF Poll!ActivityTypeOK, Debate!ActivityTypeOK, Teams!ActivityTypeOK, Survey!ActivityTypeOK,
         Cloud!ActivityTypeOK, Review!ActivityTypeOK, Poll!Activities, Debate!Activities,
         Teams!Activities, Survey!Activities, Cloud!Activities, Review!Activities

\* And so it does after a step.
LEMMA SameActivityNext ==
  /\ Poll!ActivityTypeOK' <=> Debate!ActivityTypeOK'
  /\ Poll!ActivityTypeOK' <=> Teams!ActivityTypeOK'
  /\ Poll!ActivityTypeOK' <=> Survey!ActivityTypeOK'
  /\ Poll!ActivityTypeOK' <=> Cloud!ActivityTypeOK'
  /\ Poll!ActivityTypeOK' <=> Review!ActivityTypeOK'
  BY DEF Poll!ActivityTypeOK, Debate!ActivityTypeOK, Teams!ActivityTypeOK, Survey!ActivityTypeOK,
         Cloud!ActivityTypeOK, Review!ActivityTypeOK, Poll!Activities, Debate!Activities,
         Teams!Activities, Survey!Activities, Cloud!Activities, Review!Activities

\* The daemon starts with every component's invariant.
LEMMA AllStart == Init => ActivitiesInv
<1> SUFFICES ASSUME Init PROVE ActivitiesInv
  OBVIOUS
<1>1. Poll!PollInv
  BY ActivitiesAssumption, PollStarts DEF Init
<1>2. Survey!SurveyInv
  <2>1. Survey!Init
    BY DEF Init
  <2> QED BY <2>1, ActivitiesAssumption, SurveyStarts
<1>3. Board!BoardInv
  BY ActivitiesAssumption, BoardStarts DEF Init
<1>4. Cloud!CloudInv
  BY ActivitiesAssumption, CloudStarts DEF Init
<1>5. Review!ReviewInv
  BY ActivitiesAssumption, ReviewStarts DEF Init
<1>6. Queue!TypeOK
  BY ActivitiesAssumption, QueueStarts DEF Init
<1>7. DebateHolds
  <2>1. CASE focus = "teams"
    BY <2>1, ActivitiesAssumption, Teams!InitHolds DEF Init, DebateHolds
  <2>2. CASE focus # "teams"
    BY <2>2, ActivitiesAssumption, Debate!InitHolds DEF Init, DebateHolds
  <2> QED BY <2>1, <2>2
<1>8. Poll!ActivityTypeOK
  BY DEF Init, Poll!Init, Poll!ActivityInit, Poll!ActivityTypeOK, Poll!Activities
<1> QED BY <1>1, <1>2, <1>3, <1>4, <1>5, <1>6, <1>7, <1>8 DEF ActivitiesInv

\* The debate keeps its invariant while another component moves.
LEMMA DebateApart ==
  DebateHolds /\ UNCHANGED <<focus, debateVars>> /\ Poll!ActivityTypeOK' => DebateHolds'
<1> SUFFICES ASSUME DebateHolds, UNCHANGED <<focus, debateVars>>, Poll!ActivityTypeOK'
             PROVE  DebateHolds'
  OBVIOUS
<1>1. UNCHANGED <<names, Teams!debateVars>> /\ UNCHANGED <<names, Debate!debateVars>>
  BY DEF debateVars, Teams!debateVars, Debate!debateVars
<1>2. CASE focus = "teams"
  <2>1. Teams!Teams'
    BY <1>1, <1>2, SameActivityNext, Teams!StaysApart DEF DebateHolds
  <2> QED BY <1>2, <2>1 DEF DebateHolds
<1>3. CASE focus # "teams"
  <2>1. Debate!Teams'
    BY <1>1, <1>3, SameActivityNext, Debate!StaysApart DEF DebateHolds
  <2> QED BY <1>3, <2>1 DEF DebateHolds
<1> QED BY <1>2, <1>3

\* The component that moves keeps its invariant, and the others theirs.
LEMMA AllStep == ActivitiesInv /\ [Next]_vars => ActivitiesInv'
<1> SUFFICES ASSUME ActivitiesInv, [Next]_vars PROVE ActivitiesInv'
  OBVIOUS
<1>0. /\ Poll!PollAssumption /\ Debate!DebateAssumption /\ Teams!DebateAssumption
      /\ Survey!AiShareAssumption /\ Board!BoardAssumption /\ Cloud!CloudAssumption
      /\ Review!ReviewAssumption /\ Queue!QueueAssumption
  BY ActivitiesAssumption
<1>i. /\ Poll!ActivityTypeOK
      /\ Poll!PollInv /\ Survey!SurveyInv /\ Board!BoardInv /\ Cloud!CloudInv
      /\ Review!ReviewInv /\ Queue!TypeOK /\ DebateHolds
  BY DEF ActivitiesInv
<1>f. focus' = focus
  BY DEF Next, vars
<1>a. ASSUME UNCHANGED shared PROVE Poll!ActivityTypeOK'
  BY <1>a, <1>i DEF shared, Poll!ActivityTypeOK
<1>p. ASSUME UNCHANGED pollVars PROVE Poll!PollInv'
  BY <1>p, <1>i, PollApart
<1>d. ASSUME UNCHANGED debateVars, Poll!ActivityTypeOK' PROVE DebateHolds'
  BY <1>d, <1>f, <1>i, DebateApart
<1>s. ASSUME UNCHANGED surveyVars PROVE Survey!SurveyInv'
  BY <1>s, <1>i, SurveyApart
<1>b. ASSUME UNCHANGED boardVars PROVE Board!BoardInv'
  BY <1>b, <1>i, BoardApart DEF boardVars, Board!vars
<1>c. ASSUME UNCHANGED cloudVars PROVE Cloud!CloudInv'
  BY <1>c, <1>i, CloudApart
<1>r. ASSUME UNCHANGED reviewVars PROVE Review!ReviewInv'
  BY <1>r, <1>i, ReviewApart
<1>q. ASSUME UNCHANGED queueVars PROVE Queue!TypeOK'
  BY <1>q, <1>i, QueueApart
<1>1. CASE /\ Poll!Next
           /\ UNCHANGED <<debateVars, surveyVars, boardVars, cloudVars, reviewVars, queueVars>>
  <2>1. Poll!PollInv' /\ Poll!ActivityTypeOK'
    BY <1>0, <1>1, <1>i, PollSteps
  <2> QED BY <2>1, <1>1, <1>d, <1>s, <1>b, <1>c, <1>r, <1>q DEF ActivitiesInv
<1>2. CASE /\ \/ focus = "debate" /\ Debate!Next
              \/ focus = "teams" /\ Teams!Next
           /\ UNCHANGED <<pollVars, surveyVars, boardVars, cloudVars, reviewVars, queueVars>>
  <2>1. DebateHolds' /\ Poll!ActivityTypeOK'
    <3>1. CASE focus = "debate" /\ Debate!Next
      <4>1. Debate!Teams'
        BY <1>0, <1>i, <3>1, Debate!StepHolds DEF DebateHolds
      <4>2. Debate!ActivityTypeOK'
        BY <4>1 DEF Debate!Teams, Debate!Types
      <4> QED BY <1>f, <3>1, <4>1, <4>2, SameActivityNext DEF DebateHolds
    <3>2. CASE focus = "teams" /\ Teams!Next
      <4>1. Teams!Teams'
        BY <1>0, <1>i, <3>2, Teams!StepHolds DEF DebateHolds
      <4>2. Teams!ActivityTypeOK'
        BY <4>1 DEF Teams!Teams, Teams!Types
      <4> QED BY <1>f, <3>2, <4>1, <4>2, SameActivityNext DEF DebateHolds
    <3> QED BY <1>2, <3>1, <3>2
  <2> QED BY <2>1, <1>2, <1>p, <1>s, <1>b, <1>c, <1>r, <1>q DEF ActivitiesInv
<1>3. CASE /\ Survey!Next
           /\ UNCHANGED <<pollVars, debateVars, boardVars, cloudVars, reviewVars, queueVars>>
  <2>1. Survey!SurveyInv' /\ Poll!ActivityTypeOK'
    BY <1>0, <1>3, <1>i, SurveySteps, SameActivity, SameActivityNext
  <2> QED BY <2>1, <1>3, <1>p, <1>d, <1>b, <1>c, <1>r, <1>q DEF ActivitiesInv
<1>4. CASE /\ Board!Next
           /\ UNCHANGED <<shared, pollVars, debateVars, surveyVars, cloudVars, reviewVars,
                          queueVars>>
  <2>1. Board!BoardInv' /\ Poll!ActivityTypeOK'
    BY <1>0, <1>4, <1>i, <1>a, BoardSteps
  <2> QED BY <2>1, <1>4, <1>p, <1>d, <1>s, <1>c, <1>r, <1>q DEF ActivitiesInv
<1>5. CASE /\ Cloud!Next
           /\ UNCHANGED <<pollVars, debateVars, surveyVars, boardVars, reviewVars, queueVars>>
  <2>1. Cloud!CloudInv' /\ Poll!ActivityTypeOK'
    BY <1>0, <1>5, <1>i, CloudSteps, SameActivity, SameActivityNext
  <2> QED BY <2>1, <1>5, <1>p, <1>d, <1>s, <1>b, <1>r, <1>q DEF ActivitiesInv
<1>6. CASE /\ Review!Next
           /\ UNCHANGED <<pollVars, debateVars, surveyVars, boardVars, cloudVars, queueVars>>
  <2>1. Review!ReviewInv' /\ Poll!ActivityTypeOK'
    BY <1>0, <1>6, <1>i, ReviewSteps, SameActivity, SameActivityNext
  <2> QED BY <2>1, <1>6, <1>p, <1>d, <1>s, <1>b, <1>c, <1>q DEF ActivitiesInv
<1>7. CASE /\ Queue!Next
           /\ UNCHANGED <<shared, pollVars, debateVars, surveyVars, boardVars, cloudVars,
                          reviewVars>>
  <2>1. Queue!TypeOK' /\ Poll!ActivityTypeOK'
    BY <1>0, <1>7, <1>i, <1>a, QueueSteps
  <2> QED BY <2>1, <1>7, <1>p, <1>d, <1>s, <1>b, <1>c, <1>r DEF ActivitiesInv
<1>8. CASE UNCHANGED vars
  BY <1>8, <1>a, <1>p, <1>d, <1>s, <1>b, <1>c, <1>r, <1>q DEF vars, ActivitiesInv
<1> QED BY <1>1, <1>2, <1>3, <1>4, <1>5, <1>6, <1>7, <1>8 DEF Next, Survey!Next

\* The inductive invariant holds in every reachable state.
THEOREM ActivitiesInvariant == Spec => []ActivitiesInv
  BY AllStart, AllStep, PTL DEF Spec

\* The variables of every activity have the types the code gives them.
THEOREM ActivitiesTyped == Spec => []TypeOK
<1>1. ActivitiesInv => TypeOK
  <2> SUFFICES ASSUME ActivitiesInv PROVE TypeOK
    OBVIOUS
  <2> USE DEF ActivitiesInv
  <2>1. Poll!TypeOK
    BY DEF Poll!PollInv, Poll!PollTypeOK, Poll!FlagsTypeOK, Poll!TypeOK
  <2>2. Survey!TypeOK
    BY SameActivity DEF Survey!SurveyInv, Survey!AnswersTypeOK, Survey!RankingTypeOK, Survey!TypeOK
  <2>3. Board!TypeOK
    BY DEF Board!BoardInv
  <2>4. Cloud!TypeOK
    BY SameActivity DEF Cloud!CloudInv, Cloud!WordsTypeOK, Cloud!TypeOK
  <2>5. Review!TypeOK
    BY SameActivity DEF Review!ReviewInv, Review!ReviewTypeOK, Review!RequestsTypeOK, Review!TypeOK
  <2>6. IF focus = "teams" THEN Teams!TypeOK ELSE Debate!TypeOK
    <3>1. CASE focus = "teams"
      BY <3>1 DEF DebateHolds, Teams!Teams, Teams!Types, Teams!PeopleTypeOK, Teams!StageTypeOK,
                  Teams!ArgsTypeOK, Teams!TypeOK, Teams!Choices, Teams!Arguments
    <3>2. CASE focus # "teams"
      BY <3>2 DEF DebateHolds, Debate!Teams, Debate!Types, Debate!PeopleTypeOK,
                  Debate!StageTypeOK, Debate!ArgsTypeOK, Debate!TypeOK, Debate!Choices,
                  Debate!Arguments
    <3> QED BY <3>1, <3>2
  <2> QED BY <2>1, <2>2, <2>3, <2>4, <2>5, <2>6 DEF TypeOK
<1> QED BY <1>1, ActivitiesInvariant, PTL

\* Whatever the host edits, stops, clears or restarts: every ballot kept is one the poll on
\* show could have taken.
THEOREM BallotsAlwaysFit == Spec => []BallotsFit
<1>1. ActivitiesInv => BallotsFit
  BY DEF ActivitiesInv, Poll!PollInv, BallotsFit
<1> QED BY <1>1, ActivitiesInvariant, PTL

\* While a poll runs, phones see the tally of a public one and nothing of a private one, once its
\* start has come back from the host and until a ballot is purged; and a tally that is cached is
\* that of the ballots, each counted for every index it names.
THEOREM PhonesAlwaysSeeTheTally == Spec => []PhonesSeeTheTally
<1>1. ActivitiesInv => PhonesSeeTheTally
  BY DEF ActivitiesInv, Poll!PollInv, Poll!ShownInv, PhonesSeeTheTally
<1> QED BY <1>1, ActivitiesInvariant, PTL

\* However people are assigned, purged and assigned again, and whichever clean-up answers
\* when: champions, arguments and assignments agree with the sides.
THEOREM TeamsAlwaysAgree == Spec => []TeamsAgree
<1>1. ActivitiesInv => TeamsAgree
  <2>1. Teams!Teams => Teams!TeamsAgree
    BY DEF Teams!Teams, Teams!Spokesmen, Teams!Standpoints, Teams!Assignees, Teams!TeamsAgree
  <2>2. Debate!Teams => Debate!TeamsAgree
    BY DEF Debate!Teams, Debate!Spokesmen, Debate!Standpoints, Debate!Assignees,
           Debate!TeamsAgree
  <2> QED BY <2>1, <2>2 DEF ActivitiesInv, DebateHolds, TeamsAgree
<1> QED BY <1>1, ActivitiesInvariant, PTL

\* Favourites are ticked, a free text belongs to its option, no two values spell the same,
\* no two items, and votes are for items there are.
THEOREM AnswersAlwaysAgree == Spec => []AnswersAgree
<1>1. ActivitiesInv => AnswersAgree
  BY DEF ActivitiesInv, Survey!SurveyInv, AnswersAgree
<1> QED BY <1>1, ActivitiesInvariant, PTL

\* The list of questions is complete, in order and never a vote short, and the cloud's
\* words are the counted ones, latest first.
THEOREM BoardIsAlwaysFair == Spec => []BoardIsFair
<1>1. ActivitiesInv => BoardIsFair
  BY DEF ActivitiesInv, Board!BoardInv, Cloud!CloudInv, BoardIsFair
<1> QED BY <1>1, ActivitiesInvariant, PTL

\* A confirmed line is paid once, however often it is confirmed, and lines are lines of the
\* snippet on show.
THEOREM ReviewAlwaysPaysOnce == Spec => []ReviewPaysOnce
<1>1. ActivitiesInv => ReviewPaysOnce
  BY DEF ActivitiesInv, Review!ReviewInv, ReviewPaysOnce
<1> QED BY <1>1, ActivitiesInvariant, PTL

\* The results of a stopped poll stand until it is started, cleared or left, but for the
\* ballots of the purged, whatever else goes on.
THEOREM ResultsAlwaysStand == Spec => ResultsStand
<1>1. ActivitiesInv /\ [Next]_vars => Stands
  <2> SUFFICES ASSUME ActivitiesInv, [Next]_vars PROVE Stands
    OBVIOUS
  <2>1. [Poll!Next]_(Poll!vars) \/ UNCHANGED <<poll, votes>>
    BY DEF Next, vars, pollVars
  <2>2. Poll!PollTypeOK
    BY DEF ActivitiesInv, Poll!PollInv
  <2>3. ASSUME UNCHANGED <<poll, votes>> PROVE Stands
    BY <2>3 DEF Stands
  <2> QED BY <2>1, <2>2, <2>3, PollStands
<1>2. Stands <=> (ended /\ ended' /\ ~started' => /\ poll' = poll
                    /\ \A p \in Few : votes'[p] = votes[p] \/ Poll!Purge(p))
  BY DEF Stands
<1> QED BY <1>1, <1>2, ActivitiesInvariant, PTL DEF Spec, ResultsStand, Poll!ResultsStand

\* What PaidVotesStick says of a step of the debate, and of a step of the board.
ArgumentVotesStick == \A a \in args, p \in Few : p \in a.up => Debate!Stays(a, p)
QuestionVotesStick ==
  \A q \in questions, p \in Few :
    p \in q.up => \A r \in questions' : r.id = q.id => p \in r.up \/ Board!Purge(p)

\* An upvote that was paid for stays until its debate, argument or question is gone or its
\* voter purged: no clean-up, edit or other vote takes it back.
THEOREM PaidVotesAlwaysStick == Spec => PaidVotesStick
<1>1. ActivitiesInv /\ [Next]_vars => ArgumentVotesStick
  <2> SUFFICES ASSUME ActivitiesInv, [Next]_vars PROVE ArgumentVotesStick
    OBVIOUS
  <2>1. CASE args' = args
    BY <2>1 DEF ArgumentVotesStick, Debate!Stays
  <2>2. CASE focus = "debate" /\ Debate!Next
    <3>1. Debate!Teams /\ Debate!DebateAssumption
      BY <2>2, ActivitiesAssumption DEF ActivitiesInv, DebateHolds
    <3> QED BY <2>2, <3>1, Debate!VotesHold DEF ArgumentVotesStick
  <2>3. CASE focus = "teams"
    <3>1. args = {}
      BY <2>3 DEF ActivitiesInv, DebateHolds, Teams!Teams, Teams!Types, Teams!ArgsTypeOK,
                  Teams!Arguments, Teams!Ids
    <3> QED BY <3>1 DEF ArgumentVotesStick
  <2> QED BY <2>1, <2>2, <2>3 DEF Next, vars, debateVars
<1>2. ActivitiesInv /\ [Next]_vars => QuestionVotesStick
  <2> SUFFICES ASSUME ActivitiesInv, [Next]_vars PROVE QuestionVotesStick
    OBVIOUS
  <2>1. [Board!Next]_(Board!vars)
    BY DEF Next, vars, boardVars, Board!vars
  <2>2. Board!BoardInv
    BY DEF ActivitiesInv
  <2> QED BY <2>1, <2>2, BoardVotes DEF QuestionVotesStick
<1>3. ArgumentVotesStick <=> \A a \in args, p \in Few :
        p \in a.up =>
          \/ args' = {}
          \/ \E b \in args' : b.id = a.id /\ (p \in b.up \/ Debate!Purge(p))
          \/ a.author # Someone /\ Debate!Purge(a.author)
  BY DEF ArgumentVotesStick, Debate!Stays
<1>4. QuestionVotesStick <=> \A q \in questions, p \in Few :
        p \in q.up => \A r \in questions' : r.id = q.id => p \in r.up \/ Board!Purge(p)
  BY DEF QuestionVotesStick
<1>5. Spec => Debate!PaidVotesStick
  BY <1>1, <1>3, ActivitiesInvariant, PTL DEF Spec, Debate!PaidVotesStick
<1>6. Spec => Board!PaidVotesStick
  BY <1>2, <1>4, ActivitiesInvariant, PTL DEF Spec, Board!PaidVotesStick
<1> QED BY <1>5, <1>6 DEF PaidVotesStick

\* However the sides came about, the people one step assigns make the teams even, or all
\* join the smaller one.
THEOREM AssignmentsAlwaysBalance == Spec => AutoAssignBalances
<1> DEFINE Balances ==
      IF focus = "teams" THEN Teams!AssignmentBalances ELSE Debate!AssignmentBalances
<1>1. ActivitiesInv /\ [Next]_vars => Balances
  <2> SUFFICES ASSUME ActivitiesInv, [Next]_vars PROVE Balances
    OBVIOUS
  <2>1. CASE auto' = auto
    BY <2>1 DEF Teams!AssignmentBalances, Debate!AssignmentBalances
  <2>2. CASE focus = "debate" /\ Debate!Next
    <3>1. Debate!Teams /\ Debate!DebateAssumption
      BY <2>2, ActivitiesAssumption DEF ActivitiesInv, DebateHolds
    <3>2. Debate!AssignmentBalances
      BY <2>2, <3>1, Debate!AssignmentsEven
    <3> QED BY <2>2, <3>2
  <2>3. CASE focus = "teams" /\ Teams!Next
    <3>1. Teams!Teams /\ Teams!DebateAssumption
      BY <2>3, ActivitiesAssumption DEF ActivitiesInv, DebateHolds
    <3>2. Teams!AssignmentBalances
      BY <2>3, <3>1, Teams!AssignmentsEven
    <3> QED BY <2>3, <3>2
  <2> QED BY <2>1, <2>2, <2>3 DEF Next, vars, debateVars
<1> QED BY <1>1, ActivitiesInvariant, PTL DEF Spec, AutoAssignBalances

----------------------------------------------------------------------------
(* The components by themselves                                             *)

\* The poll alone, ballots that repeat an option included: types, ballots, and what the phones
\* see once the start has come back from the host, until a ballot is purged.
THEOREM PollAlone == Poll!Spec => [](Poll!TypeOK /\ Poll!BallotsFit /\ Poll!PhonesSeeTheTally)
<1> DEFINE Inv == Poll!PollInv /\ Poll!ActivityTypeOK
<1>1. Poll!Init => Inv
  BY ActivitiesAssumption, PollStarts
     DEF Poll!Init, Poll!ActivityInit, Poll!ActivityTypeOK, Poll!Activities
<1>2. Inv /\ [Poll!Next]_(Poll!vars) => Inv'
  BY ActivitiesAssumption, PollSteps
<1>3. Inv => Poll!TypeOK /\ Poll!BallotsFit /\ Poll!PhonesSeeTheTally
  BY DEF Poll!PollInv, Poll!PollTypeOK, Poll!FlagsTypeOK, Poll!ShownInv, Poll!TypeOK
<1> HIDE DEF Inv
<1> QED BY <1>1, <1>2, <1>3, PTL DEF Poll!Spec

\* The code review alone: types, and a confirmed line is paid once.
THEOREM ReviewAlone == Review!Spec => [](Review!TypeOK /\ Review!ReviewPaysOnce)
<1> DEFINE Inv == Review!ReviewInv /\ Review!ActivityTypeOK
<1>1. Review!Init => Inv
  BY ActivitiesAssumption, ReviewStarts
     DEF Review!Init, Review!ActivityInit, Review!ActivityTypeOK, Review!Activities
<1>2. Inv /\ [Review!Next]_(Review!vars) => Inv'
  BY ActivitiesAssumption, ReviewSteps
<1>3. Inv => Review!TypeOK /\ Review!ReviewPaysOnce
  BY DEF Review!ReviewInv, Review!ReviewTypeOK, Review!RequestsTypeOK, Review!TypeOK
<1> HIDE DEF Inv
<1> QED BY <1>1, <1>2, <1>3, PTL DEF Review!Spec

\* The AI share survey alone: types, and answers, items and votes agree.
THEOREM SurveyAlone == Survey!Spec => [](Survey!TypeOK /\ Survey!AnswersAgree)
<1> DEFINE Inv == Survey!SurveyInv /\ Survey!ActivityTypeOK
<1>1. Survey!Init => Inv
  <2> SUFFICES ASSUME Survey!Init PROVE Inv
    OBVIOUS
  <2>1. Survey!SurveyInv
    BY ActivitiesAssumption, SurveyStarts
  <2>2. activity = "none" /\ announced = "none"
    BY DEF Survey!Init
  <2> QED BY <2>1, <2>2 DEF Survey!ActivityTypeOK, Survey!Activities
<1>2. Inv /\ [Survey!Next]_(Survey!vars) => Inv'
  BY ActivitiesAssumption, SurveySteps
<1>3. Inv => Survey!TypeOK /\ Survey!AnswersAgree
  BY DEF Survey!SurveyInv, Survey!AnswersTypeOK, Survey!RankingTypeOK, Survey!TypeOK
<1> HIDE DEF Inv
<1> QED BY <1>1, <1>2, <1>3, PTL DEF Survey!Spec
=============================================================================
