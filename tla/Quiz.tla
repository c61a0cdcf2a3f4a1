-------------------------------- MODULE Quiz --------------------------------
(***************************************************************************)
(* The live quiz and the score authority of the daemon                     *)
(* (daemon/quiz/state.py, daemon/quiz/router.py, daemon/scores.py), with   *)
(* everything else that moves the same points: the other activities, the   *)
(* reset of the leaderboard, the purge of a participant, the reset for a   *)
(* new session.                                                            *)
(*                                                                         *)
(* Every handler runs to its end on the daemon's event loop before it      *)
(* awaits anything, so one handler is one action.  quiz_correct_indices is *)
(* only shown, never read, and left out.  Time is a clock of ticks; the    *)
(* points are computed with exact fractions and Python's rounding of       *)
(* halves to the even neighbour.                                           *)
(***************************************************************************)
EXTENDS Integers, FiniteSets, TLC, TLAPS, FiniteSetTheorems, WellFoundedInduction

CONSTANTS
  Pids,         \* participants, by uuid
  MaxOptions,   \* options a quiz has at most
  Restored,     \* scores a session snapshot may give a participant
  Bonus,        \* points another activity awards: 25, 50, 100, 200 or 2500
  Times,        \* what the clock may show after the opening
  MaxEvents     \* bound on the quizzes, the reveals and the awards of the others

Indices == 0 .. MaxOptions      \* what a request may name: one beyond the last

ASSUME QuizAssumption ==
  /\ MaxOptions \in Nat \ {0} /\ Times \subseteq Nat /\ MaxEvents \in Nat
  /\ Restored \subseteq Nat /\ Bonus \in Nat

VARIABLES
  options,   \* number of options of the quiz; 0 when there is no quiz
  multi,     \* several options may be picked ...
  limit,     \* ... at most so many (correct_count, or all of them)
  active,    \* quiz_active
  picked,    \* votes: the option_indices of each participant, {} = no vote
  votedAt,   \* votes: voted_at, in ticks since quiz_opened_at
  timer,     \* is an end timer set (quiz_timer_started_at is not None)?
  awarded,   \* awarded_points, 0 = no entry
  score,     \* Scores.scores
  base,      \* Scores.base_scores
  extra,     \* history: points of other activities since the quiz opened
  wiped,     \* history: the scores were reset since the quiz opened
  now,       \* ticks since quiz_opened_at
  budget     \* what is left of MaxEvents

quizVars  == <<options, multi, limit, active, picked, votedAt, timer>>
scoreVars == <<score, base, extra, wiped>>
vars == <<quizVars, awarded, scoreVars, now, budget>>

HasQuiz == options > 0
Zero == [p \in Pids |-> 0]
NoVotes == [p \in Pids |-> {}]

----------------------------------------------------------------------------
(* The points of a vote                                                    *)

\* round() of n/d for n >= 0 and d > 0.
RoundDiv(n, d) ==
  LET q == n \div d
      r == n % d
  IN IF 2 * r < d THEN q ELSE IF 2 * r > d THEN q + 1 ELSE q + (q % 2)

Partial(c) == multi /\ c # {}                      \* proportional scoring
Denominator(c) == IF Partial(c) THEN Cardinality(c) ELSE 1

\* Merit(p, c) / Denominator(c) is the ratio of points p's vote deserves.
Merit(p, c) ==
  LET right == picked[p] \cap c
      wrong == picked[p] \cap ((0 .. options - 1) \ c)
      balance == Cardinality(right) - Cardinality(wrong)
  IN IF Partial(c) THEN IF balance > 0 THEN balance ELSE 0
     ELSE IF right # {} THEN 1 ELSE 0

CorrectVoters(c) == {p \in Pids : Merit(p, c) > 0}

MinTime(c) == LET times == {votedAt[p] : p \in CorrectVoters(c)}
              IN CHOOSE m \in times : \A t \in times : m <= t

\* Rejected variant of Speed: the decay is not clamped at 1.
SpeedUnclamped(e, m) ==
  IF m = 0 THEN 1000 ELSE RoundDiv(2000 * m - 500 * (e - m), 2 * m)

\* 1000 for the fastest correct voter, down to 500 at three times its delay.
Speed(e, m) ==
  IF m = 0 THEN 1000
  ELSE LET late == IF e - m < 2 * m THEN e - m ELSE 2 * m
       IN RoundDiv(2000 * m - 500 * late, 2 * m)

Points(p, c) ==
  IF Merit(p, c) = 0 THEN 0
  ELSE RoundDiv(Speed(votedAt[p], MinTime(c)) * Merit(p, c), Denominator(c))

----------------------------------------------------------------------------
(* Host: create, end, reveal, timer, delete                                *)

\* Rejected variant of CreateQuiz: the votes of the previous quiz stay.
CreateQuizKeepsVotes(n, isMulti, count) ==
  /\ budget > 0 /\ budget' = budget - 1
  /\ options' = n /\ multi' = isMulti /\ limit' = IF count = 0 THEN n ELSE count
  /\ active' = TRUE /\ now' = 0 /\ timer' = FALSE
  /\ awarded' = Zero /\ base' = score /\ extra' = Zero /\ wiped' = FALSE
  /\ UNCHANGED <<picked, votedAt, score>>

\* POST quiz/manual/submit: create_quiz and open_quiz, with snapshot_base.
CreateQuiz(n, isMulti, count) ==
  /\ budget > 0 /\ budget' = budget - 1
  /\ options' = n /\ multi' = isMulti /\ limit' = IF count = 0 THEN n ELSE count
  /\ active' = TRUE /\ now' = 0 /\ timer' = FALSE
  /\ picked' = NoVotes /\ votedAt' = Zero
  /\ awarded' = Zero /\ base' = score /\ extra' = Zero /\ wiped' = FALSE
  /\ UNCHANGED score

\* POST quiz/end.
EndQuiz ==
  /\ HasQuiz /\ active' = FALSE /\ timer' = FALSE
  /\ UNCHANGED <<options, multi, limit, picked, votedAt,
                 awarded, scoreVars, now, budget>>

\* Rejected variant of RevealCorrect: the awards of the last reveal are kept.
RevealCorrectKeepsAwards(c) ==
  /\ HasQuiz /\ budget > 0 /\ budget' = budget - 1
  /\ awarded' = [p \in Pids |-> Points(p, c)]
  /\ score' = [p \in Pids |-> score[p] + Points(p, c)]
  /\ UNCHANGED <<options, multi, limit, active, picked, votedAt, timer,
                 base, extra, wiped, now>>

\* PUT quiz/correct, as often as the host likes: the awards of the last reveal are
\* taken back first.
RevealCorrect(c) ==
  /\ HasQuiz /\ budget > 0 /\ budget' = budget - 1
  /\ awarded' = [p \in Pids |-> Points(p, c)]
  /\ score' = [p \in Pids |-> score[p] - awarded[p] + Points(p, c)]
  /\ UNCHANGED <<options, multi, limit, active, picked, votedAt, timer,
                 base, extra, wiped, now>>

\* POST quiz/end/timer.
StartTimer ==
  /\ HasQuiz /\ timer' = TRUE
  /\ UNCHANGED <<options, multi, limit, active, picked, votedAt,
                 awarded, scoreVars, now, budget>>

ClearQuiz ==
  /\ options' = 0 /\ multi' = FALSE /\ limit' = 0 /\ active' = FALSE
  /\ picked' = NoVotes /\ votedAt' = Zero /\ timer' = FALSE
  /\ awarded' = Zero

\* DELETE quiz.
DeleteQuiz == ClearQuiz /\ UNCHANGED <<scoreVars, now, budget>>

----------------------------------------------------------------------------
(* Participants                                                            *)

Accepted(s) ==
  /\ s # {} /\ s \subseteq 0 .. options - 1
  /\ IF multi THEN Cardinality(s) <= limit ELSE Cardinality(s) = 1

\* Rejected variant of CastVote: the indices are not checked.
CastVoteUnchecked(p, s) ==
  /\ active /\ s # {}
  /\ picked' = [picked EXCEPT ![p] = s]
  /\ votedAt' = [votedAt EXCEPT ![p] = now]
  /\ UNCHANGED <<options, multi, limit, active, timer,
                 awarded, scoreVars, now, budget>>

\* POST quiz/vote; a later vote replaces the earlier one, and its time.
CastVote(p, s) ==
  /\ active /\ Accepted(s)
  /\ picked' = [picked EXCEPT ![p] = s]
  /\ votedAt' = [votedAt EXCEPT ![p] = now]
  /\ UNCHANGED <<options, multi, limit, active, timer,
                 awarded, scoreVars, now, budget>>

\* Scores.add_score from Q&A, the word cloud, the code review or the debate.
AddScore(p) ==
  /\ budget > 0 /\ budget' = budget - 1
  /\ score' = [score EXCEPT ![p] = @ + Bonus]
  /\ extra' = [extra EXCEPT ![p] = @ + Bonus]
  /\ UNCHANGED <<quizVars, awarded, base, wiped, now>>

----------------------------------------------------------------------------
(* What else touches the points                                            *)

\* DELETE scores: the quiz keeps its record of what it awarded.
ResetScores ==
  /\ score' = Zero /\ base' = Zero /\ extra' = Zero /\ wiped' = TRUE
  /\ UNCHANGED <<quizVars, awarded, now, budget>>

\* purge_participant, as far as scores and quiz go.
PurgeParticipant(p) ==
  /\ score' = [score EXCEPT ![p] = 0] /\ base' = [base EXCEPT ![p] = 0]
  /\ extra' = [extra EXCEPT ![p] = 0]
  /\ picked' = [picked EXCEPT ![p] = {}] /\ votedAt' = [votedAt EXCEPT ![p] = 0]
  /\ awarded' = [awarded EXCEPT ![p] = 0]
  /\ UNCHANGED <<options, multi, limit, active, timer, wiped, now, budget>>

\* The main loop enters a session: quiz and scores are cleared, then the scores
\* of the snapshot come back, if the session folder had one.
EnterSession(saved) ==
  /\ ClearQuiz
  /\ score' = saved /\ base' = Zero /\ extra' = Zero /\ wiped' = FALSE
  /\ UNCHANGED <<now, budget>>

Tick(t) == now < t /\ now' = t /\ UNCHANGED <<quizVars, awarded, scoreVars, budget>>

----------------------------------------------------------------------------
Init ==
  /\ options = 0 /\ multi = FALSE /\ limit = 0 /\ active = FALSE
  /\ picked = NoVotes /\ votedAt = Zero /\ timer = FALSE
  /\ awarded = Zero /\ score \in [Pids -> Restored \cup {0}] /\ base = Zero
  /\ extra = Zero /\ wiped = FALSE
  /\ now = 0 /\ budget = MaxEvents

Next ==
  \/ \E n \in 1 .. MaxOptions, isMulti \in BOOLEAN, count \in 0 .. MaxOptions :
        CreateQuiz(n, isMulti, count)
  \/ EndQuiz \/ StartTimer \/ DeleteQuiz \/ ResetScores
  \/ \E c \in SUBSET Indices : RevealCorrect(c)
  \/ \E p \in Pids, s \in SUBSET Indices : CastVote(p, s)
  \/ \E p \in Pids : AddScore(p) \/ PurgeParticipant(p)
  \/ \E saved \in [Pids -> Restored \cup {0}] : EnterSession(saved)
  \/ \E t \in Times : Tick(t)

Spec == Init /\ [][Next]_vars

----------------------------------------------------------------------------
(* Properties                                                              *)

FlagsTypeOK == multi \in BOOLEAN /\ active \in BOOLEAN /\ timer \in BOOLEAN /\ wiped \in BOOLEAN

RulesTypeOK == options \in 0 .. MaxOptions /\ limit \in Nat /\ now \in Nat

BallotsTypeOK ==
  picked \in [Pids -> SUBSET (0 .. MaxOptions - 1)] /\ votedAt \in [Pids -> Nat]

ScoreTypeOK ==
  /\ awarded \in [Pids -> Int] /\ score \in [Pids -> Int] /\ base \in [Pids -> Int]
  /\ extra \in [Pids -> Nat]

BudgetTypeOK == budget \in 0 .. MaxEvents

TypeOK == FlagsTypeOK /\ RulesTypeOK /\ BallotsTypeOK /\ ScoreTypeOK /\ BudgetTypeOK

\* Every ballot in the box could have been cast on the quiz that is there now: no
\* vote of an earlier quiz, with other options or another limit, ever counts.
BallotsFit == \A p \in Pids : picked[p] # {} => HasQuiz /\ Accepted(picked[p])

\* A score is always what it was when the quiz opened, plus what other activities
\* gave since, plus what the LAST reveal awarded: however often the host changes
\* his mind, whoever votes again, is purged or earns points in between.
ScoreExplained ==
  HasQuiz /\ ~wiped => \A p \in Pids : score[p] = base[p] + extra[p] + awarded[p]

\* Whatever the host reveals next is fair: at least the merit, not later, never
\* fewer points; a fully correct vote earns from 500 to 1000 points, the first of
\* them 1000.
RevealIsFair ==
  HasQuiz => \A c \in SUBSET Indices : \A p \in CorrectVoters(c) :
    /\ \A q \in Pids \ {p} : votedAt[p] <= votedAt[q] /\ Merit(q, c) <= Merit(p, c)
                               => Points(q, c) <= Points(p, c)
    /\ Merit(p, c) = Denominator(c) =>
         IF votedAt[p] = MinTime(c) THEN Points(p, c) = 1000 ELSE Points(p, c) \in 500 .. 1000

\* A reveal takes from prior winners only what they have ("points flow off prior
\* winners before flowing onto new winners"): nobody ends up in debt.
NobodyInDebt == \A p \in Pids : score[p] >= 0

\* Participants are interchangeable, for TLC.
Symmetry == Permutations(Pids)

----------------------------------------------------------------------------
(* Promises the code does not keep; TLC shows how, see the README           *)

\* "Once the quiz is closed, any pending end-timer is meaningless": a quiz that is
\* not running shows no end timer to a host panel that fetches it.
TimerOnlyWhileOpen == timer => active

----------------------------------------------------------------------------
(* Theorems about Quiz, for every set of participants, every number of     *)
(* options and every bound.  First, the arithmetic of the points.          *)

\* A non-empty set of naturals has a least element.
LEMMA LeastNatural ==
  ASSUME NEW T, T \subseteq Nat, T # {}
  PROVE  \E m \in T : \A t \in T : m <= t
<1> DEFINE R == {ss \in Nat \X Nat : ss[1] < ss[2]}
<1>1. IsWellFoundedOn(R, Nat)
  BY NatLessThanWellFounded DEF OpToRel
<1>2. \E m \in T : \A t \in T : ~ (<<t, m>> \in R)
  <2> HIDE DEF R
  <2> QED BY <1>1, WFMin
<1>3. ASSUME NEW m \in T, NEW t \in T, ~ (<<t, m>> \in R) PROVE m <= t
  <2>1. m \in Nat /\ t \in Nat OBVIOUS
  <2>2. ~(t < m) BY <1>3, <2>1
  <2> QED BY <2>1, <2>2
<1> QED BY <1>2, <1>3

\* Rounding a quotient gives a whole number.
LEMMA RoundDivType ==
  ASSUME NEW n \in Int, NEW d \in Nat \ {0}
  PROVE  RoundDiv(n, d) \in Int
<1>1. n \div d \in Int /\ n % d \in Int
  OBVIOUS
<1>2. (n \div d) % 2 \in Int
  BY <1>1
<1> QED BY <1>1, <1>2 DEF RoundDiv

\* The speed factor is a whole number.
LEMMA SpeedType ==
  ASSUME NEW e \in Nat, NEW m \in Nat
  PROVE  Speed(e, m) \in Int
<1>1. CASE m = 0
  BY <1>1 DEF Speed
<1>2. CASE m # 0
  <2> DEFINE late == IF e - m < 2 * m THEN e - m ELSE 2 * m
  <2>1. late \in Int OBVIOUS
  <2>2. 2000 * m - 500 * late \in Int BY <2>1
  <2>3. 2 * m \in Nat \ {0} BY <1>2
  <2>4. Speed(e, m) = RoundDiv(2000 * m - 500 * late, 2 * m) BY <1>2 DEF Speed
  <2> HIDE DEF late
  <2> QED BY <2>2, <2>3, <2>4, RoundDivType
<1> QED BY <1>1, <1>2

\* What a vote deserves is a whole number, and so is the divisor.
LEMMA MeritType ==
  ASSUME TypeOK, NEW p \in Pids, NEW c \in SUBSET Indices
  PROVE  Merit(p, c) \in Nat /\ Denominator(c) \in Nat \ {0}
<1>1. IsFiniteSet(Indices)
  BY QuizAssumption, FS_Interval DEF Indices
<1>2. IsFiniteSet(c)
  BY <1>1, FS_Subset
<1>3. Denominator(c) \in Nat \ {0}
  <2>1. Cardinality(c) \in Nat /\ (Cardinality(c) = 0 <=> c = {})
    BY <1>2, FS_CardinalityType, FS_EmptySet
  <2> QED BY <2>1 DEF Denominator, Partial
<1>4. Merit(p, c) \in Nat
  <2> DEFINE right == picked[p] \cap c
             wrong == picked[p] \cap ((0 .. options - 1) \ c)
  <2>1. picked[p] \subseteq Indices
    BY QuizAssumption DEF TypeOK, RulesTypeOK, BallotsTypeOK, Indices
  <2>2. IsFiniteSet(right) /\ IsFiniteSet(wrong)
    BY <1>1, <2>1, FS_Subset
  <2>3. Cardinality(right) \in Nat /\ Cardinality(wrong) \in Nat
    BY <2>2, FS_CardinalityType
  <2> HIDE DEF right, wrong
  <2>4. Merit(p, c) = IF Partial(c)
                      THEN IF Cardinality(right) - Cardinality(wrong) > 0
                           THEN Cardinality(right) - Cardinality(wrong) ELSE 0
                      ELSE IF right # {} THEN 1 ELSE 0
    BY DEF Merit, right, wrong
  <2> QED BY <2>3, <2>4
<1> QED BY <1>3, <1>4

\* Points are whole numbers: the fastest correct voter exists.
LEMMA PointsType ==
  ASSUME TypeOK, NEW p \in Pids, NEW c \in SUBSET Indices
  PROVE  Points(p, c) \in Int
<1>1. Merit(p, c) \in Nat /\ Denominator(c) \in Nat \ {0}
  BY MeritType
<1>2. CASE Merit(p, c) = 0
  BY <1>2 DEF Points
<1>3. CASE Merit(p, c) # 0
  <2> DEFINE times == {votedAt[q] : q \in CorrectVoters(c)}
  <2>1. p \in CorrectVoters(c)
    BY <1>1, <1>3 DEF CorrectVoters
  <2>2. times \subseteq Nat /\ times # {}
    BY <2>1 DEF CorrectVoters, TypeOK, RulesTypeOK, BallotsTypeOK
  <2>3. \E m \in times : \A t \in times : m <= t
    <3> HIDE DEF times
    <3> QED BY <2>2, LeastNatural
  <2>4. MinTime(c) \in Nat
    BY <2>2, <2>3 DEF MinTime
  <2>5. votedAt[p] \in Nat
    BY DEF TypeOK, RulesTypeOK, BallotsTypeOK
  <2>6. Speed(votedAt[p], MinTime(c)) \in Int
    BY <2>4, <2>5, SpeedType
  <2>7. Speed(votedAt[p], MinTime(c)) * Merit(p, c) \in Int
    BY <2>6, <1>1
  <2> QED BY <2>7, <1>1, <1>3, RoundDivType DEF Points
<1> QED BY <1>2, <1>3

----------------------------------------------------------------------------
(* The invariants                                                          *)

\* The stores of a fresh session.
LEMMA EmptyStores ==
  /\ Zero \in [Pids -> Nat] /\ Zero \in [Pids -> Int]
  /\ NoVotes \in [Pids -> SUBSET (0 .. MaxOptions - 1)]
  /\ \A f \in [Pids -> Restored \cup {0}] : f \in [Pids -> Int]
<1>1. Zero \in [Pids -> Nat] /\ Zero \in [Pids -> Int]
  BY DEF Zero
<1>2. NoVotes \in [Pids -> SUBSET (0 .. MaxOptions - 1)]
  BY DEF NoVotes
<1>3. ASSUME NEW f \in [Pids -> Restored \cup {0}] PROVE f \in [Pids -> Int]
  <2>1. Restored \cup {0} \subseteq Int
    BY QuizAssumption
  <2> QED BY <2>1
<1> QED BY <1>1, <1>2, <1>3

\* Every reachable state is well-typed: the daemon's quiz and score state.
THEOREM TypeCorrect == Spec => []TypeOK
<1>1. Init => TypeOK
  <2> SUFFICES ASSUME Init PROVE TypeOK
    OBVIOUS
  <2>1. RulesTypeOK
    BY QuizAssumption DEF Init, RulesTypeOK
  <2>4. BallotsTypeOK
    BY EmptyStores DEF Init, BallotsTypeOK
  <2>2. ScoreTypeOK
    BY EmptyStores DEF Init, ScoreTypeOK
  <2>3. BudgetTypeOK
    BY QuizAssumption DEF Init, BudgetTypeOK
  <2>5. FlagsTypeOK
    BY DEF Init, FlagsTypeOK
  <2> QED BY <2>1, <2>2, <2>3, <2>4, <2>5 DEF TypeOK
<1>2. TypeOK /\ [Next]_vars => TypeOK'
  <2> SUFFICES ASSUME TypeOK, [Next]_vars PROVE TypeOK'
    OBVIOUS
  <2> USE QuizAssumption DEF TypeOK, FlagsTypeOK, RulesTypeOK, BallotsTypeOK, ScoreTypeOK, BudgetTypeOK
  <2>0. ASSUME ClearQuiz, now' = now PROVE RulesTypeOK' /\ BallotsTypeOK'
    <3>1. RulesTypeOK' BY <2>0 DEF ClearQuiz
    <3>2. BallotsTypeOK' BY <2>0, EmptyStores DEF ClearQuiz
    <3> QED BY <3>1, <3>2
  <2>1. ASSUME NEW n \in 1 .. MaxOptions, NEW isMulti \in BOOLEAN, NEW count \in 0 .. MaxOptions,
               CreateQuiz(n, isMulti, count)
        PROVE  TypeOK'
    <3>1. RulesTypeOK' BY <2>1 DEF CreateQuiz
    <3>4. BallotsTypeOK' BY <2>1, EmptyStores DEF CreateQuiz
    <3>2. ScoreTypeOK' BY <2>1, EmptyStores DEF CreateQuiz
    <3>3. BudgetTypeOK' BY <2>1 DEF CreateQuiz
    <3>5. FlagsTypeOK' BY <2>1 DEF CreateQuiz
    <3> QED BY <3>1, <3>2, <3>3, <3>4, <3>5 DEF TypeOK
  <2>2. CASE EndQuiz
    BY <2>2 DEF EndQuiz, scoreVars
  <2>3. CASE StartTimer
    BY <2>3 DEF StartTimer, scoreVars
  <2>4. CASE DeleteQuiz
    <3>1. RulesTypeOK' /\ BallotsTypeOK' BY <2>0, <2>4 DEF DeleteQuiz
    <3>2. ScoreTypeOK' BY <2>4, EmptyStores DEF DeleteQuiz, ClearQuiz, scoreVars
    <3>3. BudgetTypeOK' BY <2>4 DEF DeleteQuiz
    <3>4. FlagsTypeOK' BY <2>4 DEF DeleteQuiz, ClearQuiz, scoreVars
    <3> QED BY <3>1, <3>2, <3>3, <3>4 DEF TypeOK
  <2>5. CASE ResetScores
    BY <2>5, EmptyStores DEF ResetScores, quizVars
  <2>6. ASSUME NEW c \in SUBSET Indices, RevealCorrect(c)
        PROVE  TypeOK'
    <3>1. \A p \in Pids : Points(p, c) \in Int
      BY PointsType
    <3> QED BY <2>6, <3>1 DEF RevealCorrect
  <2>7. ASSUME NEW p \in Pids, NEW s \in SUBSET Indices, CastVote(p, s)
        PROVE  TypeOK'
    <3>1. s \subseteq 0 .. MaxOptions - 1
      BY <2>7 DEF CastVote, Accepted
    <3> QED BY <2>7, <3>1 DEF CastVote, scoreVars
  <2>8. ASSUME NEW p \in Pids, AddScore(p)
        PROVE  TypeOK'
    BY <2>8 DEF AddScore, quizVars
  <2>9. ASSUME NEW p \in Pids, PurgeParticipant(p)
        PROVE  TypeOK'
    BY <2>9 DEF PurgeParticipant
  <2>10. ASSUME NEW saved \in [Pids -> Restored \cup {0}], EnterSession(saved)
         PROVE  TypeOK'
    <3>1. RulesTypeOK' /\ BallotsTypeOK' BY <2>0, <2>10 DEF EnterSession
    <3>2. ScoreTypeOK' BY <2>10, EmptyStores DEF EnterSession, ClearQuiz
    <3>3. BudgetTypeOK' BY <2>10 DEF EnterSession
    <3>4. FlagsTypeOK' BY <2>10 DEF EnterSession, ClearQuiz
    <3> QED BY <3>1, <3>2, <3>3, <3>4 DEF TypeOK
  <2>11. ASSUME NEW t \in Times, Tick(t) PROVE TypeOK'
    BY <2>11 DEF Tick, quizVars, scoreVars
  <2>12. CASE UNCHANGED vars
    BY <2>12 DEF vars, quizVars, scoreVars
  <2> QED
    BY <2>1, <2>2, <2>3, <2>4, <2>5, <2>6, <2>7, <2>8, <2>9, <2>10, <2>11, <2>12 DEF Next
<1> QED BY <1>1, <1>2, PTL DEF Spec

\* No ballot of an earlier quiz, and none that breaks the rules of the one that is
\* there, is ever in the box.
THEOREM OnlyValidBallots == Spec => []BallotsFit
<1>1. Init => BallotsFit
  BY DEF Init, BallotsFit, NoVotes
<1>2. TypeOK /\ TypeOK' /\ BallotsFit /\ [Next]_vars => BallotsFit'
  <2> SUFFICES ASSUME TypeOK, BallotsFit, [Next]_vars PROVE BallotsFit'
    OBVIOUS
  <2> USE DEF BallotsFit, Accepted, HasQuiz
  <2>1. ASSUME NEW n \in 1 .. MaxOptions, NEW isMulti \in BOOLEAN, NEW count \in 0 .. MaxOptions,
               CreateQuiz(n, isMulti, count)
        PROVE  BallotsFit'
    BY <2>1 DEF CreateQuiz, NoVotes
  <2>2. CASE DeleteQuiz \/ \E saved \in [Pids -> Restored \cup {0}] : EnterSession(saved)
    BY <2>2 DEF DeleteQuiz, EnterSession, ClearQuiz, NoVotes
  <2>3. ASSUME NEW p \in Pids, NEW s \in SUBSET Indices, CastVote(p, s)
        PROVE  BallotsFit'
    <3>1. PICK i : i \in s /\ i \in 0 .. options - 1
      BY <2>3 DEF CastVote
    <3>2. options > 0
      BY <3>1 DEF TypeOK, RulesTypeOK, BallotsTypeOK
    <3> QED BY <2>3, <3>2 DEF CastVote, TypeOK, RulesTypeOK, BallotsTypeOK
  <2>4. ASSUME NEW p \in Pids, PurgeParticipant(p)
        PROVE  BallotsFit'
    BY <2>4 DEF PurgeParticipant, TypeOK, RulesTypeOK, BallotsTypeOK
  <2>5. CASE UNCHANGED <<options, multi, limit, picked>>
    BY <2>5
  <2>6. CASE EndQuiz \/ StartTimer \/ ResetScores \/ (\E t \in Times : Tick(t))
             \/ (\E c \in SUBSET Indices : RevealCorrect(c)) \/ (\E p \in Pids : AddScore(p))
    BY <2>5, <2>6 DEF EndQuiz, StartTimer, ResetScores, Tick, RevealCorrect, AddScore, quizVars
  <2>7. CASE UNCHANGED vars
    BY <2>5, <2>7 DEF vars, quizVars
  <2> QED BY <2>1, <2>2, <2>3, <2>4, <2>6, <2>7 DEF Next
<1> QED BY <1>1, <1>2, TypeCorrect, PTL DEF Spec

\* The ledger: what a quiz awarded can be told from every other point, through any
\* sequence of reveals, votes, purges and points of other activities, so a reveal
\* replaces exactly the awards of the one before.
THEOREM LedgerHolds == Spec => []ScoreExplained
<1>1. Init => ScoreExplained
  BY DEF Init, ScoreExplained, HasQuiz
<1>2. TypeOK /\ ScoreExplained /\ [Next]_vars => ScoreExplained'
  <2> SUFFICES ASSUME TypeOK, ScoreExplained, [Next]_vars, HasQuiz', ~wiped', NEW p \in Pids
               PROVE  (score[p] = base[p] + extra[p] + awarded[p])'
    BY DEF ScoreExplained
  <2> DEFINE Balanced == score[p] = base[p] + extra[p] + awarded[p]
  <2> USE DEF TypeOK, RulesTypeOK, BallotsTypeOK, ScoreTypeOK
  <2>1. ASSUME NEW n \in 1 .. MaxOptions, NEW isMulti \in BOOLEAN, NEW count \in 0 .. MaxOptions,
               CreateQuiz(n, isMulti, count)
        PROVE  Balanced'
    BY <2>1 DEF CreateQuiz, Zero
  <2>2. ASSUME UNCHANGED <<options, wiped>> PROVE Balanced
    BY <2>2 DEF ScoreExplained, HasQuiz
  <2>3. ASSUME NEW c \in SUBSET Indices, RevealCorrect(c)
        PROVE  Balanced'
    <3>1. Points(p, c) \in Int
      BY PointsType
    <3>2. Balanced
      BY <2>2, <2>3 DEF RevealCorrect
    <3> QED BY <2>3, <3>1, <3>2 DEF RevealCorrect
  <2>4. ASSUME NEW q \in Pids, AddScore(q)
        PROVE  Balanced'
    <3>1. Balanced
      BY <2>2, <2>4 DEF AddScore, quizVars
    <3> QED BY <2>4, <3>1, QuizAssumption DEF AddScore
  <2>5. ASSUME NEW q \in Pids, PurgeParticipant(q)
        PROVE  Balanced'
    <3>1. Balanced
      BY <2>2, <2>5 DEF PurgeParticipant
    <3> QED BY <2>5, <3>1 DEF PurgeParticipant
  <2>6. CASE DeleteQuiz \/ \E saved \in [Pids -> Restored \cup {0}] : EnterSession(saved)
    BY <2>6 DEF DeleteQuiz, EnterSession, ClearQuiz, HasQuiz
  <2>7. CASE ResetScores
    BY <2>7 DEF ResetScores
  <2>8. ASSUME NEW q \in Pids, NEW s \in SUBSET Indices, CastVote(q, s)
        PROVE  Balanced'
    BY <2>2, <2>8 DEF CastVote, scoreVars
  <2>9. CASE EndQuiz \/ StartTimer \/ (\E t \in Times : Tick(t)) \/ UNCHANGED vars
    BY <2>2, <2>9 DEF EndQuiz, StartTimer, Tick, vars, quizVars, scoreVars
  <2> QED BY <2>1, <2>3, <2>4, <2>5, <2>6, <2>7, <2>8, <2>9 DEF Next
<1> QED BY <1>1, <1>2, TypeCorrect, PTL DEF Spec

----------------------------------------------------------------------------
(* The next reveal is fair                                                  *)

\* The quotient and the remainder, by their defining equation.
LEMMA DivMod ==
  ASSUME NEW n \in Nat, NEW d \in Nat \ {0}
  PROVE  /\ n \div d \in Nat /\ n % d \in 0 .. d - 1
         /\ n = d * (n \div d) + (n % d)
<1>1. n % d \in 0 .. d - 1
  OBVIOUS
<1>2. n = d * (n \div d) + (n % d)
  OBVIOUS
<1>3. n \div d \in Int
  OBVIOUS
<1>4. n \div d >= 0
  <2>1. SUFFICES ASSUME n \div d < 0 PROVE FALSE
    BY <1>3
  <2>2. d * (n \div d) <= -d
    <3>1. - (n \div d) - 1 \in Nat
      BY <1>3, <2>1
    <3>2. d * (- (n \div d) - 1) >= 0
      BY <3>1
    <3> QED BY <1>3, <3>2
  <2> QED BY <1>1, <1>2, <1>3, <2>2
<1> QED BY <1>1, <1>2, <1>3, <1>4

\* The equation determines the quotient.
LEMMA QuotientGrows ==
  ASSUME NEW d \in Nat \ {0}, NEW q1 \in Nat, NEW q2 \in Nat,
         NEW r1 \in 0 .. d - 1, NEW r2 \in 0 .. d - 1, d * q1 + r1 <= d * q2 + r2
  PROVE  q1 < q2 \/ (q1 = q2 /\ r1 <= r2)
<1>1. CASE q1 > q2
  <2>1. q1 - q2 - 1 \in Nat
    BY <1>1
  <2>2. d * (q1 - q2 - 1) >= 0
    BY <2>1
  <2>3. d * (q1 - q2 - 1) = d * q1 - d * q2 - d
    OBVIOUS
  <2> QED BY <2>2, <2>3
<1> QED BY <1>1

\* Rounding keeps the order.
LEMMA RoundDivGrows ==
  ASSUME NEW n1 \in Nat, NEW n2 \in Nat, NEW d \in Nat \ {0}, n1 <= n2
  PROVE  RoundDiv(n1, d) <= RoundDiv(n2, d)
<1> DEFINE q1 == n1 \div d
           q2 == n2 \div d
           r1 == n1 % d
           r2 == n2 % d
<1>1. q1 \in Nat /\ q2 \in Nat /\ r1 \in 0 .. d - 1 /\ r2 \in 0 .. d - 1
  BY DivMod
<1>2. d * q1 + r1 <= d * q2 + r2
  BY DivMod
<1>3. /\ RoundDiv(n1, d) = IF 2 * r1 < d THEN q1 ELSE IF 2 * r1 > d THEN q1 + 1 ELSE q1 + (q1 % 2)
      /\ RoundDiv(n2, d) = IF 2 * r2 < d THEN q2 ELSE IF 2 * r2 > d THEN q2 + 1 ELSE q2 + (q2 % 2)
  BY DEF RoundDiv
<1>4. q1 % 2 \in 0 .. 1 /\ q2 % 2 \in 0 .. 1
  BY <1>1
<1> HIDE DEF q1, q2, r1, r2
<1>5. q1 < q2 \/ (q1 = q2 /\ r1 <= r2)
  BY <1>1, <1>2, QuotientGrows
<1> QED BY <1>1, <1>3, <1>4, <1>5

\* A whole number is rounded to itself.
LEMMA RoundDivWhole ==
  ASSUME NEW k \in Nat, NEW d \in Nat \ {0}
  PROVE  RoundDiv(k * d, d) = k
<1> DEFINE q == (k * d) \div d
           r == (k * d) % d
<1>1. k * d \in Nat
  OBVIOUS
<1>2. q \in Nat /\ r \in 0 .. d - 1 /\ k * d = d * q + r
  BY <1>1, DivMod
<1>3. RoundDiv(k * d, d) = IF 2 * r < d THEN q ELSE IF 2 * r > d THEN q + 1 ELSE q + (q % 2)
  BY DEF RoundDiv
<1> HIDE DEF q, r
<1>4. d * q + r = d * k + 0 /\ 0 \in 0 .. d - 1
  BY <1>2
<1>5. q < k \/ (q = k /\ r <= 0)
  BY <1>2, <1>4, QuotientGrows
<1>6. k < q \/ (k = q /\ 0 <= r)
  BY <1>2, <1>4, QuotientGrows
<1>7. q = k /\ r = 0
  BY <1>2, <1>5, <1>6
<1> QED BY <1>3, <1>7

\* The speed of a vote that is not earlier than the first correct one.
LEMMA SpeedRange ==
  ASSUME NEW m \in Nat, NEW e \in Nat, m <= e
  PROVE  /\ 500 <= Speed(e, m) /\ Speed(e, m) <= 1000
         /\ e = m => Speed(e, m) = 1000
<1>1. CASE m = 0
  BY <1>1 DEF Speed
<1>2. CASE m # 0
  <2> DEFINE late == IF e - m < 2 * m THEN e - m ELSE 2 * m
             n == 2000 * m - 500 * late
             d == 2 * m
  <2>1. late \in 0 .. 2 * m /\ d \in Nat \ {0}
    BY <1>2
  <2>2. n \in Nat /\ 500 * d <= n /\ n <= 1000 * d /\ 500 * d \in Nat /\ 1000 * d \in Nat
    BY <2>1
  <2>3. Speed(e, m) = RoundDiv(n, d) /\ Speed(e, m) \in Int
    BY <1>2, SpeedType DEF Speed
  <2>4. e = m => n = 1000 * d
    BY <1>2
  <2> HIDE DEF late, n, d
  <2>5. RoundDiv(500 * d, d) = 500 /\ RoundDiv(1000 * d, d) = 1000
    BY <2>1, RoundDivWhole
  <2>6. RoundDiv(500 * d, d) <= RoundDiv(n, d) /\ RoundDiv(n, d) <= RoundDiv(1000 * d, d)
    BY <2>1, <2>2, RoundDivGrows
  <2> QED BY <2>3, <2>4, <2>5, <2>6
<1> QED BY <1>1, <1>2

\* A later vote is not faster.
LEMMA SpeedFalls ==
  ASSUME NEW m \in Nat, NEW e1 \in Nat, NEW e2 \in Nat, m <= e1, e1 <= e2
  PROVE  Speed(e2, m) <= Speed(e1, m)
<1>1. CASE m = 0
  BY <1>1 DEF Speed
<1>2. CASE m # 0
  <2> DEFINE late(e) == IF e - m < 2 * m THEN e - m ELSE 2 * m
             n(e) == 2000 * m - 500 * late(e)
  <2>1. 2 * m \in Nat \ {0} /\ n(e1) \in Nat /\ n(e2) \in Nat /\ n(e2) <= n(e1)
    BY <1>2
  <2>2. Speed(e1, m) = RoundDiv(n(e1), 2 * m) /\ Speed(e2, m) = RoundDiv(n(e2), 2 * m)
    BY <1>2 DEF Speed
  <2> HIDE DEF n, late
  <2> QED BY <2>1, <2>2, RoundDivGrows
<1> QED BY <1>1, <1>2

\* The first correct vote is the first of them.
LEMMA FirstIsFirst ==
  ASSUME TypeOK, NEW c \in SUBSET Indices, NEW p \in CorrectVoters(c)
  PROVE  MinTime(c) \in Nat /\ MinTime(c) <= votedAt[p]
<1> DEFINE times == {votedAt[q] : q \in CorrectVoters(c)}
<1>1. times \subseteq Nat /\ votedAt[p] \in times
  BY DEF CorrectVoters, TypeOK, RulesTypeOK, BallotsTypeOK
<1>2. \E m \in times : \A t \in times : m <= t
  <2> HIDE DEF times
  <2> QED BY <1>1, LeastNatural
<1>3. MinTime(c) \in times /\ \A t \in times : MinTime(c) <= t
  BY <1>2 DEF MinTime
<1> QED BY <1>1, <1>3

\* Nobody deserves more than all of it.
LEMMA MeritBounded ==
  ASSUME TypeOK, NEW p \in Pids, NEW c \in SUBSET Indices
  PROVE  Merit(p, c) <= Denominator(c)
<1> DEFINE right == picked[p] \cap c
           wrong == picked[p] \cap ((0 .. options - 1) \ c)
<1>1. IsFiniteSet(Indices)
  BY QuizAssumption, FS_Interval DEF Indices
<1>2. IsFiniteSet(c) /\ IsFiniteSet(wrong)
  <2>1. wrong \subseteq Indices
    BY QuizAssumption DEF Indices, TypeOK, BallotsTypeOK
  <2> HIDE DEF wrong
  <2> QED BY <1>1, <2>1, FS_Subset
<1>3. Cardinality(right) <= Cardinality(c) /\ Cardinality(right) \in Nat
  <2>1. right \subseteq c
    OBVIOUS
  <2> HIDE DEF right
  <2> QED BY <1>2, <2>1, FS_Subset, FS_CardinalityType
<1>4. Cardinality(wrong) \in Nat /\ Cardinality(c) \in Nat
  <2> HIDE DEF wrong
  <2> QED BY <1>2, FS_CardinalityType
<1>5. Merit(p, c) = LET balance == Cardinality(right) - Cardinality(wrong)
                    IN IF Partial(c) THEN IF balance > 0 THEN balance ELSE 0
                       ELSE IF right # {} THEN 1 ELSE 0
  BY DEF Merit
<1> HIDE DEF right, wrong
<1> QED BY <1>3, <1>4, <1>5 DEF Denominator

\* Products of naturals grow in both factors.
LEMMA ProductGrows ==
  ASSUME NEW a1 \in Nat, NEW a2 \in Nat, NEW b1 \in Nat, NEW b2 \in Nat, a1 <= a2, b1 <= b2
  PROVE  a1 * b1 <= a2 * b2 /\ a1 * b1 \in Nat /\ a2 * b2 \in Nat
<1>1. (a2 - a1) * b1 >= 0 /\ a2 * (b2 - b1) >= 0
  <2>1. a2 - a1 \in Nat /\ b2 - b1 \in Nat
    OBVIOUS
  <2> QED BY <2>1
<1>2. (a2 - a1) * b1 = a2 * b1 - a1 * b1 /\ a2 * (b2 - b1) = a2 * b2 - a2 * b1
  OBVIOUS
<1>3. a1 * b1 \in Nat /\ a2 * b1 \in Nat /\ a2 * b2 \in Nat
  OBVIOUS
<1> QED BY <1>1, <1>2, <1>3

\* What a correct voter earns: the first and second clause are about full merit.
LEMMA CorrectEarns ==
  ASSUME TypeOK, NEW c \in SUBSET Indices, NEW p \in CorrectVoters(c)
  PROVE  /\ Points(p, c) \in Nat
         /\ Merit(p, c) = Denominator(c) => Points(p, c) \in 500 .. 1000
         /\ Merit(p, c) = Denominator(c) /\ votedAt[p] = MinTime(c) => Points(p, c) = 1000
<1> DEFINE s == Speed(votedAt[p], MinTime(c))
           w == Merit(p, c)
           d == Denominator(c)
<1>1. p \in Pids /\ w \in Nat \ {0} /\ d \in Nat \ {0}
  BY MeritType DEF CorrectVoters
<1>2. s \in 500 .. 1000 /\ (votedAt[p] = MinTime(c) => s = 1000)
  <2>1. votedAt[p] \in Nat
    BY <1>1 DEF TypeOK, BallotsTypeOK
  <2>2. MinTime(c) \in Nat /\ MinTime(c) <= votedAt[p]
    BY FirstIsFirst
  <2> DEFINE e == votedAt[p]
             m == MinTime(c)
  <2> HIDE DEF e, m
  <2>3. e \in Nat /\ m \in Nat /\ m <= e
    BY <2>1, <2>2 DEF e, m
  <2>4. Speed(e, m) \in Int
    BY <2>3, SpeedType
  <2>5. 500 <= Speed(e, m) /\ Speed(e, m) <= 1000
    BY <2>3, SpeedRange
  <2>6. e = m => Speed(e, m) = 1000
    BY <2>3, SpeedRange
  <2> QED BY <2>4, <2>5, <2>6 DEF e, m, s
<1>3. Points(p, c) = RoundDiv(s * w, d)
  BY <1>1 DEF Points
<1> HIDE DEF s, w, d
<1>4. 0 * d = 0 /\ s * w \in Nat /\ 0 <= s * w
  BY <1>1, <1>2
<1>5. RoundDiv(0 * d, d) = 0
  BY <1>1, RoundDivWhole
<1>6. RoundDiv(0, d) <= RoundDiv(s * w, d)
  BY <1>1, <1>4, RoundDivGrows
<1>7. Points(p, c) \in Nat
  BY <1>1, <1>3, <1>4, <1>5, <1>6, RoundDivType
<1>8. w = d => Points(p, c) = s
  BY <1>1, <1>2, <1>3, RoundDivWhole
<1> QED BY <1>2, <1>7, <1>8 DEF w, d

\* At least the merit and not later: never fewer points.
LEMMA BetterEarnsMore ==
  ASSUME TypeOK, NEW c \in SUBSET Indices, NEW p \in CorrectVoters(c), NEW q \in Pids,
         Merit(q, c) <= Merit(p, c), votedAt[p] <= votedAt[q]
  PROVE  Points(q, c) <= Points(p, c)
<1>1. CASE Merit(q, c) = 0
  BY <1>1, CorrectEarns DEF Points
<1>2. CASE Merit(q, c) # 0
  <2> DEFINE s(v) == Speed(votedAt[v], MinTime(c))
             d == Denominator(c)
  <2>1. p \in Pids /\ Merit(p, c) \in Nat \ {0} /\ Merit(q, c) \in Nat \ {0} /\ d \in Nat \ {0}
    BY <1>2, MeritType DEF CorrectVoters
  <2>2. q \in CorrectVoters(c)
    BY <2>1 DEF CorrectVoters
  <2>3. votedAt[p] \in Nat /\ votedAt[q] \in Nat
    BY <2>1 DEF TypeOK, BallotsTypeOK
  <2>4. MinTime(c) \in Nat /\ MinTime(c) <= votedAt[p] /\ MinTime(c) <= votedAt[q]
    BY <2>2, FirstIsFirst
  <2>5. s(p) \in Nat /\ s(q) \in Nat
    <3>1. Speed(votedAt[p], MinTime(c)) \in Int /\ 500 <= Speed(votedAt[p], MinTime(c))
      BY <2>3, <2>4, SpeedType, SpeedRange
    <3>2. Speed(votedAt[q], MinTime(c)) \in Int /\ 500 <= Speed(votedAt[q], MinTime(c))
      BY <2>3, <2>4, SpeedType, SpeedRange
    <3> QED BY <3>1, <3>2
  <2>6. s(q) <= s(p)
    BY <2>3, <2>4, SpeedFalls
  <2>7. /\ Points(q, c) = RoundDiv(s(q) * Merit(q, c), d)
        /\ Points(p, c) = RoundDiv(s(p) * Merit(p, c), d)
    BY <2>1 DEF Points
  <2> HIDE DEF s, d
  <2>8. /\ s(q) * Merit(q, c) \in Nat /\ s(p) * Merit(p, c) \in Nat
        /\ s(q) * Merit(q, c) <= s(p) * Merit(p, c)
    BY <2>1, <2>5, <2>6, ProductGrows
  <2> QED BY <2>1, <2>7, <2>8, RoundDivGrows
<1> QED BY <1>1, <1>2

\* Whatever the host reveals next is fair, for every number of participants and options
\* and every time of a vote: not an inductive fact but one of every state of the right type.
THEOREM RevealsAreFair == Spec => []RevealIsFair
<1>1. TypeOK => RevealIsFair
  BY CorrectEarns, BetterEarnsMore DEF RevealIsFair
<1> QED BY <1>1, TypeCorrect, PTL
=============================================================================
