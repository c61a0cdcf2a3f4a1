---------------------------- MODULE MCActivities ----------------------------
(***************************************************************************)
(* The activities, explored one by one.  They share no state but what each  *)
(* of their modules takes in itself: the current activity, which any of     *)
(* them may change at any time (Activity.SetActivity), and the points,      *)
(* which are Quiz's.  So the product of all of them has no behaviour for a  *)
(* property of one that this module does not have, and the initial state    *)
(* says which one moves.  A component is taken in twice where two questions *)
(* need two instances: the debate with two people and two arguments, and    *)
(* with four people and none; the survey's answers and its ranking.         *)
(***************************************************************************)
EXTENDS Integers, FiniteSets, Sequences, TLC

CONSTANTS
  Few, Many,                \* participants: two of them, and four
  Someone,                  \* an author who is none of them: the host, the model
  Texts, Presets, Values,   \* of the survey
  Words,                    \* of the word cloud
  Panels, Prepared,         \* of the quiz queue
  MaxOptions, MaxNamed, MaxStarts,  \* the limits and bounds of the components, under their names
  MaxArgs, Width, MaxOwn, MaxItems, MaxId, MaxQuestions, MaxCount, MaxLines, MaxReviews,
  MaxQueue

VARIABLES
  focus,
  activity, announced,
  poll, started, ended, votes, cache, shown, lagging, opening,          \* Poll
  names, phase, sides, auto, champions, args, made, cleanups,           \* Debate
  open, ticked, hearts, typed, items, fires, sent,                      \* AiShare
  questions, asked, board,                                              \* QuestionBoard
  count, order,                                                         \* WordCloud
  size, step, selected, confirmed, pastes, reviews, paid,               \* CodeReview
  queue, panel, removing                                                \* QuizQueue

pollVars == <<poll, started, ended, votes, cache, shown, lagging, opening>>
debateVars == <<names, phase, sides, auto, champions, args, made, cleanups>>
surveyVars == <<open, ticked, hearts, typed, items, fires, sent>>
boardVars == <<questions, asked, board>>
cloudVars == <<count, order>>
reviewVars == <<size, step, selected, confirmed, pastes, reviews, paid>>
queueVars == <<queue, panel, removing>>
shared == <<activity, announced>>
vars == <<focus, shared, pollVars, debateVars, surveyVars, boardVars, cloudVars,
          reviewVars, queueVars>>

Poll == INSTANCE Poll WITH Pids <- Few
Debate == INSTANCE Debate WITH Pids <- Few, AI <- Someone
Teams == INSTANCE Debate WITH Pids <- Many, AI <- Someone, MaxArgs <- 0
Survey == INSTANCE AiShare WITH Pids <- Few, Host <- Someone
Board == INSTANCE QuestionBoard WITH Pids <- Few, Host <- Someone
Cloud == INSTANCE WordCloud
Review == INSTANCE CodeReview WITH Pids <- Few, phase <- step, asked <- reviews
Queue == INSTANCE QuizQueue WITH Questions <- Prepared

ASSUME ActivitiesAssumption ==
  /\ Poll!PollAssumption /\ Debate!DebateAssumption /\ Teams!DebateAssumption
  /\ Survey!AiShareAssumption /\ Board!BoardAssumption /\ Cloud!CloudAssumption
  /\ Review!ReviewAssumption /\ Queue!QueueAssumption

Init ==
  /\ focus \in {"poll", "debate", "teams", "answers", "ranking", "board", "cloud",
                "review", "queue"}
  /\ Poll!Init /\ (IF focus = "teams" THEN Teams!Init ELSE Debate!Init)
  /\ Board!Init /\ Cloud!Init /\ Review!Init /\ Queue!Init
  /\ IF focus = "answers" THEN Survey!Init
     ELSE Survey!Init /\ ~open /\ ticked = Survey!None

Next ==
  /\ UNCHANGED focus
  /\ \/ /\ focus = "poll" /\ Poll!Next
        /\ UNCHANGED <<debateVars, surveyVars, boardVars, cloudVars, reviewVars, queueVars>>
     \/ /\ \/ focus = "debate" /\ Debate!Next
           \/ focus = "teams" /\ Teams!Next
        /\ UNCHANGED <<pollVars, surveyVars, boardVars, cloudVars, reviewVars, queueVars>>
     \/ /\ focus \in {"answers", "ranking"}
        /\ \/ Survey!Rounds
           \/ focus = "answers" /\ Survey!Answering
           \/ focus = "ranking" /\ Survey!Ranking
        /\ UNCHANGED <<pollVars, debateVars, boardVars, cloudVars, reviewVars, queueVars>>
     \/ /\ focus = "board" /\ Board!Next
        /\ UNCHANGED <<shared, pollVars, debateVars, surveyVars, cloudVars, reviewVars,
                       queueVars>>
     \/ /\ focus = "cloud" /\ Cloud!Next
        /\ UNCHANGED <<pollVars, debateVars, surveyVars, boardVars, reviewVars, queueVars>>
     \/ /\ focus = "review" /\ Review!Next
        /\ UNCHANGED <<pollVars, debateVars, surveyVars, boardVars, cloudVars, queueVars>>
     \/ /\ focus = "queue" /\ Queue!Next
        /\ UNCHANGED <<shared, pollVars, debateVars, surveyVars, boardVars, cloudVars,
                       reviewVars>>

Spec == Init /\ [][Next]_vars

Symmetry == Permutations(Few)

----------------------------------------------------------------------------
(* Properties: those of the components, under their names                   *)

\* The variables of the component that moves have their types.
TypeOK ==
  /\ Poll!TypeOK /\ Survey!TypeOK /\ Board!TypeOK /\ Cloud!TypeOK /\ Review!TypeOK
  /\ Queue!TypeOK
  /\ IF focus = "teams" THEN Teams!TypeOK ELSE Debate!TypeOK

\* See Poll: every ballot kept is one the poll on show could have taken.
BallotsFit == Poll!BallotsFit

\* See Poll: phones see the tally of a public poll and nothing of a private one.
PhonesSeeTheTally == Poll!PhonesSeeTheTally /\ Poll!CacheIsTally

\* See Poll: results on show stand.
ResultsStand == Poll!ResultsStand

\* See Debate: champions, arguments and assignments agree with the sides.
TeamsAgree == IF focus = "teams" THEN Teams!TeamsAgree ELSE Debate!TeamsAgree

\* See Debate: an automatic assignment evens the teams out.
AutoAssignBalances ==
  [][IF focus = "teams" THEN Teams!AssignmentBalances ELSE Debate!AssignmentBalances]_vars

\* See Debate and QuestionBoard: an upvote that was paid for stays.
PaidVotesStick == Debate!PaidVotesStick /\ Board!PaidVotesStick

\* See AiShare: favourites, typed values, items and votes agree.
AnswersAgree == Survey!AnswersAgree

\* See QuestionBoard and WordCloud: what is shown in order is complete and in order.
BoardIsFair == Board!BoardIsFair /\ Cloud!CloudAgrees

\* See CodeReview: a confirmed line is paid once, and lines are lines of the snippet.
ReviewPaysOnce == Review!ReviewPaysOnce

----------------------------------------------------------------------------
(* The inductive invariant behind the theorems of ActivitiesProofs: that of  *)
(* each component.  All of them take in the same activity.                  *)

DebateHolds == IF focus = "teams" THEN Teams!Teams ELSE Debate!Teams

ActivitiesInv ==
  /\ Poll!ActivityTypeOK
  /\ Poll!PollInv /\ Survey!SurveyInv /\ Board!BoardInv /\ Cloud!CloudInv
  /\ Review!ReviewInv /\ Queue!TypeOK /\ DebateHolds

----------------------------------------------------------------------------
(* Promises the code does not keep; TLC shows how, see the README           *)

\* What everybody was told is the activity is the activity.
AnnouncedIsCurrent == announced = activity

\* See CodeReview and QuizQueue.
LatestReviewWins == Review!LatestReviewWins
RemovesWhatWasShown == Queue!RemovesWhatWasShown
=============================================================================
