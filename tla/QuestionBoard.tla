--------------------------- MODULE QuestionBoard ----------------------------
(***************************************************************************)
(* Questions and answers on the daemon (daemon/qa/state.py,                 *)
(* daemon/qa/router.py): the questions of participants and host, their      *)
(* upvotes, and the list everybody is shown.  A handler changes what it     *)
(* changes before it awaits: one handler, one action.  Ids are never used   *)
(* again and stand for the timestamps too; the points (100 for a question,  *)
(* 25 and 50 for an upvote) are left to Quiz's AwardBonus.                  *)
(***************************************************************************)
EXTENDS Integers, FiniteSets, Sequences

CONSTANTS
  Pids,          \* participants, by uuid
  Host,          \* the author "__host__"
  MaxQuestions   \* bound on the questions ever asked

BoardAssumption == IsFiniteSet(Pids) /\ Host \notin Pids /\ MaxQuestions \in Nat

VARIABLES
  questions,   \* [id, author, up |-> upvoters, answered]
  asked,       \* history: questions ever asked
  board        \* the last qa_updated: <<id, upvote count>>, in order

vars == <<questions, asked, board>>

Ids == 1 .. MaxQuestions

\* _sorted_questions: most upvotes first, then the oldest.
Before(q, r) ==
  LET n == Cardinality(q.up)
      m == Cardinality(r.up)
  IN n > m \/ (n = m /\ q.id < r.id)

\* build_question_list_public: nobody's uuid, the upvotes as a number.
Public(Q) ==
  LET place(q) == 1 + Cardinality({r \in Q : Before(r, q)})
      at(k) == CHOOSE q \in Q : place(q) = k
  IN [k \in 1 .. Cardinality(Q) |-> <<at(k).id, Cardinality(at(k).up)>>]

\* _send_qa_events, and the events of a participant's call.
Show == board' = Public(questions')

----------------------------------------------------------------------------

\* POST qa/submit, of a participant in any activity, or of the host.
Submit(author) ==
  /\ asked < MaxQuestions /\ asked' = asked + 1
  /\ questions' = questions \cup
       {[id |-> asked + 1, author |-> author, up |-> {}, answered |-> FALSE]}
  /\ Show

\* POST qa/upvote: not one's own question, and once; else 409.
Upvote(q, p) ==
  /\ q.author # p /\ p \notin q.up
  /\ questions' = (questions \ {q}) \cup {[q EXCEPT !.up = @ \cup {p}]}
  /\ Show /\ UNCHANGED asked

\* PUT qa/question/../answered, DELETE qa/question, POST qa/clear; the text is left out.
ToggleAnswered(q, b) ==
  /\ questions' = (questions \ {q}) \cup {[q EXCEPT !.answered = b]}
  /\ Show /\ UNCHANGED asked
DeleteQuestion(q) == questions' = questions \ {q} /\ Show /\ UNCHANGED asked
ClearBoard == questions' = {} /\ Show /\ UNCHANGED asked

\* purge_participant: own questions and upvotes go; nothing is broadcast.
Purge(p) ==
  /\ questions' = {[q EXCEPT !.up = @ \ {p}] : q \in {r \in questions : r.author # p}}
  /\ UNCHANGED <<asked, board>>

Init == questions = {} /\ asked = 0 /\ board = <<>>

Next ==
  \/ ClearBoard
  \/ \E a \in Pids \cup {Host} : Submit(a)
  \/ \E p \in Pids : Purge(p)
  \/ \E q \in questions : DeleteQuestion(q) \/ \E b \in BOOLEAN : ToggleAnswered(q, b)
  \/ \E q \in questions, p \in Pids : Upvote(q, p)

Spec == Init /\ [][Next]_vars

----------------------------------------------------------------------------
(* Properties                                                               *)

\* The variables have the types the code gives them.
TypeOK ==
  /\ questions \subseteq [id : Ids, author : Pids \cup {Host}, up : SUBSET Pids,
                          answered : BOOLEAN]
  /\ asked \in 0 .. MaxQuestions /\ board \in Seq(Ids \X Nat)

\* An upvote was paid for (25 and 50 points), so it stays on its question until the
\* question goes or its voter is purged: editing, answering and the votes of others never
\* take it back, else it could be given, and paid, again.
PaidVotesStick ==
  [][\A q \in questions, p \in Pids :
       p \in q.up => \A r \in questions' : r.id = q.id => p \in r.up \/ Purge(p)]_vars

\* The list on the phones names no question twice and puts none above one with more votes,
\* and it never shows a vote too few: it is behind the board only by what a purge took.
BoardIsFair ==
  /\ \A i, j \in 1 .. Len(board) :
       i < j => /\ board[i][1] # board[j][1]
                /\ board[i][2] >= board[j][2]
  /\ \A q \in questions : \E i \in 1 .. Len(board) :
       board[i][1] = q.id /\ board[i][2] >= Cardinality(q.up)

----------------------------------------------------------------------------
(* The inductive invariant behind the theorems of ActivitiesProofs          *)

Question == [id : Ids, author : Pids \cup {Host}, up : SUBSET Pids, answered : BOOLEAN]

\* Questions have ids of their own, and the next one is new.
Numbered ==
  /\ \A q, r \in questions : q.id = r.id => q = r
  /\ \A q \in questions : q.id <= asked

BoardInv == TypeOK /\ IsFiniteSet(questions) /\ Numbered /\ BoardIsFair
=============================================================================
