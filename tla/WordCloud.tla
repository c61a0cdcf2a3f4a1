----------------------------- MODULE WordCloud ------------------------------
(***************************************************************************)
(* The word cloud of the daemon (daemon/wordcloud/state.py,                 *)
(* daemon/wordcloud/router.py): words with their counts, the order they     *)
(* came in and a topic.  Words are taken as they are after strip and lower; *)
(* the 200 points for a word are left to Quiz's AwardBonus.                 *)
(***************************************************************************)
EXTENDS Activity, Sequences

CONSTANTS
  Words,      \* words one may send, stripped and in lower case
  MaxCount    \* bound on the count of one word

CloudAssumption == MaxCount \in Nat \ {0}

VARIABLES
  count,      \* WordCloudState.words, 0 = not in the dict
  order       \* word_order, newest first

cloudVars == <<count, order>>
vars == <<cloudVars, activityVars>>

Known == {w \in Words : count[w] > 0}

\* Rejected variant of AddWord: a known word comes first again.
AddWordAgain(w) ==
  /\ count[w] < MaxCount /\ count' = [count EXCEPT ![w] = @ + 1]
  /\ order' = <<w>> \o order

\* add_word: a new word goes first, a known one stays where it is.
AddWord(w) ==
  /\ count[w] < MaxCount /\ count' = [count EXCEPT ![w] = @ + 1]
  /\ order' = IF w \in Known THEN order ELSE <<w>> \o order

\* POST wordcloud/word of a participant; 409 when the word cloud is not the activity.
SubmitWord(w) == activity = "wordcloud" /\ AddWord(w) /\ UNCHANGED activityVars

\* POST host/wordcloud/word, in any activity.
HostWord(w) == AddWord(w) /\ UNCHANGED activityVars

\* POST host/wordcloud/clear, also of the topic.
ClearCloud ==
  /\ count' = [w \in Words |-> 0] /\ order' = <<>>
  /\ UNCHANGED activityVars

Init == count = [w \in Words |-> 0] /\ order = <<>> /\ ActivityInit

Next ==
  \/ \E w \in Words : SubmitWord(w) \/ HostWord(w)
  \/ ClearCloud
  \/ \E a \in {"none", "wordcloud"} : SetActivity(a) /\ UNCHANGED cloudVars

Spec == Init /\ [][Next]_vars

----------------------------------------------------------------------------
(* Properties                                                               *)

\* The variables have the types the code gives them.
TypeOK ==
  /\ count \in [Words -> 0 .. MaxCount] /\ order \in Seq(Words)
  /\ ActivityTypeOK

\* The two structures that make up the cloud agree: the order lists exactly the words that
\* have a count, each once.
CloudAgrees ==
  /\ {order[i] : i \in 1 .. Len(order)} = Known
  /\ Len(order) = Cardinality(Known)

----------------------------------------------------------------------------
(* The inductive invariant behind the theorems of ActivitiesProofs          *)

WordsTypeOK == count \in [Words -> 0 .. MaxCount] /\ order \in Seq(Words)
CloudInv == WordsTypeOK /\ IsFiniteSet(Known) /\ CloudAgrees
=============================================================================
