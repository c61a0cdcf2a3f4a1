----------------------------- MODULE QuizQueue ------------------------------
(***************************************************************************)
(* The queue of prepared quiz questions (daemon/quiz_queue/queue.py,        *)
(* daemon/quiz_queue/router.py): submitted by a tool, shown on the panels   *)
(* of the host, who fires and removes them one by one, by position.  A      *)
(* panel is told that something changed and fetches the queue; a request    *)
(* to remove is under way while others change it.                           *)
(***************************************************************************)
EXTENDS Integers, Sequences, SequencesExt

CONSTANTS
  Panels,       \* host tabs
  Questions,    \* prepared questions
  MaxQueue      \* questions in one submission

QueueAssumption == MaxQueue \in Nat

VARIABLES
  queue,     \* QuizQueue._questions
  panel,     \* what each panel shows
  removing   \* requests under way: [at |-> index, question |-> what the panel showed]

vars == <<queue, panel, removing>>

Queues == UNION {[1 .. n -> Questions] : n \in 0 .. MaxQueue}

\* POST quiz/queue; DELETE quiz/queue is the submission of nothing.
Submit(q) == queue' = q /\ UNCHANGED <<panel, removing>>

\* quiz_queue_updated, and the fetch that follows.
Fetch(h) == panel' = [panel EXCEPT ![h] = queue] /\ UNCHANGED <<queue, removing>>

\* The host removes, or fires and then removes, the question at i.
AskRemoval(h, i) ==
  /\ \A r \in removing : r.panel # h      \* bound: one request per panel
  /\ removing' = removing \cup {[panel |-> h, at |-> i, question |-> panel[h][i]]}
  /\ UNCHANGED <<queue, panel>>

\* DELETE quiz/queue/{index}: whatever is there now; 404 beyond the end.
Removed(r) ==
  /\ removing' = removing \ {r}
  /\ queue' = IF r.at <= Len(queue) THEN RemoveAt(queue, r.at) ELSE queue
  /\ UNCHANGED panel

Init == queue = <<>> /\ panel = [h \in Panels |-> <<>>] /\ removing = {}

Next ==
  \/ \E q \in Queues : Submit(q)
  \/ \E h \in Panels : Fetch(h) \/ \E i \in 1 .. Len(panel[h]) : AskRemoval(h, i)
  \/ \E r \in removing : Removed(r)

Spec == Init /\ [][Next]_vars

----------------------------------------------------------------------------
(* Properties                                                               *)

\* The variables have the types the code gives them.
TypeOK ==
  /\ queue \in Queues /\ panel \in [Panels -> Queues]
  /\ removing \subseteq [panel : Panels, at : 1 .. MaxQueue, question : Questions]

----------------------------------------------------------------------------
(* A promise the code does not keep; TLC shows how, see the README          *)

\* What is removed is the question the host saw at that place when he asked.
RemovesWhatWasShown ==
  [][\A r \in removing :
       removing' = removing \ {r} /\ r.at <= Len(queue) => queue[r.at] = r.question]_vars
=============================================================================
