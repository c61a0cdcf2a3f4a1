----------------------------- MODULE Highlight -----------------------------
(***************************************************************************)
(* Marking a passage of ai-summary.md (daemon/summary/highlight.py, and the *)
(* handler of daemon/misc/router.py with its lock).  The host selects a     *)
(* word in the page it has; the daemon finds it in the file as it is now    *)
(* and writes the file back.  An AI edits the same file meanwhile.          *)
(*                                                                         *)
(* The text is a sequence of words with or without a mark.  A selection is  *)
(* one word, its context the word on either side; a mark's two tags and a   *)
(* word take one unit of offset each.                                       *)
(***************************************************************************)
EXTENDS Integers, Sequences, FiniteSets

CONSTANTS
  Words,      \* the vocabulary
  Nothing,
  MaxWords, MaxEdits, MaxSelections   \* bounds

HighlightAssumption == {MaxWords, MaxEdits, MaxSelections} \subseteq Nat \ {0}

VARIABLES
  file,       \* ai-summary.md
  page,       \* what the host's page was rendered from
  waiting,    \* selections that were sent and wait for the lock
  job,        \* the request that holds it: its anchor, what it read, what it writes
  edits, selections,
  words,      \* history: the words of the last edit
  raced,      \* history: an edit came between the second reading and the write
  misplaced   \* history: a word was marked that is not the selected one, though the page
              \* was rendered from the very text that was marked

vars == <<file, page, waiting, job, edits, selections, words, raced, misplaced>>

WordsOf(text) == [i \in DOMAIN text |-> text[i].word]
Unmarked(s) == [i \in DOMAIN s |-> [word |-> s[i], mark |-> FALSE]]

----------------------------------------------------------------------------
(* Pure functions: where the anchor points                                  *)

\* The offset of a word: what stands before it, and its own opening tag.
Offset(text, i) ==
  (i - 1) + 2 * Cardinality({j \in 1 .. i - 1 : text[j].mark}) + (IF text[i].mark THEN 1 ELSE 0)

Hits(text, word) == {i \in DOMAIN text : text[i].word = word}

\* What stands right beside a word: its own tag, another's, a word, or the end.
Before(text, i) ==
  IF text[i].mark \/ i = 1 \/ text[i - 1].mark THEN Nothing ELSE text[i - 1].word
After(text, i) ==
  IF text[i].mark \/ i = Len(text) \/ text[i + 1].mark THEN Nothing ELSE text[i + 1].word

\* The anchor the page sends for its i-th word.
AnchorOf(text, i) ==
  [word |-> text[i].word, before |-> Before(text, i), after |-> After(text, i),
   start |-> Offset(text, i), rev |-> text, at |-> i]

\* _context_score: how much of the context agrees.
ContextScore(text, i, a) ==
  Cardinality({d \in {"before", "after"} :
    \/ d = "before" /\ a.before # Nothing /\ a.before = Before(text, i)
    \/ d = "after" /\ a.after # Nothing /\ a.after = After(text, i)})

Distance(text, i, a) ==
  LET d == Offset(text, i) - a.start IN IF d < 0 THEN -d ELSE d

\* _pick_occurrence: the most context, then the nearest, then the first.
PickOccurrence(text, a) ==
  CHOOSE i \in Hits(text, a.word) :
    \A j \in Hits(text, a.word) :
      \/ ContextScore(text, i, a) > ContextScore(text, j, a)
      \/ /\ ContextScore(text, i, a) = ContextScore(text, j, a)
         /\ \/ Distance(text, i, a) < Distance(text, j, a)
            \/ Distance(text, i, a) = Distance(text, j, a) /\ i <= j

\* _find_span: the offsets as they are when the revision is the same, else the occurrence
\* that fits best; 0 when there is none.
FindSpan(text, a) ==
  IF Hits(text, a.word) = {} THEN 0
  ELSE IF a.rev = text THEN a.at ELSE PickOccurrence(text, a)

\* apply_highlight: the text with the mark, or as it is when it has it or nothing was found.
Marked(text, a) ==
  LET i == FindSpan(text, a) IN IF i = 0 THEN text ELSE [text EXCEPT ![i].mark = TRUE]

----------------------------------------------------------------------------
(* The host's page, the handler, the AI                                     *)

\* The page renders the file as it is now.
Render ==
  /\ page # file /\ page' = file
  /\ UNCHANGED <<file, waiting, job, edits, selections, words, raced, misplaced>>

\* A word is selected on the page: POST summary/highlight.
Select(i) ==
  /\ selections < MaxSelections /\ selections' = selections + 1
  /\ waiting' = waiting \cup {AnchorOf(page, i)}
  /\ UNCHANGED <<file, page, job, edits, words, raced, misplaced>>

\* The lock is taken and the file read: done when it would not change.
Read(a) ==
  /\ job = Nothing /\ waiting' = waiting \ {a}
  /\ job' = IF Marked(file, a) = file THEN Nothing
            ELSE [anchor |-> a, text |-> file, out |-> Marked(file, a), step |-> "again"]
  /\ UNCHANGED <<file, page, edits, selections, words, raced, misplaced>>

\* Rejected variant of ReadAgain: the file is not read again.
ReadOnce ==
  /\ job # Nothing /\ job.step = "again"
  /\ job' = [job EXCEPT !.step = "write"]
  /\ UNCHANGED <<file, page, waiting, edits, selections, words, raced, misplaced>>

\* The file is read once more: if it changed, the anchor is looked up in what it is now.
ReadAgain ==
  /\ job # Nothing /\ job.step = "again"
  /\ job' = IF job.text # file /\ Marked(file, job.anchor) = file THEN Nothing
            ELSE [job EXCEPT !.out = Marked(file, job.anchor), !.text = file, !.step = "write"]
  /\ UNCHANGED <<file, page, waiting, edits, selections, words, raced, misplaced>>

Write ==
  /\ job # Nothing /\ job.step = "write"
  /\ file' = job.out /\ job' = Nothing
  /\ misplaced' = (misplaced \/ (/\ job.anchor.rev = job.text
                                 /\ job.out # [job.text EXCEPT ![job.anchor.at].mark = TRUE]))
  /\ UNCHANGED <<page, waiting, edits, selections, words, raced>>

\* The AI edits the file: a word is put in, taken out, or another; marks stay.
TakenOut(text, i) == SubSeq(text, 1, i - 1) \o SubSeq(text, i + 1, Len(text))
PutIn(text, i, w) ==
  SubSeq(text, 1, i) \o <<[word |-> w, mark |-> FALSE]>> \o SubSeq(text, i + 1, Len(text))
Edits(text) ==
  {TakenOut(text, i) : i \in DOMAIN text}
  \cup {PutIn(text, i, w) : i \in 0 .. Len(text), w \in Words}

Edit(text) ==
  /\ edits < MaxEdits /\ edits' = edits + 1
  /\ text \in Edits(file) /\ Len(text) \in 1 .. MaxWords
  /\ file' = text /\ words' = WordsOf(text)
  /\ raced' = (raced \/ (job # Nothing /\ job.step = "write"))
  /\ UNCHANGED <<page, waiting, job, selections, misplaced>>

Init ==
  /\ \E n \in 1 .. MaxWords : \E s \in [1 .. n -> Words] : file = Unmarked(s)
  /\ page = file /\ words = WordsOf(file)
  /\ waiting = {} /\ job = Nothing /\ edits = 0 /\ selections = 0
  /\ raced = FALSE /\ misplaced = FALSE

Next ==
  \/ Render \/ ReadAgain \/ Write
  \/ \E i \in DOMAIN page : Select(i)
  \/ \E a \in waiting : Read(a)
  \/ \E text \in Edits(file) : Edit(text)

Spec == Init /\ [][Next]_vars

----------------------------------------------------------------------------
(* Properties                                                               *)

\* The variables have the types the code gives them.
TypeOK ==
  /\ \A i \in DOMAIN file : file[i].word \in Words /\ file[i].mark \in BOOLEAN
  /\ Len(file) \in 1 .. MaxWords
  /\ \A a \in waiting : a.start \in 0 .. 3 * MaxWords

\* highlight.py:234, "so the concurrent edit is folded in [...] rather than clobbered": unless
\* an edit comes after the second reading, a highlight changes marks and never words; and
\* what is marked in the text the page was rendered from is what was selected.
WordsSurvive == (~raced => WordsOf(file) = words) /\ ~misplaced

----------------------------------------------------------------------------
(* Promises the code does not keep; TLC shows how                           *)

\* misc/router.py:418: edits of an AI "are handled by the resolver's re-read + relocate", all of them.
EditsStay == WordsOf(file) = words

\* "a repeated short word": the word that is marked is the selected one when the words are
\* those of the page, whatever else was marked meanwhile.
RightOccurrence ==
  job # Nothing /\ WordsOf(job.text) = WordsOf(job.anchor.rev) =>
    job.out[job.anchor.at].mark

----------------------------------------------------------------------------
(* The inductive invariant behind the theorems of Records                   *)

Texts == Seq([word : Words, mark : BOOLEAN])

\* An anchor is of a word of the text that the page was rendered from.
IsAnchor(a) ==
  /\ a.rev \in Texts /\ a.at \in DOMAIN a.rev /\ a.word = a.rev[a.at].word
  /\ a.start \in 0 .. 3 * MaxWords

HighlightTypeOK ==
  /\ file \in Texts /\ page \in Texts /\ {Len(file), Len(page)} \subseteq 1 .. MaxWords
  /\ \A a \in waiting : IsAnchor(a)
  /\ {raced, misplaced} \subseteq BOOLEAN

\* What is about to be written is the text that was read with the mark, and that text is the
\* file as it is, unless an edit came between.
JobsAreOfTheFile ==
  job # Nothing =>
    /\ job \in [anchor : {job.anchor}, text : Texts, out : Texts, step : {"again", "write"}]
    /\ IsAnchor(job.anchor) /\ Len(job.text) \in 1 .. MaxWords
    /\ job.step = "write" => job.out = Marked(job.text, job.anchor) /\ (~raced => job.text = file)

HighlightInv == HighlightTypeOK /\ JobsAreOfTheFile /\ WordsSurvive
=============================================================================
